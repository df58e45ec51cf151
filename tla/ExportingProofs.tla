---------------------------- MODULE ExportingProofs ---------------------------
(***************************************************************************)
(* Theorems about storage management, for any tables, filters and number   *)
(* of concurrent requests, failures and crashes: ids stay unique, what an  *)
(* archive takes out of a table is in a file, and the audit log accounts   *)
(* for every row.                                                          *)
(***************************************************************************)
EXTENDS Exporting, FiniteSetTheorems, TLAPS

-----------------------------------------------------------------------------
(* Files *)

(* The cells of a table without a JSON column stay as they are. *)
IsPlain(t, file) == t \notin Numbered => \A l \in DOMAIN file : file[l].cell = "plain"

LEMMA NoRowsFile == IsFile(NoRows) /\ \A t : IsPlain(t, NoRows)
BY FS_EmptySet DEF IsFile, NoRows, IsPlain

LEMMA RestrictFile ==
    ASSUME NEW file, IsFile(file), NEW L \in SUBSET DOMAIN file
    PROVE  /\ IsFile(Restrict(file, L)) /\ DOMAIN Restrict(file, L) = L
           /\ \A l \in L : Restrict(file, L)[l] = file[l]
           /\ \A t : IsPlain(t, file) => IsPlain(t, Restrict(file, L))
<1>1. IsFiniteSet(L)
  BY FS_Subset DEF IsFile
<1>2. DOMAIN Restrict(file, L) = L /\ \A l \in L : Restrict(file, L)[l] = file[l]
  BY DEF Restrict
<1> QED
  BY <1>1, <1>2 DEF IsFile, IsPlain

(* A line has a rank among those of its file, in their order. *)
LEMMA RankRange ==
    ASSUME NEW file, IsFile(file), NEW l \in DOMAIN file
    PROVE  Rank(file, l) \in 1..Size(file)
<1> DEFINE B == {m \in DOMAIN file : m <= l}
<1>1. IsFiniteSet(DOMAIN file) /\ l \in Nat
  BY DEF IsFile
<1>2. IsFiniteSet(B) /\ Cardinality(B) <= Cardinality(DOMAIN file)
  BY <1>1, FS_Subset
<1>3. l \in B
  BY <1>1, SMT
<1>4. B # {}
  BY <1>3
<1>5. Cardinality(B) # 0 /\ Cardinality(B) \in Nat /\ Cardinality(DOMAIN file) \in Nat
  BY <1>1, <1>2, <1>4, FS_EmptySet, FS_CardinalityType
<1> HIDE DEF B
<1>6. Cardinality(B) \in 1..Cardinality(DOMAIN file)
  BY <1>2, <1>5, SMT
<1> QED
  BY <1>6 DEF Rank, Size, B

LEMMA RankGrows ==
    ASSUME NEW file, IsFile(file), NEW l \in DOMAIN file, NEW m \in DOMAIN file, l < m
    PROVE  Rank(file, l) < Rank(file, m)
<1> DEFINE B == {k \in DOMAIN file : k <= l}
           C == {k \in DOMAIN file : k <= m}
<1>1. IsFiniteSet(DOMAIN file) /\ DOMAIN file \subseteq Nat
  BY DEF IsFile
<1>2. B \subseteq C /\ m \in C /\ m \notin B
  BY <1>1, SMT
<1>3. IsFiniteSet(C)
  BY <1>1, FS_Subset
<1>4. IsFiniteSet(B) /\ Cardinality(B) <= Cardinality(C) /\ Cardinality(B) # Cardinality(C)
  BY <1>2, <1>3, FS_Subset
<1>5. Cardinality(B) \in Nat /\ Cardinality(C) \in Nat
  BY <1>3, <1>4, FS_CardinalityType
<1> HIDE DEF B, C
<1>6. Cardinality(B) < Cardinality(C)
  BY <1>4, <1>5, SMT
<1> QED
  BY <1>6 DEF Rank, B, C

LEMMA RankInjective ==
    ASSUME NEW file, IsFile(file), NEW l \in DOMAIN file, NEW m \in DOMAIN file,
           Rank(file, l) = Rank(file, m)
    PROVE  l = m
<1>1. l \in Nat /\ m \in Nat /\ Rank(file, l) \in Int /\ Rank(file, m) \in Int
  BY RankRange DEF IsFile
<1>2. ~(l < m) /\ ~(m < l)
  <2>1. \A a, b \in Int : a = b => ~(a < b) /\ ~(b < a)
    BY SMT
  <2> QED
    BY <1>1, <2>1, RankGrows
<1> QED
  BY <1>1, <1>2, SMT

LEMMA SizeType ==
    ASSUME NEW file, IsFile(file)
    PROVE  Size(file) \in Nat
BY FS_CardinalityType DEF IsFile, Size

(* The first rows of a file are those of the lowest ranks: all, if n allows it. *)
LEMMA FirstRowsFile ==
    ASSUME NEW file, IsFile(file), NEW n \in Nat
    PROVE  /\ IsFile(FirstRows(file, n)) /\ DOMAIN FirstRows(file, n) \subseteq DOMAIN file
           /\ \A t : IsPlain(t, file) => IsPlain(t, FirstRows(file, n))
           /\ Size(file) <= n => DOMAIN FirstRows(file, n) = DOMAIN file
<1> DEFINE L == {l \in DOMAIN file : Rank(file, l) <= n}
<1>1. L \in SUBSET DOMAIN file
  OBVIOUS
<1>2. ASSUME Size(file) <= n, NEW l \in DOMAIN file PROVE l \in L
  <2>1. Rank(file, l) \in 1..Size(file) /\ Size(file) \in Nat
    BY RankRange, SizeType
  <2>2. Rank(file, l) <= n
    BY <1>2, <2>1, SMT
  <2> QED
    BY <2>2
<1> HIDE DEF L
<1>3. FirstRows(file, n) = Restrict(file, L)
  BY DEF FirstRows, L
<1> QED
  BY <1>1, <1>2, <1>3, RestrictFile

-----------------------------------------------------------------------------
(* Types, and where rows are *)

(* A row is on the line of its id, and no line is above the last id. *)
TableOK(t) ==
    /\ IsFile(store[t]) /\ IsPlain(t, store[t])
    /\ \A l \in DOMAIN store[t] : store[t][l].id = l /\ l <= lastId[t]

TablesOK ==
    /\ DOMAIN store = Tables
    /\ lastId \in [Tables -> Nat] /\ made \in [Tables -> Nat]
    /\ running \subseteq Numbered \X Keys
    /\ \A t \in Tables : TableOK(t)

ArchivesOK ==
    /\ DOMAIN archives \subseteq [table : Tables, before : Nat, ts : Nat]
    /\ \A n \in DOMAIN archives : IsFile(archives[n]) /\ IsPlain(n.table, archives[n])

Labels == {"idle", "file", "remove", "insert", "record"}

(* A request in progress is of its kind, and has rows of its table. *)
ClientOK(c) ==
    /\ IsFile(sel[c])
    /\ pc[c] # "idle" => req[c].table \in Tables /\ IsPlain(req[c].table, sel[c])
    /\ pc[c] = "file" => req[c].kind = "archive" /\ req[c].before \in Nat
    /\ pc[c] = "remove" => req[c].kind \in {"delete", "archive"}
    /\ pc[c] = "insert" => req[c].kind = "restore"

ClientsOK ==
    /\ pc \in [Clients -> Labels] /\ count \in [Clients -> Nat]
    /\ DOMAIN req = Clients /\ DOMAIN sel = Clients
    /\ \A c \in Clients : ClientOK(c)

LogOK ==
    /\ audit \in [Tables -> [deleted : Nat, restored : Nat]]
    /\ now \in Nat /\ requests \in Nat /\ faults \in Nat

TypeInv == TablesOK /\ ArchivesOK /\ ClientsOK /\ LogOK

LEMMA TypeInvType == TypeInv => TypeOK
BY DEF TypeInv, TablesOK, TableOK, ArchivesOK, ClientsOK, ClientOK, LogOK, Labels, TypeOK,
   IsPlain

LEMMA TypeInit == Init => TypeInv
<1> SUFFICES ASSUME Init PROVE TypeInv
  OBVIOUS
<1>1. TablesOK
  BY NoRowsFile DEF Init, TablesOK, TableOK, NoRows
<1>2. ArchivesOK
  BY DEF Init, ArchivesOK
<1>3. ClientsOK
  BY NoRowsFile DEF Init, ClientsOK, ClientOK, Labels
<1>4. LogOK
  BY DEF Init, LogOK
<1> QED
  BY <1>1, <1>2, <1>3, <1>4 DEF TypeInv

(* What Make leaves on the lines of its table. *)
LEMMA MadeLines ==
    ASSUME TablesOK, NEW t \in Tables, NEW k \in Keys, NEW at \in Nat \union {Undated},
           Make(t, k, at)
    PROVE  /\ DOMAIN store' = Tables
           /\ DOMAIN store'[t] = DOMAIN store[t] \union {lastId[t] + 1}
           /\ lastId[t] + 1 \notin DOMAIN store[t]
           /\ \A l \in DOMAIN store[t] : store'[t][l] = store[t][l]
           /\ store'[t][lastId[t] + 1] \in Row
           /\ store'[t][lastId[t] + 1].id = lastId[t] + 1
           /\ store'[t][lastId[t] + 1].cell = CellOf(t)
           /\ \A u \in Tables \ {t} : /\ store'[u] = store[u] /\ lastId'[u] = lastId[u]
                                      /\ made'[u] = made[u]
           /\ lastId' \in [Tables -> Nat] /\ lastId'[t] = lastId[t] + 1
           /\ made' \in [Tables -> Nat] /\ made'[t] = made[t] + 1
<1> DEFINE line == lastId[t] + 1
           row == [id |-> lastId[t] + 1, key |-> k, at |-> at, cell |-> CellOf(t),
                   orig |-> made[t] + 1]
<1>1. /\ made' = [made EXCEPT ![t] = @ + 1] /\ lastId' = [lastId EXCEPT ![t] = @ + 1]
      /\ store' = [store EXCEPT ![t] =
           [l \in DOMAIN @ \union {line} |-> IF l = line THEN row ELSE @[l]]]
  BY DEF Make
<1>2. /\ DOMAIN store = Tables /\ lastId \in [Tables -> Nat] /\ made \in [Tables -> Nat]
      /\ \A l \in DOMAIN store[t] : l \in Nat /\ l <= lastId[t]
  BY DEF TablesOK, TableOK, IsFile
<1>3. line \notin DOMAIN store[t]
  BY <1>2, SMT
<1>4. line \in Nat \ {0} /\ made[t] + 1 \in Nat \ {0}
  BY <1>2, SMT
<1>5. CellOf(t) \in Cells
  BY DEF CellOf, Cells
<1>6. row \in Row /\ row.id = line /\ row.cell = CellOf(t)
  BY <1>4, <1>5 DEF Row
<1> HIDE DEF row
<1>7. store'[t] = [l \in DOMAIN store[t] \union {line} |-> IF l = line THEN row ELSE store[t][l]]
  BY <1>1, <1>2
<1>8. /\ lastId' \in [Tables -> Nat] /\ lastId'[t] = lastId[t] + 1
      /\ made' \in [Tables -> Nat] /\ made'[t] = made[t] + 1
  BY <1>1, <1>2
<1> HIDE DEF line
<1>9. /\ DOMAIN store'[t] = DOMAIN store[t] \union {line} /\ store'[t][line] = row
      /\ \A l \in DOMAIN store[t] : store'[t][l] = store[t][l]
  BY <1>3, <1>7
<1>10. DOMAIN store' = Tables
       /\ \A u \in Tables \ {t} : /\ store'[u] = store[u] /\ lastId'[u] = lastId[u]
                                  /\ made'[u] = made[u]
  BY <1>1, <1>2
<1> QED
  BY <1>3, <1>6, <1>8, <1>9, <1>10 DEF line

LEMMA TablesMade ==
    ASSUME TablesOK, NEW t \in Tables, NEW k \in Keys, NEW at \in Nat \union {Undated},
           Make(t, k, at), running' \subseteq Numbered \X Keys
    PROVE  TablesOK'
<1> DEFINE line == lastId[t] + 1
<1>1. /\ DOMAIN store' = Tables
      /\ DOMAIN store'[t] = DOMAIN store[t] \union {line}
      /\ \A l \in DOMAIN store[t] : store'[t][l] = store[t][l]
      /\ store'[t][line] \in Row /\ store'[t][line].id = line
      /\ store'[t][line].cell = CellOf(t)
      /\ \A u \in Tables \ {t} : store'[u] = store[u] /\ lastId'[u] = lastId[u]
      /\ lastId' \in [Tables -> Nat] /\ lastId'[t] = line
      /\ made' \in [Tables -> Nat]
  BY MadeLines
<1>2. TableOK(t) /\ lastId[t] \in Nat
  BY DEF TablesOK
<1>3. line \in Nat \ {0} /\ line <= line /\ \A l \in Nat : l <= lastId[t] => l <= line
  BY <1>2, SMT
<1>4. IsFiniteSet(DOMAIN store'[t])
  BY <1>1, <1>2, FS_AddElement DEF TableOK, IsFile
<1> HIDE DEF line
<1>5. IsFile(store'[t])
  BY <1>1, <1>2, <1>3, <1>4 DEF TableOK, IsFile
<1>6. IsPlain(t, store'[t])
  BY <1>1, <1>2 DEF TableOK, IsPlain, CellOf
<1>7. \A l \in DOMAIN store'[t] : store'[t][l].id = l /\ l <= lastId'[t]
  BY <1>1, <1>2, <1>3 DEF TableOK, IsFile
<1>8. ASSUME NEW u \in Tables PROVE TableOK(u)'
  <2>1. CASE u = t
    BY <1>5, <1>6, <1>7, <2>1 DEF TableOK
  <2>2. CASE u # t
    BY <1>1, <2>2 DEF TablesOK, TableOK
  <2> QED
    BY <2>1, <2>2
<1> QED
  BY <1>1, <1>8 DEF TablesOK

(* An upsert that finds its row changes a cell or a date, and nothing else. *)
SameRows(t) ==
    /\ DOMAIN store'[t] = DOMAIN store[t]
    /\ \A l \in DOMAIN store[t] : /\ store'[t][l].id = store[t][l].id
                                  /\ store'[t][l].orig = store[t][l].orig

LEMMA TablesUpserted ==
    ASSUME TablesOK, NEW t \in Tables, NEW l,
           \/ store' = [store EXCEPT ![t][l].cell = CellOf(t)]
           \/ \E at \in Nat : store' = [store EXCEPT ![t][l].at = at],
           UNCHANGED <<lastId, made>>, running' \subseteq Numbered \X Keys
    PROVE  TablesOK' /\ \A u \in Tables : SameRows(u)
<1>1. DOMAIN store = Tables /\ TableOK(t)
  BY DEF TablesOK
<1>2. \A m \in DOMAIN store[t] : store[t][m] \in Row
  BY <1>1 DEF TableOK, IsFile
<1>3. /\ DOMAIN store' = Tables /\ DOMAIN store'[t] = DOMAIN store[t]
      /\ \A u \in Tables \ {t} : store'[u] = store[u]
  BY <1>1
<1>4. ASSUME NEW m \in DOMAIN store[t]
      PROVE  /\ store'[t][m] \in Row /\ store'[t][m].id = store[t][m].id
             /\ store'[t][m].orig = store[t][m].orig
             /\ store'[t][m].cell \in {store[t][m].cell, CellOf(t)}
  <2>1. CASE m # l
    <3>1. store'[t][m] = store[t][m]
      BY <1>1, <2>1
    <3> QED
      BY <1>2, <3>1
  <2>2. CASE m = l /\ store' = [store EXCEPT ![t][l].cell = CellOf(t)]
    <3>1. store'[t][m] = [store[t][m] EXCEPT !.cell = CellOf(t)]
      BY <1>1, <2>2
    <3>2. CellOf(t) \in Cells
      BY DEF CellOf, Cells
    <3> QED
      BY <1>2, <3>1, <3>2 DEF Row
  <2>3. CASE m = l /\ \E at \in Nat : store' = [store EXCEPT ![t][l].at = at]
    <3>1. PICK at \in Nat : store' = [store EXCEPT ![t][l].at = at]
      BY <2>3
    <3>2. store'[t][m] = [store[t][m] EXCEPT !.at = at]
      BY <1>1, <2>3, <3>1
    <3> QED
      BY <1>2, <3>2 DEF Row
  <2> QED
    BY <2>1, <2>2, <2>3
<1>5. ASSUME NEW u \in Tables PROVE TableOK(u)' /\ SameRows(u)
  <2>1. CASE u # t
    BY <1>3, <2>1 DEF TablesOK, TableOK, SameRows
  <2>2. CASE u = t
    <3>1. IsFile(store'[t])
      BY <1>1, <1>3, <1>4 DEF TableOK, IsFile
    <3>2. IsPlain(t, store'[t])
      BY <1>1, <1>3, <1>4 DEF TableOK, IsPlain, CellOf
    <3> QED
      BY <1>1, <1>3, <1>4, <2>2, <3>1, <3>2 DEF TableOK, SameRows
  <2> QED
    BY <2>1, <2>2
<1> QED
  BY <1>3, <1>5 DEF TablesOK

(* The lines of the first n rows that an insert stores. *)
NewLines(c, n) == {NewId(c, l) : l \in DOMAIN FirstRows(sel[c], n)}

(* What InsertFirst leaves on the lines of its table: as many new ones as it   *)
(* inserts rows, above every other.                                            *)
Inserts(c, n, t, new) ==
    /\ t \in Tables /\ DOMAIN store' = Tables
    /\ DOMAIN store'[t] = DOMAIN store[t] \union new
    /\ new \intersect DOMAIN store[t] = {} /\ new \subseteq Nat \ {0}
    /\ IsFiniteSet(new) /\ Cardinality(new) = Size(FirstRows(sel[c], n))
    /\ \A l \in DOMAIN store[t] : store'[t][l] = store[t][l]
    /\ \A m \in new : /\ store'[t][m] \in Row /\ store'[t][m].id = m
                      /\ m <= lastId'[t] /\ m > lastId[t]
                      /\ t \notin Numbered => store'[t][m].cell = "plain"
    /\ \A u \in Tables \ {t} : store'[u] = store[u] /\ lastId'[u] = lastId[u]
    /\ lastId' \in [Tables -> Nat] /\ lastId'[t] = lastId[t] + Size(sel[c])
    /\ UNCHANGED <<made, running>>

LEMMA InsertedLines ==
    ASSUME TypeInv, NEW c \in Clients, pc[c] = "insert", NEW n \in Nat, InsertFirst(c, n)
    PROVE  Inserts(c, n, req[c].table, NewLines(c, n))
<1> SUFFICES ASSUME NEW t, t = req[c].table, NEW new, new = NewLines(c, n)
             PROVE  Inserts(c, n, t, new)
  OBVIOUS
<1> DEFINE L == DOMAIN FirstRows(sel[c], n)
           f == [l \in L |-> NewId(c, l)]
<1>0. new = {NewId(c, l) : l \in L}
  BY DEF NewLines
<1>1. /\ TablesOK /\ ClientOK(c)
  BY DEF TypeInv, ClientsOK
<1>2. /\ IsFile(sel[c]) /\ t \in Tables /\ IsPlain(t, sel[c]) /\ TableOK(t)
      /\ DOMAIN store = Tables /\ lastId \in [Tables -> Nat] /\ lastId[t] \in Nat
  BY <1>1 DEF ClientOK, TablesOK
<1>3. L \subseteq DOMAIN sel[c] /\ IsFile(FirstRows(sel[c], n)) /\ IsFiniteSet(L)
  BY <1>2, FirstRowsFile DEF IsFile
<1>4. Size(sel[c]) \in Nat
  BY <1>2, SizeType
<1>5. ASSUME NEW l \in L
      PROVE  /\ NewId(c, l) \in Nat \ {0} /\ NewId(c, l) > lastId[t]
             /\ NewId(c, l) <= lastId[t] + Size(sel[c])
  <2>1. Rank(sel[c], l) \in 1..Size(sel[c])
    BY <1>2, <1>3, RankRange
  <2>2. NewId(c, l) = lastId[t] + Rank(sel[c], l)
    BY DEF NewId
  <2> QED
    BY <1>2, <1>4, <2>1, <2>2, SMT
<1>6. /\ lastId' = [lastId EXCEPT ![t] = @ + Size(sel[c])]
      /\ store' = [store EXCEPT ![t] =
           [m \in DOMAIN @ \union new |->
              IF m \in DOMAIN @ THEN @[m]
              ELSE Restored(c, CHOOSE l \in L : NewId(c, l) = m)]]
      /\ UNCHANGED <<made, running>>
  BY <1>0 DEF InsertFirst
<1>7. /\ lastId' \in [Tables -> Nat] /\ lastId'[t] = lastId[t] + Size(sel[c])
      /\ \A u \in Tables \ {t} : store'[u] = store[u] /\ lastId'[u] = lastId[u]
      /\ DOMAIN store' = Tables
  BY <1>2, <1>4, <1>6
<1>8. store'[t] = [m \in DOMAIN store[t] \union new |->
                     IF m \in DOMAIN store[t] THEN store[t][m]
                     ELSE Restored(c, CHOOSE l \in L : NewId(c, l) = m)]
  BY <1>2, <1>6
<1>9. \A m \in new : m \in Nat \ {0} /\ m > lastId[t] /\ m <= lastId[t] + Size(sel[c])
  BY <1>0, <1>5
<1>10. new \intersect DOMAIN store[t] = {}
  <2>1. \A l \in DOMAIN store[t] : l \in Nat /\ l <= lastId[t]
    BY <1>2 DEF TableOK, IsFile
  <2>2. \A a, b \in Nat : ~(a <= b /\ a > b)
    BY SMT
  <2> QED
    BY <1>2, <1>9, <2>1, <2>2
<1>11. IsFiniteSet(new) /\ Cardinality(new) = Size(FirstRows(sel[c], n))
  <2>1. f \in Surjection(L, new)
    BY <1>0 DEF Surjection
  <2>2. ASSUME NEW l \in L, NEW m \in L, f[l] = f[m] PROVE l = m
    <3>1. lastId[t] + Rank(sel[c], l) = lastId[t] + Rank(sel[c], m)
      BY <2>2 DEF NewId
    <3>2. Rank(sel[c], l) \in Int /\ Rank(sel[c], m) \in Int
      BY <1>2, <1>3, RankRange
    <3>3. Rank(sel[c], l) = Rank(sel[c], m)
      BY <1>2, <3>1, <3>2, SMT
    <3> QED
      BY <1>2, <1>3, <3>3, RankInjective
  <2>3. f \in Injection(L, new)
    BY <2>1, <2>2 DEF Injection, Surjection, IsInjective
  <2> QED
    BY <1>3, <2>1, <2>3, FS_Surjection DEF Size
<1>12. ASSUME NEW m \in new
       PROVE  /\ store'[t][m] \in Row /\ store'[t][m].id = m
              /\ t \notin Numbered => store'[t][m].cell = "plain"
  <2> DEFINE l == CHOOSE k \in L : NewId(c, k) = m
  <2>1. l \in L /\ NewId(c, l) = m
    BY <1>0, <1>12
  <2>2. store'[t][m] = Restored(c, l)
    BY <1>8, <1>10
  <2>3. sel[c][l] \in Row /\ m \in Nat \ {0}
    BY <1>2, <1>3, <1>9, <2>1 DEF IsFile
  <2> HIDE DEF l
  <2>4. /\ FromArchive(sel[c][l].cell) \in Cells
        /\ sel[c][l].cell = "plain" => FromArchive(sel[c][l].cell) = "plain"
    BY DEF FromArchive, Cells
  <2>5. Restored(c, l) \in Row /\ Restored(c, l).id = m
        /\ Restored(c, l).cell = FromArchive(sel[c][l].cell)
    BY <2>1, <2>3, <2>4 DEF Restored, Row
  <2>6. t \notin Numbered => sel[c][l].cell = "plain"
    BY <1>2, <1>3, <2>1 DEF IsPlain
  <2> QED
    BY <2>2, <2>4, <2>5, <2>6
<1>13. DOMAIN store'[t] = DOMAIN store[t] \union new
       /\ \A l \in DOMAIN store[t] : store'[t][l] = store[t][l]
  BY <1>8
<1> HIDE DEF L, f
<1>14. \A m \in new : m <= lastId'[t] /\ m > lastId[t] /\ m \in Nat \ {0}
  BY <1>7, <1>9
<1>15. new \subseteq Nat \ {0}
  BY <1>14
<1> QED
  BY <1>2, <1>6, <1>7, <1>10, <1>11, <1>12, <1>13, <1>14, <1>15 DEF Inserts

LEMMA TablesInserted ==
    ASSUME TypeInv, NEW c \in Clients, pc[c] = "insert", NEW n \in Nat, InsertFirst(c, n)
    PROVE  TablesOK'
<1> SUFFICES ASSUME NEW t, t = req[c].table, NEW new, new = NewLines(c, n)
             PROVE  TablesOK'
  OBVIOUS
<1>1. Inserts(c, n, t, new)
  BY InsertedLines
<1>2. TablesOK /\ TableOK(t) /\ lastId[t] \in Nat /\ Size(sel[c]) \in Nat
  BY <1>1, SizeType DEF Inserts, TypeInv, TablesOK, ClientsOK, ClientOK
<1>3. IsFiniteSet(DOMAIN store'[t])
  <2>1. IsFiniteSet(DOMAIN store[t]) /\ IsFiniteSet(new)
    BY <1>1, <1>2 DEF Inserts, TableOK, IsFile
  <2>2. IsFiniteSet(DOMAIN store[t] \union new)
    BY <2>1, FS_Union
  <2> QED
    BY <1>1, <2>2 DEF Inserts
<1>4. IsFile(store'[t]) /\ IsPlain(t, store'[t])
  BY <1>1, <1>2, <1>3 DEF Inserts, TableOK, IsFile, IsPlain
<1>5. \A l \in DOMAIN store'[t] : store'[t][l].id = l /\ l <= lastId'[t]
  <2>1. \A l \in Nat : l <= lastId[t] => l <= lastId'[t]
    BY <1>1, <1>2, SMT DEF Inserts
  <2> QED
    BY <1>1, <1>2, <2>1 DEF Inserts, TableOK, IsFile
<1>6. ASSUME NEW u \in Tables PROVE TableOK(u)'
  <2>1. CASE u = t
    BY <1>4, <1>5, <2>1 DEF TableOK
  <2>2. CASE u # t
    BY <1>1, <1>2, <2>2 DEF Inserts, TablesOK, TableOK
  <2> QED
    BY <2>1, <2>2
<1> QED
  BY <1>1, <1>2, <1>6 DEF Inserts, TablesOK

(* A deletion leaves the other lines of its table as they are. *)
LEMMA RemovedLines ==
    ASSUME TypeInv, NEW c \in Clients, Remove(c), NEW t, t = req[c].table
    PROVE  /\ t \in Tables /\ DOMAIN store' = Tables
           /\ DOMAIN store'[t] \subseteq DOMAIN store[t]
           /\ \A l \in DOMAIN store'[t] : store'[t][l] = store[t][l]
           /\ \A l \in DOMAIN store[t] : l \notin DOMAIN store'[t] => Doomed(c, store[t][l])
           /\ \A u \in Tables \ {t} : store'[u] = store[u]
           /\ TablesOK'
<1>1. /\ pc[c] = "remove" /\ store' = [store EXCEPT ![t] = Kept(c)]
      /\ UNCHANGED <<lastId, made, running>>
  BY DEF Remove
<1>2. t \in Tables /\ DOMAIN store = Tables /\ TableOK(t) /\ TablesOK
  BY <1>1 DEF TypeInv, TablesOK, ClientsOK, ClientOK
<1>3. /\ IsFile(Kept(c)) /\ DOMAIN Kept(c) = {l \in DOMAIN store[t] : ~Doomed(c, store[t][l])}
      /\ \A l \in DOMAIN Kept(c) : Kept(c)[l] = store[t][l]
      /\ IsPlain(t, Kept(c))
  <2> DEFINE K == {l \in DOMAIN store[t] : ~Doomed(c, store[t][l])}
  <2>1. Kept(c) = Restrict(store[t], K)
    BY DEF Kept
  <2>2. K \in SUBSET DOMAIN store[t] /\ IsFile(store[t]) /\ IsPlain(t, store[t])
    BY <1>2 DEF TableOK
  <2> HIDE DEF K
  <2>3. /\ IsFile(Kept(c)) /\ DOMAIN Kept(c) = K /\ IsPlain(t, Kept(c))
        /\ \A l \in K : Kept(c)[l] = store[t][l]
    BY <2>1, <2>2, RestrictFile
  <2> QED
    BY <2>3 DEF K
<1>4. store'[t] = Kept(c) /\ DOMAIN store' = Tables
      /\ \A u \in Tables \ {t} : store'[u] = store[u]
  BY <1>1, <1>2
<1>5. ASSUME NEW u \in Tables PROVE TableOK(u)'
  <2>1. CASE u = t
    BY <1>1, <1>2, <1>3, <1>4, <2>1 DEF TableOK
  <2>2. CASE u # t
    BY <1>1, <1>2, <1>4, <2>2 DEF TablesOK, TableOK
  <2> QED
    BY <2>1, <2>2
<1>6. TablesOK'
  BY <1>1, <1>2, <1>4, <1>5 DEF TablesOK
<1> QED
  BY <1>2, <1>3, <1>4, <1>6

(* A delete returns how many lines it took away. *)
LEMMA RemovedCount ==
    ASSUME TypeInv, NEW c \in Clients, Remove(c), NEW t, t = req[c].table
    PROVE  /\ count' = [count EXCEPT ![c] = Size(store[t]) - Size(store'[t])]
           /\ Size(store[t]) - Size(store'[t]) \in Nat
           /\ count' \in [Clients -> Nat]
<1>1. /\ t \in Tables /\ DOMAIN store'[t] \subseteq DOMAIN store[t]
      /\ DOMAIN store = Tables /\ IsFile(store[t]) /\ count \in [Clients -> Nat]
  BY RemovedLines DEF TypeInv, TablesOK, TableOK, ClientsOK
<1>2. store'[t] = Kept(c)
  BY <1>1 DEF Remove
<1>3. count' = [count EXCEPT ![c] = Size(store[t]) - Size(store'[t])]
  BY <1>2 DEF Remove, DeletedCount
<1>4. IsFiniteSet(DOMAIN store[t])
  BY <1>1 DEF IsFile
<1>5. /\ Cardinality(DOMAIN store'[t]) <= Cardinality(DOMAIN store[t])
      /\ Cardinality(DOMAIN store[t]) \in Nat /\ Cardinality(DOMAIN store'[t]) \in Nat
  BY <1>1, <1>4, FS_Subset, FS_CardinalityType
<1>6. \A a, b \in Nat : a <= b => b - a \in Nat
  BY SMT
<1>7. Size(store[t]) - Size(store'[t]) \in Nat
  BY <1>5, <1>6 DEF Size
<1> QED
  BY <1>1, <1>3, <1>7

(* A step of a run or schedule writes one table: a new row, or one cell or date. *)
LEMMA WrittenByRun ==
    ASSUME TypeInv, NEW t \in Tables, NEW k \in KeysOf[t],
           OpenTrigger(t, k) \/ CloseTrigger(t, k) \/ Schedule(t, k)
    PROVE  /\ TablesOK' /\ UNCHANGED <<archives, audit, now, clients, requests, faults>>
           /\ \/ \E at \in Nat \union {Undated} : Make(t, k, at)
              \/ (\A u \in Tables : SameRows(u)) /\ UNCHANGED <<lastId, made>>
<1>1. /\ TablesOK /\ running \subseteq Numbered \X Keys /\ now \in Nat /\ k \in Keys
      /\ Undated \in Nat \union {Undated}
  BY TableAssumption DEF TypeInv, TablesOK, LogOK
<1>2. CASE OpenTrigger(t, k)
  <2>1. Make(t, k, now) /\ running' \subseteq Numbered \X Keys
    BY <1>1, <1>2 DEF OpenTrigger
  <2> QED
    BY <1>1, <1>2, <2>1, TablesMade DEF OpenTrigger
<1>3. CASE CloseTrigger(t, k)
  <2>1. running' \subseteq Numbered \X Keys
    BY <1>1, <1>3 DEF CloseTrigger
  <2>2. CASE Lines(t, k) # {}
    <3>1. /\ store' = [store EXCEPT ![t][First(Lines(t, k))].cell = CellOf(t)]
          /\ UNCHANGED <<lastId, made>>
      BY <1>3, <2>2 DEF CloseTrigger
    <3> QED
      BY <1>1, <1>3, <2>1, <3>1, TablesUpserted DEF CloseTrigger
  <2>3. CASE Lines(t, k) = {}
    <3>1. Make(t, k, Undated)
      BY <1>3, <2>3 DEF CloseTrigger
    <3> QED
      BY <1>1, <1>3, <2>1, <3>1, TablesMade DEF CloseTrigger
  <2> QED
    BY <2>2, <2>3
<1>4. CASE Schedule(t, k)
  <2>1. running' \subseteq Numbered \X Keys
    BY <1>1, <1>4 DEF Schedule
  <2>2. CASE Lines(t, k) # {}
    <3>1. /\ \E at \in Nat : store' = [store EXCEPT ![t][First(Lines(t, k))].at = at]
          /\ UNCHANGED <<lastId, made>>
      BY <1>1, <1>4, <2>2 DEF Schedule
    <3> QED
      BY <1>1, <1>4, <2>1, <3>1, TablesUpserted DEF Schedule
  <2>3. CASE Lines(t, k) = {}
    <3>1. Make(t, k, now)
      BY <1>4, <2>3 DEF Schedule
    <3> QED
      BY <1>1, <1>4, <2>1, <3>1, TablesMade DEF Schedule
  <2> QED
    BY <2>2, <2>3
<1> QED
  BY <1>2, <1>3, <1>4

LEMMA TablesSame == TablesOK /\ UNCHANGED tables => TablesOK'
BY DEF TablesOK, TableOK, tables

LEMMA ClientsSame == ClientsOK /\ UNCHANGED clients => ClientsOK'
BY DEF ClientsOK, ClientOK, clients

(* A request begins with rows of the table it names. *)
LEMMA BegunRequest ==
    ASSUME TypeInv, NEW c \in Clients, NEW r, NEW rows, NEW next \in Labels,
           Begin(c, r, rows, next), IsFile(rows), r.table \in Tables, IsPlain(r.table, rows),
           next = "file" => r.kind = "archive" /\ r.before \in Nat,
           next = "remove" => r.kind \in {"delete", "archive"},
           next = "insert" => r.kind = "restore"
    PROVE  TypeInv'
<1>1. /\ pc' = [pc EXCEPT ![c] = next]
      /\ req' = [req EXCEPT ![c] = IF next = "idle" THEN NoRequest ELSE r]
      /\ sel' = [sel EXCEPT ![c] = IF next = "idle" THEN NoRows ELSE rows]
      /\ UNCHANGED <<tables, archives, audit, now, count, faults>> /\ requests' = requests + 1
  BY DEF Begin
<1>2. ASSUME NEW d \in Clients PROVE ClientOK(d)'
  <2>1. CASE d = c
    BY <1>1, <2>1, NoRowsFile DEF TypeInv, ClientsOK, ClientOK
  <2>2. CASE d # c
    BY <1>1, <2>2 DEF TypeInv, ClientsOK, ClientOK
  <2> QED
    BY <2>1, <2>2
<1>3. ClientsOK'
  BY <1>1, <1>2 DEF TypeInv, ClientsOK
<1> QED
  BY <1>1, <1>3, TablesSame DEF TypeInv, ArchivesOK, LogOK

LEMMA DeleteBegins ==
    ASSUME TypeInv, NEW c \in Clients, NEW t \in Tables, NEW f, Delete(c, t, f)
    PROVE  TypeInv'
<1> DEFINE S == {l \in DOMAIN store[t] : Matches(t, f, store[t][l])}
           r == [kind |-> "delete", table |-> t, filter |-> f]
<1>1. S \in SUBSET DOMAIN store[t] /\ IsFile(store[t]) /\ IsPlain(t, store[t])
  BY DEF TypeInv, TablesOK, TableOK
<1>2. Begin(c, r, Restrict(store[t], S), "remove")
  BY DEF Delete
<1>3. r.table = t /\ r.kind = "delete" /\ "remove" \in Labels
  BY DEF Labels
<1> HIDE DEF S, r
<1>4. IsFile(Restrict(store[t], S)) /\ IsPlain(t, Restrict(store[t], S))
  BY <1>1, RestrictFile
<1> QED
  BY <1>2, <1>3, <1>4, BegunRequest

LEMMA ArchiveBegins ==
    ASSUME TypeInv, NEW c \in Clients, NEW t \in Tables, NEW before \in Befores,
           Archive(c, t, before)
    PROVE  TypeInv'
<1> DEFINE S == {l \in DOMAIN store[t] : store[t][l].at < before}
           r == [kind |-> "archive", table |-> t, before |-> before]
           next == IF S = {} THEN "idle" ELSE "file"
<1>1. S \in SUBSET DOMAIN store[t] /\ IsFile(store[t]) /\ IsPlain(t, store[t])
  BY DEF TypeInv, TablesOK, TableOK
<1>2. Begin(c, r, Restrict(store[t], S), next)
  BY DEF Archive
<1>3. /\ r.table = t /\ r.kind = "archive" /\ r.before \in Nat
      /\ next \in Labels /\ next \in {"idle", "file"}
  BY DateAssumption DEF Labels
<1> HIDE DEF S, r, next
<1>4. IsFile(Restrict(store[t], S)) /\ IsPlain(t, Restrict(store[t], S))
  BY <1>1, RestrictFile
<1> QED
  BY <1>2, <1>3, <1>4, BegunRequest

LEMMA RestoreBegins ==
    ASSUME TypeInv, NEW c \in Clients, NEW name \in DOMAIN archives, Restore(c, name)
    PROVE  TypeInv'
<1> DEFINE r == [kind |-> "restore", table |-> name.table, file |-> name]
<1>1. IsFile(archives[name]) /\ IsPlain(name.table, archives[name]) /\ name.table \in Tables
  BY DEF TypeInv, ArchivesOK
<1>2. Begin(c, r, archives[name], "insert")
  BY DEF Restore
<1>3. r.table = name.table /\ r.kind = "restore" /\ "insert" \in Labels
  BY DEF Labels
<1> HIDE DEF r
<1> QED
  BY <1>1, <1>2, <1>3, BegunRequest

(* A file that is written is one of its table. *)
LEMMA FileWritten ==
    ASSUME TypeInv, NEW c \in Clients, pc[c] = "file", NEW rows, WriteFile(c, rows),
           IsFile(rows), IsPlain(req[c].table, rows)
    PROVE  ArchivesOK'
<1>1. req[c].table \in Tables /\ req[c].before \in Nat /\ now \in Nat
  BY DEF TypeInv, ClientsOK, ClientOK, LogOK
<1>2. DayOf(req[c].before) \in Nat
  <2>1. \A a \in Nat, d \in Nat \ {0} : a \div d \in Nat
    BY SMT
  <2> QED
    BY <1>1, <2>1, DateAssumption DEF DayOf
<1>3. /\ ArchiveName(c) \in [table : Tables, before : Nat, ts : Nat]
      /\ ArchiveName(c).table = req[c].table
  BY <1>1, <1>2 DEF ArchiveName
<1>4. archives' = [n \in DOMAIN archives \union {ArchiveName(c)} |->
                     IF n = ArchiveName(c) THEN rows ELSE archives[n]]
  BY DEF WriteFile
<1>5. /\ DOMAIN archives \subseteq [table : Tables, before : Nat, ts : Nat]
      /\ \A n \in DOMAIN archives : IsFile(archives[n]) /\ IsPlain(n.table, archives[n])
  BY DEF TypeInv, ArchivesOK
<1>6. ASSUME NEW n \in DOMAIN archives'
      PROVE  IsFile(archives'[n]) /\ IsPlain(n.table, archives'[n])
  <2>1. CASE n = ArchiveName(c)
    BY <1>3, <1>4, <2>1
  <2>2. CASE n # ArchiveName(c)
    BY <1>4, <1>5, <2>2
  <2> QED
    BY <2>1, <2>2
<1>7. DOMAIN archives' \subseteq [table : Tables, before : Nat, ts : Nat]
  BY <1>3, <1>4, <1>5
<1> QED
  BY <1>6, <1>7 DEF ArchivesOK

LEMMA SecondPassed == now \in Nat /\ PassSecond => now' \in Nat
BY DEF PassSecond

LEMMA Forgotten ==
    ASSUME TypeInv, NEW C, Forget(C)
    PROVE  ClientsOK'
BY NoRowsFile DEF TypeInv, ClientsOK, ClientOK, Forget, Labels

(* Rows that a request leaves out cannot disturb the types. *)
LEMMA CutShortTypes ==
    ASSUME TypeInv, NEW C \in SUBSET Clients, CutShort(C)
    PROVE  TablesOK' /\ ArchivesOK' /\ now' \in Nat
<1>1. TablesOK /\ ArchivesOK /\ ClientsOK /\ now \in Nat
  BY DEF TypeInv, LogOK
<1>2. CASE UNCHANGED <<tables, archives, now>>
  BY <1>1, <1>2, TablesSame DEF ArchivesOK
<1>3. ASSUME NEW c \in C, NEW n \in 0..2, pc[c] = "file",
             WriteFile(c, FirstRows(sel[c], n)), PassSecond, UNCHANGED tables
      PROVE  TablesOK' /\ ArchivesOK' /\ now' \in Nat
  <2>1. c \in Clients /\ n \in Nat /\ IsFile(sel[c]) /\ IsPlain(req[c].table, sel[c])
    BY <1>1, <1>3 DEF ClientsOK, ClientOK
  <2>2. IsFile(FirstRows(sel[c], n)) /\ IsPlain(req[c].table, FirstRows(sel[c], n))
    BY <2>1, FirstRowsFile
  <2> QED
    BY <1>1, <1>3, <2>1, <2>2, FileWritten, SecondPassed, TablesSame
<1>4. ASSUME NEW c \in C, NEW n \in 0..2, pc[c] = "insert", InsertFirst(c, n),
             UNCHANGED <<archives, now>>
      PROVE  TablesOK' /\ ArchivesOK' /\ now' \in Nat
  <2>1. c \in Clients /\ n \in Nat
    BY <1>4
  <2> QED
    BY <1>1, <1>4, <2>1, TablesInserted DEF ArchivesOK
<1> QED
  BY <1>2, <1>3, <1>4 DEF CutShort

LEMMA RecordTypes ==
    ASSUME TypeInv, NEW c \in Clients, Record(c)
    PROVE  TypeInv'
<1>1. req[c].table \in Tables /\ count[c] \in Nat /\ Forget({c}) /\ now' = now
      /\ UNCHANGED <<tables, archives, requests>>
  BY DEF Record, TypeInv, ClientsOK, ClientOK
<1>2. audit \in [Tables -> [deleted : Nat, restored : Nat]] /\ requests \in Nat
      /\ faults \in Nat /\ now \in Nat
  BY DEF TypeInv, LogOK
<1>3. audit' \in [Tables -> [deleted : Nat, restored : Nat]] /\ faults' \in Nat
  <2>1. CASE audit' = [audit EXCEPT ![req[c].table][AuditField(c)] = @ + count[c]]
             /\ UNCHANGED faults
    <3>1. audit[req[c].table] \in [deleted : Nat, restored : Nat]
      BY <1>1, <1>2
    <3>2. AuditField(c) \in {"deleted", "restored"}
      BY DEF AuditField
    <3>3. [audit[req[c].table] EXCEPT ![AuditField(c)] = @ + count[c]]
            \in [deleted : Nat, restored : Nat]
      BY <1>1, <3>1, <3>2
    <3> QED
      BY <1>1, <1>2, <2>1, <3>3
  <2>2. CASE Fault /\ UNCHANGED audit
    BY <1>2, <2>2 DEF Fault
  <2> QED
    BY <2>1, <2>2 DEF Record
<1>4. ClientsOK'
  BY <1>1, Forgotten
<1> QED
  BY <1>1, <1>2, <1>3, <1>4, TablesSame DEF TypeInv, ArchivesOK, LogOK

LEMMA TypeStep == TypeInv /\ [Next]_vars => TypeInv'
<1> SUFFICES ASSUME TypeInv, [Next]_vars PROVE TypeInv'
  OBVIOUS
<1>1. TablesOK /\ ArchivesOK /\ ClientsOK /\ LogOK
  BY DEF TypeInv
<1>2. ASSUME NEW t \in Tables, NEW k \in KeysOf[t],
             OpenTrigger(t, k) \/ CloseTrigger(t, k) \/ Schedule(t, k)
      PROVE  TypeInv'
  BY <1>1, <1>2, WrittenByRun, ClientsSame DEF TypeInv, ArchivesOK, LogOK
<1>3. CASE Tick
  BY <1>1, <1>3, TablesSame, ClientsSame DEF Tick, TypeInv, ArchivesOK, LogOK
<1>4. ASSUME NEW c \in Clients, WriteArchive(c) PROVE TypeInv'
  <2>1. /\ pc[c] = "file" /\ WriteFile(c, sel[c]) /\ PassSecond
        /\ pc' = [pc EXCEPT ![c] = "remove"]
        /\ UNCHANGED <<tables, audit, req, sel, count, requests, faults>>
    BY <1>4 DEF WriteArchive
  <2>2. IsFile(sel[c]) /\ IsPlain(req[c].table, sel[c])
    BY <1>1, <2>1 DEF ClientsOK, ClientOK
  <2>3. ClientsOK'
    BY <1>1, <2>1 DEF ClientsOK, ClientOK, Labels
  <2> QED
    BY <1>1, <2>1, <2>2, <2>3, FileWritten, SecondPassed, TablesSame DEF TypeInv, LogOK
<1>5. ASSUME NEW c \in Clients, Remove(c) PROVE TypeInv'
  <2>1. TablesOK' /\ req[c].table \in Tables
    BY <1>5, RemovedLines
  <2>2. /\ pc' = [pc EXCEPT ![c] = "record"] /\ pc[c] = "remove"
        /\ UNCHANGED <<archives, audit, now, req, sel, requests, faults>>
    BY <1>5 DEF Remove
  <2>3. count' \in [Clients -> Nat]
    BY <1>1, <1>5, RemovedCount
  <2>4. ClientsOK'
    BY <1>1, <2>2, <2>3 DEF ClientsOK, ClientOK, Labels
  <2> QED
    BY <1>1, <2>1, <2>2, <2>4 DEF TypeInv, ArchivesOK, LogOK
<1>6. ASSUME NEW c \in Clients, InsertRestored(c) PROVE TypeInv'
  <2>1. /\ pc[c] = "insert" /\ InsertFirst(c, Size(sel[c]))
        /\ count' = [count EXCEPT ![c] = IF req[c].table \in Numbered THEN Size(sel[c]) ELSE 0]
        /\ pc' = [pc EXCEPT ![c] = "record"]
        /\ UNCHANGED <<archives, audit, now, req, sel, requests, faults>>
    BY <1>6 DEF InsertRestored
  <2>2. Size(sel[c]) \in Nat
    BY <1>1, SizeType DEF ClientsOK, ClientOK
  <2>3. TablesOK'
    BY <2>1, <2>2, TablesInserted
  <2>4. count' \in [Clients -> Nat]
    BY <1>1, <2>1, <2>2 DEF ClientsOK
  <2>5. ClientsOK'
    BY <1>1, <2>1, <2>4 DEF ClientsOK, ClientOK, Labels
  <2> QED
    BY <1>1, <2>1, <2>3, <2>5 DEF TypeInv, ArchivesOK, LogOK
<1>7. ASSUME NEW C \in SUBSET Clients, CutShort(C), Forget(C), Fault,
             UNCHANGED <<audit, requests>>
      PROVE  TypeInv'
  <2>1. faults' \in Nat
    BY <1>1, <1>7 DEF Fault, LogOK
  <2> QED
    BY <1>1, <1>7, <2>1, CutShortTypes, Forgotten DEF TypeInv, LogOK
<1>8. ASSUME NEW c \in Clients, Fail(c) PROVE TypeInv'
  <2>1. {c} \in SUBSET Clients
    OBVIOUS
  <2> QED
    BY <1>7, <1>8, <2>1 DEF Fail
<1>9. CASE Crash
  <2>1. Clients \in SUBSET Clients
    OBVIOUS
  <2> QED
    BY <1>7, <1>9, <2>1 DEF Crash
<1>10. CASE UNCHANGED vars
  BY <1>1, <1>10, TablesSame, ClientsSame DEF vars, TypeInv, ArchivesOK, LogOK
<1>11. ASSUME NEW c \in Clients, NEW t \in Tables,
              \/ \E f \in Filters : Delete(c, t, f)
              \/ \E before \in Befores : Archive(c, t, before)
       PROVE  TypeInv'
  BY <1>11, DeleteBegins, ArchiveBegins
<1>12. ASSUME NEW c \in Clients, NEW name \in DOMAIN archives, Restore(c, name)
       PROVE  TypeInv'
  BY <1>12, RestoreBegins
<1> QED
  BY <1>2, <1>3, <1>4, <1>5, <1>6, <1>8, <1>9, <1>10, <1>11, <1>12, RecordTypes
  DEF Next, Finished

(* Every variable has its type, and a table without a JSON column no JSON,     *)
(* whatever is deleted, archived, restored, or lost halfway.                   *)
THEOREM TypesHold == Spec => []TypeOK
<1>1. TypeInv /\ [Next]_vars => TypeInv'
  BY TypeStep
<1> QED
  BY <1>1, TypeInit, TypeInvType, PTL DEF Spec

(* The ids of a table with ids grow along its lines, and none is above the     *)
(* last one given out, however often rows are archived and restored: insert    *)
(* always gives new ones (exporting.py:218-219).                               *)
THEOREM IdsUnique == Spec => []IdsStayUnique
<1>1. TypeInv /\ [Next]_vars => TypeInv'
  BY TypeStep
<1>2. TypeInv => IdsStayUnique
  BY TableAssumption DEF TypeInv, TablesOK, TableOK, IdsStayUnique
<1> QED
  BY <1>1, <1>2, TypeInit, PTL DEF Spec

-----------------------------------------------------------------------------
(* Where rows are *)

(* What no step does to a table: give a new row the line of an older one, or   *)
(* turn a row into another.                                                    *)
LinesStep(t) ==
    /\ lastId'[t] >= lastId[t]
    /\ \A l \in DOMAIN store'[t] :
         \/ l \in DOMAIN store[t] /\ store'[t][l].orig = store[t][l].orig
         \/ l > lastId[t]

ArchivesGrow ==
    \A n \in DOMAIN archives : n \in DOMAIN archives' /\ archives'[n] = archives[n]

(* The rows that c selected are on the lines they were on, if they are there,  *)
(* and an archive has a file of those that it removes.                         *)
SelectionOK(c) ==
    /\ pc[c] \in {"file", "remove"} /\ req[c].table \in Numbered =>
         \A l \in DOMAIN sel[c] :
           /\ sel[c][l].id = l /\ l <= lastId[req[c].table]
           /\ l \in DOMAIN store[req[c].table] =>
                store[req[c].table][l].orig = sel[c][l].orig
    /\ pc[c] = "remove" /\ req[c].kind = "archive" =>
         Origs(sel[c]) \subseteq Archived(req[c].table)

(* No archive has the second of now. *)
FilesOld == \A n \in DOMAIN archives : n.ts < now

PlaceInv == TypeInv /\ FilesOld /\ \A c \in Clients : SelectionOK(c)

LEMMA ArchivedGrows ==
    ASSUME ArchivesGrow, NEW t
    PROVE  Archived(t) \subseteq Archived(t)'
BY DEF ArchivesGrow, Archived, Origs

(* While c stays where it is, its selection stays in order. *)
LEMMA SelectionKept ==
    ASSUME TypeInv, NEW c \in Clients, SelectionOK(c),
           \A t \in Tables : LinesStep(t), ArchivesGrow,
           pc'[c] = pc[c], req'[c] = req[c], sel'[c] = sel[c], lastId' \in [Tables -> Nat]
    PROVE  SelectionOK(c)'
<1>1. ASSUME pc[c] \in {"file", "remove"}, req[c].table \in Numbered, NEW l \in DOMAIN sel[c]
      PROVE  /\ sel[c][l].id = l /\ l <= lastId'[req[c].table]
             /\ l \in DOMAIN store'[req[c].table] =>
                  store'[req[c].table][l].orig = sel[c][l].orig
  <2>1. LinesStep(req[c].table) /\ req[c].table \in Tables
    BY <1>1, TableAssumption
  <2>2. l \in Nat /\ lastId[req[c].table] \in Nat /\ lastId'[req[c].table] \in Nat
    BY <2>1 DEF TypeInv, TablesOK, ClientsOK, ClientOK, IsFile
  <2>3. sel[c][l].id = l /\ l <= lastId[req[c].table]
        /\ (l \in DOMAIN store[req[c].table] =>
              store[req[c].table][l].orig = sel[c][l].orig)
    BY <1>1 DEF SelectionOK
  <2>4. l <= lastId'[req[c].table] /\ ~(l > lastId[req[c].table])
    BY <2>1, <2>2, <2>3, SMT DEF LinesStep
  <2> QED
    BY <2>1, <2>3, <2>4 DEF LinesStep
<1>2. ASSUME pc[c] = "remove", req[c].kind = "archive"
      PROVE  Origs(sel[c]) \subseteq Archived(req[c].table)'
  BY <1>2, ArchivedGrows DEF SelectionOK
<1>3. req'[c].table = req[c].table /\ req'[c].kind = req[c].kind
  OBVIOUS
<1> QED
  BY <1>1, <1>2, <1>3 DEF SelectionOK

(* No row of t leaves it. *)
LinesKept(t) ==
    \A l \in DOMAIN store[t] : l \in DOMAIN store'[t] /\ store'[t][l].orig = store[t][l].orig

Additive == ArchivesGrow /\ \A t \in Tables : LinesStep(t) /\ LinesKept(t)

LEMMA LinesUnchanged ==
    ASSUME TypeInv, UNCHANGED <<store, lastId>>
    PROVE  \A t \in Tables : LinesStep(t) /\ LinesKept(t)
<1>1. \A t \in Tables : lastId[t] \in Nat
  BY DEF TypeInv, TablesOK
<1>2. \A a \in Nat : a >= a
  BY SMT
<1> QED
  BY <1>1, <1>2 DEF LinesStep, LinesKept

LEMMA LinesWritten ==
    ASSUME TypeInv, NEW t \in Tables, NEW k \in KeysOf[t],
           OpenTrigger(t, k) \/ CloseTrigger(t, k) \/ Schedule(t, k)
    PROVE  \A u \in Tables : LinesStep(u) /\ LinesKept(u)
<1>1. TablesOK /\ k \in Keys /\ \A u \in Tables : lastId[u] \in Nat
  BY TableAssumption DEF TypeInv, TablesOK
<1>2. \A a \in Nat : a >= a /\ a + 1 >= a /\ a + 1 > a
  BY SMT
<1>3. ASSUME NEW at \in Nat \union {Undated}, Make(t, k, at), NEW u \in Tables
      PROVE  LinesStep(u) /\ LinesKept(u)
  <2>1. CASE u = t
    BY <1>1, <1>2, <1>3, <2>1, MadeLines DEF LinesStep, LinesKept
  <2>2. CASE u # t
    <3>1. store'[u] = store[u] /\ lastId'[u] = lastId[u]
      BY <1>1, <1>3, <2>2, MadeLines
    <3> QED
      BY <1>1, <1>2, <3>1 DEF LinesStep, LinesKept
  <2> QED
    BY <2>1, <2>2
<1>4. ASSUME \A u \in Tables : SameRows(u), UNCHANGED lastId, NEW u \in Tables
      PROVE  LinesStep(u) /\ LinesKept(u)
  BY <1>1, <1>2, <1>4 DEF SameRows, LinesStep, LinesKept
<1> QED
  BY <1>3, <1>4, WrittenByRun

LEMMA LinesInserted ==
    ASSUME TypeInv, NEW c \in Clients, pc[c] = "insert", NEW n \in Nat, InsertFirst(c, n)
    PROVE  \A u \in Tables : LinesStep(u) /\ LinesKept(u)
<1> SUFFICES ASSUME NEW t, t = req[c].table, NEW new, new = NewLines(c, n), NEW u \in Tables
             PROVE  LinesStep(u) /\ LinesKept(u)
  OBVIOUS
<1>1. Inserts(c, n, t, new)
  BY InsertedLines
<1>2. lastId[u] \in Nat /\ lastId[t] \in Nat /\ Size(sel[c]) \in Nat
  BY <1>1, SizeType DEF Inserts, TypeInv, TablesOK, ClientsOK, ClientOK
<1>3. CASE u = t
  <2>1. lastId'[t] >= lastId[t]
    BY <1>1, <1>2, SMT DEF Inserts
  <2> QED
    BY <1>1, <1>3, <2>1 DEF Inserts, LinesStep, LinesKept
<1>4. CASE u # t
  <2>1. store'[u] = store[u] /\ lastId'[u] = lastId[u]
    BY <1>1, <1>4 DEF Inserts
  <2>2. lastId'[u] >= lastId[u]
    BY <1>2, <2>1, SMT
  <2> QED
    BY <2>1, <2>2 DEF LinesStep, LinesKept
<1> QED
  BY <1>3, <1>4

LEMMA LinesRemoved ==
    ASSUME TypeInv, NEW c \in Clients, Remove(c)
    PROVE  \A u \in Tables : LinesStep(u) /\ (u # req[c].table => LinesKept(u))
<1> SUFFICES ASSUME NEW t, t = req[c].table, NEW u \in Tables
             PROVE  LinesStep(u) /\ (u # t => LinesKept(u))
  OBVIOUS
<1>1. /\ DOMAIN store'[t] \subseteq DOMAIN store[t]
      /\ \A l \in DOMAIN store'[t] : store'[t][l] = store[t][l]
      /\ \A v \in Tables \ {t} : store'[v] = store[v]
  BY RemovedLines
<1>2. lastId'[u] = lastId[u] /\ lastId[u] \in Nat
  BY DEF Remove, TypeInv, TablesOK
<1>3. lastId'[u] >= lastId[u]
  BY <1>2, SMT
<1>4. CASE u = t
  BY <1>1, <1>3, <1>4 DEF LinesStep
<1>5. CASE u # t
  BY <1>1, <1>3, <1>5 DEF LinesStep, LinesKept
<1> QED
  BY <1>4, <1>5

(* An archive that has the second to itself takes no other's place. *)
LEMMA FileAdded ==
    ASSUME TypeInv, FilesOld, OneArchivePerSecond, NEW c \in Clients, NEW rows,
           WriteFile(c, rows), PassSecond
    PROVE  /\ ArchivesGrow /\ FilesOld'
           /\ ArchiveName(c) \in DOMAIN archives' /\ archives'[ArchiveName(c)] = rows
<1>1. now \in Nat /\ now' = now + 1 /\ \A n \in DOMAIN archives : n.ts \in Nat
  BY DEF PassSecond, TypeInv, LogOK, ArchivesOK
<1>2. ArchiveName(c).ts = now
  BY DEF ArchiveName
<1>3. archives' = [n \in DOMAIN archives \union {ArchiveName(c)} |->
                     IF n = ArchiveName(c) THEN rows ELSE archives[n]]
  BY DEF WriteFile
<1>4. ASSUME NEW n \in DOMAIN archives PROVE n # ArchiveName(c) /\ n.ts < now'
  <2>1. n.ts < now
    BY DEF FilesOld
  <2>2. n.ts # now /\ n.ts < now'
    BY <1>1, <2>1, SMT
  <2> QED
    BY <1>2, <2>2
<1>5. now < now'
  BY <1>1, SMT
<1>6. ArchivesGrow
  BY <1>3, <1>4 DEF ArchivesGrow
<1>7. FilesOld'
  BY <1>2, <1>3, <1>4, <1>5 DEF FilesOld
<1> QED
  BY <1>3, <1>6, <1>7

LEMMA CutShortPlaces ==
    ASSUME TypeInv, FilesOld, OneArchivePerSecond, NEW C \in SUBSET Clients, CutShort(C)
    PROVE  Additive /\ FilesOld'
<1>1. CASE UNCHANGED <<tables, archives, now>>
  BY <1>1, LinesUnchanged DEF tables, FilesOld, ArchivesGrow, Additive
<1>2. ASSUME NEW c \in C, NEW n \in 0..2, pc[c] = "file",
             WriteFile(c, FirstRows(sel[c], n)), PassSecond, UNCHANGED tables
      PROVE  Additive /\ FilesOld'
  <2>1. c \in Clients /\ UNCHANGED <<store, lastId>>
    BY <1>2 DEF tables
  <2> QED
    BY <1>2, <2>1, LinesUnchanged, FileAdded DEF Additive
<1>3. ASSUME NEW c \in C, NEW n \in 0..2, pc[c] = "insert", InsertFirst(c, n),
             UNCHANGED <<archives, now>>
      PROVE  Additive /\ FilesOld'
  <2>1. c \in Clients /\ n \in Nat
    BY <1>3
  <2>2. ArchivesGrow /\ FilesOld'
    BY <1>3 DEF FilesOld, ArchivesGrow
  <2> QED
    BY <1>3, <2>1, <2>2, LinesInserted DEF Additive
<1> QED
  BY <1>1, <1>2, <1>3 DEF CutShort

(* Only a removal takes rows out of the tables. *)
LEMMA StepAdds ==
    ASSUME PlaceInv, OneArchivePerSecond, [Next]_vars
    PROVE  /\ FilesOld' /\ ArchivesGrow /\ \A t \in Tables : LinesStep(t)
           /\ Additive \/ \E c \in Clients : Remove(c)
<1>1. TypeInv /\ FilesOld /\ now \in Nat /\ \A n \in DOMAIN archives : n.ts \in Nat
  BY DEF PlaceInv, TypeInv, LogOK, ArchivesOK
<1>2. ASSUME UNCHANGED <<store, lastId, archives, now>> PROVE Additive /\ FilesOld'
  BY <1>1, <1>2, LinesUnchanged DEF Additive, ArchivesGrow, FilesOld
<1>3. ASSUME NEW t \in Tables, NEW k \in KeysOf[t],
             OpenTrigger(t, k) \/ CloseTrigger(t, k) \/ Schedule(t, k)
      PROVE  Additive /\ FilesOld'
  <2>1. UNCHANGED <<archives, now>>
    BY <1>1, <1>3, WrittenByRun
  <2> QED
    BY <1>1, <1>3, <2>1, LinesWritten DEF Additive, ArchivesGrow, FilesOld
<1>4. CASE Tick
  <2>1. UNCHANGED <<store, lastId, archives>> /\ now' = now + 1
    BY <1>4 DEF Tick, tables
  <2>2. \A n \in DOMAIN archives : n.ts < now'
    BY <1>1, <2>1, SMT DEF FilesOld
  <2> QED
    BY <1>1, <2>1, <2>2, LinesUnchanged DEF Additive, ArchivesGrow, FilesOld
<1>5. ASSUME NEW c \in Clients,
             \/ \E t \in Tables : \/ \E f \in Filters : Delete(c, t, f)
                                  \/ \E before \in Befores : Archive(c, t, before)
             \/ \E name \in DOMAIN archives : Restore(c, name)
             \/ Record(c)
      PROVE  Additive /\ FilesOld'
  BY <1>2, <1>5 DEF Delete, Archive, Restore, Begin, Record, tables
<1>6. ASSUME NEW c \in Clients, WriteArchive(c) PROVE Additive /\ FilesOld'
  <2>1. WriteFile(c, sel[c]) /\ PassSecond /\ UNCHANGED <<store, lastId>>
    BY <1>6 DEF WriteArchive, tables
  <2> QED
    BY <1>1, <2>1, LinesUnchanged, FileAdded DEF Additive
<1>7. ASSUME NEW c \in Clients, InsertRestored(c) PROVE Additive /\ FilesOld'
  <2>1. /\ pc[c] = "insert" /\ InsertFirst(c, Size(sel[c])) /\ UNCHANGED <<archives, now>>
    BY <1>7 DEF InsertRestored
  <2>2. Size(sel[c]) \in Nat
    BY <1>1, SizeType DEF TypeInv, ClientsOK, ClientOK
  <2>3. ArchivesGrow /\ FilesOld'
    BY <1>1, <2>1 DEF ArchivesGrow, FilesOld
  <2> QED
    BY <1>1, <2>1, <2>2, <2>3, LinesInserted DEF Additive
<1>8. ASSUME NEW c \in Clients, Fail(c) PROVE Additive /\ FilesOld'
  <2>1. {c} \in SUBSET Clients /\ CutShort({c})
    BY <1>8 DEF Fail
  <2> QED
    BY <1>1, <2>1, CutShortPlaces
<1>9. CASE Crash
  <2>1. Clients \in SUBSET Clients /\ CutShort(Clients)
    BY <1>9 DEF Crash
  <2>2. Additive /\ FilesOld'
    BY <1>1, <2>1, CutShortPlaces
  <2> QED
    BY <2>2 DEF Additive
<1>10. CASE UNCHANGED vars
  <2>1. Additive /\ FilesOld'
    BY <1>2, <1>10 DEF vars, tables
  <2> QED
    BY <2>1 DEF Additive
<1>11. ASSUME NEW c \in Clients, Remove(c)
       PROVE  FilesOld' /\ ArchivesGrow /\ \A t \in Tables : LinesStep(t)
  <2>1. UNCHANGED <<archives, now>>
    BY <1>11 DEF Remove
  <2> QED
    BY <1>1, <1>11, <2>1, LinesRemoved DEF ArchivesGrow, FilesOld
<1> QED
  BY <1>3, <1>4, <1>5, <1>6, <1>7, <1>8, <1>9, <1>10, <1>11 DEF Next, Finished, Additive

(* A request begins with rows that are in the table. *)
LEMMA SelectionBegun ==
    ASSUME TypeInv, NEW t \in Tables, NEW S \in SUBSET DOMAIN store[t],
           NEW rows, rows = Restrict(store[t], S)
    PROVE  \A l \in DOMAIN rows : /\ rows[l].id = l /\ l <= lastId[t]
                                  /\ store[t][l].orig = rows[l].orig
<1>1. DOMAIN rows = S /\ \A l \in S : rows[l] = store[t][l]
  BY RestrictFile DEF TypeInv, TablesOK, TableOK
<1> QED
  BY <1>1 DEF TypeInv, TablesOK, TableOK

LEMMA BegunSelection ==
    ASSUME TypeInv, NEW c \in Clients, NEW t \in Tables,
           \/ \E f \in Filters : Delete(c, t, f)
           \/ \E before \in Befores : Archive(c, t, before)
    PROVE  SelectionOK(c)'
<1> DEFINE Good(rows) == \A l \in DOMAIN rows : /\ rows[l].id = l /\ l <= lastId[t]
                                                /\ store[t][l].orig = rows[l].orig
<1>1. c \in DOMAIN pc /\ c \in DOMAIN req /\ c \in DOMAIN sel
  BY DEF TypeInv, ClientsOK
<1>2. ASSUME NEW f \in Filters, Delete(c, t, f)
      PROVE  /\ pc'[c] = "remove" /\ req'[c].table = t /\ req'[c].kind = "delete"
             /\ Good(sel'[c]) /\ UNCHANGED <<store, lastId>>
  <2> DEFINE S == {l \in DOMAIN store[t] : Matches(t, f, store[t][l])}
  <2>1. S \in SUBSET DOMAIN store[t]
    OBVIOUS
  <2>2. /\ pc'[c] = "remove" /\ req'[c].table = t /\ req'[c].kind = "delete"
        /\ sel'[c] = Restrict(store[t], S) /\ UNCHANGED <<store, lastId>>
    BY <1>1, <1>2 DEF Delete, Begin, tables
  <2> HIDE DEF S
  <2> QED
    BY <2>1, <2>2, SelectionBegun
<1>3. ASSUME NEW before \in Befores, Archive(c, t, before)
      PROVE  /\ \/ pc'[c] = "idle"
                \/ pc'[c] = "file" /\ req'[c].table = t /\ Good(sel'[c])
             /\ UNCHANGED <<store, lastId>>
  <2> DEFINE S == {l \in DOMAIN store[t] : store[t][l].at < before}
  <2>1. S \in SUBSET DOMAIN store[t]
    OBVIOUS
  <2>2. CASE S = {}
    BY <1>1, <1>3, <2>2 DEF Archive, Begin, tables
  <2>3. CASE S # {}
    <3>1. /\ pc'[c] = "file" /\ req'[c].table = t /\ UNCHANGED <<store, lastId>>
          /\ sel'[c] = Restrict(store[t], S)
      BY <1>1, <1>3, <2>3 DEF Archive, Begin, tables
    <3> HIDE DEF S
    <3> QED
      BY <2>1, <3>1, SelectionBegun
  <2> QED
    BY <2>2, <2>3
<1> QED
  BY <1>2, <1>3 DEF SelectionOK

LEMMA WrittenSelection ==
    ASSUME PlaceInv, OneArchivePerSecond, NEW c \in Clients, WriteArchive(c)
    PROVE  SelectionOK(c)'
<1> SUFFICES ASSUME NEW t, t = req[c].table PROVE SelectionOK(c)'
  OBVIOUS
<1>1. /\ pc[c] = "file" /\ WriteFile(c, sel[c]) /\ PassSecond
      /\ pc' = [pc EXCEPT ![c] = "remove"] /\ UNCHANGED <<store, lastId, req, sel>>
  BY DEF WriteArchive, tables
<1>2. TypeInv /\ FilesOld /\ SelectionOK(c) /\ c \in DOMAIN pc
  BY DEF PlaceInv, TypeInv, ClientsOK
<1>3. ArchiveName(c) \in DOMAIN archives' /\ archives'[ArchiveName(c)] = sel[c]
      /\ ArchiveName(c).table = t
  BY <1>1, <1>2, FileAdded DEF ArchiveName
<1>4. \A n \in Origs(sel[c]) : n \in Archived(t)'
  BY <1>3 DEF Archived
<1> QED
  BY <1>1, <1>2, <1>4 DEF SelectionOK, Archived

LEMMA PlaceInit == Init => PlaceInv
BY TypeInit DEF Init, PlaceInv, FilesOld, SelectionOK

LEMMA PlaceStep ==
    ASSUME PlaceInv, OneArchivePerSecond, [Next]_vars
    PROVE  PlaceInv'
<1>1. /\ TypeInv' /\ FilesOld' /\ ArchivesGrow /\ \A t \in Tables : LinesStep(t)
      /\ TypeInv /\ lastId' \in [Tables -> Nat]
      /\ DOMAIN pc = Clients /\ DOMAIN req = Clients /\ DOMAIN sel = Clients
  BY StepAdds, TypeStep DEF PlaceInv, TypeInv, TablesOK, ClientsOK
<1> SUFFICES ASSUME NEW d \in Clients PROVE SelectionOK(d)'
  BY <1>1 DEF PlaceInv
<1>2. ASSUME pc'[d] = pc[d], req'[d] = req[d], sel'[d] = sel[d] PROVE SelectionOK(d)'
  BY <1>1, <1>2, SelectionKept DEF PlaceInv
<1>3. ASSUME pc'[d] \notin {"file", "remove"} PROVE SelectionOK(d)'
  BY <1>3 DEF SelectionOK
<1>4. ASSUME NEW t \in Tables, NEW k \in KeysOf[t],
             OpenTrigger(t, k) \/ CloseTrigger(t, k) \/ Schedule(t, k)
      PROVE  SelectionOK(d)'
  BY <1>1, <1>2, <1>4, WrittenByRun DEF clients
<1>5. CASE Tick
  BY <1>2, <1>5 DEF Tick, clients
<1>6. ASSUME NEW c \in Clients, NEW t \in Tables,
             \/ \E f \in Filters : Delete(c, t, f)
             \/ \E before \in Befores : Archive(c, t, before)
      PROVE  SelectionOK(d)'
  <2>1. CASE c = d
    BY <1>1, <1>6, <2>1, BegunSelection
  <2>2. CASE c # d
    BY <1>1, <1>2, <1>6, <2>2 DEF Delete, Archive, Begin
  <2> QED
    BY <2>1, <2>2
<1>7. ASSUME NEW c \in Clients, NEW name \in DOMAIN archives, Restore(c, name)
      PROVE  SelectionOK(d)'
  BY <1>1, <1>2, <1>3, <1>7 DEF Restore, Begin
<1>8. ASSUME NEW c \in Clients, WriteArchive(c) PROVE SelectionOK(d)'
  <2>1. CASE c = d
    BY <1>8, <2>1, WrittenSelection
  <2>2. CASE c # d
    BY <1>1, <1>2, <1>8, <2>2 DEF WriteArchive
  <2> QED
    BY <2>1, <2>2
<1>9. ASSUME NEW c \in Clients, Remove(c) \/ InsertRestored(c) PROVE SelectionOK(d)'
  BY <1>1, <1>2, <1>3, <1>9 DEF Remove, InsertRestored
<1>10. ASSUME NEW C, Forget(C) PROVE SelectionOK(d)'
  BY <1>1, <1>2, <1>3, <1>10 DEF Forget
<1>11. CASE UNCHANGED vars
  BY <1>2, <1>11 DEF vars, clients
<1> QED
  BY <1>4, <1>5, <1>6, <1>7, <1>8, <1>9, <1>10, <1>11 DEF Next, Finished, Record, Fail, Crash

(* What is removed was asked to go, or is in an archive. *)
LEMMA RemovedKept ==
    ASSUME PlaceInv, OneArchivePerSecond, [Next]_vars, NEW c \in Clients, Remove(c),
           NEW t \in Numbered, t = req[c].table
    PROVE  KeepsRows(t)
<1>1. ArchivesGrow /\ t \in Tables /\ Archived(t) \subseteq Archived(t)'
  BY StepAdds, ArchivedGrows, TableAssumption
<1>2. /\ pc[c] = "remove" /\ SelectionOK(c) /\ TableOK(t)
      /\ req[c].kind \in {"delete", "archive"}
  BY <1>1 DEF Remove, PlaceInv, TypeInv, TablesOK, ClientsOK, ClientOK
<1>3. ASSUME NEW l \in DOMAIN store[t]
      PROVE  \/ store[t][l].orig \in Origs(store[t])' \union Archived(t)'
             \/ AskedToGo(t, store[t][l].orig)
  <2>1. CASE l \in DOMAIN store'[t]
    <3>1. store'[t][l] = store[t][l]
      BY <2>1, RemovedLines DEF PlaceInv
    <3> QED
      BY <2>1, <3>1 DEF Origs
  <2>2. CASE l \notin DOMAIN store'[t]
    <3>1. Doomed(c, store[t][l])
      BY <2>2, RemovedLines DEF PlaceInv
    <3>2. PICK m \in DOMAIN sel[c] : sel[c][m].id = store[t][l].id
      BY <3>1 DEF Doomed, Among
    <3>3. store[t][l].orig \in Origs(sel[c])
      BY <1>2, <3>2 DEF SelectionOK, TableOK, Origs
    <3>4. CASE req[c].kind = "delete"
      BY <1>2, <3>3, <3>4 DEF AskedToGo
    <3>5. CASE req[c].kind = "archive"
      BY <1>1, <1>2, <3>3, <3>5 DEF SelectionOK
    <3> QED
      BY <1>2, <3>4, <3>5
  <2> QED
    BY <2>1, <2>2
<1> QED
  BY <1>1, <1>3 DEF KeepsRows, Origs

(* A row of a table with ids leaves tables and archives for good only if a     *)
(* delete found it to match (exporting.py:157), whatever runs write, other     *)
(* requests archive or restore, and failures cut short.  If two archives of a  *)
(* table fall into one second, the name of the second is that of the first.    *)
THEOREM RowsStay ==
    ASSUME OneArchivePerSecond
    PROVE  Spec => RowsKept
<1>1. PlaceInv /\ [Next]_vars => PlaceInv'
  BY PlaceStep
<1>2. PlaceInv /\ [Next]_vars => [\A t \in Numbered : KeepsRows(t)]_vars
  <2> SUFFICES ASSUME PlaceInv, [Next]_vars, NEW t \in Numbered PROVE KeepsRows(t)
    OBVIOUS
  <2>1. ArchivesGrow /\ t \in Tables /\ Archived(t) \subseteq Archived(t)'
    BY StepAdds, ArchivedGrows, TableAssumption
  <2>2. CASE LinesKept(t)
    BY <2>1, <2>2 DEF LinesKept, KeepsRows, Origs
  <2>3. ASSUME NEW c \in Clients, Remove(c) PROVE KeepsRows(t)
    <3>1. CASE t = req[c].table
      BY <2>3, <3>1, RemovedKept
    <3>2. CASE t # req[c].table
      BY <2>1, <2>2, <2>3, <3>2, LinesRemoved DEF PlaceInv
    <3> QED
      BY <3>1, <3>2
  <2> QED
    BY <2>1, <2>2, <2>3, StepAdds DEF Additive
<1> QED
  BY <1>1, <1>2, PlaceInit, PTL DEF Spec, RowsKept

-----------------------------------------------------------------------------
(* What the log accounts for *)

LEMMA UnionSize ==
    ASSUME NEW A, NEW B, IsFiniteSet(A), IsFiniteSet(B), A \intersect B = {}
    PROVE  /\ IsFiniteSet(A \union B)
           /\ Cardinality(A \union B) = Cardinality(A) + Cardinality(B)
<1>1. /\ IsFiniteSet(A \union B)
      /\ Cardinality(A \union B) = Cardinality(A) + Cardinality(B) - Cardinality(A \intersect B)
  BY FS_Union
<1>2. Cardinality(A \intersect B) = 0
  BY FS_EmptySet
<1>3. Cardinality(A) \in Nat /\ Cardinality(B) \in Nat
  BY FS_CardinalityType
<1>4. \A a, b \in Nat : a + b - 0 = a + b
  BY SMT
<1>5. Cardinality(A) + Cardinality(B) - 0 = Cardinality(A) + Cardinality(B)
  BY <1>3, <1>4
<1> QED
  BY <1>1, <1>2, <1>5

LEMMA OneMore ==
    ASSUME NEW S, IsFiniteSet(S), NEW x, x \notin S
    PROVE  Cardinality(S \union {x}) = Cardinality(S) + 1
BY FS_AddElement

(* n rows of client c *)
RowsOf(c, n) == {c} \X (1..n)

LEMMA RowsOfSize ==
    ASSUME NEW c, NEW n \in Nat
    PROVE  IsFiniteSet(RowsOf(c, n)) /\ Cardinality(RowsOf(c, n)) = n
<1>1. IsFiniteSet({c}) /\ Cardinality({c}) = 1
  BY FS_Singleton
<1>2. IsFiniteSet(1..n) /\ Cardinality(1..n) = n
  <2>1. IsFiniteSet(1..n) /\ Cardinality(1..n) = IF 1 > n THEN 0 ELSE n - 1 + 1
    BY FS_Interval
  <2>2. \A m \in Nat : (IF 1 > m THEN 0 ELSE m - 1 + 1) = m
    BY SMT
  <2> QED
    BY <2>1, <2>2
<1>3. /\ IsFiniteSet({c} \X (1..n))
      /\ Cardinality({c} \X (1..n)) = Cardinality({c}) * Cardinality(1..n)
  BY <1>1, <1>2, FS_Product
<1>4. 1 * n = n
  BY SMT
<1> QED
  BY <1>1, <1>2, <1>3, <1>4 DEF RowsOf

(* The rows that a storage call deleted or restored in t, and the log has not  *)
(* yet: the client still has to record them.                                   *)
Waits(c, t, field) == pc[c] = "record" /\ req[c].table = t /\ AuditField(c) = field

Pending(t, field) ==
    {p \in Clients \X Nat : Waits(p[1], t, field) /\ p \in RowsOf(p[1], count[p[1]])}

Adds(t, size, total, log, deleted, restored) ==
    size + log.deleted + deleted = total + log.restored + restored

Balanced(t) ==
    /\ IsFiniteSet(Pending(t, "deleted")) /\ IsFiniteSet(Pending(t, "restored"))
    /\ Adds(t, Size(store[t]), made[t], audit[t], Cardinality(Pending(t, "deleted")),
            Cardinality(Pending(t, "restored")))

AuditInv == faults = 0 => \A t \in Numbered : Balanced(t)

SameWait(c) ==
    /\ pc'[c] = "record" <=> pc[c] = "record"
    /\ pc[c] = "record" => req'[c] = req[c] /\ count'[c] = count[c]

LEMMA PendingSame ==
    ASSUME \A c \in Clients : SameWait(c), NEW t, NEW field
    PROVE  Pending(t, field)' = Pending(t, field)
<1>1. ASSUME NEW p \in Clients \X Nat
      PROVE  (Waits(p[1], t, field) /\ p \in RowsOf(p[1], count[p[1]]))'
               <=> Waits(p[1], t, field) /\ p \in RowsOf(p[1], count[p[1]])
  <2>1. p[1] \in Clients
    OBVIOUS
  <2>2. SameWait(p[1])
    BY <2>1
  <2> QED
    BY <2>2 DEF SameWait, Waits, AuditField, RowsOf
<1> QED
  BY <1>1 DEF Pending

(* A client that comes to its record adds its rows, and takes them away later. *)
LEMMA PendingMore ==
    ASSUME NEW c \in Clients, pc[c] # "record", \A d \in Clients \ {c} : SameWait(d),
           count'[c] \in Nat, NEW t, NEW field, Waits(c, t, field)'
    PROVE  /\ Pending(t, field)' = Pending(t, field) \union RowsOf(c, count'[c])
           /\ Pending(t, field) \intersect RowsOf(c, count'[c]) = {}
<1>1. \A p \in RowsOf(c, count'[c]) : p \in Clients \X Nat /\ p[1] = c
  BY DEF RowsOf
<1>2. \A p \in Pending(t, field) : p[1] # c
  BY DEF Pending, Waits
<1>3. ASSUME NEW p \in Clients \X Nat
      PROVE  p \in Pending(t, field)'
               <=> p \in Pending(t, field) \union RowsOf(c, count'[c])
  <2>1. p[1] \in Clients
    OBVIOUS
  <2>2. CASE p[1] = c
    BY <1>2, <2>2 DEF Pending
  <2>3. CASE p[1] # c
    <3>1. SameWait(p[1]) /\ p \notin RowsOf(c, count'[c])
      BY <1>1, <2>1, <2>3
    <3> QED
      BY <3>1 DEF Pending, SameWait, Waits, AuditField
  <2> QED
    BY <2>2, <2>3
<1>4. /\ Pending(t, field) \subseteq Clients \X Nat
      /\ Pending(t, field)' \subseteq Clients \X Nat
  BY DEF Pending
<1> QED
  BY <1>1, <1>2, <1>3, <1>4

LEMMA PendingLess ==
    ASSUME NEW c \in Clients, pc'[c] # "record", \A d \in Clients \ {c} : SameWait(d),
           count[c] \in Nat, NEW t, NEW field, Waits(c, t, field)
    PROVE  /\ Pending(t, field) = Pending(t, field)' \union RowsOf(c, count[c])
           /\ Pending(t, field)' \intersect RowsOf(c, count[c]) = {}
<1>1. \A p \in RowsOf(c, count[c]) : p \in Clients \X Nat /\ p[1] = c
  BY DEF RowsOf
<1>2. \A p \in Pending(t, field)' : p[1] # c
  BY DEF Pending, Waits
<1>3. ASSUME NEW p \in Clients \X Nat
      PROVE  p \in Pending(t, field)
               <=> p \in Pending(t, field)' \union RowsOf(c, count[c])
  <2>1. p[1] \in Clients
    OBVIOUS
  <2>2. CASE p[1] = c
    BY <1>2, <2>2 DEF Pending
  <2>3. CASE p[1] # c
    <3>1. SameWait(p[1]) /\ p \notin RowsOf(c, count[c])
      BY <1>1, <2>1, <2>3
    <3> QED
      BY <3>1 DEF Pending, SameWait, Waits, AuditField
  <2> QED
    BY <2>2, <2>3
<1>4. /\ Pending(t, field) \subseteq Clients \X Nat
      /\ Pending(t, field)' \subseteq Clients \X Nat
  BY DEF Pending
<1> QED
  BY <1>1, <1>2, <1>3, <1>4

LEMMA PendingOther ==
    ASSUME NEW c \in Clients, NEW t, NEW field, ~Waits(c, t, field), ~Waits(c, t, field)',
           \A d \in Clients \ {c} : SameWait(d)
    PROVE  Pending(t, field)' = Pending(t, field)
<1>1. ASSUME NEW p \in Clients \X Nat
      PROVE  (Waits(p[1], t, field) /\ p \in RowsOf(p[1], count[p[1]]))'
               <=> Waits(p[1], t, field) /\ p \in RowsOf(p[1], count[p[1]])
  <2>1. CASE p[1] = c
    <3>1. ~Waits(p[1], t, field) /\ ~Waits(p[1], t, field)'
      BY <2>1 DEF Waits, AuditField
    <3> QED
      BY <3>1
  <2>2. CASE p[1] # c
    <3>1. p[1] \in Clients
      OBVIOUS
    <3>2. SameWait(p[1])
      BY <2>2, <3>1
    <3> QED
      BY <3>2 DEF SameWait, Waits, AuditField, RowsOf
  <2> QED
    BY <2>1, <2>2
<1> QED
  BY <1>1 DEF Pending

(* The numbers that Balanced adds up are numbers. *)
LEMMA BalancedTypes ==
    ASSUME TypeInv, NEW t \in Tables, Balanced(t)
    PROVE  /\ Size(store[t]) \in Nat /\ made[t] \in Nat
           /\ audit[t].deleted \in Nat /\ audit[t].restored \in Nat
           /\ Cardinality(Pending(t, "deleted")) \in Nat
           /\ Cardinality(Pending(t, "restored")) \in Nat
BY SizeType, FS_CardinalityType DEF Balanced, TypeInv, TablesOK, TableOK, LogOK

LEMMA BalanceSame ==
    ASSUME NEW t, Balanced(t), Pending(t, "deleted")' = Pending(t, "deleted"),
           Pending(t, "restored")' = Pending(t, "restored"),
           Size(store'[t]) = Size(store[t]), made'[t] = made[t], audit'[t] = audit[t]
    PROVE  Balanced(t)'
BY DEF Balanced, Adds

(* A row that is made is one more in the table. *)
LEMMA BalanceMade ==
    ASSUME TypeInv, NEW t \in Tables, NEW k \in KeysOf[t],
           OpenTrigger(t, k) \/ CloseTrigger(t, k) \/ Schedule(t, k),
           NEW u \in Tables, Balanced(u)
    PROVE  Balanced(u)'
<1>1. /\ audit' = audit /\ Pending(u, "deleted")' = Pending(u, "deleted")
      /\ Pending(u, "restored")' = Pending(u, "restored")
  <2>1. UNCHANGED <<audit, clients>>
    BY WrittenByRun
  <2>2. \A c \in Clients : SameWait(c)
    BY <2>1 DEF SameWait, clients
  <2> QED
    BY <2>1, <2>2, PendingSame
<1>2. k \in Keys /\ TablesOK
  BY TableAssumption DEF TypeInv
<1>3. ASSUME NEW at \in Nat \union {Undated}, Make(t, k, at), u = t
      PROVE  Size(store'[u]) = Size(store[u]) + 1 /\ made'[u] = made[u] + 1
  <2>1. /\ DOMAIN store'[t] = DOMAIN store[t] \union {lastId[t] + 1}
        /\ lastId[t] + 1 \notin DOMAIN store[t] /\ made'[t] = made[t] + 1
    BY <1>2, <1>3, MadeLines
  <2>2. IsFiniteSet(DOMAIN store[t])
    BY <1>2 DEF TablesOK, TableOK, IsFile
  <2>3. Cardinality(DOMAIN store'[t]) = Cardinality(DOMAIN store[t]) + 1
    BY <2>1, <2>2, OneMore
  <2> QED
    BY <1>3, <2>1, <2>3 DEF Size
<1>4. ASSUME NEW at \in Nat \union {Undated}, Make(t, k, at), u # t
      PROVE  Size(store'[u]) = Size(store[u]) /\ made'[u] = made[u]
  <2>1. store'[u] = store[u] /\ made'[u] = made[u]
    BY <1>2, <1>4, MadeLines
  <2> QED
    BY <2>1
<1>5. ASSUME \A v \in Tables : SameRows(v), UNCHANGED <<lastId, made>>
      PROVE  Size(store'[u]) = Size(store[u]) /\ made'[u] = made[u]
  BY <1>5 DEF SameRows, Size
<1>6. CASE Size(store'[u]) = Size(store[u]) /\ made'[u] = made[u]
  BY <1>1, <1>6, BalanceSame
<1>7. CASE Size(store'[u]) = Size(store[u]) + 1 /\ made'[u] = made[u] + 1
  <2>1. \A s, m, ad, ar, d, r \in Nat :
          s + ad + d = m + ar + r => s + 1 + ad + d = m + 1 + ar + r
    BY SMT
  <2>2. Adds(u, Size(store[u]) + 1, made[u] + 1, audit[u],
             Cardinality(Pending(u, "deleted")), Cardinality(Pending(u, "restored")))
    BY <2>1, BalancedTypes DEF Balanced, Adds
  <2> QED
    BY <1>1, <1>7, <2>2 DEF Balanced, Adds
<1> QED
  BY <1>3, <1>4, <1>5, <1>6, <1>7, WrittenByRun

(* The rows that a delete took away wait to be recorded. *)
LEMMA BalanceRemoved ==
    ASSUME TypeInv, NEW c \in Clients, Remove(c), NEW u \in Tables, Balanced(u)
    PROVE  Balanced(u)'
<1> SUFFICES ASSUME NEW t, t = req[c].table PROVE Balanced(u)'
  OBVIOUS
<1>1. /\ pc[c] = "remove" /\ pc' = [pc EXCEPT ![c] = "record"]
      /\ UNCHANGED <<req, audit, made>>
      /\ req[c].kind \in {"delete", "archive"} /\ pc \in [Clients -> Labels]
      /\ count \in [Clients -> Nat]
  BY DEF Remove, TypeInv, ClientsOK, ClientOK
<1>2. /\ count' = [count EXCEPT ![c] = Size(store[t]) - Size(store'[t])]
      /\ Size(store[t]) - Size(store'[t]) \in Nat
  BY RemovedCount
<1>3. pc'[c] = "record" /\ \A d \in Clients \ {c} : SameWait(d)
  BY <1>1, <1>2 DEF SameWait
<1>4. /\ AuditField(c) = "deleted" /\ AuditField(c)' = "deleted" /\ "restored" # "deleted"
      /\ ~Waits(c, u, "restored") /\ ~Waits(c, u, "restored")' /\ ~Waits(c, u, "deleted")
  BY <1>1 DEF AuditField, Waits
<1>5. Pending(u, "restored")' = Pending(u, "restored")
  BY <1>3, <1>4, PendingOther
<1>6. CASE u # t
  <2>1. ~Waits(c, u, "deleted")'
    BY <1>1, <1>6 DEF Waits
  <2>2. Pending(u, "deleted")' = Pending(u, "deleted")
    BY <1>3, <1>4, <2>1, PendingOther
  <2>3. store'[u] = store[u]
    BY <1>6, RemovedLines
  <2> QED
    BY <1>1, <1>5, <2>2, <2>3, BalanceSame
<1>7. CASE u = t
  <2> DEFINE k == Size(store[t]) - Size(store'[t])
             P == Pending(u, "deleted")
  <2>1. count'[c] = k /\ k \in Nat
    BY <1>1, <1>2
  <2> HIDE DEF k
  <2>2. Waits(c, u, "deleted")'
    BY <1>1, <1>3, <1>4, <1>7 DEF Waits
  <2>3. P' = P \union RowsOf(c, k) /\ P \intersect RowsOf(c, k) = {}
    BY <1>1, <1>3, <2>1, <2>2, PendingMore
  <2>4. IsFiniteSet(P') /\ Cardinality(P') = Cardinality(P) + k
    <3>1. IsFiniteSet(P) /\ IsFiniteSet(RowsOf(c, k)) /\ Cardinality(RowsOf(c, k)) = k
      BY <2>1, RowsOfSize DEF Balanced
    <3> HIDE DEF P
    <3>2. /\ IsFiniteSet(P \union RowsOf(c, k))
          /\ Cardinality(P \union RowsOf(c, k)) = Cardinality(P) + Cardinality(RowsOf(c, k))
      BY <2>3, <3>1, UnionSize
    <3> QED
      BY <2>3, <3>1, <3>2
  <2>5. Size(store'[t]) \in Nat
    BY <1>7, RemovedLines, SizeType DEF TablesOK, TableOK
  <2>6. \A s, q, m, ad, ar, d, r, n \in Nat :
          n = s - q /\ s + ad + d = m + ar + r => q + ad + (d + n) = m + ar + r
    BY SMT
  <2>7. Size(store'[u]) + audit[u].deleted + (Cardinality(P) + k)
          = made[u] + audit[u].restored + Cardinality(Pending(u, "restored"))
    <3>1. k = Size(store[u]) - Size(store'[u])
      BY <1>7 DEF k
    <3>2. Size(store[u]) + audit[u].deleted + Cardinality(P)
            = made[u] + audit[u].restored + Cardinality(Pending(u, "restored"))
      BY DEF Balanced, Adds
    <3>3. /\ Size(store[u]) \in Nat /\ made[u] \in Nat
          /\ audit[u].deleted \in Nat /\ audit[u].restored \in Nat
          /\ Cardinality(P) \in Nat /\ Cardinality(Pending(u, "restored")) \in Nat
      BY BalancedTypes
    <3> HIDE DEF P
    <3> QED
      BY <1>7, <2>1, <2>5, <2>6, <3>1, <3>2, <3>3
  <2> QED
    BY <1>1, <1>5, <2>4, <2>7 DEF Balanced, Adds
<1> QED
  BY <1>6, <1>7

(* The rows that a restore put back wait to be recorded. *)
LEMMA BalanceInserted ==
    ASSUME TypeInv, NEW c \in Clients, InsertRestored(c), NEW u \in Numbered, Balanced(u)
    PROVE  Balanced(u)'
<1> SUFFICES ASSUME NEW t, t = req[c].table, NEW k, k = Size(sel[c]),
                    NEW new, new = NewLines(c, k)
             PROVE  Balanced(u)'
  OBVIOUS
<1>1. /\ pc[c] = "insert" /\ pc' = [pc EXCEPT ![c] = "record"] /\ InsertFirst(c, k)
      /\ count' = [count EXCEPT ![c] = IF t \in Numbered THEN k ELSE 0]
      /\ UNCHANGED <<req, audit>> /\ UNCHANGED made
      /\ req[c].kind = "restore" /\ pc \in [Clients -> Labels]
      /\ count \in [Clients -> Nat] /\ IsFile(sel[c]) /\ u \in Tables
  BY TableAssumption DEF InsertRestored, InsertFirst, TypeInv, ClientsOK, ClientOK
<1>2. k \in Nat
  BY <1>1, SizeType
<1>3. pc'[c] = "record" /\ \A d \in Clients \ {c} : SameWait(d)
  BY <1>1 DEF SameWait
<1>4. /\ AuditField(c) = "restored" /\ AuditField(c)' = "restored" /\ "restored" # "deleted"
      /\ ~Waits(c, u, "deleted") /\ ~Waits(c, u, "deleted")' /\ ~Waits(c, u, "restored")
  BY <1>1 DEF AuditField, Waits
<1>5. Pending(u, "deleted")' = Pending(u, "deleted")
  BY <1>3, <1>4, PendingOther
<1>6. Inserts(c, k, t, new)
  BY <1>1, <1>2, InsertedLines
<1>7. CASE u # t
  <2>1. ~Waits(c, u, "restored")'
    BY <1>1, <1>7 DEF Waits
  <2>2. Pending(u, "restored")' = Pending(u, "restored")
    BY <1>3, <1>4, <2>1, PendingOther
  <2>3. store'[u] = store[u]
    BY <1>1, <1>6, <1>7 DEF Inserts
  <2> QED
    BY <1>1, <1>5, <2>2, <2>3, BalanceSame
<1>8. CASE u = t
  <2> DEFINE P == Pending(u, "restored")
  <2>1. count'[c] = k
    BY <1>1, <1>8
  <2>2. Waits(c, u, "restored")'
    BY <1>1, <1>3, <1>4, <1>8 DEF Waits
  <2>3. P' = P \union RowsOf(c, k) /\ P \intersect RowsOf(c, k) = {}
    BY <1>1, <1>2, <1>3, <2>1, <2>2, PendingMore
  <2>4. IsFiniteSet(P') /\ Cardinality(P') = Cardinality(P) + k
    <3>1. IsFiniteSet(P) /\ IsFiniteSet(RowsOf(c, k)) /\ Cardinality(RowsOf(c, k)) = k
      BY <1>2, RowsOfSize DEF Balanced
    <3> HIDE DEF P
    <3>2. /\ IsFiniteSet(P \union RowsOf(c, k))
          /\ Cardinality(P \union RowsOf(c, k)) = Cardinality(P) + Cardinality(RowsOf(c, k))
      BY <2>3, <3>1, UnionSize
    <3> QED
      BY <2>3, <3>1, <3>2
  <2>5. Size(store'[u]) = Size(store[u]) + k
    <3>1. /\ DOMAIN store'[t] = DOMAIN store[t] \union new
          /\ DOMAIN store[t] \intersect new = {} /\ IsFiniteSet(new)
          /\ Cardinality(new) = Size(FirstRows(sel[c], k))
      BY <1>6 DEF Inserts
    <3>2. DOMAIN FirstRows(sel[c], k) = DOMAIN sel[c]
      <4>1. Size(sel[c]) <= k
        <5>1. \A m \in Nat : m <= m
          BY SMT
        <5> QED
          BY <1>2, <5>1
      <4> QED
        BY <1>1, <1>2, <4>1, FirstRowsFile
    <3>3. IsFiniteSet(DOMAIN store[t])
      BY <1>1, <1>8 DEF TypeInv, TablesOK, TableOK, IsFile
    <3>4. Cardinality(new) = k
      BY <3>1, <3>2 DEF Size
    <3>5. Cardinality(DOMAIN store[t] \union new) = Cardinality(DOMAIN store[t]) + Cardinality(new)
      BY <3>1, <3>3, UnionSize
    <3> QED
      BY <1>8, <3>1, <3>4, <3>5 DEF Size
  <2>6. \A s, m, ad, ar, d, r, n \in Nat :
          s + ad + d = m + ar + r => s + n + ad + d = m + ar + (r + n)
    BY SMT
  <2>7. Size(store[u]) + k + audit[u].deleted + Cardinality(Pending(u, "deleted"))
          = made[u] + audit[u].restored + (Cardinality(P) + k)
    <3>1. Size(store[u]) + audit[u].deleted + Cardinality(Pending(u, "deleted"))
            = made[u] + audit[u].restored + Cardinality(P)
      BY DEF Balanced, Adds
    <3>2. /\ Size(store[u]) \in Nat /\ made[u] \in Nat
          /\ audit[u].deleted \in Nat /\ audit[u].restored \in Nat
          /\ Cardinality(P) \in Nat /\ Cardinality(Pending(u, "deleted")) \in Nat
      BY <1>1, BalancedTypes
    <3> HIDE DEF P
    <3> QED
      BY <1>2, <2>6, <3>1, <3>2
  <2> QED
    BY <1>1, <1>5, <2>4, <2>5, <2>7 DEF Balanced, Adds
<1> QED
  BY <1>7, <1>8

(* What is recorded goes from the waiting to the log. *)
LEMMA BalanceRecorded ==
    ASSUME TypeInv, NEW c \in Clients, pc[c] = "record", Forget({c}),
           audit' = [audit EXCEPT ![req[c].table][AuditField(c)] = @ + count[c]],
           UNCHANGED tables, NEW u \in Tables, Balanced(u)
    PROVE  Balanced(u)'
<1> SUFFICES ASSUME NEW t, t = req[c].table, NEW k, k = count[c] PROVE Balanced(u)'
  OBVIOUS
<1>1. /\ k \in Nat /\ t \in Tables /\ audit \in [Tables -> [deleted : Nat, restored : Nat]]
      /\ pc \in [Clients -> Labels]
  BY DEF TypeInv, ClientsOK, ClientOK, LogOK
<1>2. pc'[c] = "idle" /\ \A d \in Clients \ {c} : SameWait(d)
  BY DEF Forget, SameWait
<1>3. UNCHANGED <<store, made>>
  BY DEF tables
<1>4. \A field : ~Waits(c, u, field)'
  BY <1>2 DEF Waits
<1>5. CASE u # t
  <2>1. \A field : ~Waits(c, u, field)
    BY <1>5 DEF Waits
  <2>2. /\ Pending(u, "restored")' = Pending(u, "restored")
        /\ Pending(u, "deleted")' = Pending(u, "deleted")
    BY <1>2, <1>4, <2>1, PendingOther
  <2>3. audit'[u] = audit[u]
    BY <1>1, <1>5
  <2> QED
    BY <1>3, <2>2, <2>3, BalanceSame
<1>6. ASSUME NEW field \in {"deleted", "restored"}, AuditField(c) = field, u = t
      PROVE  /\ IsFiniteSet(Pending(u, field)')
             /\ Cardinality(Pending(u, field)) = Cardinality(Pending(u, field)') + k
             /\ Cardinality(Pending(u, field)') \in Nat
  <2> DEFINE P == Pending(u, field)
  <2>1. Waits(c, u, field)
    BY <1>6 DEF Waits
  <2>2. P = P' \union RowsOf(c, k) /\ P' \intersect RowsOf(c, k) = {}
    BY <1>1, <1>2, <2>1, PendingLess
  <2>3. IsFiniteSet(P)
    BY <1>6 DEF Balanced
  <2>4. IsFiniteSet(RowsOf(c, k)) /\ Cardinality(RowsOf(c, k)) = k
    BY <1>1, RowsOfSize
  <2> HIDE DEF P
  <2>5. IsFiniteSet(P')
    BY <2>2, <2>3, FS_Subset
  <2>6. Cardinality(P' \union RowsOf(c, k)) = Cardinality(P') + Cardinality(RowsOf(c, k))
    BY <2>2, <2>4, <2>5, UnionSize
  <2>7. Cardinality(P) = Cardinality(P') + k /\ Cardinality(P') \in Nat
    BY <2>2, <2>4, <2>5, <2>6, FS_CardinalityType
  <2> QED
    BY <2>5, <2>7 DEF P
<1>7. /\ Size(store[u]) \in Nat /\ made[u] \in Nat
      /\ audit[u].deleted \in Nat /\ audit[u].restored \in Nat
      /\ Cardinality(Pending(u, "deleted")) \in Nat
      /\ Cardinality(Pending(u, "restored")) \in Nat
  BY BalancedTypes
<1>8. Size(store[u]) + audit[u].deleted + Cardinality(Pending(u, "deleted"))
        = made[u] + audit[u].restored + Cardinality(Pending(u, "restored"))
  BY DEF Balanced, Adds
<1>9. CASE u = t /\ AuditField(c) = "deleted"
  <2>1. audit'[u].deleted = audit[u].deleted + k /\ audit'[u].restored = audit[u].restored
    BY <1>1, <1>9
  <2>2. ~Waits(c, u, "restored")
    BY <1>9 DEF Waits
  <2>3. Pending(u, "restored")' = Pending(u, "restored")
    BY <1>2, <1>4, <2>2, PendingOther
  <2>4. \A s, m, ad, ar, d, r, n \in Nat :
          s + ad + (d + n) = m + ar + r => s + (ad + n) + d = m + ar + r
    BY SMT
  <2>5. /\ IsFiniteSet(Pending(u, "deleted")')
        /\ Cardinality(Pending(u, "deleted")) = Cardinality(Pending(u, "deleted")') + k
        /\ Cardinality(Pending(u, "deleted")') \in Nat
    BY <1>6, <1>9
  <2>6. Size(store[u]) + (audit[u].deleted + k) + Cardinality(Pending(u, "deleted")')
          = made[u] + audit[u].restored + Cardinality(Pending(u, "restored"))
    BY <1>1, <1>7, <1>8, <2>4, <2>5
  <2> QED
    BY <1>3, <2>1, <2>3, <2>5, <2>6 DEF Balanced, Adds
<1>10. CASE u = t /\ AuditField(c) = "restored"
  <2>1. audit'[u].restored = audit[u].restored + k /\ audit'[u].deleted = audit[u].deleted
    BY <1>1, <1>10
  <2>2. ~Waits(c, u, "deleted")
    BY <1>10 DEF Waits
  <2>3. Pending(u, "deleted")' = Pending(u, "deleted")
    BY <1>2, <1>4, <2>2, PendingOther
  <2>4. \A s, m, ad, ar, d, r, n \in Nat :
          s + ad + d = m + ar + (r + n) => s + ad + d = m + (ar + n) + r
    BY SMT
  <2>5. /\ IsFiniteSet(Pending(u, "restored")')
        /\ Cardinality(Pending(u, "restored")) = Cardinality(Pending(u, "restored")') + k
        /\ Cardinality(Pending(u, "restored")') \in Nat
    BY <1>6, <1>10
  <2>6. Size(store[u]) + audit[u].deleted + Cardinality(Pending(u, "deleted"))
          = made[u] + (audit[u].restored + k) + Cardinality(Pending(u, "restored")')
    BY <1>1, <1>7, <1>8, <2>4, <2>5
  <2> QED
    BY <1>3, <2>1, <2>3, <2>5, <2>6 DEF Balanced, Adds
<1> QED
  BY <1>5, <1>9, <1>10 DEF AuditField

LEMMA AuditInit == Init => AuditInv
<1> SUFFICES ASSUME Init, NEW t \in Numbered PROVE Balanced(t)
  BY DEF AuditInv
<1>1. Pending(t, "deleted") = {} /\ Pending(t, "restored") = {}
  BY DEF Pending, Waits, Init
<1>2. IsFiniteSet({}) /\ Cardinality({}) = 0
  BY FS_EmptySet
<1>3. /\ t \in Tables /\ store[t] = NoRows /\ made[t] = 0
      /\ audit[t].deleted = 0 /\ audit[t].restored = 0
  BY TableAssumption DEF Init
<1>4. Size(store[t]) = 0
  BY <1>2, <1>3 DEF NoRows, Size
<1>5. 0 + 0 + 0 = 0 + 0 + 0
  OBVIOUS
<1> QED
  BY <1>1, <1>2, <1>3, <1>4, <1>5 DEF Balanced, Adds

LEMMA AuditStep ==
    ASSUME TypeInv, AuditInv, [Next]_vars
    PROVE  AuditInv'
<1>1. faults \in Nat /\ (Fault => faults' # 0)
  BY DEF TypeInv, LogOK, Fault
<1> SUFFICES ASSUME faults' = 0, NEW u \in Numbered PROVE Balanced(u)'
  BY DEF AuditInv
<1>2. ~Fault /\ u \in Tables
  BY <1>1, TableAssumption
<1>3. \/ UNCHANGED faults
      \/ \E c \in Clients : Record(c) \/ Fail(c)
      \/ Crash
  BY DEF Next, OpenTrigger, CloseTrigger, Schedule, Tick, Delete, Archive, Restore, Begin,
     WriteArchive, Remove, InsertRestored, Finished, vars
<1>4. UNCHANGED faults
  BY <1>2, <1>3 DEF Record, Fail, Crash
<1>5. Balanced(u)
  BY <1>4 DEF AuditInv
<1>6. ASSUME UNCHANGED <<store, made, audit>>, \A c \in Clients : SameWait(c)
      PROVE  Balanced(u)'
  BY <1>5, <1>6, PendingSame, BalanceSame
<1>7. ASSUME NEW t \in Tables, NEW k \in KeysOf[t],
             OpenTrigger(t, k) \/ CloseTrigger(t, k) \/ Schedule(t, k)
      PROVE  Balanced(u)'
  BY <1>2, <1>5, <1>7, BalanceMade
<1>8. CASE Tick \/ UNCHANGED vars
  BY <1>6, <1>8 DEF Tick, vars, tables, clients, SameWait
<1>9. ASSUME NEW c \in Clients, NEW r, NEW rows, NEW next, next # "record",
             Begin(c, r, rows, next)
      PROVE  Balanced(u)'
  <2>1. \A d \in Clients : SameWait(d)
    BY <1>9 DEF Begin, SameWait, TypeInv, ClientsOK
  <2> QED
    BY <1>6, <1>9, <2>1 DEF Begin, tables
<1>10. ASSUME NEW c \in Clients,
              \/ \E t \in Tables : \/ \E f \in Filters : Delete(c, t, f)
                                   \/ \E before \in Befores : Archive(c, t, before)
              \/ \E name \in DOMAIN archives : Restore(c, name)
       PROVE  Balanced(u)'
  <2>1. \A t \in Tables, f \in Filters : Delete(c, t, f) => Balanced(u)'
    BY <1>9 DEF Delete
  <2>2. \A t \in Tables, before \in Befores : Archive(c, t, before) => Balanced(u)'
    BY <1>9 DEF Archive
  <2>3. \A name \in DOMAIN archives : Restore(c, name) => Balanced(u)'
    BY <1>9 DEF Restore
  <2> QED
    BY <1>10, <2>1, <2>2, <2>3
<1>11. ASSUME NEW c \in Clients, WriteArchive(c) PROVE Balanced(u)'
  <2>1. \A d \in Clients : SameWait(d)
    BY <1>11 DEF WriteArchive, SameWait, TypeInv, ClientsOK
  <2> QED
    BY <1>6, <1>11, <2>1 DEF WriteArchive, tables
<1>12. ASSUME NEW c \in Clients, Remove(c) PROVE Balanced(u)'
  BY <1>2, <1>5, <1>12, BalanceRemoved
<1>13. ASSUME NEW c \in Clients, InsertRestored(c) PROVE Balanced(u)'
  BY <1>5, <1>13, BalanceInserted
<1>14. ASSUME NEW c \in Clients, Record(c) PROVE Balanced(u)'
  BY <1>2, <1>5, <1>14, BalanceRecorded DEF Record
<1> QED
  BY <1>2, <1>7, <1>8, <1>10, <1>11, <1>12, <1>13, <1>14 DEF Next, Finished, Fail, Crash

(* When no request is in progress and none has failed, the log accounts for    *)
(* every row of a table with ids (exporting.py:4-5): concurrent requests that  *)
(* select the same rows record each row once, since a delete counts what it    *)
(* took away.                                                                  *)
THEOREM LogComplete == Spec => []AuditAddsUp
<1>1. TypeInv /\ AuditInv => AuditAddsUp
  <2> SUFFICES ASSUME TypeInv, AuditInv, faults = 0, \A c \in Clients : pc[c] = "idle",
                      NEW t \in Numbered
               PROVE  Size(store[t]) = made[t] + audit[t].restored - audit[t].deleted
    BY DEF AuditAddsUp
  <2>1. Balanced(t) /\ t \in Tables
    BY TableAssumption DEF AuditInv
  <2>2. Pending(t, "deleted") = {} /\ Pending(t, "restored") = {} /\ Cardinality({}) = 0
    BY FS_EmptySet DEF Pending, Waits
  <2>3. Size(store[t]) + audit[t].deleted + 0 = made[t] + audit[t].restored + 0
    BY <2>1, <2>2 DEF Balanced, Adds
  <2>4. /\ Size(store[t]) \in Nat /\ made[t] \in Nat
        /\ audit[t].deleted \in Nat /\ audit[t].restored \in Nat
    BY <2>1, BalancedTypes
  <2>5. \A s, m, ad, ar \in Nat : s + ad + 0 = m + ar + 0 => s = m + ar - ad
    BY SMT
  <2> QED
    BY <2>3, <2>4, <2>5
<1>2. TypeInv /\ [Next]_vars => TypeInv'
  BY TypeStep
<1>3. TypeInv /\ AuditInv /\ [Next]_vars => AuditInv'
  BY AuditStep
<1> QED
  BY <1>1, <1>2, <1>3, TypeInit, AuditInit, PTL DEF Spec

=============================================================================
