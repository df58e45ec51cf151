--------------------------- MODULE CsvTableProofs ---------------------------
(***************************************************************************)
(* Theorems about the CSV table, for any threads, processes, arguments and *)
(* bounds.  With writes that may be cut short anywhere, its variables keep *)
(* their types, its locked section excludes and no lock leaks.  When every *)
(* write ends with a row (~MidRowFlush), the ids of the stored rows follow *)
(* the order of insertion; otherwise a joined line may get a larger id.    *)
(***************************************************************************)
EXTENDS CsvTable, TLAPS, WellFoundedInduction

-----------------------------------------------------------------------------
(* Data. *)

\* A non-empty set of naturals has a least element.
LEMMA LeastNatural ==
    ASSUME NEW T \in SUBSET Nat, T # {}
    PROVE  \E m \in T : \A k \in T : m <= k
<1>1. PICK m \in T : \A k \in T : <<k, m>> \notin OpToRel(<, Nat)
  BY WFMin, NatLessThanWellFounded, Zenon
<1>2. \A k \in T : ~(k < m)
  BY <1>1 DEF OpToRel
<1>. QED
  BY <1>2

\* A file with a line has one with the largest id.  The argument is about the
\* least number of leading lines for which it would fail.
LEMMA LargestId ==
    ASSUME NEW f, NEW n \in Nat, IsFile(f, n), DOMAIN f # {}
    PROVE  \E m \in DOMAIN f : \A l \in DOMAIN f : f[l].id <= f[m].id
<1>. DEFINE Below(k) == {l \in DOMAIN f : l < k}
            Good(k) == Below(k) = {} \/ \E m \in Below(k) :
                         \A l \in Below(k) : f[l].id <= f[m].id
            Bad == {k \in Nat : ~Good(k)}
<1>1. DOMAIN f \subseteq Nat /\ \A l \in DOMAIN f : f[l].id \in Nat /\ l < n
  BY DEF IsFile, Row
<1>2. Bad = {}
  <2>. SUFFICES ASSUME Bad # {} PROVE FALSE
    OBVIOUS
  <2>1. PICK k \in Bad : \A j \in Bad : k <= j
    <3>1. Bad \in SUBSET Nat
      OBVIOUS
    <3>. QED
      BY <3>1, LeastNatural, Zenon
  <2>0. k \in Nat
    BY <2>1
  <2>2. k # 0
    <3>1. Below(0) = {}
      BY <1>1
    <3>. QED
      BY <2>1, <3>1
  <2>3. Good(k - 1)
    <3>1. k - 1 \in Nat /\ ~(k <= k - 1)
      BY <2>0, <2>2
    <3>2. k - 1 \notin Bad
      BY <2>1, <3>1
    <3>. QED
      BY <3>1, <3>2
  <2>4. CASE k - 1 \notin DOMAIN f
    <3>1. ASSUME NEW l \in DOMAIN f PROVE l < k <=> l < k - 1
      <4>1. l \in Nat /\ l # k - 1
        BY <1>1, <2>4
      <4>. QED
        BY <2>0, <4>1
    <3>2. Below(k) = Below(k - 1)
      BY <3>1
    <3>. QED
      BY <2>1, <2>3, <3>2
  <2>5. CASE k - 1 \in DOMAIN f
    <3>1. Below(k) = Below(k - 1) \union {k - 1}
      BY <1>1, <2>0, <2>5
    <3>2. CASE Below(k - 1) = {}
      BY <1>1, <2>1, <3>1, <3>2
    <3>3. CASE \E m \in Below(k - 1) : \A l \in Below(k - 1) : f[l].id <= f[m].id
      <4>1. PICK m \in Below(k - 1) : \A l \in Below(k - 1) : f[l].id <= f[m].id
        BY <3>3
      <4>2. f[m].id \in Nat /\ f[k - 1].id \in Nat
        BY <1>1, <2>5
      <4>3. CASE f[k - 1].id <= f[m].id
        <5>1. \A l \in Below(k) : f[l].id <= f[m].id
          BY <3>1, <4>1, <4>3
        <5>. QED
          BY <2>1, <3>1, <5>1
      <4>4. CASE f[m].id <= f[k - 1].id
        <5>1. \A l \in Below(k) : f[l].id <= f[k - 1].id
          BY <1>1, <3>1, <4>1, <4>4
        <5>. QED
          BY <2>1, <3>1, <5>1
      <4>. QED
        BY <4>2, <4>3, <4>4
    <3>. QED
      BY <2>3, <3>2, <3>3
  <2>. QED
    BY <2>4, <2>5
<1>3. Good(n) /\ Below(n) = DOMAIN f
  BY <1>1, <1>2
<1>. QED
  BY <1>3

\* The self-healing of the counter finds an id no stored row exceeds.
LEMMA MaxExistingIdBounds ==
    ASSUME NEW f, NEW n \in Nat, IsFile(f, n)
    PROVE  /\ MaxExistingId(f) \in Nat
           /\ \A l \in DOMAIN f : f[l].id <= MaxExistingId(f)
<1>. DEFINE ids == {f[l].id : l \in DOMAIN f}
<1>1. ids \subseteq Nat
  BY DEF IsFile, Row
<1>2. CASE ids = {}
  BY <1>2 DEF MaxExistingId
<1>3. CASE ids # {}
  <2>1. \E m \in ids : \A i \in ids : i <= m
    BY <1>3, LargestId
  <2>2. MaxExistingId(f) = CHOOSE m \in ids : \A i \in ids : i <= m
    BY <1>3 DEF MaxExistingId
  <2>3. MaxExistingId(f) \in ids /\ \A i \in ids : i <= MaxExistingId(f)
    BY <2>1, <2>2, Zenon
  <2>. QED
    BY <1>1, <2>3
<1>. QED
  BY <1>2, <1>3

-----------------------------------------------------------------------------
(* Types. *)

\* What each kind of call carries.
LEMMA CallFields ==
    ASSUME NEW o \in Calls
    PROVE  /\ o.kind \in {"insert", "upsert", "delete", "select", "clear", "init"}
           /\ o.kind = "insert" => o.batch \in Seq(NewRow) /\ Len(o.batch) > 0
           /\ o.kind = "upsert" => o.key \in Keys /\ o.patch \in Patches
           /\ o.kind \in {"delete", "select"} => o.keys \in SUBSET Keys
<1>1. CASE o \in [kind : {"insert"}, batch : Batches]
  BY <1>1, BatchAssumption
<1>2. CASE o \in {[kind |-> "upsert", key |-> u.key, patch |-> u.patch] : u \in Upserts}
  BY <1>2, UpsertAssumption
<1>3. CASE o \in [kind : {"delete", "select"}, keys : Filters]
  BY <1>3, FilterAssumption
<1>4. CASE o \in [kind : {"clear", "init"}]
  BY <1>4
<1>. QED
  BY <1>1, <1>2, <1>3, <1>4, Zenon DEF Calls

\* Cells stay cells.
LEMMA MergeType ==
    ASSUME NEW cols \in Cells, NEW patch \in Patches
    PROVE  Merge(cols, patch) \in Cells /\ Blank(patch) \in Cells
<1>1. \A c \in DOMAIN patch : patch[c] \in Vals
  BY DEF Patches
<1>. QED
  BY <1>1 DEF Merge, Blank, Cells

\* A file with one line more, or with a line replaced.
LEMMA PutType ==
    ASSUME NEW f, NEW n \in Nat \ {0}, IsFile(f, n), NEW r \in Row
    PROVE  /\ IsFile(Put(f, n, r), n + 1)
           /\ IsFile(f, n + 1)
           /\ \A l : IsFile([f EXCEPT ![l] = r], n)
  BY DEF IsFile, Put

LEMMA EmptyType == \A n : IsFile(Empty, n)
  BY DEF IsFile, Empty

LEMMA JunkType == \A id \in Nat : Junk(id) \in Row
  BY DEF Junk, Row, Cells

\* Where a thread is agrees with the call it makes and the rows it appended.
Control(t) ==
    /\ pc[t] # "idle" => op[t] \in Calls
    /\ pc[t] = "append" => op[t].kind = "insert" /\ done[t] < Len(op[t].batch)
    /\ pc[t] = "seq" => op[t].kind \in {"insert", "upsert"}
    /\ pc[t] \notin {"append", "unlock", "tlrel"} => done[t] = 0

TypeInv == TypeOK /\ \A t \in Threads : Control(t)

LEMMA NextRowType ==
    ASSUME TypeInv, NEW t \in Threads, pc[t] = "append"
    PROVE  /\ NextRow(t) \in Row
           /\ NextRow(t).key \in Keys
           /\ NextRow(t).id = last[t] + done[t] + 1
<1>1. op[t].batch \in Seq(NewRow) /\ done[t] + 1 \in 1..Len(op[t].batch)
  BY CallFields DEF TypeInv, TypeOK, Control
<1>2. op[t].batch[done[t] + 1] \in NewRow
  BY <1>1
<1>3. last[t] + done[t] + 1 \in Nat
  BY DEF TypeInv, TypeOK
<1>. QED
  BY <1>2, <1>3 DEF NextRow, Stored, Row, NewRow

\* What is left of a row on the disk is a row.
LEMMA FragmentsType ==
    ASSUME NEW r \in Row
    PROVE  /\ \A q \in Prefixes(r.id) : Junk(q) \in Row
           /\ \A f \in Fragments(r) : f \in Row
<1>1. r.id \in Nat
  BY DEF Row
<1>2. \A q \in Prefixes(r.id) : q \in Nat
  BY <1>1 DEF Prefixes
<1>3. [c \in Cols |-> Null] \in Cells
  BY DEF Cells
<1>4. [r EXCEPT !.cols = [c \in Cols |-> Null]] \in Row
  BY <1>3 DEF Row
<1>. QED
  BY <1>1, <1>2, <1>4, JunkType DEF Fragments

\* A row written into the line that was cut short.
LEMMA ContinueType ==
    ASSUME TypeOK, NEW r \in Row, ContinueLine(r)
    PROVE  IsFile(file', eof') /\ eof' = eof
<1>1. eof' = eof /\ IsFile(file, eof) /\ eof \in Nat \ {0}
  BY DEF TypeOK, ContinueLine
<1>2. CASE eof - 1 \notin DOMAIN file
  <2>1. PICK s : file' = [file EXCEPT ![eof - 1] = s]
    BY DEF ContinueLine
  <2>. QED
    BY <1>1, <1>2, <2>1 DEF IsFile
<1>3. CASE eof - 1 \in DOMAIN file
  <2>1. file[eof - 1].id \in Nat /\ r.id \in Nat
    BY <1>1, <1>3 DEF IsFile, Row
  <2>2. \A id \in Glued(file[eof - 1].id, r.id) : id \in Nat
    BY <2>1, JunkAssumption DEF Glued
  <2>3. \A id \in Glued(file[eof - 1].id, r.id) : [r EXCEPT !.id = id] \in Row
    BY <2>2 DEF Row
  <2>4. PICK s \in Row : file' = [file EXCEPT ![eof - 1] = s]
    BY <2>3, JunkType, JunkAssumption DEF ContinueLine
  <2>. QED
    BY <1>1, <2>4 DEF IsFile
<1>. QED
  BY <1>2, <1>3

\* Whatever the parser returns is a file.
LEMMA ReadingType ==
    ASSUME TypeOK, NEW f \in Readings
    PROVE  IsFile(f, eof)
<1>1. IsFile(file, eof)
  BY DEF TypeOK
<1>2. CASE f \in Swallowed
  <2>1. PICK l \in DOMAIN file, m \in DOMAIN file : f = Swallowing(l, m)
    BY <1>2 DEF Swallowed
  <2>2. DOMAIN f \subseteq DOMAIN file /\ \A k \in DOMAIN f : f[k] = file[k]
    BY <2>1 DEF Swallowing
  <2>. QED
    BY <1>1, <2>2 DEF IsFile
<1>3. CASE f \in Shifted
  <2>1. PICK id \in JunkIds : f = [l \in DOMAIN file |-> Junk(id)]
    BY <1>3 DEF Shifted
  <2>2. Junk(id) \in Row
    BY JunkType, JunkAssumption
  <2>. HIDE DEF Junk
  <2>. QED
    BY <1>1, <2>1, <2>2 DEF IsFile
<1>. QED
  BY <1>1, <1>2, <1>3 DEF Readings

LEMMA LastIdType ==
    ASSUME TypeOK, NEW f \in Readings
    PROVE  LastId(f) \in Nat
<1>1. MaxExistingId(f) \in Nat
  BY ReadingType, MaxExistingIdBounds DEF TypeOK
<1>. QED
  BY <1>1 DEF LastId, TypeOK, NoSeq

\* What a write that is cut short does to the disk.
LEMMA CutShortType ==
    ASSUME TypeInv, NEW T \in SUBSET Threads, CutShort(T)
    PROVE  /\ exists' \in BOOLEAN /\ torn' \in {"no", "id", "row"}
           /\ eof' \in Nat \ {0} /\ eof' >= eof
           /\ IsFile(file', eof')
           /\ seq' \in Nat \union {NoSeq}
<1>1. CASE UNCHANGED disk
  BY <1>1 DEF TypeInv, TypeOK, disk
<1>2. CASE ~UNCHANGED disk
  <2>1. PICK t \in T : /\ pc[t] = "append"
                       /\ \/ \E q \in Prefixes(NextRow(t).id) : WriteLine(Junk(q))
                          \/ \E r \in Fragments(NextRow(t)) : WriteLine(r)
    BY <1>2 DEF CutShort
  <2>2. PICK r \in Row : WriteLine(r)
    BY <2>1, NextRowType, FragmentsType
  <2>3. torn' \in {"id", "row"} /\ exists' = TRUE /\ seq' = seq
    BY <1>2 DEF CutShort
  <2>. QED
    BY <2>2, <2>3, PutType DEF WriteLine, TypeInv, TypeOK
<1>. QED
  BY <1>1, <1>2

LEMMA WiderFile ==
    ASSUME NEW f, NEW m \in Nat, NEW n \in Nat, m <= n, IsFile(f, m)
    PROVE  IsFile(f, n)
  BY DEF IsFile

LEMMA Successors ==
    ASSUME NEW m \in Nat, NEW n \in Nat, n >= m
    PROVE  m + 1 \in Nat /\ n + 1 \in Nat /\ m + 1 <= n + 1
  OBVIOUS

LEMMA NarrowerFile ==
    ASSUME NEW f, NEW n \in Nat, IsFile(f, n + 1), n \notin DOMAIN f
    PROVE  IsFile(f, n)
  BY DEF IsFile

\* The temporary files are still files when the file has grown.
LEMMA WorkStays ==
    ASSUME TypeOK, eof' \in Nat \ {0}, eof' >= eof,
           \A t \in Threads : IsFile(work'[t], eof + 1)
    PROVE  \A t \in Threads : IsFile(work'[t], eof' + 1)
<1>1. eof + 1 \in Nat /\ eof' + 1 \in Nat /\ eof + 1 <= eof' + 1
  <2>1. eof \in Nat /\ eof' \in Nat
    BY DEF TypeOK
  <2>. QED
    BY <2>1, Successors
<1>2. ASSUME NEW t \in Threads PROVE IsFile(work'[t], eof' + 1)
  <2>1. IsFile(work'[t], eof + 1)
    OBVIOUS
  <2>. HIDE DEF IsFile
  <2>. QED
    BY <1>1, <2>1, WiderFile
<1>. QED
  BY <1>2

\* The type invariant holds initially and every action keeps it.
LEMMA TypeInit == Init => TypeInv
<1>. SUFFICES ASSUME Init PROVE TypeInv
  OBVIOUS
<1>1. IsFile(file, eof) /\ \A t \in Threads : IsFile(work[t], eof + 1)
  BY EmptyType, Zenon DEF Init
<1>2. NoRet \in [ok : BOOLEAN, rows : SUBSET Row]
  BY DEF NoRet
<1>4. \A t \in Threads : Control(t)
  BY DEF Init, Control
<1>5. ret \in [Threads -> [ok : BOOLEAN, rows : SUBSET Row]]
  BY <1>2 DEF Init
<1>6. DOMAIN work = Threads
  BY DEF Init
<1>7. eof \in Nat \ {0} /\ seq \in Nat \union {NoSeq} /\ calls \in Nat /\ faults \in Nat
  BY DEF Init
<1>11. exists \in BOOLEAN /\ torn \in {"no", "id", "row"}
  BY Zenon DEF Init
<1>8. tl \in [Procs -> Threads \union {NoThread}] /\ fl \in Threads \union {NoThread}
  BY DEF Init
<1>9. pc \in [Threads -> Labels] /\ op \in [Threads -> Calls \union {NoCall}]
  BY DEF Init, Labels
<1>10. last \in [Threads -> Nat] /\ done \in [Threads -> Nat]
  BY DEF Init
<1>. QED
  BY <1>1, <1>4, <1>5, <1>6, <1>7, <1>8, <1>9, <1>10, <1>11 DEF TypeInv, TypeOK

\* What is known of the memory of the threads after those of T forgot theirs.
Forgotten(T) ==
    /\ op' \in [Threads -> Calls \union {NoCall}]
    /\ last' \in [Threads -> Nat]
    /\ done' \in [Threads -> Nat]
    /\ DOMAIN work' = Threads
    /\ \A t \in Threads : IsFile(work'[t], eof + 1)
    /\ ret' \in [Threads -> [ok : BOOLEAN, rows : SUBSET Row]]
    /\ \A t \in Threads \ T : op'[t] = op[t] /\ done'[t] = done[t]
    /\ \A t \in T : done'[t] = 0

LEMMA ForgetType ==
    ASSUME TypeInv, NEW T \in SUBSET Threads, Forget(T)
    PROVE  Forgotten(T)
<1>1. IsFile(Empty, eof + 1)
  BY EmptyType DEF TypeInv, TypeOK
<1>2. \A t \in Threads : IsFile(work'[t], eof + 1)
  BY <1>1 DEF Forget, TypeInv, TypeOK
<1>3. NoRet \in [ok : BOOLEAN, rows : SUBSET Row]
  BY DEF NoRet
<1>4. ret' \in [Threads -> [ok : BOOLEAN, rows : SUBSET Row]]
  BY <1>3 DEF Forget, TypeInv, TypeOK
<1>. QED
  BY <1>2, <1>4 DEF Forget, Forgotten, TypeInv, TypeOK

LEMMA TypeStep ==
    ASSUME TypeInv, [Next]_vars
    PROVE  TypeInv'
<1>a. \A T \in SUBSET Threads : Forget(T) => Forgotten(T)
  BY ForgetType
<1>. USE DEF TypeInv, TypeOK, Labels
<1>0. \A t \in Threads : Control(t)
  OBVIOUS
<1>1. ASSUME NEW t \in Threads, NEW o \in Calls, Invoke(t, o) PROVE TypeInv'
  BY <1>0, <1>1 DEF Invoke, Goto, Fault, Control, disk, locks, local, counters
<1>2. ASSUME NEW t \in Threads, Probe(t) PROVE TypeInv'
  <2>1. CASE exists
    <3>1. Forgotten({t})
      BY <1>a, <1>2, <2>1 DEF Probe
    <3>. QED
      BY <1>0, <1>2, <2>1, <3>1 DEF Probe, Forgotten, Control, disk, locks, counters
  <2>2. CASE ~exists
    BY <1>0, <1>2, <2>2 DEF Probe, Control, disk, locks, local, counters
  <2>. QED
    BY <2>1, <2>2
<1>3. ASSUME NEW t \in Threads, AcquireThreadLock(t) PROVE TypeInv'
  BY <1>0, <1>3 DEF AcquireThreadLock, Goto, Fault, Control, disk, locks, local, counters
<1>4. ASSUME NEW t \in Threads, AcquireFileLock(t) PROVE TypeInv'
  BY <1>0, <1>4 DEF AcquireFileLock, Goto, Fault, Control, disk, locks, local, counters
<1>5. ASSUME NEW t \in Threads, FileLockFails(t) PROVE TypeInv'
  BY <1>0, <1>5 DEF FileLockFails, Failed, Goto, Fault, Control, disk, locks, local, counters
<1>6. ASSUME NEW t \in Threads, ReleaseFileLock(t) PROVE TypeInv'
  BY <1>0, <1>6 DEF ReleaseFileLock, Goto, Fault, Control, disk, locks, local, counters
<1>7. ASSUME NEW t \in Threads, ReleaseThreadLock(t) PROVE TypeInv'
  <2>1. Forgotten({t})
    BY <1>a, <1>7 DEF ReleaseThreadLock
  <2>. QED
    BY <1>0, <1>7, <2>1 DEF ReleaseThreadLock, Goto, Forgotten, Control, disk, counters
<1>8. ASSUME NEW t \in Threads, InsertTakesIds(t) PROVE TypeInv'
  <2>1. PICK f \in Readings : last' = [last EXCEPT ![t] = LastId(f)]
    BY <1>8 DEF InsertTakesIds
  <2>2. LastId(f) \in Nat
    BY LastIdType
  <2>. QED
    BY <1>0, <1>8, <2>1, <2>2 DEF InsertTakesIds, Body, Control, disk, locks, counters
<1>9. ASSUME NEW t \in Threads, ReplaceSeq(t) PROVE TypeInv'
  <2>1. Need(op[t]) \in Nat /\ (op[t].kind = "insert" => Len(op[t].batch) > 0)
    BY <1>0, <1>9, CallFields DEF ReplaceSeq, Goto, Need, Control
  <2>. QED
    BY <1>0, <1>9, <2>1 DEF ReplaceSeq, Goto, Control, disk, locks, local, counters
<1>10. ASSUME NEW t \in Threads, AppendRow(t) PROVE TypeInv'
  <2>1. NextRow(t) \in Row
    BY <1>10, NextRowType DEF AppendRow
  <2>2. IsFile(file', eof') /\ eof' \in Nat \ {0} /\ eof' >= eof
    <3>1. CASE torn # "no"
      BY <1>10, <2>1, <3>1, ContinueType DEF AppendRow
    <3>2. CASE torn = "no"
      <4>1. IsFile(Put(file, eof, NextRow(t)), eof + 1)
        BY <2>1, PutType
      <4>. QED
        BY <1>10, <3>2, <4>1 DEF AppendRow, WriteLine
    <3>. QED
      BY <3>1, <3>2
  <2>3. \A u \in Threads : IsFile(work'[u], eof' + 1)
    BY <1>10, <2>2, WorkStays DEF AppendRow
  <2>4. ret' \in [Threads -> [ok : BOOLEAN, rows : SUBSET Row]]
    BY <1>10, <2>1 DEF AppendRow
  <2>5. \A u \in Threads : Control(u)'
    <3>1. Len(op[t].batch) \in Nat /\ done[t] \in Nat /\ done[t] < Len(op[t].batch)
      BY <1>0, <1>10, CallFields DEF AppendRow, Control
    <3>. QED
      BY <1>0, <1>10, <3>1 DEF AppendRow, Control
  <2>6. pc' \in [Threads -> Labels] /\ done' \in [Threads -> Nat]
    BY <1>10 DEF AppendRow
  <2>8. exists' \in BOOLEAN /\ torn' \in {"no", "id", "row"}
    BY <1>10, Zenon DEF AppendRow
  <2>7. /\ seq' = seq /\ tl' = tl /\ fl' = fl /\ op' = op /\ last' = last
        /\ work' = work /\ calls' = calls /\ faults' = faults
    BY <1>10 DEF AppendRow, locks, counters
  <2>. QED
    BY <2>2, <2>3, <2>4, <2>5, <2>6, <2>7, <2>8
<1>11. ASSUME NEW t \in Threads, UpsertMerges(t) PROVE TypeInv'
  <2>0. PICK f \in Readings : work' = [work EXCEPT ![t] =
          [f EXCEPT ![FirstLine(Matching(f, {op[t].key}))].cols = Merge(@, op[t].patch)]]
    BY <1>11 DEF UpsertMerges
  <2>. DEFINE l == FirstLine(Matching(f, {op[t].key}))
             g == [f EXCEPT ![l].cols = Merge(@, op[t].patch)]
  <2>1. IsFile(g, eof)
    <3>0. IsFile(f, eof)
      BY ReadingType
    <3>1. CASE l \in DOMAIN f
      <4>1. f[l] \in Row
        BY <3>0, <3>1 DEF IsFile
      <4>2. Merge(f[l].cols, op[t].patch) \in Cells
        BY <1>0, <1>11, <4>1, CallFields, MergeType DEF UpsertMerges, Body, Control, Row
      <4>3. [f[l] EXCEPT !.cols = Merge(f[l].cols, op[t].patch)] \in Row
        BY <4>1, <4>2 DEF Row
      <4>. QED
        BY <3>0, <4>3 DEF IsFile
    <3>2. CASE l \notin DOMAIN f
      BY <3>0, <3>2 DEF IsFile
    <3>. QED
      BY <3>1, <3>2
  <2>2. work' = [work EXCEPT ![t] = g]
    BY <2>0
  <2>3. IsFile(g, eof + 1)
    BY <2>1, WiderFile
  <2>. HIDE DEF g, l
  <2>. QED
    BY <1>0, <1>11, <2>2, <2>3 DEF UpsertMerges, Body, Control, disk, locks, counters
<1>12. ASSUME NEW t \in Threads, UpsertCreates(t) PROVE TypeInv'
  <2>0. PICK f \in Readings :
          /\ last' = [last EXCEPT ![t] = LastId(f)]
          /\ work' = [work EXCEPT ![t] = Put(f, eof,
               Stored(LastId(f) + 1, [key |-> op[t].key, cols |-> Blank(op[t].patch)]))]
    BY <1>12 DEF UpsertCreates
  <2>. DEFINE r == Stored(LastId(f) + 1, [key |-> op[t].key, cols |-> Blank(op[t].patch)])
  <2>1. Blank(op[t].patch) \in Cells /\ op[t].key \in Keys
    <3>1. [c \in Cols |-> Null] \in Cells
      BY DEF Cells
    <3>. QED
      BY <1>0, <1>12, <3>1, CallFields, MergeType DEF UpsertCreates, Body, Control
  <2>2. r \in Row /\ LastId(f) \in Nat
    BY <2>1, LastIdType DEF Stored, Row
  <2>3. IsFile(Put(f, eof, r), eof + 1)
    BY <2>2, ReadingType, PutType
  <2>4. work' = [work EXCEPT ![t] = Put(f, eof, r)]
    BY <2>0
  <2>. HIDE DEF r
  <2>. QED
    BY <1>0, <1>12, <2>0, <2>2, <2>3, <2>4 DEF UpsertCreates, Body, Control, disk, locks, counters
<1>13. ASSUME NEW t \in Threads, DeleteFilters(t) PROVE TypeInv'
  <2>1. \A f \in Readings : IsFile(Without(f, op[t].keys), eof + 1)
    BY ReadingType DEF IsFile, Without
  <2>2. PICK f \in Readings :
          \/ pc' = [pc EXCEPT ![t] = "unlock"] /\ UNCHANGED work
          \/ /\ pc' = [pc EXCEPT ![t] = "replace"]
             /\ work' = [work EXCEPT ![t] = Without(f, op[t].keys)]
    BY <1>13 DEF DeleteFilters
  <2>. QED
    BY <1>0, <1>13, <2>1, <2>2 DEF DeleteFilters, Body, Control, disk, locks, counters
<1>14. ASSUME NEW t \in Threads, DeleteAll(t) PROVE TypeInv'
  BY <1>0, <1>14, EmptyType DEF DeleteAll, Body, Control, disk, locks, counters
<1>15. ASSUME NEW t \in Threads, InitSchema(t) PROVE TypeInv'
  <2>1. CASE exists
    BY <1>0, <1>15, <2>1 DEF InitSchema, Body, Control, disk, locks, counters
  <2>2. CASE ~exists
    <3>1. IsFile(Empty, eof + 1)
      BY EmptyType
    <3>. HIDE DEF Empty
    <3>. QED
      BY <1>0, <1>15, <2>2, <3>1 DEF InitSchema, Body, Control, disk, locks, counters
  <2>. QED
    BY <2>1, <2>2
<1>16. ASSUME NEW t \in Threads, SelectReads(t) PROVE TypeInv'
  <2>1. PICK f \in Readings :
          ret' = [ret EXCEPT ![t].rows = {f[l] : l \in Matching(f, op[t].keys)}]
    BY <1>16, Zenon DEF SelectReads
  <2>. DEFINE rows == {f[l] : l \in Matching(f, op[t].keys)}
  <2>2. rows \subseteq Row
    <3>1. IsFile(f, eof)
      BY ReadingType
    <3>. QED
      BY <3>1 DEF Matching, IsFile
  <2>3. ret' = [ret EXCEPT ![t].rows = rows]
    BY <2>1
  <2>. HIDE DEF rows
  <2>4. /\ pc[t] = "body" /\ pc' = [pc EXCEPT ![t] = "unlock"]
        /\ UNCHANGED <<disk, locks, op, last, done, work, counters>>
    BY <1>16 DEF SelectReads, Body
  <2>. QED
    BY <1>0, <2>2, <2>3, <2>4 DEF Control, disk, locks, counters
<1>17. ASSUME NEW t \in Threads, ReplaceFile(t) PROVE TypeInv'
  <2>1. IsFile(work[t], eof + 1)
    OBVIOUS
  <2>2. IsFile(file', eof') /\ eof' \in Nat \ {0} /\ eof' >= eof
    <3>1. CASE eof \in DOMAIN work[t]
      <4>1. file' = work[t] /\ eof' = eof + 1
        BY <1>17, <3>1 DEF ReplaceFile
      <4>2. IsFile(file', eof')
        BY <2>1, <4>1
      <4>. QED
        BY <4>1, <4>2
    <3>2. CASE eof \notin DOMAIN work[t]
      <4>1. file' = work[t] /\ eof' = eof
        BY <1>17, <3>2 DEF ReplaceFile
      <4>2. IsFile(work[t], eof)
        BY <2>1, <3>2, NarrowerFile
      <4>. QED
        BY <4>1, <4>2
    <3>. QED
      BY <3>1, <3>2
  <2>3. \A u \in Threads : IsFile(work'[u], eof' + 1)
    BY <1>17, <2>2, WorkStays DEF ReplaceFile, local
  <2>. QED
    BY <1>0, <1>17, <2>2, <2>3 DEF ReplaceFile, Goto, Control, locks, local, counters
<1>18. ASSUME NEW t \in Threads, ReadRejected(t) PROVE TypeInv'
  BY <1>0, <1>18 DEF ReadRejected, Raise, Failed, Control, disk, locks, counters
<1>19. ASSUME NEW t \in Threads, Fail(t) PROVE TypeInv'
  <2>1. /\ exists' \in BOOLEAN /\ torn' \in {"no", "id", "row"}
        /\ eof' \in Nat \ {0} /\ eof' >= eof
        /\ IsFile(file', eof')
        /\ seq' \in Nat \union {NoSeq}
    BY <1>19, CutShortType DEF Fail
  <2>2. \A u \in Threads : IsFile(work'[u], eof' + 1)
    BY <1>19, <2>1, WorkStays DEF Fail, Raise
  <2>. QED
    BY <1>0, <1>19, <2>1, <2>2 DEF Fail, Fault, Raise, Failed, Control, locks
<1>20. ASSUME NEW p \in Procs, Crash(p) PROVE TypeInv'
  <2>. DEFINE T == {t \in Threads : ProcOf[t] = p}
  <2>1. /\ exists' \in BOOLEAN /\ torn' \in {"no", "id", "row"}
        /\ eof' \in Nat \ {0} /\ eof' >= eof
        /\ IsFile(file', eof')
        /\ seq' \in Nat \union {NoSeq}
    BY <1>20, CutShortType DEF Crash
  <2>2. Forgotten(T)
    BY <1>a, <1>20 DEF Crash
  <2>3. \A u \in Threads : IsFile(work'[u], eof' + 1)
    BY <2>1, <2>2, WorkStays DEF Forgotten
  <2>4. pc' = [t \in Threads |-> IF t \in T THEN "idle" ELSE pc[t]]
    BY <1>20 DEF Crash
  <2>5. tl' \in [Procs -> Threads \union {NoThread}] /\ fl' \in Threads \union {NoThread}
    BY <1>20 DEF Crash
  <2>6. calls' \in Nat /\ faults' \in Nat
    BY <1>20 DEF Crash, Fault
  <2>. HIDE DEF T
  <2>7. ASSUME NEW u \in Threads PROVE Control(u)'
    <3>1. CASE u \in T
      BY <2>2, <2>4, <3>1 DEF Forgotten, Control
    <3>2. CASE u \notin T
      <4>1. op'[u] = op[u] /\ done'[u] = done[u] /\ pc'[u] = pc[u]
        BY <2>2, <2>4, <3>2 DEF Forgotten
      <4>. QED
        BY <1>0, <4>1 DEF Control
    <3>. QED
      BY <3>1, <3>2
  <2>8. pc' \in [Threads -> Labels]
    BY <2>4
  <2>. QED
    BY <2>1, <2>2, <2>3, <2>5, <2>6, <2>7, <2>8 DEF Forgotten
<1>21. ASSUME LoseSeq PROVE TypeInv'
  BY <1>0, <1>21 DEF LoseSeq, Fault, Control, locks, local
<1>22. CASE UNCHANGED vars
  BY <1>0, <1>22 DEF vars, Control, disk, locks, local, counters
<1>. QED
  BY <1>1, <1>2, <1>3, <1>4, <1>5, <1>6, <1>7, <1>8, <1>9, <1>10, <1>11, <1>12,
     <1>13, <1>14, <1>15, <1>16, <1>17, <1>18, <1>19, <1>20, <1>21, <1>22
     DEF Next, Step, Finished

\* Every variable of the CSV table keeps its type.
THEOREM TypeCorrect == Spec => []TypeOK
<1>1. Init => TypeInv
  BY TypeInit
<1>2. TypeInv /\ [Next]_vars => TypeInv'
  BY TypeStep
<1>3. TypeInv => TypeOK
  BY DEF TypeInv
<1>. QED
  BY <1>1, <1>2, <1>3, PTL DEF Spec

-----------------------------------------------------------------------------
(* Locks. *)

\* Whoever is in the section holds the file lock; whoever holds a lock is in
\* the section it guards.
LockInv ==
    /\ \A t \in Threads : InSection(t) => fl = t
    /\ NoLockLeaks

\* A thread that moves inside the section keeps its locks.
LEMMA MovesInside ==
    ASSUME TypeInv, LockInv, NEW t \in Threads, InSection(t),
           NEW to \in {"body", "seq", "append", "replace", "unlock"},
           pc' = [pc EXCEPT ![t] = to], tl' = tl, fl' = fl
    PROVE  LockInv'
<1>1. \A u \in Threads : InSection(u)' <=> InSection(u)
  BY DEF InSection, TypeInv, TypeOK
<1>2. \A u \in Threads : u # t => pc'[u] = pc[u]
  BY DEF TypeInv, TypeOK
<1>3. \A p \in Procs : tl[p] \in Threads \union {NoThread}
  BY DEF TypeInv, TypeOK
<1>. QED
  BY <1>1, <1>2, <1>3 DEF LockInv, NoLockLeaks, TypeInv, TypeOK

\* A thread that moves outside the section, and not away from a lock.
LEMMA MovesOutside ==
    ASSUME TypeInv, LockInv, NEW t \in Threads, ~InSection(t),
           NEW to \in {"idle", "probe", "tl", "tlrel"},
           pc' = [pc EXCEPT ![t] = to], tl' = tl, fl' = fl,
           pc[t] \in {"fl", "tlrel"} => to = "tlrel"
    PROVE  LockInv'
<1>1. \A u \in Threads : InSection(u)' <=> InSection(u)
  BY DEF InSection, TypeInv, TypeOK
<1>2. \A u \in Threads : u # t => pc'[u] = pc[u]
  BY DEF TypeInv, TypeOK
<1>3. pc'[t] = to
  BY DEF TypeInv, TypeOK
<1>. QED
  BY <1>1, <1>2, <1>3 DEF LockInv, NoLockLeaks, TypeInv, TypeOK

LEMMA LockStep ==
    ASSUME TypeInv, LockInv, [Next]_vars
    PROVE  LockInv'
<1>1. ASSUME NEW t \in Threads, NEW o \in Calls, Invoke(t, o) PROVE LockInv'
  <2>1. ~InSection(t) /\ pc[t] \notin {"fl", "tlrel"}
    BY <1>1 DEF Invoke, Goto, InSection
  <2>2. PICK to \in {"probe", "tl"} : pc' = [pc EXCEPT ![t] = to]
    BY <1>1 DEF Invoke, Goto
  <2>. QED
    BY <1>1, <2>1, <2>2, MovesOutside DEF Invoke, locks
<1>2. ASSUME NEW t \in Threads, Probe(t) PROVE LockInv'
  <2>1. ~InSection(t) /\ pc[t] \notin {"fl", "tlrel"}
    BY <1>2 DEF Probe, InSection
  <2>2. PICK to \in {"idle", "tl"} : pc' = [pc EXCEPT ![t] = to]
    BY <1>2 DEF Probe
  <2>. QED
    BY <1>2, <2>1, <2>2, MovesOutside DEF Probe, locks
<1>3. ASSUME NEW t \in Threads, AcquireThreadLock(t) PROVE LockInv'
  BY <1>3, ProcAssumption
     DEF AcquireThreadLock, Goto, LockInv, NoLockLeaks, InSection, TypeInv, TypeOK
<1>4. ASSUME NEW t \in Threads, AcquireFileLock(t) PROVE LockInv'
  BY <1>4, ThreadAssumption
     DEF AcquireFileLock, Goto, LockInv, NoLockLeaks, InSection, TypeInv, TypeOK
<1>5. ASSUME NEW t \in Threads, FileLockFails(t) PROVE LockInv'
  <2>1. ~InSection(t) /\ pc' = [pc EXCEPT ![t] = "tlrel"]
    BY <1>5 DEF FileLockFails, Goto, InSection
  <2>. QED
    BY <1>5, <2>1, MovesOutside DEF FileLockFails, locks
<1>6. ASSUME NEW t \in Threads, ReleaseFileLock(t) PROVE LockInv'
  BY <1>6 DEF ReleaseFileLock, Goto, LockInv, NoLockLeaks, InSection, TypeInv, TypeOK
<1>7. ASSUME NEW t \in Threads, ReleaseThreadLock(t) PROVE LockInv'
  BY <1>7 DEF ReleaseThreadLock, Goto, LockInv, NoLockLeaks, InSection, TypeInv, TypeOK
<1>8. ASSUME NEW t \in Threads, pc[t] \in {"body", "seq", "append", "replace"},
             NEW to \in {"seq", "append", "replace", "unlock"},
             pc' = [pc EXCEPT ![t] = to], UNCHANGED locks
      PROVE  LockInv'
  BY <1>8, MovesInside DEF InSection, locks
<1>9. ASSUME NEW t \in Threads,
             \/ InsertTakesIds(t) \/ ReplaceSeq(t) \/ AppendRow(t)
             \/ UpsertMerges(t) \/ UpsertCreates(t) \/ DeleteFilters(t)
             \/ DeleteAll(t) \/ InitSchema(t) \/ SelectReads(t)
             \/ ReplaceFile(t) \/ ReadRejected(t) \/ Fail(t)
      PROVE  LockInv'
  <2>1. pc[t] \in {"body", "seq", "append", "replace"} /\ UNCHANGED locks
    BY <1>9 DEF InsertTakesIds, ReplaceSeq, AppendRow, UpsertMerges, UpsertCreates,
       DeleteFilters, DeleteAll, InitSchema, SelectReads, ReplaceFile, ReadRejected,
       Fail, Raise, Goto, Body
  <2>2. \E to \in {"seq", "append", "replace", "unlock"} : pc' = [pc EXCEPT ![t] = to]
    BY <1>9 DEF InsertTakesIds, ReplaceSeq, AppendRow, UpsertMerges, UpsertCreates,
       DeleteFilters, DeleteAll, InitSchema, SelectReads, ReplaceFile, ReadRejected,
       Fail, Raise, Goto
  <2>. QED
    BY <1>8, <2>1, <2>2
<1>10. ASSUME NEW p \in Procs, Crash(p) PROVE LockInv'
  <2>. DEFINE T == {t \in Threads : ProcOf[t] = p}
  <2>1. /\ pc' = [t \in Threads |-> IF t \in T THEN "idle" ELSE pc[t]]
        /\ tl' = [tl EXCEPT ![p] = NoThread]
        /\ fl' = IF fl \in T THEN NoThread ELSE fl
    BY <1>10 DEF Crash
  <2>2. \A u \in Threads : InSection(u)' => u \notin T /\ InSection(u)
    BY <2>1 DEF InSection
  <2>3. \A u \in Threads : InSection(u)' => fl' = u
    BY <2>1, <2>2 DEF LockInv
  <2>4. \A u \in Threads \ T : pc'[u] = pc[u]
    BY <2>1
  <2>5. ASSUME NEW q \in Procs, tl'[q] # NoThread
        PROVE  ProcOf[tl'[q]] = q /\ (InSection(tl[q])' \/ pc'[tl'[q]] \in {"fl", "tlrel"})
    <3>1. q # p /\ tl'[q] = tl[q] /\ tl[q] \in Threads
      BY <2>1, <2>5 DEF TypeInv, TypeOK
    <3>2. ProcOf[tl[q]] = q /\ (InSection(tl[q]) \/ pc[tl[q]] \in {"fl", "tlrel"})
      BY <2>5, <3>1 DEF LockInv, NoLockLeaks
    <3>3. tl[q] \notin T
      BY <3>1, <3>2
    <3>4. pc'[tl[q]] = pc[tl[q]]
      BY <2>4, <3>1, <3>3
    <3>5. tl'[q] = tl[q]
      BY <3>1
    <3>. QED
      BY <3>2, <3>4, <3>5 DEF InSection
  <2>6. ASSUME fl' # NoThread PROVE InSection(fl)' /\ fl' = fl
    <3>1. fl' = fl /\ fl \notin T /\ fl \in Threads
      BY <2>1, <2>6 DEF TypeInv, TypeOK
    <3>2. InSection(fl)
      BY <2>6, <3>1 DEF LockInv, NoLockLeaks
    <3>3. pc'[fl] = pc[fl]
      BY <2>4, <3>1
    <3>. QED
      BY <3>1, <3>2, <3>3 DEF InSection
  <2>. QED
    BY <2>3, <2>5, <2>6 DEF LockInv, NoLockLeaks, InSection
<1>11. CASE LoseSeq
  BY <1>11 DEF LoseSeq, locks, LockInv, NoLockLeaks, InSection
<1>12. CASE UNCHANGED vars
  BY <1>12 DEF vars, locks, LockInv, NoLockLeaks, InSection
<1>. QED
  BY <1>1, <1>2, <1>3, <1>4, <1>5, <1>6, <1>7, <1>9, <1>10, <1>11, <1>12
     DEF Next, Step, Finished

LEMMA LocksInit == Init => LockInv
BY DEF Init, LockInv, NoLockLeaks, InSection

LEMMA LocksHeld == Spec => [](TypeInv /\ LockInv)
<1>1. Init => TypeInv /\ LockInv
  BY TypeInit, LocksInit
<1>2. TypeInv /\ LockInv /\ [Next]_vars => (TypeInv /\ LockInv)'
  BY TypeStep, LockStep
<1>. QED
  BY <1>1, <1>2, PTL DEF Spec

\* Two threads, of one process or of two, are never in the locked section of
\* the table together.
THEOREM Excludes == Spec => []MutualExclusion
<1>1. LockInv => MutualExclusion
  BY DEF LockInv, MutualExclusion
<1>. QED
  BY <1>1, LocksHeld, PTL

\* No call, whether it returns, raises or dies, leaves a lock behind.
THEOREM ReleasesLocks == Spec => []NoLockLeaks
<1>1. LockInv => NoLockLeaks
  BY DEF LockInv
<1>. QED
  BY <1>1, LocksHeld, PTL

-----------------------------------------------------------------------------
(* Ids, when every write ends with a row. *)

Ordered(f) ==
    /\ \A l \in DOMAIN f : f[l].key # NoKey
    /\ \A l, m \in DOMAIN f : l < m => f[l].id < f[m].id

IdsUpTo(f, n) == \A l \in DOMAIN f : f[l].id <= n

\* Lines that are kept keep their ids and their order.
LEMMA KeepingLines ==
    ASSUME NEW f, NEW g, DOMAIN g \subseteq DOMAIN f,
           \A l \in DOMAIN g : g[l].key = f[l].key /\ g[l].id = f[l].id
    PROVE  /\ Ordered(f) => Ordered(g)
           /\ \A n : IdsUpTo(f, n) => IdsUpTo(g, n)
  BY DEF Ordered, IdsUpTo

\* A row appended under the next id.
LEMMA PutOrdered ==
    ASSUME NEW f, NEW n \in Nat \ {0}, IsFile(f, n), NEW k \in Nat,
           Ordered(f), IdsUpTo(f, k),
           NEW r \in Row, r.key # NoKey, r.id = k + 1
    PROVE  Ordered(Put(f, n, r)) /\ IdsUpTo(Put(f, n, r), k + 1)
<1>. DEFINE g == Put(f, n, r)
<1>1. /\ DOMAIN g = DOMAIN f \union {n} /\ g[n] = r
      /\ \A l \in DOMAIN f : l \in Nat /\ l < n /\ g[l] = f[l] /\ f[l].id \in Nat
  BY DEF IsFile, Put, Row
<1>. HIDE DEF g
<1>2. \A l \in DOMAIN f : f[l].id < k + 1 /\ f[l].id <= k + 1
  BY <1>1 DEF IdsUpTo
<1>3. IdsUpTo(g, k + 1)
  BY <1>1, <1>2 DEF IdsUpTo
<1>4. Ordered(g)
  <2>0. \A l \in DOMAIN g : g[l].key # NoKey
    BY <1>1 DEF Ordered
  <2>. SUFFICES ASSUME NEW l \in DOMAIN g, NEW m \in DOMAIN g, l < m
                PROVE  g[l].id < g[m].id
    BY <2>0 DEF Ordered
  <2>1. l \in DOMAIN f
    BY <1>1
  <2>2. CASE m \in DOMAIN f
    BY <1>1, <2>1, <2>2 DEF Ordered
  <2>3. CASE m = n
    BY <1>1, <1>2, <2>1, <2>3
  <2>. QED
    BY <1>1, <2>2, <2>3
<1>. QED
  BY <1>3, <1>4 DEF g

LEMMA IdsUpToMore ==
    ASSUME NEW f, NEW n \in Nat, IsFile(f, n), NEW j \in Nat, NEW k \in Nat,
           j <= k, IdsUpTo(f, j)
    PROVE  IdsUpTo(f, k)
<1>1. \A l \in DOMAIN f : f[l].id \in Nat
  BY DEF IsFile, Row
<1>. QED
  BY <1>1 DEF IdsUpTo

\* The counter, when there is one, covers every id in the file, and the file
\* is in order and undamaged.
FileIds ==
    /\ torn = "no"
    /\ Ordered(file)
    /\ seq # NoSeq => IdsUpTo(file, seq)

\* What a thread in the section knows of ids: no stored id exceeds the one it
\* found, and the counter covers those it is going to write.
ThreadIds(t) ==
    /\ pc[t] = "seq" =>
         /\ IdsUpTo(file, last[t])
         /\ op[t].kind = "upsert" =>
              Ordered(work[t]) /\ IdsUpTo(work[t], last[t] + 1)
    /\ pc[t] = "append" =>
         /\ IdsUpTo(file, last[t] + done[t])
         /\ seq # NoSeq => last[t] + Len(op[t].batch) <= seq
    /\ pc[t] = "replace" =>
         /\ Ordered(work[t])
         /\ seq # NoSeq => IdsUpTo(work[t], seq)

IdInv == FileIds /\ \A t \in Threads : ThreadIds(t)

\* Only one thread's knowledge is at stake when the disk changes.
LEMMA OthersIds ==
    ASSUME TypeInv, LockInv, NEW t \in Threads, InSection(t),
           NEW to, pc' = [pc EXCEPT ![t] = to],
           FileIds', ThreadIds(t)'
    PROVE  IdInv'
<1>1. \A u \in Threads : u # t => ~InSection(u) /\ pc'[u] = pc[u]
  BY DEF LockInv, TypeInv, TypeOK
<1>2. \A u \in Threads : u # t => ThreadIds(u)'
  BY <1>1 DEF InSection, ThreadIds
<1>. QED
  BY <1>2 DEF IdInv

\* Steps outside the section leave the disk alone.
LEMMA OutsideIds ==
    ASSUME TypeInv, IdInv, file' = file, seq' = seq, torn' = torn,
           \A u \in Threads :
             \/ pc'[u] \notin {"seq", "append", "replace"}
             \/ /\ pc'[u] = pc[u] /\ op'[u] = op[u] /\ last'[u] = last[u]
                /\ done'[u] = done[u] /\ work'[u] = work[u]
    PROVE  IdInv'
<1>1. FileIds'
  BY DEF IdInv, FileIds
<1>2. ASSUME NEW u \in Threads PROVE ThreadIds(u)'
  <2>1. CASE pc'[u] \notin {"seq", "append", "replace"}
    BY <2>1 DEF ThreadIds
  <2>2. CASE pc'[u] = pc[u] /\ op'[u] = op[u] /\ last'[u] = last[u]
             /\ done'[u] = done[u] /\ work'[u] = work[u]
    BY <2>2 DEF IdInv, ThreadIds
  <2>. QED
    BY <2>1, <2>2
<1>. QED
  BY <1>1, <1>2 DEF IdInv

\* The parser returns what an undamaged file says.
LEMMA PlainReading ==
    ASSUME FileIds
    PROVE  ~Damaged /\ Readings = {file}
BY DEF FileIds, Ordered, Damaged, Whole, Readings

\* The last id a call reads is an upper bound of the stored ones.
LEMMA LastIdBounds ==
    ASSUME TypeInv, FileIds
    PROVE  LastId(file) \in Nat /\ IdsUpTo(file, LastId(file))
<1>1. LastId(file) \in Nat
  BY PlainReading, LastIdType DEF TypeInv
<1>2. CASE seq # NoSeq
  BY <1>1, <1>2 DEF LastId, FileIds
<1>3. CASE seq = NoSeq
  <2>1. \A l \in DOMAIN file : file[l].id <= MaxExistingId(file)
    BY MaxExistingIdBounds DEF TypeInv, TypeOK
  <2>. QED
    BY <1>1, <1>3, <2>1 DEF LastId, IdsUpTo
<1>. QED
  BY <1>2, <1>3

LEMMA IdStep ==
    ASSUME ~MidRowFlush, TypeInv, LockInv, IdInv, [Next]_vars
    PROVE  IdInv'
<1>r. FileIds /\ Readings = {file}
  BY PlainReading DEF IdInv
<1>c. \A T \in SUBSET Threads : CutShort(T) => UNCHANGED disk
  BY DEF CutShort
<1>t. \A t \in Threads : last[t] \in Nat /\ done[t] \in Nat
  BY DEF TypeInv, TypeOK
<1>f. eof \in Nat \ {0} /\ IsFile(file, eof) /\ (seq # NoSeq => seq \in Nat)
  BY DEF TypeInv, TypeOK
<1>p. ASSUME NEW t \in Threads, NEW to, pc' = [pc EXCEPT ![t] = to]
      PROVE  pc'[t] = to /\ \A u \in Threads : u # t => pc'[u] = pc[u]
  BY <1>p DEF TypeInv, TypeOK
<1>1. ASSUME NEW t \in Threads, NEW o \in Calls, Invoke(t, o) PROVE IdInv'
  <2>1. /\ \A u \in Threads : u # t => pc'[u] = pc[u] /\ op'[u] = op[u]
        /\ pc'[t] \in {"probe", "tl"}
    BY <1>1 DEF Invoke, Goto, TypeInv, TypeOK
  <2>. QED
    BY <1>1, <2>1, OutsideIds DEF Invoke, disk
<1>2. ASSUME NEW t \in Threads,
             \/ AcquireThreadLock(t) \/ AcquireFileLock(t) \/ FileLockFails(t)
             \/ ReleaseFileLock(t)
      PROVE  IdInv'
  <2>1. /\ \A u \in Threads : u # t => pc'[u] = pc[u]
        /\ pc'[t] \in {"fl", "body", "tlrel"}
    BY <1>2 DEF AcquireThreadLock, AcquireFileLock, FileLockFails, ReleaseFileLock,
       Goto, TypeInv, TypeOK
  <2>2. /\ file' = file /\ seq' = seq /\ torn' = torn /\ op' = op /\ last' = last /\ done' = done
        /\ work' = work
    BY <1>2 DEF AcquireThreadLock, AcquireFileLock, FileLockFails, ReleaseFileLock,
       disk, local
  <2>. QED
    BY <2>1, <2>2, OutsideIds
<1>3. ASSUME NEW T \in SUBSET Threads, Forget(T), file' = file, seq' = seq, torn' = torn,
             \A u \in T : pc'[u] = "idle", \A u \in Threads \ T : pc'[u] = pc[u]
      PROVE  IdInv'
  <2>1. \A u \in Threads \ T : /\ op'[u] = op[u] /\ last'[u] = last[u]
                               /\ done'[u] = done[u] /\ work'[u] = work[u]
    BY <1>3 DEF Forget
  <2>. QED
    BY <1>3, <2>1, OutsideIds
<1>4. ASSUME NEW t \in Threads, Probe(t) PROVE IdInv'
  <2>1. file' = file /\ seq' = seq /\ torn' = torn
    BY <1>4 DEF Probe, disk
  <2>2. CASE exists
    <3>1. Forget({t}) /\ pc' = [pc EXCEPT ![t] = "idle"]
      BY <1>4, <2>2 DEF Probe
    <3>2. {t} \in SUBSET Threads
      OBVIOUS
    <3>. QED
      BY <1>3, <1>p, <2>1, <3>1, <3>2
  <2>3. CASE ~exists
    <3>1. pc' = [pc EXCEPT ![t] = "tl"] /\ UNCHANGED local
      BY <1>4, <2>3 DEF Probe
    <3>. QED
      BY <1>p, <2>1, <3>1, OutsideIds DEF local
  <2>. QED
    BY <2>2, <2>3
<1>5. ASSUME NEW t \in Threads, ReleaseThreadLock(t) PROVE IdInv'
  <2>1. Forget({t}) /\ pc' = [pc EXCEPT ![t] = "idle"] /\ file' = file /\ seq' = seq /\ torn' = torn
    BY <1>5 DEF ReleaseThreadLock, Goto, disk
  <2>2. {t} \in SUBSET Threads
    OBVIOUS
  <2>. QED
    BY <1>3, <1>p, <2>1, <2>2
<1>6. ASSUME NEW t \in Threads, InsertTakesIds(t) PROVE IdInv'
  <2>1. /\ pc' = [pc EXCEPT ![t] = "seq"] /\ InSection(t)
        /\ op[t].kind = "insert" /\ op' = op
        /\ file' = file /\ seq' = seq /\ torn' = torn
        /\ last' = [last EXCEPT ![t] = LastId(file)]
    BY <1>r, <1>6 DEF InsertTakesIds, Body, InSection, disk
  <2>2. IdsUpTo(file, LastId(file))
    BY <1>r, LastIdBounds
  <2>3. last'[t] = LastId(file)
    BY <2>1 DEF TypeInv, TypeOK
  <2>4. FileIds' /\ ThreadIds(t)'
    BY <1>p, <2>1, <2>2, <2>3 DEF FileIds, ThreadIds, IdInv
  <2>. QED
    BY <2>1, <2>4, OthersIds
<1>7. ASSUME NEW t \in Threads, ReplaceSeq(t) PROVE IdInv'
  <2>. DEFINE to == IF op[t].kind = "insert" THEN "append" ELSE "replace"
  <2>1. /\ pc[t] = "seq" /\ pc' = [pc EXCEPT ![t] = to] /\ InSection(t)
        /\ file' = file /\ op' = op /\ last' = last /\ done' = done /\ work' = work
        /\ torn' = torn /\ seq' = last[t] + Need(op[t])
    BY <1>7 DEF ReplaceSeq, Goto, InSection, local
  <2>2. /\ Need(op[t]) \in Nat /\ Need(op[t]) >= 1 /\ op[t].kind \in {"insert", "upsert"}
        /\ op[t].kind = "insert" => Need(op[t]) = Len(op[t].batch)
        /\ op[t].kind = "upsert" => Need(op[t]) = 1
    <3>1. op[t] \in Calls /\ op[t].kind \in {"insert", "upsert"}
      BY <2>1 DEF TypeInv, Control
    <3>2. op[t].kind = "insert" => Len(op[t].batch) \in Nat /\ Len(op[t].batch) > 0
      BY <3>1, CallFields
    <3>. QED
      BY <3>1, <3>2 DEF Need
  <2>3. done[t] = 0
    BY <2>1 DEF TypeInv, Control
  <2>4. IdsUpTo(file, last[t])
    BY <2>1 DEF IdInv, ThreadIds
  <2>5. seq' \in Nat /\ last[t] <= seq'
    BY <1>t, <2>1, <2>2
  <2>6. FileIds'
    <3>1. IdsUpTo(file, last[t] + Need(op[t]))
      BY <1>t, <1>f, <2>2, <2>4, IdsUpToMore
    <3>. QED
      BY <2>1, <3>1 DEF IdInv, FileIds
  <2>7. CASE op[t].kind = "insert"
    <3>1. pc'[t] = "append" /\ last'[t] + done'[t] = last[t]
      <4>1. pc'[t] = to
        BY <1>p, <2>1
      <4>2. last[t] + 0 = last[t]
        BY <1>t
      <4>. QED
        BY <2>1, <2>3, <2>7, <4>1, <4>2
    <3>2. last'[t] + Len(op'[t].batch) <= seq'
      BY <2>1, <2>2, <2>5, <2>7
    <3>3. IdsUpTo(file', last'[t] + done'[t])
      BY <2>1, <2>4, <3>1
    <3>4. ThreadIds(t)'
      BY <3>1, <3>2, <3>3 DEF ThreadIds
    <3>. QED
      BY <2>1, <2>6, <3>4, OthersIds
  <2>8. CASE op[t].kind = "upsert"
    <3>1. pc'[t] = "replace"
      BY <1>p, <2>1, <2>8
    <3>2. Ordered(work[t]) /\ IdsUpTo(work[t], last[t] + 1)
      BY <2>1, <2>8 DEF IdInv, ThreadIds
    <3>3. seq' = last[t] + 1
      BY <2>1, <2>2, <2>8
    <3>4. ThreadIds(t)'
      BY <2>1, <3>1, <3>2, <3>3 DEF ThreadIds
    <3>. QED
      BY <2>1, <2>6, <3>4, OthersIds
  <2>. QED
    BY <2>2, <2>7, <2>8
<1>8. ASSUME NEW t \in Threads, AppendRow(t) PROVE IdInv'
  <2>. DEFINE k == last[t] + done[t]
             to == IF done[t] + 1 = Len(op[t].batch) THEN "unlock" ELSE "append"
  <2>1. /\ pc[t] = "append" /\ pc' = [pc EXCEPT ![t] = to] /\ InSection(t)
        /\ seq' = seq /\ op' = op /\ last' = last
        /\ done' = [done EXCEPT ![t] = @ + 1]
    BY <1>8 DEF AppendRow, InSection
  <2>2. done'[t] = done[t] + 1 /\ last'[t] + done'[t] = k + 1 /\ k \in Nat
    BY <1>t, <2>1 DEF TypeInv, TypeOK
  <2>3. Ordered(file) /\ IdsUpTo(file, k)
    BY <2>1 DEF IdInv, FileIds, ThreadIds
  <2>4. Ordered(file') /\ IdsUpTo(file', k + 1)
    <3>1. file' = Put(file, eof, NextRow(t))
      BY <1>8, <1>r DEF AppendRow, WriteLine, FileIds
    <3>2. NextRow(t) \in Row /\ NextRow(t).key # NoKey /\ NextRow(t).id = k + 1
      BY <2>1, NextRowType, KeysAssumption
    <3>. QED
      BY <1>f, <2>2, <2>3, <3>1, <3>2, PutOrdered
  <2>5. IsFile(file', eof')
    BY TypeStep DEF TypeInv, TypeOK
  <2>6. ASSUME seq # NoSeq
        PROVE  last[t] + Len(op[t].batch) <= seq /\ IdsUpTo(file', seq)
    <3>1. last[t] + Len(op[t].batch) <= seq
      BY <2>1, <2>6 DEF IdInv, ThreadIds
    <3>2. Len(op[t].batch) \in Nat /\ done[t] < Len(op[t].batch)
      BY <2>1, CallFields DEF TypeInv, TypeOK, Control
    <3>3. k + 1 <= seq
      BY <1>t, <1>f, <2>6, <3>1, <3>2
    <3>4. eof' \in Nat
      BY TypeStep DEF TypeInv, TypeOK
    <3>. QED
      BY <1>f, <2>2, <2>4, <2>5, <2>6, <3>1, <3>3, <3>4, IdsUpToMore
  <2>7. FileIds'
    BY <1>8, <2>1, <2>4, <2>6 DEF FileIds, AppendRow
  <2>8. pc'[t] \in {"unlock", "append"}
    BY <1>p, <2>1
  <2>9. IdsUpTo(file', last'[t] + done'[t])
    BY <2>2, <2>4
  <2>10. seq' # NoSeq => last'[t] + Len(op'[t].batch) <= seq'
    BY <2>1, <2>6
  <2>11. ThreadIds(t)'
    BY <2>8, <2>9, <2>10 DEF ThreadIds
  <2>. QED
    BY <2>1, <2>7, <2>11, OthersIds
<1>9. ASSUME NEW t \in Threads, NEW g, Body(t, op[t].kind),
             DOMAIN g \subseteq DOMAIN file,
             \A l \in DOMAIN g : g[l].key = file[l].key /\ g[l].id = file[l].id,
             work' = [work EXCEPT ![t] = g], pc' = [pc EXCEPT ![t] = "replace"],
             file' = file, seq' = seq, torn' = torn
      PROVE  IdInv'
  <2>1. Ordered(g) /\ (seq # NoSeq => IdsUpTo(g, seq))
    BY <1>9, KeepingLines DEF IdInv, FileIds
  <2>2. work'[t] = g
    BY <1>9 DEF TypeInv, TypeOK
  <2>3. InSection(t)
    BY <1>9 DEF Body, InSection
  <2>4. pc'[t] = "replace"
    BY <1>9, <1>p
  <2>5. FileIds'
    BY <1>9 DEF IdInv, FileIds
  <2>6. ThreadIds(t)'
    BY <1>9, <2>1, <2>2, <2>4 DEF ThreadIds
  <2>. QED
    BY <1>9, <2>3, <2>5, <2>6, OthersIds
<1>10. ASSUME NEW t \in Threads, InSection(t), pc' = [pc EXCEPT ![t] = "unlock"],
              file' = file, seq' = seq, torn' = torn
       PROVE  IdInv'
  <2>1. pc'[t] = "unlock"
    BY <1>10, <1>p
  <2>2. FileIds' /\ ThreadIds(t)'
    BY <1>10, <2>1 DEF IdInv, FileIds, ThreadIds
  <2>. QED
    BY <1>10, <2>2, OthersIds
<1>11. ASSUME NEW t \in Threads, UpsertMerges(t) PROVE IdInv'
  <2>. DEFINE l == FirstLine(Matching(file, {op[t].key}))
             g == [file EXCEPT ![l].cols = Merge(@, op[t].patch)]
  <2>1. DOMAIN g = DOMAIN file
    OBVIOUS
  <2>2. ASSUME NEW m \in DOMAIN g PROVE g[m].key = file[m].key /\ g[m].id = file[m].id
    <3>1. file[m] \in Row
      BY <1>f, <2>1 DEF IsFile
    <3>. QED
      BY <2>1, <3>1 DEF Row
  <2>3. /\ Body(t, op[t].kind) /\ work' = [work EXCEPT ![t] = g]
        /\ pc' = [pc EXCEPT ![t] = "replace"] /\ file' = file /\ seq' = seq /\ torn' = torn
    BY <1>r, <1>11 DEF UpsertMerges, Body, disk
  <2>. HIDE DEF g
  <2>. QED
    BY <1>9, <2>1, <2>2, <2>3
<1>12. ASSUME NEW t \in Threads, UpsertCreates(t) PROVE IdInv'
  <2>. DEFINE r == Stored(LastId(file) + 1, [key |-> op[t].key, cols |-> Blank(op[t].patch)])
             g == Put(file, eof, r)
  <2>1. /\ pc' = [pc EXCEPT ![t] = "seq"] /\ InSection(t)
        /\ op[t].kind = "upsert" /\ op' = op
        /\ file' = file /\ seq' = seq /\ torn' = torn
        /\ last' = [last EXCEPT ![t] = LastId(file)] /\ work' = [work EXCEPT ![t] = g]
    BY <1>r, <1>12 DEF UpsertCreates, Body, InSection, disk
  <2>2. LastId(file) \in Nat /\ IdsUpTo(file, LastId(file)) /\ Ordered(file)
    BY <1>r, LastIdBounds DEF FileIds
  <2>3. r \in Row /\ r.key # NoKey /\ r.id = LastId(file) + 1
    <3>1. [c \in Cols |-> Null] \in Cells
      BY DEF Cells
    <3>2. op[t] \in Calls
      BY <1>12 DEF UpsertCreates, Body, TypeInv, Control
    <3>. QED
      BY <2>1, <2>2, <3>1, <3>2, CallFields, MergeType, KeysAssumption DEF Stored, Row
  <2>. HIDE DEF r
  <2>4. Ordered(g) /\ IdsUpTo(g, LastId(file) + 1)
    BY <1>f, <2>2, <2>3, PutOrdered
  <2>5. last'[t] = LastId(file) /\ work'[t] = g
    BY <2>1 DEF TypeInv, TypeOK
  <2>. HIDE DEF g
  <2>6. FileIds' /\ ThreadIds(t)'
    BY <1>p, <2>1, <2>2, <2>4, <2>5 DEF FileIds, ThreadIds, IdInv
  <2>. QED
    BY <2>1, <2>6, OthersIds
<1>13. ASSUME NEW t \in Threads, DeleteFilters(t) PROVE IdInv'
  <2>1. Body(t, op[t].kind) /\ InSection(t) /\ file' = file /\ seq' = seq /\ torn' = torn
    BY <1>13 DEF DeleteFilters, Body, InSection, disk
  <2>2. CASE Matching(file, op[t].keys) = {}
    BY <1>r, <1>10, <1>13, <2>1, <2>2 DEF DeleteFilters
  <2>3. CASE Matching(file, op[t].keys) # {}
    <3>. DEFINE g == Without(file, op[t].keys)
    <3>1. DOMAIN g \subseteq DOMAIN file /\ \A m \in DOMAIN g : g[m] = file[m]
      BY DEF Without
    <3>2. work' = [work EXCEPT ![t] = g] /\ pc' = [pc EXCEPT ![t] = "replace"]
      BY <1>r, <1>13, <2>3 DEF DeleteFilters
    <3>. HIDE DEF g
    <3>. QED
      BY <1>9, <2>1, <3>1, <3>2
  <2>. QED
    BY <2>2, <2>3
<1>14. ASSUME NEW t \in Threads, DeleteAll(t) PROVE IdInv'
  <2>1. DOMAIN Empty = {}
    BY DEF Empty
  <2>2. /\ Body(t, op[t].kind) /\ work' = [work EXCEPT ![t] = Empty]
        /\ pc' = [pc EXCEPT ![t] = "replace"] /\ file' = file /\ seq' = seq /\ torn' = torn
    BY <1>14 DEF DeleteAll, Body, disk
  <2>. QED
    BY <1>9, <2>1, <2>2
<1>15. ASSUME NEW t \in Threads, InitSchema(t) PROVE IdInv'
  <2>1. DOMAIN Empty = {}
    BY DEF Empty
  <2>2. Body(t, op[t].kind) /\ InSection(t) /\ file' = file /\ seq' = seq /\ torn' = torn
    BY <1>15 DEF InitSchema, Body, InSection, disk
  <2>3. \/ pc' = [pc EXCEPT ![t] = "unlock"]
        \/ pc' = [pc EXCEPT ![t] = "replace"] /\ work' = [work EXCEPT ![t] = Empty]
    BY <1>15 DEF InitSchema
  <2>. QED
    BY <1>9, <1>10, <2>1, <2>2, <2>3
<1>16. ASSUME NEW t \in Threads, SelectReads(t) \/ ReadRejected(t) PROVE IdInv'
  <2>1. /\ InSection(t) /\ pc' = [pc EXCEPT ![t] = "unlock"]
        /\ file' = file /\ seq' = seq /\ torn' = torn
    BY <1>16 DEF SelectReads, ReadRejected, Raise, Body, InSection, disk
  <2>. QED
    BY <1>10, <2>1
<1>17. ASSUME NEW t \in Threads, ReplaceFile(t) PROVE IdInv'
  <2>1. /\ pc[t] = "replace" /\ InSection(t) /\ pc' = [pc EXCEPT ![t] = "unlock"]
        /\ file' = work[t] /\ seq' = seq /\ torn' = "no"
    BY <1>17 DEF ReplaceFile, Goto, InSection
  <2>2. pc'[t] = "unlock"
    BY <1>p, <2>1
  <2>3. FileIds' /\ ThreadIds(t)'
    BY <2>1, <2>2 DEF IdInv, FileIds, ThreadIds
  <2>. QED
    BY <2>1, <2>3, OthersIds
<1>18. ASSUME NEW t \in Threads, Fail(t) PROVE IdInv'
  <2>1. /\ InSection(t) /\ pc' = [pc EXCEPT ![t] = "unlock"]
        /\ file' = file /\ seq' = seq /\ torn' = torn
    BY <1>c, <1>18 DEF Fail, Raise, InSection, disk
  <2>. QED
    BY <1>10, <2>1
<1>19. ASSUME NEW p \in Procs, Crash(p) PROVE IdInv'
  <2>. DEFINE T == {t \in Threads : ProcOf[t] = p}
  <2>1. /\ UNCHANGED disk /\ Forget(T)
        /\ pc' = [t \in Threads |-> IF t \in T THEN "idle" ELSE pc[t]]
    BY <1>c, <1>19 DEF Crash
  <2>2. T \in SUBSET Threads
    OBVIOUS
  <2>. HIDE DEF T
  <2>. QED
    BY <1>3, <2>1, <2>2 DEF disk
<1>20. CASE LoseSeq
  <2>1. /\ seq' = NoSeq /\ file' = file /\ torn' = torn /\ pc' = pc /\ op' = op /\ last' = last
        /\ done' = done /\ work' = work
    BY <1>20 DEF LoseSeq, local
  <2>. QED
    BY <2>1 DEF IdInv, FileIds, ThreadIds
<1>21. CASE UNCHANGED vars
  BY <1>21 DEF vars, disk, local, IdInv, FileIds, ThreadIds
<1>. QED
  BY <1>1, <1>2, <1>4, <1>5, <1>6, <1>7, <1>8, <1>11, <1>12, <1>13, <1>14, <1>15,
     <1>16, <1>17, <1>18, <1>19, <1>20, <1>21 DEF Next, Step, Finished

LEMMA IdInit == Init => IdInv
<1>1. DOMAIN Empty = {}
  BY DEF Empty
<1>. QED
  BY <1>1 DEF Init, IdInv, FileIds, ThreadIds, Ordered, IdsUpTo

\* When every write ends with a row: whatever two processes do, wherever they
\* fail or die, and whenever the counter is lost, rows stand in the file in
\* the order of their ids, and no id is used twice.
THEOREM IdsInOrder == ~MidRowFlush => (Spec => []IdsFollowInsertion)
<1>. SUFFICES ASSUME ~MidRowFlush PROVE Spec => []IdsFollowInsertion
  OBVIOUS
<1>1. Init => IdInv
  BY IdInit
<1>2. TypeInv /\ LockInv /\ IdInv /\ [Next]_vars => IdInv'
  BY IdStep
<1>3. IdInv => IdsFollowInsertion
  BY DEF IdInv, FileIds, Ordered, IdsFollowInsertion
<1>. QED
  BY <1>1, <1>2, <1>3, LocksHeld, PTL DEF Spec

=============================================================================
