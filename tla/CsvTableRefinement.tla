------------------------- MODULE CsvTableRefinement -------------------------
(***************************************************************************)
(* The CSV table implements the abstract table, loses no row but those a   *)
(* delete names, and stores what an insert returns: for any threads,       *)
(* processes, arguments and bounds, when writes end with a row.            *)
(*                                                                         *)
(* Without that assumption (~MidRowFlush) none of the three holds: a line  *)
(* cut short may still have its key, and the next row is joined to it,     *)
(* under another id or as a line the parser cannot make sense of.          *)
(***************************************************************************)
EXTENDS CsvTableProofs, FiniteSetTheorems

-----------------------------------------------------------------------------
(* What the threads know of the file. *)

\* The i-th row an append in progress has written is on this line.
Line(t, i) == eof - done[t] + i - 1

\* The first n rows of the batch, with the ids they are given.
Taken(t, n) == {Stored(last[t] + i, op[t].batch[i]) : i \in 1..n}

AllIdsUpTo(n) == \A l \in DOMAIN file : file[l].id <= n

\* Every line is whole, and there are none before there is a file.
WholeInv ==
    /\ torn = "no"
    /\ \A l \in DOMAIN file : file[l].key \in Keys
    /\ exists \/ DOMAIN file = {}

\* The outcome of a call is there once it is answered; only an insert in
\* progress has one before.
CallInv(t) ==
    /\ pc[t] = "idle" => op[t] = NoCall
    /\ pc[t] = "probe" => op[t].kind = "init"
    /\ pc[t] = "replace" => op[t].kind \in {"upsert", "delete", "clear", "init"}
    /\ ~Answered(t) /\ pc[t] # "append" => ret[t] = NoRet
    /\ Answered(t) /\ op[t].kind \notin {"insert", "select"} => ret[t].rows = {}
    /\ Answered(t) /\ ~ret[t].ok => ret[t].rows = {}

\* The rows of an append in progress are the last lines of the file, and no
\* other row has an id above those it found.
AppendInv(t) ==
    pc[t] = "append" =>
      /\ done[t] < eof
      /\ \A i \in 1..done[t] :
           /\ Line(t, i) \in DOMAIN file
           /\ file[Line(t, i)] = Stored(last[t] + i, op[t].batch[i])
      /\ \A l \in DOMAIN file : l < eof - done[t] => file[l].id <= last[t]
      /\ ret[t].ok /\ ret[t].rows = Taken(t, done[t])

AckInv(t) ==
    pc[t] = "unlock" /\ op[t].kind = "insert" /\ ret[t].ok =>
      /\ ret[t].rows = Taken(t, Len(op[t].batch))
      /\ ret[t].rows \subseteq {file[l] : l \in DOMAIN file}

Changed(t) == [file EXCEPT ![FirstLine(Matching(file, {op[t].key}))].cols =
                             Merge(@, op[t].patch)]

Created(t) == Stored(last[t] + 1, [key |-> op[t].key, cols |-> Blank(op[t].patch)])

\* A temporary file is what the call makes of the file as it still is.
WorkInv(t) ==
    /\ pc[t] \in {"seq", "replace"} /\ op[t].kind = "upsert" =>
         \/ /\ pc[t] = "replace"
            /\ Matching(file, {op[t].key}) # {}
            /\ work[t] = Changed(t)
         \/ /\ Matching(file, {op[t].key}) = {}
            /\ AllIdsUpTo(last[t])
            /\ work[t] = Put(file, eof, Created(t))
    /\ pc[t] = "replace" =>
         /\ op[t].kind = "delete" => work[t] = Without(file, op[t].keys)
         /\ op[t].kind = "clear" => work[t] = Empty
         /\ op[t].kind = "init" => work[t] = Empty /\ ~exists

ThreadInv(t) == CallInv(t) /\ AppendInv(t) /\ AckInv(t) /\ WorkInv(t)

StoreInv == WholeInv /\ \A t \in Threads : ThreadInv(t)

Inv == TypeInv /\ LockInv /\ IdInv /\ StoreInv

LEMMA StoreInit == Init => StoreInv
<1>. SUFFICES ASSUME Init PROVE StoreInv
  OBVIOUS
<1>1. DOMAIN Empty = {}
  BY DEF Empty
<1>2. WholeInv
  BY <1>1 DEF Init, WholeInv
<1>3. ASSUME NEW t \in Threads PROVE ThreadInv(t)
  <2>1. pc[t] = "idle" /\ op[t] = NoCall /\ ret[t] = NoRet
    BY DEF Init
  <2>. QED
    BY <2>1 DEF ThreadInv, CallInv, AppendInv, AckInv, WorkInv, Answered
<1>. QED
  BY <1>2, <1>3 DEF StoreInv

\* Nobody in the section is affected by what goes on outside of it.
LEMMA OutsideStore ==
    ASSUME StoreInv, UNCHANGED <<exists, file, eof, torn>>,
           \A u \in Threads :
             \/ CallInv(u)' /\ ~InSection(u)'
             \/ /\ pc'[u] = pc[u] /\ op'[u] = op[u] /\ last'[u] = last[u]
                /\ done'[u] = done[u] /\ work'[u] = work[u] /\ ret'[u] = ret[u]
    PROVE  StoreInv'
<1>1. WholeInv'
  BY DEF StoreInv, WholeInv
<1>2. ASSUME NEW u \in Threads, CallInv(u)', ~InSection(u)' PROVE ThreadInv(u)'
  BY <1>2 DEF ThreadInv, AppendInv, AckInv, WorkInv, InSection
<1>3. ASSUME NEW u \in Threads, pc'[u] = pc[u], op'[u] = op[u], last'[u] = last[u],
             done'[u] = done[u], work'[u] = work[u], ret'[u] = ret[u]
      PROVE  ThreadInv(u)'
  <2>1. ThreadInv(u)
    BY DEF StoreInv
  <2>2. CallInv(u)'
    BY <1>3, <2>1 DEF ThreadInv, CallInv, Answered
  <2>3. AppendInv(u)' /\ AckInv(u)'
    BY <1>3, <2>1 DEF ThreadInv, AppendInv, AckInv, Line, Taken
  <2>4. WorkInv(u)'
    BY <1>3, <2>1 DEF ThreadInv, WorkInv, Changed, Created, AllIdsUpTo
  <2>. QED
    BY <2>2, <2>3, <2>4 DEF ThreadInv
<1>. QED
  BY <1>1, <1>2, <1>3 DEF StoreInv

\* The thread in the section is the only one that is.
LEMMA InsideStore ==
    ASSUME TypeInv, LockInv, StoreInv, NEW t \in Threads, InSection(t),
           \A u \in Threads \ {t} : pc'[u] = pc[u] /\ op'[u] = op[u] /\ ret'[u] = ret[u],
           WholeInv', ThreadInv(t)'
    PROVE  StoreInv'
<1>1. ASSUME NEW u \in Threads \ {t} PROVE ThreadInv(u)'
  <2>1. ~InSection(u) /\ pc'[u] = pc[u]
    BY DEF LockInv
  <2>2. CallInv(u)'
    BY <2>1 DEF StoreInv, ThreadInv, CallInv, Answered
  <2>. QED
    BY <2>1, <2>2 DEF ThreadInv, AppendInv, AckInv, WorkInv, InSection
<1>. QED
  BY <1>1 DEF StoreInv

\* A thread that goes on in the section without a file to write.
LEMMA QuietStore ==
    ASSUME TypeInv, LockInv, StoreInv, NEW t \in Threads, InSection(t),
           UNCHANGED <<exists, file, eof, torn, op>>, pc' = [pc EXCEPT ![t] = "unlock"],
           \A u \in Threads \ {t} : ret'[u] = ret[u],
           op[t].kind = "insert" => ~ret'[t].ok,
           op[t].kind \in {"insert", "select"} \/ ret'[t].rows = {},
           ~ret'[t].ok => ret'[t].rows = {}
    PROVE  StoreInv'
<1>1. pc'[t] = "unlock" /\ \A u \in Threads \ {t} : pc'[u] = pc[u]
  BY DEF TypeInv, TypeOK
<1>2. ThreadInv(t)'
  BY <1>1 DEF ThreadInv, CallInv, AppendInv, AckInv, WorkInv, Answered
<1>3. WholeInv'
  BY DEF StoreInv, WholeInv
<1>. QED
  BY <1>1, <1>2, <1>3, InsideStore

\* The rewritten file has whole lines only.
LEMMA WholeWork ==
    ASSUME TypeInv, StoreInv, NEW t \in Threads, pc[t] = "replace"
    PROVE  \A l \in DOMAIN work[t] : work[t][l].key \in Keys
<1>1. WholeInv /\ CallInv(t) /\ WorkInv(t) /\ op[t] \in Calls
  BY DEF StoreInv, ThreadInv, TypeInv, Control
<1>2. CASE work[t] = Changed(t)
  <2>. DEFINE l == FirstLine(Matching(file, {op[t].key}))
  <2>1. ASSUME NEW m \in DOMAIN work[t] PROVE work[t][m].key = file[m].key /\ m \in DOMAIN file
    <3>1. file[m] \in Row
      BY <1>2 DEF Changed, TypeInv, TypeOK, IsFile
    <3>. QED
      BY <1>2, <3>1 DEF Changed, Row
  <2>. QED
    BY <1>1, <2>1 DEF WholeInv
<1>3. CASE op[t].kind = "upsert" /\ work[t] = Put(file, eof, Created(t))
  <2>1. op[t].key \in Keys
    BY <1>1, <1>3, CallFields
  <2>. QED
    BY <1>1, <1>3, <2>1 DEF WholeInv, Put, Created, Stored
<1>4. CASE work[t] = Without(file, op[t].keys)
  BY <1>1, <1>4 DEF WholeInv, Without
<1>5. CASE work[t] = Empty
  BY <1>5 DEF Empty
<1>. QED
  BY <1>1, <1>2, <1>3, <1>4, <1>5 DEF CallInv, WorkInv

LEMMA AppendStore ==
    ASSUME Inv, NEW t \in Threads, AppendRow(t)
    PROVE  StoreInv'
<1>. DEFINE n == done[t]
            batch == op[t].batch
<1>1. /\ pc[t] = "append" /\ InSection(t) /\ torn = "no"
      /\ WholeInv /\ CallInv(t) /\ AppendInv(t)
  BY DEF AppendRow, Inv, StoreInv, ThreadInv, WholeInv, InSection
<1>2. /\ file' = Put(file, eof, NextRow(t)) /\ eof' = eof + 1 /\ torn' = "no"
      /\ exists' = TRUE /\ op' = op /\ last' = last
      /\ done' = [done EXCEPT ![t] = n + 1]
      /\ ret' = [ret EXCEPT ![t].rows = @ \union {NextRow(t)}]
      /\ pc' = [pc EXCEPT ![t] = IF n + 1 = Len(batch) THEN "unlock" ELSE "append"]
  BY <1>1 DEF AppendRow, WriteLine
<1>3. /\ done'[t] = n + 1
      /\ pc'[t] = IF n + 1 = Len(batch) THEN "unlock" ELSE "append"
      /\ \A u \in Threads \ {t} : pc'[u] = pc[u] /\ ret'[u] = ret[u]
  BY <1>2 DEF Inv, TypeInv, TypeOK
<1>4. n \in Nat /\ eof \in Nat \ {0} /\ last[t] \in Nat /\ n < eof
  BY <1>1 DEF Inv, TypeInv, TypeOK, AppendInv
<1>5. op[t].kind = "insert" /\ batch \in Seq(NewRow) /\ n < Len(batch)
  BY <1>1, CallFields DEF Inv, TypeInv, Control
<1>6. /\ NextRow(t) = Stored(last[t] + (n + 1), batch[n + 1])
      /\ NextRow(t).key \in Keys
  <2>1. last[t] + n + 1 = last[t] + (n + 1)
    BY <1>4
  <2>2. n + 1 \in 1..Len(batch)
    BY <1>4, <1>5
  <2>3. batch[n + 1] \in NewRow
    BY <1>5, <2>2
  <2>. QED
    BY <2>1, <2>3 DEF NextRow, Stored, NewRow
<1>7. /\ DOMAIN file' = DOMAIN file \union {eof} /\ file'[eof] = NextRow(t)
      /\ \A l \in DOMAIN file : l \in Nat /\ l < eof /\ file'[l] = file[l]
  BY <1>2, <1>4 DEF Put, Inv, TypeInv, TypeOK, IsFile
<1>8. WholeInv'
  BY <1>1, <1>2, <1>6, <1>7 DEF WholeInv
<1>9. ret'[t].ok /\ ret'[t].rows = Taken(t, n + 1)
  <2>1. ret[t].ok /\ ret[t].rows = Taken(t, n)
    BY <1>1 DEF AppendInv
  <2>2. Taken(t, n + 1) = Taken(t, n) \union {NextRow(t)}
    <3>1. 1..(n + 1) = 1..n \union {n + 1}
      BY <1>4
    <3>. QED
      BY <1>6, <3>1 DEF Taken
  <2>3. ret'[t].ok = ret[t].ok /\ ret'[t].rows = ret[t].rows \union {NextRow(t)}
    BY <1>2 DEF Inv, TypeInv, TypeOK
  <2>. QED
    BY <2>1, <2>2, <2>3
<1>10. ASSUME NEW i \in 1..(n + 1)
       PROVE  /\ Line(t, i) \in DOMAIN file'
              /\ file'[Line(t, i)] = Stored(last[t] + i, batch[i])
  <2>1. CASE i = n + 1
    <3>1. Line(t, i) = eof
      BY <1>4, <2>1 DEF Line
    <3>. QED
      BY <1>6, <1>7, <2>1, <3>1
  <2>2. CASE i \in 1..n
    BY <1>1, <1>7, <2>2 DEF AppendInv
  <2>. QED
    BY <1>4, <2>1, <2>2
<1>11. ThreadInv(t)'
  <2>1. CASE n + 1 = Len(batch)
    <3>1. Taken(t, n + 1) \subseteq {file'[l] : l \in DOMAIN file'}
      BY <1>10 DEF Taken
    <3>2. pc'[t] = "unlock" /\ ret'[t].ok /\ ret'[t].rows = Taken(t, n + 1)
      BY <1>3, <1>9, <2>1
    <3>3. Taken(t, Len(op[t].batch))' = Taken(t, n + 1)
      BY <1>2, <2>1 DEF Taken
    <3>4. AckInv(t)'
      BY <1>2, <3>1, <3>2, <3>3 DEF AckInv
    <3>. QED
      BY <1>2, <1>5, <3>2, <3>4 DEF ThreadInv, CallInv, AppendInv, WorkInv, Answered
  <2>2. CASE n + 1 # Len(batch)
    <3>1. pc'[t] = "append"
      BY <1>3, <2>2
    <3>2. eof' = eof + 1 /\ done'[t] = n + 1
      BY <1>2, <1>3
    <3>4. eof' - done'[t] = eof - n /\ done'[t] < eof'
      BY <1>4, <3>2
    <3>3. ASSUME NEW i \in 1..(n + 1) PROVE Line(t, i)' = Line(t, i)
      BY <3>4 DEF Line
    <3>5. \A l \in DOMAIN file' : l < eof' - done'[t] => file'[l].id <= last'[t]
      <4>1. ~(eof < eof - n)
        BY <1>4
      <4>. QED
        BY <1>1, <1>2, <1>7, <3>4, <4>1 DEF AppendInv
    <3>6. \A i \in 1..done'[t] :
            /\ Line(t, i)' \in DOMAIN file'
            /\ file'[Line(t, i)'] = Stored(last'[t] + i, op'[t].batch[i])
      BY <1>2, <1>3, <1>10, <3>3
    <3>7. ret'[t].ok /\ ret'[t].rows = Taken(t, done[t])'
      BY <1>2, <1>3, <1>9 DEF Taken
    <3>8. AppendInv(t)'
      BY <3>4, <3>5, <3>6, <3>7 DEF AppendInv
    <3>. QED
      BY <3>1, <3>8 DEF ThreadInv, CallInv, AckInv, WorkInv, Answered
  <2>. QED
    BY <2>1, <2>2
<1>. QED
  BY <1>1, <1>2, <1>3, <1>8, <1>11, InsideStore DEF Inv

\* The body of an upsert, delete, clear or init_schema leaves what the call
\* makes of the file in a temporary file.
LEMMA WorkStore ==
    ASSUME Inv, NEW t \in Threads, pc[t] = "body",
           UNCHANGED <<exists, file, eof, torn, op, ret>>,
           NEW to \in {"seq", "replace"}, pc' = [pc EXCEPT ![t] = to],
           op[t].kind \in {"upsert", "delete", "clear", "init"}, WorkInv(t)'
    PROVE  StoreInv'
<1>1. pc'[t] = to /\ InSection(t) /\ \A u \in Threads \ {t} : pc'[u] = pc[u]
  BY DEF Inv, TypeInv, TypeOK, InSection
<1>2. CallInv(t)'
  BY <1>1 DEF Inv, StoreInv, ThreadInv, CallInv, Answered
<1>3. ThreadInv(t)'
  BY <1>1, <1>2 DEF ThreadInv, AppendInv, AckInv
<1>4. WholeInv'
  BY DEF Inv, StoreInv, WholeInv
<1>. QED
  BY <1>1, <1>3, <1>4, InsideStore DEF Inv

\* The ids of whole lines are all the ids.
LEMMA WholeIds ==
    ASSUME WholeInv, NEW n, IdsUpTo(file, n)
    PROVE  AllIdsUpTo(n)
BY KeysAssumption DEF WholeInv, IdsUpTo, AllIdsUpTo

LEMMA SeqStore ==
    ASSUME Inv, NEW t \in Threads, ReplaceSeq(t)
    PROVE  StoreInv'
<1>1. /\ pc[t] = "seq" /\ InSection(t)
      /\ UNCHANGED <<exists, file, eof, torn, op, last, done, work, ret>>
      /\ pc' = [pc EXCEPT ![t] = IF op[t].kind = "insert" THEN "append" ELSE "replace"]
  BY DEF ReplaceSeq, Goto, InSection, local
<1>2. /\ pc'[t] = IF op[t].kind = "insert" THEN "append" ELSE "replace"
      /\ \A u \in Threads \ {t} : pc'[u] = pc[u]
  BY <1>1 DEF Inv, TypeInv, TypeOK
<1>3. /\ op[t].kind \in {"insert", "upsert"} /\ done[t] = 0
      /\ last[t] \in Nat /\ eof \in Nat \ {0}
      /\ ret[t] = NoRet /\ WholeInv /\ WorkInv(t)
  BY <1>1 DEF Inv, TypeInv, TypeOK, Control, StoreInv, ThreadInv, CallInv, Answered
<1>4. WholeInv'
  BY <1>1, <1>3 DEF WholeInv
<1>5. CASE op[t].kind = "insert"
  <2>1. AllIdsUpTo(last[t])
    BY <1>1, <1>3, WholeIds DEF Inv, IdInv, ThreadIds
  <2>2. Taken(t, 0) = {} /\ 1..0 = {}
    <3>1. 1..0 = {}
      OBVIOUS
    <3>. QED
      BY <3>1 DEF Taken
  <2>3. ret'[t].ok /\ ret'[t].rows = Taken(t, done[t])'
    BY <1>1, <1>3, <2>2 DEF NoRet, Taken
  <2>4. done'[t] < eof'
    BY <1>1, <1>3
  <2>5. AppendInv(t)'
    BY <1>1, <1>3, <2>1, <2>2, <2>3, <2>4 DEF AppendInv, AllIdsUpTo
  <2>6. ThreadInv(t)'
    BY <1>1, <1>2, <1>5, <2>5 DEF ThreadInv, CallInv, AckInv, WorkInv, Answered
  <2>. QED
    BY <1>1, <1>2, <1>4, <2>6, InsideStore DEF Inv
<1>6. CASE op[t].kind = "upsert"
  <2>1. WorkInv(t)'
    BY <1>1, <1>2, <1>3, <1>6 DEF WorkInv, Changed, Created, AllIdsUpTo
  <2>2. ThreadInv(t)'
    BY <1>1, <1>2, <1>3, <1>6, <2>1 DEF ThreadInv, CallInv, AppendInv, AckInv, Answered
  <2>. QED
    BY <1>1, <1>2, <1>4, <2>2, InsideStore DEF Inv
<1>. QED
  BY <1>3, <1>5, <1>6

\* A call that was not answered, and fails, has no rows to show.
LEMMA RaiseStore ==
    ASSUME Inv, NEW t \in Threads, InSection(t), UNCHANGED disk, Raise(t)
    PROVE  StoreInv'
<1>1. ret'[t] = Failed /\ \A u \in Threads \ {t} : ret'[u] = ret[u]
  BY DEF Raise, Inv, TypeInv, TypeOK
<1>2. ret'[t].rows = {} /\ ~ret'[t].ok
  BY <1>1 DEF Failed
<1>. QED
  BY <1>1, <1>2, QuietStore DEF Inv, Raise, disk

LEMMA StoreStep ==
    ASSUME ~MidRowFlush, Inv, [Next]_vars
    PROVE  StoreInv'
<1>p. ASSUME NEW t \in Threads, NEW to, pc' = [pc EXCEPT ![t] = to]
      PROVE  pc'[t] = to /\ \A u \in Threads : u # t => pc'[u] = pc[u]
  BY <1>p DEF Inv, TypeInv, TypeOK
<1>r. Readings = {file}
  BY PlainReading DEF Inv, IdInv
<1>c. \A t \in Threads : CallInv(t) /\ WorkInv(t)
  BY DEF Inv, StoreInv, ThreadInv
<1>1. ASSUME NEW t \in Threads, NEW o \in Calls, Invoke(t, o) PROVE StoreInv'
  <2>1. /\ pc[t] = "idle" /\ op' = [op EXCEPT ![t] = o]
        /\ pc'[t] = IF o.kind = "init" THEN "probe" ELSE "tl"
        /\ \A u \in Threads : u # t => pc'[u] = pc[u]
        /\ UNCHANGED <<exists, file, eof, torn, last, done, work, ret>>
    BY <1>1, <1>p DEF Invoke, Goto, disk
  <2>2. op'[t] = o /\ \A u \in Threads : u # t => op'[u] = op[u]
    BY <2>1 DEF Inv, TypeInv, TypeOK
  <2>3. CallInv(t)' /\ ~InSection(t)'
    BY <1>c, <2>1, <2>2 DEF CallInv, Answered, InSection
  <2>. QED
    BY <2>1, <2>2, <2>3, OutsideStore DEF Inv
<1>2. ASSUME NEW T \in SUBSET Threads, Forget(T), UNCHANGED <<exists, file, eof, torn>>,
             \A u \in T : pc'[u] = "idle", \A u \in Threads \ T : pc'[u] = pc[u]
      PROVE  StoreInv'
  <2>1. \A u \in T : op'[u] = NoCall /\ ret'[u] = NoRet
    BY <1>2 DEF Forget
  <2>2. \A u \in T : CallInv(u)' /\ ~InSection(u)'
    BY <1>2, <2>1 DEF CallInv, Answered, InSection
  <2>3. \A u \in Threads \ T : /\ op'[u] = op[u] /\ last'[u] = last[u] /\ done'[u] = done[u]
                               /\ work'[u] = work[u] /\ ret'[u] = ret[u]
    BY <1>2 DEF Forget
  <2>. QED
    BY <1>2, <2>2, <2>3, OutsideStore DEF Inv
<1>3. ASSUME NEW t \in Threads, Probe(t) PROVE StoreInv'
  <2>1. CASE exists
    <3>1. Forget({t}) /\ pc' = [pc EXCEPT ![t] = "idle"] /\ {t} \in SUBSET Threads
      BY <1>3, <2>1 DEF Probe
    <3>. QED
      BY <1>2, <1>3, <1>p, <3>1 DEF Probe, disk
  <2>2. CASE ~exists
    <3>1. /\ pc[t] = "probe" /\ pc'[t] = "tl" /\ UNCHANGED local /\ UNCHANGED disk
          /\ \A u \in Threads : u # t => pc'[u] = pc[u]
      BY <1>3, <1>p, <2>2 DEF Probe
    <3>2. CallInv(t)' /\ ~InSection(t)'
      BY <1>c, <3>1 DEF CallInv, Answered, InSection, local
    <3>. QED
      BY <3>1, <3>2, OutsideStore DEF Inv, local, disk
  <2>. QED
    BY <2>1, <2>2
<1>4. ASSUME NEW t \in Threads, AcquireThreadLock(t) PROVE StoreInv'
  <2>1. /\ pc[t] = "tl" /\ pc'[t] = "fl" /\ UNCHANGED local /\ UNCHANGED disk
        /\ \A u \in Threads : u # t => pc'[u] = pc[u]
    BY <1>4, <1>p DEF AcquireThreadLock, Goto
  <2>2. CallInv(t)' /\ ~InSection(t)'
    BY <1>c, <2>1 DEF CallInv, Answered, InSection, local
  <2>. QED
    BY <2>1, <2>2, OutsideStore DEF Inv, local, disk
<1>5. ASSUME NEW t \in Threads, AcquireFileLock(t) PROVE StoreInv'
  <2>1. /\ pc[t] = "fl" /\ pc'[t] = "body" /\ UNCHANGED local /\ UNCHANGED disk
        /\ \A u \in Threads : u # t => pc'[u] = pc[u]
    BY <1>5, <1>p DEF AcquireFileLock, Goto
  <2>2. WholeInv'
    BY <2>1 DEF Inv, StoreInv, WholeInv, disk
  <2>3. ThreadInv(t)'
    BY <1>c, <2>1 DEF ThreadInv, CallInv, AppendInv, AckInv, WorkInv, Answered, local
  <2>4. ASSUME NEW u \in Threads \ {t} PROVE ThreadInv(u)'
    <3>1. pc'[u] = pc[u] /\ UNCHANGED local /\ UNCHANGED disk /\ ThreadInv(u)
      BY <2>1 DEF Inv, StoreInv
    <3>. QED
      BY <3>1 DEF ThreadInv, CallInv, AppendInv, AckInv, WorkInv, Answered, Line, Taken,
         Changed, Created, AllIdsUpTo, local, disk
  <2>. QED
    BY <2>2, <2>3, <2>4 DEF StoreInv
<1>6. ASSUME NEW t \in Threads, FileLockFails(t) PROVE StoreInv'
  <2>1. /\ pc[t] = "fl" /\ pc'[t] = "tlrel" /\ UNCHANGED <<op, last, done, work>>
        /\ UNCHANGED disk /\ ret' = [ret EXCEPT ![t] = Failed]
        /\ \A u \in Threads : u # t => pc'[u] = pc[u]
    BY <1>6, <1>p DEF FileLockFails, Goto
  <2>2. ret'[t].rows = {} /\ \A u \in Threads : u # t => ret'[u] = ret[u]
    BY <2>1 DEF Inv, TypeInv, TypeOK, Failed
  <2>3. CallInv(t)' /\ ~InSection(t)'
    BY <2>1, <2>2 DEF CallInv, Answered, InSection
  <2>. QED
    BY <2>1, <2>2, <2>3, OutsideStore DEF Inv, disk
<1>7. ASSUME NEW t \in Threads, ReleaseFileLock(t) PROVE StoreInv'
  <2>1. /\ pc[t] = "unlock" /\ pc'[t] = "tlrel" /\ UNCHANGED local /\ UNCHANGED disk
        /\ \A u \in Threads : u # t => pc'[u] = pc[u]
    BY <1>7, <1>p DEF ReleaseFileLock, Goto
  <2>2. CallInv(t)' /\ ~InSection(t)'
    BY <1>c, <2>1 DEF CallInv, Answered, InSection, local
  <2>. QED
    BY <2>1, <2>2, OutsideStore DEF Inv, local, disk
<1>8. ASSUME NEW t \in Threads, ReleaseThreadLock(t) PROVE StoreInv'
  <2>1. Forget({t}) /\ pc' = [pc EXCEPT ![t] = "idle"] /\ {t} \in SUBSET Threads
    BY <1>8 DEF ReleaseThreadLock, Goto
  <2>. QED
    BY <1>2, <1>8, <1>p, <2>1 DEF ReleaseThreadLock, disk
<1>9. ASSUME NEW t \in Threads, InsertTakesIds(t) PROVE StoreInv'
  <2>1. /\ pc[t] = "body" /\ pc'[t] = "seq" /\ op[t].kind = "insert" /\ InSection(t)
        /\ UNCHANGED <<exists, file, eof, torn, op, ret>>
        /\ \A u \in Threads : u # t => pc'[u] = pc[u]
    BY <1>9, <1>p DEF InsertTakesIds, Body, InSection, disk
  <2>2. ThreadInv(t)'
    BY <1>c, <2>1 DEF ThreadInv, CallInv, AppendInv, AckInv, WorkInv, Answered
  <2>3. WholeInv'
    BY <2>1 DEF Inv, StoreInv, WholeInv
  <2>. QED
    BY <2>1, <2>2, <2>3, InsideStore DEF Inv
<1>10. ASSUME NEW t \in Threads, ReplaceSeq(t) PROVE StoreInv'
  BY <1>10, SeqStore
<1>11. ASSUME NEW t \in Threads, AppendRow(t) PROVE StoreInv'
  BY <1>11, AppendStore
<1>12. ASSUME NEW t \in Threads, UpsertMerges(t) PROVE StoreInv'
  <2>1. /\ pc[t] = "body" /\ op[t].kind = "upsert" /\ Matching(file, {op[t].key}) # {}
        /\ work' = [work EXCEPT ![t] = Changed(t)] /\ pc' = [pc EXCEPT ![t] = "replace"]
        /\ UNCHANGED <<exists, file, eof, torn, op, ret>>
    BY <1>r, <1>12 DEF UpsertMerges, Body, Changed, disk
  <2>2. work'[t] = Changed(t) /\ pc'[t] = "replace" /\ Changed(t)' = Changed(t)
    BY <1>p, <2>1 DEF Inv, TypeInv, TypeOK, Changed
  <2>3. WorkInv(t)'
    BY <2>1, <2>2 DEF WorkInv
  <2>. QED
    BY <2>1, <2>3, WorkStore
<1>13. ASSUME NEW t \in Threads, UpsertCreates(t) PROVE StoreInv'
  <2>1. /\ pc[t] = "body" /\ op[t].kind = "upsert" /\ Matching(file, {op[t].key}) = {}
        /\ last' = [last EXCEPT ![t] = LastId(file)]
        /\ work' = [work EXCEPT ![t] = Put(file, eof,
             Stored(LastId(file) + 1, [key |-> op[t].key, cols |-> Blank(op[t].patch)]))]
        /\ pc' = [pc EXCEPT ![t] = "seq"]
        /\ UNCHANGED <<exists, file, eof, torn, op, ret>>
    BY <1>r, <1>13 DEF UpsertCreates, Body, disk
  <2>2. /\ last'[t] = LastId(file) /\ pc'[t] = "seq"
        /\ work'[t] = Put(file, eof,
             Stored(LastId(file) + 1, [key |-> op[t].key, cols |-> Blank(op[t].patch)]))
    BY <1>p, <2>1 DEF Inv, TypeInv, TypeOK
  <2>3. AllIdsUpTo(LastId(file))
    BY LastIdBounds, WholeIds DEF Inv, IdInv, StoreInv
  <2>4. AllIdsUpTo(last[t])'
    BY <2>1, <2>2, <2>3 DEF AllIdsUpTo
  <2>5. WorkInv(t)'
    BY <2>1, <2>2, <2>4 DEF WorkInv, Created
  <2>. QED
    BY <2>1, <2>5, WorkStore
<1>14. ASSUME NEW t \in Threads, pc[t] = "body", UNCHANGED disk, UNCHANGED <<op, ret>>,
              pc' = [pc EXCEPT ![t] = "unlock"], op[t].kind # "insert"
       PROVE  StoreInv'
  <2>1. ret[t].rows = {} /\ ret[t].ok /\ InSection(t)
    BY <1>14, <1>c DEF CallInv, Answered, NoRet, InSection
  <2>. QED
    BY <1>14, <2>1, QuietStore DEF Inv, disk
<1>15. ASSUME NEW t \in Threads, DeleteFilters(t) PROVE StoreInv'
  <2>1. /\ pc[t] = "body" /\ op[t].kind = "delete" /\ UNCHANGED disk /\ UNCHANGED <<op, ret>>
    BY <1>15 DEF DeleteFilters, Body
  <2>2. CASE Matching(file, op[t].keys) = {}
    BY <1>r, <1>14, <1>15, <2>1, <2>2 DEF DeleteFilters
  <2>3. CASE Matching(file, op[t].keys) # {}
    <3>1. pc' = [pc EXCEPT ![t] = "replace"] /\ work'[t] = Without(file, op[t].keys)
      BY <1>r, <1>15, <2>3 DEF DeleteFilters, Inv, TypeInv, TypeOK
    <3>2. WorkInv(t)'
      BY <1>p, <2>1, <3>1 DEF WorkInv, disk
    <3>. QED
      BY <2>1, <3>1, <3>2, WorkStore DEF disk
  <2>. QED
    BY <2>2, <2>3
<1>16. ASSUME NEW t \in Threads, DeleteAll(t) PROVE StoreInv'
  <2>1. /\ pc[t] = "body" /\ op[t].kind = "clear" /\ UNCHANGED disk /\ UNCHANGED <<op, ret>>
        /\ pc' = [pc EXCEPT ![t] = "replace"] /\ work'[t] = Empty
    BY <1>16 DEF DeleteAll, Body, Inv, TypeInv, TypeOK
  <2>2. WorkInv(t)'
    BY <1>p, <2>1 DEF WorkInv
  <2>. QED
    BY <2>1, <2>2, WorkStore DEF disk
<1>17. ASSUME NEW t \in Threads, InitSchema(t) PROVE StoreInv'
  <2>1. /\ pc[t] = "body" /\ op[t].kind = "init" /\ UNCHANGED disk /\ UNCHANGED <<op, ret>>
    BY <1>17 DEF InitSchema, Body
  <2>2. CASE exists
    BY <1>14, <1>17, <2>1, <2>2 DEF InitSchema
  <2>3. CASE ~exists
    <3>1. pc' = [pc EXCEPT ![t] = "replace"] /\ work'[t] = Empty
      BY <1>17, <2>3 DEF InitSchema, Inv, TypeInv, TypeOK
    <3>2. WorkInv(t)'
      BY <1>p, <2>1, <2>3, <3>1 DEF WorkInv, disk
    <3>. QED
      BY <2>1, <3>1, <3>2, WorkStore DEF disk
  <2>. QED
    BY <2>2, <2>3
<1>18. ASSUME NEW t \in Threads, SelectReads(t) PROVE StoreInv'
  <2>1. /\ pc[t] = "body" /\ op[t].kind = "select" /\ UNCHANGED disk /\ op' = op
        /\ pc' = [pc EXCEPT ![t] = "unlock"] /\ InSection(t)
        /\ ret'[t].ok = ret[t].ok /\ \A u \in Threads \ {t} : ret'[u] = ret[u]
    BY <1>18 DEF SelectReads, Body, InSection, Inv, TypeInv, TypeOK
  <2>2. ret[t].ok
    BY <1>c, <2>1 DEF CallInv, Answered, NoRet
  <2>. QED
    BY <2>1, <2>2, QuietStore DEF Inv, disk
<1>19. ASSUME NEW t \in Threads, ReplaceFile(t) PROVE StoreInv'
  <2>1. /\ pc[t] = "replace" /\ pc'[t] = "unlock" /\ InSection(t)
        /\ file' = work[t] /\ torn' = "no" /\ exists' = TRUE
        /\ UNCHANGED local /\ \A u \in Threads : u # t => pc'[u] = pc[u]
    BY <1>19, <1>p DEF ReplaceFile, Goto, InSection
  <2>2. \A l \in DOMAIN work[t] : work[t][l].key \in Keys
    BY <2>1, WholeWork DEF Inv
  <2>3. WholeInv'
    BY <2>1, <2>2 DEF WholeInv
  <2>4. ThreadInv(t)'
    <3>1. /\ ret'[t] = ret[t] /\ op'[t] = op[t] /\ ret[t].ok /\ ret[t].rows = {}
          /\ op[t].kind \notin {"insert", "select"}
      BY <1>c, <2>1 DEF CallInv, Answered, NoRet, local
    <3>. QED
      BY <2>1, <3>1 DEF ThreadInv, CallInv, AppendInv, AckInv, WorkInv, Answered
  <2>. QED
    BY <2>1, <2>3, <2>4, InsideStore DEF Inv, local
<1>20. ASSUME NEW t \in Threads, ReadRejected(t) PROVE StoreInv'
  BY <1>20, RaiseStore DEF ReadRejected, InSection
<1>21. ASSUME NEW t \in Threads, Fail(t) PROVE StoreInv'
  BY <1>21, RaiseStore DEF Fail, CutShort, InSection
<1>22. ASSUME NEW p \in Procs, Crash(p) PROVE StoreInv'
  <2>. DEFINE T == {t \in Threads : ProcOf[t] = p}
  <2>1. /\ UNCHANGED disk /\ Forget(T) /\ T \in SUBSET Threads
        /\ pc' = [t \in Threads |-> IF t \in T THEN "idle" ELSE pc[t]]
    BY <1>22 DEF Crash, CutShort
  <2>. HIDE DEF T
  <2>2. (\A u \in T : pc'[u] = "idle") /\ (\A u \in Threads \ T : pc'[u] = pc[u])
    BY <2>1
  <2>. QED
    BY <1>2, <2>1, <2>2 DEF disk
<1>23. CASE LoseSeq
  BY <1>23, OutsideStore DEF LoseSeq, local, Inv
<1>24. CASE UNCHANGED vars
  BY <1>24, OutsideStore DEF vars, disk, local, Inv
<1>. QED
  BY <1>1, <1>3, <1>4, <1>5, <1>6, <1>7, <1>8, <1>9, <1>10, <1>11, <1>12, <1>13, <1>15,
     <1>16, <1>17, <1>18, <1>19, <1>20, <1>21, <1>22, <1>23, <1>24 DEF Next, Step, Finished

LEMMA StoreHeld == ~MidRowFlush => (Spec => []Inv)
<1>. SUFFICES ASSUME ~MidRowFlush PROVE Spec => []Inv
  OBVIOUS
<1>1. Init => Inv
  BY TypeInit, LocksInit, IdInit, StoreInit DEF Inv
<1>2. Inv /\ [Next]_vars => Inv'
  BY TypeStep, LockStep, IdStep, StoreStep DEF Inv
<1>. QED
  BY <1>1, <1>2, PTL DEF Spec

-----------------------------------------------------------------------------
(* What an insert returns. *)

\* The rows an insert takes have distinct ids.
LEMMA TakenCount ==
    ASSUME NEW t, last[t] \in Nat, NEW n \in Nat
    PROVE  Cardinality(Taken(t, n)) = n
<1>. DEFINE f == [i \in 1..n |-> Stored(last[t] + i, op[t].batch[i])]
            T == Taken(t, n)
<1>1. f \in Surjection(1..n, T)
  BY DEF Surjection, Taken
<1>2. ASSUME NEW i \in 1..n, NEW j \in 1..n, f[i] = f[j] PROVE i = j
  <2>1. f[i].id = last[t] + i /\ f[j].id = last[t] + j
    BY DEF Stored
  <2>. QED
    BY <1>2, <2>1
<1>3. f \in Injection(1..n, T)
  BY <1>1, <1>2 DEF Injection, Surjection, IsInjective
<1>4. ExistsBijection(1..n, T)
  BY <1>1, <1>3 DEF ExistsBijection, Bijection
<1>. QED
  BY <1>4, FS_CountingElements

\* An insert that is about to return its ids has stored a row under each of
\* them, whatever failed or died before it.
THEOREM AcknowledgesStoredRows ==
    ~MidRowFlush => (Spec => []AcknowledgedRowsStored)
<1>1. ASSUME Inv, NEW t \in Threads,
             pc[t] = "unlock", op[t].kind = "insert", ret[t].ok
      PROVE  /\ Cardinality(ret[t].rows) = Len(op[t].batch)
             /\ ret[t].rows \subseteq {file[l] : l \in DOMAIN file}
  <2>1. AckInv(t) /\ last[t] \in Nat /\ op[t] \in Calls
    BY <1>1 DEF Inv, StoreInv, ThreadInv, TypeInv, TypeOK, Control
  <2>2. Len(op[t].batch) \in Nat
    BY <1>1, <2>1, CallFields
  <2>. QED
    BY <1>1, <2>1, <2>2, TakenCount DEF AckInv
<1>2. Inv => AcknowledgedRowsStored
  BY <1>1 DEF AcknowledgedRowsStored
<1>. QED
  BY <1>2, StoreHeld, PTL

-----------------------------------------------------------------------------
(* What may disappear. *)

Kept(l) == file[l].id \in {file'[m].id : m \in DOMAIN file'}

\* Only a delete leaves out a line of the file it rewrites.
LEMMA RewriteKeeps ==
    ASSUME Inv, NEW t \in Threads, ReplaceFile(t), NEW l \in DOMAIN file, ~Kept(l)
    PROVE  /\ pc[t] = "replace"
           /\ \/ op[t].kind = "clear"
              \/ op[t].kind = "delete" /\ file[l].key \in op[t].keys
<1>1. /\ pc[t] = "replace" /\ file' = work[t]
      /\ WorkInv(t) /\ CallInv(t) /\ WholeInv
  BY DEF ReplaceFile, Goto, Inv, StoreInv, ThreadInv
<1>2. ASSUME l \in DOMAIN work[t], work[t][l].id = file[l].id PROVE FALSE
  BY <1>1, <1>2 DEF Kept
<1>3. CASE work[t] = Changed(t)
  <2>1. file[l] \in Row
    BY DEF Inv, TypeInv, TypeOK, IsFile
  <2>2. l \in DOMAIN work[t] /\ work[t][l].id = file[l].id
    BY <1>3, <2>1 DEF Changed, Row
  <2>. QED
    BY <1>2, <2>2
<1>4. CASE work[t] = Put(file, eof, Created(t))
  <2>1. eof \notin DOMAIN file
    BY DEF Inv, TypeInv, TypeOK, IsFile
  <2>2. l \in DOMAIN work[t] /\ work[t][l].id = file[l].id
    BY <1>4, <2>1 DEF Put
  <2>. QED
    BY <1>2, <2>2
<1>5. CASE op[t].kind = "delete"
  <2>1. file[l].key \in op[t].keys
    BY <1>1, <1>2, <1>5 DEF WorkInv, Without
  <2>. QED
    BY <1>1, <1>5, <2>1
<1>. QED
  BY <1>1, <1>3, <1>4, <1>5 DEF CallInv, WorkInv, WholeInv

\* No row disappears from the table but those a delete names.
THEOREM LosesOnlyDeletedRows == ~MidRowFlush => (Spec => RowsOnlyDeleted)
<1>. SUFFICES ASSUME ~MidRowFlush PROVE Spec => RowsOnlyDeleted
  OBVIOUS
<1>1. ASSUME Inv, [Next]_vars, NEW l \in DOMAIN file, ~Kept(l)
      PROVE  \E t \in Threads :
                /\ pc[t] = "replace"
                /\ \/ op[t].kind = "clear"
                   \/ op[t].kind = "delete" /\ file[l].key \in op[t].keys
  <2>1. file' # file
    BY <1>1 DEF Kept
  <2>2. ASSUME NEW t \in Threads, AppendRow(t) PROVE FALSE
    <3>1. file' = Put(file, eof, NextRow(t))
      BY <1>1, <2>2 DEF AppendRow, WriteLine, Inv, StoreInv, WholeInv
    <3>2. eof \notin DOMAIN file
      BY <1>1 DEF Inv, TypeInv, TypeOK, IsFile
    <3>. QED
      BY <1>1, <3>1, <3>2 DEF Put, Kept
  <2>3. ASSUME NEW t \in Threads, NEW o \in Calls, Invoke(t, o) PROVE FALSE
    BY <2>1, <2>3 DEF Invoke, disk
  <2>4. ASSUME NEW t \in Threads, Step(t), ~AppendRow(t) PROVE ReplaceFile(t)
    BY <2>1, <2>4 DEF Step, Probe, AcquireThreadLock, AcquireFileLock, InsertTakesIds,
       ReplaceSeq, UpsertMerges, UpsertCreates, DeleteFilters, DeleteAll, InitSchema,
       SelectReads, ReadRejected, ReleaseFileLock, ReleaseThreadLock, disk
  <2>5. ASSUME NEW t \in Threads, FileLockFails(t) \/ Fail(t) PROVE FALSE
    BY <2>1, <2>5 DEF FileLockFails, Fail, CutShort, disk
  <2>6. ASSUME NEW p \in Procs, Crash(p) PROVE FALSE
    BY <2>1, <2>6 DEF Crash, CutShort, disk
  <2>7. ~LoseSeq /\ ~Finished /\ ~UNCHANGED vars
    BY <2>1 DEF LoseSeq, Finished, vars, disk
  <2>8. PICK t \in Threads : ReplaceFile(t)
    BY <1>1, <2>2, <2>3, <2>4, <2>5, <2>6, <2>7 DEF Next
  <2>. QED
    BY <1>1, <2>8, RewriteKeeps
<1>2. ASSUME Inv, [Next]_vars PROVE [\A l \in DOMAIN file :
         Whole(l) /\ file[l].id \notin {file'[m].id : m \in DOMAIN file'}
           => \E t \in Threads :
                /\ pc[t] = "replace"
                /\ \/ op[t].kind = "clear"
                   \/ op[t].kind = "delete" /\ file[l].key \in op[t].keys]_vars
  BY <1>1, <1>2 DEF Kept
<1>. QED
  BY <1>2, StoreHeld, PTL DEF Spec, RowsOnlyDeleted

-----------------------------------------------------------------------------
(* The refinement: what the abstract table holds. *)

AllRows == {file[l] : l \in DOMAIN file}

LEMMA SameData ==
    /\ \A id, new : Abstract!Stored(id, new) = Stored(id, new)
    /\ \A cols, patch : Abstract!Merge(cols, patch) = Merge(cols, patch)
    /\ \A patch : Abstract!Blank(patch) = Blank(patch)
BY DEF Abstract!Stored, Stored, Abstract!Merge, Merge, Abstract!Blank, Blank

LEMMA AllVisible ==
    ASSUME \A t \in Threads : pc[t] # "append"
    PROVE  Visible = AllRows
BY DEF Visible, VisibleLines, AllRows

\* Nobody but the thread in the section appends.
LEMMA NoAppend ==
    ASSUME LockInv, NEW t \in Threads, InSection(t), pc[t] # "append"
    PROVE  Visible = AllRows
BY AllVisible DEF LockInv, InSection

\* While a thread appends, its rows are there but not visible.
LEMMA AppendedRows ==
    ASSUME Inv, NEW t \in Threads, pc[t] = "append"
    PROVE  /\ Visible = {file[l] : l \in {m \in DOMAIN file : m < eof - done[t]}}
           /\ AllRows = Visible \union Taken(t, done[t])
           /\ Abstract!Above(last[t])
<1>1. \A u \in Threads : pc[u] = "append" => u = t
  BY DEF Inv, LockInv, InSection
<1>2. VisibleLines = {m \in DOMAIN file : m < eof - done[t]}
  BY <1>1 DEF VisibleLines
<1>3. AppendInv(t)
  BY DEF Inv, StoreInv, ThreadInv
<1>4. /\ done[t] \in Nat /\ eof \in Nat /\ last[t] \in Nat
      /\ \A l \in DOMAIN file : l \in Nat /\ l < eof
  BY DEF Inv, TypeInv, TypeOK, IsFile
<1>5. ASSUME NEW l \in DOMAIN file, ~(l < eof - done[t]) PROVE file[l] \in Taken(t, done[t])
  <2>. DEFINE i == l - (eof - done[t]) + 1
  <2>1. i \in 1..done[t] /\ Line(t, i) = l
    BY <1>4, <1>5 DEF Line
  <2>. QED
    BY <1>3, <2>1 DEF AppendInv, Taken
<1>6. Taken(t, done[t]) \subseteq AllRows
  BY <1>3 DEF AppendInv, Taken, AllRows
<1>7. AllRows = Visible \union Taken(t, done[t])
  BY <1>2, <1>5, <1>6 DEF AllRows, Visible
<1>8. Abstract!Above(last[t])
  BY <1>2, <1>3 DEF Abstract!Above, AppendInv, Visible
<1>. QED
  BY <1>2, <1>7, <1>8 DEF Visible

\* There is always an id no stored row exceeds.
LEMMA SomeIdAbove ==
    ASSUME Inv
    PROVE  \E n \in Nat : Abstract!Above(n)
<1>1. MaxExistingId(file) \in Nat /\ \A l \in DOMAIN file : file[l].id <= MaxExistingId(file)
  BY MaxExistingIdBounds DEF Inv, TypeInv, TypeOK
<1>. QED
  BY <1>1 DEF Abstract!Above, Visible, VisibleLines

\* Steps that neither write nor change who appends what change nothing visible.
LEMMA SameVisible ==
    ASSUME UNCHANGED <<file, eof>>,
           \A u \in Threads :
             \/ pc[u] # "append" /\ pc'[u] # "append"
             \/ pc'[u] = pc[u] /\ done'[u] = done[u]
    PROVE  Visible' = Visible
BY DEF Visible, VisibleLines

-----------------------------------------------------------------------------
(* The refinement: what the abstract table knows of the calls. *)

OthersSame(t) ==
    \A u \in Threads \ {t} : pc'[u] = pc[u] /\ op'[u] = op[u] /\ ret'[u] = ret[u]

LEMMA OthersCalls ==
    ASSUME NEW t \in Threads, OthersSame(t)
    PROVE  \A u \in Threads \ {t} : CallOf(u)' = CallOf(u)
BY DEF OthersSame, CallOf, Status, Answered

\* A call that has the same outcome as before, or none yet.
LEMMA SameCall ==
    ASSUME NEW t \in Threads, OthersSame(t), op'[t] = op[t],
           \/ ~Answered(t) /\ ~Answered(t)' /\ pc[t] # "idle" /\ pc'[t] # "idle"
           \/ Answered(t) /\ Answered(t)' /\ ret'[t] = ret[t]
    PROVE  CallsMade' = CallsMade
<1>1. Status(t)' = Status(t) /\ CallOf(t)' = CallOf(t)
  BY DEF CallOf, Status, Answered
<1>. QED
  BY <1>1, OthersCalls DEF CallsMade

LEMMA AnswersCall ==
    ASSUME NEW t \in Threads, OthersSame(t), op'[t] = op[t], Answered(t)',
           NEW st, st = IF ret'[t].ok THEN "ok" ELSE "failed",
           NEW rows, rows = ret'[t].rows
    PROVE  Abstract!Answer(t, st, rows)
<1>1. CallOf(t)' = [st |-> st, op |-> op[t], rows |-> rows]
  BY DEF CallOf, Status, Answered
<1>2. CallOf(t)' = [CallOf(t) EXCEPT !.st = st, !.rows = rows]
  <2>1. PICK a, b : CallOf(t) = [st |-> a, op |-> op[t], rows |-> b]
    BY Zenon DEF CallOf
  <2>2. [[st |-> a, op |-> op[t], rows |-> b] EXCEPT !.st = st]
          = [st |-> st, op |-> op[t], rows |-> b]
    OBVIOUS
  <2>3. [[st |-> st, op |-> op[t], rows |-> b] EXCEPT !.rows = rows]
          = [st |-> st, op |-> op[t], rows |-> rows]
    OBVIOUS
  <2>. QED
    BY <1>1, <2>1, <2>2, <2>3, Zenon
<1>3. \A u \in Threads \ {t} : CallOf(u)' = CallOf(u)
  BY OthersCalls
<1>. QED
  BY <1>2, <1>3 DEF Abstract!Answer, CallsMade

LEMMA PendingCall ==
    ASSUME NEW t \in Threads, pc[t] # "idle", ~Answered(t)
    PROVE  /\ CallsMade[t].st = "called" /\ CallsMade[t].op = op[t]
           /\ \A kind : Abstract!Pending(t, kind) <=> op[t].kind = kind
BY DEF CallsMade, CallOf, Status, Abstract!Pending

LEMMA ForgetsCalls ==
    ASSUME NEW T \in SUBSET Threads, Forget(T),
           \A u \in T : pc'[u] = "idle", \A u \in Threads \ T : pc'[u] = pc[u]
    PROVE  CallsMade' = [u \in Threads |-> IF u \in T THEN Abstract!Idle ELSE CallsMade[u]]
<1>1. ASSUME NEW u \in T PROVE CallOf(u)' = Abstract!Idle
  <2>1. op'[u] = NoCall /\ pc'[u] = "idle"
    BY DEF Forget
  <2>. QED
    BY <2>1 DEF CallOf, Status, Answered, Abstract!Idle
<1>2. ASSUME NEW u \in Threads \ T PROVE CallOf(u)' = CallOf(u)
  <2>1. op'[u] = op[u] /\ pc'[u] = pc[u] /\ ret'[u] = ret[u]
    BY DEF Forget
  <2>. QED
    BY <2>1 DEF CallOf, Status, Answered
<1>. QED
  BY <1>1, <1>2 DEF CallsMade

-----------------------------------------------------------------------------
(* The refinement: every step is one of the abstract table, or none. *)

Stutters == Visible' = Visible /\ CallsMade' = CallsMade

LEMMA Elsewhere ==
    ASSUME TypeOK, NEW t \in Threads, NEW to, pc' = [pc EXCEPT ![t] = to]
    PROVE  pc'[t] = to /\ \A u \in Threads \ {t} : pc'[u] = pc[u]
BY DEF TypeOK

\* Entering the section, and leaving it, show nothing.
LEMMA LocksStutter ==
    ASSUME Inv, NEW t \in Threads,
           \/ Probe(t) /\ ~exists
           \/ AcquireThreadLock(t) \/ AcquireFileLock(t) \/ ReleaseFileLock(t)
    PROVE  Stutters
<1>1. PICK to \in {"tl", "fl", "body", "tlrel"} :
        /\ pc' = [pc EXCEPT ![t] = to]
        /\ pc[t] \in {"probe", "tl", "fl", "unlock"}
        /\ pc[t] = "unlock" <=> to = "tlrel"
  BY DEF Probe, AcquireThreadLock, AcquireFileLock, ReleaseFileLock, Goto
<1>2. UNCHANGED <<file, eof, op, done, ret>>
  BY DEF Probe, AcquireThreadLock, AcquireFileLock, ReleaseFileLock, disk, local
<1>3. pc'[t] = to /\ \A u \in Threads \ {t} : pc'[u] = pc[u]
  BY <1>1, Elsewhere DEF Inv, TypeInv
<1>4. OthersSame(t)
  BY <1>2, <1>3 DEF OthersSame
<1>5. Visible' = Visible
  BY <1>1, <1>2, <1>3, SameVisible
<1>6. CallsMade' = CallsMade
  BY <1>1, <1>2, <1>3, <1>4, SameCall DEF Answered
<1>. QED
  BY <1>5, <1>6 DEF Stutters

\* Nor does reading the counter, or writing a temporary file.
LEMMA PreparesStutter ==
    ASSUME Inv, NEW t \in Threads,
           \/ InsertTakesIds(t) \/ UpsertMerges(t) \/ UpsertCreates(t) \/ DeleteAll(t)
           \/ DeleteFilters(t) /\ Matching(file, op[t].keys) # {}
           \/ InitSchema(t) /\ ~exists
    PROVE  Stutters
<1>r. Readings = {file}
  BY PlainReading DEF Inv, IdInv
<1>1. PICK to \in {"seq", "replace"} : pc' = [pc EXCEPT ![t] = to] /\ pc[t] = "body"
  BY <1>r DEF InsertTakesIds, UpsertMerges, UpsertCreates, DeleteAll, DeleteFilters, InitSchema, Body
<1>2. UNCHANGED <<file, eof, op, done, ret>>
  BY DEF InsertTakesIds, UpsertMerges, UpsertCreates, DeleteAll, DeleteFilters, InitSchema, disk
<1>3. pc'[t] = to /\ \A u \in Threads \ {t} : pc'[u] = pc[u]
  BY <1>1, Elsewhere DEF Inv, TypeInv
<1>4. OthersSame(t)
  BY <1>2, <1>3 DEF OthersSame
<1>5. Visible' = Visible
  BY <1>1, <1>2, <1>3, SameVisible
<1>6. CallsMade' = CallsMade
  BY <1>1, <1>2, <1>3, <1>4, SameCall DEF Answered
<1>. QED
  BY <1>5, <1>6 DEF Stutters

\* Nor does moving the counter.
LEMMA CounterStutters ==
    ASSUME Inv, NEW t \in Threads, ReplaceSeq(t)
    PROVE  Stutters
<1>1. /\ pc[t] = "seq" /\ InSection(t)
      /\ pc' = [pc EXCEPT ![t] = IF op[t].kind = "insert" THEN "append" ELSE "replace"]
      /\ UNCHANGED <<file, eof, op, done, ret>>
  BY DEF ReplaceSeq, Goto, local, InSection
<1>2. pc'[t] \in {"append", "replace"} /\ \A u \in Threads \ {t} : pc'[u] = pc[u]
  BY <1>1, Elsewhere DEF Inv, TypeInv
<1>3. OthersSame(t)
  BY <1>1, <1>2 DEF OthersSame
<1>4. Visible' = Visible
  <2>1. \A u \in Threads \ {t} : pc'[u] # "append"
    BY <1>1, <1>2 DEF Inv, LockInv, InSection
  <2>2. done'[t] = 0 /\ eof' \in Nat
    BY <1>1 DEF Inv, TypeInv, TypeOK, Control
  <2>3. VisibleLines' = DOMAIN file
    <3>1. \A l \in DOMAIN file : l < eof' - 0
      BY <1>1 DEF Inv, TypeInv, TypeOK, IsFile
    <3>. QED
      BY <1>1, <2>1, <2>2, <3>1 DEF VisibleLines
  <2>4. Visible' = AllRows
    BY <1>1, <2>3 DEF Visible, AllRows
  <2>. QED
    BY <1>1, <2>4, NoAppend DEF Inv
<1>5. CallsMade' = CallsMade
  BY <1>1, <1>2, <1>3, SameCall DEF Answered
<1>. QED
  BY <1>4, <1>5 DEF Stutters

LEMMA InvokeMaps ==
    ASSUME Inv, NEW t \in Threads, NEW o \in Calls, Invoke(t, o)
    PROVE  Abstract!Invoke(t, o)
<1>1. /\ pc[t] = "idle" /\ op' = [op EXCEPT ![t] = o] /\ UNCHANGED <<file, eof, done, ret>>
      /\ pc'[t] \in {"probe", "tl"} /\ \A u \in Threads \ {t} : pc'[u] = pc[u]
  BY Elsewhere DEF Invoke, Goto, disk, Inv, TypeInv
<1>2. op'[t] = o /\ \A u \in Threads \ {t} : op'[u] = op[u]
  BY <1>1 DEF Inv, TypeInv, TypeOK
<1>3. OthersSame(t)
  BY <1>1, <1>2 DEF OthersSame
<1>4. CallOf(t)' = [st |-> "called", op |-> o, rows |-> {}]
  BY <1>1, <1>2 DEF CallOf, Status, Answered
<1>5. CallsMade[t].st = "idle"
  BY <1>1 DEF CallsMade, CallOf, Status
<1>6. CallsMade' = [CallsMade EXCEPT ![t] = [st |-> "called", op |-> o, rows |-> {}]]
  BY <1>3, <1>4, OthersCalls DEF CallsMade
<1>7. Visible' = Visible
  BY <1>1, SameVisible
<1>. QED
  BY <1>5, <1>6, <1>7 DEF Abstract!Invoke

LEMMA ReturnMaps ==
    ASSUME Inv, NEW t \in Threads, ReleaseThreadLock(t) \/ (Probe(t) /\ exists)
    PROVE  Abstract!Return(t)
<1>1. /\ pc[t] \in {"tlrel", "probe"} /\ pc' = [pc EXCEPT ![t] = "idle"]
      /\ Forget({t}) /\ UNCHANGED <<file, eof>>
  BY DEF ReleaseThreadLock, Probe, Goto, disk
<1>2. pc'[t] = "idle" /\ \A u \in Threads \ {t} : pc'[u] = pc[u]
  BY <1>1, Elsewhere DEF Inv, TypeInv
<1>3. Visible' = Visible
  <2>1. \A u \in Threads \ {t} : done'[u] = done[u]
    BY <1>1 DEF Forget
  <2>. QED
    BY <1>1, <1>2, <2>1, SameVisible
<1>4. CallsMade' = [CallsMade EXCEPT ![t] = Abstract!Idle]
  <2>1. CallsMade' = [u \in Threads |-> IF u \in {t} THEN Abstract!Idle ELSE CallsMade[u]]
    BY <1>1, <1>2, ForgetsCalls
  <2>. QED
    BY <2>1 DEF CallsMade
<1>5. CallsMade[t].st \in {"ok", "failed"} \/ Abstract!Pending(t, "init")
  <2>1. CASE pc[t] = "tlrel"
    BY <2>1 DEF CallsMade, CallOf, Status, Answered
  <2>2. CASE pc[t] = "probe"
    <3>1. op[t].kind = "init"
      BY <2>2 DEF Inv, StoreInv, ThreadInv, CallInv
    <3>. QED
      BY <2>2, <3>1, PendingCall DEF Answered
  <2>. QED
    BY <1>1, <2>1, <2>2
<1>. QED
  BY <1>3, <1>4, <1>5 DEF Abstract!Return

-----------------------------------------------------------------------------
(* The refinement: the steps that take effect. *)

\* A row that is not the last of its batch is not visible when it is written.
LEMMA RowStutters ==
    ASSUME Inv, NEW t \in Threads, AppendRow(t), done[t] + 1 # Len(op[t].batch)
    PROVE  Stutters
<1>1. /\ pc[t] = "append" /\ pc' = pc /\ op' = op /\ eof' = eof + 1
      /\ file' = Put(file, eof, NextRow(t)) /\ done' = [done EXCEPT ![t] = @ + 1]
      /\ \A u \in Threads \ {t} : ret'[u] = ret[u]
  BY DEF AppendRow, WriteLine, Inv, StoreInv, WholeInv, TypeInv, TypeOK
<1>2. /\ done'[t] = done[t] + 1 /\ done[t] \in Nat /\ eof \in Nat
      /\ \A l \in DOMAIN file : l \in Nat /\ l < eof
  BY <1>1 DEF Inv, TypeInv, TypeOK, IsFile
<1>3. \A u \in Threads : pc[u] = "append" => u = t
  BY <1>1 DEF Inv, LockInv, InSection
<1>4. VisibleLines = {m \in DOMAIN file : m < eof - done[t]}
  BY <1>1, <1>3 DEF VisibleLines
<1>5. VisibleLines' = {m \in DOMAIN file' : m < eof - done[t]}
  <2>1. eof' - done'[t] = eof - done[t]
    BY <1>1, <1>2
  <2>. QED
    BY <1>1, <1>3, <2>1 DEF VisibleLines
<1>6. /\ DOMAIN file' = DOMAIN file \union {eof} /\ ~(eof < eof - done[t])
      /\ \A l \in DOMAIN file : file'[l] = file[l]
  BY <1>1, <1>2 DEF Put
<1>7. VisibleLines' = VisibleLines
  BY <1>4, <1>5, <1>6
<1>8. Visible' = Visible
  BY <1>4, <1>6, <1>7 DEF Visible
<1>9. CallsMade' = CallsMade
  BY <1>1, SameCall DEF OthersSame, Answered
<1>. QED
  BY <1>8, <1>9 DEF Stutters

LEMMA BatchIsPrefix ==
    ASSUME NEW t, NEW n
    PROVE  Abstract!Prefix(op[t].batch, n, last[t]) = Taken(t, n)
BY SameData DEF Abstract!Prefix, Taken

\* With the last row of its batch the insert takes effect.
LEMMA InsertMaps ==
    ASSUME LastIds = Nat, Inv, NEW t \in Threads, AppendRow(t),
           done[t] + 1 = Len(op[t].batch)
    PROVE  Abstract!Insert(t)
<1>. DEFINE n == Len(op[t].batch)
            new == Taken(t, n)
<1>1. /\ pc[t] = "append" /\ pc' = [pc EXCEPT ![t] = "unlock"] /\ op' = op
      /\ last' = last /\ file' = Put(file, eof, NextRow(t))
      /\ InSection(t) /\ op[t].kind = "insert"
      /\ \A u \in Threads \ {t} : ret'[u] = ret[u]
      /\ ret'[t].ok = ret[t].ok /\ ret'[t].rows = ret[t].rows \union {NextRow(t)}
  BY DEF AppendRow, WriteLine, Inv, StoreInv, WholeInv, TypeInv, TypeOK, Control, InSection
<1>2. pc'[t] = "unlock" /\ \A u \in Threads \ {t} : pc'[u] = pc[u]
  BY <1>1, Elsewhere DEF Inv, TypeInv
<1>3. new = Taken(t, done[t]) \union {NextRow(t)}
  <2>1. done[t] \in Nat /\ last[t] \in Nat /\ n = done[t] + 1
    BY DEF Inv, TypeInv, TypeOK
  <2>. HIDE DEF n
  <2>2. 1..n = 1..done[t] \union {n} /\ last[t] + done[t] + 1 = last[t] + n
    <3>1. \A d \in Nat, a \in Nat :
            1..(d + 1) = 1..d \union {d + 1} /\ a + d + 1 = a + (d + 1)
      OBVIOUS
    <3>. QED
      BY <2>1, <3>1
  <2>. QED
    BY <2>1, <2>2 DEF Taken, NextRow
<1>4. ret'[t].ok /\ ret'[t].rows = new
  BY <1>1, <1>3 DEF Inv, StoreInv, ThreadInv, AppendInv
<1>5. Visible' = Visible \union new
  <2>1. \A u \in Threads : pc'[u] # "append"
    BY <1>1, <1>2 DEF Inv, LockInv, InSection
  <2>2. Visible' = {file'[l] : l \in DOMAIN file'}
    BY <2>1 DEF Visible, VisibleLines
  <2>3. eof \notin DOMAIN file
    BY DEF Inv, TypeInv, TypeOK, IsFile
  <2>4. {file'[l] : l \in DOMAIN file'} = AllRows \union {NextRow(t)}
    BY <1>1, <2>3 DEF Put, AllRows
  <2>5. AllRows = Visible \union Taken(t, done[t])
    BY <1>1, AppendedRows
  <2>. QED
    BY <1>3, <2>2, <2>4, <2>5
<1>6. Abstract!Answer(t, "ok", new)
  <2>1. OthersSame(t)
    BY <1>1, <1>2 DEF OthersSame
  <2>. QED
    BY <1>1, <1>2, <1>4, <2>1, AnswersCall DEF Answered
<1>7. Abstract!Above(last[t]) /\ last[t] \in LastIds
  BY <1>1, AppendedRows DEF Inv, TypeInv, TypeOK
<1>8. Abstract!Pending(t, "insert") /\ CallsMade[t].op = op[t]
  BY <1>1, PendingCall DEF Answered
<1>. QED
  BY <1>5, <1>6, <1>7, <1>8, BatchIsPrefix DEF Abstract!Insert

LEMMA LeastLine ==
    ASSUME NEW L \in SUBSET Nat, L # {}
    PROVE  FirstLine(L) \in L /\ \A m \in L : FirstLine(L) <= m
<1>1. \E l \in L : \A m \in L : l <= m
  BY LeastNatural
<1>. QED
  BY <1>1, Zenon DEF FirstLine

\* The row on the first line is the one with the lowest id: an upsert changes
\* that one, and no other.
LEMMA FirstIsLowest ==
    ASSUME Inv, NEW k \in Keys, Matching(file, {k}) # {}
    PROVE  LET l == FirstLine(Matching(file, {k})) IN
           /\ l \in DOMAIN file /\ file[l].key = k
           /\ Abstract!First({r \in AllRows : r.key = k}) = file[l]
           /\ \A m \in DOMAIN file : m # l => file[m] # file[l]
<1>. DEFINE L == Matching(file, {k})
            l == FirstLine(L)
            hit == {r \in AllRows : r.key = k}
<1>1. DOMAIN file \subseteq Nat /\ \A m \in DOMAIN file : file[m].id \in Nat
  BY DEF Inv, TypeInv, TypeOK, IsFile, Row
<1>2. L \subseteq Nat
  BY <1>1 DEF Matching
<1>3. l \in L /\ \A m \in L : l <= m
  BY <1>2, LeastLine, Zenon
<1>4. l \in DOMAIN file /\ file[l].key = k
  BY <1>3 DEF Matching
<1>5. \A m, p \in DOMAIN file : m < p => file[m].id < file[p].id
  BY KeysAssumption DEF Inv, IdInv, FileIds, Ordered, StoreInv, WholeInv
<1>. HIDE DEF l, L
<1>6. \A m \in DOMAIN file : m # l => file[m].id # file[l].id
  <2>. SUFFICES ASSUME NEW m \in DOMAIN file, m # l PROVE file[m].id # file[l].id
    OBVIOUS
  <2>1. m \in Nat /\ l \in Nat /\ file[m].id \in Nat /\ file[l].id \in Nat
    BY <1>1, <1>4
  <2>2. m < l \/ l < m
    BY <2>1
  <2>. QED
    BY <1>4, <1>5, <2>1, <2>2
<1>7. file[l] \in hit /\ \A s \in hit : file[l].id <= s.id
  <2>1. file[l] \in hit
    BY <1>4 DEF AllRows
  <2>2. ASSUME NEW s \in hit PROVE file[l].id <= s.id
    <3>1. PICK m \in DOMAIN file : s = file[m] /\ file[m].key = k
      BY <2>2 DEF AllRows
    <3>2. m \in L /\ m \in Nat /\ l \in Nat
      BY <1>1, <1>4, <3>1 DEF L, Matching
    <3>3. l = m \/ l < m
      BY <1>3, <3>2
    <3>. QED
      BY <1>1, <1>4, <1>5, <3>1, <3>3
  <2>. QED
    BY <2>1, <2>2
<1>8. ASSUME NEW r \in hit, \A s \in hit : r.id <= s.id PROVE r = file[l]
  <2>1. PICK m \in DOMAIN file : r = file[m]
    BY DEF AllRows
  <2>2. r.id <= file[l].id /\ file[l].id <= r.id /\ r.id \in Nat /\ file[l].id \in Nat
    BY <1>1, <1>4, <1>7, <1>8, <2>1
  <2>. QED
    BY <1>6, <2>1, <2>2
<1>9. Abstract!First(hit) = file[l]
  BY <1>7, <1>8, Zenon DEF Abstract!First
<1>. QED
  BY <1>4, <1>6, <1>9 DEF l, L

\* os.replace: what the thread wrote becomes what everybody sees.
LEMMA ReplaceShows ==
    ASSUME Inv, NEW t \in Threads, ReplaceFile(t)
    PROVE  /\ pc[t] = "replace" /\ WorkInv(t) /\ op[t] \in Calls
           /\ op[t].kind \in {"upsert", "delete", "clear", "init"}
           /\ Visible = AllRows
           /\ Visible' = {work[t][l] : l \in DOMAIN work[t]}
           /\ Abstract!Answer(t, "ok", {})
           /\ CallsMade[t].op = op[t] /\ Abstract!Pending(t, op[t].kind)
<1>1. /\ pc[t] = "replace" /\ pc' = [pc EXCEPT ![t] = "unlock"] /\ file' = work[t]
      /\ op' = op /\ ret' = ret /\ InSection(t)
  BY DEF ReplaceFile, Goto, local, InSection
<1>2. WorkInv(t) /\ op[t] \in Calls /\ CallInv(t)
  BY <1>1 DEF Inv, StoreInv, ThreadInv, TypeInv, Control
<1>3. pc'[t] = "unlock" /\ \A u \in Threads \ {t} : pc'[u] = pc[u]
  BY <1>1, Elsewhere DEF Inv, TypeInv
<1>4. Visible = AllRows
  BY <1>1, NoAppend DEF Inv
<1>5. Visible' = {work[t][l] : l \in DOMAIN work[t]}
  <2>1. \A u \in Threads : pc'[u] # "append"
    BY <1>1, <1>3 DEF Inv, LockInv, InSection
  <2>. QED
    BY <1>1, <2>1 DEF Visible, VisibleLines
<1>6. ret'[t].ok /\ ret'[t].rows = {}
  BY <1>1, <1>2 DEF CallInv, Answered, NoRet
<1>7. Abstract!Answer(t, "ok", {})
  BY <1>1, <1>3, <1>6, AnswersCall DEF Answered, OthersSame
<1>8. CallsMade[t].op = op[t] /\ Abstract!Pending(t, op[t].kind)
  BY <1>1, PendingCall DEF Answered
<1>. QED
  BY <1>1, <1>2, <1>4, <1>5, <1>7, <1>8 DEF CallInv

LEMMA UpsertMaps ==
    ASSUME LastIds = Nat, Inv, NEW t \in Threads, ReplaceFile(t), op[t].kind = "upsert"
    PROVE  Abstract!Upsert(t)
<1>. DEFINE k == op[t].key
            hit == {r \in Visible : r.key = k}
<1>1. /\ pc[t] = "replace" /\ WorkInv(t) /\ op[t] \in Calls /\ Visible = AllRows
      /\ Visible' = {work[t][l] : l \in DOMAIN work[t]}
      /\ Abstract!Answer(t, "ok", {})
      /\ CallsMade[t].op = op[t] /\ Abstract!Pending(t, "upsert")
  BY ReplaceShows
<1>2. k \in Keys
  BY <1>1, CallFields
<1>3. hit = {} <=> Matching(file, {k}) = {}
  BY <1>1 DEF AllRows, Matching
<1>4. CASE Matching(file, {k}) # {} /\ work[t] = Changed(t)
  <2>. DEFINE l == FirstLine(Matching(file, {k}))
              r == file[l]
              new == [r EXCEPT !.cols = Merge(r.cols, op[t].patch)]
  <2>1. /\ l \in DOMAIN file /\ Abstract!First(hit) = r
        /\ \A m \in DOMAIN file : m # l => file[m] # r
    BY <1>1, <1>2, <1>4, FirstIsLowest
  <2>2. work[t] = [file EXCEPT ![l] = new]
    BY <1>4 DEF Changed
  <2>. HIDE DEF l, new
  <2>3. Visible' = (Visible \ {r}) \union {new}
    BY <1>1, <2>1, <2>2 DEF AllRows
  <2>4. new = [r EXCEPT !.cols = Abstract!Merge(r.cols, op[t].patch)]
    BY SameData DEF new
  <2>5. hit # {} /\ hit = {s \in Visible : s.key = CallsMade[t].op.key}
    BY <1>1, <1>3, <1>4
  <2>6. Visible' = (Visible \ {Abstract!First(hit)}) \union
          {[Abstract!First(hit) EXCEPT
              !.cols = Abstract!Merge(Abstract!First(hit).cols, CallsMade[t].op.patch)]}
    BY <1>1, <2>1, <2>3, <2>4, Zenon
  <2>. QED
    BY <1>1, <2>5, <2>6, Zenon DEF Abstract!Upsert
<1>5. CASE /\ Matching(file, {k}) = {} /\ AllIdsUpTo(last[t])
           /\ work[t] = Put(file, eof, Created(t))
  <2>1. Abstract!Above(last[t]) /\ last[t] \in LastIds
    BY <1>1, <1>5 DEF Abstract!Above, AllRows, AllIdsUpTo, Inv, TypeInv, TypeOK
  <2>2. eof \notin DOMAIN file
    BY DEF Inv, TypeInv, TypeOK, IsFile
  <2>3. Visible' = Visible \union {Created(t)}
    BY <1>1, <1>5, <2>2 DEF Put, AllRows
  <2>4. Created(t) = Abstract!Stored(last[t] + 1,
                       [key |-> k, cols |-> Abstract!Blank(op[t].patch)])
    BY SameData DEF Created
  <2>5. hit = {}
    BY <1>3, <1>5
  <2>. QED
    BY <1>1, <2>1, <2>3, <2>4, <2>5 DEF Abstract!Upsert
<1>. QED
  BY <1>1, <1>4, <1>5 DEF WorkInv

LEMMA RewriteMaps ==
    ASSUME LastIds = Nat, Inv, NEW t \in Threads, ReplaceFile(t)
    PROVE  \/ Abstract!Upsert(t) \/ Abstract!Delete(t)
           \/ Abstract!Clear(t) \/ Abstract!InitSchema(t)
<1>1. /\ pc[t] = "replace" /\ WorkInv(t) /\ Visible = AllRows
      /\ op[t].kind \in {"upsert", "delete", "clear", "init"}
      /\ Visible' = {work[t][l] : l \in DOMAIN work[t]}
      /\ Abstract!Answer(t, "ok", {})
      /\ CallsMade[t].op = op[t] /\ Abstract!Pending(t, op[t].kind)
  BY ReplaceShows
<1>2. CASE op[t].kind = "upsert"
  BY <1>2, UpsertMaps
<1>3. CASE op[t].kind = "delete"
  <2>1. work[t] = Without(file, op[t].keys)
    BY <1>1, <1>3 DEF WorkInv
  <2>2. Visible' = {r \in Visible : r.key \notin op[t].keys}
    BY <1>1, <2>1 DEF Without, AllRows
  <2>. QED
    BY <1>1, <1>3, <2>2 DEF Abstract!Delete
<1>4. CASE op[t].kind = "clear"
  <2>1. DOMAIN work[t] = {}
    BY <1>1, <1>4 DEF WorkInv, Empty
  <2>. QED
    BY <1>1, <1>4, <2>1 DEF Abstract!Clear
<1>5. CASE op[t].kind = "init"
  <2>1. DOMAIN work[t] = {}
    BY <1>1, <1>5 DEF WorkInv, Empty
  <2>2. Visible = {}
    BY <1>1, <1>5 DEF WorkInv, Inv, StoreInv, WholeInv, AllRows
  <2>. QED
    BY <1>1, <1>5, <2>1, <2>2 DEF Abstract!InitSchema
<1>. QED
  BY <1>1, <1>2, <1>3, <1>4, <1>5

\* Calls that find nothing to write are answered at once.
LEMMA ReadMaps ==
    ASSUME Inv, NEW t \in Threads,
           \/ DeleteFilters(t) /\ Matching(file, op[t].keys) = {}
           \/ InitSchema(t) /\ exists
           \/ SelectReads(t)
    PROVE  Abstract!Delete(t) \/ Abstract!InitSchema(t) \/ Abstract!Select(t)
<1>r. Readings = {file}
  BY PlainReading DEF Inv, IdInv
<1>1. /\ pc[t] = "body" /\ pc' = [pc EXCEPT ![t] = "unlock"] /\ op' = op
      /\ UNCHANGED <<file, eof, done>> /\ InSection(t)
  BY <1>r DEF DeleteFilters, InitSchema, SelectReads, Body, InSection, disk
<1>2. pc'[t] = "unlock" /\ \A u \in Threads \ {t} : pc'[u] = pc[u]
  BY <1>1, Elsewhere DEF Inv, TypeInv
<1>3. Visible' = Visible /\ Visible = AllRows
  BY <1>1, <1>2, SameVisible, NoAppend DEF Inv
<1>4. ret[t].ok /\ ret[t].rows = {}
  BY <1>1 DEF Inv, StoreInv, ThreadInv, CallInv, Answered, NoRet
<1>5. CallsMade[t].op = op[t] /\ Abstract!Pending(t, op[t].kind)
  BY <1>1, PendingCall DEF Answered
<1>6. CASE SelectReads(t)
  <2>. DEFINE found == {r \in Visible : r.key \in op[t].keys}
  <2>1. /\ op[t].kind = "select" /\ ret'[t].ok = ret[t].ok
        /\ ret'[t].rows = {file[l] : l \in Matching(file, op[t].keys)}
        /\ \A u \in Threads \ {t} : ret'[u] = ret[u]
    BY <1>r, <1>6 DEF SelectReads, Body, Inv, TypeInv, TypeOK
  <2>2. ret'[t].rows = found
    BY <1>3, <2>1 DEF Matching, AllRows
  <2>3. Abstract!Answer(t, "ok", found)
    BY <1>1, <1>2, <1>4, <2>1, <2>2, AnswersCall DEF Answered, OthersSame
  <2>. QED
    BY <1>3, <1>5, <2>1, <2>3 DEF Abstract!Select
<1>7. CASE ret' = ret
  <2>1. Abstract!Answer(t, "ok", {})
    BY <1>1, <1>2, <1>4, <1>7, AnswersCall DEF Answered, OthersSame
  <2>2. CASE op[t].kind = "delete" /\ Matching(file, op[t].keys) = {}
    <3>1. Visible' = {r \in Visible : r.key \notin op[t].keys}
      BY <1>3, <2>2 DEF Matching, AllRows
    <3>. QED
      BY <1>5, <2>1, <2>2, <3>1 DEF Abstract!Delete
  <2>3. CASE op[t].kind = "init"
    BY <1>3, <1>5, <2>1, <2>3 DEF Abstract!InitSchema
  <2>. QED
    BY <1>r, <1>6, <2>2, <2>3 DEF DeleteFilters, InitSchema, Body
<1>. QED
  BY <1>r, <1>6, <1>7 DEF DeleteFilters, InitSchema

-----------------------------------------------------------------------------
(* The refinement: errors and crashes. *)

LEMMA LeavesFirst ==
    ASSUME NEW t, Abstract!Pending(t, "insert"), CallsMade[t].op = op[t],
           NEW i \in 0..(Len(op[t].batch) - 1), NEW n \in LastIds, Abstract!Above(n)
    PROVE  Abstract!Prefix(op[t].batch, i, n) \in Abstract!Leftover(t)
BY DEF Abstract!Leftover

\* An insert that stops may leave nothing, or the rows it has written.
LEMMA LeavesNothing ==
    ASSUME LastIds = Nat, Inv, NEW t \in Threads, pc[t] # "idle", ~Answered(t)
    PROVE  {} \in Abstract!Leftover(t)
<1>1. CallsMade[t].op = op[t] /\ (Abstract!Pending(t, "insert") <=> op[t].kind = "insert")
  BY PendingCall
<1>2. CASE op[t].kind = "insert"
  <2>1. PICK n \in LastIds : Abstract!Above(n)
    BY SomeIdAbove
  <2>2. Len(op[t].batch) \in Nat \ {0}
    BY <1>2, CallFields DEF Inv, TypeInv, Control
  <2>3. 0 \in 0..(Len(op[t].batch) - 1)
    BY <2>2
  <2>4. Abstract!Prefix(op[t].batch, 0, n) = {}
    <3>1. 1..0 = {}
      OBVIOUS
    <3>. QED
      BY <3>1 DEF Abstract!Prefix
  <2>5. Abstract!Prefix(op[t].batch, 0, n) \in Abstract!Leftover(t)
    BY <1>1, <1>2, <2>1, <2>3, LeavesFirst
  <2>. QED
    BY <2>4, <2>5
<1>3. CASE op[t].kind # "insert"
  BY <1>1, <1>3 DEF Abstract!Leftover
<1>. QED
  BY <1>2, <1>3

LEMMA LeavesPrefix ==
    ASSUME LastIds = Nat, Inv, NEW t \in Threads, pc[t] = "append"
    PROVE  /\ Taken(t, done[t]) \in Abstract!Leftover(t)
           /\ AllRows = Visible \union Taken(t, done[t])
<1>1. /\ op[t].kind = "insert" /\ Len(op[t].batch) \in Nat /\ done[t] \in Nat
      /\ done[t] < Len(op[t].batch) /\ last[t] \in LastIds
  BY CallFields DEF Inv, TypeInv, TypeOK, Control
<1>2. CallsMade[t].op = op[t] /\ Abstract!Pending(t, "insert")
  BY <1>1, PendingCall DEF Answered
<1>3. Abstract!Above(last[t]) /\ AllRows = Visible \union Taken(t, done[t])
  BY AppendedRows
<1>4. done[t] \in 0..(Len(op[t].batch) - 1)
  BY <1>1
<1>. QED
  BY <1>1, <1>2, <1>3, <1>4, BatchIsPrefix, LeavesFirst

LEMMA FailMaps ==
    ASSUME LastIds = Nat, ~MidRowFlush, Inv, NEW t \in Threads, FileLockFails(t) \/ Fail(t)
    PROVE  Abstract!Fail(t)
<1>1. /\ pc[t] \in {"fl", "body", "seq", "append", "replace"} /\ op' = op
      /\ ret' = [ret EXCEPT ![t] = Failed] /\ UNCHANGED <<file, eof, done>>
  BY DEF FileLockFails, Fail, CutShort, Raise, Goto, disk
<1>2. PICK to \in {"unlock", "tlrel"} : pc' = [pc EXCEPT ![t] = to]
  BY DEF FileLockFails, Fail, Raise, Goto
<1>3. pc'[t] = to /\ \A u \in Threads \ {t} : pc'[u] = pc[u]
  BY <1>2, Elsewhere DEF Inv, TypeInv
<1>4. ret'[t] = Failed /\ \A u \in Threads \ {t} : ret'[u] = ret[u]
  BY <1>1 DEF Inv, TypeInv, TypeOK
<1>5. Abstract!Answer(t, "failed", {})
  <2>1. ~ret'[t].ok /\ ret'[t].rows = {}
    BY <1>4 DEF Failed
  <2>2. OthersSame(t) /\ Answered(t)'
    BY <1>1, <1>3, <1>4 DEF OthersSame, Answered
  <2>. QED
    BY <1>1, <2>1, <2>2, AnswersCall
<1>6. CallsMade[t].st = "called"
  BY <1>1, PendingCall DEF Answered
<1>7. \E rows \in Abstract!Leftover(t) : Visible' = Visible \union rows
  <2>1. CASE pc[t] = "append"
    <3>1. \A u \in Threads : pc'[u] # "append"
      BY <1>3, <2>1 DEF Inv, LockInv, InSection
    <3>2. Visible' = AllRows
      BY <1>1, <3>1 DEF Visible, VisibleLines, AllRows
    <3>. QED
      BY <2>1, <3>2, LeavesPrefix
  <2>2. CASE pc[t] # "append"
    <3>1. Visible' = Visible
      BY <1>1, <1>3, <2>2, SameVisible
    <3>2. {} \in Abstract!Leftover(t)
      BY <1>1, LeavesNothing DEF Answered
    <3>. QED
      BY <3>1, <3>2
  <2>. QED
    BY <2>1, <2>2
<1>. QED
  BY <1>5, <1>6, <1>7 DEF Abstract!Fail

LEMMA CrashMaps ==
    ASSUME LastIds = Nat, ~MidRowFlush, Inv, NEW p \in Procs, Crash(p)
    PROVE  Abstract!Crash(p)
<1>. DEFINE T == {t \in Threads : ProcOf[t] = p}
<1>1. /\ UNCHANGED <<file, eof>> /\ Forget(T)
      /\ pc' = [t \in Threads |-> IF t \in T THEN "idle" ELSE pc[t]]
  BY DEF Crash, CutShort, disk
<1>2. /\ \A u \in T : pc'[u] = "idle"
      /\ \A u \in Threads \ T : pc'[u] = pc[u] /\ done'[u] = done[u]
  BY <1>1 DEF Forget
<1>3. CallsMade' = [u \in Threads |-> IF ProcOf[u] = p THEN Abstract!Idle ELSE CallsMade[u]]
  <2>1. T \in SUBSET Threads /\ \A u \in Threads : u \in T <=> ProcOf[u] = p
    OBVIOUS
  <2>. HIDE DEF T
  <2>2. CallsMade' = [u \in Threads |-> IF u \in T THEN Abstract!Idle ELSE CallsMade[u]]
    BY <1>1, <1>2, <2>1, ForgetsCalls
  <2>. QED
    BY <2>1, <2>2
<1>4. CASE \E t \in T : pc[t] = "append"
  <2>1. PICK t \in T : pc[t] = "append"
    BY <1>4
  <2>2. \A u \in Threads : pc'[u] # "append"
    BY <1>2, <2>1 DEF Inv, LockInv, InSection
  <2>3. Visible' = AllRows
    BY <1>1, <2>2 DEF Visible, VisibleLines, AllRows
  <2>4. /\ Taken(t, done[t]) \in Abstract!Leftover(t)
        /\ Visible' = Visible \union Taken(t, done[t])
    BY <2>1, <2>3, LeavesPrefix
  <2>. QED
    BY <1>3, <2>4 DEF Abstract!Crash
<1>5. CASE \A t \in T : pc[t] # "append"
  <2>1. Visible' = Visible
    BY <1>1, <1>2, <1>5, SameVisible
  <2>. QED
    BY <1>3, <2>1 DEF Abstract!Crash
<1>. QED
  BY <1>4, <1>5

\* The parser has nothing to reject when every line is whole.
LEMMA NothingRejected ==
    ASSUME Inv, NEW t
    PROVE  ~ReadRejected(t)
BY PlainReading DEF Inv, IdInv, ReadRejected

-----------------------------------------------------------------------------
(* The refinement, put together. *)

LEMMA InitMaps == Init => Abstract!Init
<1>. SUFFICES ASSUME Init PROVE Abstract!Init
  OBVIOUS
<1>1. DOMAIN Empty = {} /\ file = Empty
  BY DEF Empty, Init
<1>2. Visible = {}
  BY <1>1 DEF Visible, VisibleLines
<1>3. \A t \in Threads : CallOf(t) = Abstract!Idle
  BY DEF Init, CallOf, Status, Answered, Abstract!Idle
<1>. QED
  BY <1>2, <1>3 DEF Abstract!Init, CallsMade

LEMMA StepMaps ==
    ASSUME LastIds = Nat, ~MidRowFlush, Inv, [Next]_vars
    PROVE  Abstract!Next \/ Stutters
<1>1. ASSUME NEW t \in Threads, NEW o \in Calls, Invoke(t, o) PROVE Abstract!Next
  BY <1>1, InvokeMaps DEF Abstract!Next
<1>2. ASSUME NEW t \in Threads, Step(t) PROVE Abstract!Next \/ Stutters
  <2>1. CASE Probe(t)
    BY <2>1, LocksStutter, ReturnMaps DEF Abstract!Next
  <2>2. CASE AcquireThreadLock(t) \/ AcquireFileLock(t) \/ ReleaseFileLock(t)
    BY <2>2, LocksStutter
  <2>3. CASE InsertTakesIds(t) \/ UpsertMerges(t) \/ UpsertCreates(t) \/ DeleteAll(t)
    BY <2>3, PreparesStutter
  <2>4. CASE ReplaceSeq(t)
    BY <2>4, CounterStutters
  <2>5. CASE AppendRow(t)
    BY <2>5, RowStutters, InsertMaps DEF Abstract!Next
  <2>6. CASE DeleteFilters(t) \/ InitSchema(t) \/ SelectReads(t)
    BY <2>6, PreparesStutter, ReadMaps DEF Abstract!Next
  <2>7. CASE ReplaceFile(t)
    BY <2>7, RewriteMaps DEF Abstract!Next
  <2>8. CASE ReleaseThreadLock(t)
    BY <2>8, ReturnMaps DEF Abstract!Next
  <2>. QED
    BY <1>2, <2>1, <2>2, <2>3, <2>4, <2>5, <2>6, <2>7, <2>8, NothingRejected DEF Step
<1>3. ASSUME NEW t \in Threads, FileLockFails(t) \/ Fail(t) PROVE Abstract!Next
  BY <1>3, FailMaps DEF Abstract!Next
<1>4. ASSUME NEW p \in Procs, Crash(p) PROVE Abstract!Next
  BY <1>4, CrashMaps DEF Abstract!Next
<1>5. CASE LoseSeq \/ Finished \/ UNCHANGED vars
  <2>1. UNCHANGED <<file, eof, pc, op, done, ret>>
    BY <1>5 DEF LoseSeq, Finished, vars, disk, local
  <2>. QED
    BY <2>1 DEF Stutters, Visible, VisibleLines, CallsMade, CallOf, Status, Answered
<1>. QED
  BY <1>1, <1>2, <1>3, <1>4, <1>5 DEF Next

\* Every call on the CSV table takes effect at one instant between its
\* invocation and its return: an insert with its last row, a rewrite with
\* os.replace, a read in the section.  A call that fails or dies has no effect,
\* but for the first rows of an insert.  LastIds, the ids the abstract counter
\* may stand at, is unbounded here.
THEOREM CsvTableIsAtomic ==
    ~MidRowFlush /\ LastIds = Nat => (Spec => ImplementsAtomicTable)
<1>. SUFFICES ASSUME ~MidRowFlush, LastIds = Nat PROVE Spec => Abstract!Spec
  BY DEF ImplementsAtomicTable
<1>1. Init => Abstract!Init
  BY InitMaps
<1>2. Inv /\ [Next]_vars => [Abstract!Next]_Abstract!vars
  BY StepMaps DEF Stutters, Abstract!vars
<1>. QED
  BY <1>1, <1>2, StoreHeld, PTL DEF Spec, Abstract!Spec

=============================================================================
