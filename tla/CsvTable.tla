------------------------------ MODULE CsvTable ------------------------------
(***************************************************************************)
(* One table of the CSV backend (core/storage/csv_backend.py): the file    *)
(* <table>.csv, the counter <table>.seq, the in-process lock of the table  *)
(* in each process and the OS lock on <table>.lock, used by the threads of *)
(* several processes.  Files survive a crash; locks and calls do not.      *)
(*                                                                         *)
(* The file is a function from line numbers to rows; a rewrite keeps the   *)
(* numbers of the lines it keeps (only their order means anything).  The   *)
(* header line is left out.  A crash may cut the last line short (torn):   *)
(* buffered writes reach the disk in blocks that need not end with a row.  *)
(* The text of the next row then continues that line.                      *)
(***************************************************************************)
EXTENDS TableData

CONSTANTS
    Threads, Procs, ProcOf,   \* worker threads, OS processes, where each runs
    NoThread, NoCall,
    Batches, Upserts, Filters,\* arguments clients pass
    MidRowFlush,              \* can a block end in the middle of a row?
    LastIds,                  \* ids a counter may stand at, for the abstract table
    JunkIds,                  \* what the id cell of a damaged line may read as
    Powers,                   \* the powers of ten: 1, 10, ... beyond every id
    MaxCalls, MaxFaults       \* bounds: calls made, faults injected

ASSUME ProcAssumption == ProcOf \in [Threads -> Procs]
ASSUME ThreadAssumption == NoThread \notin Threads
ASSUME BatchAssumption ==
    \A b \in Batches : b \in Seq(NewRow) /\ Len(b) > 0
ASSUME UpsertAssumption == Upserts \subseteq [key : Keys, patch : Patches]
ASSUME FilterAssumption == Filters \subseteq SUBSET Keys
ASSUME JunkAssumption ==
    MidRowFlush \in BOOLEAN /\ JunkIds \subseteq Nat /\ Powers \subseteq Nat

Calls ==
    [kind : {"insert"}, batch : Batches]
      \union {[kind |-> "upsert", key |-> u.key, patch |-> u.patch] : u \in Upserts}
      \union [kind : {"delete", "select"}, keys : Filters]
      \union [kind : {"clear", "init"}]

NoSeq == -1      \* .seq is missing or does not hold an integer

VARIABLES
    exists,    \* does <table>.csv exist?
    file,      \* its lines: line number -> row
    eof,       \* the number the next appended line gets
    torn,      \* where its last line was cut short: not at all, in the id
               \* cell or right after it, or further on
    seq,       \* <table>.seq
    tl,        \* backend._locks[table] of each process: its holder
    fl,        \* the OS lock on <table>.lock: its holder
    pc,        \* where each thread is
    op,        \* the call each thread is making
    last,      \* _next_ids: the last id in use when it read the counter
    done,      \* insert: rows appended so far
    work,      \* upsert, delete: the content of <table>.csv.tmp
    ret,       \* the outcome of the call, once known
    calls, faults

disk == <<exists, file, eof, torn, seq>>
locks == <<tl, fl>>
local == <<op, last, done, work, ret>>
counters == <<calls, faults>>
vars == <<disk, locks, pc, local, counters>>

Empty == [l \in {} |-> 0]
NoRet == [ok |-> TRUE, rows |-> {}]
Failed == [ok |-> FALSE, rows |-> {}]

Init ==
    /\ exists = FALSE
    /\ file = Empty
    /\ eof = 1
    /\ torn = "no"
    /\ seq = NoSeq
    /\ tl = [p \in Procs |-> NoThread]
    /\ fl = NoThread
    /\ pc = [t \in Threads |-> "idle"]
    /\ op = [t \in Threads |-> NoCall]
    /\ last = [t \in Threads |-> 0]
    /\ done = [t \in Threads |-> 0]
    /\ work = [t \in Threads |-> Empty]
    /\ ret = [t \in Threads |-> NoRet]
    /\ calls = 0
    /\ faults = 0

Goto(t, from, to) == pc[t] = from /\ pc' = [pc EXCEPT ![t] = to]

Fault == faults < MaxFaults /\ faults' = faults + 1 /\ UNCHANGED calls

-----------------------------------------------------------------------------
(* Entering and leaving the locked section. *)

Invoke(t, o) ==
    /\ calls < MaxCalls
    /\ Goto(t, "idle", IF o.kind = "init" THEN "probe" ELSE "tl")
    /\ op' = [op EXCEPT ![t] = o]
    /\ calls' = calls + 1
    /\ UNCHANGED <<disk, locks, last, done, work, ret, faults>>

\* A thread forgets its call.
Forget(T) ==
    /\ op' = [t \in Threads |-> IF t \in T THEN NoCall ELSE op[t]]
    /\ last' = [t \in Threads |-> IF t \in T THEN 0 ELSE last[t]]
    /\ done' = [t \in Threads |-> IF t \in T THEN 0 ELSE done[t]]
    /\ work' = [t \in Threads |-> IF t \in T THEN Empty ELSE work[t]]
    /\ ret' = [t \in Threads |-> IF t \in T THEN NoRet ELSE ret[t]]

\* init_schema looks for the file before it takes the lock.
Probe(t) ==
    /\ pc[t] = "probe"
    /\ IF exists
       THEN pc' = [pc EXCEPT ![t] = "idle"] /\ Forget({t})
       ELSE pc' = [pc EXCEPT ![t] = "tl"] /\ UNCHANGED local
    /\ UNCHANGED <<disk, locks, counters>>

AcquireThreadLock(t) ==
    /\ Goto(t, "tl", "fl")
    /\ tl[ProcOf[t]] = NoThread
    /\ tl' = [tl EXCEPT ![ProcOf[t]] = t]
    /\ UNCHANGED <<disk, fl, local, counters>>

\* Mutant: the lock file is opened but not locked.
AcquireFileLockShared(t) ==
    /\ Goto(t, "fl", "body")
    /\ fl' = t
    /\ UNCHANGED <<disk, tl, local, counters>>

AcquireFileLock(t) ==
    /\ Goto(t, "fl", "body")
    /\ fl = NoThread
    /\ fl' = t
    /\ UNCHANGED <<disk, tl, local, counters>>

\* Mutant: the in-process lock stays taken when the OS lock cannot be had.
FileLockFailsKeeping(t) ==
    /\ Fault
    /\ Goto(t, "fl", "idle")
    /\ Forget({t})
    /\ UNCHANGED <<disk, locks>>

\* Opening or locking <table>.lock raises: the in-process lock is released.
FileLockFails(t) ==
    /\ Fault
    /\ Goto(t, "fl", "tlrel")
    /\ ret' = [ret EXCEPT ![t] = Failed]
    /\ UNCHANGED <<disk, locks, op, last, done, work>>

ReleaseFileLock(t) ==
    /\ Goto(t, "unlock", "tlrel")
    /\ fl' = NoThread
    /\ UNCHANGED <<disk, tl, local, counters>>

ReleaseThreadLock(t) ==
    /\ Goto(t, "tlrel", "idle")
    /\ tl' = [tl EXCEPT ![ProcOf[t]] = NoThread]
    /\ Forget({t})
    /\ UNCHANGED <<disk, fl, counters>>

-----------------------------------------------------------------------------
(* What reaches the disk. *)

\* Mutant: the file is opened for writing instead of appending.
WriteLineTruncating(r) == file' = Put(Empty, eof, r) /\ eof' = eof + 1

WriteLine(r) == file' = Put(file, eof, r) /\ eof' = eof + 1

FirstLine(L) == CHOOSE l \in L : \A m \in L : l <= m

Whole(l) == file[l].key # NoKey

\* A line that matches no key, with something in its id cell.
Junk(id) == [id |-> id, key |-> NoKey, cols |-> [c \in Cols |-> Null]]

\* What the id cell may hold when its text is cut short: the number without
\* its last digits.
Prefixes(id) == {q \in 1..id : \E w \in Powers : q = id \div w}

\* The numbers the text of id may turn into when it continues the text of q
\* (one number, if Powers reaches beyond id).
Glued(q, id) ==
    {q * w + id : w \in {x \in Powers : x > id /\ \A y \in Powers : y > id => x <= y}}

\* What is left of row r when its line is cut after the id cell: its key may
\* be gone, its last columns, or no more than the end of the line.
Fragments(r) ==
    {r, Junk(r.id), [r EXCEPT !.cols = [c \in Cols |-> Null]]}

\* The row an insert writes next.
NextRow(t) == Stored(last[t] + done[t] + 1, op[t].batch[done[t] + 1])

\* Writing stops in the middle of an append by some thread of T.  (A line
\* already cut short is not cut a second time.)
CutShort(T) ==
    \/ UNCHANGED disk
    \/ /\ MidRowFlush
       /\ torn = "no"
       /\ \E t \in T :
            /\ pc[t] = "append"
            /\ \/ /\ torn' = "id"
                  /\ \E q \in Prefixes(NextRow(t).id) : WriteLine(Junk(q))
               \/ /\ torn' = "row"
                  /\ \E r \in Fragments(NextRow(t)) : WriteLine(r)
       /\ exists' = TRUE
       /\ UNCHANGED seq

\* Row r continues the line that was cut short.  Cut in the id cell, the line
\* has as many cells as it should: it reads as the row under another id.
\* Cut further on, it has too many.
ContinueLine(r) ==
    /\ \/ /\ torn = "id"
          /\ \E id \in Glued(file[eof - 1].id, r.id) :
               file' = [file EXCEPT ![eof - 1] = [r EXCEPT !.id = id]]
       \/ /\ torn = "row"
          /\ \E id \in JunkIds : file' = [file EXCEPT ![eof - 1] = Junk(id)]
    /\ UNCHANGED eof

-----------------------------------------------------------------------------
(* What the CSV parser makes of the file. *)

Damaged == torn # "no" \/ \E l \in DOMAIN file : ~Whole(l)

\* A quote left open in line l takes in the lines up to m.
Swallowing(l, m) == [k \in {j \in DOMAIN file : j <= l \/ j > m} |-> file[k]]

Swallowed ==
    {Swallowing(l, m) : l \in {j \in DOMAIN file : ~Whole(j)}, m \in DOMAIN file}

\* A first line with too many cells makes the first columns an index: the
\* cells of every line are read under the names of other columns.
Shifted ==
    IF Whole(FirstLine(DOMAIN file)) THEN {}
    ELSE {[l \in DOMAIN file |-> Junk(id)] : id \in JunkIds}

\* What pd.read_csv may return, if it returns.
Readings == {file} \union (IF Damaged THEN Swallowed \union Shifted ELSE {})

-----------------------------------------------------------------------------
(* Ids. *)

\* Mutant: a lost counter restarts.
LastIdRestarting(f) == IF seq # NoSeq THEN seq ELSE 0

\* The last id in use.  Without a readable counter it is found in the data,
\* as they are read.
LastId(f) == IF seq # NoSeq THEN seq ELSE MaxExistingId(f)

\* How many ids the call takes.
Need(o) == IF o.kind = "insert" THEN Len(o.batch) ELSE 1

\* The counter is replaced before any row with the new ids is written.
ReplaceSeq(t) ==
    /\ Goto(t, "seq", IF op[t].kind = "insert" THEN "append" ELSE "replace")
    /\ seq' = last[t] + Need(op[t])
    /\ UNCHANGED <<exists, file, eof, torn, locks, local, counters>>

-----------------------------------------------------------------------------
(* The body of each call, under both locks. *)

Body(t, kind) == pc[t] = "body" /\ op[t].kind = kind

InsertTakesIds(t) ==
    /\ Body(t, "insert")
    /\ pc' = [pc EXCEPT ![t] = "seq"]
    /\ \E f \in Readings : last' = [last EXCEPT ![t] = LastId(f)]
    /\ UNCHANGED <<disk, locks, op, done, work, ret, counters>>

\* One row reaches the file, on a line of its own or in the one cut short.
AppendRow(t) ==
    /\ pc[t] = "append"
    /\ IF torn = "no" THEN WriteLine(NextRow(t)) ELSE ContinueLine(NextRow(t))
    /\ torn' = "no"
    /\ exists' = TRUE
    /\ done' = [done EXCEPT ![t] = @ + 1]
    /\ ret' = [ret EXCEPT ![t].rows = @ \union {NextRow(t)}]
    /\ pc' = [pc EXCEPT ![t] =
                IF done[t] + 1 = Len(op[t].batch) THEN "unlock" ELSE "append"]
    /\ UNCHANGED <<seq, locks, op, last, work, counters>>

\* Mutant: the columns the caller leaves out are emptied.
UpsertBlanks(t) ==
    /\ Body(t, "upsert")
    /\ \E f \in Readings :
         LET hit == Matching(f, {op[t].key}) IN
         /\ hit # {}
         /\ work' = [work EXCEPT ![t] =
              [f EXCEPT ![FirstLine(hit)].cols = Blank(op[t].patch)]]
    /\ pc' = [pc EXCEPT ![t] = "replace"]
    /\ UNCHANGED <<disk, locks, op, last, done, ret, counters>>

UpsertMerges(t) ==
    /\ Body(t, "upsert")
    /\ \E f \in Readings :
         LET hit == Matching(f, {op[t].key}) IN
         /\ hit # {}
         /\ work' = [work EXCEPT ![t] =
              [f EXCEPT ![FirstLine(hit)].cols = Merge(@, op[t].patch)]]
    /\ pc' = [pc EXCEPT ![t] = "replace"]
    /\ UNCHANGED <<disk, locks, op, last, done, ret, counters>>

UpsertCreates(t) ==
    /\ Body(t, "upsert")
    /\ \E f \in Readings :
         /\ Matching(f, {op[t].key}) = {}
         /\ last' = [last EXCEPT ![t] = LastId(f)]
         /\ work' = [work EXCEPT ![t] = Put(f, eof,
              Stored(LastId(f) + 1, [key |-> op[t].key, cols |-> Blank(op[t].patch)]))]
    /\ pc' = [pc EXCEPT ![t] = "seq"]
    /\ UNCHANGED <<disk, locks, op, done, ret, counters>>

\* The file is rewritten only if a row goes.
DeleteFilters(t) ==
    /\ Body(t, "delete")
    /\ \E f \in Readings :
         IF Matching(f, op[t].keys) = {}
         THEN pc' = [pc EXCEPT ![t] = "unlock"] /\ UNCHANGED work
         ELSE /\ pc' = [pc EXCEPT ![t] = "replace"]
              /\ work' = [work EXCEPT ![t] = Without(f, op[t].keys)]
    /\ UNCHANGED <<disk, locks, op, last, done, ret, counters>>

\* delete without a filter.
DeleteAll(t) ==
    /\ Body(t, "clear")
    /\ work' = [work EXCEPT ![t] = Empty]
    /\ pc' = [pc EXCEPT ![t] = "replace"]
    /\ UNCHANGED <<disk, locks, op, last, done, ret, counters>>

\* Mutant: init_schema trusts what it saw before it took the lock.
InitSchemaTrusting(t) ==
    /\ Body(t, "init")
    /\ pc' = [pc EXCEPT ![t] = "replace"]
    /\ work' = [work EXCEPT ![t] = Empty]
    /\ UNCHANGED <<disk, locks, op, last, done, ret, counters>>

\* init_schema looks again once it holds the lock.
InitSchema(t) ==
    /\ Body(t, "init")
    /\ IF exists
       THEN pc' = [pc EXCEPT ![t] = "unlock"] /\ UNCHANGED work
       ELSE /\ pc' = [pc EXCEPT ![t] = "replace"]
            /\ work' = [work EXCEPT ![t] = Empty]
    /\ UNCHANGED <<disk, locks, op, last, done, ret, counters>>

SelectReads(t) ==
    /\ Body(t, "select")
    /\ \E f \in Readings :
         ret' = [ret EXCEPT ![t].rows = {f[l] : l \in Matching(f, op[t].keys)}]
    /\ pc' = [pc EXCEPT ![t] = "unlock"]
    /\ UNCHANGED <<disk, locks, op, last, done, work, counters>>

\* Mutant: the end of the file is not where the rewrite left it.
ReplaceFileShort(t) ==
    /\ Goto(t, "replace", "unlock")
    /\ file' = work[t]
    /\ torn' = "no"
    /\ exists' = TRUE
    /\ UNCHANGED <<eof, seq, locks, local, counters>>

\* os.replace of the temporary file: the rewrite takes effect at once.
ReplaceFile(t) ==
    /\ Goto(t, "replace", "unlock")
    /\ file' = work[t]
    /\ eof' = IF eof \in DOMAIN work[t] THEN eof + 1 ELSE eof
    /\ torn' = "no"
    /\ exists' = TRUE
    /\ UNCHANGED <<seq, locks, local, counters>>

-----------------------------------------------------------------------------
(* Errors and crashes. *)

Raise(t) ==
    /\ pc' = [pc EXCEPT ![t] = "unlock"]
    /\ ret' = [ret EXCEPT ![t] = Failed]
    /\ UNCHANGED <<locks, op, last, done, work>>

\* The CSV parser rejects a damaged file.
ReadRejected(t) ==
    /\ pc[t] = "body"
    /\ Damaged
    /\ op[t].kind # "init"
    /\ op[t].kind = "insert" => seq = NoSeq
    /\ Raise(t)
    /\ UNCHANGED <<disk, counters>>

\* Reading or writing raises; __exit__ releases the locks.
Fail(t) ==
    /\ Fault
    /\ pc[t] \in {"body", "seq", "append", "replace"}
    /\ CutShort({t})
    /\ Raise(t)

\* The process dies: its calls and its locks go, the files stay.
Crash(p) ==
    LET T == {t \in Threads : ProcOf[t] = p} IN
    /\ Fault
    /\ \E t \in T : pc[t] # "idle"
    /\ CutShort(T)
    /\ pc' = [t \in Threads |-> IF t \in T THEN "idle" ELSE pc[t]]
    /\ Forget(T)
    /\ tl' = [tl EXCEPT ![p] = NoThread]
    /\ fl' = IF fl \in T THEN NoThread ELSE fl

\* The counter file is lost or damaged.
LoseSeq ==
    /\ Fault
    /\ seq # NoSeq
    /\ seq' = NoSeq
    /\ UNCHANGED <<exists, file, eof, torn, locks, pc, local>>

-----------------------------------------------------------------------------

Step(t) ==
    \/ Probe(t)
    \/ AcquireThreadLock(t)
    \/ AcquireFileLock(t)
    \/ InsertTakesIds(t)
    \/ ReplaceSeq(t)
    \/ AppendRow(t)
    \/ UpsertMerges(t)
    \/ UpsertCreates(t)
    \/ DeleteFilters(t)
    \/ DeleteAll(t)
    \/ InitSchema(t)
    \/ SelectReads(t)
    \/ ReplaceFile(t)
    \/ ReadRejected(t)
    \/ ReleaseFileLock(t)
    \/ ReleaseThreadLock(t)

\* All calls are made and answered.
Finished ==
    /\ calls = MaxCalls
    /\ \A t \in Threads : pc[t] = "idle"
    /\ UNCHANGED vars

Next ==
    \/ \E t \in Threads :
         \/ \E o \in Calls : Invoke(t, o)
         \/ Step(t)
         \/ FileLockFails(t)
         \/ Fail(t)
    \/ \E p \in Procs : Crash(p)
    \/ LoseSeq
    \/ Finished

Spec == Init /\ [][Next]_vars

\* A thread that can go on eventually does: the operating system schedules
\* it, and nobody holds a lock for ever.
Fairness == \A t \in Threads : WF_vars(Step(t))

FairSpec == Spec /\ Fairness

-----------------------------------------------------------------------------
(* Properties. *)

Labels == {"idle", "probe", "tl", "fl", "body", "seq", "append", "replace",
           "unlock", "tlrel"}

\* A file whose lines are numbered below n.
IsFile(f, n) == DOMAIN f \subseteq 1..(n - 1) /\ \A l \in DOMAIN f : f[l] \in Row

InSection(t) == pc[t] \in {"body", "seq", "append", "replace", "unlock"}

\* Every variable has its type; the files under work are files.
TypeOK ==
    /\ exists \in BOOLEAN /\ torn \in {"no", "id", "row"}
    /\ eof \in Nat \ {0}
    /\ IsFile(file, eof)
    /\ seq \in Nat \union {NoSeq}
    /\ tl \in [Procs -> Threads \union {NoThread}]
    /\ fl \in Threads \union {NoThread}
    /\ pc \in [Threads -> Labels]
    /\ op \in [Threads -> Calls \union {NoCall}]
    /\ last \in [Threads -> Nat]
    /\ done \in [Threads -> Nat]
    /\ DOMAIN work = Threads
    /\ \A t \in Threads : IsFile(work[t], eof + 1)
    /\ ret \in [Threads -> [ok : BOOLEAN, rows : SUBSET Row]]
    /\ calls \in Nat /\ faults \in Nat

\* Manual and scheduled runs in one process, and a stray second process, are
\* never in the locked section of one table together (csv_backend.py:5-8).
MutualExclusion ==
    \A t, u \in Threads : InSection(t) /\ InSection(u) => t = u

\* When writes end with a row, ids follow the order of insertion, so none is
\* used twice, even after a crash, or the loss of the counter, between any two
\* steps (_next_ids, and the tiebreak of select, csv_backend.py:299-301).
IdsFollowInsertion ==
    \A l, m \in DOMAIN file :
        l < m /\ Whole(l) /\ Whole(m) => file[l].id < file[m].id

\* When insert is about to return the ids of its rows, the rows are stored
\* under these ids, whatever happened to the file before.
AcknowledgedRowsStored ==
    \A t \in Threads :
        pc[t] = "unlock" /\ op[t].kind = "insert" /\ ret[t].ok
          => /\ Cardinality(ret[t].rows) = Len(op[t].batch)
             /\ ret[t].rows \subseteq {file[l] : l \in DOMAIN file}

\* A stored row only disappears when a delete that names it, or a delete of
\* everything, takes effect: no rewrite of the file by an upsert or by the
\* initialisation of the schema, and no crash, loses a row written meanwhile.
RowsOnlyDeleted ==
    [][\A l \in DOMAIN file :
         Whole(l) /\ file[l].id \notin {file'[m].id : m \in DOMAIN file'}
           => \E t \in Threads :
                /\ pc[t] = "replace"
                /\ \/ op[t].kind = "clear"
                   \/ op[t].kind = "delete" /\ file[l].key \in op[t].keys]_vars

\* Whoever holds a lock is inside the section the lock guards: no error path
\* leaves one behind, neither on the way in nor on the way out
\* (csv_backend.py:195-212).
NoLockLeaks ==
    /\ \A p \in Procs : tl[p] # NoThread =>
         ProcOf[tl[p]] = p /\ (InSection(tl[p]) \/ pc[tl[p]] \in {"fl", "tlrel"})
    /\ fl # NoThread => InSection(fl)

\* Every call returns, or its process dies: no error path keeps a lock
\* (csv_backend.py:195-202, 205-212).
EveryCallReturns ==
    \A t \in Threads : pc[t] # "idle" ~> pc[t] = "idle"

-----------------------------------------------------------------------------
(* The CSV table implements the abstract one.  The rows of an append in     *)
(* progress are not visible yet: the readers are locked out.                *)

VisibleLines ==
    {l \in DOMAIN file : \A t \in Threads : pc[t] = "append" => l < eof - done[t]}

Visible == {file[l] : l \in VisibleLines}

Answered(t) == pc[t] \in {"unlock", "tlrel"}

Status(t) ==
    IF pc[t] = "idle" THEN "idle"
    ELSE IF ~Answered(t) THEN "called"
    ELSE IF ret[t].ok THEN "ok" ELSE "failed"

CallOf(t) == [st |-> Status(t), op |-> op[t],
              rows |-> IF Answered(t) THEN ret[t].rows ELSE {}]

CallsMade == [t \in Threads |-> CallOf(t)]

Abstract == INSTANCE AtomicTable WITH table <- Visible, call <- CallsMade

\* Every call on the CSV table takes effect at one instant; one that fails or
\* dies has no effect, but for a prefix of an insert.
ImplementsAtomicTable == Abstract!Spec

=============================================================================
