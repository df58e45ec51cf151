---------------------------- MODULE AtomicTable ----------------------------
(***************************************************************************)
(* What a storage table promises its clients (core/storage/base.py): every *)
(* call takes effect at one instant between its invocation and its return. *)
(* A call that raises, or whose process dies, has no effect, with one      *)
(* exception the backends document nowhere: an insert may then have stored *)
(* the first rows of its batch.                                            *)
(***************************************************************************)
EXTENDS TableData

CONSTANTS
    Threads, Procs, ProcOf,
    NoCall, Calls,
    LastIds        \* the ids a counter may stand at: Nat, bounded for TLC

VARIABLES
    table,     \* the set of stored rows
    call       \* per thread: the call in progress and what came of it

vars == <<table, call>>

Idle == [st |-> "idle", op |-> NoCall, rows |-> {}]

Init == /\ table = {}
        /\ call = [t \in Threads |-> Idle]

Invoke(t, o) ==
    /\ call[t].st = "idle"
    /\ call' = [call EXCEPT ![t] = [st |-> "called", op |-> o, rows |-> {}]]
    /\ UNCHANGED table

Answer(t, st, rows) ==
    call' = [call EXCEPT ![t].st = st, ![t].rows = rows]

Pending(t, kind) == call[t].st = "called" /\ call[t].op.kind = kind

\* The first n rows of the batch, with consecutive ids above every stored id.
Prefix(batch, n, last) == {Stored(last + i, batch[i]) : i \in 1..n}

Above(last) == \A r \in table : r.id <= last

Insert(t) ==
    /\ Pending(t, "insert")
    /\ \E last \in LastIds :
         LET new == Prefix(call[t].op.batch, Len(call[t].op.batch), last) IN
         /\ Above(last)
         /\ table' = table \union new
         /\ Answer(t, "ok", new)

\* Rows of an insert that did not complete: some proper prefix, perhaps none.
Leftover(t) ==
    IF Pending(t, "insert")
    THEN {Prefix(call[t].op.batch, n, last) :
            n \in 0..(Len(call[t].op.batch) - 1),
            last \in {m \in LastIds : Above(m)}}
    ELSE {{}}

First(rows) == CHOOSE r \in rows : \A s \in rows : r.id <= s.id

Upsert(t) ==
    /\ Pending(t, "upsert")
    /\ LET o == call[t].op
           hit == {r \in table : r.key = o.key}
       IN  IF hit # {}
           THEN LET r == First(hit) IN
                table' = (table \ {r})
                           \union {[r EXCEPT !.cols = Merge(r.cols, o.patch)]}
           ELSE \E last \in LastIds :
                  /\ Above(last)
                  /\ table' = table \union
                       {Stored(last + 1, [key |-> o.key, cols |-> Blank(o.patch)])}
    /\ Answer(t, "ok", {})

Delete(t) ==
    /\ Pending(t, "delete")
    /\ table' = {r \in table : r.key \notin call[t].op.keys}
    /\ Answer(t, "ok", {})

Clear(t) ==
    /\ Pending(t, "clear")
    /\ table' = {}
    /\ Answer(t, "ok", {})

Select(t) ==
    /\ Pending(t, "select")
    /\ Answer(t, "ok", {r \in table : r.key \in call[t].op.keys})
    /\ UNCHANGED table

\* init_schema never changes what is stored.
InitSchema(t) ==
    /\ Pending(t, "init")
    /\ Answer(t, "ok", {})
    /\ UNCHANGED table

Fail(t) ==
    /\ call[t].st = "called"
    /\ \E rows \in Leftover(t) : table' = table \union rows
    /\ Answer(t, "failed", {})

Return(t) ==
    /\ \/ call[t].st \in {"ok", "failed"}
       \/ Pending(t, "init")
    /\ call' = [call EXCEPT ![t] = Idle]
    /\ UNCHANGED table

\* The process dies: its calls are gone, at most one of them half done.
Crash(p) ==
    /\ \/ UNCHANGED table
       \/ \E t \in {u \in Threads : ProcOf[u] = p} :
            \E rows \in Leftover(t) : table' = table \union rows
    /\ call' = [t \in Threads |-> IF ProcOf[t] = p THEN Idle ELSE call[t]]

Next ==
    \/ \E t \in Threads :
         \/ \E o \in Calls : Invoke(t, o)
         \/ Insert(t)
         \/ Upsert(t)
         \/ Delete(t)
         \/ Clear(t)
         \/ Select(t)
         \/ InitSchema(t)
         \/ Fail(t)
         \/ Return(t)
    \/ \E p \in Procs : Crash(p)

Spec == Init /\ [][Next]_vars

=============================================================================
