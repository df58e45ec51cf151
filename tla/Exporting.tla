----------------------------- MODULE Exporting -----------------------------
(***************************************************************************)
(* Storage management (webapp/exporting.py): concurrent requests delete,   *)
(* archive and restore the rows of tables that runs keep writing.  Each    *)
(* request is several storage calls, with files in between; a storage call *)
(* is one step, as AtomicTable promises.                                   *)
(*                                                                         *)
(* A table, like an archive, is a file: a function from line numbers to    *)
(* rows, of which only the order matters.  A row keeps the number of the   *)
(* write that made it (orig) through archive and restore, so that copies   *)
(* of one row can be told from different rows; the code has no such field. *)
(***************************************************************************)
EXTENDS Integers, FiniteSets, Functions

CONSTANTS
    Tables,
    Numbered,             \* the tables with a surrogate id, and a JSON column
    Keys, KeysOf,         \* trigger ids and scopes; those of each table
    Befores, Filters,     \* what clients give to archive and to delete
    DayLength,            \* units of the clock (seconds) in a day
    Clients,              \* requests the server handles at the same time
    OneArchivePerSecond,  \* are no two archives written in one second?
    MaxTime, MaxRows, MaxRequests, MaxFaults
                          \* bounds; MaxRows: rows written, of each table

ASSUME BoundAssumption ==
    /\ MaxTime \in Nat /\ MaxRequests \in Nat /\ MaxFaults \in Nat
    /\ MaxRows \in [Tables -> Nat]

By == {"nothing", "trigger_id", "module"}

ASSUME TableAssumption ==
    Numbered \subseteq Tables /\ KeysOf \in [Tables -> SUBSET Keys]
ASSUME DateAssumption ==
    /\ DayLength \in Nat \ {0}
    /\ Befores \subseteq Nat
    /\ Filters \subseteq [from : Nat \union {-1}, to : Nat, by : By, key : Keys]

DayOf(at) == at \div DayLength

\* A row without a date (read as "" by the code) is older than every other.
Undated == -1

\* The JSON cell of a row: an object or list, or a text that an archive made of
\* it.  "plain" stands for the columns of a table without a JSON one: they
\* survive the way there and back.
Cells == {"object", "text", "plain"}

CellOf(t) == IF t \in Numbered THEN "object" ELSE "plain"

\* Mutant: whatever is read from an archive is stored as a JSON string.
FromArchiveBlindly(cell) == "text"

\* DataFrame.to_csv writes str(cell), read_csv with dtype=str reads a text, and
\* insert stores a text in a JSON column as a JSON string.
FromArchive(cell) == IF cell = "plain" THEN "plain" ELSE "text"

\* The place of a line in its file, and the first rows of one.
Rank(file, l) == Cardinality({m \in DOMAIN file : m <= l})

FirstRows(file, n) == Restrict(file, {l \in DOMAIN file : Rank(file, l) <= n})

Size(file) == Cardinality(DOMAIN file)

NoRows == [l \in {} |-> 0]

VARIABLES
    store,       \* table -> its file
    lastId,      \* table -> the last surrogate id given out
    made,        \* table -> rows made by runs and schedules
    running,     \* the rows of triggers that runs will close
    archives,    \* file name -> file
    audit,       \* table -> rows deleted and restored, according to event_log
    now,
    pc, req, sel,\* per client: where it is, its request, the rows it selected
    count,       \* per client: what the storage call returned
    requests, faults

tables == <<store, lastId, made, running>>
clients == <<pc, req, sel, count>>
vars == <<tables, archives, audit, now, clients, requests, faults>>

NoRequest == [kind |-> "none"]

Init ==
    /\ store = [t \in Tables |-> NoRows]
    /\ lastId = [t \in Tables |-> 0]
    /\ made = [t \in Tables |-> 0]
    /\ running = {}
    /\ archives = [n \in {} |-> NoRows]
    /\ audit = [t \in Tables |-> [deleted |-> 0, restored |-> 0]]
    /\ now = 0
    /\ pc = [c \in Clients |-> "idle"]
    /\ req = [c \in Clients |-> NoRequest]
    /\ sel = [c \in Clients |-> NoRows]
    /\ count = [c \in Clients |-> 0]
    /\ requests = 0
    /\ faults = 0

Fault == faults < MaxFaults /\ faults' = faults + 1

-----------------------------------------------------------------------------
(* What runs and schedules write meanwhile. *)

First(S) == CHOOSE i \in S : \A j \in S : i <= j

\* A new row, written at the end: no line has a number above the last id.
Make(t, k, at) ==
    LET line == lastId[t] + 1
        row == [id |-> lastId[t] + 1, key |-> k, at |-> at, cell |-> CellOf(t),
                orig |-> made[t] + 1]
    IN
    /\ made' = [made EXCEPT ![t] = @ + 1]
    /\ lastId' = [lastId EXCEPT ![t] = @ + 1]
    /\ store' = [store EXCEPT ![t] =
         [l \in DOMAIN @ \union {line} |-> IF l = line THEN row ELSE @[l]]]

Lines(t, k) == {i \in DOMAIN store[t] : store[t][i].key = k}

KeyIsNew(t, k) ==
    /\ Lines(t, k) = {}
    /\ \A n \in DOMAIN archives : \A i \in DOMAIN archives[n] : archives[n][i].key # k

\* _open_trigger.
OpenTrigger(t, k) ==
    /\ t \in Numbered
    /\ made[t] < MaxRows[t]
    /\ KeyIsNew(t, k) /\ <<t, k>> \notin running
    /\ Make(t, k, now)
    /\ running' = running \union {<<t, k>>}
    /\ UNCHANGED <<archives, audit, now, clients, requests, faults>>

\* _close_trigger: an upsert that names no created_at.
CloseTrigger(t, k) ==
    /\ <<t, k>> \in running
    /\ running' = running \ {<<t, k>>}
    /\ IF Lines(t, k) # {}
       THEN /\ store' = [store EXCEPT ![t][First(Lines(t, k))].cell = CellOf(t)]
            /\ UNCHANGED <<lastId, made>>
       ELSE Make(t, k, Undated)
    /\ UNCHANGED <<archives, audit, now, clients, requests, faults>>

\* apply: an upsert that names updated_at.
Schedule(t, k) ==
    /\ t \notin Numbered
    /\ IF Lines(t, k) # {}
       THEN /\ store[t][First(Lines(t, k))].at # now
            /\ store' = [store EXCEPT ![t][First(Lines(t, k))].at = now]
            /\ UNCHANGED <<lastId, made>>
       ELSE made[t] < MaxRows[t] /\ Make(t, k, now)
    /\ UNCHANGED <<running, archives, audit, now, clients, requests, faults>>

Tick ==
    /\ now < MaxTime
    /\ now' = now + 1
    /\ UNCHANGED <<tables, archives, audit, clients, requests, faults>>

-----------------------------------------------------------------------------
(* Requests: what is selected. *)

\* _select: dates, and the columns the table has; the upper date is a day, and
\* no lower date is Undated.
Matches(t, f, r) ==
    /\ r.at >= f.from
    /\ DayOf(r.at) <= f.to
    /\ f.by # "nothing" /\ t \in Numbered => r.key = f.key

Begin(c, r, rows, next) ==
    /\ pc[c] = "idle"
    /\ requests < MaxRequests
    /\ requests' = requests + 1
    /\ pc' = [pc EXCEPT ![c] = next]
    /\ req' = [req EXCEPT ![c] = IF next = "idle" THEN NoRequest ELSE r]
    /\ sel' = [sel EXCEPT ![c] = IF next = "idle" THEN NoRows ELSE rows]
    /\ UNCHANGED <<tables, archives, audit, now, count, faults>>

Delete(c, t, f) ==
    Begin(c, [kind |-> "delete", table |-> t, filter |-> f],
          Restrict(store[t], {l \in DOMAIN store[t] : Matches(t, f, store[t][l])}),
          "remove")

\* Without old rows there is nothing to do.
Archive(c, t, before) ==
    LET old == {l \in DOMAIN store[t] : store[t][l].at < before} IN
    Begin(c, [kind |-> "archive", table |-> t, before |-> before],
          Restrict(store[t], old), IF old = {} THEN "idle" ELSE "file")

Restore(c, name) ==
    Begin(c, [kind |-> "restore", table |-> name.table, file |-> name],
          archives[name], "insert")

-----------------------------------------------------------------------------
(* Requests: what is done with it. *)

\* The name has the day of before, and the second.
ArchiveName(c) ==
    [table |-> req[c].table, before |-> DayOf(req[c].before), ts |-> now]

WriteFile(c, rows) ==
    archives' = [n \in DOMAIN archives \union {ArchiveName(c)} |->
                   IF n = ArchiveName(c) THEN rows ELSE archives[n]]

\* The second is over when the next archive is written, if there is one at most.
PassSecond == now' = IF OneArchivePerSecond THEN now + 1 ELSE now

WriteArchive(c) ==
    /\ pc[c] = "file"
    /\ WriteFile(c, sel[c])
    /\ PassSecond
    /\ pc' = [pc EXCEPT ![c] = "remove"]
    /\ UNCHANGED <<tables, audit, req, sel, count, requests, faults>>

Among(field, r, file) == \E l \in DOMAIN file : file[l][field] = r[field]

\* Mutant: the rows are found again by their date.
DoomedByDate(c, r) ==
    IF req[c].kind = "archive" THEN r.at < req[c].before
    ELSE Matches(req[c].table, req[c].filter, r)

\* The filter given to storage.delete.  Rows with an id are deleted by it.
\* A table without one is archived by its key; a delete of it only looks at the
\* module asked for, a column no such table has, and at nothing else.
Doomed(c, r) ==
    IF req[c].table \in Numbered THEN Among("id", r, sel[c])
    ELSE IF req[c].kind = "archive" THEN Among("key", r, sel[c])
    ELSE req[c].filter.by # "module"

Kept(c) ==
    LET file == store[req[c].table] IN
    Restrict(file, {l \in DOMAIN file : ~Doomed(c, file[l])})

\* Mutant: the rows selected are taken for the rows deleted.
DeletedCountSelected(c) == Size(sel[c])

\* What storage.delete returns.
DeletedCount(c) == Size(store[req[c].table]) - Size(Kept(c))

Remove(c) ==
    /\ pc[c] = "remove"
    /\ store' = [store EXCEPT ![req[c].table] = Kept(c)]
    /\ count' = [count EXCEPT ![c] = DeletedCount(c)]
    /\ pc' = [pc EXCEPT ![c] = "record"]
    /\ UNCHANGED <<lastId, made, running, archives, audit, now, req, sel, requests, faults>>

\* The id, and the line, that insert gives a row of the file.
NewId(c, l) == lastId[req[c].table] + Rank(sel[c], l)

\* Mutant: a row keeps the id it was archived with.
RestoredKeepingId(c, l) ==
    [sel[c][l] EXCEPT !.cell = FromArchive(@)]

\* A row of the file as insert stores it, with a new id.
Restored(c, l) ==
    [sel[c][l] EXCEPT !.id = NewId(c, l), !.cell = FromArchive(@)]

\* The first n rows are stored; the ids of all are used up.
InsertFirst(c, n) ==
    LET lines == DOMAIN FirstRows(sel[c], n) IN
    /\ store' = [store EXCEPT ![req[c].table] =
         [m \in DOMAIN @ \union {NewId(c, l) : l \in lines} |->
            IF m \in DOMAIN @ THEN @[m]
            ELSE Restored(c, CHOOSE l \in lines : NewId(c, l) = m)]]
    /\ lastId' = [lastId EXCEPT ![req[c].table] = @ + Size(sel[c])]
    /\ UNCHANGED <<made, running>>

\* insert returns the ids: none if the table has no id.
InsertRestored(c) ==
    /\ pc[c] = "insert"
    /\ InsertFirst(c, Size(sel[c]))
    /\ count' = [count EXCEPT ![c] = IF req[c].table \in Numbered THEN Size(sel[c]) ELSE 0]
    /\ pc' = [pc EXCEPT ![c] = "record"]
    /\ UNCHANGED <<archives, audit, now, req, sel, requests, faults>>

Forget(C) ==
    /\ pc' = [c \in Clients |-> IF c \in C THEN "idle" ELSE pc[c]]
    /\ req' = [c \in Clients |-> IF c \in C THEN NoRequest ELSE req[c]]
    /\ sel' = [c \in Clients |-> IF c \in C THEN NoRows ELSE sel[c]]
    /\ count' = [c \in Clients |-> IF c \in C THEN 0 ELSE count[c]]

AuditField(c) == IF req[c].kind = "restore" THEN "restored" ELSE "deleted"

\* record_event swallows its own failures.
Record(c) ==
    /\ pc[c] = "record"
    /\ \/ audit' = [audit EXCEPT ![req[c].table][AuditField(c)] = @ + count[c]]
          /\ UNCHANGED faults
       \/ Fault /\ UNCHANGED audit
    /\ Forget({c})
    /\ UNCHANGED <<tables, archives, now, requests>>

-----------------------------------------------------------------------------
(* Failures. *)

\* A request of some client of C stops halfway through a file or an insert.
CutShort(C) ==
    \/ UNCHANGED <<tables, archives, now>>
    \/ \E c \in C, n \in 0..2 :
         \/ /\ pc[c] = "file" /\ n < Size(sel[c])
            /\ WriteFile(c, FirstRows(sel[c], n))
            /\ PassSecond
            /\ UNCHANGED tables
         \/ /\ pc[c] = "insert" /\ n < Size(sel[c])
            /\ InsertFirst(c, n)
            /\ UNCHANGED <<archives, now>>

\* Writing the file or a storage call raises: the client gets an error.
Fail(c) ==
    /\ pc[c] \in {"file", "remove", "insert"}
    /\ Fault
    /\ CutShort({c})
    /\ Forget({c})
    /\ UNCHANGED <<audit, requests>>

\* The server dies.
Crash ==
    /\ \E c \in Clients : pc[c] # "idle"
    /\ Fault
    /\ CutShort(Clients)
    /\ Forget(Clients)
    /\ UNCHANGED <<audit, requests>>

\* No request is left to make, none is in progress.
Finished ==
    /\ requests = MaxRequests
    /\ \A c \in Clients : pc[c] = "idle"
    /\ UNCHANGED vars

Next ==
    \/ \E t \in Tables : \E k \in KeysOf[t] :
         OpenTrigger(t, k) \/ CloseTrigger(t, k) \/ Schedule(t, k)
    \/ Tick
    \/ \E c \in Clients :
         \/ \E t \in Tables :
              \/ \E f \in Filters : Delete(c, t, f)
              \/ \E before \in Befores : Archive(c, t, before)
         \/ \E name \in DOMAIN archives : Restore(c, name)
         \/ WriteArchive(c)
         \/ Remove(c)
         \/ InsertRestored(c)
         \/ Record(c)
         \/ Fail(c)
    \/ Crash
    \/ Finished

Spec == Init /\ [][Next]_vars

-----------------------------------------------------------------------------
(* Properties. *)

Row == [id : Nat \ {0}, key : Keys, at : Nat \union {Undated}, cell : Cells, orig : Nat \ {0}]

IsFile(file) ==
    /\ DOMAIN file \subseteq Nat \ {0} /\ IsFiniteSet(DOMAIN file)
    /\ \A l \in DOMAIN file : file[l] \in Row

\* Every variable has its type, and a table that has no JSON column no JSON.
TypeOK ==
    /\ DOMAIN store = Tables /\ \A t \in Tables : IsFile(store[t])
    /\ lastId \in [Tables -> Nat] /\ made \in [Tables -> Nat]
    /\ running \subseteq Numbered \X Keys
    /\ DOMAIN archives \subseteq [table : Tables, before : Nat, ts : Nat]
    /\ \A n \in DOMAIN archives : IsFile(archives[n])
    /\ \A t \in Tables \ Numbered : \A i \in DOMAIN store[t] : store[t][i].cell = "plain"
    /\ audit \in [Tables -> [deleted : Nat, restored : Nat]]
    /\ now \in Nat
    /\ pc \in [Clients -> {"idle", "file", "remove", "insert", "record"}]
    /\ \A c \in Clients : pc[c] # "idle" => req[c].table \in Tables
    /\ DOMAIN sel = Clients /\ \A c \in Clients : IsFile(sel[c])
    /\ count \in [Clients -> Nat]
    /\ requests \in Nat /\ faults \in Nat

Origs(file) == {file[l].orig : l \in DOMAIN file}
Archived(t) ==
    UNION {Origs(archives[n]) : n \in {m \in DOMAIN archives : m.table = t}}

\* A delete in progress asks for the rows that came from write n.
AskedToGo(t, n) ==
    \E c \in Clients :
      /\ pc[c] = "remove" /\ req[c].kind = "delete" /\ req[c].table = t
      /\ n \in Origs(sel[c])

KeepsRows(t) ==
    \A n \in Origs(store[t]) \union Archived(t) :
      n \in Origs(store[t])' \union Archived(t)' \/ AskedToGo(t, n)

\* "Move rows older than before to an archive" (exporting.py:157): a row of a
\* table with ids leaves store and archives for good only if a delete found it
\* to match, whatever is written, archived, restored or lost meanwhile.
RowsKept == [][\A t \in Numbered : KeepsRows(t)]_vars

\* The same of every table: "Delete matching rows" (exporting.py:127).
OnlyMatchingDeleted == [][\A t \in Tables : KeepsRows(t)]_vars

\* "Deletes and archives are always logged" (exporting.py:4-5): when no request
\* is in progress, and none has failed, the log accounts for every row of a
\* table with ids, although concurrent requests select the same rows.
AuditAddsUp ==
    faults = 0 /\ (\A c \in Clients : pc[c] = "idle") =>
      \A t \in Numbered :
        Size(store[t]) = made[t] + audit[t].restored - audit[t].deleted

\* However often rows are archived and restored, no id is there twice, and
\* none is above the last one given out (exporting.py:218-219).
IdsStayUnique ==
    \A t \in Numbered :
      /\ \A l, m \in DOMAIN store[t] : l < m => store[t][l].id < store[t][m].id
      /\ \A l \in DOMAIN store[t] : store[t][l].id <= lastId[t]

\* A JSON column holds JSON values (core/storage/base.py:8), after a restore
\* too: "Re-insert rows from an archive CSV back into its table"
\* (exporting.py:209).
CellsKeepTheirType ==
    \A t \in Tables : \A i \in DOMAIN store[t] : store[t][i].cell = CellOf(t)

=============================================================================
