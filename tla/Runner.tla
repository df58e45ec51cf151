------------------------------- MODULE Runner -------------------------------
(***************************************************************************)
(* PdM runs (core/runner.py) on the worker threads of the server: requests *)
(* are queued for the pool of manual runs (webapp/background.py) or fired  *)
(* by the automation (core/scheduler.py), and every run writes trigger_log,*)
(* pdm_run, component_health, panel_catalog and event_log.                 *)
(*                                                                         *)
(* A storage call is one step here, as AtomicTable promises; one that      *)
(* fails has no effect, except that an insert may leave its first rows.    *)
(* What a module measures is abstracted to how its fetch and its scoring   *)
(* end and to how many components it scores.                               *)
(***************************************************************************)
EXTENDS Integers, Sequences, FiniteSets

CONSTANTS
    Modules,                \* registered module names
    Registry,               \* the same, each once, in order of registration
    Configured,             \* those with dashboard URLs in .env
    Unknown,                \* scopes that name no registered module
    All,                    \* the scope of run_all
    ManualWorkers,          \* webapp.background._executor
    AutoWorkers,            \* the executor of the automation scheduler
    Counts,                 \* how many components a module may score
    Asked,                  \* the scopes clients and schedules ask for
    MaxRequests,            \* bound: requests made
    MaxFaults,              \* bound: storage failures and crashes
    StorageMayFail, MayCrash

ASSUME RegistryAssumption ==
    /\ Registry \in Seq(Modules)
    /\ \A m \in Modules : \E i \in DOMAIN Registry : Registry[i] = m
    /\ \A i, j \in DOMAIN Registry : Registry[i] = Registry[j] => i = j
    /\ Configured \subseteq Modules
    /\ Unknown \intersect Modules = {}
    /\ All \notin Modules \union Unknown
    /\ Asked \subseteq {All} \union Modules \union Unknown
ASSUME WorkerAssumption == ManualWorkers \intersect AutoWorkers = {}
ASSUME BoundAssumption == Counts \subseteq Nat /\ MaxRequests \in Nat /\ MaxFaults \in Nat

Workers == ManualWorkers \union AutoWorkers
Scopes == {All} \union Modules \union Unknown
Trigger == 1..MaxRequests

\* run_all takes the configured modules, or all of them if none is.
Planned(scope) ==
    IF scope # All THEN {scope}
    ELSE IF Configured = {} THEN Modules ELSE Configured

VARIABLES
    asked,              \* trigger id -> scope asked for, for every id given out
    queue,              \* requests waiting for a manual worker
    pc, job, cur,       \* per worker: where it is, its trigger, its module run
    trigger_log,        \* trigger id -> row
    pdm_run,            \* rows, keyed by run_uid
    component_health,   \* rows
    panel_catalog,      \* modules whose panels are catalogued
    raw,                \* run_uids with a directory of raw data
    event_log,          \* triggers whose end is recorded
    uids,               \* run_uids given out
    faults

tables == <<trigger_log, pdm_run, component_health, panel_catalog, raw, event_log>>
vars == <<asked, queue, pc, job, cur, tables, uids, faults>>

NoJob == [tid |-> 0, scope |-> All, todo |-> {}, results |-> {}]
NoRun == [uid |-> 0, module |-> All, status |-> "success", scored |-> 0]

Init ==
    /\ asked = <<>>
    /\ queue = <<>>
    /\ pc = [w \in Workers |-> "free"]
    /\ job = [w \in Workers |-> NoJob]
    /\ cur = [w \in Workers |-> NoRun]
    /\ trigger_log = [tid \in {} |-> 0]
    /\ pdm_run = {}
    /\ component_health = {}
    /\ panel_catalog = {}
    /\ raw = {}
    /\ event_log = {}
    /\ uids = 0
    /\ faults = 0

Goto(w, from, to) == pc[w] = from /\ pc' = [pc EXCEPT ![w] = to]

Fault == faults < MaxFaults /\ faults' = faults + 1

StorageFault == StorageMayFail /\ Fault

-----------------------------------------------------------------------------
(* Requests. *)

\* A trigger id is new: make_trigger_id.
NewTrigger(scope) ==
    /\ Len(asked) < MaxRequests
    /\ asked' = Append(asked, scope)

\* submit_run: the client has the trigger id before anything runs.
Submit(scope) ==
    /\ NewTrigger(scope)
    /\ queue' = Append(queue, Len(asked'))
    /\ UNCHANGED <<pc, job, cur, tables, uids, faults>>

\* run_modules looks the modules up before it opens the trigger: a name that
\* is not registered ends the run there, and _safe or _fire drops the error.
Begin(w, tid, scope) ==
    IF scope \in Unknown
    THEN UNCHANGED <<pc, job>>
    ELSE /\ Goto(w, "free", "open")
         /\ job' = [job EXCEPT ![w] =
              [tid |-> tid, scope |-> scope, todo |-> Planned(scope), results |-> {}]]

TakeRequest(w) ==
    /\ w \in ManualWorkers
    /\ pc[w] = "free"
    /\ queue # <<>>
    /\ queue' = Tail(queue)
    /\ Begin(w, Head(queue), asked[Head(queue)])
    /\ UNCHANGED <<asked, cur, tables, uids, faults>>

\* _fire; max_instances = 1 keeps a scope from overlapping itself.
Fire(w, scope) ==
    /\ w \in AutoWorkers
    /\ pc[w] = "free"
    /\ \A v \in AutoWorkers : pc[v] # "free" => job[v].scope # scope
    /\ NewTrigger(scope)
    /\ Begin(w, Len(asked'), scope)
    /\ UNCHANGED <<queue, cur, tables, uids, faults>>

Leave(w) ==
    /\ pc' = [pc EXCEPT ![w] = "free"]
    /\ job' = [job EXCEPT ![w] = NoJob]
    /\ cur' = [cur EXCEPT ![w] = NoRun]

-----------------------------------------------------------------------------
(* The trigger. *)

OpenTrigger(w) ==
    /\ Goto(w, "open", "session")
    /\ trigger_log' = [tid \in DOMAIN trigger_log \union {job[w].tid} |->
         IF tid = job[w].tid
         THEN [status |-> "running", success |-> 0, failure |-> 0, results |-> {}]
         ELSE trigger_log[tid]]
    /\ UNCHANGED <<asked, queue, job, cur, pdm_run, component_health,
                   panel_catalog, raw, event_log, uids, faults>>

\* The row cannot be stored: the run ends, and _safe or _fire drops the error.
OpenTriggerFails(w) ==
    /\ StorageFault
    /\ pc[w] = "open"
    /\ Leave(w)
    /\ UNCHANGED <<asked, queue, tables, uids>>

OpenSession(w) ==
    /\ Goto(w, "session", "next")
    /\ UNCHANGED <<asked, queue, job, cur, tables, uids, faults>>

Result(m, uid, status) == [module |-> m, uid |-> uid, status |-> status]

\* Mutant: every planned module is reported failed, those that were done too.
AbandonAll(w) ==
    /\ job' = [job EXCEPT ![w].todo = {}, ![w].results = @ \union
         {Result(m, 0, "failed") : m \in Planned(job[w].scope)}]
    /\ cur' = [cur EXCEPT ![w] = NoRun]
    /\ pc' = [pc EXCEPT ![w] = "close"]

\* Every planned module without a result has failed, with no run_uid.
Abandon(w) ==
    /\ job' = [job EXCEPT ![w].todo = {}, ![w].results = @ \union
         {Result(m, 0, "failed") :
            m \in Planned(job[w].scope) \ {r.module : r \in job[w].results}}]
    /\ cur' = [cur EXCEPT ![w] = NoRun]
    /\ pc' = [pc EXCEPT ![w] = "close"]

\* Mutant: the error leaves run_modules instead of being recorded.
SessionFailsSilently(w) ==
    /\ pc[w] = "session"
    /\ Leave(w)
    /\ UNCHANGED <<asked, queue, tables, uids, faults>>

\* Playwright, the login or the verification fails.
SessionFails(w) ==
    /\ pc[w] = "session"
    /\ Abandon(w)
    /\ UNCHANGED <<asked, queue, tables, uids, faults>>

Successes(results) == Cardinality({r \in results : r.status = "success"})
Failures(results) == Cardinality({r \in results : r.status # "success"})

\* Mutant: one success is enough.
OutcomeGenerous(results) == IF Successes(results) > 0 THEN "success" ELSE "failed"

Outcome(results) ==
    IF Failures(results) = 0 THEN "success"
    ELSE IF Successes(results) > 0 THEN "partial" ELSE "failed"

CloseTrigger(w) ==
    /\ Goto(w, "close", "event")
    /\ trigger_log' = [trigger_log EXCEPT ![job[w].tid] =
         [status |-> Outcome(job[w].results), success |-> Successes(job[w].results),
          failure |-> Failures(job[w].results), results |-> job[w].results]]
    /\ UNCHANGED <<asked, queue, job, cur, pdm_run, component_health,
                   panel_catalog, raw, event_log, uids, faults>>

CloseTriggerFails(w) ==
    /\ StorageFault
    /\ pc[w] = "close"
    /\ Leave(w)
    /\ UNCHANGED <<asked, queue, tables, uids>>

\* record_event swallows its own failures.
RecordEvent(w) ==
    /\ pc[w] = "event"
    /\ \/ event_log' = event_log \union {job[w].tid} /\ UNCHANGED faults
       \/ StorageFault /\ UNCHANGED event_log
    /\ Leave(w)
    /\ UNCHANGED <<asked, queue, trigger_log, pdm_run, component_health,
                   panel_catalog, raw, uids>>

-----------------------------------------------------------------------------
(* One module: _execute_module. *)

\* Mutant: the trigger is not closed.
NoMoreModulesForgets(w) ==
    /\ Goto(w, "next", "event")
    /\ job[w].todo = {}
    /\ UNCHANGED <<asked, queue, job, cur, tables, uids, faults>>

\* Mutant: the runs of one trigger share its id.
RunUidOfTrigger(w) == job[w].tid

\* new_uid
RunUid(w) == uids + 1

\* No module is left: the session closes.
NoMoreModules(w) ==
    /\ Goto(w, "next", "close")
    /\ job[w].todo = {}
    /\ UNCHANGED <<asked, queue, job, cur, tables, uids, faults>>

\* The modules of a run are taken in order of registration.
NextModule(w) ==
    \E i \in DOMAIN Registry :
      LET m == Registry[i] IN
      /\ m \in job[w].todo
      /\ \A j \in 1..(i - 1) : Registry[j] \notin job[w].todo
      /\ Goto(w, "next", IF m \in Configured THEN "fetch" ELSE "record")
      /\ uids' = uids + 1
      /\ cur' = [cur EXCEPT ![w] =
           [uid |-> RunUid(w), module |-> m, scored |-> 0,
            status |-> IF m \in Configured THEN "success" ELSE "failed"]]
      /\ job' = [job EXCEPT ![w].todo = @ \ {m}]
      /\ UNCHANGED <<asked, queue, tables, faults>>

\* The panels and the raw frames are stored as far as possible: a failure to
\* store one or the other is logged and dropped.
Fetch(w) ==
    LET panels == panel_catalog \union {cur[w].module}
        frames == raw \union {cur[w].uid}
    IN
    /\ Goto(w, "fetch", "score")
    /\ \/ panel_catalog' = panels /\ raw' = frames /\ UNCHANGED faults
       \/ /\ StorageFault
          /\ \/ panel_catalog' = panels /\ raw' = raw
             \/ panel_catalog' = panel_catalog /\ raw' \in {raw, frames}
    /\ UNCHANGED <<asked, queue, job, cur, trigger_log, pdm_run,
                   component_health, event_log, uids>>

\* Mutant: the first module that fails ends the run.
ModuleFailsForAll(w) ==
    /\ pc[w] \in {"fetch", "score"}
    /\ pc' = [pc EXCEPT ![w] = "record"]
    /\ cur' = [cur EXCEPT ![w].status = "failed"]
    /\ job' = [job EXCEPT ![w].todo = {}]
    /\ UNCHANGED <<asked, queue, tables, uids, faults>>

\* The fetch, the features or the scoring raises: the module failed, and the
\* run goes on to record that.
ModuleFails(w) ==
    /\ pc[w] \in {"fetch", "score"}
    /\ pc' = [pc EXCEPT ![w] = "record"]
    /\ cur' = [cur EXCEPT ![w].status = "failed"]
    /\ UNCHANGED <<asked, queue, job, tables, uids, faults>>

Score(w) ==
    /\ Goto(w, "score", "record")
    /\ \E n \in Counts : cur' = [cur EXCEPT ![w].scored = n]
    /\ UNCHANGED <<asked, queue, job, tables, uids, faults>>

\* Mutant: only successes are reported.
ReportSuccess(w) ==
    /\ job' = [job EXCEPT ![w].results = @ \union
         IF cur[w].status = "success"
         THEN {Result(cur[w].module, cur[w].uid, cur[w].status)} ELSE {}]
    /\ cur' = [cur EXCEPT ![w] = NoRun]

\* The module is done: its result joins those of the trigger.
Report(w) ==
    /\ job' = [job EXCEPT ![w].results = @ \union
         {Result(cur[w].module, cur[w].uid, cur[w].status)}]
    /\ cur' = [cur EXCEPT ![w] = NoRun]

\* Mutant: a run with components leaves its own row for later.
RecordRunLate(w) ==
    /\ pc[w] = "record"
    /\ IF cur[w].scored = 0
       THEN /\ pdm_run' = pdm_run \union
                 {[uid |-> cur[w].uid, module |-> cur[w].module, tid |-> job[w].tid,
                   status |-> cur[w].status, scored |-> 0]}
            /\ Report(w)
            /\ pc' = [pc EXCEPT ![w] = "next"]
       ELSE UNCHANGED <<pdm_run, job, cur>> /\ pc' = [pc EXCEPT ![w] = "components"]
    /\ UNCHANGED <<asked, queue, trigger_log, component_health, panel_catalog,
                   raw, event_log, uids, faults>>

RecordRun(w) ==
    /\ pc[w] = "record"
    /\ pdm_run' = pdm_run \union
         {[uid |-> cur[w].uid, module |-> cur[w].module, tid |-> job[w].tid,
           status |-> cur[w].status, scored |-> cur[w].scored]}
    /\ IF cur[w].scored = 0
       THEN Report(w) /\ pc' = [pc EXCEPT ![w] = "next"]
       ELSE UNCHANGED <<job, cur>> /\ pc' = [pc EXCEPT ![w] = "components"]
    /\ UNCHANGED <<asked, queue, trigger_log, component_health, panel_catalog,
                   raw, event_log, uids, faults>>

\* Mutant: components are counted from zero.
HealthRowsFromZero(r, n) ==
    {[uid |-> r.uid, module |-> r.module, component |-> i] : i \in 0..n}

\* The first n of the rows of a run.
HealthRows(r, n) ==
    {[uid |-> r.uid, module |-> r.module, component |-> i] : i \in 1..n}

RecordComponents(w) ==
    /\ Goto(w, "components", "next")
    /\ component_health' = component_health \union HealthRows(cur[w], cur[w].scored)
    /\ Report(w)
    /\ UNCHANGED <<asked, queue, trigger_log, pdm_run, panel_catalog, raw,
                   event_log, uids, faults>>

\* An insert by some worker of W is cut short.
CutShort(W) ==
    \/ UNCHANGED component_health
    \/ \E w \in W :
         /\ pc[w] = "components"
         /\ \E n \in 1..(cur[w].scored - 1) :
              component_health' = component_health \union HealthRows(cur[w], n)

\* A storage error inside the session ends it: what was not done has failed.
RecordFails(w) ==
    /\ StorageFault
    /\ pc[w] \in {"record", "components"}
    /\ CutShort({w})
    /\ Abandon(w)
    /\ UNCHANGED <<asked, queue, trigger_log, pdm_run, panel_catalog, raw,
                   event_log, uids>>

-----------------------------------------------------------------------------

\* The server dies and is started again: nothing resumes its runs.
Crash ==
    /\ MayCrash
    /\ Fault
    /\ queue # <<>> \/ \E w \in Workers : pc[w] # "free"
    /\ CutShort(Workers)
    /\ queue' = <<>>
    /\ pc' = [w \in Workers |-> "free"]
    /\ job' = [w \in Workers |-> NoJob]
    /\ cur' = [w \in Workers |-> NoRun]
    /\ UNCHANGED <<asked, trigger_log, pdm_run, panel_catalog, raw, event_log, uids>>

Step(w) ==
    \/ TakeRequest(w)
    \/ OpenTrigger(w)
    \/ OpenSession(w)
    \/ SessionFails(w)
    \/ NoMoreModules(w)
    \/ NextModule(w)
    \/ Fetch(w)
    \/ ModuleFails(w)
    \/ Score(w)
    \/ RecordRun(w)
    \/ RecordComponents(w)
    \/ CloseTrigger(w)
    \/ RecordEvent(w)

\* Nothing is left to do.
Finished ==
    /\ Len(asked) = MaxRequests
    /\ queue = <<>>
    /\ \A w \in Workers : pc[w] = "free"
    /\ UNCHANGED vars

Next ==
    \/ \E scope \in Asked : Submit(scope)
    \/ \E w \in Workers :
         \/ \E scope \in Asked : Fire(w, scope)
         \/ Step(w)
         \/ OpenTriggerFails(w)
         \/ RecordFails(w)
         \/ CloseTriggerFails(w)
    \/ Crash
    \/ Finished

Spec == Init /\ [][Next]_vars

\* The pools keep their threads running, and every call to Grafana times out.
Fairness == \A w \in Workers : WF_vars(Step(w))

FairSpec == Spec /\ Fairness

-----------------------------------------------------------------------------
(* Properties. *)

Closed == {tid \in DOMAIN trigger_log : trigger_log[tid].status # "running"}

RunOf(uid) == {r \in pdm_run : r.uid = uid}

RowsOf(uid) == {c \in component_health : c.uid = uid}

Statuses == {"success", "partial", "failed"}
ResultType == [module : Modules, uid : Nat, status : {"success", "failed"}]
RunType == [uid : Nat \ {0}, module : Modules, tid : Trigger,
            status : {"success", "failed"}, scored : Nat]
Labels == {"free", "open", "session", "next", "fetch", "score", "record",
           "components", "close", "event"}

\* Every variable has its type.
TypeOK ==
    /\ asked \in Seq(Scopes) /\ Len(asked) <= MaxRequests
    /\ queue \in Seq(Trigger)
    /\ pc \in [Workers -> Labels]
    /\ job \in [Workers -> [tid : 0..MaxRequests, scope : Scopes,
                            todo : SUBSET Modules, results : SUBSET ResultType]]
    /\ cur \in [Workers -> [uid : Nat, module : Modules \union {All},
                            status : {"success", "failed"},
                            scored : Nat]]
    /\ DOMAIN trigger_log \subseteq Trigger
    /\ \A tid \in DOMAIN trigger_log :
         trigger_log[tid] \in [status : Statuses \union {"running"},
                               success : Nat, failure : Nat,
                               results : SUBSET ResultType]
    /\ pdm_run \subseteq RunType
    /\ component_health \subseteq [uid : Nat \ {0}, module : Modules,
                                   component : Nat \ {0}]
    /\ panel_catalog \subseteq Modules
    /\ raw \subseteq Nat
    /\ event_log \subseteq Trigger
    /\ uids \in Nat /\ faults \in Nat

\* Every component row belongs to exactly one run, of its module, that
\* succeeded and counts it: whatever fails or dies in between, the store never
\* holds a health value without the run that explains it (runner.py:169-212).
NoOrphanRows ==
    \A c \in component_health :
        \E r \in pdm_run :
            /\ RunOf(c.uid) = {r}
            /\ r.module = c.module
            /\ r.status = "success"
            /\ c.component <= r.scored

\* What a closed trigger reports is in the store: each run it names is there,
\* of that trigger, with that module and status and with all its component
\* rows, and the counts are those of the modules it was to run.
ReportsAreStored ==
    \A tid \in Closed :
        LET row == trigger_log[tid] IN
        /\ row.success + row.failure = Cardinality(Planned(asked[tid]))
        /\ \A res \in row.results :
             res.uid # 0 =>
               \E r \in RunOf(res.uid) :
                 /\ r.tid = tid /\ r.module = res.module /\ r.status = res.status
                 /\ Cardinality(RowsOf(r.uid)) = r.scored

\* A trigger is a success only if every module it was to run has a complete
\* successful run of that trigger in the store.
SuccessIsComplete ==
    \A tid \in Closed :
        trigger_log[tid].status = "success" =>
          \A m \in Planned(asked[tid]) :
            \E r \in pdm_run :
              /\ r.tid = tid /\ r.module = m /\ r.status = "success"
              /\ Cardinality(RowsOf(r.uid)) = r.scored

\* Every stored run of a closed trigger is reported by it, with its status:
\* "every run is wrapped in a traceable trigger (trigger_log) with timing,
\* counts, and status" (runner.py:5-6).
AllRunsReported ==
    \A r \in pdm_run :
        r.tid \in Closed =>
          Result(r.module, r.uid, r.status) \in trigger_log[r.tid].results

\* A module that fails takes no other module down: once one module of a
\* trigger has run, all have a run of their own when the trigger closes.
ModulesAreIndependent ==
    \A tid \in Closed :
        LET ran == {r.module : r \in {q \in pdm_run : q.tid = tid}} IN
        ran # {} => ran = Planned(asked[tid])

\* A trigger shown as running is being worked on (trigger_log.status,
\* base.py:152; the client waits while it reads "running", app.js:61).
RunningMeansInProgress ==
    \A tid \in DOMAIN trigger_log \ Closed :
        \E w \in Workers : pc[w] # "free" /\ job[w].tid = tid

\* Concurrent triggers, later requests and restarts leave alone what a closed
\* trigger reported and every run already stored.
HistoryStands ==
    [][/\ \A tid \in Closed :
            tid \in DOMAIN trigger_log' /\ trigger_log'[tid] = trigger_log[tid]
       /\ \A r \in pdm_run :
            r \in pdm_run' /\ \A q \in pdm_run' : q.uid = r.uid => q = r]_vars

\* The client polls for a trigger id it was given until the trigger is closed
\* (background.py:3-6, docs/URL_MAP.md:94-95): it is, at last.
EveryRequestCloses ==
    \A tid \in Trigger : tid <= Len(asked) ~> tid \in Closed

=============================================================================
