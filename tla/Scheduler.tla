----------------------------- MODULE Scheduler -----------------------------
(***************************************************************************)
(* The automation (core/scheduler.py): the persisted schedule              *)
(* (automation_config) and the jobs of the in-process scheduler, changed   *)
(* by concurrent requests to POST /api/automation (webapp/api.py), rebuilt *)
(* when the server starts (webapp/main.py), submitted by its timers to a   *)
(* pool of threads and fired there.  What a firing runs is the subject of  *)
(* Runner; here it begins and ends.                                        *)
(***************************************************************************)
EXTENDS Integers, Sequences, FiniteSets

CONSTANTS
    Scopes,        \* "global" and module names
    Clients,       \* requests the server handles at the same time
    Intervals,     \* minutes a client may ask for
    Workers,       \* threads of the pool
    OneAtATime,    \* do clients leave a scope alone while one changes it?
    MaxChanges,    \* bound: changes asked for
    MaxStops       \* bound: failures, stops and crashes

ASSUME IntervalAssumption == Intervals \subseteq Int
ASSUME WorkersAssumption == Workers \in Nat \ {0}
ASSUME BoundAssumption == MaxChanges \in Nat /\ MaxStops \in Nat
ASSUME OneAtATimeAssumption == OneAtATime \in BOOLEAN

VARIABLES
    automation_config,   \* scope -> row; on disk
    jobs,                \* scope -> interval of its job; in memory
    server,              \* "down", "loading" its schedule, or "up"
    todo,                \* rows read at the start whose job is not added yet
    queue,               \* scopes whose firing waits for a worker, in order
    late,                \* those of them that found no free worker
    running,             \* scopes whose firing has begun
    pc, req,             \* per client: where apply is, and its arguments
    events,              \* scopes whose change is recorded in event_log
    changes, stops

pool == <<queue, late, running>>
memory == <<jobs, todo, pool>>
requests == <<pc, req>>
vars == <<automation_config, memory, server, requests, events, changes, stops>>

None == [s \in {} |-> 0]
Request == [scope : Scopes, enabled : BOOLEAN, interval : Intervals]
NoRequest == [scope |-> "", enabled |-> FALSE, interval |-> 0]

\* Mutant: the interval is taken as it comes.
AsAsked(n) == n

AtLeastOne(n) == IF n < 1 THEN 1 ELSE n

Enabled(s) == s \in DOMAIN automation_config /\ automation_config[s].enabled

Busy(s) == \E c \in Clients : pc[c] # "idle" /\ req[c].scope = s

InQueue == {queue[i] : i \in DOMAIN queue}

\* The scopes that have an instance: max_instances counts it from its
\* submission to the end of its run.
InPool == InQueue \union running

Put(f, s, v) == [x \in DOMAIN f \union {s} |-> IF x = s THEN v ELSE f[x]]
Remove(f, s) == [x \in DOMAIN f \ {s} |-> f[x]]

Init ==
    /\ automation_config = None
    /\ jobs = None
    /\ server = "down"
    /\ todo = None
    /\ queue = <<>>
    /\ late = {}
    /\ running = {}
    /\ pc = [c \in Clients |-> "idle"]
    /\ req = [c \in Clients |-> NoRequest]
    /\ events = {}
    /\ changes = 0
    /\ stops = 0

Stopping == stops < MaxStops /\ stops' = stops + 1

-----------------------------------------------------------------------------
(* Start and stop of the server. *)

\* Mutant: every persisted row gets its job back.
StartAll ==
    /\ server = "down"
    /\ InPool = {}
    /\ server' = "loading"
    /\ todo' = [s \in DOMAIN automation_config |-> automation_config[s].interval]
    /\ UNCHANGED <<automation_config, jobs, pool, requests, events, changes, stops>>

\* start: the timers run, and the enabled rows are read.  The process of the
\* previous server has ended, its jobs with it.
Start ==
    /\ server = "down"
    /\ InPool = {}
    /\ server' = "loading"
    /\ todo' = [s \in {x \in Scopes : Enabled(x)} |-> automation_config[s].interval]
    /\ UNCHANGED <<automation_config, jobs, pool, requests, events, changes, stops>>

Reload(s) ==
    /\ server = "loading"
    /\ s \in DOMAIN todo
    /\ jobs' = Put(jobs, s, AtLeastOne(todo[s]))
    /\ todo' = Remove(todo, s)
    /\ UNCHANGED <<automation_config, server, pool, requests, events, changes, stops>>

Serve ==
    /\ server = "loading"
    /\ todo = None
    /\ server' = "up"
    /\ UNCHANGED <<automation_config, memory, requests, events, changes, stops>>

\* shutdown(wait=False), once the requests are answered: what was submitted
\* still begins, and ends, on its own.
Stop ==
    /\ Stopping
    /\ server = "up"
    /\ \A c \in Clients : pc[c] = "idle"
    /\ server' = "down"
    /\ jobs' = None
    /\ UNCHANGED <<automation_config, todo, pool, requests, events, changes>>

Crash ==
    /\ Stopping
    /\ server # "down"
    /\ server' = "down"
    /\ jobs' = None
    /\ todo' = None
    /\ queue' = <<>>
    /\ late' = {}
    /\ running' = {}
    /\ pc' = [c \in Clients |-> "idle"]
    /\ req' = [c \in Clients |-> NoRequest]
    /\ UNCHANGED <<automation_config, events, changes>>

-----------------------------------------------------------------------------
(* apply. *)

Goto(c, from, to) == pc[c] = from /\ pc' = [pc EXCEPT ![c] = to]

Apply(c, r) ==
    /\ server = "up"
    /\ changes < MaxChanges
    /\ OneAtATime => ~Busy(r.scope)
    /\ Goto(c, "idle", "persist")
    /\ req' = [req EXCEPT ![c] = r]
    /\ changes' = changes + 1
    /\ UNCHANGED <<automation_config, memory, server, events, stops>>

\* The upsert, atomic as AtomicTable promises.
Persist(c) ==
    /\ Goto(c, "persist", "schedule")
    /\ automation_config' = Put(automation_config, req[c].scope,
         [enabled |-> req[c].enabled, interval |-> AtLeastOne(req[c].interval)])
    /\ UNCHANGED <<memory, server, req, events, changes, stops>>

Answer(c) ==
    /\ pc' = [pc EXCEPT ![c] = "idle"]
    /\ req' = [req EXCEPT ![c] = NoRequest]

PersistFails(c) ==
    /\ Stopping
    /\ pc[c] = "persist"
    /\ Answer(c)
    /\ UNCHANGED <<automation_config, memory, server, events, changes>>

\* Mutant: a disabled scope keeps its job.
ScheduleKeeping(c) ==
    /\ Goto(c, "schedule", "record")
    /\ jobs' = IF req[c].enabled
               THEN Put(jobs, req[c].scope, AtLeastOne(req[c].interval))
               ELSE jobs
    /\ UNCHANGED <<automation_config, todo, pool, server, req, events, changes, stops>>

\* The job is added or replaced, or removed if there is one.  A firing
\* submitted before stays in the pool.
Schedule(c) ==
    /\ Goto(c, "schedule", "record")
    /\ jobs' = IF req[c].enabled
               THEN Put(jobs, req[c].scope, AtLeastOne(req[c].interval))
               ELSE Remove(jobs, req[c].scope)
    /\ UNCHANGED <<automation_config, todo, pool, server, req, events, changes, stops>>

\* record_event swallows its failures; status_for only reads.
Record(c) ==
    /\ pc[c] = "record"
    /\ \/ events' = events \union {req[c].scope} /\ UNCHANGED stops
       \/ Stopping /\ UNCHANGED events
    /\ Answer(c)
    /\ UNCHANGED <<automation_config, memory, server, changes>>

-----------------------------------------------------------------------------
(* The timers and the pool. *)

\* When the time of a job comes it is submitted, unless its last firing is
\* still in the pool.
Submit(s) ==
    /\ server # "down"
    /\ s \in DOMAIN jobs
    /\ s \notin InPool
    /\ queue' = Append(queue, s)
    /\ late' = IF Cardinality(InPool) < Workers THEN late ELSE late \union {s}
    /\ UNCHANGED <<automation_config, jobs, todo, running, server, requests, events,
                   changes, stops>>

\* A free worker takes the firing that was submitted first.
Take ==
    /\ queue # <<>>
    /\ Cardinality(running) < Workers
    /\ queue' = Tail(queue)
    /\ late' = late \ {Head(queue)}
    /\ UNCHANGED <<automation_config, jobs, todo, server, requests, events, changes, stops>>

\* The worker runs _fire, whether or not the scope still has a job.
Begin ==
    /\ Take
    /\ running' = running \union {Head(queue)}

\* A firing that has waited longer than misfire_grace_time is dropped.
Miss ==
    /\ Take
    /\ Head(queue) \in late
    /\ UNCHANGED running

\* Mutant: a job fires once and is gone.
EndForGood(s) ==
    /\ s \in running
    /\ running' = running \ {s}
    /\ jobs' = Remove(jobs, s)
    /\ UNCHANGED <<automation_config, todo, queue, late, server, requests, events,
                   changes, stops>>

\* It ends whatever happens in it: its errors are logged and dropped.
End(s) ==
    /\ s \in running
    /\ running' = running \ {s}
    /\ UNCHANGED <<automation_config, jobs, todo, queue, late, server, requests, events,
                   changes, stops>>

\* A server without schedules that is asked nothing more waits.
Waiting ==
    /\ server = "up"
    /\ changes = MaxChanges
    /\ \A c \in Clients : pc[c] = "idle"
    /\ jobs = None
    /\ InPool = {}
    /\ UNCHANGED vars

Next ==
    \/ Start
    \/ \E s \in Scopes : Reload(s) \/ Submit(s) \/ End(s)
    \/ Begin
    \/ Miss
    \/ Serve
    \/ Stop
    \/ Crash
    \/ \E c \in Clients :
         \/ \E r \in Request : Apply(c, r)
         \/ Persist(c)
         \/ PersistFails(c)
         \/ Schedule(c)
         \/ Record(c)
    \/ Waiting

Spec == Init /\ [][Next]_vars

\* Handlers, timers and workers go on, and every run ends.
Fairness ==
    /\ \A c \in Clients : WF_vars(Persist(c) \/ Schedule(c) \/ Record(c))
    /\ \A s \in Scopes : WF_vars(Reload(s)) /\ WF_vars(Submit(s)) /\ WF_vars(End(s))
    /\ WF_vars(Begin \/ Miss)
    /\ WF_vars(Serve)

FairSpec == Spec /\ Fairness

-----------------------------------------------------------------------------
(* Properties. *)

\* Every variable has its type.
TypeOK ==
    /\ DOMAIN automation_config \subseteq Scopes
    /\ \A s \in DOMAIN automation_config :
         automation_config[s] \in [enabled : BOOLEAN, interval : Nat \ {0}]
    /\ DOMAIN jobs \subseteq Scopes
    /\ \A s \in DOMAIN jobs : jobs[s] \in Nat \ {0}
    /\ server \in {"down", "loading", "up"}
    /\ DOMAIN todo \subseteq Scopes
    /\ \A s \in DOMAIN todo : todo[s] \in Nat \ {0}
    /\ queue \in Seq(Scopes) /\ late \subseteq Scopes /\ running \subseteq Scopes
    /\ pc \in [Clients -> {"idle", "persist", "schedule", "record"}]
    /\ req \in [Clients -> Request \union {NoRequest}]
    /\ events \subseteq Scopes
    /\ changes \in Nat /\ stops \in Nat

\* On a serving scheduler, a scope nobody is changing has a job exactly if its
\* persisted row is enabled, and with the persisted interval, through
\* concurrent changes, failed writes, crashes and restarts (scheduler.py:101
\* "persist an automation config and (re)schedule or remove its job", and
\* scheduler.py:5-6, README.md:193-194: the schedule survives a restart).
ConfigMatchesJobs ==
    server = "up" =>
      \A s \in Scopes : ~Busy(s) =>
        /\ s \in DOMAIN jobs <=> Enabled(s)
        /\ s \in DOMAIN jobs => jobs[s] = automation_config[s].interval

\* The timer submits no firing of a scope that is switched off and that nobody
\* is switching: after apply at most the firing submitted before is left, which
\* remove_job does not take back (scheduler.py:116-122).
DisabledNeverSubmitted ==
    [][\A s \in InPool' \ InPool : Enabled(s) \/ Busy(s)]_vars

\* A scope that stays switched off falls silent, although a firing submitted
\* before may still wait behind others.
OffFallsSilent ==
    \A s \in Scopes :
        <>[](server = "up" /\ ~Enabled(s) /\ ~Busy(s)) => <>[](s \notin InPool)

\* A schedule left enabled on a server left running fires for ever
\* (scheduler.py:3-5 "Only stopping the service halts it"), when no more scopes
\* want a worker than there are: beyond that a firing may be dropped each time.
AutomationKeepsFiring ==
    \A s \in Scopes :
        <>[](/\ server = "up" /\ Enabled(s) /\ ~Busy(s)
             /\ Cardinality(DOMAIN jobs \union InPool) <= Workers)
          => []<>(s \in running) /\ []<>(s \notin running)

=============================================================================
