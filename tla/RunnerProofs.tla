----------------------------- MODULE RunnerProofs ----------------------------
(***************************************************************************)
(* Theorems about runs, for any modules, workers and requests and any      *)
(* number of storage failures and crashes: what the store says of a run    *)
(* explains its components, what is closed stays as it was reported, what  *)
(* a closed trigger reports is in the store, a success is complete, and    *)
(* one failed module takes no other down.                                  *)
(***************************************************************************)
EXTENDS Runner, FiniteSetTheorems, TLAPS

-----------------------------------------------------------------------------
(* Runs and their components *)

(* The worker has a module run of its own. *)
Active == {"fetch", "score", "record", "components"}

CurOK ==
    /\ DOMAIN pc = Workers /\ DOMAIN cur = Workers
    /\ \A w \in Workers : /\ DOMAIN cur[w] = {"uid", "module", "status", "scored"}
                          /\ cur[w].uid \in Nat /\ cur[w].scored \in Nat

(* Run ids are given out once: to one worker, and then to one stored run. *)
UidsOK ==
    /\ uids \in Nat
    /\ \A r \in pdm_run : r.uid \in 1..uids
    /\ \A r, q \in pdm_run : r.uid = q.uid => r = q
    /\ \A w \in Workers : pc[w] \in Active => cur[w].uid \in 1..uids
    /\ \A v, w \in Workers : pc[v] \in Active /\ pc[w] \in Active /\ v # w
                                => cur[v].uid # cur[w].uid
    /\ \A w \in Workers : pc[w] \in Active \ {"components"}
                                => \A r \in pdm_run : r.uid # cur[w].uid

(* Only what succeeded has components, and their run is stored before them. *)
ScoredOK ==
    /\ \A w \in Workers : pc[w] \in {"fetch", "score"}
                                => cur[w].scored = 0 /\ cur[w].status = "success"
    /\ \A w \in Workers : pc[w] = "record" /\ cur[w].scored # 0 => cur[w].status = "success"
    /\ \A w \in Workers : pc[w] = "components" =>
        \E r \in pdm_run : /\ r.uid = cur[w].uid /\ r.module = cur[w].module
                           /\ r.status = "success" /\ r.scored = cur[w].scored

Explained(c) ==
    \E r \in pdm_run : /\ r.uid = c.uid /\ r.module = c.module /\ r.status = "success"
                       /\ c.component <= r.scored

RunInv ==
    /\ CurOK /\ UidsOK /\ ScoredOK
    /\ \A c \in component_health : Explained(c)

LEMMA RunInit == Init => RunInv
BY DEF Init, RunInv, CurOK, UidsOK, ScoredOK, NoRun, Active

(* Steps that touch neither runs nor components, nor move a worker into them. *)
LEMMA RunIdle ==
    ASSUME RunInv, UNCHANGED <<cur, pdm_run, component_health, uids>>,
           DOMAIN pc' = Workers,
           \A w \in Workers : pc'[w] \in Active => pc'[w] = pc[w]
    PROVE  RunInv'
BY DEF RunInv, CurOK, UidsOK, ScoredOK, Explained, Active

(* Steps in which workers drop their run. *)
LEMMA RunLeave ==
    ASSUME RunInv, NEW W \in SUBSET Workers, UNCHANGED <<pdm_run, uids>>,
           DOMAIN pc' = Workers, DOMAIN cur' = Workers,
           \A w \in Workers \ W : pc'[w] = pc[w] /\ cur'[w] = cur[w],
           \A w \in W : pc'[w] \notin Active /\ cur'[w] = NoRun,
           \A c \in component_health' : Explained(c)
    PROVE  RunInv'
BY DEF RunInv, CurOK, UidsOK, ScoredOK, Explained, Active, NoRun

(* The rows of a run that is stored are explained by it, cut short or not. *)
LEMMA RowsExplained ==
    ASSUME RunInv, NEW w \in Workers, pc[w] = "components",
           NEW n \in Nat, n <= cur[w].scored
    PROVE  \A c \in HealthRows(cur[w], n) : Explained(c)
<1>1. PICK r \in pdm_run : /\ r.uid = cur[w].uid /\ r.module = cur[w].module
                           /\ r.status = "success" /\ r.scored = cur[w].scored
  BY DEF RunInv, ScoredOK
<1>2. cur[w].scored \in Nat
  BY DEF RunInv, CurOK
<1> SUFFICES ASSUME NEW i \in 1..n
             PROVE  Explained([uid |-> cur[w].uid, module |-> cur[w].module, component |-> i])
  BY DEF HealthRows
<1>3. i <= r.scored
  BY <1>1, <1>2, SMT
<1> QED
  BY <1>1, <1>3 DEF Explained

LEMMA CutShortExplained ==
    ASSUME RunInv, NEW W \in SUBSET Workers, CutShort(W)
    PROVE  \A c \in component_health' : Explained(c)
<1>1. CASE UNCHANGED component_health
  BY <1>1 DEF RunInv
<1>2. CASE ~UNCHANGED component_health
  <2>1. PICK w \in W : /\ pc[w] = "components"
                       /\ \E n \in 1..(cur[w].scored - 1) :
                            component_health' = component_health \union HealthRows(cur[w], n)
    BY <1>2 DEF CutShort
  <2>2. PICK n \in 1..(cur[w].scored - 1) :
               component_health' = component_health \union HealthRows(cur[w], n)
    BY <2>1
  <2>3. n \in Nat /\ n <= cur[w].scored
    BY <2>2, SMT DEF RunInv, CurOK
  <2> QED
    BY <2>1, <2>2, <2>3, RowsExplained DEF RunInv
<1> QED
  BY <1>1, <1>2

(* A worker takes one of the modules that are left. *)
LEMMA TakesModule ==
    ASSUME NEW w \in Workers, NextModule(w)
    PROVE  \E m \in Modules \intersect job[w].todo :
             /\ pc[w] = "next"
             /\ pc' = [pc EXCEPT ![w] = IF m \in Configured THEN "fetch" ELSE "record"]
             /\ cur' = [cur EXCEPT ![w] =
                  [uid |-> uids + 1, module |-> m, scored |-> 0,
                   status |-> IF m \in Configured THEN "success" ELSE "failed"]]
             /\ job' = [job EXCEPT ![w].todo = @ \ {m}]
<1>1. PICK i \in DOMAIN Registry :
             /\ Registry[i] \in job[w].todo
             /\ pc[w] = "next"
             /\ pc' = [pc EXCEPT ![w] = IF Registry[i] \in Configured THEN "fetch" ELSE "record"]
             /\ cur' = [cur EXCEPT ![w] =
                  [uid |-> uids + 1, module |-> Registry[i], scored |-> 0,
                   status |-> IF Registry[i] \in Configured THEN "success" ELSE "failed"]]
             /\ job' = [job EXCEPT ![w].todo = @ \ {Registry[i]}]
  BY Zenon DEF NextModule, RunUid, Goto
<1>2. Registry[i] \in Modules
  BY RegistryAssumption
<1> QED
  BY <1>1, <1>2, Zenon

LEMMA RunNextModule ==
    ASSUME RunInv, NEW w \in Workers, NextModule(w)
    PROVE  RunInv'
<1>1. /\ uids' = uids + 1 /\ uids \in Nat /\ uids' \in Nat
      /\ UNCHANGED <<pdm_run, component_health>>
  BY SMT DEF NextModule, tables, RunInv, UidsOK
<1>2. PICK m, st : /\ cur' = [cur EXCEPT ![w] = [uid |-> uids + 1, module |-> m,
                                                 scored |-> 0, status |-> st]]
                   /\ \/ pc' = [pc EXCEPT ![w] = "fetch"] /\ st = "success"
                      \/ pc' = [pc EXCEPT ![w] = "record"]
  BY TakesModule
<1>3. /\ cur'[w].uid = uids + 1 /\ cur'[w].scored = 0 /\ cur'[w].status = st
      /\ DOMAIN cur'[w] = {"uid", "module", "status", "scored"}
      /\ pc'[w] \in {"fetch", "record"} /\ (pc'[w] = "fetch" => st = "success")
      /\ \A v \in Workers \ {w} : cur'[v] = cur[v] /\ pc'[v] = pc[v]
      /\ DOMAIN cur' = Workers /\ DOMAIN pc' = Workers
  BY <1>2 DEF RunInv, CurOK
<1>4. CurOK'
  BY <1>1, <1>3 DEF RunInv, CurOK
<1>5. \A u \in 1..uids : u \in 1..uids' /\ u # uids + 1
  BY <1>1, SMT
<1>6. uids + 1 \in 1..uids'
  BY <1>1, SMT
<1>7. UidsOK'
  BY <1>1, <1>3, <1>5, <1>6 DEF RunInv, UidsOK, Active
<1>8. ScoredOK'
  BY <1>1, <1>3 DEF RunInv, ScoredOK
<1> QED
  BY <1>1, <1>4, <1>7, <1>8 DEF RunInv, Explained

(* A module run goes on with the same id, before anything is stored of it. *)
LEMMA RunGoesOn ==
    ASSUME RunInv, NEW w \in Workers, UNCHANGED <<pdm_run, component_health, uids>>,
           pc[w] \in {"fetch", "score"}, NEW to \in {"score", "record"},
           pc' = [pc EXCEPT ![w] = to], DOMAIN cur' = Workers,
           \A v \in Workers \ {w} : cur'[v] = cur[v],
           DOMAIN cur'[w] = DOMAIN cur[w], cur'[w].uid = cur[w].uid,
           cur'[w].scored \in Nat,
           to = "score" => cur'[w].scored = 0,
           cur'[w].scored # 0 \/ to = "score" => cur'[w].status = "success"
    PROVE  RunInv'
<1>1. pc'[w] = to /\ DOMAIN pc' = Workers /\ \A v \in Workers \ {w} : pc'[v] = pc[v]
  BY DEF RunInv, CurOK
<1>2. CurOK'
  BY <1>1 DEF RunInv, CurOK
<1>3. UidsOK'
  BY <1>1 DEF RunInv, UidsOK, Active
<1>4. ScoredOK'
  BY <1>1 DEF RunInv, ScoredOK
<1> QED
  BY <1>2, <1>3, <1>4 DEF RunInv, Explained

LEMMA RunRecorded ==
    ASSUME RunInv, NEW w \in Workers, RecordRun(w)
    PROVE  RunInv'
<1> DEFINE new == [uid |-> cur[w].uid, module |-> cur[w].module, tid |-> job[w].tid,
                   status |-> cur[w].status, scored |-> cur[w].scored]
<1>1. /\ pc[w] = "record" /\ pdm_run' = pdm_run \cup {new}
      /\ UNCHANGED <<uids, component_health>>
  BY DEF RecordRun
<1>2. /\ new.uid = cur[w].uid /\ new.module = cur[w].module
      /\ new.status = cur[w].status /\ new.scored = cur[w].scored
  OBVIOUS
<1> HIDE DEF new
<1>3. \A c \in component_health' : Explained(c)'
  BY <1>1 DEF RunInv, Explained
<1>4. /\ \A r \in pdm_run' : r.uid \in 1..uids'
      /\ \A r, q \in pdm_run' : r.uid = q.uid => r = q
  BY <1>1, <1>2 DEF RunInv, UidsOK, Active
<1>5. CASE cur[w].scored = 0
  <2>1. pc' = [pc EXCEPT ![w] = "next"] /\ cur' = [cur EXCEPT ![w] = NoRun]
    BY <1>5 DEF RecordRun, Report
  <2>2. /\ pc'[w] = "next" /\ cur'[w] = NoRun
        /\ \A v \in Workers \ {w} : cur'[v] = cur[v] /\ pc'[v] = pc[v]
        /\ DOMAIN cur' = Workers /\ DOMAIN pc' = Workers
    BY <2>1 DEF RunInv, CurOK
  <2>3. CurOK'
    BY <2>2 DEF RunInv, CurOK, NoRun
  <2>4. UidsOK'
    BY <1>1, <1>2, <1>4, <2>2 DEF RunInv, UidsOK, Active
  <2>5. ScoredOK'
    BY <1>1, <2>2 DEF RunInv, ScoredOK
  <2> QED
    BY <1>3, <2>3, <2>4, <2>5 DEF RunInv
<1>6. CASE cur[w].scored # 0
  <2>1. pc' = [pc EXCEPT ![w] = "components"] /\ cur' = cur
    BY <1>6 DEF RecordRun
  <2>2. /\ pc'[w] = "components"
        /\ \A v \in Workers \ {w} : pc'[v] = pc[v]
        /\ DOMAIN pc' = Workers
    BY <2>1 DEF RunInv, CurOK
  <2>3. CurOK'
    BY <2>1, <2>2 DEF RunInv, CurOK
  <2>4. UidsOK'
    BY <1>1, <1>2, <1>4, <2>1, <2>2 DEF RunInv, UidsOK, Active
  <2>5. ScoredOK'
    <3>1. cur[w].status = "success"
      BY <1>1, <1>6 DEF RunInv, ScoredOK
    <3>2. new \in pdm_run' /\ new.status = "success"
      BY <1>1, <1>2, <3>1
    <3> QED
      BY <1>1, <1>2, <2>1, <2>2, <3>2 DEF RunInv, ScoredOK
  <2> QED
    BY <1>3, <2>3, <2>4, <2>5 DEF RunInv
<1> QED
  BY <1>5, <1>6

LEMMA RunStep == RunInv /\ [Next]_vars => RunInv'
<1> SUFFICES ASSUME RunInv, [Next]_vars PROVE RunInv'
  OBVIOUS
<1>1. ASSUME NEW scope \in Asked, Submit(scope) PROVE RunInv'
  BY <1>1, RunIdle DEF Submit, tables, RunInv, CurOK
<1>2. ASSUME NEW w \in Workers, NEW scope \in Asked, Fire(w, scope) PROVE RunInv'
  BY <1>2, RunIdle DEF Fire, Begin, Goto, tables, RunInv, CurOK, Active
<1>3. ASSUME NEW w \in Workers, TakeRequest(w) PROVE RunInv'
  BY <1>3, RunIdle DEF TakeRequest, Begin, Goto, tables, RunInv, CurOK, Active
<1>4. ASSUME NEW w \in Workers, OpenTrigger(w) \/ OpenSession(w) \/ NoMoreModules(w)
                                \/ CloseTrigger(w)
      PROVE  RunInv'
  BY <1>4, RunIdle DEF OpenTrigger, OpenSession, NoMoreModules, CloseTrigger, Goto, tables,
     RunInv, CurOK, Active
<1>5. ASSUME NEW w \in Workers, OpenTriggerFails(w) \/ CloseTriggerFails(w) \/ RecordEvent(w)
      PROVE  RunInv'
  <2>1. /\ UNCHANGED <<pdm_run, component_health, uids>>
        /\ pc' = [pc EXCEPT ![w] = "free"] /\ cur' = [cur EXCEPT ![w] = NoRun]
    BY <1>5 DEF OpenTriggerFails, CloseTriggerFails, RecordEvent, Leave, tables
  <2> QED
    BY <2>1, RunLeave, {w} \in SUBSET Workers DEF RunInv, CurOK, Active
<1>6. ASSUME NEW w \in Workers, SessionFails(w) PROVE RunInv'
  <2>1. /\ UNCHANGED <<pdm_run, component_health, uids>>
        /\ pc' = [pc EXCEPT ![w] = "close"] /\ cur' = [cur EXCEPT ![w] = NoRun]
    BY <1>6 DEF SessionFails, Abandon, tables
  <2> QED
    BY <2>1, RunLeave, {w} \in SUBSET Workers DEF RunInv, CurOK, Active
<1>7. ASSUME NEW w \in Workers, NextModule(w) PROVE RunInv'
  BY <1>7, RunNextModule
<1>8. ASSUME NEW w \in Workers, Fetch(w) PROVE RunInv'
  BY <1>8, RunGoesOn DEF Fetch, Goto, RunInv, CurOK, ScoredOK
<1>9. ASSUME NEW w \in Workers, ModuleFails(w) PROVE RunInv'
  <2>1. /\ UNCHANGED <<pdm_run, component_health, uids>>
        /\ pc[w] \in {"fetch", "score"} /\ pc' = [pc EXCEPT ![w] = "record"]
        /\ cur' = [cur EXCEPT ![w].status = "failed"]
    BY <1>9 DEF ModuleFails, tables
  <2>2. /\ DOMAIN cur' = Workers /\ \A v \in Workers \ {w} : cur'[v] = cur[v]
        /\ DOMAIN cur'[w] = DOMAIN cur[w] /\ cur'[w].uid = cur[w].uid
        /\ cur'[w].scored = 0
    BY <2>1 DEF RunInv, CurOK, ScoredOK
  <2>3. cur'[w].scored \in Nat
    BY <2>2, SMT
  <2> QED
    BY <2>1, <2>2, <2>3, RunGoesOn
<1>10. ASSUME NEW w \in Workers, Score(w) PROVE RunInv'
  <2>1. PICK n \in Counts : cur' = [cur EXCEPT ![w].scored = n]
    BY <1>10 DEF Score
  <2>2. /\ UNCHANGED <<pdm_run, component_health, uids>>
        /\ pc[w] = "score" /\ pc' = [pc EXCEPT ![w] = "record"]
    BY <1>10 DEF Score, Goto, tables
  <2>3. /\ DOMAIN cur' = Workers /\ \A v \in Workers \ {w} : cur'[v] = cur[v]
        /\ DOMAIN cur'[w] = DOMAIN cur[w] /\ cur'[w].uid = cur[w].uid
        /\ cur'[w].scored = n /\ cur'[w].status = "success"
    BY <2>1, <2>2 DEF RunInv, CurOK, ScoredOK
  <2>4. n \in Nat
    BY BoundAssumption
  <2> QED
    BY <2>2, <2>3, <2>4, RunGoesOn
<1>11. ASSUME NEW w \in Workers, RecordRun(w) PROVE RunInv'
  BY <1>11, RunRecorded
<1>12. ASSUME NEW w \in Workers, RecordComponents(w) PROVE RunInv'
  <2>1. /\ UNCHANGED <<pdm_run, uids>> /\ pc[w] = "components"
        /\ component_health' = component_health \union HealthRows(cur[w], cur[w].scored)
        /\ pc' = [pc EXCEPT ![w] = "next"] /\ cur' = [cur EXCEPT ![w] = NoRun]
    BY <1>12 DEF RecordComponents, Report, Goto
  <2>2. cur[w].scored \in Nat /\ cur[w].scored <= cur[w].scored
    BY SMT DEF RunInv, CurOK
  <2>3. \A c \in component_health' : Explained(c)
    BY <2>1, <2>2, RowsExplained DEF RunInv
  <2> QED
    BY <2>1, <2>3, RunLeave, {w} \in SUBSET Workers DEF RunInv, CurOK, Active
<1>13. ASSUME NEW w \in Workers, RecordFails(w) PROVE RunInv'
  <2>1. /\ UNCHANGED <<pdm_run, uids>> /\ CutShort({w})
        /\ pc' = [pc EXCEPT ![w] = "close"] /\ cur' = [cur EXCEPT ![w] = NoRun]
    BY <1>13 DEF RecordFails, Abandon
  <2>2. \A c \in component_health' : Explained(c)
    BY <2>1, CutShortExplained, {w} \in SUBSET Workers
  <2> QED
    BY <2>1, <2>2, RunLeave, {w} \in SUBSET Workers DEF RunInv, CurOK, Active
<1>14. CASE Crash
  <2>1. \A c \in component_health' : Explained(c)
    BY <1>14, CutShortExplained DEF Crash
  <2> QED
    BY <1>14, <2>1, RunLeave DEF Crash, Active
<1>15. CASE UNCHANGED vars
  BY <1>15, RunIdle DEF vars, tables, RunInv, CurOK
<1> QED
  BY <1>1, <1>2, <1>3, <1>4, <1>5, <1>6, <1>7, <1>8, <1>9, <1>10, <1>11, <1>12, <1>13,
     <1>14, <1>15 DEF Next, Step, Finished

(* Every stored component has exactly one run, of its module, that succeeded  *)
(* and counts it, whatever storage calls fail or are cut short and whenever   *)
(* the server dies.                                                           *)
THEOREM NoOrphans == Spec => []NoOrphanRows
<1>1. RunInv => NoOrphanRows
  BY DEF RunInv, UidsOK, Explained, NoOrphanRows, RunOf
<1> QED
  BY RunInit, RunStep, <1>1, PTL DEF Spec

-----------------------------------------------------------------------------
(* Triggers *)

(* The worker has opened its trigger and has not closed it. *)
Working == {"session", "next", "fetch", "score", "record", "components", "close"}

JobOK ==
    /\ asked \in Seq(Scopes) /\ queue \in Seq(Nat)
    /\ DOMAIN pc = Workers /\ DOMAIN job = Workers
    /\ \A w \in Workers : DOMAIN job[w] = {"tid", "scope", "todo", "results"}

(* A trigger id waits once in the queue or is with one worker, never both. *)
TidsOK ==
    /\ \A i \in DOMAIN queue : queue[i] \in 1..Len(asked)
    /\ \A i, j \in DOMAIN queue : queue[i] = queue[j] => i = j
    /\ \A w \in Workers : pc[w] # "free" =>
            job[w].tid \in 1..Len(asked) /\ \A i \in DOMAIN queue : queue[i] # job[w].tid
    /\ \A v, w \in Workers : pc[v] # "free" /\ pc[w] # "free" /\ v # w
                                => job[v].tid # job[w].tid

(* Triggers are opened once, and closed by the worker that opened them. *)
LogOK ==
    /\ DOMAIN trigger_log \subseteq 1..Len(asked)
    /\ \A i \in DOMAIN queue : queue[i] \notin DOMAIN trigger_log
    /\ \A w \in Workers : pc[w] = "open" => job[w].tid \notin DOMAIN trigger_log
    /\ \A w \in Workers : pc[w] \in Working =>
            job[w].tid \in DOMAIN trigger_log /\ trigger_log[job[w].tid].status = "running"

TriggerInv == JobOK /\ TidsOK /\ LogOK

LEMMA TriggerInit == Init => TriggerInv
BY SMT DEF Init, TriggerInv, JobOK, TidsOK, LogOK, NoJob, Working

(* A worker goes on with its trigger. *)
LEMMA TriggerGoesOn ==
    ASSUME TriggerInv, NEW w \in Workers, UNCHANGED <<asked, queue, trigger_log>>,
           pc[w] \in Working, NEW to \in Working, pc' = [pc EXCEPT ![w] = to],
           DOMAIN job' = Workers, \A v \in Workers \ {w} : job'[v] = job[v],
           DOMAIN job'[w] = DOMAIN job[w], job'[w].tid = job[w].tid
    PROVE  TriggerInv'
<1>1. pc'[w] = to /\ DOMAIN pc' = Workers /\ \A v \in Workers \ {w} : pc'[v] = pc[v]
  BY DEF TriggerInv, JobOK
<1>2. JobOK'
  BY <1>1 DEF TriggerInv, JobOK
<1>3. TidsOK'
  BY <1>1 DEF TriggerInv, TidsOK, Working
<1>4. LogOK'
  BY <1>1 DEF TriggerInv, LogOK, Working
<1> QED
  BY <1>2, <1>3, <1>4 DEF TriggerInv

(* Workers leave, and what they worked on stays as it is. *)
LEMMA TriggerLeave ==
    ASSUME TriggerInv, NEW W \in SUBSET Workers, UNCHANGED <<asked, trigger_log>>,
           queue' = queue \/ queue' = <<>>,
           DOMAIN pc' = Workers, DOMAIN job' = Workers,
           \A w \in Workers \ W : pc'[w] = pc[w] /\ job'[w] = job[w],
           \A w \in W : pc'[w] = "free" /\ job'[w] = NoJob
    PROVE  TriggerInv'
<1>1. JobOK'
  <2>1. <<>> \in Seq(Nat)
    BY SMT
  <2>2. queue' \in Seq(Nat)
    BY <2>1 DEF TriggerInv, JobOK
  <2> QED
    BY <2>2 DEF TriggerInv, JobOK, NoJob
<1>2. DOMAIN queue' \subseteq DOMAIN queue /\ \A i \in DOMAIN queue' : queue'[i] = queue[i]
  BY SMT DEF TriggerInv, JobOK
<1>3. TidsOK'
  BY <1>2 DEF TriggerInv, TidsOK
<1>4. LogOK'
  BY <1>2 DEF TriggerInv, LogOK, Working
<1> QED
  BY <1>1, <1>3, <1>4 DEF TriggerInv

(* A worker takes a trigger id that neither another nor the queue has. *)
LEMMA TriggerBegins ==
    ASSUME TriggerInv, NEW w \in Workers, NEW tid, NEW scope, Begin(w, tid, scope),
           UNCHANGED trigger_log, asked' \in Seq(Scopes), queue' \in Seq(Nat),
           \A t \in 1..Len(asked) : t \in 1..Len(asked'),
           tid \in 1..Len(asked'), tid \notin DOMAIN trigger_log,
           \A v \in Workers : pc[v] # "free" => job[v].tid # tid,
           \A i \in DOMAIN queue' : /\ queue'[i] # tid
                                    /\ \E j \in DOMAIN queue : queue'[i] = queue[j],
           \A i, j \in DOMAIN queue' : queue'[i] = queue'[j] => i = j
    PROVE  TriggerInv'
<1>1. CASE scope \in Unknown
  <2>1. UNCHANGED <<pc, job>>
    BY <1>1 DEF Begin
  <2> QED
    BY <2>1 DEF TriggerInv, JobOK, TidsOK, LogOK
<1>2. CASE scope \notin Unknown
  <2>1. /\ pc[w] = "free" /\ pc' = [pc EXCEPT ![w] = "open"]
        /\ job' = [job EXCEPT ![w] = [tid |-> tid, scope |-> scope, todo |-> Planned(scope),
                                      results |-> {}]]
    BY <1>2 DEF Begin, Goto
  <2>2. /\ pc'[w] = "open" /\ DOMAIN pc' = Workers /\ DOMAIN job' = Workers
        /\ job'[w].tid = tid /\ DOMAIN job'[w] = {"tid", "scope", "todo", "results"}
        /\ \A v \in Workers \ {w} : pc'[v] = pc[v] /\ job'[v] = job[v]
    BY <2>1 DEF TriggerInv, JobOK
  <2>3. JobOK'
    BY <2>2 DEF TriggerInv, JobOK
  <2>4. TidsOK'
    BY <2>2 DEF TriggerInv, TidsOK
  <2>5. DOMAIN trigger_log' \subseteq 1..Len(asked')
    BY DEF TriggerInv, LogOK
  <2>6. \A i \in DOMAIN queue' : queue'[i] \notin DOMAIN trigger_log'
    BY DEF TriggerInv, LogOK
  <2>7. \A v \in Workers : pc'[v] = "open" => job'[v].tid \notin DOMAIN trigger_log
    BY <2>2 DEF TriggerInv, LogOK
  <2>8. \A v \in Workers : pc'[v] \in Working => v # w
    BY <2>2 DEF Working
  <2>9. \A v \in Workers : pc'[v] \in Working =>
          job'[v].tid \in DOMAIN trigger_log /\ trigger_log[job'[v].tid].status = "running"
    BY <2>2, <2>8 DEF TriggerInv, LogOK
  <2>10. LogOK'
    BY <2>5, <2>6, <2>7, <2>9 DEF LogOK
  <2> QED
    BY <2>3, <2>4, <2>10 DEF TriggerInv
<1> QED
  BY <1>1, <1>2

LEMMA TriggerOpened ==
    ASSUME TriggerInv, NEW w \in Workers, OpenTrigger(w)
    PROVE  TriggerInv' /\ job[w].tid \notin DOMAIN trigger_log
<1> DEFINE t == job[w].tid
<1>1. /\ pc[w] = "open" /\ pc' = [pc EXCEPT ![w] = "session"]
      /\ UNCHANGED <<asked, queue, job>>
  BY DEF OpenTrigger, Goto
<1>2. /\ pc'[w] = "session" /\ DOMAIN pc' = Workers
      /\ \A v \in Workers \ {w} : pc'[v] = pc[v]
  BY <1>1 DEF TriggerInv, JobOK
<1>3. /\ DOMAIN trigger_log' = DOMAIN trigger_log \cup {t}
      /\ trigger_log'[t].status = "running"
      /\ \A u \in DOMAIN trigger_log \ {t} : trigger_log'[u] = trigger_log[u]
  BY DEF OpenTrigger
<1>4. t \notin DOMAIN trigger_log /\ t \in 1..Len(asked)
  BY <1>1 DEF TriggerInv, LogOK, TidsOK
<1>5. JobOK'
  BY <1>1, <1>2 DEF TriggerInv, JobOK
<1>6. TidsOK'
  BY <1>1, <1>2 DEF TriggerInv, TidsOK
<1>7. LogOK'
  BY <1>1, <1>2, <1>3, <1>4 DEF TriggerInv, TidsOK, LogOK, Working
<1> QED
  BY <1>4, <1>5, <1>6, <1>7 DEF TriggerInv

LEMMA TriggerClosed ==
    ASSUME TriggerInv, NEW w \in Workers, CloseTrigger(w)
    PROVE  /\ TriggerInv'
           /\ job[w].tid \in DOMAIN trigger_log
           /\ trigger_log[job[w].tid].status = "running"
           /\ DOMAIN trigger_log' = DOMAIN trigger_log
           /\ \A u \in DOMAIN trigger_log \ {job[w].tid} : trigger_log'[u] = trigger_log[u]
<1> DEFINE t == job[w].tid
<1>1. /\ pc[w] = "close" /\ pc' = [pc EXCEPT ![w] = "event"]
      /\ UNCHANGED <<asked, queue, job>>
  BY DEF CloseTrigger, Goto
<1>2. /\ pc'[w] = "event" /\ DOMAIN pc' = Workers
      /\ \A v \in Workers \ {w} : pc'[v] = pc[v]
  BY <1>1 DEF TriggerInv, JobOK
<1>3. /\ DOMAIN trigger_log' = DOMAIN trigger_log
      /\ \A u \in DOMAIN trigger_log \ {t} : trigger_log'[u] = trigger_log[u]
  BY DEF CloseTrigger
<1>4. t \in DOMAIN trigger_log /\ trigger_log[t].status = "running"
  BY <1>1 DEF TriggerInv, LogOK, Working
<1>5. JobOK'
  BY <1>1, <1>2 DEF TriggerInv, JobOK
<1>6. TidsOK'
  BY <1>1, <1>2 DEF TriggerInv, TidsOK
<1>7. LogOK'
  BY <1>1, <1>2, <1>3 DEF TriggerInv, TidsOK, LogOK, Working
<1> QED
  BY <1>3, <1>4, <1>5, <1>6, <1>7 DEF TriggerInv

LEMMA TriggerSubmit ==
    ASSUME TriggerInv, NEW scope \in Asked, Submit(scope)
    PROVE  TriggerInv'
<1> DEFINE n == Len(asked) + 1
<1>1. /\ asked' = Append(asked, scope) /\ queue' = Append(queue, Len(asked'))
      /\ UNCHANGED <<pc, job, trigger_log>>
  BY DEF Submit, NewTrigger, tables
<1>2. asked' \in Seq(Scopes) /\ Len(asked') = n /\ Len(asked) \in Nat
  BY <1>1, RegistryAssumption DEF TriggerInv, JobOK, Scopes
<1>3. queue' = Append(queue, n) /\ queue \in Seq(Nat)
  BY <1>1, <1>2 DEF TriggerInv, JobOK
<1>4. /\ queue' \in Seq(Nat)
      /\ \A i \in DOMAIN queue' : IF i = Len(queue) + 1 THEN queue'[i] = n
                                  ELSE i \in DOMAIN queue /\ queue'[i] = queue[i]
  BY <1>2, <1>3, SMT
<1>5. n \in 1..n /\ n \notin 1..Len(asked) /\ \A t \in 1..Len(asked) : t \in 1..n
  BY <1>2, SMT
<1>6. JobOK'
  BY <1>1, <1>2, <1>4 DEF TriggerInv, JobOK
<1>7. TidsOK'
  <2>1. \A i \in DOMAIN queue' : queue'[i] \in 1..Len(asked')
    BY <1>2, <1>4, <1>5 DEF TriggerInv, TidsOK
  <2>2. \A i, j \in DOMAIN queue' : queue'[i] = queue'[j] => i = j
    <3>1. \A i \in DOMAIN queue : queue[i] # n
      BY <1>5 DEF TriggerInv, TidsOK
    <3>2. \A i, j \in DOMAIN queue : queue[i] = queue[j] => i = j
      BY DEF TriggerInv, TidsOK
    <3> HIDE DEF n
    <3> QED
      BY <1>4, <3>1, <3>2
  <2>3. \A w \in Workers : pc[w] # "free" =>
            job[w].tid \in 1..Len(asked') /\ \A i \in DOMAIN queue' : queue'[i] # job[w].tid
    BY <1>2, <1>4, <1>5 DEF TriggerInv, TidsOK
  <2> QED
    BY <1>1, <2>1, <2>2, <2>3 DEF TriggerInv, TidsOK
<1>8. LogOK'
  BY <1>1, <1>2, <1>4, <1>5 DEF TriggerInv, LogOK
<1> QED
  BY <1>6, <1>7, <1>8 DEF TriggerInv

LEMMA TriggerFire ==
    ASSUME TriggerInv, NEW w \in Workers, NEW scope \in Asked, Fire(w, scope)
    PROVE  TriggerInv'
<1> DEFINE n == Len(asked')
<1>1. /\ asked' = Append(asked, scope) /\ Begin(w, n, scope)
      /\ UNCHANGED <<queue, trigger_log>>
  BY DEF Fire, NewTrigger, tables
<1>2. asked' \in Seq(Scopes) /\ n = Len(asked) + 1 /\ Len(asked) \in Nat
  BY <1>1, RegistryAssumption DEF TriggerInv, JobOK, Scopes
<1>3. n \in 1..n /\ n \notin 1..Len(asked) /\ \A t \in 1..Len(asked) : t \in 1..n
  BY <1>2, SMT
<1>4. n \notin DOMAIN trigger_log
  BY <1>3 DEF TriggerInv, LogOK
<1>5. \A v \in Workers : pc[v] # "free" => job[v].tid # n
  BY <1>3 DEF TriggerInv, TidsOK
<1>6. \A i \in DOMAIN queue : queue[i] # n
  BY <1>3 DEF TriggerInv, TidsOK
<1>7. \A i, j \in DOMAIN queue : queue[i] = queue[j] => i = j
  BY DEF TriggerInv, TidsOK
<1>8. queue' \in Seq(Nat)
  BY <1>1 DEF TriggerInv, JobOK
<1> HIDE DEF n
<1> QED
  BY <1>1, <1>2, <1>3, <1>4, <1>5, <1>6, <1>7, <1>8, TriggerBegins DEF n

LEMMA TriggerTake ==
    ASSUME TriggerInv, NEW w \in Workers, TakeRequest(w)
    PROVE  TriggerInv'
<1> DEFINE t == Head(queue)
<1>1. /\ queue # <<>> /\ queue' = Tail(queue) /\ Begin(w, t, asked[t])
      /\ UNCHANGED <<asked, trigger_log>>
  BY DEF TakeRequest, tables
<1>2. queue \in Seq(Nat) /\ asked' \in Seq(Scopes)
  BY <1>1 DEF TriggerInv, JobOK
<1>3. /\ 1 \in DOMAIN queue /\ t = queue[1] /\ queue' \in Seq(Nat)
      /\ \A i \in DOMAIN queue' : i + 1 \in DOMAIN queue /\ i + 1 # 1
                                 /\ queue'[i] = queue[i + 1]
      /\ \A i, j \in DOMAIN queue' : i + 1 = j + 1 => i = j
  BY <1>1, <1>2, SMT
<1>4. /\ \A i \in DOMAIN queue' : /\ queue'[i] # t
                                  /\ \E j \in DOMAIN queue : queue'[i] = queue[j]
      /\ \A i, j \in DOMAIN queue' : queue'[i] = queue'[j] => i = j
  BY <1>3 DEF TriggerInv, TidsOK
<1>5. t \in 1..Len(asked') /\ t \notin DOMAIN trigger_log
  BY <1>1, <1>3 DEF TriggerInv, TidsOK, LogOK
<1>6. \A v \in Workers : pc[v] # "free" => job[v].tid # t
  BY <1>3 DEF TriggerInv, TidsOK
<1>7. \A u \in 1..Len(asked) : u \in 1..Len(asked')
  BY <1>1
<1> HIDE DEF t
<1> QED
  BY <1>1, <1>2, <1>3, <1>4, <1>5, <1>6, <1>7, TriggerBegins


(* What a worker does between opening and closing leaves its trigger alone.    *)
LEMMA WorkStep ==
    ASSUME TriggerInv, NEW w \in Workers,
           \/ OpenSession(w) \/ SessionFails(w) \/ NoMoreModules(w) \/ NextModule(w)
           \/ Fetch(w) \/ ModuleFails(w) \/ Score(w) \/ RecordRun(w) \/ RecordComponents(w)
           \/ RecordFails(w)
    PROVE  /\ UNCHANGED <<asked, queue, trigger_log>>
           /\ pc[w] \in Working
           /\ \E to \in Working : pc' = [pc EXCEPT ![w] = to]
           /\ DOMAIN job' = Workers /\ \A v \in Workers \ {w} : job'[v] = job[v]
           /\ DOMAIN job'[w] = DOMAIN job[w] /\ job'[w].tid = job[w].tid
<1>1. DOMAIN job = Workers /\ DOMAIN job[w] = {"tid", "scope", "todo", "results"}
  BY DEF TriggerInv, JobOK
<1>2. CASE OpenSession(w) \/ NoMoreModules(w)
  BY <1>1, <1>2 DEF OpenSession, NoMoreModules, Goto, tables, Working
<1>3. CASE SessionFails(w)
  BY <1>1, <1>3 DEF SessionFails, Abandon, tables, Working
<1>4. CASE NextModule(w)
  <2>1. UNCHANGED <<asked, queue, trigger_log>>
    BY <1>4 DEF NextModule, tables
  <2>2. /\ pc[w] = "next" /\ \E m : job' = [job EXCEPT ![w].todo = @ \ {m}]
        /\ pc' = [pc EXCEPT ![w] = "fetch"] \/ pc' = [pc EXCEPT ![w] = "record"]
    BY <1>4, TakesModule
  <2> QED
    BY <1>1, <2>1, <2>2 DEF Working
<1>5. CASE Fetch(w)
  BY <1>1, <1>5 DEF Fetch, Goto, Working
<1>6. CASE ModuleFails(w)
  BY <1>1, <1>6 DEF ModuleFails, tables, Working
<1>7. CASE Score(w)
  BY <1>1, <1>7 DEF Score, Goto, tables, Working
<1>8. CASE RecordRun(w)
  BY <1>1, <1>8 DEF RecordRun, Report, Working
<1>9. CASE RecordComponents(w)
  BY <1>1, <1>9 DEF RecordComponents, Report, Goto, Working
<1>10. CASE RecordFails(w)
  BY <1>1, <1>10 DEF RecordFails, Abandon, Working
<1> QED
  BY <1>2, <1>3, <1>4, <1>5, <1>6, <1>7, <1>8, <1>9, <1>10

LEMMA TriggerStep == TriggerInv /\ [Next]_vars => TriggerInv'
<1> SUFFICES ASSUME TriggerInv, [Next]_vars PROVE TriggerInv'
  OBVIOUS
<1>1. ASSUME NEW scope \in Asked, Submit(scope) PROVE TriggerInv'
  BY <1>1, TriggerSubmit
<1>2. ASSUME NEW w \in Workers, NEW scope \in Asked, Fire(w, scope) PROVE TriggerInv'
  BY <1>2, TriggerFire
<1>3. ASSUME NEW w \in Workers, TakeRequest(w) PROVE TriggerInv'
  BY <1>3, TriggerTake
<1>4. ASSUME NEW w \in Workers, OpenTrigger(w) PROVE TriggerInv'
  BY <1>4, TriggerOpened
<1>5. ASSUME NEW w \in Workers, CloseTrigger(w) PROVE TriggerInv'
  BY <1>5, TriggerClosed
<1>6. ASSUME NEW w \in Workers,
             \/ OpenSession(w) \/ SessionFails(w) \/ NoMoreModules(w) \/ NextModule(w)
             \/ Fetch(w) \/ ModuleFails(w) \/ Score(w) \/ RecordRun(w)
             \/ RecordComponents(w) \/ RecordFails(w)
      PROVE  TriggerInv'
  BY <1>6, WorkStep, TriggerGoesOn
<1>7. ASSUME NEW w \in Workers, OpenTriggerFails(w) \/ CloseTriggerFails(w) \/ RecordEvent(w)
      PROVE  TriggerInv'
  <2>1. /\ UNCHANGED <<asked, queue, trigger_log>>
        /\ pc' = [pc EXCEPT ![w] = "free"] /\ job' = [job EXCEPT ![w] = NoJob]
    BY <1>7 DEF OpenTriggerFails, CloseTriggerFails, RecordEvent, Leave, tables
  <2> QED
    BY <2>1, TriggerLeave, {w} \in SUBSET Workers DEF TriggerInv, JobOK
<1>8. CASE Crash
  BY <1>8, TriggerLeave DEF Crash
<1>9. CASE UNCHANGED vars
  BY <1>9 DEF vars, tables, TriggerInv, JobOK, TidsOK, LogOK
<1> QED
  BY <1>1, <1>2, <1>3, <1>4, <1>5, <1>6, <1>7, <1>8, <1>9 DEF Next, Step, Finished

LEMMA ClosedRowsStand ==
    ASSUME TriggerInv, Next, NEW tid \in Closed
    PROVE  tid \in DOMAIN trigger_log' /\ trigger_log'[tid] = trigger_log[tid]
<1>1. tid \in DOMAIN trigger_log /\ trigger_log[tid].status # "running"
  BY DEF Closed
<1>2. ASSUME NEW w \in Workers, OpenTrigger(w)
      PROVE  tid \in DOMAIN trigger_log' /\ trigger_log'[tid] = trigger_log[tid]
  <2>1. job[w].tid \notin DOMAIN trigger_log
    BY <1>2, TriggerOpened
  <2> QED
    BY <1>1, <1>2, <2>1 DEF OpenTrigger
<1>3. ASSUME NEW w \in Workers, CloseTrigger(w)
      PROVE  tid \in DOMAIN trigger_log' /\ trigger_log'[tid] = trigger_log[tid]
  BY <1>1, <1>3, TriggerClosed
<1>4. ASSUME NEW w \in Workers,
             \/ OpenSession(w) \/ SessionFails(w) \/ NoMoreModules(w) \/ NextModule(w)
             \/ Fetch(w) \/ ModuleFails(w) \/ Score(w) \/ RecordRun(w)
             \/ RecordComponents(w) \/ RecordFails(w)
      PROVE  UNCHANGED trigger_log
  BY <1>4, WorkStep
<1>5. ASSUME NEW w \in Workers, \/ OpenTriggerFails(w) \/ CloseTriggerFails(w)
                                \/ RecordEvent(w) \/ TakeRequest(w)
      PROVE  UNCHANGED trigger_log
  BY <1>5 DEF OpenTriggerFails, CloseTriggerFails, RecordEvent, TakeRequest, tables
<1>6. ASSUME NEW scope \in Asked, Submit(scope) PROVE UNCHANGED trigger_log
  BY <1>6 DEF Submit, tables
<1>7. ASSUME NEW w \in Workers, NEW scope \in Asked, Fire(w, scope) PROVE UNCHANGED trigger_log
  BY <1>7 DEF Fire, tables
<1>8. Crash \/ Finished => UNCHANGED trigger_log
  BY DEF Crash, Finished, vars, tables
<1> QED
  BY <1>1, <1>2, <1>3, <1>4, <1>5, <1>6, <1>7, <1>8 DEF Next, Step

LEMMA RunsAreKept ==
    ASSUME Next PROVE pdm_run \subseteq pdm_run'
<1>1. ASSUME NEW w \in Workers, RecordRun(w) PROVE pdm_run \subseteq pdm_run'
  BY <1>1 DEF RecordRun
<1>2. ASSUME NEW scope \in Asked, Submit(scope) PROVE UNCHANGED pdm_run
  BY <1>2 DEF Submit, tables
<1>3. ASSUME NEW w \in Workers, NEW scope \in Asked, Fire(w, scope) PROVE UNCHANGED pdm_run
  BY <1>3 DEF Fire, tables
<1>4. ASSUME NEW w \in Workers,
             \/ TakeRequest(w) \/ OpenTrigger(w) \/ OpenSession(w) \/ SessionFails(w)
             \/ NoMoreModules(w) \/ NextModule(w) \/ Fetch(w) \/ ModuleFails(w)
      PROVE  UNCHANGED pdm_run
  BY <1>4 DEF TakeRequest, OpenTrigger, OpenSession, SessionFails, NoMoreModules, NextModule,
     Fetch, ModuleFails, tables
<1>5. ASSUME NEW w \in Workers,
             \/ Score(w) \/ RecordComponents(w) \/ CloseTrigger(w) \/ RecordEvent(w)
             \/ OpenTriggerFails(w) \/ RecordFails(w) \/ CloseTriggerFails(w)
      PROVE  UNCHANGED pdm_run
  BY <1>5 DEF Score, RecordComponents, CloseTrigger, RecordEvent, OpenTriggerFails,
     RecordFails, CloseTriggerFails, tables
<1>6. Crash \/ Finished => UNCHANGED pdm_run
  BY DEF Crash, Finished, vars, tables
<1> QED
  BY <1>1, <1>2, <1>3, <1>4, <1>5, <1>6 DEF Next, Step

(* No step changes what a closed trigger reported, drops a stored run or gives *)
(* its run_uid to another: later requests, other workers, failures, restarts.  *)
THEOREM HistoryKept == Spec => HistoryStands
<1> DEFINE Stands ==
        /\ \A tid \in Closed :
                tid \in DOMAIN trigger_log' /\ trigger_log'[tid] = trigger_log[tid]
        /\ \A r \in pdm_run :
                r \in pdm_run' /\ \A q \in pdm_run' : q.uid = r.uid => q = r
<1>1. TriggerInv /\ RunInv' /\ [Next]_vars => [Stands]_vars
  <2> SUFFICES ASSUME TriggerInv, RunInv', Next PROVE Stands
    OBVIOUS
  <2> QED
    BY ClosedRowsStand, RunsAreKept DEF RunInv, UidsOK
<1> QED
  BY <1>1, RunInit, RunStep, TriggerInit, TriggerStep, PTL DEF Spec, HistoryStands


(* Some worker is between opening and closing the trigger. *)
InHand(tid) == \E w \in Workers : pc[w] \in Working /\ job[w].tid = tid

RunningInv == \A tid \in DOMAIN trigger_log \ Closed : InHand(tid)

(* A step that changes no trigger row and lets no worker drop an open trigger. *)
LEMMA RunningStays ==
    ASSUME RunningInv, UNCHANGED trigger_log,
           \A w \in Workers : pc[w] \in Working =>
                pc'[w] \in Working /\ job'[w].tid = job[w].tid
    PROVE  RunningInv'
BY DEF RunningInv, InHand, Closed

LEMMA RunningOpened ==
    ASSUME TriggerInv, RunningInv, NEW w \in Workers, OpenTrigger(w)
    PROVE  RunningInv'
<1>1. /\ pc'[w] = "session" /\ pc[w] = "open" /\ job' = job
      /\ \A v \in Workers \ {w} : pc'[v] = pc[v]
  BY DEF OpenTrigger, Goto, TriggerInv, JobOK
<1>2. \A v \in Workers : pc[v] \in Working => pc'[v] \in Working
  BY <1>1 DEF Working
<1>3. pc'[w] \in Working
  BY <1>1 DEF Working
<1>4. /\ DOMAIN trigger_log' = DOMAIN trigger_log \cup {job[w].tid}
      /\ \A t \in DOMAIN trigger_log \ {job[w].tid} : trigger_log'[t] = trigger_log[t]
  BY DEF OpenTrigger
<1> QED
  BY <1>1, <1>2, <1>3, <1>4 DEF RunningInv, InHand, Closed

LEMMA RunningClosed ==
    ASSUME TriggerInv, RunningInv, NEW w \in Workers, CloseTrigger(w)
    PROVE  RunningInv'
<1> DEFINE t == job[w].tid
<1>1. /\ pc[w] = "close" /\ job' = job /\ \A v \in Workers \ {w} : pc'[v] = pc[v]
  BY DEF CloseTrigger, Goto, TriggerInv, JobOK
<1>2. /\ t \in DOMAIN trigger_log /\ DOMAIN trigger_log' = DOMAIN trigger_log
      /\ \A u \in DOMAIN trigger_log \ {t} : trigger_log'[u] = trigger_log[u]
  BY TriggerClosed
<1>3. trigger_log'[t].status # "running"
  BY <1>2 DEF CloseTrigger, Outcome
<1>4. \A u \in DOMAIN trigger_log' \ Closed' : u # t /\ u \in DOMAIN trigger_log \ Closed
  BY <1>2, <1>3 DEF Closed
<1> HIDE DEF t
<1>5. \A u \in DOMAIN trigger_log \ Closed :
        \E v \in Workers : pc[v] \in Working /\ job[v].tid = u
  BY DEF RunningInv, InHand
<1>6. \A u \in DOMAIN trigger_log' \ Closed' : InHand(u)'
  BY <1>1, <1>4, <1>5 DEF t, InHand
<1> QED
  BY <1>6 DEF RunningInv

(* While no storage call fails and the server does not die, a trigger shown as *)
(* running has a worker between its opening and its closing. A failed close or  *)
(* a crash (MCRunnerCrash.cfg) leaves one that has none.                        *)
THEOREM RunningIsInHand ==
    ASSUME ~StorageMayFail, ~MayCrash
    PROVE  Spec => []RunningMeansInProgress
<1>1. Init => RunningInv
  BY DEF Init, RunningInv
<1>2. TriggerInv /\ RunningInv /\ [Next]_vars => RunningInv'
  <2> SUFFICES ASSUME TriggerInv, RunningInv, [Next]_vars PROVE RunningInv'
    OBVIOUS
  <2>1. DOMAIN pc = Workers /\ DOMAIN job = Workers
    BY DEF TriggerInv, JobOK
  <2>2. ASSUME NEW scope \in Asked, Submit(scope) PROVE RunningInv'
    BY <2>2, RunningStays DEF Submit, tables
  <2>3. ASSUME NEW w \in Workers, NEW tid, NEW scope, Begin(w, tid, scope),
               UNCHANGED trigger_log
        PROVE  RunningInv'
    <3>1. pc[w] = "free" \/ UNCHANGED <<pc, job>>
      BY <2>3 DEF Begin, Goto
    <3>2. \A v \in Workers \ {w} : pc'[v] = pc[v] /\ job'[v] = job[v]
      BY <2>1, <2>3 DEF Begin, Goto
    <3> QED
      BY <2>3, <3>1, <3>2, RunningStays DEF Working
  <2>4. ASSUME NEW w \in Workers, NEW scope \in Asked, Fire(w, scope) PROVE RunningInv'
    BY <2>3, <2>4 DEF Fire, tables
  <2>5. ASSUME NEW w \in Workers, TakeRequest(w) PROVE RunningInv'
    BY <2>3, <2>5 DEF TakeRequest, tables
  <2>6. ASSUME NEW w \in Workers,
               \/ OpenSession(w) \/ SessionFails(w) \/ NoMoreModules(w) \/ NextModule(w)
               \/ Fetch(w) \/ ModuleFails(w) \/ Score(w) \/ RecordRun(w)
               \/ RecordComponents(w)
        PROVE  RunningInv'
    BY <2>1, <2>6, WorkStep, RunningStays
  <2>7. ASSUME NEW w \in Workers, RecordEvent(w) PROVE RunningInv'
    <3>1. pc[w] = "event" /\ UNCHANGED trigger_log
      BY <2>7 DEF RecordEvent
    <3>2. \A v \in Workers \ {w} : pc'[v] = pc[v] /\ job'[v] = job[v]
      BY <2>1, <2>7 DEF RecordEvent, Leave
    <3> QED
      BY <3>1, <3>2, RunningStays DEF Working
  <2>8. ASSUME NEW w \in Workers, OpenTrigger(w) \/ CloseTrigger(w) PROVE RunningInv'
    BY <2>8, RunningOpened, RunningClosed
  <2>9. ASSUME NEW w \in Workers,
               OpenTriggerFails(w) \/ RecordFails(w) \/ CloseTriggerFails(w)
        PROVE  FALSE
    BY <2>9 DEF OpenTriggerFails, RecordFails, CloseTriggerFails, StorageFault
  <2>10. ~Crash
    BY DEF Crash
  <2>11. CASE UNCHANGED vars
    BY <2>11, RunningStays DEF vars, tables
  <2> QED
    BY <2>2, <2>4, <2>5, <2>6, <2>7, <2>8, <2>9, <2>10, <2>11 DEF Next, Step, Finished
<1>3. RunningInv => RunningMeansInProgress
  BY DEF RunningInv, InHand, RunningMeansInProgress, Working
<1> QED
  BY <1>1, <1>2, <1>3, TriggerInit, TriggerStep, PTL DEF Spec


(* A stored run belongs to an open or closed trigger: a closed one reports it, *)
(* and the worker of an open one has its result or is still at its components.  *)
Accounted(r) ==
    /\ r.tid \in DOMAIN trigger_log
    /\ r.tid \in Closed =>
            Result(r.module, r.uid, r.status) \in trigger_log[r.tid].results
    /\ \A w \in Workers : pc[w] \in Working /\ job[w].tid = r.tid =>
            \/ Result(r.module, r.uid, r.status) \in job[w].results
            \/ /\ pc[w] = "components" /\ cur[w].module = r.module
               /\ cur[w].uid = r.uid /\ cur[w].status = r.status

ReportInv == \A r \in pdm_run : Accounted(r)

(* Workers that begin, leave or go on keep the accounts: no row changes, no    *)
(* result is dropped, and none moves on from its components.                   *)
LEMMA ReportIdle ==
    ASSUME ReportInv, UNCHANGED <<trigger_log, pdm_run>>,
           \A w \in Workers : pc'[w] \in Working =>
              /\ pc[w] \in Working /\ job'[w].tid = job[w].tid
              /\ job[w].results \subseteq job'[w].results
              /\ pc[w] # "components" \/ (pc'[w] = pc[w] /\ cur'[w] = cur[w])
    PROVE  ReportInv'
BY DEF ReportInv, Accounted, Closed

LEMMA ReportOpened ==
    ASSUME TriggerInv, ReportInv, NEW w \in Workers, OpenTrigger(w)
    PROVE  ReportInv'
<1> DEFINE t == job[w].tid
<1>1. /\ DOMAIN trigger_log' = DOMAIN trigger_log \cup {t}
      /\ \A u \in DOMAIN trigger_log \ {t} : trigger_log'[u] = trigger_log[u]
      /\ UNCHANGED <<job, cur, pdm_run>>
  BY DEF OpenTrigger
<1>2. t \notin DOMAIN trigger_log
  BY TriggerOpened
<1>3. \A r \in pdm_run : r.tid # t
  BY <1>2 DEF ReportInv, Accounted
<1>4. /\ pc'[w] = "session" /\ \A v \in Workers \ {w} : pc'[v] = pc[v]
  BY DEF OpenTrigger, Goto, TriggerInv, JobOK
<1> HIDE DEF t
<1>5. ASSUME NEW r \in pdm_run PROVE Accounted(r)'
  <2>1. r.tid \in DOMAIN trigger_log /\ r.tid # t
    BY <1>3 DEF ReportInv, Accounted
  <2>2. trigger_log'[r.tid] = trigger_log[r.tid] /\ r.tid \in DOMAIN trigger_log'
    BY <1>1, <2>1
  <2>3. r.tid \in Closed' => r.tid \in Closed
    BY <2>1, <2>2 DEF Closed
  <2>4. \A v \in Workers : job'[v].tid = r.tid => v # w
    BY <1>1, <2>1 DEF t
  <2> QED
    BY <1>1, <1>4, <2>1, <2>2, <2>3, <2>4 DEF ReportInv, Accounted
<1> QED
  BY <1>1, <1>5 DEF ReportInv

LEMMA ReportClosed ==
    ASSUME TriggerInv, ReportInv, NEW w \in Workers, CloseTrigger(w)
    PROVE  ReportInv'
<1> DEFINE t == job[w].tid
<1>1. /\ pc[w] = "close" /\ pc'[w] = "event" /\ UNCHANGED <<job, cur, pdm_run>>
      /\ \A v \in Workers \ {w} : pc'[v] = pc[v]
  BY DEF CloseTrigger, Goto, TriggerInv, JobOK
<1>2. /\ t \in DOMAIN trigger_log /\ DOMAIN trigger_log' = DOMAIN trigger_log
      /\ \A u \in DOMAIN trigger_log \ {t} : trigger_log'[u] = trigger_log[u]
  BY TriggerClosed
<1>3. trigger_log'[t].results = job[w].results
  BY <1>2 DEF CloseTrigger
<1>4. pc[w] \in Working /\ pc'[w] \notin Working
  BY <1>1 DEF Working
<1> HIDE DEF t
<1>5. ASSUME NEW r \in pdm_run PROVE Accounted(r)'
  <2>1. /\ r.tid \in DOMAIN trigger_log'
        /\ \A v \in Workers : pc'[v] \in Working /\ job'[v].tid = r.tid =>
              \/ Result(r.module, r.uid, r.status) \in job'[v].results
              \/ /\ pc'[v] = "components" /\ cur'[v].module = r.module
                 /\ cur'[v].uid = r.uid /\ cur'[v].status = r.status
    BY <1>1, <1>2, <1>4 DEF ReportInv, Accounted
  <2>2. CASE r.tid = t
    <3>1. Result(r.module, r.uid, r.status) \in job[w].results
      BY <1>1, <1>4, <2>2 DEF ReportInv, Accounted, t
    <3> QED
      BY <1>3, <2>1, <2>2, <3>1 DEF Accounted
  <2>3. CASE r.tid # t
    <3>1. trigger_log'[r.tid] = trigger_log[r.tid]
      BY <1>2, <2>1, <2>3
    <3>2. r.tid \in Closed' => r.tid \in Closed
      BY <1>2, <3>1 DEF Closed
    <3> QED
      BY <2>1, <3>1, <3>2 DEF ReportInv, Accounted
  <2> QED
    BY <2>2, <2>3
<1> QED
  BY <1>1, <1>5 DEF ReportInv

LEMMA ReportRecorded ==
    ASSUME TriggerInv, ReportInv, NEW w \in Workers, RecordRun(w),
           DOMAIN cur = Workers,
           DOMAIN cur[w] = {"uid", "module", "status", "scored"}
    PROVE  ReportInv'
<1> DEFINE new == [uid |-> cur[w].uid, module |-> cur[w].module, tid |-> job[w].tid,
                   status |-> cur[w].status, scored |-> cur[w].scored]
           res == Result(cur[w].module, cur[w].uid, cur[w].status)
<1>1. /\ pc[w] = "record" /\ pdm_run' = pdm_run \cup {new} /\ UNCHANGED trigger_log
  BY DEF RecordRun
<1>2. job[w].tid \in DOMAIN trigger_log /\ job[w].tid \notin Closed
  BY <1>1 DEF TriggerInv, LogOK, Working, Closed
<1>3. /\ job'[w].tid = job[w].tid /\ job[w].results \subseteq job'[w].results
      /\ \A v \in Workers \ {w} : pc'[v] = pc[v] /\ job'[v] = job[v] /\ cur'[v] = cur[v]
      /\ res \in job'[w].results \/ (pc'[w] = "components" /\ cur' = cur)
  BY <1>1 DEF RecordRun, Report, TriggerInv, JobOK
<1>4. pc[w] \in Working /\ pc[w] # "components"
  BY <1>1 DEF Working
<1>5. \A v \in Workers : v # w /\ pc[v] \in Working => job[v].tid # job[w].tid
  BY <1>1 DEF TriggerInv, TidsOK, Working
<1>6. ASSUME NEW r \in pdm_run PROVE Accounted(r)'
  BY <1>1, <1>3, <1>4 DEF ReportInv, Accounted, Closed
<1>7. ASSUME NEW r, r = new PROVE Accounted(r)'
  <2>1. /\ r.tid = job[w].tid /\ r.module = cur[w].module /\ r.uid = cur[w].uid
        /\ r.status = cur[w].status
    BY <1>7
  <2>2. r.tid \in DOMAIN trigger_log' /\ r.tid \notin Closed'
    BY <1>1, <1>2, <2>1 DEF Closed
  <2>3. \A v \in Workers : pc'[v] \in Working /\ job'[v].tid = r.tid => v = w
    BY <1>3, <1>5, <2>1
  <2> QED
    BY <1>3, <2>1, <2>2, <2>3 DEF Accounted
<1> HIDE DEF new
<1> QED
  BY <1>1, <1>6, <1>7 DEF ReportInv

LEMMA ReportStep ==
    ASSUME ~StorageMayFail, TriggerInv, RunInv, ReportInv, [Next]_vars
    PROVE  ReportInv'
<1>1. /\ DOMAIN pc = Workers /\ DOMAIN job = Workers /\ DOMAIN cur = Workers
      /\ \A w \in Workers : DOMAIN job[w] = {"tid", "scope", "todo", "results"}
      /\ \A w \in Workers : DOMAIN cur[w] = {"uid", "module", "status", "scored"}
  BY DEF TriggerInv, JobOK, RunInv, CurOK
<1>2. ASSUME NEW scope \in Asked, Submit(scope) PROVE ReportInv'
  BY <1>2, ReportIdle DEF Submit, tables
<1>3. ASSUME NEW w \in Workers, NEW tid, NEW scope, Begin(w, tid, scope),
             UNCHANGED <<trigger_log, pdm_run, cur>>
      PROVE  ReportInv'
  <2>1. pc'[w] \notin Working \/ UNCHANGED <<pc, job>>
    BY <1>1, <1>3 DEF Begin, Goto, Working
  <2>2. \A v \in Workers \ {w} : pc'[v] = pc[v] /\ job'[v] = job[v]
    BY <1>1, <1>3 DEF Begin, Goto
  <2> QED
    BY <1>3, <2>1, <2>2, ReportIdle
<1>4. ASSUME NEW w \in Workers, NEW scope \in Asked, Fire(w, scope) PROVE ReportInv'
  BY <1>3, <1>4 DEF Fire, tables
<1>5. ASSUME NEW w \in Workers, TakeRequest(w) PROVE ReportInv'
  BY <1>3, <1>5 DEF TakeRequest, tables
<1>6. ASSUME NEW w \in Workers, OpenTrigger(w) PROVE ReportInv'
  BY <1>6, ReportOpened
<1>7. ASSUME NEW w \in Workers, CloseTrigger(w) PROVE ReportInv'
  BY <1>7, ReportClosed
<1>8. ASSUME NEW w \in Workers, RecordRun(w) PROVE ReportInv'
  BY <1>1, <1>8, ReportRecorded
<1>9. ASSUME NEW w \in Workers, OpenSession(w) \/ NoMoreModules(w) PROVE ReportInv'
  <2>1. /\ UNCHANGED <<job, cur, trigger_log, pdm_run>> /\ pc[w] \in Working
        /\ pc[w] # "components" /\ \A v \in Workers \ {w} : pc'[v] = pc[v]
    BY <1>1, <1>9 DEF OpenSession, NoMoreModules, Goto, tables, Working
  <2> QED
    BY <2>1, ReportIdle
<1>10. ASSUME NEW w \in Workers, SessionFails(w) PROVE ReportInv'
  <2>1. /\ UNCHANGED <<trigger_log, pdm_run>> /\ pc[w] \in Working /\ pc[w] # "components"
        /\ job'[w].tid = job[w].tid /\ job[w].results \subseteq job'[w].results
        /\ \A v \in Workers \ {w} : pc'[v] = pc[v] /\ job'[v] = job[v] /\ cur'[v] = cur[v]
    BY <1>1, <1>10 DEF SessionFails, Abandon, tables, Working
  <2> QED
    BY <2>1, ReportIdle
<1>11. ASSUME NEW w \in Workers, NextModule(w) PROVE ReportInv'
  <2>1. UNCHANGED <<trigger_log, pdm_run>>
    BY <1>11 DEF NextModule, tables
  <2>2. /\ pc[w] = "next" /\ \E m : job' = [job EXCEPT ![w].todo = @ \ {m}]
        /\ \A v \in Workers \ {w} : pc'[v] = pc[v] /\ cur'[v] = cur[v]
    BY <1>1, <1>11, TakesModule
  <2> QED
    BY <1>1, <2>1, <2>2, ReportIdle DEF Working
<1>12. ASSUME NEW w \in Workers, Fetch(w) \/ ModuleFails(w) \/ Score(w) PROVE ReportInv'
  <2>1. /\ UNCHANGED <<job, trigger_log, pdm_run>> /\ pc[w] \in Working
        /\ pc[w] # "components"
        /\ \A v \in Workers \ {w} : pc'[v] = pc[v] /\ cur'[v] = cur[v]
    BY <1>1, <1>12 DEF Fetch, ModuleFails, Score, Goto, tables, Working
  <2> QED
    BY <2>1, ReportIdle
<1>13. ASSUME NEW w \in Workers, RecordComponents(w) PROVE ReportInv'
  <2> DEFINE res == Result(cur[w].module, cur[w].uid, cur[w].status)
  <2>1. /\ UNCHANGED <<trigger_log, pdm_run>> /\ pc[w] = "components" /\ pc'[w] = "next"
        /\ job'[w].tid = job[w].tid /\ job'[w].results = job[w].results \cup {res}
        /\ \A v \in Workers \ {w} : pc'[v] = pc[v] /\ job'[v] = job[v] /\ cur'[v] = cur[v]
    BY <1>1, <1>13 DEF RecordComponents, Report, Goto
  <2>2. pc[w] \in Working
    BY <2>1 DEF Working
  <2> QED
    BY <2>1, <2>2 DEF ReportInv, Accounted, Closed
<1>14. ASSUME NEW w \in Workers, RecordEvent(w) PROVE ReportInv'
  <2>1. /\ UNCHANGED <<trigger_log, pdm_run>> /\ pc'[w] = "free"
        /\ \A v \in Workers \ {w} : pc'[v] = pc[v] /\ job'[v] = job[v] /\ cur'[v] = cur[v]
    BY <1>1, <1>14 DEF RecordEvent, Leave
  <2> QED
    BY <2>1, ReportIdle DEF Working
<1>15. ASSUME NEW w \in Workers, OpenTriggerFails(w) \/ RecordFails(w) \/ CloseTriggerFails(w)
       PROVE  FALSE
  BY <1>15 DEF OpenTriggerFails, RecordFails, CloseTriggerFails, StorageFault
<1>16. CASE Crash
  BY <1>16, ReportIdle DEF Crash, Working
<1>17. CASE UNCHANGED vars
  BY <1>17, ReportIdle DEF vars, tables
<1> QED
  BY <1>2, <1>4, <1>5, <1>6, <1>7, <1>8, <1>9, <1>10, <1>11, <1>12, <1>13, <1>14, <1>15,
     <1>16, <1>17 DEF Next, Step, Finished

(* While no storage call fails, a closed trigger reports every run stored      *)
(* under it, with its status, even when the server dies in between.            *)
THEOREM RunsAreReported ==
    ASSUME ~StorageMayFail
    PROVE  Spec => []AllRunsReported
<1>1. Init => ReportInv
  BY DEF Init, ReportInv
<1>2. TriggerInv /\ RunInv /\ ReportInv /\ [Next]_vars => ReportInv'
  BY ReportStep
<1>3. ReportInv => AllRunsReported
  BY DEF ReportInv, Accounted, AllRunsReported
<1> QED
  BY <1>1, <1>2, <1>3, RunInit, RunStep, TriggerInit, TriggerStep, PTL DEF Spec


-----------------------------------------------------------------------------
(* Types *)

JobType == [tid : 0..MaxRequests, scope : Scopes, todo : SUBSET Modules,
            results : SUBSET ResultType]
CurType == [uid : Nat, module : Modules \union {All}, status : {"success", "failed"},
            scored : Nat]

(* Requests, workers and what they hold. *)
WorkTypes ==
    /\ asked \in Seq(Scopes) /\ Len(asked) <= MaxRequests
    /\ queue \in Seq(Trigger)
    /\ pc \in [Workers -> Labels]
    /\ job \in [Workers -> JobType]
    /\ cur \in [Workers -> CurType]

LogTypes ==
    /\ DOMAIN trigger_log \subseteq Trigger
    /\ \A tid \in DOMAIN trigger_log :
         trigger_log[tid] \in [status : Statuses \union {"running"},
                               success : Nat, failure : Nat,
                               results : SUBSET ResultType]

StoreTypes ==
    /\ pdm_run \subseteq RunType
    /\ component_health \subseteq [uid : Nat \ {0}, module : Modules,
                                   component : Nat \ {0}]
    /\ panel_catalog \subseteq Modules
    /\ raw \subseteq Nat
    /\ event_log \subseteq Trigger
    /\ uids \in Nat /\ faults \in Nat

(* A worker has the scope its trigger was asked with, which names modules that *)
(* are registered, and a module run of one of them.                            *)
Scoped(w) ==
    /\ pc[w] # "free" => /\ job[w].scope \notin Unknown
                         /\ asked[job[w].tid] = job[w].scope
    /\ pc[w] \in Active => cur[w].module \in Modules
    /\ IsFiniteSet(job[w].results)

TypeInv ==
    /\ WorkTypes /\ LogTypes /\ StoreTypes
    /\ \A w \in Workers : Scoped(w)

LEMMA TypeInvType == TypeInv => TypeOK
BY DEF TypeInv, WorkTypes, LogTypes, StoreTypes, TypeOK, JobType, CurType

(* The modules are finitely many: the registry lists them. *)
LEMMA ModulesFinite == IsFiniteSet(Modules)
<1> DEFINE f == [i \in 1..Len(Registry) |-> Registry[i]]
<1>1. Len(Registry) \in Nat /\ DOMAIN Registry = 1..Len(Registry)
  BY RegistryAssumption
<1>2. f \in Surjection(1..Len(Registry), Modules)
  BY <1>1, RegistryAssumption DEF Surjection
<1>3. IsFiniteSet(1..Len(Registry))
  BY <1>1, FS_Interval
<1> QED
  BY <1>2, <1>3, FS_Surjection

LEMMA PlannedModules ==
    ASSUME NEW scope \in Scopes \ Unknown
    PROVE  Planned(scope) \subseteq Modules /\ IsFiniteSet(Planned(scope))
<1>1. Planned(scope) \subseteq Modules
  BY RegistryAssumption DEF Planned, Scopes
<1> QED
  BY <1>1, ModulesFinite, FS_Subset

(* What Abandon adds: a failure, with no run_uid, of each module without result. *)
Missing(w) ==
    {Result(m, 0, "failed") :
        m \in Planned(job[w].scope) \ {r.module : r \in job[w].results}}

LEMMA MissingTypes ==
    ASSUME TypeInv, NEW w \in Workers, pc[w] # "free"
    PROVE  Missing(w) \subseteq ResultType /\ IsFiniteSet(Missing(w))
<1> DEFINE S == Planned(job[w].scope) \ {r.module : r \in job[w].results}
           f == [m \in S |-> Result(m, 0, "failed")]
<1>1. job[w].scope \in Scopes \ Unknown
  BY DEF TypeInv, WorkTypes, JobType, Scoped
<1>2. S \subseteq Modules /\ IsFiniteSet(S)
  BY <1>1, PlannedModules, FS_Subset
<1>3. f \in Surjection(S, Missing(w))
  BY DEF Surjection, Missing
<1>4. IsFiniteSet(Missing(w))
  BY <1>2, <1>3, FS_Surjection
<1>5. Missing(w) \subseteq ResultType
  BY <1>2 DEF Missing, Result, ResultType
<1> QED
  BY <1>4, <1>5

LEMMA TypeInit == Init => TypeInv
<1> SUFFICES ASSUME Init PROVE TypeInv
  OBVIOUS
<1>1. <<>> \in Seq(Scopes) /\ <<>> \in Seq(Trigger) /\ Len(<<>>) = 0
  BY SMT
<1>2. NoJob \in JobType /\ NoRun \in CurType
  BY BoundAssumption DEF NoJob, NoRun, JobType, CurType, Scopes
<1>3. WorkTypes
  BY <1>1, <1>2, BoundAssumption DEF Init, WorkTypes, Labels
<1>4. LogTypes /\ StoreTypes
  BY DEF Init, LogTypes, StoreTypes
<1>5. \A w \in Workers : Scoped(w)
  BY FS_EmptySet DEF Init, Scoped, NoJob, Active
<1> QED
  BY <1>3, <1>4, <1>5 DEF TypeInv

(* A worker goes on, on its own. *)
LEMMA TypeGoesOn ==
    ASSUME TypeInv, NEW w \in Workers, UNCHANGED asked,
           queue' \in Seq(Trigger), LogTypes', StoreTypes',
           NEW to \in Labels, pc' = [pc EXCEPT ![w] = to],
           NEW j \in JobType, job' = [job EXCEPT ![w] = j], IsFiniteSet(j.results),
           NEW c \in CurType, cur' = [cur EXCEPT ![w] = c],
           to # "free" => /\ j.scope \notin Unknown
                          /\ asked[j.tid] = j.scope,
           to \in Active => c.module \in Modules
    PROVE  TypeInv'
<1>1. WorkTypes'
  BY DEF TypeInv, WorkTypes
<1>2. /\ pc'[w] = to /\ job'[w] = j /\ cur'[w] = c
      /\ \A v \in Workers \ {w} : pc'[v] = pc[v] /\ job'[v] = job[v] /\ cur'[v] = cur[v]
  BY DEF TypeInv, WorkTypes
<1>3. ASSUME NEW v \in Workers PROVE Scoped(v)'
  <2>1. CASE v = w
    BY <1>2, <2>1 DEF Scoped
  <2>2. CASE v # w
    BY <1>2, <2>2 DEF TypeInv, Scoped
  <2> QED
    BY <2>1, <2>2
<1> QED
  BY <1>1, <1>3 DEF TypeInv

(* The worker goes on with its trigger, and to the label with its module run. *)
JobGoesOn(w) ==
    \E j \in JobType : /\ job' = [job EXCEPT ![w] = j] /\ IsFiniteSet(j.results)
                       /\ j.tid = job[w].tid /\ j.scope = job[w].scope

CurGoesOn(w, to) ==
    \E c \in CurType : /\ cur' = [cur EXCEPT ![w] = c]
                       /\ to \in Active => c.module \in Modules

LEMMA TypeMoves ==
    ASSUME TypeInv, NEW w \in Workers, pc[w] # "free", UNCHANGED <<asked, queue>>,
           LogTypes', StoreTypes', NEW to \in Labels, pc' = [pc EXCEPT ![w] = to],
           JobGoesOn(w), CurGoesOn(w, to)
    PROVE  TypeInv'
<1>1. PICK j \in JobType : /\ job' = [job EXCEPT ![w] = j] /\ IsFiniteSet(j.results)
                           /\ j.tid = job[w].tid /\ j.scope = job[w].scope
  BY DEF JobGoesOn
<1>2. PICK c \in CurType : /\ cur' = [cur EXCEPT ![w] = c]
                           /\ to \in Active => c.module \in Modules
  BY DEF CurGoesOn
<1>3. queue' \in Seq(Trigger)
  BY DEF TypeInv, WorkTypes
<1>4. j.scope \notin Unknown /\ asked[j.tid] = j.scope
  BY <1>1 DEF TypeInv, Scoped
<1> QED
  BY <1>1, <1>2, <1>3, <1>4, TypeGoesOn

LEMMA JobStays ==
    ASSUME TypeInv, NEW w \in Workers, UNCHANGED job
    PROVE  JobGoesOn(w)
<1>1. job[w] \in JobType /\ job = [job EXCEPT ![w] = job[w]] /\ IsFiniteSet(job[w].results)
  BY DEF TypeInv, WorkTypes, Scoped
<1> QED
  BY <1>1 DEF JobGoesOn

LEMMA CurStays ==
    ASSUME TypeInv, NEW w \in Workers, UNCHANGED cur, NEW to,
           to \in Active => pc[w] \in Active
    PROVE  CurGoesOn(w, to)
<1>1. cur[w] \in CurType /\ cur = [cur EXCEPT ![w] = cur[w]]
  BY DEF TypeInv, WorkTypes
<1> QED
  BY <1>1 DEF CurGoesOn, TypeInv, Scoped

LEMMA CurDropped ==
    ASSUME NEW w \in Workers, cur' = [cur EXCEPT ![w] = NoRun], NEW to, to \notin Active
    PROVE  CurGoesOn(w, to)
<1>1. NoRun \in CurType
  BY DEF NoRun, CurType
<1> QED
  BY <1>1 DEF CurGoesOn

(* Workers become free, and requests may be lost. *)
LEMMA TypeLeave ==
    ASSUME TypeInv, NEW W \in SUBSET Workers, UNCHANGED asked,
           queue' = queue \/ queue' = <<>>, LogTypes', StoreTypes',
           pc' = [w \in Workers |-> IF w \in W THEN "free" ELSE pc[w]],
           job' = [w \in Workers |-> IF w \in W THEN NoJob ELSE job[w]],
           cur' = [w \in Workers |-> IF w \in W THEN NoRun ELSE cur[w]]
    PROVE  TypeInv'
<1>1. <<>> \in Seq(Trigger)
  BY SMT
<1>2. NoJob \in JobType /\ NoRun \in CurType
  BY BoundAssumption DEF NoJob, NoRun, JobType, CurType, Scopes
<1>3. "free" \in Labels
  BY DEF Labels
<1>4. WorkTypes'
  BY <1>1, <1>2, <1>3 DEF TypeInv, WorkTypes
<1>5. \A w \in Workers : Scoped(w)'
  BY FS_EmptySet DEF TypeInv, Scoped, NoJob, Active
<1> QED
  BY <1>4, <1>5 DEF TypeInv

LEMMA TypeBegins ==
    ASSUME TypeInv, NEW w \in Workers, NEW tid \in Trigger, NEW scope,
           Begin(w, tid, scope), UNCHANGED <<cur, tables, uids, faults>>,
           asked' \in Seq(Scopes), Len(asked') <= MaxRequests,
           tid \in 1..Len(asked'), asked'[tid] = scope,
           \A v \in Workers : pc[v] # "free" => asked'[job[v].tid] = asked[job[v].tid],
           queue' \in Seq(Trigger)
    PROVE  TypeInv'
<1>1. LogTypes' /\ StoreTypes'
  BY DEF TypeInv, LogTypes, StoreTypes, tables
<1>2. CASE scope \in Unknown
  <2>1. UNCHANGED <<pc, job>>
    BY <1>2 DEF Begin
  <2>2. WorkTypes'
    BY <2>1 DEF TypeInv, WorkTypes
  <2>3. \A v \in Workers : Scoped(v)'
    BY <2>1 DEF TypeInv, Scoped
  <2> QED
    BY <1>1, <2>2, <2>3 DEF TypeInv
<1>3. CASE scope \notin Unknown
  <2> DEFINE j == [tid |-> tid, scope |-> scope, todo |-> Planned(scope), results |-> {}]
  <2>1. pc' = [pc EXCEPT ![w] = "open"] /\ job' = [job EXCEPT ![w] = j]
    BY <1>3 DEF Begin, Goto
  <2>2. scope \in Scopes \ Unknown
    BY <1>3
  <2>3. Planned(scope) \subseteq Modules
    BY <2>2, PlannedModules
  <2>4. tid \in 0..MaxRequests
    BY BoundAssumption DEF Trigger
  <2>5. j \in JobType /\ j.scope = scope /\ j.tid = tid /\ j.results = {}
    BY <2>2, <2>3, <2>4 DEF JobType
  <2> HIDE DEF j
  <2>6. "open" \in Labels /\ "open" \notin Active
    BY DEF Labels, Active
  <2>7. WorkTypes'
    BY <2>1, <2>5, <2>6 DEF TypeInv, WorkTypes
  <2>8. /\ pc'[w] = "open" /\ job'[w] = j
        /\ \A v \in Workers \ {w} : pc'[v] = pc[v] /\ job'[v] = job[v]
    BY <2>1 DEF TypeInv, WorkTypes
  <2>9. ASSUME NEW v \in Workers PROVE Scoped(v)'
    <3>1. CASE v = w
      BY <1>3, <2>5, <2>6, <2>8, <3>1, FS_EmptySet DEF Scoped
    <3>2. CASE v # w
      BY <2>8, <3>2 DEF TypeInv, Scoped
    <3> QED
      BY <3>1, <3>2
  <2> QED
    BY <1>1, <2>7, <2>9 DEF TypeInv
<1> QED
  BY <1>2, <1>3

LEMMA TypeSubmit ==
    ASSUME TypeInv, TriggerInv, NEW scope \in Asked, Submit(scope)
    PROVE  TypeInv'
<1>1. /\ Len(asked) < MaxRequests /\ asked' = Append(asked, scope)
      /\ queue' = Append(queue, Len(asked'))
      /\ UNCHANGED <<pc, job, cur, tables, uids, faults>>
  BY DEF Submit, NewTrigger
<1>2. scope \in Scopes /\ asked \in Seq(Scopes) /\ queue \in Seq(Trigger)
  BY RegistryAssumption DEF TypeInv, WorkTypes, Scopes
<1>3. /\ asked' \in Seq(Scopes) /\ Len(asked') = Len(asked) + 1
      /\ \A t \in 1..Len(asked) : asked'[t] = asked[t]
  BY <1>1, <1>2
<1>4. Len(asked') \in Trigger /\ Len(asked') <= MaxRequests
  BY <1>1, <1>2, <1>3, BoundAssumption, SMT DEF Trigger
<1>5. queue' \in Seq(Trigger)
  BY <1>1, <1>2, <1>4
<1>6. WorkTypes' /\ LogTypes' /\ StoreTypes'
  BY <1>1, <1>3, <1>4, <1>5 DEF TypeInv, WorkTypes, LogTypes, StoreTypes, tables
<1>7. \A w \in Workers : Scoped(w)'
  BY <1>1, <1>3 DEF TypeInv, TriggerInv, TidsOK, Scoped
<1> QED
  BY <1>6, <1>7 DEF TypeInv

LEMMA TypeFire ==
    ASSUME TypeInv, TriggerInv, NEW w \in Workers, NEW scope \in Asked, Fire(w, scope)
    PROVE  TypeInv'
<1> DEFINE n == Len(asked')
<1>1. /\ Len(asked) < MaxRequests /\ asked' = Append(asked, scope)
      /\ Begin(w, n, scope) /\ UNCHANGED <<queue, cur, tables, uids, faults>>
  BY DEF Fire, NewTrigger
<1>2. scope \in Scopes /\ asked \in Seq(Scopes) /\ queue \in Seq(Trigger)
  BY RegistryAssumption DEF TypeInv, WorkTypes, Scopes
<1>3. /\ asked' \in Seq(Scopes) /\ n = Len(asked) + 1 /\ asked'[n] = scope
      /\ \A t \in 1..Len(asked) : asked'[t] = asked[t]
  BY <1>1, <1>2
<1>4. n \in Trigger /\ n <= MaxRequests /\ n \in 1..n
  BY <1>1, <1>2, <1>3, BoundAssumption, SMT DEF Trigger
<1>5. \A v \in Workers : pc[v] # "free" => asked'[job[v].tid] = asked[job[v].tid]
  BY <1>3 DEF TriggerInv, TidsOK
<1> HIDE DEF n
<1>6. queue' \in Seq(Trigger)
  BY <1>1, <1>2
<1> QED
  BY <1>1, <1>3, <1>4, <1>5, <1>6, TypeBegins DEF n

LEMMA TypeTake ==
    ASSUME TypeInv, TriggerInv, NEW w \in Workers, TakeRequest(w)
    PROVE  TypeInv'
<1> DEFINE t == Head(queue)
<1>1. /\ queue # <<>> /\ queue' = Tail(queue) /\ Begin(w, t, asked[t])
      /\ UNCHANGED <<asked, cur, tables, uids, faults>>
  BY DEF TakeRequest
<1>2. queue \in Seq(Trigger) /\ asked \in Seq(Scopes) /\ Len(asked) <= MaxRequests
  BY DEF TypeInv, WorkTypes
<1>3. t \in Trigger /\ queue' \in Seq(Trigger) /\ 1 \in DOMAIN queue /\ t = queue[1]
  BY <1>1, <1>2
<1>4. t \in 1..Len(asked')
  BY <1>1, <1>3 DEF TriggerInv, TidsOK
<1> HIDE DEF t
<1> QED
  BY <1>1, <1>2, <1>3, <1>4, TypeBegins

LEMMA TypeOpened ==
    ASSUME TypeInv, TriggerInv, NEW w \in Workers, OpenTrigger(w)
    PROVE  TypeInv'
<1>1. /\ pc[w] = "open" /\ pc' = [pc EXCEPT ![w] = "session"]
      /\ UNCHANGED <<asked, queue, job, cur, pdm_run, component_health,
                     panel_catalog, raw, event_log, uids, faults>>
  BY DEF OpenTrigger, Goto
<1>2. job[w].tid \in Trigger
  BY <1>1, BoundAssumption, SMT DEF TypeInv, WorkTypes, TriggerInv, TidsOK, Trigger
<1>3. LogTypes'
  <2>1. \A tid \in DOMAIN trigger_log' : tid = job[w].tid \/ tid \in DOMAIN trigger_log
    BY DEF OpenTrigger
  <2>2. \A tid \in DOMAIN trigger_log' :
          trigger_log'[tid] = IF tid = job[w].tid
            THEN [status |-> "running", success |-> 0, failure |-> 0, results |-> {}]
            ELSE trigger_log[tid]
    BY DEF OpenTrigger
  <2> QED
    BY <1>2, <2>1, <2>2 DEF TypeInv, LogTypes, Statuses
<1>4. StoreTypes'
  BY <1>1 DEF TypeInv, StoreTypes
<1>5. WorkTypes'
  BY <1>1 DEF TypeInv, WorkTypes, Labels
<1>6. \A v \in Workers : Scoped(v)'
  BY <1>1 DEF TypeInv, WorkTypes, Scoped, Active
<1> QED
  BY <1>3, <1>4, <1>5, <1>6 DEF TypeInv

LEMMA TypeClosed ==
    ASSUME TypeInv, TriggerInv, NEW w \in Workers, CloseTrigger(w)
    PROVE  TypeInv'
<1> DEFINE R == job[w].results
           row == [status |-> Outcome(R), success |-> Successes(R),
                   failure |-> Failures(R), results |-> R]
<1>1. /\ pc[w] = "close" /\ pc' = [pc EXCEPT ![w] = "event"]
      /\ trigger_log' = [trigger_log EXCEPT ![job[w].tid] = row]
      /\ UNCHANGED <<asked, queue, job, cur, pdm_run, component_health,
                     panel_catalog, raw, event_log, uids, faults>>
  BY DEF CloseTrigger, Goto
<1>2. IsFiniteSet(R) /\ R \subseteq ResultType
  BY DEF TypeInv, WorkTypes, JobType, Scoped
<1>3. Successes(R) \in Nat
  <2>1. IsFiniteSet({r \in R : r.status = "success"})
    BY <1>2, FS_Subset
  <2> QED
    BY <2>1, FS_CardinalityType DEF Successes
<1>4. Failures(R) \in Nat
  <2>1. IsFiniteSet({r \in R : r.status # "success"})
    BY <1>2, FS_Subset
  <2> QED
    BY <2>1, FS_CardinalityType DEF Failures
<1>5. Outcome(R) \in Statuses
  BY DEF Outcome, Statuses
<1>6. row \in [status : Statuses \union {"running"}, success : Nat, failure : Nat,
               results : SUBSET ResultType]
  BY <1>2, <1>3, <1>4, <1>5
<1> HIDE DEF row
<1>7. LogTypes'
  BY <1>1, <1>6 DEF TypeInv, LogTypes
<1>8. WorkTypes' /\ StoreTypes'
  BY <1>1 DEF TypeInv, WorkTypes, StoreTypes, Labels
<1>9. \A v \in Workers : Scoped(v)'
  BY <1>1 DEF TypeInv, WorkTypes, Scoped, Active
<1> QED
  BY <1>7, <1>8, <1>9 DEF TypeInv

HealthType == [uid : Nat \ {0}, module : Modules, component : Nat \ {0}]

LEMMA ActiveTypes ==
    ASSUME TypeInv, RunInv, NEW w \in Workers, pc[w] \in Active
    PROVE  /\ cur[w].uid \in Nat \ {0} /\ cur[w].module \in Modules
           /\ cur[w].status \in {"success", "failed"} /\ cur[w].scored \in Nat
<1>1. cur[w].uid \in 1..uids /\ uids \in Nat
  BY DEF RunInv, UidsOK
<1>2. cur[w].uid \in Nat \ {0}
  BY <1>1, SMT
<1> QED
  BY <1>2 DEF TypeInv, WorkTypes, CurType, Scoped

LEMMA HealthRowsTypes ==
    ASSUME TypeInv, RunInv, NEW w \in Workers, pc[w] \in Active, NEW n \in Int
    PROVE  HealthRows(cur[w], n) \subseteq HealthType
<1>1. \A i \in 1..n : i \in Nat \ {0}
  BY SMT
<1> QED
  BY <1>1, ActiveTypes DEF HealthRows, HealthType

LEMMA CutShortTypes ==
    ASSUME TypeInv, RunInv, NEW W \in SUBSET Workers, CutShort(W)
    PROVE  component_health' \subseteq HealthType
<1>1. component_health \subseteq HealthType
  BY DEF TypeInv, StoreTypes, HealthType
<1>2. CASE ~UNCHANGED component_health
  <2>1. PICK w \in W : /\ pc[w] = "components"
                       /\ \E n \in 1..(cur[w].scored - 1) :
                            component_health' = component_health \union HealthRows(cur[w], n)
    BY <1>2 DEF CutShort
  <2>2. PICK n \in 1..(cur[w].scored - 1) :
               component_health' = component_health \union HealthRows(cur[w], n)
    BY <2>1
  <2>3. n \in Int
    BY <2>2, SMT
  <2>4. pc[w] \in Active
    BY <2>1 DEF Active
  <2> QED
    BY <1>1, <2>2, <2>3, <2>4, HealthRowsTypes
<1> QED
  BY <1>1, <1>2

(* What Report and Abandon make of a job. *)
LEMMA ReportTypes ==
    ASSUME TypeInv, RunInv, NEW w \in Workers, pc[w] \in Active, Report(w)
    PROVE  JobGoesOn(w)
<1> DEFINE res == Result(cur[w].module, cur[w].uid, cur[w].status)
           j == [job[w] EXCEPT !.results = job[w].results \union {res}]
<1>1. res \in ResultType
  BY ActiveTypes DEF Result, ResultType
<1>2. job[w] \in JobType /\ IsFiniteSet(job[w].results)
  BY DEF TypeInv, WorkTypes, Scoped
<1>3. job' = [job EXCEPT ![w] = j]
  BY DEF Report
<1>4. IsFiniteSet(job[w].results \union {res})
  BY <1>2, FS_AddElement
<1> HIDE DEF res
<1>5. j \in JobType /\ j.results = job[w].results \union {res}
      /\ j.tid = job[w].tid /\ j.scope = job[w].scope
  BY <1>1, <1>2 DEF JobType
<1> QED
  BY <1>3, <1>4, <1>5 DEF JobGoesOn

LEMMA AbandonTypes ==
    ASSUME TypeInv, NEW w \in Workers, pc[w] # "free", Abandon(w)
    PROVE  JobGoesOn(w)
<1> DEFINE j == [job[w] EXCEPT !.todo = {}, !.results = job[w].results \union Missing(w)]
<1>1. job[w] \in JobType /\ IsFiniteSet(job[w].results) /\ DOMAIN job = Workers
  BY DEF TypeInv, WorkTypes, Scoped
<1>2. Missing(w) \subseteq ResultType /\ IsFiniteSet(Missing(w))
  BY MissingTypes
<1>3. IsFiniteSet(job[w].results \union Missing(w))
  BY <1>1, <1>2, FS_Union
<1>4. j \in JobType /\ j.results = job[w].results \union Missing(w)
      /\ j.tid = job[w].tid /\ j.scope = job[w].scope
  BY <1>1, <1>2 DEF JobType
<1>5. job' = [job EXCEPT ![w] = j]
  BY <1>1 DEF Abandon, Missing
<1> QED
  BY <1>3, <1>4, <1>5 DEF JobGoesOn

LEMMA OpenedTid ==
    ASSUME TypeInv, TriggerInv, NEW w \in Workers, pc[w] # "free"
    PROVE  job[w].tid \in Trigger
<1>1. job[w].tid \in 1..Len(asked) /\ Len(asked) \in Nat /\ Len(asked) <= MaxRequests
  BY DEF TypeInv, WorkTypes, TriggerInv, TidsOK
<1> QED
  BY <1>1, BoundAssumption, SMT DEF Trigger

LEMMA TypeNextModule ==
    ASSUME TypeInv, NEW w \in Workers, NextModule(w)
    PROVE  TypeInv'
<1>1. /\ uids' = uids + 1 /\ UNCHANGED <<asked, queue, faults>>
      /\ UNCHANGED <<trigger_log, pdm_run, component_health, panel_catalog, raw, event_log>>
  BY DEF NextModule, tables
<1>2. LogTypes' /\ StoreTypes' /\ uids \in Nat
  BY <1>1 DEF TypeInv, LogTypes, StoreTypes
<1>3. PICK m \in Modules :
         /\ pc[w] = "next"
         /\ pc' = [pc EXCEPT ![w] = IF m \in Configured THEN "fetch" ELSE "record"]
         /\ cur' = [cur EXCEPT ![w] =
              [uid |-> uids + 1, module |-> m, scored |-> 0,
               status |-> IF m \in Configured THEN "success" ELSE "failed"]]
         /\ job' = [job EXCEPT ![w].todo = @ \ {m}]
  BY TakesModule
<1>4. PICK st \in {"success", "failed"}, to \in {"fetch", "record"} :
         /\ pc' = [pc EXCEPT ![w] = to]
         /\ cur' = [cur EXCEPT ![w] = [uid |-> uids + 1, module |-> m, scored |-> 0,
                                       status |-> st]]
  BY <1>3
<1>5. [uid |-> uids + 1, module |-> m, scored |-> 0, status |-> st] \in CurType
  BY <1>2 DEF CurType
<1>6. CurGoesOn(w, to)
  BY <1>4, <1>5 DEF CurGoesOn
<1>7. JobGoesOn(w)
  <2> DEFINE j == [job[w] EXCEPT !.todo = job[w].todo \ {m}]
  <2>1. job[w] \in JobType /\ IsFiniteSet(job[w].results)
    BY DEF TypeInv, WorkTypes, Scoped
  <2>2. /\ j \in JobType /\ j.tid = job[w].tid /\ j.scope = job[w].scope
        /\ j.results = job[w].results
    BY <2>1 DEF JobType
  <2>3. job' = [job EXCEPT ![w] = j]
    BY <1>3
  <2> QED
    BY <2>1, <2>2, <2>3 DEF JobGoesOn
<1>8. to \in Labels
  BY DEF Labels
<1> QED
  BY <1>1, <1>2, <1>3, <1>4, <1>6, <1>7, <1>8, TypeMoves

LEMMA TypeRecorded ==
    ASSUME TypeInv, TriggerInv, RunInv, NEW w \in Workers, RecordRun(w)
    PROVE  TypeInv'
<1> DEFINE new == [uid |-> cur[w].uid, module |-> cur[w].module, tid |-> job[w].tid,
                   status |-> cur[w].status, scored |-> cur[w].scored]
<1>1. /\ pc[w] = "record" /\ pdm_run' = pdm_run \union {new}
      /\ UNCHANGED <<asked, queue, trigger_log, component_health, panel_catalog,
                     raw, event_log, uids, faults>>
  BY DEF RecordRun
<1>2. pc[w] \in Active
  BY <1>1 DEF Active
<1>3. job[w].tid \in Trigger
  BY <1>1, OpenedTid
<1>4. new \in RunType
  BY <1>2, <1>3, ActiveTypes DEF RunType
<1> HIDE DEF new
<1>5. LogTypes' /\ StoreTypes'
  BY <1>1, <1>4 DEF TypeInv, LogTypes, StoreTypes
<1>6. CASE cur[w].scored = 0
  <2>1. Report(w) /\ pc' = [pc EXCEPT ![w] = "next"] /\ cur' = [cur EXCEPT ![w] = NoRun]
    BY <1>6 DEF RecordRun, Report
  <2>2. "next" \in Labels /\ "next" \notin Active
    BY DEF Labels, Active
  <2> QED
    BY <1>1, <1>2, <1>5, <2>1, <2>2, ReportTypes, CurDropped, TypeMoves
<1>7. CASE cur[w].scored # 0
  <2>1. UNCHANGED <<job, cur>> /\ pc' = [pc EXCEPT ![w] = "components"]
    BY <1>7 DEF RecordRun
  <2>2. "components" \in Labels
    BY DEF Labels
  <2> QED
    BY <1>1, <1>2, <1>5, <2>1, <2>2, JobStays, CurStays, TypeMoves
<1> QED
  BY <1>6, <1>7

LEMMA TypeStep == TypeInv /\ TriggerInv /\ RunInv /\ [Next]_vars => TypeInv'
<1> SUFFICES ASSUME TypeInv, TriggerInv, RunInv, [Next]_vars PROVE TypeInv'
  OBVIOUS
<1>1. LogTypes /\ StoreTypes
  BY DEF TypeInv
<1>2. \A to : to \in Labels \ Active
        <=> to \in {"free", "open", "session", "next", "close", "event"}
  BY DEF Labels, Active
<1>3. Active \subseteq Labels
  BY DEF Labels, Active
<1>4. ASSUME NEW w \in Workers, OpenSession(w) \/ NoMoreModules(w) PROVE TypeInv'
  <2>1. /\ pc[w] # "free" /\ UNCHANGED <<asked, queue, job, cur, faults, uids>>
        /\ UNCHANGED <<trigger_log, pdm_run, component_health, panel_catalog, raw, event_log>>
    BY <1>4 DEF OpenSession, NoMoreModules, Goto, tables
  <2>2. PICK to \in {"next", "close"} : pc' = [pc EXCEPT ![w] = to]
    BY <1>4 DEF OpenSession, NoMoreModules, Goto
  <2>3. LogTypes' /\ StoreTypes'
    BY <1>1, <2>1 DEF LogTypes, StoreTypes
  <2> QED
    BY <1>2, <2>1, <2>2, <2>3, JobStays, CurStays, TypeMoves
<1>5. ASSUME NEW w \in Workers, SessionFails(w) PROVE TypeInv'
  <2>1. /\ pc[w] = "session" /\ Abandon(w) /\ UNCHANGED <<asked, queue, faults, uids>>
        /\ UNCHANGED <<trigger_log, pdm_run, component_health, panel_catalog, raw, event_log>>
    BY <1>5 DEF SessionFails, tables
  <2>2. LogTypes' /\ StoreTypes'
    BY <1>1, <2>1 DEF LogTypes, StoreTypes
  <2>3. pc' = [pc EXCEPT ![w] = "close"] /\ cur' = [cur EXCEPT ![w] = NoRun]
    BY <2>1 DEF Abandon
  <2> QED
    BY <1>2, <2>1, <2>2, <2>3, AbandonTypes, CurDropped, TypeMoves
<1>6. ASSUME NEW w \in Workers, NextModule(w) PROVE TypeInv'
  BY <1>6, TypeNextModule
<1>7. ASSUME NEW w \in Workers, Fetch(w) PROVE TypeInv'
  <2>1. /\ pc[w] = "fetch" /\ pc' = [pc EXCEPT ![w] = "score"]
        /\ UNCHANGED <<asked, queue, job, cur, trigger_log, pdm_run,
                       component_health, event_log, uids>>
    BY <1>7 DEF Fetch, Goto
  <2>2. /\ panel_catalog' \in {panel_catalog, panel_catalog \union {cur[w].module}}
        /\ raw' \in {raw, raw \union {cur[w].uid}}
        /\ faults' \in {faults, faults + 1}
    BY <1>7 DEF Fetch, StorageFault, Fault
  <2>3. pc[w] \in Active
    BY <2>1 DEF Active
  <2>4. cur[w].module \in Modules /\ cur[w].uid \in Nat
    BY <2>3, ActiveTypes
  <2>5. LogTypes' /\ StoreTypes'
    BY <1>1, <2>1, <2>2, <2>4 DEF LogTypes, StoreTypes
  <2>6. "score" \in Labels
    BY DEF Labels
  <2> QED
    BY <2>1, <2>3, <2>5, <2>6, JobStays, CurStays, TypeMoves
<1>8. ASSUME NEW w \in Workers, ModuleFails(w) \/ Score(w) PROVE TypeInv'
  <2>1. /\ pc[w] \in {"fetch", "score"} /\ pc' = [pc EXCEPT ![w] = "record"]
        /\ UNCHANGED <<asked, queue, job, faults, uids>>
        /\ UNCHANGED <<trigger_log, pdm_run, component_health, panel_catalog, raw, event_log>>
        /\ \/ cur' = [cur EXCEPT ![w].status = "failed"]
           \/ \E n \in Counts : cur' = [cur EXCEPT ![w].scored = n]
    BY <1>8 DEF ModuleFails, Score, Goto, tables
  <2>2. LogTypes' /\ StoreTypes'
    BY <1>1, <2>1 DEF LogTypes, StoreTypes
  <2>3. "record" \in Labels /\ pc[w] \in Active
    BY <2>1 DEF Labels, Active
  <2>4. cur[w] \in CurType /\ cur[w].module \in Modules
    BY <2>3 DEF TypeInv, WorkTypes, Scoped
  <2>5. \E c \in CurType : cur' = [cur EXCEPT ![w] = c] /\ c.module = cur[w].module
    <3>1. ASSUME NEW n \in Counts
          PROVE  /\ [cur[w] EXCEPT !.scored = n] \in CurType
                 /\ [cur[w] EXCEPT !.scored = n].module = cur[w].module
      BY <2>4, BoundAssumption DEF CurType
    <3>2. /\ [cur[w] EXCEPT !.status = "failed"] \in CurType
          /\ [cur[w] EXCEPT !.status = "failed"].module = cur[w].module
      BY <2>4 DEF CurType
    <3> QED
      BY <2>1, <3>1, <3>2
  <2>6. CurGoesOn(w, "record")
    BY <2>4, <2>5 DEF CurGoesOn
  <2> QED
    BY <2>1, <2>2, <2>3, <2>6, JobStays, TypeMoves
<1>9. ASSUME NEW w \in Workers, RecordRun(w) PROVE TypeInv'
  BY <1>9, TypeRecorded
<1>10. ASSUME NEW w \in Workers, RecordComponents(w) PROVE TypeInv'
  <2>1. /\ pc[w] = "components" /\ pc' = [pc EXCEPT ![w] = "next"] /\ Report(w)
        /\ cur' = [cur EXCEPT ![w] = NoRun]
        /\ component_health' = component_health \union HealthRows(cur[w], cur[w].scored)
        /\ UNCHANGED <<asked, queue, trigger_log, pdm_run, panel_catalog, raw,
                       event_log, uids, faults>>
    BY <1>10 DEF RecordComponents, Report, Goto
  <2>2. pc[w] \in Active
    BY <2>1 DEF Active
  <2>3. HealthRows(cur[w], cur[w].scored) \subseteq HealthType
    BY <2>2, HealthRowsTypes, ActiveTypes
  <2>4. LogTypes' /\ StoreTypes'
    BY <1>1, <2>1, <2>3 DEF LogTypes, StoreTypes, HealthType
  <2> QED
    BY <1>2, <2>1, <2>2, <2>4, ReportTypes, CurDropped, TypeMoves
<1>11. ASSUME NEW w \in Workers, RecordFails(w) PROVE TypeInv'
  <2>1. /\ pc[w] \in {"record", "components"} /\ Abandon(w) /\ CutShort({w})
        /\ faults' = faults + 1
        /\ UNCHANGED <<asked, queue, trigger_log, pdm_run, panel_catalog, raw,
                       event_log, uids>>
    BY <1>11 DEF RecordFails, StorageFault, Fault
  <2>2. pc' = [pc EXCEPT ![w] = "close"] /\ cur' = [cur EXCEPT ![w] = NoRun]
    BY <2>1 DEF Abandon
  <2>3. component_health' \subseteq HealthType
    BY <2>1, CutShortTypes, {w} \in SUBSET Workers
  <2>4. LogTypes' /\ StoreTypes'
    BY <1>1, <2>1, <2>3 DEF LogTypes, StoreTypes, HealthType
  <2>5. pc[w] # "free"
    BY <2>1
  <2> QED
    BY <1>2, <2>1, <2>2, <2>4, <2>5, AbandonTypes, CurDropped, TypeMoves
<1>12. ASSUME NEW w \in Workers, OpenTriggerFails(w) \/ CloseTriggerFails(w) \/ RecordEvent(w)
       PROVE  TypeInv'
  <2>1. /\ pc[w] # "free" /\ Leave(w) /\ faults' \in {faults, faults + 1}
        /\ event_log' = event_log \/ event_log' = event_log \union {job[w].tid}
        /\ UNCHANGED <<asked, queue, trigger_log, pdm_run, component_health,
                       panel_catalog, raw, uids>>
    BY <1>12 DEF OpenTriggerFails, CloseTriggerFails, RecordEvent, StorageFault, Fault, tables
  <2>2. job[w].tid \in Trigger
    BY <2>1, OpenedTid
  <2>3. LogTypes' /\ StoreTypes'
    BY <1>1, <2>1, <2>2 DEF LogTypes, StoreTypes
  <2>4. /\ pc' = [v \in Workers |-> IF v \in {w} THEN "free" ELSE pc[v]]
        /\ job' = [v \in Workers |-> IF v \in {w} THEN NoJob ELSE job[v]]
        /\ cur' = [v \in Workers |-> IF v \in {w} THEN NoRun ELSE cur[v]]
    BY <2>1 DEF Leave, TypeInv, WorkTypes
  <2> QED
    BY <2>1, <2>3, <2>4, TypeLeave, {w} \in SUBSET Workers
<1>13. CASE Crash
  <2>1. /\ CutShort(Workers) /\ faults' = faults + 1 /\ queue' = <<>>
        /\ pc' = [v \in Workers |-> IF v \in Workers THEN "free" ELSE pc[v]]
        /\ job' = [v \in Workers |-> IF v \in Workers THEN NoJob ELSE job[v]]
        /\ cur' = [v \in Workers |-> IF v \in Workers THEN NoRun ELSE cur[v]]
        /\ UNCHANGED <<asked, trigger_log, pdm_run, panel_catalog, raw, event_log, uids>>
    BY <1>13 DEF Crash, Fault
  <2>2. component_health' \subseteq HealthType
    BY <2>1, CutShortTypes
  <2>3. LogTypes' /\ StoreTypes'
    BY <1>1, <2>1, <2>2 DEF LogTypes, StoreTypes, HealthType
  <2> QED
    BY <2>1, <2>3, TypeLeave
<1>14. CASE UNCHANGED vars
  BY <1>14 DEF vars, tables, TypeInv, WorkTypes, LogTypes, StoreTypes, Scoped
<1> QED
  BY <1>4, <1>5, <1>6, <1>7, <1>8, <1>9, <1>10, <1>11, <1>12, <1>13, <1>14, TypeSubmit,
     TypeFire, TypeTake, TypeOpened, TypeClosed DEF Next, Step, Finished

(* Every variable keeps its type, whatever fails and whenever the server dies. *)
THEOREM TypesHold == Spec => []TypeOK
BY TypeInit, TypeStep, TypeInvType, RunInit, RunStep, TriggerInit, TriggerStep, PTL DEF Spec

-----------------------------------------------------------------------------
(* Results *)

ModulesOf(results) == {r.module : r \in results}

Once(results) == \A q, r \in results : q.module = r.module => q = r

(* A result names one of these runs, all its components among the rows, or none. *)
Backs(runs, rows, tid, results) ==
    \A res \in results :
        /\ res.uid = 0 => res.status = "failed"
        /\ res.uid # 0 =>
             \E r \in runs :
               /\ r.uid = res.uid /\ r.tid = tid
               /\ r.module = res.module /\ r.status = res.status
               /\ HealthRows(r, r.scored) \subseteq rows

Backed(tid, results) == Backs(pdm_run, component_health, tid, results)

Doing(w) == IF pc[w] \in Active THEN {cur[w].module} ELSE {}

(* The run at its components is stored, under this trigger. *)
AtComponents(w) ==
    /\ cur[w].status = "success"
    /\ \E r \in pdm_run : /\ r.uid = cur[w].uid /\ r.tid = job[w].tid
                          /\ r.module = cur[w].module /\ r.status = "success"
                          /\ r.scored = cur[w].scored

(* Each planned module is to come, being run or reported: once, one of them. *)
Owed(w) ==
    pc[w] # "free" =>
      /\ Planned(job[w].scope) = job[w].todo \union Doing(w) \union ModulesOf(job[w].results)
      /\ \A m \in ModulesOf(job[w].results) : m \notin job[w].todo /\ m \notin Doing(w)
      /\ \A m \in Doing(w) : m \notin job[w].todo
      /\ Once(job[w].results)
      /\ Backed(job[w].tid, job[w].results)
      /\ pc[w] \in {"close", "event"} => job[w].todo = {}
      /\ pc[w] = "components" => AtComponents(w)

(* A closed trigger reports each module it was to run, once. *)
Reported(tid) ==
    LET row == trigger_log[tid] IN
    /\ asked[tid] \in Scopes \ Unknown
    /\ IsFiniteSet(row.results) /\ row.results \subseteq ResultType
    /\ Once(row.results) /\ ModulesOf(row.results) = Planned(asked[tid])
    /\ Backed(tid, row.results)
    /\ row.success = Successes(row.results) /\ row.failure = Failures(row.results)
    /\ row.status = Outcome(row.results)

OweInv ==
    /\ \A w \in Workers : Owed(w)
    /\ \A tid \in Closed : Reported(tid)

LEMMA OweInit == Init => OweInv
BY DEF Init, OweInv, Owed, Closed

Grows ==
    /\ pdm_run \subseteq pdm_run'
    /\ component_health \subseteq component_health'
    /\ \A tid \in 1..Len(asked) : asked'[tid] = asked[tid]

LEMMA StoreGrows ==
    ASSUME TypeInv, Next
    PROVE  Grows
<1>1. ASSUME NEW w \in Workers, RecordComponents(w) PROVE Grows
  BY <1>1, RunsAreKept DEF RecordComponents, Grows
<1>2. ASSUME NEW W, CutShort(W), UNCHANGED asked PROVE Grows
  BY <1>2, RunsAreKept DEF CutShort, Grows
<1>3. ASSUME NEW w \in Workers, RecordFails(w) PROVE Grows
  BY <1>2, <1>3 DEF RecordFails
<1>4. ASSUME NEW scope \in Asked, NewTrigger(scope), UNCHANGED component_health
      PROVE  Grows
  <2>1. asked \in Seq(Scopes) /\ scope \in Scopes /\ asked' = Append(asked, scope)
    BY <1>4, RegistryAssumption DEF NewTrigger, TypeInv, WorkTypes, Scopes
  <2> QED
    BY <1>4, <2>1, RunsAreKept DEF Grows
<1>5. ASSUME NEW scope \in Asked, Submit(scope) PROVE Grows
  BY <1>4, <1>5 DEF Submit, tables
<1>6. ASSUME NEW w \in Workers, NEW scope \in Asked, Fire(w, scope) PROVE Grows
  BY <1>4, <1>6 DEF Fire, tables
<1>7. ASSUME UNCHANGED <<asked, component_health>> PROVE Grows
  BY <1>7, RunsAreKept DEF Grows
<1>8. ASSUME NEW w \in Workers,
             \/ TakeRequest(w) \/ OpenTrigger(w) \/ OpenSession(w) \/ SessionFails(w)
             \/ NoMoreModules(w) \/ NextModule(w) \/ Fetch(w) \/ ModuleFails(w)
      PROVE  UNCHANGED <<asked, component_health>>
  BY <1>8 DEF TakeRequest, OpenTrigger, OpenSession, SessionFails, NoMoreModules, NextModule,
     Fetch, ModuleFails, tables
<1>9. ASSUME NEW w \in Workers,
             \/ Score(w) \/ RecordRun(w) \/ CloseTrigger(w) \/ RecordEvent(w)
             \/ OpenTriggerFails(w) \/ CloseTriggerFails(w)
      PROVE  UNCHANGED <<asked, component_health>>
  BY <1>9 DEF Score, RecordRun, CloseTrigger, RecordEvent, OpenTriggerFails,
     CloseTriggerFails, tables
<1>10. Crash => Grows
  BY <1>2 DEF Crash
<1>11. Finished => UNCHANGED <<asked, component_health>>
  BY DEF Finished, vars, tables
<1> QED
  BY <1>1, <1>3, <1>5, <1>6, <1>7, <1>8, <1>9, <1>10, <1>11 DEF Next, Step

BackedNext(tid, results) == Backs(pdm_run', component_health', tid, results)

LEMMA BackedStays ==
    ASSUME Grows, NEW tid, NEW results, Backed(tid, results)
    PROVE  BackedNext(tid, results)
BY DEF Grows, Backed, BackedNext, Backs

LEMMA BackedMore ==
    ASSUME Grows, NEW tid, NEW R, Backed(tid, R), NEW S, BackedNext(tid, S)
    PROVE  BackedNext(tid, R \union S)
BY DEF Grows, Backed, BackedNext, Backs

LEMMA OwedStays ==
    ASSUME Grows, NEW v \in Workers, Owed(v),
           pc'[v] = pc[v], job'[v] = job[v], cur'[v] = cur[v]
    PROVE  Owed(v)'
<1>1. ASSUME AtComponents(v) PROVE AtComponents(v)'
  BY <1>1 DEF AtComponents, Grows
<1>2. Backed(job[v].tid, job[v].results) => Backed(job[v].tid, job[v].results)'
  BY BackedStays DEF Backed, BackedNext
<1>3. Doing(v)' = Doing(v)
  BY DEF Doing
<1> QED
  BY <1>1, <1>2, <1>3 DEF Owed

LEMMA ReportedStays ==
    ASSUME TriggerInv, Grows, NEW tid \in Closed, Reported(tid),
           trigger_log'[tid] = trigger_log[tid]
    PROVE  Reported(tid)'
<1>1. asked'[tid] = asked[tid]
  BY DEF Grows, Closed, TriggerInv, LogOK
<1>2. Backed(tid, trigger_log[tid].results)'
  BY BackedStays DEF Reported, Backed, BackedNext
<1> QED
  BY <1>1, <1>2 DEF Reported

LEMMA OwedBegins ==
    ASSUME TypeInv, NEW w \in Workers, NEW tid, NEW scope, Begin(w, tid, scope),
           scope \notin Unknown
    PROVE  Owed(w)'
<1>1. pc'[w] = "open" /\ job'[w] = [tid |-> tid, scope |-> scope, todo |-> Planned(scope),
                                    results |-> {}]
  BY DEF Begin, Goto, TypeInv, WorkTypes
<1>2. Doing(w)' = {}
  BY <1>1 DEF Doing, Active
<1> QED
  BY <1>1, <1>2 DEF Owed, ModulesOf, Once, Backed, Backs

(* The worker moves on, and neither its module nor its results change. *)
LEMMA OwedGoesOn ==
    ASSUME Grows, NEW w \in Workers, Owed(w), pc[w] # "free", job'[w] = job[w],
           Doing(w)' = Doing(w),
           pc'[w] \in {"close", "event"} => job[w].todo = {},
           pc'[w] = "components" => AtComponents(w)'
    PROVE  Owed(w)'
<1>1. Backed(job[w].tid, job[w].results) => Backed(job[w].tid, job[w].results)'
  BY BackedStays DEF Backed, BackedNext
<1> QED
  BY <1>1 DEF Owed

LEMMA OwedNextModule ==
    ASSUME TypeInv, Grows, NEW w \in Workers, Owed(w), NextModule(w)
    PROVE  Owed(w)'
<1>1. PICK m \in Modules \intersect job[w].todo :
         /\ pc[w] = "next"
         /\ pc' = [pc EXCEPT ![w] = IF m \in Configured THEN "fetch" ELSE "record"]
         /\ cur' = [cur EXCEPT ![w] =
              [uid |-> uids + 1, module |-> m, scored |-> 0,
               status |-> IF m \in Configured THEN "success" ELSE "failed"]]
         /\ job' = [job EXCEPT ![w].todo = @ \ {m}]
  BY TakesModule
<1>2. job[w] \in JobType /\ DOMAIN job = Workers /\ DOMAIN cur = Workers /\ DOMAIN pc = Workers
  BY DEF TypeInv, WorkTypes
<1>3. /\ job'[w].tid = job[w].tid /\ job'[w].scope = job[w].scope
      /\ job'[w].results = job[w].results /\ job'[w].todo = job[w].todo \ {m}
  BY <1>1, <1>2 DEF JobType
<1>4. pc'[w] \in {"fetch", "record"} /\ cur'[w].module = m
  BY <1>1, <1>2
<1>5. Doing(w)' = {m} /\ Doing(w) = {}
  BY <1>1, <1>4 DEF Doing, Active
<1>6. Backed(job[w].tid, job[w].results) => Backed(job[w].tid, job[w].results)'
  BY <1>3, BackedStays DEF Backed, BackedNext
<1>7. Owed(w) =>
        /\ Planned(job[w].scope) = job[w].todo \union ModulesOf(job[w].results)
        /\ \A k \in ModulesOf(job[w].results) : k \notin job[w].todo
        /\ Once(job[w].results) /\ Backed(job[w].tid, job[w].results)
  BY <1>1, <1>5 DEF Owed
<1> QED
  BY <1>1, <1>3, <1>4, <1>5, <1>6, <1>7 DEF Owed

LEMMA OwedReport ==
    ASSUME TypeInv, RunInv, Grows, NEW w \in Workers, Owed(w), pc[w] \in Active,
           Report(w), pc'[w] = "next",
           \E r \in pdm_run' :
               /\ r.uid = cur[w].uid /\ r.tid = job[w].tid
               /\ r.module = cur[w].module /\ r.status = cur[w].status
               /\ HealthRows(r, r.scored) \subseteq component_health'
    PROVE  Owed(w)'
<1> DEFINE res == Result(cur[w].module, cur[w].uid, cur[w].status)
           R == job[w].results
<1>1. job[w] \in JobType /\ DOMAIN job = Workers
  BY DEF TypeInv, WorkTypes
<1>2. /\ job'[w].tid = job[w].tid /\ job'[w].scope = job[w].scope
      /\ job'[w].todo = job[w].todo /\ job'[w].results = R \union {res}
  BY <1>1 DEF Report, JobType
<1>3. /\ res.module = cur[w].module /\ res.uid = cur[w].uid /\ res.status = cur[w].status
      /\ res.uid # 0
  BY ActiveTypes DEF Result
<1> HIDE DEF res
<1>4. /\ Doing(w)' = {} /\ Doing(w) = {res.module} /\ pc[w] # "free"
      /\ pc'[w] # "free" /\ pc'[w] \notin {"close", "event"} /\ pc'[w] # "components"
  BY <1>3 DEF Doing, Active
<1>5. ModulesOf(R \union {res}) = ModulesOf(R) \union {res.module}
  BY DEF ModulesOf
<1>6. /\ Planned(job[w].scope) = job[w].todo \union {res.module} \union ModulesOf(R)
      /\ \A m \in ModulesOf(R) : m \notin job[w].todo /\ m # res.module
      /\ res.module \notin job[w].todo /\ Once(R) /\ Backed(job[w].tid, R)
  BY <1>4 DEF Owed
<1>7. Once(R \union {res})
  BY <1>6 DEF Once, ModulesOf
<1>8. BackedNext(job[w].tid, {res})
  BY <1>3 DEF BackedNext, Backs
<1>9. Once(job'[w].results) /\ BackedNext(job'[w].tid, job'[w].results)
  BY <1>2, <1>6, <1>7, <1>8, BackedMore
<1>10. Planned(job'[w].scope) = job'[w].todo \union ModulesOf(job'[w].results)
  BY <1>2, <1>5, <1>6
<1>11. \A m \in ModulesOf(job'[w].results) : m \notin job'[w].todo
  BY <1>2, <1>5, <1>6
<1> QED
  BY <1>2, <1>4, <1>9, <1>10, <1>11 DEF Owed, Backed, BackedNext

LEMMA OwedAbandon ==
    ASSUME TypeInv, Grows, NEW w \in Workers, Owed(w), pc[w] # "free", Abandon(w)
    PROVE  Owed(w)'
<1> DEFINE R == job[w].results
<1>1. job[w] \in JobType /\ DOMAIN job = Workers /\ DOMAIN pc = Workers
  BY DEF TypeInv, WorkTypes
<1>2. /\ job'[w].tid = job[w].tid /\ job'[w].scope = job[w].scope
      /\ job'[w].todo = {} /\ job'[w].results = R \union Missing(w)
      /\ pc'[w] = "close"
  BY <1>1 DEF Abandon, Missing, JobType
<1>3. Doing(w)' = {}
  BY <1>2 DEF Doing, Active
<1>4. \A r \in Missing(w) : /\ r.uid = 0 /\ r.status = "failed"
                            /\ r = Result(r.module, 0, "failed")
                            /\ r.module \in Planned(job[w].scope) \ ModulesOf(R)
  BY DEF Missing, Result, ModulesOf
<1>5. \A m \in Planned(job[w].scope) \ ModulesOf(R) : m \in ModulesOf(Missing(w))
  <2> TAKE m \in Planned(job[w].scope) \ ModulesOf(R)
  <2>1. Result(m, 0, "failed") \in Missing(w)
    BY DEF Missing, ModulesOf
  <2>2. Result(m, 0, "failed").module = m
    BY DEF Result
  <2> QED
    BY <2>1, <2>2 DEF ModulesOf
<1>6. /\ ModulesOf(R) \subseteq Planned(job[w].scope)
      /\ Once(R) /\ Backed(job[w].tid, R)
  BY DEF Owed
<1>7. ModulesOf(R \union Missing(w)) = Planned(job[w].scope)
  BY <1>4, <1>5, <1>6 DEF ModulesOf
<1>8. Once(R \union Missing(w))
  BY <1>4, <1>6 DEF Once, ModulesOf
<1>9. BackedNext(job[w].tid, Missing(w))
  BY <1>4 DEF BackedNext, Backs
<1>10. BackedNext(job'[w].tid, job'[w].results)
  BY <1>2, <1>6, <1>9, BackedMore
<1> HIDE DEF R
<1>11. \A m \in ModulesOf(job'[w].results) : m \notin job'[w].todo
  BY <1>2
<1>12. Planned(job'[w].scope) = job'[w].todo \union ModulesOf(job'[w].results)
  BY <1>2, <1>7
<1> QED
  BY <1>2, <1>3, <1>8, <1>10, <1>11, <1>12 DEF Owed, Backed, BackedNext

LEMMA OwedRecord ==
    ASSUME TypeInv, RunInv, Grows, NEW w \in Workers, Owed(w), RecordRun(w)
    PROVE  Owed(w)'
<1> DEFINE new == [uid |-> cur[w].uid, module |-> cur[w].module, tid |-> job[w].tid,
                   status |-> cur[w].status, scored |-> cur[w].scored]
<1>1. pc[w] = "record" /\ new \in pdm_run' /\ DOMAIN pc = Workers
  BY DEF RecordRun, TypeInv, WorkTypes
<1>2. /\ new.uid = cur[w].uid /\ new.module = cur[w].module /\ new.tid = job[w].tid
      /\ new.status = cur[w].status /\ new.scored = cur[w].scored
  OBVIOUS
<1> HIDE DEF new
<1>3. pc[w] \in Active
  BY <1>1 DEF Active
<1>4. CASE cur[w].scored = 0
  <2>1. Report(w) /\ pc'[w] = "next"
    BY <1>1, <1>4 DEF RecordRun
  <2>2. 1..0 = {}
    BY SMT
  <2>3. HealthRows(new, new.scored) = {}
    BY <1>2, <1>4, <2>2 DEF HealthRows
  <2> QED
    BY <1>1, <1>2, <1>3, <2>1, <2>3, OwedReport
<1>5. CASE cur[w].scored # 0
  <2>1. UNCHANGED <<job, cur>> /\ pc'[w] = "components"
    BY <1>1, <1>5 DEF RecordRun
  <2>2. cur[w].status = "success"
    BY <1>1, <1>5 DEF RunInv, ScoredOK
  <2>3. AtComponents(w)'
    BY <1>1, <1>2, <2>1, <2>2 DEF AtComponents
  <2>4. Doing(w)' = Doing(w)
    BY <1>1, <2>1 DEF Doing, Active
  <2> QED
    BY <1>1, <2>1, <2>3, <2>4, OwedGoesOn
<1> QED
  BY <1>4, <1>5

LEMMA OwedComponents ==
    ASSUME TypeInv, RunInv, Grows, NEW w \in Workers, Owed(w), RecordComponents(w)
    PROVE  Owed(w)'
<1>1. /\ pc[w] = "components" /\ pc'[w] = "next" /\ Report(w) /\ pdm_run' = pdm_run
      /\ component_health' = component_health \union HealthRows(cur[w], cur[w].scored)
  BY DEF RecordComponents, Goto, TypeInv, WorkTypes
<1>2. pc[w] \in Active /\ AtComponents(w)
  BY <1>1 DEF Active, Owed
<1>3. PICK r \in pdm_run : /\ r.uid = cur[w].uid /\ r.tid = job[w].tid
                           /\ r.module = cur[w].module /\ r.status = "success"
                           /\ r.scored = cur[w].scored
  BY <1>2 DEF AtComponents
<1>4. HealthRows(r, r.scored) = HealthRows(cur[w], cur[w].scored)
  BY <1>3 DEF HealthRows
<1>5. r.status = cur[w].status
  BY <1>2, <1>3 DEF AtComponents
<1> QED
  BY <1>1, <1>2, <1>3, <1>4, <1>5, OwedReport

(* The row that closes a trigger reports what the worker owed. *)
LEMMA ClosesReported ==
    ASSUME TypeInv, TriggerInv, Grows, NEW w \in Workers, Owed(w), CloseTrigger(w),
           NEW tid, tid = job[w].tid
    PROVE  Reported(tid)'
<1> DEFINE R == job[w].results
           t == job[w].tid
           row == [status |-> Outcome(R), success |-> Successes(R),
                   failure |-> Failures(R), results |-> R]
<1>1. pc[w] = "close" /\ trigger_log' = [trigger_log EXCEPT ![t] = row] /\ asked' = asked
  BY DEF CloseTrigger, Goto
<1>2. t \in DOMAIN trigger_log
  BY TriggerClosed
<1>3. trigger_log'[t] = row
  BY <1>1, <1>2
<1>4. /\ row.status = Outcome(R) /\ row.success = Successes(R)
      /\ row.failure = Failures(R) /\ row.results = R
  OBVIOUS
<1>5. /\ job[w].scope \in Scopes \ Unknown /\ asked[t] = job[w].scope
      /\ R \subseteq ResultType /\ IsFiniteSet(R)
  BY <1>1 DEF TypeInv, WorkTypes, JobType, Scoped
<1>6. Doing(w) = {} /\ job[w].todo = {} /\ Once(R) /\ Backed(t, R)
      /\ Planned(asked[t]) = ModulesOf(R)
  BY <1>1, <1>5 DEF Owed, Doing, Active
<1>7. BackedNext(t, R)
  BY <1>6, BackedStays
<1> HIDE DEF row
<1>8. trigger_log'[tid] = row /\ asked'[tid] = asked[t]
  BY <1>1, <1>3
<1> QED
  BY <1>4, <1>5, <1>6, <1>7, <1>8 DEF Reported, Backed, BackedNext

(* One worker moves, and then its job and its module run are the only ones to. *)
Moves(w) == \A v \in Workers \ {w} : pc'[v] = pc[v] /\ job'[v] = job[v] /\ cur'[v] = cur[v]

LEMMA OwedStep ==
    ASSUME TypeInv, RunInv, Grows, NEW w \in Workers, Owed(w), Step(w)
    PROVE  Owed(w)' /\ Moves(w)
<1>1. DOMAIN pc = Workers /\ DOMAIN job = Workers /\ DOMAIN cur = Workers
  BY DEF TypeInv, WorkTypes
<1>2. CASE TakeRequest(w)
  <2>1. Moves(w) /\ cur' = cur
    BY <1>1, <1>2 DEF TakeRequest, Begin, Goto, Moves
  <2>2. CASE UNCHANGED <<pc, job>>
    BY <2>1, <2>2, OwedStays
  <2>3. CASE ~UNCHANGED <<pc, job>>
    BY <1>2, <2>1, <2>3, OwedBegins DEF TakeRequest, Begin
  <2> QED
    BY <2>1, <2>2, <2>3
<1>3. CASE OpenTrigger(w) \/ OpenSession(w) \/ CloseTrigger(w) \/ NoMoreModules(w)
  <2>1. /\ UNCHANGED <<job, cur>> /\ pc[w] \in {"open", "session", "close", "next"}
        /\ pc'[w] \in {"session", "next", "event", "close"} /\ Moves(w)
        /\ pc'[w] = "event" => pc[w] = "close"
        /\ pc'[w] = "close" => job[w].todo = {}
    BY <1>1, <1>3 DEF OpenTrigger, OpenSession, CloseTrigger, NoMoreModules, Goto, Moves
  <2>2. Doing(w)' = Doing(w) /\ pc[w] # "free" /\ pc'[w] # "components"
    BY <2>1 DEF Doing, Active
  <2>3. pc'[w] \in {"close", "event"} => job[w].todo = {}
    BY <2>1 DEF Owed
  <2> QED
    BY <2>1, <2>2, <2>3, OwedGoesOn
<1>4. CASE SessionFails(w)
  <2>1. Abandon(w) /\ pc[w] # "free" /\ Moves(w)
    BY <1>1, <1>4 DEF SessionFails, Abandon, Moves
  <2> QED
    BY <2>1, OwedAbandon
<1>5. CASE NextModule(w)
  <2>1. Moves(w)
    BY <1>1, <1>5, TakesModule DEF Moves
  <2> QED
    BY <1>5, <2>1, OwedNextModule
<1>6. CASE Fetch(w) \/ ModuleFails(w) \/ Score(w)
  <2>1. /\ UNCHANGED job /\ pc[w] \in {"fetch", "score"} /\ pc'[w] \in {"score", "record"}
        /\ Moves(w)
    BY <1>1, <1>6 DEF Fetch, ModuleFails, Score, Goto, Moves
  <2>2. cur'[w].module = cur[w].module
    BY <1>1, <1>6 DEF Fetch, ModuleFails, Score, TypeInv, WorkTypes, CurType
  <2>3. Doing(w)' = Doing(w) /\ pc[w] # "free" /\ pc'[w] # "components"
        /\ pc'[w] \notin {"close", "event"}
    BY <2>1, <2>2 DEF Doing, Active
  <2> QED
    BY <2>1, <2>3, OwedGoesOn
<1>7. CASE RecordRun(w)
  <2>1. Moves(w)
    BY <1>1, <1>7 DEF RecordRun, Report, Moves
  <2> QED
    BY <1>7, <2>1, OwedRecord
<1>8. CASE RecordComponents(w)
  <2>1. Moves(w)
    BY <1>1, <1>8 DEF RecordComponents, Report, Goto, Moves
  <2> QED
    BY <1>8, <2>1, OwedComponents
<1>9. CASE RecordEvent(w)
  <2>1. Moves(w) /\ pc'[w] = "free"
    BY <1>1, <1>9 DEF RecordEvent, Leave, Moves
  <2> QED
    BY <2>1 DEF Owed
<1> QED
  BY <1>2, <1>3, <1>4, <1>5, <1>6, <1>7, <1>8, <1>9 DEF Step

LEMMA OwedAll ==
    ASSUME TypeInv, RunInv, OweInv, Next, NEW v \in Workers
    PROVE  Owed(v)'
<1>1. Grows
  BY StoreGrows
<1>2. \A w \in Workers : Owed(w)
  BY DEF OweInv
<1>3. DOMAIN pc = Workers /\ DOMAIN job = Workers /\ DOMAIN cur = Workers
  BY DEF TypeInv, WorkTypes
<1>4. ASSUME NEW w \in Workers, Moves(w), Owed(w)' PROVE Owed(v)'
  <2>1. CASE v = w
    BY <1>4, <2>1
  <2>2. CASE v # w
    BY <1>1, <1>2, <1>4, <2>2, OwedStays DEF Moves
  <2> QED
    BY <2>1, <2>2
<1>5. ASSUME UNCHANGED <<pc, job, cur>> PROVE Owed(v)'
  BY <1>1, <1>2, <1>5, OwedStays
<1>6. ASSUME NEW scope \in Asked, Submit(scope) PROVE Owed(v)'
  BY <1>5, <1>6 DEF Submit
<1>7. ASSUME NEW w \in Workers, NEW scope \in Asked, Fire(w, scope) PROVE Owed(v)'
  <2>1. Moves(w) /\ cur' = cur
    BY <1>3, <1>7 DEF Fire, Begin, Goto, Moves
  <2>2. CASE UNCHANGED <<pc, job>>
    BY <1>5, <2>1, <2>2
  <2>3. CASE ~UNCHANGED <<pc, job>>
    BY <1>4, <1>7, <2>1, <2>3, OwedBegins DEF Fire, Begin
  <2> QED
    BY <2>2, <2>3
<1>8. ASSUME NEW w \in Workers, Step(w) PROVE Owed(v)'
  BY <1>1, <1>2, <1>4, <1>8, OwedStep
<1>9. ASSUME NEW w \in Workers, OpenTriggerFails(w) \/ CloseTriggerFails(w)
      PROVE  Owed(v)'
  <2>1. Moves(w) /\ pc'[w] = "free"
    BY <1>3, <1>9 DEF OpenTriggerFails, CloseTriggerFails, Leave, Moves
  <2> QED
    BY <1>4, <2>1 DEF Owed
<1>10. ASSUME NEW w \in Workers, RecordFails(w) PROVE Owed(v)'
  <2>1. Abandon(w) /\ pc[w] # "free" /\ Moves(w)
    BY <1>3, <1>10 DEF RecordFails, Abandon, Moves
  <2> QED
    BY <1>1, <1>2, <1>4, <2>1, OwedAbandon
<1>11. CASE Crash
  BY <1>11 DEF Crash, Owed
<1>12. CASE Finished
  BY <1>5, <1>12 DEF Finished, vars
<1> QED
  BY <1>6, <1>7, <1>8, <1>9, <1>10, <1>11, <1>12 DEF Next

(* A trigger that was not closed is closed by its worker. *)
LEMMA ClosedByWorker ==
    ASSUME TriggerInv, Next, NEW tid \in Closed', tid \notin Closed
    PROVE  \E w \in Workers : CloseTrigger(w) /\ tid = job[w].tid
<1>1. tid \in DOMAIN trigger_log' /\ trigger_log'[tid].status # "running"
  BY DEF Closed
<1>2. tid \in DOMAIN trigger_log => trigger_log[tid].status = "running"
  BY DEF Closed
<1>3. ASSUME UNCHANGED trigger_log PROVE FALSE
  BY <1>1, <1>2, <1>3
<1>4. ASSUME NEW w \in Workers, OpenTrigger(w) PROVE FALSE
  BY <1>1, <1>2, <1>4 DEF OpenTrigger
<1>5. ASSUME NEW w \in Workers, CloseTrigger(w) PROVE tid = job[w].tid
  BY <1>1, <1>2, <1>5, TriggerClosed
<1>6. ASSUME NEW w \in Workers,
             \/ OpenSession(w) \/ SessionFails(w) \/ NoMoreModules(w) \/ NextModule(w)
             \/ Fetch(w) \/ ModuleFails(w) \/ Score(w) \/ RecordRun(w)
             \/ RecordComponents(w) \/ RecordFails(w)
      PROVE  FALSE
  BY <1>3, <1>6, WorkStep
<1>7. ASSUME NEW w \in Workers, \/ OpenTriggerFails(w) \/ CloseTriggerFails(w)
                                \/ RecordEvent(w) \/ TakeRequest(w)
      PROVE  FALSE
  BY <1>3, <1>7 DEF OpenTriggerFails, CloseTriggerFails, RecordEvent, TakeRequest, tables
<1>8. ASSUME NEW scope \in Asked, Submit(scope) PROVE FALSE
  BY <1>3, <1>8 DEF Submit, tables
<1>9. ASSUME NEW w \in Workers, NEW scope \in Asked, Fire(w, scope) PROVE FALSE
  BY <1>3, <1>9 DEF Fire, tables
<1>10. ~(Crash \/ Finished)
  BY <1>3 DEF Crash, Finished, vars, tables
<1> QED
  BY <1>4, <1>5, <1>6, <1>7, <1>8, <1>9, <1>10 DEF Next, Step

LEMMA OweStep == TypeInv /\ TriggerInv /\ RunInv /\ OweInv /\ [Next]_vars => OweInv'
<1> SUFFICES ASSUME TypeInv, TriggerInv, RunInv, OweInv, [Next]_vars PROVE OweInv'
  OBVIOUS
<1>1. CASE Next
  <2>1. \A w \in Workers : Owed(w)'
    BY <1>1, OwedAll
  <2>2. Grows
    BY <1>1, StoreGrows
  <2>3. ASSUME NEW tid \in Closed' PROVE Reported(tid)'
    <3>1. CASE tid \in Closed
      <4>1. trigger_log'[tid] = trigger_log[tid] /\ Reported(tid)
        BY <1>1, <3>1, ClosedRowsStand DEF OweInv
      <4> QED
        BY <2>2, <3>1, <4>1, ReportedStays
    <3>2. CASE tid \notin Closed
      <4>1. PICK w \in Workers : CloseTrigger(w) /\ tid = job[w].tid
        BY <1>1, <2>3, <3>2, ClosedByWorker
      <4>2. Owed(w)
        BY DEF OweInv
      <4> QED
        BY <2>2, <4>1, <4>2, ClosesReported
    <3> QED
      BY <3>1, <3>2
  <2> QED
    BY <2>1, <2>3 DEF OweInv
<1>2. CASE UNCHANGED vars
  <2>1. UNCHANGED <<asked, pc, job, cur, trigger_log, pdm_run, component_health>>
    BY <1>2 DEF vars, tables
  <2>2. Closed' = Closed
    BY <2>1 DEF Closed
  <2>3. \A w \in Workers : Owed(w)'
    BY <2>1 DEF OweInv, Owed, Doing, AtComponents, Backed
  <2>4. \A tid \in Closed : Reported(tid)'
    BY <2>1 DEF OweInv, Reported, Backed
  <2> QED
    BY <2>2, <2>3, <2>4 DEF OweInv
<1> QED
  BY <1>1, <1>2

LEMMA HealthRowsCount ==
    ASSUME NEW r, NEW n \in Nat
    PROVE  Cardinality(HealthRows(r, n)) = n
<1> DEFINE H == HealthRows(r, n)
           f == [i \in 1..n |-> [uid |-> r.uid, module |-> r.module, component |-> i]]
<1>1. f \in Surjection(1..n, H)
  BY DEF Surjection, HealthRows
<1>2. ASSUME NEW i \in 1..n, NEW j \in 1..n, f[i] = f[j] PROVE i = j
  <2>1. f[i].component = i /\ f[j].component = j
    OBVIOUS
  <2> QED
    BY <1>2, <2>1
<1>3. f \in Injection(1..n, H)
  BY <1>1, <1>2 DEF Injection, Surjection, IsInjective
<1>4. ExistsBijection(1..n, H)
  BY <1>1, <1>3 DEF ExistsBijection, Bijection
<1> QED
  BY <1>4, FS_CountingElements

(* A run has the components it counts when all of them are stored: no other    *)
(* rows carry its id, since its own run explains each.                         *)
LEMMA RowsOfRun ==
    ASSUME TypeInv, RunInv, NEW r \in pdm_run,
           HealthRows(r, r.scored) \subseteq component_health
    PROVE  Cardinality(RowsOf(r.uid)) = r.scored
<1>1. r.scored \in Nat
  BY DEF TypeInv, StoreTypes, RunType
<1>2. ASSUME NEW c \in component_health, c.uid = r.uid
      PROVE  c \in HealthRows(r, r.scored)
  <2>1. c \in HealthType
    BY DEF TypeInv, StoreTypes, HealthType
  <2>2. PICK q \in pdm_run : /\ q.uid = c.uid /\ q.module = c.module
                             /\ c.component <= q.scored
    BY DEF RunInv, Explained
  <2>3. q = r
    BY <1>2, <2>2 DEF RunInv, UidsOK
  <2>4. c.component \in Nat \ {0} /\ c.component <= r.scored
    BY <2>1, <2>2, <2>3 DEF HealthType
  <2>5. c.component \in 1..r.scored
    BY <1>1, <2>4, SMT
  <2>6. c = [uid |-> r.uid, module |-> r.module, component |-> c.component]
    BY <1>2, <2>1, <2>2, <2>3 DEF HealthType
  <2> QED
    BY <2>5, <2>6 DEF HealthRows
<1>3. \A c \in HealthRows(r, r.scored) : c.uid = r.uid
  BY DEF HealthRows
<1>4. RowsOf(r.uid) = HealthRows(r, r.scored)
  BY <1>2, <1>3 DEF RowsOf
<1> QED
  BY <1>1, <1>4, HealthRowsCount

(* One result per module: the results are as many as the modules. *)
LEMMA OutcomesAddUp ==
    ASSUME NEW R, IsFiniteSet(R), Once(R)
    PROVE  Successes(R) + Failures(R) = Cardinality(ModulesOf(R))
<1> DEFINE S == {r \in R : r.status = "success"}
           F == {r \in R : r.status # "success"}
           f == [r \in R |-> r.module]
<1>1. IsFiniteSet(S) /\ IsFiniteSet(F)
  BY FS_Subset
<1>2. S \union F = R /\ S \intersect F = {}
  OBVIOUS
<1>3. Cardinality(R) = Cardinality(S) + Cardinality(F) - Cardinality(S \intersect F)
  <2>1. Cardinality(S \union F)
          = Cardinality(S) + Cardinality(F) - Cardinality(S \intersect F)
    BY <1>1, FS_Union
  <2> QED
    BY <1>2, <2>1
<1>4. Cardinality({}) = 0
  BY FS_EmptySet
<1>5. Cardinality(S) \in Nat /\ Cardinality(F) \in Nat
  BY <1>1, FS_CardinalityType
<1>6. Cardinality(S) + Cardinality(F) = Cardinality(R)
  <2>1. Cardinality(R) = Cardinality(S) + Cardinality(F) - 0
    BY <1>2, <1>3, <1>4, Zenon
  <2>2. \A s, t \in Nat : s + t - 0 = s + t
    BY SMT
  <2> QED
    BY <1>5, <2>1, <2>2, Zenon
<1>7. f \in Surjection(R, ModulesOf(R))
  BY DEF Surjection, ModulesOf
<1>8. f \in Injection(R, ModulesOf(R))
  BY <1>7 DEF Injection, Surjection, IsInjective, Once
<1>9. Cardinality(ModulesOf(R)) = Cardinality(R)
  BY <1>7, <1>8, FS_Surjection
<1> QED
  BY <1>6, <1>9 DEF Successes, Failures

LEMMA Inductive == Spec => [](TypeInv /\ RunInv /\ TriggerInv /\ OweInv)
BY TypeInit, TypeStep, RunInit, RunStep, TriggerInit, TriggerStep, OweInit, OweStep, PTL
   DEF Spec

(* What a closed trigger reports is stored: its counts add up to the modules   *)
(* it was to run, and each run it names is there with all its components,      *)
(* whatever storage calls fail and whenever the server dies.                   *)
THEOREM ReportsStored == Spec => []ReportsAreStored
<1>1. ASSUME TypeInv, RunInv, OweInv PROVE ReportsAreStored
  <2> SUFFICES ASSUME NEW tid \in Closed
               PROVE  LET row == trigger_log[tid] IN
                      /\ row.success + row.failure = Cardinality(Planned(asked[tid]))
                      /\ \A res \in row.results :
                           res.uid # 0 =>
                             \E r \in RunOf(res.uid) :
                               /\ r.tid = tid /\ r.module = res.module
                               /\ r.status = res.status
                               /\ Cardinality(RowsOf(r.uid)) = r.scored
    BY DEF ReportsAreStored
  <2> DEFINE R == trigger_log[tid].results
  <2>1. Reported(tid)
    BY <1>1 DEF OweInv
  <2>2. trigger_log[tid].success + trigger_log[tid].failure = Cardinality(Planned(asked[tid]))
    BY <2>1, OutcomesAddUp DEF Reported
  <2>3. ASSUME NEW res \in R, res.uid # 0
        PROVE  \E r \in RunOf(res.uid) :
                  /\ r.tid = tid /\ r.module = res.module /\ r.status = res.status
                  /\ Cardinality(RowsOf(r.uid)) = r.scored
    <3>1. PICK r \in pdm_run :
             /\ r.uid = res.uid /\ r.tid = tid
             /\ r.module = res.module /\ r.status = res.status
             /\ HealthRows(r, r.scored) \subseteq component_health
      BY <2>1, <2>3 DEF Reported, Backed, Backs
    <3>2. Cardinality(RowsOf(r.uid)) = r.scored
      BY <1>1, <3>1, RowsOfRun
    <3> QED
      BY <3>1, <3>2 DEF RunOf
  <2> QED
    BY <2>2, <2>3
<1> QED
  BY <1>1, Inductive, PTL

(* A trigger that closed as a success left a complete successful run of each   *)
(* module it was to run.                                                       *)
THEOREM SuccessComplete == Spec => []SuccessIsComplete
<1>1. ASSUME TypeInv, RunInv, OweInv PROVE SuccessIsComplete
  <2> SUFFICES ASSUME NEW tid \in Closed, trigger_log[tid].status = "success",
                      NEW m \in Planned(asked[tid])
               PROVE  \E r \in pdm_run :
                        /\ r.tid = tid /\ r.module = m /\ r.status = "success"
                        /\ Cardinality(RowsOf(r.uid)) = r.scored
    BY DEF SuccessIsComplete
  <2> DEFINE R == trigger_log[tid].results
  <2>1. Reported(tid)
    BY <1>1 DEF OweInv
  <2>2. Failures(R) = 0
    BY <2>1 DEF Reported, Outcome
  <2>3. \A res \in R : res.status = "success"
    <3>1. IsFiniteSet({r \in R : r.status # "success"})
      BY <2>1, FS_Subset DEF Reported
    <3>2. {r \in R : r.status # "success"} = {}
      BY <2>2, <3>1, FS_EmptySet DEF Failures
    <3> QED
      BY <3>2
  <2>4. PICK res \in R : res.module = m
    BY <2>1 DEF Reported, ModulesOf
  <2>5. res.uid # 0
    BY <2>1, <2>3 DEF Reported, Backed, Backs
  <2>6. PICK r \in pdm_run :
           /\ r.uid = res.uid /\ r.tid = tid
           /\ r.module = res.module /\ r.status = res.status
           /\ HealthRows(r, r.scored) \subseteq component_health
    BY <2>1, <2>5 DEF Reported, Backed, Backs
  <2>7. Cardinality(RowsOf(r.uid)) = r.scored
    BY <1>1, <2>6, RowsOfRun
  <2> QED
    BY <2>3, <2>4, <2>6, <2>7
<1> QED
  BY <1>1, Inductive, PTL

-----------------------------------------------------------------------------
(* One failed module takes no other down. *)

(* Either every module has a run or, when the session did not open, none. *)
AllRan(results) == \A r \in results : r.uid # 0
NoneRan(results) == \A r \in results : r.uid = 0

Uniform(w) ==
    /\ pc[w] \in {"open", "session"} => job[w].results = {}
    /\ pc[w] \in {"next"} \union Active => AllRan(job[w].results)
    /\ pc[w] \in {"close", "event"} => AllRan(job[w].results) \/ NoneRan(job[w].results)

UniformInv ==
    /\ \A w \in Workers : Uniform(w)
    /\ \A tid \in Closed :
         LET results == trigger_log[tid].results IN AllRan(results) \/ NoneRan(results)

LEMMA UniformInit == Init => UniformInv
BY DEF Init, UniformInv, Uniform, Closed, Active

LEMMA UniformWork ==
    ASSUME TypeInv, RunInv, NEW w \in Workers, Uniform(w), Step(w)
    PROVE  Uniform(w)'
<1> USE DEF Active
<1>1. DOMAIN pc = Workers /\ DOMAIN job = Workers /\ job[w] \in JobType
  BY DEF TypeInv, WorkTypes
<1>2. CASE TakeRequest(w)
  <2>1. UNCHANGED <<pc, job>> \/ (pc'[w] = "open" /\ job'[w].results = {})
    BY <1>1, <1>2 DEF TakeRequest, Begin, Goto
  <2> QED
    BY <2>1 DEF Uniform
<1>3. CASE OpenTrigger(w) \/ OpenSession(w) \/ CloseTrigger(w) \/ NoMoreModules(w)
  <2>1. /\ UNCHANGED job
        /\ \/ pc[w] = "open" /\ pc'[w] = "session"
           \/ pc[w] = "session" /\ pc'[w] = "next"
           \/ pc[w] = "close" /\ pc'[w] = "event"
           \/ pc[w] = "next" /\ pc'[w] = "close"
    BY <1>1, <1>3 DEF OpenTrigger, OpenSession, CloseTrigger, NoMoreModules, Goto
  <2> QED
    BY <2>1 DEF Uniform, AllRan
<1>4. CASE SessionFails(w)
  <2>1. /\ pc[w] = "session" /\ pc'[w] = "close"
        /\ job'[w].results = job[w].results \union Missing(w)
    BY <1>1, <1>4 DEF SessionFails, Abandon, Missing, JobType
  <2>2. \A r \in Missing(w) : r.uid = 0
    BY DEF Missing, Result
  <2> QED
    BY <2>1, <2>2 DEF Uniform, NoneRan
<1>5. CASE NextModule(w)
  <2>1. pc[w] = "next" /\ pc'[w] \in Active
    BY <1>1, <1>5, TakesModule
  <2>2. job'[w].results = job[w].results
    BY <1>1, <1>5, TakesModule DEF JobType
  <2> QED
    BY <2>1, <2>2 DEF Uniform
<1>6. CASE Fetch(w) \/ ModuleFails(w) \/ Score(w)
  <2>1. UNCHANGED job /\ pc[w] \in Active /\ pc'[w] \in Active
    BY <1>1, <1>6 DEF Fetch, ModuleFails, Score, Goto
  <2> QED
    BY <2>1 DEF Uniform
<1>7. CASE RecordRun(w) \/ RecordComponents(w)
  <2>1. /\ pc[w] \in Active
        /\ \/ Report(w) /\ pc'[w] = "next"
           \/ UNCHANGED job /\ pc'[w] = "components"
    BY <1>1, <1>7 DEF RecordRun, RecordComponents, Goto
  <2>2. CASE Report(w) /\ pc'[w] = "next"
    <3>1. job'[w].results = job[w].results
            \union {Result(cur[w].module, cur[w].uid, cur[w].status)}
      BY <1>1, <2>2 DEF Report, JobType
    <3>2. cur[w].uid # 0
      BY <2>1, ActiveTypes
    <3> QED
      BY <2>1, <2>2, <3>1, <3>2 DEF Uniform, AllRan, Result
  <2> QED
    BY <2>1, <2>2 DEF Uniform
<1>8. CASE RecordEvent(w)
  <2>1. pc'[w] = "free"
    BY <1>1, <1>8 DEF RecordEvent, Leave
  <2> QED
    BY <2>1 DEF Uniform
<1> QED
  BY <1>2, <1>3, <1>4, <1>5, <1>6, <1>7, <1>8 DEF Step

LEMMA UniformStep ==
    ASSUME ~StorageMayFail, TypeInv, TriggerInv, RunInv, OweInv, UniformInv, [Next]_vars
    PROVE  UniformInv'
<1>1. DOMAIN pc = Workers /\ DOMAIN job = Workers /\ DOMAIN cur = Workers
  BY DEF TypeInv, WorkTypes
<1>2. ASSUME NEW v \in Workers, Next PROVE Uniform(v)'
  <2>1. \A w \in Workers : Uniform(w)
    BY DEF UniformInv
  <2>2. ASSUME NEW w \in Workers, w # v, Moves(w) PROVE Uniform(v)'
    BY <2>1, <2>2 DEF Moves, Uniform
  <2>3. ASSUME UNCHANGED <<pc, job>> PROVE Uniform(v)'
    BY <2>1, <2>3 DEF Uniform
  <2>4. ASSUME NEW scope \in Asked, Submit(scope) PROVE Uniform(v)'
    BY <2>3, <2>4 DEF Submit
  <2>5. ASSUME NEW w \in Workers, NEW scope \in Asked, Fire(w, scope) PROVE Uniform(v)'
    <3>1. Moves(w)
      BY <1>1, <2>5 DEF Fire, Begin, Goto, Moves
    <3>2. UNCHANGED <<pc, job>> \/ (pc'[w] = "open" /\ job'[w].results = {})
      BY <1>1, <2>5 DEF Fire, Begin, Goto
    <3>3. UNCHANGED <<pc, job>> \/ Uniform(w)'
      BY <3>2 DEF Uniform, Active
    <3> QED
      BY <2>2, <2>3, <3>1, <3>3
  <2>6. ASSUME NEW w \in Workers, Step(w) PROVE Uniform(v)'
    <3>1. Moves(w)
      BY <1>2, <2>6, StoreGrows, OwedStep DEF OweInv
    <3>2. Uniform(w)'
      BY <2>1, <2>6, UniformWork
    <3> QED
      BY <2>2, <3>1, <3>2
  <2>7. ASSUME NEW w \in Workers, OpenTriggerFails(w) \/ RecordFails(w) \/ CloseTriggerFails(w)
        PROVE  FALSE
    BY <2>7 DEF OpenTriggerFails, RecordFails, CloseTriggerFails, StorageFault
  <2>8. CASE Crash
    BY <2>8 DEF Crash, Uniform, Active
  <2>9. CASE Finished
    BY <2>3, <2>9 DEF Finished, vars
  <2> QED
    BY <1>2, <2>4, <2>5, <2>6, <2>7, <2>8, <2>9 DEF Next
<1>3. ASSUME NEW tid \in Closed', Next
      PROVE  AllRan(trigger_log'[tid].results) \/ NoneRan(trigger_log'[tid].results)
  <2>1. CASE tid \in Closed
    <3>1. trigger_log'[tid] = trigger_log[tid]
      BY <1>3, <2>1, ClosedRowsStand
    <3> QED
      BY <2>1, <3>1 DEF UniformInv
  <2>2. CASE tid \notin Closed
    <3>1. PICK w \in Workers : CloseTrigger(w) /\ tid = job[w].tid
      BY <1>3, <2>2, ClosedByWorker
    <3>2. tid \in DOMAIN trigger_log /\ pc[w] = "close"
      BY <3>1, TriggerClosed DEF CloseTrigger, Goto
    <3>3. trigger_log'[tid].results = job[w].results
      BY <3>1, <3>2 DEF CloseTrigger
    <3> QED
      BY <3>2, <3>3 DEF UniformInv, Uniform
  <2> QED
    BY <2>1, <2>2
<1>4. CASE Next
  BY <1>2, <1>3, <1>4 DEF UniformInv
<1>5. CASE UNCHANGED vars
  <2>1. UNCHANGED <<pc, job, trigger_log>>
    BY <1>5 DEF vars, tables
  <2>2. Closed' = Closed
    BY <2>1 DEF Closed
  <2> QED
    BY <2>1, <2>2 DEF UniformInv, Uniform
<1> QED
  BY <1>4, <1>5

(* While no storage call fails, a module whose fetch or scoring fails takes no  *)
(* other down: when a trigger closes, all modules it was to run have a run of   *)
(* their own, or none has because the session did not open.                     *)
THEOREM ModulesIndependent ==
    ASSUME ~StorageMayFail
    PROVE  Spec => []ModulesAreIndependent
<1>1. ASSUME TypeInv, OweInv, ReportInv, UniformInv PROVE ModulesAreIndependent
  <2> SUFFICES ASSUME NEW tid \in Closed, NEW q \in pdm_run, q.tid = tid
               PROVE  {r.module : r \in {p \in pdm_run : p.tid = tid}} = Planned(asked[tid])
    BY DEF ModulesAreIndependent
  <2> DEFINE R == trigger_log[tid].results
  <2>1. Reported(tid)
    BY <1>1 DEF OweInv
  <2>2. \A r \in pdm_run : r.tid = tid => Result(r.module, r.uid, r.status) \in R
    BY <1>1 DEF ReportInv, Accounted
  <2>3. \A r \in pdm_run : /\ r.uid # 0
                           /\ Result(r.module, r.uid, r.status).uid = r.uid
                           /\ Result(r.module, r.uid, r.status).module = r.module
    BY <1>1 DEF TypeInv, StoreTypes, RunType, Result
  <2>4. AllRan(R)
    <3>1. AllRan(R) \/ NoneRan(R)
      BY <1>1 DEF UniformInv
    <3>2. ~NoneRan(R)
      BY <2>2, <2>3 DEF NoneRan
    <3> QED
      BY <3>1, <3>2
  <2>5. ModulesOf(R) = Planned(asked[tid])
    BY <2>1 DEF Reported
  <2>6. ASSUME NEW r \in pdm_run, r.tid = tid PROVE r.module \in ModulesOf(R)
    BY <2>2, <2>3, <2>6 DEF ModulesOf
  <2>7. ASSUME NEW m \in ModulesOf(R)
        PROVE  \E r \in pdm_run : r.tid = tid /\ r.module = m
    <3>1. PICK res \in R : res.module = m
      BY DEF ModulesOf
    <3> QED
      BY <2>1, <2>4, <3>1 DEF Reported, Backed, Backs, AllRan
  <2> QED
    BY <2>5, <2>6, <2>7
<1>2. Init => ReportInv
  BY DEF Init, ReportInv
<1>3. TriggerInv /\ RunInv /\ ReportInv /\ [Next]_vars => ReportInv'
  BY ReportStep
<1>4. TypeInv /\ TriggerInv /\ RunInv /\ OweInv /\ UniformInv /\ [Next]_vars => UniformInv'
  BY UniformStep
<1> QED
  BY <1>1, <1>2, <1>3, <1>4, UniformInit, Inductive, PTL DEF Spec

=============================================================================
