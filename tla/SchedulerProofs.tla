-------------------------- MODULE SchedulerProofs --------------------------
(***************************************************************************)
(* Theorems about the automation, for any scopes, clients and intervals    *)
(* and any number of changes, failures, stops and crashes.                 *)
(***************************************************************************)
EXTENDS Scheduler, TLAPS

Row == [enabled : BOOLEAN, interval : Nat \ {0}]

Labels == {"idle", "persist", "schedule", "record"}

\* A schedule is a partial function: what a change of one scope makes of it.
LEMMA PutScope ==
    ASSUME NEW f, NEW S, DOMAIN f \subseteq S, NEW s \in S, NEW v
    PROVE  /\ DOMAIN Put(f, s, v) = DOMAIN f \union {s}
           /\ DOMAIN Put(f, s, v) \subseteq S
           /\ Put(f, s, v)[s] = v
           /\ \A x \in DOMAIN f : x # s => Put(f, s, v)[x] = f[x]
BY DEF Put

LEMMA RemoveScope ==
    ASSUME NEW f, NEW S, DOMAIN f \subseteq S, NEW s
    PROVE  /\ DOMAIN Remove(f, s) = DOMAIN f \ {s}
           /\ DOMAIN Remove(f, s) \subseteq S
           /\ \A x \in DOMAIN Remove(f, s) : Remove(f, s)[x] = f[x]
BY DEF Remove

LEMMA NoneIsEmpty == DOMAIN None = {}
BY DEF None

\* The interval that is stored and handed to the timer.
LEMMA AtLeastOneType ==
    ASSUME NEW n \in Int
    PROVE  /\ AtLeastOne(n) \in Nat \ {0}
           /\ n \in Nat \ {0} => AtLeastOne(n) = n
BY DEF AtLeastOne

-----------------------------------------------------------------------------
(* Types. *)

\* A client that changes a scope has its request.
TypeInv == TypeOK /\ \A c \in Clients : pc[c] # "idle" => req[c] \in Request

LEMMA TypeInit == Init => TypeInv
<1> SUFFICES ASSUME Init PROVE TypeInv
  OBVIOUS
<1>1. TypeOK
  <2>1. <<>> \in Seq(Scopes)
    OBVIOUS
  <2> QED
    BY <2>1, NoneIsEmpty DEF Init, TypeOK
<1>2. \A c \in Clients : pc[c] = "idle"
  BY DEF Init
<1> QED
  BY <1>1, <1>2 DEF TypeInv

\* What a request becomes as a row of the schedule.
LEMMA RowOfRequest ==
    ASSUME NEW r \in Request
    PROVE  /\ r.scope \in Scopes
           /\ [enabled |-> r.enabled, interval |-> AtLeastOne(r.interval)] \in Row
           /\ AtLeastOne(r.interval) \in Nat \ {0}
<1>1. r.scope \in Scopes /\ r.enabled \in BOOLEAN /\ r.interval \in Int
  BY IntervalAssumption DEF Request
<1> QED
  BY <1>1, AtLeastOneType DEF Row

\* The steps of a request and the end of one leave the requests well typed.
LEMMA GotoType ==
    ASSUME TypeInv, NEW c \in Clients, NEW from \in Labels, NEW to \in Labels,
           from # "idle", Goto(c, from, to), req' = req
    PROVE  /\ pc' \in [Clients -> Labels]
           /\ req' \in [Clients -> Request \union {NoRequest}]
           /\ \A d \in Clients : pc'[d] # "idle" => req'[d] \in Request
           /\ req[c] \in Request
BY DEF TypeInv, TypeOK, Goto, Labels

LEMMA AnswerType ==
    ASSUME TypeInv, NEW c \in Clients, Answer(c)
    PROVE  /\ pc' \in [Clients -> Labels]
           /\ req' \in [Clients -> Request \union {NoRequest}]
           /\ \A d \in Clients : pc'[d] # "idle" => req'[d] \in Request
BY DEF TypeInv, TypeOK, Answer, Labels

LEMMA TypeStep == TypeInv /\ [Next]_vars => TypeInv'
<1> SUFFICES ASSUME TypeInv, [Next]_vars PROVE TypeInv'
  OBVIOUS
<1> USE DEF TypeInv, TypeOK
<1>1. CASE Start
  <2>1. \A s \in DOMAIN todo' : todo'[s] \in Nat \ {0}
    BY <1>1 DEF Start, Enabled
  <2>2. DOMAIN todo' \subseteq Scopes
    BY <1>1 DEF Start
  <2> QED
    BY <1>1, <2>1, <2>2 DEF Start, requests, pool
<1>2. ASSUME NEW s \in Scopes, Reload(s) PROVE TypeInv'
  <2>1. AtLeastOne(todo[s]) \in Nat \ {0}
    BY <1>2, AtLeastOneType DEF Reload
  <2>2. DOMAIN jobs' \subseteq Scopes /\ \A x \in DOMAIN jobs' : jobs'[x] \in Nat \ {0}
    BY <1>2, <2>1 DEF Reload, Put
  <2>3. DOMAIN todo' \subseteq Scopes /\ \A x \in DOMAIN todo' : todo'[x] \in Nat \ {0}
    BY <1>2 DEF Reload, Remove
  <2> QED
    BY <1>2, <2>2, <2>3 DEF Reload, requests, pool
<1>3. ASSUME NEW s \in Scopes, Submit(s) \/ End(s) PROVE TypeInv'
  <2>1. queue' \in Seq(Scopes)
    BY <1>3 DEF Submit, End
  <2>2. late' \subseteq Scopes /\ running' \subseteq Scopes
    BY <1>3 DEF Submit, End
  <2> QED
    BY <1>3, <2>1, <2>2 DEF Submit, End, requests
<1>13. CASE Begin \/ Miss
  <2>1. Take /\ running' \in {running, running \union {Head(queue)}}
    BY <1>13 DEF Begin, Miss
  <2>2. queue' \in Seq(Scopes) /\ Head(queue) \in Scopes
    BY <2>1 DEF Take
  <2>3. late' \subseteq Scopes /\ running' \subseteq Scopes
    BY <2>1, <2>2 DEF Take
  <2> QED
    BY <2>1, <2>2, <2>3 DEF Take, requests
<1>4. CASE Serve
  BY <1>4 DEF Serve, memory, pool, requests
<1>5. CASE Stop
  BY <1>5, NoneIsEmpty, BoundAssumption DEF Stop, Stopping, requests, pool
<1>6. CASE Crash
  <2>1. \A c \in Clients : pc'[c] = "idle"
    BY <1>6 DEF Crash
  <2>2. DOMAIN jobs' = {} /\ DOMAIN todo' = {} /\ queue' \in Seq(Scopes)
    BY <1>6, NoneIsEmpty DEF Crash
  <2>3. stops' \in Nat
    BY <1>6 DEF Crash, Stopping
  <2>4. req' \in [Clients -> Request \union {NoRequest}]
    BY <1>6 DEF Crash
  <2>5. pc' \in [Clients -> Labels]
    BY <1>6 DEF Crash, Labels
  <2> QED
    BY <1>6, <2>1, <2>2, <2>3, <2>4, <2>5 DEF Crash, Labels
<1>7. ASSUME NEW c \in Clients, NEW r \in Request, Apply(c, r) PROVE TypeInv'
  <2>1. pc' \in [Clients -> Labels]
    BY <1>7 DEF Apply, Goto, Labels
  <2>2. req' \in [Clients -> Request \union {NoRequest}]
    BY <1>7 DEF Apply
  <2>3. \A d \in Clients : pc'[d] # "idle" => req'[d] \in Request
    BY <1>7 DEF Apply, Goto
  <2> QED
    BY <1>7, <2>1, <2>2, <2>3 DEF Apply, memory, pool, Labels
<1>8. ASSUME NEW c \in Clients, Persist(c) PROVE TypeInv'
  <2>1. Goto(c, "persist", "schedule") /\ req' = req
    BY <1>8 DEF Persist
  <2>2. /\ pc' \in [Clients -> Labels]
        /\ \A d \in Clients : pc'[d] # "idle" => req'[d] \in Request
        /\ req[c] \in Request
    BY <2>1, GotoType DEF Labels
  <2> DEFINE row == [enabled |-> req[c].enabled, interval |-> AtLeastOne(req[c].interval)]
  <2>3. req[c].scope \in Scopes /\ row \in Row
    BY <2>2, RowOfRequest
  <2>4. automation_config' = Put(automation_config, req[c].scope, row)
    BY <1>8 DEF Persist
  <2> HIDE DEF row
  <2>5. /\ DOMAIN automation_config' \subseteq Scopes
        /\ \A s \in DOMAIN automation_config' : automation_config'[s] \in Row
    BY <2>3, <2>4 DEF Put, Row
  <2> QED
    BY <1>8, <2>1, <2>2, <2>5 DEF Persist, memory, pool, Labels, Row
<1>9. ASSUME NEW c \in Clients, PersistFails(c) PROVE TypeInv'
  <2>1. Answer(c)
    BY <1>9 DEF PersistFails
  <2>2. /\ pc' \in [Clients -> Labels]
        /\ req' \in [Clients -> Request \union {NoRequest}]
        /\ \A d \in Clients : pc'[d] # "idle" => req'[d] \in Request
    BY <2>1, AnswerType
  <2> QED
    BY <1>9, <2>2 DEF PersistFails, Stopping, memory, pool, Labels
<1>10. ASSUME NEW c \in Clients, Schedule(c) PROVE TypeInv'
  <2>1. Goto(c, "schedule", "record") /\ req' = req
    BY <1>10 DEF Schedule
  <2>2. /\ pc' \in [Clients -> Labels]
        /\ \A d \in Clients : pc'[d] # "idle" => req'[d] \in Request
        /\ req[c] \in Request
    BY <2>1, GotoType DEF Labels
  <2>3. req[c].scope \in Scopes /\ AtLeastOne(req[c].interval) \in Nat \ {0}
    BY <2>2, RowOfRequest
  <2>4. \/ jobs' = Put(jobs, req[c].scope, AtLeastOne(req[c].interval))
        \/ jobs' = Remove(jobs, req[c].scope)
    BY <1>10 DEF Schedule
  <2>5. /\ DOMAIN jobs' \subseteq Scopes
        /\ \A s \in DOMAIN jobs' : jobs'[s] \in Nat \ {0}
    BY <2>3, <2>4 DEF Put, Remove
  <2> QED
    BY <1>10, <2>1, <2>2, <2>5 DEF Schedule, pool, Labels
<1>11. ASSUME NEW c \in Clients, Record(c) PROVE TypeInv'
  <2>1. Answer(c)
    BY <1>11 DEF Record
  <2>2. /\ pc' \in [Clients -> Labels]
        /\ req' \in [Clients -> Request \union {NoRequest}]
        /\ \A d \in Clients : pc'[d] # "idle" => req'[d] \in Request
    BY <2>1, AnswerType
  <2>3. req[c].scope \in Scopes
    BY <1>11, RowOfRequest DEF Record
  <2> QED
    BY <1>11, <2>2, <2>3 DEF Record, Stopping, memory, pool, Labels
<1>12. CASE UNCHANGED vars
  BY <1>12 DEF vars, memory, pool, requests
<1> QED
  BY <1>1, <1>2, <1>3, <1>4, <1>5, <1>6, <1>7, <1>8, <1>9, <1>10, <1>11, <1>12, <1>13
  DEF Next, Waiting

\* Every variable keeps its type, in every interleaving of requests, timers,
\* failures and restarts.
THEOREM TypeCorrect == Spec => []TypeOK
<1>1. TypeInv => TypeOK
  BY DEF TypeInv
<1> QED
  BY <1>1, TypeInit, TypeStep, PTL DEF Spec

-----------------------------------------------------------------------------
(* The jobs are those of the persisted schedule. *)

\* No two requests change the same scope.
Alone ==
    \A c, d \in Clients :
        pc[c] # "idle" /\ pc[d] # "idle" /\ req[c].scope = req[d].scope => c = d

\* Only a serving scheduler has requests.
Answered == server # "up" => \A c \in Clients : pc[c] = "idle"

\* Between its two writes a request is on disk.
Written ==
    \A c \in Clients : pc[c] = "schedule" =>
      /\ req[c].scope \in DOMAIN automation_config
      /\ automation_config[req[c].scope] =
           [enabled |-> req[c].enabled, interval |-> AtLeastOne(req[c].interval)]

Rescheduling(s) == \E c \in Clients : pc[c] = "schedule" /\ req[c].scope = s

Agree(s) ==
    /\ s \in DOMAIN jobs <=> Enabled(s)
    /\ s \in DOMAIN jobs => jobs[s] = automation_config[s].interval

Serving ==
    server = "up" =>
      /\ DOMAIN todo = {}
      /\ \A s \in Scopes : Rescheduling(s) \/ Agree(s)

HasRow(f) == \A s \in DOMAIN f : Enabled(s) /\ f[s] = automation_config[s].interval

\* Every enabled row has its job, or is still to get it.
Loading ==
    server = "loading" =>
      /\ HasRow(jobs)
      /\ HasRow(todo)
      /\ \A s \in Scopes : Enabled(s) => s \in DOMAIN jobs \union DOMAIN todo

Ended == server = "down" => DOMAIN jobs = {}

JobsInv == TypeInv /\ Alone /\ Answered /\ Written /\ Serving /\ Loading /\ Ended

LEMMA JobsInit == Init => JobsInv
<1> SUFFICES ASSUME Init PROVE JobsInv
  OBVIOUS
<1>1. TypeInv
  BY TypeInit
<1>2. server = "down" /\ DOMAIN jobs = {} /\ \A c \in Clients : pc[c] = "idle"
  BY NoneIsEmpty DEF Init
<1> QED
  BY <1>1, <1>2 DEF JobsInv, Alone, Answered, Written, Serving, Loading, Ended

\* A step that touches none of this keeps it.
LEMMA JobsIdle ==
    ASSUME JobsInv, TypeInv',
           UNCHANGED <<automation_config, jobs, todo, server, requests>>
    PROVE  JobsInv'
BY DEF JobsInv, Alone, Answered, Written, Serving, Loading, Ended,
       Rescheduling, Agree, HasRow, Enabled, requests

\* The requests one by one: one that ends, or goes on, leaves the others alone.
LEMMA AnswerAlone ==
    ASSUME TypeInv, Alone, Written, NEW c \in Clients, Answer(c),
           pc[c] # "schedule", UNCHANGED automation_config
    PROVE  Alone' /\ Written' /\ \A s : Rescheduling(s)' <=> Rescheduling(s)
BY DEF TypeInv, TypeOK, Alone, Written, Rescheduling, Answer

LEMMA GotoAlone ==
    ASSUME TypeInv, Alone, NEW c \in Clients, NEW from \in Labels, NEW to \in Labels,
           from # "idle", Goto(c, from, to), req' = req
    PROVE  Alone'
BY DEF TypeInv, TypeOK, Alone, Goto, Labels

LEMMA JobsStart ==
    ASSUME JobsInv, TypeInv', Start
    PROVE  JobsInv'
<1> USE DEF JobsInv
<1>1. server' = "loading" /\ UNCHANGED <<automation_config, jobs, requests>>
  BY DEF Start
<1>2. DOMAIN jobs = {}
  BY DEF Start, Ended
<1>3. Loading'
  BY <1>1, <1>2 DEF Start, Loading, HasRow, Enabled
<1>4. Alone' /\ Answered' /\ Written'
  BY <1>1 DEF Start, Alone, Answered, Written, requests
<1> QED
  BY <1>1, <1>3, <1>4 DEF Serving, Ended

LEMMA JobsReload ==
    ASSUME JobsInv, TypeInv', NEW s \in Scopes, Reload(s)
    PROVE  JobsInv'
<1> USE DEF JobsInv
<1>1. server = "loading" /\ UNCHANGED <<automation_config, server, requests>>
  BY DEF Reload
<1>2. AtLeastOne(todo[s]) = todo[s]
  BY AtLeastOneType DEF Reload, TypeInv, TypeOK
<1>3. HasRow(jobs)'
  BY <1>1, <1>2 DEF Reload, Loading, HasRow, Put, Enabled
<1>4. HasRow(todo)'
  BY <1>1 DEF Reload, Loading, HasRow, Remove, Enabled
<1>5. \A x \in Scopes : Enabled(x)' => x \in DOMAIN jobs' \union DOMAIN todo'
  BY <1>1 DEF Reload, Loading, Put, Remove, Enabled
<1>6. Alone' /\ Answered' /\ Written'
  BY <1>1 DEF Alone, Answered, Written, requests
<1> QED
  BY <1>1, <1>3, <1>4, <1>5, <1>6 DEF Serving, Loading, Ended

LEMMA JobsServe ==
    ASSUME JobsInv, TypeInv', Serve
    PROVE  JobsInv'
<1> USE DEF JobsInv
<1>1. /\ server = "loading" /\ server' = "up" /\ DOMAIN todo = {}
      /\ UNCHANGED <<automation_config, jobs, todo, requests>>
  BY NoneIsEmpty DEF Serve, memory
<1>2. \A s \in Scopes : Agree(s)
  BY <1>1 DEF Loading, HasRow, Agree, TypeInv, TypeOK
<1>3. \A s \in Scopes : Agree(s)'
  BY <1>1, <1>2 DEF Agree, Enabled
<1>4. Alone' /\ Answered' /\ Written'
  BY <1>1 DEF Alone, Answered, Written, requests
<1> QED
  BY <1>1, <1>3, <1>4 DEF Serving, Loading, Ended

LEMMA JobsDown ==
    ASSUME JobsInv, TypeInv', Stop \/ Crash
    PROVE  JobsInv'
<1>1. server' = "down" /\ DOMAIN jobs' = {}
  BY NoneIsEmpty DEF Stop, Crash
<1>2. \A c \in Clients : pc'[c] = "idle"
  BY DEF Stop, Crash, requests
<1> QED
  BY <1>1, <1>2 DEF JobsInv, Alone, Answered, Written, Serving, Loading, Ended

LEMMA JobsApply ==
    ASSUME OneAtATime, JobsInv, TypeInv', NEW c \in Clients, NEW r \in Request,
           Apply(c, r)
    PROVE  JobsInv'
<1> USE DEF JobsInv
<1>1. /\ server = "up" /\ UNCHANGED <<automation_config, jobs, todo, server>>
      /\ pc[c] = "idle" /\ ~Busy(r.scope)
      /\ pc' = [pc EXCEPT ![c] = "persist"] /\ req' = [req EXCEPT ![c] = r]
  BY DEF Apply, Goto, memory
<1>2. Alone'
  BY <1>1 DEF Alone, Busy, TypeInv, TypeOK
<1>3. Written'
  BY <1>1 DEF Written, TypeInv, TypeOK
<1>4. \A s \in Scopes : Rescheduling(s) => Rescheduling(s)'
  BY <1>1 DEF Rescheduling, TypeInv, TypeOK
<1>5. Serving'
  BY <1>1, <1>4 DEF Serving, Agree, Enabled
<1> QED
  BY <1>1, <1>2, <1>3, <1>5 DEF Answered, Loading, Ended

LEMMA JobsPersist ==
    ASSUME JobsInv, TypeInv', NEW c \in Clients, Persist(c)
    PROVE  JobsInv'
<1> USE DEF JobsInv
<1> DEFINE row == [enabled |-> req[c].enabled, interval |-> AtLeastOne(req[c].interval)]
<1>1. /\ Goto(c, "persist", "schedule") /\ UNCHANGED <<jobs, todo, server, req>>
      /\ automation_config' = Put(automation_config, req[c].scope, row)
  BY DEF Persist, memory
<1>2. pc[c] = "persist" /\ pc' = [pc EXCEPT ![c] = "schedule"] /\ c \in DOMAIN pc
  BY <1>1 DEF Goto, TypeInv, TypeOK
<1>3. server = "up"
  BY <1>2 DEF Answered
<1>4. Alone'
  BY <1>1, GotoAlone DEF Labels
<1>5. Written'
  <2> SUFFICES ASSUME NEW d \in Clients, pc'[d] = "schedule"
               PROVE  /\ req[d].scope \in DOMAIN automation_config'
                      /\ automation_config'[req[d].scope] =
                           [enabled |-> req[d].enabled,
                            interval |-> AtLeastOne(req[d].interval)]
    BY <1>1 DEF Written
  <2>1. CASE d = c
    BY <1>1, <2>1 DEF Put
  <2>2. CASE d # c
    <3>1. pc[d] = "schedule" /\ req[d].scope # req[c].scope
      BY <1>2, <2>2 DEF Alone
    <3> QED
      BY <1>1, <3>1 DEF Written, Put
  <2> QED
    BY <2>1, <2>2
<1>6. \A s \in Scopes : Rescheduling(s)' \/ Agree(s)'
  <2> SUFFICES ASSUME NEW s \in Scopes, ~Rescheduling(s)' PROVE Agree(s)'
    OBVIOUS
  <2>1. s # req[c].scope
    BY <1>1, <1>2 DEF Rescheduling
  <2>2. ~Rescheduling(s)
    BY <1>1, <1>2 DEF Rescheduling, TypeInv, TypeOK
  <2>3. Agree(s)
    BY <1>3, <2>2 DEF Serving
  <2>4. /\ s \in DOMAIN automation_config' <=> s \in DOMAIN automation_config
        /\ s \in DOMAIN automation_config =>
             automation_config'[s] = automation_config[s]
    BY <1>1, <2>1 DEF Put
  <2> QED
    BY <1>1, <2>3, <2>4 DEF Agree, Enabled
<1> QED
  BY <1>1, <1>3, <1>4, <1>5, <1>6 DEF Answered, Serving, Loading, Ended

LEMMA JobsAnswer ==
    ASSUME JobsInv, TypeInv', NEW c \in Clients, PersistFails(c) \/ Record(c)
    PROVE  JobsInv'
<1> USE DEF JobsInv
<1>1. /\ Answer(c) /\ UNCHANGED <<automation_config, jobs, todo, server>>
      /\ pc[c] # "idle" /\ pc[c] # "schedule"
  BY DEF PersistFails, Record, memory
<1>2. server = "up"
  BY <1>1 DEF Answered
<1>3. Alone' /\ Written' /\ \A s : Rescheduling(s)' <=> Rescheduling(s)
  BY <1>1, AnswerAlone
<1>4. Serving'
  BY <1>1, <1>3 DEF Serving, Agree, Enabled
<1> QED
  BY <1>1, <1>2, <1>3, <1>4 DEF Answered, Loading, Ended

LEMMA JobsSchedule ==
    ASSUME JobsInv, TypeInv', NEW c \in Clients, Schedule(c)
    PROVE  JobsInv'
<1> USE DEF JobsInv
<1>1. /\ Goto(c, "schedule", "record")
      /\ UNCHANGED <<automation_config, todo, server, req>>
      /\ jobs' = IF req[c].enabled
                 THEN Put(jobs, req[c].scope, AtLeastOne(req[c].interval))
                 ELSE Remove(jobs, req[c].scope)
  BY DEF Schedule
<1>2. pc[c] = "schedule" /\ pc' = [pc EXCEPT ![c] = "record"] /\ c \in DOMAIN pc
  BY <1>1 DEF Goto, TypeInv, TypeOK
<1>3. server = "up"
  BY <1>2 DEF Answered
<1>4. Alone'
  BY <1>1, GotoAlone DEF Labels
<1>5. Written'
  BY <1>1, <1>2 DEF Written, TypeInv, TypeOK
<1>6. \A s \in Scopes : Rescheduling(s)' \/ Agree(s)'
  <2> SUFFICES ASSUME NEW s \in Scopes, ~Rescheduling(s)' PROVE Agree(s)'
    OBVIOUS
  <2>1. CASE s = req[c].scope
    <3> DEFINE interval == AtLeastOne(req[c].interval)
    <3>1. /\ s \in DOMAIN automation_config
          /\ automation_config[s] = [enabled |-> req[c].enabled, interval |-> interval]
      BY <1>2, <2>1 DEF Written
    <3> HIDE DEF interval
    <3>2. /\ automation_config[s].enabled = req[c].enabled
          /\ automation_config[s].interval = interval
      BY <3>1
    <3> USE DEF interval
    <3> QED
      BY <1>1, <2>1, <3>1, <3>2 DEF Agree, Enabled, Put, Remove
  <2>2. CASE s # req[c].scope
    <3>1. ~Rescheduling(s)
      BY <1>1, <1>2, <2>2 DEF Rescheduling, TypeInv, TypeOK
    <3>2. Agree(s)
      BY <1>3, <3>1 DEF Serving
    <3>3. /\ s \in DOMAIN jobs' <=> s \in DOMAIN jobs
          /\ s \in DOMAIN jobs => jobs'[s] = jobs[s]
      BY <1>1, <2>2 DEF Put, Remove
    <3> QED
      BY <1>1, <3>2, <3>3 DEF Agree, Enabled
  <2> QED
    BY <2>1, <2>2
<1> QED
  BY <1>1, <1>3, <1>4, <1>5, <1>6 DEF Answered, Serving, Loading, Ended

LEMMA JobsStep == ASSUME OneAtATime PROVE JobsInv /\ [Next]_vars => JobsInv'
<1> SUFFICES ASSUME JobsInv, [Next]_vars PROVE JobsInv'
  OBVIOUS
<1>1. TypeInv'
  BY TypeStep DEF JobsInv
<1>2. ASSUME NEW s \in Scopes, Submit(s) \/ End(s) PROVE JobsInv'
  BY <1>1, <1>2, JobsIdle DEF Submit, End
<1>4. CASE Begin \/ Miss
  BY <1>1, <1>4, JobsIdle DEF Begin, Miss, Take
<1>3. CASE UNCHANGED vars
  BY <1>1, <1>3, JobsIdle DEF vars, memory
<1> QED
  BY <1>1, <1>2, <1>3, <1>4, JobsStart, JobsReload, JobsServe, JobsDown, JobsApply,
     JobsPersist, JobsAnswer, JobsSchedule DEF Next, Waiting

\* When clients leave a scope alone while one changes it, the jobs of a
\* serving scheduler are those of the persisted schedule, whatever fails or
\* restarts in between (apply and start, core/scheduler.py).
THEOREM JobsAgree == ASSUME OneAtATime PROVE Spec => []ConfigMatchesJobs
<1>1. JobsInv => ConfigMatchesJobs
  BY DEF JobsInv, Serving, Agree, Rescheduling, Busy, ConfigMatchesJobs
<1>2. JobsInv /\ [Next]_vars => JobsInv'
  BY JobsStep
<1> QED
  BY <1>1, <1>2, JobsInit, PTL DEF Spec

\* Only the timer brings a scope into the pool: the workers take it from the
\* queue, and nothing else touches either.
LEMMA EntersBySubmit ==
    ASSUME TypeInv, [Next]_vars, NEW s \in InPool' \ InPool
    PROVE  s \in Scopes /\ Submit(s)
<1> USE DEF InPool, InQueue
<1>1. ~UNCHANGED pool
  BY DEF pool
<1>2. ~(Start \/ Serve \/ Stop \/ Waiting \/ UNCHANGED vars)
  BY <1>1 DEF Start, Serve, Stop, Waiting, vars, memory
<1>3. \A x \in Scopes : ~Reload(x)
  BY <1>1 DEF Reload
<1>4. \A c \in Clients :
        /\ \A r \in Request : ~Apply(c, r)
        /\ ~(Persist(c) \/ PersistFails(c) \/ Schedule(c) \/ Record(c))
  BY <1>1 DEF Apply, Persist, PersistFails, Schedule, Record, memory
<1>5. ~Crash
  <2> SUFFICES ASSUME Crash PROVE FALSE
    OBVIOUS
  <2>1. queue' = <<>> /\ running' = {}
    BY DEF Crash
  <2> QED
    BY <2>1
<1>6. \A x \in Scopes : ~End(x)
  BY DEF End
<1>7. ~(Begin \/ Miss)
  <2> SUFFICES ASSUME Begin \/ Miss PROVE FALSE
    OBVIOUS
  <2>1. /\ queue # <<>> /\ queue' = Tail(queue) /\ queue \in Seq(Scopes)
        /\ running' \in {running, running \union {Head(queue)}}
    BY DEF Begin, Miss, Take, TypeInv, TypeOK
  <2>2. /\ 1 \in DOMAIN queue /\ Head(queue) = queue[1]
        /\ \A i \in DOMAIN queue' : i + 1 \in DOMAIN queue /\ queue'[i] = queue[i + 1]
    BY <2>1
  <2> QED
    BY <2>1, <2>2
<1>8. PICK x \in Scopes : Submit(x)
  BY <1>2, <1>3, <1>4, <1>5, <1>6, <1>7 DEF Next
<1>9. queue \in Seq(Scopes) /\ queue' = Append(queue, x) /\ running' = running
  BY <1>8 DEF Submit, TypeInv, TypeOK
<1>10. \A i \in DOMAIN queue' :
         queue'[i] = x \/ (i \in DOMAIN queue /\ queue'[i] = queue[i])
  BY <1>9
<1>11. s = x
  BY <1>9, <1>10
<1> QED
  BY <1>8, <1>11

\* A firing is submitted for a scope that is switched on or being switched.
LEMMA SubmitsEnabled ==
    ASSUME JobsInv, NEW s \in Scopes, Submit(s)
    PROVE  Enabled(s) \/ Busy(s)
<1>1. s \in DOMAIN jobs /\ server # "down"
  BY DEF Submit
<1>2. CASE server = "up"
  BY <1>1, <1>2 DEF JobsInv, Serving, Agree, Rescheduling, Busy
<1>3. CASE server = "loading"
  BY <1>1, <1>3 DEF JobsInv, Loading, HasRow
<1> QED
  BY <1>1, <1>2, <1>3 DEF JobsInv, TypeInv, TypeOK

\* And so nothing is submitted any more for a scope that is switched off: only
\* the firing that was in the pool already may still begin (apply and the job
\* defaults, core/scheduler.py).
THEOREM OffIsOff == ASSUME OneAtATime PROVE Spec => DisabledNeverSubmitted
<1>1. JobsInv /\ [Next]_vars => JobsInv'
  BY JobsStep
<1>2. JobsInv /\ [Next]_vars
        => [\A s \in InPool' \ InPool : Enabled(s) \/ Busy(s)]_vars
  BY EntersBySubmit, SubmitsEnabled DEF JobsInv
<1> QED
  BY <1>1, <1>2, JobsInit, PTL DEF Spec, DisabledNeverSubmitted

=============================================================================
