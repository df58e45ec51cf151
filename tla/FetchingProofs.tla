---------------------------- MODULE FetchingProofs ---------------------------
(***************************************************************************)
(* Theorems about one request, for every queue of modules, every .env and  *)
(* every list of zones.                                                     *)
(***************************************************************************)
EXTENDS Fetching, TLAPS

-----------------------------------------------------------------------------
(* The sources of the modules *)

(* The sources that can fail their module. *)
Vital == {"needed", "zone", "optional"}

(* What the sources of a module have to do with its primaries: a source that *)
(* can fail the module brings a primary that no source before it brings; and *)
(* where all primaries are needed each of them has such a source, but for     *)
(* meta, whose primary comes from the store.                                 *)
SourcesFit(m, list) ==
    /\ Len(list) \in Nat /\ DOMAIN list = 1..Len(list)
    /\ \A i \in DOMAIN list : list[i].kind \in Vital \cup {"context"}
    /\ m = "conveyor" => \A i \in DOMAIN list : list[i].kind # "needed"
    /\ \A i \in DOMAIN list : list[i].kind \in Vital =>
        /\ list[i].frame \in Primaries(m)
        /\ \A j \in 1..i - 1 : list[j].frame # list[i].frame
    /\ m \notin AnyPrimary \cup {"meta"} => \A f \in Primaries(m) : \E i \in DOMAIN list :
        f # NoFrame /\ list[i].frame = f /\ list[i].kind = "needed"

LEMMA SourcesOf ==
    /\ Sources("gate") = GateSources
    /\ Sources("lift") = LiftSources
    /\ Sources("shuttle") = ShuttleSources
    /\ Sources("tracker") = TrackerSources
    /\ Sources("conveyor") = ConveyorSources
    /\ Sources("bin_mech") = BinSources
    /\ Sources("controller") = ControllerSources
    /\ Sources("network") = NetworkSources
    /\ Sources("gtp_station") = GtpSources
    /\ Sources("decant_station") = DecantSources
    /\ Sources("meta") = <<>>
BY Zenon DEF Sources

LEMMA PrimariesOf ==
    /\ Primaries("gate") = {"gate_status"}
    /\ Primaries("lift") = {"errors"}
    /\ Primaries("shuttle") = {"errors", "cycles"}
    /\ Primaries("tracker") = {"bad_tracker"}
    /\ Primaries("conveyor") = ToSet(Zones)
    /\ Primaries("bin_mech") = {"blocked"}
    /\ Primaries("controller") = {"cpu"}
    /\ Primaries("network") = {"windowed"}
    /\ Primaries("gtp_station") = {"misread", "stations"}
    /\ Primaries("decant_station") = {"misread", "stations"}
    /\ Primaries("meta") = {"components"}
BY Zenon DEF Primaries

LEMMA GateFits == SourcesFit("gate", GateSources)
BY PrimariesOf, SMT DEF SourcesFit, GateSources, Needed, Context, Panel, NoFrame, Vital, AnyPrimary

LEMMA LiftFits == SourcesFit("lift", LiftSources)
BY PrimariesOf, SMT DEF SourcesFit, LiftSources, Needed, Context, Panel, NoFrame, Vital, AnyPrimary

LEMMA ShuttleFits == SourcesFit("shuttle", ShuttleSources)
BY PrimariesOf, SMT DEF SourcesFit, ShuttleSources, Needed, Context, Panel, NoFrame, Vital, AnyPrimary

LEMMA TrackerFits == SourcesFit("tracker", TrackerSources)
BY PrimariesOf, SMT DEF SourcesFit, TrackerSources, Needed, Context, Panel, NoFrame, Vital, AnyPrimary

LEMMA BinFits == SourcesFit("bin_mech", BinSources)
BY PrimariesOf, SMT DEF SourcesFit, BinSources, Needed, Context, Panel, NoFrame, Vital, AnyPrimary

LEMMA ControllerFits == SourcesFit("controller", ControllerSources)
BY PrimariesOf, SMT DEF SourcesFit, ControllerSources, Needed, Context, Panel, NoFrame, Vital, AnyPrimary

LEMMA NetworkFits == SourcesFit("network", NetworkSources)
BY PrimariesOf, SMT DEF SourcesFit, NetworkSources, Needed, Context, Panel, NoFrame, Vital, AnyPrimary

LEMMA GtpFits == SourcesFit("gtp_station", GtpSources)
BY PrimariesOf, SMT DEF SourcesFit, GtpSources, Needed, Context, Panel, NoFrame, Vital, AnyPrimary

LEMMA DecantFits == SourcesFit("decant_station", DecantSources)
BY PrimariesOf, SMT DEF SourcesFit, DecantSources, Needed, Context, Panel, NoFrame, Vital, AnyPrimary

LEMMA MetaFits == SourcesFit("meta", <<>>)
BY PrimariesOf, SMT DEF SourcesFit, AnyPrimary

LEMMA ConveyorFits == SourcesFit("conveyor", ConveyorSources)
<1> DEFINE L == ConveyorSources
           n == Len(Zones)
<1>1. n \in Nat /\ DOMAIN Zones = 1..n
  BY FetchingAssumption
<1>2. /\ Len(L) = n + 2 /\ DOMAIN L = 1..n + 2
      /\ \A i \in 1..n : L[i].frame = Zones[i] /\ L[i].kind = "zone"
      /\ L[n + 1].kind = "context" /\ L[n + 2].kind = "context"
  BY <1>1, SMT DEF ConveyorSources, Needed, Context, Panel, NoFrame
<1> HIDE DEF L
<1>3. \A i \in DOMAIN L : i \in 1..n \/ i = n + 1 \/ i = n + 2
  BY <1>1, <1>2, SMT
<1>4. \A i \in DOMAIN L : L[i].kind \in {"zone", "context"}
  BY <1>2, <1>3
<1>5. ASSUME NEW i \in DOMAIN L, L[i].kind \in Vital
      PROVE  /\ L[i].frame \in Primaries("conveyor")
             /\ \A j \in 1..i - 1 : L[j].frame # L[i].frame
  <2>1. i \in 1..n
    BY <1>2, <1>3, <1>5 DEF Vital
  <2>2. \A j \in 1..i - 1 : j \in 1..n /\ j # i
    BY <1>1, <2>1, SMT
  <2>3. Zones[i] \in ToSet(Zones)
    BY <1>1, <2>1 DEF ToSet
  <2> QED
    BY <1>1, <1>2, <2>1, <2>2, <2>3, FetchingAssumption, PrimariesOf
<1>6. Len(L) \in Nat /\ DOMAIN L = 1..Len(L)
  BY <1>1, <1>2, SMT
<1> QED
  BY <1>4, <1>5, <1>6 DEF SourcesFit, Vital, AnyPrimary, L

LEMMA Fits == \A m \in Names : SourcesFit(m, Sources(m))
BY SourcesOf, GateFits, LiftFits, ShuttleFits, TrackerFits, ConveyorFits, BinFits,
   ControllerFits, NetworkFits, GtpFits, DecantFits, MetaFits DEF Names

(* Every module has a primary. *)
LEMMA SomePrimary == \A m \in Names : Primaries(m) # {}
<1>1. Zones[1] \in ToSet(Zones)
  BY FetchingAssumption, SMT DEF ToSet
<1> QED
  BY <1>1, PrimariesOf DEF Names

-----------------------------------------------------------------------------
(* What holds of the session and of the frames at every step *)

Inside == {"ask", "click", "raw", "score"}

(* Before the session is entered nothing has a result; a page is open only   *)
(* while its download is tried; what is closed in vain is what stays.         *)
SessionInv ==
    /\ at \in {"start", "login", "verify"} => ~entered /\ result = <<>>
    /\ at \in Inside \cup {"next", "close"} => entered
    /\ at \in {"start", "login", "verify", "next", "close", "done"} \cup Inside
    /\ stuck \subseteq open
    /\ "pages" \in stuck => "context" \in stuck
    /\ open \subseteq ToSet(Closing) \cup {"pages"}
    /\ page => at = "click"
    /\ at = "done" /\ entered => open = stuck

LEMMA SessionInit == Init => SessionInv
BY DEF Init, SessionInv, Inside

LEMMA SessionStep == SessionInv /\ [Next]_vars => SessionInv'
<1> SUFFICES ASSUME SessionInv, [Next]_vars PROVE SessionInv'
  OBVIOUS
<1> USE DEF SessionInv, Inside, Goto
<1>1. ToSet(Closing) = {"http", "context", "browser", "playwright"}
  BY SMT DEF ToSet, Closing
<1>2. CASE OpenResource
  <2>1. \A i \in DOMAIN Opening : Opening[i] \in ToSet(Closing)
    BY <1>1, SMT DEF Opening
  <2> QED
    BY <1>2, <2>1 DEF OpenResource, work, kept
<1>3. CASE Login
  BY <1>1, <1>3 DEF Login, work, kept
<1>4. CASE Verify
  BY <1>4 DEF Verify, work, kept
<1>5. CASE StartFails
  BY <1>5 DEF StartFails, session, work, kept
<1>6. CASE Close
  <2>1. CASE open \subseteq stuck /\ at' = "done" /\ UNCHANGED session
    BY <1>6, <2>1 DEF Close, session
  <2>2. ASSUME NEW r \in open, ToClose(r), UNCHANGED <<at, entered, page>>,
               \/ open' = open \ With(r) /\ UNCHANGED stuck
               \/ stuck' = stuck \cup With(r) /\ UNCHANGED open
        PROVE  SessionInv'
    <3>1. r \in open \ stuck /\ at = "close"
      BY <1>6, <2>2 DEF Close, ToClose
    <3>2. r # "pages"
      <4>1. r \in ToSet(Closing)
        BY <2>2 DEF ToClose, ToSet
      <4> QED
        BY <1>1, <4>1
    <3> QED
      BY <2>2, <3>1, <3>2 DEF With
  <2> QED
    BY <1>6, <2>1, <2>2 DEF Close
<1>7. CASE Begin
  BY <1>7 DEF Begin, session, work, kept
<1>8. CASE NoMoreModules
  BY <1>8 DEF NoMoreModules, session, work, kept
<1>9. CASE SkipSource
  BY <1>9 DEF SkipSource, ModuleFails, NextSource, session, work, kept
<1>10. CASE OpenPage
  BY <1>10 DEF OpenPage, session, work, kept
<1>11. CASE ClickAgain
  BY <1>11 DEF ClickAgain, session, work, kept
<1>12. CASE Download
  BY <1>12 DEF Download, NextSource, session, work, kept
<1>13. CASE SourceFails
  BY <1>13 DEF SourceFails, ModuleFails, NextSource, session, work, kept
<1>14. CASE FetchReturns
  BY <1>14 DEF FetchReturns, ModuleFails, session, work, kept
<1>14a. CASE ReadStore
  BY <1>14a DEF ReadStore, ModuleFails, session, work, kept
<1>15. CASE PersistRaw
  BY <1>15 DEF PersistRaw, session, work, kept
<1>16. CASE Score
  BY <1>16 DEF Score, session, work, kept
<1>17. CASE UNCHANGED vars
  BY <1>17 DEF vars, session, work, kept
<1> QED
  BY <1>2, <1>3, <1>4, <1>5, <1>6, <1>7, <1>8, <1>9, <1>10, <1>11, <1>12, <1>13,
     <1>14, <1>14a, <1>15, <1>16, <1>17 DEF Next

(* Whatever fails, the session is closed after the request: only what would   *)
(* not close, or what a start that failed had opened, stays, and a page only  *)
(* with its context.                                                          *)
THEOREM SessionCloses == Spec => []NothingLeftOpen
<1>1. SessionInv => NothingLeftOpen
  BY DEF SessionInv, NothingLeftOpen
<1> QED
  BY SessionInit, SessionStep, <1>1, PTL DEF Spec

-----------------------------------------------------------------------------
(* What the frames at hand, and those of a result, say of the primaries *)

Good(m, got) ==
    IF m \in AnyPrimary THEN Primaries(m) \cap DOMAIN got # {}
                        ELSE Primaries(m) \subseteq DOMAIN got

Lacking(m, got) == \E f \in Primaries(m) : f \in DOMAIN got => got[f] = "empty"

(* After the sources before step: frames come from those only, the needed    *)
(* ones are there, and the conveyor keeps no empty frame.                     *)
Progress(m) ==
    /\ \A f \in DOMAIN frames :
        /\ frames[f] \in {"full", "empty"}
        /\ m = "conveyor" => frames[f] = "full"
        /\ \E i \in 1..step - 1 : i \in DOMAIN Sources(m) /\ Sources(m)[i].frame = f
    /\ \A i \in 1..step - 1 : i \in DOMAIN Sources(m) /\ Sources(m)[i].kind = "needed"
                              /\ Sources(m)[i].frame # NoFrame
                                => Sources(m)[i].frame \in DOMAIN frames

FetchInv ==
    /\ queue \in Seq(Names)
    /\ at \in Inside => queue # <<>>
    /\ step \in Nat \ {0}
    /\ at = "click" => step <= Len(Sources(Module))
    /\ at \in {"ask", "click"} => Progress(Module)
    /\ at \in {"raw", "score"} => Good(Module, frames)
    /\ entered => \A m \in DOMAIN result :
                    IF result[m].fetched THEN Good(m, result[m].frames)
                                         ELSE Lacking(m, result[m].frames)

LEMMA QueueFacts ==
    ASSUME NEW q \in Seq(Names), q # <<>>
    PROVE  /\ Head(q) \in Names
           /\ Tail(q) \in Seq(Names)
           /\ ToSet(q) = {Head(q)} \cup ToSet(Tail(q))
<1>1. Head(q) \in Names /\ Tail(q) \in Seq(Names)
  BY SMT
<1>2. ToSet(q) = {Head(q)} \cup ToSet(Tail(q))
  <2>1. ASSUME NEW i \in DOMAIN q PROVE q[i] \in {Head(q)} \cup ToSet(Tail(q))
    <3>1. CASE i = 1
      BY <3>1
    <3>2. CASE i # 1
      <4>1. i - 1 \in DOMAIN Tail(q) /\ Tail(q)[i - 1] = q[i]
        BY <3>2, SMT
      <4> QED
        BY <4>1 DEF ToSet
    <3> QED
      BY <3>1, <3>2
  <2>2. ASSUME NEW i \in DOMAIN Tail(q) PROVE Tail(q)[i] \in ToSet(q)
    <3>1. i + 1 \in DOMAIN q /\ Tail(q)[i] = q[i + 1]
      BY SMT
    <3> QED
      BY <3>1 DEF ToSet
  <2>3. Head(q) \in ToSet(q)
    BY SMT DEF ToSet
  <2> QED
    BY <2>1, <2>2, <2>3 DEF ToSet
<1> QED
  BY <1>1, <1>2

(* A put adds one key, with its value, and keeps the others. *)
LEMMA PutFacts ==
    ASSUME NEW f, NEW k, NEW v
    PROVE  /\ DOMAIN Put(f, k, v) = DOMAIN f \cup {k}
           /\ Put(f, k, v)[k] = v
           /\ \A x \in DOMAIN f \ {k} : Put(f, k, v)[x] = f[x]
BY DEF Put

(* A module that fails at a source lacks the primary it was to bring. *)
LEMMA FailsForPrimary ==
    ASSUME NEW m \in Names, Progress(m), step \in Nat \ {0}, step <= Len(Sources(m)),
           Sources(m)[step].kind \in Vital
    PROVE  Lacking(m, frames)
<1> DEFINE f == Sources(m)[step].frame
<1>1. step \in DOMAIN Sources(m)
  BY Fits, SMT DEF SourcesFit
<1>2. f \in Primaries(m) /\ \A j \in 1..step - 1 : Sources(m)[j].frame # f
  BY <1>1, Fits DEF SourcesFit
<1>3. f \notin DOMAIN frames
  BY <1>2 DEF Progress
<1> QED
  BY <1>2, <1>3 DEF Lacking

LEMMA EnoughIs ==
    ASSUME NEW got
    PROVE  /\ Enough("conveyor", got) <=> \E i \in DOMAIN Zones :
                    Zones[i] \in DOMAIN got /\ got[Zones[i]] = "full"
           /\ Enough("controller", got) <=> got["cpu"] = "full"
           /\ Enough("network", got) <=> got["windowed"] = "full"
           /\ Enough("gtp_station", got) <=> {"misread", "stations"} \cap DOMAIN got # {}
           /\ Enough("decant_station", got) <=> {"misread", "stations"} \cap DOMAIN got # {}
           /\ \A m \in {"gate", "lift", "shuttle", "tracker", "bin_mech", "meta"} :
                    Enough(m, got)
BY Zenon DEF Enough

(* When no source is left to ask, the check of fetch is that of the primaries. *)
LEMMA AllAsked ==
    ASSUME NEW m \in Names \ {"meta"}, Progress(m), step \in Nat \ {0},
           step > Len(Sources(m)) \/ m = "conveyor"
    PROVE  /\ Enough(m, frames) => Good(m, frames)
           /\ ~Enough(m, frames) => Lacking(m, frames)
<1>1. m \notin AnyPrimary => Primaries(m) \subseteq DOMAIN frames
  <2> SUFFICES ASSUME m \notin AnyPrimary, NEW f \in Primaries(m) PROVE f \in DOMAIN frames
    OBVIOUS
  <2>0. step > Len(Sources(m))
    BY DEF AnyPrimary
  <2>1. PICK i \in DOMAIN Sources(m) : /\ f # NoFrame /\ Sources(m)[i].frame = f
                                       /\ Sources(m)[i].kind = "needed"
    BY Fits DEF SourcesFit
  <2>2. i \in 1..step - 1
    BY <2>0, Fits, SMT DEF SourcesFit
  <2> QED
    BY <2>1, <2>2 DEF Progress
<1>2. CASE m \in {"gate", "lift", "shuttle", "tracker", "bin_mech"}
  BY <1>1, <1>2, EnoughIs DEF Good, AnyPrimary
<1>3. CASE m = "controller"
  BY <1>1, <1>3, EnoughIs, PrimariesOf DEF Good, Lacking, AnyPrimary, Progress
<1>4. CASE m = "network"
  BY <1>1, <1>4, EnoughIs, PrimariesOf DEF Good, Lacking, AnyPrimary, Progress
<1>5. CASE m = "conveyor"
  <2>1. Zones[1] \in ToSet(Zones) /\ 1 \in DOMAIN Zones
    BY FetchingAssumption, SMT DEF ToSet
  <2>2. Enough(m, frames) => Good(m, frames)
    BY <1>5, EnoughIs, PrimariesOf DEF Good, AnyPrimary, ToSet
  <2>3. ~Enough(m, frames) => Zones[1] \notin DOMAIN frames
    BY <1>5, <2>1, EnoughIs DEF Progress
  <2> QED
    BY <1>5, <2>1, <2>2, <2>3, PrimariesOf DEF Lacking
<1>6. CASE m \in {"gtp_station", "decant_station"}
  BY <1>6, EnoughIs, PrimariesOf DEF Good, Lacking, AnyPrimary
<1> QED
  BY <1>2, <1>3, <1>4, <1>5, <1>6 DEF Names

(* A source that is done with leaves the progress of the module. *)
LEMMA Passed ==
    ASSUME NEW m \in Names, Progress(m), step \in Nat \ {0}, step' = step + 1,
           step \in DOMAIN Sources(m),
           \/ frames' = frames /\ (\/ Sources(m)[step].kind # "needed"
                                  \/ Sources(m)[step].frame = NoFrame)
           \/ \E content \in {"full", "empty"} :
                /\ m = "conveyor" => content = "full"
                /\ frames' = Put(frames, Sources(m)[step].frame, content)
    PROVE  Progress(m)'
<1>1. CASE frames' = frames /\ (\/ Sources(m)[step].kind # "needed"
                                \/ Sources(m)[step].frame = NoFrame)
  <2>1. \A i \in 1..step' - 1 : i \in 1..step - 1 \/ i = step
    BY SMT
  <2>2. \A i \in 1..step - 1 : i \in 1..step' - 1
    BY SMT
  <2> QED
    BY <1>1, <2>1, <2>2 DEF Progress
<1>2. CASE \E content \in {"full", "empty"} :
                /\ m = "conveyor" => content = "full"
                /\ frames' = Put(frames, Sources(m)[step].frame, content)
  <2> DEFINE k == Sources(m)[step].frame
  <2>1. PICK content \in {"full", "empty"} : /\ m = "conveyor" => content = "full"
                                             /\ frames' = Put(frames, k, content)
    BY <1>2
  <2>2. /\ DOMAIN frames' = DOMAIN frames \cup {k} /\ frames'[k] = content
        /\ \A x \in DOMAIN frames \ {k} : frames'[x] = frames[x]
    BY <2>1 DEF Put
  <2>3. /\ \A i \in 1..step' - 1 : i \in 1..step - 1 \/ i = step
        /\ \A i \in 1..step - 1 : i \in 1..step' - 1
        /\ step \in 1..step' - 1
    BY SMT
  <2> HIDE DEF k
  <2>4. \A f \in DOMAIN frames' :
        /\ frames'[f] \in {"full", "empty"}
        /\ m = "conveyor" => frames'[f] = "full"
        /\ \E i \in 1..step' - 1 : i \in DOMAIN Sources(m) /\ Sources(m)[i].frame = f
    <3> SUFFICES ASSUME NEW f \in DOMAIN frames'
                 PROVE  /\ frames'[f] \in {"full", "empty"}
                        /\ m = "conveyor" => frames'[f] = "full"
                        /\ \E i \in 1..step' - 1 : /\ i \in DOMAIN Sources(m)
                                                   /\ Sources(m)[i].frame = f
      OBVIOUS
    <3>1. CASE f = k
      BY <2>1, <2>2, <2>3, <3>1 DEF k
    <3>2. CASE f # k
      BY <2>2, <2>3, <3>2 DEF Progress
    <3> QED
      BY <3>1, <3>2
  <2>5. \A i \in 1..step' - 1 : i \in DOMAIN Sources(m) /\ Sources(m)[i].kind = "needed"
                                /\ Sources(m)[i].frame # NoFrame
                                  => Sources(m)[i].frame \in DOMAIN frames'
    BY <2>2, <2>3 DEF Progress, k
  <2> QED
    BY <2>4, <2>5 DEF Progress
<1> QED
  BY <1>1, <1>2

-----------------------------------------------------------------------------
(* The outcome of every module *)

ResultsOK ==
    \A m \in DOMAIN result : IF result[m].fetched THEN Good(m, result[m].frames)
                                                   ELSE Lacking(m, result[m].frames)

LEMMA ResultAdded ==
    ASSUME NEW m, NEW r, result' = Put(result, m, r), ResultsOK,
           IF r.fetched THEN Good(m, r.frames) ELSE Lacking(m, r.frames)
    PROVE  ResultsOK'
BY DEF ResultsOK, Put, Good, Lacking

LEMMA FetchInit == Init => FetchInv
<1> SUFFICES ASSUME Init PROVE FetchInv
  OBVIOUS
<1>1. queue \in Seq(Names)
  BY FetchingAssumption DEF Init
<1> QED
  BY <1>1 DEF Init, FetchInv, Inside

(* A step that ends the module, and leaves the others their results. *)
LEMMA ModuleEnds ==
    ASSUME FetchInv, entered, queue # <<>>, UNCHANGED entered, at' = "next", step' = step,
           queue' = Tail(queue), NEW r, result' = Put(result, Module, r),
           IF r.fetched THEN Good(Module, r.frames) ELSE Lacking(Module, r.frames)
    PROVE  FetchInv'
<1>1. ResultsOK'
  BY ResultAdded DEF FetchInv, ResultsOK
<1>2. queue' \in Seq(Names)
  BY QueueFacts DEF FetchInv
<1> QED
  BY <1>1, <1>2 DEF FetchInv, Inside, ResultsOK

LEMMA FetchStep == SessionInv /\ FetchInv /\ [Next]_vars => FetchInv'
<1> SUFFICES ASSUME SessionInv, FetchInv, [Next]_vars PROVE FetchInv'
  OBVIOUS
<1>1. at \in Inside \cup {"next"} => entered
  BY DEF SessionInv
<1>2. queue # <<>> => Module \in Names
  BY QueueFacts DEF FetchInv, Module
<1>3. CASE OpenResource \/ Login
  BY <1>3 DEF OpenResource, Login, FetchInv, Inside, Goto, work, kept
<1>3a. CASE StartFails
  <2>1. ~entered
    BY <1>3a DEF StartFails, SessionInv
  <2>2. queue' \in Seq(Names)
    BY <1>3a, SMT DEF StartFails
  <2> QED
    BY <1>3a, <2>1, <2>2 DEF StartFails, FetchInv, Inside, Goto, session, work, kept
<1>4. CASE Verify
  BY <1>4 DEF Verify, FetchInv, SessionInv, Inside, Goto, work, kept
<1>5. CASE Close \/ NoMoreModules
  BY <1>5 DEF Close, NoMoreModules, FetchInv, Inside, Goto, session, work, kept
<1>6. CASE Begin
  <2>1. CASE Configured(Module)
    BY <1>6, <2>1 DEF Begin, FetchInv, Inside, Goto, session, kept, Progress, Module
  <2>2. CASE ~Configured(Module)
    <3>1. Lacking(Module, <<>>)
      BY <1>2, <1>6, SomePrimary DEF Begin, Lacking
    <3> QED
      BY <1>1, <1>6, <2>2, <3>1, ResultAdded, QueueFacts
      DEF Begin, Failed, FetchInv, ResultsOK, session, Inside
  <2> QED
    BY <2>1, <2>2
<1>7. CASE SkipSource
  <2>1. /\ Module \in Names /\ Progress(Module) /\ step \in Nat \ {0}
        /\ step <= Len(Sources(Module)) /\ step \in DOMAIN Sources(Module)
    BY <1>2, <1>7, Fits, SMT DEF SkipSource, Through, FetchInv, Inside, SourcesFit
  <2>2. CASE Source.kind \in MustBeSet
    <3>1. Lacking(Module, frames)
      BY <2>1, <2>2, FailsForPrimary DEF MustBeSet, Vital, Source
    <3> QED
      BY <1>1, <1>7, <2>2, <3>1, ModuleEnds
      DEF SkipSource, ModuleFails, Failed, Goto, session, FetchInv, Inside
  <2>3. CASE Source.kind \notin MustBeSet
    <3>1. Progress(Module)'
      BY <1>7, <2>1, <2>3, Passed DEF SkipSource, NextSource, MustBeSet, Source, Module
    <3> QED
      BY <1>7, <2>1, <2>3, <3>1
      DEF SkipSource, NextSource, Goto, session, FetchInv, Inside, Module
  <2> QED
    BY <2>2, <2>3
<1>8a. OpenPage => step <= Len(Sources(Module))
  BY <1>2, Fits, SMT DEF OpenPage, Through, FetchInv, Inside, SourcesFit
<1>8. CASE OpenPage \/ ClickAgain
  BY <1>8, <1>8a DEF OpenPage, ClickAgain, FetchInv, Progress, Inside, Goto, session, kept, Module
<1>9. CASE Download
  <2>1. /\ Module \in Names /\ Progress(Module) /\ step \in Nat \ {0}
        /\ step <= Len(Sources(Module)) /\ step \in DOMAIN Sources(Module)
    BY <1>2, <1>9, Fits, SMT DEF Download, FetchInv, Inside, SourcesFit
  <2>2. Sources(Module)[step].kind = "needed" => Module # "conveyor"
    BY <2>1, Fits DEF SourcesFit
  <2>3. Progress(Module)'
    BY <1>9, <2>1, <2>2, Passed DEF Download, NextSource, Source, Module
  <2> QED
    BY <1>9, <2>1, <2>3 DEF Download, NextSource, Goto, session, FetchInv, Inside, Module
<1>10. CASE SourceFails
  <2>1. /\ Module \in Names /\ Progress(Module) /\ step \in Nat \ {0}
        /\ step <= Len(Sources(Module)) /\ step \in DOMAIN Sources(Module)
    BY <1>2, <1>10, Fits, SMT DEF SourceFails, Through, FetchInv, Inside, SourcesFit
  <2>2. CASE Source.kind \notin Guarded
    <3>1. Source.kind \in Vital
      BY <2>1, <2>2, Fits DEF SourcesFit, Guarded, Source
    <3>2. Lacking(Module, frames)
      BY <2>1, <3>1, FailsForPrimary DEF Source
    <3> QED
      BY <1>1, <1>10, <2>2, <3>2, ModuleEnds
      DEF SourceFails, ModuleFails, Failed, Goto, session, FetchInv, Inside
  <2>3. CASE Source.kind \in Guarded
    <3>1. Progress(Module)'
      BY <1>10, <2>1, <2>3, Passed DEF SourceFails, NextSource, Guarded, Source, Module
    <3> QED
      BY <1>10, <2>1, <2>3, <3>1
      DEF SourceFails, NextSource, Goto, session, FetchInv, Inside, Module
  <2> QED
    BY <2>2, <2>3
<1>11. CASE FetchReturns
  <2>1. /\ Module \in Names \ {"meta"} /\ Progress(Module) /\ step \in Nat \ {0}
        /\ step > Len(Sources(Module)) \/ Module = "conveyor"
    BY <1>2, <1>11, SMT DEF FetchReturns, Through, FetchInv, Inside
  <2>2. CASE Enough(Module, frames)
    <3>1. Good(Module, frames)
      BY <2>1, <2>2, AllAsked
    <3> QED
      BY <1>11, <2>2, <3>1 DEF FetchReturns, Goto, session, kept, FetchInv, Inside, Module, Good
  <2>3. CASE ~Enough(Module, frames)
    <3>1. Lacking(Module, frames)
      BY <2>1, <2>3, AllAsked
    <3> QED
      BY <1>1, <1>11, <2>3, <3>1, ModuleEnds
      DEF FetchReturns, ModuleFails, Failed, Goto, session, FetchInv, Inside
  <2> QED
    BY <2>2, <2>3
<1>11a. CASE ReadStore
  <2>1. Module = "meta" /\ Progress("meta") /\ queue # <<>>
    BY <1>11a DEF ReadStore, FetchInv, Inside
  <2>2. CASE at' = "raw" /\ UNCHANGED <<queue, result>>
             /\ \E content : frames' = Put(frames, "components", content)
    <3>1. Good("meta", frames')
      BY <2>2, PrimariesOf DEF Good, AnyPrimary, Put
    <3> QED
      BY <1>11a, <2>1, <2>2, <3>1 DEF ReadStore, session, kept, FetchInv, Inside, Module
  <2>3. CASE ModuleFails /\ UNCHANGED frames
    <3>1. DOMAIN Sources("meta") = {}
      BY SourcesOf, SMT
    <3>2. Lacking("meta", frames)
      BY <2>1, <3>1, PrimariesOf DEF Lacking, Progress
    <3> QED
      BY <1>1, <1>11a, <2>1, <2>3, <3>2, ModuleEnds
      DEF ReadStore, ModuleFails, Failed, Goto, session, FetchInv, Inside
  <2> QED
    BY <1>11a, <2>2, <2>3 DEF ReadStore, Goto
<1>12. CASE PersistRaw
  BY <1>12 DEF PersistRaw, FetchInv, Inside, Goto, session, work, Module, Good
<1>13. CASE Score
  BY <1>1, <1>13, ModuleEnds DEF Score, Goto, session, work, FetchInv, Inside
<1>14. CASE UNCHANGED vars
  BY <1>14 DEF vars, session, work, kept, FetchInv, Inside, Module, Progress, Good
<1> QED
  BY <1>3, <1>4, <1>5, <1>6, <1>7, <1>8, <1>9, <1>10, <1>11, <1>11a, <1>12, <1>13, <1>14,
     <1>3a DEF Next

(* Every module's outcome follows its primary frames, for every queue, every  *)
(* .env and whatever fails: it is fetched when they are there, and fails only *)
(* for the lack of one.                                                       *)
THEOREM OutcomesFollow == Spec => []OutcomeFollowsPrimaries
<1>1. FetchInv => OutcomeFollowsPrimaries
  BY DEF FetchInv, OutcomeFollowsPrimaries, Good, Lacking
<1> QED
  BY SessionInit, SessionStep, FetchInit, FetchStep, <1>1, PTL DEF Spec

-----------------------------------------------------------------------------
(* Types *)

(* The modules with a result and those still to run make up the request. *)
RequestOK ==
    \E s \in Starts : env = s.env /\ DOMAIN result \cup ToSet(queue) = ToSet(s.queue)

DataOK ==
    /\ tries \in 0..Attempts * Locators
    /\ \A f \in DOMAIN frames : frames[f] \in {"full", "empty"}
    /\ \A m \in DOMAIN manifest : \A f \in manifest[m] : <<m, f>> \in raw

LEMMA TypeInit == Init => RequestOK /\ DataOK
<1> SUFFICES ASSUME Init PROVE RequestOK /\ DataOK
  OBVIOUS
<1>1. tries \in 0..Attempts * Locators
  BY SMT DEF Init, Attempts, Locators
<1>2. PICK s \in Starts : env = s.env /\ queue = s.queue
  BY DEF Init
<1>3. DOMAIN result = {}
  BY DEF Init
<1> QED
  BY <1>1, <1>2, <1>3 DEF Init, RequestOK, DataOK

(* The module at the head of the queue gets its result. *)
LEMMA RequestMoves ==
    ASSUME RequestOK, queue \in Seq(Names), queue # <<>>, env' = env, queue' = Tail(queue),
           NEW r, result' = Put(result, Module, r)
    PROVE  RequestOK'
<1>1. ToSet(queue) = {Module} \cup ToSet(queue')
  BY QueueFacts DEF Module
<1>2. DOMAIN result' = DOMAIN result \cup {Module}
  BY DEF Put
<1> HIDE DEF Module
<1>3. DOMAIN result' \cup ToSet(queue') = DOMAIN result \cup ToSet(queue)
  BY <1>1, <1>2
<1> QED
  BY <1>3 DEF RequestOK

LEMMA RequestStep ==
    SessionInv /\ FetchInv /\ RequestOK /\ [Next]_vars => RequestOK'
<1> SUFFICES ASSUME SessionInv, FetchInv, RequestOK, [Next]_vars PROVE RequestOK'
  OBVIOUS
<1>1. queue \in Seq(Names) /\ (at \in Inside => queue # <<>>)
  BY DEF FetchInv
<1>2. CASE UNCHANGED <<env, queue, result>>
  BY <1>2 DEF RequestOK
<1>3. CASE StartFails
  <2>1. DOMAIN result = {} /\ DOMAIN result' = ToSet(queue) /\ ToSet(queue') = {}
    BY <1>3, SMT DEF StartFails, SessionInv, ToSet
  <2>2. DOMAIN result' \cup ToSet(queue') = DOMAIN result \cup ToSet(queue) /\ env' = env
    BY <1>3, <2>1 DEF StartFails
  <2> QED
    BY <2>2 DEF RequestOK
<1>4. CASE Begin
  <2>1. CASE Configured(Module)
    BY <1>4, <2>1 DEF Begin, RequestOK
  <2>2. CASE ~Configured(Module)
    BY <1>1, <1>4, <2>2, RequestMoves DEF Begin
  <2> QED
    BY <2>1, <2>2
<1>5. CASE SkipSource \/ SourceFails \/ FetchReturns \/ ReadStore
  <2>1. CASE UNCHANGED <<queue, result>>
    BY <1>5, <2>1 DEF SkipSource, SourceFails, FetchReturns, ReadStore, RequestOK
  <2>2. CASE ModuleFails
    BY <1>1, <1>5, <2>2, RequestMoves
    DEF SkipSource, SourceFails, FetchReturns, ReadStore, ModuleFails, Inside
  <2> QED
    BY <1>5, <2>1, <2>2 DEF SkipSource, SourceFails, FetchReturns, ReadStore
<1>6. CASE Score
  BY <1>1, <1>6, RequestMoves DEF Score, Inside
<1>7. CASE \/ OpenResource \/ Login \/ Verify \/ Close \/ NoMoreModules \/ OpenPage
           \/ ClickAgain \/ Download \/ PersistRaw \/ UNCHANGED vars
  BY <1>2, <1>7 DEF OpenResource, Login, Verify, Close, NoMoreModules, OpenPage, ClickAgain,
     Download, PersistRaw, vars
<1> QED
  BY <1>3, <1>4, <1>5, <1>6, <1>7 DEF Next

LEMMA DataStep == DataOK /\ [Next]_vars => DataOK'
<1> SUFFICES ASSUME DataOK, [Next]_vars PROVE DataOK'
  OBVIOUS
<1>1. CASE UNCHANGED <<tries, frames, raw, manifest>>
  BY <1>1 DEF DataOK
<1>2. CASE tries' = 0 /\ UNCHANGED <<frames, raw, manifest>>
  BY <1>2, SMT DEF DataOK, Attempts, Locators
<1>3. CASE Begin
  <2>1. tries' = 0 /\ DOMAIN frames' = {} /\ UNCHANGED kept
    BY <1>3 DEF Begin
  <2> QED
    BY <2>1, SMT DEF DataOK, Attempts, Locators, kept
<1>4. CASE ClickAgain
  BY <1>4, SMT DEF ClickAgain, DataOK, Attempts, Locators, kept
<1>5. CASE Download
  <2>1. tries' = 0 /\ UNCHANGED kept
    BY <1>5 DEF Download, NextSource
  <2>2. \A f \in DOMAIN frames' : frames'[f] \in {"full", "empty"}
    BY <1>5 DEF Download, DataOK, Put
  <2>3. tries' \in 0..Attempts * Locators
    BY <2>1, SMT DEF Attempts, Locators
  <2> QED
    BY <2>1, <2>2, <2>3 DEF DataOK, kept
<1>6. CASE ReadStore
  <2>1. \A f \in DOMAIN frames' : frames'[f] \in {"full", "empty"}
    BY <1>6 DEF ReadStore, DataOK, Put
  <2> QED
    BY <1>6, <2>1 DEF ReadStore, DataOK, kept
<1>7. CASE PersistRaw
  <2>1. PICK written : /\ raw' = raw \cup {<<Module, f>> : f \in written}
                       /\ \/ UNCHANGED manifest
                          \/ manifest' = Put(manifest, Module, InManifest(written))
    BY <1>7 DEF PersistRaw
  <2>2. \A m \in DOMAIN manifest' : \A f \in manifest'[m] : <<m, f>> \in raw'
    BY <2>1 DEF DataOK, Put, InManifest
  <2> QED
    BY <1>7, <2>2 DEF PersistRaw, DataOK, work
<1>8. CASE SkipSource \/ SourceFails
  BY <1>1, <1>2, <1>8 DEF SkipSource, SourceFails, ModuleFails, NextSource, kept
<1>9. CASE \/ OpenResource \/ Login \/ Verify \/ StartFails \/ Close \/ NoMoreModules
           \/ OpenPage \/ FetchReturns \/ Score \/ UNCHANGED vars
  BY <1>1, <1>9 DEF FetchReturns, OpenResource, Login, Verify, StartFails, Close, NoMoreModules, OpenPage,
     Score, vars, work, kept
<1> QED
  BY <1>3, <1>4, <1>5, <1>6, <1>7, <1>8, <1>9 DEF Next

(* The types of the state, and two facts with them: the modules with a result *)
(* and those still queued make up the request, and a manifest lists only      *)
(* frames that were written whole.                                            *)
THEOREM Types == Spec => []TypeOK
<1>1. SessionInv /\ FetchInv /\ RequestOK /\ DataOK => TypeOK
  BY DEF SessionInv, FetchInv, RequestOK, DataOK, TypeOK
<1> QED
  BY SessionInit, SessionStep, FetchInit, FetchStep, TypeInit, RequestStep, DataStep, <1>1,
     PTL DEF Spec
=============================================================================
