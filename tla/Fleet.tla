-------------------------------- MODULE Fleet -------------------------------
(***************************************************************************)
(* The predictive modules over their runs: a run of a module takes the     *)
(* frames it fetched to features, scores them against the rows that the    *)
(* store has of its components, and stores a row for each of them           *)
(* (core/runner.py: _execute_module).  What runs and fails around that is  *)
(* in module Runner, and a run that fails leaves nothing here.              *)
(*                                                                         *)
(* The rows of a component are kept newest first and only as far back as   *)
(* component_history reads them.                                           *)
(***************************************************************************)
EXTENDS Gate, Lift, Shuttle, Tracker, Conveyor, BinMech, Controller, Network,
        GtpStation, DecantStation, Meta, Dashboard

CONSTANTS
    HistoryLimit,   \* module -> the limit its scoring asks component_history for
    Readings,       \* module -> the bundles its fetch may return
    Plants,         \* the sets of modules that are registered together
    Settled,        \* module -> the bundle of calm times
    Worsenings,     \* {[module, better, worse, id]}: bundles, worse for the component
    Gaps,           \* hours that may pass before a run
    AgeCap,         \* bound: the age of a row, in hours
    MaxRuns         \* bound: runs, or Unbounded

Unbounded == -1

Put(f, k, v) == [x \in DOMAIN f \cup {k} |-> IF x = k THEN v ELSE f[x]]

Modules == {"lift", "shuttle", "conveyor", "tracker", "gate", "bin_mech", "gtp_station",
            "decant_station", "network", "controller", "meta"}

ASSUME FleetAssumption ==
    /\ \A p \in Plants : p \subseteq Modules
    /\ HistoryLimit \in [Modules -> Nat \ {0}]
    /\ Gaps \subseteq Nat
    /\ AgeCap \in Nat
    /\ MaxRuns \in Nat \cup {Unbounded}

(* The frames a fetch returns are finite, their numbers and counts whole. *)
BundleOK(m, b) ==
    CASE m = "lift"           -> LiftBundle(b)
      [] m = "shuttle"        -> ShuttleBundle(b)
      [] m = "conveyor"       -> ConveyorBundle(b)
      [] m = "tracker"        -> TrackerBundle(b)
      [] m = "gate"           -> GateBundle(b)
      [] m = "bin_mech"       -> BinBundle(b)
      [] m = "gtp_station"    -> GtpBundle(b)
      [] m = "decant_station" -> DecantBundle(b)
      [] m = "network"        -> NetworkBundle(b)
      [] m = "controller"     -> ControllerBundle(b)

ASSUME ReadingsAssumption ==
    \A m \in Modules \ {"meta"} : \A b \in Readings[m] : BundleOK(m, b)

VARIABLES
    plant,          \* the modules registered
    store,          \* component_health: module -> component -> rows, newest first
    first,          \* the node of the controller whose row came first, or NoNode
    reading,        \* module -> the bundle of its last run
    present,        \* module -> what its last run returned, by component
    last, runs      \* the module that ran last; how many runs, their parity if Unbounded

vars == <<plant, store, first, reading, present, last, runs>>

NoNode == "none"

Init ==
    /\ plant \in Plants
    /\ store = [m \in plant |-> [id \in {} |-> <<>>]]
    /\ first = NoNode
    /\ reading = [m \in {} |-> 0]
    /\ present = [m \in plant |-> [id \in {} |-> 0]]
    /\ last = "none"
    /\ runs = 0

(* What a row keeps of a verdict. *)
Row(v) == [age |-> 0, score |-> v.score, tier |-> v.tier, ttm |-> v.ttm,
           cross |-> v.cross, facts |-> v.facts]

Aged(rows, gap) ==
    [i \in DOMAIN rows |-> [rows[i] EXCEPT !.age = AtMost(@ + gap, AgeCap)]]

Added(m, v, rows) == SubSeq(<<Row(v)>> \o rows, 1, AtMost(1 + Len(rows), HistoryLimit[m]))

(* Rows are stored worst first, the order of score's result; of equals, any. *)
WorstOnes(verdicts) ==
    {id \in DOMAIN verdicts : \A other \in DOMAIN verdicts :
                                 verdicts[id].score <= verdicts[other].score}

Goes(m) ==
    /\ m \in plant
    /\ MaxRuns # Unbounded => runs < MaxRuns
    /\ last' = m
    /\ runs' = IF MaxRuns = Unbounded THEN 1 - runs ELSE runs + 1

Ran(m, bundle, verdicts) ==
    /\ Goes(m)
    /\ \E gap \in Gaps :
         store' = [n \in plant |->
            [id \in DOMAIN store[n] \cup (IF n = m THEN DOMAIN verdicts ELSE {}) |->
                IF n = m /\ id \in DOMAIN verdicts
                THEN Added(m, verdicts[id], Aged(History(store[n], id), gap))
                ELSE Aged(History(store[n], id), gap)]]
    /\ IF m = "controller" /\ DOMAIN store[m] = {} /\ DOMAIN verdicts # {}
       THEN first' \in WorstOnes(verdicts)
       ELSE UNCHANGED first
    /\ reading' = Put(reading, m, bundle)
    /\ present' = [present EXCEPT ![m] = verdicts]
    /\ UNCHANGED plant

(* compute_features and score of every module but meta. *)
Scored(m, b) ==
    LET hist == store[m]
    IN  CASE m = "lift"           -> LiftScore(LiftFeatures(b), hist)
          [] m = "shuttle"        -> ShuttleScore(ShuttleFeatures(b), hist)
          [] m = "conveyor"       -> ConveyorScore(ConveyorFeatures(b), hist)
          [] m = "tracker"        -> TrackerScore(TrackerFeatures(b), hist)
          [] m = "gate"           -> GateScore(GateFeatures(b), hist)
          [] m = "bin_mech"       -> BinScore(BinFeatures(b), hist)
          [] m = "gtp_station"    -> GtpScore(GtpFeatures(b), hist)
          [] m = "decant_station" -> DecantScore(DecantFeatures(b), hist)
          [] m = "network"        -> NetworkScore(NetworkFeatures(b), hist)
          [] m = "controller"     -> ControllerScore(ControllerFeatures(b), hist)

RunModule(m) == \E b \in Readings[m] : Ran(m, b, Scored(m, b))

(* latest_per: the newest row of every component of the other modules. *)
Newest(m) == {[module |-> m, id |-> id, tier |-> store[m][id][1].tier,
               cross |-> store[m][id][1].cross] : id \in DOMAIN store[m]}

Members == [components |-> UNION {Newest(m) : m \in plant \ {"meta"}}, first |-> first]

RunMeta ==
    Ran("meta", Members, MetaScore(MetaFeatures(Members), store["meta"]))

Next == RunMeta \/ \E m \in plant \ {"meta"} : RunModule(m)

Spec == Init /\ [][Next]_vars

(* The global scope of the automation runs every module again and again; a   *)
(* run of a module is possible whenever it is registered.                    *)
Fairness == \A m \in Modules : WF_<<last, runs>>(Goes(m))

FairSpec == Spec /\ Fairness

-----------------------------------------------------------------------------
(* What the dashboard reads: latest_components. *)

Latest(m) == {[module |-> m, id |-> id, score |-> store[m][id][1].score,
               tier |-> store[m][id][1].tier, ttm |-> store[m][id][1].ttm] :
                 id \in DOMAIN store[m]}

Everything == UNION {Latest(m) : m \in plant}

-----------------------------------------------------------------------------
(* Properties *)

Verdicts(m) == {present[m][id] : id \in DOMAIN present[m]}

RowOK(r) ==
    /\ r.age \in 0..AgeCap
    /\ r.score \in 0..Full
    /\ r.tier \in Range(Tiers)
    /\ r.ttm \in {None} \cup 0..Year

(* Scores are 0 to 100, confidences 0 to 0.97, times at most a year, rows are *)
(* newest first and as many as the history reader looks back.                *)
TypeOK ==
    /\ plant \in Plants
    /\ \A m \in plant : \A id \in DOMAIN store[m] :
        LET rows == store[m][id]
        IN  /\ Len(rows) \in 1..HistoryLimit[m]
            /\ \A i \in DOMAIN rows : RowOK(rows[i])
            /\ \A i \in 2..Len(rows) : rows[i - 1].age <= rows[i].age
    /\ \A m \in plant : \A v \in Verdicts(m) : v.conf \in 0..970
    /\ first # NoNode => "controller" \in plant /\ first \in DOMAIN store["controller"]

(* The tier of a stored row is the one its score shows: the two are computed *)
(* apart, the tier before the score is clamped and rounded.                  *)
TierFollowsScore ==
    \A m \in plant : \A id \in DOMAIN store[m] : \A i \in DOMAIN store[m][id] :
        LET r == store[m][id][i]
        IN  CASE r.tier = "ok"    -> 8500 <= r.score
              [] r.tier = "watch" -> 6500 <= r.score /\ r.score <= 8500
              [] r.tier = "warn"  -> 4000 <= r.score /\ r.score <= 6500
              [] OTHER            -> r.score <= 4000

(* The anti-double-count rule of the meta module: an aisle in which a single *)
(* module is flagged stays ok, however long that lasts, unless that module   *)
(* asked for escalation.                                                     *)
LoneModuleStaysOk ==
    "meta" \in DOMAIN reading =>
        \A s \in DOMAIN present["meta"] \ {System} :
            LET here == {c \in reading["meta"].components : ScopeOf(c) = s /\ Flagged(c.tier)}
            IN  /\ \A c, d \in here : c.module = d.module
                /\ \A c \in here : "meta" \notin c.cross
                => present["meta"][s].tier = "ok"

(* A controller node that is short of processor time reaches the verdict on  *)
(* the system, whichever of the nodes it is.                                 *)
ControllerRaisesSystem ==
    "meta" \in DOMAIN reading =>
        \A c \in reading["meta"].components :
            c.module = "controller" /\ Rank(c.tier) <= Rank("warn")
              => Flagged(present["meta"][System].tier)

(* A station that is switched off, with nothing else ever against it, is not *)
(* worse than watch, however often it is seen so.                            *)
OfflineAloneStaysWatch ==
    /\ "gtp_station" \in plant => \A id \in DOMAIN present["gtp_station"] :
        LET rows == store["gtp_station"][id]
            down(r) == "inactive" \in DOMAIN r.facts /\ r.facts.inactive
        IN  /\ down(rows[1])
            /\ Len(rows) < HistoryLimit["gtp_station"]
            /\ \A i \in DOMAIN rows : "perDay" \in DOMAIN rows[i].facts
                                       /\ rows[i].facts.perDay = 0
            => Rank(rows[1].tier) >= Rank("watch")
    /\ "decant_station" \in plant => \A id \in DOMAIN present["decant_station"] :
        LET rows == store["decant_station"][id]
        IN  "inactive" \in DOMAIN rows[1].facts /\ rows[1].facts.inactive
              => Rank(rows[1].tier) >= Rank("watch")

(* Scans of which less than one percent, as it is rounded, read nothing. *)
ReadsWell(s) ==
    LET total == s.read + s.noRead
    IN  total > 0 /\ Rounded(100000 * s.noRead, total) < 1000

(* Readings below every absolute threshold of their module. *)
Benign(m, b, id) ==
    CASE m = "network"    -> b.window[id] >= 97000 /\ (id \in DOMAIN b.today => b.today[id] >= 95000)
      [] m = "controller" -> b.nodes[id].idle >= 40 * Percent
      [] m = "gate"       -> b.gates[id] = 1
      [] m = "gtp_station" ->
            id \in DOMAIN b.scanners \ (DOMAIN b.roster \cup DOMAIN b.found)
            /\ ReadsWell(b.scanners[id])
      [] m = "decant_station" ->
            id \in DOMAIN b.scanners \ (DOMAIN b.roster \cup DOMAIN b.cartons)
            /\ ReadsWell(b.scanners[id])
      [] OTHER -> FALSE

(* Stored rows that no recurrence penalty counts.  The score does not tell: a *)
(* device that is hardly used may misread every scan and lose few points.     *)
CleanRow(m, r) ==
    CASE m = "gate"       -> ~r.facts.nonClosed
      [] m = "network"    -> r.facts.down < 6000
      [] m = "controller" -> TRUE
      [] OTHER            -> "misread" \in DOMAIN r.facts /\ r.facts.misread < 2000

(* Peers alone flag nobody: a component below the thresholds, now and in its *)
(* stored rows (none of which has gone yet), is ok, whatever the others read. *)
BenignStaysOk ==
    \A m \in plant : \A id \in DOMAIN present[m] :
        LET rows == store[m][id]
        IN  /\ Benign(m, reading[m], id)
            /\ Len(rows) < HistoryLimit[m]
            /\ \A i \in 2..Len(rows) : CleanRow(m, rows[i])
            => rows[1].tier = "ok"

(* What a scoring takes its penalties from. *)
Features(m, b) ==
    CASE m = "lift"           -> LiftFeatures(b)
      [] m = "shuttle"        -> ShuttleFeatures(b)
      [] m = "conveyor"       -> ConveyorFeatures(b)
      [] m = "tracker"        -> TrackerFeatures(b)
      [] m = "gate"           -> GateFeatures(b)
      [] m = "bin_mech"       -> BinFeatures(b)
      [] m = "gtp_station"    -> GtpFeatures(b)
      [] m = "decant_station" -> DecantFeatures(b)
      [] m = "network"        -> NetworkFeatures(b)
      [] m = "controller"     -> ControllerFeatures(b)

(* Feature by feature, in what its penalties are taken from. *)
NoBetter(m, f, g) ==
    CASE m = "lift"           -> LiftNoBetter(f, g)
      [] m = "shuttle"        -> ShuttleNoBetter(f, g)
      [] m = "conveyor"       -> ConveyorNoBetter(f, g)
      [] m = "tracker"        -> TrackerNoBetter(f, g)
      [] m = "gate"           -> GateNoBetter(f, g)
      [] m = "bin_mech"       -> BinNoBetter(f, g)
      [] m = "gtp_station"    -> GtpNoBetter(f, g)
      [] m = "decant_station" -> DecantNoBetter(f, g)
      [] m = "network"        -> NetworkNoBetter(f, g)
      [] m = "controller"     -> ControllerNoBetter(f, g)

(* Bundle b is for the component nowhere better than a.  The other gates are *)
(* the same: those that a gate is compared with are those that are listed.   *)
Worsens(m, a, b, id) ==
    /\ m \in Modules \ {"meta"} /\ BundleOK(m, a) /\ BundleOK(m, b)
    /\ id \in DOMAIN Features(m, a) \cap DOMAIN Features(m, b)
    /\ m = "gate" => DOMAIN Features(m, a) = DOMAIN Features(m, b)
    /\ NoBetter(m, Features(m, a)[id], Features(m, b)[id])

(* Worsenings holds what it is said to hold. *)
ASSUME WorseningsAssumption ==
    \A w \in Worsenings : Worsens(w.module, w.better, w.worse, w.id)

(* What meta would say if the newest row of a component had another tier. *)
WithTier(c, tier) == [Members EXCEPT !.components = (@ \ {c}) \cup {[c EXCEPT !.tier = tier]}]

MetaSaid(members) == MetaScore(MetaFeatures(members), store["meta"])

(* The reading that each pair of Worsenings calls worse never earns its      *)
(* component a better score than the other, against the same stored rows;    *)
(* nor would an aisle or the system gain if one component had the next worse *)
(* tier.                                                                     *)
WorseNeverBetter ==
    /\ \A w \in Worsenings : w.module \in plant =>
          Scored(w.module, w.worse)[w.id].raw <= Scored(w.module, w.better)[w.id].raw
    /\ "meta" \in plant =>
          LET said == MetaSaid(Members)
          IN  \A c \in Members.components : c.tier # "critical" =>
                  LET worse == MetaSaid(WithTier(c, Tiers[Rank(c.tier) - 1]))
                  IN  \A s \in DOMAIN said : worse[s].raw <= said[s].raw

(* Whoever is flagged has a cause: a factor of at least five points, or what *)
(* the module names first.  An open gate may collect four smaller ones and is *)
(* then said to be in use; shuttles, zones and slots collect many and may be  *)
(* flagged without one.                                                       *)
FlaggedHasCause ==
    \A m \in plant \ {"shuttle", "conveyor", "bin_mech", "meta"} : \A v \in Verdicts(m) :
        Flagged(v.tier) => v.cause \notin {"healthy", "unmapped"}

(* The charts of the overview agree: every component is in one bin and one   *)
(* tier, every one at risk with a time in one bucket, those within 24 hours  *)
(* are the first bucket, the shown ones are the worst, and the heatmap shows *)
(* no cell better than its components.                                       *)
OverviewAddsUp ==
    LET all   == Everything
        timed == {c \in AtRisk(all) : c.ttm # None}
        top   == TopAtRisk(all)
    IN  /\ SumFunction(TierCounts(all)) = Cardinality(all)
        /\ SumFunction(Histogram(all)) = Cardinality(all)
        /\ SumFunction(TtmCounts(all)) = Cardinality(timed)
        /\ Imminent(all) = TtmCounts(all)[1]
        /\ \A c \in AtRisk(all) \ top, t \in top :
                /\ Rank(t.tier) <= Rank(c.tier)
                /\ t.tier = c.tier => t.score <= c.score
        /\ \A c \in all : AisleOf[c.id] # NoAisle =>
                Rank(AisleMatrix(all)[<<AisleOf[c.id], c.module>>]) <= Rank(c.tier)

(* Once the readings settle on calm ones, every verdict comes back to ok and *)
(* stays there: what the store remembers wears off.                          *)
Recovers ==
    <>[](\A m \in plant \ {"meta"} : m \in DOMAIN reading /\ reading[m] = Settled[m])
        => <>[](\A m \in plant : \A v \in Verdicts(m) : v.tier = "ok")

(* docs/notebook/methodology.md:194-196, of every module: a unit that is only *)
(* relatively the worst of a benign population is not flagged.  For stations *)
(* of the GTP area: at most 20 discrepancies a day, on their first run.       *)
PeersAloneFlagNoStation ==
    "gtp_station" \in DOMAIN reading =>
        LET b == reading["gtp_station"]
        IN  \A id \in DOMAIN b.found :
                /\ b.found[id] <= 20 * b.days
                /\ Len(store["gtp_station"][id]) = 1
                => present["gtp_station"][id].tier = "ok"

(* modules/bin_mech/README.md:103-104: the tile shows the worst tier among   *)
(* the currently blocked slots.                                              *)
TileShowsBlockedSlots ==
    "bin_mech" \in DOMAIN reading =>
        LET blocked == {r.slot : r \in reading["bin_mech"].blocked}
            now     == {c \in Latest("bin_mech") : c.id \in blocked}
        IN  TileOf(Latest("bin_mech")) \in {TileOf(now), "ok"}
=============================================================================
