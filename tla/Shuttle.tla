------------------------------- MODULE Shuttle ------------------------------
(***************************************************************************)
(* The shuttle module: errors per million cycles against the fleet, and    *)
(* what is wrong today.  A bundle has                                       *)
(*   cycles  shuttle -> [total, reshuffled], thousands of cycles            *)
(*   errors  a sequence of [shuttle, kind, age], newest and window as for   *)
(*           the lifts; kind is the type and the text of the error          *)
(*   daily   shuttle -> errors of today;  alerts  shuttles named by an alert *)
(*   bad     {[shuttle, events, error]}, the bad-tracker rows by shuttle     *)
(***************************************************************************)
EXTENDS Health

(* error_info: a keyword of the text goes before the type. *)
ShuttleCatalog(kind) ==
    CASE kind = "SERVO_DRIVE"      -> [severity |-> 9000, category |-> "drive_motor"]
      [] kind \in {"SENSOR", "DETECTION"} -> [severity |-> 6000, category |-> "sensor"]
      [] kind = "NOT_AT_CENTER"    -> [severity |-> 6500, category |-> "positioning"]
      [] kind = "FORK"             -> [severity |-> 9000, category |-> "mechanical"]
      [] kind = "TELESCOPIC_ERROR" -> [severity |-> 8000, category |-> "mechanical"]
      [] kind = "PICK_ERROR"       -> [severity |-> 6000, category |-> "handling"]
      [] OTHER                     -> [severity |-> 5500, category |-> "other"]

PerMillion == 1000 * 1000

ShuttleMechanical == {"drive_motor", "mechanical"}

ShuttleBundle(b) ==
    /\ \A s \in DOMAIN b.cycles : b.cycles[s].total \in Nat /\ b.cycles[s].reshuffled \in Nat
    /\ \A s \in DOMAIN b.daily : b.daily[s] \in Nat
    /\ \A r \in b.bad : r.events \in Nat
    /\ IsFiniteSet(DOMAIN b.cycles) /\ IsFiniteSet(DOMAIN b.errors) /\ IsFiniteSet(DOMAIN b.daily)
    /\ IsFiniteSet(b.alerts) /\ IsFiniteSet(b.bad)

ShuttleFeatures(b) ==
    LET rows   == {i \in DOMAIN b.errors : b.errors[i].age # None}
        newest == Min({b.errors[i].age : i \in rows})
        win    == {i \in rows : b.errors[i].age - newest <= 24 * b.days}
        bad    == {r.shuttle : r \in b.bad}
        units  == IF b.cycles = <<>> /\ b.errors = <<>> THEN {}
                  ELSE DOMAIN b.cycles \cup DOMAIN b.daily \cup bad \cup b.alerts
                           \cup {b.errors[i].shuttle : i \in win}
        mine(s)  == {i \in win : b.errors[i].shuttle = s}
        total(s) == IF s \in DOMAIN b.cycles THEN b.cycles[s].total ELSE 0
        share(s) == IF total(s) = 0 THEN 0 ELSE Rounded(b.cycles[s].reshuffled * U, total(s))
        epc(s)   == (Cardinality(mine(s)) * PerMillion) \div total(s)
        today(s) == IF s \in DOMAIN b.daily THEN b.daily[s] ELSE 0
        used   == {s \in units : total(s) > 0}
        epcs   == [s \in used |-> epc(s)]
        usual  == IF used = {} THEN 0 ELSE Median([s \in used |-> share(s)])
    IN  [s \in units |->
           LET k   == [i \in mine(s) |-> b.errors[i].kind]
               cat == [i \in mine(s) |-> ShuttleCatalog(k[i])]
           IN  [ total    |-> total(s),
                 errors   |-> Cardinality(mine(s)),
                 epc      |-> IF total(s) = 0 THEN 0 ELSE epc(s),
                 z        |-> IF total(s) = 0 THEN 0 ELSE RobustZ(epc(s), epcs),
                 severity |-> Mean([i \in mine(s) |-> cat[i].severity]),
                 mechanical |-> IF mine(s) = {} THEN 0
                                ELSE Rounded(U * Cardinality({i \in mine(s) :
                                        cat[i].category \in ShuttleMechanical}),
                                             Cardinality(mine(s))),
                 servo    |-> "drive_motor" \in {cat[i].category : i \in mine(s)},
                 repeats  |-> Repeats(k),
                 distinct |-> Cardinality(Range(k)),
                 reshuffle |-> Positive(share(s) - usual),
                 daily    |-> Positive(today(s) - Cardinality(mine(s))),
                 events   |-> IF s \in bad THEN (CHOOSE r \in b.bad : r.shuttle = s).events ELSE 0,
                 pickError |-> \E r \in b.bad : r.shuttle = s /\ r.error,
                 alert    |-> s \in b.alerts ]]

ShuttlePenalties(f) ==
    LET flag(x, points) == IF x THEN points * U ELSE 0
    IN  << <<"epc_peer_z",         Capped(60 * f.z, 36)>>,
           <<"epc_abs",            Capped(f.epc \div 5, 18)>>,
           <<"severity",           Capped(28 * f.severity, 28)>>,
           <<"mechanical",         Capped(20 * f.mechanical, 20)>>,
           <<"recurrence",         Capped((3 * U * (f.repeats - 2)) \div 2, 16)>>,
           <<"diversity",          Capped(2 * U * (f.distinct - 2), 10)>>,
           <<"reshuffle_excess",   Capped(18 * f.reshuffle, 8)>>,
           <<"current_badtracker", Capped(flag(f.pickError, 12), 12)>>,
           <<"current_alert",      Capped(flag(f.alert, 8), 8)>>,
           <<"current_daily",      Capped(3 * U * f.daily, 9)>> >>

ShuttleNoBetter(f, g) ==
    /\ NoLower(f, g, [z |-> 0, epc |-> 0, severity |-> 0, mechanical |-> 0, repeats |-> 2,
                      distinct |-> 2, reshuffle |-> 0, daily |-> 0])
    /\ StillUp(f, g, {"pickError", "alert"})

(* Preferred: the score over the cycles, and cycles over time; over time    *)
(* alone when the cycles do not move.                                       *)
ShuttleTrend(hist, score) ==
    LET cycles == [i \in DOMAIN hist |-> hist[i].facts.cycles]
        wear   == Slope(cycles, Scores(hist))
        pace   == Slope(Times(hist), cycles)
        left   == ((score - Critical) * wear[2]) \div (-wear[1])
        hours  == IF score <= Critical THEN 0
                  ELSE IF wear[1] >= 0 THEN None
                  ELSE IF pace[1] <= 0 THEN None
                  ELSE AtMost((left * pace[2]) \div pace[1], Year)
    IN  IF Len(hist) < MinRunsForTrend \/ wear[2] = 0 THEN FittedTrend(hist, score)
        ELSE [used |-> TRUE, ttm |-> hours]

(* The named error is the most frequent one, whatever factor is the largest. *)
ShuttleCause(f) ==
    IF f.alert THEN "current_alert"
    ELSE IF f.errors > 0 THEN "dominant"
    ELSE IF f.events > 0 THEN "current_badtracker"
    ELSE "healthy"

ShuttleScore(feats, stored) ==
    [s \in DOMAIN feats |->
        LET hist == History(stored, s)
            f    == feats[s]
            raw  == ScoreOf(Total(ShuttlePenalties(f)))
            data == Share(f.errors, 20)
            cold == 400 + (250 * data) \div 1000 + (IF f.total > 0 THEN 150 ELSE 0)
                        + (IF hist = <<>> THEN 0 ELSE 100)
        IN  Judge(raw, ShuttleTrend(hist, Stored(raw)), <<48, 240, 720>>,
                  Scaled(TrendConfidence(720, hist), data), AtMost(cold, 850), ShuttleCause(f),
                  (IF f.servo THEN {"network"} ELSE {}) \cup
                  (IF f.pickError \/ f.events >= 3 THEN {"tracker"} ELSE {}),
                  [cycles |-> f.total])]
=============================================================================
