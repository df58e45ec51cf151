-------------------------------- MODULE Lift --------------------------------
(***************************************************************************)
(* The lift module: the errors of every lift in a window that ends with    *)
(* the newest row, compared with the other lifts.  A bundle has             *)
(*   errors  a sequence of [lift, code, age], age in hours or None when the *)
(*           time of the row cannot be parsed                               *)
(*   bad     {[lift, error]}, the bad-tracker rows; days, the window        *)
(***************************************************************************)
EXTENDS Health

(* error_catalog of module.yaml: severity and category by code. *)
LiftCatalog(code) ==
    CASE code = 1          -> [severity |-> 8500,  category |-> "mechanical"]
      [] code = 3          -> [severity |-> 7000,  category |-> "comm"]
      [] code = 4          -> [severity |-> 5000,  category |-> "comm"]
      [] code = 5          -> [severity |-> 10000, category |-> "mechanical"]
      [] code = 8          -> [severity |-> 6000,  category |-> "other"]
      [] code \in {10, 11} -> [severity |-> 8000,  category |-> "mechanical"]
      [] code \in {14, 16} -> [severity |-> 9000,  category |-> "mechanical"]
      [] code = 17         -> [severity |-> 7000,  category |-> "other"]
      [] code = 18         -> [severity |-> 3000,  category |-> "other"]
      [] OTHER             -> [severity |-> 5000,  category |-> "other"]

LiftBundle(b) == IsFiniteSet(DOMAIN b.errors) /\ b.days \in Nat \ {0}

LiftFeatures(b) ==
    LET rows    == {i \in DOMAIN b.errors : b.errors[i].age # None}
        lifts   == {b.errors[i].lift : i \in rows}
        newest  == Min({b.errors[i].age : i \in rows})
        mine(l) == {i \in rows : b.errors[i].lift = l
                                  /\ b.errors[i].age - newest <= 24 * b.days}
        rate(l) == Rounded(Cardinality(mine(l)) * U, b.days)
        rates   == [l \in lifts |-> rate(l)]
        share(c, kind) == IF DOMAIN c = {} THEN 0
            ELSE Rounded(U * Cardinality({i \in DOMAIN c : LiftCatalog(c[i]).category = kind}),
                         Cardinality(DOMAIN c))
    IN  [l \in lifts |->
           LET c == [i \in mine(l) |-> b.errors[i].code]
           IN  [ errors     |-> Cardinality(mine(l)),
                 rate       |-> rate(l),
                 z          |-> RobustZ(rate(l), rates),
                 severity   |-> Mean([i \in mine(l) |-> LiftCatalog(c[i]).severity]),
                 mechanical |-> share(c, "mechanical"),
                 comm       |-> share(c, "comm"),
                 repeats    |-> Repeats(c),
                 distinct   |-> Cardinality(Range(c)),
                 inError    |-> [lift |-> l, error |-> TRUE] \in b.bad ]]

(* Severity and the mechanical share count in full only from five errors on. *)
LiftPenalties(f) ==
    LET gated(x) == (x * AtMost(f.errors, 5)) \div 5
    IN  << <<"rate_peer_z",   Capped(90 * f.z, 40)>>,
           <<"abs_rate",      Capped(2 * f.rate, 20)>>,
           <<"severity",      Capped(30 * gated(f.severity), 30)>>,
           <<"mechanical",    Capped(22 * gated(f.mechanical), 22)>>,
           <<"recurrence",    Capped((3 * U * (f.repeats - 2)) \div 2, 18)>>,
           <<"diversity",     Capped(2 * U * (f.distinct - 2), 12)>>,
           <<"current_error", Capped(IF f.inError THEN 12 * U ELSE 0, 12)>> >>

LiftNoBetter(f, g) ==
    /\ NoLower(f, g, [z |-> 0, rate |-> 0, severity |-> 0, mechanical |-> 0, errors |-> 0,
                      repeats |-> 2, distinct |-> 2])
    /\ StillUp(f, g, {"inError"})

LiftCause(f, pen) ==
    LET top == TopFactor(pen, Contributing)
    IN  IF f.inError THEN "current_error"
        ELSE IF f.errors > 0 /\ top \in {"severity", "mechanical"} THEN "dominant"
        ELSE IF top = "rate_peer_z" THEN "rate_peer_z"
        ELSE IF f.errors > 0 THEN "dominant"
        ELSE "healthy"

LiftScore(feats, stored) ==
    [l \in DOMAIN feats |->
        LET hist == History(stored, l)
            f    == feats[l]
            pen  == LiftPenalties(f)
            raw  == ScoreOf(Total(pen))
            data == Share(f.errors, 30)
            cold == 350 + (350 * data) \div 1000 + (IF hist = <<>> THEN 0 ELSE 100)
        IN  Judge(raw, FittedTrend(hist, Stored(raw)), <<24, 96, 336>>,
                  Scaled(TrendConfidence(700, hist), data), AtMost(cold, 850), LiftCause(f, pen),
                  IF f.errors > 0 /\ f.comm >= 2000 THEN {"network"} ELSE {},
                  [known |-> TRUE])]
=============================================================================
