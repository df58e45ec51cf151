------------------------------- MODULE Tracker ------------------------------
(***************************************************************************)
(* The tracker module: positions where totes were lost track of.  Only the *)
(* positions of the present rows are components, so a stored row of a       *)
(* position is by itself a run in which it was bad.  A bundle has           *)
(*   rows    a sequence of [place, age, shuttle, liftError], age in days or *)
(*           None, shuttle "" when the row names none                       *)
(*   days    the window                                                     *)
(***************************************************************************)
EXTENDS Health

TrackerBundle(b) == IsFiniteSet(DOMAIN b.rows)

TrackerFeatures(b) ==
    LET rows   == {i \in DOMAIN b.rows : b.rows[i].place # ""}
        places == {b.rows[i].place : i \in rows}
        ages   == {b.rows[i].age : i \in rows} \ {None}
        active == AtMost(7, b.days)
        at(p)  == {i \in rows : b.rows[i].place = p}
        recent == {i \in rows : b.rows[i].age # None /\ b.rows[i].age - Min(ages) <= active}
        counts == [p \in places |-> Cardinality(at(p))]
    IN  [p \in places |->
           LET named == {i \in at(p) : b.rows[i].shuttle # ""}
               units == [i \in named |-> b.rows[i].shuttle]
           IN  [ bad      |-> counts[p],
                 recent   |-> Cardinality(at(p) \cap recent),
                 shuttles |-> Cardinality(Range(units)),
                 oneShuttle |-> /\ named # {}
                                /\ Rounded(1000 * Repeats(units), Cardinality(named)) >= 600,
                 liftErrors |-> Cardinality({i \in at(p) : b.rows[i].liftError}),
                 z        |-> RobustZ(counts[p], counts) ]]

(* Old and recent totes are counted apart, so none is counted twice. *)
TrackerPenalties(f, runs) ==
    << <<"cluster",        Capped(8 * U * (f.bad - f.recent), 34)>>,
       <<"recent_cluster", Capped(9 * U * f.recent, 30)>>,
       <<"recurrence",     Capped(7 * U * runs, 30)>>,
       <<"multi_shuttle",  Capped(5 * U * (f.shuttles - 1), 15)>>,
       <<"lift_involved",  Capped(6 * U * f.liftErrors, 12)>>,
       <<"peer_z",         Capped(50 * f.z, 12)>> >>

(* A tote that turns from old to recent is not worse: it takes less. *)
TrackerNoBetter(f, g) ==
    /\ NoLower(f, g, [recent |-> 0, shuttles |-> 1, liftErrors |-> 0, z |-> 0])
    /\ f.bad - f.recent <= g.bad - g.recent

TrackerCause(pen) ==
    LET top == TopFactor(pen, Material)
    IN  CASE top = "none"   -> "healthy"
          [] top = "peer_z" -> "cluster"
          [] OTHER          -> top

TrackerScore(feats, stored) ==
    [p \in DOMAIN feats |->
        LET hist == History(stored, p)
            f    == feats[p]
            runs == Len(hist)
            pen  == TrackerPenalties(f, runs)
            raw  == ScoreOf(Total(pen))
            cold == 420 + (300 * AtMost(f.bad, 4)) \div 4 + (IF runs = 0 THEN 0 ELSE 120)
        IN  Judge(raw, Trend(hist, Stored(raw)), <<48, 240, 720>>,
                  TrendConfidence(720, hist), AtMost(cold, 850), TrackerCause(pen),
                  (IF f.oneShuttle /\ (f.bad >= 2 \/ runs >= 2) THEN {"shuttle"} ELSE {})
                  \cup (IF f.liftErrors > 0 THEN {"lift"} ELSE {}),
                  [known |-> TRUE])]
=============================================================================
