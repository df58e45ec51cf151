-------------------------------- MODULE Gate --------------------------------
(***************************************************************************)
(* The gate module: status and stuck time of every gate of the roster, its *)
(* persistence and recurrence in the store, and its deviation from peers.  *)
(* A bundle has the frames of one fetch:                                    *)
(*   gates   gate -> status code, 0 for a text that cannot be mapped         *)
(*   alerts  {[gate, minutes]}, empty when the panel could not be fetched   *)
(***************************************************************************)
EXTENDS Health

GateBundle(b) ==
    /\ IsFiniteSet(DOMAIN b.gates) /\ IsFiniteSet(b.alerts)
    /\ \A a \in b.alerts : a.minutes \in Int

GateFeatures(b) ==
    LET opened == {g \in DOMAIN b.gates : b.gates[g] \in {2, 3}}
        stuck(g) == Max({0} \cup {a.minutes : a \in {x \in b.alerts : x.gate = g}})
    IN  [g \in DOMAIN b.gates |->
           [ code   |-> b.gates[g],
             excess |-> IF g \in opened THEN Positive(stuck(g) - 2) ELSE 0,
             nonClosed |-> g \in opened,
             aisleNonClosed |-> 
                 IF AisleOf[g] = NoAisle THEN 0
                 ELSE Cardinality({h \in opened : AisleOf[h] = AisleOf[g]}) ]]

(* Mutant: the runs in a row are those with a bad verdict, open or not. *)
GatePriorFeedback(f, hist) ==
    [ runs |-> Len(hist), nonClosed |-> 0, stuck |-> 0,
      inARow |-> Min({i \in DOMAIN hist : hist[i].tier = "ok"} \cup {Len(hist) + 1}) ]

(* The rates of the stored runs, and the runs in a row, this one included. *)
GatePrior(f, hist) ==
    LET quiet == {i \in DOMAIN hist : ~hist[i].facts.nonClosed}
        stuck == {i \in DOMAIN hist : hist[i].facts.stuck}
        rate(S) == IF hist = <<>> THEN 0 ELSE Rounded(Cardinality(S) * U, Len(hist))
    IN  [ runs      |-> Len(hist),
          nonClosed |-> rate(DOMAIN hist \ quiet),
          stuck     |-> rate(stuck),
          inARow    |-> IF f.nonClosed THEN Min(quiet \cup {Len(hist) + 1}) ELSE 0 ]

(* Rates count after three runs, and deviation when two gates have as many. *)
GatePenalties(f, prior, pool) ==
    LET rated(x) == IF prior.runs >= 3 THEN x ELSE 0
    IN  << <<"stuck_latency",    Capped(3 * U * f.excess, 62)>>,
           <<"open_request",     Capped(IF f.code = 2 THEN 8 * U ELSE 0, 8)>>,
           <<"persistence",      Capped(12 * U * (prior.inARow - 1), 36)>>,
           <<"stuck_recurrence", Capped(rated(40 * prior.stuck), 20)>>,
           <<"non_closed_rate",  Capped(rated(35 * prior.nonClosed), 22)>>,
           <<"peer_z",           Capped(rated(50 * RobustZ(prior.nonClosed, pool)), 18)>> >>

(* Features g are nowhere better than f, here and in the other modules. *)
GateNoBetter(f, g) ==
    /\ NoLower(f, g, [excess |-> 0])
    /\ f.code = 2 => g.code = 2
    /\ StillUp(f, g, {"nonClosed"})

GateCause(f, pen) ==
    LET top == TopFactor(pen, Material)
    IN  IF f.nonClosed /\ f.aisleNonClosed >= 3 THEN "aisle_common"
        ELSE IF top # "none" THEN top
        ELSE IF f.code = 2 THEN "open_request"
        ELSE IF f.code = 3 THEN "in_use"
        ELSE IF f.code = 0 THEN "unmapped"
        ELSE "healthy"

GateScore(feats, stored) ==
    LET prior == [g \in DOMAIN feats |-> GatePrior(feats[g], History(stored, g))]
        known == {g \in DOMAIN feats : prior[g].runs >= 3}
        pool  == [g \in known |-> prior[g].nonClosed]
        verdict(g) ==
            LET hist == History(stored, g)
                f    == feats[g]
                pen  == GatePenalties(f, prior[g], pool)
                raw  == ScoreOf(Total(pen))
                cold == 420 + (330 * AtMost(prior[g].runs, 3)) \div 3
                            + (IF hist = <<>> THEN 0 ELSE 50)
            IN  Judge(raw, Trend(hist, Stored(raw)), <<48, 240, 720>>,
                      TrendConfidence(720, hist), AtMost(cold, 850), GateCause(f, pen),
                      IF f.nonClosed /\ f.aisleNonClosed >= 3 THEN {"network"} ELSE {},
                      [nonClosed |-> f.nonClosed, stuck |-> f.excess > 0])
    IN  [g \in DOMAIN feats |-> verdict(g)]
=============================================================================
