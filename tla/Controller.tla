----------------------------- MODULE Controller -----------------------------
(***************************************************************************)
(* The controller module: how busy the processors of the nodes are.  A      *)
(* bundle has                                                               *)
(*   nodes      node -> [idle, sql], thousandths of a percent, None for a   *)
(*              cell that is not a number                                   *)
(*   idleColumn whether the frame has the idle column at all                *)
(***************************************************************************)
EXTENDS Health

Percent == 1000

(* The rows of a node carry no aisle. *)
ControllerBundle(b) ==
    /\ IsFiniteSet(DOMAIN b.nodes)
    /\ \A n \in DOMAIN b.nodes : b.nodes[n].idle \in Int /\ AisleOf[n] = NoAisle

ControllerFeatures(b) ==
    LET cell(x)  == AtMost(Positive(x), 100 * Percent)
        util(n)  == 100 * Percent - cell(b.nodes[n].idle)
        nodes    == IF b.idleColumn THEN DOMAIN b.nodes ELSE {}
    IN  [n \in nodes |->
           [ util |-> util(n),
             sqlShare |-> IF util(n) = 0 THEN 0
                          ELSE (10 * AtMost(cell(b.nodes[n].sql), util(n)))
                                    \div (util(n) \div 1000 + 1) ]]

(* Runs in a row, this one included, with at least 80 percent in use. *)
BusyRuns(f, hist) ==
    IF f.util < 80 * Percent THEN 0
    ELSE Min({i \in DOMAIN hist : hist[i].facts.util < 80 * Percent} \cup {Len(hist) + 1})

ControllerPenalties(f, busy) ==
    << <<"saturation",     Capped(25 * (f.util - 60 * Percent), 70)>>,
       <<"sustained_high", Capped(6 * U * (busy - 1), 30)>> >>

ControllerNoBetter(f, g) == NoLower(f, g, [util |-> 60 * Percent])

ControllerCause(pen) ==
    LET top == TopFactor(pen, Material)
    IN  IF top = "none" THEN "healthy" ELSE top

(* Mutant: only a critical node asks. *)
EscalatesLate(tier) == Rank(tier) < Rank("warn")

(* Asks the meta module to look at the system. *)
Escalates(tier) == Rank(tier) <= Rank("warn")

ControllerScore(feats, stored) ==
    [n \in DOMAIN feats |->
        LET hist == History(stored, n)
            f    == feats[n]
            pen  == ControllerPenalties(f, BusyRuns(f, hist))
            raw  == ScoreOf(Total(pen))
            cold == 550 + (250 * AtMost(Len(hist), MinRunsForTrend)) \div MinRunsForTrend
                        + (IF hist = <<>> THEN 0 ELSE 50)
        IN  Judge(raw, Trend(hist, Stored(raw)), <<24, 96, 336>>,
                  TrendConfidence(720, hist), AtMost(cold, 900), ControllerCause(pen),
                  IF Escalates(TierOf(raw)) THEN {"meta"} ELSE {},
                  [util |-> f.util])]
=============================================================================
