------------------------------ MODULE Network -------------------------------
(***************************************************************************)
(* The network module: how long the links of the shuttles are down.  A      *)
(* bundle has                                                               *)
(*   window, today   shuttle -> uptime in thousandths of a percent; the     *)
(*                   uptime of today may be below 0                         *)
(***************************************************************************)
EXTENDS Health

NetworkBundle(b) ==
    /\ IsFiniteSet(DOMAIN b.window) /\ \A s \in DOMAIN b.window : b.window[s] \in Int
    /\ \A s \in DOMAIN b.today : b.today[s] \in Int

NetworkFeatures(b) ==
    LET down(up) == AtMost(Positive(100000 - up), 100000)
        links    == DOMAIN b.window
        pool     == [s \in links |-> down(b.window[s])]
        average(a) == Mean([s \in {l \in links : AisleOf[l] = a} |-> pool[s]])
    IN  [s \in links |->
           [ down  |-> pool[s],
             today |-> IF s \in DOMAIN b.today THEN down(b.today[s]) ELSE None,
             z     |-> RobustZ(pool[s], pool),
             aisleDown |-> IF AisleOf[s] = NoAisle THEN 0 ELSE average(AisleOf[s]),
             disclosed |-> b.today # <<>> ]]

(* Mutant: a link is compared with its peers however little it is down. *)
NetworkPenaltiesUngated(f, hist) ==
    << <<"downtime_abs",    Capped(30 * (f.down - 3000), 45)>>,
       <<"downtime_peer_z", Capped(40 * f.z, 16)>> >>

(* Today counts only when it is worse than the window, a deviation only for *)
(* a link that is down for four percent, a stored run only from six on.     *)
NetworkPenalties(f, hist) ==
    LET again == Cardinality({i \in DOMAIN hist : hist[i].facts.down >= 6000})
    IN  << <<"downtime_abs",    Capped(30 * (f.down - 3000), 45)>>,
           <<"downtime_peer_z", Capped(IF f.down >= 4000 THEN 40 * f.z ELSE 0, 16)>>,
           <<"recent_spike",    Capped(IF f.today > f.down THEN 15 * (f.today - 5000) ELSE 0, 20)>>,
           <<"recurrence",      Capped(6 * U * again, 30)>> >>

(* A window that rises to the level of the day is not worse: the day then    *)
(* counts no more.                                                           *)
NetworkNoBetter(f, g) ==
    /\ NoLower(f, g, [down |-> 3000])
    /\ f.down >= 4000 => NoLower(f, g, [z |-> 0])
    /\ f.today > f.down /\ f.today > 5000 => g.today > g.down /\ f.today <= g.today

NetworkCause(pen) ==
    LET top == TopFactor(pen, Material)
    IN  IF top = "none" THEN "healthy" ELSE top

(* aisle_cluster_flags: the flagged links of an aisle that is bad as a whole. *)
AisleClusters(feats, alone) ==
    {s \in DOMAIN feats :
        /\ AisleOf[s] # NoAisle
        /\ Flagged(alone[s].tier)
        /\ \/ feats[s].aisleDown >= 6000
           \/ \E t \in DOMAIN feats \ {s} : AisleOf[t] = AisleOf[s] /\ Flagged(alone[t].tier)}

NetworkScore(feats, stored) ==
    LET alone == [s \in DOMAIN feats |->
            LET hist == History(stored, s)
                f    == feats[s]
                pen  == NetworkPenalties(f, hist)
                raw  == ScoreOf(Total(pen))
                cold == 500 + AtMost(f.down \div 40, 250)
                            + (IF f.disclosed THEN 100 ELSE 0)
                            + (IF hist = <<>> THEN 0 ELSE 100)
            IN  Judge(raw, Trend(hist, Stored(raw)), <<48, 240, 720>>,
                      TrendConfidence(720, hist), AtMost(cold, 920), NetworkCause(pen),
                      IF Flagged(TierOf(raw)) THEN {"shuttle"} ELSE {},
                      [down |-> f.down])]
        clustered == AisleClusters(feats, alone)
    IN  [s \in DOMAIN feats |->
            [alone[s] EXCEPT !.cross = @ \cup (IF s \in clustered THEN {"meta"} ELSE {})]]
=============================================================================
