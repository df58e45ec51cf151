------------------------------ MODULE Conveyor ------------------------------
(***************************************************************************)
(* The conveyor module: how full the zones run, and a zone that stands     *)
(* still while the others move.  A bundle has                               *)
(*   zones   zone -> a sequence of [actual, limit, buffer, bufferLimit];    *)
(*           each stands for PerSample equal rows of the time series        *)
(***************************************************************************)
EXTENDS Health

PerSample == 100

Samples == [actual : Nat, limit : Nat, buffer : Nat, bufferLimit : Nat]

ConveyorBundle(b) ==
    IsFiniteSet(DOMAIN b.zones) /\ \A z \in DOMAIN b.zones : b.zones[z] \in Seq(Samples)

ConveyorFeatures(b) ==
    LET ratio(x, most) == (x * U) \div most
        load(z)  == LET rows == b.zones[z]
                    IN  [i \in {j \in DOMAIN rows : rows[j].limit # 0} |->
                            ratio(rows[i].actual, rows[i].limit)]
        queue(z) == LET rows == b.zones[z]
                    IN  [i \in {j \in DOMAIN rows : rows[j].bufferLimit # 0} |->
                            ratio(rows[i].buffer, rows[i].bufferLimit)]
        part(S, all) == IF all = {} THEN 0 ELSE Rounded(Cardinality(S) * U, Cardinality(all))
        idle(z)  == LET rows == b.zones[z]
                    IN  part({i \in DOMAIN rows : rows[i].actual = 0}, DOMAIN rows)
        high(v)  == LET n == PerSample * Cardinality(DOMAIN v)
                    IN  IF n = 0 THEN 0 ELSE Nth(v, 1 + (9 * (n - 1)) \div (10 * PerSample))
        loads    == [z \in DOMAIN b.zones |-> Mean(load(z))]
        idles    == [z \in DOMAIN b.zones |-> idle(z)]
    IN  [z \in DOMAIN b.zones |->
           LET v == load(z)
           IN  [ samples |-> PerSample * Len(b.zones[z]),
                 mean    |-> Mean(v),
                 peak    |-> Max({0} \cup Range(v)),
                 p90     |-> high(v),
                 severe  |-> part({i \in DOMAIN v : 2 * v[i] >= 3 * U}, DOMAIN v),
                 buffer  |-> Mean(queue(z)),
                 idle    |-> idle(z),
                 z       |-> RobustZ(loads[z], loads),
                 idleZ   |-> RobustZ(idles[z], idles) ]]

(* A zone that stands still counts only when its peers do not. *)
ConveyorPenalties(f) ==
    << <<"congestion_excess",    Capped(40 * (f.mean - U), 35)>>,
       <<"severe_saturation",    Capped(30 * f.severe, 25)>>,
       <<"peak_excess",          Capped(15 * (f.peak - 2 * U), 15)>>,
       <<"buffer_congestion",    Capped(25 * (f.buffer - 3000), 18)>>,
       <<"congestion_peer_z",    Capped(60 * f.z, 18)>>,
       <<"sustained_congestion", Capped(12 * (f.p90 - U), 12)>>,
       <<"stall_idle",           Capped(IF f.idleZ >= 1000 THEN 100 * (f.idle - 4000) ELSE 0, 55)>> >>

ConveyorNoBetter(f, g) ==
    NoLower(f, g, [mean |-> U, severe |-> 0, peak |-> 2 * U, buffer |-> 3000, z |-> 0, p90 |-> U,
                   idle |-> 4000, idleZ |-> 999])

ConveyorCause(pen) ==
    LET top == TopFactor(pen, Material)
    IN  CASE top = "none" -> "healthy"
          [] top = "congestion_peer_z" -> "congestion_excess"
          [] OTHER -> top

ConveyorScore(feats, stored) ==
    [z \in DOMAIN feats |->
        LET hist == History(stored, z)
            f    == feats[z]
            pen  == ConveyorPenalties(f)
            raw  == ScoreOf(Total(pen))
            data == Share(f.samples, 500)
            cold == 450 + (400 * data) \div 1000 + (IF hist = <<>> THEN 0 ELSE 100)
        IN  Judge(raw, Trend(hist, Stored(raw)), <<24, 96, 336>>,
                  Scaled(TrendConfidence(720, hist), data), AtMost(cold, 850), ConveyorCause(pen),
                  IF f.buffer >= 5000 THEN {"outbound/buffer"} ELSE {},
                  [known |-> TRUE])]
=============================================================================
