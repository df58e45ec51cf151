----------------------------- MODULE GtpStation -----------------------------
(***************************************************************************)
(* The GTP module: pick stations and their scan devices.  A bundle has      *)
(*   scanners  the table of devices                                         *)
(*   roster    station -> "Active", "Inactive" or "Unknown"                 *)
(*   found     station -> its discrepancies in the window of days days      *)
(***************************************************************************)
EXTENDS Scanners

GtpSubtypes == {"station_scanner", "inbound_scanner", "diverter", "zone_scanner",
                "gtp_scanner", "other"}

GtpBundle(b) ==
    /\ ScannerTable(b.scanners) /\ b.days \in Nat \ {0} /\ IsFiniteSet(DOMAIN b.roster)
    /\ IsFiniteSet(DOMAIN b.found) /\ \A s \in DOMAIN b.found : b.found[s] \in Nat

GtpStationFeatures(b) ==
    LET units     == DOMAIN b.roster \cup DOMAIN b.found
        perDay(s) == IF s \in DOMAIN b.found THEN Rounded(1000 * b.found[s], b.days) ELSE 0
        pool      == [s \in {f \in DOMAIN b.found : b.found[f] > 0} |-> perDay(s)]
    IN  [s \in units |->
           [ entity   |-> "station",
             inactive |-> s \in DOMAIN b.roster /\ b.roster[s] # "Active",
             perDay   |-> perDay(s),
             z        |-> RobustZ(perDay(s), pool),
             disclosed |-> b.found # <<>> ]]

GtpFeatures(b) ==
    Together(ScannerFeatures(b.scanners, GtpSubtypes), GtpStationFeatures(b))

(* Mutant: runs in which the station was switched off count as recurrences. *)
GtpStationPenaltiesTwice(f, hist) ==
    LET again == Cardinality({i \in DOMAIN hist : hist[i].facts.perDay > 20000
                                                  \/ hist[i].facts.inactive})
        down  == InARow(f.inactive, [i \in DOMAIN hist |-> hist[i].facts.inactive])
    IN  << <<"discrepancy_peer_z",  Capped(60 * f.z, 40)>>,
           <<"discrepancy_abs",     Capped(15 * (f.perDay - 20000), 20)>>,
           <<"recurrence",          Capped(6 * U * again, 30)>>,
           <<"offline_persistence", Capped(4 * U * (down - 1), 20)>> >>

(* A stored run counts for its discrepancies, never for being inactive. *)
GtpStationPenalties(f, hist) ==
    LET again == Cardinality({i \in DOMAIN hist : hist[i].facts.perDay > 20000
                                                  \/ hist[i].facts.z >= 2000})
        down  == InARow(f.inactive, [i \in DOMAIN hist |-> hist[i].facts.inactive])
    IN  << <<"discrepancy_peer_z",  Capped(60 * f.z, 40)>>,
           <<"discrepancy_abs",     Capped(15 * (f.perDay - 20000), 20)>>,
           <<"recurrence",          Capped(6 * U * again, 30)>>,
           <<"offline_persistence", Capped(4 * U * (down - 1), 20)>> >>

GtpNoBetter(f, g) ==
    /\ f.entity = g.entity
    /\ IF f.entity # "station" THEN ScannerNoBetter(f, g)
       ELSE NoLower(f, g, [z |-> 0, perDay |-> 20000]) /\ StillUp(f, g, {"inactive"})

GtpStationCause(f, pen) ==
    LET top == MaterialCause(pen)
    IN  IF top = "healthy" /\ f.inactive THEN "inactive" ELSE top

ScoreGtpStation(f, hist) ==
    LET pen  == GtpStationPenalties(f, hist)
        raw  == ScoreOf(Total(pen))
        cause == GtpStationCause(f, pen)
        evidence == f.perDay \div 20 + (IF pen[3][2] > 0 THEN 200 ELSE 0)
                        + (IF f.disclosed THEN 150 ELSE 0)
        cold == 400 + (400 * AtMost(evidence, 1000)) \div 1000
                    + (IF hist = <<>> THEN 0 ELSE 100)
    IN  Judge(raw, Trend(hist, Stored(raw)), <<48, 240, 720>>, TrendConfidence(720, hist),
              AtMost(cold, 880), cause,
              IF cause \in {"discrepancy_peer_z", "discrepancy_abs"} THEN {"gtp_scanner"} ELSE {},
              [inactive |-> f.inactive, perDay |-> f.perDay, z |-> f.z])

(* cross_link_entities: flagged stations with a flagged scanner, and those.  *)
CrossLinked(feats, alone) ==
    LET bad(kind) == {c \in DOMAIN feats : feats[c].entity = kind /\ Flagged(alone[c].tier)}
        pairs == {p \in bad("scanner") \X bad("station") : feats[p[1]].parent = p[2]}
    IN  {p[1] : p \in pairs} \cup {p[2] : p \in pairs}

ScoreGtpScanner(f, hist) ==
    ScoreScanner(f, hist, 0, IF f.parent = NoStation THEN {} ELSE {"gtp_station"})

GtpScore(feats, stored) ==
    LET alone == [c \in DOMAIN feats |->
            IF feats[c].entity = "station" THEN ScoreGtpStation(feats[c], History(stored, c))
            ELSE ScoreGtpScanner(feats[c], History(stored, c))]
        linked == CrossLinked(feats, alone)
    IN  [c \in DOMAIN feats |->
            IF c \in linked THEN Also(alone[c], "corroboration") ELSE alone[c]]
=============================================================================
