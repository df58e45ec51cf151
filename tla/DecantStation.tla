--------------------------- MODULE DecantStation ----------------------------
(***************************************************************************)
(* The decant module: decanting stations and the scan devices of the       *)
(* decant and compaction lines.  A bundle has                               *)
(*   scanners  the table of devices, shared with the GTP module             *)
(*   roster    station -> "Active", "Inactive" or "Unknown"                 *)
(*   cartons   station -> cartons decanted in the window                    *)
(***************************************************************************)
EXTENDS Scanners

DecantSubtypes == {"decant", "compaction"}

DecantBundle(b) ==
    ScannerTable(b.scanners) /\ IsFiniteSet(DOMAIN b.roster) /\ IsFiniteSet(DOMAIN b.cartons)

(* An idle station counts only while the line is busy: fifty cartons.       *)
DecantStationFeatures(b) ==
    LET units    == DOMAIN b.roster \cup DOMAIN b.cartons
        status(s) == IF s \in DOMAIN b.roster THEN b.roster[s] ELSE "Unknown"
        done(s)  == IF s \in DOMAIN b.cartons THEN b.cartons[s] ELSE 0
        busy     == SumFunction(b.cartons) >= 50
    IN  [s \in units |->
           [ entity    |-> "station",
             inactive  |-> status(s) = "Inactive",
             idle      |-> status(s) = "Active" /\ done(s) <= 0 /\ busy,
             disclosed |-> b.cartons # <<>> ]]

DecantScannerFeatures(b) == ScannerFeatures(b.scanners, DecantSubtypes)

DecantFeatures(b) == Together(DecantScannerFeatures(b), DecantStationFeatures(b))

(* Only runs with two hundred scans count as recurrences. *)
ScoreDecantScanner(f, hist) == ScoreScanner(f, hist, 200, {"gtp_station"})

DecantNoBetter(f, g) ==
    /\ f.entity = g.entity
    /\ IF f.entity # "station" THEN ScannerNoBetter(f, g)
       ELSE StillUp(f, g, {"inactive", "idle"})

DecantCause(f, pen) ==
    LET top == MaterialCause(pen)
    IN  IF top # "healthy" THEN top
        ELSE IF f.inactive THEN "inactive"
        ELSE IF f.idle THEN "idle_recurrence"
        ELSE "healthy"

ScoreDecantStation(f, hist) ==
    LET down == InARow(f.inactive, [i \in DOMAIN hist |-> hist[i].facts.inactive])
        idle == InARow(f.idle, [i \in DOMAIN hist |-> hist[i].facts.idle])
        pen  == << <<"offline_persistence", Capped(4 * U * (down - 1), 20)>>,
                   <<"idle_recurrence",     Capped(6 * U * (idle - 1), 40)>> >>
        raw  == ScoreOf(Total(pen))
        evidence == 250 * Positive(down - 1) + 250 * Positive(idle - 1)
                        + (IF f.disclosed THEN 300 ELSE 0)
        cold == 300 + (400 * AtMost(evidence, 1000)) \div 1000
                    + (IF hist = <<>> THEN 0 ELSE 100)
    IN  Judge(raw, Trend(hist, Stored(raw)), <<48, 240, 720>>,
              AtMost(TrendConfidence(720, hist), 950), AtMost(cold, 750), DecantCause(f, pen), {},
              [inactive |-> f.inactive, idle |-> f.idle])

(* line_level_corroboration: flagged scanners and flagged stations at once. *)
LineTrouble(feats, alone) ==
    LET bad == {c \in DOMAIN feats : Flagged(alone[c].tier)}
    IN  IF {feats[c].entity : c \in bad} = {"scanner", "station"} THEN bad ELSE {}

DecantScore(feats, stored) ==
    LET alone == [c \in DOMAIN feats |->
            IF feats[c].entity = "station" THEN ScoreDecantStation(feats[c], History(stored, c))
            ELSE ScoreDecantScanner(feats[c], History(stored, c))]
        line  == LineTrouble(feats, alone)
    IN  [c \in DOMAIN feats |->
            IF c \in line THEN Also(alone[c], "corroboration") ELSE alone[c]]
=============================================================================
