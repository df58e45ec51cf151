------------------------------ MODULE Scanners ------------------------------
(***************************************************************************)
(* The scan devices, scored alike by the GTP and the decant module: the     *)
(* share of scans that read nothing.  A table of devices is                 *)
(*   device -> [read, noRead, subtype, parent], parent NoStation for a      *)
(*   device whose name names no pick station                                *)
(***************************************************************************)
EXTENDS Health

NoStation == "none"

ScannerTable(table) ==
    /\ IsFiniteSet(DOMAIN table)
    /\ \A d \in DOMAIN table : table[d].read \in Nat /\ table[d].noRead \in Nat

(* owned: the subtypes of the module that scores them. *)
ScannerFeatures(table, owned) ==
    LET mine     == {d \in DOMAIN table : table[d].subtype \in owned}
        total(d) == table[d].read + table[d].noRead
        misread(d) == IF total(d) = 0 THEN 0
                      ELSE Rounded(100000 * table[d].noRead, total(d))
        pool     == [d \in {e \in mine : total(e) >= 200} |-> misread(d)]
    IN  [d \in mine |->
           [ entity  |-> "scanner",
             scans   |-> total(d),
             misread |-> misread(d),
             z       |-> RobustZ(misread(d), pool),
             parent  |-> table[d].parent ]]

(* The features of a module: a station takes the place of a device of its name. *)
Together(devices, stations) ==
    [c \in DOMAIN devices \cup DOMAIN stations |->
        IF c \in DOMAIN stations THEN stations[c] ELSE devices[c]]

(* minScans: the scans a stored run needs to count as a recurrence. *)
ScannerPenalties(f, hist, minScans) ==
    LET again == Cardinality({i \in DOMAIN hist : hist[i].facts.misread >= 2000
                                                  /\ hist[i].facts.scans >= minScans})
        trusted(x) == (x * AtMost(f.scans, 200)) \div 200
    IN  << <<"misread",    trusted(Capped(30 * f.misread, 75))>>,
           <<"peer_z",     Capped(IF f.scans >= 200 /\ f.misread >= 1000 THEN 40 * f.z ELSE 0, 16)>>,
           <<"recurrence", Capped(6 * U * again, 30)>> >>

ScannerNoBetter(f, g) ==
    /\ NoLower(f, g, [scans |-> 0, misread |-> 0])
    /\ f.scans >= 200 /\ f.misread >= 1000 => NoLower(f, g, [z |-> 0])

MaterialCause(pen) ==
    LET top == TopFactor(pen, Material)
    IN  IF top = "none" THEN "healthy" ELSE top

ScoreScanner(f, hist, minScans, cross) ==
    LET pen  == ScannerPenalties(f, hist, minScans)
        raw  == ScoreOf(Total(pen))
        cold == 400 + 2 * AtMost(f.scans, 200) + (IF hist = <<>> THEN 0 ELSE 100)
    IN  Judge(raw, Trend(hist, Stored(raw)), <<48, 240, 720>>, TrendConfidence(720, hist),
              AtMost(cold, 900), MaterialCause(pen), cross,
              [misread |-> f.misread, scans |-> f.scans])

(* Runs in a row, this one included, with a flag set: now, and in the rows. *)
InARow(now, before) ==
    IF ~now THEN 0
    ELSE Min({i \in DOMAIN before : ~before[i]} \cup {Len(before) + 1})

Also(verdict, flag) == [verdict EXCEPT !.cross = @ \cup {flag}]
=============================================================================
