------------------------------- MODULE MCFleet ------------------------------
(***************************************************************************)
(* Small plants for Fleet: up to three components per module, and frames    *)
(* that are calm, uneven without harm, or bad in the ways a module knows.   *)
(***************************************************************************)
EXTENDS Fleet, TLC

MCAisleOf ==
    [i \in {"l1", "l2", "l3", "s1", "s2", "s3", "g1", "g2", "g3", "p1", "b1", "b2",
             "aisle_01"} |-> "aisle_01"]
    @@ [i \in {"p2", "b3", "aisle_02"} |-> "aisle_02"]
    @@ [i \in {"z1", "z2", "z3", "c1", "c2", "x1", "x2", "x3", "gs1", "gs2", "gs3", "d1",
               "d2", "ds1", "ds2", System} |-> NoAisle]

(* Gates: all closed, one stuck and one unmapped, the whole aisle open. *)
GateShut == [gates |-> [g1 |-> 1, g2 |-> 1, g3 |-> 1], alerts |-> {}]
GateOpen == [gates |-> [g1 |-> 2, g2 |-> 1, g3 |-> 0], alerts |-> {[gate |-> "g1", minutes |-> 6]}]
GateAll  == [gates |-> [g1 |-> 2, g2 |-> 2, g3 |-> 3], alerts |-> {[gate |-> "g1", minutes |-> 40]}]

Errors(l, c, n) == [i \in 1..n |-> [lift |-> l, code |-> c, age |-> i]]
LiftCalm   == [errors |-> Errors("l1", 18, 1) \o Errors("l2", 18, 1) \o Errors("l3", 18, 1),
               bad |-> {}, days |-> 2]
LiftUneven == [LiftCalm EXCEPT !.errors = @ \o Errors("l1", 18, 3)]
LiftBad    == [errors |-> Errors("l1", 14, 8) \o Errors("l2", 4, 1)
                            \o <<[lift |-> "l3", code |-> 1, age |-> None]>>,
               bad |-> {[lift |-> "l1", error |-> TRUE]}, days |-> 2]

Faults(s, k, n) == [i \in 1..n |-> [shuttle |-> s, kind |-> k, age |-> i]]
Cycles(n) == [total |-> 300, reshuffled |-> n]
ShuttleCalm == [cycles |-> [s1 |-> Cycles(9), s2 |-> Cycles(6), s3 |-> Cycles(6)], errors |-> <<>>,
                daily |-> <<>>, alerts |-> {}, bad |-> {}, days |-> 2]
ShuttleUneven == [ShuttleCalm EXCEPT !.errors = Faults("s1", "PICK_ERROR", 1)]
ShuttleWorn == [ShuttleCalm EXCEPT !.errors = Faults("s1", "SERVO_DRIVE", 4),
                                   !.cycles.s1 = [total |-> 400, reshuffled |-> 15],
                                   !.daily = [s1 |-> 6], !.alerts = {"s2"},
                                   !.bad = {[shuttle |-> "s1", events |-> 3, error |-> TRUE]}]

Lost(p, age, s, e) == [place |-> p, age |-> age, shuttle |-> s, liftError |-> e]
TrackerNone == [rows |-> <<>>, days |-> 2]
TrackerOne  == [rows |-> <<Lost("p1", 9, "s1", FALSE), Lost("p2", 0, "", FALSE)>>, days |-> 2]
TrackerMany == [rows |-> <<Lost("p1", 0, "s1", FALSE), Lost("p1", 1, "s1", TRUE),
                           Lost("p1", 0, "s2", FALSE), Lost("p1", 8, "s1", FALSE),
                           Lost("p2", None, "s2", FALSE)>>, days |-> 2]

Zone(actual, buffer) == [actual |-> actual, limit |-> 40, buffer |-> buffer, bufferLimit |-> 20]
ConveyorCalm   == [zones |-> [z1 |-> <<Zone(14, 2)>>, z2 |-> <<Zone(12, 2)>>, z3 |-> <<Zone(12, 2)>>]]
ConveyorUneven == [zones |-> [z1 |-> <<Zone(36, 2)>>, z2 |-> <<Zone(12, 2)>>, z3 |-> <<Zone(14, 2)>>]]
ConveyorJam    == [zones |-> [z1 |-> <<Zone(80, 15), Zone(90, 12)>>, z2 |-> <<Zone(44, 2)>>,
                              z3 |-> <<Zone(0, 0), Zone(0, 0)>>]]

Block(s, t, age) == [slot |-> s, tote |-> t, age |-> age]
BinNone == [blocked |-> {}, past |-> <<>>]
BinOne  == [blocked |-> {Block("b1", "t1", 1), Block("b2", "t2", 2), Block("b3", "t3", -1)},
            past |-> [b3 |-> 1]]
BinOld  == [blocked |-> {Block("b1", "t1", 12), Block("b1", "t4", 3), Block("b2", "t2", 2)},
            past |-> [b1 |-> 20]]

NetworkCalm == [window |-> [s1 |-> 99000, s2 |-> 98900, s3 |-> 99000], today |-> <<>>]
NetworkUneven == [NetworkCalm EXCEPT !.window.s1 = 97000]
NetworkDown == [window |-> [s1 |-> 80000, s2 |-> 91000, s3 |-> 99000], today |-> [s1 |-> -500, s2 |-> 99000]]

ControllerCalm == [nodes |-> [c1 |-> [idle |-> 60000, sql |-> 20000],
                              c2 |-> [idle |-> 70000, sql |-> 9000]], idleColumn |-> TRUE]
ControllerBusy == [nodes |-> [c1 |-> [idle |-> 12000, sql |-> 80000],
                              c2 |-> [idle |-> 50000, sql |-> None]], idleColumn |-> TRUE]
ControllerFull == [nodes |-> [c1 |-> [idle |-> 30000, sql |-> 1000],
                              c2 |-> [idle |-> 22000, sql |-> 1000]], idleColumn |-> TRUE]

Scanner(n, kind, st) == [read |-> 1000 - n, noRead |-> n, subtype |-> kind, parent |-> st]
GtpTable(n, m) == [x1 |-> Scanner(n, "gtp_scanner", "gs1"), x2 |-> Scanner(m, "diverter", NoStation),
                   d1 |-> Scanner(n, "decant", NoStation), d2 |-> Scanner(m, "compaction", NoStation)]
GtpCalm   == [scanners |-> GtpTable(4, 2), roster |-> [gs1 |-> "Active", gs2 |-> "Active"],
              found |-> [gs1 |-> 10, gs2 |-> 10], days |-> 2]
GtpUneven == [GtpCalm EXCEPT !.scanners = GtpTable(9, 1),
                             !.found = [gs1 |-> 2, gs2 |-> 3, gs3 |-> 30]]
GtpOff    == [GtpCalm EXCEPT !.roster = [gs1 |-> "Inactive", gs2 |-> "Unknown"], !.found = <<>>]
GtpBad    == [GtpOff EXCEPT !.scanners = GtpTable(80, 20), !.found = [gs1 |-> 100, gs2 |-> 10]]

DecantCalm == [scanners |-> GtpTable(4, 2), roster |-> [ds1 |-> "Active", ds2 |-> "Active"],
               cartons |-> [ds1 |-> 40, ds2 |-> 40]]
DecantOff  == [DecantCalm EXCEPT !.roster.ds1 = "Inactive", !.cartons = <<>>]
DecantIdle == [DecantCalm EXCEPT !.scanners = GtpTable(80, 20), !.cartons.ds1 = 0, !.cartons.ds2 = 60]

MCReadings ==
    [ gate |-> {GateShut, GateOpen, GateAll},
      lift |-> {LiftCalm, LiftUneven, LiftBad},
      shuttle |-> {ShuttleCalm, ShuttleUneven, ShuttleWorn},
      tracker |-> {TrackerNone, TrackerOne, TrackerMany},
      conveyor |-> {ConveyorCalm, ConveyorUneven, ConveyorJam},
      bin_mech |-> {BinNone, BinOne, BinOld},
      network |-> {NetworkCalm, NetworkUneven, NetworkDown},
      controller |-> {ControllerCalm, ControllerBusy, ControllerFull},
      gtp_station |-> {GtpCalm, GtpUneven, GtpOff, GtpBad},
      decant_station |-> {DecantCalm, DecantOff, DecantIdle} ]
MCSettled ==
    [ gate |-> GateShut, lift |-> LiftCalm, shuttle |-> ShuttleCalm, tracker |-> TrackerNone,
      conveyor |-> ConveyorCalm, bin_mech |-> BinNone, network |-> NetworkCalm,
      controller |-> ControllerCalm, gtp_station |-> GtpCalm, decant_station |-> DecantCalm ]

(* One lift, one zone that gets worse while the others stay as they are: in   *)
(* LiftBad and ConveyorJam the others do too, and it stands out less.          *)
LiftWorse    == [LiftUneven EXCEPT !.errors = @ \o Errors("l1", 14, 8), !.bad = LiftBad.bad]
ConveyorFull == [ConveyorUneven EXCEPT !.zones.z1 = <<Zone(80, 15), Zone(90, 12)>>]

(* Each bundle is worse than the one before it for the component named. *)
Chain(m, id, bundles) ==
    {[module |-> m, id |-> id, better |-> bundles[i - 1], worse |-> bundles[i]] :
        i \in 2..Len(bundles)}

MCWorsenings ==
    UNION { Chain("gate", "g1", <<GateShut, GateOpen, GateAll>>),
            Chain("lift", "l1", <<LiftCalm, LiftUneven, LiftWorse>>),
            Chain("lift", "l1", <<LiftCalm, LiftBad>>),
            Chain("shuttle", "s1", <<ShuttleCalm, ShuttleUneven, ShuttleWorn>>),
            Chain("tracker", "p1", <<TrackerOne, TrackerMany>>),
            Chain("conveyor", "z1", <<ConveyorCalm, ConveyorUneven, ConveyorFull>>),
            Chain("conveyor", "z3", <<ConveyorCalm, ConveyorJam>>),
            Chain("bin_mech", "b1", <<BinOne, BinOld>>),
            Chain("network", "s1", <<NetworkCalm, NetworkUneven, NetworkDown>>),
            Chain("controller", "c1", <<ControllerCalm, ControllerFull, ControllerBusy>>),
            Chain("gtp_station", "x1", <<GtpCalm, GtpUneven, GtpBad>>),
            Chain("gtp_station", "gs1", <<GtpCalm, GtpOff, GtpBad>>),
            Chain("decant_station", "ds1", <<DecantCalm, DecantOff>>),
            Chain("decant_station", "ds1", <<DecantCalm, DecantIdle>>) }

(* Every module by itself, and the meta module over the areas it correlates. *)
MCPlants == {{m} : m \in Modules \ {"meta"}}
            \cup {{"network", "shuttle", "meta"}, {"controller", "meta"}}

(* For runs without end: a bad bundle or two per module, and the settled one. *)
RecoveryReadings ==
    [ gate |-> {GateShut, GateAll}, lift |-> {LiftCalm, LiftBad},
      shuttle |-> {ShuttleCalm, ShuttleWorn}, tracker |-> {TrackerNone, TrackerMany},
      conveyor |-> {ConveyorCalm, ConveyorJam}, bin_mech |-> {BinNone, BinOld},
      network |-> {NetworkCalm, NetworkDown},
      controller |-> {ControllerCalm, ControllerBusy},
      gtp_station |-> {GtpCalm, GtpOff, GtpBad},
      decant_station |-> {DecantCalm, DecantOff, DecantIdle} ]

RecoveryPlants == {{m} : m \in Modules \ {"meta", "tracker", "bin_mech", "lift", "conveyor"}}
                  \cup {{"network", "shuttle", "meta"}, {"controller", "meta"}}

BinPlants == {{"bin_mech"}}
GtpPlants == {{"gtp_station"}}

LongHistory  == [m \in Modules |-> 6]
ShortHistory ==
    [m \in Modules |-> CASE m = "shuttle" -> 1 [] m \in {"network", "meta"} -> 2 [] OTHER -> 3]
=============================================================================
