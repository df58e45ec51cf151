----------------------------- MODULE MCFetching -----------------------------
EXTENDS Fetching, TLC

(* Two zones, enough for one that fails beside one that does not. *)
MCZones == <<"z1", "z2">>

Singles == {"gate", "lift", "shuttle", "tracker", "conveyor", "bin_mech", "controller",
            "network", "gtp_station", "decant_station"}

Urls(m) == {<<m, Sources(m)[i].url>> : i \in DOMAIN Sources(m)}

(* Each module alone, with all its urls, all but one, or none; and three      *)
(* modules, the meta module last.                                            *)
MCStarts ==
    UNION {{[queue |-> <<m>>, env |-> e] : e \in {Urls(m), {}} \cup {Urls(m) \ {u} : u \in Urls(m)}} :
                m \in Singles}
    \cup {[queue |-> <<"controller", "tracker", "meta">>,
           env |-> Urls("controller") \cup Urls("tracker")]}

GtpStarts == {[queue |-> <<"gtp_station">>, env |-> Urls("gtp_station")]}
=============================================================================
