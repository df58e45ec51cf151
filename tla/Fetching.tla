------------------------------ MODULE Fetching ------------------------------
(***************************************************************************)
(* One request at work: the session in the browser, the panels that each   *)
(* module of the request downloads, and what a run keeps of them before it  *)
(* scores (core/grafana_auth.py, core/grafana_fetcher.py, fetch.py of the   *)
(* modules, core/runner.py: _persist_raw).  Grafana and the browser are     *)
(* external: any call to them may fail, and a download may be empty.        *)
(***************************************************************************)
EXTENDS Integers, Sequences, SequencesExt, FiniteSets

CONSTANTS
    Starts,         \* {[queue, env]}: the modules of a request, and the
                    \* <<module, url>> pairs that .env configures
    Zones           \* the zone panels of the conveyor

Names == {"gate", "lift", "shuttle", "tracker", "conveyor", "bin_mech", "controller",
          "network", "gtp_station", "decant_station", "meta"}

ASSUME FetchingAssumption ==
    /\ \A s \in Starts : s.queue \in Seq(Names)
    /\ Zones \in Seq(STRING) /\ Zones # <<>>
    /\ \A i, j \in DOMAIN Zones : Zones[i] = Zones[j] => i = j

Put(f, k, v) == [x \in DOMAIN f \cup {k} |-> IF x = k THEN v ELSE f[x]]

Attempts == 3       \* sweeps over the locators of the download button
Locators == 2

(* A panel that fetch asks for; NoFrame for a panel of which only the       *)
(* number of rows is used.  The url of some kinds has to be set; a failure of *)
(* the guarded ones is logged, and the fetch goes on.                         *)
NoFrame   == "none"
MustBeSet == {"needed", "zone"}
Guarded   == {"zone", "context"}

Panel(url, panel, frame, kind) == [url |-> url, panel |-> panel, frame |-> frame, kind |-> kind]

Needed(url, panel, frame)  == Panel(url, panel, frame, "needed")
Context(url, panel, frame) == Panel(url, panel, frame, "context")

GateSources ==
    << Needed("QUADRON_GATE_STATUS", "Gate_status", "gate_status"),
       Context("QUADRON_GATE_STATUS", "OPEN_REQUESTED", NoFrame),
       Context("QUADRON_ALERTS", "Quadron_Alerts", "alerts") >>

LiftSources ==
    << Needed("LIFT_ERROR_HISTORY", "Lift_Error_History", "errors"),
       Context("BAD_TRACKER_DIAGNOSIS", "Bad_Tracker", "bad_tracker"),
       Context("LIFT_ERROR_ANALYSIS", "Task_Count", "task_counts") >>

ShuttleSources ==
    << Needed("QUADRON_ERROR_HISTORY", "Shuttle_Errors", "errors"),
       Needed("QUADRON_CYCLES", "Shuttle_Cycles", "cycles"),
       Context("DAILY_SHUTTLE_ERRORS", "Daily_Shuttle_Errors", "daily"),
       Context("BAD_TRACKER_DIAGNOSIS", "Bad_Tracker", "bad_tracker"),
       Context("QUADRON_ALERTS", "Quadron_Alerts", "alerts") >>

(* Mutant: the count of totes is fetched without a guard. *)
TrackerSourcesStrict ==
    << Needed("BAD_TRACKER_DIAGNOSIS", "Bad_Tracker", "bad_tracker"),
       Needed("BAD_TRACKER_DIAGNOSIS", "Total_BT_Totes", NoFrame) >>

TrackerSources ==
    << Needed("BAD_TRACKER_DIAGNOSIS", "Bad_Tracker", "bad_tracker"),
       Context("BAD_TRACKER_DIAGNOSIS", "Total_BT_Totes", NoFrame) >>

(* A zone that cannot be fetched, or is empty, is left out. *)
ConveyorSources ==
    [i \in DOMAIN Zones |-> Panel("CONVEYOR_ZONE_COUNT", Zones[i], Zones[i], "zone")]
    \o << Context("GTP_HOLD_TRANSIT", "ON_HOLD", NoFrame), Context("GTP_HOLD_TRANSIT", "Transit", NoFrame) >>

BinSources ==
    << Needed("BIN_BLOCKED_TILTED", "Bin_Blocked_report", "blocked"),
       Context("BIN_BLOCK_HISTORY", "Block_History", "history") >>

ControllerSources == << Needed("CPU_STATS", "CPU_Utilisation", "cpu") >>

NetworkSources ==
    << Needed("QUADRON_NETWORK_STATUS", "status_specific_date", "windowed"),
       Context("QUADRON_NETWORK_STATUS", "shuttle_day_uptime", "today") >>

(* The scanners may be left out of .env, but not fail. *)
GtpSources ==
    << Panel("GTP_SCANNER_LOGS", "Read_No_read", "misread", "optional"),
       Context("GTP_SCANNER_LOGS", "Scanner_Hits", "hits"),
       Context("DISCREPANCY_REPORT_EVENTS", "Discrepancies", "discrepancy"),
       Context("GTP_STATIONS", "Station_Summary", "stations") >>

DecantSources ==
    << Panel("GTP_SCANNER_LOGS", "Read_No_read", "misread", "optional"),
       Context("DECANTING_STATION_REPORT", "Station_Report", "stations"),
       Context("STATIONWISE_DECANTED_CARTONS", "Decanted_Cartons", "cartons") >>

(* The meta module asks Grafana for nothing, but the store. *)
Sources(m) ==
    CASE m = "gate"           -> GateSources
      [] m = "lift"           -> LiftSources
      [] m = "shuttle"        -> ShuttleSources
      [] m = "tracker"        -> TrackerSources
      [] m = "conveyor"       -> ConveyorSources
      [] m = "bin_mech"       -> BinSources
      [] m = "controller"     -> ControllerSources
      [] m = "network"        -> NetworkSources
      [] m = "gtp_station"    -> GtpSources
      [] m = "decant_station" -> DecantSources
      [] m = "meta"           -> <<>>

(* What fetch asks of its frames before it returns them. *)
Enough(m, got) ==
    CASE m = "conveyor"   -> \E i \in DOMAIN Zones : Zones[i] \in DOMAIN got /\ got[Zones[i]] = "full"
      [] m = "controller" -> got["cpu"] = "full"
      [] m = "network"    -> got["windowed"] = "full"
      [] m \in {"gtp_station", "decant_station"} -> {"misread", "stations"} \cap DOMAIN got # {}
      [] OTHER            -> TRUE

-----------------------------------------------------------------------------
Opening == <<"playwright", "browser", "context">>
Closing == <<"http", "context", "browser", "playwright">>

VARIABLES
    env, queue,     \* what .env configures; the modules still to run
    at,             \* where the request is
    open, stuck,    \* the resources of the session, with "pages" that would
                    \* not close; those whose closer failed
    entered,        \* whether __enter__ returned
    page,           \* whether a page for a panel is at work
    step, tries,    \* the source at hand; the clicks tried for it
    frames, asked,  \* of the module at hand: frame -> "full" or "empty"; panels asked for
    raw, manifest,  \* <<module, frame>> written whole; module -> frames its manifest lists
    result          \* module -> [fetched, scored, frames, asked]

session == <<open, stuck, entered>>
work    == <<step, tries, frames, asked>>
kept    == <<raw, manifest>>
vars    == <<env, queue, at, session, page, work, kept, result>>

Module  == Head(queue)
Source  == Sources(Module)[step]
Set(url) == <<Module, url>> \in env

Init ==
    /\ \E s \in Starts : env = s.env /\ queue = s.queue
    /\ at = "start"
    /\ open = {} /\ stuck = {} /\ entered = FALSE
    /\ page = FALSE
    /\ step = 1 /\ tries = 0 /\ frames = <<>> /\ asked = {}
    /\ raw = {} /\ manifest = <<>>
    /\ result = <<>>

Goto(place) == at' = place

-----------------------------------------------------------------------------
(* The session *)

(* start: playwright, the browser and its context, one after the other. *)
OpenResource ==
    /\ at = "start"
    /\ \E i \in DOMAIN Opening :
        /\ Cardinality(open) = i - 1
        /\ open' = open \cup {Opening[i]}
        /\ Goto(IF i = Len(Opening) THEN "login" ELSE "start")
    /\ UNCHANGED <<env, queue, stuck, entered, page, work, kept, result>>

(* _login closes its page whatever happens; then the http client. *)
Login ==
    /\ at = "login"
    /\ open' = open \cup {"http"}
    /\ Goto("verify")
    /\ UNCHANGED <<env, queue, stuck, entered, page, work, kept, result>>

Verify ==
    /\ at = "verify"
    /\ entered' = TRUE
    /\ Goto("next")
    /\ UNCHANGED <<env, queue, open, stuck, page, work, kept, result>>

Failed(asks, got) == [fetched |-> FALSE, scored |-> FALSE, frames |-> got, asked |-> asks]

(* An exception out of __enter__: close is not called, and every module of   *)
(* the request is reported as failed.                                        *)
StartFails ==
    /\ at \in {"start", "login", "verify"}
    /\ result' = [m \in ToSet(queue) |-> Failed({}, <<>>)]
    /\ queue' = <<>>
    /\ Goto("done")
    /\ UNCHANGED <<env, session, page, work, kept>>

(* The resource whose closer is next. *)
ToClose(r) ==
    /\ r \in open \ stuck
    /\ \E i \in DOMAIN Closing :
        Closing[i] = r /\ \A j \in 1..i - 1 : Closing[j] \notin open \ stuck

(* The pages of a context go with it, or stay with it. *)
With(r) == IF r = "context" THEN {r} \cup (open \cap {"pages"}) ELSE {r}

(* Mutant: the first closer that fails ends the clean-up. *)
CloseGivesUp ==
    /\ at = "close"
    /\ \/ open \subseteq stuck /\ Goto("done") /\ UNCHANGED session
       \/ \E r \in open : /\ ToClose(r)
                           /\ \/ open' = open \ With(r) /\ UNCHANGED <<at, stuck>>
                              \/ stuck' = stuck \cup With(r) /\ Goto("done") /\ UNCHANGED open
                           /\ UNCHANGED entered
    /\ UNCHANGED <<env, queue, page, work, kept, result>>

(* close: every closer is tried. *)
Close ==
    /\ at = "close"
    /\ \/ open \subseteq stuck /\ Goto("done") /\ UNCHANGED session
       \/ \E r \in open : /\ ToClose(r)
                           /\ \/ open' = open \ With(r) /\ UNCHANGED stuck
                              \/ stuck' = stuck \cup With(r) /\ UNCHANGED open
                           /\ UNCHANGED <<at, entered>>
    /\ UNCHANGED <<env, queue, page, work, kept, result>>

-----------------------------------------------------------------------------
(* The fetch of a module *)

(* is_configured: any url at all, but two modules want one of two. *)
Configured(m) ==
    CASE m = "meta" -> TRUE
      [] m = "gtp_station" -> {<<m, "GTP_SCANNER_LOGS">>, <<m, "GTP_STATIONS">>} \cap env # {}
      [] m = "decant_station" ->
            {<<m, "GTP_SCANNER_LOGS">>, <<m, "DECANTING_STATION_REPORT">>} \cap env # {}
      [] OTHER -> \E i \in DOMAIN Sources(m) : <<m, Sources(m)[i].url>> \in env

Begin ==
    /\ at = "next"
    /\ queue # <<>>
    /\ step' = 1 /\ tries' = 0 /\ frames' = <<>> /\ asked' = {}
    /\ IF Configured(Module)
       THEN Goto("ask") /\ UNCHANGED <<queue, result>>
       ELSE /\ result' = Put(result, Module, Failed({}, <<>>))
            /\ queue' = Tail(queue)
            /\ UNCHANGED at
    /\ UNCHANGED <<env, session, page, kept>>

NoMoreModules ==
    /\ at = "next"
    /\ queue = <<>>
    /\ Goto("close")
    /\ UNCHANGED <<env, queue, session, page, work, kept, result>>

(* The run of the module ends as failed; the next one begins. *)
ModuleFails ==
    /\ result' = Put(result, Module, Failed(asked', frames))
    /\ queue' = Tail(queue)
    /\ Goto("next")

NextSource == step' = step + 1 /\ tries' = 0 /\ Goto("ask")

(* No source is left to ask, or it is the conveyor that got no zone at all. *)
Through ==
    \/ step > Len(Sources(Module))
    \/ Module = "conveyor" /\ step = Len(Zones) + 1 /\ ~Enough(Module, frames)

(* A source without a url is skipped, or fails the module. *)
SkipSource ==
    /\ at = "ask"
    /\ ~Through
    /\ ~Set(Source.url)
    /\ UNCHANGED asked
    /\ IF Source.kind \in MustBeSet THEN ModuleFails /\ UNCHANGED <<step, tries>>
       ELSE NextSource /\ UNCHANGED <<queue, result>>
    /\ UNCHANGED <<env, session, page, frames, kept>>

(* download_panel_csv: a page of its own, loaded up to the button. *)
OpenPage ==
    /\ at = "ask"
    /\ ~Through
    /\ Set(Source.url)
    /\ asked' = asked \cup {Source.panel}
    /\ page' = TRUE
    /\ Goto("click")
    /\ UNCHANGED <<env, queue, session, step, tries, frames, kept, result>>

(* Mutant: the sweeps are not counted. *)
ClickForever ==
    /\ at = "click"
    /\ tries' = (tries + 1) % (Attempts * Locators)
    /\ UNCHANGED <<env, queue, at, session, page, step, frames, asked, kept, result>>

(* _click_download: no button yet, or no download in time; the next locator, *)
(* and after the last one the next sweep.                                    *)
ClickAgain ==
    /\ at = "click"
    /\ tries < Attempts * Locators - 1
    /\ tries' = tries + 1
    /\ UNCHANGED <<env, queue, at, session, page, step, frames, asked, kept, result>>

(* The download arrives and is read; an empty file is an empty frame, but     *)
(* none of an empty zone of the conveyor.                                    *)
Download ==
    /\ at = "click"
    /\ page' = FALSE
    /\ \E content \in {"full", "empty"} :
        frames' = IF Source.frame = NoFrame \/ (Module = "conveyor" /\ content = "empty") THEN frames
                  ELSE Put(frames, Source.frame, content)
    /\ NextSource
    /\ UNCHANGED <<env, queue, session, asked, kept, result>>

(* Anything from the opening of the page to its closing may fail, the last   *)
(* click included; a page that would not close is left to its context.       *)
SourceFails ==
    /\ \/ at = "click"
       \/ at = "ask" /\ ~Through /\ Set(Source.url)
    /\ asked' = asked \cup {Source.panel}
    /\ page' = FALSE
    /\ open' \in {open, open \cup {"pages"}}
    /\ IF Source.kind \in Guarded THEN NextSource /\ UNCHANGED <<queue, result>>
       ELSE ModuleFails /\ UNCHANGED <<step, tries>>
    /\ UNCHANGED <<env, stuck, entered, frames, kept>>

FetchReturns ==
    /\ at = "ask"
    /\ Module # "meta"
    /\ Through
    /\ UNCHANGED asked
    /\ IF Enough(Module, frames)
       THEN Goto("raw") /\ UNCHANGED <<queue, result>>
       ELSE ModuleFails
    /\ UNCHANGED <<env, session, page, step, tries, frames, kept>>

(* The fetch of the meta module: latest_per returns rows, or raises. *)
ReadStore ==
    /\ at = "ask"
    /\ Module = "meta"
    /\ UNCHANGED asked
    /\ \/ /\ \E content \in {"full", "empty"} : frames' = Put(frames, "components", content)
          /\ Goto("raw")
          /\ UNCHANGED <<queue, result>>
       \/ ModuleFails /\ UNCHANGED frames
    /\ UNCHANGED <<env, session, page, step, tries, kept>>

-----------------------------------------------------------------------------
(* What the run keeps of the frames *)

(* Mutant: the manifest lists all frames. *)
ListedOf(written) == DOMAIN frames

(* The frames the manifest lists. *)
InManifest(written) == written

(* _persist_raw: each frame by itself, and a list has no to_csv; the           *)
(* manifest, last, may fail as well, or the directory first, or the capture   *)
(* is switched off.  One frame that fails stands for any number of them.     *)
PersistRaw ==
    LET whole == DOMAIN frames \ {"components"}
    IN
    /\ at = "raw"
    /\ \E written \in {{}, whole} \cup {whole \ {f} : f \in whole} :
        /\ raw' = raw \cup {<<Module, f>> : f \in written}
        /\ \/ UNCHANGED manifest
           \/ frames # <<>> /\ manifest' = Put(manifest, Module, InManifest(written))
    /\ Goto("score")
    /\ UNCHANGED <<env, queue, session, page, work, result>>

(* compute_features and score, which may raise. *)
Score ==
    /\ at = "score"
    /\ \E ok \in BOOLEAN :
        result' = Put(result, Module, [fetched |-> TRUE, scored |-> ok, frames |-> frames,
                                       asked |-> asked])
    /\ queue' = Tail(queue)
    /\ Goto("next")
    /\ UNCHANGED <<env, session, page, work, kept>>

Next ==
    \/ OpenResource \/ Login \/ Verify \/ StartFails \/ Close
    \/ Begin \/ NoMoreModules \/ SkipSource \/ OpenPage \/ ClickAgain \/ Download
    \/ SourceFails \/ FetchReturns \/ ReadStore \/ PersistRaw \/ Score

Spec == Init /\ [][Next]_vars

(* One thread works through the request, and each wait has a timeout. *)
FairSpec == Spec /\ WF_vars(Next)

-----------------------------------------------------------------------------
(* Properties *)

(* The resources are those of a session, results and queue make up the       *)
(* request, and a manifest lists only frames that were written whole.        *)
TypeOK ==
    /\ \E s \in Starts : env = s.env /\ DOMAIN result \cup ToSet(queue) = ToSet(s.queue)
    /\ open \subseteq ToSet(Closing) \cup {"pages"} /\ stuck \subseteq open
    /\ step \in Nat \ {0} /\ tries \in 0..Attempts * Locators
    /\ \A f \in DOMAIN frames : frames[f] \in {"full", "empty"}
    /\ \A m \in DOMAIN manifest : \A f \in manifest[m] : <<m, f>> \in raw

(* The frames that hold the components of a module; one is enough for those   *)
(* in the second set.                                                        *)
Primaries(m) ==
    CASE m = "gate"       -> {"gate_status"}
      [] m = "lift"       -> {"errors"}
      [] m = "shuttle"    -> {"errors", "cycles"}
      [] m = "tracker"    -> {"bad_tracker"}
      [] m = "conveyor"   -> ToSet(Zones)
      [] m = "bin_mech"   -> {"blocked"}
      [] m = "controller" -> {"cpu"}
      [] m = "network"    -> {"windowed"}
      [] m = "meta"       -> {"components"}
      [] OTHER            -> {"misread", "stations"}

AnyPrimary == {"conveyor", "gtp_station", "decant_station"}

(* A fetch is good only with the frames that hold the components, and fails   *)
(* only for the lack of one: no context panel ever takes a module down, and   *)
(* no verdict is made of context alone.                                      *)
OutcomeFollowsPrimaries ==
    entered => \A m \in DOMAIN result :
        LET there == Primaries(m) \cap DOMAIN result[m].frames
        IN  /\ result[m].fetched => IF m \in AnyPrimary THEN there # {} ELSE there = Primaries(m)
            /\ ~result[m].fetched =>
                    \E f \in Primaries(m) : f \in there => result[m].frames[f] = "empty"

(* Only one page is at work, and the session is closed after the request,    *)
(* also when closers fail: only what would not close, or what a start that   *)
(* failed had opened, stays; a page only with a context that would not close. *)
NothingLeftOpen ==
    /\ page => at = "click"
    /\ at = "done" /\ entered => open = stuck /\ ("pages" \in open => "context" \in open)

(* Every request ends: the downloads are tried a bounded number of times, and *)
(* no failure leaves the request waiting.                                    *)
EveryRequestEnds == <>(at = "done" /\ queue = <<>>)

(* modules/gtp_station/fetch.py:14-15: the two primaries are independent, a   *)
(* scanner-source failure still lets stations be scored.                     *)
PrimariesAreIndependent ==
    "gtp_station" \in DOMAIN result /\ entered =>
        (/\ ~result["gtp_station"].fetched
         /\ <<"gtp_station", "GTP_STATIONS">> \in env
         => "Station_Summary" \in result["gtp_station"].asked)
=============================================================================
