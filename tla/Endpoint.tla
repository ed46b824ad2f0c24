------------------------------- MODULE Endpoint -------------------------------
(***************************************************************************)
(* How data-svc finds the chart it reads: discover_cdp probes the port in  *)
(* the cache file and then the range, TabPin pins the chart tab it finds   *)
(* there, and a start that fails ends the process, which docker restarts.  *)
(* Composed with TradingView Desktop and the watchdog that repairs it.     *)
(* CDP_PORT is unset, as in .env.example.                                  *)
(***************************************************************************)
EXTENDS Watchdog, FiniteSetsExt

VARIABLES
    svc,       \* where data-svc is: "down", in its start, or in its "loop"
    at,        \* the port it is probing
    matches,   \* ports of the range that answered as TradingView
    file,      \* port in cdp-port.json; 0 when missing or unreadable
    endpoint,  \* the port it settled on; 0 for none
    pin,       \* its pinned tab: "none", "live", or "lost" for a tab that is gone
    outcome,   \* the last cycle: "none", "ok" or "error"
    seen       \* history: ports that answered its probes as TradingView in this start

start == <<at, matches, seen>>
service == <<svc, start, endpoint, outcome>>
everything == <<vars, service, file, pin>>

Outside == <<app, port, tab, asked, others, lock, runs, health, history>>

\* Something fails once: a request that times out, a crash, a restart by hand.
Glitch == Fault /\ UNCHANGED Outside

EndpointInit ==
    /\ WatchdogInit
    /\ svc = "down" /\ at = 1 /\ matches = {}
    /\ file \in {0} \cup Ports /\ endpoint = 0
    /\ pin = "none" /\ outcome = "none" /\ seen = {}

\* Mutant: a new process believes in the pin of the last one.
EndsKeepsPin ==
    /\ svc' = "down" /\ at' = 1 /\ matches' = {} /\ endpoint' = 0
    /\ outcome' = "none" /\ seen' = {}
    /\ UNCHANGED <<pin, file>>

\* The process exits: DiscoveryError, TabPinError, or from outside.
Ends ==
    /\ svc' = "down" /\ at' = 1 /\ matches' = {} /\ endpoint' = 0
    /\ pin' = "none" /\ outcome' = "none" /\ seen' = {}
    /\ UNCHANGED file

-----------------------------------------------------------------------------
(* discover_cdp *)

StartScan == svc' = "scan" /\ at' = 1 /\ UNCHANGED <<matches, endpoint>>

\* The start of the process, up to _read_cache.
Boot ==
    /\ svc = "down"
    /\ \/ file # 0 /\ svc' = "cached" /\ at' = file /\ UNCHANGED <<matches, endpoint>>
       \/ file = 0 /\ StartScan
    /\ UNCHANGED <<vars, file, pin, outcome, seen>>

\* _is_tv_endpoint: a page whose URL has "tradingview" in it.
IsTvEndpoint(p) == TvOn(p) \/ p \in decoys

\* The cached port is taken, or another is scanned, or all have been.
Settles(hit) ==
    /\ svc = "cached" /\ hit
    /\ svc' = "pin" /\ endpoint' = at /\ UNCHANGED <<at, matches>>
Scans(hit) ==
    /\ svc = "scan"
    /\ matches' = IF hit THEN matches \cup {at} ELSE matches
    /\ IF at < PortCount THEN at' = at + 1 /\ UNCHANGED svc
                         ELSE svc' = "choose" /\ at' = 1
    /\ UNCHANGED endpoint
Notes(hit) == seen' = IF hit THEN seen \cup {at} ELSE seen

\* Mutant: a cached port that no longer answers is probed again, for ever.
ProbedNoScan(hit) ==
    /\ \/ Settles(hit) \/ Scans(hit)
       \/ svc = "cached" /\ ~ hit /\ svc' = "down" /\ at' = 1 /\ UNCHANGED <<matches, endpoint>>
    /\ Notes(hit)

\* The answer to a probe: the fast path, or the next port of the scan.
Probed(hit) ==
    /\ Settles(hit) \/ Scans(hit) \/ (svc = "cached" /\ ~ hit /\ StartScan)
    /\ Notes(hit)

ProbePort == Probed(IsTvEndpoint(at)) /\ UNCHANGED <<vars, file, pin, outcome>>

ProbeTimesOut ==
    IsTvEndpoint(at) /\ Probed(FALSE) /\ Glitch /\ UNCHANGED <<file, pin, outcome>>

\* Mutant: the port in the file is taken without looking for it in the matches.
ChooseCached ==
    /\ svc = "choose"
    /\ \/ matches = {} /\ Ends
       \/ /\ matches # {}
          /\ svc' = "write"
          /\ endpoint' = IF file # 0 THEN file ELSE Min(matches)
          /\ UNCHANGED <<start, file, pin, outcome>>
    /\ UNCHANGED vars

\* The file is read again, and may have been written since.
Choose ==
    /\ svc = "choose"
    /\ \/ matches = {} /\ Ends
       \/ /\ matches # {}
          /\ svc' = "write"
          /\ endpoint' = IF file \in matches THEN file ELSE Min(matches)
          /\ UNCHANGED <<start, file, pin, outcome>>
    /\ UNCHANGED vars

\* _write_cache replaces the file in one step, or logs that it cannot.
WriteCache ==
    /\ svc = "write"
    /\ svc' = "pin" /\ matches' = {} /\ file' \in {file, endpoint}
    /\ UNCHANGED <<vars, at, seen, endpoint, pin, outcome>>

\* The Node mirror (patches/cdp_discover.js) of another process writes what it
\* found, or somebody removes the file.
MirrorWrites ==
    /\ file' \in ({0} \cup Ports) \ {file}
    /\ UNCHANGED <<vars, service, pin>>

-----------------------------------------------------------------------------
(* TabPin and the loop of main *)

\* TabPin.resolve wants a chart: the page of a decoy is none.
Resolve ==
    /\ svc = "pin"
    /\ \/ /\ TvOn(endpoint)
          /\ svc' = "loop" /\ pin' = "live" /\ at' = 1 /\ seen' = {}
          /\ UNCHANGED <<matches, file, endpoint, outcome>>
       \/ ~ TvOn(endpoint) /\ Ends
    /\ UNCHANGED vars

\* TabPin.activate: the pinned tab is listed on the endpoint.
CanActivate == pin = "live" /\ TvOn(endpoint)

\* One fetch on the slow path: main logs an error and goes on.
Cycle ==
    /\ svc = "loop"
    /\ outcome' = IF CanActivate THEN "ok" ELSE "error"
    /\ UNCHANGED <<vars, svc, start, endpoint, file, pin>>

CycleFails ==
    /\ svc = "loop" /\ outcome' = "error"
    /\ Glitch /\ UNCHANGED <<svc, start, endpoint, file, pin>>

Stops == svc # "down" /\ Ends /\ Glitch

SvcStep == Boot \/ ProbePort \/ Choose \/ WriteCache \/ Resolve \/ Cycle

\* A tab that is closed, or whose process exits, takes its target id with it.
TabsMove ==
    /\ WatchdogNext
    /\ pin' = IF pin = "live" /\ ~ (app' = "on" /\ tab' = "open") THEN "lost" ELSE pin
    /\ UNCHANGED <<service, file>>

EndpointNext ==
    SvcStep \/ ProbeTimesOut \/ CycleFails \/ Stops \/ MirrorWrites \/ TabsMove

\* docker restarts data-svc (restart: unless-stopped) and every wait in it has
\* a timeout.
EndpointSpec ==
    /\ EndpointInit /\ [][EndpointNext]_everything
    /\ WatchdogFairness
    /\ WF_everything(SvcStep)

-----------------------------------------------------------------------------
(* Properties *)

EndpointTypeOK ==
    /\ WatchdogTypeOK
    /\ svc \in {"down", "cached", "scan", "choose", "write", "pin", "loop"}
    /\ at \in Ports /\ matches \subseteq Ports
    /\ file \in {0} \cup Ports /\ endpoint \in {0} \cup Ports
    /\ (endpoint = 0) = (svc \in {"down", "cached", "scan", "choose"})
    /\ pin \in {"none", "live", "lost"} /\ (pin = "none") = (svc # "loop")
    /\ outcome \in {"none", "ok", "error"}
    /\ seen \subseteq Ports

\* data-svc never settles on a port that has not answered a probe of its own as
\* TradingView in this start, whatever a file that others rewrite says.
EndpointWasSeen == svc \in {"write", "pin"} => endpoint \in seen

\* After any regression the watchdog repairs TradingView and data-svc fetches
\* again by itself, unless its pinned tab is gone (it never pins another one),
\* another app shows a tradingview page on a scanned port, or TradingView stays
\* down for one of the reasons that Recovers names.
Reconnects ==
    <>[](\/ outcome = "ok" \/ pin = "lost" \/ decoys # {}
         \/ ~ TvHealthy /\ (ChartClosed \/ foreign # {}))

-----------------------------------------------------------------------------
(* The inductive invariant behind the theorems of DesktopProofs *)

\* The matches of a scan have answered in this start, and do not outlive it.
MatchesSeen ==
    /\ matches \subseteq seen
    /\ svc \in {"down", "cached", "pin", "loop"} => matches = {}

EndpointInv == EndpointTypeOK /\ MatchesSeen /\ EndpointWasSeen
=============================================================================
