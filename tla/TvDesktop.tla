------------------------------ MODULE TvDesktop ------------------------------
(***************************************************************************)
(* TradingView Desktop and the CDP ports of its host, as the watchdog and  *)
(* data-svc see them: the app may be started with or without the debugging *)
(* flag, exit, lose its endpoint, or show no chart; other Chromium apps may*)
(* hold ports of the scanned range.  None of this is code of the           *)
(* repository.                                                             *)
(***************************************************************************)
EXTENDS Naturals, FiniteSets

CONSTANTS
    PortCount,   \* TV_CDP_PORT_RANGE is 1..PortCount
    Canonical,   \* TV_CDP_PORT
    MaxFaults    \* bound: things that go wrong on the desktop

ASSUME DesktopAssumption ==
    PortCount \in Nat \ {0} /\ Canonical \in 1..PortCount /\ MaxFaults \in Nat

VARIABLES
    app,       \* "off", "starting" or "on"
    port,      \* port it was told to open, then the one it has; 0 for none
    tab,       \* its chart: "restoring", "open" or "closed"
    asked,     \* it has been asked to quit
    foreign,   \* ports on which another app answers CDP
    decoys,    \* those of them whose app shows a page of tradingview.com, no chart
    faults

others == <<foreign, decoys>>
desktop == <<app, port, tab, asked, others, faults>>

Ports == 1..PortCount

DesktopInit ==
    /\ app \in {"off", "on"} /\ port \in {0} \cup Ports /\ (app = "off" => port = 0)
    /\ tab = IF app = "on" THEN "open" ELSE "restoring"
    /\ asked = FALSE /\ foreign = {} /\ decoys = {} /\ faults = 0

CdpUp(p) == (app = "on" /\ port = p) \/ p \in foreign
TvOn(p) == app = "on" /\ port = p /\ tab = "open"
TvHealthy == \E p \in Ports : TvOn(p)

Fault == faults < MaxFaults /\ faults' = faults + 1

\* The process is gone; a new one would restore its workspace.
Gone == app' = "off" /\ port' = 0 /\ tab' = "restoring" /\ asked' = FALSE

\* `open --args` and the Dock: the flag only reaches a new process.
Opened(p) ==
    /\ app' = IF app = "off" THEN "starting" ELSE app
    /\ port' = IF app = "off" THEN p ELSE port

\* The operator starts it, with the flag for port p or (0) without.
OpenedByHand ==
    /\ app = "off" /\ Fault
    /\ \E p \in {0} \cup Ports : Opened(p)
    /\ UNCHANGED <<tab, asked, others>>

\* It is up; a port somebody else holds is not available to it.
Ready ==
    /\ app = "starting"
    /\ app' = "on"
    /\ port' \in IF port \in foreign THEN {0} \cup (Ports \ foreign) ELSE {port}
    /\ UNCHANGED <<tab, asked, others, faults>>

RestoresTab ==
    /\ app = "on" /\ tab = "restoring"
    /\ tab' = "open"
    /\ UNCHANGED <<app, port, asked, others, faults>>

\* The operator closes the chart and may open one again.
ClosesTab ==
    /\ app = "on" /\ tab = "open" /\ Fault
    /\ tab' = "closed"
    /\ UNCHANGED <<app, port, asked, others>>

OpensTab ==
    /\ app = "on" /\ tab = "closed"
    /\ tab' = "open"
    /\ UNCHANGED <<app, port, asked, others, faults>>

\* It quits as it was asked to, or on its own.
Exits ==
    /\ app # "off"
    /\ IF asked THEN UNCHANGED faults ELSE Fault
    /\ Gone /\ UNCHANGED others

\* The process lives but its endpoint no longer answers.
LosesCdp ==
    /\ app = "on" /\ port # 0 /\ Fault
    /\ port' = 0
    /\ UNCHANGED <<app, tab, asked, others>>

ForeignStarts ==
    /\ Fault
    /\ \E p \in Ports \ foreign :
        /\ ~ CdpUp(p) /\ foreign' = foreign \cup {p}
        /\ decoys' \in {decoys, decoys \cup {p}}
    /\ UNCHANGED <<app, port, tab, asked>>

ForeignStops ==
    /\ \E p \in foreign : foreign' = foreign \ {p} /\ decoys' = decoys \ {p}
    /\ UNCHANGED <<app, port, tab, asked, faults>>

DesktopStep ==
    \/ OpenedByHand \/ Ready \/ RestoresTab \/ ClosesTab \/ OpensTab
    \/ Exits \/ LosesCdp \/ ForeignStarts \/ ForeignStops

DesktopTypeOK ==
    /\ app \in {"off", "starting", "on"} /\ port \in {0} \cup Ports
    /\ tab \in {"restoring", "open", "closed"} /\ asked \in BOOLEAN
    /\ decoys \subseteq foreign /\ foreign \subseteq Ports /\ faults \in 0..MaxFaults
=============================================================================
