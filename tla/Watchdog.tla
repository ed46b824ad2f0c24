------------------------------- MODULE Watchdog -------------------------------
(***************************************************************************)
(* ops/tv-watchdog/tv-watchdog.sh: one-shot runs that probe the CDP ports, *)
(* quit or kill a TradingView Desktop that exposes none, and relaunch it.  *)
(* launchd starts one run after another; the operator may start one beside *)
(* it.  Runs exclude each other by a lock directory with the owner's pid   *)
(* in it, which a run that is killed leaves behind.                        *)
(***************************************************************************)
EXTENDS TvDesktop

CONSTANTS
    Runs,          \* slots a run can be in: launchd's, and the operator's
    Agent,         \* the slot of launchd, which never runs two at a time
    MaxMishaps,    \* bound: runs killed, pids not written, runs too slow
    NoLock, NoPid, Dead

ASSUME WatchdogAssumption ==
    /\ Agent \in Runs /\ MaxMishaps \in Nat
    /\ {NoPid, Dead} \cap Runs = {} /\ NoPid # Dead

VARIABLES
    lock,      \* LOCK_DIR: NoLock, or its owner.pid and its age
    pc,        \* pc[w]: where the run in slot w is
    pos,       \* pos[w]: the port its scan has come to
    read,      \* read[w]: the age it has read of a lock it judges
    health,    \* history: TradingView since the run in a slot began to probe:
               \* "good" throughout, but "late" once in answering, or "bad"
    spoiled,   \* history: an owner may lose its lock (see LockExcludes)
    mishaps

runs == <<pc, pos, read>>
history == <<spoiled, mishaps>>
vars == <<desktop, lock, runs, health, history>>

\* Ages of the lock: below the pid grace of 2 s, below the maximum of 180 s,
\* above it.
New == 0
Old == 2
Ages == New..Old
Lock(owner) == [owner |-> owner, age |-> New]
Locks == [owner : Runs \cup {NoPid, Dead}, age : Ages]

ASSUME NoLockAssumption == NoLock \notin Locks

WatchdogInit ==
    /\ DesktopInit
    /\ lock = NoLock
    /\ pc = [w \in Runs |-> "off"] /\ pos = [w \in Runs |-> 1]
    /\ read = [w \in Runs |-> New]
    /\ health = [w \in Runs |-> "bad"] /\ spoiled = FALSE /\ mishaps = 0

Judging == {"stat", "pidfile", "alive", "remove"}
Scanning == {"probe", "warn", "tabs"}
Acting == {"quit", "wait", "term", "kill", "killed", "launch"}
Inside == {"writepid", "act", "verify"} \cup Scanning \cup Acting
Places == Inside \cup Judging \cup {"off", "mkdir", "dir", "again"}

Goto(w, next) ==
    /\ pc' = [pc EXCEPT ![w] = next]
    /\ pos' = [pos EXCEPT ![w] = 1] /\ read' = [read EXCEPT ![w] = New]

\* The EXIT trap removes the lock directory, whoever owns it by then.
Exit(w) == Goto(w, "off") /\ lock' = NoLock

Mishap == mishaps < MaxMishaps /\ mishaps' = mishaps + 1

-----------------------------------------------------------------------------
(* The lock *)

\* launchd starts a run every 300 s, long after the last one launched
\* TradingView; a run that meets it starting up, or one started by hand,
\* counts as a fault.
Settled == app = "off" \/ (app = "on" /\ tab # "restoring")
Start(w) ==
    /\ pc[w] = "off"
    /\ IF w = Agent /\ Settled THEN UNCHANGED faults ELSE Fault
    /\ Goto(w, "mkdir")
    /\ spoiled' = (spoiled /\ \E v \in Runs : pc[v] # "off")
    /\ UNCHANGED <<app, port, tab, asked, others, lock, mishaps>>

\* What a run has read of one lock may make it remove the next.
MisledBy(w) == pc[w] \in {"alive", "remove"} \/ (pc[w] = "pidfile" /\ read[w] # New)

\* acquire_lock: mkdir succeeds for one run only.
Mkdir(w) ==
    /\ pc[w] \in {"mkdir", "again"} /\ lock = NoLock
    /\ lock' = Lock(NoPid) /\ Goto(w, "writepid")
    /\ spoiled' = (spoiled \/ \E v \in Runs \ {w} : MisledBy(v))
    /\ UNCHANGED <<desktop, mishaps>>

\* The second mkdir is the last: no trap is set, and the run ends.
Taken(w) ==
    /\ lock # NoLock
    /\ \/ pc[w] = "mkdir" /\ Goto(w, "dir")
       \/ pc[w] = "again" /\ Goto(w, "off")
    /\ UNCHANGED <<desktop, lock, history>>

\* The pid goes into whatever directory is there (a new file makes it a new
\* directory to stat); a failure is ignored.
Named(w) == [owner |-> w, age |-> IF lock.owner = NoPid THEN New ELSE lock.age]
WritePid(w) ==
    /\ pc[w] = "writepid"
    /\ \/ lock' = (IF lock = NoLock THEN NoLock ELSE Named(w)) /\ UNCHANGED history
       \/ UNCHANGED lock /\ Mishap /\ spoiled' = TRUE
    /\ Goto(w, "probe")
    /\ UNCHANGED desktop

(* _reclaim_lock_if_stale reads the directory, its age, the pid file and the *)
(* owner one after the other, each from the lock that is there by then.      *)

Judges(w, next, age) ==
    /\ pc' = [pc EXCEPT ![w] = next] /\ read' = [read EXCEPT ![w] = age]
    /\ UNCHANGED <<pos, lock, desktop, history>>
Leaves(w) == Goto(w, "off") /\ UNCHANGED <<lock, desktop, history>>

\* _lock_age_s: a directory that is gone has age 0 ...
IsDir(w) ==
    /\ pc[w] = "dir"
    /\ Judges(w, IF lock = NoLock THEN "pidfile" ELSE "stat", New)

\* ... and mtime 0 when it goes just before stat.
Stat(w) ==
    /\ pc[w] = "stat"
    /\ Judges(w, "pidfile", IF lock = NoLock THEN Old ELSE lock.age)

HasPid == lock # NoLock /\ lock.owner # NoPid

\* Mutants: no grace for a lock without a pid; such a lock is never stale.
PidFileNoGrace(w) ==
    /\ pc[w] = "pidfile"
    /\ Judges(w, IF HasPid THEN "alive" ELSE "remove", read[w])
PidFileOnly(w) ==
    /\ pc[w] = "pidfile"
    /\ \/ HasPid /\ Judges(w, "alive", read[w])
       \/ ~ HasPid /\ Leaves(w)

\* An old enough lock without a pid is an orphan.
PidFile(w) ==
    /\ pc[w] = "pidfile"
    /\ \/ HasPid /\ Judges(w, "alive", read[w])
       \/ ~ HasPid /\ read[w] = New /\ Leaves(w)
       \/ ~ HasPid /\ read[w] # New /\ Judges(w, "remove", New)

\* _lock_owner_alive: what kill -0 of the pid may say, read as one step; the
\* pid of a dead owner may have been taken by another process.
OwnerAlive == CASE ~ HasPid -> {FALSE}
                [] HasPid /\ lock.owner = Dead -> BOOLEAN
                [] OTHER -> {TRUE}

\* A dead owner, or a lock above the maximum age.
Alive(w) ==
    /\ pc[w] = "alive"
    /\ \E alive \in OwnerAlive :
        IF alive /\ read[w] # Old THEN Leaves(w) ELSE Judges(w, "remove", New)

\* rm -rf, of the directory that is there now.
Remove(w) ==
    /\ pc[w] = "remove"
    /\ lock' = NoLock
    /\ Goto(w, "again")
    /\ UNCHANGED <<desktop, history>>

\* Time passes.  A run writes its pid within the grace and ends within the
\* maximum, or something went wrong with it.
LockAges ==
    /\ lock # NoLock /\ lock.age < Old
    /\ lock' = [lock EXCEPT !.age = @ + 1]
    /\ lock.age = New => \A w \in Runs : pc[w] # "writepid"
    /\ IF lock.age # New /\ lock.owner \in Runs
       THEN Mishap /\ spoiled' = TRUE ELSE UNCHANGED <<spoiled, mishaps>>
    /\ UNCHANGED <<desktop, runs>>

\* SIGKILL: no trap runs.
Killed(w) ==
    /\ pc[w] # "off" /\ Mishap
    /\ Goto(w, "off")
    /\ lock' = IF lock # NoLock /\ lock.owner = w THEN [lock EXCEPT !.owner = Dead] ELSE lock
    /\ UNCHANGED <<desktop, spoiled>>

-----------------------------------------------------------------------------
(* main *)

\* /json/version answers and /json/list mentions tradingview.
HealthyOn(p) == TvOn(p) \/ p \in decoys

\* Mutants: the scan runs past the end of the range; it ends after one port.
NextPortPast(w, scan, after) ==
    LET more == pos[w] <= PortCount
    IN /\ pc' = [pc EXCEPT ![w] = IF more THEN scan ELSE after]
       /\ pos' = [pos EXCEPT ![w] = IF more THEN @ + 1 ELSE 1]
       /\ UNCHANGED <<read, lock>>
NextPortFirstOnly(w, scan, after) == Goto(w, after) /\ UNCHANGED lock

NextPort(w, scan, after) ==
    LET more == pos[w] < PortCount
    IN /\ pc' = [pc EXCEPT ![w] = IF more THEN scan ELSE after]
       /\ pos' = [pos EXCEPT ![w] = IF more THEN @ + 1 ELSE 1]
       /\ UNCHANGED <<read, lock>>

\* healthy_port: the first healthy port ends the run.
Probe(w) ==
    /\ pc[w] = "probe"
    /\ IF HealthyOn(pos[w]) THEN Exit(w) ELSE NextPort(w, "probe", "warn")
    /\ UNCHANGED <<desktop, history>>

\* curl gives up after TV_PROBE_TIMEOUT_S: "000", or an empty body.
TimesOut == Fault /\ UNCHANGED <<app, port, tab, asked, others, history>>

ProbeLate(w) ==
    /\ pc[w] = "probe" /\ HealthyOn(pos[w])
    /\ NextPort(w, "probe", "warn")
    /\ TimesOut

\* any_cdp_with_no_tab: /json/version of a port, and if it answers ...
Warn(w) ==
    /\ pc[w] = "warn"
    /\ IF CdpUp(pos[w])
       THEN /\ pc' = [pc EXCEPT ![w] = "tabs"] /\ UNCHANGED <<pos, read, lock>>
       ELSE NextPort(w, "warn", "act")
    /\ UNCHANGED <<desktop, history>>

WarnLate(w) ==
    /\ pc[w] = "warn" /\ CdpUp(pos[w])
    /\ NextPort(w, "warn", "act")
    /\ TimesOut

\* ... its /json/list: a port with a chart is passed over, the first one
\* without ends the run.
Tabs(w) ==
    /\ pc[w] = "tabs"
    /\ IF HealthyOn(pos[w]) THEN NextPort(w, "warn", "act") ELSE Exit(w)
    /\ UNCHANGED <<desktop, history>>

TabsLate(w) ==
    /\ pc[w] = "tabs" /\ HealthyOn(pos[w])
    /\ Exit(w)
    /\ TimesOut

Act(w) ==
    /\ pc[w] = "act"
    /\ Goto(w, IF app = "off" THEN "launch" ELSE "quit")
    /\ UNCHANGED <<desktop, lock, history>>

\* graceful_quit: TradingView is asked to quit, or osascript is refused.
Quit(w) ==
    /\ pc[w] = "quit"
    /\ \/ asked' = (app # "off") /\ Goto(w, "wait")
       \/ UNCHANGED asked /\ Goto(w, "term")
    /\ UNCHANGED <<app, port, tab, others, faults, lock, history>>

\* Mutant: a quit that times out ends the run.
WaitGivesUp(w) ==
    /\ pc[w] = "wait"
    /\ IF app = "off" THEN Goto(w, "launch") /\ UNCHANGED lock ELSE Exit(w)
    /\ UNCHANGED <<desktop, history>>

\* wait_for_exit, up to TV_QUIT_TIMEOUT_S.
Wait(w) ==
    /\ pc[w] = "wait"
    /\ Goto(w, IF app = "off" THEN "launch" ELSE "term")
    /\ UNCHANGED <<desktop, lock, history>>

\* force_kill: SIGTERM to the main process, if there still is one.
Term(w) ==
    /\ pc[w] = "term"
    /\ IF app = "off"
       THEN Goto(w, "launch") /\ UNCHANGED asked
       ELSE Goto(w, "kill") /\ asked' = TRUE
    /\ UNCHANGED <<app, port, tab, others, faults, lock, history>>

\* It waits again, and sends SIGKILL.
Kill(w) ==
    /\ pc[w] = "kill"
    /\ IF app = "off"
       THEN Goto(w, "launch") /\ UNCHANGED desktop
       ELSE Goto(w, "killed") /\ Gone /\ UNCHANGED <<others, faults>>
    /\ UNCHANGED <<lock, history>>

\* The signal does not reach it (another process than the one it was sent
\* to, or one that cannot be killed).
KillFails(w) ==
    /\ pc[w] = "kill" /\ app # "off"
    /\ Goto(w, "killed")
    /\ UNCHANGED <<desktop, lock, history>>

Aborts(w) ==
    /\ pc[w] = "killed" /\ app # "off"
    /\ Exit(w)
    /\ UNCHANGED <<desktop, history>>

KillDone(w) ==
    /\ pc[w] = "killed" /\ app = "off"
    /\ Goto(w, "launch")
    /\ UNCHANGED <<desktop, lock, history>>

\* launch_tv; an app that runs again by now ignores the flag.
Launch(w) ==
    /\ pc[w] = "launch"
    /\ Opened(Canonical)
    /\ Goto(w, "verify")
    /\ UNCHANGED <<tab, asked, others, faults, lock, history>>

LaunchFails(w) ==
    /\ pc[w] = "launch"
    /\ Exit(w)
    /\ UNCHANGED <<desktop, history>>

\* verify_cdp_recovered: answered or timed out, the run ends.
Verify(w) ==
    /\ pc[w] = "verify"
    /\ Exit(w)
    /\ UNCHANGED <<desktop, history>>

-----------------------------------------------------------------------------
RunStep(w) ==
    \/ Mkdir(w) \/ Taken(w) \/ WritePid(w)
    \/ IsDir(w) \/ Stat(w) \/ PidFile(w) \/ Alive(w) \/ Remove(w)
    \/ Probe(w) \/ ProbeLate(w) \/ Warn(w) \/ WarnLate(w)
    \/ Tabs(w) \/ TabsLate(w) \/ Act(w) \/ Quit(w) \/ Wait(w)
    \/ Term(w) \/ Kill(w) \/ KillFails(w) \/ KillDone(w) \/ Aborts(w)
    \/ Launch(w) \/ LaunchFails(w) \/ Verify(w)

WatchdogStep ==
    \/ DesktopStep /\ UNCHANGED <<lock, runs, history>>
    \/ \E w \in Runs : Start(w) \/ RunStep(w) \/ Killed(w)
    \/ LockAges

\* What TradingView was like since each run began to probe.
PassesTv(w) == pc[w] = "probe" /\ TvOn(pos[w]) /\ <<pc[w], pos[w]>>' # <<pc[w], pos[w]>>
Watch ==
    health' = [w \in Runs |->
                IF pc'[w] \notin Inside \/ ~ TvHealthy' THEN "bad"
                ELSE IF pc[w] = "writepid" THEN "good"
                ELSE IF health[w] = "good" /\ PassesTv(w) THEN "late" ELSE health[w]]

WatchdogNext == WatchdogStep /\ Watch

WatchdogSpec == WatchdogInit /\ [][WatchdogNext]_vars

\* launchd keeps starting runs, every wait of a run has a timeout, and time
\* passes.  TradingView comes up and restores its workspace; neither kill nor
\* open fails for ever.
Fair(A) == A /\ Watch
Alone(A) == Fair(A /\ UNCHANGED <<lock, runs, history>>)
WatchdogFairness ==
    /\ WF_vars(Fair(Start(Agent)))
    /\ \A w \in Runs : WF_vars(Fair(RunStep(w)))
    /\ \A w \in Runs : SF_vars(Fair(Kill(w))) /\ SF_vars(Fair(Launch(w)))
    /\ WF_vars(Fair(LockAges))
    /\ WF_vars(Alone(Ready)) /\ WF_vars(Alone(RestoresTab))

WatchdogFairSpec == WatchdogSpec /\ WatchdogFairness

-----------------------------------------------------------------------------
(* Properties *)

WatchdogTypeOK ==
    /\ DesktopTypeOK
    /\ lock \in Locks \cup {NoLock}
    /\ pc \in [Runs -> Places] /\ pos \in [Runs -> Ports] /\ read \in [Runs -> Ages]
    /\ health \in [Runs -> {"good", "late", "bad"}]
    /\ spoiled \in BOOLEAN /\ mishaps \in 0..MaxMishaps

\* Two runs never act on TradingView at the same time, wherever runs are killed
\* and their locks reclaimed, and although a run may find the lock between its
\* mkdir and the pid, or read its age, pid and owner while the owner leaves.
\* Three things spoil that: a run that cannot write its pid, one that outlasts
\* the 180 s, and one that makes a lock while another is misled by the last.
InsideRuns == {w \in Runs : pc[w] \in Inside}
LockExcludes == ~ spoiled => Cardinality(InsideRuns) <= 1

\* A run that quits or kills TradingView has seen it unhealthy, on every port,
\* at some moment since it began to probe, or has got its answer too late.
HealthyLeftAlone == \A w \in Runs : pc[w] \in Acting => health[w] # "good"

\* No lock, whatever its owner died of, disables the watchdog for ever.
LockIsFreed == []<>(lock = NoLock)

\* TradingView comes back with CDP and a chart after any regression, unless
\* the operator closed the chart or another app answers on a scanned port.
ChartClosed == app = "on" /\ port # 0 /\ tab = "closed"
Recovers == <>[](TvHealthy \/ ChartClosed \/ foreign # {})

\* The design document, line 35: TradingView exposes CDP again on some port
\* of the range, without a human, after any regression.
RecoversAlways == <>[](TvHealthy \/ ChartClosed)

-----------------------------------------------------------------------------
(* The inductive invariants behind the theorems of DesktopProofs *)

\* Between mkdir and the pid the lock has no owner, and is too young to be
\* taken for an orphan; from then on it names the run that holds it.
Holds(w) ==
    /\ lock # NoLock
    /\ IF pc[w] = "writepid" THEN lock.owner = NoPid /\ lock.age = New
                             ELSE lock.owner = w /\ lock.age # Old

\* A run that judges the lock of v can still come to no other end than to
\* leave it alone: what it has read is no older than the lock is now.
Spares(w, v) ==
    /\ pc[w] # "remove"
    /\ pc[w] = "pidfile" => read[w] # Old /\ (pc[v] = "writepid" => read[w] = New)
    /\ pc[w] = "alive" => read[w] # Old /\ pc[v] # "writepid"

\* Unless the lock is spoiled, a run inside holds it and is the only one, and
\* no other is about to remove it.
LockInv ==
    ~ spoiled =>
        /\ \A v \in Runs : pc[v] \in Inside => Holds(v)
        /\ \A v, w \in Runs : pc[v] \in Inside /\ pc[w] \in Inside => v = w
        /\ \A v, w \in Runs : pc[v] \in Inside => Spares(w, v)

\* A run during which TradingView was always healthy, and answered in time, has
\* not scanned past its port.
CleanInv ==
    \A w \in Runs : health[w] = "good" =>
        /\ TvHealthy
        /\ pc[w] = "writepid" \/ (pc[w] = "probe" /\ pos[w] <= port)

WatchdogInv == WatchdogTypeOK /\ LockInv /\ CleanInv
=============================================================================
