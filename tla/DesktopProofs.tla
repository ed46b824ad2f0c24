---------------------------- MODULE DesktopProofs ----------------------------
(***************************************************************************)
(* Theorems about the watchdog and about data-svc finding its endpoint, for*)
(* every port range, every number of runs and every number of faults: when *)
(* the lock excludes, when a healthy TradingView is left alone (Watchdog), *)
(* and that data-svc trusts only what has answered it (Endpoint).          *)
(***************************************************************************)
EXTENDS Endpoint, SetLemmas

-----------------------------------------------------------------------------
(* Types *)

LEMMA LockTypes ==
    /\ \A o \in Runs \cup {NoPid, Dead} : Lock(o) \in Locks
    /\ \A o \in Runs \cup {NoPid, Dead} : Lock(o) # NoLock
    /\ \A k \in Locks, o \in Runs \cup {NoPid, Dead} : [k EXCEPT !.owner = o] \in Locks
    /\ \A k \in Locks : k # NoLock /\ k.age \in 0..2
  BY NoLockAssumption DEF Locks, Lock, Ages, New, Old

\* What a step of TradingView, its operator or another app may do.
LEMMA DesktopType == DesktopTypeOK /\ DesktopStep => DesktopTypeOK'
<1> SUFFICES ASSUME DesktopTypeOK, DesktopStep PROVE DesktopTypeOK'
  OBVIOUS
<1> USE DesktopAssumption
    DEF DesktopAssumption, DesktopTypeOK, others, Fault, Ports
<1>1. CASE OpenedByHand
  BY <1>1 DEF OpenedByHand, Opened
<1>2. CASE Ready
  BY <1>2 DEF Ready
<1>3. CASE RestoresTab
  BY <1>3 DEF RestoresTab
<1>4. CASE Exits
  <2>1. faults' \in 0..MaxFaults
    BY <1>4 DEF Exits
  <2>2. app' = "off" /\ port' = 0 /\ tab' = "restoring" /\ asked' = FALSE
        /\ UNCHANGED <<foreign, decoys>>
    BY <1>4 DEF Exits, Gone
  <2> QED
    BY <2>1, <2>2
<1>5. CASE LosesCdp
  BY <1>5 DEF LosesCdp
<1>6. CASE ForeignStarts
  BY <1>6 DEF ForeignStarts
<1>7. CASE ForeignStops
  BY <1>7 DEF ForeignStops
<1>8. CASE ClosesTab
  BY <1>8 DEF ClosesTab
<1>9. CASE OpensTab
  BY <1>9 DEF OpensTab
<1> QED
  BY <1>1, <1>2, <1>3, <1>4, <1>5, <1>6, <1>7, <1>8, <1>9 DEF DesktopStep

\* One run goes to another place of the script.
Moves(w, next) ==
    /\ pc' \in [Runs -> Places] /\ pos' \in [Runs -> Ports] /\ read' \in [Runs -> Ages]
    /\ pc'[w] = next
    /\ \A v \in Runs \ {w} : pc'[v] = pc[v] /\ pos'[v] = pos[v] /\ read'[v] = read[v]

LEMMA GotoType ==
    ASSUME WatchdogTypeOK, NEW w \in Runs, NEW next \in Places, Goto(w, next)
    PROVE  Moves(w, next)
  BY DesktopAssumption
  DEF WatchdogTypeOK, Goto, Moves, Ports, Ages, New, Old, DesktopAssumption

LEMMA JudgesType ==
    ASSUME WatchdogTypeOK, NEW w \in Runs, NEW next \in Places, NEW age \in Ages,
           Judges(w, next, age)
    PROVE  Moves(w, next) /\ read'[w] = age /\ UNCHANGED <<lock, desktop, history>>
  BY DEF WatchdogTypeOK, Judges, Moves

LEMMA NextPortType ==
    ASSUME WatchdogTypeOK, NEW w \in Runs, NEW scan \in Places, NEW after \in Places,
           NextPort(w, scan, after)
    PROVE  /\ Moves(w, IF pos[w] < PortCount THEN scan ELSE after)
           /\ pos[w] < PortCount => pos'[w] = pos[w] + 1
           /\ lock' = lock
<1>1. CASE pos[w] < PortCount
  BY <1>1, DesktopAssumption
  DEF WatchdogTypeOK, NextPort, Moves, Ports, DesktopAssumption
<1>2. CASE ~ (pos[w] < PortCount)
  BY <1>2, DesktopAssumption
  DEF WatchdogTypeOK, NextPort, Moves, Ports, DesktopAssumption
<1> QED
  BY <1>1, <1>2

\* The places are all different, and those of a judgement are outside.
LEMMA PlaceFacts ==
    /\ {"off", "mkdir", "dir", "again"} \subseteq Places \ (Inside \cup Judging)
    /\ Judging = {"stat", "pidfile", "alive", "remove"} /\ Judging \subseteq Places \ Inside
    /\ Inside \subseteq Places
    /\ {"writepid", "probe", "warn", "tabs", "act", "quit", "wait", "term", "kill",
        "killed", "launch", "verify"} \subseteq Inside
  BY DEF Places, Inside, Judging, Scanning, Acting

\* Everything but the history variable health.
CoreType ==
    /\ DesktopTypeOK
    /\ lock \in Locks \cup {NoLock}
    /\ pc \in [Runs -> Places] /\ pos \in [Runs -> Ports] /\ read \in [Runs -> Ages]
    /\ spoiled \in BOOLEAN /\ mishaps \in 0..MaxMishaps

LEMMA MishapType ==
    ASSUME WatchdogTypeOK, Mishap PROVE mishaps' \in 0..MaxMishaps
  BY WatchdogAssumption DEF WatchdogTypeOK, Mishap, WatchdogAssumption

\* The steps in which a run reads a lock that it judges.
JudgeStep(w) == IsDir(w) \/ Stat(w) \/ PidFile(w) \/ Alive(w)

\* It goes on with what it has read, or leaves; it changes nothing.
LEMMA JudgeMoves ==
    ASSUME WatchdogTypeOK, NEW w \in Runs, JudgeStep(w)
    PROVE  /\ pc[w] \in {"dir", "stat", "pidfile", "alive"}
           /\ \E next \in {"off", "stat", "pidfile", "alive", "remove"} : Moves(w, next)
           /\ UNCHANGED <<lock, desktop, history>>
<1>1. {"off", "stat", "pidfile", "alive", "remove"} \subseteq Places
  BY PlaceFacts
<1>2. New \in Ages /\ Old \in Ages /\ read[w] \in Ages
  BY DEF WatchdogTypeOK, Ages, New, Old
<1>3. CASE IsDir(w)
  BY <1>1, <1>2, <1>3, JudgesType DEF IsDir
<1>4. CASE Stat(w)
  <2>1. lock # NoLock => lock.age \in Ages
    BY DEF WatchdogTypeOK, Locks
  <2> QED
    BY <1>1, <1>2, <1>4, <2>1, JudgesType DEF Stat
<1>5. CASE PidFile(w)
  BY <1>1, <1>2, <1>5, JudgesType, GotoType DEF PidFile, Leaves
<1>6. CASE Alive(w)
  BY <1>1, <1>2, <1>6, JudgesType, GotoType DEF Alive, Leaves
<1> QED
  BY <1>3, <1>4, <1>5, <1>6 DEF JudgeStep

\* The other steps at the lock.
LockStep(w) == Mkdir(w) \/ Taken(w) \/ WritePid(w) \/ Remove(w) \/ Killed(w)

LEMMA LockStepType ==
    ASSUME WatchdogTypeOK, NEW w \in Runs, LockStep(w)
    PROVE  CoreType' /\ \E next \in Places : Moves(w, next)
<1> USE DEF CoreType, WatchdogTypeOK, DesktopTypeOK, desktop, others, history, Ports
<1>1. ASSUME NEW next \in Places, Goto(w, next)
      PROVE  /\ pc' \in [Runs -> Places] /\ pos' \in [Runs -> 1..PortCount]
             /\ read' \in [Runs -> Ages] /\ \E n \in Places : Moves(w, n)
  BY <1>1, GotoType DEF Moves
<1>2. {"off", "writepid", "probe", "dir", "again"} \subseteq Places
  BY PlaceFacts
<1>3. CASE Mkdir(w)
  BY <1>1, <1>2, <1>3, LockTypes DEF Mkdir
<1>4. CASE Taken(w)
  BY <1>1, <1>2, <1>4 DEF Taken
<1>5. CASE WritePid(w)
  <2>1. mishaps' \in 0..MaxMishaps /\ spoiled' \in BOOLEAN
    BY <1>5, MishapType DEF WritePid
  <2>2. lock' \in Locks \cup {NoLock}
    BY <1>5 DEF WritePid, Named, Locks, Ages, New, Old
  <2> QED
    BY <1>1, <1>2, <1>5, <2>1, <2>2 DEF WritePid
<1>6. CASE Remove(w)
  BY <1>1, <1>2, <1>6 DEF Remove
<1>7. CASE Killed(w)
  <2>1. mishaps' \in 0..MaxMishaps
    BY <1>7, MishapType DEF Killed
  <2>2. lock' \in Locks \cup {NoLock}
    BY <1>7, LockTypes DEF Killed
  <2> QED
    BY <1>1, <1>2, <1>7, <2>1, <2>2 DEF Killed
<1> QED
  BY <1>3, <1>4, <1>5, <1>6, <1>7 DEF LockStep

\* The steps of main, inside the lock.
MainStep(w) ==
    \/ Probe(w) \/ ProbeLate(w) \/ Warn(w) \/ WarnLate(w) \/ Tabs(w) \/ TabsLate(w)
    \/ Act(w) \/ Quit(w) \/ Wait(w) \/ Term(w) \/ Kill(w) \/ KillFails(w)
    \/ KillDone(w) \/ Aborts(w) \/ Launch(w) \/ LaunchFails(w) \/ Verify(w)

\* A run inside stays inside with the lock, or leaves by its EXIT trap.
Rest == Inside \ {"writepid"}
Stays(w) == \E next \in Rest : Moves(w, next) /\ lock' = lock
Left(w) == Moves(w, "off") /\ lock' = NoLock

LEMMA MainMoves ==
    ASSUME WatchdogTypeOK, NEW w \in Runs, MainStep(w)
    PROVE  pc[w] \in Rest /\ (Stays(w) \/ Left(w)) /\ history' = history
<1>1. /\ Rest \subseteq Places /\ "off" \in Places
      /\ {"probe", "warn", "tabs", "act", "quit", "wait", "term", "kill", "killed",
           "launch", "verify"} \subseteq Rest
  BY PlaceFacts DEF Rest
<1>2. ASSUME NEW next \in Rest, Goto(w, next), lock' = lock PROVE Stays(w)
  BY <1>1, <1>2, GotoType DEF Stays
<1>3. ASSUME Exit(w) PROVE Left(w)
  BY <1>1, <1>3, GotoType DEF Exit, Left
<1>4. ASSUME NEW scan \in Rest, NEW after \in Rest, NextPort(w, scan, after) PROVE Stays(w)
  BY <1>1, <1>4, NextPortType DEF Stays
<1>5. ASSUME NEW next \in Rest, pc' = [pc EXCEPT ![w] = next], UNCHANGED <<pos, read, lock>>
      PROVE  Stays(w)
  BY <1>1, <1>5 DEF WatchdogTypeOK, Stays, Moves
<1>6. CASE Probe(w) \/ ProbeLate(w)
  BY <1>1, <1>3, <1>4, <1>6 DEF Probe, ProbeLate, TimesOut
<1>7. CASE Warn(w) \/ WarnLate(w)
  BY <1>1, <1>4, <1>5, <1>7 DEF Warn, WarnLate, TimesOut
<1>8. CASE Tabs(w) \/ TabsLate(w)
  BY <1>1, <1>3, <1>4, <1>8 DEF Tabs, TabsLate, TimesOut
<1>9. CASE Act(w) \/ Quit(w) \/ Wait(w) \/ Term(w)
  BY <1>1, <1>2, <1>9 DEF Act, Quit, Wait, Term
<1>10. CASE Kill(w) \/ KillFails(w) \/ KillDone(w)
  BY <1>1, <1>2, <1>10 DEF Kill, KillFails, KillDone
<1>11. CASE Aborts(w) \/ LaunchFails(w) \/ Verify(w)
  BY <1>1, <1>3, <1>11 DEF Aborts, LaunchFails, Verify
<1>12. CASE Launch(w)
  BY <1>1, <1>2, <1>12 DEF Launch
<1> QED
  BY <1>6, <1>7, <1>8, <1>9, <1>10, <1>11, <1>12 DEF MainStep

\* What a run does to TradingView.
LEMMA MainDesktop ==
    ASSUME WatchdogTypeOK, NEW w \in Runs, MainStep(w)
    PROVE  DesktopTypeOK'
<1> USE DesktopAssumption
    DEF DesktopAssumption, WatchdogTypeOK, DesktopTypeOK, desktop, others, Ports
<1>1. CASE UNCHANGED desktop
  BY <1>1
<1>2. CASE Quit(w)
  BY <1>2 DEF Quit
<1>3. CASE Term(w)
  BY <1>3 DEF Term
<1>4. CASE Kill(w)
  BY <1>4 DEF Kill, Gone
<1>5. CASE Launch(w)
  BY <1>5 DEF Launch, Opened
<1>6. CASE TimesOut
  BY <1>6 DEF TimesOut, Fault
<1> QED
  BY <1>1, <1>2, <1>3, <1>4, <1>5, <1>6
  DEF MainStep, Probe, ProbeLate, Warn, WarnLate, Tabs, TabsLate, Act, Wait, KillFails,
      KillDone, Aborts, LaunchFails, Verify

LEMMA WatchType ==
    WatchdogTypeOK /\ Watch => health' \in [Runs -> {"good", "late", "bad"}]
  BY DEF Watch, WatchdogTypeOK

LEMMA WatchdogTypeStep == WatchdogTypeOK /\ WatchdogNext => WatchdogTypeOK'
<1> SUFFICES ASSUME WatchdogTypeOK, WatchdogNext PROVE WatchdogTypeOK'
  OBVIOUS
<1> USE DEF WatchdogNext
<1>1. ASSUME DesktopStep /\ UNCHANGED <<lock, runs, history>> PROVE CoreType'
  BY <1>1, DesktopType DEF CoreType, WatchdogTypeOK, runs, history
<1>2. ASSUME NEW w \in Runs, Start(w) PROVE CoreType'
  <2>1. faults' \in 0..MaxFaults
    BY <1>2, DesktopAssumption
    DEF Start, Fault, WatchdogTypeOK, DesktopTypeOK, DesktopAssumption
  <2>2. pc' \in [Runs -> Places] /\ pos' \in [Runs -> Ports] /\ read' \in [Runs -> Ages]
    BY <1>2, GotoType, PlaceFacts DEF Start, Moves
  <2>3. spoiled' \in BOOLEAN
    BY <1>2 DEF Start, WatchdogTypeOK
  <2> QED
    BY <1>2, <2>1, <2>2, <2>3
    DEF Start, CoreType, WatchdogTypeOK, DesktopTypeOK, others, Ports
<1>3. ASSUME NEW w \in Runs, MainStep(w) PROVE CoreType'
  <2>1. /\ pc' \in [Runs -> Places] /\ pos' \in [Runs -> Ports] /\ read' \in [Runs -> Ages]
        /\ lock' \in {lock, NoLock}
    BY <1>3, MainMoves DEF Stays, Left, Moves
  <2> QED
    BY <1>3, <2>1, MainMoves, MainDesktop DEF CoreType, WatchdogTypeOK, history
<1>4. ASSUME NEW w \in Runs, LockStep(w) PROVE CoreType'
  BY <1>4, LockStepType
<1>5. ASSUME NEW w \in Runs, JudgeStep(w) PROVE CoreType'
  <2>1. /\ pc' \in [Runs -> Places] /\ pos' \in [Runs -> Ports] /\ read' \in [Runs -> Ages]
        /\ UNCHANGED <<lock, desktop, history>>
    BY <1>5, JudgeMoves DEF Moves
  <2> QED
    BY <2>1 DEF CoreType, WatchdogTypeOK, DesktopTypeOK, desktop, others, Ports, history
<1>6. ASSUME LockAges PROVE CoreType'
  <2>1. mishaps' \in 0..MaxMishaps /\ spoiled' \in BOOLEAN
    BY <1>6, MishapType DEF LockAges, WatchdogTypeOK
  <2>2. lock' \in Locks
    BY <1>6 DEF LockAges, WatchdogTypeOK, Locks, Ages, New, Old
  <2> QED
    BY <1>6, <2>1, <2>2
    DEF LockAges, CoreType, WatchdogTypeOK, DesktopTypeOK, runs, desktop, others, Ports
<1>7. CoreType'
  BY <1>1, <1>2, <1>3, <1>4, <1>5, <1>6
  DEF WatchdogStep, RunStep, MainStep, LockStep, JudgeStep
<1> QED
  BY <1>7, WatchType DEF CoreType, WatchdogTypeOK

-----------------------------------------------------------------------------
(* The lock *)

\* A run inside is the only one, and nobody is about to remove its lock.
LEMMA OnlyOne ==
    ASSUME LockInv, ~ spoiled, NEW v \in Runs, pc[v] \in Inside
    PROVE  /\ Holds(v)
           /\ \A w \in Runs \ {v} : pc[w] \notin Inside /\ Spares(w, v)
  BY DEF LockInv

\* With nobody inside there is nothing to hold.
LEMMA NobodyInside ==
    ASSUME \A v \in Runs : pc'[v] \notin Inside PROVE LockInv'
  BY DEF LockInv

\* A run outside may move, as long as what it concludes spares the run inside.
LEMMA OutsideMoves ==
    ASSUME WatchdogTypeOK, LockInv, NEW w \in Runs, NEW next, Moves(w, next),
           pc[w] \notin Inside, next \notin Inside, lock' = lock, spoiled' = spoiled,
           ~ spoiled => \A v \in Runs \ {w} : pc[v] \in Inside => Spares(w, v)'
    PROVE  LockInv'
<1> SUFFICES ASSUME ~ spoiled, NEW v \in Runs, pc'[v] \in Inside
             PROVE  /\ Holds(v)'
                    /\ \A u \in Runs : pc'[u] \in Inside => v = u
                    /\ \A u \in Runs : Spares(u, v)'
  BY DEF LockInv
<1>1. v # w /\ pc'[v] = pc[v] /\ pc[v] \in Inside
  BY DEF Moves
<1>2. Holds(v)'
  BY <1>1, OnlyOne DEF Holds
<1>3. \A u \in Runs : pc'[u] \in Inside => v = u
  BY <1>1, OnlyOne DEF Moves
<1>4. ASSUME NEW u \in Runs PROVE Spares(u, v)'
  <2>1. CASE u = w
    BY <1>1, <2>1
  <2>2. CASE u # w
    BY <1>1, <2>2 DEF LockInv, Spares, Moves
  <2> QED
    BY <2>1, <2>2
<1> QED
  BY <1>2, <1>3, <1>4

\* A run inside may move, or leave with its lock.
LEMMA InsideMoves ==
    ASSUME WatchdogTypeOK, LockInv, NEW w \in Runs, pc[w] \in Rest,
           Stays(w) \/ Left(w), spoiled' = spoiled
    PROVE  LockInv'
<1>0. CASE spoiled
  BY <1>0 DEF LockInv
<1>1. CASE ~ spoiled /\ Left(w)
  BY <1>1, OnlyOne, NobodyInside, PlaceFacts DEF Left, Moves, Rest
<1>2. CASE ~ spoiled /\ Stays(w)
  <2>1. PICK next \in Rest : Moves(w, next) /\ lock' = lock
    BY <1>2 DEF Stays
  <2>2. pc'[w] \in Rest /\ \A v \in Runs \ {w} : pc'[v] = pc[v] /\ read'[v] = read[v]
    BY <2>1 DEF Moves
  <2>3. pc[w] \in Inside /\ pc[w] # "writepid" /\ pc'[w] \in Inside /\ pc'[w] # "writepid"
    BY <2>2 DEF Rest
  <2>4. Holds(w)'
    BY <1>2, <2>1, <2>3, OnlyOne DEF Holds
  <2>5. \A v \in Runs \ {w} : pc'[v] \notin Inside
    BY <1>2, <2>2, <2>3, OnlyOne
  <2>6. \A v \in Runs : Spares(v, w)'
    <3>1. Spares(w, w)'
      BY <2>3, PlaceFacts DEF Spares
    <3>2. ASSUME NEW v \in Runs \ {w} PROVE Spares(v, w)'
      BY <1>2, <2>2, <2>3, OnlyOne DEF Spares
    <3> QED
      BY <3>1, <3>2
  <2> QED
    BY <2>4, <2>5, <2>6 DEF LockInv
<1> QED
  BY <1>0, <1>1, <1>2

\* What a run has read of the lock of a run inside only lets it leave.
LEMMA JudgeKeepsLock ==
    ASSUME WatchdogTypeOK, LockInv, NEW w \in Runs, JudgeStep(w)
    PROVE  LockInv'
<1>1. PICK next \in {"off", "stat", "pidfile", "alive", "remove"} : Moves(w, next)
  BY JudgeMoves
<1>2. pc[w] \notin Inside /\ next \notin Inside /\ lock' = lock /\ spoiled' = spoiled
  BY <1>1, JudgeMoves, PlaceFacts DEF history
<1>3. ASSUME ~ spoiled, NEW v \in Runs \ {w}, pc[v] \in Inside PROVE Spares(w, v)'
  <2>1. Holds(v) /\ Spares(w, v) /\ pc'[v] = pc[v]
    BY <1>1, <1>3, OnlyOne DEF Moves
  <2>2. /\ lock # NoLock /\ lock.age # Old
        /\ pc[v] = "writepid" => lock.owner = NoPid /\ lock.age = New
        /\ pc[v] # "writepid" => lock.owner = v
    BY <2>1 DEF Holds, New, Old
  <2>3. v # NoPid /\ v # Dead
    BY WatchdogAssumption DEF WatchdogAssumption
  <2>4. pc'[w] = next /\ read'[w] \in Ages /\ read[w] \in Ages
    BY <1>1 DEF Moves, WatchdogTypeOK
  <2>5. New # Old /\ New \in Ages /\ Old \in Ages
    BY DEF Ages, New, Old
  <2>6. /\ {"off", "stat", "pidfile", "alive", "remove"} \subseteq Places
        /\ lock.age \in Ages
    BY <2>2, PlaceFacts DEF WatchdogTypeOK, Locks
  <2>7. CASE IsDir(w)
    <3>1. Judges(w, "stat", New)
      BY <2>2, <2>7 DEF IsDir
    <3>2. pc'[w] = "stat"
      BY <2>5, <2>6, <3>1, JudgesType DEF Moves
    <3> QED
      BY <3>2 DEF Spares
  <2>8. CASE Stat(w)
    <3>1. Judges(w, "pidfile", lock.age)
      BY <2>2, <2>8 DEF Stat
    <3>2. pc'[w] = "pidfile" /\ read'[w] = lock.age
      BY <2>6, <3>1, JudgesType DEF Moves
    <3> QED
      BY <2>1, <2>2, <3>2 DEF Spares
  <2>9. CASE PidFile(w)
    <3>1. pc[w] = "pidfile" /\ read[w] # Old /\ (pc[v] = "writepid" => read[w] = New)
      BY <2>1, <2>9 DEF Spares, PidFile
    <3>2. CASE HasPid /\ Judges(w, "alive", read[w])
      <4>1. pc'[w] = "alive" /\ read'[w] = read[w]
        BY <2>4, <2>6, <3>2, JudgesType DEF Moves
      <4>2. pc[v] # "writepid"
        BY <2>2, <2>3, <3>2 DEF HasPid
      <4> QED
        BY <2>1, <3>1, <4>1, <4>2 DEF Spares
    <3>3. CASE ~ HasPid
      <4>1. pc[v] = "writepid"
        BY <2>2, <2>3, <3>3 DEF HasPid
      <4>2. Goto(w, "off")
        BY <2>9, <3>1, <3>3, <4>1 DEF PidFile, Leaves
      <4>3. pc'[w] = "off"
        BY <2>6, <4>2, GotoType DEF Moves
      <4> QED
        BY <4>3 DEF Spares
    <3> QED
      BY <2>9, <3>2, <3>3 DEF PidFile
  <2>10. CASE Alive(w)
    <3>1. pc[w] = "alive" /\ read[w] # Old /\ pc[v] # "writepid"
      BY <2>1, <2>10 DEF Spares, Alive
    <3>2. PICK alive \in OwnerAlive :
            IF alive /\ read[w] # Old THEN Leaves(w) ELSE Judges(w, "remove", New)
      BY <2>10 DEF Alive
    <3>3. OwnerAlive = {TRUE}
      BY <2>2, <2>3, <3>1 DEF OwnerAlive, HasPid
    <3>4. Goto(w, "off")
      BY <3>1, <3>2, <3>3 DEF Leaves
    <3>5. pc'[w] = "off"
      BY <2>6, <3>4, GotoType DEF Moves
    <3> QED
      BY <3>5 DEF Spares
  <2> QED
    BY <2>7, <2>8, <2>9, <2>10 DEF JudgeStep
<1> QED
  BY <1>1, <1>2, <1>3, OutsideMoves

\* A new lock is taken when there is none, so nobody is inside; and unless it is
\* spoiled at once nobody was misled by the last one.
LEMMA MkdirKeepsLock ==
    ASSUME WatchdogTypeOK, LockInv, NEW w \in Runs, Mkdir(w)
    PROVE  LockInv'
<1> SUFFICES ASSUME ~ spoiled' PROVE LockInv'
  BY DEF LockInv
<1>1. ~ spoiled /\ \A v \in Runs \ {w} : ~ MisledBy(v)
  BY DEF Mkdir, WatchdogTypeOK
<1>2. \A v \in Runs : pc[v] \notin Inside
  BY <1>1, OnlyOne DEF Mkdir, Holds
<1>3. Moves(w, "writepid")
  BY GotoType, PlaceFacts DEF Mkdir
<1>4. pc'[w] = "writepid" /\ \A v \in Runs \ {w} : pc'[v] = pc[v] /\ read'[v] = read[v]
  BY <1>3 DEF Moves
<1>5. lock' # NoLock /\ lock'.owner = NoPid /\ lock'.age = New
  BY LockTypes DEF Mkdir, Lock
<1>6. Holds(w)'
  BY <1>4, <1>5 DEF Holds
<1>7. New # Old
  BY DEF New, Old
<1>8. \A v \in Runs : Spares(v, w)'
  BY <1>1, <1>4, <1>7 DEF Spares, MisledBy
<1> QED
  BY <1>2, <1>4, <1>6, <1>8 DEF LockInv

LEMMA TakenKeepsLock ==
    ASSUME WatchdogTypeOK, LockInv, NEW w \in Runs, Taken(w)
    PROVE  LockInv'
<1>1. PICK next \in {"dir", "off"} : Moves(w, next)
  BY GotoType, PlaceFacts DEF Taken
<1>2. pc[w] \notin Inside /\ next \notin Inside
  BY PlaceFacts DEF Taken
<1>3. \A v \in Runs \ {w} : Spares(w, v)'
  BY <1>1 DEF Spares, Moves
<1> QED
  BY <1>1, <1>2, <1>3, OutsideMoves DEF Taken, history

LEMMA WritePidKeepsLock ==
    ASSUME WatchdogTypeOK, LockInv, NEW w \in Runs, WritePid(w)
    PROVE  LockInv'
<1> SUFFICES ASSUME ~ spoiled' PROVE LockInv'
  BY DEF LockInv
<1>1. ~ spoiled /\ lock' = (IF lock = NoLock THEN NoLock ELSE Named(w))
  BY DEF WritePid, history
<1>2. pc[w] \in Inside /\ pc[w] = "writepid"
  BY PlaceFacts DEF WritePid
<1>3. lock # NoLock /\ lock.owner = NoPid
  BY <1>1, <1>2, OnlyOne DEF Holds
<1>4. lock' = [owner |-> w, age |-> New]
  BY <1>1, <1>3 DEF Named
<1>5. lock' # NoLock /\ lock'.owner = w /\ lock'.age # Old
  <2>1. lock' \in Locks
    BY <1>4 DEF Locks, Ages, New, Old
  <2> QED
    BY <1>4, <2>1, NoLockAssumption DEF New, Old
<1>6. Moves(w, "probe")
  BY GotoType, PlaceFacts DEF WritePid
<1>7. pc'[w] = "probe" /\ \A v \in Runs \ {w} : pc'[v] = pc[v] /\ read'[v] = read[v]
  BY <1>6 DEF Moves
<1>8. Holds(w)' /\ \A v \in Runs \ {w} : pc'[v] \notin Inside
  BY <1>1, <1>2, <1>5, <1>7, OnlyOne DEF Holds
<1>9. \A v \in Runs : Spares(v, w)'
  <2>1. Spares(w, w)'
    BY <1>7 DEF Spares
  <2>2. ASSUME NEW v \in Runs \ {w} PROVE Spares(v, w)'
    BY <1>1, <1>2, <1>7, OnlyOne DEF Spares
  <2> QED
    BY <2>1, <2>2
<1> QED
  BY <1>8, <1>9 DEF LockInv

\* Nobody is inside when a run removes a lock.
LEMMA RemoveKeepsLock ==
    ASSUME WatchdogTypeOK, LockInv, NEW w \in Runs, Remove(w)
    PROVE  LockInv'
<1> SUFFICES ASSUME ~ spoiled' PROVE LockInv'
  BY DEF LockInv
<1>1. ~ spoiled /\ pc[w] = "remove"
  BY DEF Remove, history
<1>2. \A v \in Runs : pc[v] \notin Inside
  BY <1>1, PlaceFacts, OnlyOne DEF Spares
<1>3. Moves(w, "again")
  BY GotoType, PlaceFacts DEF Remove
<1> QED
  BY <1>2, <1>3, NobodyInside, PlaceFacts DEF Moves

\* A run that is killed takes nobody else's lock with it.
LEMMA KilledKeepsLock ==
    ASSUME WatchdogTypeOK, LockInv, NEW w \in Runs, Killed(w)
    PROVE  LockInv'
<1> SUFFICES ASSUME ~ spoiled' PROVE LockInv'
  BY DEF LockInv
<1>1. ~ spoiled /\ spoiled' = spoiled
  BY DEF Killed
<1>2. Moves(w, "off")
  BY GotoType, PlaceFacts DEF Killed
<1>3. pc'[w] = "off" /\ "off" \notin Inside /\ \A v \in Runs \ {w} : pc'[v] = pc[v]
  BY <1>2, PlaceFacts DEF Moves
<1>4. CASE \A v \in Runs \ {w} : pc[v] \notin Inside
  BY <1>3, <1>4, NobodyInside
<1>5. ASSUME NEW v \in Runs \ {w}, pc[v] \in Inside PROVE LockInv'
  <2>1. pc[w] \notin Inside /\ Holds(v)
    BY <1>1, <1>5, OnlyOne
  <2>2. lock # NoLock => lock.owner # w
    BY <2>1, WatchdogAssumption DEF Holds, WatchdogAssumption
  <2>3. lock' = lock
    BY <2>2 DEF Killed
  <2>4. \A u \in Runs \ {w} : Spares(w, u)'
    BY <1>3 DEF Spares
  <2> QED
    BY <1>1, <1>2, <1>3, <2>1, <2>3, <2>4, OutsideMoves
<1> QED
  BY <1>4, <1>5

\* A lock ages past the grace only with its pid in it, and no further.
LEMMA LockAgesKeepsLock ==
    ASSUME WatchdogTypeOK, LockInv, LockAges
    PROVE  LockInv'
<1> SUFFICES ASSUME ~ spoiled' PROVE LockInv'
  BY DEF LockInv
<1>1. ~ spoiled /\ (lock.age # New => lock.owner \notin Runs)
  BY DEF LockAges
<1>2. CASE \A v \in Runs : pc[v] \notin Inside
  BY <1>2, NobodyInside DEF LockAges, runs
<1>3. ASSUME NEW v \in Runs, pc[v] \in Inside PROVE LockInv'
  <2>1. Holds(v) /\ \A w \in Runs \ {v} : pc[w] \notin Inside
    BY <1>1, <1>3, OnlyOne
  <2>2. pc[v] # "writepid" /\ lock.owner = v /\ lock.age = New
    BY <1>1, <2>1 DEF Holds, LockAges
  <2>3. lock' # NoLock /\ lock'.owner = v /\ lock'.age = 1
    <3>1. lock \in Locks
      BY DEF WatchdogTypeOK, LockAges
    <3>2. lock' = [lock EXCEPT !.age = 1]
      BY <2>2 DEF LockAges, New
    <3>3. lock' \in Locks
      BY <3>1, <3>2 DEF Locks, Ages, New, Old
    <3> QED
      BY <2>2, <3>1, <3>2, <3>3, NoLockAssumption DEF Locks
  <2>4. pc' = pc /\ read' = read
    BY DEF LockAges, runs
  <2>5. Holds(v)'
    BY <2>2, <2>3, <2>4 DEF Holds, Old
  <2>6. \A w \in Runs : Spares(w, v)'
    BY <1>1, <1>3, <2>4 DEF LockInv, Spares
  <2> QED
    BY <2>1, <2>4, <2>5, <2>6 DEF LockInv
<1> QED
  BY <1>2, <1>3

\* A run starts outside; the first one finds nobody inside.
LEMMA StartKeepsLock ==
    ASSUME WatchdogTypeOK, LockInv, NEW w \in Runs, Start(w)
    PROVE  LockInv'
<1>1. Moves(w, "mkdir") /\ pc[w] = "off" /\ lock' = lock
  BY GotoType, PlaceFacts DEF Start
<1>2. CASE \A v \in Runs : pc[v] = "off"
  BY <1>1, <1>2, NobodyInside, PlaceFacts DEF Moves
<1>3. CASE ~ \A v \in Runs : pc[v] = "off"
  <2>1. spoiled' = spoiled
    BY <1>3 DEF Start, WatchdogTypeOK
  <2>2. \A v \in Runs \ {w} : Spares(w, v)'
    BY <1>1 DEF Spares, Moves
  <2> QED
    BY <1>1, <2>1, <2>2, OutsideMoves, PlaceFacts
<1> QED
  BY <1>2, <1>3

LEMMA LockKept == WatchdogTypeOK /\ LockInv /\ WatchdogNext => LockInv'
<1> SUFFICES ASSUME WatchdogTypeOK, LockInv, WatchdogNext PROVE LockInv'
  OBVIOUS
<1> USE DEF WatchdogNext
<1>1. CASE DesktopStep /\ UNCHANGED <<lock, runs, history>>
  BY <1>1 DEF LockInv, Holds, Spares, runs, history
<1>2. ASSUME NEW w \in Runs, MainStep(w) PROVE LockInv'
  BY <1>2, MainMoves, InsideMoves DEF history
<1> QED
  BY <1>1, <1>2, StartKeepsLock, MkdirKeepsLock, TakenKeepsLock, WritePidKeepsLock,
     JudgeKeepsLock, RemoveKeepsLock, KilledKeepsLock, LockAgesKeepsLock
  DEF WatchdogStep, RunStep, MainStep, JudgeStep

-----------------------------------------------------------------------------
(* TradingView, as long as it is healthy *)

\* A step of one run moves no other.
LEMMA OtherRuns ==
    ASSUME WatchdogTypeOK, NEW v \in Runs, NEW w \in Runs \ {v},
           Start(v) \/ RunStep(v) \/ Killed(v)
    PROVE  pc'[w] = pc[w] /\ pos'[w] = pos[w]
<1>1. \E next : Moves(v, next)
  <2>1. CASE Start(v)
    BY <2>1, GotoType, PlaceFacts DEF Start
  <2>2. CASE MainStep(v)
    BY <2>2, MainMoves DEF Stays, Left
  <2>3. CASE JudgeStep(v)
    BY <2>3, JudgeMoves
  <2>4. CASE LockStep(v)
    BY <2>4, LockStepType
  <2> QED
    BY <2>1, <2>2, <2>3, <2>4 DEF RunStep, MainStep, JudgeStep, LockStep
<1> QED
  BY <1>1 DEF Moves

\* A healthy TradingView that is healthy after a step has the same port.
LEMMA PortStays ==
    ASSUME WatchdogTypeOK, WatchdogNext, TvHealthy, TvHealthy'
    PROVE  port' = port
<1> USE DEF TvHealthy, TvOn, WatchdogNext
<1>1. app = "on" /\ app' = "on" /\ port' \in Ports /\ 0 \notin Ports
  BY DEF Ports
<1>2. CASE DesktopStep
  BY <1>1, <1>2
  DEF DesktopStep, OpenedByHand, Ready, RestoresTab, ClosesTab, OpensTab, Exits, Gone,
      LosesCdp, ForeignStarts, ForeignStops
<1>3. ASSUME NEW w \in Runs, Start(w) PROVE port' = port
  BY <1>3 DEF Start
<1>4. ASSUME NEW w \in Runs, MainStep(w) PROVE port' = port
  BY <1>1, <1>4
  DEF MainStep, Probe, ProbeLate, Warn, WarnLate, Tabs, TabsLate, TimesOut, Act, Quit,
      Wait, Term, Kill, Gone, KillFails, KillDone, Aborts, Launch, Opened, LaunchFails,
      Verify, desktop
<1>5. ASSUME NEW w \in Runs, LockStep(w) PROVE port' = port
  BY <1>5 DEF LockStep, Mkdir, Taken, WritePid, Remove, Killed, desktop
<1>6. ASSUME NEW w \in Runs, JudgeStep(w) PROVE port' = port
  BY <1>6, JudgeMoves DEF desktop
<1>7. CASE LockAges
  BY <1>7 DEF LockAges, desktop
<1> QED
  BY <1>2, <1>3, <1>4, <1>5, <1>6, <1>7
  DEF WatchdogStep, RunStep, MainStep, LockStep, JudgeStep

\* A run that has looked for its lock does not come back to look for it.
LEMMA NotInside ==
    ASSUME WatchdogTypeOK, NEW w \in Runs, pc[w] \in {"writepid", "probe"}
    PROVE  ~ (Start(w) \/ Mkdir(w) \/ Taken(w) \/ Remove(w) \/ JudgeStep(w))
  BY JudgeMoves DEF Start, Mkdir, Taken, Remove

\* A step that leaves a probing run inside is an answer, in time or late.
LEMMA ProbeStep ==
    ASSUME WatchdogTypeOK, WatchdogNext, NEW w \in Runs, pc[w] = "probe",
           pc'[w] \in Inside
    PROVE  \/ pc'[w] = pc[w] /\ pos'[w] = pos[w]
           \/ NextPort(w, "probe", "warn")
<1> USE DEF WatchdogNext
<1>1. CASE Probe(w) \/ ProbeLate(w)
  <2>1. ~ Exit(w)
    BY GotoType, PlaceFacts DEF Exit, Moves
  <2> QED
    BY <1>1, <2>1 DEF Probe, ProbeLate
<1>2. ~ Killed(w)
  BY GotoType, PlaceFacts DEF Killed, Moves
<1>3. ASSUME NEW v \in Runs \ {w}, Start(v) \/ RunStep(v) \/ Killed(v)
      PROVE  pc'[w] = pc[w] /\ pos'[w] = pos[w]
  BY <1>3, OtherRuns
<1>4. CASE UNCHANGED runs
  BY <1>4 DEF runs
<1>5. CASE LockAges
  BY <1>4, <1>5 DEF LockAges
<1>6. CASE RunStep(w)
  <2>1. Probe(w) \/ ProbeLate(w)
    BY <1>6, NotInside
    DEF RunStep, JudgeStep, WritePid, Warn, WarnLate, Tabs, TabsLate, Act, Quit, Wait,
        Term, Kill, KillFails, KillDone, Aborts, Launch, LaunchFails, Verify
  <2> QED
    BY <1>1, <2>1
<1>7. ~ Start(w)
  BY NotInside
<1> QED
  BY <1>2, <1>3, <1>4, <1>5, <1>6, <1>7 DEF WatchdogStep

\* From its pid a run goes on to the first port, or is ended.
LEMMA WritePidStep ==
    ASSUME WatchdogTypeOK, WatchdogNext, NEW w \in Runs, pc[w] = "writepid",
           pc'[w] \in Inside
    PROVE  pc'[w] = "writepid" \/ (pc'[w] = "probe" /\ pos'[w] = 1)
<1> USE DEF WatchdogNext
<1>1. CASE WritePid(w)
  BY <1>1 DEF WritePid, Goto, WatchdogTypeOK
<1>2. ~ Killed(w)
  BY GotoType, PlaceFacts DEF Killed, Moves
<1>3. ASSUME NEW v \in Runs \ {w}, Start(v) \/ RunStep(v) \/ Killed(v)
      PROVE  pc'[w] = pc[w]
  BY <1>3, OtherRuns
<1>4. CASE UNCHANGED runs
  BY <1>4 DEF runs
<1>5. CASE LockAges
  BY <1>4, <1>5 DEF LockAges
<1>6. CASE RunStep(w)
  <2>1. ~ MainStep(w)
    BY MainMoves DEF Rest
  <2>2. WritePid(w)
    BY <1>6, <2>1, NotInside DEF RunStep, JudgeStep, MainStep
  <2> QED
    BY <1>1, <2>2
<1>7. ~ Start(w)
  BY NotInside
<1> QED
  BY <1>2, <1>3, <1>4, <1>5, <1>6, <1>7 DEF WatchdogStep

\* A run that is still probing, or about to, has TradingView's port ahead.
LEMMA CleanStep ==
    ASSUME WatchdogTypeOK, CleanInv, WatchdogNext
    PROVE  CleanInv'
<1> SUFFICES ASSUME NEW w \in Runs, health'[w] = "good"
             PROVE  /\ TvHealthy'
                    /\ pc'[w] = "writepid" \/ (pc'[w] = "probe" /\ pos'[w] <= port')
  BY DEF CleanInv
<1>1. /\ TvHealthy' /\ pc'[w] \in Inside
      /\ pc[w] = "writepid" \/ (health[w] = "good" /\ ~ PassesTv(w))
  BY DEF WatchdogNext, Watch
<1>2. pc[w] \in {"writepid", "probe"}
  BY <1>1 DEF CleanInv
<1>3. port' \in 1..PortCount /\ PortCount \in Nat
  BY <1>1, DesktopAssumption DEF TvHealthy, TvOn, Ports, DesktopAssumption
<1>4. CASE pc[w] = "writepid"
  BY <1>1, <1>3, <1>4, WritePidStep
<1>5. CASE pc[w] = "probe"
  <2>1. TvHealthy /\ pos[w] <= port /\ ~ PassesTv(w)
    BY <1>1, <1>5 DEF CleanInv
  <2>2. port' = port /\ TvOn(port)
    BY <1>1, <2>1, PortStays DEF TvHealthy, TvOn
  <2>3. CASE pc'[w] = pc[w] /\ pos'[w] = pos[w]
    BY <1>1, <1>5, <2>1, <2>2, <2>3
  <2>4. CASE NextPort(w, "probe", "warn") /\ ~ (pc'[w] = pc[w] /\ pos'[w] = pos[w])
    <3>1. pos[w] # port
      BY <1>5, <2>1, <2>2, <2>4 DEF PassesTv
    <3>2. pos[w] \in 1..PortCount /\ pos[w] < port
      BY <1>3, <2>1, <2>2, <3>1 DEF WatchdogTypeOK, Ports
    <3>3. pos[w] < PortCount
      BY <1>3, <2>2, <3>2
    <3>4. pc'[w] = "probe" /\ pos'[w] = pos[w] + 1
      BY <2>4, <3>3, NextPortType, PlaceFacts DEF Moves
    <3> QED
      BY <1>1, <1>3, <2>2, <3>2, <3>4
  <2> QED
    BY <1>1, <1>5, <2>3, <2>4, ProbeStep
<1> QED
  BY <1>2, <1>4, <1>5

-----------------------------------------------------------------------------
(* The theorems about the watchdog *)

LEMMA WatchdogInit_Inv == WatchdogInit => WatchdogInv
<1> SUFFICES ASSUME WatchdogInit PROVE WatchdogInv
  OBVIOUS
<1> USE DEF WatchdogInit
<1>1. WatchdogTypeOK
  <2>1. DesktopTypeOK
    <3>1. tab \in {"restoring", "open", "closed"} /\ app \in {"off", "starting", "on"}
      BY DEF DesktopInit
    <3>2. 0 \in 0..MaxFaults
      BY DesktopAssumption DEF DesktopAssumption
    <3> QED
      BY <3>1, <3>2 DEF DesktopInit, DesktopTypeOK
  <2>2. pos \in [Runs -> Ports] /\ mishaps \in 0..MaxMishaps
    BY DesktopAssumption, WatchdogAssumption
    DEF Ports, DesktopAssumption, WatchdogAssumption
  <2>3. /\ pc \in [Runs -> Places] /\ read \in [Runs -> Ages]
        /\ lock \in Locks \cup {NoLock} /\ health \in [Runs -> {"good", "late", "bad"}]
    BY PlaceFacts DEF Ages, New, Old
  <2> QED
    BY <2>1, <2>2, <2>3 DEF WatchdogTypeOK
<1>2. LockInv /\ CleanInv
  BY DEF LockInv, CleanInv, Inside, Scanning, Acting
<1> QED
  BY <1>1, <1>2 DEF WatchdogInv

LEMMA WatchdogStutter == WatchdogInv /\ UNCHANGED vars => WatchdogInv'
<1> SUFFICES ASSUME WatchdogInv, UNCHANGED vars PROVE WatchdogInv'
  OBVIOUS
<1> USE DEF vars, desktop, others, runs, history
<1>1. WatchdogTypeOK'
  BY DEF WatchdogInv, WatchdogTypeOK, DesktopTypeOK
<1>2. LockInv'
  BY DEF WatchdogInv, LockInv, Holds, Spares
<1>3. CleanInv'
  BY DEF WatchdogInv, CleanInv, TvHealthy, TvOn
<1> QED
  BY <1>1, <1>2, <1>3 DEF WatchdogInv

LEMMA WatchdogInvStep == WatchdogInv /\ [WatchdogNext]_vars => WatchdogInv'
  BY WatchdogStutter, WatchdogTypeStep, LockKept, CleanStep DEF WatchdogInv

\* Unless the lock is spoiled, the run inside is the one that owns the lock
\* directory, and all that other runs have read of it so far makes them leave
\* it alone, in every reachable state.
THEOREM WatchdogInvariance == WatchdogSpec => []WatchdogInv
  BY WatchdogInit_Inv, WatchdogInvStep, PTL DEF WatchdogSpec

\* Lock, runs and desktop keep their types.
THEOREM WatchdogTypeCorrect == WatchdogSpec => []WatchdogTypeOK
<1>1. WatchdogInv => WatchdogTypeOK
  BY DEF WatchdogInv
<1> QED
  BY <1>1, WatchdogInvariance, PTL

LEMMA LockInvExcludes == LockInv => LockExcludes
<1> SUFFICES ASSUME LockInv, ~ spoiled PROVE Cardinality(InsideRuns) <= 1
  BY DEF LockExcludes
<1>1. CASE InsideRuns = {}
  BY <1>1, FS_EmptySet
<1>2. ASSUME NEW v \in InsideRuns PROVE Cardinality(InsideRuns) <= 1
  <2>1. InsideRuns = {v}
    BY <1>2 DEF LockInv, InsideRuns
  <2> QED
    BY <2>1, FS_Singleton
<1> QED
  BY <1>1, <1>2

\* However many runs there are, wherever they are killed and whenever each reads
\* the lock, its pid and its owner: two act on TradingView together only after
\* a run failed to write its pid, outlasted the maximum age of the lock, or made
\* a lock while another run was misled by what it had read of the one before.
THEOREM LockIsExclusive == WatchdogSpec => []LockExcludes
<1>1. WatchdogInv => LockExcludes
  BY LockInvExcludes DEF WatchdogInv
<1> QED
  BY <1>1, WatchdogInvariance, PTL

\* A run that quits, kills or launches TradingView has seen it unhealthy since it
\* began to probe, or its curl gave up on the answer, with any number of ports,
\* of other apps on them and of runs beside it.
THEOREM HealthyIsLeftAlone == WatchdogSpec => []HealthyLeftAlone
<1>1. WatchdogInv => HealthyLeftAlone
  BY DEF WatchdogInv, CleanInv, HealthyLeftAlone, Acting
<1> QED
  BY <1>1, WatchdogInvariance, PTL

-----------------------------------------------------------------------------
(* data-svc and its endpoint *)

LEMMA EndpointInitInv == EndpointInit => EndpointInv
  BY WatchdogInit_Inv, DesktopAssumption
  DEF EndpointInit, EndpointInv, EndpointTypeOK, WatchdogInv, MatchesSeen, EndpointWasSeen,
      Ports, DesktopAssumption

\* A glitch is one more fault for the desktop, and nothing else.
LEMMA GlitchType == WatchdogTypeOK /\ Glitch => WatchdogTypeOK'
  BY DesktopAssumption
  DEF Glitch, Fault, Outside, WatchdogTypeOK, DesktopTypeOK, others, runs, history,
      DesktopAssumption

LEMMA EndsInv ==
    ASSUME EndpointInv, Ends, WatchdogTypeOK'
    PROVE  EndpointInv'
<1>1. 1 \in Ports /\ file' \in {0} \cup Ports
  BY DesktopAssumption DEF EndpointInv, EndpointTypeOK, Ends, Ports, DesktopAssumption
<1>2. EndpointTypeOK'
  BY <1>1 DEF EndpointTypeOK, Ends, Ports
<1> QED
  BY <1>2 DEF EndpointInv, MatchesSeen, EndpointWasSeen, Ends

\* A port is noted before data-svc settles on it or counts it as a match.
LEMMA ProbedInv ==
    ASSUME EndpointInv, NEW hit \in BOOLEAN, Probed(hit), WatchdogTypeOK',
           UNCHANGED <<file, pin, outcome>>
    PROVE  EndpointInv'
<1> USE DEF EndpointInv, Ports
<1>1. /\ at \in Ports /\ matches \subseteq Ports /\ PortCount \in Nat \ {0}
      /\ 0 \notin Ports /\ 1 \in Ports
  BY DesktopAssumption DEF EndpointTypeOK, DesktopAssumption
<1>2. /\ seen \subseteq seen' /\ seen' \subseteq Ports
      /\ seen' = IF hit THEN seen \cup {at} ELSE seen
  BY <1>1 DEF Probed, Notes, EndpointTypeOK
<1>3. CASE Settles(hit)
  <2>1. EndpointTypeOK'
    BY <1>1, <1>2, <1>3 DEF EndpointTypeOK, Settles
  <2> QED
    BY <1>2, <1>3, <2>1 DEF MatchesSeen, EndpointWasSeen, Settles
<1>4. CASE svc = "cached" /\ ~ hit /\ StartScan
  <2>1. EndpointTypeOK'
    BY <1>1, <1>2, <1>4 DEF EndpointTypeOK, StartScan
  <2> QED
    BY <1>2, <1>4, <2>1 DEF MatchesSeen, EndpointWasSeen, StartScan
<1>5. CASE Scans(hit)
  <2>1. svc' \in {"scan", "choose"} /\ at' \in Ports
    BY <1>1, <1>5 DEF Scans
  <2>2. matches' \subseteq seen' /\ matches' \subseteq Ports
    BY <1>1, <1>2, <1>5 DEF Scans, MatchesSeen
  <2>3. EndpointTypeOK'
    <3>1. endpoint' = 0 /\ pin' = "none"
      BY <1>5 DEF EndpointTypeOK, Scans
    <3>2. file' \in {0} \cup Ports /\ outcome' \in {"none", "ok", "error"}
      BY DEF EndpointTypeOK
    <3> QED
      BY <1>2, <2>1, <2>2, <3>1, <3>2 DEF EndpointTypeOK
  <2> QED
    BY <2>1, <2>2, <2>3 DEF MatchesSeen, EndpointWasSeen
<1> QED
  BY <1>3, <1>4, <1>5 DEF Probed

\* What Choose settles on is one of the matches.
LEMMA ChosenMatch ==
    ASSUME EndpointTypeOK, matches # {}
    PROVE  (IF file \in matches THEN file ELSE Min(matches)) \in matches
<1>1. matches \subseteq Nat
  BY DesktopAssumption DEF EndpointTypeOK, Ports, DesktopAssumption
<1> QED
  BY <1>1, MinExists

LEMMA SvcStepInv ==
    ASSUME EndpointInv, SvcStep
    PROVE  EndpointInv'
<1>0. /\ 0 \notin Ports /\ 1 \in Ports
      /\ UNCHANGED vars /\ WatchdogTypeOK'
  <2>1. UNCHANGED vars
    BY DEF SvcStep, Boot, ProbePort, Choose, WriteCache, Resolve, Cycle
  <2>2. WatchdogTypeOK'
    BY <2>1 DEF EndpointInv, EndpointTypeOK, vars, runs, history, WatchdogTypeOK, desktop,
       others, DesktopTypeOK
  <2> QED
    BY <2>1, <2>2, DesktopAssumption DEF Ports, DesktopAssumption
<1>1. CASE Ends
  BY <1>0, <1>1, EndsInv
<1>2. CASE Boot
  <2>1. matches' = {} /\ endpoint' = 0 /\ svc' \in {"cached", "scan"} /\ pin' = "none"
    BY <1>2 DEF Boot, StartScan, EndpointInv, EndpointTypeOK, MatchesSeen
  <2>2. at' \in Ports /\ UNCHANGED <<file, outcome, seen>>
    BY <1>0, <1>2 DEF Boot, StartScan, EndpointInv, EndpointTypeOK
  <2>3. EndpointTypeOK'
    BY <1>0, <2>1, <2>2 DEF EndpointInv, EndpointTypeOK, Ports
  <2> QED
    BY <2>1, <2>3 DEF EndpointInv, MatchesSeen, EndpointWasSeen
<1>3. CASE ProbePort
  BY <1>0, <1>3, ProbedInv DEF ProbePort, IsTvEndpoint
<1>4. CASE /\ svc = "choose" /\ matches # {} /\ svc' = "write"
           /\ endpoint' = IF file \in matches THEN file ELSE Min(matches)
           /\ UNCHANGED <<start, file, pin, outcome>>
  <2>1. endpoint' \in matches /\ matches \subseteq Ports
    BY <1>4, ChosenMatch DEF EndpointInv, EndpointTypeOK
  <2>2. UNCHANGED <<at, matches, seen>>
    BY <1>4 DEF start
  <2>3. EndpointTypeOK'
    BY <1>0, <1>4, <2>1, <2>2 DEF EndpointInv, EndpointTypeOK, Ports
  <2> QED
    BY <1>4, <2>1, <2>2, <2>3 DEF EndpointInv, MatchesSeen, EndpointWasSeen
<1>5. CASE WriteCache
  <2>1. EndpointTypeOK'
    BY <1>0, <1>5 DEF WriteCache, EndpointInv, EndpointTypeOK, Ports
  <2> QED
    BY <1>5, <2>1 DEF WriteCache, EndpointInv, MatchesSeen, EndpointWasSeen
<1>6. CASE /\ svc = "pin" /\ svc' = "loop" /\ pin' = "live" /\ at' = 1 /\ seen' = {}
           /\ UNCHANGED <<matches, file, endpoint, outcome>>
  <2>1. EndpointTypeOK'
    BY <1>0, <1>6 DEF EndpointInv, EndpointTypeOK, Ports
  <2> QED
    BY <1>6, <2>1 DEF EndpointInv, MatchesSeen, EndpointWasSeen
<1>7. CASE Cycle
  <2>1. outcome' \in {"ok", "error"}
    BY <1>7 DEF Cycle
  <2>2. UNCHANGED <<svc, at, matches, seen, endpoint, file, pin>> /\ svc = "loop"
    BY <1>7 DEF Cycle, start
  <2>3. EndpointTypeOK'
    BY <1>0, <2>1, <2>2 DEF EndpointInv, EndpointTypeOK, Ports
  <2> QED
    BY <2>2, <2>3 DEF EndpointInv, MatchesSeen, EndpointWasSeen
<1> QED
  BY <1>1, <1>2, <1>3, <1>4, <1>5, <1>6, <1>7 DEF SvcStep, Choose, Resolve

\* Steps of everybody else leave what data-svc knows alone.
LEMMA KeepsService ==
    ASSUME EndpointInv, WatchdogTypeOK', UNCHANGED <<svc, start, endpoint>>,
           file' \in {0} \cup Ports, outcome' \in {"none", "ok", "error"},
           pin' \in {"none", "live", "lost"}, (pin' = "none") = (pin = "none")
    PROVE  EndpointInv'
<1>1. EndpointTypeOK'
  BY DEF EndpointInv, EndpointTypeOK, start, Ports
<1> QED
  BY <1>1 DEF EndpointInv, MatchesSeen, EndpointWasSeen, start

LEMMA EndpointStep == EndpointInv /\ [EndpointNext]_everything => EndpointInv'
<1> SUFFICES ASSUME EndpointInv, [EndpointNext]_everything PROVE EndpointInv'
  OBVIOUS
<1>0. WatchdogTypeOK
  BY DEF EndpointInv, EndpointTypeOK
<1>1. CASE UNCHANGED everything
  BY <1>1 DEF everything, vars, runs, history, service, start, desktop, others, EndpointInv, EndpointTypeOK,
     WatchdogTypeOK, DesktopTypeOK, MatchesSeen, EndpointWasSeen
<1>2. CASE SvcStep
  BY <1>2, SvcStepInv
<1>3. CASE ProbeTimesOut
  BY <1>0, <1>3, GlitchType, ProbedInv DEF ProbeTimesOut
<1>4. CASE CycleFails
  BY <1>0, <1>4, GlitchType, KeepsService DEF CycleFails, EndpointInv, EndpointTypeOK
<1>5. CASE Stops
  BY <1>0, <1>5, GlitchType, EndsInv DEF Stops
<1>6. CASE MirrorWrites
  <2>1. WatchdogTypeOK'
    BY <1>0, <1>6 DEF MirrorWrites, vars, runs, history, WatchdogTypeOK, desktop, others, DesktopTypeOK
  <2> QED
    BY <1>6, <2>1, KeepsService DEF MirrorWrites, service, EndpointInv, EndpointTypeOK
<1>7. CASE TabsMove
  <2>1. WatchdogTypeOK'
    BY <1>0, <1>7, WatchdogTypeStep DEF TabsMove
  <2>2. pin' \in {"none", "live", "lost"} /\ (pin' = "none") = (pin = "none")
    BY <1>7 DEF TabsMove, EndpointInv, EndpointTypeOK
  <2> QED
    BY <1>7, <2>1, <2>2, KeepsService DEF TabsMove, service, EndpointInv, EndpointTypeOK
<1> QED
  BY <1>1, <1>2, <1>3, <1>4, <1>5, <1>6, <1>7 DEF EndpointNext

\* What discovery has matched, and what data-svc settles on, has answered a probe
\* of its own as TradingView in this start, in every reachable state.
THEOREM EndpointInvariance == EndpointSpec => []EndpointInv
  BY EndpointInitInv, EndpointStep, PTL DEF EndpointSpec

\* data-svc, its cache file and its pin keep their types.
THEOREM EndpointTypeCorrect == EndpointSpec => []EndpointTypeOK
<1>1. EndpointInv => EndpointTypeOK
  BY DEF EndpointInv
<1> QED
  BY <1>1, EndpointInvariance, PTL

\* Whatever the Node mirror writes into the cache file and whenever: data-svc
\* settles only on a port that answered it as TradingView in this very start.
THEOREM OnlySeenEndpoints == EndpointSpec => []EndpointWasSeen
<1>1. EndpointInv => EndpointWasSeen
  BY DEF EndpointInv
<1> QED
  BY <1>1, EndpointInvariance, PTL
=============================================================================
