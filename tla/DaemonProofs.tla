------------------------------ MODULE DaemonProofs ------------------------------
(***************************************************************************)
(* Proofs about Daemon and the clock it composes, for any window sizes,    *)
(* debug levels, delays and steps of the clock forward and back: where     *)
(* printed text goes, at what level messages are given, which process the  *)
(* pid file names, and by what the counters of a window are divided.  The  *)
(* inductive invariants are ClockInv and DaemonInv.                        *)
(***************************************************************************)
EXTENDS Daemon, FiniteSetTheorems, WellFoundedInduction, TLAPS

--------------------------------------------------------------------------------
(* The clock of the loop. *)

LEMMA InitClock == ClockInit => ClockInv
<1> SUFFICES ASSUME ClockInit PROVE ClockInv
  OBVIOUS
<1> USE DEF ClockInit
<1>1. clockSet \in [since : BOOLEAN, measured : BOOLEAN]
  OBVIOUS
<1>2. ClockTypeOK
  BY <1>1 DEF ClockTypeOK, Steps
<1>3. WindowRuns /\ CountersRun /\ DivisorSound
  BY WindowClockAssumption DEF WindowRuns, CountersRun, DivisorSound
<1> QED
  BY <1>2, <1>3 DEF ClockInv

(* What the steps of the loop do to the history of settings. *)
LEMMA ClockSetTyped ==
  ASSUME ClockTypeOK, ClockNext \/ UNCHANGED clockVars
  PROVE  clockSet' \in [since : BOOLEAN, measured : BOOLEAN]
<1>1. clockSet \in [since : BOOLEAN, measured : BOOLEAN] /\ clockSet.since \in BOOLEAN
  BY DEF ClockTypeOK
<1>2. clockSet' \in {clockSet, [clockSet EXCEPT !.since = FALSE],
                     [clockSet EXCEPT !.since = TRUE],
                     [clockSet EXCEPT !.measured = clockSet.since]}
  BY DEF ClockNext, Configure, BeginLoop, Sleep, Measure, BeginSwitch, EndSwitch,
         Evaluate, EndPass, SetClock, Killed, ReadsSwitchTime, clockVars
<1> QED
  BY <1>1, <1>2

(* The types of the clock need nothing but themselves. *)
LEMMA StepClockTypes ==
  ASSUME ClockTypeOK, ClockNext \/ UNCHANGED clockVars
  PROVE  ClockTypeOK'
<1>1. clockSet' \in [since : BOOLEAN, measured : BOOLEAN]
  BY ClockSetTyped
<1> USE <1>1, WindowClockAssumption DEF ClockTypeOK, Steps
<1>2. CASE Configure
  BY <1>2 DEF Configure
<1>3. CASE BeginLoop
  BY <1>3 DEF BeginLoop, ReadsSwitchTime
<1>4. CASE Sleep
  <2>1. PICK late \in 0 .. MaxLag : Passes(late + IF Remains > 0 THEN Remains ELSE 0)
    BY <1>4 DEF Sleep
  <2>2. late + (IF Remains > 0 THEN Remains ELSE 0) \in Nat
    BY DEF Remains
  <2> QED
    BY <1>4, <2>1, <2>2 DEF Sleep, Passes
<1>5. CASE Measure
  BY <1>5 DEF Measure
<1>6. CASE BeginSwitch
  BY <1>6 DEF BeginSwitch, Elapses, Passes
<1>7. CASE EndSwitch
  BY <1>7 DEF EndSwitch, ReadsSwitchTime
<1>8. CASE Evaluate
  BY <1>8 DEF Evaluate
<1>9. CASE EndPass
  BY <1>9 DEF EndPass, Elapses, Passes
<1>10. CASE SetClock
  BY <1>10 DEF SetClock
<1>11. CASE Killed \/ UNCHANGED clockVars
  BY <1>11 DEF Killed, clockVars
<1> QED
  BY <1>2, <1>3, <1>4, <1>5, <1>6, <1>7, <1>8, <1>9, <1>10, <1>11 DEF ClockNext

(* A window is measured from its last switch, before the next one, and the *)
(* counters are reset after the switch: each step of the loop that takes   *)
(* up to MaxLag moves the two apart by no more than that.                  *)
LEMMA StepClock ==
  ASSUME ClockInv, ClockNext \/ UNCHANGED clockVars
  PROVE  ClockInv'
<1>1. ClockTypeOK'
  BY StepClockTypes DEF ClockInv
<1> USE <1>1, WindowClockAssumption
    DEF ClockInv, ClockTypeOK, Steps, WindowRuns, CountersRun, DivisorSound
<1>2. CASE Configure
  BY <1>2 DEF Configure
<1>3. CASE BeginLoop
  BY <1>3 DEF BeginLoop, ReadsSwitchTime
<1>4. CASE Sleep
  <2>1. PICK late \in 0 .. MaxLag : Passes(late + IF Remains > 0 THEN Remains ELSE 0)
    BY <1>4 DEF Sleep
  <2>2. late + (IF Remains > 0 THEN Remains ELSE 0) \in Nat
    BY DEF Remains
  <2> QED
    BY <1>4, <2>1, <2>2 DEF Sleep, Passes, Remains
<1>5. CASE Measure
  BY <1>5 DEF Measure
<1>6. CASE BeginSwitch
  BY <1>6 DEF BeginSwitch, Elapses, Passes
<1>7. CASE EndSwitch
  BY <1>7 DEF EndSwitch, ReadsSwitchTime
<1>8. CASE Evaluate
  BY <1>8 DEF Evaluate
<1>9. CASE EndPass
  BY <1>9 DEF EndPass, Elapses, Passes
<1>10. CASE SetClock
  BY <1>10 DEF SetClock
<1>11. CASE Killed \/ UNCHANGED clockVars
  BY <1>11 DEF Killed, clockVars
<1> QED
  BY <1>2, <1>3, <1>4, <1>5, <1>6, <1>7, <1>8, <1>9, <1>10, <1>11 DEF ClockNext

--------------------------------------------------------------------------------
(* Stages of main. *)

LEMMA AfterStages ==
  /\ After("options") = "msg_init" /\ After("msg_init") = "daemonize"
  /\ After("daemonize") = "config" /\ After("config") = "parse"
  /\ After("parse") = "pid_file" /\ After("pid_file") = "actions"
  /\ After("actions") = "database" /\ After("database") = "rotate"
  /\ After("rotate") = "queue" /\ After("queue") = "threads"
  /\ After("threads") = "running"
<1>1. DOMAIN Order = 1 .. 12
  BY DEF Order
<1>2. \A i, j \in 1 .. 12 : Order[i] = Order[j] => i = j
  BY DEF Order
<1>3. \A i \in 1 .. 11 : After(Order[i]) = Order[i + 1]
  <2> TAKE i \in 1 .. 11
  <2>1. \A j \in DOMAIN Order : Order[j] = Order[i] => j = i
    BY <1>1, <1>2
  <2> QED
    BY <1>1, <2>1 DEF After
<1> QED
  BY <1>3 DEF Order

LEMMA StagesAre ==
  Stages = {"options", "msg_init", "daemonize", "config", "parse", "pid_file",
            "actions", "database", "rotate", "queue", "threads", "running"}
<1>1. DOMAIN Order = 1 .. 12
  BY DEF Order
<1> QED
  BY <1>1 DEF Stages, Order

--------------------------------------------------------------------------------
(* Descriptors. *)

LEMMA LeastDescriptor ==
  ASSUME NEW S, S \subseteq Nat, S # {}
  PROVE  \E i \in S : \A j \in S : i <= j
<1> DEFINE R == {ss \in Nat \X Nat : ss[1] < ss[2]}
<1>1. IsWellFoundedOn(R, Nat)
  BY NatLessThanWellFounded, Zenon DEF OpToRel
<1>2. PICK i \in S : \A j \in S : <<j, i>> \notin R
  BY <1>1, WFMin
<1>3. \A j \in S : <<j, i>> \in Nat \X Nat
  OBVIOUS
<1>4. \A j \in S : ~(j < i)
  BY <1>2, <1>3
<1> QED
  BY <1>2, <1>4

LEMMA FirstFds == 0 .. 7 \subseteq Fds /\ Fds \subseteq Nat
BY DaemonAssumption DEF Fds

(* Of the six files the process opens, one is not open when another one is *)
(* opened; so one of the numbers up to 7 is free.                          *)
LEMMA OneIsFree ==
  ASSUME NEW f, FilesDistinct(f),
         NEW h \in Holders \ {"terminal"}, ~Has(f, h),
         NEW x \in Holders \ {"terminal", h}, ~Has(f, x)
  PROVE  \E n \in Fds : f[n] = "free"
<1> SUFFICES ASSUME \A n \in Fds : f[n] # "free"
             PROVE  FALSE
  OBVIOUS
<1> DEFINE Others == Holders \ {"terminal", h, x}
<1>1. \A n \in {3, 4, 5, 6, 7} : n \in Fds
  BY FirstFds
<1>2. \A n \in {3, 4, 5, 6, 7} : f[n] \in Others
  BY <1>1 DEF FilesDistinct, Has
<1>3. \A m, n \in {3, 4, 5, 6, 7} : f[m] = f[n] => m = n
  BY <1>1, <1>2 DEF FilesDistinct
<1>4. \E a, b, c, d : Others \subseteq {a, b, c, d}
  <2>1. \A a \in Holders \ {"terminal"}, b \in Holders \ {"terminal"} : a # b =>
          \E p, q, r, t \in Holders :
            Holders \ {"terminal", a, b} \subseteq {p, q, r, t}
    BY DEF Holders
  <2> QED
    BY <2>1
<1> QED
  BY <1>2, <1>3, <1>4

(* What open() gives: the least free number. *)
LEMMA OpenedEffect ==
  ASSUME NEW f, FilesDistinct(f),
         NEW h \in Holders \ {"terminal"}, ~Has(f, h),
         NEW x \in Holders \ {"terminal", h}, ~Has(f, x),
         h = "config" => ~Has(f, "database"),
         h = "database" => ~Has(f, "config")
  PROVE  /\ FilesDistinct(Opened(f, h))
         /\ \A y \in Holders : Has(Opened(f, h), y) <=> y = h \/ Has(f, y)
         /\ \E k \in Fds : /\ f[k] = "free" /\ \A n \in Fds : f[n] = "free" => k <= n
                           /\ Opened(f, h) = [f EXCEPT ![k] = h]
<1> DEFINE k == Lowest(f)
           g == [f EXCEPT ![k] = h]
<1>1. k \in Fds /\ f[k] = "free" /\ \A n \in Fds : f[n] = "free" => k <= n
  <2>1. Open(f, "free") \subseteq Nat /\ Open(f, "free") # {}
    BY OneIsFree, FirstFds DEF Open
  <2>2. \E n \in Open(f, "free") : \A m \in Open(f, "free") : n <= m
    BY <2>1, LeastDescriptor
  <2>3. Lowest(f) \in Open(f, "free") /\ \A m \in Open(f, "free") : Lowest(f) <= m
    BY <2>2 DEF Lowest
  <2> QED
    BY <2>3 DEF Open
<1>2. Opened(f, h) = g
  BY DEF Opened
<1> HIDE DEF k
<1>3. f \in [Fds -> Holders \cup {"free"}]
  BY DEF FilesDistinct
<1>4. \A n \in Fds : g[n] = IF n = k THEN h ELSE f[n]
  BY <1>1, <1>3
<1>5. g \in [Fds -> Holders \cup {"free"}]
  BY <1>1, <1>3
<1> HIDE DEF g
<1>6. \A y \in Holders : Has(g, y) <=> y = h \/ Has(f, y)
  <2> TAKE y \in Holders
  <2>1. ASSUME Has(g, y) PROVE y = h \/ Has(f, y)
    BY <2>1, <1>4 DEF Has
  <2>2. ASSUME y = h PROVE Has(g, y)
    BY <2>2, <1>1, <1>4 DEF Has
  <2>3. ASSUME Has(f, y) PROVE Has(g, y)
    <3>1. PICK n \in Fds : f[n] = y
      BY <2>3 DEF Has
    <3>2. n # k
      BY <3>1, <1>1 DEF Holders
    <3> QED
      BY <3>1, <3>2, <1>4 DEF Has
  <2> QED
    BY <2>1, <2>2, <2>3
<1>7. \A m, n \in Fds : g[m] = g[n] /\ g[m] \notin {"terminal", "free"} => m = n
  BY <1>4 DEF FilesDistinct, Has
<1>8. \A n \in Fds : g[n] = "terminal" => n <= 2
  BY <1>4 DEF FilesDistinct
<1>9. ~(Has(g, "config") /\ Has(g, "database"))
  BY <1>6 DEF FilesDistinct, Holders
<1> QED
  BY <1>1, <1>2, <1>5, <1>6, <1>7, <1>8, <1>9 DEF FilesDistinct, g

(* What close() gives. *)
LEMMA ClosedEffect ==
  ASSUME NEW f, FilesDistinct(f), NEW h \in Holders
  PROVE  /\ FilesDistinct(Closed(f, h))
         /\ \A y \in Holders : Has(Closed(f, h), y) <=> y # h /\ Has(f, y)
<1> DEFINE g == Closed(f, h)
<1>1. \A n \in Fds : g[n] = IF f[n] = h THEN "free" ELSE f[n]
  BY DEF Closed
<1>2. g \in [Fds -> Holders \cup {"free"}]
  BY DEF Closed, FilesDistinct
<1> HIDE DEF g
<1>3. \A y \in Holders : Has(g, y) <=> y # h /\ Has(f, y)
  BY <1>1 DEF Has, Holders
<1>4. FilesDistinct(g)
  BY <1>1, <1>2, <1>3 DEF FilesDistinct, Holders
<1> QED
  BY <1>3, <1>4 DEF g

(* A message may connect to syslogd again, and does not touch a descriptor *)
(* when the connection never broke.                                        *)
LEMMA ReconnectedEffect ==
  ASSUME NEW f, FilesDistinct(f)
  PROVE  /\ FilesDistinct(Reconnected(f))
         /\ \A y \in Holders \ {"syslog"} : Has(Reconnected(f), y) <=> Has(f, y)
         /\ (\A n \in 0 .. 2 : f[n] = "terminal") =>
              \A n \in 0 .. 2 : Reconnected(f)[n] = "terminal"
         /\ connected => Reconnected(f) = f
<1>1. CASE connected
  BY <1>1 DEF Reconnected
<1>2. CASE ~connected
  <2> DEFINE g == Closed(f, "syslog")
  <2>1. /\ FilesDistinct(g) /\ ~Has(g, "syslog")
        /\ \A y \in Holders \ {"syslog"} : Has(g, y) <=> Has(f, y)
    BY ClosedEffect DEF Holders
  <2>2. \A n \in 0 .. 2 : n \in Fds /\ (f[n] = "terminal" => g[n] = "terminal")
    BY FirstFds DEF Closed
  <2>3. CASE ~syslogd
    BY <1>2, <2>1, <2>2, <2>3 DEF Reconnected
  <2>4. CASE syslogd
    <3>1. Reconnected(f) = Opened(g, "syslog")
      BY <1>2, <2>4 DEF Reconnected
    <3> HIDE DEF g
    <3>2. \E x \in Holders \ {"terminal", "syslog"} : ~Has(g, x)
      BY <2>1 DEF FilesDistinct, Holders
    <3>3. /\ FilesDistinct(Opened(g, "syslog"))
          /\ \A y \in Holders : Has(Opened(g, "syslog"), y) <=> y = "syslog" \/ Has(g, y)
          /\ \E k \in Fds : /\ g[k] = "free"
                            /\ Opened(g, "syslog") = [g EXCEPT ![k] = "syslog"]
      <4>1. "syslog" \in Holders \ {"terminal"}
        BY DEF Holders
      <4>2. PICK x \in Holders \ {"terminal", "syslog"} : ~Has(g, x)
        BY <3>2
      <4> QED
        BY <4>1, <4>2, <2>1, OpenedEffect
    <3>4. g \in [Fds -> Holders \cup {"free"}]
      BY <2>1 DEF FilesDistinct
    <3>5. (\A n \in 0 .. 2 : f[n] = "terminal") =>
            \A n \in 0 .. 2 : Opened(g, "syslog")[n] = "terminal"
      BY <2>2, <3>3, <3>4
    <3> QED
      BY <1>2, <2>1, <3>1, <3>3, <3>5
  <2> QED
    BY <2>3, <2>4
<1> QED
  BY <1>1, <1>2

(* What a step leaves of the descriptors, when messages are given with the *)
(* files of f open.                                                        *)
FilesAs(f) ==
  /\ FilesDistinct(fds')
  /\ \A y \in Holders \ {"syslog"} : Has(fds', y) <=> Has(f, y)
  /\ (\A n \in 0 .. 2 : f[n] = "terminal") => \A n \in 0 .. 2 : fds'[n] = "terminal"
  /\ connected /\ syslogd => fds' = f /\ connected'
  /\ spilled' \subseteq spilled \cup {fds'[1]}
  /\ pending' \in BOOLEAN /\ connected' \in BOOLEAN /\ broken' = broken

LEMMA SaysEffect ==
  ASSUME TypeOK, NEW f, FilesDistinct(f),
         \/ Says(f) \/ SaysDebug(f) \/ SaysAndExits(f)
         \/ Echoes /\ f = fds
  PROVE  FilesAs(f)
<1>1. /\ pending \in BOOLEAN /\ connected \in BOOLEAN /\ syslogd \in BOOLEAN
  BY DEF TypeOK
<1>2. CASE Says(f)
  <2>1. fds' = Reconnected(f) /\ connected' = syslogd /\ broken' = broken
    BY <1>2 DEF Says
  <2>2. pending' \in BOOLEAN /\ spilled' \subseteq spilled \cup {fds'[1]}
    BY <1>1, <1>2, <2>1, Zenon DEF Says, Prints
  <2> QED
    BY <1>1, <2>1, <2>2, ReconnectedEffect DEF FilesAs
<1>3. CASE SaysDebug(f)
  <2>1. CASE logDebug > 0
    BY <1>2, <1>3, <2>1 DEF SaysDebug
  <2>2. CASE ~(logDebug > 0)
    BY <1>1, <1>3, <2>2 DEF SaysDebug, FilesAs
  <2> QED
    BY <2>1, <2>2
<1>4. CASE SaysAndExits(f)
  <2>1. fds' = Reconnected(f) /\ connected' = syslogd /\ broken' = broken
    BY <1>4 DEF SaysAndExits
  <2>2. pending' \in BOOLEAN /\ spilled' \subseteq spilled \cup {fds'[1]}
    BY <1>1, <1>4, <2>1 DEF SaysAndExits
  <2> QED
    BY <1>1, <2>1, <2>2, ReconnectedEffect DEF FilesAs
<1>5. CASE Echoes /\ f = fds
  <2>1. UNCHANGED <<fds, connected, broken>>
    BY <1>5 DEF Echoes
  <2>2. pending' \in BOOLEAN /\ spilled' \subseteq spilled \cup {fds'[1]}
    BY <1>1, <1>5, <2>1, Zenon DEF Echoes, Prints
  <2> QED
    BY <1>1, <1>5, <2>1, <2>2 DEF FilesAs
<1> QED
  BY <1>2, <1>3, <1>4, <1>5

--------------------------------------------------------------------------------
(* What the steps do to the variables of main. *)

LEMMA InitDaemon == Init => DaemonInv
<1> SUFFICES ASSUME Init PROVE DaemonInv
  OBVIOUS
<1> USE DEF Init
<1>1. ClockInv
  BY InitClock
<1>2. FilesOpen
  <2>1. \A n \in Fds : fds[n] = IF n <= 2 THEN "terminal" ELSE "free"
    OBVIOUS
  <2>2. fds \in [Fds -> Holders \cup {"free"}]
    BY DEF Holders
  <2>3. FilesDistinct(fds)
    BY <2>1, <2>2 DEF FilesDistinct, Has
  <2>4. step = "off"
    BY DEF ClockInit
  <2> QED
    BY <2>1, <2>3, <2>4 DEF FilesOpen, Has
<1>3. TypeOK
  <2>1. \A h \in Holders \ {"terminal"} : Cardinality({n \in Fds : fds[n] = h}) <= 1
    <3> TAKE h \in Holders \ {"terminal"}
    <3>1. {n \in Fds : fds[n] = h} = {}
      BY DEF Holders
    <3> QED
      BY <3>1, FS_EmptySet
  <2>2. fds \in [Fds -> Holders \cup {"free"}]
    BY DEF Holders
  <2>3. pc \in Stages
    BY StagesAre
  <2>4. debugFromarg \in BOOLEAN /\ foreground \in BOOLEAN
    OBVIOUS
  <2>5. pending \in BOOLEAN /\ connected \in BOOLEAN /\ syslogd \in BOOLEAN /\ broken \in BOOLEAN
    OBVIOUS
  <2>6. debug \in Nat /\ logDebug \in Nat /\ asked \in Levels \cup {-1} /\ spilled \subseteq Holders \cup {"free"}
    OBVIOUS
  <2>7. /\ self \in Processes /\ pidFile \in Processes \cup {"other", "empty"}
        /\ reader \in {"none", "open", "reads", "ended"}
    BY DEF Processes
  <2>8. pidFailed \in BOOLEAN
    OBVIOUS
  <2> QED
    BY <1>1, <2>1, <2>2, <2>3, <2>4, <2>5, <2>6, <2>7, <2>8, Zenon DEF TypeOK, ClockInv
<1>4. TerminalKept
  BY FirstFds DEF TerminalKept
<1>5. NumbersTaken
  BY FirstFds DEF NumbersTaken, MayBeOutput
<1>6. LevelKnown
  <2>1. ~debugFromarg /\ ~foreground
    OBVIOUS
  <2>2. asked = -1 /\ debug = 0 /\ pc = "options"
    OBVIOUS
  <2> QED
    BY <2>1, <2>2 DEF LevelKnown, DebugLevelFromCommandLine
<1>7. PidFileDated
  BY DEF PidFileDated, PidFileNamesDaemon, PidFilePassed, Processes
<1> QED
  BY <1>1, <1>2, <1>3, <1>4, <1>5, <1>6, <1>7 DEF DaemonInv

(* The actions of the two threads and of the environment. *)
ThreadSteps ==
  \/ OpenRing \/ ReportRecord \/ EndRing
  \/ StartLoop \/ WaitForWindow \/ MeasureWindow \/ CloseQueue \/ ReopenQueue
  \/ OpenEvidence \/ CloseEvidence \/ ReportActions \/ RunScript
  \/ EvaluateWindow \/ EndWindow

AroundSteps == SyslogdStops \/ SyslogdStarts \/ ClockIsSet

(* They leave the variables of main alone. *)
LEMMA MainUntouched ==
  ASSUME ThreadSteps \/ AroundSteps
  PROVE  UNCHANGED mainVars
BY DEF ThreadSteps, AroundSteps, OpenRing, ReportRecord, EndRing, StartLoop,
       WaitForWindow, MeasureWindow, CloseQueue, ReopenQueue, OpenEvidence,
       CloseEvidence, ReportActions, RunScript, EvaluateWindow, EndWindow,
       SyslogdStops, SyslogdStarts, ClockIsSet

(* Every step lets the clock take one of its steps, or stand still.        *)
LEMMA StepDaemonClock ==
  ASSUME DaemonInv, [Next]_vars
  PROVE  ClockInv'
<1>1. CASE ThreadSteps \/ AroundSteps
  BY <1>1, StepClock
     DEF DaemonInv, ThreadSteps, AroundSteps, ClockNext, OpenRing, ReportRecord,
         EndRing, StartLoop, WaitForWindow, MeasureWindow, CloseQueue, ReopenQueue,
         OpenEvidence, CloseEvidence, ReportActions, RunScript, EvaluateWindow,
         EndWindow, SyslogdStops, SyslogdStarts, ClockIsSet
<1>2. CASE ParseConfig
  BY <1>2, StepClock DEF DaemonInv, ParseConfig, ClockNext
<1>3. CASE OptionD \/ OptionF \/ OptionH \/ EndOptions \/ MsgInit \/ Daemonize
  BY <1>3, StepClock
     DEF DaemonInv, OptionD, OptionF, OptionH, EndOptions, MsgInit, Daemonize
<1>4. CASE OpenConfig \/ MakePidFile \/ InitActions \/ InitDatabase \/ RotateFirst \/
           InitQueue \/ StartThreads
  BY <1>4, StepClock
     DEF DaemonInv, OpenConfig, MakePidFile, InitActions, InitDatabase, RotateFirst,
         InitQueue, StartThreads
<1>5. CASE UNCHANGED vars
  BY <1>5, StepClock DEF DaemonInv, vars
<1> QED
  BY <1>1, <1>2, <1>3, <1>4, <1>5 DEF Next, Ended, ThreadSteps, AroundSteps

(* The level of messages is fixed when the options are read. *)
LEMMA StepLevel ==
  ASSUME DaemonInv, [Next]_vars
  PROVE  LevelKnown'
<1> USE DEF DaemonInv, LevelKnown, DebugLevelFromCommandLine, GoesOn, At, Stays,
            mainVars, pidVars
<1>1. CASE OptionD
  <2>1. debugFromarg'
    BY <1>1 DEF OptionD
  <2>2. asked' \in Nat /\ debug' = asked' /\ pc' = "options"
    BY <1>1, DaemonAssumption DEF OptionD
  <2> QED
    BY <2>1, <2>2
<1>2. CASE OptionF
  BY <1>2 DEF OptionF, ForegroundLevel
<1>3. CASE OptionH
  BY <1>3 DEF OptionH
<1>4. CASE EndOptions
  BY <1>4, AfterStages DEF EndOptions
<1>5. CASE MsgInit
  BY <1>5, AfterStages DEF MsgInit
<1>6. CASE Daemonize
  BY <1>6, AfterStages DEF Daemonize
<1>7. CASE OpenConfig
  BY <1>7, AfterStages DEF OpenConfig, SaysAndExits
<1>8. CASE ParseConfig
  BY <1>8, AfterStages DEF ParseConfig, SaysAndExits
<1>9. CASE MakePidFile
  BY <1>9, AfterStages DEF MakePidFile
<1>10. CASE InitActions \/ InitDatabase \/ RotateFirst \/ InitQueue \/ StartThreads
  BY <1>10, AfterStages
     DEF InitActions, InitDatabase, RotateFirst, InitQueue, StartThreads, SaysAndExits
<1>11. CASE ThreadSteps \/ AroundSteps
  BY <1>11, MainUntouched
<1>12. CASE UNCHANGED vars
  BY <1>12 DEF vars
<1> QED
  BY <1>1, <1>2, <1>3, <1>4, <1>5, <1>6, <1>7, <1>8, <1>9, <1>10, <1>11, <1>12
     DEF Next, Ended, ThreadSteps, AroundSteps

(* The pid file is written by the process that goes on, before the actions *)
(* are set up.                                                             *)
LEMMA StepPidFile ==
  ASSUME DaemonInv, [Next]_vars
  PROVE  PidFileDated'
<1> USE DEF DaemonInv, PidFileDated, PidFileNamesDaemon, PidFilePassed, BeforeFork,
            Processes, GoesOn, At, Stays, mainVars, pidVars
<1>1. CASE OptionD \/ OptionF \/ OptionH
  BY <1>1 DEF OptionD, OptionF, OptionH
<1>2. CASE EndOptions \/ MsgInit
  BY <1>2, AfterStages DEF EndOptions, MsgInit
<1>3. CASE Daemonize
  BY <1>3, AfterStages DEF Daemonize
<1>4. CASE OpenConfig \/ ParseConfig
  BY <1>4, AfterStages DEF OpenConfig, ParseConfig, SaysAndExits
<1>5. CASE MakePidFile
  BY <1>5, AfterStages DEF MakePidFile
<1>6. CASE InitActions \/ InitDatabase \/ RotateFirst \/ InitQueue \/ StartThreads
  BY <1>6, AfterStages
     DEF InitActions, InitDatabase, RotateFirst, InitQueue, StartThreads, SaysAndExits
<1>7. CASE ThreadSteps \/ AroundSteps
  BY <1>7, MainUntouched
<1>8. CASE UNCHANGED vars
  BY <1>8 DEF vars
<1> QED
  BY <1>1, <1>2, <1>3, <1>4, <1>5, <1>6, <1>7, <1>8
     DEF Next, Ended, ThreadSteps, AroundSteps

--------------------------------------------------------------------------------
(* What the steps do to the descriptors. *)

(* Numbers 0, 1 and 2 when a file is opened. *)
LEMMA OpenedNumbers ==
  ASSUME NEW f, FilesDistinct(f),
         NEW h \in Holders \ {"terminal"}, ~Has(f, h),
         NEW x \in Holders \ {"terminal", h}, ~Has(f, x),
         h = "config" => ~Has(f, "database"),
         h = "database" => ~Has(f, "config")
  PROVE  /\ \A n \in 0 .. 2 : f[n] = "terminal" => Opened(f, h)[n] = "terminal"
         /\ f[0] = "free" => Opened(f, h)[0] = h /\ Opened(f, h)[1] = f[1]
         /\ f[0] # "free" => Opened(f, h)[0] = f[0]
         /\ Opened(f, h)[1] \in {f[1], h}
<1>1. PICK k \in Fds : /\ f[k] = "free" /\ \A n \in Fds : f[n] = "free" => k <= n
                       /\ Opened(f, h) = [f EXCEPT ![k] = h]
  BY OpenedEffect
<1>2. f \in [Fds -> Holders \cup {"free"}]
  BY DEF FilesDistinct
<1>3. \A n \in Fds : Opened(f, h)[n] = IF n = k THEN h ELSE f[n]
  BY <1>1, <1>2
<1>4. 0 \in Fds /\ 1 \in Fds /\ 2 \in Fds /\ k \in Nat
  BY FirstFds
<1>5. f[0] = "free" => k = 0
  BY <1>1, <1>4
<1> QED
  BY <1>1, <1>3, <1>4, <1>5, FirstFds

(* Nothing is said: the files are those of f. *)
LEMMA QuietEffect ==
  ASSUME TypeOK, NEW f, FilesDistinct(f),
         fds' = f, UNCHANGED <<pending, connected, broken, spilled>>
  PROVE  FilesAs(f)
<1>1. pending' \in BOOLEAN /\ connected' \in BOOLEAN
  BY DEF TypeOK
<1> QED
  BY <1>1 DEF FilesAs

IoTyped ==
  /\ fds \in [Fds -> Holders \cup {"free"}]
  /\ \A h \in Holders \ {"terminal"} : Cardinality({n \in Fds : fds[n] = h}) <= 1
  /\ pending \in BOOLEAN /\ connected \in BOOLEAN /\ broken \in BOOLEAN
  /\ spilled \subseteq Holders \cup {"free"}

(* A file is open at most once. *)
LEMMA AtMostOnce ==
  ASSUME NEW f, FilesDistinct(f), NEW h \in Holders \ {"terminal"}
  PROVE  Cardinality({n \in Fds : f[n] = h}) <= 1
<1> DEFINE S == {n \in Fds : f[n] = h}
<1>1. CASE S = {}
  BY <1>1, FS_EmptySet
<1>2. CASE S # {}
  <2>1. PICK k \in S : TRUE
    BY <1>2
  <2>2. h \notin {"terminal", "free"}
    BY DEF Holders
  <2>3. S = {k}
    BY <2>1, <2>2 DEF FilesDistinct
  <2> HIDE DEF S
  <2>4. Cardinality(S) = 1
    BY <2>3, FS_Singleton
  <2> QED
    BY <2>4 DEF S
<1> QED
  BY <1>1, <1>2

LEMMA FilesTyped ==
  ASSUME FilesDistinct(fds'), spilled' \subseteq Holders \cup {"free"},
         pending' \in BOOLEAN, connected' \in BOOLEAN, broken' \in BOOLEAN
  PROVE  IoTyped'
<1>1. \A h \in Holders \ {"terminal"} : Cardinality({n \in Fds : fds'[n] = h}) <= 1
  BY AtMostOnce
<1>2. fds' \in [Fds -> Holders \cup {"free"}]
  BY DEF FilesDistinct
<1> QED
  BY <1>1, <1>2, Zenon DEF IoTyped

(* After the fork, with the files of f open. *)
LEMMA AfterFork ==
  ASSUME DaemonInv, pc \notin BeforeFork, pc' \notin BeforeFork,
         UNCHANGED <<foreground, syslogd>>,
         NEW f, FilesAs(f),
         \A n \in 0 .. 2 : fds[n] = "terminal" => f[n] = "terminal",
         ~broken => f[1] \in MayBeOutput,
         ~broken /\ ~foreground =>
           /\ pc' \in {"config", "pid_file", "actions", "database"} => f[0] = "free"
           /\ pc' = "parse" => f[0] = "config"
           /\ pc' \in {"rotate", "queue", "threads", "running"} => f[0] = "database"
  PROVE  IoTyped' /\ TerminalKept' /\ NumbersTaken'
<1>1. IoTyped'
  <2>1. fds' \in [Fds -> Holders \cup {"free"}] /\ 1 \in Fds
    BY FirstFds DEF FilesAs, FilesDistinct
  <2>2. spilled' \subseteq Holders \cup {"free"}
    BY <2>1 DEF FilesAs, DaemonInv, TypeOK
  <2>3. broken' \in BOOLEAN
    BY Zenon DEF FilesAs, DaemonInv, TypeOK
  <2> QED
    BY <2>2, <2>3, FilesTyped DEF FilesAs
<1>2. TerminalKept'
  <2> SUFFICES ASSUME foreground
               PROVE  /\ \A n \in 0 .. 2 : fds'[n] = "terminal"
                      /\ spilled' \subseteq {"terminal"}
    BY DEF TerminalKept
  <2>1. (\A n \in 0 .. 2 : fds[n] = "terminal") /\ spilled \subseteq {"terminal"}
    BY DEF DaemonInv, TerminalKept
  <2>2. \A n \in 0 .. 2 : fds'[n] = "terminal"
    BY <2>1 DEF FilesAs
  <2>3. fds'[1] = "terminal"
    BY <2>2
  <2> QED
    BY <2>1, <2>2, <2>3 DEF FilesAs
<1>3. NumbersTaken'
  <2> SUFFICES ASSUME ~broken
               PROVE  NumbersTaken'
    BY DEF FilesAs, NumbersTaken
  <2>1. connected /\ syslogd /\ spilled \subseteq MayBeOutput
    BY DEF DaemonInv, NumbersTaken, BeforeFork
  <2>2. fds' = f /\ connected' /\ syslogd'
    BY <2>1 DEF FilesAs
  <2>3. spilled' \subseteq MayBeOutput
    BY <2>1, <2>2 DEF FilesAs
  <2> QED
    BY <2>2, <2>3 DEF NumbersTaken
<1> QED
  BY <1>1, <1>2, <1>3

LEMMA HolderNames ==
  /\ "syslog" \in Holders \ {"terminal"} /\ "config" \in Holders \ {"terminal"}
  /\ "database" \in Holders \ {"terminal"} /\ "queue" \in Holders \ {"terminal"}
  /\ "ring" \in Holders \ {"terminal"} /\ "evidence" \in Holders \ {"terminal"}
BY DEF Holders

(* The options, and the connection to syslogd: the terminal is 0, 1 and 2. *)
LEMMA StepOptions ==
  ASSUME DaemonInv, OptionD \/ OptionF \/ OptionH \/ EndOptions \/ MsgInit
  PROVE  IoTyped' /\ FilesOpen' /\ TerminalKept' /\ NumbersTaken'
<1>1. /\ pc \in {"options", "msg_init"} /\ step = "off" /\ step' = step
      /\ UNCHANGED <<reader, syslogd>> /\ reader = "none"
  BY DEF OptionD, OptionF, OptionH, EndOptions, MsgInit, At, Idle, clockVars,
         DaemonInv, FilesOpen
<1>2. /\ FilesDistinct(fds) /\ ~Has(fds, "syslog") /\ ~Has(fds, "config")
      /\ ~Has(fds, "database") /\ ~Has(fds, "queue") /\ ~Has(fds, "ring")
      /\ ~Has(fds, "evidence")
  BY <1>1 DEF DaemonInv, FilesOpen
<1>3. /\ \A n \in 0 .. 2 : fds[n] = "terminal"
      /\ fds[1] = "terminal" /\ fds[2] = "terminal"
      /\ spilled \subseteq {"terminal"}
  <2>1. (\A n \in 0 .. 2 : fds[n] = "terminal") /\ spilled \subseteq {"terminal"}
    BY <1>1 DEF DaemonInv, TerminalKept, BeforeFork
  <2> QED
    BY <2>1
<1>4. /\ pending \in BOOLEAN /\ connected \in BOOLEAN /\ broken \in BOOLEAN
      /\ syslogd \in BOOLEAN
  BY DEF DaemonInv, TypeOK
<1>5. CASE OptionD \/ OptionF \/ EndOptions
  <2>1. /\ UNCHANGED <<fds, pending, connected, broken, spilled>>
        /\ pc' \in {"options", "msg_init"}
    BY <1>5, AfterStages DEF OptionD, OptionF, EndOptions, At, GoesOn, ioVars
  <2>2. IoTyped'
    BY <1>2, <1>3, <1>4, <2>1, FilesTyped DEF Holders
  <2>3. FilesOpen'
    BY <1>1, <1>2, <2>1 DEF FilesOpen
  <2>4. TerminalKept' /\ NumbersTaken'
    BY <1>3, <2>1 DEF MayBeOutput, TerminalKept, NumbersTaken
  <2> QED
    BY <2>2, <2>3, <2>4
<1>6. CASE OptionH \/ MsgInit
  <2> DEFINE g == Opened(fds, "syslog")
  <2>1. /\ FilesDistinct(g)
        /\ \A y \in Holders : Has(g, y) <=> y = "syslog" \/ Has(fds, y)
        /\ \A n \in 0 .. 2 : g[n] = "terminal"
    BY <1>2, <1>3, HolderNames, OpenedEffect, OpenedNumbers
  <2>2. fds' = IF syslogd THEN g ELSE fds
    BY <1>6 DEF OptionH, MsgInit, OpenLog
  <2> HIDE DEF g
  <2>3. /\ FilesDistinct(fds')
        /\ \A y \in Holders : Has(fds', y) <=> (y = "syslog" /\ syslogd) \/ Has(fds, y)
        /\ \A n \in 0 .. 2 : fds'[n] = "terminal"
    BY <1>2, <1>3, <2>1, <2>2, HolderNames
  <2>4. spilled' \subseteq {"terminal"}
    BY <1>3, <1>6 DEF OptionH, MsgInit
  <2>5. pc' \in {"exited", "daemonize"}
    BY <1>6, AfterStages DEF OptionH, MsgInit, At, GoesOn
  <2>6. connected' <=> syslogd
    <3>1. CASE OptionH
      BY <3>1 DEF OptionH
    <3>2. CASE MsgInit
      <4>1. connected' = ("syslog" \in {fds'[n] : n \in Fds})
        BY <3>2 DEF MsgInit
      <4>2. ("syslog" \in {fds'[n] : n \in Fds}) <=> Has(fds', "syslog")
        BY DEF Has
      <4>3. Has(fds', "syslog") <=> syslogd
        BY <1>2, <2>3, HolderNames
      <4> QED
        BY <4>1, <4>2, <4>3
    <3> QED
      BY <1>6, <3>1, <3>2
  <2>7. broken' = ~syslogd
    BY <1>6 DEF OptionH, MsgInit
  <2>8. IoTyped'
    <3>1. pending' \in BOOLEAN /\ broken' \in BOOLEAN
      BY <1>4, <1>6, <2>7, Zenon DEF OptionH, MsgInit
    <3>2. CASE OptionH
      <4>1. connected' \in BOOLEAN
        BY <1>4, <3>2, Zenon DEF OptionH
      <4> QED
        BY <2>3, <2>4, <3>1, <4>1, FilesTyped DEF Holders
    <3>3. CASE MsgInit
      <4> DEFINE made == "syslog" \in {OpenLog(fds)[n] : n \in Fds}
      <4>1. connected' \in BOOLEAN
        <5>1. made \in BOOLEAN
          OBVIOUS
        <5>2. connected' = made
          BY <3>3 DEF MsgInit
        <5> HIDE DEF made
        <5> QED
          BY <5>1, <5>2
      <4> QED
        BY <2>3, <2>4, <3>1, <4>1, FilesTyped DEF Holders
    <3> QED
      BY <1>6, <3>2, <3>3
  <2>9. FilesOpen'
    BY <1>1, <1>2, <2>3, <2>5, HolderNames DEF FilesOpen
  <2>10. TerminalKept'
    BY <2>3, <2>4 DEF TerminalKept
  <2>11. NumbersTaken'
    <3>1. fds'[1] = "terminal"
      BY <2>3
    <3>2. ~broken' => connected' /\ syslogd'
      BY <1>1, <2>6, <2>7
    <3> QED
      BY <2>4, <2>5, <3>1, <3>2 DEF MayBeOutput, NumbersTaken
  <2> QED
    BY <2>8, <2>9, <2>10, <2>11
<1> QED
  BY <1>5, <1>6

(* The fork: a daemon leaves 0, 1 and 2 closed. *)
LEMMA StepDaemonize ==
  ASSUME DaemonInv, Daemonize
  PROVE  IoTyped' /\ FilesOpen' /\ TerminalKept' /\ NumbersTaken'
<1>1. /\ pc = "daemonize" /\ step = "off" /\ step' = step
      /\ UNCHANGED <<reader, syslogd, foreground>> /\ reader = "none"
  BY DEF Daemonize, At, Idle, clockVars, DaemonInv, FilesOpen
<1>2. /\ FilesDistinct(fds) /\ ~Has(fds, "config")
      /\ ~Has(fds, "database") /\ ~Has(fds, "queue") /\ ~Has(fds, "ring")
      /\ ~Has(fds, "evidence")
  BY <1>1 DEF DaemonInv, FilesOpen
<1>3. /\ \A n \in 0 .. 2 : fds[n] = "terminal"
      /\ fds[1] = "terminal" /\ fds[2] = "terminal"
      /\ spilled \subseteq {"terminal"}
  <2>1. (\A n \in 0 .. 2 : fds[n] = "terminal") /\ spilled \subseteq {"terminal"}
    BY <1>1 DEF DaemonInv, TerminalKept, BeforeFork
  <2> QED
    BY <2>1
<1>4. /\ pending' \in BOOLEAN /\ connected' \in BOOLEAN /\ broken' \in BOOLEAN
  BY Zenon DEF DaemonInv, TypeOK, Daemonize, ioVars
<1>5. ~broken => connected /\ syslogd
  BY <1>1 DEF DaemonInv, NumbersTaken
<1>6. connected' = connected /\ broken' = broken
  BY DEF Daemonize, ioVars
<1>7. spilled' \subseteq {"terminal"}
  BY <1>3 DEF Daemonize, ioVars
<1>8. CASE fds' = fds /\ pc' \in {"config", "exited"} /\ (foreground \/ pc' = "exited")
  <2>1. IoTyped'
    BY <1>2, <1>4, <1>7, <1>8, FilesTyped DEF Holders
  <2>2. FilesOpen'
    BY <1>1, <1>2, <1>8 DEF FilesOpen
  <2>3. TerminalKept' /\ NumbersTaken'
    BY <1>1, <1>3, <1>5, <1>6, <1>7, <1>8 DEF MayBeOutput, TerminalKept, NumbersTaken
  <2> QED
    BY <2>1, <2>2, <2>3
<1>9. CASE /\ fds' = [n \in Fds |-> IF n <= 2 THEN "free" ELSE fds[n]]
           /\ pc' = "config" /\ ~foreground
  <2>1. \A n \in Fds : fds'[n] = IF n <= 2 THEN "free" ELSE fds[n]
    BY <1>9
  <2>2. \A y \in Holders \ {"syslog"} : Has(fds', y) => Has(fds, y)
    BY <2>1 DEF Has, Holders
  <2>3. FilesDistinct(fds')
    BY <1>2, <1>9, <2>1, <2>2, HolderNames DEF FilesDistinct
  <2>4. fds'[0] = "free" /\ fds'[1] = "free"
    BY <2>1, FirstFds
  <2>5. IoTyped'
    BY <1>4, <1>7, <2>3, FilesTyped DEF Holders
  <2>6. FilesOpen'
    BY <1>1, <1>2, <1>9, <2>2, <2>3, HolderNames DEF FilesOpen
  <2>7. TerminalKept' /\ NumbersTaken'
    BY <1>1, <1>5, <1>6, <1>7, <1>9, <2>4
       DEF MayBeOutput, TerminalKept, NumbersTaken, BeforeFork
  <2> QED
    BY <2>5, <2>6, <2>7
<1> QED
  BY <1>1, <1>8, <1>9, AfterStages DEF Daemonize, GoesOn, ioVars

(* Steps of main after the fork that give messages with the files of f     *)
(* open: what f must be, for the step to keep the invariants.              *)
FilesGoOn(f) ==
  /\ FilesDistinct(f)
  /\ Has(f, "config") => pc' = "parse"
  /\ Has(f, "database") => pc' \in {"rotate", "queue", "threads", "running", "exited"}
  /\ Has(f, "queue") => pc' \in {"threads", "running", "exited"} /\ step' # "open"
  /\ Has(f, "ring") => reader' = "reads"
  /\ Has(f, "evidence") => pc' = "running" /\ step' = "evaluate"
  /\ \A n \in 0 .. 2 : fds[n] = "terminal" => f[n] = "terminal"
  /\ ~broken => f[1] \in MayBeOutput
  /\ ~broken /\ ~foreground =>
       /\ pc' \in {"config", "pid_file", "actions", "database"} => f[0] = "free"
       /\ pc' = "parse" => f[0] = "config"
       /\ pc' \in {"rotate", "queue", "threads", "running"} => f[0] = "database"

LEMMA FilesKept ==
  ASSUME DaemonInv, pc \notin BeforeFork, pc' \notin BeforeFork,
         UNCHANGED <<foreground, syslogd>>,
         reader' # "none" \/ step' # "off" => pc' = "running",
         NEW f, FilesGoOn(f), FilesAs(f)
  PROVE  IoTyped' /\ FilesOpen' /\ TerminalKept' /\ NumbersTaken'
<1>1. IoTyped' /\ TerminalKept' /\ NumbersTaken'
  BY AfterFork DEF FilesGoOn
<1>2. FilesOpen'
  BY HolderNames DEF FilesAs, FilesGoOn, FilesOpen, BeforeFork
<1> QED
  BY <1>1, <1>2

(* The configuration file takes number 0 in a daemon. *)
LEMMA StepOpenConfig ==
  ASSUME DaemonInv, OpenConfig
  PROVE  IoTyped' /\ FilesOpen' /\ TerminalKept' /\ NumbersTaken'
<1> USE DEF DaemonInv
<1>1. /\ pc = "config" /\ step = "off" /\ step' = step /\ reader = "none"
      /\ UNCHANGED <<reader, syslogd, foreground>>
      /\ ~Has(fds, "config") /\ ~Has(fds, "database") /\ ~Has(fds, "queue")
      /\ ~Has(fds, "ring") /\ ~Has(fds, "evidence") /\ FilesDistinct(fds)
  BY DEF OpenConfig, At, Idle, Stays, clockVars, FilesOpen
<1>2. /\ ~broken => fds[1] \in MayBeOutput
      /\ ~broken /\ ~foreground => fds[0] = "free"
      /\ foreground => fds[0] = "terminal" /\ fds[1] = "terminal"
  BY <1>1 DEF NumbersTaken, TerminalKept
<1>3. CASE /\ pc' = "parse" /\ fds' = Opened(fds, "config")
           /\ UNCHANGED <<pending, connected, broken, spilled>>
  <2> DEFINE g == Opened(fds, "config")
  <2>1. /\ FilesDistinct(g)
        /\ \A y \in Holders : Has(g, y) <=> y = "config" \/ Has(fds, y)
    BY <1>1, HolderNames, OpenedEffect
  <2>2. /\ \A n \in 0 .. 2 : fds[n] = "terminal" => g[n] = "terminal"
        /\ fds[0] = "free" => g[0] = "config" /\ g[1] = fds[1]
    BY <1>1, HolderNames, OpenedNumbers
  <2>3. foreground => g[1] = "terminal"
    BY <1>2, <2>2
  <2> HIDE DEF g
  <2>4. FilesGoOn(g)
    BY <1>1, <1>2, <1>3, <2>1, <2>2, <2>3, HolderNames DEF FilesGoOn
  <2>5. FilesAs(g)
    BY <1>3, <2>1, QuietEffect DEF g
  <2> QED
    BY <1>1, <1>3, <2>4, <2>5, FilesKept DEF BeforeFork
<1>4. CASE SaysAndExits(fds)
  <2>1. pc' = "exited"
    BY <1>4 DEF SaysAndExits
  <2>2. FilesGoOn(fds) /\ FilesAs(fds)
    BY <1>1, <1>2, <1>4, <2>1, SaysEffect DEF FilesGoOn
  <2> QED
    BY <1>1, <2>1, <2>2, FilesKept DEF BeforeFork
<1> QED
  BY <1>1, <1>3, <1>4, AfterStages DEF OpenConfig, GoesOn

LEMMA StepParseConfig ==
  ASSUME DaemonInv, ParseConfig
  PROVE  IoTyped' /\ FilesOpen' /\ TerminalKept' /\ NumbersTaken'
<1> USE DEF DaemonInv
<1> DEFINE g == Closed(fds, "config")
<1>1. /\ pc = "parse" /\ step = "off" /\ step' = step /\ reader = "none"
      /\ UNCHANGED <<reader, syslogd, foreground>>
      /\ ~Has(fds, "database") /\ ~Has(fds, "queue")
      /\ ~Has(fds, "ring") /\ ~Has(fds, "evidence") /\ FilesDistinct(fds)
  BY DEF ParseConfig, Configure, At, Idle, FilesOpen, clockVars
<1>2. /\ ~broken => fds[1] \in MayBeOutput
      /\ ~broken /\ ~foreground => fds[0] = "config"
  BY <1>1 DEF NumbersTaken, TerminalKept
<1>3. /\ FilesDistinct(g)
      /\ \A y \in Holders : Has(g, y) <=> y # "config" /\ Has(fds, y)
  BY <1>1, HolderNames, ClosedEffect
<1>4. \A n \in Fds : g[n] = IF fds[n] = "config" THEN "free" ELSE fds[n]
  BY DEF Closed
<1> HIDE DEF g
<1>5. /\ \A n \in 0 .. 2 : fds[n] = "terminal" => g[n] = "terminal"
      /\ g[1] = fds[1] \/ g[1] = "free"
      /\ ~broken /\ ~foreground => g[0] = "free"
  BY <1>2, <1>4, FirstFds
<1>6. CASE pc' = pc /\ (Says(fds) \/ Echoes)
  <2>1. FilesGoOn(fds) /\ FilesAs(fds)
    BY <1>1, <1>2, <1>6, SaysEffect DEF FilesGoOn
  <2> QED
    BY <1>1, <1>6, <2>1, FilesKept DEF BeforeFork
<1>7. CASE pc' \in {"pid_file", "exited"} /\ (Says(g) \/ SaysAndExits(g))
  <2>1. FilesGoOn(g) /\ FilesAs(g)
    BY <1>1, <1>2, <1>3, <1>5, <1>7, SaysEffect, HolderNames DEF MayBeOutput, FilesGoOn
  <2> QED
    BY <1>1, <1>7, <2>1, FilesKept DEF BeforeFork
<1>8. SaysAndExits(g) => pc' = "exited"
  BY DEF SaysAndExits
<1> QED
  BY <1>1, <1>6, <1>7, <1>8, AfterStages DEF ParseConfig, GoesOn, g

(* The steps of main that open and close nothing. *)
LEMMA StepWithSameFiles ==
  ASSUME DaemonInv, MakePidFile \/ InitActions \/ RotateFirst \/ StartThreads
  PROVE  IoTyped' /\ FilesOpen' /\ TerminalKept' /\ NumbersTaken'
<1> USE DEF DaemonInv
<1>1. /\ pc \in {"pid_file", "actions", "rotate", "threads"}
      /\ step = "off" /\ step' = step /\ reader = "none"
      /\ UNCHANGED <<syslogd, foreground>> /\ FilesDistinct(fds)
      /\ ~Has(fds, "config") /\ ~Has(fds, "ring") /\ ~Has(fds, "evidence")
  BY DEF MakePidFile, InitActions, RotateFirst, StartThreads, At, Idle, Stays,
         clockVars, FilesOpen
<1>2. \/ pc = "pid_file" /\ pc' = "actions" /\ reader' = reader
      \/ pc = "actions" /\ pc' \in {"database", "exited"} /\ reader' = reader
      \/ pc = "rotate" /\ pc' = "queue" /\ reader' = reader
      \/ pc = "threads" /\ pc' = "exited" /\ reader' = reader
      \/ pc = "threads" /\ pc' = "running" /\ reader' = "open"
  BY AfterStages
     DEF MakePidFile, InitActions, RotateFirst, StartThreads, At, GoesOn, Idle,
         SaysAndExits
<1>3. FilesAs(fds)
  <2>1. UNCHANGED ioVars \/ Says(fds) \/ SaysDebug(fds) \/ SaysAndExits(fds)
    BY DEF MakePidFile, InitActions, RotateFirst, StartThreads
  <2> QED
    BY <1>1, <2>1, SaysEffect, QuietEffect DEF ioVars
<1>4. FilesGoOn(fds)
  BY <1>1, <1>2 DEF FilesGoOn, FilesOpen, NumbersTaken
<1> QED
  BY <1>1, <1>2, <1>3, <1>4, FilesKept DEF BeforeFork

(* The database takes number 0 in a daemon. *)
LEMMA StepInitDatabase ==
  ASSUME DaemonInv, InitDatabase
  PROVE  IoTyped' /\ FilesOpen' /\ TerminalKept' /\ NumbersTaken'
<1> USE DEF DaemonInv
<1> DEFINE g == Opened(fds, "database")
<1>1. /\ pc = "database" /\ step = "off" /\ step' = step /\ reader = "none"
      /\ UNCHANGED <<reader, syslogd, foreground>>
      /\ ~Has(fds, "config") /\ ~Has(fds, "database") /\ ~Has(fds, "queue")
      /\ ~Has(fds, "ring") /\ ~Has(fds, "evidence") /\ FilesDistinct(fds)
  BY DEF InitDatabase, At, Idle, Stays, clockVars, FilesOpen
<1>2. /\ ~broken => fds[1] \in MayBeOutput
      /\ ~broken /\ ~foreground => fds[0] = "free"
      /\ foreground => fds[0] = "terminal" /\ fds[1] = "terminal"
  BY <1>1 DEF NumbersTaken, TerminalKept
<1>3. /\ FilesDistinct(g)
      /\ \A y \in Holders : Has(g, y) <=> y = "database" \/ Has(fds, y)
  BY <1>1, HolderNames, OpenedEffect
<1>4. /\ \A n \in 0 .. 2 : fds[n] = "terminal" => g[n] = "terminal"
      /\ fds[0] = "free" => g[0] = "database" /\ g[1] = fds[1]
  BY <1>1, HolderNames, OpenedNumbers
<1>5. foreground => g[1] = "terminal"
  BY <1>2, <1>4
<1> HIDE DEF g
<1>6. CASE pc' = "rotate" /\ Says(g)
  <2>1. FilesGoOn(g)
    BY <1>1, <1>2, <1>3, <1>4, <1>5, <1>6, HolderNames DEF FilesGoOn
  <2>2. FilesAs(g)
    BY <1>3, <1>6, SaysEffect
  <2> QED
    BY <1>1, <1>6, <2>1, <2>2, FilesKept DEF BeforeFork
<1>7. CASE SaysAndExits(fds)
  <2>1. pc' = "exited"
    BY <1>7 DEF SaysAndExits
  <2>2. FilesGoOn(fds) /\ FilesAs(fds)
    BY <1>1, <1>2, <1>7, <2>1, SaysEffect DEF FilesGoOn
  <2> QED
    BY <1>1, <2>1, <2>2, FilesKept DEF BeforeFork
<1>8. CASE SaysAndExits(g)
  <2>1. pc' = "exited"
    BY <1>8 DEF SaysAndExits
  <2>2. FilesGoOn(g) /\ FilesAs(g)
    BY <1>1, <1>2, <1>3, <1>4, <1>5, <1>8, <2>1, SaysEffect, HolderNames DEF FilesGoOn
  <2> QED
    BY <1>1, <2>1, <2>2, FilesKept DEF BeforeFork
<1> QED
  BY <1>1, <1>6, <1>7, <1>8, AfterStages DEF InitDatabase, GoesOn, g

(* The queue file takes number 1 in a daemon: 0 is the database.           *)
LEMMA StepInitQueue ==
  ASSUME DaemonInv, InitQueue
  PROVE  IoTyped' /\ FilesOpen' /\ TerminalKept' /\ NumbersTaken'
<1> USE DEF DaemonInv
<1> DEFINE g == Opened(fds, "queue")
<1>1. /\ pc = "queue" /\ step = "off" /\ step' = step /\ reader = "none"
      /\ UNCHANGED <<reader, syslogd, foreground>>
      /\ ~Has(fds, "config") /\ ~Has(fds, "queue")
      /\ ~Has(fds, "ring") /\ ~Has(fds, "evidence") /\ FilesDistinct(fds)
  BY DEF InitQueue, At, Idle, Stays, clockVars, FilesOpen
<1>2. /\ ~broken => fds[1] \in MayBeOutput
      /\ ~broken /\ ~foreground => fds[0] = "database"
  BY <1>1 DEF NumbersTaken, TerminalKept
<1>3. CASE /\ pc' = "threads" /\ fds' = g
           /\ UNCHANGED <<pending, connected, broken, spilled>>
  <2>1. /\ FilesDistinct(g)
        /\ \A y \in Holders : Has(g, y) <=> y = "queue" \/ Has(fds, y)
    BY <1>1, HolderNames, OpenedEffect
  <2>2. /\ \A n \in 0 .. 2 : fds[n] = "terminal" => g[n] = "terminal"
        /\ fds[0] # "free" => g[0] = fds[0]
        /\ g[1] \in {fds[1], "queue"}
    BY <1>1, HolderNames, OpenedNumbers
  <2> HIDE DEF g
  <2>3. FilesGoOn(g)
    BY <1>1, <1>2, <1>3, <2>1, <2>2, HolderNames DEF MayBeOutput, FilesGoOn
  <2>4. FilesAs(g)
    BY <1>3, <2>1, QuietEffect
  <2> QED
    BY <1>1, <1>3, <2>3, <2>4, FilesKept DEF BeforeFork
<1>4. CASE SaysAndExits(fds)
  <2>1. pc' = "exited"
    BY <1>4 DEF SaysAndExits
  <2>2. FilesGoOn(fds) /\ FilesAs(fds)
    BY <1>1, <1>2, <1>4, <2>1, SaysEffect DEF FilesGoOn
  <2> QED
    BY <1>1, <2>1, <2>2, FilesKept DEF BeforeFork
<1> QED
  BY <1>1, <1>3, <1>4, AfterStages DEF InitQueue, GoesOn, g

(* The two threads: the ring, the queue file and the files of actions are  *)
(* opened and closed while the database keeps its number.                  *)
ThreadsInv == IoTyped /\ FilesOpen /\ TerminalKept /\ NumbersTaken

LEMMA ThreadFacts ==
  ASSUME DaemonInv, ThreadSteps
  PROVE  /\ pc = "running" /\ pc' = "running"
         /\ UNCHANGED <<syslogd, foreground>>
         /\ FilesDistinct(fds) /\ ~Has(fds, "config")
         /\ ~broken => fds[1] \in MayBeOutput
         /\ ~broken /\ ~foreground => fds[0] = "database"
         /\ Has(fds, "queue") => step # "open"
         /\ Has(fds, "ring") => reader = "reads"
         /\ Has(fds, "evidence") => step = "evaluate"
<1>1. pc = "running" /\ UNCHANGED <<pc, foreground>>
  BY MainUntouched
     DEF ThreadSteps, OpenRing, ReportRecord, EndRing, StartLoop, WaitForWindow,
         MeasureWindow, CloseQueue, ReopenQueue, OpenEvidence, CloseEvidence,
         ReportActions, RunScript, EvaluateWindow, EndWindow, Running, At, mainVars
<1>2. UNCHANGED syslogd
  BY DEF ThreadSteps, OpenRing, ReportRecord, EndRing, StartLoop, WaitForWindow,
         MeasureWindow, CloseQueue, ReopenQueue, OpenEvidence, CloseEvidence,
         ReportActions, RunScript, EvaluateWindow, EndWindow, Idle
<1> QED
  BY <1>1, <1>2 DEF DaemonInv, FilesOpen, NumbersTaken

(* A file is opened. *)
LEMMA ThreadOpens ==
  ASSUME DaemonInv, ThreadSteps, NEW h \in {"queue", "ring", "evidence"},
         ~Has(fds, h), FilesAs(Opened(fds, h)),
         h = "ring" => reader' = "reads" /\ UNCHANGED step,
         h = "queue" => step' = "evaluate" /\ UNCHANGED reader,
         h = "evidence" => step = "evaluate" /\ UNCHANGED <<step, reader>>,
         step # step' => ~Has(fds, "evidence")
  PROVE  ThreadsInv'
<1> DEFINE g == Opened(fds, h)
<1>1. /\ FilesDistinct(g)
      /\ \A y \in Holders : Has(g, y) <=> y = h \/ Has(fds, y)
  BY ThreadFacts, HolderNames, OpenedEffect
<1>2. /\ \A n \in 0 .. 2 : fds[n] = "terminal" => g[n] = "terminal"
      /\ fds[0] # "free" => g[0] = fds[0]
      /\ g[1] \in {fds[1], h}
  BY ThreadFacts, HolderNames, OpenedNumbers
<1>3. FilesAs(g)
  OBVIOUS
<1> HIDE DEF g
<1>4. ~broken => g[1] \in MayBeOutput
  BY <1>2, ThreadFacts DEF MayBeOutput
<1>5. FilesGoOn(g)
  BY <1>1, <1>2, <1>4, ThreadFacts, HolderNames DEF FilesGoOn
<1> QED
  BY <1>3, <1>5, ThreadFacts, FilesKept DEF BeforeFork, ThreadsInv

(* No file is opened or closed. *)
LEMMA ThreadKeeps ==
  ASSUME DaemonInv, ThreadSteps, FilesAs(fds),
         step' = "open" => ~Has(fds, "queue"),
         Has(fds, "ring") => reader' = "reads",
         Has(fds, "evidence") => step' = "evaluate"
  PROVE  ThreadsInv'
<1>1. FilesGoOn(fds)
  BY ThreadFacts DEF FilesGoOn
<1> QED
  BY <1>1, ThreadFacts, FilesKept DEF BeforeFork, ThreadsInv

(* A file is closed. *)
LEMMA ThreadCloses ==
  ASSUME DaemonInv, ThreadSteps, NEW h \in {"queue", "ring", "evidence"},
         FilesAs(Closed(fds, h)),
         h = "ring" => reader' = "ended" /\ UNCHANGED step,
         h # "ring" => UNCHANGED reader,
         h = "queue" => step' = "open" /\ ~Has(fds, "evidence"),
         h = "evidence" => UNCHANGED step
  PROVE  ThreadsInv'
<1> DEFINE g == Closed(fds, h)
<1>1. /\ FilesDistinct(g)
      /\ \A y \in Holders : Has(g, y) <=> y # h /\ Has(fds, y)
  BY ThreadFacts, HolderNames, ClosedEffect
<1>2. \A n \in Fds : g[n] = IF fds[n] = h THEN "free" ELSE fds[n]
  BY DEF Closed
<1>3. FilesAs(g)
  OBVIOUS
<1> HIDE DEF g
<1>4. /\ \A n \in 0 .. 2 : fds[n] = "terminal" => g[n] = "terminal"
      /\ ~broken => g[1] \in MayBeOutput
      /\ ~broken /\ ~foreground => g[0] = "database"
  BY <1>2, ThreadFacts, FirstFds DEF MayBeOutput
<1>5. FilesGoOn(g)
  BY <1>1, <1>4, ThreadFacts, HolderNames DEF FilesGoOn
<1> QED
  BY <1>3, <1>5, ThreadFacts, FilesKept DEF BeforeFork, ThreadsInv

LEMMA StepThreads ==
  ASSUME DaemonInv, ThreadSteps
  PROVE  ThreadsInv'
<1> USE DEF DaemonInv
<1>1. TypeOK /\ FilesDistinct(fds)
  BY ThreadFacts
<1>2. CASE OpenRing
  <2>1. reader = "open" /\ UNCHANGED step /\ ~Has(fds, "ring")
    BY <1>2, ThreadFacts DEF OpenRing, clockVars
  <2>2. CASE reader' = "reads" /\ Says(Opened(fds, "ring"))
    <3>1. FilesDistinct(Opened(fds, "ring"))
      BY <2>1, ThreadFacts, HolderNames, OpenedEffect
    <3>2. FilesAs(Opened(fds, "ring"))
      BY <1>1, <2>2, <3>1, SaysEffect
    <3> QED
      BY <2>1, <2>2, <3>2, ThreadOpens
  <2>3. CASE reader' = "ended" /\ Says(fds)
    <3>1. FilesAs(fds)
      BY <1>1, <2>3, SaysEffect
    <3> QED
      BY <2>1, <3>1, ThreadFacts, ThreadKeeps
  <2> QED
    BY <1>2, <2>2, <2>3 DEF OpenRing
<1>3. CASE ReportRecord \/ ReportActions
  <2>1. UNCHANGED <<reader, step>> /\ Says(fds)
    BY <1>3 DEF ReportRecord, ReportActions, Idle, clockVars
  <2>2. FilesAs(fds)
    BY <1>1, <2>1, SaysEffect
  <2> QED
    BY <2>1, <2>2, ThreadFacts, ThreadKeeps
<1>4. CASE EndRing
  <2>1. /\ reader' = "ended" /\ UNCHANGED step
        /\ fds' = Closed(fds, "ring") /\ UNCHANGED <<pending, connected, broken, spilled>>
    BY <1>4 DEF EndRing, clockVars
  <2>2. FilesDistinct(Closed(fds, "ring"))
    BY <1>1, HolderNames, ClosedEffect
  <2>3. FilesAs(Closed(fds, "ring"))
    BY <1>1, <2>1, <2>2, QuietEffect
  <2> QED
    BY <2>1, <2>3, ThreadCloses
<1>5. CASE StartLoop \/ WaitForWindow \/ MeasureWindow \/ EndWindow
  <2>1. step # "evaluate" /\ step' # "open" /\ UNCHANGED reader
    BY <1>5 DEF StartLoop, WaitForWindow, MeasureWindow, EndWindow, BeginLoop, Sleep,
                Measure, EndPass, Idle
  <2>2. UNCHANGED ioVars \/ Says(fds) \/ SaysDebug(fds)
    BY <1>5 DEF StartLoop, WaitForWindow, MeasureWindow, EndWindow
  <2>3. FilesAs(fds)
    BY <1>1, <2>2, SaysEffect, QuietEffect DEF ioVars
  <2> QED
    BY <2>1, <2>3, ThreadFacts, ThreadKeeps
<1>6. CASE CloseQueue
  <2>1. /\ step = "close" /\ step' = "open" /\ UNCHANGED reader
        /\ SaysDebug(Closed(fds, "queue"))
    BY <1>6 DEF CloseQueue, QueueClosed, BeginSwitch, Idle
  <2>2. FilesDistinct(Closed(fds, "queue"))
    BY <1>1, HolderNames, ClosedEffect
  <2>3. FilesAs(Closed(fds, "queue"))
    BY <1>1, <2>1, <2>2, SaysEffect
  <2> QED
    BY <2>1, <2>3, ThreadFacts, ThreadCloses
<1>7. CASE ReopenQueue
  <2>1. /\ step = "open" /\ step' = "evaluate" /\ UNCHANGED reader
        /\ ~Has(fds, "queue") /\ ~Has(fds, "evidence")
    BY <1>7, ThreadFacts DEF ReopenQueue, EndSwitch, Idle
  <2>2. CASE /\ fds' = Opened(fds, "queue")
             /\ UNCHANGED <<pending, connected, broken, spilled>>
    <3>1. FilesDistinct(Opened(fds, "queue"))
      BY <2>1, ThreadFacts, HolderNames, OpenedEffect
    <3>2. FilesAs(Opened(fds, "queue"))
      BY <1>1, <2>2, <3>1, QuietEffect
    <3> QED
      BY <2>1, <3>2, ThreadOpens
  <2>3. CASE Says(fds)
    <3>1. FilesAs(fds)
      BY <1>1, <2>3, SaysEffect
    <3> QED
      BY <2>1, <3>1, ThreadFacts, ThreadKeeps
  <2> QED
    BY <1>7, <2>2, <2>3 DEF ReopenQueue
<1>8. CASE OpenEvidence
  <2>1. /\ step = "evaluate" /\ UNCHANGED <<step, reader>> /\ ~Has(fds, "evidence")
        /\ fds' = Opened(fds, "evidence")
        /\ UNCHANGED <<pending, connected, broken, spilled>>
    BY <1>8 DEF OpenEvidence, Idle, clockVars, Open, Has
  <2>2. FilesDistinct(Opened(fds, "evidence"))
    BY <2>1, ThreadFacts, HolderNames, OpenedEffect
  <2>3. FilesAs(Opened(fds, "evidence"))
    BY <1>1, <2>1, <2>2, QuietEffect
  <2> QED
    BY <2>1, <2>3, ThreadOpens
<1>9. CASE CloseEvidence
  <2>1. /\ UNCHANGED <<step, reader>> /\ fds' = Closed(fds, "evidence")
        /\ UNCHANGED <<pending, connected, broken, spilled>>
    BY <1>9 DEF CloseEvidence, Idle, clockVars
  <2>2. FilesDistinct(Closed(fds, "evidence"))
    BY <1>1, HolderNames, ClosedEffect
  <2>3. FilesAs(Closed(fds, "evidence"))
    BY <1>1, <2>1, <2>2, QuietEffect
  <2> QED
    BY <2>1, <2>3, ThreadCloses
<1>10. CASE RunScript
  <2>1. /\ UNCHANGED <<reader, step, fds, pending, connected, broken>>
        /\ spilled' = spilled \cup {fds[1]}
    BY <1>10 DEF RunScript, Idle, clockVars
  <2>2. pending' \in BOOLEAN /\ connected' \in BOOLEAN
    BY <2>1 DEF TypeOK
  <2>3. FilesAs(fds)
    BY <1>1, <2>1, <2>2 DEF FilesAs
  <2> QED
    BY <2>1, <2>3, ThreadFacts, ThreadKeeps
<1>11. CASE EvaluateWindow
  <2>1. step' # "open" /\ UNCHANGED reader /\ ~Has(fds, "evidence") /\ UNCHANGED ioVars
    BY <1>11 DEF EvaluateWindow, Evaluate, Idle, Open, Has
  <2>2. FilesAs(fds)
    BY <1>1, <2>1, QuietEffect DEF ioVars
  <2> QED
    BY <2>1, <2>2, ThreadFacts, ThreadKeeps
<1> QED
  BY <1>2, <1>3, <1>4, <1>5, <1>6, <1>7, <1>8, <1>9, <1>10, <1>11 DEF ThreadSteps

(* syslogd comes and goes; the clock is set; nothing happens. *)
LEMMA StepEnvironment ==
  ASSUME DaemonInv, AroundSteps \/ UNCHANGED vars
  PROVE  IoTyped' /\ FilesOpen' /\ TerminalKept' /\ NumbersTaken'
<1> USE DEF DaemonInv
<1>1. UNCHANGED <<pc, fds, pending, spilled, reader, foreground, step>>
  BY DEF AroundSteps, SyslogdStops, SyslogdStarts, ClockIsSet, vars, mainVars, ioVars,
         clockVars, SetClock, Idle
<1>2. /\ FilesOpen' /\ TerminalKept'
  BY <1>1 DEF FilesOpen, TerminalKept, FilesDistinct, Has
<1>3. IoTyped'
  <2>1. pending' \in BOOLEAN /\ connected' \in BOOLEAN /\ broken' \in BOOLEAN
    BY Zenon
       DEF AroundSteps, SyslogdStops, SyslogdStarts, ClockIsSet, vars, mainVars,
           ioVars, Idle, TypeOK
  <2> QED
    BY <1>1, <2>1, FilesTyped DEF FilesOpen, TypeOK
<1>4. NumbersTaken'
  <2>1. CASE SyslogdStops
    BY <2>1 DEF SyslogdStops, NumbersTaken
  <2>2. CASE SyslogdStarts
    BY <1>1, <2>2 DEF SyslogdStarts, NumbersTaken, ioVars
  <2>3. CASE ClockIsSet \/ UNCHANGED vars
    BY <1>1, <2>3 DEF ClockIsSet, vars, ioVars, Idle, NumbersTaken
  <2> QED
    BY <2>1, <2>2, <2>3 DEF AroundSteps
<1> QED
  BY <1>2, <1>3, <1>4

LEMMA StepFiles ==
  ASSUME DaemonInv, [Next]_vars
  PROVE  IoTyped' /\ FilesOpen' /\ TerminalKept' /\ NumbersTaken'
BY StepOptions, StepDaemonize, StepOpenConfig, StepParseConfig, StepWithSameFiles,
   StepInitDatabase, StepInitQueue, StepThreads, StepEnvironment
   DEF Next, Ended, ThreadSteps, AroundSteps, ThreadsInv

(* Types of what has nothing to do with files. *)
LEMMA StepMainTypes ==
  ASSUME DaemonInv, [Next]_vars
  PROVE  /\ pc' \in Stages \cup {"exited"}
         /\ debug' \in Nat /\ logDebug' \in Nat /\ asked' \in Levels \cup {-1}
         /\ debugFromarg' \in BOOLEAN /\ foreground' \in BOOLEAN /\ syslogd' \in BOOLEAN
         /\ self' \in Processes /\ pidFile' \in Processes \cup {"other", "empty"}
         /\ pidFailed' \in BOOLEAN
         /\ reader' \in {"none", "open", "reads", "ended"}
<1> USE DEF DaemonInv, TypeOK
<1> DEFINE MainStep ==
      \/ OptionD \/ OptionF \/ OptionH \/ EndOptions
      \/ MsgInit \/ Daemonize \/ OpenConfig \/ ParseConfig \/ MakePidFile
      \/ InitActions \/ InitDatabase \/ RotateFirst \/ InitQueue \/ StartThreads
<1>1. MainStep \/ UNCHANGED mainVars
  BY MainUntouched DEF Next, Ended, vars, ThreadSteps, AroundSteps
<1> USE DEF OptionD, OptionF, OptionH, EndOptions, MsgInit, Daemonize, OpenConfig,
            ParseConfig, MakePidFile, InitActions, InitDatabase, RotateFirst,
            InitQueue, StartThreads, mainVars, pidVars, Idle, Stays, SaysAndExits
<1>2. pc' \in Stages \cup {"exited"}
  BY <1>1, AfterStages, StagesAre DEF GoesOn, At
<1>3. debug' \in Nat /\ logDebug' \in Nat /\ asked' \in Levels \cup {-1}
  <2>1. debug \in Nat /\ logDebug \in Nat /\ Levels \subseteq Nat
    BY DaemonAssumption
  <2>2. debug' \in {debug, 1} \cup Levels
    BY <1>1 DEF ForegroundLevel
  <2>3. logDebug' \in {logDebug, debug, 1}
    BY <1>1
  <2>4. asked' \in {asked} \cup Levels
    BY <1>1
  <2> HIDE DEF MainStep
  <2> QED
    BY <2>1, <2>2, <2>3, <2>4
<1>4. debugFromarg' \in BOOLEAN
  BY <1>1, Zenon
<1>5. foreground' \in BOOLEAN
  BY <1>1, Zenon
<1>6. pidFailed' \in BOOLEAN
  BY <1>1, Zenon
<1>7. self' \in Processes /\ pidFile' \in Processes \cup {"other", "empty"}
  BY <1>1 DEF Processes
<1>8. syslogd' \in BOOLEAN /\ reader' \in {"none", "open", "reads", "ended"}
  <2>1. CASE MainStep
    BY <2>1, Zenon
  <2>2. CASE ThreadSteps
    <3>1. UNCHANGED syslogd
      BY <2>2, ThreadFacts
    <3>2. reader' \in {reader, "reads", "ended"}
      BY <2>2
         DEF ThreadSteps, OpenRing, ReportRecord, EndRing, StartLoop, WaitForWindow,
             MeasureWindow, CloseQueue, ReopenQueue, OpenEvidence, CloseEvidence,
             ReportActions, RunScript, EvaluateWindow, EndWindow
    <3> QED
      BY <3>1, <3>2
  <2>3. CASE AroundSteps \/ UNCHANGED vars
    BY <2>3, Zenon DEF AroundSteps, SyslogdStops, SyslogdStarts, ClockIsSet, vars
  <2> QED
    BY <2>1, <2>2, <2>3 DEF Next, Ended, ThreadSteps, AroundSteps
<1> QED
  BY <1>2, <1>3, <1>4, <1>5, <1>6, <1>7, <1>8

LEMMA StepDaemon == DaemonInv /\ [Next]_vars => DaemonInv'
<1> SUFFICES ASSUME DaemonInv, [Next]_vars
             PROVE  DaemonInv'
  OBVIOUS
<1>1. ClockInv' /\ LevelKnown' /\ PidFileDated'
  BY StepDaemonClock, StepLevel, StepPidFile
<1>2. IoTyped' /\ FilesOpen' /\ TerminalKept' /\ NumbersTaken'
  BY StepFiles
<1>3. TypeOK'
  BY <1>1, <1>2, StepMainTypes, Zenon DEF TypeOK, IoTyped, ClockInv
<1> QED
  BY <1>1, <1>2, <1>3 DEF DaemonInv

LEMMA DaemonInvariant == Spec => []DaemonInv
<1>1. Init => DaemonInv
  BY InitDaemon
<1>2. DaemonInv /\ [Next]_vars => DaemonInv'
  BY StepDaemon
<1> QED
  BY <1>1, <1>2, PTL DEF Spec

--------------------------------------------------------------------------------
(* Theorems. *)

(* Types: levels, processes, steps and clock keep to their ranges, and     *)
(* each file is open at most once: the lowest free descriptor that open()  *)
(* gives always exists (nfddos.c:183-287).                                 *)
THEOREM DaemonTypeCorrect == Spec => []TypeOK
<1>1. DaemonInv => TypeOK
  BY DEF DaemonInv
<1> QED
  BY <1>1, DaemonInvariant, PTL

(* Printed text: in the foreground it goes to the terminal; in a daemon    *)
(* with syslogd answering all the time it never gets into the database     *)
(* connection, the configuration or syslog's socket, though daemonize      *)
(* closes 0, 1 and 2 and opens nothing in their place (daemonize.c:47).    *)
THEOREM OutputNeverCorrupts == Spec => []OutputStaysOut
<1>1. DaemonInv => OutputStaysOut
  BY DEF DaemonInv, TerminalKept, NumbersTaken, OutputStaysOut, MayBeOutput
<1> QED
  BY <1>1, DaemonInvariant, PTL

(* The level of messages is that of the command line, in whatever order    *)
(* its options come and whatever the configuration sets (nfddos.c:222).    *)
THEOREM LevelIsCommandLines == Spec => []DebugLevelFromCommandLine
<1>1. DaemonInv => DebugLevelFromCommandLine
  BY DEF DaemonInv, LevelKnown
<1> QED
  BY <1>1, DaemonInvariant, PTL

(* The pid file is written after the fork, so that it names the child that *)
(* goes on and not the parent that ended; and every process that gets past *)
(* it is named there, unless the file could not be opened or written       *)
(* (nfddos.c:232 and 245).                                                 *)
THEOREM PidFileIsRight == Spec => []PidFileNamesDaemon
<1>1. DaemonInv => PidFileNamesDaemon
  BY DEF DaemonInv, PidFileDated
<1> QED
  BY <1>1, DaemonInvariant, PTL

(* The divisor of a window's counters is at least the configured size and  *)
(* differs from the time they ran by the delays of two passes at most,     *)
(* whatever the delays and for every window in which the clock was not     *)
(* set, forward or back (nfddos.c:148-164).                                *)
THEOREM WindowLengthSound == ClockSpec => []DivisorSound
<1>1. ClockInit => ClockInv
  BY InitClock
<1>2. ClockInv /\ [ClockNext]_clockVars => ClockInv'
  BY StepClock
<1>3. ClockInv => DivisorSound
  BY DEF ClockInv
<1> QED
  BY <1>1, <1>2, <1>3, PTL DEF ClockSpec

(* The same in the process, where main sets the size of the window, the    *)
(* read thread runs beside the loop and the loop's files are opened and    *)
(* closed (nfddos.c:183-287).                                              *)
THEOREM DivisorIsSound == Spec => []DivisorSound
<1>1. DaemonInv => DivisorSound
  BY DEF DaemonInv, ClockInv
<1> QED
  BY <1>1, DaemonInvariant, PTL
================================================================================
