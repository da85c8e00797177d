--------------------------------- MODULE Daemon ---------------------------------
(***************************************************************************)
(* The process nfddos: main (nfddos.c:183-287), daemonize.c, msgs.c and    *)
(* the files nfd_cfg_parse, nfd_db_init and nfd_queue_shift open, as far   *)
(* as they decide who writes to which descriptor, at what debug level,     *)
(* under which process id; with the loop of the dump thread (WindowClock). *)
(*                                                                         *)
(* The system gives out the lowest free descriptor.  daemonize() closes    *)
(* 0, 1 and 2 and does not open them again, so later files get these       *)
(* numbers, while printf and the scripts that popen starts go on writing   *)
(* to number 1.  syslog() connects again when its connection broke.        *)
(* Scripts inherit the descriptors; what a script writes is one text.      *)
(***************************************************************************)
EXTENDS WindowClock, FiniteSets

CONSTANTS
  Levels,  \* debug levels that are asked for
  MaxFd    \* bound: number of the highest descriptor

Fds == 0 .. MaxFd
Holders == {"terminal", "syslog", "config", "database", "queue", "ring", "evidence"}
Processes == {"parent", "child"}

ASSUME DaemonAssumption == Levels \subseteq Nat /\ MaxFd \in Nat /\ MaxFd >= 7

VARIABLES
  pc,            \* step of main
  debug, debugFromarg, foreground,  \* nfd_options_t
  logDebug,      \* msgs.c: log_debug
  self,          \* the process that runs main
  fds,           \* what each descriptor is open on, or "free"
  pending,       \* stdout's buffer holds text
  connected,     \* syslog's socket is connected to a running syslogd
  pidFile,       \* process the pid file names, "other" if none of this start,
                 \* "empty" if it names none
  pidFailed,     \* history: opening or writing the pid file failed
  reader,        \* read thread: "none", "open" (opening the ring), "reads", "ended"
  syslogd,       \* environment: syslogd runs
  asked,         \* history: the last -d of the command line, -1 if there was none
  broken,        \* history: syslogd was away since msg_init
  spilled        \* history: what printed text and output of scripts was written to

pidVars == <<pidFile, pidFailed>>
mainVars == <<pc, debug, debugFromarg, foreground, logDebug, self, pidVars, asked>>
ioVars == <<fds, pending, connected, broken, spilled>>
vars == <<mainVars, ioVars, reader, syslogd, clockVars>>

(* The order of main. *)
PidBeforeForkBug ==
  <<"options", "msg_init", "pid_file", "daemonize", "config", "parse",
    "actions", "database", "rotate", "queue", "threads", "running">>
Order ==
  <<"options", "msg_init", "daemonize", "config", "parse", "pid_file",
    "actions", "database", "rotate", "queue", "threads", "running">>
Stages == {Order[i] : i \in DOMAIN Order}
After(stage) == Order[(CHOOSE i \in DOMAIN Order : Order[i] = stage) + 1]

At(stage) == pc = stage
GoesOn == pc' = After(pc)

TypeOK ==
  /\ ClockTypeOK
  /\ pc \in Stages \cup {"exited"}
  /\ debug \in Nat /\ logDebug \in Nat
  /\ debugFromarg \in BOOLEAN /\ foreground \in BOOLEAN
  /\ self \in Processes
  /\ fds \in [Fds -> Holders \cup {"free"}]
  /\ \A h \in Holders \ {"terminal"} : Cardinality({n \in Fds : fds[n] = h}) <= 1
  /\ pending \in BOOLEAN /\ connected \in BOOLEAN /\ syslogd \in BOOLEAN
  /\ pidFile \in Processes \cup {"other", "empty"} /\ pidFailed \in BOOLEAN
  /\ reader \in {"none", "open", "reads", "ended"}
  /\ asked \in Levels \cup {-1} /\ broken \in BOOLEAN
  /\ spilled \subseteq Holders \cup {"free"}

--------------------------------------------------------------------------------
(* Descriptors *)

Open(f, h) == {n \in Fds : f[n] = h}
Lowest(f) == CHOOSE n \in Open(f, "free") : \A m \in Open(f, "free") : n <= m
Opened(f, h) == [f EXCEPT ![Lowest(f)] = h]
Closed(f, h) == [n \in Fds |-> IF f[n] = h THEN "free" ELSE f[n]]

(* syslog(): a broken connection is closed and, if syslogd runs, made anew. *)
Reconnected(f) ==
  IF connected THEN f
  ELSE LET g == Closed(f, "syslog") IN IF syslogd THEN Opened(g, "syslog") ELSE g

(* Text on standard output stays in stdio's buffer or is written; nobody   *)
(* sees the error when descriptor 1 is not open.                           *)
Prints(f) ==
  \/ pending' = TRUE /\ UNCHANGED spilled
  \/ pending' = FALSE /\ spilled' = spilled \cup {f[1]}

(* msg(), called when the descriptors are f. *)
Says(f) ==
  /\ fds' = Reconnected(f)
  /\ connected' = syslogd
  /\ UNCHANGED broken
  /\ IF logDebug > 0 THEN Prints(Reconnected(f)) ELSE UNCHANGED <<pending, spilled>>

(* msg(MSG_DEBUG, ...). *)
SaysDebug(f) ==
  IF logDebug > 0 THEN Says(f)
  ELSE fds' = f /\ UNCHANGED <<pending, connected, broken, spilled>>

(* exit() after a message: stdio's buffer is written. *)
SaysAndExits(f) ==
  LET g == Reconnected(f) IN
  /\ pc' = "exited"
  /\ fds' = g /\ pending' = FALSE
  /\ connected' = syslogd
  /\ UNCHANGED broken
  /\ spilled' = IF pending \/ logDebug > 0 THEN spilled \cup {g[1]} ELSE spilled

Stays == UNCHANGED <<debug, debugFromarg, foreground, logDebug, self, pidVars, asked>>
Idle == UNCHANGED <<reader, syslogd>>

Init ==
  /\ ClockInit
  /\ pc = "options"
  /\ debug = 0 /\ debugFromarg = FALSE /\ foreground = FALSE /\ logDebug = 0
  /\ self = "parent"
  /\ fds = [n \in Fds |-> IF n <= 2 THEN "terminal" ELSE "free"]
  /\ pending = FALSE /\ connected = FALSE
  /\ pidFile = "other" /\ pidFailed = FALSE
  /\ reader = "none" /\ syslogd \in BOOLEAN
  /\ asked = -1 /\ broken = FALSE /\ spilled = {}

--------------------------------------------------------------------------------
(* main *)

OptionD ==
  /\ At("options")
  /\ \E level \in Levels : debug' = level /\ asked' = level
  /\ debugFromarg' = TRUE
  /\ UNCHANGED <<pc, foreground, logDebug, self, pidVars, ioVars, reader, syslogd, clockVars>>

ForegroundLevelBug == 1
ForegroundLevel == IF debugFromarg THEN debug ELSE 1
OptionF ==
  /\ At("options")
  /\ foreground' = TRUE /\ debug' = ForegroundLevel
  /\ UNCHANGED <<pc, debugFromarg, logDebug, self, pidVars, asked, ioVars, reader,
                 syslogd, clockVars>>

(* -h: the usage is given with msg(), then the process ends. *)
OptionH ==
  /\ At("options")
  /\ pc' = "exited" /\ debug' = 1 /\ foreground' = TRUE /\ logDebug' = 1
  /\ spilled' = spilled \cup {fds[1]}
  /\ fds' = IF syslogd THEN Opened(fds, "syslog") ELSE fds
  /\ connected' = syslogd /\ broken' = ~syslogd
  /\ UNCHANGED <<debugFromarg, self, pidVars, asked, pending, reader, syslogd, clockVars>>

EndOptions ==
  /\ At("options") /\ GoesOn
  /\ Stays /\ UNCHANGED ioVars /\ Idle /\ UNCHANGED clockVars

(* openlog with LOG_NDELAY connects at once. *)
OpenLogLaterBug(f) == f
OpenLog(f) == IF syslogd THEN Opened(f, "syslog") ELSE f
MsgInit ==
  /\ At("msg_init") /\ GoesOn
  /\ logDebug' = debug
  /\ fds' = OpenLog(fds)
  /\ connected' = ("syslog" \in {OpenLog(fds)[n] : n \in Fds})
  /\ broken' = ~syslogd
  /\ UNCHANGED <<debug, debugFromarg, foreground, self, pidVars, asked, pending, spilled>>
  /\ Idle /\ UNCHANGED clockVars

(* setsid fails only in a process group's leader, which a forked child     *)
(* never is.  The parent ends with nothing in its buffer.                  *)
Daemonize ==
  /\ At("daemonize")
  /\ IF foreground
     THEN GoesOn /\ UNCHANGED <<self, ioVars>>
     ELSE \/ /\ self' = "child" /\ GoesOn
             /\ fds' = [n \in Fds |-> IF n <= 2 THEN "free" ELSE fds[n]]
             /\ UNCHANGED <<pending, connected, broken, spilled>>
          \/ /\ pc' = "exited" /\ spilled' = spilled \cup {fds[2]}   \* fork fails
             /\ UNCHANGED <<self, fds, pending, connected, broken>>
  /\ UNCHANGED <<debug, debugFromarg, foreground, logDebug, pidVars, asked>>
  /\ Idle /\ UNCHANGED clockVars

OpenConfig ==
  /\ At("config")
  /\ \/ GoesOn /\ fds' = Opened(fds, "config")
        /\ UNCHANGED <<pending, connected, broken, spilled>>
     \/ SaysAndExits(fds)
  /\ Stays /\ Idle /\ UNCHANGED clockVars

(* The scanner prints the characters no rule of it begins with, at any     *)
(* level of messages (lex.yy.c:1184; the "i" of "interval", config.l:69).  *)
Echoes == Prints(fds) /\ UNCHANGED <<fds, connected, broken>>

(* The parser may give messages while the file is open; log_debug is not   *)
(* touched by what the file says.  A wrong file ends the process.          *)
ParseConfig ==
  /\ At("parse")
  /\ \/ /\ Says(fds) \/ Echoes
        /\ UNCHANGED <<pc, debug, clockVars>>
     \/ /\ GoesOn /\ Says(Closed(fds, "config")) /\ Configure
        /\ debug' \in IF debugFromarg THEN {debug} ELSE Levels \cup {debug}
     \/ SaysAndExits(Closed(fds, "config")) /\ UNCHANGED <<debug, clockVars>>
  /\ UNCHANGED <<debugFromarg, foreground, logDebug, self, pidVars, asked>>
  /\ Idle

(* mkpidfile: main does not look at what it returns.  The file that was    *)
(* there is emptied when it is opened; that writing to it fails is not     *)
(* noticed (nfddos.c:60-63).                                               *)
MakePidFile ==
  /\ At("pid_file") /\ GoesOn
  /\ \/ pidFile' = self /\ UNCHANGED <<pidFailed, ioVars>>
     \/ pidFile' = "empty" /\ pidFailed' = TRUE /\ UNCHANGED ioVars
     \/ pidFailed' = TRUE /\ UNCHANGED pidFile /\ Says(fds)
  /\ UNCHANGED <<debug, debugFromarg, foreground, logDebug, self, asked>>
  /\ Idle /\ UNCHANGED clockVars

InitActions ==
  /\ At("actions")
  /\ \/ GoesOn /\ UNCHANGED ioVars
     \/ SaysAndExits(fds)
  /\ Stays /\ Idle /\ UNCHANGED clockVars

(* nfd_db_init, its two statements prepared. *)
InitDatabase ==
  /\ At("database")
  /\ \/ GoesOn /\ Says(Opened(fds, "database"))
     \/ SaysAndExits(fds)
     \/ SaysAndExits(Opened(fds, "database"))
  /\ Stays /\ Idle /\ UNCHANGED clockVars

(* The first nfd_queue_shift has no file to close; it names what it does   *)
(* before it opens.                                                        *)
RotateFirst ==
  /\ At("rotate") /\ GoesOn
  /\ SaysDebug(fds)
  /\ Stays /\ Idle /\ UNCHANGED clockVars

InitQueue ==
  /\ At("queue")
  /\ \/ /\ GoesOn /\ fds' = Opened(fds, "queue")
        /\ UNCHANGED <<pending, connected, broken, spilled>>
     \/ SaysAndExits(fds)
  /\ Stays /\ Idle /\ UNCHANGED clockVars

(* The three mutexes and the read thread. *)
StartThreads ==
  /\ At("threads")
  /\ \/ GoesOn /\ reader' = "open" /\ UNCHANGED ioVars
     \/ SaysAndExits(fds) /\ UNCHANGED reader
  /\ Stays /\ UNCHANGED <<syslogd, clockVars>>

--------------------------------------------------------------------------------
(* The two threads; the process has ended when a division by 0 killed it.  *)
Running == At("running") /\ step # "crashed"

(* lnf_ring_init, and the message that says which way it went. *)
OpenRing ==
  /\ Running /\ reader = "open"
  /\ \/ reader' = "reads" /\ Says(Opened(fds, "ring"))
     \/ reader' = "ended" /\ Says(fds)
  /\ UNCHANGED <<mainVars, syslogd, clockVars>>

(* A record that cannot be written to the queue file is reported, and at   *)
(* LNF_EOF the ring is given back.                                         *)
ReportRecord ==
  /\ Running /\ reader = "reads" /\ Open(fds, "queue") # {}
  /\ Says(fds)
  /\ UNCHANGED <<mainVars, clockVars>> /\ Idle

EndRing ==
  /\ Running /\ reader = "reads"
  /\ reader' = "ended" /\ fds' = Closed(fds, "ring")
  /\ UNCHANGED <<mainVars, pending, connected, broken, spilled, syslogd, clockVars>>

StartLoop ==
  /\ Running /\ BeginLoop
  /\ UNCHANGED <<mainVars, ioVars>> /\ Idle

(* "Waiting for %d seconds", or the performance issue. *)
WaitForWindow ==
  /\ Running /\ (IF Remains > 0 THEN SaysDebug(fds) ELSE Says(fds)) /\ Sleep
  /\ UNCHANGED mainVars /\ Idle

MeasureWindow ==
  /\ Running /\ SaysDebug(fds) /\ Measure
  /\ UNCHANGED mainVars /\ Idle

KeepQueueOpenBug == fds
QueueClosed == Closed(fds, "queue")
CloseQueue ==
  /\ Running /\ SaysDebug(QueueClosed) /\ BeginSwitch
  /\ UNCHANGED mainVars /\ Idle

(* A queue file that cannot be opened is reported and done without. *)
ReopenQueue ==
  /\ Running /\ EndSwitch
  /\ \/ fds' = Opened(fds, "queue") /\ UNCHANGED <<pending, connected, broken, spilled>>
     \/ Says(fds)
  /\ UNCHANGED mainVars /\ Idle

(* An action that starts writes its profile file and its flow file, one    *)
(* after the other, and gives messages meanwhile (action.c:156 and 171,    *)
(* queue.c:68 and 82).  The queue files it reads are left out: text cannot *)
(* be written into a file that is open for reading.                        *)
OpenEvidence ==
  /\ Running /\ step = "evaluate" /\ Open(fds, "evidence") = {}
  /\ fds' = Opened(fds, "evidence")
  /\ UNCHANGED <<mainVars, pending, connected, broken, spilled, clockVars>> /\ Idle

CloseEvidence ==
  /\ Running /\ Open(fds, "evidence") # {}
  /\ fds' = Closed(fds, "evidence")
  /\ UNCHANGED <<mainVars, pending, connected, broken, spilled, clockVars>> /\ Idle

(* Messages about actions that start, go on and stop. *)
ReportActions ==
  /\ Running /\ step \in {"evaluate", "evaluated"}
  /\ Says(fds)
  /\ UNCHANGED <<mainVars, clockVars>> /\ Idle

(* A start or stop script prints. *)
RunScript ==
  /\ Running /\ step \in {"evaluate", "evaluated"} /\ Open(fds, "evidence") = {}
  /\ spilled' = spilled \cup {fds[1]}
  /\ UNCHANGED <<mainVars, fds, pending, connected, broken, clockVars>> /\ Idle

EvaluateWindow ==
  /\ Running /\ Open(fds, "evidence") = {} /\ Evaluate
  /\ UNCHANGED <<mainVars, ioVars>> /\ Idle

EndWindow ==
  /\ Running /\ EndPass
  /\ UNCHANGED <<mainVars, ioVars>> /\ Idle

--------------------------------------------------------------------------------
(* Environment *)

(* Bound: syslogd stops at most once. *)
SyslogdStops ==
  /\ pc # "exited" /\ connected /\ ~broken
  /\ syslogd' = FALSE /\ connected' = FALSE /\ broken' = TRUE
  /\ UNCHANGED <<mainVars, fds, pending, spilled, reader, clockVars>>

SyslogdStarts ==
  /\ pc # "exited" /\ ~syslogd /\ syslogd' = TRUE
  /\ UNCHANGED <<mainVars, ioVars, reader, clockVars>>

ClockIsSet ==
  /\ Running /\ SetClock
  /\ UNCHANGED <<mainVars, ioVars>> /\ Idle

Ended ==
  /\ pc = "exited" \/ step = "crashed"
  /\ UNCHANGED vars

Next ==
  \/ OptionD \/ OptionF \/ OptionH \/ EndOptions
  \/ MsgInit \/ Daemonize \/ OpenConfig \/ ParseConfig \/ MakePidFile
  \/ InitActions \/ InitDatabase \/ RotateFirst \/ InitQueue \/ StartThreads
  \/ OpenRing \/ ReportRecord \/ EndRing
  \/ StartLoop \/ WaitForWindow \/ MeasureWindow \/ CloseQueue \/ ReopenQueue
  \/ OpenEvidence \/ CloseEvidence \/ ReportActions \/ RunScript
  \/ EvaluateWindow \/ EndWindow
  \/ SyslogdStops \/ SyslogdStarts \/ ClockIsSet \/ Ended

Spec == Init /\ [][Next]_vars

--------------------------------------------------------------------------------
(* Properties *)

(* In the foreground text goes to the terminal.  A daemon whose connection *)
(* to syslogd, made before the descriptors were closed, never broke writes *)
(* none of it into the database connection, the configuration or syslog's  *)
(* socket: number 0 is then taken by the database, number 1 by the queue   *)
(* file, the ring or a file of an action (daemonize.c:47, msgs.c:20 and    *)
(* 49, action.c:94).                                                       *)
OutputStaysOut ==
  /\ foreground => spilled \subseteq {"terminal"}
  /\ ~broken => spilled \cap {"database", "config", "syslog"} = {}

(* Whatever the order of the options, messages are given at the level of   *)
(* the last -d, without one at level 1 in the foreground and 0 otherwise   *)
(* (nfddos.c:222-229).  What the configuration sets comes too late.        *)
DebugLevelFromCommandLine ==
  pc \notin {"options", "msg_init", "exited"} =>
    logDebug = IF asked >= 0 THEN asked ELSE IF foreground THEN 1 ELSE 0

(* The pid file never names a process of this start other than the one     *)
(* that runs; and once main is past it, it names that one, instead of what *)
(* an earlier start left in it, unless it could not be opened or written   *)
(* (nfddos.c:245 after 232).                                               *)
PidFilePassed == pc \in {"actions", "database", "rotate", "queue", "threads", "running"}

PidFileNamesDaemon ==
  /\ pidFile \in Processes => pidFile = self
  /\ PidFilePassed => pidFile = self \/ pidFailed

--------------------------------------------------------------------------------
(* What makes TypeOK and the properties inductive. *)

Has(f, h) == \E n \in Fds : f[n] = h

(* Each file is open once, the terminal at most as 0, 1 and 2, and the     *)
(* configuration is closed before the database is opened: the lowest free  *)
(* descriptor exists whenever a file is opened.                            *)
FilesDistinct(f) ==
  /\ f \in [Fds -> Holders \cup {"free"}]
  /\ \A m, n \in Fds : f[m] = f[n] /\ f[m] \notin {"terminal", "free"} => m = n
  /\ \A n \in Fds : f[n] = "terminal" => n <= 2
  /\ ~(Has(f, "config") /\ Has(f, "database"))

(* Which files are open at which step. *)
FilesOpen ==
  /\ FilesDistinct(fds)
  /\ Has(fds, "syslog") => pc \notin {"options", "msg_init"}
  /\ Has(fds, "config") => pc = "parse"
  /\ Has(fds, "database") => pc \in {"rotate", "queue", "threads", "running", "exited"}
  /\ Has(fds, "queue") => pc \in {"threads", "running", "exited"} /\ step # "open"
  /\ Has(fds, "ring") => reader = "reads"
  /\ Has(fds, "evidence") => pc = "running" /\ step = "evaluate"
  /\ reader # "none" \/ step # "off" => pc = "running"

BeforeFork == {"options", "msg_init", "daemonize"}

TerminalKept ==
  foreground \/ pc \in BeforeFork =>
    (\A n \in 0 .. 2 : fds[n] = "terminal") /\ spilled \subseteq {"terminal"}

(* While syslogd answers, no descriptor is taken by a new connection to    *)
(* it, and those a daemon has closed are taken in the order of main.       *)
MayBeOutput == {"terminal", "free", "queue", "ring", "evidence"}

NumbersTaken ==
  ~broken =>
    /\ pc \notin {"options", "msg_init"} => connected /\ syslogd
    /\ fds[1] \in MayBeOutput
    /\ spilled \subseteq MayBeOutput
    /\ ~foreground =>
         /\ pc \in {"config", "pid_file", "actions", "database"} => fds[0] = "free"
         /\ pc = "parse" => fds[0] = "config"
         /\ pc \in {"rotate", "queue", "threads", "running"} => fds[0] = "database"

LevelKnown ==
  /\ debugFromarg <=> asked >= 0
  /\ pc \in {"options", "msg_init"} =>
       debug = IF asked >= 0 THEN asked ELSE IF foreground THEN 1 ELSE 0
  /\ DebugLevelFromCommandLine

PidFileDated ==
  /\ pc \in BeforeFork => pidFile = "other"
  /\ PidFileNamesDaemon

DaemonInv ==
  /\ TypeOK /\ ClockInv
  /\ FilesOpen /\ TerminalKept /\ NumbersTaken /\ LevelKnown /\ PidFileDated
================================================================================
