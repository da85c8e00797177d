----------------------------- MODULE FlowPipeline ------------------------------
(***************************************************************************)
(* The two threads of nfddos.c and the queue files of queue.c.             *)
(*                                                                         *)
(* The read thread takes flow records from the ring buffer, counts each in *)
(* every profile it matches and then stores it in the queue file that is   *)
(* open.  The dump thread closes that file once per window, renames the    *)
(* files 000 .. queue_num one place up, opens a new 000, evaluates the     *)
(* profiles and, for an action that starts, copies the records of the last *)
(* queue_backtrack files.                                                  *)
(*                                                                         *)
(* queue_lock is the only lock both threads take.  read_profile_lock is    *)
(* taken by the read thread alone and dump_profile_lock by the dump thread *)
(* alone, so they order nothing between the two and are not variables.     *)
(* profile.c is not in the repository: counting a flow and fetching and    *)
(* resetting a profile's counters are one step each (under profp->lock).   *)
(***************************************************************************)
EXTENDS Integers

CONSTANTS
  NumFlows,     \* bound: records the ring buffer delivers
  Match,        \* Match[p] is the set of flows the filter of profile p accepts
  NumProfiles,  \* length of the list root_profile
  Old,          \* records a previous run of the daemon left in the queue files
  QueueNum,     \* nfd_options_t.queue_num
  Backtrack,    \* nfd_options_t.queue_backtrack
  MaxWindow,    \* bound: windows the dump thread processes
  Missing       \* marks a queue file that does not exist

Flows == 1 .. NumFlows
Profiles == 1 .. NumProfiles
Files == 0 .. QueueNum
NoFile == {Missing}
FileContents == (SUBSET (Flows \cup Old)) \cup {NoFile}

ASSUME FlowPipelineAssumption ==
  /\ NumFlows \in Nat /\ NumProfiles \in Nat /\ MaxWindow \in Nat \ {0}
  /\ QueueNum \in Nat \ {0} /\ Backtrack \in Nat
  /\ Match \in [Profiles -> SUBSET Flows]
  /\ Old \cap Flows = {}
  /\ Missing \notin Flows \cup Old

VARIABLES
  next,       \* the next record the ring buffer will deliver
  rpc, rec, rcur,   \* read thread: step, record being processed, profile cursor
  dpc, dcur,        \* dump thread: step, profile cursor
  qlock,      \* holder of queue_lock: "none", "reader", "dumper"
  handle,     \* queue_file: "null", "open" on file 000, or "closed" by lnf_close
  files,      \* content of the files 000 .. queue_num
  counted,    \* per profile: flows counted since its last evaluation
  window,     \* history: windows opened so far
  storedIn,   \* history: the window a flow was stored in, 0 if it was not
  dropped,    \* history: records that were not stored
  mark,       \* history: first record not completely processed at the last switch
  renamed,    \* history: no rename of a queue file has failed
  evaluated,  \* history: per profile, the flows of its last evaluation
  captured,   \* history: per profile, what the action started in that
              \* evaluation copied from the queue, NoFile if none started
  lost        \* history: per profile, records failing reads and writes
              \* kept out of that copy

readerVars == <<next, rpc, rec, rcur>>
evidence == <<evaluated, captured, lost>>
history == <<window, storedIn, dropped, mark, renamed, evidence>>
vars == <<readerVars, dpc, dcur, qlock, handle, files, counted, history>>

TypeOK ==
  /\ next \in 1 .. NumFlows + 1
  /\ rpc \in {"read", "count", "store", "write", "eof"}
  /\ rec \in 0 .. NumFlows /\ rcur \in 1 .. NumProfiles + 1
  /\ dpc \in {"sleep", "close", "rotate", "open", "eval"}
  /\ dcur \in 1 .. NumProfiles + 1
  /\ qlock \in {"none", "reader", "dumper"}
  /\ handle \in {"null", "open", "closed"}
  /\ files \in [Files -> FileContents]
  /\ counted \in [Profiles -> SUBSET Flows]
  /\ window \in 1 .. MaxWindow
  /\ storedIn \in [Flows -> 0 .. window]
  /\ dropped \subseteq Flows
  /\ mark \in 1 .. NumFlows + 1
  /\ renamed \in BOOLEAN
  /\ evaluated \in [Profiles -> SUBSET Flows]
  /\ captured \in [Profiles -> FileContents]
  /\ lost \in [Profiles -> SUBSET (Flows \cup Old)]

NothingEvaluated(evals, copies, losses) ==
  /\ evals = [p \in Profiles |-> {}]
  /\ copies = [p \in Profiles |-> NoFile]
  /\ losses = [p \in Profiles |-> {}]

(* main has shifted the queue once and opened file 000; the other files    *)
(* are what an earlier run of the daemon left.                             *)
Init ==
  /\ next = 1 /\ rpc = "read" /\ rec = 0 /\ rcur = 1
  /\ dpc = "sleep" /\ dcur = 1
  /\ qlock = "none" /\ handle = "open"
  /\ files \in {f \in [Files -> {{}, Old, NoFile}] :
                  f[0] = {} /\ \A i \in Files \ {0} : f[i] # {}}
  /\ counted = [p \in Profiles |-> {}]
  /\ window = 1 /\ storedIn = [f \in Flows |-> 0] /\ dropped = {}
  /\ mark = 1 /\ renamed = TRUE
  /\ NothingEvaluated(evaluated, captured, lost)

--------------------------------------------------------------------------------
(* The read thread. *)

(* lnf_ring_read delivers a record; the general filter may reject it. *)
ReadFlow ==
  /\ rpc = "read" /\ next <= NumFlows
  /\ next' = next + 1
  /\ \/ rpc' = "count" /\ rec' = next /\ rcur' = 1
     \/ UNCHANGED <<rpc, rec, rcur>>
  /\ UNCHANGED <<dpc, dcur, qlock, handle, files, counted, history>>

(* lnf_ring_read returns LNF_EOF: the loop and the thread end. *)
RingEof ==
  /\ rpc = "read"
  /\ rpc' = "eof"
  /\ UNCHANGED <<next, rec, rcur, dpc, dcur, qlock, handle, files, counted, history>>

(* nfd_prof_add_flow on the profile at the cursor. *)
CountFlow ==
  /\ rpc = "count" /\ rcur <= NumProfiles
  /\ counted' = [counted EXCEPT ![rcur] =
                   IF rec \in Match[rcur] THEN @ \cup {rec} ELSE @]
  /\ rcur' = rcur + 1
  /\ UNCHANGED <<next, rpc, rec, dpc, dcur, qlock, handle, files, history>>

CountDone ==
  /\ rpc = "count" /\ rcur > NumProfiles
  /\ rpc' = "store"
  /\ UNCHANGED <<next, rec, rcur, dpc, dcur, qlock, handle, files, counted, history>>

(* pthread_mutex_lock(&opt->queue_lock) by the read thread, and            *)
(* pthread_mutex_unlock by either thread.                                  *)
ReaderMayEnterUnlockedBug == TRUE
ReaderMayEnter == qlock = "none"

ReleasedForgottenBug == qlock
Released == "none"

ReaderLock ==
  /\ rpc = "store" /\ ReaderMayEnter
  /\ rpc' = "write" /\ qlock' = "reader"
  /\ UNCHANGED <<next, rec, rcur, dpc, dcur, handle, files, counted, history>>

(* nfddos.c:108-113: with a file open the record is written, which may     *)
(* fail; without one it is dropped.  Then the lock is released.            *)
StoreFlow ==
  /\ rpc = "write"
  /\ \/ /\ handle # "null" /\ files[0] # NoFile
        /\ files' = [files EXCEPT ![0] = @ \cup {rec}]
        /\ storedIn' = [storedIn EXCEPT ![rec] = window]
        /\ UNCHANGED dropped
     \/ /\ dropped' = dropped \cup {rec}
        /\ UNCHANGED <<files, storedIn>>
  /\ rpc' = "read" /\ qlock' = Released
  /\ UNCHANGED <<next, rec, rcur, dpc, dcur, handle, counted, window, mark,
                 renamed, evidence>>

--------------------------------------------------------------------------------
(* The dump thread. *)

(* The window is over: lock the queue. *)
DumperLock ==
  /\ dpc = "sleep" /\ window < MaxWindow /\ qlock = "none"
  /\ dpc' = "close" /\ qlock' = "dumper"
  /\ UNCHANGED <<readerVars, dcur, handle, files, counted, history>>

(* queue.c:21-25 *)
CloseQueue ==
  /\ dpc = "close"
  /\ dpc' = "rotate"
  /\ handle' = IF handle = "null" THEN "null" ELSE "closed"
  /\ UNCHANGED <<readerVars, dcur, qlock, files, counted, history>>

(* queue.c:28-33.  The renames run from the last file down, so a file is   *)
(* moved before the one below takes its place; a rename whose source is    *)
(* missing, or that fails ("broken"), leaves both names as they are.       *)
RotatedUpwardsBug(broken) ==
  [i \in Files |-> IF i = QueueNum THEN files[0] ELSE NoFile]
RotatedSkipFirstBug(broken) ==
  [i \in Files |-> IF i > 1 THEN files[i - 1] ELSE IF i = 1 THEN NoFile ELSE files[0]]
Rotated(broken) ==
  LET left(i) == IF i < QueueNum /\ i + 1 \notin broken THEN NoFile ELSE files[i]
  IN  [i \in Files |->
         IF i > 0 /\ i \notin broken /\ files[i - 1] # NoFile
           THEN files[i - 1] ELSE left(i)]

RotateQueue ==
  /\ dpc = "rotate"
  /\ dpc' = "open"
  /\ \E broken \in {{}, Files} \cup {{i} : i \in Files \ {0}} :
       /\ files' = Rotated(broken)
       /\ renamed' = (renamed /\ broken = {})
  /\ UNCHANGED <<readerVars, dcur, qlock, handle, counted, window, storedIn, dropped,
                 mark, evidence>>

(* queue.c:36-44 opens file 000 afresh, or leaves queue_file NULL; the     *)
(* dump thread unlocks the queue and goes on to the evaluation.            *)
InFlight == IF rpc \in {"count", "store", "write"} THEN rec ELSE next

OpenQueue ==
  /\ dpc = "open"
  /\ \/ handle' = "open" /\ files' = [files EXCEPT ![0] = {}]
     \/ handle' = "null" /\ UNCHANGED files
  /\ dpc' = "eval" /\ dcur' = 1 /\ qlock' = Released
  /\ window' = window + 1
  /\ mark' = InFlight
  /\ UNCHANGED <<readerVars, counted, storedIn, dropped, renamed, evidence>>

(* queue.c:47-86: the files from the clamped backtrack down to 001, read   *)
(* through the filter of the action.  A filter that could not be built     *)
(* (action.c:145) lets every record through.                               *)
CaptureFilesShortBug == 1 .. Backtrack - 1
CaptureFilesLongBug == 1 .. Backtrack + 1
CaptureFiles == 1 .. IF Backtrack > QueueNum THEN QueueNum ELSE Backtrack

Content(i) == IF files[i] = NoFile THEN {} ELSE files[i]

Filtered(p) == Match[p] \cup Old
Unfiltered == Flows \cup Old

Capture(filter) == UNION {Content(i) \cap filter : i \in CaptureFiles}

(* An action that starts copies the records.  Every step of that may fail, *)
(* and the action starts all the same: without its directory or its flow   *)
(* file, or without memory for a record, it gets none of them; a queue     *)
(* file that cannot be opened is skipped, one that cannot be read on ends  *)
(* there, and a record whose write fails is passed over.                   *)
StartAction(p) ==
  \E filter \in {Filtered(p), Unfiltered} : \E failed \in SUBSET Capture(filter) :
    /\ captured' = [captured EXCEPT ![p] = Capture(filter) \ failed]
    /\ lost' = [lost EXCEPT ![p] = failed]

StartNothing(p) ==
  /\ captured' = [captured EXCEPT ![p] = NoFile]
  /\ lost' = [lost EXCEPT ![p] = {}]

(* nfd_prof_eval_all on the profile at the cursor: its counters are taken  *)
(* and reset, and an action may start, which fetches the flows.            *)
EvalProfile ==
  /\ dpc = "eval" /\ dcur <= NumProfiles
  /\ evaluated' = [evaluated EXCEPT ![dcur] = counted[dcur]]
  /\ counted' = [counted EXCEPT ![dcur] = {}]
  /\ StartNothing(dcur) \/ StartAction(dcur)
  /\ dcur' = dcur + 1
  /\ UNCHANGED <<readerVars, dpc, qlock, handle, files, window, storedIn, dropped,
                 mark, renamed>>

EvalDone ==
  /\ dpc = "eval" /\ dcur > NumProfiles
  /\ dpc' = "sleep"
  /\ NothingEvaluated(evaluated', captured', lost')
  /\ UNCHANGED <<readerVars, dcur, qlock, handle, files, counted, window, storedIn,
                 dropped, mark, renamed>>

(* Time passes: the dump thread sleeps out its window, or waits for the    *)
(* queue.  (This also ends the model at its bounds without a deadlock; that *)
(* no thread waits for ever is EveryFlowSettled and EveryWindowEvaluated.)  *)
Sleep == dpc = "sleep" /\ UNCHANGED vars

Reader == ReadFlow \/ RingEof \/ CountFlow \/ CountDone \/ ReaderLock \/ StoreFlow
Dumper == DumperLock \/ CloseQueue \/ RotateQueue \/ OpenQueue \/ EvalProfile
          \/ EvalDone

Next == Reader \/ Dumper \/ Sleep

(* Both threads are scheduled; a thread that finds the mutex free over and *)
(* over gets it in the end, because the other one holds it only for one    *)
(* lnf_write or one nfd_queue_shift, and sleeps or reads in between.  The  *)
(* ring buffer need not deliver anything.                                  *)
Fairness ==
  /\ WF_vars(CountFlow \/ CountDone \/ StoreFlow)
  /\ SF_vars(ReaderLock)
  /\ SF_vars(DumperLock)
  /\ WF_vars(CloseQueue \/ RotateQueue \/ OpenQueue \/ EvalProfile \/ EvalDone)

Spec == Init /\ [][Next]_vars
FairSpec == Spec /\ Fairness

--------------------------------------------------------------------------------
(* Properties. *)

(* The read thread never writes through a handle the dump thread closed:   *)
(* queue_lock covers the whole of nfd_queue_shift.                         *)
NoWriteToClosed == rpc = "write" => handle # "closed"

StoredIn(w) == {f \in Flows : w > 0 /\ storedIn[f] = w}

(* File i of the queue holds exactly the flows stored i windows ago, for   *)
(* every file but the last, whichever files could not be opened, as long   *)
(* as no rename failed (rotation and reopening in nfd_queue_shift, against *)
(* the read thread's writes).                                              *)
QueueHoldsWindows ==
  renamed /\ dpc # "open" =>
    \A i \in Files \ {QueueNum} : Content(i) \cap Flows = StoredIn(window - i)

(* Even when renames fail, or are skipped for a missing file, no file      *)
(* holds a flow newer than its place in the queue says.                    *)
NeverNewer ==
  dpc # "open" =>
    \A i \in Files : \A f \in Content(i) \cap Flows : storedIn[f] <= window - i

(* An action that starts gets every flow it was triggered by, of those the *)
(* read thread had finished with when the window was switched, except the  *)
(* records that reading the queue or writing the copy failed on: no flow   *)
(* is missing because the wrong files were read.  (Flows the read thread   *)
(* was counting then, and flows counted while the evaluation runs, are     *)
(* evaluated in this window and stored in the next one's file.  A rename   *)
(* that failed voids the promise.)                                         *)
EvidenceCaptured ==
  renamed /\ Backtrack > 0 /\ dpc = "eval" =>
    \A p \in 1 .. dcur - 1 :
      captured[p] # NoFile =>
        {f \in evaluated[p] : f < mark} \subseteq captured[p] \cup lost[p] \cup dropped

(* ... and, whatever fails in the copying, nothing older than              *)
(* queue_backtrack windows, in particular no records that an earlier run   *)
(* of the daemon left in the directory.  (This is from the window on that  *)
(* is queue_backtrack windows after the start, which for the code's 1 is   *)
(* the first one evaluated; with backtrack = queue_num the last file may   *)
(* be stale after a failed open.)                                          *)
Recent == {f \in Flows : storedIn[f] \in window - Backtrack .. window - 1}

EvidenceRecent ==
  renamed /\ Backtrack < QueueNum /\ Backtrack < window /\ dpc = "eval" =>
    \A p \in 1 .. dcur - 1 : captured[p] # NoFile => captured[p] \subseteq Recent

(* A record the read thread accepted is in the end stored or dropped: the  *)
(* thread is never stuck behind the evaluation or behind a failed rotation. *)
EveryFlowSettled ==
  \A f \in Flows : rec = f /\ rpc = "count" ~> storedIn[f] > 0 \/ f \in dropped

(* Every window that ends is evaluated, also when the reader is at EOF or  *)
(* the queue file cannot be written.                                       *)
EveryWindowEvaluated ==
  \A w \in 1 .. MaxWindow - 1 : window = w ~> window = w + 1 /\ dpc = "sleep"

(* Strengthenings of the above, for the proofs. *)

Shifting == dpc \in {"close", "rotate", "open"}
InHand == rpc \in {"count", "store", "write"}

(* The lock is held by whoever writes or shifts. *)
LockHeld ==
  /\ rpc = "write" <=> qlock = "reader"
  /\ Shifting <=> qlock = "dumper"
  /\ handle = "closed" => dpc \in {"rotate", "open"}
  /\ Shifting => window < MaxWindow

(* Flows are counted, then stored or dropped, one after the other. *)
FlowsInOrder ==
  /\ InHand => rec = next - 1 /\ rec \in Flows
  /\ \A f \in Flows : f >= InFlight => storedIn[f] = 0
  /\ \A i \in Files : \A f \in Content(i) \cap Flows : storedIn[f] > 0
  /\ mark <= InFlight

(* The window whose flows file i holds; after the renames, file 1 has the  *)
(* current window's.                                                       *)
WindowOf(i) == IF dpc = "open" THEN window + 1 - i ELSE window - i

FilesAged ==
  \A i \in Files : \A f \in Content(i) \cap Flows : storedIn[f] <= WindowOf(i)

FilesExact ==
  renamed =>
    /\ dpc = "open" => files[0] = NoFile
    /\ \A i \in Files : StoredIn(WindowOf(i)) \subseteq Content(i)
    /\ \A i \in Files \ {QueueNum} :
         /\ Content(i) \cap Flows \subseteq StoredIn(WindowOf(i))
         /\ WindowOf(i) > 0 => Content(i) \subseteq Flows

(* What a profile has counted since it was evaluated: flows it matches,    *)
(* settled unless in hand, and stored in this window, or in the last one   *)
(* while its evaluation is due.                                            *)
Due(p) == dpc = "eval" /\ p >= dcur

CountsCurrent ==
  \A p \in Profiles : \A f \in counted[p] :
    /\ f \in Match[p] /\ f < next
    /\ f < InFlight => storedIn[f] > 0 \/ f \in dropped
    /\ storedIn[f] > 0 => storedIn[f] >= IF Due(p) THEN window - 1 ELSE window

(* Flows the reader had finished with at the switch are in older windows.  *)
MarkPast == \A f \in Flows : f < mark => storedIn[f] < window

PipelineInv ==
  /\ TypeOK
  /\ LockHeld
  /\ FlowsInOrder
  /\ FilesAged
  /\ FilesExact
  /\ CountsCurrent
  /\ MarkPast
  /\ EvidenceCaptured
  /\ EvidenceRecent
================================================================================
