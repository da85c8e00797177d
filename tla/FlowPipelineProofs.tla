--------------------------- MODULE FlowPipelineProofs ---------------------------
(***************************************************************************)
(* Proofs about FlowPipeline, for any number of records, profiles, queue   *)
(* files and windows: the lock protects the queue file, the files hold the *)
(* windows they should, and actions get the flows they were started by.    *)
(***************************************************************************)
EXTENDS FlowPipeline, TLAPS

LEMMA ConstantsTyped ==
  /\ NumFlows \in Nat /\ NumProfiles \in Nat /\ MaxWindow \in Nat /\ MaxWindow > 0
  /\ QueueNum \in Nat /\ QueueNum > 0 /\ Backtrack \in Nat
  /\ 0 \in Files /\ QueueNum \in Files /\ Files \subseteq Nat
BY FlowPipelineAssumption DEF Files

LEMMA NoFileIsNoContent == NoFile \cap (Flows \cup Old) = {} /\ NoFile # {}
BY FlowPipelineAssumption DEF NoFile

LEMMA ContentTyped ==
  ASSUME TypeOK, NEW i \in Files
  PROVE  Content(i) \subseteq Flows \cup Old
<1>1. files[i] \in FileContents
  BY DEF TypeOK
<1> QED
  BY <1>1 DEF Content, FileContents

LEMMA InitInv == Init => PipelineInv
<1> SUFFICES ASSUME Init PROVE PipelineInv
  OBVIOUS
<1>1. TypeOK
  <2>1. {} \in FileContents /\ Old \in FileContents /\ NoFile \in FileContents
    BY DEF FileContents
  <2>2. files \in [Files -> FileContents]
    BY <2>1 DEF Init
  <2> QED
    BY <2>1, <2>2, ConstantsTyped DEF Init, NothingEvaluated, TypeOK
<1>2. LockHeld
  BY DEF Init, LockHeld, Shifting
<1>3. \A i \in Files : Content(i) \cap Flows = {} /\ (i = 0 => Content(i) = {})
  BY FlowPipelineAssumption, ConstantsTyped DEF Init, Content
<1>4. FlowsInOrder
  BY <1>3 DEF Init, FlowsInOrder, InHand, InFlight
<1>5. FilesAged
  BY <1>3 DEF FilesAged
<1>6. \A w : StoredIn(w) = {}
  BY DEF Init, StoredIn
<1>7. FilesExact
  BY <1>3, <1>6, ConstantsTyped DEF Init, FilesExact, WindowOf
<1>8. CountsCurrent /\ MarkPast
  BY DEF Init, CountsCurrent, MarkPast, Flows
<1>9. EvidenceCaptured /\ EvidenceRecent
  BY DEF Init, EvidenceCaptured, EvidenceRecent
<1> QED
  BY <1>1, <1>2, <1>4, <1>5, <1>7, <1>8, <1>9 DEF PipelineInv

--------------------------------------------------------------------------------
(* Steps of the read thread. *)

LEMMA StepReadFlow ==
  ASSUME PipelineInv, ReadFlow
  PROVE  PipelineInv'
<1> USE DEF ReadFlow
<1>1. TypeOK'
  BY ConstantsTyped DEF PipelineInv, TypeOK, history, evidence
<1>2. LockHeld'
  BY DEF PipelineInv, LockHeld, Shifting, history, evidence
<1>3. FlowsInOrder'
  BY DEF PipelineInv, FlowsInOrder, TypeOK, InHand, InFlight, Content, Flows, history, evidence
<1>4. FilesAged' /\ FilesExact'
  BY DEF PipelineInv, FilesAged, FilesExact, WindowOf, Content, StoredIn, history, evidence
<1>5. CountsCurrent'
  BY DEF PipelineInv, CountsCurrent, Due, InFlight, TypeOK, Flows, history, evidence
<1>6. MarkPast' /\ EvidenceCaptured' /\ EvidenceRecent'
  BY DEF PipelineInv, MarkPast, EvidenceCaptured, EvidenceRecent, Recent, history, evidence
<1> QED
  BY <1>1, <1>2, <1>3, <1>4, <1>5, <1>6 DEF PipelineInv

LEMMA StepStore ==
  ASSUME PipelineInv, StoreFlow
  PROVE  PipelineInv'
<1>0. /\ rpc = "write" /\ rpc' = "read" /\ rec \in Flows /\ rec = next - 1
      /\ InFlight = rec /\ InFlight' = next /\ storedIn[rec] = 0
      /\ dpc \in {"sleep", "eval"} /\ window \in Nat /\ window > 0
      /\ UNCHANGED <<next, rec, rcur, dpc, dcur, handle, counted, window, mark,
                     renamed, evaluated, captured, lost>>
  BY DEF PipelineInv, TypeOK, LockHeld, Shifting, FlowsInOrder, InHand, InFlight, StoreFlow, Flows, evidence
<1>1. LockHeld'
  BY <1>0 DEF PipelineInv, LockHeld, Shifting, StoreFlow, Released
<1>2. CASE /\ handle # "null" /\ files[0] # NoFile
           /\ files' = [files EXCEPT ![0] = @ \cup {rec}]
           /\ storedIn' = [storedIn EXCEPT ![rec] = window]
           /\ UNCHANGED dropped
  <2>1. /\ files[0] \subseteq Flows \cup Old /\ 0 \in Files
        /\ files' \in [Files -> FileContents]
    <3>1. files[0] \in FileContents /\ 0 \in Files
      BY ConstantsTyped DEF PipelineInv, TypeOK
    <3>2. files[0] \subseteq Flows \cup Old
      BY <1>2, <3>1 DEF FileContents
    <3>3. files[0] \cup {rec} \in FileContents
      BY <1>0, <3>2 DEF FileContents
    <3> QED
      BY <1>2, <3>1, <3>2, <3>3 DEF PipelineInv, TypeOK
  <2>2. \A i \in Files : Content(i)' = IF i = 0 THEN Content(0) \cup {rec} ELSE Content(i)
    <3>1. files[0] \cup {rec} # NoFile
      BY <1>0, NoFileIsNoContent
    <3> QED
      BY <1>2, <2>1, <3>1 DEF Content, PipelineInv, TypeOK
  <2>3. \A f \in Flows : storedIn'[f] = IF f = rec THEN window ELSE storedIn[f]
    BY <1>0, <1>2 DEF PipelineInv, TypeOK
  <2>4. \A i \in Files : rec \notin Content(i)
    BY <1>0 DEF PipelineInv, FlowsInOrder
  <2>5. TypeOK'
    <3>1. storedIn' \in [Flows -> 0 .. window']
      BY <1>0, <1>2 DEF PipelineInv, TypeOK
    <3>2. qlock' = "none"
      BY DEF StoreFlow, Released
    <3> QED
      BY <1>0, <1>2, <2>1, <3>1, <3>2 DEF PipelineInv, TypeOK
  <2>6. FlowsInOrder'
    BY <1>0, <2>2, <2>3 DEF PipelineInv, FlowsInOrder, TypeOK, InHand, Flows
  <2>7. FilesAged'
    <3>1. \A i \in Files : WindowOf(i)' = WindowOf(i) /\ (i = 0 => WindowOf(i) = window)
      BY <1>0, ConstantsTyped DEF WindowOf
    <3> SUFFICES ASSUME NEW i \in Files, NEW f \in Content(i)' \cap Flows
                 PROVE  storedIn'[f] <= WindowOf(i)
      BY <3>1 DEF FilesAged
    <3>2. CASE f \in Content(i)
      BY <2>3, <2>4, <3>2 DEF PipelineInv, FilesAged
    <3>3. CASE f \notin Content(i)
      BY <1>0, <2>2, <2>3, <3>1, <3>3
    <3> QED
      BY <3>2, <3>3
  <2>8. \A i \in Files : StoredIn(WindowOf(i))' =
          IF i = 0 THEN StoredIn(WindowOf(i)) \cup {rec} ELSE StoredIn(WindowOf(i))
    <3>1. \A i \in Files : /\ WindowOf(i)' = WindowOf(i) /\ WindowOf(i) = window - i
                          /\ i \in Nat
      BY <1>0, ConstantsTyped DEF WindowOf
    <3> SUFFICES ASSUME NEW i \in Files
                 PROVE  StoredIn(WindowOf(i))' =
                   IF i = 0 THEN StoredIn(WindowOf(i)) \cup {rec} ELSE StoredIn(WindowOf(i))
      OBVIOUS
    <3>2. \A f : f \in StoredIn(WindowOf(i))' <=>
                   f \in Flows /\ window - i > 0 /\ storedIn'[f] = window - i
      BY <3>1 DEF StoredIn
    <3>3. \A f : f \in StoredIn(WindowOf(i)) <=>
                   f \in Flows /\ window - i > 0 /\ storedIn[f] = window - i
      BY <3>1 DEF StoredIn
    <3>4. \A f : f \in StoredIn(WindowOf(i))' <=>
                   (f \in StoredIn(WindowOf(i)) \/ (i = 0 /\ f = rec))
      <4>1. i \in Nat /\ window \in Nat /\ window > 0 /\ rec \in Flows
        BY <1>0, <3>1
      <4>2. storedIn'[rec] = window /\ storedIn[rec] = 0
        BY <1>0, <2>3
      <4>3. \A f \in Flows : f # rec => storedIn'[f] = storedIn[f]
        BY <2>3
      <4>4. rec \in StoredIn(WindowOf(i))' <=> i = 0
        BY <3>2, <4>1, <4>2
      <4>5. rec \notin StoredIn(WindowOf(i))
        BY <3>3, <4>1, <4>2
      <4> QED
        BY <3>2, <3>3, <4>3, <4>4, <4>5
    <3> QED
      BY <3>4
  <2>9. FilesExact'
    <3>1. \A i \in Files : WindowOf(i)' = WindowOf(i) /\ (WindowOf(i) = window <=> i = 0)
      BY <1>0, ConstantsTyped DEF WindowOf
    <3> SUFFICES ASSUME renamed'
                 PROVE  FilesExact'
      BY DEF FilesExact
    <3>2. /\ \A i \in Files : StoredIn(WindowOf(i)) \subseteq Content(i)
          /\ \A i \in Files \ {QueueNum} :
               /\ Content(i) \cap Flows \subseteq StoredIn(WindowOf(i))
               /\ WindowOf(i) > 0 => Content(i) \subseteq Flows
      BY <1>0 DEF PipelineInv, FilesExact
    <3>3. \A i \in Files : StoredIn(WindowOf(i))' \subseteq Content(i)'
      BY <2>2, <2>8, <3>2
    <3>4. \A i \in Files \ {QueueNum} : (Content(i) \cap Flows)' \subseteq StoredIn(WindowOf(i))'
      BY <1>0, <2>2, <2>8, <3>2
    <3>5. \A i \in Files \ {QueueNum} : WindowOf(i)' > 0 => Content(i)' \subseteq Flows
      BY <1>0, <2>2, <3>1, <3>2
    <3> QED
      BY <1>0, <3>3, <3>4, <3>5 DEF FilesExact
  <2>10. CountsCurrent'
    BY <1>0, <1>2, <2>3 DEF PipelineInv, CountsCurrent, Due, TypeOK, Flows
  <2>11. MarkPast'
    BY <1>0, <2>3 DEF PipelineInv, MarkPast, FlowsInOrder, TypeOK, Flows
  <2>12. EvidenceCaptured'
    BY <1>0, <1>2 DEF PipelineInv, EvidenceCaptured
  <2>13. EvidenceRecent'
    <3>1. Backtrack < window => Recent \subseteq Recent'
      <4> SUFFICES ASSUME Backtrack < window, NEW f \in Recent
                   PROVE  f \in Recent'
        OBVIOUS
      <4>1. f \in Flows /\ storedIn[f] \in window - Backtrack .. window - 1
        BY DEF Recent
      <4>2. f # rec
        BY <1>0, <4>1, ConstantsTyped
      <4> QED
        BY <1>0, <2>3, <4>1, <4>2 DEF Recent
    <3> QED
      BY <1>0, <3>1 DEF PipelineInv, EvidenceRecent
  <2> QED
    BY <1>1, <2>5, <2>6, <2>7, <2>9, <2>10, <2>11, <2>12, <2>13 DEF PipelineInv
<1>3. CASE /\ dropped' = dropped \cup {rec}
           /\ UNCHANGED <<files, storedIn>>
  <2>1. TypeOK'
    BY <1>0, <1>3, ConstantsTyped DEF PipelineInv, TypeOK, StoreFlow, Released
  <2>2. FlowsInOrder'
    BY <1>0, <1>3 DEF PipelineInv, FlowsInOrder, TypeOK, InHand, Flows, Content
  <2>3. FilesAged' /\ FilesExact'
    BY <1>0, <1>3 DEF PipelineInv, FilesAged, FilesExact, WindowOf, Content, StoredIn
  <2>4. CountsCurrent'
    BY <1>0, <1>3 DEF PipelineInv, CountsCurrent, Due, TypeOK, Flows
  <2>5. MarkPast' /\ EvidenceCaptured' /\ EvidenceRecent'
    BY <1>0, <1>3 DEF PipelineInv, MarkPast, EvidenceCaptured, EvidenceRecent, Recent
  <2> QED
    BY <1>1, <2>1, <2>2, <2>3, <2>4, <2>5 DEF PipelineInv
<1> QED
  BY <1>2, <1>3 DEF StoreFlow

LEMMA StepCountFlow ==
  ASSUME PipelineInv, CountFlow
  PROVE  PipelineInv'
<1>1. /\ rcur \in Profiles /\ rec \in Flows /\ rec < next /\ rpc = "count"
      /\ InFlight' = InFlight /\ InFlight = rec /\ storedIn[rec] = 0
      /\ counted' = [counted EXCEPT ![rcur] = IF rec \in Match[rcur] THEN @ \cup {rec} ELSE @]
      /\ rcur' = rcur + 1
      /\ UNCHANGED <<next, rpc, rec, dpc, dcur, qlock, handle, files, window, storedIn,
                     dropped, mark, renamed, evaluated, captured, lost>>
  BY ConstantsTyped
  DEF CountFlow, PipelineInv, TypeOK, FlowsInOrder, InHand, InFlight, Profiles, Flows, history, evidence
<1>2. TypeOK'
  <2>1. counted' \in [Profiles -> SUBSET Flows]
    BY <1>1 DEF PipelineInv, TypeOK
  <2>2. rcur' \in 1 .. NumProfiles + 1
    BY <1>1, ConstantsTyped DEF Profiles
  <2> QED
    BY <1>1, <2>1, <2>2 DEF PipelineInv, TypeOK
<1>3. LockHeld' /\ FlowsInOrder'
  BY <1>1 DEF PipelineInv, LockHeld, Shifting, FlowsInOrder, InHand, Content
<1>4. FilesAged' /\ FilesExact'
  BY <1>1 DEF PipelineInv, FilesAged, FilesExact, WindowOf, Content, StoredIn
<1>5. CountsCurrent'
  <2>1. \A p \in Profiles : \A f \in counted'[p] :
          f \in counted[p] \/ (f = rec /\ rec \in Match[p])
    BY <1>1 DEF PipelineInv, TypeOK
  <2> QED
    BY <1>1, <2>1 DEF PipelineInv, CountsCurrent, Due, Flows
<1>6. MarkPast' /\ EvidenceCaptured' /\ EvidenceRecent'
  BY <1>1 DEF PipelineInv, MarkPast, EvidenceCaptured, EvidenceRecent, Recent
<1> QED
  BY <1>2, <1>3, <1>4, <1>5, <1>6 DEF PipelineInv

(* The steps that change nothing but a thread's place. *)
LEMMA StepReaderMoves ==
  ASSUME PipelineInv, RingEof \/ CountDone \/ ReaderLock
  PROVE  PipelineInv'
<1>1. UNCHANGED <<next, rec, rcur, dpc, dcur, handle, files, counted, window, storedIn,
                  dropped, mark, renamed, evaluated, captured, lost>>
  BY DEF RingEof, CountDone, ReaderLock, history, evidence
<1>2. InFlight' = InFlight /\ (InHand' <=> InHand)
  BY <1>1 DEF RingEof, CountDone, ReaderLock, InFlight, InHand
<1>3. TypeOK'
  BY <1>1 DEF PipelineInv, TypeOK, RingEof, CountDone, ReaderLock
<1>4. LockHeld'
  BY <1>1 DEF PipelineInv, LockHeld, Shifting, RingEof, CountDone, ReaderLock, ReaderMayEnter
<1>5. FlowsInOrder'
  BY <1>1, <1>2 DEF PipelineInv, FlowsInOrder, Content
<1>6. FilesAged' /\ FilesExact'
  BY <1>1 DEF PipelineInv, FilesAged, FilesExact, WindowOf, Content, StoredIn
<1>7. CountsCurrent'
  BY <1>1, <1>2 DEF PipelineInv, CountsCurrent, Due
<1>8. MarkPast' /\ EvidenceCaptured' /\ EvidenceRecent'
  BY <1>1 DEF PipelineInv, MarkPast, EvidenceCaptured, EvidenceRecent, Recent
<1> QED
  BY <1>3, <1>4, <1>5, <1>6, <1>7, <1>8 DEF PipelineInv

--------------------------------------------------------------------------------
(* Steps of the dump thread. *)

LEMMA StepDumperMoves ==
  ASSUME PipelineInv, DumperLock \/ CloseQueue \/ EvalDone
  PROVE  PipelineInv'
<1>1. /\ UNCHANGED <<next, rpc, rec, rcur, dcur, files, counted, window, storedIn,
                     dropped, mark, renamed>>
      /\ dpc # "open" /\ dpc' # "open" /\ dpc' # "eval"
      /\ dpc = "eval" => dcur > NumProfiles
  BY DEF DumperLock, CloseQueue, EvalDone, readerVars, history
<1>2. UNCHANGED <<evaluated, captured, lost>> \/ NothingEvaluated(evaluated', captured', lost')
  BY DEF DumperLock, CloseQueue, EvalDone, history, evidence
<1>3. InFlight' = InFlight /\ (InHand' <=> InHand)
  BY <1>1 DEF InFlight, InHand
<1>4. TypeOK'
  <2>1. /\ evaluated' \in [Profiles -> SUBSET Flows]
        /\ captured' \in [Profiles -> FileContents]
        /\ lost' \in [Profiles -> SUBSET (Flows \cup Old)]
    <3>1. NoFile \in FileContents
      BY DEF FileContents
    <3> QED
      BY <1>2, <3>1 DEF PipelineInv, TypeOK, NothingEvaluated
  <2> QED
    BY <1>1, <2>1 DEF PipelineInv, TypeOK, DumperLock, CloseQueue, EvalDone
<1>5. LockHeld'
  BY <1>1 DEF PipelineInv, TypeOK, LockHeld, Shifting, DumperLock, CloseQueue, EvalDone
<1>6. FlowsInOrder'
  BY <1>1, <1>3 DEF PipelineInv, FlowsInOrder, Content
<1>7. FilesAged' /\ FilesExact'
  BY <1>1 DEF PipelineInv, FilesAged, FilesExact, WindowOf, Content, StoredIn
<1>8. CountsCurrent'
  <2>1. \A p \in Profiles : ~Due(p) /\ ~Due(p)'
    BY <1>1, ConstantsTyped DEF Due, Profiles, PipelineInv, TypeOK
  <2> QED
    BY <1>1, <1>3, <2>1 DEF PipelineInv, CountsCurrent
<1>9. MarkPast' /\ EvidenceCaptured' /\ EvidenceRecent'
  BY <1>1 DEF PipelineInv, MarkPast, EvidenceCaptured, EvidenceRecent
<1> QED
  BY <1>4, <1>5, <1>6, <1>7, <1>8, <1>9 DEF PipelineInv

(* What the renames leave in file i: what it held, or what the file below  *)
(* held; without a failed rename, what the file below held, unless file i  *)
(* is the last one, which may also keep its own.                           *)
LEMMA RotatedFiles ==
  ASSUME TypeOK, NEW broken, files' = Rotated(broken)
  PROVE  /\ files' \in [Files -> FileContents]
         /\ \A i \in Files : \/ Content(i)' \subseteq Content(i)
                             \/ i > 0 /\ Content(i)' \subseteq Content(i - 1)
         /\ broken = {} =>
              /\ files'[0] = NoFile
              /\ \A i \in Files \ {0} : Content(i - 1) \subseteq Content(i)'
              /\ \A i \in Files \ {0, QueueNum} : Content(i)' = Content(i - 1)
<1> DEFINE left(i) == IF i < QueueNum /\ i + 1 \notin broken THEN NoFile ELSE files[i]
<1>1. files' = [i \in Files |->
                  IF i > 0 /\ i \notin broken /\ files[i - 1] # NoFile
                    THEN files[i - 1] ELSE left(i)]
  BY DEF Rotated
<1>2. NoFile \in FileContents /\ files \in [Files -> FileContents]
  BY DEF FileContents, TypeOK
<1>3. \A i \in Files : i \in Nat /\ (i > 0 => i - 1 \in Files)
  BY ConstantsTyped DEF Files
<1>4. \A i \in Files : left(i) \in {NoFile, files[i]}
  OBVIOUS
<1>5. \A i \in Files : files'[i] \in {NoFile, files[i]} \/ (i > 0 /\ files'[i] = files[i - 1])
  BY <1>1, <1>4
<1>6. files' \in [Files -> FileContents]
  BY <1>1, <1>2, <1>3, <1>5
<1>7. \A i \in Files : \/ Content(i)' \subseteq Content(i)
                       \/ i > 0 /\ Content(i)' \subseteq Content(i - 1)
  BY <1>5 DEF Content
<1>8. ASSUME broken = {}
      PROVE  /\ files'[0] = NoFile
             /\ \A i \in Files \ {0} : Content(i - 1) \subseteq Content(i)'
             /\ \A i \in Files \ {0, QueueNum} : Content(i)' = Content(i - 1)
  <2>1. files'[0] = NoFile
    BY <1>1, <1>8, ConstantsTyped
  <2>2. ASSUME NEW i \in Files \ {0}
        PROVE  files'[i] = IF files[i - 1] # NoFile THEN files[i - 1]
                           ELSE IF i < QueueNum THEN NoFile ELSE files[i]
    BY <1>1, <1>3, <1>8
  <2>3. \A i \in Files \ {0} : Content(i - 1) \subseteq Content(i)'
    BY <2>2 DEF Content
  <2>4. \A i \in Files \ {0, QueueNum} : i < QueueNum
    BY ConstantsTyped DEF Files
  <2>5. \A i \in Files \ {0, QueueNum} : Content(i)' = Content(i - 1)
    BY <2>2, <2>4 DEF Content
  <2> QED
    BY <2>1, <2>3, <2>5
<1> QED
  BY <1>6, <1>7, <1>8

LEMMA StepRotate ==
  ASSUME PipelineInv, RotateQueue
  PROVE  PipelineInv'
<1>1. PICK broken : /\ files' = Rotated(broken)
                    /\ renamed' = (renamed /\ broken = {})
  BY DEF RotateQueue
<1>2. /\ dpc = "rotate" /\ dpc' = "open"
      /\ UNCHANGED <<next, rpc, rec, rcur, dcur, qlock, handle, counted, window,
                     storedIn, dropped, mark, evaluated, captured, lost>>
      /\ window \in Nat
  BY DEF RotateQueue, readerVars, PipelineInv, TypeOK, evidence
<1>3. /\ files' \in [Files -> FileContents]
      /\ \A i \in Files : \/ Content(i)' \subseteq Content(i)
                          \/ i > 0 /\ Content(i)' \subseteq Content(i - 1)
      /\ renamed' => /\ files'[0] = NoFile
                     /\ \A i \in Files \ {0} : Content(i - 1) \subseteq Content(i)'
                     /\ \A i \in Files \ {0, QueueNum} : Content(i)' = Content(i - 1)
  BY <1>1, RotatedFiles DEF PipelineInv
<1>4. \A i \in Files : /\ i \in Nat /\ (i > 0 => i - 1 \in Files)
                       /\ WindowOf(i) = window - i /\ WindowOf(i)' = window + 1 - i
  BY <1>2, ConstantsTyped DEF Files, WindowOf
<1>5. TypeOK'
  <2>1. renamed' \in BOOLEAN
    BY <1>1 DEF PipelineInv, TypeOK
  <2> QED
    BY <1>2, <1>3, <2>1 DEF PipelineInv, TypeOK
<1>6. LockHeld'
  BY <1>2 DEF PipelineInv, LockHeld, Shifting
<1>7. InFlight' = InFlight /\ (InHand' <=> InHand)
  BY <1>2 DEF InFlight, InHand
<1>8. FlowsInOrder'
  <2>1. \A i \in Files : \A f \in Content(i)' \cap Flows : storedIn[f] > 0
    BY <1>3, <1>4 DEF PipelineInv, FlowsInOrder
  <2> QED
    BY <1>2, <1>7, <2>1 DEF PipelineInv, FlowsInOrder
<1>9. FilesAged'
  <2> SUFFICES ASSUME NEW i \in Files, NEW f \in Content(i)' \cap Flows
               PROVE  storedIn[f] <= window + 1 - i
    BY <1>2, <1>4 DEF FilesAged
  <2>1. storedIn[f] \in Nat
    BY DEF PipelineInv, TypeOK
  <2>2. CASE f \in Content(i)
    <3>1. storedIn[f] <= window - i
      BY <1>4, <2>2 DEF PipelineInv, FilesAged
    <3> QED
      BY <1>2, <1>4, <2>1, <3>1
  <2>3. CASE i > 0 /\ f \in Content(i - 1)
    <3>1. storedIn[f] <= window - (i - 1)
      BY <1>4, <2>3 DEF PipelineInv, FilesAged
    <3> QED
      BY <1>2, <1>4, <2>1, <3>1
  <2> QED
    BY <1>3, <2>2, <2>3
<1>10. FilesExact'
  <2> SUFFICES ASSUME renamed'
               PROVE  FilesExact'
    BY DEF FilesExact
  <2>1. renamed
    BY <1>1
  <2>2. /\ \A i \in Files : StoredIn(window - i) \subseteq Content(i)
        /\ \A i \in Files \ {QueueNum} :
             /\ Content(i) \cap Flows \subseteq StoredIn(window - i)
             /\ window - i > 0 => Content(i) \subseteq Flows
    BY <1>4, <2>1 DEF PipelineInv, FilesExact
  <2>3. \A w : StoredIn(w)' = StoredIn(w)
    BY <1>2 DEF StoredIn
  <2>4. StoredIn(window + 1) = {} /\ Content(0)' = {}
    BY <1>2, <1>3 DEF StoredIn, Content, PipelineInv, TypeOK
  <2>5. \A i \in Files \ {0} : i - 1 \in Files /\ window - (i - 1) = window + 1 - i
    BY <1>2, <1>4
  <2>6. ASSUME NEW i \in Files
        PROVE  StoredIn(window + 1 - i) \subseteq Content(i)'
    <3>1. CASE i = 0
      BY <1>2, <2>4, <3>1
    <3>2. CASE i # 0
      BY <1>3, <2>2, <2>5, <3>2
    <3> QED
      BY <3>1, <3>2
  <2>7. ASSUME NEW i \in Files \ {QueueNum}
        PROVE  /\ Content(i)' \cap Flows \subseteq StoredIn(window + 1 - i)
               /\ window + 1 - i > 0 => Content(i)' \subseteq Flows
    <3>1. CASE i = 0
      BY <2>4, <3>1
    <3>2. CASE i # 0
      <4>1. i - 1 \in Files \ {QueueNum} /\ Content(i)' = Content(i - 1)
        BY <1>3, <2>5, <3>2, ConstantsTyped DEF Files
      <4> QED
        BY <2>2, <2>5, <3>2, <4>1
    <3> QED
      BY <3>1, <3>2
  <2>8. \A i \in Files : StoredIn(WindowOf(i))' = StoredIn(window + 1 - i)
    BY <1>2, <1>4 DEF StoredIn
  <2> QED
    BY <1>3, <1>4, <2>6, <2>7, <2>8 DEF FilesExact
<1>11. CountsCurrent'
  BY <1>2, <1>7 DEF PipelineInv, CountsCurrent, Due
<1>12. MarkPast' /\ EvidenceCaptured' /\ EvidenceRecent'
  BY <1>2 DEF PipelineInv, MarkPast, EvidenceCaptured, EvidenceRecent
<1> QED
  BY <1>5, <1>6, <1>8, <1>9, <1>10, <1>11, <1>12 DEF PipelineInv

LEMMA StepOpen ==
  ASSUME PipelineInv, OpenQueue
  PROVE  PipelineInv'
<1>1. /\ dpc = "open" /\ dpc' = "eval" /\ dcur' = 1 /\ qlock' = "none"
      /\ window' = window + 1 /\ mark' = InFlight /\ handle' \in {"open", "null"}
      /\ UNCHANGED <<next, rpc, rec, rcur, counted, storedIn, dropped, renamed,
                     evaluated, captured, lost>>
      /\ window \in Nat /\ window > 0 /\ window < MaxWindow
  BY DEF OpenQueue, Released, readerVars, PipelineInv, TypeOK, LockHeld, Shifting, evidence
<1>2. files' = [files EXCEPT ![0] = {}] \/ files' = files
  BY DEF OpenQueue
<1>3. InFlight' = InFlight /\ (InHand' <=> InHand)
  BY <1>1 DEF InFlight, InHand
<1>4. /\ files' \in [Files -> FileContents]
      /\ \A i \in Files : Content(i)' \subseteq Content(i)
      /\ \A i \in Files \ {0} : Content(i)' = Content(i)
      /\ renamed => Content(0) = {}
  <2>1. {} \in FileContents /\ files \in [Files -> FileContents] /\ 0 \in Files
    BY ConstantsTyped DEF FileContents, PipelineInv, TypeOK
  <2>2. renamed => files[0] = NoFile
    BY <1>1 DEF PipelineInv, FilesExact
  <2> QED
    BY <1>2, <2>1, <2>2 DEF Content
<1>5. \A i \in Files : WindowOf(i) = window + 1 - i /\ WindowOf(i)' = window + 1 - i
  BY <1>1, ConstantsTyped DEF WindowOf
<1>6. TypeOK'
  <2>1. InFlight \in 1 .. NumFlows + 1
    BY ConstantsTyped DEF PipelineInv, TypeOK, FlowsInOrder, InHand, InFlight, Flows
  <2>2. window' \in 1 .. MaxWindow /\ dcur' \in 1 .. NumProfiles + 1
    BY <1>1, ConstantsTyped
  <2>3. storedIn' \in [Flows -> 0 .. window']
    BY <1>1 DEF PipelineInv, TypeOK
  <2> QED
    BY <1>1, <1>4, <2>1, <2>2, <2>3 DEF PipelineInv, TypeOK
<1>7. LockHeld'
  BY <1>1 DEF PipelineInv, LockHeld, Shifting
<1>8. FlowsInOrder'
  <2>1. mark' <= InFlight
    BY <1>1 DEF PipelineInv, TypeOK, InFlight
  <2> QED
    BY <1>1, <1>3, <1>4, <2>1 DEF PipelineInv, FlowsInOrder
<1>9. FilesAged'
  BY <1>1, <1>4, <1>5 DEF PipelineInv, FilesAged
<1>10. FilesExact'
  <2>1. \A i \in Files : StoredIn(WindowOf(i))' = StoredIn(WindowOf(i))
    BY <1>1, <1>5 DEF StoredIn
  <2> SUFFICES ASSUME renamed'
               PROVE  FilesExact'
    BY DEF FilesExact
  <2>2. renamed /\ \A i \in Files : Content(i)' = Content(i)
    BY <1>1, <1>4
  <2> QED
    BY <1>1, <1>5, <2>1, <2>2 DEF PipelineInv, FilesExact
<1>11. CountsCurrent'
  <2>1. \A p \in Profiles : ~Due(p) /\ Due(p)'
    BY <1>1, ConstantsTyped DEF Due, Profiles
  <2> QED
    BY <1>1, <1>3, <2>1 DEF PipelineInv, CountsCurrent
<1>12. MarkPast'
  BY <1>1 DEF PipelineInv, MarkPast, TypeOK
<1>13. EvidenceCaptured' /\ EvidenceRecent'
  BY <1>1 DEF EvidenceCaptured, EvidenceRecent
<1> QED
  BY <1>6, <1>7, <1>8, <1>9, <1>10, <1>11, <1>12, <1>13 DEF PipelineInv

(* The flows an action is started by are in file 001 or were dropped; the  *)
(* files it reads hold nothing older than the backtrack.                   *)
LEMMA CaptureIsEvidence ==
  ASSUME PipelineInv, dpc = "eval", NEW p \in Profiles, Due(p), renamed,
         NEW filter \in {Filtered(p), Unfiltered}
  PROVE  /\ Backtrack > 0 =>
              {f \in counted[p] : f < mark} \subseteq Capture(filter) \cup dropped
         /\ Backtrack < QueueNum /\ Backtrack < window => Capture(filter) \subseteq Recent
<1>1. \A i \in Files : WindowOf(i) = window - i
  BY DEF WindowOf
<1>2. /\ \A i \in Files : StoredIn(window - i) \subseteq Content(i)
      /\ \A i \in Files \ {QueueNum} :
           /\ Content(i) \cap Flows \subseteq StoredIn(window - i)
           /\ window - i > 0 => Content(i) \subseteq Flows
  BY <1>1 DEF PipelineInv, FilesExact
<1>3. ASSUME Backtrack > 0, NEW f \in counted[p], f < mark, f \notin dropped
      PROVE  f \in Capture(filter)
  <2>1. f \in Flows /\ f \in Match[p] /\ window \in Nat /\ storedIn[f] \in Nat /\ f \in Nat
    BY DEF PipelineInv, TypeOK, CountsCurrent, Flows
  <2>2. storedIn[f] > 0 /\ storedIn[f] >= window - 1
    <3>1. f < InFlight
      BY <1>3, <2>1 DEF PipelineInv, FlowsInOrder, TypeOK, InFlight
    <3> QED
      BY <1>3, <3>1 DEF PipelineInv, CountsCurrent
  <2>3. storedIn[f] < window
    BY <1>3, <2>1 DEF PipelineInv, MarkPast
  <2>4. f \in StoredIn(window - 1)
    BY <2>1, <2>2, <2>3 DEF StoredIn
  <2>5. 1 \in Files /\ 1 \in CaptureFiles
    BY <1>3, ConstantsTyped DEF Files, CaptureFiles
  <2>6. f \in filter
    BY <2>1 DEF Filtered, Unfiltered
  <2> QED
    BY <1>2, <2>4, <2>5, <2>6 DEF Capture
<1>4. ASSUME Backtrack < QueueNum, Backtrack < window, NEW f \in Capture(filter)
      PROVE  f \in Recent
  <2>1. PICK i \in CaptureFiles : f \in Content(i)
    BY DEF Capture
  <2>2. i \in Files \ {QueueNum} /\ i \in 1 .. Backtrack /\ window \in Nat
    BY <1>4, ConstantsTyped DEF Files, CaptureFiles, PipelineInv, TypeOK
  <2>3. window - i > 0
    BY <1>4, <2>2, ConstantsTyped
  <2>4. f \in StoredIn(window - i)
    BY <1>2, <2>1, <2>2, <2>3
  <2> QED
    BY <2>2, <2>4, ConstantsTyped DEF StoredIn, Recent
<1> QED
  BY <1>3, <1>4

LEMMA StepEval ==
  ASSUME PipelineInv, EvalProfile
  PROVE  PipelineInv'
<1>1. /\ dpc = "eval" /\ dpc' = "eval" /\ dcur \in Profiles /\ dcur' = dcur + 1
      /\ dcur \in Nat
      /\ evaluated' = [evaluated EXCEPT ![dcur] = counted[dcur]]
      /\ counted' = [counted EXCEPT ![dcur] = {}]
      /\ UNCHANGED <<next, rpc, rec, rcur, qlock, handle, files, window, storedIn,
                     dropped, mark, renamed>>
  BY ConstantsTyped DEF EvalProfile, readerVars, PipelineInv, TypeOK, Profiles
<1>2. PICK copy, failed :
        /\ captured' = [captured EXCEPT ![dcur] = copy]
        /\ lost' = [lost EXCEPT ![dcur] = failed]
        /\ \/ copy = NoFile /\ failed = {}
           \/ \E filter \in {Filtered(dcur), Unfiltered} :
                failed \subseteq Capture(filter) /\ copy = Capture(filter) \ failed
  <2>1. CASE StartNothing(dcur)
    BY <2>1 DEF StartNothing
  <2>2. CASE StartAction(dcur)
    BY <2>2 DEF StartAction
  <2> QED
    BY <2>1, <2>2 DEF EvalProfile
<1>3. InFlight' = InFlight /\ (InHand' <=> InHand)
  BY <1>1 DEF InFlight, InHand
<1>4. TypeOK'
  <2>1. \A i \in CaptureFiles : i \in Files
    BY ConstantsTyped DEF CaptureFiles, Files
  <2>2. \A filter : Capture(filter) \subseteq Flows \cup Old
    BY <2>1, ContentTyped DEF PipelineInv, Capture
  <2>3. /\ captured' \in [Profiles -> FileContents]
        /\ lost' \in [Profiles -> SUBSET (Flows \cup Old)]
    <3>1. copy \in FileContents /\ failed \in SUBSET (Flows \cup Old)
      BY <1>2, <2>2 DEF FileContents
    <3> QED
      BY <1>2, <3>1 DEF PipelineInv, TypeOK
  <2>4. /\ evaluated' \in [Profiles -> SUBSET Flows]
        /\ counted' \in [Profiles -> SUBSET Flows]
    BY <1>1 DEF PipelineInv, TypeOK
  <2>5. dcur' \in 1 .. NumProfiles + 1
    BY <1>1, ConstantsTyped DEF Profiles
  <2> QED
    BY <1>1, <2>3, <2>4, <2>5 DEF PipelineInv, TypeOK
<1>5. LockHeld'
  BY <1>1 DEF PipelineInv, LockHeld, Shifting
<1>6. FlowsInOrder'
  BY <1>1, <1>3 DEF PipelineInv, FlowsInOrder, Content
<1>7. FilesAged' /\ FilesExact'
  BY <1>1 DEF PipelineInv, FilesAged, FilesExact, WindowOf, Content, StoredIn
<1>8. CountsCurrent'
  <2>1. \A p \in Profiles : counted'[p] = IF p = dcur THEN {} ELSE counted[p]
    BY <1>1 DEF PipelineInv, TypeOK
  <2>2. \A p \in Profiles \ {dcur} : Due(p)' = Due(p)
    BY <1>1 DEF Due, Profiles
  <2> QED
    BY <1>1, <1>3, <2>1, <2>2 DEF PipelineInv, CountsCurrent
<1>9. MarkPast'
  BY <1>1 DEF PipelineInv, MarkPast
<1>10. \A p \in 1 .. dcur : p \in Profiles /\ (p = dcur \/ p \in 1 .. dcur - 1)
  BY <1>1, ConstantsTyped DEF Profiles
<1>11. \A p \in Profiles :
         /\ p # dcur => /\ evaluated'[p] = evaluated[p]
                        /\ captured'[p] = captured[p] /\ lost'[p] = lost[p]
         /\ p = dcur => /\ evaluated'[p] = counted[p]
                        /\ captured'[p] = copy /\ lost'[p] = failed
  BY <1>1, <1>2 DEF PipelineInv, TypeOK
<1>12. /\ dcur' - 1 = dcur
       /\ renamed /\ copy # NoFile =>
            /\ Backtrack > 0 =>
                 {f \in counted[dcur] : f < mark} \subseteq copy \cup failed \cup dropped
            /\ Backtrack < QueueNum /\ Backtrack < window => copy \subseteq Recent
  <2>1. Due(dcur)
    BY <1>1 DEF Due
  <2> SUFFICES ASSUME renamed, copy # NoFile
               PROVE  /\ Backtrack > 0 => {f \in counted[dcur] : f < mark}
                                              \subseteq copy \cup failed \cup dropped
                      /\ Backtrack < QueueNum /\ Backtrack < window => copy \subseteq Recent
    BY <1>1
  <2>2. PICK filter \in {Filtered(dcur), Unfiltered} :
          failed \subseteq Capture(filter) /\ copy = Capture(filter) \ failed
    BY <1>2
  <2> QED
    BY <1>1, <2>1, <2>2, CaptureIsEvidence
<1>13. EvidenceCaptured'
  <2> SUFFICES ASSUME renamed, Backtrack > 0, NEW p \in 1 .. dcur, captured'[p] # NoFile
               PROVE  {f \in evaluated'[p] : f < mark}
                          \subseteq captured'[p] \cup lost'[p] \cup dropped
    BY <1>1, <1>12 DEF EvidenceCaptured
  <2>1. CASE p = dcur
    BY <1>1, <1>11, <1>12, <2>1
  <2>2. CASE p # dcur
    <3>1. p \in Profiles /\ p \in 1 .. dcur - 1
      BY <1>10, <2>2
    <3> QED
      BY <1>1, <1>11, <2>2, <3>1 DEF PipelineInv, EvidenceCaptured
  <2> QED
    BY <2>1, <2>2
<1>14. EvidenceRecent'
  <2>1. Recent' = Recent
    BY <1>1 DEF Recent
  <2> SUFFICES ASSUME renamed, Backtrack < QueueNum, Backtrack < window,
                      NEW p \in 1 .. dcur, captured'[p] # NoFile
               PROVE  captured'[p] \subseteq Recent
    BY <1>1, <1>12, <2>1 DEF EvidenceRecent
  <2>2. CASE p = dcur
    BY <1>1, <1>11, <1>12, <2>2
  <2>3. CASE p # dcur
    <3>1. p \in Profiles /\ p \in 1 .. dcur - 1
      BY <1>10, <2>3
    <3> QED
      BY <1>1, <1>11, <2>3, <3>1 DEF PipelineInv, EvidenceRecent
  <2> QED
    BY <2>2, <2>3
<1> QED
  BY <1>4, <1>5, <1>6, <1>7, <1>8, <1>9, <1>13, <1>14 DEF PipelineInv

LEMMA StepStutter ==
  ASSUME PipelineInv, UNCHANGED vars
  PROVE  PipelineInv'
<1>1. UNCHANGED <<next, rpc, rec, rcur, dpc, dcur, qlock, handle, files, counted,
                  window, storedIn, dropped, mark, renamed, evaluated, captured, lost>>
  BY DEF vars, readerVars, history, evidence
<1>2. InFlight' = InFlight /\ (InHand' <=> InHand)
  BY <1>1 DEF InFlight, InHand
<1>3. TypeOK' /\ LockHeld'
  BY <1>1 DEF PipelineInv, TypeOK, LockHeld, Shifting
<1>4. FlowsInOrder'
  BY <1>1, <1>2 DEF PipelineInv, FlowsInOrder, Content
<1>5. FilesAged' /\ FilesExact'
  BY <1>1 DEF PipelineInv, FilesAged, FilesExact, WindowOf, Content, StoredIn
<1>6. CountsCurrent'
  BY <1>1, <1>2 DEF PipelineInv, CountsCurrent, Due
<1>7. MarkPast' /\ EvidenceCaptured' /\ EvidenceRecent'
  BY <1>1 DEF PipelineInv, MarkPast, EvidenceCaptured, EvidenceRecent, Recent
<1> QED
  BY <1>3, <1>4, <1>5, <1>6, <1>7 DEF PipelineInv

--------------------------------------------------------------------------------
(* The theorems. *)

(* PipelineInv holds in every reachable state. *)
THEOREM PipelineInvariant == Spec => []PipelineInv
<1>1. PipelineInv /\ [Next]_vars => PipelineInv'
  <2> SUFFICES ASSUME PipelineInv, [Next]_vars
               PROVE  PipelineInv'
    OBVIOUS
  <2>1. CASE Reader
    BY <2>1, StepReadFlow, StepCountFlow, StepStore, StepReaderMoves DEF Reader
  <2>2. CASE Dumper
    BY <2>2, StepDumperMoves, StepRotate, StepOpen, StepEval DEF Dumper
  <2>3. CASE Sleep
    BY <2>3, StepStutter DEF Sleep
  <2>4. CASE UNCHANGED vars
    BY <2>4, StepStutter
  <2> QED
    BY <2>1, <2>2, <2>3, <2>4 DEF Next
<1> QED
  BY InitInv, <1>1, PTL DEF Spec

(* Every variable of the two threads and of the queue keeps its type. *)
THEOREM PipelineTypeCorrect == Spec => []TypeOK
BY PipelineInvariant, PTL DEF PipelineInv

(* The read thread never writes through a queue file that the dump thread  *)
(* has closed: nfddos.c takes queue_lock around lnf_write and around the   *)
(* whole of nfd_queue_shift.                                               *)
THEOREM WritesAreSafe == Spec => []NoWriteToClosed
<1>1. PipelineInv => NoWriteToClosed
  BY DEF PipelineInv, LockHeld, Shifting, NoWriteToClosed
<1> QED
  BY PipelineInvariant, <1>1, PTL

(* With no failed rename, each queue file but the last holds exactly the   *)
(* flows stored as many windows ago as its number says (nfd_queue_shift    *)
(* against the writes of the read thread).                                 *)
THEOREM QueueIsExact == Spec => []QueueHoldsWindows
<1>1. PipelineInv => QueueHoldsWindows
  <2> SUFFICES ASSUME PipelineInv, renamed, dpc # "open", NEW i \in Files \ {QueueNum}
               PROVE  Content(i) \cap Flows = StoredIn(window - i)
    BY DEF QueueHoldsWindows
  <2>1. WindowOf(i) = window - i
    BY DEF WindowOf
  <2>2. StoredIn(window - i) \subseteq Flows
    BY DEF StoredIn
  <2> QED
    BY <2>1, <2>2 DEF PipelineInv, FilesExact
<1> QED
  BY PipelineInvariant, <1>1, PTL

(* Whatever renames and opens fail in nfd_queue_shift, no queue file holds *)
(* a flow newer than its number says.                                      *)
THEOREM FilesOnlyAge == Spec => []NeverNewer
<1>1. PipelineInv => NeverNewer
  BY DEF PipelineInv, FilesAged, WindowOf, NeverNewer
<1> QED
  BY PipelineInvariant, <1>1, PTL

(* nfd_queue_add_flow reads the right files: with no failed rename, an     *)
(* action that starts gets every flow its profile was evaluated on that    *)
(* the read thread was done with and did store, except the records that    *)
(* reading the queue or writing the copy failed on.                        *)
THEOREM ActionsGetTheirFlows == Spec => []EvidenceCaptured
BY PipelineInvariant, PTL DEF PipelineInv

(* nfd_queue_add_flow gives an action nothing older than queue_backtrack   *)
(* windows and no records of an earlier run, whatever fails in the copying. *)
THEOREM ActionsGetRecentFlows == Spec => []EvidenceRecent
BY PipelineInvariant, PTL DEF PipelineInv
================================================================================
