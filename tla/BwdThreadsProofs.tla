---------------------------- MODULE BwdThreadsProofs ----------------------------
(***************************************************************************)
(* Proofs about BwdThreads, for any nodes, addresses, packets and reloads: *)
(* the two threads of bwd take their locks in one order, and neither uses  *)
(* a node that a reload has freed.  The inductive invariant is ThreadsInv; *)
(* each of its parts is shown to be kept by the main thread and then by    *)
(* the packet thread, action by action.                                    *)
(***************************************************************************)
EXTENDS BwdThreads, TLAPS

--------------------------------------------------------------------------------
(* Types. *)

(* The main thread: a change of rules is counted only while their number is *)
(* within UPDATES_IN_STEP.                                                 *)
LEMMA MainTypes ==
  ASSUME ThreadsInv, Main
  PROVE  TypeOK'
<1> USE DEF ThreadsInv, TypeOK, MainSteps, Mutexes, Holders, MainLocks,
            MainUnlocks, MainSkips, MainGoes, MainOnly, Lock, Unlock, LockNode,
            UnlockNode, mainVars, packetVars
<1>1. CASE EvalLockConfig \/ EvalLockTrie \/ LockActive \/ LockStatistic \/
           LockForLoad \/ LockForDump \/ TermLockConfig \/ TermLockTrie
  BY <1>1 DEF EvalLockConfig, EvalLockTrie, LockActive, LockStatistic,
       LockForLoad, LockForDump, TermLockConfig, TermLockTrie
<1>2. CASE EvalUnlockTrie \/ WriteStatistic \/ LoadFails \/ Dump
  BY <1>2 DEF EvalUnlockTrie, WriteStatistic, LoadFails, Dump
<1>3. CASE BeginLoop \/ KeepNode \/ SkipStatistic \/ BeginStatistic \/ NoHup \/
           NoUsr1 \/ Sleep
  BY <1>3 DEF BeginLoop, KeepNode, SkipStatistic, BeginStatistic, NoHup, NoUsr1,
       Sleep
<1>4. CASE ReadRoot
  BY <1>4, BwdThreadsAssumption DEF ReadRoot
<1>5. CASE EndWalk
  BY <1>5 DEF EndWalk, WalkOver
<1>6. CASE NextNode \/ VisitNode
  BY <1>6 DEF NextNode, VisitNode, WalkOver
<1>7. CASE InstallRule
  <2>1. updates \in 0 .. UpdatesInStep
    BY <1>7, BwdThreadsAssumption DEF InstallRule, WalkOfList
  <2>2. updates' \in 0 .. UpdatesInStep + 1
    BY <1>7, <2>1, BwdThreadsAssumption DEF InstallRule
  <2> QED
    BY <1>7, <2>2 DEF InstallRule
<1>8. CASE CountActive
  <2>1. cur \in Nodes
    BY <1>8 DEF CountActive, WalkOfList, Visiting
  <2>2. reported' \subseteq Nodes
    BY <1>8, <2>1 DEF CountActive
  <2> QED
    BY <1>8, <2>2 DEF CountActive
<1>9. CASE LeaveNode
  BY <1>9 DEF LeaveNode
<1>10. CASE Hup
  BY <1>10 DEF Hup
<1>11. CASE Load
  <2>1. config' \in 0 .. MaxReloads
    BY <1>11, BwdThreadsAssumption DEF Load
  <2>2. nodes' \subseteq Nodes
    BY <1>11, <2>1 DEF Load, Loaded, Nodes, Names
  <2> QED
    BY <1>11, <2>1, <2>2 DEF Load
<1>12. CASE Usr1
  BY <1>12 DEF Usr1
<1>13. CASE Term
  BY <1>13 DEF Term
<1>14. CASE Finish
  BY <1>14 DEF Finish
<1> QED
  BY <1>1, <1>2, <1>3, <1>4, <1>5, <1>6, <1>7, <1>8, <1>9, <1>10, <1>11, <1>12,
     <1>13, <1>14 DEF Main

(* The packet thread: it adds nodes of the configuration loaded only.      *)
LEMMA PacketTypes ==
  ASSUME ThreadsInv, Packet
  PROVE  TypeOK'
<1> USE DEF ThreadsInv, TypeOK, PacketSteps, Mutexes, Holders, PacketLocks,
            PacketUnlocks, PacketGoes, PacketOnly, Lock, Unlock, LockNode,
            UnlockNode, mainVars, packetVars
<1>1. CASE LockCount \/ AddLockConfig \/ AddLockTrie \/ LockTrieAgain \/
           LockDynamic
  BY <1>1 DEF LockCount, AddLockConfig, AddLockTrie, LockTrieAgain, LockDynamic
<1>2. CASE CountPacket \/ CountDynamic \/ UnlockTrieAgain
  BY <1>2 DEF CountPacket, CountDynamic, UnlockTrieAgain
<1>3. CASE OpenDevice
  BY <1>3 DEF OpenDevice
<1>4. CASE OpenFails
  BY <1>4 DEF OpenFails
<1>5. CASE LoopFails
  BY <1>5 DEF LoopFails
<1>6. CASE Receive
  <2>1. packets' \in 0 .. MaxPackets
    BY <1>6, BwdThreadsAssumption DEF Receive
  <2>2. todo' \in Seq(Addresses)
    BY <1>6 DEF Receive
  <2> QED
    BY <1>6, <2>1, <2>2 DEF Receive
<1>7. CASE Lookup
  <2>1. found' \in nodes \cup {NoNode}
    BY <1>7 DEF Lookup, Match, FoundOfList
  <2> QED
    BY <1>7, <2>1 DEF Lookup
<1>8. CASE LockFound
  BY <1>8 DEF LockFound
<1>9. CASE UpdateStats
  BY <1>9 DEF UpdateStats
<1>10. CASE AddDynamicNode
  <2> DEFINE new == <<config, Head(todo)>>
  <2>1. new \in Nodes
    BY <1>10 DEF AddDynamicNode, FoundOfList, Nodes
  <2> HIDE DEF new
  <2>2. nodes' \subseteq Nodes
    BY <1>10, <2>1 DEF AddDynamicNode, new
  <2>3. CopiedLock(found) \in Holders /\ lock' = [lock EXCEPT ![new] = CopiedLock(found)]
    BY <1>10 DEF AddDynamicNode, CopiedLock, new
  <2>4. lock' \in [Nodes -> Holders]
    BY <2>3
  <2> QED
    BY <1>10, <2>2, <2>4 DEF AddDynamicNode
<1>11. CASE NoNewNode
  BY <1>11 DEF NoNewNode
<1>12. CASE Release
  <2>1. todo' \in Seq(Addresses)
    BY <1>12 DEF Release, FoundOfList, PacketHolds
  <2>2. ppc' \in PacketSteps
    BY <1>12 DEF Release
  <2>3. found' \in Nodes \cup {NoNode} /\ mutex' \in [Mutexes -> {"free", "main", "packet"}]
    BY <1>12 DEF Release
  <2> QED
    BY <1>12, <2>1, <2>2, <2>3 DEF Release
<1> QED
  BY <1>1, <1>2, <1>3, <1>4, <1>5, <1>6, <1>7, <1>8, <1>9, <1>10, <1>11, <1>12 DEF Packet

--------------------------------------------------------------------------------
(* The three mutexes. *)

(* The main thread takes a mutex only when it is free, hence when the      *)
(* packet thread is at none of the steps that hold it.                     *)
LEMMA MainMutexes ==
  ASSUME ThreadsInv, Main
  PROVE  HeldWhere'
<1> USE DEF ThreadsInv, HeldWhere, MainHolds, PacketHolds, Mutexes, TypeOK,
            MainLocks, MainUnlocks, MainSkips, MainGoes, MainOnly, Lock, Unlock,
            LockNode, UnlockNode, mainVars, packetVars
<1>1. CASE EvalLockConfig \/ EvalLockTrie \/ LockActive \/ LockStatistic \/
           LockForLoad \/ LockForDump \/ TermLockConfig \/ TermLockTrie
  BY <1>1 DEF EvalLockConfig, EvalLockTrie, LockActive, LockStatistic,
       LockForLoad, LockForDump, TermLockConfig, TermLockTrie
<1>2. CASE EvalUnlockTrie \/ WriteStatistic \/ LoadFails \/ Dump
  BY <1>2 DEF EvalUnlockTrie, WriteStatistic, LoadFails, Dump
<1>3. CASE BeginLoop \/ KeepNode \/ SkipStatistic \/ BeginStatistic \/ NoHup \/
           NoUsr1 \/ Sleep
  BY <1>3 DEF BeginLoop, KeepNode, SkipStatistic, BeginStatistic, NoHup, NoUsr1,
       Sleep
<1>4. CASE ReadRoot
  BY <1>4 DEF ReadRoot
<1>5. CASE EndWalk
  BY <1>5 DEF EndWalk, WalkOver
<1>6. CASE NextNode \/ VisitNode
  BY <1>6 DEF NextNode, VisitNode, WalkOver
<1>7. CASE InstallRule
  BY <1>7 DEF InstallRule
<1>8. CASE CountActive
  BY <1>8 DEF CountActive
<1>9. CASE LeaveNode
  BY <1>9 DEF LeaveNode
<1>10. CASE Hup
  BY <1>10 DEF Hup
<1>11. CASE Load
  BY <1>11 DEF Load, Loaded
<1>12. CASE Usr1
  BY <1>12 DEF Usr1
<1>13. CASE Term
  BY <1>13 DEF Term
<1>14. CASE Finish
  BY <1>14 DEF Finish
<1> QED
  BY <1>1, <1>2, <1>3, <1>4, <1>5, <1>6, <1>7, <1>8, <1>9, <1>10, <1>11, <1>12,
     <1>13, <1>14 DEF Main

(* The packet thread likewise.                                             *)
LEMMA PacketMutexes ==
  ASSUME ThreadsInv, Packet
  PROVE  HeldWhere'
<1> USE DEF ThreadsInv, HeldWhere, MainHolds, PacketHolds, Mutexes, TypeOK,
            PacketLocks, PacketUnlocks, PacketGoes, PacketOnly, Lock, Unlock,
            LockNode, UnlockNode, mainVars, packetVars
<1>1. CASE LockCount \/ AddLockConfig \/ AddLockTrie \/ LockTrieAgain \/
           LockDynamic
  BY <1>1 DEF LockCount, AddLockConfig, AddLockTrie, LockTrieAgain, LockDynamic
<1>2. CASE CountPacket \/ CountDynamic \/ UnlockTrieAgain
  BY <1>2 DEF CountPacket, CountDynamic, UnlockTrieAgain
<1>3. CASE OpenDevice
  BY <1>3 DEF OpenDevice
<1>4. CASE OpenFails
  BY <1>4 DEF OpenFails
<1>5. CASE LoopFails
  BY <1>5 DEF LoopFails
<1>6. CASE Receive
  <2>1. ppc = "listen" /\ ppc' = "countLock" /\ mutex' = mutex /\ mpc' = mpc
    BY <1>6 DEF Receive
  <2> QED
    BY <2>1
<1>7. CASE Lookup
  BY <1>7 DEF Lookup, Match
<1>8. CASE LockFound
  BY <1>8 DEF LockFound
<1>9. CASE UpdateStats
  BY <1>9 DEF UpdateStats
<1>10. CASE AddDynamicNode
  BY <1>10 DEF AddDynamicNode, CopiedLock
<1>11. CASE NoNewNode
  BY <1>11 DEF NoNewNode
<1>12. CASE Release
  BY <1>12 DEF Release
<1> QED
  BY <1>1, <1>2, <1>3, <1>4, <1>5, <1>6, <1>7, <1>8, <1>9, <1>10, <1>11, <1>12 DEF Packet

--------------------------------------------------------------------------------
(* The locks of the nodes. *)

(* The main thread holds at most the lock of the node it visits.           *)
LEMMA MainNodeLocks ==
  ASSUME ThreadsInv, Main
  PROVE  NodeHeld'
<1> USE DEF ThreadsInv, NodeHeld, Visiting, TypeOK, WalkOfList, MainLocks,
            MainUnlocks, MainSkips, MainGoes, MainOnly, Lock, Unlock, LockNode,
            UnlockNode, mainVars, packetVars
<1>1. CASE EvalLockConfig \/ EvalLockTrie \/ LockActive \/ LockStatistic \/
           LockForLoad \/ LockForDump \/ TermLockConfig \/ TermLockTrie
  BY <1>1 DEF EvalLockConfig, EvalLockTrie, LockActive, LockStatistic,
       LockForLoad, LockForDump, TermLockConfig, TermLockTrie
<1>2. CASE EvalUnlockTrie \/ WriteStatistic \/ LoadFails \/ Dump
  BY <1>2 DEF EvalUnlockTrie, WriteStatistic, LoadFails, Dump
<1>3. CASE BeginLoop \/ KeepNode \/ SkipStatistic \/ BeginStatistic \/ NoHup \/
           NoUsr1 \/ Sleep
  BY <1>3 DEF BeginLoop, KeepNode, SkipStatistic, BeginStatistic, NoHup, NoUsr1,
       Sleep
<1>4. CASE ReadRoot
  BY <1>4 DEF ReadRoot
<1>5. CASE EndWalk
  BY <1>5 DEF EndWalk, WalkOver
<1>6. CASE NextNode \/ VisitNode
  BY <1>6 DEF NextNode, VisitNode, WalkOver
<1>7. CASE InstallRule
  BY <1>7 DEF InstallRule
<1>8. CASE CountActive
  BY <1>8 DEF CountActive
<1>9. CASE LeaveNode
  BY <1>9 DEF LeaveNode
<1>10. CASE Hup
  BY <1>10 DEF Hup
<1>11. CASE Load
  BY <1>11 DEF Load, Loaded
<1>12. CASE Usr1
  BY <1>12 DEF Usr1
<1>13. CASE Term
  BY <1>13 DEF Term
<1>14. CASE Finish
  BY <1>14 DEF Finish
<1> QED
  BY <1>1, <1>2, <1>3, <1>4, <1>5, <1>6, <1>7, <1>8, <1>9, <1>10, <1>11, <1>12,
     <1>13, <1>14 DEF Main

(* The packet thread holds at most the lock of the node it found: a new    *)
(* node gets a lock that is free or held by nobody.                        *)
LEMMA PacketNodeLocks ==
  ASSUME ThreadsInv, Packet
  PROVE  NodeHeld'
<1> USE DEF ThreadsInv, NodeHeld, Visiting, TypeOK, FoundOfList, PacketLocks,
            PacketUnlocks, PacketGoes, PacketOnly, Lock, Unlock, LockNode,
            UnlockNode, mainVars, packetVars
<1>1. CASE LockCount \/ AddLockConfig \/ AddLockTrie \/ LockTrieAgain \/
           LockDynamic
  BY <1>1 DEF LockCount, AddLockConfig, AddLockTrie, LockTrieAgain, LockDynamic
<1>2. CASE CountPacket \/ CountDynamic \/ UnlockTrieAgain
  BY <1>2 DEF CountPacket, CountDynamic, UnlockTrieAgain
<1>3. CASE OpenDevice
  BY <1>3 DEF OpenDevice
<1>4. CASE OpenFails
  BY <1>4 DEF OpenFails
<1>5. CASE LoopFails
  BY <1>5 DEF LoopFails
<1>6. CASE Receive
  BY <1>6 DEF Receive
<1>7. CASE Lookup
  BY <1>7 DEF Lookup, Match
<1>8. CASE LockFound
  BY <1>8 DEF LockFound
<1>9. CASE UpdateStats
  BY <1>9 DEF UpdateStats
<1>10. CASE AddDynamicNode
  BY <1>10 DEF AddDynamicNode, CopiedLock
<1>11. CASE NoNewNode
  BY <1>11 DEF NoNewNode
<1>12. CASE Release
  BY <1>12 DEF Release
<1> QED
  BY <1>1, <1>2, <1>3, <1>4, <1>5, <1>6, <1>7, <1>8, <1>9, <1>10, <1>11, <1>12 DEF Packet

--------------------------------------------------------------------------------
(* The walk. *)

(* The main thread loads a configuration only outside the walk.            *)
LEMMA MainWalk ==
  ASSUME ThreadsInv, Main
  PROVE  WalkOfList'
<1> USE DEF ThreadsInv, WalkOfList, Visiting, MainLocks, MainUnlocks, MainSkips,
            MainGoes, MainOnly, Lock, Unlock, LockNode, UnlockNode, mainVars,
            packetVars
<1>1. CASE EvalLockConfig \/ EvalLockTrie \/ LockActive \/ LockStatistic \/
           LockForLoad \/ LockForDump \/ TermLockConfig \/ TermLockTrie
  BY <1>1 DEF EvalLockConfig, EvalLockTrie, LockActive, LockStatistic,
       LockForLoad, LockForDump, TermLockConfig, TermLockTrie
<1>2. CASE EvalUnlockTrie \/ WriteStatistic \/ LoadFails \/ Dump
  BY <1>2 DEF EvalUnlockTrie, WriteStatistic, LoadFails, Dump
<1>3. CASE BeginLoop \/ KeepNode \/ SkipStatistic \/ BeginStatistic \/ NoHup \/
           NoUsr1 \/ Sleep
  BY <1>3 DEF BeginLoop, KeepNode, SkipStatistic, BeginStatistic, NoHup, NoUsr1,
       Sleep
<1>4. CASE ReadRoot
  BY <1>4 DEF ReadRoot
<1>5. CASE EndWalk
  BY <1>5 DEF EndWalk, WalkOver
<1>6. CASE NextNode \/ VisitNode
  <2>1. NextNode => updates <= UpdatesInStep
    BY BwdThreadsAssumption DEF NextNode, WalkOver, TypeOK
  <2> QED
    BY <1>6, <2>1 DEF NextNode, VisitNode
<1>7. CASE InstallRule
  BY <1>7 DEF InstallRule
<1>8. CASE CountActive
  BY <1>8 DEF CountActive
<1>9. CASE LeaveNode
  BY <1>9 DEF LeaveNode
<1>10. CASE Hup
  BY <1>10 DEF Hup
<1>11. CASE Load
  BY <1>11 DEF Load, Loaded
<1>12. CASE Usr1
  BY <1>12 DEF Usr1
<1>13. CASE Term
  BY <1>13 DEF Term
<1>14. CASE Finish
  BY <1>14 DEF Finish
<1> QED
  BY <1>1, <1>2, <1>3, <1>4, <1>5, <1>6, <1>7, <1>8, <1>9, <1>10, <1>11, <1>12,
     <1>13, <1>14 DEF Main

(* The packet thread takes no node out of the list.                        *)
LEMMA PacketWalk ==
  ASSUME ThreadsInv, Packet
  PROVE  WalkOfList'
<1>1. UNCHANGED mainVars /\ nodes \subseteq nodes'
  BY Zenon DEF ThreadsInv, Packet, PacketLocks, PacketUnlocks, PacketOnly,
           OpenDevice, OpenFails, LoopFails, Receive, LockCount, CountPacket,
           AddLockConfig, AddLockTrie, Lookup, LockFound, UpdateStats,
           LockTrieAgain, AddDynamicNode, NoNewNode, LockDynamic, CountDynamic,
           UnlockTrieAgain, Release
<1> QED
  BY <1>1 DEF ThreadsInv, WalkOfList, mainVars

--------------------------------------------------------------------------------
(* The node found. *)

(* The main thread replaces the list only while it holds config_mutex, when *)
(* the packet thread has no node.                                          *)
LEMMA MainFound ==
  ASSUME ThreadsInv, Main
  PROVE  FoundOfList'
<1>1. CASE Load
  <2>1. ppc \notin PacketHolds["config"] /\ found = NoNode
    BY <1>1 DEF Load, MainGoes, ThreadsInv, HeldWhere, MainHolds, Mutexes, FoundOfList
  <2>2. <<config', Parent>> \in nodes'
    BY <1>1 DEF Load, Loaded
  <2> QED
    BY <1>1, <2>1, <2>2 DEF Load, packetVars, ThreadsInv, FoundOfList, PacketHolds
<1>2. CASE ~Load
  <2>1. UNCHANGED <<packetVars, nodes, config>>
    BY <1>2, Zenon DEF Main, MainLocks, MainUnlocks, MainSkips, MainOnly,
           BeginLoop, EvalLockConfig, EvalLockTrie, ReadRoot, EvalUnlockTrie,
           EndWalk, NextNode, VisitNode, KeepNode, InstallRule, LockActive, CountActive,
           LeaveNode, SkipStatistic, BeginStatistic, LockStatistic,
           WriteStatistic, NoHup, Hup, LockForLoad, Load, LoadFails, NoUsr1,
           Usr1, LockForDump, Dump, Sleep, Term, TermLockConfig, TermLockTrie,
           Finish
  <2> QED
    BY <2>1 DEF ThreadsInv, FoundOfList, packetVars
<1> QED
  BY <1>1, <1>2

(* The packet thread has a node only from the lookup to the release.       *)
LEMMA PacketFound ==
  ASSUME ThreadsInv, Packet
  PROVE  FoundOfList'
<1> USE DEF ThreadsInv, FoundOfList, PacketHolds, TypeOK, PacketLocks,
            PacketUnlocks, PacketGoes, PacketOnly, Lock, Unlock, LockNode,
            UnlockNode, mainVars, packetVars
<1>1. CASE LockCount \/ AddLockConfig \/ AddLockTrie \/ LockTrieAgain \/
           LockDynamic
  BY <1>1 DEF LockCount, AddLockConfig, AddLockTrie, LockTrieAgain, LockDynamic
<1>2. CASE CountPacket \/ CountDynamic \/ UnlockTrieAgain
  BY <1>2 DEF CountPacket, CountDynamic, UnlockTrieAgain
<1>3. CASE OpenDevice
  BY <1>3 DEF OpenDevice
<1>4. CASE OpenFails
  BY <1>4 DEF OpenFails
<1>5. CASE LoopFails
  BY <1>5 DEF LoopFails
<1>6. CASE Receive
  BY <1>6 DEF Receive
<1>7. CASE Lookup
  <2> DEFINE a == Head(todo)
  <2>1. a \in Addresses
    BY <1>7 DEF Lookup
  <2>2. CASE Match(a) = NoNode
    BY <1>7, <2>2 DEF Lookup
  <2>3. CASE Match(a) # NoNode
    <3>1. a \in Names
      BY <2>1, <2>3 DEF Match, Addresses, Names
    <3>2. Match(a) \in nodes
      BY <2>3 DEF Match
    <3> HIDE DEF a
    <3> QED
      BY <1>7, <2>3, <3>1, <3>2 DEF Lookup, a
  <2> QED
    BY <2>2, <2>3
<1>8. CASE LockFound
  BY <1>8 DEF LockFound
<1>9. CASE UpdateStats
  BY <1>9 DEF UpdateStats
<1>10. CASE AddDynamicNode
  BY <1>10 DEF AddDynamicNode, CopiedLock
<1>11. CASE NoNewNode
  BY <1>11 DEF NoNewNode
<1>12. CASE Release
  BY <1>12 DEF Release
<1> QED
  BY <1>1, <1>2, <1>3, <1>4, <1>5, <1>6, <1>7, <1>8, <1>9, <1>10, <1>11, <1>12 DEF Packet

--------------------------------------------------------------------------------
(* The invariant. *)

LEMMA InitThreads == Init => ThreadsInv
<1> SUFFICES ASSUME Init PROVE ThreadsInv
  OBVIOUS
<1>1. 0 \in 0 .. MaxReloads /\ 0 \in 0 .. UpdatesInStep + 1 /\ 0 \in 0 .. MaxPackets
  BY BwdThreadsAssumption
<1>2. Loaded(0) \subseteq Nodes /\ <<0, Parent>> \in Loaded(0)
  BY <1>1 DEF Loaded, Nodes, Names
<1>3. TypeOK
  BY <1>1, <1>2 DEF Init, TypeOK, MainSteps, PacketSteps, Mutexes, Holders
<1>4. HeldWhere
  BY DEF Init, HeldWhere, MainHolds, PacketHolds, Mutexes
<1>5. NodeHeld
  BY DEF Init, NodeHeld
<1>6. WalkOfList
  BY DEF Init, WalkOfList, Visiting
<1>7. FoundOfList
  BY <1>2 DEF Init, FoundOfList, PacketHolds
<1> QED
  BY <1>3, <1>4, <1>5, <1>6, <1>7 DEF ThreadsInv

LEMMA StepThreads == ThreadsInv /\ [Next]_vars => ThreadsInv'
<1> SUFFICES ASSUME ThreadsInv, [Next]_vars PROVE ThreadsInv'
  OBVIOUS
<1>1. CASE Main
  BY <1>1, MainTypes, MainMutexes, MainNodeLocks, MainWalk, MainFound DEF ThreadsInv
<1>2. CASE Packet
  BY <1>2, PacketTypes, PacketMutexes, PacketNodeLocks, PacketWalk, PacketFound
     DEF ThreadsInv
<1>3. CASE Signal
  BY <1>3 DEF Signal, mainVars, packetVars, ThreadsInv, TypeOK, HeldWhere, NodeHeld,
              WalkOfList, FoundOfList
<1>4. CASE UNCHANGED vars
  BY <1>4 DEF vars, mainVars, packetVars, ThreadsInv, TypeOK, HeldWhere, NodeHeld,
              WalkOfList, FoundOfList
<1>5. CASE Exited
  BY <1>4, <1>5 DEF Exited
<1> QED
  BY <1>1, <1>2, <1>3, <1>4, <1>5 DEF Next

LEMMA ThreadsInvariant == Spec => []ThreadsInv
BY InitThreads, StepThreads, PTL DEF Spec

--------------------------------------------------------------------------------
(* What a reader should know. *)

(* The types of the two threads, the locks and the list of nodes, for any  *)
(* nodes, packets and reloads.                                             *)
THEOREM ThreadsTypeCorrect == Spec => []TypeOK
<1>1. ThreadsInv => TypeOK
  BY DEF ThreadsInv
<1> QED
  BY <1>1, ThreadsInvariant, PTL

(* main.c takes its locks in one order, so that the main thread and the    *)
(* packet thread never wait for each other.                                *)
THEOREM LocksInOrder == Spec => []LockOrder
<1>1. ThreadsInv => LockOrder
  <2> SUFFICES ASSUME ThreadsInv PROVE LockOrder
    OBVIOUS
  <2>1. ASSUME NEW r \in Ranks("main"), NEW w \in MainWants PROVE r < w
    <3>1. CASE \E n \in Nodes : lock[n] = "main"
      BY <2>1, <3>1 DEF Ranks, Rank, NodeRank, MainWants, ThreadsInv, NodeHeld, Visiting,
                        HeldWhere, MainHolds, Mutexes
    <3>2. CASE ~ \E n \in Nodes : lock[n] = "main"
      BY <2>1, <3>2 DEF Ranks, Rank, NodeRank, MainWants, ThreadsInv, HeldWhere, MainHolds,
                        Mutexes
    <3> QED
      BY <3>1, <3>2
  <2>2. ASSUME NEW r \in Ranks("packet"), NEW w \in PacketWants PROVE r < w
    <3>1. CASE \E n \in Nodes : lock[n] = "packet"
      BY <2>2, <3>1 DEF Ranks, Rank, NodeRank, PacketWants, ThreadsInv, NodeHeld,
                        HeldWhere, PacketHolds, Mutexes
    <3>2. CASE ~ \E n \in Nodes : lock[n] = "packet"
      BY <2>2, <3>2 DEF Ranks, Rank, NodeRank, PacketWants, ThreadsInv, HeldWhere,
                        PacketHolds, Mutexes
    <3> QED
      BY <3>1, <3>2
  <2> QED
    BY <2>1, <2>2 DEF LockOrder
<1> QED
  BY <1>1, ThreadsInvariant, PTL

(* Neither the walk of eval_nodes, which holds no lock of the list, nor    *)
(* add_packet touches a node after a reload has freed it.                  *)
THEOREM NodesAreAlive == Spec => []NoFreedNode
<1>1. ThreadsInv => NoFreedNode
  BY DEF ThreadsInv, WalkOfList, FoundOfList, NoFreedNode
<1> QED
  BY <1>1, ThreadsInvariant, PTL
================================================================================
