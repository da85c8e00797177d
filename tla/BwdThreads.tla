------------------------------- MODULE BwdThreads -------------------------------
(***************************************************************************)
(* The threads and locks of main.c.  The packet thread (listen_bpf)        *)
(* handles packets; the main thread walks the nodes, writes the statistic  *)
(* file and answers signals.  They share                                   *)
(*   config_mutex     the configuration: list of nodes and tries           *)
(*   trie_mutex       the tries                                            *)
(*   statistic_mutex  the counters of the statistic file                   *)
(*   stat_node->lock  the counters of one node                             *)
(* BwdRules models what is computed under the locks; here it is which      *)
(* locks are taken in which order, and what the threads see of the list of *)
(* nodes.  A node of the configuration with a dynamic prefix, here Parent, *)
(* is copied for each address that is seen (add_dynamic_node).             *)
(*                                                                         *)
(* parse_config, stat_node_new and the tries are in files that are not in  *)
(* the repository: a reload replaces the list under config_mutex, and the  *)
(* nodes of the old one are freed.                                         *)
(***************************************************************************)
EXTENDS Integers, Sequences

CONSTANTS
  Plain,         \* nodes of the configuration with prefixes of their own
  Parent,        \* the node with a dynamic prefix
  Children,      \* the addresses under that prefix
  Other,         \* an address no prefix matches
  UpdatesInStep, \* UPDATES_IN_STEP
  MaxPackets,    \* bound: packets received
  MaxReloads     \* bound: successful reloads of the configuration

Names == Plain \cup {Parent} \cup Children
Addresses == Plain \cup Children \cup {Other}

ASSUME BwdThreadsAssumption ==
  /\ Parent \notin Plain \cup Children /\ Plain \cap Children = {}
  /\ Other \notin Names
  /\ UpdatesInStep \in Nat /\ MaxPackets \in Nat /\ MaxReloads \in Nat

(* A node in memory: a name, and the configuration it was made for. *)
Nodes == (0 .. MaxReloads) \X Names
NoNode == <<>>
Mutexes == {"config", "trie", "statistic"}
Holders == {"free", "main", "packet", "nobody"}

VARIABLES
  mpc, rest, cur, updates,  \* main thread: step, nodes still to visit, node
                       \* being visited, counter i of eval_nodes
  ppc, todo, found,    \* packet thread: step, addresses of the packet,
                       \* node that the lookup found
  mutex,      \* mutex, lock of each of the three mutexes, or "free"
  lock,       \* the same for the lock of each node; "nobody" holds a lock that
              \* is a copy of one that was held
  nodes,      \* the nodes of the list that starts at op_root_node
  config,     \* number of the configuration loaded
  reported,   \* the nodes with time_reported # 0
  signals,    \* received_term, received_hup, received_usr1
  ended,      \* "no", "finished" by a signal, "failed" in the packet thread
  packets     \* bound: packets received

mainVars == <<mpc, rest, cur, updates>>
packetVars == <<ppc, todo, found>>
vars == <<mainVars, packetVars, mutex, lock, nodes, config, reported, signals, ended, packets>>

MainSteps == {"loop", "evalConfig", "evalTrie", "root", "rootRead", "walk", "visit",
  "judge", "count", "counted", "leave", "statFile", "fileLock", "fileWrite", "hup",
  "loadLock", "load", "usr1", "dumpLock", "dump", "term", "termConfig",
  "termTrie", "finish"}
PacketSteps == {"open", "listen", "countLock", "count", "config", "trie", "lookup",
  "nodeLock", "node", "dynTrie", "make", "dynCount", "dynCounted", "made", "release",
  "ended"}

TypeOK ==
  /\ mpc \in MainSteps /\ rest \subseteq Nodes /\ cur \in Nodes \cup {NoNode}
  /\ updates \in 0 .. UpdatesInStep + 1
  /\ ppc \in PacketSteps /\ todo \in Seq(Addresses) /\ found \in Nodes \cup {NoNode}
  /\ mutex \in [Mutexes -> {"free", "main", "packet"}] /\ lock \in [Nodes -> Holders]
  /\ nodes \subseteq Nodes /\ config \in 0 .. MaxReloads
  /\ reported \subseteq Nodes
  /\ signals \subseteq {"term", "hup", "usr1"}
  /\ ended \in {"no", "finished", "failed"}
  /\ packets \in 0 .. MaxPackets


(* The nodes parse_config makes. *)
Loaded(c) == {c} \X (Plain \cup {Parent})

Init ==
  /\ mpc = "loop" /\ rest = {} /\ cur = NoNode /\ updates = 0
  /\ ppc = "open" /\ todo = <<>> /\ found = NoNode
  /\ mutex = [l \in Mutexes |-> "free"] /\ lock = [n \in Nodes |-> "free"]
  /\ nodes = Loaded(0) /\ config = 0 /\ reported = {}
  /\ signals = {} /\ ended = "no" /\ packets = 0

--------------------------------------------------------------------------------
(* pthread_mutex_lock waits until the lock is free.  The lock of a dynamic *)
(* node is a copy of its parent's, which may be held at that moment.       *)
Running == ended = "no"
Lock(thread, l) ==
  mutex[l] = "free" /\ mutex' = [mutex EXCEPT ![l] = thread] /\ UNCHANGED lock
Unlock(l) == mutex' = [mutex EXCEPT ![l] = "free"] /\ UNCHANGED lock
LockNode(thread, n) ==
  lock[n] = "free" /\ lock' = [lock EXCEPT ![n] = thread] /\ UNCHANGED mutex
UnlockNode(n) == lock' = [lock EXCEPT ![n] = "free"] /\ UNCHANGED mutex
CopiedLock(n) == IF lock[n] = "free" THEN "free" ELSE "nobody"

(* A step of a thread that does nothing else than go from one place to     *)
(* another, and one that takes or gives back a lock on the way.            *)
MainGoes(from, to) == Running /\ mpc = from /\ mpc' = to
MainOnly == UNCHANGED <<packetVars, nodes, config, ended, packets>>
MainLocks(from, l, to) ==
  /\ MainGoes(from, to) /\ Lock("main", l)
  /\ MainOnly /\ UNCHANGED <<rest, cur, updates, reported, signals>>
MainUnlocks(from, l, to) ==
  /\ MainGoes(from, to) /\ Unlock(l)
  /\ MainOnly /\ UNCHANGED <<rest, cur, updates, reported, signals>>
MainSkips(from, to) ==
  /\ MainGoes(from, to)
  /\ MainOnly /\ UNCHANGED <<rest, cur, updates, mutex, lock, reported, signals>>

PacketGoes(from, to) == Running /\ ppc = from /\ ppc' = to
PacketOnly == UNCHANGED <<mainVars, config, reported, signals, ended>>
PacketLocks(from, l, to) ==
  /\ PacketGoes(from, to) /\ Lock("packet", l)
  /\ PacketOnly /\ UNCHANGED <<todo, found, nodes, packets>>
PacketUnlocks(from, l, to) ==
  /\ PacketGoes(from, to) /\ Unlock(l)
  /\ PacketOnly /\ UNCHANGED <<todo, found, nodes, packets>>

--------------------------------------------------------------------------------
(* The main loop, and eval_nodes: the root is read under two locks, the    *)
(* walk itself takes only the lock of the node it visits.  Nodes are added *)
(* at the head of the list, so a walk sees those there were at its start,  *)
(* one after the other: it waits for the lock of the node whose turn it    *)
(* is.  In which order they are listed is parse_config's, hence open here. *)
BeginLoop ==
  IF "term" \in signals THEN MainSkips("loop", "statFile")
  ELSE MainSkips("loop", "evalConfig")
EvalLockConfig == MainLocks("evalConfig", "config", "evalTrie")
EvalLockTrie == MainLocks("evalTrie", "trie", "root")
RootKeepsConfigBug ==
  /\ MainGoes("root", "rootRead")
  /\ rest' = nodes /\ updates' = 0
  /\ MainOnly /\ UNCHANGED <<cur, mutex, lock, reported, signals>>
ReadRoot ==
  /\ MainGoes("root", "rootRead")
  /\ rest' = nodes /\ updates' = 0
  /\ Unlock("config")
  /\ MainOnly /\ UNCHANGED <<cur, reported, signals>>
EvalUnlockTrie == MainUnlocks("rootRead", "trie", "walk")

WalkOverLateBug == rest = {} \/ updates > UpdatesInStep + 1
WalkOver == rest = {} \/ updates > UpdatesInStep
EndWalk ==
  /\ MainGoes("walk", "statFile") /\ WalkOver
  /\ rest' = {}
  /\ MainOnly /\ UNCHANGED <<cur, updates, mutex, lock, reported, signals>>
NextNode ==
  /\ MainGoes("walk", "visit") /\ ~WalkOver
  /\ \E n \in rest : cur' = n /\ rest' = rest \ {n}
  /\ MainOnly /\ UNCHANGED <<updates, mutex, lock, reported, signals>>
VisitNode ==
  /\ MainGoes("visit", "judge") /\ LockNode("main", cur)
  /\ MainOnly /\ UNCHANGED <<rest, cur, updates, reported, signals>>

(* eval_node: a node whose traffic is over its limit and has no rule gets  *)
(* one.  Parent has no traffic of its own.                                 *)
KeepNode == MainSkips("judge", "leave")
InstallRule ==
  /\ MainGoes("judge", "count") /\ cur \notin reported /\ cur[2] # Parent
  /\ updates' = updates + 1
  /\ MainOnly /\ UNCHANGED <<rest, cur, mutex, lock, reported, signals>>
LockActive == MainLocks("count", "statistic", "counted")
CountActive ==
  /\ MainGoes("counted", "leave") /\ Unlock("statistic")
  /\ reported' = reported \cup {cur}
  /\ MainOnly /\ UNCHANGED <<rest, cur, updates, signals>>
LeaveNode ==
  /\ MainGoes("leave", "walk") /\ UnlockNode(cur)
  /\ cur' = NoNode
  /\ MainOnly /\ UNCHANGED <<rest, updates, reported, signals>>

(* update_statistic_file, when its interval is over and the file opens. *)
SkipStatistic == MainSkips("statFile", "hup")
BeginStatistic == MainSkips("statFile", "fileLock")
LockStatistic == MainLocks("fileLock", "statistic", "fileWrite")
WriteStatistic == MainUnlocks("fileWrite", "statistic", "hup")

(* received_hup: parse_config replaces the nodes, or fails and leaves them. *)
NoHup == ("term" \in signals \/ "hup" \notin signals) /\ MainSkips("hup", "usr1")
Hup ==
  /\ "term" \notin signals /\ "hup" \in signals
  /\ \E to \in {"loadLock", "usr1"} : MainGoes("hup", to)
  /\ signals' = signals \ {"hup"}
  /\ MainOnly /\ UNCHANGED <<rest, cur, updates, mutex, lock, reported>>
LockForLoad == MainLocks("loadLock", "config", "load")
Load ==
  /\ MainGoes("load", "usr1") /\ config < MaxReloads
  /\ config' = config + 1 /\ nodes' = Loaded(config')
  /\ Unlock("config")
  /\ UNCHANGED <<rest, cur, updates, packetVars, reported, signals, ended, packets>>
LoadFails == config = MaxReloads /\ MainUnlocks("load", "config", "usr1")

(* received_usr1: dump_nodes_db, when its file opens. *)
NoUsr1 == ("term" \in signals \/ "usr1" \notin signals) /\ MainSkips("usr1", "term")
Usr1 ==
  /\ "term" \notin signals /\ "usr1" \in signals
  /\ \E to \in {"dumpLock", "term"} : MainGoes("usr1", to)
  /\ signals' = signals \ {"usr1"}
  /\ MainOnly /\ UNCHANGED <<rest, cur, updates, mutex, lock, reported>>
LockForDump == MainLocks("dumpLock", "config", "dump")
Dump == MainUnlocks("dump", "config", "term")

(* received_term: with both locks the finish script is run, the pid file   *)
(* removed and the process ended.                                          *)
Sleep == "term" \notin signals /\ MainSkips("term", "loop")
Term ==
  /\ "term" \in signals /\ MainGoes("term", "termConfig")
  /\ signals' = signals \ {"term"}
  /\ MainOnly /\ UNCHANGED <<rest, cur, updates, mutex, lock, reported>>
TermLockConfig == MainLocks("termConfig", "config", "termTrie")
TermLockTrie == MainLocks("termTrie", "trie", "finish")
Finish ==
  /\ Running /\ mpc = "finish" /\ ended' = "finished"
  /\ UNCHANGED <<mainVars, packetVars, mutex, lock, nodes, config, reported, signals, packets>>

Main ==
  \/ BeginLoop \/ EvalLockConfig \/ EvalLockTrie \/ ReadRoot \/ EvalUnlockTrie
  \/ EndWalk \/ NextNode \/ VisitNode \/ KeepNode \/ InstallRule \/ LockActive
  \/ CountActive \/ LeaveNode \/ SkipStatistic \/ BeginStatistic \/ LockStatistic \/ WriteStatistic
  \/ NoHup \/ Hup \/ LockForLoad \/ Load \/ LoadFails
  \/ NoUsr1 \/ Usr1 \/ LockForDump \/ Dump
  \/ Sleep \/ Term \/ TermLockConfig \/ TermLockTrie \/ Finish

--------------------------------------------------------------------------------
(* listen_bpf: the device is opened, or the process ends; then pcap_loop   *)
(* calls process_eth for each packet until it fails, which ends the thread *)
(* but not the process.                                                    *)
OpenDevice ==
  /\ PacketGoes("open", "listen")
  /\ PacketOnly /\ UNCHANGED <<todo, found, mutex, lock, nodes, packets>>
OpenFails ==
  /\ Running /\ ppc = "open" /\ ended' = "failed"
  /\ UNCHANGED <<mainVars, packetVars, mutex, lock, nodes, config, reported, signals, packets>>
LoopFails ==
  /\ PacketGoes("listen", "ended")
  /\ PacketOnly /\ UNCHANGED <<todo, found, mutex, lock, nodes, packets>>

(* process_ip counts the packet and adds it for its source and then its    *)
(* destination.                                                            *)
Receive ==
  /\ PacketGoes("listen", "countLock") /\ packets < MaxPackets
  /\ \E src, dst \in Addresses : todo' = <<src, dst>>
  /\ packets' = packets + 1
  /\ PacketOnly /\ UNCHANGED <<found, mutex, lock, nodes>>
LockCount == PacketLocks("countLock", "statistic", "count")
CountPacket == PacketUnlocks("count", "statistic", "config")

(* add_packet: config_mutex is held until it returns. *)
AddLockConfig == PacketLocks("config", "config", "trie")
AddLockTrie == PacketLocks("trie", "trie", "lookup")
Match(a) ==
  IF a = Other THEN NoNode
  ELSE IF <<config, a>> \in nodes THEN <<config, a>> ELSE <<config, Parent>>
LookupKeepsTrieBug ==
  LET n == Match(Head(todo)) IN
  /\ PacketGoes("lookup", IF n = NoNode THEN "release"
                          ELSE IF n[2] = Parent THEN "dynTrie" ELSE "nodeLock")
  /\ found' = n
  /\ PacketOnly /\ UNCHANGED <<todo, mutex, lock, nodes, packets>>
LookupReleasesAllBug ==
  LET n == Match(Head(todo)) IN
  /\ PacketGoes("lookup", IF n = NoNode THEN "release"
                          ELSE IF n[2] = Parent THEN "dynTrie" ELSE "nodeLock")
  /\ found' = n
  /\ mutex' = [mutex EXCEPT !["trie"] = "free", !["config"] = "free"] /\ UNCHANGED lock
  /\ PacketOnly /\ UNCHANGED <<todo, nodes, packets>>
Lookup ==
  LET n == Match(Head(todo)) IN
  /\ PacketGoes("lookup", IF n = NoNode THEN "release"
                          ELSE IF n[2] = Parent THEN "dynTrie" ELSE "nodeLock")
  /\ found' = n
  /\ Unlock("trie")
  /\ PacketOnly /\ UNCHANGED <<todo, nodes, packets>>

(* update_stats. *)
LockFound ==
  /\ PacketGoes("nodeLock", "node") /\ LockNode("packet", found)
  /\ PacketOnly /\ UNCHANGED <<todo, found, nodes, packets>>
UpdateKeepsLockBug ==
  /\ PacketGoes("node", "release")
  /\ PacketOnly /\ UNCHANGED <<todo, found, mutex, lock, nodes, packets>>
UpdateStats ==
  /\ PacketGoes("node", "release") /\ UnlockNode(found)
  /\ PacketOnly /\ UNCHANGED <<todo, found, nodes, packets>>

(* add_dynamic_node: the new node is a copy of its parent, lock and all. *)
LockTrieAgain == PacketLocks("dynTrie", "trie", "make")
AddDynamicNode ==
  LET new == <<config, Head(todo)>> IN
  /\ PacketGoes("make", "dynCount")
  /\ nodes' = nodes \cup {new}
  /\ lock' = [lock EXCEPT ![new] = CopiedLock(found)] /\ UNCHANGED mutex
  /\ PacketOnly /\ UNCHANGED <<todo, found, packets>>
NoNewNode ==
  /\ PacketGoes("make", "made")
  /\ PacketOnly /\ UNCHANGED <<todo, found, mutex, lock, nodes, packets>>
LockDynamic == PacketLocks("dynCount", "statistic", "dynCounted")
CountDynamic == PacketUnlocks("dynCounted", "statistic", "made")
UnlockTrieAgain == PacketUnlocks("made", "trie", "release")

Release ==
  /\ PacketGoes("release", IF Len(todo) > 1 THEN "config" ELSE "listen")
  /\ todo' = Tail(todo) /\ found' = NoNode
  /\ Unlock("config")
  /\ PacketOnly /\ UNCHANGED <<nodes, packets>>

Packet ==
  \/ OpenDevice \/ OpenFails \/ LoopFails \/ Receive \/ LockCount \/ CountPacket
  \/ AddLockConfig \/ AddLockTrie \/ Lookup \/ LockFound \/ UpdateStats
  \/ LockTrieAgain \/ AddDynamicNode \/ NoNewNode \/ LockDynamic \/ CountDynamic
  \/ UnlockTrieAgain \/ Release

(* Signals come at any time; the handlers only set a flag. *)
Signal ==
  /\ Running
  /\ \E s \in {"term", "hup", "usr1"} \ signals : signals' = signals \cup {s}
  /\ UNCHANGED <<mainVars, packetVars, mutex, lock, nodes, config, reported, ended, packets>>

Exited == ~Running /\ UNCHANGED vars

Next == Main \/ Packet \/ Signal \/ Exited

(* Each thread is scheduled as long as it can go on.  A mutex is not fair; *)
(* but the main thread sleeps in each round without a lock (usleep,        *)
(* main.c:702), so that the packet thread gets every lock it waits for.    *)
(* The main thread gets its locks as packets are finitely many.            *)
Fairness == WF_vars(Main) /\ SF_vars(Packet)
Spec == Init /\ [][Next]_vars
FairSpec == Spec /\ Fairness

--------------------------------------------------------------------------------
(* Properties *)

(* The order in which locks are taken: config_mutex, trie_mutex, a node's, *)
(* statistic_mutex (main.c:193-200, 302-333, 358-383, 398-407, 668-669).   *)
Rank(l) == CASE l = "config" -> 0 [] l = "trie" -> 1 [] l = "statistic" -> 3
NodeRank == 2
Ranks(thread) ==
  {Rank(l) : l \in {m \in Mutexes : mutex[m] = thread}}
    \cup (IF \E n \in Nodes : lock[n] = thread THEN {NodeRank} ELSE {})

(* The ranks of the locks a thread waits for. *)
MainWants ==
  CASE mpc \in {"evalConfig", "loadLock", "dumpLock", "termConfig"} -> {Rank("config")}
    [] mpc \in {"evalTrie", "termTrie"} -> {Rank("trie")}
    [] mpc = "visit" -> {NodeRank}
    [] mpc \in {"count", "fileLock"} -> {Rank("statistic")}
    [] OTHER -> {}
PacketWants ==
  CASE ppc = "config" -> {Rank("config")}
    [] ppc \in {"trie", "dynTrie"} -> {Rank("trie")}
    [] ppc = "nodeLock" -> {NodeRank}
    [] ppc \in {"countLock", "dynCount"} -> {Rank("statistic")}
    [] OTHER -> {}

(* A thread that waits holds only locks that come before the one it waits  *)
(* for: the two threads never wait for each other.                         *)
LockOrder ==
  /\ \A r \in Ranks("main"), w \in MainWants : r < w
  /\ \A r \in Ranks("packet"), w \in PacketWants : r < w

(* No thread uses a node after a reload has freed it, though the walk of   *)
(* eval_nodes holds neither config_mutex nor trie_mutex (main.c:403-406):  *)
(* reloads are made by the thread that walks, and the packet thread keeps  *)
(* config_mutex from the lookup to its last use of the node.               *)
NoFreedNode ==
  /\ rest \cup ({cur} \ {NoNode}) \subseteq nodes
  /\ found \in nodes \cup {NoNode}

(* A signal to terminate ends the process, unless the lock of a node has   *)
(* been copied while it was held.                                          *)
LockCopied == \E n \in Nodes : lock[n] = "nobody"
Terminates == "term" \in signals ~> (~Running \/ LockCopied)

(* With the same exception every packet is handled to the end: nobody      *)
(* keeps a lock the packet thread needs.                                   *)
PacketsHandled == ppc = "countLock" ~> (ppc = "listen" \/ ~Running \/ LockCopied)

(* main.c:660: "terminate process" - a signal to terminate ends it, in     *)
(* every case.                                                             *)
AlwaysTerminates == "term" \in signals ~> ~Running

--------------------------------------------------------------------------------
(* What makes LockOrder and NoFreedNode inductive. *)

(* The steps at which a thread holds each of the three mutexes. *)
MainHolds ==
  [config    |-> {"evalTrie", "root", "load", "dump", "termTrie", "finish"},
   trie      |-> {"root", "rootRead", "finish"},
   statistic |-> {"counted", "fileWrite"}]
PacketHolds ==
  [config    |-> {"trie", "lookup", "nodeLock", "node", "dynTrie", "make",
                  "dynCount", "dynCounted", "made", "release"},
   trie      |-> {"lookup", "make", "dynCount", "dynCounted", "made"},
   statistic |-> {"count", "dynCounted"}]
HeldWhere ==
  \A l \in Mutexes : /\ mutex[l] = "main" <=> mpc \in MainHolds[l]
                     /\ mutex[l] = "packet" <=> ppc \in PacketHolds[l]

(* The lock of a node is held for the one node that is visited or found. *)
Visiting == {"judge", "count", "counted", "leave"}
NodeHeld ==
  \A n \in Nodes : /\ lock[n] = "main" => mpc \in Visiting /\ n = cur
                   /\ lock[n] = "packet" => ppc = "node" /\ n = found

(* The nodes the walk still has to visit and the node it visits are those  *)
(* of the list, and outside the walk there are none.                       *)
WalkOfList ==
  /\ rest \subseteq nodes
  /\ mpc \notin Visiting \cup {"rootRead", "walk", "visit"} => rest = {}
  /\ IF mpc \in Visiting \cup {"visit"} THEN cur \in nodes ELSE cur = NoNode
  /\ mpc \in {"visit", "judge"} => updates <= UpdatesInStep

(* The node the packet thread has found is one of the list, and it has one *)
(* only while it holds config_mutex.  A node that is to be added is for an *)
(* address under the dynamic prefix.                                       *)
FoundOfList ==
  /\ <<config, Parent>> \in nodes
  /\ found \in nodes \cup {NoNode}
  /\ ppc \in {"nodeLock", "node", "dynTrie", "make"} => found \in nodes
  /\ ppc \notin PacketHolds["config"] => found = NoNode
  /\ ppc \in {"countLock", "count", "config"} \cup PacketHolds["config"] => Len(todo) > 0
  /\ ppc \in {"dynTrie", "make"} => Head(todo) \in Names

ThreadsInv == TypeOK /\ HeldWhere /\ NodeHeld /\ WalkOfList /\ FoundOfList
================================================================================
