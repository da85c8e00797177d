-------------------------------- MODULE BwdRules --------------------------------
(***************************************************************************)
(* main.c, the packet daemon "bwd" the repository started from: a packet   *)
(* thread counts packets in the node of their prefix (update_stats), the   *)
(* main thread walks the nodes (eval_nodes) and installs a shaping rule    *)
(* for a node over its limit, and ought to remove it when it is quiet.     *)
(* Rules are numbered from a pool of id_num ids.                           *)
(*                                                                         *)
(* The node lock makes update_stats and eval_node of one node atomic; the  *)
(* walk of eval_nodes is one step per node.  A dynamic node is created by  *)
(* the first packet of its address, which is not counted, at the head of   *)
(* the list.  The header bwd.h is not in the repository.                   *)
(***************************************************************************)
EXTENDS Integers, Sequences, FiniteSets

CONSTANTS
  Static,        \* nodes of the configuration file
  Dynamic,       \* addresses under a prefix that makes dynamic nodes
  WindowSize,    \* stat_node_t.window_size, seconds
  Limit,         \* bytes per second at which a rule is installed
  RemoveDelay,   \* stat_node_t.remove_delay, seconds
  NumIds,        \* options_t.id_num
  IdOffset,      \* options_t.id_offset
  UpdatesInStep, \* UPDATES_IN_STEP
  Sizes,         \* environment: sizes of packets
  Epoch,         \* the clock when the daemon starts
  Horizon,       \* bound: the clock stops here
  MaxPackets     \* bound: packets received

ASSUME BwdRulesAssumption ==
  /\ Static \cap Dynamic = {} /\ IsFiniteSet(Static) /\ IsFiniteSet(Dynamic)
  /\ WindowSize \in Nat \ {0} /\ Limit \in Nat /\ RemoveDelay \in Nat
  /\ NumIds \in Nat /\ IdOffset \in Nat /\ UpdatesInStep \in Nat
  /\ Sizes \subseteq Nat
  /\ Epoch \in Nat /\ Epoch >= WindowSize /\ Horizon \in Nat /\ Horizon >= Epoch
  /\ MaxPackets \in Nat

Nodes == Static \cup Dynamic
IdPool == 0 .. NumIds - 1
Seconds == Epoch - 1 .. Horizon + WindowSize

VARIABLES
  now,        \* time(NULL)
  list,       \* the nodes from op_root_node on, newest first
  node,       \* the stat_node_t of each node
  ids,        \* the bits set in options_t.ids
  idLast,     \* options_t.id_last
  active,     \* options_t.statistic_active
  rest,       \* eval_nodes: nodes still to be visited in this walk
  updates,    \* eval_nodes: the counter i
  received,   \* history: bytes of a node's packets up to the end of each second
  packets,    \* bound: packets received
  exhausted   \* history: get_next_id found no free id

vars == <<now, list, node, ids, idLast, active, rest, updates,
          received, packets, exhausted>>

(* The fields of stat_node_t (declared in bwd.h) the rules depend on. *)
StatNode == [lastUpdated : Nat, windowReset : Nat, bytes : Nat, reported : Nat, id : Nat]

Fresh == [lastUpdated |-> 0, windowReset |-> 0, bytes |-> 0, reported |-> 0, id |-> 0]

Known == {list[k] : k \in 1 .. Len(list)}
Reported == {n \in Nodes : node[n].reported # 0}

TypeOK ==
  /\ now \in Nat
  /\ list \in Seq(Nodes) /\ rest \in Seq(Nodes)
  /\ node \in [Nodes -> StatNode]
  /\ ids \subseteq IdPool
  /\ idLast \in 0 .. IF NumIds = 0 THEN 0 ELSE NumIds - 1
  /\ active \in Int
  /\ updates \in 0 .. UpdatesInStep + 1
  /\ received \in [Nodes -> [Seconds -> Nat]]
  /\ packets \in Nat /\ exhausted \in BOOLEAN

(* parse_config has read the static nodes. *)
Init ==
  /\ now = Epoch
  /\ list \in {s \in [1 .. Cardinality(Static) -> Static] :
                 \A j, k \in DOMAIN s : s[j] = s[k] => j = k}
  /\ node = [n \in Nodes |-> Fresh]
  /\ ids = {} /\ idLast = 0 /\ active = 0
  /\ rest = <<>> /\ updates = 0
  /\ received = [n \in Nodes |-> [t \in Seconds |-> 0]]
  /\ packets = 0 /\ exhausted = FALSE

--------------------------------------------------------------------------------
(* The packet thread. *)

(* main.c:179: the packet is the first one past the node's window. *)
WindowOverNeverBug(r) == FALSE
WindowOver(r) == r.lastUpdated >= r.windowReset + WindowSize

(* update_stats: the packet is counted, unless it closes the window: then  *)
(* it is dropped with the counters of the window it closes.                *)
Counted(r, size) == [r EXCEPT !.lastUpdated = now, !.bytes = @ + size]
WindowReset(r) == [r EXCEPT !.windowReset = now, !.bytes = 0]
Updated(r, size) ==
  IF WindowOver(Counted(r, size)) THEN WindowReset(Counted(r, size)) ELSE Counted(r, size)

(* History: the packet adds to what the node got by now and by any later   *)
(* second.                                                                 *)
Arrived(n, size) ==
  [received EXCEPT ![n] =
     [t \in Seconds |-> IF t < now THEN received[n][t] ELSE received[n][t] + size]]

(* add_packet, for the address of a node. *)
CountPacket ==
  /\ packets < MaxPackets
  /\ \E n \in Known, size \in Sizes :
       /\ node' = [node EXCEPT ![n] = Updated(@, size)]
       /\ received' = Arrived(n, size)
  /\ packets' = packets + 1
  /\ UNCHANGED <<now, list, ids, idLast, active, rest, updates, exhausted>>

(* add_packet, for an address that only matches a dynamic prefix: a node   *)
(* is made (add_dynamic_node), a copy of the parent's, which counts        *)
(* nothing itself.                                                         *)
AddDynamicNode ==
  /\ packets < MaxPackets
  /\ \E n \in Dynamic \ Known, size \in Sizes :
       /\ list' = <<n>> \o list
       /\ node' = [node EXCEPT ![n] = Fresh]
       /\ received' = Arrived(n, size)
  /\ packets' = packets + 1
  /\ UNCHANGED <<now, ids, idLast, active, rest, updates, exhausted>>

--------------------------------------------------------------------------------
(* The main thread. *)

(* The node is over its limit. *)
OverLimit(r) == r.bytes \div WindowSize > Limit

(* main.c:208-209: it was quiet for remove_delay, and its window is over. *)
MayRemoveAnyWindowBug(r) == r.reported # 0 /\ r.reported + RemoveDelay < r.lastUpdated
MayRemove(r) ==
  r.reported # 0 /\ r.reported + RemoveDelay < r.lastUpdated /\ WindowOver(r)

(* get_next_id: the first free id from id_last on, around the pool.  With  *)
(* every id taken the search ends one step further and returns 0.          *)
FreeIds == IdPool \ ids
Distance(k) == (k - idLast) % NumIds
NextId ==
  IF FreeIds = {} THEN 0
  ELSE CHOOSE k \in FreeIds : \A j \in FreeIds : Distance(k) <= Distance(j)
IdLastAfter == IF FreeIds = {} THEN (idLast + 1) % NumIds ELSE NextId

MarkedForgottenBug(k) == ids
Marked(k) == ids \cup {k}

(* exec_node_cmd(ACTION_NEW); what the script returns changes nothing. *)
TakeId(n) ==
  IF NumIds = 0 THEN UNCHANGED <<ids, idLast, exhausted>>
  ELSE /\ ids' = IF FreeIds = {} THEN ids ELSE Marked(NextId)
       /\ idLast' = IdLastAfter
       /\ exhausted' = (exhausted \/ FreeIds = {})

NewIdOf(n) ==
  IF node[n].reported # 0 \/ NumIds = 0 THEN node[n].id ELSE NextId + IdOffset

(* The node with its rule installed, or confirmed. *)
Installed(r, id) == [r EXCEPT !.reported = r.lastUpdated, !.id = id]

(* main.c:201 is under the test of time_reported, 204 is not. *)
CountedAlwaysBug(n) == active + 1
CountedActive(n) == IF node[n].reported = 0 THEN active + 1 ELSE active

BeginWalk ==
  /\ rest = <<>>
  /\ rest' = list /\ updates' = 0
  /\ UNCHANGED <<now, list, node, ids, idLast, active, received, packets, exhausted>>

(* eval_node on the next node of the walk, which ends after more than      *)
(* UPDATES_IN_STEP rules were changed.                                     *)
WalkOn(updated) ==
  /\ updates' = updates + (IF updated THEN 1 ELSE 0)
  /\ rest' = IF updates' > UpdatesInStep THEN <<>> ELSE Tail(rest)

InstallRule(n) ==
  /\ OverLimit(node[n])
  /\ active' = CountedActive(n)
  /\ IF node[n].reported = 0 THEN TakeId(n) ELSE UNCHANGED <<ids, idLast, exhausted>>
  /\ node' = [node EXCEPT ![n] = Installed(@, NewIdOf(n))]
  /\ WalkOn(node[n].reported = 0)

(* exec_node_cmd(ACTION_DEL) frees the id if the script succeeds. *)
RemoveRule(n) ==
  /\ ~OverLimit(node[n])
  /\ IF MayRemove(node[n])
       THEN \E ok \in BOOLEAN :
              /\ active' = active - 1
              /\ ids' = IF ok THEN ids \ {node[n].id - IdOffset} ELSE ids
              /\ node' = [node EXCEPT ![n].reported = 0, ![n].id = IF ok THEN 0 ELSE @]
              /\ UNCHANGED <<idLast, exhausted>>
       ELSE UNCHANGED <<active, node, ids, idLast, exhausted>>
  /\ WalkOn(MayRemove(node[n]))

EvalNode ==
  /\ rest # <<>>
  /\ InstallRule(Head(rest)) \/ RemoveRule(Head(rest))
  /\ UNCHANGED <<now, list, received, packets>>

Tick ==
  /\ now < Horizon
  /\ now' = now + 1
  /\ UNCHANGED <<list, node, ids, idLast, active, rest, updates, received, packets,
                 exhausted>>

Next == CountPacket \/ AddDynamicNode \/ BeginWalk \/ EvalNode \/ Tick

Spec == Init /\ [][Next]_vars

--------------------------------------------------------------------------------
(* Properties. *)

(* A rule is installed only for a node that got more than its limit within *)
(* one window, however packets, resets and the walk interleave.            *)
InWindow(n, t) == received[n][t + WindowSize - 1] - received[n][t - 1]

RulesJustified ==
  \A n \in Reported : \E t \in Epoch .. now : InWindow(n, t) \div WindowSize > Limit

(* The ids taken are those of the rules, each rule has its own, until the  *)
(* pool was once exhausted.                                                *)
IdsMatchRules ==
  NumIds > 0 /\ ~exhausted =>
    /\ ids = {node[n].id - IdOffset : n \in Reported}
    /\ \A n, m \in Reported : node[n].id = node[m].id => n = m

(* "active rules" of the statistics file is what "active rules" of the     *)
(* database dump counts (update_statistic_file, dump_nodes_db).            *)
ActiveCounted == active = Cardinality(Reported)

(* No rule is ever removed: a packet that reaches a node past its window   *)
(* resets the window before eval_node can see that it is over.             *)
RulesStay == [][Reported \subseteq Reported']_vars

(* Strengthenings of the above, for the proofs. *)

(* No window is over outside update_stats. *)
WindowsRunning == \A n \in Nodes : ~WindowOver(node[n])

(* Bytes were counted by an update_stats that also set last_updated; a     *)
(* node that does not exist yet has neither bytes nor a rule.              *)
CountsDated ==
  /\ \A n \in Nodes : node[n].bytes # 0 => node[n].lastUpdated # 0
  /\ \A n \in Nodes \ Known : node[n].bytes = 0 /\ node[n].reported = 0

(* What a node got by some second, it got by any later one. *)
ReceivedAdds ==
  \A n \in Nodes : \A s, t \in Seconds : s <= t => received[n][s] <= received[n][t]

(* A window was opened by a packet, none in the future.                    *)
WindowsDated ==
  \A n \in Nodes :
    /\ node[n].lastUpdated <= now
    /\ node[n].windowReset = 0 \/ node[n].windowReset \in Epoch .. now

(* The bytes a node counted arrived between the reset and its last packet. *)
BytesArrived ==
  \A n \in Nodes : node[n].bytes # 0 =>
    /\ Epoch <= node[n].windowReset /\ node[n].windowReset <= node[n].lastUpdated
    /\ node[n].bytes <= received[n][node[n].lastUpdated]
                         - received[n][node[n].windowReset - 1]

(* A walk that made its last update is over. *)
WalkBounded == rest # <<>> => updates <= UpdatesInStep

RulesInv ==
  /\ TypeOK /\ now >= Epoch
  /\ WindowsRunning
  /\ CountsDated
  /\ WalkBounded
  /\ ActiveCounted
  /\ IdsMatchRules

WindowsInv ==
  /\ now <= Horizon
  /\ ReceivedAdds
  /\ WindowsDated
  /\ BytesArrived
  /\ RulesJustified
=================================================================================
