----------------------------- MODULE BwdRulesProofs -----------------------------
(***************************************************************************)
(* Proofs about BwdRules, for any nodes, windows, limits and id pools:     *)
(* types, that a rule once installed is never removed, and that the ids    *)
(* and the counter of active rules agree with the rules.                   *)
(***************************************************************************)
EXTENDS BwdRules, FiniteSetTheorems, WellFoundedInduction, TLAPS

(* Every non-empty set of naturals has a least element. *)
LEMMA LeastOf ==
  ASSUME NEW S, S \subseteq Nat, S # {}
  PROVE  \E i \in S : \A j \in S : i <= j
<1> DEFINE Below == {p \in Nat \X Nat : p[1] < p[2]}
<1>1. IsWellFoundedOn(Below, Nat)
  BY NatLessThanWellFounded, Zenon DEF OpToRel
<1>2. PICK i \in S : \A j \in S : <<j, i>> \notin Below
  BY <1>1, WFMin
<1>3. \A j \in S : <<j, i>> \in Nat \X Nat
  OBVIOUS
<1>4. \A j \in S : ~(j < i)
  BY <1>2, <1>3
<1> QED
  BY <1>2, <1>4

--------------------------------------------------------------------------------
(* get_next_id. *)

LEMMA DistanceIsNat ==
  ASSUME TypeOK, NumIds # 0, NEW k \in IdPool
  PROVE  Distance(k) \in Nat
<1>1. NumIds \in Nat /\ NumIds > 0 /\ k - idLast \in Int
  BY BwdRulesAssumption DEF TypeOK, IdPool
<1> QED
  BY <1>1 DEF Distance

(* The search of get_next_id finds a free id if there is one. *)
LEMMA NextIdIsFree ==
  ASSUME TypeOK, NumIds # 0, FreeIds # {}
  PROVE  NextId \in FreeIds /\ NextId \in IdPool /\ NextId \notin ids
<1> DEFINE distances == {Distance(k) : k \in FreeIds}
<1>1. FreeIds \subseteq IdPool
  BY DEF FreeIds
<1>2. distances \subseteq Nat
  BY <1>1, DistanceIsNat
<1>3. distances # {}
  OBVIOUS
<1> HIDE DEF distances
<1>4. PICK d \in distances : \A e \in distances : d <= e
  BY <1>2, <1>3, LeastOf
<1>5. \E k \in FreeIds : \A j \in FreeIds : Distance(k) <= Distance(j)
  BY <1>4 DEF distances
<1>6. NextId \in FreeIds
  BY <1>5 DEF NextId
<1> QED
  BY <1>6 DEF FreeIds

LEMMA NextIdIsNat ==
  ASSUME TypeOK, NumIds # 0
  PROVE  NextId \in Nat
BY NextIdIsFree DEF NextId, IdPool

LEMMA IdLastStaysInPool ==
  ASSUME TypeOK, NumIds # 0
  PROVE  IdLastAfter \in 0 .. NumIds - 1
<1>1. NumIds \in Nat /\ NumIds > 0 /\ idLast + 1 \in Nat
  BY BwdRulesAssumption DEF TypeOK
<1>2. CASE FreeIds = {}
  BY <1>1, <1>2 DEF IdLastAfter
<1>3. CASE FreeIds # {}
  BY <1>3, NextIdIsFree DEF IdLastAfter, IdPool
<1> QED
  BY <1>2, <1>3

--------------------------------------------------------------------------------
(* What the operations do to one node. *)

LEMMA FreshIsNode ==
  /\ Fresh \in StatNode
  /\ ~WindowOver(Fresh)
  /\ Fresh.bytes = 0 /\ Fresh.reported = 0
BY BwdRulesAssumption DEF Fresh, StatNode, WindowOver

LEMMA CountedNode ==
  ASSUME NEW r \in StatNode, NEW size \in Nat, now \in Nat
  PROVE  /\ Counted(r, size) \in StatNode
         /\ Counted(r, size).lastUpdated = now
         /\ Counted(r, size).windowReset = r.windowReset
         /\ Counted(r, size).bytes = r.bytes + size
         /\ Counted(r, size).reported = r.reported
         /\ Counted(r, size).id = r.id
<1> DEFINE sum == r.bytes + size
<1>1. sum \in Nat
  BY DEF StatNode
<1>2. Counted(r, size) = [r EXCEPT !.lastUpdated = now, !.bytes = sum]
  BY DEF Counted
<1> HIDE DEF sum
<1>3. /\ Counted(r, size) \in StatNode
      /\ Counted(r, size).lastUpdated = now
      /\ Counted(r, size).windowReset = r.windowReset
      /\ Counted(r, size).bytes = sum
      /\ Counted(r, size).reported = r.reported
      /\ Counted(r, size).id = r.id
  BY <1>1, <1>2 DEF StatNode
<1> QED
  BY <1>3 DEF sum

LEMMA ResetNode ==
  ASSUME NEW r \in StatNode, now \in Nat
  PROVE  /\ WindowReset(r) \in StatNode
         /\ WindowReset(r).lastUpdated = r.lastUpdated
         /\ WindowReset(r).windowReset = now
         /\ WindowReset(r).bytes = 0
         /\ WindowReset(r).reported = r.reported
         /\ WindowReset(r).id = r.id
BY DEF StatNode, WindowReset

LEMMA InstalledNode ==
  ASSUME NEW r \in StatNode, NEW i \in Nat
  PROVE  /\ Installed(r, i) \in StatNode
         /\ Installed(r, i).lastUpdated = r.lastUpdated
         /\ Installed(r, i).windowReset = r.windowReset
         /\ Installed(r, i).bytes = r.bytes
         /\ Installed(r, i).reported = r.lastUpdated
         /\ Installed(r, i).id = i
BY DEF StatNode, Installed

(* update_stats leaves a node whose window is not over, and does not touch *)
(* its rule.                                                               *)
LEMMA UpdatedNode ==
  ASSUME NEW r \in StatNode, NEW size \in Nat, now \in Nat, now >= Epoch
  PROVE  /\ Updated(r, size) \in StatNode
         /\ ~WindowOver(Updated(r, size))
         /\ Updated(r, size).lastUpdated # 0
         /\ Updated(r, size).reported = r.reported
         /\ Updated(r, size).id = r.id
<1> DEFINE counted == Counted(r, size)
           reset == WindowReset(counted)
<1>1. /\ counted \in StatNode
      /\ counted.lastUpdated = now
      /\ counted.reported = r.reported /\ counted.id = r.id
  BY CountedNode
<1>2. /\ reset \in StatNode
      /\ reset.lastUpdated = now /\ reset.windowReset = now
      /\ reset.reported = r.reported /\ reset.id = r.id
  BY <1>1, ResetNode
<1>3. now # 0 /\ WindowSize \in Nat /\ WindowSize > 0
  BY BwdRulesAssumption
<1>4. ~WindowOver(reset)
  BY <1>2, <1>3 DEF WindowOver
<1> QED
  BY <1>1, <1>2, <1>3, <1>4 DEF Updated

--------------------------------------------------------------------------------
(* Type correctness and the strengthenings, one lemma per action. *)

Core ==
  /\ TypeOK /\ now >= Epoch
  /\ WindowsRunning
  /\ CountsDated
  /\ WalkBounded

(* The history of a node that gets a packet, and of the others. *)
LEMMA ArrivedRows ==
  ASSUME TypeOK, NEW n \in Nodes, NEW size \in Nat
  PROVE  /\ Arrived(n, size) \in [Nodes -> [Seconds -> Nat]]
         /\ \A t \in Seconds :
              Arrived(n, size)[n][t] =
                IF t < now THEN received[n][t] ELSE received[n][t] + size
         /\ \A m \in Nodes \ {n} : Arrived(n, size)[m] = received[m]
<1> DEFINE row == [t \in Seconds |-> IF t < now THEN received[n][t] ELSE received[n][t] + size]
<1>1. \A t \in Seconds : received[n][t] \in Nat /\ received[n][t] + size \in Nat
  BY DEF TypeOK
<1>2. row \in [Seconds -> Nat]
  BY <1>1
<1>3. \A t \in Seconds :
        row[t] = IF t < now THEN received[n][t] ELSE received[n][t] + size
  OBVIOUS
<1>4. Arrived(n, size) = [received EXCEPT ![n] = row]
  BY DEF Arrived
<1> HIDE DEF row
<1> QED
  BY <1>2, <1>3, <1>4 DEF TypeOK

LEMMA InitCore == Init => Core
<1> SUFFICES ASSUME Init PROVE Core
  OBVIOUS
<1>1. /\ now \in Nat /\ now >= Epoch /\ idLast \in 0 .. IF NumIds = 0 THEN 0 ELSE NumIds - 1
      /\ updates \in 0 .. UpdatesInStep + 1 /\ active \in Int
      /\ rest = <<>>
  BY BwdRulesAssumption DEF Init
<1>2. list \in Seq(Nodes) /\ rest \in Seq(Nodes)
  <2>1. PICK s \in [1 .. Cardinality(Static) -> Static] : list = s
    BY DEF Init
  <2>2. Cardinality(Static) \in Nat
    BY BwdRulesAssumption, FS_CardinalityType
  <2>3. s \in Seq(Static)
    BY <2>1, <2>2
  <2> QED
    BY <1>1, <2>1, <2>3 DEF Nodes
<1>3. \A n \in Nodes : node[n] = Fresh
  BY DEF Init
<1>4. node \in [Nodes -> StatNode]
  BY <1>3, FreshIsNode DEF Init
<1>5. received \in [Nodes -> [Seconds -> Nat]]
  BY DEF Init
<1>6. TypeOK
  BY <1>1, <1>2, <1>4, <1>5 DEF Init, TypeOK
<1>7. WindowsRunning /\ CountsDated
  BY <1>3, FreshIsNode DEF WindowsRunning, CountsDated
<1> QED
  BY <1>1, <1>6, <1>7 DEF Core, WalkBounded

LEMMA StepCount ==
  ASSUME Core, CountPacket
  PROVE  /\ Core'
         /\ \A n \in Nodes : node'[n].reported = node[n].reported /\ node'[n].id = node[n].id
<1>1. PICK n \in Known, size \in Sizes :
         /\ node' = [node EXCEPT ![n] = Updated(@, size)]
         /\ received' = Arrived(n, size)
  BY DEF CountPacket
<1>2. n \in Nodes /\ size \in Nat /\ node[n] \in StatNode
  BY <1>1, BwdRulesAssumption DEF Core, TypeOK, Known
<1> DEFINE u == Updated(node[n], size)
<1>3. /\ u \in StatNode /\ ~WindowOver(u) /\ u.lastUpdated # 0
      /\ u.reported = node[n].reported /\ u.id = node[n].id
  BY <1>2, UpdatedNode DEF Core, TypeOK
<1>4. /\ node' \in [Nodes -> StatNode] /\ node'[n] = u
      /\ \A m \in Nodes \ {n} : node'[m] = node[m]
  BY <1>1, <1>2, <1>3 DEF Core, TypeOK
<1> HIDE DEF u
<1>5. received' \in [Nodes -> [Seconds -> Nat]]
  BY <1>1, <1>2, ArrivedRows DEF Core
<1>6. /\ packets' \in Nat
      /\ UNCHANGED <<now, list, ids, idLast, active, rest, updates, exhausted>>
  BY DEF CountPacket, Core, TypeOK
<1>7. TypeOK'
  BY <1>4, <1>5, <1>6 DEF Core, TypeOK
<1>8. WindowsRunning'
  BY <1>3, <1>4 DEF Core, WindowsRunning, WindowOver
<1>9. CountsDated'
  BY <1>1, <1>3, <1>4, <1>6 DEF Core, CountsDated, Known
<1> QED
  BY <1>3, <1>4, <1>6, <1>7, <1>8, <1>9 DEF Core, WalkBounded

LEMMA StepAddNode ==
  ASSUME Core, AddDynamicNode
  PROVE  /\ Core'
         /\ \E n \in Nodes \ Known :
              /\ node'[n].reported = 0
              /\ \A m \in Nodes \ {n} : node'[m] = node[m]
<1>1. PICK n \in Dynamic \ Known, size \in Sizes :
         /\ list' = <<n>> \o list
         /\ node' = [node EXCEPT ![n] = Fresh]
         /\ received' = Arrived(n, size)
  BY DEF AddDynamicNode
<1>2. n \in Nodes /\ size \in Nat /\ list \in Seq(Nodes)
  BY <1>1, BwdRulesAssumption DEF Core, TypeOK, Nodes
<1>3. /\ node' \in [Nodes -> StatNode] /\ node'[n] = Fresh
      /\ \A m \in Nodes \ {n} : node'[m] = node[m]
  BY <1>1, <1>2, FreshIsNode DEF Core, TypeOK
<1>4. received' \in [Nodes -> [Seconds -> Nat]]
  BY <1>1, <1>2, ArrivedRows DEF Core
<1>5. /\ packets' \in Nat
      /\ UNCHANGED <<now, ids, idLast, active, rest, updates, exhausted>>
  BY DEF AddDynamicNode, Core, TypeOK
<1>6. list' \in Seq(Nodes) /\ Known \subseteq Known'
  <2>1. /\ list' \in Seq(Nodes) /\ Len(list') = Len(list) + 1
        /\ \A k \in 1 .. Len(list) : list'[k + 1] = list[k]
    BY <1>1, <1>2
  <2>2. \A k \in 1 .. Len(list) : k + 1 \in 1 .. Len(list')
    BY <1>2, <2>1
  <2> QED
    BY <2>1, <2>2 DEF Known
<1>7. TypeOK'
  BY <1>3, <1>4, <1>5, <1>6 DEF Core, TypeOK
<1>8. WindowsRunning'
  BY <1>3, FreshIsNode DEF Core, WindowsRunning, WindowOver
<1>9. CountsDated'
  BY <1>3, <1>6, FreshIsNode DEF Core, CountsDated
<1> QED
  BY <1>1, <1>2, <1>3, <1>5, <1>7, <1>8, <1>9, FreshIsNode DEF Core, WalkBounded

LEMMA StepBeginWalk ==
  ASSUME Core, BeginWalk
  PROVE  Core'
<1>1. TypeOK'
  BY BwdRulesAssumption DEF Core, TypeOK, BeginWalk
<1>2. WindowsRunning' /\ CountsDated'
  BY DEF Core, BeginWalk, WindowsRunning, WindowOver, CountsDated, Known
<1> QED
  BY <1>1, <1>2, BwdRulesAssumption DEF Core, BeginWalk, WalkBounded

LEMMA StepTick ==
  ASSUME Core, Tick
  PROVE  Core'
<1>1. TypeOK' /\ (now >= Epoch)'
  BY BwdRulesAssumption DEF Core, TypeOK, Tick
<1>2. WindowsRunning' /\ CountsDated'
  BY DEF Core, Tick, WindowsRunning, WindowOver, CountsDated, Known
<1> QED
  BY <1>1, <1>2 DEF Core, Tick, WalkBounded

(* A visit of the walk. *)
LEMMA WalkGoesOn ==
  ASSUME Core, rest # <<>>, NEW changed \in BOOLEAN, WalkOn(changed)
  PROVE  /\ updates' \in 0 .. UpdatesInStep + 1
         /\ rest' \in Seq(Nodes)
         /\ WalkBounded'
<1>1. updates \in Nat /\ updates <= UpdatesInStep /\ UpdatesInStep \in Nat
  BY BwdRulesAssumption DEF Core, TypeOK, WalkBounded
<1>2. updates' = updates + (IF changed THEN 1 ELSE 0)
  BY DEF WalkOn
<1>3. updates' \in 0 .. UpdatesInStep + 1
  BY <1>1, <1>2
<1>4. Tail(rest) \in Seq(Nodes) /\ <<>> \in Seq(Nodes)
  BY DEF Core, TypeOK
<1>5. rest' = IF updates' > UpdatesInStep THEN <<>> ELSE Tail(rest)
  BY DEF WalkOn
<1> QED
  BY <1>1, <1>3, <1>4, <1>5 DEF WalkBounded

(* A node over its limit exists, has counted a packet, and so has a time   *)
(* for its rule.                                                           *)
LEMMA OverLimitIsDated ==
  ASSUME Core, NEW n \in Nodes, OverLimit(node[n])
  PROVE  n \in Known /\ node[n].lastUpdated \in Nat \ {0}
<1>1. /\ node[n].bytes \in Nat /\ node[n].lastUpdated \in Nat
      /\ Limit \in Nat /\ WindowSize \in Nat /\ WindowSize > 0
  BY BwdRulesAssumption DEF Core, TypeOK, StatNode
<1>2. 0 \div WindowSize = 0
  BY <1>1
<1>3. node[n].bytes # 0
  BY <1>1, <1>2 DEF OverLimit
<1> QED
  BY <1>1, <1>3 DEF Core, CountsDated

LEMMA InstalledIdIsNat ==
  ASSUME Core, NEW n \in Nodes
  PROVE  NewIdOf(n) \in Nat
<1>1. node[n].id \in Nat /\ IdOffset \in Nat
  BY BwdRulesAssumption DEF Core, TypeOK, StatNode
<1>2. NumIds # 0 => NextId \in Nat
  BY NextIdIsNat DEF Core
<1>3. NumIds # 0 => NextId + IdOffset \in Nat
  BY <1>1, <1>2
<1> QED
  BY <1>1, <1>3 DEF NewIdOf

LEMMA StepInstall ==
  ASSUME Core, rest # <<>>, NEW n \in Nodes, InstallRule(n),
         UNCHANGED <<now, list, received, packets>>
  PROVE  /\ Core'
         /\ node'[n].reported # 0 /\ node'[n].id = NewIdOf(n)
         /\ \A m \in Nodes \ {n} : node'[m] = node[m]
<1> DEFINE r == node[n]
           new == Installed(node[n], NewIdOf(n))
<1>1. r \in StatNode /\ n \in Known /\ r.lastUpdated \in Nat \ {0}
  BY OverLimitIsDated DEF Core, TypeOK, InstallRule
<1>2. NewIdOf(n) \in Nat
  BY InstalledIdIsNat
<1>3. /\ new \in StatNode /\ new.reported = r.lastUpdated /\ new.id = NewIdOf(n)
      /\ new.lastUpdated = r.lastUpdated /\ new.windowReset = r.windowReset
      /\ new.bytes = r.bytes
  BY <1>1, <1>2, InstalledNode
<1>4. /\ node' \in [Nodes -> StatNode] /\ node'[n] = new
      /\ \A m \in Nodes \ {n} : node'[m] = node[m]
  BY <1>3 DEF InstallRule, Core, TypeOK
<1> HIDE DEF new
<1>5. ids' \subseteq IdPool /\ exhausted' \in BOOLEAN
      /\ idLast' \in 0 .. IF NumIds = 0 THEN 0 ELSE NumIds - 1
  <2>1. CASE UNCHANGED <<ids, idLast, exhausted>>
    BY <2>1 DEF Core, TypeOK
  <2>2. CASE TakeId(n) /\ NumIds # 0
    BY <2>2, NextIdIsFree, IdLastStaysInPool DEF TakeId, Marked, Core, TypeOK
  <2> QED
    BY <2>1, <2>2 DEF InstallRule, TakeId
<1>6. active' \in Int
  BY DEF InstallRule, CountedActive, Core, TypeOK
<1>7. updates' \in 0 .. UpdatesInStep + 1 /\ rest' \in Seq(Nodes) /\ WalkBounded'
  BY WalkGoesOn DEF InstallRule
<1>8. TypeOK'
  BY <1>4, <1>5, <1>6, <1>7 DEF Core, TypeOK
<1>9. WindowsRunning'
  BY <1>3, <1>4 DEF Core, WindowsRunning, WindowOver
<1>10. CountsDated'
  BY <1>1, <1>3, <1>4 DEF Core, CountsDated, Known
<1> QED
  BY <1>1, <1>3, <1>4, <1>7, <1>8, <1>9, <1>10 DEF Core

(* No window is over when eval_node looks, so it removes nothing. *)
LEMMA StepRemove ==
  ASSUME Core, rest # <<>>, NEW n \in Nodes, RemoveRule(n),
         UNCHANGED <<now, list, received, packets>>
  PROVE  Core' /\ UNCHANGED <<active, node, ids, idLast, exhausted>>
<1>1. ~MayRemove(node[n])
  BY DEF Core, WindowsRunning, MayRemove
<1>2. UNCHANGED <<active, node, ids, idLast, exhausted>>
  BY <1>1 DEF RemoveRule
<1>3. MayRemove(node[n]) \in BOOLEAN /\ WalkOn(MayRemove(node[n]))
  BY DEF RemoveRule, MayRemove
<1>4. updates' \in 0 .. UpdatesInStep + 1 /\ rest' \in Seq(Nodes) /\ WalkBounded'
  BY <1>3, WalkGoesOn
<1>5. TypeOK'
  BY <1>2, <1>4 DEF Core, TypeOK
<1>6. WindowsRunning' /\ CountsDated'
  BY <1>2 DEF Core, WindowsRunning, WindowOver, CountsDated, Known
<1> QED
  BY <1>2, <1>4, <1>5, <1>6 DEF Core

LEMMA HeadIsNode ==
  ASSUME Core, rest # <<>>
  PROVE  Head(rest) \in Nodes
BY DEF Core, TypeOK

LEMMA StepCore == Core /\ [Next]_vars => Core'
<1> SUFFICES ASSUME Core, [Next]_vars PROVE Core'
  OBVIOUS
<1>1. CASE CountPacket
  BY <1>1, StepCount
<1>2. CASE AddDynamicNode
  BY <1>2, StepAddNode
<1>3. CASE BeginWalk
  BY <1>3, StepBeginWalk
<1>4. CASE EvalNode
  BY <1>4, HeadIsNode, StepInstall, StepRemove DEF EvalNode
<1>5. CASE Tick
  BY <1>5, StepTick
<1>6. CASE UNCHANGED vars
  <2>1. TypeOK' /\ (now >= Epoch)'
    BY <1>6 DEF Core, TypeOK, vars
  <2> QED
    BY <1>6, <2>1 DEF Core, vars, WindowsRunning, WindowOver, CountsDated, Known, WalkBounded
<1> QED
  BY <1>1, <1>2, <1>3, <1>4, <1>5, <1>6 DEF Next

(* Types, in every instance: ids stay in the pool, the walk in the list,   *)
(* and a walk makes one update more than UPDATES_IN_STEP at most.          *)
THEOREM BwdTypeCorrect == Spec => []TypeOK
<1>1. Init => Core
  BY InitCore
<1>2. Core /\ [Next]_vars => Core'
  BY StepCore
<1>3. Core => TypeOK
  BY DEF Core
<1> QED
  BY <1>1, <1>2, <1>3, PTL DEF Spec

--------------------------------------------------------------------------------
(* Rules, ids and the counter. *)

(* What a step does to the rules: none goes, and one comes only through    *)
(* the installing half of eval_node.                                       *)
RulesKept == Reported' = Reported /\ \A n \in Reported : node'[n].id = node[n].id

RuleAdded(n) ==
  /\ n \in Nodes \ Reported /\ Reported' = Reported \cup {n}
  /\ \A m \in Reported : node'[m].id = node[m].id

LEMMA InstallEffect ==
  ASSUME Core, rest # <<>>, NEW n \in Nodes, InstallRule(n),
         UNCHANGED <<now, list, received, packets>>
  PROVE  \/ /\ RulesKept
            /\ UNCHANGED <<active, ids, exhausted>>
         \/ /\ RuleAdded(n) /\ active' = active + 1
            /\ TakeId(n) /\ node'[n].id = NewIdOf(n) /\ node[n].reported = 0
<1>1. /\ node'[n].reported # 0 /\ node'[n].id = NewIdOf(n)
      /\ \A m \in Nodes \ {n} : node'[m] = node[m]
  BY StepInstall
<1>2. CASE node[n].reported = 0
  BY <1>1, <1>2 DEF InstallRule, CountedActive, RuleAdded, Reported
<1>3. CASE node[n].reported # 0
  BY <1>1, <1>3 DEF InstallRule, CountedActive, RulesKept, Reported, NewIdOf
<1> QED
  BY <1>2, <1>3

(* Every step keeps the rules, but that one. *)
LEMMA StepEffect ==
  ASSUME Core, [Next]_vars
  PROVE  \/ /\ RulesKept
            /\ UNCHANGED <<active, ids, exhausted>>
         \/ \E n \in Nodes :
              /\ RuleAdded(n) /\ active' = active + 1
              /\ TakeId(n) /\ node'[n].id = NewIdOf(n) /\ node[n].reported = 0
<1>1. CASE CountPacket
  <2>1. \A n \in Nodes : node'[n].reported = node[n].reported /\ node'[n].id = node[n].id
    BY <1>1, StepCount
  <2> QED
    BY <1>1, <2>1 DEF CountPacket, RulesKept, Reported
<1>2. CASE AddDynamicNode
  <2>1. PICK n \in Nodes \ Known :
          node'[n].reported = 0 /\ \A m \in Nodes \ {n} : node'[m] = node[m]
    BY <1>2, StepAddNode
  <2>2. node[n].reported = 0
    BY <2>1 DEF Core, CountsDated
  <2> QED
    BY <1>2, <2>1, <2>2 DEF AddDynamicNode, RulesKept, Reported
<1>3. CASE BeginWalk
  BY <1>3 DEF BeginWalk, RulesKept, Reported
<1>4. CASE EvalNode
  <2> DEFINE n == Head(rest)
  <2>1. rest # <<>> /\ n \in Nodes /\ UNCHANGED <<now, list, received, packets>>
    BY <1>4, HeadIsNode DEF EvalNode
  <2> HIDE DEF n
  <2>2. CASE InstallRule(n)
    BY <2>1, <2>2, InstallEffect
  <2>3. CASE RemoveRule(n)
    BY <2>1, <2>3, StepRemove DEF RulesKept, Reported
  <2> QED
    BY <1>4, <2>2, <2>3 DEF EvalNode, n
<1>5. CASE Tick
  BY <1>5 DEF Tick, RulesKept, Reported
<1>6. CASE UNCHANGED vars
  BY <1>6 DEF vars, RulesKept, Reported
<1> QED
  BY <1>1, <1>2, <1>3, <1>4, <1>5, <1>6 DEF Next

LEMMA ReportedIsFinite == IsFiniteSet(Reported)
<1>1. IsFiniteSet(Nodes)
  BY BwdRulesAssumption, FS_Union DEF Nodes
<1> QED
  BY <1>1, FS_Subset DEF Reported

LEMMA StepActiveCounted ==
  ASSUME Core, ActiveCounted, [Next]_vars
  PROVE  ActiveCounted'
<1>1. CASE RulesKept /\ UNCHANGED <<active, ids, exhausted>>
  BY <1>1 DEF RulesKept, ActiveCounted
<1>2. ASSUME NEW n \in Nodes, RuleAdded(n), active' = active + 1
      PROVE  ActiveCounted'
  <2>1. Cardinality(Reported \cup {n}) = Cardinality(Reported) + 1
    BY <1>2, ReportedIsFinite, FS_AddElement DEF RuleAdded
  <2> QED
    BY <1>2, <2>1 DEF ActiveCounted, RuleAdded
<1> QED
  BY <1>1, <1>2, StepEffect

LEMMA StepIdsMatch ==
  ASSUME Core, IdsMatchRules, [Next]_vars
  PROVE  IdsMatchRules'
<1> SUFFICES ASSUME NumIds > 0, ~exhausted'
             PROVE  /\ ids' = {node'[n].id - IdOffset : n \in Reported'}
                    /\ \A n, m \in Reported' : node'[n].id = node'[m].id => n = m
  BY DEF IdsMatchRules
<1>1. CASE RulesKept /\ UNCHANGED <<active, ids, exhausted>>
  BY <1>1 DEF RulesKept, IdsMatchRules
<1>2. ASSUME NEW n \in Nodes, RuleAdded(n), TakeId(n),
             node'[n].id = NewIdOf(n), node[n].reported = 0
      PROVE  /\ ids' = {node'[m].id - IdOffset : m \in Reported'}
             /\ \A m, k \in Reported' : node'[m].id = node'[k].id => m = k
  <2>1. NumIds # 0 /\ ~exhausted /\ FreeIds # {} /\ ids' = ids \cup {NextId}
    <3>1. NumIds # 0
      BY BwdRulesAssumption
    <3>2. ~exhausted /\ FreeIds # {}
      BY <1>2, <3>1, Zenon DEF TakeId
    <3> QED
      BY <1>2, <3>1, <3>2, Zenon DEF TakeId, Marked
  <2>2. NextId \in Nat /\ NextId \notin ids /\ IdOffset \in Nat
    BY <2>1, NextIdIsFree, NextIdIsNat, BwdRulesAssumption DEF Core
  <2>3. node'[n].id = NextId + IdOffset
    BY <1>2, <2>1 DEF NewIdOf
  <2>4. node'[n].id - IdOffset = NextId
    BY <2>2, <2>3
  <2>5. /\ ids = {node[m].id - IdOffset : m \in Reported}
        /\ \A m, k \in Reported : node[m].id = node[k].id => m = k
    BY <2>1 DEF IdsMatchRules
  <2>6. /\ Reported' = Reported \cup {n}
        /\ \A m \in Reported : node'[m].id = node[m].id
    BY <1>2 DEF RuleAdded
  <2>7. {node'[m].id - IdOffset : m \in Reported'} = ids \cup {NextId}
    BY <2>4, <2>5, <2>6
  <2>8. \A m \in Reported : node'[m].id # node'[n].id
    BY <2>2, <2>4, <2>5, <2>6
  <2> QED
    BY <2>1, <2>5, <2>6, <2>7, <2>8
<1> QED
  BY <1>1, <1>2, StepEffect

(* The invariant: Core with what relates rules, ids and counter. *)
LEMMA InitRulesInv == Init => RulesInv
<1> SUFFICES ASSUME Init PROVE RulesInv
  OBVIOUS
<1>1. Core
  BY InitCore
<1>2. Reported = {} /\ active = 0 /\ ids = {}
  BY FreshIsNode DEF Init, Reported
<1>3. ActiveCounted
  BY <1>2, FS_EmptySet DEF ActiveCounted
<1>4. IdsMatchRules
  BY <1>2 DEF IdsMatchRules
<1> QED
  BY <1>1, <1>3, <1>4 DEF RulesInv, Core

LEMMA StepRulesInv == RulesInv /\ [Next]_vars => RulesInv'
<1> SUFFICES ASSUME RulesInv, [Next]_vars PROVE RulesInv'
  OBVIOUS
<1>1. Core
  BY DEF RulesInv, Core
<1>2. Core'
  BY <1>1, StepCore
<1>3. ActiveCounted' /\ IdsMatchRules'
  BY <1>1, StepActiveCounted, StepIdsMatch DEF RulesInv
<1> QED
  BY <1>2, <1>3 DEF RulesInv, Core

(* Ids and rules agree until the pool is exhausted: get_next_id never      *)
(* hands out an id that a rule has, and every id taken belongs to a rule.  *)
THEOREM IdsMatch == Spec => []IdsMatchRules
<1>1. RulesInv => IdsMatchRules
  BY DEF RulesInv
<1> QED
  BY <1>1, InitRulesInv, StepRulesInv, PTL DEF Spec

(* The statistics file counts the rules the database dump shows. *)
THEOREM ActiveIsCounted == Spec => []ActiveCounted
<1>1. RulesInv => ActiveCounted
  BY DEF RulesInv
<1> QED
  BY <1>1, InitRulesInv, StepRulesInv, PTL DEF Spec

(* Whatever the windows, the limits, the delays and the traffic, no rule   *)
(* is ever removed: update_stats closes a window in the very call that     *)
(* reaches its end, so eval_node never sees one that is over.              *)
THEOREM RulesAreForever == Spec => RulesStay
<1>1. Core /\ [Next]_vars => [Reported \subseteq Reported']_vars
  <2> SUFFICES ASSUME Core, [Next]_vars PROVE Reported \subseteq Reported'
    OBVIOUS
  <2> QED
    BY StepEffect DEF RulesKept, RuleAdded
<1> QED
  BY <1>1, InitCore, StepCore, PTL DEF Spec, RulesStay

--------------------------------------------------------------------------------
(* Every rule was justified by the traffic of one window. *)

LEMMA QuotientsInOrder ==
  ASSUME NEW a \in Nat, NEW c \in Nat, a <= c, NEW b \in Nat \ {0}
  PROVE  a \div b <= c \div b
<1> DEFINE p == a \div b
           q == c \div b
<1>1. /\ p \in Nat /\ q \in Nat
      /\ a % b \in 0 .. b - 1 /\ c % b \in 0 .. b - 1
      /\ a = b * p + (a % b) /\ c = b * q + (c % b)
  OBVIOUS
<1>2. q < p => b * q + b <= b * p
  BY <1>1
<1>3. b * p \in Int /\ b * q \in Int
  BY <1>1
<1> HIDE DEF p, q
<1>4. p <= q
  BY <1>1, <1>2, <1>3
<1> QED
  BY <1>4 DEF p, q

(* The parts of WindowsInv, of one node: its record r and its history row. *)
Adds(row) == \A s, t \in Seconds : s <= t => row[s] <= row[t]

Dated(r, clock) ==
  r.lastUpdated <= clock /\ (r.windowReset = 0 \/ r.windowReset \in Epoch .. clock)

Arrival(r, row) ==
  r.bytes # 0 =>
    /\ Epoch <= r.windowReset /\ r.windowReset <= r.lastUpdated
    /\ r.bytes <= row[r.lastUpdated] - row[r.windowReset - 1]

Excess(row, t) == (row[t + WindowSize - 1] - row[t - 1]) \div WindowSize > Limit

Justified(r, row, clock) == r.reported # 0 => \E t \in Epoch .. clock : Excess(row, t)

NodeInv(r, row, clock) ==
  Adds(row) /\ Dated(r, clock) /\ Arrival(r, row) /\ Justified(r, row, clock)

LEMMA InvOfNodes ==
  WindowsInv <=> now <= Horizon /\ \A n \in Nodes : NodeInv(node[n], received[n], now)
<1>1. ReceivedAdds <=> \A n \in Nodes : Adds(received[n])
  BY DEF ReceivedAdds, Adds
<1>2. WindowsDated <=> \A n \in Nodes : Dated(node[n], now)
  BY DEF WindowsDated, Dated
<1>3. BytesArrived <=> \A n \in Nodes : Arrival(node[n], received[n])
  BY DEF BytesArrived, Arrival
<1>4. RulesJustified <=> \A n \in Nodes : Justified(node[n], received[n], now)
  BY Zenon DEF RulesJustified, Justified, Reported, InWindow, Excess
<1> QED
  BY <1>1, <1>2, <1>3, <1>4 DEF WindowsInv, NodeInv

LEMMA InvOfNodesNext ==
  WindowsInv' <=> now' <= Horizon /\ \A n \in Nodes : NodeInv(node'[n], received'[n], now')
<1>1. ReceivedAdds' <=> \A n \in Nodes : Adds(received'[n])
  BY DEF ReceivedAdds, Adds
<1>2. WindowsDated' <=> \A n \in Nodes : Dated(node'[n], now')
  BY DEF WindowsDated, Dated
<1>3. BytesArrived' <=> \A n \in Nodes : Arrival(node'[n], received'[n])
  BY DEF BytesArrived, Arrival
<1>4. RulesJustified' <=> \A n \in Nodes : Justified(node'[n], received'[n], now')
  BY Zenon DEF RulesJustified, Justified, Reported, InWindow, Excess
<1> QED
  BY <1>1, <1>2, <1>3, <1>4 DEF WindowsInv, NodeInv

(* A clock between Epoch and Horizon, a window that starts by then. *)
LEMMA SecondsOfWindow ==
  ASSUME NEW t \in Nat, Epoch <= t, t <= Horizon
  PROVE  t \in Seconds /\ t - 1 \in Seconds /\ t + WindowSize - 1 \in Seconds
BY BwdRulesAssumption DEF Seconds

(* Time alone changes nothing. *)
LEMMA InvLater ==
  ASSUME NEW r \in StatNode, NEW row, NEW clock \in Nat, NEW later \in Nat,
         NodeInv(r, row, clock), clock <= later
  PROVE  NodeInv(r, row, later)
<1>1. Epoch \in Nat /\ Epoch .. clock \subseteq Epoch .. later
  BY BwdRulesAssumption
<1>2. Dated(r, later)
  BY <1>1 DEF NodeInv, Dated, StatNode
<1>3. Justified(r, row, later)
  BY <1>1 DEF NodeInv, Justified
<1> QED
  BY <1>2, <1>3 DEF NodeInv

(* More bytes at the end of the history only add to its windows. *)
LEMMA ExcessKept ==
  ASSUME TypeOK, now >= Epoch, now <= Horizon, NEW size \in Nat,
         NEW row \in [Seconds -> Nat], NEW more \in [Seconds -> Nat], Adds(row),
         \A t \in Seconds : more[t] = IF t < now THEN row[t] ELSE row[t] + size
  PROVE  /\ Adds(more)
         /\ \A t \in Epoch .. now : Excess(row, t) => Excess(more, t)
<1>1. now \in Nat /\ Seconds \subseteq Int
  BY BwdRulesAssumption DEF TypeOK, Seconds
<1>2. Adds(more)
  <2> SUFFICES ASSUME NEW s \in Seconds, NEW t \in Seconds, s <= t
               PROVE  more[s] <= more[t]
    BY DEF Adds
  <2>1. row[s] \in Nat /\ row[t] \in Nat /\ row[s] <= row[t] /\ s \in Int /\ t \in Int
    BY <1>1 DEF Adds
  <2>2. /\ more[s] = IF s < now THEN row[s] ELSE row[s] + size
        /\ more[t] = IF t < now THEN row[t] ELSE row[t] + size
    OBVIOUS
  <2> QED
    BY <1>1, <2>1, <2>2
<1>3. ASSUME NEW t \in Epoch .. now, Excess(row, t)
      PROVE  Excess(more, t)
  <2>1. /\ t \in Nat /\ Epoch <= t /\ t <= now /\ t <= Horizon
        /\ WindowSize \in Nat \ {0} /\ Limit \in Nat
    BY <1>1, BwdRulesAssumption
  <2> DEFINE first == t - 1
             last == t + WindowSize - 1
             a == row[last] - row[first]
             c == more[last] - more[first]
  <2>2. /\ first \in Seconds /\ last \in Seconds /\ first < now /\ first <= last
        /\ first \in Int /\ last \in Int
    BY <1>1, <2>1, SecondsOfWindow
  <2>3. /\ row[first] \in Nat /\ row[last] \in Nat /\ row[first] <= row[last]
        /\ more[first] \in Nat /\ more[last] \in Nat
        /\ more[first] = row[first] /\ more[last] >= row[last]
    <3> HIDE DEF first, last
    <3>1. /\ row[first] \in Nat /\ row[last] \in Nat /\ row[first] <= row[last]
          /\ more[first] \in Nat /\ more[last] \in Nat
      BY <2>2 DEF Adds
    <3>2. /\ more[first] = row[first]
          /\ more[last] = IF last < now THEN row[last] ELSE row[last] + size
      BY <2>2
    <3> QED
      BY <3>1, <3>2
  <2>4. a \in Nat /\ c \in Nat /\ a <= c
    BY <2>3
  <2>5. a \div WindowSize > Limit
    BY <1>3 DEF Excess
  <2> HIDE DEF a, c
  <2>6. a \div WindowSize \in Nat /\ c \div WindowSize \in Nat
    BY <2>1, <2>4
  <2>7. a \div WindowSize <= c \div WindowSize
    BY <2>1, <2>4, QuotientsInOrder
  <2>8. c \div WindowSize > Limit
    BY <2>1, <2>5, <2>6, <2>7
  <2> QED
    BY <2>8 DEF c, Excess
<1> QED
  BY <1>2, <1>3

(* update_stats: a window that goes on counts what arrived since its reset. *)
LEMMA UpdatedInv ==
  ASSUME TypeOK, now >= Epoch, now <= Horizon, NEW size \in Nat, NEW r \in StatNode,
         NEW row \in [Seconds -> Nat], NEW more \in [Seconds -> Nat],
         \A t \in Seconds : more[t] = IF t < now THEN row[t] ELSE row[t] + size,
         NodeInv(r, row, now)
  PROVE  NodeInv(Updated(r, size), more, now)
<1> DEFINE counted == Counted(r, size)
           reset == WindowReset(counted)
<1>1. /\ now \in Nat /\ Epoch \in Nat /\ Epoch >= WindowSize
      /\ WindowSize \in Nat /\ WindowSize > 0
  BY BwdRulesAssumption DEF TypeOK
<1>2. /\ counted \in StatNode
      /\ counted.lastUpdated = now /\ counted.windowReset = r.windowReset
      /\ counted.bytes = r.bytes + size /\ counted.reported = r.reported
  BY <1>1, CountedNode
<1>3. /\ reset.lastUpdated = now /\ reset.windowReset = now
      /\ reset.bytes = 0 /\ reset.reported = r.reported
  BY <1>1, <1>2, ResetNode
<1> HIDE DEF counted, reset
<1>4. Adds(more) /\ \A t \in Epoch .. now : Excess(row, t) => Excess(more, t)
  BY ExcessKept DEF NodeInv
<1>5. r.reported # 0 => \E t \in Epoch .. now : Excess(more, t)
  BY <1>4 DEF NodeInv, Justified
<1>6. CASE WindowOver(counted)
  <2>1. Updated(r, size) = reset
    BY <1>6 DEF Updated, counted, reset
  <2>2. Dated(reset, now) /\ Arrival(reset, more) /\ Justified(reset, more, now)
    BY <1>1, <1>3, <1>5 DEF Dated, Arrival, Justified
  <2> QED
    BY <1>4, <2>1, <2>2 DEF NodeInv
<1>7. CASE ~WindowOver(counted)
  <2> DEFINE w == r.windowReset
             u == r.lastUpdated
             b == r.bytes
  <2>1. Updated(r, size) = counted
    BY <1>7 DEF Updated, counted
  <2>2. w \in Nat /\ u \in Nat /\ b \in Nat
    BY DEF StatNode
  <2>3. Adds(row) /\ u <= now /\ (w = 0 \/ w \in Epoch .. now)
    BY DEF NodeInv, Dated
  <2>4. w \in Nat /\ Epoch <= w /\ w <= now /\ w <= Horizon
    <3>1. now < w + WindowSize
      BY <1>1, <1>2, <1>7, <2>2 DEF WindowOver
    <3> QED
      BY <1>1, <2>2, <2>3, <3>1, BwdRulesAssumption
  <2>5. /\ w - 1 \in Seconds /\ now \in Seconds /\ w - 1 < now /\ w - 1 <= now
    BY <1>1, <2>4, SecondsOfWindow
  <2>6. b # 0 => /\ w <= u /\ u \in Seconds /\ b <= row[u] - row[w - 1]
    <3>1. b # 0 => /\ Epoch <= w /\ w <= u /\ b <= row[u] - row[w - 1]
      BY DEF NodeInv, Arrival
    <3>2. b # 0 => Epoch <= u /\ u <= Horizon
      BY <1>1, <2>2, <2>3, <3>1, BwdRulesAssumption
    <3> QED
      BY <2>2, <3>1, <3>2, SecondsOfWindow
  <2> HIDE DEF w, u, b
  <2>7. row[now] \in Nat /\ row[w - 1] \in Nat /\ row[w - 1] <= row[now]
    BY <2>3, <2>5 DEF Adds
  <2>8. b # 0 => row[u] \in Nat /\ row[u] <= row[now]
    BY <2>3, <2>5, <2>6 DEF Adds
  <2>9. b <= row[now] - row[w - 1]
    BY <2>2, <2>6, <2>7, <2>8
  <2>10. more[w - 1] = row[w - 1] /\ more[now] = row[now] + size
    <3>1. ~(now < now)
      BY <1>1
    <3> QED
      BY <2>5, <3>1
  <2>11. b + size <= more[now] - more[w - 1]
    BY <2>2, <2>7, <2>9, <2>10
  <2>12. Arrival(counted, more)
    BY <1>2, <2>4, <2>11 DEF Arrival, w, b
  <2>13. Dated(counted, now) /\ Justified(counted, more, now)
    BY <1>1, <1>2, <1>5, <2>4 DEF Dated, Justified, w
  <2> QED
    BY <1>4, <2>1, <2>12, <2>13 DEF NodeInv
<1> QED
  BY <1>6, <1>7

(* A new node has nothing to justify. *)
LEMMA FreshInv ==
  ASSUME TypeOK, now >= Epoch, now <= Horizon, NEW n \in Nodes, NEW size \in Nat,
         NodeInv(node[n], received[n], now)
  PROVE  NodeInv(Fresh, Arrived(n, size)[n], now)
<1> DEFINE row == received[n]
           more == Arrived(n, size)[n]
<1>1. /\ row \in [Seconds -> Nat] /\ more \in [Seconds -> Nat]
      /\ \A t \in Seconds : more[t] = IF t < now THEN row[t] ELSE row[t] + size
  BY ArrivedRows DEF TypeOK
<1> HIDE DEF row, more
<1>2. Adds(row)
  BY DEF NodeInv, row
<1>3. Adds(more)
  BY <1>1, <1>2, ExcessKept
<1>4. Dated(Fresh, now) /\ Arrival(Fresh, more) /\ Justified(Fresh, more, now)
  BY DEF Dated, Arrival, Justified, Fresh, TypeOK
<1> QED
  BY <1>3, <1>4 DEF NodeInv, more

(* eval_node installs a rule for the window it reads. *)
LEMMA InstalledInv ==
  ASSUME TypeOK, now >= Epoch, now <= Horizon, NEW r \in StatNode, NEW i \in Nat,
         NEW row \in [Seconds -> Nat], NodeInv(r, row, now),
         ~WindowOver(r), OverLimit(r)
  PROVE  NodeInv(Installed(r, i), row, now)
<1> DEFINE w == r.windowReset
           u == r.lastUpdated
           b == r.bytes
           new == Installed(r, i)
<1>1. /\ now \in Nat /\ Epoch \in Nat /\ Epoch <= Horizon /\ Limit \in Nat
      /\ WindowSize \in Nat \ {0} /\ w \in Nat /\ u \in Nat /\ b \in Nat
  BY BwdRulesAssumption DEF TypeOK, StatNode
<1>2. new.lastUpdated = u /\ new.windowReset = w /\ new.bytes = b
  BY InstalledNode
<1> HIDE DEF new
<1>3. b # 0
  <2>1. 0 \div WindowSize = 0
    BY <1>1
  <2> QED
    BY <1>1, <2>1 DEF OverLimit
<1>4. /\ Epoch <= w /\ w <= u /\ u <= now /\ b <= row[u] - row[w - 1]
      /\ w \in Epoch .. now /\ Adds(row)
  BY <1>1, <1>3 DEF NodeInv, Arrival, Dated
<1>5. u < w + WindowSize
  BY <1>1 DEF WindowOver
<1>6. b \div WindowSize > Limit
  BY DEF OverLimit
<1> DEFINE last == w + WindowSize - 1
           a == row[last] - row[w - 1]
<1>7. /\ w - 1 \in Seconds /\ last \in Seconds /\ u \in Seconds /\ u <= last
  <2> HIDE DEF w, u, b
  <2>1. w <= Horizon /\ u <= Horizon /\ Epoch <= u
    BY <1>1, <1>4, BwdRulesAssumption
  <2>2. w - 1 \in Seconds /\ last \in Seconds /\ u \in Seconds
    BY <1>1, <1>4, <2>1, SecondsOfWindow
  <2>3. u <= last
    BY <1>1, <1>5
  <2> QED
    BY <2>2, <2>3
<1> HIDE DEF w, u, b
<1>8. row[w - 1] \in Nat /\ row[last] \in Nat /\ row[u] \in Nat /\ row[u] <= row[last]
  <2> HIDE DEF last
  <2> QED
    BY <1>4, <1>7 DEF Adds
<1>9. a \in Nat /\ b <= a
  <2> HIDE DEF last
  <2>1. a \in Int /\ b <= a
    BY <1>1, <1>4, <1>8
  <2> QED
    BY <1>1, <2>1
<1> HIDE DEF a
<1>10. a \div WindowSize > Limit
  <2>1. b \div WindowSize <= a \div WindowSize
    BY <1>1, <1>9, QuotientsInOrder
  <2>2. b \div WindowSize \in Nat /\ a \div WindowSize \in Nat
    BY <1>1, <1>9
  <2> QED
    BY <1>1, <1>6, <2>1, <2>2
<1>11. Excess(row, w)
  BY <1>10 DEF Excess, a
<1>12. Dated(new, now) /\ Arrival(new, row) /\ Justified(new, row, now)
  BY <1>2, <1>4, <1>11, <1>1 DEF Dated, Arrival, Justified
<1> QED
  BY <1>4, <1>12 DEF NodeInv, new

LEMMA InitWindowsInv == Init => WindowsInv
<1> SUFFICES ASSUME Init PROVE WindowsInv
  OBVIOUS
<1>1. now = Epoch /\ now \in Nat /\ now <= Horizon
  BY BwdRulesAssumption DEF Init
<1>2. ASSUME NEW n \in Nodes
      PROVE  NodeInv(node[n], received[n], now)
  <2>1. node[n] = Fresh /\ \A t \in Seconds : received[n][t] = 0
    BY DEF Init
  <2>2. Adds(received[n])
    BY <2>1 DEF Adds
  <2>3. Dated(Fresh, now) /\ Arrival(Fresh, received[n]) /\ Justified(Fresh, received[n], now)
    BY <1>1 DEF Dated, Arrival, Justified, Fresh
  <2> QED
    BY <2>1, <2>2, <2>3, Zenon DEF NodeInv
<1> QED
  BY <1>1, <1>2, InvOfNodes

LEMMA StepWindowsInv ==
  ASSUME Core, WindowsInv, [Next]_vars
  PROVE  WindowsInv'
<1>1. /\ TypeOK /\ now >= Epoch /\ now <= Horizon /\ now \in Nat
      /\ \A n \in Nodes : NodeInv(node[n], received[n], now)
      /\ \A n \in Nodes : node[n] \in StatNode /\ received[n] \in [Seconds -> Nat]
  BY InvOfNodes DEF Core, TypeOK
<1>2. CASE CountPacket
  <2>1. PICK n \in Known, size \in Sizes :
          /\ node' = [node EXCEPT ![n] = Updated(@, size)]
          /\ received' = Arrived(n, size)
    BY <1>2 DEF CountPacket
  <2>2. n \in Nodes /\ size \in Nat /\ now' = now
    BY <1>1, <1>2, <2>1, BwdRulesAssumption DEF CountPacket, TypeOK, Known
  <2>3. /\ node'[n] = Updated(node[n], size)
        /\ \A m \in Nodes \ {n} : node'[m] = node[m]
    BY <1>1, <2>1, <2>2 DEF TypeOK
  <2>4. /\ received'[n] \in [Seconds -> Nat]
        /\ \A t \in Seconds :
             received'[n][t] = IF t < now THEN received[n][t] ELSE received[n][t] + size
        /\ \A m \in Nodes \ {n} : received'[m] = received[m]
    BY <1>1, <2>1, <2>2, ArrivedRows
  <2>5. NodeInv(node'[n], received'[n], now)
    BY <1>1, <2>2, <2>3, <2>4, UpdatedInv
  <2>6. \A m \in Nodes : NodeInv(node'[m], received'[m], now)
    BY <1>1, <2>3, <2>4, <2>5
  <2> QED
    BY <1>1, <2>2, <2>6, InvOfNodesNext
<1>3. CASE AddDynamicNode
  <2>1. PICK n \in Dynamic \ Known, size \in Sizes :
          /\ node' = [node EXCEPT ![n] = Fresh]
          /\ received' = Arrived(n, size)
    BY <1>3 DEF AddDynamicNode
  <2>2. n \in Nodes /\ size \in Nat /\ now' = now
    BY <1>3, <2>1, BwdRulesAssumption DEF AddDynamicNode, Nodes
  <2>3. node'[n] = Fresh /\ \A m \in Nodes \ {n} : node'[m] = node[m]
    BY <1>1, <2>1, <2>2 DEF TypeOK
  <2>4. \A m \in Nodes \ {n} : received'[m] = received[m]
    BY <1>1, <2>1, <2>2, ArrivedRows
  <2>5. NodeInv(node'[n], received'[n], now)
    BY <1>1, <2>1, <2>2, <2>3, FreshInv
  <2>6. \A m \in Nodes : NodeInv(node'[m], received'[m], now)
    BY <1>1, <2>3, <2>4, <2>5
  <2> QED
    BY <1>1, <2>2, <2>6, InvOfNodesNext
<1>4. CASE BeginWalk
  BY <1>1, <1>4, InvOfNodesNext DEF BeginWalk
<1>5. CASE EvalNode
  <2> DEFINE n == Head(rest)
  <2>1. rest # <<>> /\ n \in Nodes /\ UNCHANGED <<now, list, received, packets>>
    BY <1>5, HeadIsNode DEF EvalNode
  <2> HIDE DEF n
  <2>2. CASE InstallRule(n)
    <3>1. /\ node' = [node EXCEPT ![n] = Installed(@, NewIdOf(n))]
          /\ OverLimit(node[n])
      BY <2>2 DEF InstallRule
    <3>2. ~WindowOver(node[n])
      BY <2>1 DEF Core, WindowsRunning
    <3>3. NewIdOf(n) \in Nat
      BY <2>1, <2>2, InstalledIdIsNat
    <3>4. /\ node'[n] = Installed(node[n], NewIdOf(n))
          /\ \A m \in Nodes \ {n} : node'[m] = node[m]
      BY <1>1, <2>1, <3>1 DEF TypeOK
    <3>5. NodeInv(node'[n], received[n], now)
      BY <1>1, <2>1, <3>1, <3>2, <3>3, <3>4, InstalledInv
    <3>6. \A m \in Nodes : NodeInv(node'[m], received[m], now)
      BY <1>1, <3>4, <3>5
    <3> QED
      BY <1>1, <2>1, <3>6, InvOfNodesNext
  <2>3. CASE RemoveRule(n)
    <3>1. node' = node
      BY <2>1, <2>3, StepRemove
    <3> QED
      BY <1>1, <2>1, <3>1, InvOfNodesNext
  <2> QED
    BY <1>5, <2>2, <2>3 DEF EvalNode, n
<1>6. CASE Tick
  <2>1. now' = now + 1 /\ now' \in Nat /\ now <= now' /\ now' <= Horizon
        /\ node' = node /\ received' = received
    BY <1>1, <1>6, BwdRulesAssumption DEF Tick
  <2>2. \A m \in Nodes : NodeInv(node[m], received[m], now')
    BY <1>1, <2>1, InvLater
  <2> QED
    BY <2>1, <2>2, InvOfNodesNext
<1>7. CASE UNCHANGED vars
  BY <1>1, <1>7, InvOfNodesNext DEF vars
<1> QED
  BY <1>2, <1>3, <1>4, <1>5, <1>6, <1>7 DEF Next

(* A rule stands for traffic that was there: however the packets of a      *)
(* node, the resets of its window and the walk interleave, some window of  *)
(* it brought more than the limit.                                         *)
THEOREM RulesAreJustified == Spec => []RulesJustified
<1>1. Init => Core /\ WindowsInv
  BY InitCore, InitWindowsInv
<1>2. Core /\ WindowsInv /\ [Next]_vars => Core' /\ WindowsInv'
  BY StepCore, StepWindowsInv
<1>3. WindowsInv => RulesJustified
  BY DEF WindowsInv
<1> QED
  BY <1>1, <1>2, <1>3, PTL DEF Spec
================================================================================
