--------------------------- MODULE ActionTableProofs ---------------------------
(***************************************************************************)
(* Proofs about ActionTable: type correctness for every instance, and, for *)
(* a table with room to spare and scripts no slower than the stop delay,   *)
(* the soundness of the table, that it matches the scripts in force, that  *)
(* action directories are never reused, and that it implements             *)
(* ActionLifecycle.                                                        *)
(***************************************************************************)
EXTENDS ActionTable, FiniteSetTheorems, WellFoundedInduction, TLAPS

(* Every non-empty set of naturals has a least element. *)
LEMMA LeastNatural ==
  ASSUME NEW S, S \subseteq Nat, S # {}
  PROVE  \E i \in S : \A j \in S : i <= j
<1> DEFINE R == {ss \in Nat \X Nat : ss[1] < ss[2]}
<1>1. IsWellFoundedOn(R, Nat)
  BY NatLessThanWellFounded, Zenon DEF OpToRel
<1>2. PICK i \in S : \A j \in S : <<j, i>> \notin R
  BY <1>1, WFMin
<1>3. \A j \in S : <<j, i>> \in Nat \X Nat
  OBVIOUS
<1>4. \A j \in S : ~(j < i)
  BY <1>2, <1>3
<1> QED
  BY <1>2, <1>4

(* First picks the least element: the loops of nfd_act_upsert stop at the  *)
(* first slot they are looking for.                                        *)
LEMMA FirstIsLeast ==
  ASSUME NEW S, S \subseteq Nat, S # {}
  PROVE  First(S) \in S /\ \A j \in S : First(S) <= j
BY LeastNatural DEF First

LEMMA SlotsAreNaturals == Slots \subseteq Nat
BY ActionTableAssumption DEF Slots

(* The search for an empty slot ends on an empty slot or past the table. *)
LEMMA FreeSlotIsEmpty ==
  /\ FreeSlot \in 0 .. MaxActions
  /\ FreeSlot \in Slots => actions[FreeSlot] = NULL
  /\ \A i \in Slots : actions[i] = NULL => FreeSlot <= i
<1> DEFINE empty == {i \in Slots : actions[i] = NULL}
<1>1. CASE empty = {}
  BY <1>1, ActionTableAssumption DEF FreeSlot, Slots
<1>2. CASE empty # {}
  <2>1. First(empty) \in empty /\ \A j \in empty : First(empty) <= j
    BY <1>2, FirstIsLeast, SlotsAreNaturals
  <2>2. FreeSlot = First(empty)
    BY <1>2 DEF FreeSlot
  <2> QED
    BY <2>1, <2>2, ActionTableAssumption DEF Slots
<1> QED
  BY <1>1, <1>2

LEMMA FreeSlotIsLast == FreeSlot = MaxActions - 1 => FreeSlot \in Slots
BY ActionTableAssumption DEF Slots

LEMMA LookupIsHeld ==
  ASSUME TypeOK, NEW n, LookupSlots(n) # {}
  PROVE  /\ First(LookupSlots(n)) \in Slots
         /\ actions[First(LookupSlots(n))] \in Addr
         /\ heap[actions[First(LookupSlots(n))]].name = n
<1>1. LookupSlots(n) \subseteq Nat
  BY SlotsAreNaturals DEF LookupSlots
<1>2. First(LookupSlots(n)) \in LookupSlots(n)
  BY <1>1, FirstIsLeast
<1> QED
  BY <1>2 DEF LookupSlots, TypeOK

--------------------------------------------------------------------------------
(* Type correctness. *)

LEMMA BlockUpdates ==
  ASSUME NEW b \in Block, NEW t \in Nat, NEW i \in Slots
  PROVE  /\ [b EXCEPT !.updated = t] \in Block
         /\ [b EXCEPT !.live = FALSE] \in Block
         /\ [b EXCEPT !.id = i] \in Block
         /\ [b EXCEPT !.name = NoName, !.start = 0, !.updated = t] \in Block
BY DEF Block

LEMMA ZeroIsSlot == 0 \in Slots
BY ActionTableAssumption DEF Slots

LEMMA ZeroedIsBlock == Zeroed \in Block
BY ZeroIsSlot DEF Zeroed, Block

LEMMA InitTypeOK == Init => TypeOK
<1> SUFFICES ASSUME Init PROVE TypeOK
  OBVIOUS
<1>1. heap \in [Addr -> Block]
  BY ZeroedIsBlock, BlockUpdates, ZeroIsSlot DEF Init
<1>2. now \in Nat /\ now >= Epoch /\ lastSwitched \in Epoch .. now
  BY ActionTableAssumption DEF Init
<1>3. cursor \in 0 .. MaxActions
  BY ActionTableAssumption DEF Init
<1> QED
  BY <1>1, <1>2, <1>3 DEF Init, TypeOK

(* A pass begins no earlier than the last one ended. *)
LEMMA NextWindowLater ==
  ASSUME TypeOK, NEW lag \in 0 .. MaxLag
  PROVE  NextWindow + lag \in Nat /\ NextWindow + lag >= now
BY ActionTableAssumption DEF NextWindow, TypeOK

LEMMA ScriptTimeIsNat ==
  ASSUME TypeOK, NEW d \in ScriptTime
  PROVE  d \in Nat /\ now + d \in Nat /\ now + d >= now /\ now + d <= lastSwitched + PassBudget
<1>1. now \in Nat /\ lastSwitched \in Nat /\ PassBudget \in Nat
  BY ActionTableAssumption DEF TypeOK
<1> QED
  BY <1>1 DEF ScriptTime

LEMMA InstallTypeOK ==
  ASSUME TypeOK, NEW n \in Names, NEW a \in Addr, Install(n, a),
         FreeSlot # MaxActions - 1,
         pc' = pc, lastSwitched' = lastSwitched, cursor' = cursor, todo' \subseteq Names
  PROVE  TypeOK'
<1> DEFINE id == IF FreeSlot = MaxActions THEN 0 ELSE FreeSlot
           dir == ActionDir(now, id)
<1>0. PICK prepared \in BOOLEAN, d \in ScriptTime :
        /\ now' = now + d
        /\ actions' = IF FreeSlot \in Slots
                        THEN [actions EXCEPT ![FreeSlot] = a] ELSE actions
        /\ heap' = [heap EXCEPT ![a] = [live |-> TRUE, name |-> n, start |-> now,
                                        id |-> id, updated |-> now']]
        /\ made' = IF prepared THEN made \cup {dir} ELSE made
        /\ running' = running \cup {dir}
        /\ used' = used \cup {dir}
        /\ kept' = kept \cup {n}
  BY DEF Install
<1>1. id \in Slots
  BY FreeSlotIsEmpty, ActionTableAssumption DEF Slots
<1>2. now \in Nat /\ now' \in Nat /\ now <= now' /\ now >= Epoch /\ Epoch \in Nat
  BY <1>0, ScriptTimeIsNat, ActionTableAssumption DEF TypeOK
<1>3. dir \in (Epoch .. now') \X Slots
  BY <1>1, <1>2 DEF ActionDir
<1>4. (Epoch .. now) \subseteq (Epoch .. now')
  BY <1>2
<1>5. used' \subseteq (Epoch .. now') \X Slots /\ made' \subseteq (Epoch .. now') \X Slots
  BY <1>0, <1>3, <1>4 DEF TypeOK
<1>6. actions' \in [Slots -> Addr \cup {NULL}]
  BY <1>0 DEF TypeOK
<1>7. [live |-> TRUE, name |-> n, start |-> now, id |-> id, updated |-> now'] \in Block
  BY <1>1, <1>2 DEF Block
<1>8. heap' \in [Addr -> Block]
  BY <1>0, <1>7 DEF TypeOK
<1>9. lastSwitched' \in Epoch .. now'
  BY <1>2 DEF TypeOK
<1> QED
  BY <1>0, <1>2, <1>5, <1>6, <1>8, <1>9 DEF TypeOK

LEMMA StepTypeOK ==
  ASSUME TypeOK, [Next]_vars
  PROVE  TypeOK'
<1> USE ActionTableAssumption
<1>1. CASE BeginPass
  <2>1. PICK lag \in 0 .. MaxLag : now' = NextWindow + lag /\ lastSwitched' = now'
    BY <1>1 DEF BeginPass
  <2>2. now' \in Nat /\ now' >= now
    BY <2>1, NextWindowLater
  <2>3. now \in Nat /\ now >= Epoch /\ Epoch \in Nat
    BY DEF TypeOK
  <2>4. now' >= Epoch /\ lastSwitched' \in Epoch .. now' /\ (Epoch .. now) \subseteq (Epoch .. now')
    BY <2>1, <2>2, <2>3
  <2> QED
    BY <1>1, <2>2, <2>4 DEF BeginPass, TypeOK
<1>2. ASSUME NEW n \in Names, Skip(n)
      PROVE  TypeOK'
  BY <1>2 DEF Skip, TypeOK
<1>3. ASSUME NEW n \in Names, Refresh(n)
      PROVE  TypeOK'
  <2>1. heap' \in [Addr -> Block]
    BY <1>3, BlockUpdates, ZeroIsSlot DEF Refresh, Touched, TypeOK
  <2> QED
    BY <1>3, <2>1 DEF Refresh, TypeOK
<1>4. ASSUME NEW n \in Names, StartAction(n)
      PROVE  TypeOK'
  <2>1. PICK a \in Addr :
          IF FreeSlot = MaxActions - 1 THEN ReportNoSlot(a) ELSE Install(n, a)
    BY <1>4 DEF StartAction
  <2>2. /\ todo' \subseteq Names
        /\ pc' = pc /\ lastSwitched' = lastSwitched /\ cursor' = cursor
    BY <1>4 DEF StartAction, TypeOK
  <2>3. CASE FreeSlot = MaxActions - 1
    <3>1. ReportNoSlot(a)
      BY <2>1, <2>3
    <3>2. [[Zeroed EXCEPT !.id = FreeSlot] EXCEPT !.live = FALSE] \in Block
      BY <2>3, ZeroedIsBlock, BlockUpdates, FreeSlotIsLast
    <3>3. heap' \in [Addr -> Block] /\ actions' \in [Slots -> Addr \cup {NULL}]
      BY <3>1, <3>2 DEF ReportNoSlot, Freed, TypeOK
    <3> QED
      BY <2>2, <3>1, <3>3 DEF ReportNoSlot, TypeOK
  <2>4. CASE FreeSlot # MaxActions - 1
    BY <2>1, <2>2, <2>4, InstallTypeOK
  <2> QED
    BY <2>3, <2>4
<1>5. CASE BeginSweep
  BY <1>5 DEF BeginSweep, TypeOK
<1>6. CASE KeepSlot
  BY <1>6 DEF KeepSlot, TypeOK
<1>7. CASE StopSlot
  <2>1. PICK d \in ScriptTime : now' = now + d
    BY <1>7 DEF StopSlot
  <2>2. now \in Nat /\ now' \in Nat /\ now <= now' /\ now >= Epoch /\ Epoch \in Nat
    BY <2>1, ScriptTimeIsNat DEF TypeOK
  <2>3. (Epoch .. now) \subseteq (Epoch .. now') /\ lastSwitched \in Epoch .. now'
    BY <2>2 DEF TypeOK
  <2>4. heap' \in [Addr -> Block]
    BY <1>7, BlockUpdates, ZeroIsSlot DEF StopSlot, Freed, TypeOK
  <2>5. actions' \in [Slots -> Addr \cup {NULL}]
    BY <1>7 DEF StopSlot, Cleared, TypeOK
  <2>6. pc' \in {"wait", "eval", "expire", "aborted"}
    BY <1>7 DEF StopSlot, TypeOK
  <2> QED
    BY <1>7, <2>2, <2>3, <2>4, <2>5, <2>6 DEF StopSlot, TypeOK
<1>8. CASE EndPass
  BY <1>8 DEF EndPass, TypeOK
<1>9. ASSUME NEW a \in Addr, Overwrite(a)
      PROVE  TypeOK'
  <2>1. heap' \in [Addr -> Block]
    <3>1. PICK t \in {0, now} :
            heap' = [heap EXCEPT ![a] = [@ EXCEPT !.name = NoName, !.start = 0,
                                                  !.updated = t]]
      BY <1>9 DEF Overwrite
    <3>2. t \in Nat
      BY DEF TypeOK
    <3> QED
      BY <3>1, <3>2, BlockUpdates, ZeroIsSlot DEF TypeOK
  <2> QED
    BY <1>9, <2>1 DEF Overwrite, TypeOK
<1>10. CASE UNCHANGED vars
  BY <1>10 DEF vars, TypeOK
<1> QED
  BY <1>1, <1>2, <1>3, <1>4, <1>5, <1>6, <1>7, <1>8, <1>9, <1>10 DEF Next, AtHorizon

(* Type correctness, in every instance and at every step of a pass: ids,   *)
(* slots, timestamps and the directories handed to the scripts stay in     *)
(* their ranges, also when the table is full or corrupt.                   *)
THEOREM TypeCorrect == Spec => []TypeOK
<1>1. Init => TypeOK
  BY InitTypeOK
<1>2. TypeOK /\ [Next]_vars => TypeOK'
  BY StepTypeOK
<1> QED
  BY <1>1, <1>2, PTL DEF Spec

--------------------------------------------------------------------------------
(* Safety.  The proofs need Room: fewer profiles than slots, so that the   *)
(* last slot is never tried and the table is never full.  What goes wrong  *)
(* without it is shown by the violation runs.                              *)
Room == Cardinality(Names) < MaxActions

(* With room, nfd_act_upsert finds an empty slot before the last one, for  *)
(* a name the table does not hold: distinct entries have distinct names.   *)
LEMMA RoomForOneMore ==
  ASSUME Room, TableInv, NEW n \in Names, LookupSlots(n) = {}
  PROVE  /\ FreeSlot \in Slots /\ FreeSlot # MaxActions - 1 /\ FreeSlot # MaxActions
         /\ actions[FreeSlot] = NULL
<1> USE ActionTableAssumption
<1> DEFINE S == 0 .. MaxActions - 2
           T == Names \ {n}
           f == [i \in S |-> heap[actions[i]].name]
<1>1. FreeSlot \in 0 .. MaxActions /\ \A i \in Slots : actions[i] = NULL => FreeSlot <= i
  BY FreeSlotIsEmpty
<1>2. FreeSlot < MaxActions - 1
  <2> SUFFICES ASSUME FreeSlot >= MaxActions - 1
               PROVE  FALSE
    BY <1>1
  <2>1. \A i \in S : i \in Slots /\ ~(FreeSlot <= i)
    BY <1>1 DEF Slots
  <2>2. \A i \in S : i \in Held
    BY <1>1, <2>1 DEF Held
  <2>3. \A i \in S : heap[actions[i]].name \in Names
    BY <2>2 DEF TableInv, EntriesDated
  <2>4. \A i \in S : heap[actions[i]].name # n
    BY <2>1, <2>2 DEF LookupSlots, Held
  <2>5. f \in [S -> T]
    BY <2>3, <2>4
  <2>6. IsFiniteSet(S) /\ Cardinality(S) = MaxActions - 1
    BY FS_Interval
  <2>7. IsFiniteSet(T) /\ Cardinality(T) = Cardinality(Names) - 1
    BY FS_RemoveElement
  <2>8. Cardinality(Names) \in Nat
    BY FS_CardinalityType
  <2>9. Cardinality(T) < Cardinality(S)
    BY <2>6, <2>7, <2>8 DEF Room
  <2>10. PICK x \in S, y \in S : x # y /\ f[x] = f[y]
    <3> HIDE DEF S, T, f
    <3> QED
      BY <2>5, <2>6, <2>7, <2>9, FS_PigeonHole
  <2> QED
    BY <2>2, <2>10 DEF TableInv, TableSound
<1> QED
  BY <1>1, <1>2, FreeSlotIsEmpty DEF Slots

(* What the updates of a block leave alone, and what they change. *)
LEMMA BlockFields ==
  ASSUME NEW b \in Block
  PROVE  /\ Freed(b).live = FALSE
         /\ Touched(b).live = b.live /\ Touched(b).name = b.name
         /\ Touched(b).start = b.start /\ Touched(b).id = b.id
         /\ Touched(b).updated = now
BY DEF Block, Freed, Touched

(* Used when a step moves no entry: the table stays sound if every entry   *)
(* keeps its identity and no block comes to life.                          *)
LEMMA IdentityKept ==
  ASSUME TableInv, actions' = actions, running' = running,
         \A i \in Held : /\ heap'[actions[i]].live = heap[actions[i]].live
                         /\ heap'[actions[i]].name = heap[actions[i]].name
                         /\ heap'[actions[i]].start = heap[actions[i]].start
                         /\ heap'[actions[i]].id = heap[actions[i]].id,
         \A b \in Addr : heap'[b].live => heap[b].live
  PROVE  Held' = Held /\ TableSound' /\ ScriptsMatched' /\ NoLeak'
<1>1. Held' = Held
  BY DEF Held
<1>2. TableSound'
  BY <1>1 DEF TableInv, TableSound
<1>3. ScriptsMatched'
  <2>1. \A i \in Held : ActionDir(heap[actions[i]].start, heap[actions[i]].id)
                        = ActionDir(heap'[actions'[i]].start, heap'[actions'[i]].id)
    BY DEF ActionDir
  <2> QED
    BY <1>1, <2>1 DEF TableInv, ScriptsMatched
<1>4. NoLeak'
  BY <1>1 DEF TableInv, NoLeak
<1> QED
  BY <1>1, <1>2, <1>3, <1>4

LEMMA RefreshInv ==
  ASSUME TableInv, TypeOK', NEW n \in Names, Refresh(n)
  PROVE  TableInv'
<1> DEFINE a == actions[First(LookupSlots(n))]
<1>1. a \in Addr /\ heap' = [heap EXCEPT ![a] = Touched(heap[a])]
  BY LookupIsHeld DEF Refresh, TableInv
<1>2. \A b \in Addr : heap[b] \in Block /\ heap'[b] \in Block
  BY DEF TableInv, TypeOK
<1>3. \A b \in Addr : /\ heap'[b].live = heap[b].live /\ heap'[b].name = heap[b].name
                      /\ heap'[b].start = heap[b].start /\ heap'[b].id = heap[b].id
                      /\ heap'[b].updated \in {heap[b].updated, now}
  <2>1. Touched(heap[a]).live = heap[a].live /\ Touched(heap[a]).name = heap[a].name
        /\ Touched(heap[a]).start = heap[a].start /\ Touched(heap[a]).id = heap[a].id
        /\ Touched(heap[a]).updated = now
    BY <1>1, <1>2, BlockFields
  <2>2. heap \in [Addr -> Block]
    BY DEF TableInv, TypeOK
  <2> HIDE DEF a
  <2>3. heap'[a] = Touched(heap[a]) /\ \A b \in Addr \ {a} : heap'[b] = heap[b]
    BY <1>1, <2>2
  <2> QED
    BY <2>1, <2>3
<1>4. \A i \in Held : actions[i] \in Addr
  BY DEF Held, TableInv, TypeOK
<1>5. actions' = actions /\ running' = running /\ used' = used /\ now' = now /\ pc' = pc
      /\ pc = "eval" /\ lastSwitched' = lastSwitched
  BY DEF Refresh
<1>6. Held' = Held /\ TableSound' /\ ScriptsMatched' /\ NoLeak'
  BY <1>3, <1>4, <1>5, IdentityKept
<1>7. EntriesDated'
  <2>1. \A b \in Addr : heap[b].start \in Nat /\ heap[b].updated \in Nat /\ now \in Nat
    BY <1>2 DEF Block, TableInv, TypeOK
  <2>2. EntriesDated
    BY DEF TableInv
  <2>3. \A i \in Held : heap[actions[i]].start <= now
    BY <1>4, <2>1, <2>2 DEF EntriesDated
  <2> QED
    BY <1>3, <1>4, <1>5, <1>6, <2>1, <2>2, <2>3 DEF EntriesDated
<1>8. NowDirsRunning' /\ SweptSoFar' /\ now' <= lastSwitched' + PassBudget /\ pc' # "aborted"
  BY <1>5 DEF TableInv, NowDirsRunning, SweptSoFar
<1> QED
  BY <1>6, <1>7, <1>8 DEF TableInv

LEMMA OverwriteInv ==
  ASSUME TableInv, TypeOK', NEW a \in Addr, Overwrite(a)
  PROVE  TableInv'
<1>1. \A i \in Held : actions[i] \in Addr /\ actions[i] # a
  BY DEF Held, TableInv, TypeOK, TableSound, Overwrite
<1>2. PICK t \in {0, now} :
        heap' = [heap EXCEPT ![a] = [@ EXCEPT !.name = NoName, !.start = 0,
                                              !.updated = t]]
  BY DEF Overwrite
<1>3. heap[a] \in Block /\ heap \in [Addr -> Block]
  BY DEF TableInv, TypeOK
<1>4. [heap[a] EXCEPT !.name = NoName, !.start = 0, !.updated = t].live = heap[a].live
  BY <1>3 DEF Block
<1>5. \A b \in Addr : /\ b # a => heap'[b] = heap[b]
                      /\ heap'[b].live = heap[b].live
  BY <1>2, <1>3, <1>4
<1>6. actions' = actions /\ running' = running /\ used' = used /\ now' = now /\ pc' = pc
      /\ lastSwitched' = lastSwitched /\ cursor' = cursor
  BY DEF Overwrite
<1>7. Held' = Held /\ TableSound' /\ ScriptsMatched' /\ NoLeak'
  BY <1>1, <1>5, <1>6, IdentityKept
<1>8. \A i \in Held : heap'[actions'[i]] = heap[actions[i]]
  BY <1>1, <1>5, <1>6
<1>9. EntriesDated' /\ SweptSoFar'
  BY <1>6, <1>7, <1>8 DEF TableInv, EntriesDated, SweptSoFar
<1> QED
  BY <1>6, <1>7, <1>9 DEF TableInv, NowDirsRunning

(* What a start does with room in the table. *)
LEMMA StartEffect ==
  ASSUME Room, TableInv, NEW n \in Names, StartAction(n)
  PROVE  \E a \in Addr, d \in ScriptTime :
           /\ ~heap[a].live
           /\ FreeSlot \in Slots /\ actions[FreeSlot] = NULL
           /\ now' = now + d
           /\ actions' = [actions EXCEPT ![FreeSlot] = a]
           /\ heap' = [heap EXCEPT ![a] = [live |-> TRUE, name |-> n, start |-> now,
                                           id |-> FreeSlot, updated |-> now']]
           /\ running' = running \cup {ActionDir(now, FreeSlot)}
           /\ used' = used \cup {ActionDir(now, FreeSlot)}
           /\ kept' = kept \cup {n}
<1>1. LookupSlots(n) = {}
  BY DEF StartAction
<1>2. /\ FreeSlot \in Slots /\ FreeSlot # MaxActions - 1 /\ FreeSlot # MaxActions
      /\ actions[FreeSlot] = NULL
  BY <1>1, RoomForOneMore
<1>3. PICK a \in Addr : ~heap[a].live /\ Install(n, a)
  BY <1>2 DEF StartAction
<1> QED
  BY <1>2, <1>3 DEF Install

LEMMA StartInv ==
  ASSUME Room, TableInv, TypeOK', NEW n \in Names, StartAction(n)
  PROVE  TableInv'
<1> DEFINE k == FreeSlot
<1>1. PICK a \in Addr, d \in ScriptTime :
           /\ ~heap[a].live
           /\ k \in Slots /\ actions[k] = NULL
           /\ now' = now + d
           /\ actions' = [actions EXCEPT ![k] = a]
           /\ heap' = [heap EXCEPT ![a] = [live |-> TRUE, name |-> n, start |-> now,
                                           id |-> k, updated |-> now']]
           /\ running' = running \cup {ActionDir(now, k)}
           /\ used' = used \cup {ActionDir(now, k)}
           /\ kept' = kept \cup {n}
  BY StartEffect
<1> HIDE DEF k
<1>2. /\ actions \in [Slots -> Addr \cup {NULL}] /\ heap \in [Addr -> Block]
      /\ NULL \notin Addr /\ now \in Nat /\ now' \in Nat /\ now <= now'
  BY <1>1, ScriptTimeIsNat, ActionTableAssumption DEF TableInv, TypeOK
<1>3. actions'[k] = a /\ \A i \in Slots \ {k} : actions'[i] = actions[i]
  BY <1>1, <1>2
<1>4. /\ heap'[a].live /\ heap'[a].name = n /\ heap'[a].start = now
      /\ heap'[a].id = k /\ heap'[a].updated = now'
      /\ \A b \in Addr \ {a} : heap'[b] = heap[b]
  BY <1>1, <1>2
<1>5. Held' = Held \cup {k} /\ k \notin Held
  BY <1>1, <1>2, <1>3 DEF Held
<1>6. \A i \in Held : /\ i \in Slots /\ i # k /\ actions'[i] = actions[i]
                      /\ actions[i] \in Addr /\ heap'[actions'[i]] = heap[actions[i]]
  BY <1>1, <1>2, <1>3, <1>4, <1>5 DEF Held, TableInv, TableSound
<1>7. \A i \in Held : heap[actions[i]].name # n
  BY DEF StartAction, LookupSlots, Held
<1>8. TableSound'
  BY <1>3, <1>4, <1>5, <1>6, <1>7 DEF TableInv, TableSound
<1>9. ScriptsMatched'
  <2> DEFINE D(i) == ActionDir(heap[actions[i]].start, heap[actions[i]].id)
             E(i) == ActionDir(heap'[actions'[i]].start, heap'[actions'[i]].id)
  <2>1. \A i \in Held : D(i) = E(i)
    BY <1>6
  <2>2. E(k) = ActionDir(now, k)
    BY <1>3, <1>4
  <2>3. running = {D(i) : i \in Held}
    BY DEF TableInv, ScriptsMatched
  <2> HIDE DEF D, E
  <2>4. running' = {E(i) : i \in Held'}
    BY <1>1, <1>5, <2>1, <2>2, <2>3
  <2> QED
    BY <2>4 DEF ScriptsMatched, E
<1>10. NoLeak'
  BY <1>3, <1>4, <1>5, <1>6 DEF TableInv, NoLeak
<1>11. EntriesDated'
  <2>1. \A i \in Held : heap[actions[i]].updated \in Nat /\ heap[actions[i]].updated <= now
    BY <1>2, <1>6 DEF TableInv, EntriesDated, Block
  <2>2. \A i \in Held : heap[actions[i]].updated <= now'
    BY <1>2, <2>1
  <2> QED
    BY <1>2, <1>3, <1>4, <1>5, <1>6, <2>2 DEF TableInv, EntriesDated
<1>12. NowDirsRunning'
  <2>1. \A e \in used : e[1] \in Nat /\ e[1] <= now
    BY <1>2, ActionTableAssumption DEF TableInv, TypeOK
  <2>2. \A e \in used : e[1] = now' => e[1] = now
    BY <1>2, <2>1
  <2> QED
    BY <1>1, <2>2 DEF TableInv, NowDirsRunning
<1>13. now' <= lastSwitched' + PassBudget /\ pc' = "eval"
  BY <1>1, ScriptTimeIsNat DEF StartAction, TableInv
<1>14. SweptSoFar' /\ pc' # "aborted"
  BY <1>13 DEF SweptSoFar
<1> QED
  BY <1>8, <1>9, <1>10, <1>11, <1>12, <1>13, <1>14 DEF TableInv

(* What a stop does: the block it frees was live. *)
LEMMA StopEffect ==
  ASSUME TableInv, StopSlot
  PROVE  /\ cursor \in Held /\ actions[cursor] \in Addr
         /\ heap[actions[cursor]].live /\ heap[actions[cursor]].id = cursor
         /\ heap[actions[cursor]].updated + StopDelay < now
         /\ actions' = [actions EXCEPT ![cursor] = NULL]
         /\ heap' = [heap EXCEPT ![actions[cursor]] = Freed(heap[actions[cursor]])]
         /\ running' = running \ {ActionDir(heap[actions[cursor]].start, cursor)}
         /\ pc' = "expire"
<1>1. cursor \in Slots /\ actions[cursor] # NULL /\ Expired(heap[actions[cursor]])
  BY ActionTableAssumption DEF StopSlot, SlotExpired, TableInv, TypeOK, Slots
<1>2. cursor \in Held /\ actions[cursor] \in Addr
  BY <1>1 DEF Held, TableInv, TypeOK
<1>3. heap[actions[cursor]].live /\ heap[actions[cursor]].id = cursor
  BY <1>2 DEF TableInv, TableSound
<1> QED
  BY <1>1, <1>2, <1>3 DEF StopSlot, Expired, Cleared

LEMMA StopInv ==
  ASSUME TableInv, TypeOK', StopSlot
  PROVE  TableInv'
<1> DEFINE k == cursor
           a == actions[cursor]
<1>1. /\ k \in Held /\ a \in Addr
      /\ heap[a].live /\ heap[a].id = k /\ heap[a].updated + StopDelay < now
      /\ actions' = [actions EXCEPT ![k] = NULL]
      /\ heap' = [heap EXCEPT ![a] = Freed(heap[a])]
      /\ running' = running \ {ActionDir(heap[a].start, k)}
      /\ pc' = "expire"
  BY StopEffect
<1>2. /\ actions \in [Slots -> Addr \cup {NULL}] /\ heap \in [Addr -> Block]
      /\ cursor \in 0 .. MaxActions /\ now \in Nat
  BY DEF TableInv, TypeOK
<1>3. PICK d \in ScriptTime : now' = now + d
  BY DEF StopSlot
<1>4. now' \in Nat /\ now <= now' /\ now' <= lastSwitched' + PassBudget
  BY <1>3, ScriptTimeIsNat DEF StopSlot, TableInv
<1>5. cursor' = k + 1 /\ used' = used /\ lastSwitched' = lastSwitched /\ pc = "expire"
  BY DEF StopSlot
<1>6. k \in Slots /\ actions'[k] = NULL /\ \A i \in Slots \ {k} : actions'[i] = actions[i]
  BY <1>1, <1>2 DEF Held
<1>7. Held' = Held \ {k}
  BY <1>6 DEF Held
<1>8. \A b \in Addr \ {a} : heap'[b] = heap[b]
  BY <1>1, <1>2
<1>9. heap'[a].live = FALSE
  BY <1>1, <1>2, BlockFields
<1>10. \A i \in Held : i \in Slots /\ actions[i] \in Addr /\ heap[actions[i]].id = i
  BY <1>2 DEF Held, TableInv, TableSound
<1>11. \A i \in Held' : /\ i \in Held /\ i # k /\ actions'[i] = actions[i] /\ actions[i] # a
                        /\ heap'[actions'[i]] = heap[actions[i]]
  BY <1>1, <1>6, <1>7, <1>8, <1>10
<1> HIDE DEF k, a
<1>12. TableSound'
  BY <1>11 DEF TableInv, TableSound
<1>13. ScriptsMatched'
  <2> DEFINE D(i) == ActionDir(heap[actions[i]].start, heap[actions[i]].id)
             E(i) == ActionDir(heap'[actions'[i]].start, heap'[actions'[i]].id)
  <2>1. \A i \in Held' : E(i) = D(i)
    BY <1>11
  <2>2. D(k) = ActionDir(heap[a].start, k)
    BY <1>1 DEF a, k
  <2>3. \A i \in Held' : D(i) # D(k)
    BY <1>1, <1>10, <1>11 DEF ActionDir
  <2>4. running = {D(i) : i \in Held}
    BY DEF TableInv, ScriptsMatched
  <2> HIDE DEF D, E
  <2>5. running' = {E(i) : i \in Held'}
    BY <1>1, <1>7, <2>1, <2>2, <2>3, <2>4
  <2> QED
    BY <2>5 DEF ScriptsMatched, E
<1>14. NoLeak'
  <2> SUFFICES ASSUME NEW b \in Addr, heap'[b].live
               PROVE  \E i \in Held' : actions'[i] = b
    BY DEF NoLeak
  <2>1. b # a /\ heap[b].live
    BY <1>8, <1>9
  <2>2. PICK i \in Held : actions[i] = b
    BY <2>1 DEF TableInv, NoLeak
  <2>3. i # k
    BY <2>1, <2>2 DEF k, a
  <2> QED
    BY <1>7, <1>11, <2>2, <2>3
<1>15. EntriesDated'
  <2>1. \A i \in Held : heap[actions[i]].updated \in Nat /\ heap[actions[i]].updated <= now
    BY <1>2, <1>10 DEF TableInv, EntriesDated, Block
  <2>2. \A i \in Held : heap[actions[i]].updated <= now'
    BY <1>2, <1>4, <2>1
  <2> QED
    BY <1>11, <2>2 DEF TableInv, EntriesDated
<1>16. NowDirsRunning'
  <2> SUFFICES ASSUME NEW e \in used, e[1] = now'
               PROVE  e \in running'
    BY <1>5 DEF NowDirsRunning
  <2>1. e[1] \in Nat /\ e[1] <= now
    BY <1>2, ActionTableAssumption DEF TableInv, TypeOK
  <2>2. e \in running /\ e[1] = now
    BY <1>2, <1>4, <2>1 DEF TableInv, NowDirsRunning
  <2>3. heap[a].start \in Nat /\ heap[a].updated \in Nat /\ StopDelay \in Nat
    BY <1>1, <1>2, ActionTableAssumption DEF Block
  <2>4. heap[a].start <= heap[a].updated
    BY <1>1 DEF TableInv, EntriesDated, a, k
  <2>5. heap[a].start < now
    BY <1>1, <1>2, <2>3, <2>4
  <2>6. e # ActionDir(heap[a].start, k)
    BY <2>2, <2>3, <2>5 DEF ActionDir
  <2> QED
    BY <1>1, <2>2, <2>6
<1>17. SweptSoFar'
  <2> SUFFICES ASSUME NEW i \in Held', i < cursor' \/ pc' = "wait"
               PROVE  heap'[actions'[i]].updated + StopDelay >= lastSwitched'
    BY DEF SweptSoFar
  <2>1. i \in Held /\ i # k /\ i \in Nat /\ k \in Nat /\ heap'[actions'[i]] = heap[actions[i]]
    BY <1>6, <1>10, <1>11, SlotsAreNaturals
  <2>2. i < cursor
    BY <1>1, <1>5, <2>1 DEF k
  <2> QED
    BY <1>5, <2>1, <2>2 DEF TableInv, SweptSoFar
<1> QED
  BY <1>1, <1>4, <1>12, <1>13, <1>14, <1>15, <1>16, <1>17 DEF TableInv

(* The clock and the sweep. *)
LEMMA BeginPassInv ==
  ASSUME TableInv, TypeOK', BeginPass
  PROVE  TableInv'
<1>1. PICK lag \in 0 .. MaxLag : now' = NextWindow + lag /\ lastSwitched' = now'
  BY DEF BeginPass
<1>2. now' \in Nat /\ now' >= now /\ now \in Nat
  BY <1>1, NextWindowLater DEF TableInv, TypeOK
<1>3. actions' = actions /\ heap' = heap /\ running' = running /\ used' = used /\ pc' = "eval"
  BY DEF BeginPass
<1>4. Held' = Held /\ TableSound' /\ ScriptsMatched' /\ NoLeak'
  BY <1>3, IdentityKept DEF TableInv
<1>5. EntriesDated'
  <2>1. \A i \in Held : heap[actions[i]].updated \in Nat
    BY DEF Held, TableInv, TypeOK, Block
  <2> QED
    BY <1>2, <1>3, <1>4, <2>1 DEF TableInv, EntriesDated
<1>6. NowDirsRunning'
  <2>1. \A e \in used : e[1] \in Nat /\ e[1] <= now
    BY <1>2, ActionTableAssumption DEF TableInv, TypeOK
  <2>2. \A e \in used : e[1] = now' => e[1] = now
    BY <1>2, <2>1
  <2> QED
    BY <1>3, <2>2 DEF TableInv, NowDirsRunning
<1>7. now' <= lastSwitched' + PassBudget /\ SweptSoFar'
  BY <1>1, <1>2, <1>3, ActionTableAssumption DEF SweptSoFar
<1> QED
  BY <1>3, <1>4, <1>5, <1>6, <1>7 DEF TableInv

(* Steps of the sweep that change no entry. *)
LEMMA SweepStepInv ==
  ASSUME TableInv, TypeOK', BeginSweep \/ KeepSlot \/ EndPass
  PROVE  TableInv'
<1>1. /\ actions' = actions /\ heap' = heap /\ running' = running /\ used' = used
      /\ now' = now /\ lastSwitched' = lastSwitched /\ pc' \in {"expire", "wait"}
  BY DEF BeginSweep, KeepSlot, EndPass
<1>2. Held' = Held /\ TableSound' /\ ScriptsMatched' /\ NoLeak'
  BY <1>1, IdentityKept DEF TableInv
<1>3. \A i \in Held : i \in Nat /\ i < MaxActions /\ heap[actions[i]].updated \in Nat
  BY ActionTableAssumption DEF Held, Slots, TableInv, TypeOK, Block
<1>4. SweptSoFar'
  <2> SUFFICES ASSUME NEW i \in Held, i < cursor' \/ pc' = "wait"
               PROVE  heap[actions[i]].updated + StopDelay >= lastSwitched
    BY <1>1, <1>2 DEF SweptSoFar
  <2>1. CASE BeginSweep
    BY <1>3, <2>1 DEF BeginSweep
  <2>2. CASE KeepSlot
    <3>1. pc = "expire" /\ pc' = "expire" /\ cursor' = cursor + 1 /\ cursor \in Nat
          /\ ~SlotExpired(cursor)
      BY <2>2 DEF KeepSlot, TableInv, TypeOK
    <3>2. CASE i < cursor
      BY <3>1, <3>2 DEF TableInv, SweptSoFar
    <3>3. CASE i = cursor
      <4>1. ~(heap[actions[i]].updated + StopDelay < now)
        BY <3>1, <3>3 DEF SlotExpired, Expired, Held
      <4>2. now \in Nat /\ lastSwitched \in Nat /\ lastSwitched <= now /\ StopDelay \in Nat
        BY ActionTableAssumption DEF TableInv, TypeOK
      <4> QED
        BY <1>3, <4>1, <4>2
    <3> QED
      BY <1>3, <3>1, <3>2, <3>3
  <2>3. CASE EndPass
    BY <1>3, <2>3 DEF EndPass, TableInv, SweptSoFar
  <2> QED
    BY <2>1, <2>2, <2>3
<1>5. EntriesDated' /\ NowDirsRunning'
  BY <1>1, <1>2 DEF TableInv, EntriesDated, NowDirsRunning
<1> QED
  BY <1>1, <1>2, <1>4, <1>5 DEF TableInv

LEMMA InitInv == Init => TableInv
<1> SUFFICES ASSUME Init PROVE TableInv
  OBVIOUS
<1>1. TypeOK
  BY InitTypeOK
<1>2. Held = {}
  BY DEF Init, Held
<1>3. TableSound /\ EntriesDated /\ NowDirsRunning /\ SweptSoFar
  BY <1>2 DEF Init, TableSound, EntriesDated, NowDirsRunning, SweptSoFar
<1>4. ScriptsMatched
  BY <1>2 DEF Init, ScriptsMatched
<1>5. NoLeak
  <2>1. \A a \in Addr : heap[a].live = FALSE
    <3>1. [Zeroed EXCEPT !.live = FALSE].live = FALSE
      BY DEF Zeroed
    <3> QED
      BY <3>1 DEF Init
  <2> QED
    BY <2>1 DEF NoLeak
<1>6. now <= lastSwitched + PassBudget /\ pc # "aborted"
  BY ActionTableAssumption DEF Init
<1> QED
  BY <1>1, <1>3, <1>4, <1>5, <1>6 DEF TableInv

LEMMA StepInv ==
  ASSUME Room, TableInv, [Next]_vars
  PROVE  TableInv'
<1>1. TypeOK'
  BY StepTypeOK DEF TableInv
<1>2. CASE UNCHANGED vars
  BY <1>2 DEF vars, TableInv, TypeOK, TableSound, ScriptsMatched, NoLeak, EntriesDated,
              NowDirsRunning, SweptSoFar, Held
<1>3. ASSUME NEW n \in Names, Skip(n)
      PROVE  TableInv'
  BY <1>1, <1>3 DEF Skip, TableInv, TableSound, ScriptsMatched, NoLeak, EntriesDated,
                    NowDirsRunning, SweptSoFar, Held
<1> QED
  BY <1>1, <1>2, <1>3, RefreshInv, StartInv, StopInv, OverwriteInv, BeginPassInv,
     SweepStepInv DEF Next, AtHorizon

(* With fewer profiles than slots, at every step of every pass: every slot *)
(* in use points at live memory and knows its index, no profile has two    *)
(* entries, the start scripts in force are those of the table, no block is *)
(* leaked, and when a pass is over nothing that should have expired is     *)
(* left (nfd_act_upsert and nfd_act_expire).                               *)
THEOREM TableSafe ==
  ASSUME Room
  PROVE  Spec => []TableConsistent
<1>1. Init => TableInv
  BY InitInv
<1>2. TableInv /\ [Next]_vars => TableInv'
  BY StepInv
<1>3. TableInv => TableConsistent
  BY DEF TableInv, TableConsistent
<1> QED
  BY <1>1, <1>2, <1>3, PTL DEF Spec

(* When a pass is over, no entry is left that was last refreshed more than *)
(* stop_delay before the pass began: quiet actions do end (the sweep of    *)
(* nfd_act_expire over every slot, while scripts take time).               *)
THEOREM SweepIsComplete ==
  ASSUME Room
  PROVE  Spec => []SweepComplete
<1>1. Init => TableInv
  BY InitInv
<1>2. TableInv /\ [Next]_vars => TableInv'
  BY StepInv
<1>3. TableInv => SweepComplete
  BY DEF TableInv, SweptSoFar, SweepComplete
<1> QED
  BY <1>1, <1>2, <1>3, PTL DEF Spec

(* A name becomes active only by a start. *)
LEMMA OnlyStartsActivate ==
  ASSUME Room, TableInv, Next, ActiveNames' \ ActiveNames # {}
  PROVE  \E n \in Names : StartAction(n)
<1> SUFFICES ASSUME ~ \E n \in Names : StartAction(n)
             PROVE  ActiveNames' \subseteq ActiveNames
  OBVIOUS
<1>1. heap \in [Addr -> Block] /\ \A i \in Held : actions[i] \in Addr
  BY DEF TableInv, TypeOK, Held
<1>2. ASSUME actions' = actions, heap' = heap
      PROVE  ActiveNames' \subseteq ActiveNames
  BY <1>2 DEF ActiveNames, Held
<1>3. ASSUME NEW n \in Names, Refresh(n)
      PROVE  ActiveNames' \subseteq ActiveNames
  <2>1. actions[First(LookupSlots(n))] \in Addr
    BY <1>3, LookupIsHeld DEF Refresh, TableInv
  <2>2. \A b \in Addr : heap'[b].name = heap[b].name
    BY <1>1, <1>3, <2>1, BlockFields DEF Refresh
  <2>3. actions' = actions
    BY <1>3 DEF Refresh
  <2> QED
    BY <1>1, <2>2, <2>3 DEF ActiveNames, Held
<1>4. ASSUME StopSlot
      PROVE  ActiveNames' \subseteq ActiveNames
  <2> DEFINE a == actions[cursor]
  <2>1. /\ cursor \in Held /\ a \in Addr
        /\ actions' = [actions EXCEPT ![cursor] = NULL]
        /\ heap' = [heap EXCEPT ![a] = Freed(heap[a])]
    BY <1>4, StopEffect
  <2>2. actions \in [Slots -> Addr \cup {NULL}]
    BY DEF TableInv, TypeOK
  <2>3. Held' = Held \ {cursor} /\ \A i \in Held' : actions'[i] = actions[i]
    BY <2>1, <2>2 DEF Held
  <2>4. \A i \in Held' : actions[i] # a
    BY <2>1, <2>3 DEF TableInv, TableSound
  <2> HIDE DEF a
  <2>5. \A i \in Held' : heap'[actions'[i]] = heap[actions[i]]
    BY <1>1, <2>1, <2>3, <2>4
  <2> QED
    BY <2>3, <2>5 DEF ActiveNames
<1>5. ASSUME NEW a \in Addr, Overwrite(a)
      PROVE  ActiveNames' \subseteq ActiveNames
  <2>1. \A i \in Held : actions[i] # a
    BY <1>5 DEF Overwrite, TableInv, TableSound
  <2>2. actions' = actions /\ \A b \in Addr \ {a} : heap'[b] = heap[b]
    BY <1>1, <1>5 DEF Overwrite
  <2> QED
    BY <1>1, <2>1, <2>2 DEF ActiveNames, Held
<1> QED
  BY <1>2, <1>3, <1>4, <1>5 DEF Next, BeginPass, AtHorizon, Skip, BeginSweep, KeepSlot,
                                EndPass, vars

(* A start script never gets a directory that an earlier action used:      *)
(* within one second a slot is not given twice, because an entry outlives  *)
(* its own start by stop_delay (nfd_act_update_dir's name against          *)
(* nfd_act_expire).                                                        *)
THEOREM DirectoriesFresh ==
  ASSUME Room
  PROVE  Spec => DirFresh
<1>1. Init => TableInv
  BY InitInv
<1>2. TableInv /\ [Next]_vars => TableInv'
  BY StepInv
<1>3. TableInv /\ [Next]_vars => [ActiveNames' \ ActiveNames # {} => used' # used]_vars
  <2> SUFFICES ASSUME TableInv, Next, ActiveNames' \ ActiveNames # {}
               PROVE  used' # used
    OBVIOUS
  <2>1. PICK n \in Names : StartAction(n)
    BY OnlyStartsActivate
  <2>2. FreeSlot \in Slots /\ actions[FreeSlot] = NULL
        /\ used' = used \cup {ActionDir(now, FreeSlot)}
    BY <2>1, StartEffect
  <2>3. SUFFICES ASSUME ActionDir(now, FreeSlot) \in used
                 PROVE  FALSE
    BY <2>2
  <2>4. ActionDir(now, FreeSlot) \in running
    BY <2>3 DEF TableInv, NowDirsRunning, ActionDir
  <2>5. PICK i \in Held : ActionDir(now, FreeSlot)
                           = ActionDir(heap[actions[i]].start, heap[actions[i]].id)
    BY <2>4 DEF TableInv, ScriptsMatched
  <2>6. FreeSlot = i
    BY <2>5 DEF ActionDir, TableInv, TableSound
  <2> QED
    BY <2>2, <2>6 DEF Held
<1> QED
  BY <1>1, <1>2, <1>3, PTL DEF Spec, DirFresh

--------------------------------------------------------------------------------
(* ActionTable implements ActionLifecycle, when the table has room and the *)
(* scripts of one pass take no longer than the stop delay.                 *)

(* The scripts a pass runs are done within stop_delay seconds. *)
Prompt == PassBudget <= StopDelay

LEMMA HeldTyped ==
  ASSUME TypeOK
  PROVE  /\ heap \in [Addr -> Block]
         /\ \A i \in Held : /\ i \in Slots /\ actions[i] \in Addr
                            /\ heap[actions[i]].updated \in Nat
         /\ now \in Nat /\ lastSwitched \in Nat
BY ActionTableAssumption DEF TypeOK, Held, Block

(* A refreshed entry is not stopped in the same pass: the sweep's clock is *)
(* at most stop_delay ahead of the start of the window.                    *)
LEMMA StoppedWasQuiet ==
  ASSUME Prompt, TableInv, KeptFresh, StopSlot
  PROVE  heap[actions[cursor]].name \notin kept
<1>1. /\ cursor \in Held /\ heap[actions[cursor]].updated + StopDelay < now
  BY StopEffect
<1>2. now <= lastSwitched + PassBudget /\ TypeOK
  BY DEF TableInv
<1>3. heap[actions[cursor]].updated < lastSwitched
  BY <1>1, <1>2, HeldTyped, ActionTableAssumption DEF Prompt
<1>4. SUFFICES ASSUME heap[actions[cursor]].name \in kept
               PROVE  FALSE
  OBVIOUS
<1>5. PICK i \in Held : /\ heap[actions[i]].name = heap[actions[cursor]].name
                        /\ heap[actions[i]].updated >= lastSwitched
  BY <1>4 DEF KeptFresh
<1>6. i = cursor
  BY <1>1, <1>5 DEF TableInv, TableSound
<1> QED
  BY <1>1, <1>2, <1>3, <1>5, <1>6, HeldTyped

(* The names of the table after each kind of step. *)
LEMMA NamesKept ==
  ASSUME TypeOK, actions' = actions,
         \A i \in Held : heap'[actions[i]].name = heap[actions[i]].name
  PROVE  ActiveNames' = ActiveNames
BY DEF ActiveNames, Held

LEMMA NamesAfterRefresh ==
  ASSUME TableInv, NEW n \in Names, Refresh(n)
  PROVE  /\ ActiveNames' = ActiveNames /\ n \in ActiveNames
         /\ actions' = actions /\ Held' = Held /\ kept' = kept \cup {n}
         /\ \A i \in Held : /\ heap'[actions[i]].name = heap[actions[i]].name
                            /\ heap'[actions[i]].updated \in {heap[actions[i]].updated, now}
                            /\ heap[actions[i]].name = n => heap'[actions[i]].updated = now
<1> DEFINE k == First(LookupSlots(n))
           a == actions[k]
<1>1. k \in Slots /\ a \in Addr /\ heap[a].name = n /\ k \in Held
  <2>1. LookupSlots(n) # {}
    BY DEF Refresh
  <2>2. k \in Slots /\ a \in Addr /\ heap[a].name = n
    BY <2>1, LookupIsHeld DEF TableInv
  <2> QED
    BY <2>2, ActionTableAssumption DEF Held
<1>2. heap' = [heap EXCEPT ![a] = Touched(heap[a])] /\ actions' = actions
      /\ kept' = kept \cup {n}
  BY DEF Refresh
<1>3. heap \in [Addr -> Block] /\ \A i \in Held : actions[i] \in Addr
  BY HeldTyped DEF TableInv
<1>4. Touched(heap[a]).name = heap[a].name /\ Touched(heap[a]).updated = now
  BY <1>1, <1>3, BlockFields
<1>5. \A i \in Held : heap[actions[i]].name = n => actions[i] = a
  BY <1>1 DEF TableInv, TableSound
<1> HIDE DEF k, a
<1>6. heap'[a] = Touched(heap[a]) /\ \A b \in Addr \ {a} : heap'[b] = heap[b]
  BY <1>1, <1>2, <1>3
<1>7. \A i \in Held : /\ heap'[actions[i]].name = heap[actions[i]].name
                      /\ heap'[actions[i]].updated \in {heap[actions[i]].updated, now}
                      /\ heap[actions[i]].name = n => heap'[actions[i]].updated = now
  BY <1>3, <1>4, <1>5, <1>6
<1>8. n \in ActiveNames
  BY <1>1 DEF ActiveNames, a
<1> QED
  BY <1>2, <1>7, <1>8, NamesKept DEF Held, TableInv

LEMMA NamesAfterStart ==
  ASSUME Room, TableInv, NEW n \in Names, StartAction(n)
  PROVE  /\ ActiveNames' = ActiveNames \cup {n} /\ kept' = kept \cup {n}
         /\ FreeSlot \in Held' /\ Held' = Held \cup {FreeSlot}
         /\ heap'[actions'[FreeSlot]].name = n /\ heap'[actions'[FreeSlot]].updated = now'
         /\ \A i \in Held : heap'[actions'[i]] = heap[actions[i]]
<1> DEFINE k == FreeSlot
<1>1. PICK a \in Addr, d \in ScriptTime :
           /\ ~heap[a].live
           /\ k \in Slots /\ actions[k] = NULL
           /\ actions' = [actions EXCEPT ![k] = a]
           /\ heap' = [heap EXCEPT ![a] = [live |-> TRUE, name |-> n, start |-> now,
                                           id |-> k, updated |-> now']]
           /\ kept' = kept \cup {n}
  BY StartEffect
<1> HIDE DEF k
<1>2. /\ actions \in [Slots -> Addr \cup {NULL}] /\ heap \in [Addr -> Block]
      /\ NULL \notin Addr
  BY ActionTableAssumption DEF TableInv, TypeOK
<1>3. actions'[k] = a /\ \A i \in Slots \ {k} : actions'[i] = actions[i]
  BY <1>1, <1>2
<1>4. /\ heap'[a].name = n /\ heap'[a].updated = now'
      /\ \A b \in Addr \ {a} : heap'[b] = heap[b]
  BY <1>1, <1>2
<1>5. Held' = Held \cup {k} /\ k \notin Held
  BY <1>1, <1>2, <1>3 DEF Held
<1>6. \A i \in Held : heap'[actions'[i]] = heap[actions[i]]
  BY <1>1, <1>2, <1>3, <1>4, <1>5 DEF Held, TableInv, TableSound
<1>7. ActiveNames' = ActiveNames \cup {n}
  BY <1>3, <1>4, <1>5, <1>6 DEF ActiveNames
<1> QED
  BY <1>1, <1>3, <1>4, <1>5, <1>6, <1>7 DEF k

LEMMA NamesAfterStop ==
  ASSUME TableInv, StopSlot
  PROVE  /\ Held' = Held \ {cursor} /\ cursor \in Held
         /\ ActiveNames' = ActiveNames \ {heap[actions[cursor]].name}
         /\ \A i \in Held' : heap'[actions'[i]] = heap[actions[i]]
<1> DEFINE a == actions[cursor]
<1>1. /\ cursor \in Held /\ a \in Addr
      /\ actions' = [actions EXCEPT ![cursor] = NULL]
      /\ heap' = [heap EXCEPT ![a] = Freed(heap[a])]
  BY StopEffect
<1>2. actions \in [Slots -> Addr \cup {NULL}] /\ heap \in [Addr -> Block]
      /\ \A i \in Held : actions[i] \in Addr
  BY DEF TableInv, TypeOK, Held
<1>3. Held' = Held \ {cursor} /\ \A i \in Held' : actions'[i] = actions[i]
  BY <1>1, <1>2 DEF Held
<1>4. \A i \in Held' : actions[i] # a /\ heap[actions[i]].name # heap[a].name
  BY <1>1, <1>3 DEF TableInv, TableSound
<1> HIDE DEF a
<1>5. \A i \in Held' : heap'[actions'[i]] = heap[actions[i]]
  BY <1>1, <1>2, <1>3, <1>4
<1>6. ActiveNames' = ActiveNames \ {heap[a].name}
  BY <1>3, <1>4, <1>5 DEF ActiveNames, a
<1> QED
  BY <1>1, <1>3, <1>5, <1>6 DEF a

LEMMA NamesAfterOverwrite ==
  ASSUME TableInv, NEW a \in Addr, Overwrite(a)
  PROVE  /\ ActiveNames' = ActiveNames /\ Held' = Held
         /\ \A i \in Held : heap'[actions'[i]] = heap[actions[i]]
<1>1. \A i \in Held : actions[i] \in Addr /\ actions[i] # a
  BY DEF Overwrite, TableInv, TableSound, TypeOK, Held
<1>2. actions' = actions /\ \A b \in Addr \ {a} : heap'[b] = heap[b]
  BY DEF Overwrite, TableInv, TypeOK
<1> QED
  BY <1>1, <1>2 DEF ActiveNames, Held

--------------------------------------------------------------------------------
(* Entries refreshed in this window stay, with a date of this window. *)

LEMMA InitKept == Init => KeptFresh
BY DEF Init, KeptFresh

LEMMA StepKept ==
  ASSUME Room, Prompt, TableInv, KeptFresh, [Next]_vars
  PROVE  KeptFresh'
<1>1. ASSUME actions' = actions, heap' = heap, kept' = kept, lastSwitched' = lastSwitched
      PROVE  KeptFresh'
  BY <1>1 DEF KeptFresh, Held
<1>2. CASE BeginPass
  BY <1>2 DEF BeginPass, KeptFresh
<1>3. ASSUME NEW n \in Names, Refresh(n)
      PROVE  KeptFresh'
  <2>1. lastSwitched' = lastSwitched /\ now >= lastSwitched
    BY <1>3 DEF Refresh, TableInv, TypeOK
  <2>2. \A i \in Held : heap[actions[i]].updated >= lastSwitched
                       => heap'[actions[i]].updated >= lastSwitched
    BY <1>3, <2>1, NamesAfterRefresh
  <2>3. \E i \in Held : heap[actions[i]].name = n
    BY <1>3, NamesAfterRefresh DEF ActiveNames
  <2>4. ASSUME NEW m \in kept'
        PROVE  \E i \in Held : /\ heap'[actions[i]].name = m
                              /\ heap'[actions[i]].updated >= lastSwitched
    <3>1. CASE m = n
      BY <1>3, <2>1, <2>3, <3>1, NamesAfterRefresh
    <3>2. CASE m # n
      <4>1. m \in kept
        BY <1>3, <2>4, <3>2, NamesAfterRefresh
      <4>2. PICK i \in Held : /\ heap[actions[i]].name = m
                              /\ heap[actions[i]].updated >= lastSwitched
        BY <4>1 DEF KeptFresh
      <4> QED
        BY <1>3, <2>2, <4>2, NamesAfterRefresh
    <3> QED
      BY <3>1, <3>2
  <2> QED
    BY <1>3, <2>1, <2>4, NamesAfterRefresh DEF KeptFresh
<1>4. ASSUME NEW n \in Names, StartAction(n)
      PROVE  KeptFresh'
  <2>1. lastSwitched' = lastSwitched
    BY <1>4 DEF StartAction
  <2>2. now' >= lastSwitched
    <3>1. PICK d \in ScriptTime : now' = now + d
      BY <1>4, StartEffect
    <3> QED
      BY <3>1, ScriptTimeIsNat, HeldTyped DEF TableInv, TypeOK
  <2>3. \A m \in kept : \E i \in Held' : /\ heap'[actions'[i]].name = m
                                         /\ heap'[actions'[i]].updated >= lastSwitched
    BY <1>4, NamesAfterStart DEF KeptFresh
  <2>4. FreeSlot \in Held' /\ heap'[actions'[FreeSlot]].name = n
        /\ heap'[actions'[FreeSlot]].updated >= lastSwitched
    BY <1>4, <2>2, NamesAfterStart
  <2>5. kept' = kept \cup {n}
    BY <1>4, NamesAfterStart
  <2> QED
    BY <2>1, <2>3, <2>4, <2>5 DEF KeptFresh
<1>5. CASE StopSlot
  <2>1. lastSwitched' = lastSwitched /\ kept' = kept
    BY <1>5 DEF StopSlot
  <2>2. ASSUME NEW m \in kept
        PROVE  \E i \in Held' : /\ heap'[actions'[i]].name = m
                               /\ heap'[actions'[i]].updated >= lastSwitched
    <3>1. PICK i \in Held : /\ heap[actions[i]].name = m
                            /\ heap[actions[i]].updated >= lastSwitched
      BY DEF KeptFresh
    <3>2. i # cursor
      BY <1>5, <3>1, StoppedWasQuiet
    <3> QED
      BY <1>5, <3>1, <3>2, NamesAfterStop
  <2> QED
    BY <2>1, <2>2 DEF KeptFresh
<1>6. ASSUME NEW a \in Addr, Overwrite(a)
      PROVE  KeptFresh'
  <2>1. lastSwitched' = lastSwitched /\ kept' = kept
    BY <1>6 DEF Overwrite
  <2> QED
    BY <1>6, <2>1, NamesAfterOverwrite DEF KeptFresh
<1> QED
  BY <1>1, <1>2, <1>3, <1>4, <1>5, <1>6
  DEF Next, vars, AtHorizon, Skip, BeginSweep, KeepSlot, EndPass

(* An action whose profile was over its limit in the current window is not *)
(* stopped by the sweep that ends the window, if the scripts of the pass   *)
(* took no longer than stop_delay (nfd_act_upsert's timestamp against the  *)
(* later clock of nfd_act_expire).                                         *)
THEOREM KeptAreNotStopped ==
  ASSUME Room, Prompt
  PROVE  Spec => []KeptNotStopped
<1>1. Init => TableInv /\ KeptFresh
  BY InitInv, InitKept
<1>2. TableInv /\ KeptFresh /\ [Next]_vars => (TableInv /\ KeptFresh)'
  BY StepInv, StepKept
<1>3. KeptFresh => KeptNotStopped
  BY DEF KeptFresh, KeptNotStopped, ActiveNames
<1> QED
  BY <1>1, <1>2, <1>3, PTL DEF Spec

--------------------------------------------------------------------------------
(* The refinement. *)

LEMMA InitRefines == Init => Lifecycle!Init
BY DEF Init, Lifecycle!Init, ActiveNames, Held

LEMMA StepRefines ==
  ASSUME Room, Prompt, TableInv, KeptFresh, [Next]_vars
  PROVE  [Lifecycle!Next]_(Lifecycle!vars)
<1> USE DEF Lifecycle!vars
<1>1. ASSUME actions' = actions, heap' = heap, kept' = kept
      PROVE  UNCHANGED Lifecycle!vars
  BY <1>1 DEF ActiveNames, Held
<1>2. CASE BeginPass
  <2>1. actions' = actions /\ heap' = heap /\ kept' = {}
    BY <1>2 DEF BeginPass
  <2>2. ActiveNames' = ActiveNames
    BY <2>1 DEF ActiveNames, Held
  <2> QED
    BY <2>1, <2>2 DEF Lifecycle!Next, Lifecycle!NewPass
<1>3. ASSUME NEW n \in Names, Refresh(n) \/ StartAction(n)
      PROVE  Lifecycle!Next
  <2>1. ActiveNames' = ActiveNames \cup {n} /\ kept' = kept \cup {n}
    <3>1. CASE Refresh(n)
      BY <3>1, NamesAfterRefresh
    <3>2. CASE StartAction(n)
      BY <3>2, NamesAfterStart
    <3> QED
      BY <1>3, <3>1, <3>2
  <2> QED
    BY <2>1 DEF Lifecycle!Next, Lifecycle!OverLimit
<1>4. CASE StopSlot
  <2> DEFINE n == heap[actions[cursor]].name
  <2>1. n \notin kept
    BY <1>4, StoppedWasQuiet
  <2>2. cursor \in Held /\ ActiveNames' = ActiveNames \ {n}
    BY <1>4, NamesAfterStop
  <2>3. n \in Names /\ n \in ActiveNames
    BY <2>2 DEF TableInv, EntriesDated, ActiveNames
  <2>4. kept' = kept
    BY <1>4 DEF StopSlot
  <2> QED
    BY <2>1, <2>2, <2>3, <2>4 DEF Lifecycle!Next, Lifecycle!Quiet
<1>5. ASSUME NEW a \in Addr, Overwrite(a)
      PROVE  UNCHANGED Lifecycle!vars
  BY <1>5, NamesAfterOverwrite DEF Overwrite
<1> QED
  BY <1>1, <1>2, <1>3, <1>4, <1>5
  DEF Next, vars, AtHorizon, Skip, BeginSweep, KeepSlot, EndPass

(* The table of action.c implements the life cycle of actions it promises: *)
(* each profile found over its limit is in force from then on, and only a  *)
(* profile not found over its limit in this pass is stopped, once.         *)
THEOREM TableImplementsLifecycle ==
  ASSUME Room, Prompt
  PROVE  Spec => ImplementsLifecycle
<1>1. Init => TableInv /\ KeptFresh /\ Lifecycle!Init
  BY InitInv, InitKept, InitRefines
<1>2. TableInv /\ KeptFresh /\ [Next]_vars
        => (TableInv /\ KeptFresh)' /\ [Lifecycle!Next]_(Lifecycle!vars)
  BY StepInv, StepKept, StepRefines
<1> QED
  BY <1>1, <1>2, PTL DEF Spec, ImplementsLifecycle, Lifecycle!Spec
================================================================================
