------------------------------ MODULE ActionTable ------------------------------
(***************************************************************************)
(* action.c: the table of running actions, driven by the dump thread of    *)
(* nfddos.c.  Once per window every profile (or dynamic key) is evaluated; *)
(* one that is over a limit is upserted into the table, which runs the     *)
(* start script for a new entry and refreshes the timestamp of an old one. *)
(* Then nfd_act_expire sweeps the table and runs the stop script of every  *)
(* entry that was not refreshed for longer than stop_delay.                *)
(*                                                                         *)
(* Slots hold addresses, as in the code, so that a slot left pointing at   *)
(* freed memory and a block freed twice are states of the model.           *)
(***************************************************************************)
EXTENDS Integers, FiniteSets

CONSTANTS
  Names,        \* action names: profile name, or profile name "/" dynamic key
  NoName,       \* the name field of a zeroed or overwritten block
  Addr,         \* addresses calloc may return
  NULL,         \* an empty slot
  MaxActions,   \* nfd_actions_t.max_actions
  StopDelay,    \* nfd_options_t.stop_delay, seconds
  Window,       \* nfd_options_t.window_size, seconds
  Epoch,        \* the clock when the daemon starts
  PassBudget,   \* environment: seconds the scripts of one pass take at most
  MaxLag,       \* environment: seconds a window may start late
  Horizon       \* bound: no window starts after this second

ASSUME ActionTableAssumption ==
  /\ IsFiniteSet(Names) /\ NoName \notin Names
  /\ NULL \notin Addr
  /\ MaxActions \in Nat \ {0}
  /\ StopDelay \in Nat /\ Window \in Nat /\ PassBudget \in Nat
  /\ MaxLag \in Nat /\ Horizon \in Nat
  /\ Epoch \in Nat /\ Epoch > StopDelay

VARIABLES
  now,          \* time(NULL)
  pc,           \* what dump_data_loop does: "wait", "eval", "expire", "aborted"
  lastSwitched, \* last_switched: when the current window began
  todo,         \* names not yet evaluated in this pass
  cursor,       \* the loop index of nfd_act_expire
  actions,      \* nfd_actions_t.actions
  heap,         \* the nfd_action_t blocks
  made,         \* action directories that were prepared on disk
  running,      \* directories whose start script was run and stop script was not
  used,         \* history: directories ever passed to a start script
  kept          \* history: names started or refreshed in this pass

vars == <<now, pc, lastSwitched, todo, cursor, actions, heap,
          made, running, used, kept>>

Slots == 0 .. MaxActions - 1

Block == [live: BOOLEAN, name: Names \cup {NoName},
          start: Nat, id: Slots, updated: Nat]

(* calloc: every field of the block is zero. *)
Zeroed == [live |-> TRUE, name |-> NoName, start |-> 0, id |-> 0, updated |-> 0]

TypeOK ==
  /\ now \in Nat /\ now >= Epoch
  /\ lastSwitched \in Epoch .. now
  /\ pc \in {"wait", "eval", "expire", "aborted"}
  /\ todo \subseteq Names
  /\ cursor \in 0 .. MaxActions
  /\ actions \in [Slots -> Addr \cup {NULL}]
  /\ heap \in [Addr -> Block]
  /\ used \subseteq (Epoch .. now) \X Slots
  /\ made \subseteq (Epoch .. now) \X Slots
  /\ running \subseteq used
  /\ kept \subseteq Names

--------------------------------------------------------------------------------
(* Helpers.  A name ending in "Bug" is the definition above or below it with *)
(* a plausible slip; it is used only to show that the properties notice it.  *)

(* action.c:125-126: the directory is named by the start time and the id.  *)
(* (The name holds the local time: two seconds have one name only where    *)
(* clocks are set back, and the model has no such hour.)                   *)
ActionDirNoIdBug(t, i) == <<t, 0>>
ActionDir(t, i) == <<t, i>>

(* Slots whose block carries the name n; the loop takes the first. *)
LookupToHoleBug(n) ==
  {i \in Slots : /\ \A j \in 0 .. i : actions[j] # NULL
                 /\ heap[actions[i]].name = n}
LookupSlots(n) == {i \in Slots : actions[i] # NULL /\ heap[actions[i]].name = n}

First(S) == CHOOSE i \in S : \A j \in S : i <= j

(* The index the search for an empty slot ends with. *)
FreeSlot ==
  LET empty == {i \in Slots : actions[i] = NULL}
  IN  IF empty = {} THEN MaxActions ELSE First(empty)

TouchedStaleBug(b) == b
Touched(b) == [b EXCEPT !.updated = now]

ExpiredByStartBug(b) == b.start + StopDelay < now
ExpiredLateBug(b) == b.updated + StopDelay + Window < now
Expired(b) == b.updated + StopDelay < now

Freed(b) == [b EXCEPT !.live = FALSE]

Cleared(i) == [actions EXCEPT ![i] = NULL]

(* Seconds a script run now may take: the passes' budget is not used up. *)
ScriptTime == 0 .. lastSwitched + PassBudget - now

--------------------------------------------------------------------------------
Init ==
  /\ now = Epoch /\ lastSwitched = Epoch
  /\ pc = "wait" /\ todo = {} /\ cursor = 0
  /\ actions = [i \in Slots |-> NULL]
  /\ heap = [a \in Addr |-> [Zeroed EXCEPT !.live = FALSE]]
  /\ made = {} /\ running = {} /\ used = {} /\ kept = {}

(* nfddos.c:132-164: sleep for the rest of the window, rotate the queue and *)
(* start evaluating the profiles.                                           *)
NextWindow == IF lastSwitched + Window > now THEN lastSwitched + Window ELSE now

BeginPass ==
  /\ pc = "wait"
  /\ \E lag \in 0 .. MaxLag :
       /\ NextWindow + lag <= Horizon
       /\ now' = NextWindow + lag
       /\ lastSwitched' = now'
  /\ pc' = "eval"
  /\ todo' = Names
  /\ kept' = {}
  /\ UNCHANGED <<cursor, actions, heap, made, running, used>>

(* Model bound: no window begins after Horizon. *)
AtHorizon == pc = "wait" /\ NextWindow > Horizon /\ UNCHANGED vars

(* nfd_act_eval_profile finds no limit reached, or the calloc in           *)
(* nfd_act_upsert returns NULL: nothing changes.                           *)
Skip(n) ==
  /\ pc = "eval" /\ n \in todo
  /\ todo' = todo \ {n}
  /\ UNCHANGED <<now, pc, lastSwitched, cursor, actions, heap, made, running,
                 used, kept>>

(* nfd_act_upsert, the name is in the table: refresh its timestamp. *)
Refresh(n) ==
  /\ pc = "eval" /\ n \in todo /\ LookupSlots(n) # {}
  /\ LET a == actions[First(LookupSlots(n))]
     IN  heap' = [heap EXCEPT ![a] = Touched(@)]
  /\ todo' = todo \ {n}
  /\ kept' = kept \cup {n}
  /\ UNCHANGED <<now, pc, lastSwitched, cursor, actions, made, running, used>>

(* action.c:222-236 with i = max_actions - 1: the block was stored in the  *)
(* last slot and is freed as if no slot had been found.                    *)
ReportNoSlot(a) ==
  /\ actions' = [actions EXCEPT ![FreeSlot] = a]
  /\ heap' = [heap EXCEPT ![a] = Freed([Zeroed EXCEPT !.id = FreeSlot])]
  /\ UNCHANGED <<now, made, running, used, kept>>

(* action.c:222-264 otherwise.  With every slot taken the loop ends with   *)
(* i = max_actions: the block keeps id 0, no slot holds it, and the start  *)
(* script runs all the same.  The directory may fail to be prepared, which *)
(* the caller ignores; the script takes time and its status is ignored.    *)
Install(n, a) ==
  LET id == IF FreeSlot = MaxActions THEN 0 ELSE FreeSlot
      dir == ActionDir(now, id)
  IN  \E prepared \in BOOLEAN, d \in ScriptTime :
        /\ now' = now + d
        /\ actions' = IF FreeSlot \in Slots
                        THEN [actions EXCEPT ![FreeSlot] = a] ELSE actions
        /\ heap' = [heap EXCEPT ![a] = [live |-> TRUE, name |-> n, start |-> now,
                                        id |-> id, updated |-> now']]
        /\ made' = IF prepared THEN made \cup {dir} ELSE made
        /\ running' = running \cup {dir}
        /\ used' = used \cup {dir}
        /\ kept' = kept \cup {n}

(* nfd_act_upsert, the name is not in the table. *)
StartAction(n) ==
  /\ pc = "eval" /\ n \in todo /\ LookupSlots(n) = {}
  /\ \E a \in Addr :
       /\ ~heap[a].live
       /\ IF FreeSlot = MaxActions - 1 THEN ReportNoSlot(a) ELSE Install(n, a)
  /\ todo' = todo \ {n}
  /\ UNCHANGED <<pc, lastSwitched, cursor>>

(* Every profile was evaluated: nfd_act_expire is called. *)
BeginSweep ==
  /\ pc = "eval" /\ todo = {}
  /\ pc' = "expire" /\ cursor' = 0
  /\ UNCHANGED <<now, lastSwitched, todo, actions, heap, made, running, used, kept>>

SlotExpired(i) == actions[i] # NULL /\ Expired(heap[actions[i]])

(* nfd_act_expire leaves the entry at the cursor alone. *)
KeepSlot ==
  /\ pc = "expire" /\ cursor < MaxActions /\ ~SlotExpired(cursor)
  /\ cursor' = cursor + 1
  /\ UNCHANGED <<now, pc, lastSwitched, todo, actions, heap, made, running, used,
                 kept>>

(* nfd_act_expire stops the entry at the cursor, whatever the stop script  *)
(* returns.  Freeing a block that is already free aborts the process.      *)
StopSlot ==
  /\ pc = "expire" /\ cursor < MaxActions /\ SlotExpired(cursor)
  /\ LET a == actions[cursor]
     IN  /\ running' = running \ {ActionDir(heap[a].start, heap[a].id)}
         /\ heap' = [heap EXCEPT ![a] = Freed(@)]
         /\ pc' = IF heap[a].live THEN pc ELSE "aborted"
  /\ \E d \in ScriptTime : now' = now + d
  /\ actions' = Cleared(cursor)
  /\ cursor' = cursor + 1
  /\ UNCHANGED <<lastSwitched, todo, made, used, kept>>

EndPass ==
  /\ pc = "expire" /\ cursor = MaxActions
  /\ pc' = "wait"
  /\ UNCHANGED <<now, lastSwitched, todo, cursor, actions, heap, made, running, used,
                 kept>>

(* Freed memory belongs to the allocator: any later allocation of the      *)
(* process may leave any bytes in it.                                      *)
Overwrite(a) ==
  /\ pc # "aborted" /\ ~heap[a].live
  /\ \E t \in {0, now} :
       heap' = [heap EXCEPT ![a] = [@ EXCEPT !.name = NoName, !.start = 0,
                                             !.updated = t]]
  /\ UNCHANGED <<now, pc, lastSwitched, todo, cursor, actions, made, running, used,
                 kept>>

Next ==
  \/ BeginPass
  \/ AtHorizon
  \/ \E n \in Names : Skip(n) \/ Refresh(n) \/ StartAction(n)
  \/ BeginSweep
  \/ KeepSlot
  \/ StopSlot
  \/ EndPass
  \/ \E a \in Addr : Overwrite(a)

Spec == Init /\ [][Next]_vars

--------------------------------------------------------------------------------
(* Properties. *)

Held == {i \in Slots : actions[i] # NULL}
ActiveNames == {heap[actions[i]].name : i \in Held}

(* Every slot in use points at memory the table owns, the block knows its  *)
(* own slot, and no profile has two entries (nfd_act_upsert's lookup loop, *)
(* search for an empty slot and nfd_act_expire's free agree).              *)
TableSound ==
  /\ \A i \in Held : heap[actions[i]].live /\ heap[actions[i]].id = i
  /\ \A i, j \in Held : heap[actions[i]].name = heap[actions[j]].name => i = j

(* The start scripts still in force are exactly those of the table: every  *)
(* started mitigation will be found again by the sweep, and a stopped one  *)
(* is forgotten.                                                           *)
ScriptsMatched ==
  running = {ActionDir(heap[actions[i]].start, heap[actions[i]].id) : i \in Held}

(* The half of it that matters most: no start script without an entry      *)
(* whose expiry would run the stop script.                                 *)
NoOrphanScript ==
  \A d \in running :
    \E i \in Held : d = ActionDir(heap[actions[i]].start, heap[actions[i]].id)

(* Every allocated block is in the table: none is leaked by nfd_act_upsert *)
(* or by the sweep.                                                        *)
NoLeak == \A a \in Addr : heap[a].live => \E i \in Held : actions[i] = a

(* All of it together: slots, blocks, ids and scripts in force agree at    *)
(* every step, and nothing is lost.                                        *)
TableConsistent == TableSound /\ ScriptsMatched /\ NoLeak

(* A start script never gets a directory an earlier action already used,   *)
(* though the name has a resolution of one second and slots are reused:    *)
(* whenever a name becomes active, a directory is used that never was.     *)
DirFresh == [][ActiveNames' \ ActiveNames # {} => used' # used]_vars

(* An action whose profile was over its limit in the current window is not *)
(* stopped by the sweep that ends the window.                              *)
KeptNotStopped == kept \subseteq ActiveNames

(* When a pass is over, no entry is left whose last refresh is older than  *)
(* stop_delay before the pass began: quiet actions do end.                 *)
SweepComplete ==
  pc = "wait" => \A i \in Held : heap[actions[i]].updated + StopDelay >= lastSwitched

(* Strengthenings of the above, for the proofs. *)

(* The timestamps of an entry are in order, and it has a name. *)
EntriesDated ==
  \A i \in Held : /\ heap[actions[i]].name \in Names
                  /\ heap[actions[i]].start <= heap[actions[i]].updated
                  /\ heap[actions[i]].updated <= now

(* A directory named by the current second belongs to a running action. *)
NowDirsRunning == \A d \in used : d[1] = now => d \in running

(* The entries the cursor has passed were refreshed recently enough. *)
SweptSoFar ==
  pc \in {"wait", "expire"} =>
    \A i \in Held : i < cursor \/ pc = "wait" =>
                     heap[actions[i]].updated + StopDelay >= lastSwitched

TableInv ==
  /\ TypeOK
  /\ pc # "aborted"
  /\ TableSound
  /\ ScriptsMatched
  /\ NoLeak
  /\ EntriesDated
  /\ NowDirsRunning
  /\ SweptSoFar
  /\ now <= lastSwitched + PassBudget

(* A kept name has an entry that was refreshed in this window. *)
KeptFresh ==
  \A n \in kept : \E i \in Held : /\ heap[actions[i]].name = n
                                  /\ heap[actions[i]].updated >= lastSwitched

(* The table implements the abstract life cycle of actions. *)
Lifecycle == INSTANCE ActionLifecycle WITH active <- ActiveNames
ImplementsLifecycle == Lifecycle!Spec
================================================================================
