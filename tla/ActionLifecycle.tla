---------------------------- MODULE ActionLifecycle ----------------------------
(***************************************************************************)
(* What the action table of nfddos promises to its operator, without       *)
(* slots, addresses or clocks: the set of profiles whose start script is   *)
(* in force, and the profiles found over their limit in the current        *)
(* evaluation pass.  A profile found over its limit is in force from then  *)
(* on, and no script is stopped in a pass that found its profile over the  *)
(* limit.                                                                  *)
(***************************************************************************)

CONSTANT Names   \* profile names, "profile" or "profile/key"

VARIABLES
  active,   \* names whose start script was run and whose stop script was not
  kept      \* names found over their limit in the current pass

vars == <<active, kept>>

TypeOK == active \subseteq Names /\ kept \subseteq Names

Init == active = {} /\ kept = {}

(* A new window is evaluated: nothing has been seen over its limit yet. *)
NewPass == kept' = {} /\ UNCHANGED active

(* The profile n is over its limit in this window. *)
OverLimit(n) ==
  /\ active' = active \cup {n}
  /\ kept' = kept \cup {n}

(* The traffic of n went down: its stop script is run. *)
Quiet(n) ==
  /\ n \in active \ kept
  /\ active' = active \ {n}
  /\ UNCHANGED kept

Next == NewPass \/ \E n \in Names : OverLimit(n) \/ Quiet(n)

Spec == Init /\ [][Next]_vars
================================================================================
