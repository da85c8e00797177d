-------------------------------- MODULE DbLedger --------------------------------
(***************************************************************************)
(* What db.c promises of the table nfd_counters: every amount stored is    *)
(* added once to the sum of its profile, at once or together with the      *)
(* others of its transaction, or is not added at all.                      *)
(***************************************************************************)
EXTENDS Naturals

CONSTANTS Keys, Amounts
VARIABLES total,   \* per key: what everybody sees in the table
          pending  \* per key: what the open transaction will add to it

Nothing == [k \in Keys |-> 0]

Init == total = Nothing /\ pending = Nothing

Store(k, a) ==
  /\ pending' = [pending EXCEPT ![k] = @ + a]
  /\ UNCHANGED total

StoreAtOnce(k, a) ==
  /\ pending = Nothing
  /\ total' = [total EXCEPT ![k] = @ + a]
  /\ UNCHANGED pending

Commit ==
  /\ total' = [k \in Keys |-> total[k] + pending[k]]
  /\ pending' = Nothing

Rollback == pending' = Nothing /\ UNCHANGED total

Next ==
  \/ \E k \in Keys, a \in Amounts : Store(k, a) \/ StoreAtOnce(k, a)
  \/ Commit
  \/ Rollback

Spec == Init /\ [][Next]_<<total, pending>>
================================================================================
