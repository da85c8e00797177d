----------------------------- MODULE MCHistCounter -----------------------------
(* Instances of HistCounter for TLC. *)
EXTENDS HistCounter

(* A record heavy in bytes, and one heavy in packets. *)
MCAmounts == {[m \in Measures |-> IF m = "bytes" THEN 6 ELSE 1],
              [m \in Measures |-> IF m = "bytes" THEN 2 ELSE 3]}
MCStarts == 0 .. 7
MCDurations == {0, 1, 3, 4, 5}
================================================================================
