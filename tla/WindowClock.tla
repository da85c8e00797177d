------------------------------ MODULE WindowClock -------------------------------
(***************************************************************************)
(* The clock of dump_data_loop (nfddos.c:121-180): how long a window lasts *)
(* and by what its counters are divided.                                   *)
(*                                                                         *)
(* The length of a window is measured before the queue is switched, the    *)
(* next window counts from after the switch, and a profile's counters are  *)
(* read and reset when it is evaluated, later still.  The code looks at    *)
(* the clock only as time(NULL) - last_switched, here one variable: so no  *)
(* bound on the number of windows is needed.  time(NULL) may be set        *)
(* forward and back; sleep() is not affected by that.  Real time between   *)
(* any two statements is bounded by MaxLag.  The counters followed are     *)
(* those of one profile, whichever.                                        *)
(***************************************************************************)
EXTENDS Integers

CONSTANTS
  WindowSizes,  \* values of the option "window size"
  MaxLag,       \* bound: time a step of the loop may take
  ClockSteps    \* seconds by which time(NULL) may be set forward or back

ASSUME WindowClockAssumption ==
  WindowSizes \subseteq Nat /\ ClockSteps \subseteq Nat /\ MaxLag \in Nat

VARIABLES
  step,            \* "off" before the loop, then the step of the loop
  windowSize,      \* window_size
  elapsed,         \* time(NULL) - last_switched
  lastWindowSize,  \* last_window_size, the divisor
  sinceSwitch,     \* history: real time since last_switched was read
  sinceReset,      \* history: real time since the counters were reset
  collected,       \* history: real time the counters last evaluated ran
  clockSet         \* history: the clock was set since last_switched was read,
                   \* and had been when the window was last measured

clockVars == <<step, windowSize, elapsed, lastWindowSize, sinceSwitch, sinceReset,
               collected, clockSet>>

Steps ==
  {"off", "wait", "measure", "close", "open", "evaluate", "evaluated", "crashed"}

ClockTypeOK ==
  /\ step \in Steps
  /\ windowSize \in Nat /\ elapsed \in Int /\ lastWindowSize \in Int
  /\ sinceSwitch \in Nat /\ sinceReset \in Nat /\ collected \in Nat
  /\ clockSet \in [since : BOOLEAN, measured : BOOLEAN]

ClockInit ==
  /\ step = "off"
  /\ windowSize = 60 /\ elapsed = 0 /\ lastWindowSize = 0
  /\ sinceSwitch = 0 /\ sinceReset = 0 /\ collected = 0
  /\ clockSet = [since |-> FALSE, measured |-> FALSE]

--------------------------------------------------------------------------------
Passes(seconds) ==
  /\ elapsed' = elapsed + seconds
  /\ sinceSwitch' = sinceSwitch + seconds
  /\ sinceReset' = sinceReset + seconds

Elapses == \E lag \in 0 .. MaxLag : Passes(lag)

(* last_switched = time(NULL), at the end of a step. *)
ReadsSwitchTime ==
  /\ \E lag \in 0 .. MaxLag : sinceReset' = sinceReset + lag
  /\ elapsed' = 0 /\ sinceSwitch' = 0
  /\ clockSet' = [clockSet EXCEPT !.since = FALSE]

(* The configuration may set the size of the window. *)
Configure ==
  /\ step = "off"
  /\ windowSize' \in WindowSizes \cup {windowSize}
  /\ UNCHANGED <<step, elapsed, lastWindowSize, sinceSwitch, sinceReset, collected,
                 clockSet>>

(* The read thread, and with it the counting, has started a little before. *)
BeginLoop ==
  /\ step = "off"
  /\ step' = "wait"
  /\ ReadsSwitchTime
  /\ UNCHANGED <<windowSize, lastWindowSize, collected>>

RemainsSwappedBug == elapsed - windowSize
Remains == windowSize - elapsed

(* "Performance issue" when nothing remains: the loop goes on at once. *)
Sleep ==
  /\ step = "wait"
  /\ step' = "measure"
  /\ \E late \in 0 .. MaxLag : Passes(late + IF Remains > 0 THEN Remains ELSE 0)
  /\ UNCHANGED <<windowSize, lastWindowSize, collected, clockSet>>

Measure ==
  /\ step = "measure"
  /\ step' = "close" /\ lastWindowSize' = elapsed
  /\ clockSet' = [clockSet EXCEPT !.measured = clockSet.since]
  /\ UNCHANGED <<windowSize, elapsed, sinceSwitch, sinceReset, collected>>

(* Waiting for queue_lock, and closing the queue file. *)
BeginSwitch ==
  /\ step = "close"
  /\ step' = "open"
  /\ Elapses
  /\ UNCHANGED <<windowSize, lastWindowSize, collected, clockSet>>

(* Renaming, opening the new file; then the clock is read again. *)
EndSwitch ==
  /\ step = "open"
  /\ step' = "evaluate"
  /\ ReadsSwitchTime
  /\ UNCHANGED <<windowSize, lastWindowSize, collected>>

(* When the profile's turn comes its counters are read, reset and divided  *)
(* by the length of the window, for each limit that is set: with length 0  *)
(* the process ends.                                                       *)
Evaluate ==
  /\ step = "evaluate"
  /\ step' = "evaluated" \/ (step' = "crashed" /\ lastWindowSize = 0)
  /\ \E lag \in 0 .. MaxLag :
       /\ elapsed' = elapsed + lag /\ sinceSwitch' = sinceSwitch + lag
       /\ collected' = sinceReset + lag
  /\ sinceReset' = 0
  /\ UNCHANGED <<windowSize, lastWindowSize, clockSet>>

(* The other profiles, and nfd_act_expire. *)
EndPass ==
  /\ step = "evaluated"
  /\ step' = "wait"
  /\ Elapses
  /\ collected' = 0   \* the history is not looked at any more
  /\ UNCHANGED <<windowSize, lastWindowSize, clockSet>>

(* Bound: once between two readings of last_switched. *)
SetClock ==
  /\ step # "off" /\ ~clockSet.since
  /\ \E b \in ClockSteps : elapsed' \in {elapsed + b, elapsed - b}
  /\ clockSet' = [clockSet EXCEPT !.since = TRUE]
  /\ UNCHANGED <<step, windowSize, lastWindowSize, sinceSwitch, sinceReset, collected>>

Killed == step = "crashed" /\ UNCHANGED clockVars

ClockNext ==
  \/ Configure \/ BeginLoop \/ Sleep \/ Measure \/ BeginSwitch \/ EndSwitch
  \/ Evaluate \/ EndPass \/ SetClock \/ Killed

ClockSpec == ClockInit /\ [][ClockNext]_clockVars

--------------------------------------------------------------------------------
(* Properties *)

(* Of a window in which the clock was not set, whatever happened to it     *)
(* before: the divisor is at least the configured size, so that there is   *)
(* no division by 0 unless that is 0, and it differs from the time the     *)
(* counters ran by no more than the delays of two passes.  They run from   *)
(* one evaluation to the next, the window from the end of one switch to    *)
(* the beginning of the next one (nfddos.c:148, 156 and 164): a profile    *)
(* evaluated late has less counted for its next evaluation, and its rates  *)
(* too low, by no more than MaxLag; a slow switch makes them too high.     *)
DivisorSound ==
  ~clockSet.measured =>
    /\ step = "evaluated" =>
         /\ windowSize <= lastWindowSize
         /\ collected \in lastWindowSize - MaxLag .. lastWindowSize + 4 * MaxLag
    /\ step = "crashed" => windowSize = 0

(* What makes DivisorSound inductive: how far the clock has come in each   *)
(* step of the loop since last_switched was read and since the counters    *)
(* were reset.                                                             *)
WindowRuns ==
  /\ ~clockSet.since =>
       /\ elapsed = sinceSwitch
       /\ step = "measure" => windowSize <= sinceSwitch
  /\ ~clockSet.measured =>
       /\ step \in {"close", "open", "evaluate", "evaluated", "crashed"} =>
            windowSize <= lastWindowSize
       /\ step = "close" => sinceSwitch = lastWindowSize
       /\ step = "open" => sinceSwitch \in lastWindowSize .. lastWindowSize + MaxLag

CountersRun ==
  /\ step \in {"wait", "measure", "close", "open", "evaluated"} =>
       sinceReset \in sinceSwitch - MaxLag .. sinceSwitch + MaxLag
  /\ step = "evaluate" =>
       /\ sinceSwitch = 0
       /\ ~clockSet.measured =>
            sinceReset \in lastWindowSize - MaxLag .. lastWindowSize + 3 * MaxLag
  /\ step = "off" => sinceSwitch = 0 /\ sinceReset = 0 /\ ~clockSet.since

ClockInv == ClockTypeOK /\ WindowRuns /\ CountersRun /\ DivisorSound
================================================================================
