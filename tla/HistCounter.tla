------------------------------ MODULE HistCounter ------------------------------
(***************************************************************************)
(* histcounter.c: a ring of num_slots counters of slot_size milliseconds   *)
(* each, with the running total of the ring and, per measure (bytes, pkts), *)
(* the index of the fullest slot.  histc_add spreads a flow record over    *)
(* the slots of its duration; one iteration of its loop is one step here,  *)
(* so that every invariant is also one of the loop.                        *)
(*                                                                         *)
(* global_slot_number is a C int: with 10 s slots a timestamp in           *)
(* milliseconds stays far below 2^31, and the model has no wraparound.     *)
(***************************************************************************)
EXTENDS Integers

CONSTANTS
  NumSlots,    \* histc_t.num_slots
  SlotSize,    \* histc_t.slot_size
  Measures,    \* what is counted: bytes and pkts, handled alike
  Amounts,     \* environment: what a record may carry, per measure
  Starts,      \* environment: start timestamps of records
  Durations,   \* environment: durations of records
  MaxGlobal,   \* bound: largest global slot number of the records
  MaxAdds      \* bound: records added

ASSUME HistCounterAssumption ==
  /\ NumSlots \in Nat \ {0} /\ SlotSize \in Nat \ {0}
  /\ Amounts \subseteq [Measures -> Nat]
  /\ Starts \subseteq Nat /\ Durations \subseteq Nat
  /\ MaxGlobal \in Nat /\ MaxAdds \in Nat
  /\ \A t \in Starts, d \in Durations : (t + d) \div SlotSize <= MaxGlobal

Slots == 0 .. NumSlots - 1
GlobalSlots == 0 .. MaxGlobal

VARIABLES
  slots,     \* histc_t.slots: global slot number and count per measure
  total,     \* histc_t.bytes and histc_t.pkts
  peak,      \* histc_t.peak_slot_bytes and peak_slot_pkts
  time,      \* histc_t.time
  ts, end,   \* histc_add: slot_ts and start_time + duration; ts >= end when idle
  duration,  \* histc_add: duration of the last record
  share,     \* histc_add: bytes_per_slot and pkts_per_slot
  due,       \* history: num_slots of the record that was not placed yet
  late,      \* history: some record was older than the whole ring
  ledger,    \* history: all that was ever added for a global slot number
  newest,    \* history: the newest global slot number, -1 before any
  adds       \* bound: records added so far

loop == <<ts, end, duration, share>>
vars == <<slots, total, peak, time, loop, due, late, ledger, newest, adds>>

Zero == [m \in Measures |-> 0]

TypeOK ==
  /\ slots \in [Slots -> [g : Nat, count : [Measures -> Nat]]]
  /\ total \in [Measures -> Nat]
  /\ peak \in [Measures -> Slots]
  /\ time \in Nat
  /\ ts \in Nat /\ end \in Nat /\ duration \in Nat
  /\ share \in [Measures -> Nat]
  /\ due \in Nat
  /\ late \in BOOLEAN
  /\ ledger \in [GlobalSlots -> [Measures -> Nat]]
  /\ newest \in GlobalSlots \cup {-1}
  /\ adds \in 0 .. MaxAdds

(* histc_init on a zeroed structure. *)
Init ==
  /\ slots = [i \in Slots |-> [g |-> 0, count |-> Zero]]
  /\ total = Zero /\ peak = Zero /\ time = 0
  /\ ts = 0 /\ end = 0 /\ duration = 0 /\ share = Zero
  /\ due = 0 /\ late = FALSE /\ newest = -1 /\ adds = 0
  /\ ledger = [g \in GlobalSlots |-> Zero]

--------------------------------------------------------------------------------
(* histcounter.c:33-42: the number of slots the record is divided among. *)
SharesExtraBug(d) == d \div SlotSize + 1
Shares(d) ==
  IF d = 0 THEN 1 ELSE d \div SlotSize + (IF d % SlotSize > 0 THEN 1 ELSE 0)

(* histcounter.c:71: the slot belongs to another time. *)
ChangedNeverBug(k, g) == FALSE
Changed(k, g) == slots[k].g # g

(* histcounter.c:74: the total without what the slot held. *)
WithdrawnForgottenBug(m, k) == total[m]
WithdrawnPeakBug(m, k) == total[m] - slots[peak[m]].count[m]
Withdrawn(m, k) == total[m] - slots[k].count[m]

(* histcounter.c:84-88 and 92-96: the scan ends on the last fullest slot. *)
RescannedSkippedBug(s, m) == peak[m]
Rescanned(s, m) ==
  CHOOSE i \in Slots :
    \A j \in Slots : \/ s[j].count[m] < s[i].count[m]
                     \/ s[j].count[m] = s[i].count[m] /\ j <= i

--------------------------------------------------------------------------------
(* histc_add is called while no other call runs. *)
BeginAdd ==
  /\ ts >= end /\ adds < MaxAdds
  /\ \E a \in Amounts, t \in Starts, d \in Durations :
       /\ ts' = t /\ end' = t + d /\ duration' = d
       /\ share' = [m \in Measures |-> a[m] \div Shares(d)]
       /\ due' = Shares(d)
  /\ adds' = adds + 1
  /\ UNCHANGED <<slots, total, peak, time, late, ledger, newest>>

(* One iteration of the loop of histc_add. *)
AddShare ==
  /\ ts < end
  /\ LET g == ts \div SlotSize
         k == g % NumSlots
         cleared == IF Changed(k, g)
                      THEN [slots EXCEPT ![k] = [g |-> g, count |-> Zero]] ELSE slots
         rest(m) == IF Changed(k, g) THEN Withdrawn(m, k) ELSE total[m]
         top(m) == IF Changed(k, g) /\ peak[m] = k THEN Rescanned(cleared, m)
                                                   ELSE peak[m]
         added == [cleared EXCEPT ![k].count =
                     [m \in Measures |-> @[m] + share[m]]]
     IN  /\ slots' = added
         /\ total' = [m \in Measures |-> rest(m) + share[m]]
         /\ peak' = [m \in Measures |->
                       IF added[k].count[m] >= added[top(m)].count[m] THEN k ELSE top(m)]
         /\ late' = (late \/ g <= newest - NumSlots)
         /\ newest' = IF g > newest THEN g ELSE newest
         /\ ledger' = [ledger EXCEPT ![g] = [m \in Measures |-> @[m] + share[m]]]
  /\ time' = time + ts
  /\ ts' = ts + SlotSize
  /\ due' = due - 1
  /\ UNCHANGED <<end, duration, share, adds>>

(* Model bound: the last record was added. *)
Finished == ts >= end /\ adds = MaxAdds /\ UNCHANGED vars

Next == BeginAdd \/ AddShare \/ Finished

Spec == Init /\ [][Next]_vars

(* histc_get_avg and histc_get_peak, before the factors 1000 and 8. *)
Avg(m) == total[m] \div (SlotSize * NumSlots)
Peak(m) == slots[peak[m]].count[m] \div SlotSize

--------------------------------------------------------------------------------
(* Properties. *)

(* f[0] + ... + f[n - 1]. *)
SumUpTo(f, n) ==
  LET upTo[i \in 0 .. n] == IF i = 0 THEN 0 ELSE upTo[i - 1] + f[i - 1]
  IN  upTo[n]
Counts(m) == [i \in Slots |-> slots[i].count[m]]

(* "slot with peak value" (histcounter.h:26-27), at every iteration of the *)
(* loop: no slot is fuller than the peak slot, though slots are cleared    *)
(* and the peak is only rescanned when the peak slot itself is cleared.    *)
PeakIsMax ==
  \A m \in Measures, i \in Slots : slots[i].count[m] <= slots[peak[m]].count[m]

(* "sum of bytes in all slots" (histcounter.h:23-24), so that the average  *)
(* histc_get_avg gives is never above the peak of histc_get_peak.          *)
TotalIsSum ==
  \A m \in Measures :
    /\ total[m] = SumUpTo(Counts(m), NumSlots)
    /\ Avg(m) <= Peak(m)

(* Unless a record came that was older than the whole ring, every time     *)
(* slot within the ring's length of the newest one that got traffic is in  *)
(* the ring, with exactly the traffic of that time (the reset of a slot    *)
(* whose global number changed).                                           *)
RingExact ==
  ~late => \A g \in GlobalSlots :
             newest - NumSlots < g /\ g <= newest /\ ledger[g] # Zero =>
               slots[g % NumSlots] = [g |-> g, count |-> ledger[g]]

(* The loop of histc_add goes round exactly once per share the record was  *)
(* divided into ("add value in all slots in interval", histcounter.c:63),  *)
(* so that nothing but the remainder is lost, unless the record lasted no  *)
(* time: its one share is not added.                                       *)
SharesPlaced == ts >= end /\ adds > 0 => due = IF duration = 0 THEN 1 ELSE 0

--------------------------------------------------------------------------------
(* What makes PeakIsMax, RingExact and SharesPlaced inductive. *)

(* The types, but for the total: that it is not negative is a fact about a *)
(* sum.                                                                    *)
LoopTyped ==
  /\ slots \in [Slots -> [g : Nat, count : [Measures -> Nat]]]
  /\ peak \in [Measures -> Slots]
  /\ ts \in Nat /\ end \in Nat /\ end \div SlotSize <= MaxGlobal
  /\ duration \in Nat /\ share \in [Measures -> Nat] /\ due \in Int
  /\ late \in BOOLEAN
  /\ ledger \in [GlobalSlots -> [Measures -> Nat]]
  /\ newest \in GlobalSlots \cup {-1}

(* A slot that carries the number of a time has all its traffic, no time   *)
(* newer than the newest has any, and the times of the ring that have some *)
(* are in it.                                                              *)
RingHolds ==
  ~late => \A g \in GlobalSlots :
             /\ slots[g % NumSlots].g = g => slots[g % NumSlots].count = ledger[g]
             /\ newest < g => ledger[g] = Zero
             /\ newest - NumSlots < g /\ g <= newest /\ ledger[g] # Zero =>
                  slots[g % NumSlots].g = g

(* The shares still due are those the rest of the record needs. *)
DueCovers ==
  ts < end => /\ duration > 0
              /\ (due - 1) * SlotSize < end - ts
              /\ end - ts <= due * SlotSize

HistInv == LoopTyped /\ PeakIsMax /\ RingHolds /\ DueCovers /\ SharesPlaced

(* The total follows every change of a slot, so that it is a sum of counts *)
(* and never negative.                                                     *)
TotalKept ==
  /\ total \in [Measures -> Nat] /\ time \in Nat /\ due \in Nat /\ adds \in 0 .. MaxAdds
  /\ \A m \in Measures : total[m] = SumUpTo(Counts(m), NumSlots)
================================================================================
