----------------------------- MODULE DbStoreProofs -----------------------------
(***************************************************************************)
(* Proofs about DbStore, for any profiles, counter values and failures:    *)
(* the bytes of a counter arrive in their order, a profile has one row,    *)
(* nothing accepted is lost unless an error was reported, and the table    *)
(* of counters is the ledger of DbLedger.                                  *)
(***************************************************************************)
EXTENDS DbStore, TLAPS

--------------------------------------------------------------------------------
(* Bytes.  A number of two digits of base b is taken apart again. *)

LEMMA DivMod ==
  ASSUME NEW a \in Nat, NEW b \in Nat \ {0}
  PROVE  /\ a \div b \in Nat /\ a % b \in 0 .. b - 1
         /\ a = (a \div b) * b + (a % b)
OBVIOUS

LEMMA NextMultiple ==
  ASSUME NEW b \in Nat, NEW p \in Int, NEW q \in Int, p < q
  PROVE  p * b + b <= q * b
OBVIOUS

LEMMA Digits ==
  ASSUME NEW b \in Nat \ {0}, NEW q \in Nat, NEW r \in 0 .. b - 1
  PROVE  (q * b + r) \div b = q /\ (q * b + r) % b = r
<1> DEFINE x == q * b + r
           p == x \div b
           s == x % b
<1>1. x \in Nat /\ q * b \in Nat
  OBVIOUS
<1>2. p \in Nat /\ s \in 0 .. b - 1 /\ x = p * b + s /\ p * b \in Nat
  <2> HIDE DEF x
  <2>1. p \in Nat /\ s \in 0 .. b - 1 /\ x = p * b + s
    BY <1>1, DivMod
  <2> HIDE DEF p
  <2>2. p * b \in Nat
    BY <2>1
  <2> QED
    BY <2>1, <2>2
<1>3. p < q => p * b + b <= q * b
  BY <1>2, NextMultiple
<1>4. q < p => q * b + b <= p * b
  BY <1>2, NextMultiple
<1>5. x = q * b + r
  OBVIOUS
<1> HIDE DEF x, p, s
<1>6. p = q
  BY <1>1, <1>2, <1>3, <1>4, <1>5
<1>7. s = r
  BY <1>1, <1>2, <1>5, <1>6
<1> QED
  BY <1>6, <1>7 DEF x, p, s

(* Two digits fit in a number of two digits. *)
LEMMA Fits ==
  ASSUME NEW b \in Nat \ {0}, NEW c \in Nat \ {0}, NEW q \in 0 .. c - 1, NEW r \in 0 .. b - 1
  PROVE  q * b + r \in 0 .. c * b - 1
<1>1. q * b + b <= c * b
  BY NextMultiple
<1> QED
  BY <1>1

(* The upper digit of a number of two digits is below c. *)
LEMMA Upper ==
  ASSUME NEW b \in Nat \ {0}, NEW c \in Nat \ {0}, NEW a \in 0 .. c * b - 1
  PROVE  a \div b \in 0 .. c - 1
<1> DEFINE q == a \div b
<1>1. c * b \in Nat /\ a \in Nat
  OBVIOUS
<1>2. q \in Nat /\ a % b \in 0 .. b - 1 /\ a = q * b + (a % b) /\ q * b \in Nat
  <2>1. q \in Nat /\ a % b \in 0 .. b - 1 /\ a = q * b + (a % b)
    BY <1>1, DivMod
  <2> HIDE DEF q
  <2>2. q * b \in Nat
    BY <2>1
  <2> QED
    BY <2>1, <2>2
<1>3. c * b <= q * b \/ q < c
  <2>1. CASE q = c
    BY <2>1, <1>2
  <2>2. CASE c < q
    BY <2>2, <1>2, NextMultiple
  <2> QED
    BY <1>2, <2>1, <2>2
<1> HIDE DEF q
<1>4. q < c
  BY <1>1, <1>2, <1>3
<1> QED
  BY <1>2, <1>4 DEF q

(* htonl swaps the two bytes of a half word. *)
LEMMA HtonlSwaps ==
  ASSUME NEW q \in 0 .. Byte - 1, NEW r \in 0 .. Byte - 1
  PROVE  htonl(q * Byte + r) = r * Byte + q
BY Digits, DbStoreAssumption DEF htonl

(* The server reads the number the client wrote (htonll, db.c:15-16).      *)
THEOREM BytesArrive ==
  ASSUME NEW a \in 0 .. Byte * Byte * Byte * Byte - 1
  PROVE  Sent(a) = a
<1> DEFINE hi == a \div Half
           lo == a % Half
           h1 == hi \div Byte
           h0 == hi % Byte
           l1 == lo \div Byte
           l0 == lo % Byte
<1>1. Byte \in Nat \ {0} /\ Half \in Nat \ {0}
  BY DbStoreAssumption DEF Half
<1>2. a \in Nat /\ a \in 0 .. Half * Half - 1
  BY <1>1 DEF Half
<1>3. hi \in 0 .. Half - 1 /\ lo \in 0 .. Half - 1 /\ a = hi * Half + lo
  BY <1>1, <1>2, Upper, DivMod
<1> HIDE DEF hi, lo
<1>4. /\ h1 \in 0 .. Byte - 1 /\ h0 \in 0 .. Byte - 1 /\ hi = h1 * Byte + h0
      /\ l1 \in 0 .. Byte - 1 /\ l0 \in 0 .. Byte - 1 /\ lo = l1 * Byte + l0
  <2>1. hi \in Nat /\ lo \in Nat /\ hi \in 0 .. Byte * Byte - 1 /\ lo \in 0 .. Byte * Byte - 1
    BY <1>1, <1>3 DEF Half
  <2> QED
    BY <1>1, <2>1, Upper, DivMod
<1> HIDE DEF h1, h0, l1, l0
<1> DEFINE low == l0 * Byte + l1
           high == h0 * Byte + h1
           y == low * Half + high
<1>5. htonll(a) = y
  <2>1. htonl(lo) = low /\ htonl(hi) = high
    BY <1>4, HtonlSwaps
  <2> QED
    BY <2>1 DEF htonll, hi, lo
<1>6. low \in 0 .. Half - 1 /\ high \in 0 .. Half - 1
  BY <1>1, <1>4, Fits DEF Half
<1>7. /\ y \div Half = low
      /\ low % Byte = l1 /\ low \div Byte = l0
      /\ high % Byte = h1
  <2>1. low % Byte = l1 /\ low \div Byte = l0
    BY <1>1, <1>4, Digits
  <2>2. high % Byte = h1
    BY <1>1, <1>4, Digits
  <2> HIDE DEF low, high
  <2>3. y \div Half = low
    BY <1>1, <1>6, Digits
  <2> QED
    BY <2>1, <2>2, <2>3
<1>8. y = (low * Byte + h0) * Byte + h1
  BY <1>1, <1>4, <1>6 DEF Half
<1>9. y % Byte = h1 /\ (y \div Byte) % Byte = h0
  <2>1. low * Byte + h0 \in Nat
    BY <1>1, <1>4, <1>6
  <2> DEFINE z == low * Byte + h0
  <2>2. z % Byte = h0
    BY <1>1, <1>4, <1>6, Digits
  <2> HIDE DEF z, low, high
  <2>3. y = z * Byte + h1 /\ z \in Nat
    BY <1>8, <2>1 DEF z
  <2> HIDE DEF y
  <2>4. y \div Byte = z /\ y % Byte = h1
    BY <1>1, <1>4, <2>3, Digits
  <2> QED
    BY <2>2, <2>4
<1>10. y \div (Byte * Half) = l0
  <2>1. y = l0 * (Byte * Half) + (l1 * Half + high)
    BY <1>1, <1>4, <1>6
  <2>2. l1 * Half + high \in 0 .. Byte * Half - 1
    BY <1>1, <1>4, <1>6, Fits
  <2>3. Byte * Half \in Nat \ {0}
    BY <1>1
  <2> HIDE DEF y
  <2> QED
    BY <1>4, <2>1, <2>2, <2>3, Digits
<1> HIDE DEF y
<1>11. Sent(a) = h1 * Byte * Half + h0 * Half + l1 * Byte + l0
  BY <1>5, <1>7, <1>9, <1>10 DEF Sent, FromWire
<1>12. (h1 * Byte + h0) * Half = h1 * Byte * Half + h0 * Half
  BY <1>1, <1>4
<1> QED
  BY <1>1, <1>3, <1>4, <1>11, <1>12

--------------------------------------------------------------------------------
(* What the two statements of a store do to the rows. *)

LEMMA SentIsAmount ==
  ASSUME NEW a \in Amounts
  PROVE  Sent(a) = a /\ a \in Nat
<1>1. a \in 0 .. Byte * Byte * Byte * Byte - 1
  BY DbStoreAssumption
<1>2. a \in Nat
  BY <1>1
<1> QED
  BY <1>1, <1>2, BytesArrive

LEMMA UpdateEffect ==
  ASSUME TypeOK, OneRowPerKey, NEW k \in Keys, NEW a \in Amounts
  PROVE  /\ UpdatedRows(k, a) \in Tables
         /\ \A j \in Keys : UpdatedRows(k, a)[j].rows = work[j].rows
         /\ Matching(k) > 0 =>
              \A j \in Keys : UpdatedRows(k, a)[j].sum =
                                IF j = k THEN work[j].sum + a ELSE work[j].sum
         /\ ~(Matching(k) > 0) =>
              UpdatedRows(k, a) = work /\ (k \notin NullKeys => work[k].rows = 0)
<1>1. work \in Tables /\ work[k] \in [rows : Nat, sum : Nat]
  BY DEF TypeOK, Tables
<1>2. Matching(k) \in {0, 1} /\ (k \notin NullKeys => Matching(k) = work[k].rows)
  BY <1>1 DEF OneRowPerKey, Matching
<1>3. Sent(a) = a /\ a \in Nat
  BY SentIsAmount
<1> DEFINE add == Matching(k) * Sent(a)
<1>4. add = IF Matching(k) > 0 THEN a ELSE 0
  BY <1>2, <1>3
<1>5. UpdatedRows(k, a) = [work EXCEPT ![k] = [rows |-> work[k].rows, sum |-> work[k].sum + add]]
  BY <1>1 DEF UpdatedRows
<1> HIDE DEF add
<1>6. [rows |-> work[k].rows, sum |-> work[k].sum + add] \in [rows : Nat, sum : Nat]
  BY <1>1, <1>3, <1>4
<1>7. UpdatedRows(k, a) \in Tables
  BY <1>1, <1>5, <1>6 DEF Tables
<1>8. \A j \in Keys : /\ UpdatedRows(k, a)[j].rows = work[j].rows
                      /\ UpdatedRows(k, a)[j].sum =
                           IF j = k THEN work[j].sum + add ELSE work[j].sum
  BY <1>1, <1>5 DEF Tables
<1>9. ASSUME ~(Matching(k) > 0)
      PROVE  UpdatedRows(k, a) = work /\ (k \notin NullKeys => work[k].rows = 0)
  <2>1. [rows |-> work[k].rows, sum |-> work[k].sum + add] = work[k]
    BY <1>1, <1>4, <1>9
  <2>2. UpdatedRows(k, a) = work
    BY <1>1, <1>5, <2>1 DEF Tables
  <2> QED
    BY <1>1, <1>2, <1>9, <2>2
<1> QED
  BY <1>4, <1>7, <1>8, <1>9

LEMMA InsertEffect ==
  ASSUME TypeOK, NEW k \in Keys, NEW a \in Amounts
  PROVE  /\ InsertedRow(k, a) \in Tables
         /\ \A j \in Keys :
              /\ InsertedRow(k, a)[j].rows = IF j = k THEN work[j].rows + 1 ELSE work[j].rows
              /\ InsertedRow(k, a)[j].sum = IF j = k THEN work[j].sum + a ELSE work[j].sum
<1>1. work \in Tables /\ \A j \in Keys : work[j] \in [rows : Nat, sum : Nat]
  BY DEF TypeOK, Tables
<1>2. Sent(a) = a /\ a \in Nat
  BY SentIsAmount
<1>3. InsertedRow(k, a) =
        [work EXCEPT ![k] = [rows |-> work[k].rows + 1, sum |-> work[k].sum + a]]
  BY <1>1, <1>2 DEF InsertedRow, Tables
<1>4. [rows |-> work[k].rows + 1, sum |-> work[k].sum + a] \in [rows : Nat, sum : Nat]
  BY <1>1, <1>2
<1> QED
  BY <1>1, <1>3, <1>4 DEF Tables

(* A statement that fails leaves no transaction open. *)
LEMMA FailureEffect ==
  ASSUME StoreInv, StatementFails
  PROVE  /\ txn' # "open" /\ work' = table /\ table' = table /\ conn' = conn
         /\ txn' \in {"none", "failed"}
BY DEF StoreInv, TypeOK, StatementFails

--------------------------------------------------------------------------------
(* The invariant. *)

LEMMA InitStore == Init => StoreInv
<1> SUFFICES ASSUME Init PROVE StoreInv
  OBVIOUS
<1>1. Empty \in Tables /\ None \in [Keys -> Nat]
  BY DEF Empty, None, Tables
<1>2. TypeOK
  BY <1>1 DEF Init, TypeOK, Results, Outcome
<1>3. OneRowPerKey /\ TransactionAdds
  BY DEF Init, Empty, OneRowPerKey, TransactionAdds
<1>4. InsertIsNeeded /\ AcceptedIsPending
  BY DEF Init, InsertIsNeeded, AcceptedIsPending
<1> QED
  BY <1>2, <1>3, <1>4 DEF StoreInv

LEMMA OutcomeIsResult ==
  ASSUME NEW op \in {"init", "begin", "store", "update", "end"}, NEW ok \in BOOLEAN
  PROVE  Outcome(op, ok) \in Results
BY DEF Outcome, Results

(* After a failure nothing is pending, and the error was reported. *)
LEMMA AfterFailure ==
  ASSUME StoreInv, table' = table, work' = table, txn' \in {"none", "failed"},
         txn' = "failed" => reported', pc' # "insert"
  PROVE  (OneRowPerKey /\ TransactionAdds /\ InsertIsNeeded /\ AcceptedIsPending)'
<1>1. \A k \in Keys : table[k].rows \in Nat /\ table[k].sum \in Nat
  BY DEF StoreInv, TypeOK, Tables
<1>2. OneRowPerKey' /\ TransactionAdds'
  BY <1>1 DEF StoreInv, OneRowPerKey, TransactionAdds
<1>3. InsertIsNeeded' /\ AcceptedIsPending'
  BY DEF InsertIsNeeded, AcceptedIsPending
<1> QED
  BY <1>2, <1>3

LEMMA StepConnect ==
  ASSUME StoreInv, Connect \/ PrepareUpdate \/ PrepareInsert
  PROVE  StoreInv'
<1>1. /\ UNCHANGED <<arg, inserted, updated, conn, txn, table, work, accepted, reported>>
      /\ pc \in {"connect", "prepare_update", "prepare_insert"}
      /\ pc' \in {"prepare_update", "prepare_insert", "idle", "exited"}
      /\ ret' \in {ret, Outcome("init", FALSE)}
  BY DEF Connect, PrepareUpdate, PrepareInsert, Connected, serverVars, history
<1>2. TypeOK'
  <2>1. ret' \in Results
    BY <1>1, OutcomeIsResult DEF StoreInv, TypeOK
  <2> QED
    BY <1>1, <2>1 DEF StoreInv, TypeOK
<1>3. (OneRowPerKey /\ TransactionAdds /\ InsertIsNeeded /\ AcceptedIsPending)'
  BY <1>1 DEF StoreInv, OneRowPerKey, TransactionAdds, InsertIsNeeded, AcceptedIsPending
<1> QED
  BY <1>2, <1>3 DEF StoreInv

LEMMA StepBegin ==
  ASSUME StoreInv, Begin
  PROVE  StoreInv'
<1>1. /\ pc = "idle" /\ UNCHANGED <<pc, arg, conn, table, work>>
      /\ inserted' = 0 /\ updated' = 0 /\ ret' = Outcome("begin", TRUE)
      /\ txn' = "open" /\ txn \in {"none", "open"}
      /\ IF txn = "none" THEN accepted' = None /\ reported' = FALSE
                         ELSE accepted' = accepted /\ reported' = reported
  BY DEF Begin, Runs, StoreInv, TypeOK, history
<1>2. TypeOK'
  <2>1. ret' \in Results
    BY <1>1, OutcomeIsResult
  <2>2. accepted' \in [Keys -> Nat]
    BY <1>1 DEF StoreInv, TypeOK, None
  <2>3. reported' \in BOOLEAN
    BY <1>1 DEF StoreInv, TypeOK
  <2> QED
    BY <1>1, <2>1, <2>2, <2>3 DEF StoreInv, TypeOK
<1>3. (OneRowPerKey /\ TransactionAdds /\ InsertIsNeeded)'
  BY <1>1 DEF StoreInv, OneRowPerKey, TransactionAdds, InsertIsNeeded
<1>4. AcceptedIsPending'
  <2>1. CASE txn = "open"
    BY <1>1, <2>1 DEF StoreInv, AcceptedIsPending
  <2>2. CASE txn = "none"
    <3>1. work = table /\ \A k \in Keys : table[k].sum \in Nat
      BY <2>2 DEF StoreInv, TypeOK, Tables
    <3>2. \A k \in Keys : accepted'[k] = 0
      BY <1>1, <2>2 DEF None
    <3> QED
      BY <1>1, <2>2, <3>1, <3>2 DEF AcceptedIsPending
  <2> QED
    BY <1>1, <2>1, <2>2
<1> QED
  BY <1>2, <1>3, <1>4 DEF StoreInv

(* What is returned when a statement fails. *)
LEMMA FailsReturns ==
  ASSUME StoreInv, BeginFails \/ UpdateFails \/ InsertFails
  PROVE  /\ UNCHANGED <<inserted, updated, accepted>>
         /\ pc' = "idle" /\ arg' = <<>>
         /\ ret' \in Results /\ reported' = TRUE
<1>1. ret' \in Results
  BY OutcomeIsResult DEF BeginFails, UpdateFails, InsertFails, Fails
<1>2. pc # "insert" => arg = <<>>
  BY DEF StoreInv, TypeOK
<1> QED
  BY <1>1, <1>2 DEF BeginFails, UpdateFails, InsertFails, Fails, clientVars

(* A statement that took effect and was not answered. *)
LEMMA UnansweredEffect ==
  ASSUME StoreInv, UpdateFails \/ InsertFails, ~StatementFails
  PROVE  /\ txn = "none" /\ txn' = "none" /\ conn' = "lost"
         /\ work' \in Tables /\ table' = work'
         /\ \/ \A j \in Keys : work'[j].sum = work[j].sum
            \/ \E k \in Keys, a \in Amounts : \A j \in Keys :
                 work'[j].sum = IF j = k THEN work[j].sum + a ELSE work[j].sum
         /\ \A j \in Keys \ NullKeys : work'[j].rows <= 1
<1>1. TypeOK /\ OneRowPerKey /\ InsertIsNeeded
  BY DEF StoreInv
<1>2. CASE UpdateFails
  <2>1. PICK k \in Keys, a \in Amounts : Unanswered(UpdatedRows(k, a))
    BY <1>2 DEF UpdateFails
  <2>2. /\ UpdatedRows(k, a) \in Tables
        /\ \A j \in Keys : UpdatedRows(k, a)[j].rows = work[j].rows
        /\ Matching(k) > 0 =>
             \A j \in Keys : UpdatedRows(k, a)[j].sum =
                               IF j = k THEN work[j].sum + a ELSE work[j].sum
        /\ ~(Matching(k) > 0) => UpdatedRows(k, a) = work
    BY <1>1, UpdateEffect
  <2>3. /\ txn = "none" /\ txn' = "none" /\ conn' = "lost"
        /\ work' = UpdatedRows(k, a) /\ table' = UpdatedRows(k, a)
    BY <2>1 DEF Unanswered
  <2>4. \A j \in Keys \ NullKeys : work'[j].rows <= 1
    BY <1>1, <2>2, <2>3 DEF OneRowPerKey
  <2> QED
    BY <2>2, <2>3, <2>4
<1>3. CASE InsertFails
  <2> DEFINE k == arg[1]
             a == arg[2]
  <2>1. k \in Keys /\ a \in Amounts /\ pc = "insert"
    BY <1>1, <1>3 DEF InsertFails, TypeOK
  <2>2. /\ txn = "none" /\ txn' = "none" /\ conn' = "lost"
        /\ work' = InsertedRow(k, a) /\ table' = InsertedRow(k, a)
    BY <1>3 DEF InsertFails, Unanswered
  <2>3. k \notin NullKeys => work[k].rows = 0
    BY <1>1, <2>1 DEF InsertIsNeeded
  <2> HIDE DEF k, a
  <2>4. /\ InsertedRow(k, a) \in Tables
        /\ \A j \in Keys :
             /\ InsertedRow(k, a)[j].rows = IF j = k THEN work[j].rows + 1
                                                      ELSE work[j].rows
             /\ InsertedRow(k, a)[j].sum = IF j = k THEN work[j].sum + a
                                                     ELSE work[j].sum
    BY <1>1, <2>1, InsertEffect
  <2>5. ASSUME NEW j \in Keys \ NullKeys
        PROVE  work'[j].rows <= 1
    <3>1. work'[j].rows = IF j = k THEN work[j].rows + 1 ELSE work[j].rows
      BY <2>2, <2>4
    <3>2. work[j].rows <= 1 /\ (j = k => work[j].rows = 0)
      BY <1>1, <2>3 DEF OneRowPerKey
    <3> QED
      BY <3>1, <3>2
  <2> QED
    BY <2>1, <2>2, <2>4, <2>5
<1> QED
  BY <1>2, <1>3

LEMMA StepFails ==
  ASSUME StoreInv, BeginFails \/ UpdateFails \/ InsertFails
  PROVE  StoreInv'
<1>1. /\ UNCHANGED <<inserted, updated, accepted>>
      /\ pc' = "idle" /\ arg' = <<>>
      /\ ret' \in Results /\ reported' = TRUE
  BY FailsReturns
<1>2. CASE StatementFails
  <2>1. /\ txn' # "open" /\ work' = table /\ table' = table /\ conn' = conn
        /\ txn' \in {"none", "failed"}
    BY <1>2, FailureEffect
  <2>2. TypeOK'
    BY <1>1, <2>1 DEF StoreInv, TypeOK
  <2> QED
    BY <1>1, <2>1, <2>2, AfterFailure DEF StoreInv
<1>3. CASE ~StatementFails
  <2>1. UpdateFails \/ InsertFails
    BY <1>3 DEF BeginFails
  <2>2. /\ txn' = "none" /\ conn' = "lost" /\ work' \in Tables /\ table' = work'
        /\ \A j \in Keys \ NullKeys : work'[j].rows <= 1
    BY <1>3, <2>1, UnansweredEffect
  <2>3. TypeOK'
    BY <1>1, <2>2 DEF StoreInv, TypeOK
  <2>4. OneRowPerKey' /\ TransactionAdds'
    BY <2>2 DEF OneRowPerKey, TransactionAdds, Tables
  <2>5. InsertIsNeeded' /\ AcceptedIsPending'
    BY <1>1, <2>2 DEF InsertIsNeeded, AcceptedIsPending
  <2> QED
    BY <2>3, <2>4, <2>5 DEF StoreInv
<1> QED
  BY <1>2, <1>3

LEMMA StepEnd ==
  ASSUME StoreInv, End \/ EndFails
  PROVE  StoreInv'
<1>1. /\ UNCHANGED <<pc, arg, inserted, updated, accepted>> /\ pc = "idle"
      /\ conn' \in {conn, "lost"}
      /\ txn' = "none" /\ work' = table' /\ table' \in {table, work}
      /\ ret' \in Results /\ reported' \in BOOLEAN
  <2>1. ret' \in Results
    BY OutcomeIsResult DEF End, EndFails, Fails
  <2>2. reported' \in BOOLEAN
    BY DEF End, EndFails, Fails, history, StoreInv, TypeOK
  <2> QED
    BY <2>1, <2>2 DEF End, EndFails, clientVars, history
<1>2. table' \in Tables
  BY <1>1 DEF StoreInv, TypeOK
<1>3. TypeOK'
  BY <1>1, <1>2 DEF StoreInv, TypeOK
<1>4. OneRowPerKey'
  BY <1>1 DEF StoreInv, OneRowPerKey
<1>5. TransactionAdds'
  BY <1>1, <1>2 DEF Tables, TransactionAdds
<1>6. InsertIsNeeded' /\ AcceptedIsPending'
  BY <1>1 DEF InsertIsNeeded, AcceptedIsPending
<1> QED
  BY <1>3, <1>4, <1>5, <1>6 DEF StoreInv

LEMMA StepUpdateCounters ==
  ASSUME StoreInv, UpdateCounters
  PROVE  StoreInv'
<1>1. /\ pc = "idle" /\ UNCHANGED <<pc, arg, inserted, updated, accepted>>
      /\ ret' \in Results
  BY DEF UpdateCounters, clientVars, Results, Outcome
<1>2. CASE UNCHANGED <<serverVars, reported>>
  BY <1>1, <1>2 DEF serverVars, StoreInv, TypeOK, OneRowPerKey, TransactionAdds,
                    InsertIsNeeded, AcceptedIsPending
<1>3. CASE StatementFails /\ reported' = TRUE
  <2>1. /\ txn' # "open" /\ work' = table /\ table' = table /\ conn' = conn
        /\ txn' \in {"none", "failed"}
    BY <1>3, FailureEffect
  <2>2. TypeOK'
    BY <1>1, <1>3, <2>1 DEF StoreInv, TypeOK
  <2> QED
    BY <1>1, <1>3, <2>1, <2>2, AfterFailure DEF StoreInv
<1> QED
  BY <1>2, <1>3 DEF UpdateCounters

LEMMA StepLoseConnection ==
  ASSUME StoreInv, LoseConnection
  PROVE  StoreInv'
<1>1. /\ UNCHANGED <<pc, arg, inserted, updated, ret, table, accepted, reported>>
      /\ conn' = "lost" /\ txn' = "none" /\ work' = table
  BY DEF LoseConnection, clientVars, history
<1>2. TypeOK'
  BY <1>1 DEF StoreInv, TypeOK
<1>3. \A k \in Keys : table[k].rows \in Nat /\ table[k].sum \in Nat /\ work[k].rows \in Nat
  BY DEF StoreInv, TypeOK, Tables
<1>4. OneRowPerKey' /\ TransactionAdds' /\ AcceptedIsPending'
  BY <1>1, <1>3 DEF StoreInv, OneRowPerKey, TransactionAdds, AcceptedIsPending
<1>5. InsertIsNeeded'
  <2>1. pc = "insert" => arg[1] \in Keys
    BY DEF StoreInv, TypeOK
  <2> QED
    BY <1>1, <1>3, <2>1 DEF StoreInv, InsertIsNeeded, TransactionAdds
<1> QED
  BY <1>2, <1>4, <1>5 DEF StoreInv

(* A statement that runs, in a transaction or by itself. *)
LEMMA RowsBecome ==
  ASSUME StoreInv, Runs, NEW rows \in Tables, Becomes(rows),
         \A j \in Keys : work[j].rows <= rows[j].rows /\ work[j].sum <= rows[j].sum,
         \A j \in Keys \ NullKeys : rows[j].rows <= 1
  PROVE  /\ work' = rows /\ table' = (IF txn = "open" THEN table ELSE rows)
         /\ table' \in Tables
         /\ UNCHANGED <<conn, txn>> /\ txn \in {"none", "open"}
         /\ OneRowPerKey' /\ TransactionAdds'
<1>1. /\ work' = rows /\ UNCHANGED <<conn, txn>> /\ txn \in {"none", "open"}
      /\ table' = (IF txn = "open" THEN table ELSE rows)
  BY DEF Becomes, Runs, StoreInv, TypeOK
<1>2. table' \in Tables
  BY <1>1 DEF StoreInv, TypeOK
<1>3. \A j \in Keys : /\ rows[j].rows \in Nat /\ rows[j].sum \in Nat
                      /\ work[j].rows \in Nat /\ work[j].sum \in Nat
                      /\ table[j].rows \in Nat /\ table[j].sum \in Nat
  BY DEF StoreInv, TypeOK, Tables
<1>4. OneRowPerKey'
  BY <1>1 DEF StoreInv, OneRowPerKey
<1>5. TransactionAdds'
  BY <1>1, <1>3 DEF StoreInv, TransactionAdds
<1> QED
  BY <1>1, <1>2, <1>4, <1>5

(* An amount that was accepted in a transaction is pending in it. *)
LEMMA Accepted ==
  ASSUME StoreInv, NEW k \in Keys, NEW a \in Amounts, Count(k, a),
         txn \in {"none", "open"}, UNCHANGED <<txn, reported>>,
         txn = "open" => table' = table,
         \A j \in Keys : work'[j].sum = IF j = k THEN work[j].sum + a ELSE work[j].sum
  PROVE  accepted' \in [Keys -> Nat] /\ AcceptedIsPending'
<1>1. accepted \in [Keys -> Nat] /\ a \in Nat
  BY SentIsAmount DEF StoreInv, TypeOK
<1>2. accepted' \in [Keys -> Nat]
  BY <1>1 DEF Count
<1>3. \A j \in Keys : table[j].sum \in Nat /\ work[j].sum \in Nat
  BY DEF StoreInv, TypeOK, Tables
<1>4. ASSUME txn = "open", NEW j \in Keys
      PROVE  work'[j].sum = table'[j].sum + accepted'[j]
  <2>1. work[j].sum = table[j].sum + accepted[j]
    BY <1>4 DEF StoreInv, AcceptedIsPending
  <2>2. accepted'[j] = IF j = k THEN accepted[j] + a ELSE accepted[j]
    BY <1>1, <1>4 DEF Count
  <2> QED
    BY <1>1, <1>3, <1>4, <2>1, <2>2
<1>5. txn = "open" => ~reported'
  BY DEF StoreInv, AcceptedIsPending
<1> QED
  BY <1>2, <1>4, <1>5 DEF AcceptedIsPending

LEMMA StepStoreUpdates ==
  ASSUME StoreInv, StoreUpdates
  PROVE  StoreInv'
<1>1. PICK k \in Keys, a \in Amounts :
        /\ Becomes(UpdatedRows(k, a))
        /\ IF Matching(k) > 0
           THEN /\ updated' = updated + 1 /\ ret' = Outcome("store", TRUE)
                /\ Count(k, a) /\ UNCHANGED <<pc, arg>>
           ELSE /\ pc' = "insert" /\ arg' = <<k, a>>
                /\ UNCHANGED <<updated, ret, accepted>>
  BY DEF StoreUpdates
<1>2. pc = "idle" /\ Runs /\ UNCHANGED <<inserted, reported>>
  BY DEF StoreUpdates
<1> DEFINE rows == UpdatedRows(k, a)
<1>3. /\ rows \in Tables
      /\ \A j \in Keys : rows[j].rows = work[j].rows
      /\ Matching(k) > 0 =>
           \A j \in Keys : rows[j].sum = IF j = k THEN work[j].sum + a ELSE work[j].sum
      /\ ~(Matching(k) > 0) => rows = work /\ (k \notin NullKeys => work[k].rows = 0)
  BY UpdateEffect DEF StoreInv
<1> HIDE DEF rows
<1>4. \A j \in Keys : work[j].rows \in Nat /\ work[j].sum \in Nat /\ a \in Nat
  BY SentIsAmount DEF StoreInv, TypeOK, Tables
<1>5. ASSUME NEW j \in Keys
      PROVE  work[j].rows <= rows[j].rows /\ work[j].sum <= rows[j].sum
  <2>1. work[j].rows \in Nat /\ work[j].sum \in Nat /\ a \in Nat
    BY <1>4
  <2>2. rows[j].rows = work[j].rows /\ rows[j].sum \in {work[j].sum, work[j].sum + a}
    <3>1. CASE Matching(k) > 0
      BY <1>3, <3>1
    <3>2. CASE ~(Matching(k) > 0)
      BY <1>3, <3>2
    <3> QED
      BY <3>1, <3>2
  <2> QED
    BY <2>1, <2>2
<1>6. \A j \in Keys \ NullKeys : rows[j].rows <= 1
  BY <1>3 DEF StoreInv, OneRowPerKey
<1>7. /\ work' = rows /\ table' = (IF txn = "open" THEN table ELSE rows)
      /\ table' \in Tables
      /\ UNCHANGED <<conn, txn>> /\ txn \in {"none", "open"}
      /\ OneRowPerKey' /\ TransactionAdds'
  <2>1. Becomes(rows)
    BY <1>1 DEF rows
  <2> QED
    BY <1>2, <1>3, <1>5, <1>6, <2>1, RowsBecome
<1>8. CASE Matching(k) > 0
  <2>1. accepted' \in [Keys -> Nat] /\ AcceptedIsPending'
    BY <1>1, <1>2, <1>3, <1>7, <1>8, Accepted
  <2>2. ret' \in Results
    BY <1>1, <1>8, OutcomeIsResult
  <2>3. reported' \in BOOLEAN
    BY <1>2 DEF StoreInv, TypeOK
  <2>4. TypeOK'
    <3>1. updated' = updated + 1 /\ UNCHANGED <<pc, arg>>
      BY <1>1, <1>8
    <3>2. updated' \in Nat
      BY <3>1 DEF StoreInv, TypeOK
    <3> QED
      BY <1>2, <1>3, <1>7, <2>1, <2>2, <2>3, <3>1, <3>2 DEF StoreInv, TypeOK
  <2>5. InsertIsNeeded'
    BY <1>1, <1>2, <1>8 DEF InsertIsNeeded
  <2> QED
    BY <1>7, <2>1, <2>4, <2>5 DEF StoreInv
<1>9. CASE ~(Matching(k) > 0)
  <2>1. pc' = "insert" /\ arg' = <<k, a>> /\ UNCHANGED <<updated, ret, accepted>>
    BY <1>1, <1>9
  <2>2. work' = work /\ (txn = "open" => table' = table)
    BY <1>3, <1>7, <1>9
  <2>3. reported' \in BOOLEAN
    BY <1>2 DEF StoreInv, TypeOK
  <2>4. TypeOK'
    BY <1>2, <1>3, <1>7, <2>1, <2>2, <2>3 DEF StoreInv, TypeOK
  <2>5. InsertIsNeeded'
    BY <1>3, <1>9, <2>1, <2>2 DEF InsertIsNeeded
  <2>6. AcceptedIsPending'
    BY <1>2, <1>7, <2>1, <2>2 DEF StoreInv, AcceptedIsPending
  <2> QED
    BY <1>7, <2>4, <2>5, <2>6 DEF StoreInv
<1> QED
  BY <1>8, <1>9

LEMMA StepStoreInserts ==
  ASSUME StoreInv, StoreInserts
  PROVE  StoreInv'
<1> DEFINE k == arg[1]
           a == arg[2]
           rows == InsertedRow(k, a)
<1>1. k \in Keys /\ a \in Amounts
  BY DEF StoreInserts, StoreInv, TypeOK
<1>2. /\ pc = "insert" /\ Runs /\ Becomes(rows) /\ Count(k, a)
      /\ pc' = "idle" /\ arg' = <<>> /\ inserted' = inserted + 1
      /\ ret' = Outcome("store", TRUE) /\ UNCHANGED <<updated, reported>>
  BY DEF StoreInserts
<1>3. k \notin NullKeys => work[k].rows = 0
  BY <1>2 DEF StoreInv, InsertIsNeeded
<1> HIDE DEF k, a
<1>4. /\ rows \in Tables
      /\ \A j \in Keys :
           /\ rows[j].rows = IF j = k THEN work[j].rows + 1 ELSE work[j].rows
           /\ rows[j].sum = IF j = k THEN work[j].sum + a ELSE work[j].sum
  BY <1>1, InsertEffect DEF StoreInv
<1> HIDE DEF rows
<1>5. \A j \in Keys : work[j].rows \in Nat /\ work[j].sum \in Nat /\ a \in Nat
  BY <1>1, SentIsAmount DEF StoreInv, TypeOK, Tables
<1>6. ASSUME NEW j \in Keys
      PROVE  work[j].rows <= rows[j].rows /\ work[j].sum <= rows[j].sum
  <2>1. work[j].rows \in Nat /\ work[j].sum \in Nat /\ a \in Nat
    BY <1>5
  <2>2. /\ rows[j].rows \in {work[j].rows, work[j].rows + 1}
        /\ rows[j].sum \in {work[j].sum, work[j].sum + a}
    BY <1>4
  <2> QED
    BY <2>1, <2>2
<1>7. ASSUME NEW j \in Keys \ NullKeys
      PROVE  rows[j].rows <= 1
  <2>1. rows[j].rows = IF j = k THEN work[j].rows + 1 ELSE work[j].rows
    BY <1>4
  <2>2. work[j].rows <= 1 /\ (j = k => work[j].rows = 0)
    BY <1>3 DEF StoreInv, OneRowPerKey
  <2> QED
    BY <2>1, <2>2
<1>8. /\ work' = rows /\ table' = (IF txn = "open" THEN table ELSE rows)
      /\ table' \in Tables
      /\ UNCHANGED <<conn, txn>> /\ txn \in {"none", "open"}
      /\ OneRowPerKey' /\ TransactionAdds'
  BY <1>2, <1>4, <1>6, <1>7, RowsBecome
<1>9. accepted' \in [Keys -> Nat] /\ AcceptedIsPending'
  BY <1>1, <1>2, <1>4, <1>8, Accepted
<1>10. TypeOK'
  <2>1. ret' \in Results
    BY <1>2, OutcomeIsResult
  <2>2. inserted' \in Nat
    BY <1>2 DEF StoreInv, TypeOK
  <2>3. reported' \in BOOLEAN
    BY <1>2 DEF StoreInv, TypeOK
  <2> QED
    BY <1>2, <1>4, <1>8, <1>9, <2>1, <2>2, <2>3 DEF StoreInv, TypeOK
<1>11. InsertIsNeeded'
  BY <1>2 DEF InsertIsNeeded
<1> QED
  BY <1>8, <1>9, <1>10, <1>11 DEF StoreInv

LEMMA StepStore == StoreInv /\ [Next]_vars => StoreInv'
<1> SUFFICES ASSUME StoreInv, [Next]_vars PROVE StoreInv'
  OBVIOUS
<1>1. CASE Connect \/ PrepareUpdate \/ PrepareInsert
  BY <1>1, StepConnect
<1>2. CASE Begin
  BY <1>2, StepBegin
<1>3. CASE BeginFails \/ UpdateFails \/ InsertFails
  BY <1>3, StepFails
<1>4. CASE End \/ EndFails
  BY <1>4, StepEnd
<1>5. CASE StoreUpdates
  BY <1>5, StepStoreUpdates
<1>6. CASE StoreInserts
  BY <1>6, StepStoreInserts
<1>7. CASE UpdateCounters
  BY <1>7, StepUpdateCounters
<1>8. CASE LoseConnection
  BY <1>8, StepLoseConnection
<1>9. CASE UNCHANGED vars
  BY <1>9 DEF vars, clientVars, serverVars, history, StoreInv, TypeOK, OneRowPerKey,
              TransactionAdds, InsertIsNeeded, AcceptedIsPending
<1>10. CASE Exited
  BY <1>9, <1>10 DEF Exited
<1> QED
  BY <1>1, <1>2, <1>3, <1>4, <1>5, <1>6, <1>7, <1>8, <1>9, <1>10 DEF Next

LEMMA StoreInvariant == Spec => []StoreInv
BY InitStore, StepStore, PTL DEF Spec

--------------------------------------------------------------------------------
(* What is lost and what is not. *)

(* Between BEGIN and END the last function to return was not END. *)
NotEnded == txn # "none" => ret # Outcome("end", TRUE)

LEMMA NotEndedInvariant == Spec => []NotEnded
<1>1. Init => NotEnded
  BY DEF Init, NotEnded
<1>2. NotEnded /\ [Next]_vars => NotEnded'
  <2> SUFFICES ASSUME NotEnded, [Next]_vars PROVE NotEnded'
    OBVIOUS
  <2>1. CASE Connect \/ PrepareUpdate \/ PrepareInsert
    BY <2>1 DEF NotEnded, Outcome, Connect, PrepareUpdate, PrepareInsert, Connected,
                serverVars
  <2>2. CASE Begin
    BY <2>2 DEF NotEnded, Outcome, Begin
  <2>3. CASE BeginFails \/ UpdateFails \/ InsertFails
    BY <2>3 DEF NotEnded, Outcome, BeginFails, UpdateFails, InsertFails, Fails
  <2>4. CASE End \/ EndFails
    BY <2>4 DEF NotEnded, End, EndFails
  <2>5. CASE StoreUpdates
    BY <2>5 DEF NotEnded, Outcome, StoreUpdates, Becomes
  <2>6. CASE StoreInserts
    BY <2>6 DEF NotEnded, Outcome, StoreInserts
  <2>7. CASE UpdateCounters
    BY <2>7 DEF NotEnded, Outcome, UpdateCounters
  <2>8. CASE LoseConnection
    BY <2>8 DEF NotEnded, LoseConnection
  <2>9. CASE UNCHANGED vars
    BY <2>9 DEF NotEnded, vars, serverVars
  <2>10. CASE Exited
    BY <2>9, <2>10 DEF Exited
  <2> QED
    BY <2>1, <2>2, <2>3, <2>4, <2>5, <2>6, <2>7, <2>8, <2>9, <2>10 DEF Next
<1> QED
  BY <1>1, <1>2, PTL DEF Spec

(* Only END itself returns as END. *)
LEMMA EndReturns ==
  ASSUME StoreInv, NotEnded, Next, EndReturnsOk
  PROVE  (End \/ UNCHANGED vars) /\ txn \in {"open", "failed"}
<1>1. txn \in {"open", "failed"} /\ ret' = Outcome("end", TRUE) /\ ret' # ret
  BY DEF EndReturnsOk, NotEnded, StoreInv, TypeOK
<1>2. ~(Connect \/ PrepareUpdate \/ PrepareInsert \/ Begin)
  BY <1>1 DEF Connect, PrepareUpdate, PrepareInsert, Connected, Begin, Outcome
<1>3. ~(BeginFails \/ EndFails \/ UpdateFails \/ InsertFails)
  BY <1>1 DEF BeginFails, EndFails, UpdateFails, InsertFails, Fails, Outcome
<1>4. ~(StoreUpdates \/ StoreInserts)
  BY <1>1 DEF StoreUpdates, StoreInserts, Outcome
<1>5. ~(UpdateCounters \/ LoseConnection)
  BY <1>1 DEF UpdateCounters, LoseConnection, Outcome
<1> QED
  BY <1>1, <1>2, <1>3, <1>4, <1>5 DEF Next, Exited

(* A caller that is told the transaction ended has all its amounts in the  *)
(* table, or was told of an error and has none of them there.              *)
THEOREM NothingLostUnreported == Spec => StoredUnlessReported
<1>1. ASSUME StoreInv, NotEnded, [Next]_vars
      PROVE  [EndReturnsOk =>
                \A k \in Keys :
                  table'[k].sum = table[k].sum + IF reported THEN 0 ELSE accepted[k]]_vars
  <2> SUFFICES ASSUME Next, ~UNCHANGED vars, EndReturnsOk, NEW k \in Keys
      PROVE  table'[k].sum = table[k].sum + IF reported THEN 0 ELSE accepted[k]
    BY <1>1
  <2>1. End /\ txn \in {"open", "failed"}
    BY <1>1, EndReturns
  <2>2. table[k].sum \in Nat
    BY <1>1 DEF StoreInv, TypeOK, Tables
  <2>3. CASE txn = "open"
    <3>1. ~reported /\ work[k].sum = table[k].sum + accepted[k]
      BY <1>1, <2>3 DEF StoreInv, AcceptedIsPending
    <3>2. table' = work
      BY <2>1, <2>3 DEF End
    <3> QED
      BY <3>1, <3>2
  <2>4. CASE txn = "failed"
    <3>1. reported /\ table' = table
      BY <1>1, <2>1, <2>4 DEF StoreInv, AcceptedIsPending, End
    <3> QED
      BY <2>2, <3>1
  <2> QED
    BY <2>1, <2>3, <2>4
<1> QED
  BY <1>1, StoreInvariant, NotEndedInvariant, PTL DEF Spec, StoredUnlessReported

(* The types of the client and the server, for any profiles and amounts.   *)
THEOREM StoreTypeCorrect == Spec => []TypeOK
<1>1. StoreInv => TypeOK
  BY DEF StoreInv
<1> QED
  BY <1>1, StoreInvariant, PTL

(* The two statements of nfd_db_store_stats never give a profile a second  *)
(* row, whatever fails between them.                                       *)
THEOREM NoSecondRow == Spec => []OneRowPerKey
<1>1. StoreInv => OneRowPerKey
  BY DEF StoreInv
<1> QED
  BY <1>1, StoreInvariant, PTL

--------------------------------------------------------------------------------
(* The table is the ledger. *)

LEMMA SumsAreNumbers ==
  ASSUME TypeOK
  PROVE  \A j \in Keys : table[j].sum \in Nat /\ work[j].sum \in Nat
BY DEF TypeOK, Tables

(* An amount goes to the transaction. *)
LEMMA MapsToStore ==
  ASSUME TypeOK, NEW k \in Keys, NEW a \in Amounts, table' = table,
         \A j \in Keys : work'[j].sum = IF j = k THEN work[j].sum + a ELSE work[j].sum
  PROVE  Ledger!Store(k, a)
<1>1. \A j \in Keys : table[j].sum \in Nat /\ work[j].sum \in Nat /\ a \in Nat
  BY SumsAreNumbers, SentIsAmount
<1>2. \A j \in Keys : work'[j].sum - table'[j].sum =
                        IF j = k THEN work[j].sum - table[j].sum + a
                                 ELSE work[j].sum - table[j].sum
  BY <1>1
<1> QED
  BY <1>2 DEF Ledger!Store, Sums

(* Outside a transaction it goes to the table. *)
LEMMA MapsToStoreAtOnce ==
  ASSUME TypeOK, TypeOK', NEW k \in Keys, NEW a \in Amounts, work = table, work' = table',
         \A j \in Keys : work'[j].sum = IF j = k THEN work[j].sum + a ELSE work[j].sum
  PROVE  Ledger!StoreAtOnce(k, a)
<1>1. \A j \in Keys : table[j].sum \in Nat /\ table'[j].sum \in Nat
  BY SumsAreNumbers DEF TypeOK, Tables
<1>2. \A j \in Keys : work[j].sum - table[j].sum = 0 /\ work'[j].sum - table'[j].sum = 0
  BY <1>1
<1> QED
  BY <1>2 DEF Ledger!StoreAtOnce, Ledger!Nothing, Sums

LEMMA MapsToCommit ==
  ASSUME TypeOK, table' = work, work' = work
  PROVE  Ledger!Commit
<1>1. \A j \in Keys : table[j].sum \in Nat /\ work[j].sum \in Nat
  BY SumsAreNumbers
<1>2. \A j \in Keys : /\ work'[j].sum - table'[j].sum = 0
                      /\ table'[j].sum = table[j].sum + (work[j].sum - table[j].sum)
  BY <1>1
<1> QED
  BY <1>2 DEF Ledger!Commit, Ledger!Nothing, Sums

LEMMA MapsToRollback ==
  ASSUME TypeOK, table' = table, work' = table
  PROVE  Ledger!Rollback
<1>1. \A j \in Keys : work'[j].sum - table'[j].sum = 0
  BY SumsAreNumbers
<1> QED
  BY <1>1 DEF Ledger!Rollback, Ledger!Nothing, Sums

(* db.c with its server implements the ledger of counters. *)
THEOREM StoreImplementsLedger == Spec => ImplementsLedger
<1>1. Init => Ledger!Init
  BY DEF Init, Empty, Ledger!Init, Ledger!Nothing, Sums
<1> DEFINE Same == UNCHANGED <<Sums(table), [k \in Keys |-> work[k].sum - table[k].sum]>>
<1>2. ASSUME StoreInv, StoreInv', [Next]_vars
      PROVE  Ledger!Next \/ Same
  <2> USE DEF Ledger!Next
  <2>1. TypeOK /\ TypeOK' /\ OneRowPerKey
    BY <1>2 DEF StoreInv
  <2>2. CASE UNCHANGED <<table, work>>
    BY <2>2 DEF Sums
  <2>3. CASE table' = table /\ work' = table
    BY <2>1, <2>3, MapsToRollback
  <2>4. CASE End
    <3>1. CASE txn = "open"
      BY <2>1, <2>4, <3>1, MapsToCommit DEF End
    <3>2. CASE txn # "open"
      BY <2>1, <2>2, <2>4, <3>2 DEF End, TypeOK
    <3> QED
      BY <3>1, <3>2
  <2>5. ASSUME NEW k \in Keys, NEW a \in Amounts, NEW rows, Becomes(rows), Runs,
               \A j \in Keys : rows[j].sum = IF j = k THEN work[j].sum + a ELSE work[j].sum
        PROVE  Ledger!Next
    <3>1. CASE txn = "open"
      BY <2>1, <2>5, <3>1, MapsToStore DEF Becomes
    <3>2. CASE txn = "none"
      <4>1. work = table /\ work' = table'
        BY <2>1, <2>5, <3>2 DEF Becomes, TypeOK
      <4>2. \A j \in Keys : work'[j].sum = IF j = k THEN work[j].sum + a ELSE work[j].sum
        BY <2>5 DEF Becomes
      <4> QED
        BY <2>1, <4>1, <4>2, MapsToStoreAtOnce
    <3> QED
      BY <2>1, <2>5, <3>1, <3>2 DEF Runs, TypeOK
  <2>6. CASE StoreUpdates
    <3>1. PICK k \in Keys, a \in Amounts : Becomes(UpdatedRows(k, a))
      BY <2>6 DEF StoreUpdates
    <3>2. CASE Matching(k) > 0
      <4>1. \A j \in Keys : UpdatedRows(k, a)[j].sum =
                              IF j = k THEN work[j].sum + a ELSE work[j].sum
        BY <2>1, <3>2, UpdateEffect
      <4>2. Runs
        BY <2>6 DEF StoreUpdates
      <4> QED
        BY <2>5, <3>1, <4>1, <4>2
    <3>3. CASE ~(Matching(k) > 0)
      <4>1. work' = work /\ (txn # "none" => table' = table)
        BY <2>1, <3>1, <3>3, UpdateEffect DEF Becomes
      <4>2. table' = table
        BY <2>1, <2>6, <3>1, <4>1 DEF StoreUpdates, Runs, Becomes, TypeOK
      <4> QED
        BY <2>2, <4>1, <4>2
    <3> QED
      BY <3>2, <3>3
  <2>7. CASE StoreInserts
    <3>1. arg[1] \in Keys /\ arg[2] \in Amounts
      BY <2>1, <2>7 DEF StoreInserts, TypeOK
    <3>2. \A j \in Keys : InsertedRow(arg[1], arg[2])[j].sum =
                            IF j = arg[1] THEN work[j].sum + arg[2] ELSE work[j].sum
      BY <2>1, <3>1, InsertEffect
    <3>3. Runs /\ Becomes(InsertedRow(arg[1], arg[2]))
      BY <2>7 DEF StoreInserts
    <3> QED
      BY <2>5, <3>1, <3>2, <3>3
  <2>8. CASE StatementFails
    BY <1>2, <2>3, <2>8, FailureEffect
  <2>9. CASE (UpdateFails \/ InsertFails) /\ ~StatementFails
    <3>1. /\ txn = "none" /\ table' = work'
          /\ \/ \A j \in Keys : work'[j].sum = work[j].sum
             \/ \E k \in Keys, a \in Amounts : \A j \in Keys :
                  work'[j].sum = IF j = k THEN work[j].sum + a ELSE work[j].sum
      BY <1>2, <2>9, UnansweredEffect
    <3>2. work = table
      BY <2>1, <3>1 DEF TypeOK
    <3>3. CASE \A j \in Keys : work'[j].sum = work[j].sum
      BY <3>1, <3>2, <3>3 DEF Sums
    <3>4. CASE \E k \in Keys, a \in Amounts : \A j \in Keys :
                 work'[j].sum = IF j = k THEN work[j].sum + a ELSE work[j].sum
      BY <2>1, <3>1, <3>2, <3>4, MapsToStoreAtOnce
    <3> QED
      BY <3>1, <3>3, <3>4
  <2>10. CASE EndFails
    <3>1. CASE UNCHANGED table /\ work' = table
      BY <2>3, <3>1
    <3>2. CASE table' = work /\ work' = work
      BY <2>1, <3>2, MapsToCommit
    <3> QED
      BY <2>10, <3>1, <3>2 DEF EndFails
  <2>11. CASE LoseConnection
    BY <2>3, <2>11 DEF LoseConnection
  <2>12. CASE \/ Connect \/ PrepareUpdate \/ PrepareInsert \/ Begin
              \/ Exited \/ UNCHANGED vars
    BY <2>2, <2>12 DEF Connect, PrepareUpdate, PrepareInsert, Connected, Begin, Exited,
                       serverVars, vars
  <2>13. CASE UpdateCounters
    BY <2>2, <2>8, <2>13 DEF UpdateCounters, serverVars
  <2> QED
    BY <1>2, <2>4, <2>6, <2>7, <2>8, <2>9, <2>10, <2>11, <2>12, <2>13
       DEF Next, BeginFails
<1> QED
  BY <1>1, <1>2, StoreInvariant, PTL DEF Spec, ImplementsLedger, Ledger!Spec
================================================================================
