-------------------------------- MODULE DbStore ---------------------------------
(***************************************************************************)
(* db.c: the client of the database, and as much of the PostgreSQL server  *)
(* as its calls depend on.                                                 *)
(*                                                                         *)
(* nfd_db_store_stats is two statements, an UPDATE and, if that changed no *)
(* row, an INSERT.  Who calls the functions of db.c in what order is in    *)
(* profile.c, which is not in the repository: here any call may come at    *)
(* any time.  The server fails any statement, or drops the connection,     *)
(* whenever it likes, also after it did what it was asked and before it    *)
(* said so; db.c never connects again.  The three counters bytes, pkts and *)
(* flows are treated alike and are one here; the columns with the rates    *)
(* and times are left out.                                                 *)
(***************************************************************************)
EXTENDS Integers

CONSTANTS
  Keys,      \* pairs of a profile and a dynamic_profile
  NullKeys,  \* those whose dynamic_profile is NULL
  Amounts,   \* counter values that are stored
  Byte,      \* number of values of a byte, for htonll
  MaxTotal   \* bound: what the sum of a key may reach

ASSUME DbStoreAssumption ==
  /\ NullKeys \subseteq Keys
  /\ Byte \in Nat \ {0, 1}
  /\ Amounts \subseteq 0 .. (Byte * Byte * Byte * Byte - 1)
  /\ MaxTotal \in Nat

VARIABLES
  pc,        \* step of nfd_db_init, "idle", "insert" inside a store, "exited"
  arg,       \* key and amount of the store under way, <<>> outside one
  inserted, updated,  \* nfd_db_t
  ret,       \* the last function to return, and what it returned
  conn,      \* server: the connection is "up" or "lost"
  txn,       \* server: transaction "none", "open" or "failed"
  table,     \* server: nfd_counters as committed
  work,      \* server: nfd_counters as the transaction sees it
  accepted,  \* history: per key, sum of the transaction's stores that returned 1
  reported   \* history: an error was reported since then

clientVars == <<pc, arg, inserted, updated>>
serverVars == <<conn, txn, table, work>>
history == <<accepted, reported>>
vars == <<clientVars, ret, serverVars, history>>

(* A table: for each key the number of its rows and the sum they hold. *)
Tables == [Keys -> [rows : Nat, sum : Nat]]
Empty == [k \in Keys |-> [rows |-> 0, sum |-> 0]]
None == [k \in Keys |-> 0]
Results == [op : {"init", "begin", "store", "update", "end"}, ok : BOOLEAN]
Outcome(op, ok) == [op |-> op, ok |-> ok]

TypeOK ==
  /\ pc \in {"connect", "prepare_update", "prepare_insert", "idle", "insert", "exited"}
  /\ arg \in {<<>>} \cup (Keys \X Amounts)
  /\ inserted \in Nat /\ updated \in Nat
  /\ ret \in Results
  /\ conn \in {"up", "lost"} /\ txn \in {"none", "open", "failed"}
  /\ table \in Tables /\ work \in Tables
  /\ accepted \in [Keys -> Nat] /\ reported \in BOOLEAN
  /\ pc = "insert" <=> arg # <<>>
  /\ txn # "open" => work = table

Init ==
  /\ pc = "connect" /\ arg = <<>>
  /\ inserted = 0 /\ updated = 0
  /\ ret = Outcome("init", TRUE)
  /\ conn = "up" /\ txn = "none" /\ table = Empty /\ work = Empty
  /\ accepted = None /\ reported = FALSE

--------------------------------------------------------------------------------
(* The wire format.  htonl swaps the bytes of a half word of two bytes;    *)
(* htonll(x) is ((uint64_t)htonl(x) << 32) + htonl(x >> 32).               *)
Half == Byte * Byte
htonl(h) == (h % Byte) * Byte + h \div Byte
UnshiftedHtonllBug(x) == htonl(x % Half) + htonl(x \div Half)
htonll(x) == htonl(x % Half) * Half + htonl(x \div Half)

(* The server takes the four bytes of an int8 parameter most significant   *)
(* first; in the memory of the client the least significant comes first.   *)
FromWire(y) ==
  (y % Byte) * Byte * Half + ((y \div Byte) % Byte) * Half
    + ((y \div Half) % Byte) * Byte + y \div (Byte * Half)
Sent(amount) == FromWire(htonll(amount))

--------------------------------------------------------------------------------
(* The server. *)

(* A statement runs if the connection is there and the transaction has not *)
(* failed; it may fail for reasons of the server's own, and then takes an  *)
(* open transaction with it.                                               *)
Runs == conn = "up" /\ txn # "failed"
FailsWithoutRollbackBug ==
  /\ txn' = IF txn = "open" THEN "failed" ELSE txn
  /\ UNCHANGED <<conn, table, work>>
StatementFails ==
  /\ txn' = IF txn = "open" THEN "failed" ELSE txn
  /\ work' = IF txn = "open" THEN table ELSE work
  /\ UNCHANGED <<conn, table>>

(* The effect of a statement on the rows: at once if no transaction is     *)
(* open, else when it is committed.                                        *)
Becomes(rows) ==
  /\ work' = rows
  /\ table' = IF txn = "none" THEN rows ELSE table
  /\ UNCHANGED <<conn, txn>>

(* Outside a transaction the statement takes effect, and the connection is *)
(* lost before the server says so.  (In one it is undone: LoseConnection,  *)
(* and then StatementFails.)                                               *)
Unanswered(rows) ==
  /\ Runs /\ txn = "none"
  /\ work' = rows /\ table' = rows
  /\ conn' = "lost" /\ UNCHANGED txn

(* UPDATE ... WHERE profile = $1 and dynamic_profile = $2: no row equals   *)
(* NULL.  Each row that does is increased.                                 *)
NeverMatchesBug(k) == 0
Matching(k) == IF k \in NullKeys THEN 0 ELSE work[k].rows
UpdatedRows(k, a) ==
  [work EXCEPT ![k] = [rows |-> @.rows, sum |-> @.sum + Matching(k) * Sent(a)]]
InsertedRow(k, a) ==
  [work EXCEPT ![k] = [rows |-> @.rows + 1, sum |-> @.sum + Sent(a)]]

(* The server goes away; what was not committed is gone. *)
LoseConnection ==
  /\ conn = "up"
  /\ conn' = "lost" /\ txn' = "none" /\ work' = table
  /\ UNCHANGED <<clientVars, ret, table, history>>

--------------------------------------------------------------------------------
(* nfd_db_init, and main, which exits if it fails. *)
Connected(step, next) ==
  /\ pc = step
  /\ \/ Runs /\ pc' = next /\ UNCHANGED ret
     \/ pc' = "exited" /\ ret' = Outcome("init", FALSE)
  /\ UNCHANGED <<arg, inserted, updated, serverVars, history>>
Connect == Connected("connect", "prepare_update")
PrepareUpdate == Connected("prepare_update", "prepare_insert")
PrepareInsert == Connected("prepare_insert", "idle")

(* A function returns 0 after msg(MSG_ERROR). *)
Fails(op) == ret' = Outcome(op, FALSE) /\ reported' = TRUE

(* nfd_db_begin_transaction.  Inside a transaction BEGIN is a warning. *)
Begin ==
  /\ pc = "idle" /\ Runs
  /\ txn' = "open"
  /\ inserted' = 0 /\ updated' = 0
  /\ IF txn = "none" THEN accepted' = None /\ reported' = FALSE ELSE UNCHANGED history
  /\ ret' = Outcome("begin", TRUE)
  /\ UNCHANGED <<pc, arg, conn, table, work>>
BeginFails ==
  /\ pc = "idle" /\ StatementFails
  /\ Fails("begin")
  /\ UNCHANGED <<clientVars, accepted>>

(* nfd_db_end_transaction.  END outside a transaction is a warning, END of *)
(* a failed one rolls it back: both are PGRES_COMMAND_OK.  When it fails,  *)
(* nothing is committed; or all is, and the answer was lost.               *)
End ==
  /\ pc = "idle" /\ conn = "up"
  /\ table' = IF txn = "open" THEN work ELSE table
  /\ work' = table'
  /\ txn' = "none"
  /\ ret' = Outcome("end", TRUE)
  /\ UNCHANGED <<clientVars, conn, history>>
EndFails ==
  /\ pc = "idle"
  /\ \/ UNCHANGED <<conn, table>>
     \/ txn = "open" /\ table' = work /\ conn' = "lost"
  /\ txn' = "none" /\ work' = table'
  /\ Fails("end")
  /\ UNCHANGED <<clientVars, accepted>>

(* nfd_db_store_stats: the UPDATE. *)
Count(k, a) ==
  accepted' = IF txn = "open" THEN [accepted EXCEPT ![k] = @ + a] ELSE accepted
StoreUpdates ==
  /\ pc = "idle" /\ Runs
  /\ \E k \in Keys, a \in Amounts :
       /\ work[k].sum + a <= MaxTotal
       /\ Becomes(UpdatedRows(k, a))
       /\ IF Matching(k) > 0
          THEN /\ updated' = updated + 1 /\ ret' = Outcome("store", TRUE)
               /\ Count(k, a) /\ UNCHANGED <<pc, arg>>
          ELSE /\ pc' = "insert" /\ arg' = <<k, a>>
               /\ UNCHANGED <<updated, ret, accepted>>
  /\ UNCHANGED <<inserted, reported>>
UpdateFails ==
  /\ pc = "idle"
  /\ \/ StatementFails
     \/ \E k \in Keys, a \in Amounts :
          work[k].sum + a <= MaxTotal /\ Unanswered(UpdatedRows(k, a))
  /\ Fails("store")
  /\ UNCHANGED <<clientVars, accepted>>

(* and the INSERT. *)
StoreInserts ==
  /\ pc = "insert" /\ Runs
  /\ Becomes(InsertedRow(arg[1], arg[2]))
  /\ pc' = "idle" /\ arg' = <<>> /\ inserted' = inserted + 1
  /\ ret' = Outcome("store", TRUE) /\ Count(arg[1], arg[2])
  /\ UNCHANGED <<updated, reported>>
UnreportedInsertBug ==
  /\ pc = "insert" /\ StatementFails
  /\ pc' = "idle" /\ arg' = <<>>
  /\ ret' = Outcome("store", TRUE) /\ Count(arg[1], arg[2])
  /\ UNCHANGED <<inserted, updated, reported>>
InsertFails ==
  /\ pc = "insert"
  /\ StatementFails \/ Unanswered(InsertedRow(arg[1], arg[2]))
  /\ pc' = "idle" /\ arg' = <<>>
  /\ Fails("store")
  /\ UNCHANGED <<inserted, updated, accepted>>

(* nfd_db_update_counters changes only the columns with rates and previous *)
(* values; it reports an error of the statement, but returns 1.            *)
UpdateCounters ==
  /\ pc = "idle"
  /\ \/ Runs /\ UNCHANGED <<serverVars, reported>>
     \/ StatementFails /\ reported' = TRUE
  /\ ret' = Outcome("update", TRUE)
  /\ UNCHANGED <<clientVars, accepted>>

Exited == pc = "exited" /\ UNCHANGED vars

Next ==
  \/ Connect \/ PrepareUpdate \/ PrepareInsert
  \/ Begin \/ BeginFails \/ End \/ EndFails
  \/ StoreUpdates \/ UpdateFails \/ StoreInserts \/ InsertFails
  \/ UpdateCounters \/ LoseConnection \/ Exited

Spec == Init /\ [][Next]_vars

--------------------------------------------------------------------------------
(* Properties *)

(* A profile with a dynamic part has one row, however often and after      *)
(* whatever errors it is stored: the UPDATE of one store finds the row the *)
(* INSERT of an earlier one made.  (The rows of a NULL key are never found *)
(* again: each store adds one.)                                            *)
OneRowPerKey ==
  \A k \in Keys \ NullKeys : table[k].rows <= 1 /\ work[k].rows <= 1

(* The sums in the table are a ledger of the stores. *)
Sums(t) == [k \in Keys |-> t[k].sum]
Ledger == INSTANCE DbLedger WITH
  total <- Sums(table),
  pending <- [k \in Keys |-> work[k].sum - table[k].sum]
ImplementsLedger == Ledger!Spec

(* When END returns 1, everything the caller was told was stored is in the *)
(* table, unless an error was reported since BEGIN: then nothing is.  A    *)
(* caller that looks at END's result alone takes a roll back for success.  *)
(* (When END returns 0 all of it may be there: the answer may be lost.)    *)
EndReturnsOk == txn # "none" /\ ret' = Outcome("end", TRUE) /\ UNCHANGED conn
StoredUnlessReported ==
  [][EndReturnsOk =>
       \A k \in Keys :
         table'[k].sum = table[k].sum + IF reported THEN 0 ELSE accepted[k]]_vars

--------------------------------------------------------------------------------
(* What makes the properties inductive. *)

(* A transaction only adds rows and only increases sums. *)
TransactionAdds ==
  \A k \in Keys : table[k].rows <= work[k].rows /\ table[k].sum <= work[k].sum

(* The key that is about to be inserted has no row yet. *)
InsertIsNeeded == pc = "insert" /\ arg[1] \notin NullKeys => work[arg[1]].rows = 0

(* An open transaction holds what was accepted in it, and one that has     *)
(* failed was reported.                                                    *)
AcceptedIsPending ==
  /\ txn = "open" => /\ ~reported
                     /\ \A k \in Keys : work[k].sum = table[k].sum + accepted[k]
  /\ txn = "failed" => reported

StoreInv ==
  TypeOK /\ OneRowPerKey /\ TransactionAdds /\ InsertIsNeeded /\ AcceptedIsPending
================================================================================
