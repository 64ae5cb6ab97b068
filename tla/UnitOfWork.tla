----------------------------- MODULE UnitOfWork -----------------------------
(***************************************************************************)
(* The database as SQLAlchemyUnitOfWork and the Postgres repositories use  *)
(* it: the committed rows, the row locks of SELECT ... FOR UPDATE, and the *)
(* aggregates each open session has loaded.                                *)
(*                                                                         *)
(* Sessions run with autoflush off: nothing is written before commit(),    *)
(* so the flush and the COMMIT are one step.  The isolation level is       *)
(* Postgres' default, READ COMMITTED: a locking read waits for the holder  *)
(* of the row and then returns the row's latest committed version.         *)
(***************************************************************************)
EXTENDS Domain

CONSTANT
    Request           \* the calls of TransferService.initiate

VARIABLES
    opened,           \* the accounts that have a row
    balance,          \* the balance column; 0 where there is no row yet
    txs,              \* the rows of transactions
    outbox,           \* the rows of outbox_messages
    rowLocks,         \* the account rows each request's session has locked
    copy              \* the balances of the aggregates each session loaded

dbVars == <<opened, balance, txs, outbox, rowLocks, copy>>

NoCopy == [a \in AccountId |-> 0]

(* failure_code is nullable.                                               *)
NoCode == "null"

(* A row of transactions: from, to, amount, currency and idempotency_key   *)
(* are those of the command.                                               *)
Row(id, command, status, code) ==
    [id |-> id, cmd |-> command, status |-> status, code |-> code]

TxRow == [id : Request, cmd : Command, status : {"completed", "failed"},
          code : {NoCode} \cup {FailureCode[e] : e \in Refusals}]

-----------------------------------------------------------------------------
(* No other session holds the lock of a's row.                             *)
RowFree(r, a) == \A q \in Request \ {r} : a \notin rowLocks[q]

(* Mutant of GetWithLock: a plain SELECT, as in get().                     *)
GetWithoutLock(r, a) ==
    /\ a \in opened
    /\ rowLocks' = [rowLocks EXCEPT ![r] = @ \cup {a}]
    /\ copy' = [copy EXCEPT ![r][a] = balance[a]]
    /\ UNCHANGED <<opened, balance, txs, outbox>>

(* get_with_lock finds the row: it locks it and the aggregate is a copy    *)
(* of it, appended to seen.                                                *)
GetWithLock(r, a) ==
    /\ a \in opened
    /\ RowFree(r, a)
    /\ rowLocks' = [rowLocks EXCEPT ![r] = @ \cup {a}]
    /\ copy' = [copy EXCEPT ![r][a] = balance[a]]
    /\ UNCHANGED <<opened, balance, txs, outbox>>

(* The session ends, and with it its locks and its aggregates.             *)
EndSession(r) ==
    /\ rowLocks' = [rowLocks EXCEPT ![r] = {}]
    /\ copy' = [copy EXCEPT ![r] = NoCopy]

(* Mutant of Rollback: the session is neither rolled back nor closed.      *)
SessionLeft(r) == UNCHANGED dbVars

(* rollback(), through __aexit__ or when the connection is lost.           *)
Rollback(r) == EndSession(r) /\ UNCHANGED <<opened, balance, txs, outbox>>

(* Mutant of CollectEvents: seen is never filled.                          *)
CollectNoEvents(seen, recorded) == {}

(* The events _collect_and_store_events takes: those recorded by the       *)
(* aggregates in the seen lists, which only reads fill, never save().      *)
CollectEvents(seen, recorded) == {e \in recorded : e.by \in seen}

(* Mutant of NoDuplicate: idempotency_key without its unique index.        *)
DuplicatesAllowed(row) == TRUE

(* The unique index on idempotency_key admits the row.                     *)
NoDuplicate(row) == \A t \in txs : t.cmd.key # row.cmd.key

(* The columns hold the amount of the row and the written balances.        *)
InRange(written, row) ==
    Fits(Amount(row.cmd)) /\ \A a \in AccountId : Fits(written[a])

(* The flush succeeds: every written value meets the schema.               *)
Storable(written, row) == NoDuplicate(row) /\ InRange(written, row)

(* commit(): the balances, the transaction row and the events of the seen  *)
(* aggregates become visible together, and the row locks are released.     *)
Commit(r, written, row, recorded) ==
    /\ Storable(written, row)
    /\ balance' = written
    /\ txs' = txs \cup {row}
    /\ outbox' = outbox \cup CollectEvents(rowLocks[r], recorded)
    /\ EndSession(r)
    /\ UNCHANGED opened
=============================================================================
