--------------------------- MODULE TransferService ---------------------------
(***************************************************************************)
(* TransferService.initiate, one process per call.  The calls run in any   *)
(* number of coroutines and pods: every await that reaches Redis or        *)
(* Postgres ends a step, and the other calls go on in between.  A client's *)
(* retry is another call with the same command.  The id of a call is also  *)
(* the id of the transaction it creates (a fresh uuid4 in the code).       *)
(*                                                                         *)
(*   check -> lock -> sender -> receiver -> commit -> release -> done      *)
(***************************************************************************)
EXTENDS UnitOfWork, Sequences

CONSTANT
    Faults            \* the failures the environment may inject

FaultKind == {"lapse", "redis", "database", "crash"}

(* The ids of aggregates are UUIDs: no transaction has an account's id.    *)
ASSUME ServiceAssumption ==
    /\ Faults \subseteq FaultKind
    /\ Request \cap AccountId = {}

VARIABLES
    cmd,              \* the command each call was made with; never changes
    pc,               \* where each call is
    result,           \* what each call returns or raises, once known
    bus,              \* the events published on the event bus
    redis,            \* of RedisLock
    acquired          \* of RedisLock

serviceVars == <<cmd, pc, result, bus>>
lockVars == <<redis, acquired>>

Lock == INSTANCE RedisLock WITH
            Client <- Request, Name <- AccountId,
            MayLapse <- "lapse" \in Faults

PC == {"check", "lock", "sender", "receiver", "commit", "release",
       "done", "crashed"}

Outcome == {"none", "completed", "failed", "ResourceNotFoundError",
            "ConcurrencyConflictError", "IntegrityError", "DatabaseError",
            "RedisError", "InvalidOperation"} \cup Refusals \cup CommandErrors

(* An answer names the transaction it is about.                            *)
Answer(outcome, id) == [outcome |-> outcome, tx |-> id]

Ended(r) == pc[r] \in {"done", "crashed"}

(* The rows of the call's idempotency key.                                 *)
Existing(r) == {t \in txs : t.cmd.key = cmd[r].key}

(* Mutant of LockKeys: the keys in the order from, to.                     *)
UnsortedKeys(c) == <<c.from, c.to>>

(* sorted([str(from_id), str(to_id)])                                      *)
LockKeys(c) == IF c.from <= c.to THEN <<c.from, c.to>> ELSE <<c.to, c.from>>

NextKey(r) == LockKeys(cmd[r])[Len(acquired[r]) + 1]

Goto(r, label) == pc' = [pc EXCEPT ![r] = label]

(* The exception leaves both context managers: release, then raise.        *)
Raise(r, outcome) ==
    /\ result' = [result EXCEPT ![r] = Answer(outcome, r)]
    /\ Goto(r, "release")
    /\ UNCHANGED <<cmd, bus>>

-----------------------------------------------------------------------------
(* Step 1: a row with the key exists, its outcome is the answer.           *)
IdempotencyHit(r) ==
    /\ pc[r] = "check"
    /\ \E t \in Existing(r) :
          result' = [result EXCEPT ![r] = Answer(t.status, t.id)]
    /\ Goto(r, "done")
    /\ UNCHANGED <<cmd, bus, dbVars, lockVars>>

(* Steps 1 and 2: the key is new and the amount becomes a Money.           *)
IdempotencyMiss(r) ==
    /\ pc[r] = "check"
    /\ Existing(r) = {}
    /\ Representable(cmd[r])
    /\ Goto(r, "lock")
    /\ UNCHANGED <<cmd, result, bus, dbVars, lockVars>>

(* Step 2: the amount does not.                                            *)
AmountOverflow(r) ==
    /\ pc[r] = "check"
    /\ Existing(r) = {}
    /\ ~Representable(cmd[r])
    /\ Raise(r, "InvalidOperation")
    /\ UNCHANGED <<dbVars, lockVars>>

(* Step 3: the next of the sorted keys is set.                             *)
AcquireKey(r) ==
    /\ pc[r] = "lock"
    /\ Lock!SetKey(r, NextKey(r))
    /\ Goto(r, IF Len(acquired[r]) = 1 THEN "sender" ELSE "lock")
    /\ UNCHANGED <<cmd, result, bus, dbVars>>

(* wait_timeout runs out while another call has the key.                   *)
LockTimeout(r) ==
    /\ pc[r] = "lock"
    /\ Lock!Contended(NextKey(r))
    /\ Raise(r, "ConcurrencyConflictError")
    /\ UNCHANGED dbVars

LockError(r) ==
    /\ "redis" \in Faults
    /\ pc[r] = "lock"
    /\ Lock!SetKeyFails(r, NextKey(r))
    /\ Raise(r, "RedisError")
    /\ UNCHANGED dbVars

-----------------------------------------------------------------------------
(* Steps 4 and 5: the rows are locked in the order from, to.               *)
LoadSender(r) ==
    /\ pc[r] = "sender"
    /\ GetWithLock(r, cmd[r].from)
    /\ Goto(r, "receiver")
    /\ UNCHANGED <<cmd, result, bus, lockVars>>

LoadReceiver(r) ==
    /\ pc[r] = "receiver"
    /\ GetWithLock(r, cmd[r].to)
    /\ Goto(r, "commit")
    /\ UNCHANGED <<cmd, result, bus, lockVars>>

AccountMissing(r) ==
    /\ \/ pc[r] = "sender" /\ cmd[r].from \notin opened
       \/ pc[r] = "receiver" /\ cmd[r].to \notin opened
    /\ Rollback(r)
    /\ Raise(r, "ResourceNotFoundError")
    /\ UNCHANGED lockVars

(* Step 6: Transaction.initiate raises, outside the try: nothing is kept.  *)
RejectCommand(r) ==
    /\ pc[r] = "commit"
    /\ ~CanInitiate(cmd[r])
    /\ Rollback(r)
    /\ Raise(r, CommandError(cmd[r]))
    /\ UNCHANGED lockVars

-----------------------------------------------------------------------------
(* Step 7 on the aggregates the session loaded: neither debit nor credit   *)
(* raises.                                                                 *)
Debitable(r) ==
    CanDebit(cmd[r].from, copy[r][cmd[r].from], Amount(cmd[r]), cmd[r].currency)

Applicable(r) == Debitable(r) /\ CanCredit(cmd[r].to, cmd[r].currency)

(* The exception that ends step 7 when one of them does.                   *)
Refusal(r) == AccountError(IF Debitable(r) THEN cmd[r].to ELSE cmd[r].from,
                           cmd[r].currency)

(* The balances after debit and credit; after a failure neither account    *)
(* is written.                                                             *)
Written(r) ==
    IF Applicable(r)
      THEN [balance EXCEPT
              ![cmd[r].from] = copy[r][cmd[r].from] - Amount(cmd[r]),
              ![cmd[r].to]   = copy[r][cmd[r].to] + Amount(cmd[r])]
      ELSE balance

(* Mutant of TransactionOf: tx.complete() forgotten.                       *)
IncompleteTransactionOf(r) ==
    IF Applicable(r) THEN Row(r, cmd[r], "processing", NoCode)
                     ELSE Row(r, cmd[r], "failed", FailureCode[Refusal(r)])

(* The row that save() adds: the outcome of steps 6 and 7.                 *)
TransactionOf(r) ==
    IF Applicable(r) THEN Row(r, cmd[r], "completed", NoCode)
                     ELSE Row(r, cmd[r], "failed", FailureCode[Refusal(r)])

EventType == {"BalanceDebited", "BalanceCredited", "TransactionInitiated",
              "TransactionProcessing", "TransactionCompleted",
              "TransactionFailed"}

(* The events of a transfer, whichever aggregate records them.             *)
TransferEvent == [type : EventType, by : AccountId \cup Request,
                  tx : Request, amount : Nat]

Event(type, by, r) ==
    [type |-> type, by |-> by, tx |-> r, amount |-> Amount(cmd[r])]

(* What the aggregates record when every domain call succeeds.             *)
SuccessEvents(r) ==
    {Event("BalanceDebited", cmd[r].from, r),
     Event("BalanceCredited", cmd[r].to, r),
     Event("TransactionInitiated", r, r),
     Event("TransactionProcessing", r, r),
     Event("TransactionCompleted", r, r)}

(* What they have recorded when debit or credit raises: a debit that did   *)
(* not raise has left its event.                                           *)
FailureEvents(r) ==
    (IF Debitable(r) THEN {Event("BalanceDebited", cmd[r].from, r)} ELSE {})
        \cup {Event("TransactionInitiated", r, r),
              Event("TransactionProcessing", r, r),
              Event("TransactionFailed", r, r)}

RecordedEvents(r) == IF Applicable(r) THEN SuccessEvents(r) ELSE FailureEvents(r)

(* Steps 8 and 9, and the same in the except branch: save, then commit.    *)
Persist(r) ==
    /\ pc[r] = "commit"
    /\ CanInitiate(cmd[r])
    /\ Commit(r, Written(r), TransactionOf(r), RecordedEvents(r))
    /\ UNCHANGED lockVars

CommitCompleted(r) ==
    /\ Persist(r)
    /\ Applicable(r)
    /\ result' = [result EXCEPT ![r] = Answer("completed", r)]
    /\ Goto(r, "release")
    /\ UNCHANGED <<cmd, bus>>

(* Mutant of CommitFailed: the except branch re-raises without a commit.   *)
FailWithoutCommit(r) ==
    /\ pc[r] = "commit"
    /\ CanInitiate(cmd[r])
    /\ ~Applicable(r)
    /\ Rollback(r)
    /\ Raise(r, Refusal(r))
    /\ UNCHANGED lockVars

(* The except branch commits the failed transaction and re-raises.         *)
CommitFailed(r) ==
    /\ Persist(r)
    /\ ~Applicable(r)
    /\ Raise(r, Refusal(r))

(* The flush violates the unique index or a column's range; where it does  *)
(* both, either statement may be the first to fail.                        *)
CommitRejected(r) ==
    /\ pc[r] = "commit"
    /\ CanInitiate(cmd[r])
    /\ \/ ~NoDuplicate(TransactionOf(r)) /\ Raise(r, "IntegrityError")
       \/ ~InRange(Written(r), TransactionOf(r)) /\ Raise(r, "DatabaseError")
    /\ Rollback(r)
    /\ UNCHANGED lockVars

(* The COMMIT is carried out but its reply is lost.                        *)
CommitUnacknowledged(r) ==
    /\ "database" \in Faults
    /\ Persist(r)
    /\ Raise(r, "DatabaseError")

(* The connection fails at any other statement.                            *)
DatabaseError(r) ==
    /\ "database" \in Faults
    /\ pc[r] \in {"check", "sender", "receiver", "commit"}
    /\ Rollback(r)
    /\ Raise(r, "DatabaseError")
    /\ UNCHANGED lockVars

-----------------------------------------------------------------------------
(* r's SELECT ... FOR UPDATE waits for a row that q has locked.            *)
WaitsFor(r, q) ==
    /\ q # r
    /\ \/ pc[r] = "sender" /\ cmd[r].from \in rowLocks[q]
       \/ pc[r] = "receiver" /\ cmd[r].to \in rowLocks[q]

(* The requests of S wait for each other in a cycle, or in several.        *)
WaitCycle(S) ==
    /\ S # {}
    /\ \A r \in S : (\E q \in S : WaitsFor(r, q)) /\ (\E q \in S : WaitsFor(q, r))

(* Postgres' deadlock detector aborts one of them.                         *)
DeadlockVictim(r) ==
    /\ \E S \in SUBSET Request : r \in S /\ WaitCycle(S)
    /\ Rollback(r)
    /\ Raise(r, "DatabaseError")
    /\ UNCHANGED lockVars

-----------------------------------------------------------------------------
(* The finally of acquire().                                               *)
ReleaseKey(r) ==
    /\ pc[r] = "release"
    /\ Lock!DeleteKey(r)
    /\ UNCHANGED <<serviceVars, dbVars>>

ReleaseKeyFails(r) ==
    /\ "redis" \in Faults
    /\ pc[r] = "release"
    /\ Lock!DeleteKeyFails(r)
    /\ UNCHANGED <<serviceVars, dbVars>>

(* collect_events() empties an aggregate: what is left after the commit.   *)
UncollectedEvents(r) ==
    SuccessEvents(r) \ CollectEvents({cmd[r].from, cmd[r].to}, SuccessEvents(r))

(* Mutant of Finish: publication in a finally, after a failure too.        *)
FinishPublishingAlways(r) ==
    /\ pc[r] = "release"
    /\ acquired[r] = << >>
    /\ bus' = bus \cup UncollectedEvents(r)
    /\ Goto(r, "done")
    /\ UNCHANGED <<cmd, result, dbVars, lockVars>>

(* Step 10: the remaining events are published and the call returns; a     *)
(* call that raises publishes nothing.                                     *)
Finish(r) ==
    /\ pc[r] = "release"
    /\ acquired[r] = << >>
    /\ bus' = IF result[r].outcome = "completed"
                THEN bus \cup UncollectedEvents(r) ELSE bus
    /\ Goto(r, "done")
    /\ UNCHANGED <<cmd, result, dbVars, lockVars>>

(* The process dies: Postgres rolls its session back, Redis keeps its keys.*)
Crash(r) ==
    /\ "crash" \in Faults
    /\ ~Ended(r)
    /\ Rollback(r)
    /\ Lock!Forget(r)
    /\ Goto(r, "crashed")
    /\ UNCHANGED <<cmd, result, bus>>

(* A key goes away without a DEL.                                          *)
KeyExpires(k) == Lock!Expire(k) /\ UNCHANGED <<serviceVars, dbVars>>

-----------------------------------------------------------------------------
(* What the code does of itself when nothing outside it fails.             *)
Progress(r) ==
    \/ IdempotencyHit(r)
    \/ IdempotencyMiss(r)
    \/ AmountOverflow(r)
    \/ AcquireKey(r)
    \/ LockTimeout(r)
    \/ LoadSender(r)
    \/ LoadReceiver(r)
    \/ AccountMissing(r)
    \/ RejectCommand(r)
    \/ CommitCompleted(r)
    \/ CommitFailed(r)
    \/ CommitRejected(r)
    \/ DeadlockVictim(r)
    \/ ReleaseKey(r)
    \/ Finish(r)

Failure(r) ==
    \/ LockError(r)
    \/ CommitUnacknowledged(r)
    \/ DatabaseError(r)
    \/ ReleaseKeyFails(r)
    \/ Crash(r)
=============================================================================
