--------------------------- MODULE BankingSystem ---------------------------
(***************************************************************************)
(* The running service: concurrent transfers, account creation, one        *)
(* Postgres and one Redis, with the failures listed in Faults; and what it *)
(* must guarantee.                                                         *)
(***************************************************************************)
EXTENDS TransferService, AccountService, ExceptionHandlers, FiniteSets, Functions

CONSTANT
    ExistingAccount   \* the accounts that exist from the start

ASSUME SystemAssumption ==
    /\ ExistingAccount \subseteq AccountId
    /\ IsFiniteSet(ExistingAccount)
    /\ \A a \in ExistingAccount : Fits(Quantize(OpeningBalance[a]))

vars == <<dbVars, serviceVars, lockVars>>

NoResult(r) == Answer("none", r)

Init ==
    /\ opened = ExistingAccount
    /\ balance = [a \in AccountId |->
                    IF a \in ExistingAccount THEN Quantize(OpeningBalance[a]) ELSE 0]
    /\ txs = {}
    /\ outbox = {}
    /\ rowLocks = [r \in Request |-> {}]
    /\ copy = [r \in Request |-> NoCopy]
    /\ cmd \in [Request -> Command]
    /\ pc = [r \in Request |-> "check"]
    /\ result = [r \in Request |-> NoResult(r)]
    /\ bus = {}
    /\ Lock!LockInit

NewAccount(a) == CreateAccount(a) /\ UNCHANGED <<serviceVars, lockVars>>

(* Every call has ended: the service waits for the next one.               *)
Idle == (\A r \in Request : Ended(r)) /\ UNCHANGED vars

Next ==
    \/ \E r \in Request : Progress(r) \/ Failure(r)
    \/ \E a \in AccountId : NewAccount(a)
    \/ \E k \in AccountId : KeyExpires(k)
    \/ Idle

Spec == Init /\ [][Next]_vars

(***************************************************************************)
(* The event loop runs every coroutine that can run, waiting for a lock    *)
(* ends by a timeout, Postgres resolves its deadlocks, and a key's TTL     *)
(* runs out.  Nothing makes a failure, or a new account, happen.           *)
(***************************************************************************)
Fairness ==
    /\ \A r \in Request : WF_vars(Progress(r))
    /\ \A k \in AccountId : WF_vars(KeyExpires(k))

FairSpec == Spec /\ Fairness

-----------------------------------------------------------------------------
(* Every variable has values of its type, in every state the code reaches. *)
TypeOK ==
    /\ opened \subseteq AccountId
    /\ balance \in [AccountId -> Int]
    /\ txs \subseteq TxRow
    /\ outbox \subseteq TransferEvent
    /\ bus \subseteq TransferEvent
    /\ rowLocks \in [Request -> SUBSET AccountId]
    /\ copy \in [Request -> [AccountId -> Int]]
    /\ cmd \in [Request -> Command]
    /\ pc \in [Request -> PC]
    /\ result \in [Request -> [outcome : Outcome, tx : Request]]
    /\ Lock!LockTypeOK

Completed == {t \in txs : t.status = "completed"}

Opening(a) == IF a \in opened THEN Quantize(OpeningBalance[a]) ELSE 0

(* The completed transactions to a, and from a.                            *)
Received(a) == {t \in Completed : t.cmd.to = a}
Sent(a) == {t \in Completed : t.cmd.from = a}

(* What the transactions of S moved, and what the events of S tell.        *)
Moved(S) == SumFunctionOnSet([t \in TxRow |-> Amount(t.cmd)], S)
EventTotal(S) == SumFunctionOnSet([e \in TransferEvent |-> e.amount], S)

(***************************************************************************)
(* The balances are the opening balances plus what the completed           *)
(* transactions moved: no interleaving of transfers, crash or lost reply   *)
(* loses or duplicates an update (docstring of ILockManager: "double-spend *)
(* structurally impossible").                                              *)
(***************************************************************************)
Reconciliation ==
    \A a \in AccountId :
        balance[a] = Opening(a) + Moved(Received(a)) - Moved(Sent(a))

(* The events of a's aggregate that belong to completed transactions.      *)
SettledEvents(type, a) ==
    {e \in outbox : /\ e.type = type /\ e.by = a
                    /\ \E t \in Completed : t.id = e.tx}

(***************************************************************************)
(* The same ledger can be rebuilt from the outbox: the balance events that *)
(* belong to completed transactions are exactly what these moved           *)
(* (IUnitOfWork.commit: the events are flushed in the same atomic          *)
(* operation as the balances).  NoPhantomDebits is about the others.       *)
(***************************************************************************)
OutboxReconciles ==
    \A a \in AccountId :
        balance[a] = Opening(a)
            + EventTotal(SettledEvents("BalanceCredited", a))
            - EventTotal(SettledEvents("BalanceDebited", a))

(* The two balance events of transaction t, as stored.                     *)
DebitOf(t) == [type |-> "BalanceDebited", by |-> t.cmd.from, tx |-> t.id,
               amount |-> Amount(t.cmd)]
CreditOf(t) == [type |-> "BalanceCredited", by |-> t.cmd.to, tx |-> t.id,
                amount |-> Amount(t.cmd)]

(***************************************************************************)
(* Event by event: a completed transaction has its debit and its credit in *)
(* the outbox, and no event is there without its row.  A debit without a   *)
(* transfer is that of a failed transaction, and only of one that the      *)
(* receiver's account refused, whatever the balances: these are all the    *)
(* phantoms NoPhantomDebits can meet (the except branch of initiate        *)
(* commits what debit() has recorded).                                     *)
(***************************************************************************)
OutboxTellsRows ==
    /\ \A t \in Completed : {DebitOf(t), CreditOf(t)} \subseteq outbox
    /\ \A e \in outbox : \E t \in txs :
          \/ t.status = "completed" /\ e \in {DebitOf(t), CreditOf(t)}
          \/ /\ t.status = "failed" /\ e = DebitOf(t)
             /\ ~CanCredit(t.cmd.to, t.cmd.currency)

(***************************************************************************)
(* No money is made or lost: in every state all accounts together have     *)
(* what was paid in when they were opened (IUnitOfWork: one session, or    *)
(* "the debit on sender and credit on receiver would be in separate        *)
(* transactions").                                                         *)
(***************************************************************************)
MoneyConserved ==
    LET deposit == [a \in AccountId |-> Quantize(OpeningBalance[a])]
    IN  SumFunctionOnSet(balance, opened) = SumFunctionOnSet(deposit, opened)

(* No account is overdrawn, and none outgrows its column (Money.__sub__).  *)
BalanceRange == \A a \in AccountId : balance[a] >= 0 /\ Fits(balance[a])

(* The outcomes that tell of a row: the call's own, or an earlier one's.   *)
Telling == {"completed", "failed"} \cup Refusals

(***************************************************************************)
(* Calls with one idempotency key make one transfer or one failed attempt  *)
(* at the most: all that are told how it ended, by an answer or by the     *)
(* account's refusal, are told of the same transaction (POST /transfer:    *)
(* "Retrying with the same key returns the original result safely").  It   *)
(* is told in another way where the first was refused: the call raises,    *)
(* its retry is answered with the failed transaction.                      *)
(***************************************************************************)
SameAnswer ==
    \A r, q \in Request :
        /\ cmd[r].key = cmd[q].key
        /\ pc[r] = "done" /\ result[r].outcome \in Telling
        /\ pc[q] = "done" /\ result[q].outcome \in Telling
        => result[r].tx = result[q].tx

(* The rows of transaction r.                                              *)
RowsOf(r) == {t \in txs : t.id = r}

(* The rows that r's answer is about.                                      *)
Told(r) == {t \in RowsOf(result[r].tx) : t.cmd.key = cmd[r].key}

(* The outcomes after which r may have a row.                              *)
MayHaveRow == Telling \cup {"DatabaseError"}

Truthful(r) ==
    LET outcome == result[r].outcome
    IN  /\ outcome # "none"
        /\ outcome \in {"completed", "failed"} =>
              \E t \in Told(r) : t.status = outcome
        /\ outcome \in Refusals =>
              \E t \in Told(r) : /\ t.id = r /\ t.status = "failed"
                                 /\ t.code = FailureCode[outcome]
        /\ outcome \notin MayHaveRow => RowsOf(r) = {}
        /\ outcome = "IntegrityError" => Existing(r) # {}

(***************************************************************************)
(* An answer tells the truth: completed, a completed transaction of the    *)
(* caller's key exists; an account's refusal, the failed attempt is        *)
(* recorded with the code of that refusal; a rejection or a conflict, the  *)
(* call left nothing behind and the caller may retry, which after the      *)
(* unique index objected gets the outcome of the call that was faster.     *)
(* Only DatabaseError leaves the caller in doubt (the except and the       *)
(* commit of initiate, __aexit__ of the unit of work).                     *)
(***************************************************************************)
TruthfulAnswers == \A r \in Request : pc[r] = "done" => Truthful(r)

(***************************************************************************)
(* What the status of the response promises about the ledger: 202, there   *)
(* is a row of the caller's key with the very status that the body shows,  *)
(* "failed" where a retry is told of a refusal; 422, the call's own row,   *)
(* which failed; 404 and 409, no trace of the call, a retry with the key   *)
(* is a first attempt (_STATUS_MAP: "client should retry"); 400, a trace   *)
(* exactly if it was an account that objected, to the currency.  No 4xx is *)
(* given for a transfer that was settled, and no 500 for what an account   *)
(* or a command is to blame for.                                           *)
(***************************************************************************)
StatusTellsEffect ==
    \A r \in Request : pc[r] = "done" =>
        LET code == StatusCode(result[r].outcome)
            own  == RowsOf(r)
        IN  /\ code = 202 => \E t \in Told(r) : t.status = result[r].outcome
            /\ code = 422 => own # {}
            /\ code \in {400, 422} => \A t \in own : t.status = "failed"
            /\ code \in {404, 409} => own = {}
            /\ code = 400 =>
                  (own # {} <=> result[r].outcome = "CurrencyMismatchError")
            /\ code = 500 => result[r].outcome \notin Refusals \cup CommandErrors

(* The events of the aggregate of a completed transaction t.               *)
OwnEventsOf(t) ==
    {[type |-> type, by |-> t.id, tx |-> t.id, amount |-> Amount(t.cmd)] :
        type \in {"TransactionInitiated", "TransactionProcessing",
                  "TransactionCompleted"}}

(* The completed transactions whose own call has returned.                 *)
Reported ==
    {t \in Completed : pc[t.id] = "done" /\ result[t.id] = Answer("completed", t.id)}

(***************************************************************************)
(* The bus has carried exactly the transaction events of the transfers     *)
(* whose own call has returned: nothing of a call that raised, or has not  *)
(* committed (DomainEvent: events are only published after the commit);    *)
(* nothing twice over, for a retry publishes nothing; and nothing at all   *)
(* of a transfer whose call died, or lost the reply of its COMMIT, between *)
(* the commit and step 10: it is settled, a retry is told so, and no       *)
(* consumer of the bus ever hears of it.                                   *)
(***************************************************************************)
BusTellsReported == bus = UNION {OwnEventsOf(t) : t \in Reported}

(***************************************************************************)
(* An aggregate that a session has locked is the row: no other transfer    *)
(* changes a balance between the read the decision is made on and the      *)
(* write, even when the Redis locks have lapsed (ILockManager, layer 2).   *)
(***************************************************************************)
NoStaleCopy ==
    \A r \in Request : \A a \in rowLocks[r] : copy[r][a] = balance[a]

(* The service implements the bank of atomic transfers: Bank.              *)
Abstract == INSTANCE Bank
ImplementsBank == Abstract!BankSpec

-----------------------------------------------------------------------------
(* r is inside the code the Redis locks protect.                           *)
InCriticalSection(r) == pc[r] \in {"sender", "receiver", "commit"}

Accounts(r) == {cmd[r].from, cmd[r].to}

(* As long as no lock lapses, one transfer at a time works on an account,  *)
(* in all pods (README: "only one transfer modifies an account balance at  *)
(* a time").                                                               *)
AccountExclusion ==
    \A r, q \in Request :
        /\ r # q
        /\ InCriticalSection(r) /\ InCriticalSection(q)
        => Accounts(r) \cap Accounts(q) = {}

(* As long as no lock lapses, the row locks, which are taken in the order  *)
(* from, to, never close a cycle: whoever holds a row and waits for        *)
(* another would hold the Redis keys of both (ILockManager, layer 1).      *)
NoRowDeadlock == \A S \in SUBSET Request : ~WaitCycle(S)

(* r waits for a key that q has set and still holds; q may be r itself.    *)
WaitsForKey(r, q) == pc[r] = "lock" /\ NextKey(r) \in Lock!Held(q)

(* Calls never wait for each other's Redis keys in a cycle, which only the *)
(* timeout would break (RedisLockManager: "sorting ensures both always     *)
(* acquire in the same order").                                            *)
NoLockDeadlock ==
    \A S \in SUBSET Request :
        S # {} => \E r \in S : \A q \in S : ~WaitsForKey(r, q)

(* The row that r's SELECT ... FOR UPDATE is about to lock is another's.   *)
RowTaken(r) ==
    \/ pc[r] = "sender" /\ cmd[r].from \in opened /\ ~RowFree(r, cmd[r].from)
    \/ pc[r] = "receiver" /\ cmd[r].to \in opened /\ ~RowFree(r, cmd[r].to)

(* r can go on by itself: it has no row to wait for (a Redis key it waits  *)
(* for no longer than wait_timeout), or Postgres aborts it.                *)
MayProceed(r) ==
    /\ ~Ended(r)
    /\ \/ ~RowTaken(r)
       \/ \E S \in SUBSET Request : r \in S /\ WaitCycle(S)

(***************************************************************************)
(* Nobody waits for nothing: among any calls that have not ended, one can  *)
(* go on, or waits for a call outside of them that has not ended either.   *)
(* So behind every waiting call there is one that can go on, whatever has  *)
(* failed and whichever keys have lapsed (ILockManager, layer 2; a session *)
(* is rolled back on every exception, so that no ended call keeps a row).  *)
(***************************************************************************)
NobodyStuck ==
    \A S \in SUBSET {r \in Request : ~Ended(r)} :
        S # {} => \E r \in S : \/ MayProceed(r)
                               \/ \E q \in Request \ S :
                                      WaitsFor(r, q) /\ ~Ended(q)

(* Every call is answered, unless its process dies.                        *)
EveryCallAnswered == \A r \in Request : <>Ended(r)

(* No failure leaves an account locked for good.                           *)
LocksFreed == <>[](redis = {})

-----------------------------------------------------------------------------
(* What the repository says of the service, and the service does not do.   *)

(* No phantom events: a debit in the outbox is one that took place         *)
(* (AggregateRoot: no events for operations that never happened).          *)
NoPhantomDebits ==
    \A e \in outbox : e.type = "BalanceDebited" =>
        \E t \in Completed : t.id = e.tx

(* What a transaction has done, as its own events and those of the two     *)
(* accounts tell it.                                                       *)
EventsOf(t) ==
    IF t.status = "completed"
      THEN {DebitOf(t), CreditOf(t)} \cup OwnEventsOf(t)
      ELSE {[type |-> type, by |-> t.id, tx |-> t.id, amount |-> Amount(t.cmd)] :
               type \in {"TransactionInitiated", "TransactionProcessing",
                         "TransactionFailed"}}

(* The outbox has the events of all the aggregates a committed transaction *)
(* touched, its own among them (IUnitOfWork.commit), and none of an        *)
(* operation that did not happen (AggregateRoot, "no phantom events").     *)
OutboxTellsAll == \A t \in txs : {e \in outbox : e.tx = t.id} = EventsOf(t)

(* Of two calls with the same command, one that comes too late for the     *)
(* idempotency check gets the original's result, not the database's error  *)
(* (DuplicateIdempotencyKeyError).                                         *)
DuplicateGetsOriginal ==
    \A r, q \in Request :
        cmd[r] = cmd[q] /\ pc[r] = "done" /\ pc[q] = "done"
            /\ result[r].outcome = "completed"
        => result[q].outcome # "IntegrityError"

(* A transfer to the same account is refused as such, whatever else        *)
(* happens (SameAccountTransferError).                                     *)
SelfTransferRefused ==
    \A r \in Request :
        pc[r] = "done" /\ cmd[r].from = cmd[r].to
        => result[r].outcome \in CommandErrors \cup {"ResourceNotFoundError"}
=============================================================================
