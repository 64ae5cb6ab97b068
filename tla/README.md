# The banking transaction service in TLA+

A TLA+ development of the service in `src/`: an HTTP API in front of a
transfer service that keeps account balances in Postgres, guards each transfer
with locks in Redis, answers retries by idempotency key and stores domain
events in an outbox. The modules model it from the HTTP routes through the
application services down to the database rows and the lock keys; TLC checks
them on small instances, and TLAPS proves the invariants and the
refinement for any number of calls and accounts.

File names below are relative to `src/src/`.

## 1. The system

| Part | State | Operations | Correct when |
|---|---|---|---|
| `TransferService` (`application/services/transfer.py`) | none of its own; one coroutine per call | `initiate`, `get` | a transfer is atomic, happens once per key, and its answer is true |
| `AccountService` (`application/services/account.py`) | none | `create`, `get` | an account opens with its quantized balance |
| Unit of work, Postgres repositories (`adapters/outbound/persistence`) | rows of `accounts`, `transactions`, `outbox_messages`; sessions with row locks, loaded aggregates, `seen` lists | `get_with_lock`, `update`, `save`, `commit`, `rollback` | balances, transaction and events commit together; a locked copy is the row |
| `RedisLockManager` (`adapters/outbound/locking`) | keys in Redis; a list `acquired` per call | `acquire` as a context manager | exclusion while no lock lapses, no deadlock, no key left for good |
| `Account` (`domain/entities/account.py`) | status, balance, recorded events | `create`, `debit`, `credit`, `freeze`, `unfreeze`, `close`, `collect_events` | never overdrawn, closed for good, its events tell its state |
| `Transaction` (`domain/entities/transaction.py`) | status, `rollback_required`, recorded events | `initiate`, `mark_processing`, `complete`, `fail`, `mark_rolled_back` | one documented lifecycle, told by its events |
| `Money` and enums (`domain/value_objects`) | immutable | quantize, `+`, `-`, comparisons | half-up cents, one currency, never negative |
| Event bus (`adapters/outbound/messaging`) | published events | `publish_many` | what it has carried is exactly what the calls that returned have done |
| HTTP adapter (`adapters/inbound/http`) | none; one coroutine per call | the routes of accounts, transactions and auth; exception handlers | a status tells what was done; owners, and only they, see their account |
| Authentication (`adapters/inbound/http/middleware/auth.py`) | none; reads `app_env` | `get_current_user`, `can_access_account` | one user per credential; without one nobody gets past it |
| In-memory adapters | dictionaries, a set of held locks | as their ports | test doubles: `commit` and `rollback` do nothing, as their docstring says |
| Wiring (`infrastructure`, `main.py`) | engine, session factory, singletons | start-up | one unit of work per call, shared lock manager and bus |

**Interaction.** A router builds a command and calls a service. `initiate`
looks the idempotency key up in a session of its own; then it takes the Redis
keys of both accounts in sorted order; inside them it opens a unit of work,
locks the sender's and then the receiver's row with `SELECT ... FOR UPDATE`,
lets the aggregates decide, writes, commits, releases the keys in reverse order,
publishes what is left of the events, and returns. The container makes a new
unit of work and service per call; the lock manager, the bus and the connection
pool are shared by all calls of a pod, Redis and Postgres by all pods.

**What is hard.** Every `await` lets other calls in, in this pod and in others.
The idempotency check is separated from the commit that relies on it. A Redis
key lives 30 seconds whether or not its holder is done; the connection pool
alone may keep a holder waiting that long. `DEL` removes a key whoever set it.
A process can die between any two steps; the reply to a `SET`, a `DEL` or a
`COMMIT` can be lost. Two layers of locks are taken in two different orders.
`PROJECT.json` lists each hazard at its line with the properties about it.

## 2. Plan

Written, in this order:

1. `Domain`, `UnitOfWork`, `RedisLock`: the operations a transfer is made of.
2. `TransferService`, `AccountService`: the processes.
3. `Bank`: the abstract ledger of atomic transfers.
4. `BankingSystem`: the composition, its properties, the refinement of `Bank`.
5. `BankingSystem_proofs`: type correctness, isolation, refinement, answers,
   exclusion and freedom from deadlock.
6. `AccountAggregate`, `TransactionAggregate`, `Aggregates`: the aggregates under
   any sequence of calls; `Aggregates_proofs`.
7. `ExceptionHandlers`, `HttpApi`: the status of every outcome, and the routes
   with authentication over the account service; `HttpApi_proofs`.
8. `Induction` and `SumTheorems`, and with them the proofs about sums and
   replays: `Ledger_proofs`, the rest of `Aggregates_proofs`.
9. `Progress_proofs`: what liveness rests on, without fairness.

Next, most important first:

1. `RedisLock` on its own against an abstract lock, with lease and owner: which
   steps break the abstraction once a key lapses.
2. The order of events within the outbox and on the bus.
3. Once `POST /transactions/transfer` reaches the service: `HttpApi` over
   `TransferService`, with a client that retries by the status it was given.
4. Proofs: the domain guards of `Domain` are those of `AccountAggregate`, and the
   abstract lock of 1.

## 3. The modules

| Module | Models |
|---|---|
| `Domain` | `Money` quantization, the guards of `debit`, `credit` and `Transaction.initiate`, the column's range; no state |
| `UnitOfWork` | `opened`, `balance`, `txs`, `outbox`: the committed rows; `rowLocks`, `copy`: each session's row locks and loaded balances; `GetWithLock`, `Commit`, `Rollback` |
| `RedisLock` | `redis`: the keys present; `acquired`: each call's list; `SetKey`, `DeleteKey`, their failures, `Expire` |
| `TransferService` | `initiate`: `pc` runs check, lock, sender, receiver, commit, release, done; `result` is what it returns or raises; `bus` the published events |
| `AccountService` | `CreateAccount` |
| `Bank` | the promise: `Open`, `Settle`, `Decline`, each atomic |
| `BankingSystem` | everything together, fairness, the properties |
| `MCBankingSystem` | accounts, commands and symmetry sets for TLC |
| `ExceptionHandlers` | `StatusCode`: `_STATUS_MAP` over the outcomes of the services |
| `HttpApi` | `stage`, `response`: where each HTTP call is and what it was answered; `owner`: the `owner_id` column; `env`: `app_env`; one action per way a handler can end |
| `MCHttpApi` | accounts, credentials and requests for TLC |
| `BankingSystem_proofs`, `Aggregates_proofs`, `HttpApi_proofs` | the theorems about the module each is named after |
| `Ledger_proofs`, `Progress_proofs` | further theorems about `BankingSystem`: its sums, its waiting |
| `Induction`, `SumTheorems` | induction by a smallest counterexample; finite sums |
| `AccountAggregate`, `TransactionAggregate` | one aggregate each, every method an action; `account` and `tx` are the fields, `recorded` is `_domain_events` |
| `Aggregates` | both, and what their events tell |

How steps were chosen:

- A step ends where the code awaits Redis or Postgres and another call could see
  or change something. The domain calls between the second read and the commit
  touch only what the session has loaded, so they belong to the commit step.
- `autoflush=False` (`infrastructure/database/engine.py:41`): nothing is written
  before `commit()`. The flush then needs no further row lock, so flush and
  `COMMIT` are one action. The `SELECT ... FOR UPDATE` that `update()` repeats
  finds rows the session already holds.
- No isolation level is configured, so Postgres runs READ COMMITTED: a locking
  read waits and then returns the latest committed version.
- The retry loop of a lock is the action that succeeds, whenever the key is
  free, or times out, whenever it is not: the loop's number of rounds does not
  show in any state. Time is not modelled; `Expire` stands for the TTL.
- A command that the schemas refuse never reaches the service: amounts are not
  negative. They count thousandths, so that rounding to cents is visible.
- The id of a transaction is the call that made it: `uuid4` gives each its own.
- A transaction's row keeps the command of its call and its failure code: no
  field that the properties mention is dropped. Timestamps and reasons are. The
  code is what `type(exc).__name__.upper().replace("ERROR", "")` makes of the
  exception (`INSUFFICIENTFUNDS`), not the `INSUFFICIENT_FUNDS` of the comment
  in `domain/events/transaction.py:85`.
- A row that violates both the unique index and a column's range is rejected
  with either error: the order of the flushed statements is not modelled.
- An amount above `MaxDecimal` raises `InvalidOperation` in `Money`; one above
  `MaxBalance` fails at the flush. The sum of two stored balances is below the
  first bound (15 digits against 26), so `Money.__add__` never raises it.
- In `HttpApi` a handler is one step: it reaches the database in one statement
  or one `COMMIT` at most, and everything else it does is local to the call.
  What can come between is a step of its own: the session fails, the reply of
  the `COMMIT` is lost, the process dies before or after it.
- FastAPI reads a body before it resolves the dependencies and checks the
  schema after them: a body that is not JSON is answered 422 even without
  credentials (`Unparsable`), one that misses the schema only once
  `get_current_user` has let the call through (`Invalid`).
- An account's id is the id of the call that opens it (`uuid4`). Roles are not
  modelled: `get_current_user` gives every user the role `user` only.
- `PostTransfer` always ends in 500, for the `TypeError` is raised while the
  arguments of `_get_account_or_403` are bound, before its body runs. This is
  why `HttpApi` does not extend `TransferService`; the statuses of transfers are
  checked where the outcomes are, in `BankingSystem`.
- Account status is a constant: no service calls `freeze`, `unfreeze` or
  `close`. `AccountAggregate` models those, from an account that `create` has
  made, with its event, or that `reconstitute` has loaded, without.
- A session that has ended with an error holds nothing: `__aexit__` rolls back,
  and Postgres does so when a connection is gone.
- A crash takes one call at a time. A pod that dies takes several, which is
  several such steps in a row.

`Faults` chooses what the environment may do: `lapse`, a key vanishes while its
holder is at work; `redis`, a command to Redis raises, carried out or not;
`database`, a statement raises, a `COMMIT` carried out or not; `crash`.

## 4. The runs

| Run | Instance | Shows |
|---|---|---|
| `two_calls` | two calls, twelve commands, all faults; about 379 000 states | the ledger reconciles with the transactions and with the outbox, event by event, no money is made or lost, balances stay in range, one answer per key (completed or refused), answers and failure codes that are true, a status that tells what the ledger holds, a bus that has carried exactly the transfers whose own call has returned, no stale copy, `Bank` implemented |
| `three_calls` | three calls that contend for two accounts, locks lapse; about 83 000 | the same core properties when a call can release a key that another has taken over meanwhile; behind every waiting call one that can go on, though now rows are waited for in cycles |
| `locks_hold` | three calls on a ring of three accounts, crashes and Redis errors; about 530 000 | exclusion per account, no cycle of row locks, no cycle of Redis keys |
| `liveness` | two calls, five commands, crashes, Redis errors and lapsing locks; about 86 000 | every call that does not crash is answered; no key stays for good |
| `http` | three calls with any of 18 requests, three environments, failing sessions, lost replies, crashes; about 654 000 | a response to `POST /accounts` tells whether there is an account, whose and with what balance; its owner reads it back; outside development the three handlers that depend on `get_current_user` answer 401, or 422 to a body that is not JSON (the other two: see below) |
| `aggregates` | one account, one transaction, up to four account events and two rollbacks; about 583 000 | events tell the state, closing is final |

Each of these runs completes without an error. Six more state what the
repository says and the code does not do; TLC finds the counterexample:

| Run | Counterexample |
|---|---|
| `outbox_events` | the receiver refuses the credit: the failed transfer commits with the sender's `BalanceDebited` in the outbox, a phantom; and with none of the transaction's own events, for `save` does not add to `seen` |
| `duplicate_key` | two calls pass the idempotency check, the second is answered with `IntegrityError` |
| `self_transfer` | the only call there is waits for the key it has set itself and reports a concurrency conflict |
| `transfer_request` | the owner of an account asks for a valid transfer from it and is answered 500: the ownership check is called with one argument too many |
| `transaction_access` | a call without credentials is shown a transaction: `get_transaction` does not depend on `get_current_user`, though "authenticated users can view their transactions" (`routers/transactions.py:77`) |
| `dev_token` | in staging a dev token is handed out: the route refuses in production alone, though it "ONLY works when ENV=development" (`routers/auth.py:58`); `get_current_user` refuses the token there |

One more disagreement has no run of its own: `mark_rolled_back` asks for status
`FAILED` only, so that it records `TransactionRolledBack` after a failure that
debited nothing, against its docstring (`domain/entities/transaction.py:221`).
Nothing calls it; `EventsTellTransaction` allows what the code does.

**Bounds.** Two calls are enough for every pairwise race, including a call and
its retry; three are the least with which one call releases the lock of a second
to the benefit of a third, and with which a waiting cycle is more than a pair.
The accounts of `MCBankingSystem` are two that trade, one in another currency,
one frozen and one that is opened while transfers run. The commands include a
retry under the same key with another payload, amounts that round to zero and up
to a cent, a self-transfer, refusals by the sender and by the receiver, and a
payment the sender can afford only once. `MaxBalance = 3` cents makes the column
overflow reachable, and `MaxDecimal = 9` the overflow of the decimal context.
In `HttpApi` two calls are enough for a `POST` and the `GET` that races it; the
third lets one user open two accounts, as a client does that asks again after a
500. The requests cover both dev credentials, a malformed one, none, a foreign
bearer token, the owner and another user, an account that exists, is opened
meanwhile or never exists, a balance that is rounded and one out of range. The ring run leaves self-transfers out, for these do wait
for themselves (`self_transfer`). Symmetry is used over calls only, which are
interchangeable, and not in the liveness run.

**Fairness.** Weak fairness of each call's own steps: asyncio runs every ready
coroutine, the wait for a key ends by a deadline, a wait for a row ends because
its holder commits, fails or is aborted by the deadlock detector. Weak fairness
of `KeyExpires`: Redis removes a key when its TTL is over. No failure, crash or
account creation is assumed to happen. Strong fairness is nowhere needed,
because a call that finds a key taken may time out.

## 5. The proofs

`BankingSystem_proofs` holds for every set of calls, accounts and commands that
the named assumptions (`DomainAssumption` and those beside it) allow: account ids are numbers (they are ordered, as their
strings are), raw amounts are natural numbers, the accounts that exist at the
start are finitely many and have a balance that fits its column, transaction ids
are not account ids.

- **Types.** `TypeInv` is `TypeOK` and `LockShape`: the list `acquired` is a
  prefix of the call's two sorted keys whose length follows from `pc`. Without it
  the next key to acquire has no type. `TypeCorrect` follows.
- **Isolation.** `IsolationInv`: row locks are exclusive (`RowsExclusive`), what a
  session holds follows from where it is (`SessionShape`), what it has loaded is
  the row (`NoStaleCopy`), balances are in range, and a transaction belongs to a
  call that has left its unit of work, with a key of its own (`LedgerShape`). No
  conjunct mentions Redis, so `Isolation` and `NoOverdraft` hold however the
  distributed locks fail.
- **Refinement.** With `NoStaleCopy` the written balances are those `Settle`
  computes, with `LedgerShape` id and key are new: `Refinement` shows each step
  of the service to be a step of `Bank` or none.
- **Answers.** `AnswerInv` gives the truth of an answer from the moment it is
  determined, not only when it is delivered. An `IntegrityError` comes with the
  other transaction of the key, which stays, so that a retry is answered with
  its outcome: the harmless half of `duplicate_key`. `AnswersAreTrue`, and from
  it with `LedgerShape`, `OneTransferPerKey`. The retry of a call that an account
  refused is told of the same transaction, but in another way: the call is
  answered 422, its retry 202 with the status "failed".
- **The bus.** `BusIsExact` says what the bus has carried in every state, not
  only that nothing comes early. The one step that publishes is `Finish`; the
  events it adds are those of the call's own row (`PublishedEvents`), and no
  other step adds a call to those that have returned or takes one away
  (`OthersReported`). A transfer whose call died, or lost the reply of its `COMMIT`, is settled and
  missing from the bus for ever: its retry publishes nothing.
- **Locks.** `HoldInv`, kept as long as no key lapses: what a call believes to
  hold is in Redis and held by no other call. `Exclusion` follows, and from it
  `DeadlockFreedom`: a call that waits for a row would share an account with
  the call that has it. `SelfTransferUnseen` completes `self_transfer`: no call
  ever raises `SameAccountTransferError`, for one that gets as far as
  `Transaction.initiate` holds two distinct keys. All three assume
  `"lapse" \notin Faults`.
- **Lock order.** `LockOrder` shows that calls never wait for each other's Redis
  keys in a cycle, for any set of calls, finite or not. A call waits for a key
  above every key it holds (`WaitsUpwards`), so along a cycle the keys would
  rise for ever; `WFMin` gives the least distance to the largest account id and
  the contradiction. It assumes that no command names one account twice, which
  is what `self_transfer` shows to be necessary, and that account ids are
  bounded (UUIDs are).
- **Status.** `StatusIsMeaningful` follows from `AnswerInv`: 202 comes with a row
  of the caller's key whose status is the one shown, completed or, on a retry,
  failed; 422 with the call's own row, which failed; 404 and 409 with no row of
  the call; 400 with one, which failed, exactly when it is a currency mismatch;
  and no refusal is ever reported as 500. So a 4xx is never given for a transfer
  that the call has settled.

`Ledger_proofs` is about the same specification. Its invariants are sums over
sets of transactions and events, `SumFunctionOnSet` of the library, which folds
over the set in an order that `CHOOSE` picks.

- **Sums.** The induction theorems of the library take an operator as a
  parameter, so induction goes by a smallest counterexample: `Induction` derives
  from `WFMin` that a set of naturals has a least element and a family of finite
  sets one with the fewest. `SumTheorems` shows with it that the library's
  recursion has a unique solution on finite sets and that one may take any
  element out of a sum first (`SumRemove`); the rest of what the ledger needs
  follows (`SumAdd`, `SumSame`, `SumChange`).
- **The ledger.** `LedgerInv` is `Reconciliation` and `OutboxReconciles` with what
  makes them inductive: there are finitely many rows and events, for the sum of
  an infinite set is anything; an account without a row has no money
  (`NothingUnopened`), or opening it would not add its deposit alone; and every
  event of the outbox belongs to a row (`OutboxOfRows`), or a transaction that
  completes could settle events that are there already.
  `PersistLedger` is the one step that moves money: with `NoStaleCopy` the
  written balances differ from the current by the amount, with `LedgerShape` the
  row and its events are new. `Reconciled` and `OutboxReconciled` follow.
- **The outbox.** `OutboxExact` is inductive beside `LedgerInv`, event by event: a
  transfer that fails after its debit can only have been refused by the
  receiver. So `PhantomsAreRefusedCredits`: where every receiver accepts there
  are no phantom debits, and `outbox_events` has shown all there is to find. And
  `TransactionsAreSilent`: that `outbox_events` finds none of the transaction's
  own events holds of every transaction.
- **Money.** `MoneyInv` adds to `MoneyConserved` that there are finitely many
  accounts. Opening one adds its deposit to both sums, and a transfer changes
  two balances by opposite amounts, which `SumChange` takes one after the other:
  `Conservation`.

`Progress_proofs` proves what `EveryCallAnswered` rests on and needs no fairness.

- **Waiting.** `AlwaysSomebody`: take calls that have not ended, none of which
  can go on or waits for a call outside. Each waits for a row; its holder is
  past its first read, for the row locks follow from the place in the code
  (`SessionShape`), and so waits for its second. The fewest calls that wait for
  one another are a cycle (`WaitingEndsInCycle`), and Postgres aborts one of
  them. It assumes that the calls in progress are finitely many.

A call that does not end is waiting, and behind it is one that could go on. That
such a call does go on, and that the retry loop of a key ends by its deadline,
is the fairness assumption; this last step of the argument, over `ENABLED`, is
left to TLC.

`Aggregates_proofs` needs only that the amounts are natural numbers.
`AccountInv` types the account and its two lists of events and says that a
closed account is empty, from which `AggregatesTypeCorrect`,
`ClosedAccountsEmpty` and, step by step, `ClosingIsFinal` follow.
`LifecycleTold` is inductive once the path is named by its length: the first
`n` events are one of the documented lifecycles and every later one is a
rollback. `AccountTold` is about a replay: that the recursion has a
solution is the induction of `ReplayExists`, and that replaying one more event
continues it (`ReplayOneMore`) lets each method be compared with what `Apply`
makes of the event it records; `collect_events` only moves events between the
two lists.

`HttpApi_proofs` is for any calls, users, requests and failures under
`HttpAssumption`. `ApiInv` adds to the checked invariants what a call has done
by the stage it is in (`EffectOf`): before it is handled it has opened nothing,
until it is answered it has no response, and the account it has opened keeps
the owner and the balance of the response. `ReadYourWrites` then needs only the
step that answers the `GET`: whichever credential it came with, it is past
authentication, the account is there and is the caller's.

Every invariant and every action property that a passing run checks is stated
by a theorem. Only model-checked are the two liveness properties,
`EveryCallAnswered` and `LocksFreed`: temporal reasoning under fairness, with
`ENABLED`, is out of the prover's reach. The bounds `MaxAccountEvents` and
`MaxRollbacks` keep TLC's state space finite; the theorems hold for any value of
them.

## 6. Not modelled

- In-memory adapters: they serve the tests only, and no text promises that they
  behave as Postgres does; their docstring says the opposite of atomicity.
- Request ids, logging, connection settings, the health route, the migration's
  downgrade: they keep no state that the ledger or a response depends on.
- `require_admin` and the role `admin`: no route uses the one and no user has
  the other.
- The outbox relay and the subscribers of the event bus: not in the repository.
- `get` of `TransferService` reads a row and changes nothing; its route is
  `GetTransaction`, and only whether the row is there is modelled.
- Operations of the repositories that no service calls: `exists`,
  `transactions.update`, `save` of an account that exists.
- Which of the faults of a session a collision of two random account numbers
  is: it is one of `ServiceFails`.
- The order of rows in the outbox and of events on the bus: both are sets.
