----------------------------- MODULE Aggregates -----------------------------
(***************************************************************************)
(* The two aggregate roots of the domain, in the hands of any caller, and  *)
(* what consumers of their events rely on.                                 *)
(***************************************************************************)
EXTENDS AccountAggregate, TransactionAggregate

vars == <<accountVars, transactionVars>>

Init == AccountInit /\ TransactionInit

(* Any method of either aggregate, in any order.                           *)
Next ==
    \/ AccountStep /\ UNCHANGED transactionVars
    \/ TransactionStep /\ UNCHANGED accountVars

Spec == Init /\ [][Next]_vars

-----------------------------------------------------------------------------
(* Both aggregates keep the types of their fields: in particular a balance *)
(* is a Money, which is never negative.                                    *)
AggregatesTypeOK ==
    /\ account \in [status : AccountStatus, balance : Money]
    /\ tx \in [status : TransactionStatus, rollback_required : BOOLEAN]

(* What an event says of an account.                                       *)
Apply(a, e) ==
    CASE e.type = "AccountCreated" ->
            [status |-> "active",
             balance |-> [amount |-> e.initial_balance, currency |-> e.currency]]
      [] e.type = "BalanceDebited"  -> [a EXCEPT !.balance.amount = @ - e.amount]
      [] e.type = "BalanceCredited" -> [a EXCEPT !.balance.amount = @ + e.amount]
      [] e.type = "AccountFrozen"   -> [a EXCEPT !.status = "frozen"]
      [] e.type = "AccountUnfrozen" -> [a EXCEPT !.status = "active"]
      [] e.type = "AccountClosed"   -> [a EXCEPT !.status = "closed"]

(* The account as the first n of the events tell it.                       *)
Replay(start, events) ==
    LET told[n \in 0 .. Len(events)] ==
            IF n = 0 THEN start ELSE Apply(told[n - 1], events[n])
    IN  told

(***************************************************************************)
(* A consumer that follows the events from the start, those not collected  *)
(* yet included, knows the account exactly, and every balance_after it     *)
(* reads is the balance at that event: no event is missing, doubled or     *)
(* out of place (AggregateRoot.collect_events: emitted exactly once;       *)
(* BalanceDebited: balance_after makes each event self-contained).  Of an  *)
(* account that create() made, AccountCreated is enough to start from.     *)
(***************************************************************************)
EventsTellAccount ==
    LET told == Replay(origin, AccountHistory)
    IN  /\ told[Len(AccountHistory)] = account
        /\ \A n \in 1 .. Len(AccountHistory) :
              LET e == AccountHistory[n]
              IN  e.type \in {"BalanceDebited", "BalanceCredited"} =>
                      e.balance_after = told[n].balance.amount

(* No money is locked up in a closed account, whatever was called before   *)
(* and after close() (AccountClosed: only after balance reaches zero).     *)
ClosedIsEmpty == account.status = "closed" => account.balance.amount = 0

(* A closed account stays as it is for good, and records nothing more      *)
(* (AccountClosed: "this account will never emit events again").           *)
ClosedForGood ==
    [][account.status = "closed" =>
          UNCHANGED <<account, AccountHistory>>]_vars

(* The types of the first n events of the transaction.                     *)
TypesTo(n) == [i \in 1 .. n |-> story[i].type]

(* The lifecycles in the docstring of Transaction, as event sequences.     *)
Lifecycles ==
    LET I == "TransactionInitiated"   P == "TransactionProcessing"
        C == "TransactionCompleted"   F == "TransactionFailed"
    IN  {<<I>>, <<I, P>>, <<I, P, C>>, <<I, F>>, <<I, P, F>>}

StatusAfter(type) ==
    CASE type = "TransactionInitiated"  -> "pending"
      [] type = "TransactionProcessing" -> "processing"
      [] type = "TransactionCompleted"  -> "completed"
      [] OTHER                          -> "failed"

(***************************************************************************)
(* The events of a transaction tell one of the documented lifecycles, then *)
(* nothing but rollbacks; its status is where the lifecycle ends, and a    *)
(* failure asks for a rollback exactly if a debit may have taken place     *)
(* (Transaction.fail).                                                     *)
(***************************************************************************)
EventsTellTransaction ==
    \E n \in 1 .. Len(story) :
        /\ TypesTo(n) \in Lifecycles
        /\ \A i \in n + 1 .. Len(story) : story[i].type = "TransactionRolledBack"
        /\ tx.status = StatusAfter(story[n].type)
        /\ story[n].type = "TransactionFailed" =>
              (story[n].rollback_required <=> n = 3)
=============================================================================
