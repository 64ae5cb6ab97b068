-------------------------- MODULE AccountAggregate --------------------------
(***************************************************************************)
(* One Account in memory (src/domain/entities/account.py): every public    *)
(* method, called in any order.  A call that raises changes nothing, and   *)
(* is no step here.  The caller may take the recorded events at any time.  *)
(*                                                                         *)
(* Amounts are in cents.  Events count, for only MaxAccountEvents of them  *)
(* are recorded.                                                           *)
(***************************************************************************)
EXTENDS Integers, Sequences

CONSTANTS
    Cents,            \* the amounts of Money the callers use
    Currencies,       \* the supported currencies
    MaxAccountEvents  \* bound: the events an account records

(* A Money is never negative.                                              *)
ASSUME AccountAssumption == Cents \subseteq Nat

VARIABLES
    account,          \* the aggregate: status, balance and its currency
    origin,           \* what it was when it was created or loaded
    recorded,         \* _domain_events, not yet collected
    collected         \* all that collect_events() has returned

accountVars == <<account, origin, recorded, collected>>

AccountStatus == {"active", "frozen", "closed"}

Money == [amount : Nat, currency : Currencies]

AccountCreated ==
    [type |-> "AccountCreated", initial_balance |-> account.balance.amount,
     currency |-> account.balance.currency]

(* reconstitute() of any row that the methods can have left, without       *)
(* events, or create(), with its event.                                    *)
AccountInit ==
    /\ account \in [status : AccountStatus,
                    balance : [amount : Cents, currency : Currencies]]
    /\ account.status = "closed" => account.balance.amount = 0
    /\ origin = account
    /\ \/ recorded = << >>
       \/ account.status = "active" /\ recorded = <<AccountCreated>>
    /\ collected = << >>

AccountHistory == collected \o recorded

Record(event) ==
    /\ Len(AccountHistory) < MaxAccountEvents
    /\ recorded' = Append(recorded, event)
    /\ UNCHANGED <<origin, collected>>

AssertNotClosed == account.status # "closed"
AssertNotFrozen == account.status # "frozen"

(* Money.__add__ and __sub__ keep the currency, and raise on another one.  *)
SetBalance(amount) == account' = [account EXCEPT !.balance.amount = amount]

BalanceEvent(type, money, after) ==
    [type |-> type, amount |-> money.amount, balance_after |-> after]

(* Mutant of Debit: neither it nor Money compares the balance with zero.   *)
DebitUnchecked(money) ==
    /\ AssertNotClosed
    /\ AssertNotFrozen
    /\ money.currency = account.balance.currency
    /\ SetBalance(account.balance.amount - money.amount)
    /\ Record(BalanceEvent("BalanceDebited", money, account'.balance.amount))

Debit(money) ==
    /\ AssertNotClosed
    /\ AssertNotFrozen
    /\ money.currency = account.balance.currency
    /\ account.balance.amount >= money.amount
    /\ SetBalance(account.balance.amount - money.amount)
    /\ Record(BalanceEvent("BalanceDebited", money, account'.balance.amount))

Credit(money) ==
    /\ AssertNotClosed
    /\ AssertNotFrozen
    /\ money.currency = account.balance.currency
    /\ SetBalance(account.balance.amount + money.amount)
    /\ Record(BalanceEvent("BalanceCredited", money, account'.balance.amount))

SetStatus(status, type) ==
    /\ account' = [account EXCEPT !.status = status]
    /\ Record([type |-> type])

(* freeze() of a frozen and unfreeze() of an active account return early.  *)
Freeze ==
    /\ AssertNotClosed
    /\ AssertNotFrozen
    /\ SetStatus("frozen", "AccountFrozen")

(* Mutant of Unfreeze: without _assert_not_closed.                         *)
UnfreezeClosed ==
    /\ account.status # "active"
    /\ SetStatus("active", "AccountUnfrozen")

Unfreeze ==
    /\ AssertNotClosed
    /\ account.status # "active"
    /\ SetStatus("active", "AccountUnfrozen")

(* Mutant of Close: without is_zero().                                     *)
CloseNonEmpty ==
    /\ AssertNotClosed
    /\ SetStatus("closed", "AccountClosed")

Close ==
    /\ AssertNotClosed
    /\ account.balance.amount = 0
    /\ SetStatus("closed", "AccountClosed")

(* Mutant of CollectAccountEvents: the list is returned but not emptied.   *)
CollectAndKeep ==
    /\ recorded # << >>
    /\ Len(AccountHistory) + Len(recorded) <= MaxAccountEvents
    /\ collected' = collected \o recorded
    /\ UNCHANGED <<account, origin, recorded>>

(* collect_events() swaps the list for an empty one.                       *)
CollectAccountEvents ==
    /\ recorded # << >>
    /\ collected' = collected \o recorded
    /\ recorded' = << >>
    /\ UNCHANGED <<account, origin>>

AccountStep ==
    \/ \E amount \in Cents, currency \in Currencies :
          LET money == [amount |-> amount, currency |-> currency]
          IN  Debit(money) \/ Credit(money)
    \/ Freeze
    \/ Unfreeze
    \/ Close
    \/ CollectAccountEvents
=============================================================================
