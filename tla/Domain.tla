------------------------------- MODULE Domain -------------------------------
(***************************************************************************)
(* The domain layer of the banking service as far as a transfer needs it:  *)
(* the Money value object and the guards of Account.debit and              *)
(* Account.credit (src/domain).  No state lives here.                      *)
(*                                                                         *)
(* A raw amount, as a client sends it, counts thousandths of a currency    *)
(* unit; a Money amount counts hundredths.                                 *)
(***************************************************************************)
EXTENDS Integers

CONSTANTS
    AccountId,        \* account ids, ordered as their strings are
    Currency,         \* the supported currencies
    Key,              \* idempotency keys
    Command,          \* the TransferCommands a client may send
    CurrencyOf,       \* the currency of each account, fixed when it is opened
    StatusOf,         \* the status of each account's row
    OpeningBalance,   \* the raw amount each account is opened with
    MaxBalance,       \* the largest amount a Numeric(19, 4) column stores
    MaxDecimal        \* the largest amount the decimal context can quantize

Status == {"active", "frozen", "closed"}

(* What the schema of POST /transactions/transfer lets through.            *)
TransferRequest == [key : Key, from : AccountId, to : AccountId,
                    amount : Nat, currency : Currency]

(* The status of a row is a constant: no service calls freeze, unfreeze or *)
(* close.  A column stores 15 digits before the point, the context 26: the *)
(* sum of two stored amounts never overflows it.                           *)
ASSUME DomainAssumption ==
    /\ AccountId \subseteq Nat
    /\ Command \subseteq TransferRequest
    /\ CurrencyOf \in [AccountId -> Currency]
    /\ StatusOf \in [AccountId -> Status]
    /\ OpeningBalance \in [AccountId -> Nat]
    /\ MaxBalance \in Nat /\ MaxDecimal \in Nat
    /\ 2 * MaxBalance <= MaxDecimal

(* What an account raises when it refuses a debit or a credit, and what    *)
(* Transaction.initiate raises.                                            *)
Refusals == {"AccountClosedError", "AccountFrozenError",
             "CurrencyMismatchError", "InsufficientFundsError"}

CommandErrors == {"InvalidTransferAmountError", "SameAccountTransferError"}

(* type(exc).__name__.upper().replace("ERROR", "")                         *)
FailureCode == [AccountClosedError |-> "ACCOUNTCLOSED",
                AccountFrozenError |-> "ACCOUNTFROZEN",
                CurrencyMismatchError |-> "CURRENCYMISMATCH",
                InsufficientFundsError |-> "INSUFFICIENTFUNDS"]

-----------------------------------------------------------------------------
(* Money.__post_init__: quantize to 0.01, ROUND_HALF_UP.                   *)
Quantize(raw) == (raw + 5) \div 10

Amount(c) == Quantize(c.amount)

(* quantize does not raise InvalidOperation.                               *)
Representable(c) == Amount(c) <= MaxDecimal

(* Account._assert_not_closed and Account._assert_not_frozen.              *)
MayTransact(a) == StatusOf[a] \notin {"closed", "frozen"}

(* Mutant of CanDebit: Money without its checks for negative amounts, that *)
(* of __sub__ and that of __post_init__.                                   *)
CanDebitUnchecked(a, funds, amount, currency) ==
    MayTransact(a) /\ CurrencyOf[a] = currency

(* Account.debit does not raise: the guards, then Money.__sub__.           *)
CanDebit(a, funds, amount, currency) ==
    /\ MayTransact(a)
    /\ CurrencyOf[a] = currency
    /\ funds >= amount

(* Account.credit does not raise: the guards, then Money.__add__.          *)
CanCredit(a, currency) ==
    /\ MayTransact(a)
    /\ CurrencyOf[a] = currency

(* What debit or credit raises when it does, in the order of its guards.   *)
AccountError(a, currency) ==
    CASE StatusOf[a] = "closed" -> "AccountClosedError"
      [] StatusOf[a] = "frozen" -> "AccountFrozenError"
      [] MayTransact(a) /\ CurrencyOf[a] # currency -> "CurrencyMismatchError"
      [] OTHER -> "InsufficientFundsError"

(* Transaction.initiate does not raise, or what it raises.                 *)
CanInitiate(c) == Amount(c) > 0 /\ c.from # c.to

CommandError(c) == IF Amount(c) = 0 THEN "InvalidTransferAmountError"
                                    ELSE "SameAccountTransferError"

(* The value fits its column.                                              *)
Fits(amount) == amount <= MaxBalance
=============================================================================
