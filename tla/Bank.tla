-------------------------------- MODULE Bank --------------------------------
(***************************************************************************)
(* What the service promises: a ledger in which transfers take effect one  *)
(* at a time.  A transfer is settled only if the sender can pay it from    *)
(* the balance of that very moment, is declined only if it cannot be, with *)
(* the code of the account that refuses it, and every idempotency key is   *)
(* used once.                                                              *)
(***************************************************************************)
EXTENDS Domain

CONSTANT Request

VARIABLES opened, balance, txs

bankVars == <<opened, balance, txs>>

Deposit(a) == Quantize(OpeningBalance[a])

BankInit ==
    /\ opened \subseteq AccountId
    /\ balance = [a \in AccountId |-> IF a \in opened THEN Deposit(a) ELSE 0]
    /\ txs = {}

Payable(c) ==
    /\ CanDebit(c.from, balance[c.from], Amount(c), c.currency)
    /\ CanCredit(c.to, c.currency)

(* A transfer between two accounts of the bank, with an id and a key that  *)
(* no transaction has.                                                     *)
New(id, c) ==
    /\ CanInitiate(c)
    /\ {c.from, c.to} \subseteq opened
    /\ \A t \in txs : t.id # id /\ t.cmd.key # c.key

(* The account at fault: the sender's, unless that one can pay.            *)
Reason(c) ==
    LET refuser == IF CanDebit(c.from, balance[c.from], Amount(c), c.currency)
                     THEN c.to ELSE c.from
    IN  FailureCode[AccountError(refuser, c.currency)]

Enter(id, c, status, code) ==
    txs' = txs \cup {[id |-> id, cmd |-> c, status |-> status, code |-> code]}

Open(a) ==
    /\ a \notin opened
    /\ opened' = opened \cup {a}
    /\ balance' = [balance EXCEPT ![a] = Deposit(a)]
    /\ UNCHANGED txs

Settle(id, c) ==
    /\ New(id, c)
    /\ Payable(c)
    /\ balance' = [balance EXCEPT ![c.from] = @ - Amount(c),
                                  ![c.to] = @ + Amount(c)]
    /\ Enter(id, c, "completed", "null")
    /\ UNCHANGED opened

Decline(id, c) ==
    /\ New(id, c)
    /\ ~Payable(c)
    /\ Enter(id, c, "failed", Reason(c))
    /\ UNCHANGED <<opened, balance>>

BankNext ==
    \/ \E a \in AccountId : Open(a)
    \/ \E id \in Request, c \in Command : Settle(id, c) \/ Decline(id, c)

BankSpec == BankInit /\ [][BankNext]_bankVars
=============================================================================
