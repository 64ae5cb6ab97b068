--------------------------- MODULE AccountService ---------------------------
(***************************************************************************)
(* AccountService.create: one unit of work that inserts an active account. *)
(***************************************************************************)
EXTENDS UnitOfWork

AccountCreated(a) ==
    [type |-> "AccountCreated", by |-> a, amount |-> Quantize(OpeningBalance[a])]

(* save() does not append to seen, so the session has seen nothing.        *)
SavedAggregates == {}

CreateAccount(a) ==
    /\ a \notin opened
    /\ StatusOf[a] = "active"
    /\ Fits(Quantize(OpeningBalance[a]))
    /\ opened' = opened \cup {a}
    /\ balance' = [balance EXCEPT ![a] = Quantize(OpeningBalance[a])]
    /\ outbox' = outbox \cup CollectEvents(SavedAggregates, {AccountCreated(a)})
    /\ UNCHANGED <<txs, rowLocks, copy>>
=============================================================================
