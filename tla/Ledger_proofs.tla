--------------------------- MODULE Ledger_proofs ---------------------------
(***************************************************************************)
(* Theorems about the ledger of BankingSystem, for every value of its      *)
(* constants: the balances are what the transactions moved, and what the   *)
(* outbox tells.                                                           *)
(***************************************************************************)
EXTENDS BankingSystem_proofs

(* Every event of the outbox belongs to a row.                             *)
OutboxOfRows == \A e \in outbox : \E t \in txs : t.id = e.tx

(* An account without a row has no money.                                  *)
NothingUnopened == \A a \in AccountId \ opened : balance[a] = 0

(* The sums over the rows, and over the events, are finite; the first      *)
(* event of a call is stored with its row; and a new account's balance is  *)
(* its deposit alone.                                                      *)
LedgerInv ==
    /\ IsFiniteSet(txs) /\ IsFiniteSet(outbox)
    /\ OutboxOfRows
    /\ NothingUnopened
    /\ Reconciliation
    /\ OutboxReconciles

-----------------------------------------------------------------------------
(* What one more row adds to what the transactions moved.                  *)
LEMMA MovedProperties ==
    /\ Moved({}) = 0
    /\ \A S \in SUBSET TxRow : IsFiniteSet(S) =>
          /\ Moved(S) \in Int
          /\ \A t \in TxRow \ S : Moved(S \cup {t}) = Moved(S) + Amount(t.cmd)
<1> DEFINE amounts == [t \in TxRow |-> Amount(t.cmd)]
<1>1. Moved({}) = 0
  BY SumEmpty DEF Moved
<1>2. \A t \in TxRow : amounts[t] = Amount(t.cmd) /\ amounts[t] \in Int
  BY CommandType DEF TxRow
<1>3. ASSUME NEW S \in SUBSET TxRow, IsFiniteSet(S)
      PROVE  /\ Moved(S) \in Int
             /\ \A t \in TxRow \ S : Moved(S \cup {t}) = Moved(S) + Amount(t.cmd)
  <2>1. Moved(S) = SumFunctionOnSet(amounts, S)
    BY DEF Moved
  <2>2. Moved(S) \in Int
    <3>1. \A s \in S : amounts[s] \in Int
      BY <1>2
    <3> HIDE DEF amounts
    <3> QED
      BY <1>3, <2>1, <3>1, SumType
  <2>3. ASSUME NEW t \in TxRow \ S
        PROVE  Moved(S \cup {t}) = Moved(S) + Amount(t.cmd)
    <3>1. t \notin S /\ \A s \in S \cup {t} : amounts[s] \in Int
      BY <1>2
    <3>2. Moved(S \cup {t}) = SumFunctionOnSet(amounts, S \cup {t})
      BY DEF Moved
    <3>3. amounts[t] = Amount(t.cmd) /\ amounts[t] \in Int
      BY <1>2
    <3> HIDE DEF amounts
    <3>4. SumFunctionOnSet(amounts, S \cup {t}) =
              amounts[t] + SumFunctionOnSet(amounts, S)
      BY <1>3, <3>1, SumAdd
    <3> QED
      BY <2>1, <2>2, <3>2, <3>3, <3>4
  <2> QED
    BY <2>2, <2>3
<1> QED
  BY <1>1, <1>3

(* What one more event adds to what the events tell.                       *)
LEMMA EventTotalProperties ==
    /\ EventTotal({}) = 0
    /\ \A S \in SUBSET TransferEvent : IsFiniteSet(S) =>
          /\ EventTotal(S) \in Int
          /\ \A e \in TransferEvent \ S :
                EventTotal(S \cup {e}) = EventTotal(S) + e.amount
<1> DEFINE amounts == [e \in TransferEvent |-> e.amount]
<1>1. EventTotal({}) = 0
  BY SumEmpty DEF EventTotal
<1>2. \A e \in TransferEvent : amounts[e] = e.amount /\ amounts[e] \in Int
  BY DEF TransferEvent
<1>3. ASSUME NEW S \in SUBSET TransferEvent, IsFiniteSet(S)
      PROVE  /\ EventTotal(S) \in Int
             /\ \A e \in TransferEvent \ S :
                   EventTotal(S \cup {e}) = EventTotal(S) + e.amount
  <2>1. EventTotal(S) = SumFunctionOnSet(amounts, S)
    BY DEF EventTotal
  <2>2. EventTotal(S) \in Int
    <3>1. \A s \in S : amounts[s] \in Int
      BY <1>2
    <3> HIDE DEF amounts
    <3> QED
      BY <1>3, <2>1, <3>1, SumType
  <2>3. ASSUME NEW e \in TransferEvent \ S
        PROVE  EventTotal(S \cup {e}) = EventTotal(S) + e.amount
    <3>1. e \notin S /\ \A s \in S \cup {e} : amounts[s] \in Int
      BY <1>2
    <3>2. EventTotal(S \cup {e}) = SumFunctionOnSet(amounts, S \cup {e})
      BY DEF EventTotal
    <3>3. amounts[e] = e.amount /\ amounts[e] \in Int
      BY <1>2
    <3> HIDE DEF amounts
    <3>4. SumFunctionOnSet(amounts, S \cup {e}) =
              amounts[e] + SumFunctionOnSet(amounts, S)
      BY <1>3, <3>1, SumAdd
    <3> QED
      BY <2>1, <2>2, <3>2, <3>3, <3>4
  <2> QED
    BY <2>2, <2>3
<1> QED
  BY <1>1, <1>3

-----------------------------------------------------------------------------
(* The sums of the two invariants are sums of finitely many integers.      *)
LEMMA LedgerSums ==
    ASSUME TypeInv, LedgerInv, NEW a \in AccountId
    PROVE  /\ \A S \in {Received(a), Sent(a)} :
                 S \subseteq TxRow /\ IsFiniteSet(S) /\ Moved(S) \in Int
           /\ \A S \in {SettledEvents("BalanceCredited", a),
                         SettledEvents("BalanceDebited", a)} :
                 S \subseteq TransferEvent /\ IsFiniteSet(S) /\ EventTotal(S) \in Int
<1>1. ASSUME NEW S \in {Received(a), Sent(a)}
      PROVE  S \subseteq TxRow /\ IsFiniteSet(S) /\ Moved(S) \in Int
  <2>1. S \in SUBSET txs /\ S \subseteq TxRow
    BY DEF Received, Sent, Completed, TypeInv, TypeOK
  <2>2. IsFiniteSet(S)
    BY <2>1, FS_Subset DEF LedgerInv
  <2> QED
    BY <2>1, <2>2, MovedProperties
<1>2. ASSUME NEW S \in {SettledEvents("BalanceCredited", a),
                        SettledEvents("BalanceDebited", a)}
      PROVE  S \subseteq TransferEvent /\ IsFiniteSet(S) /\ EventTotal(S) \in Int
  <2>1. S \in SUBSET outbox /\ S \subseteq TransferEvent
    BY DEF SettledEvents, TypeInv, TypeOK
  <2>2. IsFiniteSet(S)
    BY <2>1, FS_Subset DEF LedgerInv
  <2> QED
    BY <2>1, <2>2, EventTotalProperties
<1> QED
  BY <1>1, <1>2

(* A ledger without transactions: the balances are the deposits.           *)
LEMMA InitLedger == Init => LedgerInv
<1> SUFFICES ASSUME Init PROVE LedgerInv
  OBVIOUS
<1>1. /\ txs = {} /\ outbox = {} /\ opened = ExistingAccount
      /\ balance = [a \in AccountId |->
                      IF a \in ExistingAccount THEN Quantize(OpeningBalance[a]) ELSE 0]
  BY DEF Init
<1>2. IsFiniteSet(txs) /\ IsFiniteSet(outbox)
  BY <1>1, FS_EmptySet
<1>3. OutboxOfRows /\ NothingUnopened
  BY <1>1 DEF OutboxOfRows, NothingUnopened
<1>4. ASSUME NEW a \in AccountId
      PROVE  balance[a] = Opening(a) /\ Opening(a) \in Int
  <2>1. Quantize(OpeningBalance[a]) \in Nat
    BY DepositType
  <2>2. balance[a] = IF a \in ExistingAccount THEN Quantize(OpeningBalance[a]) ELSE 0
    BY <1>1
  <2> QED
    BY <1>1, <2>1, <2>2 DEF Opening
<1>5. Reconciliation
  <2> SUFFICES ASSUME NEW a \in AccountId
               PROVE  balance[a] = Opening(a) + Moved(Received(a)) - Moved(Sent(a))
    BY DEF Reconciliation
  <2>1. Received(a) = {} /\ Sent(a) = {}
    BY <1>1 DEF Received, Sent, Completed
  <2>2. Moved(Received(a)) = 0 /\ Moved(Sent(a)) = 0
    BY <2>1, MovedProperties
  <2>3. balance[a] = Opening(a) /\ Opening(a) \in Int
    BY <1>4
  <2> QED
    BY <2>2, <2>3
<1>6. OutboxReconciles
  <2> SUFFICES ASSUME NEW a \in AccountId
               PROVE  balance[a] = Opening(a)
                         + EventTotal(SettledEvents("BalanceCredited", a))
                         - EventTotal(SettledEvents("BalanceDebited", a))
    BY DEF OutboxReconciles
  <2>1. /\ SettledEvents("BalanceCredited", a) = {}
        /\ SettledEvents("BalanceDebited", a) = {}
    BY <1>1 DEF SettledEvents
  <2>2. /\ EventTotal(SettledEvents("BalanceCredited", a)) = 0
        /\ EventTotal(SettledEvents("BalanceDebited", a)) = 0
    BY <2>1, EventTotalProperties
  <2>3. balance[a] = Opening(a) /\ Opening(a) \in Int
    BY <1>4
  <2> QED
    BY <2>2, <2>3
<1> QED
  BY <1>2, <1>3, <1>5, <1>6 DEF LedgerInv

(* Opening an account adds its deposit to both sides.                      *)
LEMMA OpenLedger ==
    ASSUME TypeInv, LedgerInv, NEW b \in AccountId, NewAccount(b)
    PROVE  LedgerInv'
<1>1. /\ b \notin opened /\ opened' = opened \cup {b}
      /\ balance' = [balance EXCEPT ![b] = Quantize(OpeningBalance[b])]
      /\ txs' = txs
  BY DEF NewAccount, CreateAccount
<1>2. outbox' = outbox
  BY DEF NewAccount, CreateAccount, CollectEvents, SavedAggregates
<1>3. OutboxOfRows' /\ NothingUnopened'
  BY <1>1, <1>2 DEF LedgerInv, OutboxOfRows, NothingUnopened, TypeInv, TypeOK
<1>4. /\ Completed' = Completed
      /\ \A type, a : SettledEvents(type, a)' = SettledEvents(type, a)
  BY <1>1, <1>2 DEF Completed, SettledEvents
<1>5. ASSUME NEW a \in AccountId, NEW in \in Int, NEW out \in Int,
             balance[a] = Opening(a) + in - out
      PROVE  balance'[a] = Opening(a)' + in - out
  <2>1. CASE a = b
    <3>1. balance[a] = 0 /\ Opening(a) = 0
      BY <1>1, <2>1 DEF LedgerInv, NothingUnopened, Opening
    <3>2. balance'[a] = Opening(a)' /\ Opening(a)' \in Int
      BY <1>1, <2>1, DepositType DEF Opening, TypeInv, TypeOK
    <3> QED
      BY <1>5, <3>1, <3>2
  <2>2. CASE a # b
    <3>1. balance'[a] = balance[a] /\ Opening(a)' = Opening(a)
      BY <1>1, <2>2 DEF Opening, TypeInv, TypeOK
    <3> QED
      BY <1>5, <3>1
  <2> QED
    BY <2>1, <2>2
<1>6. Reconciliation'
  <2> SUFFICES ASSUME NEW a \in AccountId
               PROVE  balance'[a] = Opening(a)' + Moved(Received(a)') - Moved(Sent(a)')
    BY DEF Reconciliation
  <2>1. Received(a)' = Received(a) /\ Sent(a)' = Sent(a)
    BY <1>4 DEF Received, Sent
  <2>2. balance[a] = Opening(a) + Moved(Received(a)) - Moved(Sent(a))
    BY DEF LedgerInv, Reconciliation
  <2> QED
    BY <1>5, <2>1, <2>2, LedgerSums
<1>7. OutboxReconciles'
  <2> SUFFICES ASSUME NEW a \in AccountId
               PROVE  balance'[a] = Opening(a)'
                         + EventTotal(SettledEvents("BalanceCredited", a)')
                         - EventTotal(SettledEvents("BalanceDebited", a)')
    BY DEF OutboxReconciles
  <2>1. balance[a] = Opening(a)
                       + EventTotal(SettledEvents("BalanceCredited", a))
                       - EventTotal(SettledEvents("BalanceDebited", a))
    BY DEF LedgerInv, OutboxReconciles
  <2> QED
    BY <1>4, <1>5, <2>1, LedgerSums
<1> QED
  BY <1>1, <1>2, <1>3, <1>6, <1>7 DEF LedgerInv

-----------------------------------------------------------------------------
(* What commit() adds to the rows and to the outbox.  The transaction's    *)
(* own events are not among the stored ones.                               *)
LEMMA PersistAdds ==
    ASSUME TypeInv, IsolationInv, LedgerInv, NEW r \in Request, Persist(r)
    PROVE  /\ txs' = txs \cup {TransactionOf(r)}
           /\ TransactionOf(r) \in TxRow /\ TransactionOf(r) \notin txs
           /\ \A t \in txs : t.id # r
           /\ opened' = opened /\ Accounts(r) \subseteq opened
           /\ cmd[r].from \in AccountId /\ cmd[r].to \in AccountId
           /\ cmd[r].from # cmd[r].to /\ Amount(cmd[r]) \in Nat
           /\ outbox' = outbox \cup
                 (IF Debitable(r) THEN {Event("BalanceDebited", cmd[r].from, r)}
                                  ELSE {}) \cup
                 (IF Applicable(r) THEN {Event("BalanceCredited", cmd[r].to, r)}
                                   ELSE {})
<1>1. /\ pc[r] = "commit" /\ CanInitiate(cmd[r])
      /\ txs' = txs \cup {TransactionOf(r)} /\ opened' = opened
      /\ outbox' = outbox \cup CollectEvents(rowLocks[r], RecordedEvents(r))
  BY DEF Persist, Commit
<1>2. cmd[r] \in Command /\ txs' \subseteq TxRow
  BY PersistType DEF TypeInv, TypeOK
<1>3. /\ cmd[r].from \in AccountId /\ cmd[r].to \in AccountId
      /\ Amount(cmd[r]) \in Nat /\ cmd[r].from # cmd[r].to
  BY <1>1, <1>2, CommandType DEF CanInitiate
<1>4. rowLocks[r] = {cmd[r].from, cmd[r].to} /\ Accounts(r) \subseteq opened
  BY <1>1, CommitFacts DEF Accounts
<1>5. TransactionOf(r).id = r /\ \A t \in txs : t.id # r
  <2>1. \A t \in txs : pc[t.id] \in {"release", "done", "crashed"}
    BY DEF IsolationInv, LedgerShape
  <2> QED
    BY <1>1, <2>1 DEF TransactionOf, Row
<1>6. r \notin {cmd[r].from, cmd[r].to}
  BY <1>3, ServiceAssumption DEF ServiceAssumption
<1>7. Applicable(r) => Debitable(r)
  BY DEF Applicable
<1>8. CollectEvents(rowLocks[r], RecordedEvents(r)) =
          (IF Debitable(r) THEN {Event("BalanceDebited", cmd[r].from, r)}
                           ELSE {}) \cup
          (IF Applicable(r) THEN {Event("BalanceCredited", cmd[r].to, r)}
                            ELSE {})
  BY <1>4, <1>6, <1>7
  DEF CollectEvents, RecordedEvents, SuccessEvents, FailureEvents, Event
<1> QED
  BY <1>1, <1>2, <1>3, <1>4, <1>5, <1>8

(* A completed transfer is one more transaction from one account and to    *)
(* the other; a failed one changes no sum.                                 *)
LEMMA PersistSums ==
    ASSUME TypeInv, IsolationInv, LedgerInv, NEW r \in Request, Persist(r),
           NEW a \in AccountId
    PROVE  LET amount == Amount(cmd[r])
           IN  /\ Moved(Received(a)') = Moved(Received(a))
                     + (IF Applicable(r) /\ a = cmd[r].to THEN amount ELSE 0)
               /\ Moved(Sent(a)') = Moved(Sent(a))
                     + (IF Applicable(r) /\ a = cmd[r].from THEN amount ELSE 0)
<1> DEFINE row == TransactionOf(r)
<1>1. row \in TxRow /\ row \notin txs /\ txs' = txs \cup {row} /\ row.cmd = cmd[r]
  BY PersistAdds DEF TransactionOf, Row
<1>2. row.status = "completed" <=> Applicable(r)
  BY DEF TransactionOf, Row
<1>3. Completed' = IF Applicable(r) THEN Completed \cup {row} ELSE Completed
  BY <1>1, <1>2 DEF Completed
<1>4. row \notin Received(a) /\ row \notin Sent(a)
  BY <1>1 DEF Received, Sent, Completed
<1>5. /\ Received(a)' = IF Applicable(r) /\ a = cmd[r].to
                          THEN Received(a) \cup {row} ELSE Received(a)
      /\ Sent(a)' = IF Applicable(r) /\ a = cmd[r].from
                      THEN Sent(a) \cup {row} ELSE Sent(a)
  BY <1>1, <1>3 DEF Received, Sent
<1>6. ASSUME NEW S \in {Received(a), Sent(a)}
      PROVE  Moved(S) \in Int /\ Moved(S \cup {row}) = Moved(S) + Amount(cmd[r])
  <2>1. S \subseteq TxRow /\ IsFiniteSet(S) /\ Moved(S) \in Int
    BY LedgerSums
  <2>2. row \in TxRow \ S
    BY <1>1, <1>4
  <2> QED
    BY <1>1, <2>1, <2>2, MovedProperties
<1> HIDE DEF row
<1>7. /\ Moved(Received(a)) \in Int /\ Moved(Sent(a)) \in Int
      /\ Moved(Received(a) \cup {row}) = Moved(Received(a)) + Amount(cmd[r])
      /\ Moved(Sent(a) \cup {row}) = Moved(Sent(a)) + Amount(cmd[r])
  BY <1>6
<1> QED
  BY <1>5, <1>7

(* The same of the stored events: those of a completed transfer count, the *)
(* debit of one that failed does not.                                      *)
LEMMA PersistEventSums ==
    ASSUME TypeInv, IsolationInv, LedgerInv, NEW r \in Request, Persist(r),
           NEW a \in AccountId
    PROVE  LET amount == Amount(cmd[r])
               in == SettledEvents("BalanceCredited", a)
               out == SettledEvents("BalanceDebited", a)
           IN  /\ EventTotal(in') = EventTotal(in)
                     + (IF Applicable(r) /\ a = cmd[r].to THEN amount ELSE 0)
               /\ EventTotal(out') = EventTotal(out)
                     + (IF Applicable(r) /\ a = cmd[r].from THEN amount ELSE 0)
<1> DEFINE row == TransactionOf(r)
           debit == Event("BalanceDebited", cmd[r].from, r)
           credit == Event("BalanceCredited", cmd[r].to, r)
           Settled(e) == \E t \in Completed : t.id = e.tx
           in == SettledEvents("BalanceCredited", a)
           out == SettledEvents("BalanceDebited", a)
<1>1. /\ txs' = txs \cup {row} /\ \A t \in txs : t.id # r
      /\ outbox' = outbox \cup (IF Debitable(r) THEN {debit} ELSE {})
                           \cup (IF Applicable(r) THEN {credit} ELSE {})
  BY PersistAdds
<1>2. row.id = r /\ (row.status = "completed" <=> Applicable(r))
  BY DEF TransactionOf, Row
<1>3. Completed' = IF Applicable(r) THEN Completed \cup {row} ELSE Completed
  BY <1>1, <1>2 DEF Completed
<1>4. \A e \in outbox : e.tx # r /\ (Settled(e)' <=> Settled(e))
  <2> SUFFICES ASSUME NEW e \in outbox
               PROVE  e.tx # r /\ (Settled(e)' <=> Settled(e))
    OBVIOUS
  <2>1. e.tx # r
    BY <1>1 DEF LedgerInv, OutboxOfRows
  <2> QED
    BY <1>2, <1>3, <2>1
<1>5. \A e \in {debit, credit} : e.tx = r /\ e \notin outbox
                                   /\ (Settled(e)' <=> Applicable(r))
  <2>1. debit.tx = r /\ credit.tx = r
    BY DEF Event
  <2>2. \A t \in Completed : t.id # r
    BY <1>1 DEF Completed
  <2> QED
    BY <1>2, <1>3, <1>4, <2>1, <2>2
<1>6. /\ debit.type = "BalanceDebited" /\ debit.by = cmd[r].from
      /\ credit.type = "BalanceCredited" /\ credit.by = cmd[r].to
      /\ debit.amount = Amount(cmd[r]) /\ credit.amount = Amount(cmd[r])
  BY DEF Event
<1>7. Applicable(r) => Debitable(r)
  BY DEF Applicable
<1>8. /\ in' = IF Applicable(r) /\ a = cmd[r].to THEN in \cup {credit} ELSE in
      /\ out' = IF Applicable(r) /\ a = cmd[r].from THEN out \cup {debit} ELSE out
  <2> HIDE DEF row, debit, credit
  <2> QED
    BY <1>1, <1>4, <1>5, <1>6, <1>7 DEF SettledEvents
<1>9. debit \in TransferEvent /\ credit \in TransferEvent
  <2>1. SuccessEvents(r) \subseteq TransferEvent
    BY EventsType DEF TypeInv
  <2> QED
    BY <2>1 DEF SuccessEvents
<1>10. /\ EventTotal(in) \in Int /\ EventTotal(out) \in Int
       /\ EventTotal(in \cup {credit}) = EventTotal(in) + Amount(cmd[r])
       /\ EventTotal(out \cup {debit}) = EventTotal(out) + Amount(cmd[r])
  <2>1. \A S \in {in, out} :
            S \subseteq TransferEvent /\ IsFiniteSet(S) /\ EventTotal(S) \in Int
    BY LedgerSums
  <2>2. credit \in TransferEvent \ in /\ debit \in TransferEvent \ out
    BY <1>5, <1>9 DEF SettledEvents
  <2> HIDE DEF in, out, debit, credit
  <2>3. /\ EventTotal(in \cup {credit}) = EventTotal(in) + credit.amount
        /\ EventTotal(out \cup {debit}) = EventTotal(out) + debit.amount
    BY <2>1, <2>2, EventTotalProperties
  <2> QED
    BY <1>6, <2>1, <2>3
<1>11. EventTotal(in') = EventTotal(in)
          + (IF Applicable(r) /\ a = cmd[r].to THEN Amount(cmd[r]) ELSE 0)
  <2> HIDE DEF in, credit
  <2> QED
    BY <1>8, <1>10
<1>12. EventTotal(out') = EventTotal(out)
          + (IF Applicable(r) /\ a = cmd[r].from THEN Amount(cmd[r]) ELSE 0)
  <2> HIDE DEF out, debit
  <2> QED
    BY <1>8, <1>10
<1> QED
  BY <1>11, <1>12, Zenon

(* The commit of a transfer keeps the ledger reconciled.                   *)
LEMMA PersistLedger ==
    ASSUME TypeInv, IsolationInv, LedgerInv, NEW r \in Request, Persist(r)
    PROVE  LedgerInv'
<1> DEFINE from == cmd[r].from
           to == cmd[r].to
           amount == Amount(cmd[r])
           debits == IF Debitable(r) THEN {Event("BalanceDebited", from, r)} ELSE {}
           credits == IF Applicable(r) THEN {Event("BalanceCredited", to, r)} ELSE {}
<1>1. /\ txs' = txs \cup {TransactionOf(r)} /\ TransactionOf(r).id = r
      /\ outbox' = outbox \cup debits \cup credits
      /\ opened' = opened /\ {from, to} \subseteq opened
      /\ from \in AccountId /\ to \in AccountId /\ from # to /\ amount \in Nat
  BY PersistAdds DEF Accounts, TransactionOf, Row
<1>2. IsFiniteSet(txs')
  BY <1>1, FS_AddElement DEF LedgerInv
<1>3. IsFiniteSet(outbox')
  <2>1. IsFiniteSet(debits) /\ IsFiniteSet(credits)
    BY FS_Singleton, FS_EmptySet
  <2> HIDE DEF debits, credits
  <2> QED
    BY <1>1, <2>1, FS_Union DEF LedgerInv
<1>4. OutboxOfRows'
  <2>1. \A e \in debits \cup credits : e.tx = r
    BY DEF Event
  <2> HIDE DEF debits, credits
  <2> QED
    BY <1>1, <2>1 DEF LedgerInv, OutboxOfRows
<1>5. /\ \A a \in AccountId \ {from, to} : balance'[a] = balance[a]
      /\ ~Applicable(r) => balance' = balance
      /\ Applicable(r) => balance' = [balance EXCEPT ![from] = balance[from] - amount,
                                                   ![to] = balance[to] + amount]
  <2>1. pc[r] = "commit" /\ CanInitiate(cmd[r]) /\ balance' = Written(r)
    BY DEF Persist, Commit
  <2> QED
    BY <2>1, WrittenFacts DEF Accounts
<1>6. NothingUnopened'
  BY <1>1, <1>5 DEF LedgerInv, NothingUnopened
<1>7. ASSUME NEW a \in AccountId, NEW in \in Int, NEW out \in Int,
             balance[a] = Opening(a) + in - out
      PROVE  balance'[a] = Opening(a)'
                + (in + (IF Applicable(r) /\ a = to THEN amount ELSE 0))
                - (out + (IF Applicable(r) /\ a = from THEN amount ELSE 0))
  <2>1. Opening(a)' = Opening(a) /\ Opening(a) \in Int
    BY <1>1, DepositType DEF Opening
  <2>2. balance'[a] = balance[a]
            + (IF Applicable(r) /\ a = to THEN amount ELSE 0)
            - (IF Applicable(r) /\ a = from THEN amount ELSE 0)
    <3>1. balance \in [AccountId -> Int]
      BY DEF TypeInv, TypeOK
    <3> HIDE DEF from, to, amount
    <3> QED
      BY <1>1, <1>5, <3>1
  <2> HIDE DEF from, to, amount
  <2> QED
    BY <1>1, <1>7, <2>1, <2>2
<1>8. Reconciliation'
  <2> SUFFICES ASSUME NEW a \in AccountId
               PROVE  balance'[a] = Opening(a)' + Moved(Received(a)') - Moved(Sent(a)')
    BY DEF Reconciliation
  <2>1. balance[a] = Opening(a) + Moved(Received(a)) - Moved(Sent(a))
    BY DEF LedgerInv, Reconciliation
  <2>2. Moved(Received(a)) \in Int /\ Moved(Sent(a)) \in Int
    BY LedgerSums
  <2> QED
    BY <1>7, <2>1, <2>2, PersistSums
<1>9. OutboxReconciles'
  <2> SUFFICES ASSUME NEW a \in AccountId
               PROVE  balance'[a] = Opening(a)'
                         + EventTotal(SettledEvents("BalanceCredited", a)')
                         - EventTotal(SettledEvents("BalanceDebited", a)')
    BY DEF OutboxReconciles
  <2>1. balance[a] = Opening(a)
                       + EventTotal(SettledEvents("BalanceCredited", a))
                       - EventTotal(SettledEvents("BalanceDebited", a))
    BY DEF LedgerInv, OutboxReconciles
  <2>2. /\ EventTotal(SettledEvents("BalanceCredited", a)) \in Int
        /\ EventTotal(SettledEvents("BalanceDebited", a)) \in Int
    BY LedgerSums
  <2> QED
    BY <1>7, <2>1, <2>2, PersistEventSums
<1> QED
  BY <1>2, <1>3, <1>4, <1>6, <1>8, <1>9 DEF LedgerInv

-----------------------------------------------------------------------------
(* A step commits a transfer, opens an account, or leaves the ledger and   *)
(* the outbox alone.                                                       *)
LEMMA LedgerCases ==
    ASSUME [Next]_vars
    PROVE  \/ \E r \in Request : Persist(r)
           \/ \E a \in AccountId : NewAccount(a)
           \/ UNCHANGED <<opened, balance, txs, outbox>>
<1>1. ASSUME NEW r \in Request, Progress(r)
      PROVE  Persist(r) \/ UNCHANGED <<opened, balance, txs, outbox>>
  BY <1>1
  DEF dbVars, Progress, IdempotencyHit, IdempotencyMiss, AmountOverflow,
      AcquireKey, LockTimeout, LoadSender, LoadReceiver, GetWithLock,
      AccountMissing, RejectCommand, Rollback, CommitCompleted, CommitFailed,
      CommitRejected, DeadlockVictim, ReleaseKey, Finish
<1>2. ASSUME NEW r \in Request, Failure(r)
      PROVE  Persist(r) \/ UNCHANGED <<opened, balance, txs, outbox>>
  BY <1>2
  DEF dbVars, Failure, LockError, CommitUnacknowledged, DatabaseError,
      ReleaseKeyFails, Crash, Rollback
<1>3. CASE (\E k \in AccountId : KeyExpires(k)) \/ UNCHANGED vars
  BY <1>3 DEF KeyExpires, vars, dbVars
<1> QED
  BY <1>1, <1>2, <1>3 DEF Next, Idle

(* Every step keeps the ledger reconciled.                                 *)
LEMMA NextLedger ==
    TypeInv /\ IsolationInv /\ LedgerInv /\ [Next]_vars => LedgerInv'
<1> SUFFICES ASSUME TypeInv, IsolationInv, LedgerInv, [Next]_vars
             PROVE  LedgerInv'
  OBVIOUS
<1>1. CASE UNCHANGED <<opened, balance, txs, outbox>>
  BY <1>1
  DEF LedgerInv, OutboxOfRows, NothingUnopened, Reconciliation, OutboxReconciles,
      Opening, Received, Sent, SettledEvents, Completed
<1> QED
  BY <1>1, LedgerCases, PersistLedger, OpenLedger

(* The ledger is reconciled in every reachable state.                      *)
LEMMA LedgerInvariant == Spec => []LedgerInv
BY InitLedger, NextLedger, TypeInvariant, IsolationInvariant, PTL DEF Spec

(* No interleaving, lapsed lock, crash or lost reply loses an update or    *)
(* makes one twice: every balance is the deposit plus what the completed   *)
(* transactions brought, less what they took.                              *)
THEOREM Reconciled == Spec => []Reconciliation
<1>1. LedgerInv => Reconciliation
  BY DEF LedgerInv
<1> QED
  BY <1>1, LedgerInvariant, PTL

(* The events are stored with the balances they tell of, and only with     *)
(* those (IUnitOfWork.commit).                                             *)
THEOREM OutboxReconciled == Spec => []OutboxReconciles
<1>1. LedgerInv => OutboxReconciles
  BY DEF LedgerInv
<1> QED
  BY <1>1, LedgerInvariant, PTL

-----------------------------------------------------------------------------
(* The rows that commit() adds the events of: none else, and none less.    *)
LEMMA PersistTells ==
    ASSUME TypeInv, IsolationInv, LedgerInv, OutboxTellsRows,
           NEW r \in Request, Persist(r)
    PROVE  OutboxTellsRows'
<1> DEFINE row == TransactionOf(r)
           debits == IF Debitable(r) THEN {DebitOf(row)} ELSE {}
           credits == IF Applicable(r) THEN {CreditOf(row)} ELSE {}
<1>1. row.cmd = cmd[r] /\ row.id = r
  BY DEF TransactionOf, Row
<1>2. row.status = IF Applicable(r) THEN "completed" ELSE "failed"
  BY DEF TransactionOf, Row
<1>3. txs' = txs \cup {row} /\ outbox' = outbox \cup debits \cup credits
  BY <1>1, PersistAdds DEF DebitOf, CreditOf, Event
<1>4. Applicable(r) <=> Debitable(r) /\ CanCredit(row.cmd.to, row.cmd.currency)
  BY <1>1 DEF Applicable
<1> HIDE DEF row
<1>5. \A t \in Completed' : {DebitOf(t), CreditOf(t)} \subseteq outbox'
  <2> SUFFICES ASSUME NEW t \in Completed'
               PROVE  {DebitOf(t), CreditOf(t)} \subseteq outbox'
    OBVIOUS
  <2>1. CASE t \in Completed
    BY <1>3, <2>1 DEF OutboxTellsRows
  <2>2. CASE t = row /\ Applicable(r)
    BY <1>3, <1>4, <2>2
  <2> QED
    BY <1>2, <1>3, <2>1, <2>2 DEF Completed
<1>6. \A e \in outbox' : \E t \in txs' :
          \/ t.status = "completed" /\ e \in {DebitOf(t), CreditOf(t)}
          \/ /\ t.status = "failed" /\ e = DebitOf(t)
             /\ ~CanCredit(t.cmd.to, t.cmd.currency)
  <2> SUFFICES ASSUME NEW e \in outbox'
               PROVE  \E t \in txs' :
                         \/ t.status = "completed" /\ e \in {DebitOf(t), CreditOf(t)}
                         \/ /\ t.status = "failed" /\ e = DebitOf(t)
                            /\ ~CanCredit(t.cmd.to, t.cmd.currency)
    OBVIOUS
  <2>1. CASE e \in outbox
    BY <1>3, <2>1 DEF OutboxTellsRows
  <2>2. CASE e \in debits
    BY <1>2, <1>3, <1>4, <2>2
  <2>3. CASE e \in credits
    BY <1>2, <1>3, <2>3
  <2> QED
    BY <1>3, <2>1, <2>2, <2>3
<1> QED
  BY <1>5, <1>6 DEF OutboxTellsRows

(* The outbox holds the debit and the credit of every completed transfer,  *)
(* and otherwise only the debits of transfers that the receiver's account  *)
(* refused.                                                                *)
THEOREM OutboxExact == Spec => []OutboxTellsRows
<1>1. Init => OutboxTellsRows
  BY DEF Init, OutboxTellsRows, Completed
<1>2. TypeInv /\ IsolationInv /\ LedgerInv /\ OutboxTellsRows /\ [Next]_vars
          => OutboxTellsRows'
  <2> SUFFICES ASSUME TypeInv, IsolationInv, LedgerInv, OutboxTellsRows, [Next]_vars
               PROVE  OutboxTellsRows'
    OBVIOUS
  <2>1. CASE UNCHANGED <<txs, outbox>>
    BY <2>1 DEF OutboxTellsRows, Completed
  <2>2. ASSUME NEW a \in AccountId, NewAccount(a) PROVE UNCHANGED <<txs, outbox>>
    BY <2>2 DEF NewAccount, CreateAccount, CollectEvents, SavedAggregates
  <2> QED
    BY <2>1, <2>2, LedgerCases, PersistTells
<1> QED
  BY <1>1, <1>2, TypeInvariant, IsolationInvariant, LedgerInvariant, PTL DEF Spec

(* Where no receiver refuses, there are no phantom debits: a frozen or     *)
(* closed account, or one of another currency, is all that the debit       *)
(* recorded before the except branch of initiate takes to be stored.       *)
THEOREM PhantomsAreRefusedCredits ==
    ASSUME \A c \in Command : CanCredit(c.to, c.currency)
    PROVE  Spec => []NoPhantomDebits
<1>1. TypeInv /\ OutboxTellsRows => NoPhantomDebits
  <2> SUFFICES ASSUME TypeInv, OutboxTellsRows, NEW e \in outbox
               PROVE  \E t \in Completed : t.id = e.tx
    BY DEF NoPhantomDebits
  <2>1. PICK t \in txs :
            \/ t.status = "completed" /\ e \in {DebitOf(t), CreditOf(t)}
            \/ ~CanCredit(t.cmd.to, t.cmd.currency)
    BY DEF OutboxTellsRows
  <2>2. t.cmd \in Command
    BY DEF TypeInv, TypeOK, TxRow
  <2>3. t.status = "completed" /\ e.tx = t.id
    BY <2>1, <2>2 DEF DebitOf, CreditOf
  <2> QED
    BY <2>3 DEF Completed
<1> QED
  BY <1>1, TypeInvariant, OutboxExact, PTL

(* No transaction's own events are ever stored, whatever is committed:     *)
(* save() does not add to seen, from which commit() collects.              *)
THEOREM TransactionsAreSilent ==
    Spec => [](\A t \in txs : \A e \in outbox : e.by # t.id)
<1>1. TypeInv /\ OutboxTellsRows => \A t \in txs : \A e \in outbox : e.by # t.id
  <2> SUFFICES ASSUME TypeInv, OutboxTellsRows, NEW t \in txs, NEW e \in outbox
               PROVE  e.by # t.id
    OBVIOUS
  <2>1. PICK u \in txs : e \in {DebitOf(u), CreditOf(u)}
    BY DEF OutboxTellsRows
  <2>2. u.cmd \in Command /\ t.id \in Request
    BY DEF TypeInv, TypeOK, TxRow
  <2>3. e.by \in AccountId
    BY <2>1, <2>2, CommandType DEF DebitOf, CreditOf
  <2> QED
    BY <2>2, <2>3, ServiceAssumption DEF ServiceAssumption
<1> QED
  BY <1>1, TypeInvariant, OutboxExact, PTL

-----------------------------------------------------------------------------
(* The sum over the open accounts is finite.                               *)
MoneyInv == IsFiniteSet(opened) /\ MoneyConserved

Deposits == [a \in AccountId |-> Quantize(OpeningBalance[a])]

(* At the start there is what was paid in.                                 *)
LEMMA InitMoney == Init => MoneyInv
<1> SUFFICES ASSUME Init PROVE MoneyInv
  OBVIOUS
<1>1. opened = ExistingAccount /\ opened \subseteq AccountId /\ IsFiniteSet(opened)
  BY SystemAssumption DEF SystemAssumption, Init
<1>2. \A a \in opened : balance[a] = Deposits[a]
  BY <1>1 DEF Init, Deposits
<1>3. SumFunctionOnSet(balance, opened) = SumFunctionOnSet(Deposits, opened)
  BY <1>1, <1>2, SumSame
<1> QED
  BY <1>1, <1>3 DEF MoneyInv, MoneyConserved, Deposits

(* A new account adds its deposit to both sums.                            *)
LEMMA OpenMoney ==
    ASSUME TypeInv, MoneyInv, NEW b \in AccountId, NewAccount(b)
    PROVE  MoneyInv'
<1>1. /\ b \notin opened /\ opened' = opened \cup {b}
      /\ balance' = [balance EXCEPT ![b] = Quantize(OpeningBalance[b])]
  BY DEF NewAccount, CreateAccount
<1>2. /\ opened \subseteq AccountId /\ balance \in [AccountId -> Int]
      /\ IsFiniteSet(opened)
  BY DEF TypeInv, TypeOK, MoneyInv
<1>3. /\ Deposits \in [AccountId -> Int] /\ balance' \in [AccountId -> Int]
      /\ balance'[b] = Deposits[b]
  BY <1>1, <1>2, DepositType DEF Deposits
<1>4. IsFiniteSet(opened')
  BY <1>1, <1>2, FS_AddElement
<1>5. SumFunctionOnSet(balance', opened) = SumFunctionOnSet(balance, opened)
  <2>1. \A a \in opened : balance'[a] = balance[a]
    BY <1>1, <1>2
  <2> QED
    BY <1>2, <2>1, SumSame
<1>6. ASSUME NEW f \in [AccountId -> Int]
      PROVE  SumFunctionOnSet(f, opened \cup {b}) = f[b] + SumFunctionOnSet(f, opened)
  <2>1. \A a \in opened \cup {b} : f[a] \in Int
    BY <1>2
  <2> QED
    BY <1>1, <1>2, <2>1, SumAdd
<1>7. SumFunctionOnSet(balance, opened) = SumFunctionOnSet(Deposits, opened)
  BY DEF MoneyInv, MoneyConserved, Deposits
<1>8. SumFunctionOnSet(balance', opened') = SumFunctionOnSet(Deposits, opened')
  BY <1>1, <1>3, <1>5, <1>6, <1>7
<1> QED
  BY <1>4, <1>8 DEF MoneyInv, MoneyConserved, Deposits

(* A transfer takes from one account what it gives to another.             *)
LEMMA PersistMoney ==
    ASSUME TypeInv, IsolationInv, LedgerInv, MoneyInv, NEW r \in Request, Persist(r)
    PROVE  MoneyInv'
<1> DEFINE from == cmd[r].from
           to == cmd[r].to
           amount == Amount(cmd[r])
           paid == [balance EXCEPT ![from] = balance[from] - amount]
           sum(f) == SumFunctionOnSet(f, opened)
<1>1. /\ opened' = opened /\ {from, to} \subseteq opened
      /\ from \in AccountId /\ to \in AccountId /\ from # to /\ amount \in Nat
  BY PersistAdds DEF Accounts
<1>2. /\ opened \subseteq AccountId /\ balance \in [AccountId -> Int]
      /\ IsFiniteSet(opened)
  BY DEF TypeInv, TypeOK, MoneyInv
<1>3. /\ ~Applicable(r) => balance' = balance
      /\ Applicable(r) => balance' = [balance EXCEPT ![from] = balance[from] - amount,
                                                   ![to] = balance[to] + amount]
  <2>1. pc[r] = "commit" /\ CanInitiate(cmd[r]) /\ balance' = Written(r)
    BY DEF Persist, Commit
  <2> QED
    BY <2>1, WrittenFacts
<1> HIDE DEF from, to, amount
<1>4. Applicable(r) => balance' = [paid EXCEPT ![to] = balance[to] + amount]
  BY <1>1, <1>2, <1>3
<1>5. paid \in [AccountId -> Int] /\ paid[to] = balance[to]
  BY <1>1, <1>2
<1>6. /\ balance[from] \in Int /\ balance[from] - amount \in Int
      /\ balance[to] \in Int /\ balance[to] + amount \in Int
  BY <1>1, <1>2
<1>7. ASSUME NEW f, NEW g, NEW x \in opened,
              f \in [AccountId -> Int], g \in [AccountId -> Int],
              \A a \in opened \ {x} : f[a] = g[a]
       PROVE  sum(g) = sum(f) - f[x] + g[x]
  <2>1. \A a \in opened : f[a] \in Int /\ g[a] \in Int
    BY <1>2, <1>7
  <2> QED
    BY <1>2, <1>7, <2>1, SumChange
<1>8. sum(paid) = sum(balance) - balance[from] + (balance[from] - amount)
  <2>1. /\ paid[from] = balance[from] - amount
        /\ \A a \in opened \ {from} : balance[a] = paid[a]
    BY <1>1, <1>2
  <2> HIDE DEF paid, sum
  <2> QED
    BY <1>1, <1>2, <1>5, <1>7, <2>1
<1>9. Applicable(r) => sum(balance') = sum(paid) - paid[to] + (balance[to] + amount)
  <2> SUFFICES ASSUME Applicable(r)
               PROVE  sum(balance') = sum(paid) - paid[to] + (balance[to] + amount)
    OBVIOUS
  <2>1. /\ balance' \in [AccountId -> Int]
        /\ balance'[to] = balance[to] + amount
        /\ \A a \in opened \ {to} : paid[a] = balance'[a]
    BY <1>1, <1>2, <1>4, <1>5, <1>6
  <2> HIDE DEF paid, sum
  <2> QED
    BY <1>1, <1>5, <1>7, <2>1
<1>10. sum(balance) \in Int
  <2>1. \A a \in opened : balance[a] \in Int
    BY <1>2
  <2> QED
    BY <1>2, <2>1, SumType
<1>11. sum(balance') = sum(balance)
  <2> HIDE DEF paid, sum
  <2> QED
    BY <1>1, <1>3, <1>5, <1>6, <1>8, <1>9, <1>10
<1> QED
  BY <1>1, <1>2, <1>11 DEF MoneyInv, MoneyConserved

(* The transfers neither make money nor lose any.                          *)
THEOREM Conservation == Spec => []MoneyConserved
<1>1. TypeInv /\ IsolationInv /\ LedgerInv /\ MoneyInv /\ [Next]_vars => MoneyInv'
  <2> SUFFICES ASSUME TypeInv, IsolationInv, LedgerInv, MoneyInv, [Next]_vars
               PROVE  MoneyInv'
    OBVIOUS
  <2>1. CASE UNCHANGED <<opened, balance, txs, outbox>>
    BY <2>1 DEF MoneyInv, MoneyConserved
  <2> QED
    BY <2>1, LedgerCases, PersistMoney, OpenMoney
<1>2. MoneyInv => MoneyConserved
  BY DEF MoneyInv
<1> QED
  BY <1>1, <1>2, InitMoney, TypeInvariant, IsolationInvariant, LedgerInvariant, PTL
  DEF Spec
=============================================================================
