------------------------- MODULE Aggregates_proofs -------------------------
(***************************************************************************)
(* Theorems about the two aggregate roots, for any amounts and currencies  *)
(* and any number of events.                                               *)
(***************************************************************************)
EXTENDS Aggregates, SequenceTheorems, Induction

(* The events an account records.                                          *)
AccountEvent ==
    [type : {"BalanceDebited", "BalanceCredited"}, amount : Nat, balance_after : Nat]
        \cup [type : {"AccountFrozen", "AccountUnfrozen", "AccountClosed"}]
        \cup [type : {"AccountCreated"}, initial_balance : Nat, currency : Currencies]

(* The two lists of events are sequences, and a closed account is empty.   *)
AccountInv ==
    /\ account \in [status : AccountStatus, balance : Money]
    /\ recorded \in Seq(AccountEvent)
    /\ collected \in Seq(AccountEvent)
    /\ ClosedIsEmpty

-----------------------------------------------------------------------------
(* Every account is created, or loaded, with a Money in it.                *)
LEMMA AccountInitInv == AccountInit => AccountInv
<1> SUFFICES ASSUME AccountInit PROVE AccountInv
  OBVIOUS
<1>1. [amount : Cents, currency : Currencies] \subseteq Money
  BY AccountAssumption DEF AccountAssumption, Money
<1>2. account \in [status : AccountStatus, balance : Money]
  BY <1>1 DEF AccountInit
<1>3. AccountCreated \in AccountEvent
  BY <1>2 DEF AccountCreated, AccountEvent, Money
<1>4. recorded \in Seq(AccountEvent) /\ collected \in Seq(AccountEvent)
  <2> DEFINE e == AccountCreated
  <2>1. e \in AccountEvent
    BY <1>3
  <2>2. recorded \in {<< >>, <<e>>} /\ collected = << >>
    BY DEF AccountInit
  <2> HIDE DEF e
  <2>3. << >> \in Seq(AccountEvent) /\ <<e>> \in Seq(AccountEvent)
    BY <2>1
  <2> QED
    BY <2>2, <2>3
<1> QED
  BY <1>2, <1>4 DEF AccountInit, AccountInv, ClosedIsEmpty

(* Recording an event keeps both lists in type.                            *)
LEMMA RecordType ==
    ASSUME AccountInv, NEW e \in AccountEvent, Record(e)
    PROVE  recorded' \in Seq(AccountEvent) /\ collected' \in Seq(AccountEvent)
BY AppendProperties DEF AccountInv, Record

(* A debit or a credit that leaves a Money keeps the account's invariant.  *)
LEMMA BalanceStep ==
    ASSUME AccountInv, NEW type \in {"BalanceDebited", "BalanceCredited"},
           NEW money, money.amount \in Nat, NEW after \in Nat,
           AssertNotClosed, SetBalance(after),
           Record(BalanceEvent(type, money, account'.balance.amount))
    PROVE  AccountInv'
<1>1. /\ account' = [account EXCEPT !.balance.amount = after]
      /\ account.status # "closed"
  BY DEF SetBalance, AssertNotClosed
<1>2. /\ account' \in [status : AccountStatus, balance : Money]
      /\ account'.balance.amount = after /\ account'.status = account.status
  BY <1>1 DEF AccountInv, Money
<1>3. BalanceEvent(type, money, account'.balance.amount) \in AccountEvent
  BY <1>2 DEF BalanceEvent, AccountEvent
<1>4. recorded' \in Seq(AccountEvent) /\ collected' \in Seq(AccountEvent)
  BY <1>3, RecordType
<1> QED
  BY <1>1, <1>2, <1>4 DEF AccountInv, ClosedIsEmpty

(* A change of status keeps it, if only an empty account is closed.        *)
LEMMA StatusStep ==
    ASSUME AccountInv, NEW status \in AccountStatus,
           NEW type \in {"AccountFrozen", "AccountUnfrozen", "AccountClosed"},
           SetStatus(status, type),
           status = "closed" => account.balance.amount = 0
    PROVE  AccountInv'
<1>1. /\ account' \in [status : AccountStatus, balance : Money]
      /\ account'.balance = account.balance /\ account'.status = status
  BY DEF SetStatus, AccountInv, Money
<1>2. recorded' \in Seq(AccountEvent) /\ collected' \in Seq(AccountEvent)
  BY RecordType DEF SetStatus, AccountEvent
<1> QED
  BY <1>1, <1>2 DEF AccountInv, ClosedIsEmpty

(* Handing the events out changes neither the account nor its history.     *)
LEMMA CollectStep ==
    ASSUME AccountInv, CollectAccountEvents
    PROVE  AccountInv' /\ UNCHANGED <<account, AccountHistory>>
<1>1. /\ collected' = collected \o recorded /\ recorded' = << >>
      /\ account' = account
  BY DEF CollectAccountEvents
<1>2. collected \in Seq(AccountEvent) /\ recorded \in Seq(AccountEvent)
  BY DEF AccountInv
<1>3. collected \o recorded \in Seq(AccountEvent)
  BY <1>2, ConcatProperties
<1>4. (collected \o recorded) \o << >> = collected \o recorded
  BY <1>3, ConcatEmptySeq
<1>5. AccountInv'
  BY <1>1, <1>3 DEF AccountInv, ClosedIsEmpty
<1>6. AccountHistory' = AccountHistory
  BY <1>1, <1>4 DEF AccountHistory
<1> QED
  BY <1>1, <1>5, <1>6

(* No method of the account leaves it out of its type, or closed with a    *)
(* balance; and once it is closed, there is nothing left to do with it but *)
(* to collect its events.                                                  *)
LEMMA AccountStepInv ==
    ASSUME AccountInv, AccountStep
    PROVE  /\ AccountInv'
           /\ account.status = "closed" => CollectAccountEvents
<1> DEFINE funds == account.balance.amount
<1>0. funds \in Nat
  BY DEF AccountInv, Money
<1>1. ASSUME NEW amount \in Cents, NEW currency \in Currencies,
             NEW money, money = [amount |-> amount, currency |-> currency],
             Debit(money)
      PROVE  AccountInv' /\ account.status # "closed"
  <2>1. money.amount \in Nat
    BY <1>1, AccountAssumption DEF AccountAssumption
  <2>2. funds - money.amount \in Nat
    BY <1>0, <1>1, <2>1 DEF Debit
  <2> QED
    BY <1>1, <2>1, <2>2, BalanceStep DEF Debit, AssertNotClosed
<1>2. ASSUME NEW amount \in Cents, NEW currency \in Currencies,
             NEW money, money = [amount |-> amount, currency |-> currency],
             Credit(money)
      PROVE  AccountInv' /\ account.status # "closed"
  <2>1. money.amount \in Nat /\ funds + money.amount \in Nat
    BY <1>0, <1>2, AccountAssumption DEF AccountAssumption
  <2> QED
    BY <1>2, <2>1, BalanceStep DEF Credit, AssertNotClosed
<1>3. CASE Freeze
  BY <1>3, StatusStep DEF Freeze, AssertNotClosed, AccountStatus
<1>4. CASE Unfreeze
  BY <1>4, StatusStep DEF Unfreeze, AssertNotClosed, AccountStatus
<1>5. CASE Close
  BY <1>5, StatusStep DEF Close, AssertNotClosed, AccountStatus
<1>6. CASE CollectAccountEvents
  BY <1>6, CollectStep
<1> QED
  BY <1>1, <1>2, <1>3, <1>4, <1>5, <1>6 DEF AccountStep

-----------------------------------------------------------------------------
(* What the events tell.  The replay is a function defined by recursion.   *)
IsReplay(told, start, events, k) ==
    told = [n \in 0 .. k |-> IF n = 0 THEN start ELSE Apply(told[n - 1], events[n])]

(* The recursion has a solution, however long it goes on.                  *)
LEMMA ReplayExists ==
    ASSUME NEW start, NEW events, NEW k \in Nat
    PROVE  \E told : IsReplay(told, start, events, k)
<1> DEFINE bad == {n \in Nat : ~ \E told : IsReplay(told, start, events, n)}
<1> SUFFICES ASSUME bad # {} PROVE FALSE
  OBVIOUS
<1>1. PICK m \in bad : \A n \in bad : m <= n
  <2>1. bad \subseteq Nat
    OBVIOUS
  <2> HIDE DEF bad
  <2> QED
    BY <2>1, LeastNat
<1>2. m # 0
  <2> DEFINE first == [n \in 0 .. 0 |-> start]
  <2>1. IsReplay(first, start, events, 0)
    BY DEF IsReplay
  <2> QED
    BY <2>1
<1>3. PICK told : IsReplay(told, start, events, m - 1)
  BY <1>1, <1>2
<1> DEFINE next == [n \in 0 .. m |->
                      IF n = 0 THEN start ELSE Apply(told[n - 1], events[n])]
<1>4. \A n \in 0 .. m - 1 : next[n] = told[n]
  BY <1>3 DEF IsReplay
<1>5. \A n \in 0 .. m : n # 0 => n - 1 \in 0 .. m - 1
  OBVIOUS
<1>6. next = [n \in 0 .. m |->
                IF n = 0 THEN start ELSE Apply(next[n - 1], events[n])]
  BY <1>4, <1>5
<1> QED
  BY <1>6 DEF IsReplay

(* The replay of a list of events is that solution.                        *)
LEMMA ReplayUnfolds ==
    ASSUME NEW start, NEW events, Len(events) \in Nat
    PROVE  IsReplay(Replay(start, events), start, events, Len(events))
<1>1. Replay(start, events) = CHOOSE told : IsReplay(told, start, events, Len(events))
  BY DEF Replay, IsReplay
<1> QED
  BY <1>1, ReplayExists

(* One more event applies to the account that the earlier ones tell, and   *)
(* changes nothing that these tell.                                        *)
LEMMA ReplayOneMore ==
    ASSUME NEW start, NEW events, NEW more,
           Len(events) \in Nat, Len(more) = Len(events) + 1,
           \A i \in 1 .. Len(events) : more[i] = events[i]
    PROVE  /\ \A n \in 0 .. Len(events) :
                 Replay(start, more)[n] = Replay(start, events)[n]
           /\ Replay(start, more)[Len(more)] =
                 Apply(Replay(start, events)[Len(events)], more[Len(more)])
<1> DEFINE k == Len(events)
           f == Replay(start, events)
           g == Replay(start, more)
<1>1. /\ IsReplay(f, start, events, k) /\ IsReplay(g, start, more, k + 1)
      /\ k \in Nat
  BY ReplayUnfolds
<1>2. \A i \in 1 .. k : more[i] = events[i]
  OBVIOUS
<1> HIDE DEF f, g, k
<1> DEFINE bad == {n \in 0 .. k : g[n] # f[n]}
<1>3. ASSUME bad # {} PROVE FALSE
  <2>1. PICK m \in bad : \A n \in bad : m <= n
    <3>1. bad \subseteq Nat
      OBVIOUS
    <3> HIDE DEF bad
    <3> QED
      BY <1>3, <3>1, LeastNat
  <2>2. g[0] = start /\ f[0] = start
    BY <1>1 DEF IsReplay
  <2>3. m \in 1 .. k /\ m - 1 \in 0 .. k /\ m - 1 \notin bad
    BY <1>1, <2>1, <2>2
  <2>4. f[m] = Apply(f[m - 1], events[m]) /\ g[m] = Apply(g[m - 1], more[m])
    BY <1>1, <2>3 DEF IsReplay
  <2> QED
    BY <1>2, <2>1, <2>3, <2>4
<1>4. g[k + 1] = Apply(g[k], more[k + 1])
  BY <1>1 DEF IsReplay
<1>5. \A n \in 0 .. k : g[n] = f[n]
  BY <1>3
<1>6. g[k] = f[k]
  BY <1>1, <1>5
<1>7. Len(more) = k + 1
  BY DEF k
<1> QED
  BY <1>4, <1>5, <1>6, <1>7 DEF f, g, k

(* An account that was loaded is what it was at first; of one that was     *)
(* created, the one event tells all.                                       *)
LEMMA InitTells == AccountInit => EventsTellAccount
<1> SUFFICES ASSUME AccountInit PROVE EventsTellAccount
  OBVIOUS
<1>1. account \in [status : AccountStatus,
                  balance : [amount : Cents, currency : Currencies]]
  BY DEF AccountInit
<1>2. origin = account /\ collected = << >>
  BY DEF AccountInit
<1>3. CASE recorded = << >>
  <2>1. AccountHistory = << >>
    BY <1>2, <1>3 DEF AccountHistory
  <2>2. Len(AccountHistory) = 0
    BY <2>1
  <2>3. Replay(origin, AccountHistory)[0] = origin
    BY <2>2, ReplayUnfolds DEF IsReplay
  <2> QED
    BY <1>2, <2>1, <2>2, <2>3 DEF EventsTellAccount
<1>4. CASE account.status = "active" /\ recorded = <<AccountCreated>>
  <2>1. AccountHistory = <<AccountCreated>>
    BY <1>2, <1>4, ConcatEmptySeq DEF AccountHistory
  <2>2. Len(AccountHistory) = 1 /\ AccountHistory[1] = AccountCreated
    BY <2>1
  <2>3. AccountCreated.type = "AccountCreated"
    BY DEF AccountCreated
  <2> DEFINE f == Replay(origin, AccountHistory)
  <2>4. f[1] = Apply(f[0], AccountCreated)
    BY <2>2, ReplayUnfolds DEF IsReplay
  <2> HIDE DEF f
  <2>5. Apply(f[0], AccountCreated) = account
    BY <1>1, <1>4 DEF Apply, AccountCreated
  <2> QED
    BY <2>2, <2>3, <2>4, <2>5 DEF EventsTellAccount, f
<1> QED
  BY <1>3, <1>4 DEF AccountInit

(* Recording goes on at the end of the history.                            *)
LEMMA HistoryGrows ==
    ASSUME AccountInv, NEW e \in AccountEvent, Record(e)
    PROVE  /\ Len(AccountHistory) \in Nat
           /\ Len(AccountHistory)' = Len(AccountHistory) + 1
           /\ \A i \in 1 .. Len(AccountHistory) : AccountHistory'[i] = AccountHistory[i]
           /\ AccountHistory'[Len(AccountHistory)'] = e
           /\ origin' = origin
<1>1. recorded \in Seq(AccountEvent) /\ collected \in Seq(AccountEvent)
  BY DEF AccountInv
<1>2. recorded' = Append(recorded, e) /\ collected' = collected /\ origin' = origin
  BY DEF Record
<1>3. AccountHistory \in Seq(AccountEvent) /\ <<e>> \in Seq(AccountEvent)
  BY <1>1, ConcatProperties DEF AccountHistory
<1>4. AccountHistory' = Append(AccountHistory, e)
  <2>1. Append(recorded, e) = recorded \o <<e>>
    BY <1>1, AppendIsConcat
  <2>2. collected \o (recorded \o <<e>>) = (collected \o recorded) \o <<e>>
    BY <1>1, <1>3, ConcatAssociative
  <2>3. Append(AccountHistory, e) = AccountHistory \o <<e>>
    BY <1>3, AppendIsConcat
  <2> QED
    BY <1>2, <2>1, <2>2, <2>3 DEF AccountHistory
<1> DEFINE h == AccountHistory
<1> HIDE DEF h
<1>5. /\ Len(h) \in Nat /\ Len(Append(h, e)) = Len(h) + 1
      /\ \A i \in 1 .. Len(h) : Append(h, e)[i] = h[i]
      /\ Append(h, e)[Len(h) + 1] = e
  BY <1>3, AppendProperties DEF h
<1> QED
  BY <1>2, <1>4, <1>5 DEF h

(* If the event says what happened to the account, its history still tells *)
(* the account, and every balance_after the balance of that moment.        *)
LEMMA RecordTells ==
    ASSUME AccountInv, EventsTellAccount, NEW e \in AccountEvent, Record(e),
           account' = Apply(account, e),
           e.type \in {"BalanceDebited", "BalanceCredited"} =>
               e.balance_after = account'.balance.amount
    PROVE  EventsTellAccount'
<1> DEFINE h == AccountHistory
           k == Len(h)
           f == Replay(origin, h)
           g == Replay(origin, h')
<1>1. /\ k \in Nat /\ Len(h') = k + 1 /\ origin' = origin
      /\ \A i \in 1 .. k : h'[i] = h[i]
      /\ h'[k + 1] = e
  BY HistoryGrows
<1>2. (\A n \in 0 .. k : g[n] = f[n]) /\ g[k + 1] = Apply(f[k], e)
  <2> HIDE DEF h
  <2> QED
    BY <1>1, ReplayOneMore
<1>3. /\ f[k] = account
      /\ \A n \in 1 .. k : h[n].type \in {"BalanceDebited", "BalanceCredited"} =>
            h[n].balance_after = f[n].balance.amount
  BY DEF EventsTellAccount
<1>4. g[k + 1] = account'
  BY <1>2, <1>3
<1> HIDE DEF h, f, g
<1>5. ASSUME NEW n \in 1 .. k + 1,
             h'[n].type \in {"BalanceDebited", "BalanceCredited"}
      PROVE  h'[n].balance_after = g[n].balance.amount
  <2>1. CASE n = k + 1
    BY <1>1, <1>4, <1>5, <2>1
  <2>2. CASE n \in 1 .. k
    BY <1>1, <1>2, <1>3, <1>5, <2>2
  <2> QED
    BY <1>1, <2>1, <2>2
<1> QED
  BY <1>1, <1>4, <1>5 DEF EventsTellAccount, h, g

(* Every method that changes the account records what it did.              *)
LEMMA AccountStepTells ==
    ASSUME AccountInv, EventsTellAccount, AccountStep
    PROVE  EventsTellAccount'
<1> DEFINE funds == account.balance.amount
<1>0. account \in [status : AccountStatus, balance : Money] /\ funds \in Nat
  BY DEF AccountInv, Money
<1>1. ASSUME NEW type \in {"BalanceDebited", "BalanceCredited"},
             NEW money, money.amount \in Nat, NEW after \in Nat,
             after = IF type = "BalanceDebited" THEN funds - money.amount
                                                ELSE funds + money.amount,
             SetBalance(after), Record(BalanceEvent(type, money, account'.balance.amount))
      PROVE  EventsTellAccount'
  <2> DEFINE e == BalanceEvent(type, money, after)
  <2>1. account' = [account EXCEPT !.balance.amount = after]
    BY <1>1 DEF SetBalance
  <2>2. account'.balance.amount = after
    BY <1>0, <2>1 DEF Money
  <2>3. Record(e) /\ e \in AccountEvent
    BY <1>1, <2>2 DEF BalanceEvent, AccountEvent
  <2>4. e.type = type /\ e.amount = money.amount /\ e.balance_after = after
    BY DEF BalanceEvent
  <2>5. account' = Apply(account, e)
    BY <1>1, <2>1, <2>4 DEF Apply
  <2> QED
    BY <2>2, <2>3, <2>4, <2>5, RecordTells
<1>2. ASSUME NEW status \in AccountStatus,
             NEW type \in {"AccountFrozen", "AccountUnfrozen", "AccountClosed"},
             <<status, type>> \in {<<"frozen", "AccountFrozen">>,
                                   <<"active", "AccountUnfrozen">>,
                                   <<"closed", "AccountClosed">>},
             SetStatus(status, type)
      PROVE  EventsTellAccount'
  <2> DEFINE e == [type |-> type]
  <2>1. account' = [account EXCEPT !.status = status] /\ Record(e)
    BY <1>2 DEF SetStatus
  <2>2. e \in AccountEvent /\ e.type = type
    BY DEF AccountEvent
  <2>3. account' = Apply(account, e)
    BY <1>2, <2>1, <2>2 DEF Apply
  <2> QED
    BY <2>1, <2>2, <2>3, RecordTells
<1>3. ASSUME NEW amount \in Cents, NEW currency \in Currencies,
             NEW money, money = [amount |-> amount, currency |-> currency],
             Debit(money) \/ Credit(money)
      PROVE  EventsTellAccount'
  <2>1. money.amount \in Nat /\ funds + money.amount \in Nat
    BY <1>0, <1>3, AccountAssumption DEF AccountAssumption
  <2>2. Debit(money) => funds - money.amount \in Nat
    BY <1>0, <2>1 DEF Debit
  <2> QED
    BY <1>1, <1>3, <2>1, <2>2 DEF Debit, Credit
<1>4. CASE Freeze
  BY <1>2, <1>4 DEF Freeze, AccountStatus
<1>5. CASE Unfreeze
  BY <1>2, <1>5 DEF Unfreeze, AccountStatus
<1>6. CASE Close
  BY <1>2, <1>6 DEF Close, AccountStatus
<1>7. CASE CollectAccountEvents
  <2>1. UNCHANGED <<account, AccountHistory, origin>>
    BY <1>7, CollectStep DEF CollectAccountEvents
  <2> QED
    BY <2>1 DEF EventsTellAccount
<1> QED
  BY <1>3, <1>4, <1>5, <1>6, <1>7 DEF AccountStep

-----------------------------------------------------------------------------
(* The transaction: how far its life has gone.                             *)
Stage(n) ==
    /\ n \in 1 .. Len(story)
    /\ TypesTo(n) \in Lifecycles
    /\ \A i \in n + 1 .. Len(story) : story[i].type = "TransactionRolledBack"
    /\ tx.status = StatusAfter(story[n].type)
    /\ story[n].type = "TransactionFailed" => (story[n].rollback_required <=> n = 3)

(* The events a transaction records.                                       *)
TransactionEvent ==
    [type : {"TransactionInitiated", "TransactionProcessing",
             "TransactionCompleted", "TransactionRolledBack"}]
        \cup [type : {"TransactionFailed"}, rollback_required : BOOLEAN]

TransactionInv ==
    /\ tx \in [status : TransactionStatus, rollback_required : BOOLEAN]
    /\ story \in Seq(TransactionEvent)
    /\ \E n \in Nat : Stage(n) /\ (tx.status # "failed" => n = Len(story))

(* What the last event of a lifecycle says of how long it is.              *)
LEMMA LifecycleLength ==
    ASSUME NEW n \in Nat, TypesTo(n) \in Lifecycles, n >= 1
    PROVE  /\ story[n].type = "TransactionInitiated" => n = 1
           /\ story[n].type = "TransactionProcessing" =>
                 n = 2 /\ story[1].type = "TransactionInitiated"
           /\ n <= 3
<1>1. TypesTo(n)[n] = story[n].type /\ (n >= 2 => TypesTo(n)[1] = story[1].type)
  BY DEF TypesTo
<1>2. DOMAIN TypesTo(n) = 1 .. n
  BY DEF TypesTo
<1> DEFINE t == TypesTo(n)
<1> HIDE DEF t
<1>3. t \in Lifecycles
  BY DEF t
<1>4. DOMAIN t = 1 .. n
  BY <1>2 DEF t
<1>5. CASE t = <<"TransactionInitiated">>
  <2>1. n = 1
    BY <1>4, <1>5
  <2> QED
    BY <2>1, <1>1, <1>5 DEF t
<1>6. CASE t = <<"TransactionInitiated", "TransactionProcessing">>
  <2>1. n = 2
    BY <1>4, <1>6
  <2> QED
    BY <2>1, <1>1, <1>6 DEF t
<1>7. CASE t = <<"TransactionInitiated", "TransactionFailed">>
  <2>1. n = 2
    BY <1>4, <1>7
  <2> QED
    BY <2>1, <1>1, <1>7 DEF t
<1>8. CASE \E last \in {"TransactionCompleted", "TransactionFailed"} :
              t = <<"TransactionInitiated", "TransactionProcessing", last>>
  <2>1. n = 3
    BY <1>4, <1>8
  <2> QED
    BY <2>1, <1>1, <1>8 DEF t
<1> QED
  BY <1>3, <1>5, <1>6, <1>7, <1>8 DEF Lifecycles

(* Recording an event adds it at the end and moves no other.               *)
LEMMA TellProperties ==
    ASSUME TransactionInv, NEW e \in TransactionEvent, Tell(e)
    PROVE  /\ story' \in Seq(TransactionEvent)
           /\ Len(story) \in Nat /\ Len(story') = Len(story) + 1
           /\ \A i \in 1 .. Len(story) : story'[i] = story[i]
           /\ story'[Len(story) + 1] = e
BY AppendProperties DEF TransactionInv, Tell

(* initiate() leaves a transaction at the first stage of its life.         *)
LEMMA TransactionInitInv == TransactionInit => TransactionInv
<1> SUFFICES ASSUME TransactionInit PROVE TransactionInv
  OBVIOUS
<1> DEFINE first == [type |-> "TransactionInitiated"]
<1>1. /\ tx = [status |-> "pending", rollback_required |-> FALSE]
      /\ story = <<first>>
  BY DEF TransactionInit
<1>2. first \in TransactionEvent
  BY DEF TransactionEvent
<1>3. /\ story \in Seq(TransactionEvent) /\ Len(story) = 1
      /\ story[1].type = "TransactionInitiated"
  BY <1>1, <1>2
<1>4. TypesTo(1) = <<"TransactionInitiated">>
  BY <1>3 DEF TypesTo
<1>5. TypesTo(1) \in Lifecycles
  BY <1>4 DEF Lifecycles
<1>6. Stage(1)
  BY <1>1, <1>3, <1>5 DEF Stage, StatusAfter
<1> QED
  BY <1>1, <1>3, <1>6 DEF TransactionInv, TransactionStatus

(* A step that advances a living transaction by one event makes the next   *)
(* stage of its life.                                                      *)
LEMMA Advance ==
    ASSUME TransactionInv, NEW e \in TransactionEvent, Tell(e),
           tx' \in [status : TransactionStatus, rollback_required : BOOLEAN],
           NEW n \in Nat, n = Len(story) + 1, TypesTo(n)' \in Lifecycles,
           tx'.status = StatusAfter(e.type),
           e.type = "TransactionFailed" => (e.rollback_required <=> n = 3)
    PROVE  TransactionInv'
<1>1. /\ story' \in Seq(TransactionEvent) /\ n >= 1
      /\ Len(story') = n /\ story'[n] = e
  BY TellProperties
<1>2. Stage(n)'
  BY <1>1 DEF Stage
<1> QED
  BY <1>1, <1>2 DEF TransactionInv

(* Where a living transaction stands, by its status.                       *)
LEMMA Standing ==
    ASSUME TransactionInv, tx.status \in {"pending", "processing"}
    PROVE  /\ tx.status = "pending" =>
                 Len(story) = 1 /\ story[1].type = "TransactionInitiated"
           /\ tx.status = "processing" =>
                 /\ Len(story) = 2 /\ story[1].type = "TransactionInitiated"
                 /\ story[2].type = "TransactionProcessing"
<1>1. PICK n \in Nat : Stage(n) /\ n = Len(story)
  BY DEF TransactionInv
<1>2. n >= 1 /\ TypesTo(n) \in Lifecycles /\ tx.status = StatusAfter(story[n].type)
  BY <1>1 DEF Stage
<1>3. /\ tx.status = "pending" => story[n].type = "TransactionInitiated"
      /\ tx.status = "processing" => story[n].type = "TransactionProcessing"
  BY <1>2 DEF StatusAfter
<1> QED
  BY <1>1, <1>2, <1>3, LifecycleLength

(* Every method leaves a transaction in a documented lifecycle.            *)
LEMMA TransactionStepInv ==
    ASSUME TransactionInv, TransactionStep
    PROVE  TransactionInv'
<1>0. tx \in [status : TransactionStatus, rollback_required : BOOLEAN]
  BY DEF TransactionInv
<1>1. CASE MarkProcessing
  <2> DEFINE e == [type |-> "TransactionProcessing"]
  <2>1. e \in TransactionEvent /\ Tell(e) /\ Len(story) = 1
        /\ story[1].type = "TransactionInitiated"
    BY <1>1, Standing DEF MarkProcessing, TransactionEvent
  <2>2. story'[1] = story[1] /\ story'[2] = e
    BY <2>1, TellProperties
  <2>3. TypesTo(2)' = <<"TransactionInitiated", "TransactionProcessing">>
    BY <2>1, <2>2 DEF TypesTo
  <2>4. TypesTo(2)' \in Lifecycles
    BY <2>3 DEF Lifecycles
  <2>5. tx'.status = StatusAfter(e.type)
    BY <1>0, <1>1 DEF MarkProcessing, StatusAfter
  <2> QED
    BY <1>0, <1>1, <2>1, <2>4, <2>5, Advance DEF MarkProcessing, TransactionStatus
<1>2. CASE Complete
  <2> DEFINE e == [type |-> "TransactionCompleted"]
  <2>1. e \in TransactionEvent /\ Tell(e) /\ Len(story) = 2
        /\ story[1].type = "TransactionInitiated"
        /\ story[2].type = "TransactionProcessing"
    BY <1>2, Standing DEF Complete, TransactionEvent
  <2>2. story'[1] = story[1] /\ story'[2] = story[2] /\ story'[3] = e
    BY <2>1, TellProperties
  <2>3. TypesTo(3)' = <<"TransactionInitiated", "TransactionProcessing",
                        "TransactionCompleted">>
    BY <2>1, <2>2 DEF TypesTo
  <2>4. TypesTo(3)' \in Lifecycles
    BY <2>3 DEF Lifecycles
  <2>5. tx'.status = StatusAfter(e.type)
    BY <1>0, <1>2 DEF Complete, StatusAfter
  <2> QED
    BY <1>0, <1>2, <2>1, <2>4, <2>5, Advance DEF Complete, TransactionStatus
<1>3. CASE Fail /\ tx.status = "pending"
  <2> DEFINE e == [type |-> "TransactionFailed", rollback_required |-> FALSE]
  <2>1. /\ e \in TransactionEvent /\ Tell(e)
        /\ tx' = [status |-> "failed", rollback_required |-> FALSE]
    BY <1>3 DEF Fail, TransactionEvent
  <2>2. /\ Len(story) = 1 /\ story[1].type = "TransactionInitiated"
    BY <1>3, Standing
  <2>3. story'[1] = story[1] /\ story'[2] = e
    BY <2>1, <2>2, TellProperties
  <2>4. TypesTo(2)' = <<"TransactionInitiated", "TransactionFailed">>
    BY <2>2, <2>3 DEF TypesTo
  <2>5. TypesTo(2)' \in Lifecycles
    BY <2>4 DEF Lifecycles
  <2>6. tx'.status = StatusAfter(e.type)
    BY <2>1 DEF StatusAfter
  <2> QED
    BY <2>1, <2>2, <2>5, <2>6, Advance DEF TransactionStatus
<1>6. CASE Fail /\ tx.status = "processing"
  <2> DEFINE e == [type |-> "TransactionFailed", rollback_required |-> TRUE]
  <2>1. /\ e \in TransactionEvent /\ Tell(e)
        /\ tx' = [status |-> "failed", rollback_required |-> TRUE]
    BY <1>6 DEF Fail, TransactionEvent
  <2>2. /\ Len(story) = 2 /\ story[1].type = "TransactionInitiated"
        /\ story[2].type = "TransactionProcessing"
    BY <1>6, Standing
  <2>3. story'[1] = story[1] /\ story'[2] = story[2] /\ story'[3] = e
    BY <2>1, <2>2, TellProperties
  <2>4. TypesTo(3)' = <<"TransactionInitiated", "TransactionProcessing",
                        "TransactionFailed">>
    BY <2>2, <2>3 DEF TypesTo
  <2>5. TypesTo(3)' \in Lifecycles
    BY <2>4 DEF Lifecycles
  <2>6. tx'.status = StatusAfter(e.type)
    BY <2>1 DEF StatusAfter
  <2> QED
    BY <2>1, <2>2, <2>5, <2>6, Advance DEF TransactionStatus
<1>4. CASE MarkRolledBack
  <2> DEFINE e == [type |-> "TransactionRolledBack"]
  <2>1. e \in TransactionEvent /\ Tell(e) /\ tx' = tx /\ tx.status = "failed"
    BY <1>4 DEF MarkRolledBack, TransactionEvent
  <2>2. PICK n \in Nat : Stage(n)
    BY DEF TransactionInv
  <2>3. n \in 1 .. Len(story) /\ n \in 1 .. Len(story') /\ story'[n] = story[n]
    BY <2>1, <2>2, TellProperties DEF Stage
  <2>4. TypesTo(n)' = TypesTo(n)
    BY <2>1, <2>3, TellProperties DEF TypesTo
  <2>5. \A i \in n + 1 .. Len(story') : story'[i].type = "TransactionRolledBack"
    BY <2>1, <2>2, TellProperties DEF Stage
  <2>6. Stage(n)'
    BY <2>1, <2>2, <2>3, <2>4, <2>5 DEF Stage
  <2> QED
    BY <1>0, <2>1, <2>6, TellProperties DEF TransactionInv
<1>5. CASE Reload
  <2>1. story' = story /\ tx'.status = tx.status
        /\ tx' \in [status : TransactionStatus, rollback_required : BOOLEAN]
    BY <1>0, <1>5 DEF Reload
  <2> QED
    BY <2>1 DEF TransactionInv, Stage, TypesTo
<1> QED
  BY <1>1, <1>2, <1>3, <1>4, <1>5, <1>6 DEF TransactionStep, Fail, CanFail

-----------------------------------------------------------------------------
(* Both invariants hold in every state of the two aggregates.              *)
LEMMA AggregatesInvariant == Spec => [](AccountInv /\ TransactionInv)
<1>1. Init => AccountInv /\ TransactionInv
  BY AccountInitInv, TransactionInitInv DEF Init
<1>2. AccountInv /\ TransactionInv /\ [Next]_vars => (AccountInv /\ TransactionInv)'
  <2> SUFFICES ASSUME AccountInv, TransactionInv, [Next]_vars
               PROVE  AccountInv' /\ TransactionInv'
    OBVIOUS
  <2>1. CASE AccountStep /\ UNCHANGED transactionVars
    <3>1. TransactionInv'
      BY <2>1 DEF transactionVars, TransactionInv, Stage, TypesTo
    <3> QED
      BY <2>1, <3>1, AccountStepInv
  <2>2. CASE TransactionStep /\ UNCHANGED accountVars
    <3>1. AccountInv'
      BY <2>2 DEF accountVars, AccountInv, ClosedIsEmpty
    <3> QED
      BY <2>2, <3>1, TransactionStepInv
  <2>3. CASE UNCHANGED vars
    BY <2>3 DEF vars, accountVars, transactionVars, AccountInv, ClosedIsEmpty,
                TransactionInv, Stage, TypesTo
  <2> QED
    BY <2>1, <2>2, <2>3 DEF Next
<1> QED
  BY <1>1, <1>2, PTL DEF Spec

(* A balance is a Money in every state: no sequence of calls overdraws an  *)
(* account.                                                                *)
THEOREM AggregatesTypeCorrect == Spec => []AggregatesTypeOK
<1>1. AccountInv /\ TransactionInv => AggregatesTypeOK
  BY DEF AccountInv, TransactionInv, AggregatesTypeOK
<1> QED
  BY <1>1, AggregatesInvariant, PTL

(* No sequence of calls closes an account with money in it, or moves money *)
(* into one that is closed.                                                *)
THEOREM ClosedAccountsEmpty == Spec => []ClosedIsEmpty
<1>1. AccountInv => ClosedIsEmpty
  BY DEF AccountInv
<1> QED
  BY <1>1, AggregatesInvariant, PTL

(* Nothing an owner calls wakes a closed account up.                       *)
THEOREM ClosingIsFinal == Spec => ClosedForGood
<1>1. AccountInv /\ [Next]_vars =>
          [account.status = "closed" => UNCHANGED <<account, AccountHistory>>]_vars
  <2> SUFFICES ASSUME AccountInv, [Next]_vars, account.status = "closed"
               PROVE  UNCHANGED <<account, AccountHistory>>
    OBVIOUS
  <2>1. CASE AccountStep
    BY <2>1, AccountStepInv, CollectStep
  <2>2. CASE UNCHANGED accountVars
    BY <2>2 DEF accountVars, AccountHistory
  <2> QED
    BY <2>1, <2>2 DEF Next, vars
<1> QED
  BY <1>1, AggregatesInvariant, PTL DEF Spec, ClosedForGood

(* Whatever is called, in whatever order, the events of a transaction tell *)
(* one of the lifecycles and its status.                                   *)
THEOREM LifecycleTold == Spec => []EventsTellTransaction
<1>1. TransactionInv => EventsTellTransaction
  BY DEF TransactionInv, Stage, EventsTellTransaction
<1> QED
  BY <1>1, AggregatesInvariant, PTL

(* Whoever follows the events of an account from the start knows it, and   *)
(* reads the true balance off each of them, for any number of events.      *)
THEOREM AccountTold == Spec => []EventsTellAccount
<1>1. Init => EventsTellAccount
  BY InitTells DEF Init
<1>2. AccountInv /\ EventsTellAccount /\ [Next]_vars => EventsTellAccount'
  <2> SUFFICES ASSUME AccountInv, EventsTellAccount, [Next]_vars
               PROVE  EventsTellAccount'
    OBVIOUS
  <2>1. CASE UNCHANGED accountVars
    BY <2>1 DEF accountVars, EventsTellAccount, AccountHistory
  <2> QED
    BY <2>1, AccountStepTells DEF Next, vars
<1> QED
  BY <1>1, <1>2, AggregatesInvariant, PTL DEF Spec
=============================================================================
