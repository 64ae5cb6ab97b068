------------------------ MODULE BankingSystem_proofs ------------------------
(***************************************************************************)
(* Theorems about BankingSystem, for every value of its constants: any     *)
(* number of accounts and calls, and every set of faults.                  *)
(***************************************************************************)
EXTENDS BankingSystem, SequenceTheorems, SumTheorems, TLAPS

Key1(c) == IF c.from <= c.to THEN c.from ELSE c.to
Key2(c) == IF c.from <= c.to THEN c.to ELSE c.from

(* The list `acquired' is a prefix of the sorted keys; how long it can be  *)
(* depends on where the call is.                                           *)
ShapeOf(r) ==
    /\ acquired[r] \in {<< >>, <<Key1(cmd[r])>>, LockKeys(cmd[r])}
    /\ pc[r] = "lock" => acquired[r] # LockKeys(cmd[r])
    /\ InCriticalSection(r) => acquired[r] = LockKeys(cmd[r])
    /\ pc[r] \in {"check", "done", "crashed"} => acquired[r] = << >>

LockShape == \A r \in Request : ShapeOf(r)

TypeInv == TypeOK /\ LockShape

-----------------------------------------------------------------------------
(* The only sequences of the model are lists of up to two keys.            *)
LEMMA AppendToOne ==
    ASSUME NEW S, NEW x \in S, NEW y \in S
    PROVE  Append(<<x>>, y) = <<x, y>>
<1> DEFINE s == Append(<<x>>, y)
           t == <<x, y>>
<1>1. <<x>> \in Seq(S) /\ t \in Seq(S)
  OBVIOUS
<1>2. s \in Seq(S) /\ Len(s) = 2 /\ s[1] = x /\ s[2] = y
  BY <1>1, AppendProperties
<1>3. Len(t) = 2 /\ t[1] = x /\ t[2] = y
  OBVIOUS
<1> HIDE DEF s, t
<1>4. s = t
  BY <1>1, <1>2, <1>3, SeqEqual
<1> QED
  BY <1>4 DEF s, t

(* Dropping the last of two elements leaves the first.                     *)
LEMMA FirstOfTwo ==
    ASSUME NEW S, NEW x \in S, NEW y \in S
    PROVE  SubSeq(<<x, y>>, 1, 1) = <<x>>
<1> DEFINE s == SubSeq(<<x, y>>, 1, 1)
           t == <<x>>
<1>1. <<x, y>> \in Seq(S) /\ t \in Seq(S)
  OBVIOUS
<1>2. Len(<<x, y>>) = 2 /\ <<x, y>>[1] = x
  OBVIOUS
<1>3. s \in Seq(S) /\ Len(s) = 1 /\ s[1] = x
  BY <1>1, <1>2, SubSeqProperties
<1>4. Len(t) = 1 /\ t[1] = x
  OBVIOUS
<1> HIDE DEF s, t
<1>5. s = t
  BY <1>1, <1>3, <1>4, SeqEqual
<1> QED
  BY <1>5 DEF s, t

(* The fields of a command have the types its schema gives them.           *)
LEMMA CommandType ==
    ASSUME NEW c \in Command
    PROVE  /\ c.key \in Key /\ c.from \in AccountId /\ c.to \in AccountId
           /\ c.amount \in Nat /\ c.currency \in Currency
           /\ Amount(c) \in Nat
<1>1. c \in [key : Key, from : AccountId, to : AccountId,
             amount : Nat, currency : Currency]
  BY DomainAssumption DEF DomainAssumption, TransferRequest
<1>2. c.amount \in Nat
  BY <1>1
<1>3. Amount(c) \in Nat
  BY <1>2, SMT DEF Amount, Quantize
<1> QED
  BY <1>1, <1>3

(* What an account, or Transaction.initiate, raises is one of its errors.  *)
LEMMA ErrorType ==
    /\ \A a, currency : AccountError(a, currency) \in Refusals
    /\ \A c : CommandError(c) \in CommandErrors
BY DEF AccountError, Refusals, CommandError, CommandErrors

(* A refused transfer is refused by one of the accounts' errors.           *)
LEMMA RefusalType == \A r : Refusal(r) \in Refusals
BY ErrorType DEF Refusal

(* LockKeys(c) are the two account ids of c.                               *)
LEMMA KeysType ==
    ASSUME NEW c \in Command
    PROVE  /\ Key1(c) \in AccountId /\ Key2(c) \in AccountId
           /\ LockKeys(c) = <<Key1(c), Key2(c)>>
           /\ {Key1(c), Key2(c)} = {c.from, c.to}
BY CommandType DEF Key1, Key2, LockKeys

(* An opening balance, once quantized, is a natural number.                *)
LEMMA DepositType == \A a \in AccountId : Quantize(OpeningBalance[a]) \in Nat
<1> SUFFICES ASSUME NEW a \in AccountId
             PROVE  Quantize(OpeningBalance[a]) \in Nat
  OBVIOUS
<1>1. OpeningBalance[a] \in Nat
  BY DomainAssumption DEF DomainAssumption
<1> QED
  BY <1>1, SMT DEF Quantize

(* The service starts in a state of the right type.                        *)
LEMMA InitType == Init => TypeInv
<1> SUFFICES ASSUME Init PROVE TypeInv
  OBVIOUS
<1>1. TypeOK
  <2>1. balance \in [AccountId -> Int]
    BY DepositType DEF Init
  <2>2. result \in [Request -> [outcome : Outcome, tx : Request]]
    BY DEF Init, NoResult, Answer, Outcome
  <2>3. copy \in [Request -> [AccountId -> Int]]
    BY DEF Init, NoCopy
  <2> QED
    BY <2>1, <2>2, <2>3, SystemAssumption
    DEF Init, TypeOK, PC, SystemAssumption, Lock!LockInit, Lock!LockTypeOK
<1>2. LockShape
  BY DEF Init, LockShape, ShapeOf, InCriticalSection, Lock!LockInit
<1> QED
  BY <1>1, <1>2 DEF TypeInv

-----------------------------------------------------------------------------
(* A session that ends keeps its variables in their types.                 *)
LEMMA EndSessionType ==
    ASSUME TypeOK, NEW r \in Request, EndSession(r)
    PROVE  /\ rowLocks' \in [Request -> SUBSET AccountId]
           /\ copy' \in [Request -> [AccountId -> Int]]
BY DEF TypeOK, EndSession, NoCopy

(* An exception on its way out keeps result, pc, cmd and bus in type.      *)
LEMMA RaiseType ==
    ASSUME TypeOK, NEW r \in Request, NEW o \in Outcome, Raise(r, o)
    PROVE  /\ result' \in [Request -> [outcome : Outcome, tx : Request]]
           /\ pc' \in [Request -> PC]
BY DEF TypeOK, Raise, Goto, Answer, PC

(* get_with_lock keeps the row locks and the loaded aggregates in type.    *)
LEMMA GetWithLockType ==
    ASSUME TypeOK, NEW r \in Request, NEW a \in AccountId, GetWithLock(r, a)
    PROVE  /\ rowLocks' \in [Request -> SUBSET AccountId]
           /\ copy' \in [Request -> [AccountId -> Int]]
BY DEF TypeOK, GetWithLock

(* The events a call records are transfer events.                          *)
LEMMA EventsType ==
    ASSUME TypeOK, NEW r \in Request
    PROVE  /\ SuccessEvents(r) \subseteq TransferEvent
           /\ RecordedEvents(r) \subseteq TransferEvent
<1>1. cmd[r] \in Command
  BY DEF TypeOK
<1>2. \A type \in EventType, by \in AccountId \cup Request :
          Event(type, by, r) \in TransferEvent
  BY <1>1, CommandType DEF Event, TransferEvent
<1>3. cmd[r].from \in AccountId \cup Request /\ cmd[r].to \in AccountId \cup Request
  BY <1>1, CommandType
<1>4. SuccessEvents(r) \subseteq TransferEvent
  BY <1>2, <1>3 DEF SuccessEvents, EventType
<1>5. FailureEvents(r) \subseteq TransferEvent
  BY <1>2, <1>3 DEF FailureEvents, EventType
<1> QED
  BY <1>4, <1>5 DEF RecordedEvents

(* The balances a call writes are integers.                                *)
LEMMA WrittenType ==
    ASSUME TypeOK, NEW r \in Request
    PROVE  Written(r) \in [AccountId -> Int]
<1>1. cmd[r] \in Command
  BY DEF TypeOK
<1>2. /\ copy[r][cmd[r].from] - Amount(cmd[r]) \in Int
      /\ copy[r][cmd[r].to] + Amount(cmd[r]) \in Int
  BY <1>1, CommandType DEF TypeOK
<1> QED
  BY <1>1, <1>2, CommandType DEF Written, TypeOK

(* Steps 8 and 9 keep the types of the database.                           *)
LEMMA PersistType ==
    ASSUME TypeOK, NEW r \in Request, Persist(r)
    PROVE  /\ balance' \in [AccountId -> Int]
           /\ txs' \subseteq TxRow
           /\ outbox' \subseteq TransferEvent
           /\ rowLocks' \in [Request -> SUBSET AccountId]
           /\ copy' \in [Request -> [AccountId -> Int]]
           /\ UNCHANGED <<opened, redis, acquired>>
<1> USE DEF Persist, Commit
<1>1. balance' \in [AccountId -> Int]
  BY WrittenType
<1>2. TransactionOf(r) \in TxRow
  <2>1. cmd[r] \in Command /\ Refusal(r) \in Refusals
    BY RefusalType DEF TypeOK
  <2> QED
    BY <2>1 DEF TransactionOf, Row, TxRow
<1>3. txs' \subseteq TxRow
  BY <1>2 DEF TypeOK
<1>4. outbox' \subseteq TransferEvent
  BY EventsType DEF TypeOK, CollectEvents
<1> QED
  BY <1>1, <1>3, <1>4, EndSessionType DEF lockVars

(* The next key of a call that acquires its locks.                         *)
LEMMA NextKeyType ==
    ASSUME TypeInv, NEW r \in Request, pc[r] = "lock"
    PROVE  \/ /\ acquired[r] = << >>
              /\ Len(acquired[r]) = 0
              /\ NextKey(r) = Key1(cmd[r])
              /\ Append(acquired[r], NextKey(r)) = <<Key1(cmd[r])>>
           \/ /\ acquired[r] = <<Key1(cmd[r])>>
              /\ Len(acquired[r]) = 1
              /\ NextKey(r) = Key2(cmd[r])
              /\ Append(acquired[r], NextKey(r)) = LockKeys(cmd[r])
<1>1. cmd[r] \in Command
  BY DEF TypeInv, TypeOK
<1>2. LockKeys(cmd[r]) = <<Key1(cmd[r]), Key2(cmd[r])>>
  BY <1>1, KeysType
<1>3. acquired[r] = << >> \/ acquired[r] = <<Key1(cmd[r])>>
  BY DEF TypeInv, LockShape, ShapeOf
<1>4. CASE acquired[r] = << >>
  <2>1. Len(acquired[r]) = 0
    BY <1>4
  <2>2. NextKey(r) = Key1(cmd[r])
    BY <1>2, <2>1 DEF NextKey
  <2> QED
    BY <1>4, <2>1, <2>2
<1>5. CASE acquired[r] = <<Key1(cmd[r])>>
  <2>1. Len(acquired[r]) = 1
    BY <1>5
  <2>2. NextKey(r) = Key2(cmd[r])
    BY <1>2, <2>1 DEF NextKey
  <2>3. Append(acquired[r], NextKey(r)) = LockKeys(cmd[r])
    BY <1>1, <1>2, <1>5, <2>2, KeysType, AppendToOne
  <2> QED
    BY <1>5, <2>1, <2>2, <2>3
<1> QED
  BY <1>3, <1>4, <1>5

(* What is left of `acquired' when its last key goes.                      *)
LEMMA DropLastShape ==
    ASSUME TypeInv, NEW r \in Request, acquired[r] # << >>, Lock!DropLast(r)
    PROVE  /\ acquired' = [acquired EXCEPT ![r] = acquired'[r]]
           /\ acquired'[r] \in {<< >>, <<Key1(cmd[r])>>}
<1> DEFINE k1 == Key1(cmd[r])
           k2 == Key2(cmd[r])
           rest == SubSeq(acquired[r], 1, Len(acquired[r]) - 1)
<1>1. cmd[r] \in Command
  BY DEF TypeInv, TypeOK
<1>2. acquired[r] \in {<<k1>>, <<k1, k2>>}
  BY <1>1, KeysType DEF TypeInv, LockShape, ShapeOf
<1>3. acquired' = [acquired EXCEPT ![r] = rest]
  BY DEF Lock!DropLast
<1>4. acquired'[r] = rest
  BY <1>3 DEF TypeInv, TypeOK, Lock!LockTypeOK
<1>5. CASE acquired[r] = <<k1>>
  <2>1. rest = << >>
    BY <1>5
  <2> QED
    BY <1>3, <1>4, <2>1
<1>6. CASE acquired[r] = <<k1, k2>>
  <2>1. rest = SubSeq(<<k1, k2>>, 1, 1)
    BY <1>6
  <2>2. rest = <<k1>>
    BY <1>1, <2>1, KeysType, FirstOfTwo
  <2> QED
    BY <1>3, <1>4, <2>2
<1> QED
  BY <1>2, <1>5, <1>6

(* LockShape survives a step of r that leaves its list alone, unless it    *)
(* enters a place of the code where the list must be longer or shorter.    *)
LEMMA LockShapeGoto ==
    ASSUME TypeInv, NEW r \in Request, NEW l \in PC,
           UNCHANGED <<cmd, acquired>>, Goto(r, l),
           l = "lock" => pc[r] = "check",
           l \in {"sender", "receiver", "commit"} => InCriticalSection(r),
           l \in {"done", "crashed"} => acquired[r] = << >>,
           l # "check"
    PROVE  LockShape'
<1> SUFFICES ASSUME NEW q \in Request
             PROVE  ShapeOf(q)'
  BY DEF LockShape
<1>1. pc' = [pc EXCEPT ![r] = l] /\ pc'[r] = l /\ (q # r => pc'[q] = pc[q])
  BY DEF Goto, TypeInv, TypeOK
<1>2. cmd[q] \in Command
  BY DEF TypeInv, TypeOK
<1>3. LockKeys(cmd[q]) # << >>
  BY <1>2, KeysType
<1>4. CASE q = r
  BY <1>1, <1>3, <1>4 DEF TypeInv, LockShape, ShapeOf, InCriticalSection
<1>5. CASE q # r
  BY <1>1, <1>5 DEF TypeInv, LockShape, ShapeOf, InCriticalSection
<1> QED
  BY <1>4, <1>5

(* A step that only takes the last key off r's list keeps TypeInv, whether *)
(* the key is deleted in Redis or not.                                     *)
LEMMA DropShapeType ==
    ASSUME TypeInv, NEW r \in Request, acquired[r] # << >>, Lock!DropLast(r),
           pc[r] = "release", redis' \subseteq redis,
           UNCHANGED <<serviceVars, dbVars>>
    PROVE  TypeInv'
<1> USE DEF serviceVars, dbVars
<1>1. /\ acquired' = [acquired EXCEPT ![r] = acquired'[r]]
      /\ acquired'[r] \in {<< >>, <<Key1(cmd[r])>>}
  BY DropLastShape
<1>2. Key1(cmd[r]) \in AccountId
  BY KeysType DEF TypeInv, TypeOK
<1>3. acquired'[r] \in Seq(AccountId)
  <2>1. << >> \in Seq(AccountId)
    OBVIOUS
  <2>2. <<Key1(cmd[r])>> \in Seq(AccountId)
    BY <1>2
  <2> QED
    BY <1>1, <2>1, <2>2
<1>4. Lock!LockTypeOK'
  BY <1>1, <1>3 DEF TypeInv, TypeOK, Lock!LockTypeOK
<1>5. TypeOK'
  BY <1>4 DEF TypeInv, TypeOK
<1>6. ASSUME NEW q \in Request PROVE ShapeOf(q)'
  <2>1. q # r => acquired'[q] = acquired[q]
    BY <1>1 DEF TypeInv, TypeOK, Lock!LockTypeOK
  <2> QED
    BY <1>1, <2>1 DEF TypeInv, LockShape, ShapeOf, InCriticalSection
<1> QED
  BY <1>5, <1>6 DEF TypeInv, LockShape

-----------------------------------------------------------------------------
(* TypeInv and the steps of a call, first those of its own code.           *)
LEMMA ProgressType ==
    ASSUME TypeInv, NEW r \in Request, Progress(r)
    PROVE  TypeInv'
<1> USE DEF serviceVars, dbVars, lockVars
<1>0. /\ TypeOK
      /\ cmd[r] \in Command
      /\ cmd[r].from \in AccountId /\ cmd[r].to \in AccountId
  BY CommandType DEF TypeInv, TypeOK
<1>1. CASE IdempotencyHit(r)
  <2>1. PICK t \in Existing(r) :
            result' = [result EXCEPT ![r] = Answer(t.status, t.id)]
    BY <1>1 DEF IdempotencyHit
  <2>2. t.status \in Outcome /\ t.id \in Request
    BY DEF Existing, TypeInv, TypeOK, TxRow, Outcome
  <2>3. TypeOK'
    BY <1>0, <1>1, <2>1, <2>2
    DEF IdempotencyHit, TypeOK, Goto, PC, Answer, Lock!LockTypeOK
  <2>4. acquired[r] = << >>
    BY <1>1 DEF IdempotencyHit, TypeInv, LockShape, ShapeOf
  <2> QED
    BY <1>1, <2>3, <2>4, LockShapeGoto DEF IdempotencyHit, TypeInv, PC
<1>2. CASE IdempotencyMiss(r)
  <2>1. TypeOK'
    BY <1>0, <1>2 DEF IdempotencyMiss, TypeOK, Goto, PC, Lock!LockTypeOK
  <2> QED
    BY <1>2, <2>1, LockShapeGoto DEF IdempotencyMiss, TypeInv, PC
<1>16. CASE AmountOverflow(r)
  <2>1. "InvalidOperation" \in Outcome
    BY DEF Outcome
  <2>2. TypeOK'
    BY <1>0, <1>16, <2>1, RaiseType
    DEF AmountOverflow, Raise, TypeOK, Lock!LockTypeOK
  <2> QED
    BY <1>16, <2>2, LockShapeGoto DEF AmountOverflow, Raise, TypeInv, PC
<1>3. CASE AcquireKey(r)
  <2> DEFINE next == NextKey(r)
             list == Append(acquired[r], next)
  <2>1. pc[r] = "lock" /\ Lock!SetKey(r, next)
    BY <1>3 DEF AcquireKey
  <2>2. Key1(cmd[r]) \in AccountId /\ Key2(cmd[r]) \in AccountId
    BY <1>0, KeysType
  <2>3. next \in AccountId
    BY <2>1, <2>2, NextKeyType
  <2>4. list \in Seq(AccountId)
    BY <1>0, <2>3, AppendProperties DEF TypeOK, Lock!LockTypeOK
  <2>5. acquired' = [acquired EXCEPT ![r] = list] /\ redis' = redis \cup {next}
    BY <2>1 DEF Lock!SetKey
  <2> HIDE DEF list, next
  <2>6. TypeOK'
    BY <1>0, <1>3, <2>3, <2>4, <2>5
    DEF AcquireKey, TypeOK, Goto, PC, Lock!LockTypeOK
  <2>7. acquired'[r] = list /\ pc'[r] = IF Len(acquired[r]) = 1 THEN "sender" ELSE "lock"
    BY <1>0, <1>3, <2>5 DEF AcquireKey, Goto, TypeOK, Lock!LockTypeOK
  <2>8. <<Key1(cmd[r])>> # LockKeys(cmd[r])
    BY <1>0, KeysType
  <2>9. ShapeOf(r)'
    <3>1. \/ list = <<Key1(cmd[r])>> /\ pc'[r] = "lock"
          \/ list = LockKeys(cmd[r]) /\ pc'[r] = "sender"
      BY <2>1, <2>7, NextKeyType DEF list, next
    <3>2. cmd' = cmd
      BY <1>3 DEF AcquireKey
    <3> QED
      BY <2>7, <2>8, <3>1, <3>2 DEF ShapeOf, InCriticalSection
  <2>10. ASSUME NEW q \in Request, q # r PROVE ShapeOf(q)'
    <3>1. acquired'[q] = acquired[q] /\ pc'[q] = pc[q] /\ cmd'[q] = cmd[q]
      BY <1>0, <1>3, <2>5, <2>10 DEF AcquireKey, Goto, TypeOK, Lock!LockTypeOK
    <3> QED
      BY <3>1 DEF TypeInv, LockShape, ShapeOf, InCriticalSection
  <2> QED
    BY <2>6, <2>9, <2>10 DEF TypeInv, LockShape
<1>4. CASE LockTimeout(r)
  <2>1. "ConcurrencyConflictError" \in Outcome
    BY DEF Outcome
  <2>2. TypeOK'
    BY <1>0, <1>4, <2>1, RaiseType
    DEF LockTimeout, Raise, TypeOK, Lock!Contended, Lock!LockTypeOK
  <2> QED
    BY <1>4, <2>2, LockShapeGoto
    DEF LockTimeout, Raise, Lock!Contended, TypeInv, PC
<1>5. CASE LoadSender(r)
  <2>1. TypeOK'
    BY <1>0, <1>5, GetWithLockType
    DEF LoadSender, GetWithLock, TypeOK, Goto, PC, Lock!LockTypeOK
  <2> QED
    BY <1>5, <2>1, LockShapeGoto DEF LoadSender, InCriticalSection, TypeInv, PC
<1>6. CASE LoadReceiver(r)
  <2>1. TypeOK'
    BY <1>0, <1>6, GetWithLockType
    DEF LoadReceiver, GetWithLock, TypeOK, Goto, PC, Lock!LockTypeOK
  <2> QED
    BY <1>6, <2>1, LockShapeGoto DEF LoadReceiver, InCriticalSection, TypeInv, PC
<1>7. ASSUME NEW o \in Outcome, Rollback(r), Raise(r, o), UNCHANGED lockVars
      PROVE  TypeInv'
  <2>1. TypeOK'
    BY <1>0, <1>7, RaiseType, EndSessionType
    DEF Rollback, Raise, TypeOK, Lock!LockTypeOK
  <2> QED
    BY <1>7, <2>1, LockShapeGoto DEF Raise, TypeInv, PC
<1>8. CASE AccountMissing(r)
  BY <1>7, <1>8 DEF AccountMissing, Outcome
<1>9. CASE RejectCommand(r)
  <2>1. CommandError(cmd[r]) \in Outcome
    BY ErrorType DEF Outcome
  <2> QED
    BY <1>7, <1>9, <2>1 DEF RejectCommand
<1>10. CASE CommitCompleted(r)
  <2>1. result' \in [Request -> [outcome : Outcome, tx : Request]]
    BY <1>0, <1>10 DEF CommitCompleted, Answer, Outcome, TypeOK
  <2>2. TypeOK'
    BY <1>0, <1>10, <2>1, PersistType
    DEF CommitCompleted, TypeOK, Goto, PC, Lock!LockTypeOK
  <2> QED
    BY <1>0, <1>10, <2>2, PersistType, LockShapeGoto DEF CommitCompleted, TypeInv, PC
<1>11. CASE CommitFailed(r)
  <2>1. Refusal(r) \in Outcome
    BY RefusalType DEF Outcome
  <2>2. TypeOK'
    BY <1>0, <1>11, <2>1, PersistType, RaiseType
    DEF CommitFailed, Raise, TypeOK, Lock!LockTypeOK
  <2> QED
    BY <1>0, <1>11, <2>2, PersistType, LockShapeGoto
    DEF CommitFailed, Raise, TypeInv, PC
<1>12. CASE CommitRejected(r)
  <2>1. PICK o \in Outcome : Raise(r, o)
    BY <1>12 DEF CommitRejected, Outcome
  <2> QED
    BY <1>7, <1>12, <2>1 DEF CommitRejected
<1>13. CASE DeadlockVictim(r)
  BY <1>7, <1>13 DEF DeadlockVictim, Outcome
<1>14. CASE ReleaseKey(r)
  BY <1>14, DropShapeType DEF ReleaseKey, Lock!DeleteKey
<1>15. CASE Finish(r)
  <2>1. bus' \subseteq TransferEvent
    BY <1>0, <1>15, EventsType DEF Finish, UncollectedEvents, TypeOK
  <2>2. TypeOK'
    BY <1>0, <1>15, <2>1 DEF Finish, TypeOK, Goto, PC, Lock!LockTypeOK
  <2> QED
    BY <1>15, <2>2, LockShapeGoto DEF Finish, TypeInv, PC
<1> QED
  BY <1>1, <1>2, <1>3, <1>4, <1>5, <1>6, <1>8, <1>9, <1>10, <1>11, <1>12,
     <1>13, <1>14, <1>15, <1>16 DEF Progress

(* A failure of Redis, Postgres or the process keeps the types.            *)
LEMMA FailureType ==
    ASSUME TypeInv, NEW r \in Request, Failure(r)
    PROVE  TypeInv'
<1> USE DEF serviceVars, dbVars, lockVars
<1>0. TypeOK /\ cmd[r] \in Command
  BY DEF TypeInv, TypeOK
<1>1. CASE LockError(r)
  <2>1. NextKey(r) \in AccountId
    BY <1>0, <1>1, KeysType, NextKeyType DEF LockError
  <2>2. redis' \subseteq AccountId /\ acquired' = acquired
    BY <1>0, <1>1, <2>1 DEF LockError, Lock!SetKeyFails, TypeOK, Lock!LockTypeOK
  <2>3. "RedisError" \in Outcome
    BY DEF Outcome
  <2>4. TypeOK'
    BY <1>0, <1>1, <2>2, <2>3, RaiseType
    DEF LockError, Raise, TypeOK, Lock!LockTypeOK
  <2> QED
    BY <1>1, <2>2, <2>4, LockShapeGoto DEF LockError, Raise, TypeInv, PC
<1>2. CASE CommitUnacknowledged(r)
  <2>1. "DatabaseError" \in Outcome
    BY DEF Outcome
  <2>2. TypeOK'
    BY <1>0, <1>2, <2>1, PersistType, RaiseType
    DEF CommitUnacknowledged, Raise, TypeOK, Lock!LockTypeOK
  <2> QED
    BY <1>0, <1>2, <2>2, PersistType, LockShapeGoto
    DEF CommitUnacknowledged, Raise, TypeInv, PC
<1>3. CASE DatabaseError(r)
  <2>1. "DatabaseError" \in Outcome
    BY DEF Outcome
  <2>2. TypeOK'
    BY <1>0, <1>3, <2>1, RaiseType, EndSessionType
    DEF DatabaseError, Rollback, Raise, TypeOK, Lock!LockTypeOK
  <2> QED
    BY <1>3, <2>2, LockShapeGoto DEF DatabaseError, Raise, TypeInv, PC
<1>4. CASE ReleaseKeyFails(r)
  BY <1>4, DropShapeType DEF ReleaseKeyFails, Lock!DeleteKeyFails
<1>5. CASE Crash(r)
  <2>1. acquired' = [acquired EXCEPT ![r] = << >>] /\ redis' = redis
    BY <1>5 DEF Crash, Lock!Forget
  <2>2. Lock!LockTypeOK'
    BY <1>0, <2>1 DEF TypeOK, Lock!LockTypeOK
  <2>3. TypeOK'
    BY <1>0, <1>5, <2>2, EndSessionType DEF Crash, Rollback, Goto, TypeOK, PC
  <2>4. ASSUME NEW q \in Request PROVE ShapeOf(q)'
    <3>1. /\ pc' = [pc EXCEPT ![r] = "crashed"] /\ cmd' = cmd
      BY <1>5 DEF Crash, Goto
    <3>2. CASE q = r
      BY <1>0, <2>1, <3>1, <3>2
      DEF TypeOK, Lock!LockTypeOK, ShapeOf, InCriticalSection
    <3>3. CASE q # r
      BY <1>0, <2>1, <3>1, <3>3
      DEF TypeInv, TypeOK, Lock!LockTypeOK, LockShape, ShapeOf, InCriticalSection
    <3> QED
      BY <3>2, <3>3
  <2> QED
    BY <2>3, <2>4 DEF TypeInv, LockShape
<1> QED
  BY <1>1, <1>2, <1>3, <1>4, <1>5 DEF Failure

(* Every step of the system keeps the types.                               *)
LEMMA NextType == TypeInv /\ [Next]_vars => TypeInv'
<1> SUFFICES ASSUME TypeInv, [Next]_vars PROVE TypeInv'
  OBVIOUS
<1> USE DEF serviceVars, dbVars, lockVars
<1>1. CASE \E r \in Request : Progress(r) \/ Failure(r)
  BY <1>1, ProgressType, FailureType
<1>2. ASSUME NEW a \in AccountId, NewAccount(a) PROVE TypeInv'
  <2>1. balance' \in [AccountId -> Int]
    BY <1>2, DepositType DEF NewAccount, CreateAccount, TypeInv, TypeOK
  <2>2. outbox' = outbox
    BY <1>2 DEF NewAccount, CreateAccount, CollectEvents, SavedAggregates
  <2>3. TypeOK'
    BY <1>2, <2>1, <2>2
    DEF NewAccount, CreateAccount, TypeInv, TypeOK, Lock!LockTypeOK
  <2> QED
    BY <1>2, <2>3 DEF NewAccount, CreateAccount, TypeInv, LockShape, ShapeOf,
                      InCriticalSection
<1>3. ASSUME NEW k \in AccountId, KeyExpires(k) PROVE TypeInv'
  BY <1>3 DEF KeyExpires, Lock!Expire, TypeInv, TypeOK, Lock!LockTypeOK,
              LockShape, ShapeOf, InCriticalSection
<1>4. CASE UNCHANGED vars
  BY <1>4 DEF vars, TypeInv, TypeOK, Lock!LockTypeOK, LockShape, ShapeOf,
              InCriticalSection
<1> QED
  BY <1>1, <1>2, <1>3, <1>4 DEF Next, Idle

(* Every variable has its type in every reachable state, and the lists of  *)
(* acquired keys their shape.                                              *)
LEMMA TypeInvariant == Spec => []TypeInv
BY InitType, NextType, PTL DEF Spec

(* Every variable keeps its type, for all calls, accounts and failures.    *)
THEOREM TypeCorrect == Spec => []TypeOK
<1>1. TypeInv => TypeOK
  BY DEF TypeInv
<1> QED
  BY <1>1, TypeInvariant, PTL

-----------------------------------------------------------------------------
(***************************************************************************)
(* The row locks alone isolate the transfers: no conjunct below mentions   *)
(* Redis, so they hold whatever becomes of the distributed locks.          *)
(***************************************************************************)

(* A row is locked by one session at a time.                               *)
RowsExclusive ==
    \A r, q \in Request : r # q => rowLocks[r] \cap rowLocks[q] = {}

(* The rows a call has locked follow from where it is.                     *)
LockedRows(r) ==
    CASE pc[r] = "receiver" -> {cmd[r].from}
      [] pc[r] = "commit" -> Accounts(r)
      [] OTHER -> {}

SessionShape ==
    \A r \in Request : rowLocks[r] = LockedRows(r) /\ rowLocks[r] \subseteq opened

(* A transaction is its call's, which has left the unit of work; no two    *)
(* transactions have one key.                                              *)
LedgerShape ==
    /\ \A t \in txs : /\ t.cmd = cmd[t.id]
                      /\ pc[t.id] \in {"release", "done", "crashed"}
    /\ \A t, u \in txs : t.cmd.key = u.cmd.key => t = u

IsolationInv ==
    RowsExclusive /\ SessionShape /\ NoStaleCopy /\ BalanceRange /\ LedgerShape

(* At the start no session has locked or loaded anything.                  *)
LEMMA InitIsolation == Init => IsolationInv
<1> SUFFICES ASSUME Init PROVE IsolationInv
  OBVIOUS
<1>1. BalanceRange
  <2> SUFFICES ASSUME NEW a \in AccountId
               PROVE  balance[a] >= 0 /\ Fits(balance[a])
    BY DEF BalanceRange
  <2>1. CASE a \in ExistingAccount
    BY <2>1, DepositType, SystemAssumption DEF Init, SystemAssumption
  <2>2. CASE a \notin ExistingAccount
    BY <2>2, DomainAssumption DEF Init, DomainAssumption, Fits
  <2> QED
    BY <2>1, <2>2
<1> QED
  BY <1>1 DEF Init, IsolationInv, RowsExclusive, SessionShape, LockedRows,
              NoStaleCopy, LedgerShape

(* A step of r outside its unit of work.                                   *)
LEMMA OutsideStep ==
    ASSUME TypeInv, IsolationInv, NEW r \in Request, NEW l \in PC,
           UNCHANGED <<dbVars, cmd>>, Goto(r, l),
           pc[r] \notin {"receiver", "commit"},
           l \notin {"receiver", "commit"},
           pc[r] = "release" => l \in {"release", "done"},
           ~Ended(r)
    PROVE  IsolationInv'
<1> USE DEF dbVars
<1>1. pc'[r] = l /\ \A q \in Request : q # r => pc'[q] = pc[q]
  BY DEF Goto, TypeInv, TypeOK
<1>2. RowsExclusive' /\ NoStaleCopy' /\ BalanceRange'
  BY DEF IsolationInv, RowsExclusive, NoStaleCopy, BalanceRange
<1>3. SessionShape'
  BY <1>1 DEF IsolationInv, SessionShape, LockedRows, Accounts
<1>4. LedgerShape'
  BY <1>1 DEF IsolationInv, LedgerShape, TypeInv, TypeOK, TxRow, Ended
<1> QED
  BY <1>2, <1>3, <1>4 DEF IsolationInv

(* A locking read of r.                                                    *)
LEMMA ReadStep ==
    ASSUME TypeInv, IsolationInv, NEW r \in Request, NEW l \in PC,
           NEW a \in AccountId, GetWithLock(r, a), Goto(r, l), UNCHANGED cmd,
           \/ pc[r] = "sender" /\ a = cmd[r].from /\ l = "receiver"
           \/ pc[r] = "receiver" /\ a = cmd[r].to /\ l = "commit"
    PROVE  IsolationInv'
<1>1. pc'[r] = l /\ \A q \in Request : q # r => pc'[q] = pc[q]
  BY DEF Goto, TypeInv, TypeOK
<1>2. /\ rowLocks'[r] = rowLocks[r] \cup {a}
      /\ \A q \in Request : q # r => rowLocks'[q] = rowLocks[q]
  BY DEF GetWithLock, TypeInv, TypeOK
<1>3. /\ copy'[r][a] = balance[a]
      /\ \A b \in AccountId : b # a => copy'[r][b] = copy[r][b]
      /\ \A q \in Request : q # r => copy'[q] = copy[q]
  BY DEF GetWithLock, TypeInv, TypeOK
<1>4. UNCHANGED <<opened, balance, txs>>
  BY DEF GetWithLock
<1>5. RowsExclusive'
  BY <1>2 DEF IsolationInv, RowsExclusive, GetWithLock, RowFree
<1>6. SessionShape'
  <2> SUFFICES ASSUME NEW q \in Request
               PROVE  /\ rowLocks'[q] = LockedRows(q)'
                      /\ rowLocks'[q] \subseteq opened'
    BY DEF SessionShape
  <2>1. rowLocks[q] = LockedRows(q) /\ rowLocks[q] \subseteq opened
    BY DEF IsolationInv, SessionShape
  <2>2. CASE q = r
    <3>1. a \in opened
      BY DEF GetWithLock
    <3>2. CASE pc[r] = "sender"
      BY <1>1, <1>2, <1>4, <2>1, <2>2, <3>1, <3>2 DEF LockedRows
    <3>3. CASE pc[r] = "receiver"
      BY <1>1, <1>2, <1>4, <2>1, <2>2, <3>1, <3>3 DEF LockedRows, Accounts
    <3> QED
      BY <3>2, <3>3
  <2>3. CASE q # r
    BY <1>1, <1>2, <1>4, <2>1, <2>3 DEF LockedRows, Accounts
  <2> QED
    BY <2>2, <2>3
<1>7. NoStaleCopy'
  <2> SUFFICES ASSUME NEW q \in Request, NEW b \in rowLocks'[q]
               PROVE  copy'[q][b] = balance[b]
    BY <1>4 DEF NoStaleCopy
  <2>1. b \in AccountId
    BY <1>2 DEF TypeInv, TypeOK
  <2> QED
    BY <1>2, <1>3, <2>1 DEF IsolationInv, NoStaleCopy
<1>8. BalanceRange' /\ LedgerShape'
  BY <1>1, <1>4
  DEF IsolationInv, BalanceRange, LedgerShape, TypeInv, TypeOK, TxRow
<1> QED
  BY <1>5, <1>6, <1>7, <1>8 DEF IsolationInv

(* The session of r ends without a commit.                                 *)
LEMMA AbortStep ==
    ASSUME TypeInv, IsolationInv, NEW r \in Request, Rollback(r),
           NEW l \in {"release", "crashed"}, Goto(r, l), UNCHANGED cmd
    PROVE  IsolationInv'
<1>1. pc'[r] = l /\ \A q \in Request : q # r => pc'[q] = pc[q]
  BY DEF Goto, TypeInv, TypeOK
<1>2. /\ rowLocks'[r] = {}
      /\ \A q \in Request : q # r => rowLocks'[q] = rowLocks[q]
      /\ \A q \in Request : q # r => copy'[q] = copy[q]
  BY DEF Rollback, EndSession, TypeInv, TypeOK
<1>3. UNCHANGED <<opened, balance, txs>>
  BY DEF Rollback
<1>4. RowsExclusive'
  BY <1>2 DEF IsolationInv, RowsExclusive
<1>5. SessionShape'
  BY <1>1, <1>2, <1>3 DEF IsolationInv, SessionShape, LockedRows, Accounts
<1>6. NoStaleCopy'
  BY <1>2, <1>3 DEF IsolationInv, NoStaleCopy
<1>7. BalanceRange' /\ LedgerShape'
  BY <1>1, <1>3
  DEF IsolationInv, BalanceRange, LedgerShape, TypeInv, TypeOK, TxRow
<1> QED
  BY <1>4, <1>5, <1>6, <1>7 DEF IsolationInv

(* What a call that is about to commit has in its session.                 *)
LEMMA CommitFacts ==
    ASSUME TypeInv, IsolationInv, NEW r \in Request, pc[r] = "commit"
    PROVE  /\ rowLocks[r] = Accounts(r) /\ Accounts(r) \subseteq opened
           /\ copy[r][cmd[r].from] = balance[cmd[r].from]
           /\ copy[r][cmd[r].to] = balance[cmd[r].to]
           /\ \A q \in Request : q # r => rowLocks[q] \cap Accounts(r) = {}
<1>1. rowLocks[r] = Accounts(r) /\ rowLocks[r] \subseteq opened
  BY DEF IsolationInv, SessionShape, LockedRows
<1> QED
  BY <1>1 DEF IsolationInv, NoStaleCopy, RowsExclusive, Accounts

(* The balances it writes.                                                 *)
LEMMA WrittenFacts ==
    ASSUME TypeInv, IsolationInv, NEW r \in Request, pc[r] = "commit",
           CanInitiate(cmd[r])
    PROVE  /\ \A a \in AccountId \ Accounts(r) : Written(r)[a] = balance[a]
           /\ \A a \in AccountId : Written(r)[a] >= 0
           /\ ~Applicable(r) => Written(r) = balance
           /\ Applicable(r) =>
                 Written(r) = [balance EXCEPT
                     ![cmd[r].from] = balance[cmd[r].from] - Amount(cmd[r]),
                     ![cmd[r].to] = balance[cmd[r].to] + Amount(cmd[r])]
<1> DEFINE from == cmd[r].from
           to == cmd[r].to
           amount == Amount(cmd[r])
<1>1. from \in AccountId /\ to \in AccountId /\ amount \in Nat /\ from # to
  BY CommandType DEF TypeInv, TypeOK, CanInitiate
<1>2. balance \in [AccountId -> Int] /\ \A a \in AccountId : balance[a] >= 0
  BY DEF TypeInv, TypeOK, IsolationInv, BalanceRange
<1>3. copy[r][from] = balance[from] /\ copy[r][to] = balance[to]
  BY CommitFacts
<1>4. Applicable(r) => balance[from] >= amount
  BY <1>3 DEF Applicable, Debitable, CanDebit
<1>5. Written(r) = IF Applicable(r)
                     THEN [balance EXCEPT ![from] = balance[from] - amount,
                                          ![to] = balance[to] + amount]
                     ELSE balance
  BY <1>3 DEF Written
<1> HIDE DEF from, to, amount
<1>6. \A a \in AccountId \ {from, to} : Written(r)[a] = balance[a]
  BY <1>1, <1>2, <1>5
<1>7. ASSUME NEW a \in AccountId PROVE Written(r)[a] >= 0
  <2>1. CASE Applicable(r) /\ a = from
    <3>1. Written(r)[a] = balance[from] - amount
      BY <1>1, <1>2, <1>5, <2>1
    <3>2. balance[from] \in Int /\ balance[from] >= amount
      BY <1>1, <1>2, <1>4, <2>1
    <3> QED
      BY <1>1, <3>1, <3>2
  <2>2. CASE Applicable(r) /\ a = to
    <3>1. Written(r)[a] = balance[to] + amount
      BY <1>1, <1>2, <1>5, <2>2
    <3>2. balance[to] \in Int /\ balance[to] >= 0
      BY <1>1, <1>2
    <3> QED
      BY <1>1, <3>1, <3>2
  <2>3. CASE ~Applicable(r) \/ a \notin {from, to}
    BY <1>2, <1>5, <1>6, <2>3
  <2> QED
    BY <2>1, <2>2, <2>3
<1> QED
  BY <1>5, <1>6, <1>7 DEF from, to, amount, Accounts

(* Steps 8 and 9 of r: the commit.                                         *)
LEMMA PersistStep ==
    ASSUME TypeInv, IsolationInv, NEW r \in Request, Persist(r),
           Goto(r, "release"), UNCHANGED cmd
    PROVE  IsolationInv'
<1>1. pc'[r] = "release" /\ \A q \in Request : q # r => pc'[q] = pc[q]
  BY DEF Goto, TypeInv, TypeOK
<1>2. /\ pc[r] = "commit" /\ CanInitiate(cmd[r])
      /\ Storable(Written(r), TransactionOf(r))
      /\ balance' = Written(r) /\ txs' = txs \cup {TransactionOf(r)}
      /\ opened' = opened
  BY DEF Persist, Commit
<1>3. /\ rowLocks'[r] = {}
      /\ \A q \in Request : q # r => rowLocks'[q] = rowLocks[q]
      /\ \A q \in Request : q # r => copy'[q] = copy[q]
  BY DEF Persist, Commit, EndSession, TypeInv, TypeOK
<1>4. RowsExclusive'
  BY <1>3 DEF IsolationInv, RowsExclusive
<1>5. SessionShape'
  BY <1>1, <1>2, <1>3 DEF IsolationInv, SessionShape, LockedRows, Accounts
<1>6. NoStaleCopy'
  <2> SUFFICES ASSUME NEW q \in Request, NEW a \in rowLocks'[q]
               PROVE  copy'[q][a] = balance'[a]
    BY DEF NoStaleCopy
  <2>1. q # r /\ a \in rowLocks[q] /\ copy'[q] = copy[q]
    BY <1>3
  <2>2. a \in AccountId \ Accounts(r)
    BY <1>2, <2>1, CommitFacts DEF TypeInv, TypeOK
  <2>3. balance'[a] = balance[a]
    BY <1>2, <2>2, WrittenFacts
  <2> QED
    BY <2>1, <2>3 DEF IsolationInv, NoStaleCopy
<1>7. BalanceRange'
  BY <1>2, WrittenFacts DEF BalanceRange, Storable, InRange
<1>8. LedgerShape'
  <2>1. TransactionOf(r).cmd = cmd[r] /\ TransactionOf(r).id = r
    BY DEF TransactionOf, Row
  <2>2. \A t \in txs : t.cmd.key # TransactionOf(r).cmd.key
    BY <1>2 DEF Storable, NoDuplicate
  <2>3. \A t \in txs : t.id \in Request /\ t.id # r
    BY <1>2 DEF IsolationInv, LedgerShape, TypeInv, TypeOK, TxRow
  <2> QED
    BY <1>1, <1>2, <2>1, <2>2, <2>3 DEF IsolationInv, LedgerShape
<1> QED
  BY <1>4, <1>5, <1>6, <1>7, <1>8 DEF IsolationInv

(* A step that leaves the database and the calls alone keeps IsolationInv. *)
LEMMA QuietStep ==
    ASSUME IsolationInv, UNCHANGED <<dbVars, cmd, pc>>
    PROVE  IsolationInv'
<1>1. SessionShape'
  BY DEF dbVars, IsolationInv, SessionShape, LockedRows, Accounts
<1> QED
  BY <1>1 DEF dbVars, IsolationInv, RowsExclusive, NoStaleCopy, BalanceRange,
              LedgerShape

(* Every step of the system keeps the isolation of the sessions.           *)
LEMMA NextIsolation == TypeInv /\ IsolationInv /\ [Next]_vars => IsolationInv'
<1> SUFFICES ASSUME TypeInv, IsolationInv, [Next]_vars PROVE IsolationInv'
  OBVIOUS
<1> USE DEF serviceVars, lockVars
<1>1. ASSUME NEW r \in Request, Progress(r) PROVE IsolationInv'
  <2>0. cmd[r].from \in AccountId /\ cmd[r].to \in AccountId
    BY CommandType DEF TypeInv, TypeOK
  <2>1. CASE IdempotencyHit(r)
    BY <2>1, OutsideStep DEF IdempotencyHit, PC, Ended
  <2>2. CASE IdempotencyMiss(r)
    BY <2>2, OutsideStep DEF IdempotencyMiss, PC, Ended
  <2>15. CASE AmountOverflow(r)
    BY <2>15, OutsideStep DEF AmountOverflow, Raise, PC, Ended
  <2>3. CASE AcquireKey(r)
    BY <2>3, OutsideStep DEF AcquireKey, PC, Ended
  <2>4. CASE LockTimeout(r)
    BY <2>4, OutsideStep DEF LockTimeout, Raise, PC, Ended
  <2>5. CASE LoadSender(r)
    BY <2>0, <2>5, ReadStep DEF LoadSender, PC
  <2>6. CASE LoadReceiver(r)
    BY <2>0, <2>6, ReadStep DEF LoadReceiver, PC
  <2>7. CASE AccountMissing(r)
    BY <2>7, AbortStep DEF AccountMissing, Raise
  <2>8. CASE RejectCommand(r)
    BY <2>8, AbortStep DEF RejectCommand, Raise
  <2>9. CASE CommitCompleted(r)
    BY <2>9, PersistStep DEF CommitCompleted
  <2>10. CASE CommitFailed(r)
    BY <2>10, PersistStep DEF CommitFailed, Raise
  <2>11. CASE CommitRejected(r)
    BY <2>11, AbortStep DEF CommitRejected, Raise
  <2>12. CASE DeadlockVictim(r)
    BY <2>12, AbortStep DEF DeadlockVictim, Raise
  <2>13. CASE ReleaseKey(r)
    BY <2>13, QuietStep DEF ReleaseKey
  <2>14. CASE Finish(r)
    BY <2>14, OutsideStep DEF Finish, PC, Ended
  <2> QED
    BY <1>1, <2>1, <2>2, <2>3, <2>4, <2>5, <2>6, <2>7, <2>8, <2>9, <2>10,
       <2>11, <2>12, <2>13, <2>14, <2>15 DEF Progress
<1>2. ASSUME NEW r \in Request, Failure(r) PROVE IsolationInv'
  <2>1. CASE LockError(r)
    BY <2>1, OutsideStep DEF LockError, Raise, PC, Ended
  <2>2. CASE CommitUnacknowledged(r)
    BY <2>2, PersistStep DEF CommitUnacknowledged, Raise
  <2>3. CASE DatabaseError(r)
    BY <2>3, AbortStep DEF DatabaseError, Raise
  <2>4. CASE ReleaseKeyFails(r)
    BY <2>4, QuietStep DEF ReleaseKeyFails
  <2>5. CASE Crash(r)
    BY <2>5, AbortStep DEF Crash
  <2> QED
    BY <1>2, <2>1, <2>2, <2>3, <2>4, <2>5 DEF Failure
<1>3. ASSUME NEW a \in AccountId, NewAccount(a) PROVE IsolationInv'
  <2>1. /\ a \notin opened /\ opened' = opened \cup {a}
        /\ balance' = [balance EXCEPT ![a] = Quantize(OpeningBalance[a])]
        /\ Fits(Quantize(OpeningBalance[a]))
        /\ UNCHANGED <<txs, rowLocks, copy, cmd, pc>>
    BY <1>3 DEF NewAccount, CreateAccount
  <2>2. balance'[a] >= 0 /\ Fits(balance'[a])
    BY <2>1, DepositType DEF TypeInv, TypeOK
  <2>3. \A b \in AccountId : b # a => balance'[b] = balance[b]
    BY <2>1 DEF TypeInv, TypeOK
  <2>4. BalanceRange'
    BY <2>2, <2>3 DEF IsolationInv, BalanceRange
  <2>5. NoStaleCopy'
    BY <2>1, <2>3
    DEF IsolationInv, NoStaleCopy, SessionShape, TypeInv, TypeOK
  <2>6. RowsExclusive' /\ SessionShape' /\ LedgerShape'
    BY <2>1
    DEF IsolationInv, RowsExclusive, SessionShape, LockedRows, Accounts, LedgerShape
  <2> QED
    BY <2>4, <2>5, <2>6 DEF IsolationInv
<1>4. CASE (\E k \in AccountId : KeyExpires(k)) \/ UNCHANGED vars
  BY <1>4, QuietStep DEF KeyExpires, vars
<1> QED
  BY <1>1, <1>2, <1>3, <1>4 DEF Next, Idle

(* Sessions are isolated in every reachable state.                         *)
LEMMA IsolationInvariant == Spec => []IsolationInv
BY TypeInvariant, InitIsolation, NextIsolation, PTL DEF Spec

(* Whatever happens to the Redis locks, the balances a call decides on are *)
(* still the committed ones when it commits: SELECT ... FOR UPDATE is      *)
(* enough (ILockManager, layer 2).                                         *)
THEOREM Isolation == Spec => []NoStaleCopy
<1>1. IsolationInv => NoStaleCopy
  BY DEF IsolationInv
<1> QED
  BY <1>1, IsolationInvariant, PTL

(* No account is ever overdrawn.                                           *)
THEOREM NoOverdraft == Spec => []BalanceRange
<1>1. IsolationInv => BalanceRange
  BY DEF IsolationInv
<1> QED
  BY <1>1, IsolationInvariant, PTL

-----------------------------------------------------------------------------
(* Every step is a step of Bank or leaves the ledger alone.                *)

(* What commit() writes is one Settle or one Decline of the bank.          *)
LEMMA PersistRefines ==
    ASSUME TypeInv, IsolationInv, NEW r \in Request, Persist(r)
    PROVE  Abstract!Settle(r, cmd[r]) \/ Abstract!Decline(r, cmd[r])
<1> DEFINE c == cmd[r]
<1>1. /\ pc[r] = "commit" /\ CanInitiate(c)
      /\ Storable(Written(r), TransactionOf(r))
      /\ balance' = Written(r) /\ txs' = txs \cup {TransactionOf(r)}
      /\ opened' = opened
  BY DEF Persist, Commit
<1>2. /\ copy[r][c.from] = balance[c.from] /\ {c.from, c.to} \subseteq opened
  BY <1>1, CommitFacts DEF Accounts
<1>3. c.from \in AccountId /\ c.to \in AccountId /\ c.from # c.to
  BY <1>1, CommandType DEF TypeInv, TypeOK, CanInitiate
<1>4. \A t \in txs : t.id # r /\ t.cmd.key # c.key
  BY <1>1 DEF Storable, NoDuplicate, TransactionOf, Row, IsolationInv, LedgerShape
<1>5. Abstract!New(r, c)
  BY <1>1, <1>2, <1>4
  DEF Abstract!New, Abstract!CanInitiate, CanInitiate, Abstract!Amount, Amount,
      Abstract!Quantize, Quantize
<1>6. Applicable(r) <=> Abstract!Payable(c)
  BY <1>2
  DEF Applicable, Debitable, CanDebit, CanCredit, MayTransact, Amount, Quantize,
      Abstract!Payable, Abstract!CanDebit, Abstract!CanCredit,
      Abstract!MayTransact, Abstract!Amount, Abstract!Quantize
<1>7. CASE Applicable(r)
  <2>1. balance' = [balance EXCEPT ![c.from] = balance[c.from] - Amount(c),
                                   ![c.to] = balance[c.to] + Amount(c)]
    BY <1>1, <1>7, WrittenFacts
  <2>2. balance' = [balance EXCEPT ![c.from] = @ - Amount(c),
                                   ![c.to] = @ + Amount(c)]
    BY <1>3, <2>1 DEF TypeInv, TypeOK
  <2>3. Abstract!Enter(r, c, "completed", "null")
    BY <1>1, <1>7 DEF Abstract!Enter, TransactionOf, Row, NoCode
  <2> QED
    BY <1>1, <1>5, <1>6, <1>7, <2>2, <2>3
    DEF Abstract!Settle, Abstract!Amount, Amount, Abstract!Quantize, Quantize
<1>8. CASE ~Applicable(r)
  <2>1. balance' = balance
    BY <1>1, <1>8, WrittenFacts
  <2>2. Abstract!Reason(c) = FailureCode[Refusal(r)]
    <3>1. \A a, currency : Abstract!AccountError(a, currency) = AccountError(a, currency)
      BY DEF Abstract!AccountError, AccountError, Abstract!MayTransact, MayTransact
    <3>2. Debitable(r) <=> Abstract!CanDebit(c.from, balance[c.from],
                                            Abstract!Amount(c), c.currency)
      BY <1>2 DEF Debitable, CanDebit, MayTransact, Amount, Quantize,
                  Abstract!CanDebit, Abstract!MayTransact, Abstract!Amount,
                  Abstract!Quantize
    <3> QED
      BY <3>1, <3>2 DEF Abstract!Reason, Refusal, Abstract!FailureCode, FailureCode
  <2>3. Abstract!Enter(r, c, "failed", Abstract!Reason(c))
    BY <1>1, <1>8, <2>2 DEF Abstract!Enter, TransactionOf, Row
  <2> QED
    BY <1>1, <1>5, <1>6, <1>8, <2>1, <2>3 DEF Abstract!Decline
<1> QED
  BY <1>7, <1>8

(* The service starts as a bank without transactions.                      *)
LEMMA InitRefines == Init => Abstract!BankInit
BY SystemAssumption
DEF Init, SystemAssumption, Abstract!BankInit, Abstract!Deposit, Abstract!Quantize,
    Quantize

(* Every step of the service is a step of the bank or none.                *)
LEMMA NextRefines ==
    TypeInv /\ IsolationInv /\ [Next]_vars => [Abstract!BankNext]_(Abstract!bankVars)
<1> SUFFICES ASSUME TypeInv, IsolationInv, [Next]_vars
             PROVE  Abstract!BankNext \/ UNCHANGED Abstract!bankVars
  OBVIOUS
<1> USE DEF dbVars, Abstract!bankVars
<1>1. ASSUME NEW r \in Request, Persist(r) PROVE Abstract!BankNext
  <2>1. cmd[r] \in Command
    BY DEF TypeInv, TypeOK
  <2> QED
    BY <1>1, <2>1, PersistRefines DEF Abstract!BankNext
<1>2. ASSUME NEW r \in Request, Progress(r)
      PROVE  Abstract!BankNext \/ UNCHANGED Abstract!bankVars
  <2>1. Persist(r) \/ UNCHANGED <<opened, balance, txs>>
    BY <1>2
    DEF Progress, IdempotencyHit, IdempotencyMiss, AmountOverflow,
        AcquireKey, LockTimeout, LoadSender, LoadReceiver, GetWithLock, AccountMissing, RejectCommand,
        Rollback, CommitCompleted, CommitFailed, CommitRejected, DeadlockVictim,
        ReleaseKey, Finish
  <2> QED
    BY <1>1, <2>1
<1>3. ASSUME NEW r \in Request, Failure(r)
      PROVE  Abstract!BankNext \/ UNCHANGED Abstract!bankVars
  <2>1. Persist(r) \/ UNCHANGED <<opened, balance, txs>>
    BY <1>3
    DEF Failure, LockError, CommitUnacknowledged, DatabaseError, ReleaseKeyFails,
        Crash, Rollback
  <2> QED
    BY <1>1, <2>1
<1>4. ASSUME NEW a \in AccountId, NewAccount(a) PROVE Abstract!BankNext
  <2>1. Abstract!Open(a)
    BY <1>4 DEF NewAccount, CreateAccount, Abstract!Open, Abstract!Deposit,
                Abstract!Quantize, Quantize
  <2> QED
    BY <2>1 DEF Abstract!BankNext
<1>5. CASE (\E k \in AccountId : KeyExpires(k)) \/ UNCHANGED vars
  BY <1>5 DEF KeyExpires, vars
<1> QED
  BY <1>2, <1>3, <1>4, <1>5 DEF Next, Idle

(* The service is a bank whose transfers are atomic, decided on the        *)
(* balances of the moment, and entered once per idempotency key.           *)
THEOREM Refinement == Spec => ImplementsBank
BY InitRefines, NextRefines, TypeInvariant, IsolationInvariant, PTL
DEF Spec, ImplementsBank, Abstract!BankSpec

-----------------------------------------------------------------------------
(* The answers.  What a call is going to answer is settled when it leaves  *)
(* the critical section, and no later step of any call falsifies it.       *)

AnswerOf(r) ==
    /\ pc[r] \in {"release", "done"} => Truthful(r)
    /\ pc[r] = "release" => result[r].tx = r

AnswerInv == \A r \in Request : AnswerOf(r)

(* At the start no call has been told anything.                            *)
LEMMA InitAnswers == Init => AnswerInv
BY DEF Init, AnswerInv, AnswerOf

(* An answer stays true while its call stands still, returns or dies, and  *)
(* other calls commit.                                                     *)
LEMMA AnswerKept ==
    ASSUME NEW r, AnswerOf(r), txs \subseteq txs', \A t \in txs' \ txs : t.id # r,
           cmd' = cmd, result'[r] = result[r],
           \/ pc'[r] = pc[r]
           \/ pc[r] = "release" /\ pc'[r] = "done"
           \/ pc'[r] \notin {"release", "done"}
    PROVE  AnswerOf(r)'
<1>1. ASSUME Truthful(r) PROVE Truthful(r)'
  <2>1. Told(r) \subseteq Told(r)' /\ Existing(r) \subseteq Existing(r)'
    BY DEF Told, RowsOf, Existing
  <2>2. RowsOf(r)' = RowsOf(r)
    BY DEF RowsOf
  <2> QED
    BY <1>1, <2>1, <2>2 DEF Truthful
<1> QED
  BY <1>1 DEF AnswerOf

(* A call that has not reached its commit has no row.                      *)
LEMMA NoRowYet ==
    ASSUME IsolationInv, NEW r, pc[r] \notin {"release", "done", "crashed"}
    PROVE  RowsOf(r) = {}
BY DEF IsolationInv, LedgerShape, RowsOf

(* An exception that leaves nothing behind, or leaves the caller in doubt. *)
LEMMA RaiseAnswer ==
    ASSUME TypeInv, NEW r \in Request,
           NEW o \in Outcome \ ({"none"} \cup Telling),
           Raise(r, o), o = "DatabaseError" \/ RowsOf(r)' = {},
           o = "IntegrityError" => Existing(r)' # {}
    PROVE  AnswerOf(r)'
<1>1. result'[r].outcome = o /\ result'[r].tx = r /\ pc'[r] = "release"
  BY DEF Raise, Goto, Answer, TypeInv, TypeOK
<1>2. Truthful(r)'
  BY <1>1 DEF Truthful, MayHaveRow, Telling
<1> QED
  BY <1>1, <1>2 DEF AnswerOf

(* After its commit a call's row is there to be told of.                   *)
LEMMA PersistAnswer ==
    ASSUME TypeInv, IsolationInv, NEW r \in Request, Persist(r), cmd' = cmd,
           NEW o, result' = [result EXCEPT ![r] = Answer(o, r)],
           Goto(r, "release"),
           \/ o = "completed" /\ Applicable(r)
           \/ o = Refusal(r) /\ ~Applicable(r)
           \/ o = "DatabaseError"
    PROVE  AnswerOf(r)'
<1>1. result'[r] = Answer(o, r) /\ pc'[r] = "release"
  BY DEF Goto, TypeInv, TypeOK
<1>2. result'[r].outcome = o /\ result'[r].tx = r
  BY <1>1 DEF Answer
<1>3. TransactionOf(r) \in txs'
  BY DEF Persist, Commit
<1>4. /\ TransactionOf(r).id = r /\ TransactionOf(r).cmd = cmd[r]
      /\ TransactionOf(r).status = IF Applicable(r) THEN "completed" ELSE "failed"
      /\ ~Applicable(r) => TransactionOf(r).code = FailureCode[Refusal(r)]
  BY DEF TransactionOf, Row
<1>5. TransactionOf(r) \in Told(r)'
  BY <1>2, <1>3, <1>4 DEF Told, RowsOf
<1>6. Truthful(r)'
  <2>1. CASE o = "completed" /\ Applicable(r)
    BY <1>2, <1>4, <1>5, <2>1 DEF Truthful, MayHaveRow, Telling, Refusals
  <2>2. CASE o = Refusal(r) /\ ~Applicable(r)
    BY <1>2, <1>4, <1>5, <2>2, RefusalType
    DEF Truthful, MayHaveRow, Telling, Refusals
  <2>3. CASE o = "DatabaseError"
    BY <1>2, <2>3 DEF Truthful, MayHaveRow, Telling, Refusals
  <2> QED
    BY <2>1, <2>2, <2>3
<1> QED
  BY <1>1, <1>2, <1>6 DEF AnswerOf

(* Rows are only added, and only the row of the call that takes the step.  *)
LEMMA RowsGrow ==
    ASSUME NEW r \in Request, Progress(r) \/ Failure(r)
    PROVE  /\ txs \subseteq txs' /\ \A t \in txs' \ txs : t.id = r
           /\ Persist(r) \/ txs' = txs
<1>1. Persist(r) \/ UNCHANGED txs
  BY DEF Progress, IdempotencyHit, IdempotencyMiss, AmountOverflow,
         AcquireKey, LockTimeout, LoadSender, LoadReceiver, GetWithLock, AccountMissing, RejectCommand,
         Rollback, CommitCompleted, CommitFailed, CommitRejected, DeadlockVictim,
         ReleaseKey, Finish, dbVars,
         Failure, LockError, CommitUnacknowledged, DatabaseError, ReleaseKeyFails,
         Crash
<1>2. Persist(r) => txs' = txs \cup {TransactionOf(r)}
  BY DEF Persist, Commit
<1>3. TransactionOf(r).id = r
  BY DEF TransactionOf, Row
<1> QED
  BY <1>1, <1>2, <1>3

(* A step of r leaves the other calls where they are.                      *)
LEMMA OthersStand ==
    ASSUME TypeInv, NEW r \in Request, Progress(r) \/ Failure(r)
    PROVE  /\ cmd' = cmd
           /\ \A q \in Request : q # r => result'[q] = result[q] /\ pc'[q] = pc[q]
<1>1. /\ cmd' = cmd
      /\ pc' = [pc EXCEPT ![r] = pc'[r]] \/ pc' = pc
      /\ result' = [result EXCEPT ![r] = result'[r]] \/ result' = result
  BY DEF TypeInv, TypeOK, Progress, IdempotencyHit, IdempotencyMiss,
         AmountOverflow, AcquireKey, LockTimeout, LoadSender, LoadReceiver, AccountMissing, RejectCommand,
         CommitCompleted, CommitFailed, CommitRejected, DeadlockVictim, ReleaseKey,
         Finish, serviceVars, Raise, Goto,
         Failure, LockError, CommitUnacknowledged, DatabaseError, ReleaseKeyFails,
         Crash
<1> QED
  BY <1>1 DEF TypeInv, TypeOK

(* A step that answers call r answers it truthfully.                       *)
LEMMA OwnAnswer ==
    ASSUME TypeInv, IsolationInv, AnswerInv, NEW r \in Request,
           Progress(r) \/ Failure(r)
    PROVE  AnswerOf(r)'
<1> USE DEF serviceVars, dbVars
<1> DEFINE moved == pc'[r] \notin {"release", "done"}
<1>0. /\ AnswerOf(r) /\ cmd' = cmd /\ txs \subseteq txs'
      /\ pc \in [Request -> PC]
      /\ result \in [Request -> [outcome : Outcome, tx : Request]]
  BY OthersStand, RowsGrow DEF AnswerInv, TypeInv, TypeOK
<1>1. ASSUME moved PROVE AnswerOf(r)'
  BY <1>1 DEF AnswerOf
<1>2. CASE IdempotencyHit(r)
  <2>1. PICK t \in Existing(r) :
            result' = [result EXCEPT ![r] = Answer(t.status, t.id)]
    BY <1>2 DEF IdempotencyHit
  <2>2. result'[r].outcome = t.status /\ result'[r].tx = t.id /\ pc'[r] = "done"
    BY <1>0, <1>2, <2>1 DEF IdempotencyHit, Goto, Answer
  <2>3. t \in txs /\ t.cmd.key = cmd[r].key /\ t.status \in {"completed", "failed"}
    BY DEF Existing, TypeInv, TypeOK, TxRow
  <2>4. t \in Told(r)'
    BY <1>0, <2>2, <2>3 DEF Told, RowsOf
  <2>5. Truthful(r)'
    BY <2>2, <2>3, <2>4 DEF Truthful, MayHaveRow, Telling, Refusals
  <2> QED
    BY <2>2, <2>5 DEF AnswerOf
<1>3. CASE IdempotencyMiss(r) \/ AcquireKey(r) \/ LoadSender(r) \/ LoadReceiver(r)
  <2>1. moved
    BY <1>0, <1>3 DEF IdempotencyMiss, AcquireKey, LoadSender, LoadReceiver, Goto
  <2> QED
    BY <1>1, <2>1
<1>4. ASSUME NEW o \in Outcome \ ({"none"} \cup Telling),
             Raise(r, o), txs' = txs, pc[r] \notin {"release", "done", "crashed"},
             o = "IntegrityError" => Existing(r) # {}
      PROVE  AnswerOf(r)'
  <2>1. RowsOf(r)' = {} /\ Existing(r)' = Existing(r)
    BY <1>0, <1>4, NoRowYet DEF RowsOf, Existing
  <2> QED
    BY <1>4, <2>1, RaiseAnswer
<1>5. CASE LockTimeout(r) \/ LockError(r)
  BY <1>4, <1>5 DEF LockTimeout, LockError, Outcome, Telling, Refusals
<1>6. CASE AmountOverflow(r) \/ AccountMissing(r) \/ DeadlockVictim(r)
                 \/ DatabaseError(r)
  BY <1>4, <1>6 DEF AmountOverflow, AccountMissing, DeadlockVictim, WaitCycle,
                    WaitsFor, DatabaseError, Rollback, Outcome, Telling, Refusals
<1>14. CASE RejectCommand(r)
  <2>1. CommandError(cmd[r]) \in Outcome \ ({"none", "IntegrityError"} \cup Telling)
    BY ErrorType DEF Outcome, CommandErrors, Telling, Refusals
  <2> QED
    BY <1>4, <1>14, <2>1 DEF RejectCommand, Rollback
<1>7. CASE CommitRejected(r)
  <2>1. /\ pc[r] = "commit" /\ Rollback(r)
        /\ \E o \in {"DatabaseError", "IntegrityError"} :
              Raise(r, o) /\ (o = "IntegrityError" => ~NoDuplicate(TransactionOf(r)))
    BY <1>7 DEF CommitRejected
  <2>2. PICK o \in {"DatabaseError", "IntegrityError"} :
            Raise(r, o) /\ (o = "IntegrityError" => ~NoDuplicate(TransactionOf(r)))
    BY <2>1
  <2>3. TransactionOf(r).cmd = cmd[r]
    BY DEF TransactionOf, Row
  <2>4. ~NoDuplicate(TransactionOf(r)) => Existing(r) # {}
    BY <2>3 DEF NoDuplicate, Existing
  <2> QED
    BY <1>4, <2>1, <2>2, <2>4 DEF Rollback, Outcome, Telling, Refusals
<1>8. CASE CommitCompleted(r)
  BY <1>8, PersistAnswer DEF CommitCompleted
<1>9. CASE CommitFailed(r)
  BY <1>9, PersistAnswer DEF CommitFailed, Raise
<1>10. CASE CommitUnacknowledged(r)
  BY <1>10, PersistAnswer DEF CommitUnacknowledged, Raise
<1>11. CASE ReleaseKey(r) \/ ReleaseKeyFails(r)
  BY <1>0, <1>11, AnswerKept DEF ReleaseKey, ReleaseKeyFails
<1>12. CASE Finish(r)
  BY <1>0, <1>12, AnswerKept DEF Finish, Goto
<1>13. CASE Crash(r)
  <2>1. moved
    BY <1>0, <1>13 DEF Crash, Goto
  <2> QED
    BY <1>1, <2>1
<1> QED
  BY <1>2, <1>3, <1>5, <1>6, <1>7, <1>8, <1>9, <1>10, <1>11, <1>12, <1>13,
     <1>14
  DEF Progress, Failure

(* Every step of the system keeps the answers true.                        *)
LEMMA NextAnswers ==
    TypeInv /\ IsolationInv /\ AnswerInv /\ [Next]_vars => AnswerInv'
<1> SUFFICES ASSUME TypeInv, IsolationInv, AnswerInv, [Next]_vars
             PROVE  AnswerInv'
  OBVIOUS
<1>1. ASSUME NEW r \in Request, Progress(r) \/ Failure(r) PROVE AnswerInv'
  <2>1. ASSUME NEW q \in Request, q # r PROVE AnswerOf(q)'
    <3>1. AnswerOf(q)
      BY DEF AnswerInv
    <3> QED
      BY <1>1, <2>1, <3>1, OthersStand, RowsGrow, AnswerKept
  <2> QED
    BY <1>1, <2>1, OwnAnswer DEF AnswerInv
<1>2. CASE UNCHANGED <<txs, serviceVars>>
  <2>1. ASSUME NEW q \in Request PROVE AnswerOf(q)'
    <3>1. AnswerOf(q)
      BY DEF AnswerInv
    <3> QED
      BY <1>2, <3>1, AnswerKept DEF serviceVars
  <2> QED
    BY <2>1 DEF AnswerInv
<1>3. ASSUME NEW a \in AccountId, NewAccount(a) PROVE AnswerInv'
  BY <1>2, <1>3 DEF NewAccount, CreateAccount
<1>4. CASE (\E k \in AccountId : KeyExpires(k)) \/ UNCHANGED vars
  BY <1>2, <1>4 DEF KeyExpires, vars, dbVars
<1> QED
  BY <1>1, <1>3, <1>4 DEF Next, Idle

(* The answers are true in every reachable state.                          *)
LEMMA AnswerInvariant == Spec => []AnswerInv
BY TypeInvariant, IsolationInvariant, InitAnswers, NextAnswers, PTL DEF Spec

(* What a caller is told is in the database, and a caller told of an error *)
(* other than the database's may retry: the call left no row.              *)
THEOREM AnswersAreTrue == Spec => []TruthfulAnswers
<1>1. AnswerInv => TruthfulAnswers
  BY DEF AnswerInv, AnswerOf, TruthfulAnswers
<1> QED
  BY <1>1, AnswerInvariant, PTL

(* What a call that is told how its transfer ended, or is told 4xx by the  *)
(* account, has in the ledger: its own row is the only one with its id.    *)
LEMMA OwnRow ==
    ASSUME TypeInv, IsolationInv, NEW r \in Request, NEW t \in Told(r), t.id = r
    PROVE  RowsOf(r) = {t}
<1> SUFFICES ASSUME NEW u \in RowsOf(r)
             PROVE  u = t
  BY DEF Told, RowsOf
<1>1. t \in txs /\ u \in txs /\ u.id = r
  BY DEF Told, RowsOf
<1>2. t.cmd = cmd[r] /\ u.cmd = cmd[r]
  BY <1>1 DEF IsolationInv, LedgerShape
<1> QED
  BY <1>1, <1>2 DEF IsolationInv, LedgerShape

(* The status of a response tells what the ledger holds of the transfer:   *)
(* 202, a row of the key with the status that is shown; 422, the call's    *)
(* own failed row; 404 and 409, nothing; and never 4xx of a settled one.   *)
THEOREM StatusIsMeaningful == Spec => []StatusTellsEffect
<1>1. TypeInv /\ IsolationInv /\ AnswerInv => StatusTellsEffect
  <2> SUFFICES ASSUME TypeInv, IsolationInv, AnswerInv,
                      NEW r \in Request, pc[r] = "done"
               PROVE  LET code == StatusCode(result[r].outcome)
                          own  == RowsOf(r)
                      IN  /\ code = 202 =>
                                \E t \in Told(r) : t.status = result[r].outcome
                          /\ code = 422 => own # {}
                          /\ code \in {400, 422} =>
                                \A t \in own : t.status = "failed"
                          /\ code \in {404, 409} => own = {}
                          /\ code = 400 =>
                                (own # {} <=> result[r].outcome = "CurrencyMismatchError")
                          /\ code = 500 =>
                                result[r].outcome \notin Refusals \cup CommandErrors
    BY DEF StatusTellsEffect
  <2> DEFINE o == result[r].outcome
             own == RowsOf(r)
             failed == \A t \in own : t.status = "failed"
             shown == \E t \in Told(r) : t.status = o
  <2>1. Truthful(r) /\ o \in Outcome
    BY DEF AnswerInv, AnswerOf, TypeInv, TypeOK
  <2>2. o \in {"completed", "failed"} => shown
    BY <2>1 DEF Truthful
  <2>3. o \in Refusals => own # {} /\ failed
    <3> SUFFICES ASSUME o \in Refusals
                 PROVE  own # {} /\ failed
      OBVIOUS
    <3>1. PICK t \in Told(r) : t.id = r /\ t.status = "failed"
      BY <2>1 DEF Truthful
    <3>2. own = {t}
      BY <3>1, OwnRow
    <3> QED
      BY <3>1, <3>2
  <2>4. o \notin MayHaveRow => own = {} /\ failed
    BY <2>1 DEF Truthful
  <2> HIDE DEF o, own, failed, shown
  <2>5. /\ StatusCode(o) = 202 => o \in {"completed", "failed"}
        /\ StatusCode(o) = 422 => o \in Refusals
        /\ StatusCode(o) \in {400, 422} => o \in Refusals \cup CommandErrors
        /\ StatusCode(o) \in {404, 409} => o \notin MayHaveRow
        /\ StatusCode(o) = 400 =>
              o = "CurrencyMismatchError" \/ o \notin MayHaveRow
        /\ StatusCode(o) = 500 => o \notin Refusals \cup CommandErrors
    BY <2>1 DEF StatusCode, BadRequest, NotFound, Conflict, Unprocessable, Outcome,
                CommandErrors, Refusals, MayHaveRow, Telling
  <2>6. /\ "CurrencyMismatchError" \in Refusals
        /\ \A e \in CommandErrors : e \notin MayHaveRow
        /\ "CurrencyMismatchError" \in MayHaveRow
    BY DEF CommandErrors, Refusals, MayHaveRow, Telling
  <2>7. /\ StatusCode(o) = 202 => shown
        /\ StatusCode(o) = 422 => own # {}
        /\ StatusCode(o) \in {400, 422} => failed
        /\ StatusCode(o) \in {404, 409} => own = {}
        /\ StatusCode(o) = 400 => (own # {} <=> o = "CurrencyMismatchError")
        /\ StatusCode(o) = 500 => o \notin Refusals \cup CommandErrors
    BY <2>2, <2>3, <2>4, <2>5, <2>6
  <2> QED
    BY <2>7 DEF o, own, failed, shown
<1> QED
  BY <1>1, TypeInvariant, IsolationInvariant, AnswerInvariant, PTL

-----------------------------------------------------------------------------
(* What has been published.  A call that takes a step has not ended.       *)
LEMMA OnlyLiveSteps ==
    ASSUME NEW r \in Request, Progress(r) \/ Failure(r)
    PROVE  ~Ended(r)
BY DEF Ended, Progress, IdempotencyHit, IdempotencyMiss, AmountOverflow,
       AcquireKey, LockTimeout, LoadSender, LoadReceiver, AccountMissing,
       RejectCommand, Persist, CommitCompleted, CommitFailed, CommitRejected,
       DeadlockVictim, WaitCycle, WaitsFor, ReleaseKey, Finish,
       Failure, LockError, CommitUnacknowledged, DatabaseError, ReleaseKeyFails,
       Crash

(* A step of r changes neither what other calls have reported, nor, unless *)
(* it returns, the bus.                                                    *)
LEMMA OthersReported ==
    ASSUME TypeInv, NEW r \in Request, Progress(r) \/ Failure(r)
    PROVE  /\ \A t \in Reported : t.id # r
           /\ {t \in Reported' : t.id # r} = Reported
           /\ bus' = bus \/ Finish(r)
<1>1. pc[r] # "done"
  BY OnlyLiveSteps DEF Ended
<1>2. \A t \in Reported : t \in txs /\ t.id \in Request /\ t.id # r
  BY <1>1 DEF Reported, Completed, TypeInv, TypeOK, TxRow
<1>3. \A t \in txs' \ txs : t.id = r
  BY RowsGrow
<1>4. txs \subseteq txs'
  BY RowsGrow
<1>5. \A q \in Request : q # r => result'[q] = result[q] /\ pc'[q] = pc[q]
  BY OthersStand
<1>6. \A t \in Reported : t \in Reported'
  BY <1>2, <1>4, <1>5 DEF Reported, Completed
<1>7. ASSUME NEW t \in Reported', t.id # r PROVE t \in Reported
  <2>1. t \in txs
    BY <1>3, <1>7 DEF Reported, Completed
  <2>2. t.id \in Request
    BY <2>1 DEF TypeInv, TypeOK, TxRow
  <2> QED
    BY <1>5, <1>7, <2>1, <2>2 DEF Reported, Completed
<1>8. bus' = bus \/ Finish(r)
  BY DEF Progress, IdempotencyHit, IdempotencyMiss, AmountOverflow,
         AcquireKey, LockTimeout, LoadSender, LoadReceiver, AccountMissing,
         RejectCommand, CommitCompleted, CommitFailed, CommitRejected,
         DeadlockVictim, ReleaseKey, Raise, serviceVars,
         Failure, LockError, CommitUnacknowledged, DatabaseError,
         ReleaseKeyFails, Crash
<1> QED
  BY <1>2, <1>6, <1>7, <1>8

(* What a call publishes when it returns are the own events of its row.    *)
LEMMA PublishedEvents ==
    ASSUME TypeInv, NEW r \in Request, NEW t, t.id = r, t.cmd = cmd[r]
    PROVE  UncollectedEvents(r) = OwnEventsOf(t)
<1>1. r # cmd[r].from /\ r # cmd[r].to
  BY CommandType, ServiceAssumption DEF TypeInv, TypeOK, ServiceAssumption
<1>2. OwnEventsOf(t) =
        {Event("TransactionInitiated", r, r), Event("TransactionProcessing", r, r),
         Event("TransactionCompleted", r, r)}
  BY DEF OwnEventsOf, Event
<1>3. /\ Event("BalanceDebited", cmd[r].from, r).by = cmd[r].from
      /\ Event("BalanceCredited", cmd[r].to, r).by = cmd[r].to
      /\ \A type : Event(type, r, r).by = r
  BY DEF Event
<1> QED
  BY <1>1, <1>2, <1>3 DEF UncollectedEvents, CollectEvents, SuccessEvents

(* Every step keeps the bus in accord with what calls have reported.       *)
LEMMA NextBus ==
    TypeInv /\ IsolationInv /\ AnswerInv /\ BusTellsReported /\ [Next]_vars
    => BusTellsReported'
<1> SUFFICES ASSUME TypeInv, IsolationInv, AnswerInv, BusTellsReported, [Next]_vars
             PROVE  BusTellsReported'
  OBVIOUS
<1>1. ASSUME UNCHANGED <<bus, Reported>> PROVE BusTellsReported'
  BY <1>1 DEF BusTellsReported
<1>2. ASSUME NEW r \in Request, Progress(r) \/ Failure(r) PROVE BusTellsReported'
  <2>1. /\ \A t \in Reported : t.id # r
        /\ {t \in Reported' : t.id # r} = Reported
        /\ bus' = bus \/ Finish(r)
    BY <1>2, OthersReported
  <2>2. ASSUME bus' = bus, \A t \in Reported' : t.id # r PROVE BusTellsReported'
    BY <1>1, <2>1, <2>2
  <2>3. CASE Finish(r)
    <3>1. /\ pc[r] = "release" /\ txs' = txs /\ result' = result /\ cmd' = cmd
          /\ bus' = IF result[r].outcome = "completed"
                      THEN bus \cup UncollectedEvents(r) ELSE bus
          /\ pc'[r] = "done"
      BY <2>3 DEF Finish, dbVars, Goto, TypeInv, TypeOK
    <3>2. CASE result[r].outcome # "completed"
      <4>1. result'[r] # Answer("completed", r)
        BY <3>1, <3>2 DEF Answer
      <4>2. \A t \in Reported' : t.id # r
        BY <4>1 DEF Reported
      <4> QED
        BY <2>2, <3>1, <3>2, <4>2
    <3>3. CASE result[r].outcome = "completed"
      <4>1. Truthful(r) /\ result[r].tx = r
        BY <3>1 DEF AnswerInv, AnswerOf
      <4>2. PICK t \in Told(r) : t.status = "completed" /\ t.id = r
        BY <3>3, <4>1 DEF Truthful, Told, RowsOf
      <4>3. RowsOf(r) = {t} /\ t \in txs /\ t.cmd = cmd[r]
        BY <4>2, OwnRow DEF Told, RowsOf, IsolationInv, LedgerShape
      <4>4. result[r] = Answer("completed", r)
        BY <3>3, <4>1 DEF Answer, TypeInv, TypeOK
      <4>5. t \in Reported'
        BY <3>1, <4>2, <4>3, <4>4 DEF Reported, Completed
      <4>6. \A u \in Reported' : u.id = r => u = t
        BY <3>1, <4>3 DEF Reported, Completed, RowsOf
      <4>7. Reported' = Reported \cup {t}
        BY <2>1, <4>2, <4>5, <4>6
      <4>8. bus' = bus \cup OwnEventsOf(t)
        BY <3>1, <3>3, <4>2, <4>3, PublishedEvents
      <4> QED
        BY <4>7, <4>8 DEF BusTellsReported
    <3> QED
      BY <3>2, <3>3
  <2>4. CASE IdempotencyHit(r)
    <3>1. pc[r] = "check" /\ txs' = txs /\ bus' = bus
      BY <2>4 DEF IdempotencyHit, dbVars
    <3>2. RowsOf(r) = {}
      BY <3>1, NoRowYet
    <3>3. \A t \in Reported' : t.id # r
      BY <3>1, <3>2 DEF Reported, Completed, RowsOf
    <3> QED
      BY <2>2, <3>1, <3>3
  <2>5. CASE ~Finish(r) /\ ~IdempotencyHit(r)
    <3>1. pc'[r] # "done"
      BY <1>2, <2>5, OnlyLiveSteps
      DEF Ended, TypeInv, TypeOK, Goto, Raise, Progress, IdempotencyMiss,
          AmountOverflow, AcquireKey, LockTimeout, LoadSender, LoadReceiver,
          AccountMissing, RejectCommand, CommitCompleted, CommitFailed,
          CommitRejected, DeadlockVictim, ReleaseKey, serviceVars,
          Failure, LockError, CommitUnacknowledged, DatabaseError,
          ReleaseKeyFails, Crash
    <3>2. \A t \in Reported' : t.id # r
      BY <3>1 DEF Reported
    <3> QED
      BY <2>1, <2>2, <2>5, <3>2
  <2> QED
    BY <2>3, <2>4, <2>5
<1>3. CASE UNCHANGED <<txs, serviceVars>>
  <2>1. Reported' = Reported /\ bus' = bus
    BY <1>3 DEF Reported, Completed, serviceVars
  <2> QED
    BY <1>1, <2>1
<1>4. ASSUME NEW a \in AccountId, NewAccount(a) PROVE BusTellsReported'
  BY <1>3, <1>4 DEF NewAccount, CreateAccount
<1>5. CASE (\E k \in AccountId : KeyExpires(k)) \/ UNCHANGED vars
  BY <1>3, <1>5 DEF KeyExpires, vars, dbVars
<1> QED
  BY <1>2, <1>4, <1>5 DEF Next, Idle

(* The bus has carried the transaction events of the transfers whose own   *)
(* call has returned, all of them and no others: nothing that has not been *)
(* committed, nothing of a transfer whose call died or was left in doubt.  *)
THEOREM BusIsExact == Spec => []BusTellsReported
<1>1. Init => BusTellsReported
  <2> SUFFICES ASSUME Init PROVE BusTellsReported
    OBVIOUS
  <2>1. Reported = {} /\ bus = {}
    BY DEF Init, Reported, Completed
  <2> QED
    BY <2>1 DEF BusTellsReported
<1> QED
  BY <1>1, NextBus, TypeInvariant, IsolationInvariant, AnswerInvariant, PTL
  DEF Spec

(* All callers that use one idempotency key and are told how their         *)
(* transfer ended are told of the same transaction: it was tried once.     *)
THEOREM OneTransferPerKey == Spec => []SameAnswer
<1>1. TypeInv /\ IsolationInv /\ AnswerInv => SameAnswer
  <2> SUFFICES ASSUME TypeInv, IsolationInv, AnswerInv,
                      NEW r \in Request, NEW q \in Request,
                      cmd[r].key = cmd[q].key,
                      pc[r] = "done" /\ result[r].outcome \in Telling,
                      pc[q] = "done" /\ result[q].outcome \in Telling
               PROVE  result[r].tx = result[q].tx
    BY DEF SameAnswer
  <2>1. PICK t \in txs : t.id = result[r].tx /\ t.cmd.key = cmd[r].key
    BY DEF AnswerInv, AnswerOf, Truthful, Told, RowsOf, Telling
  <2>2. PICK u \in txs : u.id = result[q].tx /\ u.cmd.key = cmd[q].key
    BY DEF AnswerInv, AnswerOf, Truthful, Told, RowsOf, Telling
  <2> QED
    BY <2>1, <2>2 DEF IsolationInv, LedgerShape
<1> QED
  BY <1>1, TypeInvariant, IsolationInvariant, AnswerInvariant, PTL

-----------------------------------------------------------------------------
(***************************************************************************)
(* The distributed locks, as long as none lapses under a live holder: what *)
(* a call has on its list is in Redis, and on nobody else's list.          *)
(***************************************************************************)
HoldInv ==
    /\ \A r \in Request : Lock!Held(r) \subseteq redis
    /\ \A r, q \in Request : r # q => Lock!Held(r) \cap Lock!Held(q) = {}
    /\ \A r \in Request :
          acquired[r] = LockKeys(cmd[r]) => Key1(cmd[r]) # Key2(cmd[r])

(* The keys on a list, by its shape.                                       *)
KeysOn(list) == {list[i] : i \in 1 .. Len(list)}

(* Held is the set of the keys on a call's list.                           *)
LEMMA HeldIsKeysOn ==
    ASSUME NEW r
    PROVE  /\ Lock!Held(r) = KeysOn(acquired[r])
           /\ Lock!Held(r)' = KeysOn(acquired'[r])
BY DEF Lock!Held, KeysOn

(* The two lock keys of a command are its two accounts, sorted.            *)
LEMMA KeysByShape ==
    ASSUME NEW c \in Command
    PROVE  /\ KeysOn(<< >>) = {}
           /\ KeysOn(<<Key1(c)>>) = {Key1(c)}
           /\ KeysOn(LockKeys(c)) = {Key1(c), Key2(c)}
           /\ KeysOn(LockKeys(c)) = {c.from, c.to}
<1> DEFINE k1 == Key1(c)
           k2 == Key2(c)
<1>1. LockKeys(c) = <<k1, k2>> /\ {k1, k2} = {c.from, c.to}
  BY KeysType
<1> HIDE DEF k1, k2
<1>2. KeysOn(<< >>) = {}
  BY DEF KeysOn
<1>3. KeysOn(<<k1>>) = {k1}
  <2>1. Len(<<k1>>) = 1 /\ <<k1>>[1] = k1 /\ 1 .. 1 = {1}
    OBVIOUS
  <2> QED
    BY <2>1 DEF KeysOn
<1>4. KeysOn(<<k1, k2>>) = {k1, k2}
  <2>1. Len(<<k1, k2>>) = 2 /\ <<k1, k2>>[1] = k1 /\ <<k1, k2>>[2] = k2
    OBVIOUS
  <2>2. 1 .. 2 = {1, 2}
    OBVIOUS
  <2> QED
    BY <2>1, <2>2 DEF KeysOn
<1> QED
  BY <1>1, <1>2, <1>3, <1>4 DEF k1, k2

(* At the start no key is held.                                            *)
LEMMA InitHold == Init => HoldInv
<1> SUFFICES ASSUME Init PROVE HoldInv
  OBVIOUS
<1>1. ASSUME NEW r \in Request
      PROVE  Lock!Held(r) = {} /\ acquired[r] # LockKeys(cmd[r])
  <2>1. acquired[r] = << >> /\ cmd[r] \in Command
    BY DEF Init, Lock!LockInit
  <2>2. LockKeys(cmd[r]) # << >>
    BY <2>1, KeysType
  <2> QED
    BY <2>1, <2>2, KeysByShape, HeldIsKeysOn
<1> QED
  BY <1>1 DEF HoldInv

(* Setting a key that was not present.                                     *)
LEMMA HoldSet ==
    ASSUME TypeInv, HoldInv, NEW r \in Request, AcquireKey(r)
    PROVE  HoldInv'
<1> DEFINE next == NextKey(r)
<1>1. /\ pc[r] = "lock" /\ next \notin redis /\ redis' = redis \cup {next}
      /\ acquired' = [acquired EXCEPT ![r] = Append(@, next)] /\ cmd' = cmd
  BY DEF AcquireKey, Lock!SetKey
<1>2. /\ acquired'[r] = Append(acquired[r], next)
      /\ \A q \in Request : q # r => acquired'[q] = acquired[q]
      /\ \A q \in Request : cmd[q] \in Command
  BY <1>1 DEF TypeInv, TypeOK, Lock!LockTypeOK
<1>3. \A q \in Request : q # r => Lock!Held(q)' = Lock!Held(q)
  BY <1>2, HeldIsKeysOn
<1>4. /\ Lock!Held(r)' = Lock!Held(r) \cup {next}
      /\ acquired'[r] = LockKeys(cmd[r]) => Key1(cmd[r]) # Key2(cmd[r])
  <2>1. CASE acquired[r] = << >> /\ next = Key1(cmd[r])
                /\ acquired'[r] = <<Key1(cmd[r])>>
    <3>1. Lock!Held(r) = {} /\ Lock!Held(r)' = {Key1(cmd[r])}
      BY <1>2, <2>1, KeysByShape, HeldIsKeysOn
    <3>2. <<Key1(cmd[r])>> # LockKeys(cmd[r])
      BY <1>2, KeysType
    <3> QED
      BY <2>1, <3>1, <3>2
  <2>2. CASE acquired[r] = <<Key1(cmd[r])>> /\ next = Key2(cmd[r])
                /\ acquired'[r] = LockKeys(cmd[r])
    <3>1. Lock!Held(r) = {Key1(cmd[r])}
      BY <1>2, <2>2, KeysByShape, HeldIsKeysOn
    <3>2. Lock!Held(r)' = {Key1(cmd[r]), Key2(cmd[r])}
      BY <1>2, <2>2, KeysByShape, HeldIsKeysOn
    <3>3. Key1(cmd[r]) \in redis
      BY <3>1 DEF HoldInv
    <3> QED
      BY <1>1, <2>2, <3>1, <3>2, <3>3
  <2> QED
    BY <1>1, <1>2, <2>1, <2>2, NextKeyType
<1> HIDE DEF next
<1>5. \A q \in Request : Lock!Held(q)' \subseteq redis'
  BY <1>1, <1>3, <1>4 DEF HoldInv
<1>6. \A p, q \in Request : p # q => Lock!Held(p)' \cap Lock!Held(q)' = {}
  BY <1>1, <1>3, <1>4 DEF HoldInv
<1>7. \A q \in Request :
          acquired'[q] = LockKeys(cmd'[q]) => Key1(cmd'[q]) # Key2(cmd'[q])
  BY <1>1, <1>2, <1>4 DEF HoldInv
<1> QED
  BY <1>5, <1>6, <1>7 DEF HoldInv, Key1, Key2, LockKeys

(* Taking the last key off a list, whether its DEL reaches Redis or not:   *)
(* the key is on no other list, nor twice on this one.                     *)
LEMMA HoldDrop ==
    ASSUME TypeInv, HoldInv, NEW r \in Request, acquired[r] # << >>,
           Lock!DropLast(r), cmd' = cmd,
           redis' \in {redis, redis \ {Lock!LastAcquired(r)}}
    PROVE  HoldInv'
<1> DEFINE c == cmd[r]
           last == Lock!LastAcquired(r)
<1>1. /\ \A q \in Request : cmd[q] \in Command
      /\ \A q \in Request : q # r => acquired'[q] = acquired[q]
      /\ LockKeys(c) = <<Key1(c), Key2(c)>>
  <2>1. \A q \in Request : cmd[q] \in Command
    BY DEF TypeInv, TypeOK
  <2>2. \A q \in Request : q # r => acquired'[q] = acquired[q]
    BY DropLastShape DEF TypeInv, TypeOK, Lock!LockTypeOK
  <2> QED
    BY <2>1, <2>2, KeysType
<1>2. /\ KeysOn(<< >>) = {} /\ KeysOn(<<Key1(c)>>) = {Key1(c)}
      /\ KeysOn(LockKeys(c)) = {Key1(c), Key2(c)}
      /\ Lock!Held(r) = KeysOn(acquired[r])
      /\ Lock!Held(r)' = KeysOn(acquired'[r])
  BY <1>1, KeysByShape, HeldIsKeysOn
<1>3. /\ acquired'[r] \in {<< >>, <<Key1(c)>>}
      /\ Lock!Held(r)' \subseteq Lock!Held(r) \ {last}
      /\ last \in Lock!Held(r)
  <2>1. acquired'[r] \in {<< >>, <<Key1(c)>>}
    BY DropLastShape
  <2>2. CASE acquired[r] = <<Key1(c)>>
    <3>1. Len(acquired[r]) = 1 /\ acquired[r][1] = Key1(c)
      BY <2>2
    <3>2. last = Key1(c)
      BY <3>1 DEF Lock!LastAcquired
    <3>3. acquired'[r] = SubSeq(acquired[r], 1, 0)
      BY <3>1 DEF Lock!DropLast, TypeInv, TypeOK, Lock!LockTypeOK
    <3>4. acquired'[r] = << >>
      BY <2>2, <3>3
    <3>5. Lock!Held(r)' = {} /\ Lock!Held(r) = {Key1(c)}
      BY <1>2, <2>2, <3>4
    <3> HIDE DEF c, last
    <3> QED
      BY <2>1, <3>2, <3>5
  <2>3. CASE acquired[r] = LockKeys(c)
    <3>1. Len(acquired[r]) = 2 /\ acquired[r][2] = Key2(c)
      BY <1>1, <2>3
    <3>2. last = Key2(c)
      BY <3>1 DEF Lock!LastAcquired
    <3>3. Key1(c) # Key2(c)
      BY <2>3 DEF HoldInv
    <3>4. Lock!Held(r) = {Key1(c), Key2(c)}
      BY <1>2, <2>3
    <3>5. CASE acquired'[r] = << >>
      BY <1>2, <2>1, <3>2, <3>4, <3>5
    <3>6. CASE acquired'[r] = <<Key1(c)>>
      BY <1>2, <2>1, <3>2, <3>3, <3>4, <3>6
    <3> QED
      BY <2>1, <3>5, <3>6
  <2> QED
    BY <2>2, <2>3 DEF TypeInv, LockShape, ShapeOf
<1>4. \A q \in Request : q # r => Lock!Held(q)' = Lock!Held(q)
  BY <1>1, HeldIsKeysOn
<1>5. \A q \in Request : q # r => last \notin Lock!Held(q)
  BY <1>3 DEF HoldInv
<1>6. acquired'[r] # LockKeys(c)
  BY <1>1, <1>3
<1> HIDE DEF last, c
<1>7. \A q \in Request : Lock!Held(q)' \subseteq redis'
  BY <1>3, <1>4, <1>5 DEF HoldInv, last
<1>8. \A p, q \in Request : p # q => Lock!Held(p)' \cap Lock!Held(q)' = {}
  BY <1>3, <1>4 DEF HoldInv
<1>9. \A q \in Request :
          acquired'[q] = LockKeys(cmd[q]) => Key1(cmd[q]) # Key2(cmd[q])
  BY <1>1, <1>6 DEF HoldInv, c
<1> QED
  BY <1>7, <1>8, <1>9 DEF HoldInv, Key1, Key2, LockKeys

(* Steps that leave the lists alone and delete nothing that is held.       *)
LEMMA HoldKept ==
    ASSUME HoldInv, acquired' = acquired, cmd' = cmd,
           \A r \in Request : Lock!Held(r) \subseteq redis'
    PROVE  HoldInv'
<1>1. \A r \in Request : Lock!Held(r)' = Lock!Held(r)
  BY HeldIsKeysOn
<1> QED
  BY <1>1 DEF HoldInv, Key1, Key2, LockKeys

(* A process that dies forgets its list.                                   *)
LEMMA HoldForget ==
    ASSUME TypeInv, HoldInv, NEW r \in Request, Lock!Forget(r), cmd' = cmd
    PROVE  HoldInv'
<1>1. /\ acquired'[r] = << >> /\ redis' = redis /\ cmd[r] \in Command
      /\ \A q \in Request : q # r => acquired'[q] = acquired[q]
  BY DEF Lock!Forget, TypeInv, TypeOK, Lock!LockTypeOK
<1>2. Lock!Held(r)' = {} /\ acquired'[r] # LockKeys(cmd[r])
  <2>1. LockKeys(cmd[r]) # << >>
    BY <1>1, KeysType
  <2> QED
    BY <1>1, <2>1, KeysByShape, HeldIsKeysOn
<1>3. \A q \in Request : q # r => Lock!Held(q)' = Lock!Held(q)
  BY <1>1, HeldIsKeysOn
<1> QED
  BY <1>1, <1>2, <1>3 DEF HoldInv, Key1, Key2, LockKeys

(* Where no lock lapses, every step keeps the keys with their holders.     *)
LEMMA NextHold ==
    ASSUME "lapse" \notin Faults
    PROVE  TypeInv /\ HoldInv /\ [Next]_vars => HoldInv'
<1> SUFFICES ASSUME TypeInv, HoldInv, [Next]_vars PROVE HoldInv'
  OBVIOUS
<1> USE DEF serviceVars, lockVars, dbVars
<1>1. CASE UNCHANGED <<cmd, redis, acquired>>
  BY <1>1, HoldKept DEF HoldInv
<1>2. ASSUME NEW r \in Request, Progress(r) PROVE HoldInv'
  <2>1. \/ AcquireKey(r) \/ ReleaseKey(r)
        \/ UNCHANGED <<cmd, redis, acquired>>
    BY <1>2
    DEF Progress, IdempotencyHit, IdempotencyMiss, AmountOverflow,
        LockTimeout, Lock!Contended,
        LoadSender, LoadReceiver, AccountMissing, RejectCommand, CommitCompleted,
        CommitFailed, Persist, CommitRejected, DeadlockVictim, Finish, Raise
  <2> QED
    BY <1>1, <2>1, HoldSet, HoldDrop DEF ReleaseKey, Lock!DeleteKey
<1>3. ASSUME NEW r \in Request, Failure(r) PROVE HoldInv'
  <2>1. CASE LockError(r)
    <3>1. redis \subseteq redis' /\ UNCHANGED <<cmd, acquired>>
      BY <2>1 DEF LockError, Lock!SetKeyFails, Raise
    <3> QED
      BY <3>1, HoldKept DEF HoldInv
  <2>2. CASE CommitUnacknowledged(r) \/ DatabaseError(r)
    BY <1>1, <2>2 DEF CommitUnacknowledged, Persist, DatabaseError, Raise
  <2>3. CASE ReleaseKeyFails(r)
    BY <2>3, HoldDrop DEF ReleaseKeyFails, Lock!DeleteKeyFails
  <2>4. CASE Crash(r)
    BY <2>4, HoldForget DEF Crash
  <2> QED
    BY <1>3, <2>1, <2>2, <2>3, <2>4 DEF Failure
<1>4. ASSUME NEW k \in AccountId, KeyExpires(k) PROVE HoldInv'
  <2>1. /\ \A r \in Request : k \notin Lock!Held(r)
        /\ redis' = redis \ {k} /\ UNCHANGED <<cmd, acquired>>
    BY <1>4 DEF KeyExpires, Lock!Expire
  <2> QED
    BY <2>1, HoldKept DEF HoldInv
<1>5. ASSUME NEW a \in AccountId, NewAccount(a) PROVE HoldInv'
  BY <1>1, <1>5 DEF NewAccount
<1> QED
  BY <1>1, <1>2, <1>3, <1>4, <1>5 DEF Next, Idle, vars

(* Calls that hold both keys of their accounts exclude each other.         *)
LEMMA HoldImpliesExclusion == TypeInv /\ HoldInv => AccountExclusion
<1> SUFFICES ASSUME TypeInv, HoldInv, NEW r \in Request, NEW q \in Request, r # q,
                    InCriticalSection(r), InCriticalSection(q)
             PROVE  Accounts(r) \cap Accounts(q) = {}
  BY DEF AccountExclusion
<1>1. ASSUME NEW p \in {r, q} PROVE Lock!Held(p) = Accounts(p)
  <2>1. acquired[p] = LockKeys(cmd[p]) /\ cmd[p] \in Command
    BY DEF TypeInv, TypeOK, LockShape, ShapeOf
  <2> QED
    BY <2>1, KeysByShape, HeldIsKeysOn DEF Accounts
<1> QED
  BY <1>1 DEF HoldInv

(* While no lock lapses, the Redis locks alone already keep two transfers  *)
(* off one account: no conjunct of HoldInv mentions the database.          *)
THEOREM Exclusion ==
    ASSUME "lapse" \notin Faults
    PROVE  Spec => []AccountExclusion
BY HoldImpliesExclusion, TypeInvariant, InitHold, NextHold, PTL DEF Spec

(* And SameAccountTransferError is never raised: a transfer to the same    *)
(* account waits for itself before Transaction.initiate could refuse it.   *)
THEOREM SelfTransferUnseen ==
    ASSUME "lapse" \notin Faults
    PROVE  Spec => [](\A r \in Request :
                          result[r].outcome # "SameAccountTransferError")
<1> DEFINE Unseen == \A r \in Request :
                         result[r].outcome # "SameAccountTransferError"
<1>1. Init => Unseen
  BY DEF Init, NoResult, Answer
<1>2. ASSUME TypeInv, HoldInv, NEW r \in Request, RejectCommand(r)
      PROVE  CommandError(cmd[r]) # "SameAccountTransferError"
  <2>1. cmd[r] \in Command /\ acquired[r] = LockKeys(cmd[r])
    BY <1>2
    DEF TypeInv, TypeOK, RejectCommand, LockShape, ShapeOf, InCriticalSection
  <2>2. cmd[r].from # cmd[r].to
    BY <1>2, <2>1 DEF HoldInv, Key1, Key2
  <2>3. Amount(cmd[r]) = 0
    BY <1>2, <2>1, <2>2, CommandType DEF RejectCommand, CanInitiate
  <2> QED
    BY <2>3 DEF CommandError
<1>3. ASSUME TypeInv, HoldInv, Unseen, NEW r \in Request, Progress(r) \/ Failure(r)
      PROVE  Unseen'
  <2>1. ASSUME NEW o, o # "SameAccountTransferError",
               \E id : result' = [result EXCEPT ![r] = Answer(o, id)]
        PROVE  Unseen'
    BY <1>3, <2>1 DEF Answer, TypeInv, TypeOK
  <2>2. CASE result' = result
    BY <1>3, <2>2
  <2>3. CASE IdempotencyHit(r)
    <3>1. PICK t \in Existing(r) :
              result' = [result EXCEPT ![r] = Answer(t.status, t.id)]
      BY <2>3 DEF IdempotencyHit
    <3>2. t.status # "SameAccountTransferError"
      BY <1>3 DEF Existing, TypeInv, TypeOK, TxRow
    <3> QED
      BY <2>1, <3>1, <3>2
  <2>4. CASE RejectCommand(r)
    BY <1>2, <1>3, <2>1, <2>4 DEF RejectCommand, Raise
  <2>5. CASE CommitFailed(r)
    <3>1. Refusal(r) # "SameAccountTransferError"
      BY RefusalType DEF Refusals
    <3> QED
      BY <2>1, <2>5, <3>1 DEF CommitFailed, Raise
  <2>6. CASE CommitCompleted(r)
    BY <2>1, <2>6 DEF CommitCompleted
  <2>7. CASE AmountOverflow(r) \/ LockTimeout(r) \/ LockError(r)
    BY <2>1, <2>7 DEF AmountOverflow, LockTimeout, LockError, Raise
  <2>8. CASE AccountMissing(r) \/ CommitRejected(r) \/ DeadlockVictim(r)
    BY <2>1, <2>8 DEF AccountMissing, CommitRejected, DeadlockVictim, Raise
  <2>9. CASE CommitUnacknowledged(r) \/ DatabaseError(r)
    BY <2>1, <2>9 DEF CommitUnacknowledged, DatabaseError, Raise
  <2>10. CASE \/ IdempotencyMiss(r) \/ AcquireKey(r) \/ LoadSender(r)
              \/ LoadReceiver(r) \/ ReleaseKey(r) \/ ReleaseKeyFails(r)
              \/ Finish(r) \/ Crash(r)
    BY <2>2, <2>10
    DEF IdempotencyMiss, AcquireKey, LoadSender, LoadReceiver, ReleaseKey,
        ReleaseKeyFails, Finish, Crash, serviceVars
  <2> QED
    BY <1>3, <2>3, <2>4, <2>5, <2>6, <2>7, <2>8, <2>9, <2>10
    DEF Progress, Failure
<1>4. TypeInv /\ HoldInv /\ Unseen /\ [Next]_vars => Unseen'
  <2> SUFFICES ASSUME TypeInv, HoldInv, Unseen, [Next]_vars
               PROVE  Unseen'
    OBVIOUS
  <2>1. CASE result' = result
    BY <2>1
  <2>2. CASE \E r \in Request : Progress(r) \/ Failure(r)
    BY <1>3, <2>2
  <2> QED
    BY <2>1, <2>2 DEF Next, NewAccount, KeyExpires, Idle, vars, serviceVars
<1> QED
  BY <1>1, <1>4, TypeInvariant, InitHold, NextHold, PTL DEF Spec

(* And then Postgres never has to resolve a deadlock.                      *)
THEOREM DeadlockFreedom ==
    ASSUME "lapse" \notin Faults
    PROVE  Spec => []NoRowDeadlock
<1>1. IsolationInv /\ AccountExclusion => NoRowDeadlock
  <2> SUFFICES ASSUME IsolationInv, AccountExclusion,
                      NEW S \in SUBSET Request, WaitCycle(S)
               PROVE  FALSE
    BY DEF NoRowDeadlock
  <2>1. PICK r \in S, q \in S : WaitsFor(r, q)
    BY DEF WaitCycle
  <2>2. PICK a \in Accounts(r) : a \in rowLocks[q]
    BY <2>1 DEF WaitsFor, Accounts
  <2>3. InCriticalSection(q) /\ a \in Accounts(q)
    BY <2>2 DEF IsolationInv, SessionShape, LockedRows, InCriticalSection, Accounts
  <2>4. InCriticalSection(r) /\ r # q
    BY <2>1 DEF WaitsFor, InCriticalSection
  <2> QED
    BY <2>2, <2>3, <2>4 DEF AccountExclusion
<1> QED
  BY <1>1, Exclusion, IsolationInvariant, PTL

-----------------------------------------------------------------------------
(* Whoever holds the key another call waits for, and waits itself, waits   *)
(* for a larger one: this is what sorting the keys is for.                 *)
LEMMA WaitsUpwards ==
    ASSUME TypeInv, NEW r \in Request, NEW q \in Request,
           cmd[q].from # cmd[q].to, WaitsForKey(r, q), pc[q] = "lock"
    PROVE  NextKey(r) < NextKey(q)
<1>1. cmd[q] \in Command /\ NextKey(r) \in Lock!Held(q)
  BY DEF TypeInv, TypeOK, WaitsForKey
<1>2. /\ acquired[q] \in {<< >>, <<Key1(cmd[q])>>}
      /\ acquired[q] = <<Key1(cmd[q])>> => NextKey(q) = Key2(cmd[q])
  <2>1. << >> # <<Key1(cmd[q])>>
    OBVIOUS
  <2> QED
    BY <2>1, NextKeyType
<1>3. acquired[q] = <<Key1(cmd[q])>> /\ NextKey(r) = Key1(cmd[q])
  <2>1. NextKey(r) \in KeysOn(acquired[q])
    BY <1>1, HeldIsKeysOn
  <2>2. CASE acquired[q] = << >>
    <3>1. NextKey(r) \in KeysOn(<< >>)
      BY <2>1, <2>2
    <3> QED
      BY <1>1, <3>1, KeysByShape
  <2>3. CASE acquired[q] = <<Key1(cmd[q])>>
    <3>1. NextKey(r) \in KeysOn(<<Key1(cmd[q])>>)
      BY <2>1, <2>3
    <3>2. KeysOn(<<Key1(cmd[q])>>) = {Key1(cmd[q])}
      BY <1>1, KeysByShape
    <3> QED
      BY <2>3, <3>1, <3>2
  <2> QED
    BY <1>2, <2>2, <2>3
<1>4. Key1(cmd[q]) < Key2(cmd[q])
  <2>1. cmd[q].from \in Nat /\ cmd[q].to \in Nat
    BY <1>1, CommandType, DomainAssumption DEF DomainAssumption
  <2> QED
    BY <2>1 DEF Key1, Key2
<1> QED
  BY <1>2, <1>3, <1>4

(* Calls between distinct accounts never wait for each other's Redis keys  *)
(* in a circle, whatever fails and whichever keys lapse.  An account id is *)
(* a UUID, so that there is a largest one.                                 *)
THEOREM LockOrder ==
    ASSUME \A c \in Command : c.from # c.to,
           NEW max \in Nat, \A a \in AccountId : a <= max
    PROVE  Spec => []NoLockDeadlock
<1>1. TypeInv => NoLockDeadlock
  <2> SUFFICES ASSUME TypeInv, NEW S \in SUBSET Request, S # {},
                      \A r \in S : \E q \in S : WaitsForKey(r, q)
               PROVE  FALSE
    BY DEF NoLockDeadlock
  <2> DEFINE room(r) == max - NextKey(r)
             T == {room(r) : r \in S}
  <2>1. ASSUME NEW r \in S
        PROVE  pc[r] = "lock" /\ NextKey(r) \in Nat /\ room(r) \in Nat
    <3>1. pc[r] = "lock" /\ cmd[r] \in Command
      BY DEF WaitsForKey, TypeInv, TypeOK
    <3>2. NextKey(r) \in AccountId
      BY <3>1, NextKeyType, KeysType
    <3>3. NextKey(r) \in Nat /\ NextKey(r) <= max
      BY <3>2, DomainAssumption DEF DomainAssumption
    <3> QED
      BY <3>1, <3>3
  <2>2. PICK r \in S : \A q \in S : room(r) <= room(q)
    <3>1. T \subseteq Nat /\ T # {}
      BY <2>1
    <3>2. PICK x \in T : \A y \in T : x <= y
      <4> HIDE DEF T
      <4> QED
        BY <3>1, LeastNat
    <3> QED
      BY <3>2
  <2>3. PICK q \in S : WaitsForKey(r, q)
    OBVIOUS
  <2>4. cmd[q].from # cmd[q].to
    BY DEF TypeInv, TypeOK
  <2>5. NextKey(r) < NextKey(q)
    BY <2>1, <2>3, <2>4, WaitsUpwards
  <2> QED
    BY <2>1, <2>2, <2>5
<1> QED
  BY <1>1, TypeInvariant, PTL
=============================================================================
