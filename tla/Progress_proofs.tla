--------------------------- MODULE Progress_proofs ---------------------------
(***************************************************************************)
(* What can be proved of the service's progress without fairness: whatever *)
(* the calls wait for, somebody can go on.                                 *)
(***************************************************************************)
EXTENDS BankingSystem_proofs

(* Whoever holds a row that another call waits for is past its first read. *)
LEMMA WaitedForHolds ==
    ASSUME IsolationInv, NEW r \in Request, NEW q \in Request, WaitsFor(r, q)
    PROVE  pc[q] \in {"receiver", "commit"}
<1>1. rowLocks[q] # {}
  BY DEF WaitsFor
<1> QED
  BY <1>1 DEF IsolationInv, SessionShape, LockedRows

(* A row that is taken is taken by a call.                                 *)
LEMMA TakenByAnother ==
    ASSUME NEW r \in Request, RowTaken(r)
    PROVE  \E q \in Request : WaitsFor(r, q)
BY DEF RowTaken, RowFree, WaitsFor

(* If each of finitely many calls waits for another of them, some of them  *)
(* wait in a cycle: the fewest that wait for one another.                  *)
LEMMA WaitingEndsInCycle ==
    ASSUME NEW T \in SUBSET Request, IsFiniteSet(T), T # {},
           \A r \in T : \E q \in T : WaitsFor(r, q)
    PROVE  \E S \in SUBSET T : WaitCycle(S)
<1> DEFINE Closed(S) == S # {} /\ \A r \in S : \E q \in S : WaitsFor(r, q)
           F == {S \in SUBSET T : Closed(S)}
<1>1. T \in F
  OBVIOUS
<1>2. \A S \in F : IsFiniteSet(S)
  BY FS_Subset
<1>3. PICK S \in F : \A U \in F : Cardinality(S) <= Cardinality(U)
  <2> HIDE DEF F
  <2> QED
    BY <1>1, <1>2, SmallestSet
<1>4. ASSUME NEW q \in S PROVE \E r \in S : WaitsFor(r, q)
  <2> SUFFICES ASSUME \A r \in S : ~WaitsFor(r, q)
               PROVE  FALSE
    OBVIOUS
  <2>1. PICK p \in S : WaitsFor(q, p)
    BY <1>3
  <2>2. p # q
    BY <2>1 DEF WaitsFor
  <2>3. S \ {q} \in F
    BY <1>3, <2>1, <2>2
  <2>4. Cardinality(S \ {q}) = Cardinality(S) - 1 /\ Cardinality(S) \in Nat
    BY <1>2, <1>3, <1>4, FS_RemoveElement, FS_CardinalityType
  <2>5. Cardinality(S) <= Cardinality(S \ {q})
    <3> HIDE DEF F
    <3> QED
      BY <1>3, <2>3
  <2> QED
    BY <2>4, <2>5
<1>5. WaitCycle(S)
  BY <1>3, <1>4 DEF WaitCycle
<1> QED
  BY <1>3, <1>5

(* Whatever fails and whichever keys lapse, the calls that wait for rows   *)
(* have somebody to wait for who can go on, or one of them is aborted: no  *)
(* ended call keeps a row, and a cycle is Postgres' to resolve.  The calls *)
(* in progress are finitely many.                                          *)
THEOREM AlwaysSomebody ==
    ASSUME IsFiniteSet(Request)
    PROVE  Spec => []NobodyStuck
<1>1. IsolationInv => NobodyStuck
  <2> SUFFICES ASSUME IsolationInv,
                      NEW S \in SUBSET {r \in Request : ~Ended(r)}, S # {},
                      \A r \in S : ~MayProceed(r),
                      \A r \in S : \A q \in Request \ S :
                          ~(WaitsFor(r, q) /\ ~Ended(q))
               PROVE  FALSE
    BY DEF NobodyStuck
  <2> DEFINE T == {r \in S : pc[r] = "receiver"}
  <2>1. ASSUME NEW r \in S PROVE \E q \in T : WaitsFor(r, q)
    <3>1. RowTaken(r)
      BY DEF MayProceed
    <3>2. PICK q \in Request : WaitsFor(r, q)
      BY <3>1, TakenByAnother
    <3>3. pc[q] \in {"receiver", "commit"}
      BY <3>2, WaitedForHolds
    <3>4. q \in S
      BY <3>2, <3>3 DEF Ended
    <3>5. RowTaken(q)
      BY <3>4 DEF MayProceed
    <3> QED
      BY <3>2, <3>3, <3>4, <3>5 DEF RowTaken
  <2>2. T # {} /\ T \in SUBSET Request /\ IsFiniteSet(T)
    BY <2>1, FS_Subset
  <2>3. PICK C \in SUBSET T : WaitCycle(C)
    <3>1. \A r \in T : \E q \in T : WaitsFor(r, q)
      BY <2>1
    <3> HIDE DEF T
    <3> QED
      BY <2>2, <3>1, WaitingEndsInCycle
  <2>4. PICK r \in C : r \in S
    BY <2>3 DEF WaitCycle
  <2>5. MayProceed(r)
    BY <2>3, <2>4 DEF MayProceed
  <2> QED
    BY <2>4, <2>5
<1> QED
  BY <1>1, IsolationInvariant, PTL
=============================================================================
