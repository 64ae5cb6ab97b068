---------------------------- MODULE SumTheorems ----------------------------
(***************************************************************************)
(* Facts about SumFunctionOnSet, the sum of a function's values over a     *)
(* finite set, in which the ledger is told.  The sum is a fold: a function *)
(* that is defined by recursion over the subsets of the set, which exists  *)
(* and is the only one.                                                    *)
(***************************************************************************)
EXTENDS Functions, Induction

(* The element that the fold takes out of s.                               *)
Pick(s) == CHOOSE x \in s : TRUE

(* it is the recursion of the fold on the sets in D.                       *)
IsFold(it, fun, D) ==
    it = [s \in D |-> IF s = {} THEN 0 ELSE fun[Pick(s)] + it[s \ {Pick(s)}]]

-----------------------------------------------------------------------------
(* What is taken out of a finite set leaves a smaller one.                 *)
LEMMA PickProperties ==
    ASSUME NEW S, IsFiniteSet(S), S # {}
    PROVE  /\ Pick(S) \in S
           /\ IsFiniteSet(S \ {Pick(S)})
           /\ Cardinality(S) \in Nat /\ Cardinality(S \ {Pick(S)}) \in Nat
           /\ Cardinality(S \ {Pick(S)}) < Cardinality(S)
<1>1. Pick(S) \in S
  BY DEF Pick
<1>2. /\ IsFiniteSet(S \ {Pick(S)})
      /\ Cardinality(S \ {Pick(S)}) = Cardinality(S) - 1
  BY <1>1, FS_RemoveElement
<1>3. Cardinality(S) \in Nat /\ Cardinality(S \ {Pick(S)}) \in Nat
  BY <1>2, FS_CardinalityType
<1> QED
  BY <1>1, <1>2, <1>3

(* The recursion has a solution: it is built up by the size of the sets.   *)
LEMMA FoldExists ==
    ASSUME NEW fun, NEW S, IsFiniteSet(S)
    PROVE  \E it : IsFold(it, fun, SUBSET S)
<1> DEFINE D(n) == {s \in SUBSET S : Cardinality(s) <= n}
           bad == {n \in Nat : ~ \E it : IsFold(it, fun, D(n))}
<1>0. \A s \in SUBSET S : IsFiniteSet(s) /\ Cardinality(s) \in Nat
                              /\ Cardinality(s) <= Cardinality(S)
  BY FS_Subset, FS_CardinalityType
<1>1. ASSUME bad # {} PROVE FALSE
  <2>1. PICK n \in bad : \A m \in bad : n <= m
    <3>1. bad \subseteq Nat
      OBVIOUS
    <3> HIDE DEF bad
    <3> QED
      BY <1>1, <3>1, LeastNat
  <2>2. n # 0
    <3> SUFFICES ASSUME n = 0 PROVE FALSE
      OBVIOUS
    <3> DEFINE zero == [s \in D(0) |-> 0]
    <3>1. \A s \in D(0) : s = {}
      BY <1>0, FS_EmptySet
    <3>2. IsFold(zero, fun, D(0))
      BY <3>1 DEF IsFold
    <3> QED
      BY <3>2
  <2>3. PICK it : IsFold(it, fun, D(n - 1))
    BY <2>1, <2>2
  <2> DEFINE next == [s \in D(n) |->
                        IF s = {} THEN 0 ELSE fun[Pick(s)] + it[s \ {Pick(s)}]]
  <2>4. \A s \in D(n) : s # {} => s \ {Pick(s)} \in D(n - 1)
    <3> SUFFICES ASSUME NEW s \in D(n), s # {} PROVE s \ {Pick(s)} \in D(n - 1)
      OBVIOUS
    <3> QED
      BY <1>0, PickProperties
  <2>5. \A s \in D(n - 1) : s \in D(n) /\ next[s] = it[s]
    <3> SUFFICES ASSUME NEW s \in D(n - 1) PROVE s \in D(n) /\ next[s] = it[s]
      OBVIOUS
    <3>1. s \in D(n)
      BY <1>0
    <3>2. it[s] = IF s = {} THEN 0 ELSE fun[Pick(s)] + it[s \ {Pick(s)}]
      BY <2>3 DEF IsFold
    <3> QED
      BY <3>1, <3>2
  <2>6. next = [s \in D(n) |->
                  IF s = {} THEN 0 ELSE fun[Pick(s)] + next[s \ {Pick(s)}]]
    BY <2>4, <2>5
  <2>7. IsFold(next, fun, D(n))
    BY <2>6 DEF IsFold
  <2> QED
    BY <2>7
<1>2. D(Cardinality(S)) = SUBSET S
  BY <1>0
<1>3. Cardinality(S) \in Nat
  BY FS_CardinalityType
<1> QED
  BY <1>1, <1>2, <1>3

(* Two solutions agree where both are defined.                             *)
LEMMA FoldUnique ==
    ASSUME NEW fun, NEW S, IsFiniteSet(S), NEW T \in SUBSET S,
           NEW f, NEW g, IsFold(f, fun, SUBSET S), IsFold(g, fun, SUBSET T)
    PROVE  f[T] = g[T]
<1> DEFINE bad == {s \in SUBSET T : f[s] # g[s]}
<1> SUFFICES ASSUME bad # {} PROVE FALSE
  OBVIOUS
<1>1. PICK s \in bad : /\ Cardinality(s) \in Nat
                       /\ \A t \in bad : Cardinality(s) <= Cardinality(t)
  <2>1. \A t \in bad : IsFiniteSet(t)
    BY FS_Subset
  <2> HIDE DEF bad
  <2> QED
    BY <2>1, SmallestSet
<1>2. s \in SUBSET T /\ s \in SUBSET S /\ IsFiniteSet(s)
  BY FS_Subset
<1>3. /\ f[s] = IF s = {} THEN 0 ELSE fun[Pick(s)] + f[s \ {Pick(s)}]
      /\ g[s] = IF s = {} THEN 0 ELSE fun[Pick(s)] + g[s \ {Pick(s)}]
  BY <1>2 DEF IsFold
<1>4. CASE s # {}
  <2>1. f[s \ {Pick(s)}] = g[s \ {Pick(s)}]
    BY <1>1, <1>2, <1>4, PickProperties
  <2> QED
    BY <1>3, <2>1
<1> QED
  BY <1>3, <1>4

(* The library's sum is the solution at the set itself.                    *)
LEMMA SumIsFold ==
    ASSUME NEW fun, NEW S, IsFiniteSet(S)
    PROVE  \E it : IsFold(it, fun, SUBSET S) /\ SumFunctionOnSet(fun, S) = it[S]
<1> DEFINE it == CHOOSE f : IsFold(f, fun, SUBSET S)
<1>1. SumFunctionOnSet(fun, S) = it[S]
  BY DEF SumFunctionOnSet, FoldFunctionOnSet, MapThenFoldSet, IsFold, Pick
<1>2. IsFold(it, fun, SUBSET S)
  BY FoldExists
<1> QED
  BY <1>1, <1>2

-----------------------------------------------------------------------------
(* The sum of nothing is 0.                                                *)
THEOREM SumEmpty == ASSUME NEW fun PROVE SumFunctionOnSet(fun, {}) = 0
<1>1. PICK it : IsFold(it, fun, SUBSET {}) /\ SumFunctionOnSet(fun, {}) = it[{}]
  BY SumIsFold, FS_EmptySet
<1> QED
  BY <1>1 DEF IsFold

(* The sum takes one element out, and goes on with the rest.               *)
LEMMA SumPick ==
    ASSUME NEW fun, NEW S, IsFiniteSet(S), S # {}
    PROVE  SumFunctionOnSet(fun, S) =
              fun[Pick(S)] + SumFunctionOnSet(fun, S \ {Pick(S)})
<1> DEFINE T == S \ {Pick(S)}
<1>1. PICK f : IsFold(f, fun, SUBSET S) /\ SumFunctionOnSet(fun, S) = f[S]
  BY SumIsFold
<1>2. IsFiniteSet(T)
  BY PickProperties
<1>3. PICK g : IsFold(g, fun, SUBSET T) /\ SumFunctionOnSet(fun, T) = g[T]
  BY <1>2, SumIsFold
<1>4. f[T] = g[T]
  <2>1. T \in SUBSET S
    OBVIOUS
  <2>2. IsFold(f, fun, SUBSET S) /\ IsFold(g, fun, SUBSET T)
    BY <1>1, <1>3
  <2> HIDE DEF T
  <2> QED
    BY <2>1, <2>2, FoldUnique
<1>5. f[S] = fun[Pick(S)] + f[T]
  BY <1>1 DEF IsFold
<1> QED
  BY <1>1, <1>3, <1>4, <1>5

(* The sum of integers is an integer, and of naturals a natural.           *)
THEOREM SumType ==
    ASSUME NEW fun, NEW S, IsFiniteSet(S), \A s \in S : fun[s] \in Int
    PROVE  SumFunctionOnSet(fun, S) \in Int
<1> DEFINE bad == {s \in SUBSET S : SumFunctionOnSet(fun, s) \notin Int}
<1> SUFFICES ASSUME bad # {} PROVE FALSE
  OBVIOUS
<1>1. PICK s \in bad : /\ Cardinality(s) \in Nat
                       /\ \A t \in bad : Cardinality(s) <= Cardinality(t)
  <2>1. \A t \in bad : IsFiniteSet(t)
    BY FS_Subset
  <2> HIDE DEF bad
  <2> QED
    BY <2>1, SmallestSet
<1>2. s \in SUBSET S /\ IsFiniteSet(s) /\ SumFunctionOnSet(fun, s) \notin Int
  BY FS_Subset
<1>3. s # {}
  BY <1>2, SumEmpty
<1>4. SumFunctionOnSet(fun, s \ {Pick(s)}) \in Int
  BY <1>1, <1>2, <1>3, PickProperties
<1> QED
  BY <1>2, <1>3, <1>4, SumPick, PickProperties

(* Any element may be taken out first: the order makes no difference.      *)
THEOREM SumRemove ==
    ASSUME NEW fun, NEW S, IsFiniteSet(S), \A s \in S : fun[s] \in Int,
           NEW x \in S
    PROVE  SumFunctionOnSet(fun, S) = fun[x] + SumFunctionOnSet(fun, S \ {x})
<1> DEFINE sum(s) == SumFunctionOnSet(fun, s)
           bad == {s \in SUBSET S : \E y \in s : sum(s) # fun[y] + sum(s \ {y})}
<1> SUFFICES ASSUME bad # {} PROVE FALSE
  OBVIOUS
<1>1. PICK s \in bad : /\ Cardinality(s) \in Nat
                       /\ \A t \in bad : Cardinality(s) <= Cardinality(t)
  <2>1. \A t \in bad : IsFiniteSet(t)
    BY FS_Subset
  <2> HIDE DEF bad
  <2> QED
    BY <2>1, SmallestSet
<1>2. s \in SUBSET S /\ IsFiniteSet(s)
  BY FS_Subset
<1>3. PICK y \in s : sum(s) # fun[y] + sum(s \ {y})
  OBVIOUS
<1> DEFINE p == Pick(s)
<1>4. p \in s /\ sum(s) = fun[p] + sum(s \ {p})
  BY <1>2, <1>3, SumPick, PickProperties
<1>5. p # y
  BY <1>3, <1>4
<1>6. \A z \in s : s \ {z} \in SUBSET S /\ s \ {z} \notin bad
                       /\ sum((s \ {z}) \ {p}) \in Int
                       /\ IsFiniteSet(s \ {z})
  <2> SUFFICES ASSUME NEW z \in s
               PROVE  s \ {z} \in SUBSET S /\ s \ {z} \notin bad
                        /\ sum((s \ {z}) \ {p}) \in Int
                        /\ IsFiniteSet(s \ {z})
    OBVIOUS
  <2>1. IsFiniteSet(s \ {z}) /\ Cardinality(s \ {z}) = Cardinality(s) - 1
    BY <1>2, FS_RemoveElement
  <2>2. IsFiniteSet((s \ {z}) \ {p})
    BY <2>1, FS_RemoveElement
  <2>3. sum((s \ {z}) \ {p}) \in Int
    <3>1. \A t \in (s \ {z}) \ {p} : fun[t] \in Int
      BY <1>2
    <3> HIDE DEF p
    <3> QED
      BY <2>2, <3>1, SumType
  <2> QED
    BY <1>1, <1>2, <2>1, <2>3
<1>7. sum(s \ {p}) = fun[y] + sum((s \ {p}) \ {y})
  BY <1>3, <1>4, <1>5, <1>6
<1>8. sum(s \ {y}) = fun[p] + sum((s \ {y}) \ {p})
  BY <1>3, <1>4, <1>5, <1>6
<1>9. (s \ {p}) \ {y} = (s \ {y}) \ {p}
  OBVIOUS
<1>10. fun[p] \in Int /\ fun[y] \in Int /\ sum((s \ {y}) \ {p}) \in Int
  BY <1>2, <1>3, <1>4, <1>6
<1> DEFINE rest == sum((s \ {y}) \ {p})
<1>11. /\ sum(s) = fun[p] + (fun[y] + rest)
       /\ sum(s \ {y}) = fun[p] + rest
  BY <1>4, <1>7, <1>8, <1>9
<1>12. sum(s) # fun[y] + (fun[p] + rest)
  BY <1>3, <1>11
<1> HIDE DEF p, rest
<1> QED
  BY <1>10, <1>11, <1>12 DEF rest

(* One more element adds its value.                                        *)
THEOREM SumAdd ==
    ASSUME NEW fun, NEW S, IsFiniteSet(S), NEW x, x \notin S,
           \A s \in S \cup {x} : fun[s] \in Int
    PROVE  SumFunctionOnSet(fun, S \cup {x}) = fun[x] + SumFunctionOnSet(fun, S)
<1>1. IsFiniteSet(S \cup {x}) /\ (S \cup {x}) \ {x} = S
  BY FS_AddElement
<1> QED
  BY <1>1, SumRemove

(* The sum is a matter of the values on the set alone.                     *)
THEOREM SumSame ==
    ASSUME NEW f, NEW g, NEW S, IsFiniteSet(S), \A s \in S : f[s] = g[s]
    PROVE  SumFunctionOnSet(f, S) = SumFunctionOnSet(g, S)
<1>1. PICK it : IsFold(it, f, SUBSET S) /\ SumFunctionOnSet(f, S) = it[S]
  BY SumIsFold
<1>2. PICK jt : IsFold(jt, g, SUBSET S) /\ SumFunctionOnSet(g, S) = jt[S]
  BY SumIsFold
<1>3. IsFold(it, g, SUBSET S)
  <2>1. \A s \in SUBSET S : s # {} => f[Pick(s)] = g[Pick(s)]
    BY DEF Pick
  <2> QED
    BY <1>1, <2>1 DEF IsFold
<1>4. S \in SUBSET S
  OBVIOUS
<1>5. it[S] = jt[S]
  BY <1>2, <1>3, <1>4, FoldUnique
<1> QED
  BY <1>1, <1>2, <1>5

(* A change of one value changes the sum by as much.                       *)
THEOREM SumChange ==
    ASSUME NEW f, NEW g, NEW S, IsFiniteSet(S), NEW x \in S,
           \A s \in S : f[s] \in Int /\ g[s] \in Int,
           \A s \in S \ {x} : f[s] = g[s]
    PROVE  SumFunctionOnSet(g, S) = SumFunctionOnSet(f, S) - f[x] + g[x]
<1> DEFINE R == S \ {x}
<1>1. IsFiniteSet(R)
  BY FS_RemoveElement
<1>2. SumFunctionOnSet(f, R) = SumFunctionOnSet(g, R)
  BY <1>1, SumSame
<1>3. SumFunctionOnSet(f, R) \in Int
  <2>1. \A s \in R : f[s] \in Int
    OBVIOUS
  <2> HIDE DEF R
  <2> QED
    BY <1>1, <2>1, SumType
<1>4. SumFunctionOnSet(f, S) = f[x] + SumFunctionOnSet(f, R)
  BY SumRemove
<1>5. SumFunctionOnSet(g, S) = g[x] + SumFunctionOnSet(g, R)
  BY SumRemove
<1> HIDE DEF R
<1> QED
  BY <1>2, <1>3, <1>4, <1>5
=============================================================================
