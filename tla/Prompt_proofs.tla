---------------------------- MODULE Prompt_proofs ----------------------------
(***************************************************************************)
(* What a model is given: the context that the governor of the recursive   *)
(* kernel packs, for every goal, every budget, every piece of generated    *)
(* code and any number of runs and of tasks left over; and the tools that  *)
(* the search finds, for every weight and every edit of the manifests.     *)
(***************************************************************************)
EXTENDS RlmKernel, ToolSearch, FiniteSetTheorems, SequenceTheorems, TLAPS

-----------------------------------------------------------------------------
(* Recursion                                                               *)

\* What holds of 0 and passes on holds up to n.
LEMMA UpTo ==
  ASSUME NEW n \in Nat, NEW S, 0 \in S, \A k \in 1..n : k - 1 \in S => k \in S
  PROVE  0..n \subseteq S
  <1>. SUFFICES ASSUME NEW i \in 0..n, i \notin S PROVE FALSE
    OBVIOUS
  <1>. DEFINE B == {k \in 0..n : k \notin S}
  <1>1. B \subseteq Nat /\ i \in B
    OBVIOUS
  <1>2. \A k \in 0..n : k \notin B => k \in S
    OBVIOUS
  <1>3. B \subseteq 0..n /\ \A k \in B : k \notin S
    OBVIOUS
  <1>. HIDE DEF B
  <1>. DEFINE R == {p \in Nat \X Nat : p[1] < p[2]}
  <1>0. IsWellFoundedOn(R, Nat)
    BY NatLessThanWellFounded, Zenon DEF OpToRel
  <1>. HIDE DEF R
  <1>4. PICK m \in B : \A k \in B : <<k, m>> \notin R
    BY <1>0, <1>1, WFMin
  <1>5. m \in 0..n /\ m \notin S /\ m \in Nat
    BY <1>3, <1>4
  <1>6. \A k \in 0..n : k < m => k \in S
    <2>. TAKE k \in 0..n
    <2>. HAVE k < m
    <2>1. <<k, m>> \in R
      BY <1>5 DEF R
    <2>. QED
      BY <1>2, <1>4, <2>1
  <1>7. m - 1 \in 0..n /\ m - 1 < m /\ m \in 1..n
    BY <1>5
  <1>. QED
    BY <1>5, <1>6, <1>7

\* f begins with base and takes a step to each next value.
Follows(f, base, step, n) ==
  f[0] = base /\ \A k \in 1..n : f[k] = step[<<f[k - 1], k>>]

LEMMA Recursion ==
  ASSUME NEW T, NEW base \in T, NEW n \in Nat, NEW step \in [T \X (1..n) -> T]
  PROVE  \E f \in [0..n -> T] : Follows(f, base, step, n)
  <1>. DEFINE S == {k \in 0..n : \E f \in [0..k -> T] : Follows(f, base, step, k)}
  <1>1. 0 \in S
    <2>. DEFINE f == [i \in 0..0 |-> base]
    <2>1. f \in [0..0 -> T] /\ Follows(f, base, step, 0)
      BY DEF Follows
    <2>. HIDE DEF f
    <2>. QED
      BY <2>1
  <1>2. ASSUME NEW k \in 1..n, k - 1 \in S PROVE k \in S
    <2>1. PICK f \in [0..(k - 1) -> T] : Follows(f, base, step, k - 1)
      BY <1>2
    <2>2. k - 1 \in 0..(k - 1) /\ f[k - 1] \in T /\ step[<<f[k - 1], k>>] \in T
      BY <2>1
    <2>. DEFINE g == [i \in 0..k |-> IF i = k THEN step[<<f[k - 1], k>>] ELSE f[i]]
    <2>3. \A i \in 0..k : g[i] = IF i = k THEN step[<<f[k - 1], k>>] ELSE f[i]
      OBVIOUS
    <2>4. g \in [0..k -> T]
      BY <2>1, <2>2
    <2>. HIDE DEF g
    <2>5. g[0] = base
      BY <2>1, <2>3 DEF Follows
    <2>6. \A i \in 1..k : g[i] = step[<<g[i - 1], i>>]
      <3>. TAKE i \in 1..k
      <3>1. i - 1 \in 0..k /\ i - 1 # k /\ g[i - 1] = f[i - 1]
        BY <2>3
      <3>2. CASE i = k
        <4>0. k \in 0..k
          OBVIOUS
        <4>1. g[k] = step[<<f[k - 1], k>>]
          BY <2>3, <4>0
        <4>2. g[k - 1] = f[k - 1]
          BY <3>1, <3>2
        <4>. QED
          BY <3>2, <4>1, <4>2
      <3>3. CASE i # k
        <4>1. i \in 1..(k - 1) /\ g[i] = f[i]
          BY <2>3, <3>3
        <4>2. f[i] = step[<<f[i - 1], i>>]
          BY <2>1, <4>1 DEF Follows
        <4>. QED
          BY <3>1, <4>1, <4>2
      <3>. QED
        BY <3>2, <3>3
    <2>7. Follows(g, base, step, k)
      BY <2>5, <2>6 DEF Follows
    <2>. QED
      BY <2>4, <2>7
  <1>. HIDE DEF S
  <1>3. n \in S
    BY <1>1, <1>2, UpTo
  <1>. QED
    BY <1>3 DEF S

-----------------------------------------------------------------------------
(* What is sorted and what is picked                                        *)

\* R is an order of S.
Orders(R, S) ==
  /\ \A x \in S : <<x, x>> \notin R
  /\ \A x, y \in S : x = y \/ <<x, y>> \in R \/ <<y, x>> \in R
  /\ \A x, y, z \in S : <<x, y>> \in R /\ <<y, z>> \in R => <<x, z>> \in R

\* Whoever has as few in front of it as another has the same ones.
LEMMA RankedIsInOrder ==
  ASSUME NEW S, IsFiniteSet(S), NEW R, Orders(R, S), NEW r, r = Ranked(S, R)
  PROVE  /\ Cardinality(S) \in Nat /\ r \in Seq(S) /\ Len(r) = Cardinality(S)
         /\ DOMAIN r = 1..Cardinality(S)
         /\ \A x \in S : \E n \in DOMAIN r : r[n] = x
         /\ \A m, n \in DOMAIN r : m < n => <<r[m], r[n]>> \in R /\ r[m] # r[n]
  <1>. DEFINE In(x) == {y \in S : <<y, x>> \in R}
  <1>1. PICK N \in Nat : N = Cardinality(S)
    BY FS_CardinalityType
  <1>2. \A x \in S : IsFiniteSet(In(x)) /\ Cardinality(In(x)) \in Nat /\ Cardinality(In(x)) < N
    <2>. TAKE x \in S
    <2>1. In(x) \subseteq S /\ x \notin In(x)
      BY DEF Orders
    <2>2. PICK T : T = In(x)
      OBVIOUS
    <2>3. /\ IsFiniteSet(T) /\ Cardinality(T) <= Cardinality(S)
          /\ Cardinality(S) = Cardinality(T) => S = T
      BY <2>1, <2>2, FS_Subset
    <2>4. Cardinality(T) \in Nat
      BY <2>3, FS_CardinalityType
    <2>. QED
      BY <1>1, <2>1, <2>2, <2>3, <2>4
  <1>3. \A x, y \in S : <<x, y>> \in R => Cardinality(In(x)) < Cardinality(In(y))
    <2>. SUFFICES ASSUME NEW x \in S, NEW y \in S, <<x, y>> \in R
                  PROVE  Cardinality(In(x)) < Cardinality(In(y))
      OBVIOUS
    <2>1. In(x) \subseteq In(y) /\ x \in In(y) /\ x \notin In(x)
      BY DEF Orders
    <2>2. PICK T : T = In(x)
      OBVIOUS
    <2>3. PICK U : U = In(y)
      OBVIOUS
    <2>4. IsFiniteSet(U) /\ Cardinality(U) \in Nat /\ Cardinality(T) \in Nat
      BY <1>2, <2>2, <2>3
    <2>5. /\ Cardinality(T) <= Cardinality(U)
          /\ Cardinality(U) = Cardinality(T) => U = T
      BY <2>1, <2>2, <2>3, <2>4, FS_Subset
    <2>. QED
      BY <2>1, <2>2, <2>3, <2>4, <2>5
  <1>4. \A x, y \in S : Cardinality(In(x)) = Cardinality(In(y)) => x = y
    <2>. SUFFICES ASSUME NEW x \in S, NEW y \in S, Cardinality(In(x)) = Cardinality(In(y)), x # y
                  PROVE  FALSE
      OBVIOUS
    <2>1. <<x, y>> \in R \/ <<y, x>> \in R
      BY DEF Orders
    <2>2. Cardinality(In(x)) < Cardinality(In(y)) \/ Cardinality(In(y)) < Cardinality(In(x))
      BY <1>3, <2>1
    <2>3. Cardinality(In(x)) \in Nat /\ Cardinality(In(y)) \in Nat
      BY <1>2
    <2>. QED
      BY <2>2, <2>3
  <1>. DEFINE place == [x \in S |-> Cardinality(In(x)) + 1]
  <1>5. \A n \in 1..N : \E x \in S : Cardinality(In(x)) = n - 1
    <2>1. \A x \in S : place[x] \in 1..N
      <3>. TAKE x \in S
      <3>1. PICK a \in Nat : a = Cardinality(In(x))
        BY <1>2
      <3>2. a < N /\ place[x] = a + 1
        BY <1>2, <3>1
      <3>. QED
        BY <1>1, <3>1, <3>2
    <2>2. \A x, y \in S : place[x] = place[y] => x = y
      <3>. SUFFICES ASSUME NEW x \in S, NEW y \in S, place[x] = place[y] PROVE x = y
        OBVIOUS
      <3>1. PICK a \in Nat : a = Cardinality(In(x))
        BY <1>2
      <3>2. PICK b \in Nat : b = Cardinality(In(y))
        BY <1>2
      <3>3. place[x] = a + 1 /\ place[y] = b + 1
        BY <3>1, <3>2
      <3>4. a = b
        BY <3>3
      <3>. QED
        BY <1>4, <3>1, <3>2, <3>4
    <2>3. PICK p : p = place
      OBVIOUS
    <2>4. p \in Injection(S, 1..N)
      BY <2>1, <2>2, <2>3 DEF Injection, IsInjective
    <2>5. IsFiniteSet(1..N) /\ Cardinality(1..N) = N
      BY <1>1, FS_Interval
    <2>6. p \in Surjection(S, 1..N)
      BY <1>1, <2>4, <2>5, FS_Injection
    <2>7. \A n \in 1..N : \E x \in S : p[x] = n
      BY <2>6 DEF Surjection
    <2>. TAKE n \in 1..N
    <2>8. PICK x \in S : p[x] = n
      BY <2>7
    <2>9. PICK a \in Nat : a = Cardinality(In(x))
      BY <1>2
    <2>10. a + 1 = n
      BY <2>3, <2>8, <2>9
    <2>11. a = n - 1
      BY <2>10
    <2>. QED
      BY <2>9, <2>11
  <1>6. DOMAIN r = 1..N /\ \A n \in 1..N : r[n] = CHOOSE x \in S : Cardinality(In(x)) = n - 1
    BY <1>1 DEF Ranked
  <1>. HIDE DEF place, In
  <1>7. \A n \in 1..N : r[n] \in S /\ Cardinality(In(r[n])) = n - 1
    BY <1>5, <1>6
  <1>8. r \in Seq(S) /\ Len(r) = N
    <2>1. r = [n \in 1..N |-> r[n]]
      BY <1>6 DEF Ranked
    <2>2. r \in [1..N -> S]
      BY <1>7, <2>1
    <2>. QED
      BY <2>2
  <1>9. \A x \in S : \E n \in 1..N : r[n] = x
    <2>. TAKE x \in S
    <2>1. PICK n \in Nat : n = Cardinality(In(x)) + 1
      BY <1>2
    <2>2. n \in 1..N /\ n - 1 = Cardinality(In(x))
      BY <1>1, <1>2, <2>1
    <2>3. r[n] = x
      BY <1>4, <1>7, <2>2
    <2>. QED
      BY <2>2, <2>3
  <1>10. ASSUME NEW m \in 1..N, NEW n \in 1..N, m < n
         PROVE  <<r[m], r[n]>> \in R /\ r[m] # r[n]
    <2>1. /\ r[m] \in S /\ Cardinality(In(r[m])) = m - 1
          /\ r[n] \in S /\ Cardinality(In(r[n])) = n - 1
      BY <1>7
    <2>2. r[m] # r[n] /\ ~(n - 1 < m - 1)
      BY <1>10, <2>1
    <2>3. <<r[n], r[m]>> \notin R
      BY <1>3, <2>1, <2>2
    <2>. QED
      BY <2>1, <2>2, <2>3 DEF Orders
  <1>. QED
    BY <1>1, <1>6, <1>8, <1>9, <1>10

\* p has the elements of s at the places I, the n-th of them that of the place from[n].
PickedAt(p, s, I, from) ==
  /\ from \in [1..Len(p) -> I]
  /\ \A n \in 1..Len(p) : p[n] = s[from[n]]
  /\ \A m, n \in 1..Len(p) : m < n => from[m] < from[n]
  /\ \A i \in I : \E n \in 1..Len(p) : from[n] = i

\* What is picked from a sequence are its elements at those places, in their order.
LEMMA PickedAre ==
  ASSUME NEW T, NEW s \in Seq(T), NEW I \in SUBSET (DOMAIN s), NEW p, p = Picked(s, I)
  PROVE  /\ p \in Seq(T) /\ Len(p) \in Nat /\ DOMAIN p = 1..Len(p)
         /\ \E from : PickedAt(p, s, I, from)
  <1>1. I \subseteq 1..Len(s) /\ Len(s) \in Nat /\ I \subseteq Nat
    OBVIOUS
  <1>2. IsFiniteSet(I)
    <2>1. IsFiniteSet(1..Len(s))
      BY <1>1, FS_Interval
    <2>. QED
      BY <1>1, <2>1, FS_Subset
  <1>3. Orders(Ascending(I), I)
    BY <1>1 DEF Orders, Ascending
  <1>4. PICK from : from = Ranked(I, Ascending(I))
    OBVIOUS
  <1>5. PICK N \in Nat : N = Cardinality(I)
    BY <1>2, FS_CardinalityType
  <1>6. /\ from \in Seq(I) /\ Len(from) = N /\ DOMAIN from = 1..N
        /\ \A x \in I : \E n \in DOMAIN from : from[n] = x
        /\ \A m, n \in DOMAIN from : m < n => <<from[m], from[n]>> \in Ascending(I)
    BY <1>2, <1>3, <1>4, <1>5, RankedIsInOrder
  <1>7. p = [n \in 1..N |-> s[from[n]]] /\ \A n \in 1..N : from[n] \in I
    BY <1>4, <1>6 DEF Picked
  <1>8. p \in Seq(T) /\ Len(p) = N
    <2>1. \A n \in 1..N : s[from[n]] \in T
      BY <1>7
    <2>2. p \in [1..N -> T]
      BY <1>7, <2>1
    <2>. QED
      BY <2>2
  <1>9. from \in [1..N -> I] /\ \A m, n \in 1..N : m < n => from[m] < from[n]
    <2>1. from \in [1..N -> I]
      BY <1>6
    <2>2. \A x, y : <<x, y>> \in Ascending(I) => x < y
      BY DEF Ascending
    <2>. QED
      BY <1>6, <2>1, <2>2
  <1>10. PickedAt(p, s, I, from)
    BY <1>6, <1>7, <1>8, <1>9 DEF PickedAt
  <1>. QED
    BY <1>8, <1>10

-----------------------------------------------------------------------------
(* The budget                                                              *)

\* A task is of a map and waits, asks or has ended.
TaskType == [map : Nat, index : Nat, at : {"wait", "model", "done", "raised"}]

\* Every call that goes out is counted first.
BudgetInv ==
  /\ subcalls \in Nat /\ reached \in Nat /\ maps \in Nat
  /\ reached <= subcalls /\ reached <= MaxSubcalls
  /\ tasks \subseteq TaskType /\ IsFiniteSet(InModel)
  /\ Cardinality(InModel) <= MaxParallel

LEMMA BudgetInit == Init => BudgetInv
  <1>. SUFFICES ASSUME Init PROVE BudgetInv
    OBVIOUS
  <1>1. tasks = {} /\ InModel = {}
    BY DEF Init, InModel
  <1>2. IsFiniteSet(InModel) /\ Cardinality(InModel) = 0
    BY <1>1, FS_EmptySet
  <1>. QED
    BY <1>1, <1>2, KernelAssumption DEF Init, BudgetInv

\* Fewer tasks at the model are no more than allowed.
LEMMA FewerInModel ==
  ASSUME BudgetInv, InModel' \subseteq InModel
  PROVE  IsFiniteSet(InModel') /\ Cardinality(InModel') <= MaxParallel
  <1>1. IsFiniteSet(InModel') /\ Cardinality(InModel') <= Cardinality(InModel)
    BY FS_Subset DEF BudgetInv
  <1>2. Cardinality(InModel') \in Nat /\ Cardinality(InModel) \in Nat
    BY <1>1, FS_CardinalityType DEF BudgetInv
  <1>. QED
    BY <1>1, <1>2, KernelAssumption DEF BudgetInv

\* What Moved makes of the tasks: those there were, without t, and t where it went.
LEMMA MovedTasks ==
  ASSUME BudgetInv, NEW t \in tasks, NEW to \in {"model", "done", "raised"}, tasks' = Moved(t, to)
  PROVE  /\ tasks' \subseteq TaskType
         /\ to # "model" => InModel' \subseteq InModel
         /\ to = "model" => InModel' \subseteq InModel \cup {[t EXCEPT !.at = "model"]}
  <1>1. PICK u : u = [t EXCEPT !.at = to]
    OBVIOUS
  <1>2. t \in TaskType
    BY DEF BudgetInv
  <1>3. u \in TaskType /\ u.at = to
    BY <1>1, <1>2 DEF TaskType
  <1>4. tasks' \subseteq tasks \cup {u}
    BY <1>1 DEF Moved
  <1>. QED
    BY <1>1, <1>3, <1>4 DEF BudgetInv, InModel

LEMMA BudgetStep == BudgetInv /\ [Next]_vars => BudgetInv'
  <1>. SUFFICES ASSUME BudgetInv, [Next]_vars PROVE BudgetInv'
    OBVIOUS
  <1>1. CASE Begins
    <2>1. InModel' \subseteq InModel
      BY <1>1 DEF Begins, InModel
    <2>. QED
      BY <1>1, <2>1, FewerInModel, KernelAssumption DEF Begins, BudgetInv
  <1>2. CASE LlmQuery
    <2>1. subcalls' = subcalls + 1 /\ tasks' = tasks /\ maps' = maps
      BY <1>2 DEF LlmQuery
    <2>2. \/ reached' = reached
          \/ reached' = reached + 1 /\ ~(subcalls + 1 > MaxSubcalls)
      BY <1>2 DEF LlmQuery, OverBudget
    <2>3. InModel' \subseteq InModel
      BY <2>1 DEF InModel
    <2>. QED
      BY <2>1, <2>2, <2>3, FewerInModel, KernelAssumption DEF BudgetInv
  <1>3. CASE Maps
    <2>1. /\ maps' = maps + 1 /\ UNCHANGED <<subcalls, reached>>
          /\ \E n \in Widths :
               tasks' = tasks \cup {[map |-> maps + 1, index |-> i, at |-> "wait"] : i \in 1..n}
      BY <1>3 DEF Maps
    <2>2. PICK n \in Nat :
               tasks' = tasks \cup {[map |-> maps + 1, index |-> i, at |-> "wait"] : i \in 1..n}
      BY <2>1, KernelAssumption
    <2>3. PICK m \in Nat : m = maps + 1
      BY DEF BudgetInv
    <2>4. \A i \in 1..n : [map |-> m, index |-> i, at |-> "wait"] \in TaskType
      BY DEF TaskType
    <2>5. tasks' \subseteq TaskType
      BY <2>2, <2>3, <2>4 DEF BudgetInv
    <2>6. InModel' \subseteq InModel
      BY <2>2 DEF InModel
    <2>. QED
      BY <2>1, <2>3, <2>5, <2>6, FewerInModel DEF BudgetInv
  <1>4. CASE \E t \in tasks : TaskEnters(t)
    <2>1. PICK t \in tasks : TaskEnters(t)
      BY <1>4
    <2>2. subcalls' = subcalls + 1 /\ maps' = maps
      BY <2>1 DEF TaskEnters
    <2>3. CASE tasks' = Moved(t, "raised") /\ reached' = reached
      <3>1. tasks' \subseteq TaskType /\ InModel' \subseteq InModel
        BY <2>3, MovedTasks
      <3>. QED
        BY <2>2, <2>3, <3>1, FewerInModel DEF BudgetInv
    <2>4. CASE /\ tasks' = Moved(t, "model") /\ reached' = reached + 1
               /\ ~(subcalls + 1 > MaxSubcalls)
      <3>1. PICK u : u = [t EXCEPT !.at = "model"]
        OBVIOUS
      <3>2. tasks' \subseteq TaskType /\ InModel' \subseteq InModel \cup {u}
        BY <2>4, <3>1, MovedTasks
      <3>3. Cardinality(InModel) < MaxParallel
        BY <2>1 DEF TaskEnters, Admits
      <3>4. /\ IsFiniteSet(InModel \cup {u})
            /\ Cardinality(InModel \cup {u}) = Cardinality(InModel)
                 \/ Cardinality(InModel \cup {u}) = Cardinality(InModel) + 1
        BY FS_AddElement DEF BudgetInv
      <3>5. IsFiniteSet(InModel') /\ Cardinality(InModel') <= Cardinality(InModel \cup {u})
        BY <3>2, <3>4, FS_Subset
      <3>6. Cardinality(InModel) \in Nat /\ Cardinality(InModel') \in Nat
        BY <3>5, FS_CardinalityType DEF BudgetInv
      <3>7. Cardinality(InModel') <= MaxParallel
        BY <3>3, <3>4, <3>5, <3>6, KernelAssumption
      <3>. QED
        BY <2>2, <2>4, <3>2, <3>5, <3>7, KernelAssumption DEF BudgetInv
    <2>. QED
      BY <2>1, <2>3, <2>4 DEF TaskEnters, OverBudget
  <1>5. CASE \E t \in tasks : TaskReturns(t)
    <2>1. PICK t \in tasks : TaskReturns(t)
      BY <1>5
    <2>2. UNCHANGED <<subcalls, reached, maps>>
      BY <2>1 DEF TaskReturns
    <2>3. tasks' \subseteq TaskType /\ InModel' \subseteq InModel
      BY <2>1, MovedTasks DEF TaskReturns
    <2>. QED
      BY <2>2, <2>3, FewerInModel DEF BudgetInv
  <1>6. CASE MapReturns
    <2>1. tasks' \subseteq tasks /\ UNCHANGED <<subcalls, reached, maps>>
      BY <1>6 DEF MapReturns
    <2>2. InModel' \subseteq InModel
      BY <2>1 DEF InModel
    <2>. QED
      BY <2>1, <2>2, FewerInModel DEF BudgetInv
  <1>7. CASE UNCHANGED <<subcalls, reached, maps, tasks>>
    BY <1>7 DEF BudgetInv, InModel
  <1>. QED
    BY <1>1, <1>2, <1>3, <1>4, <1>5, <1>6, <1>7
       DEF Next, vars, CodeStep, KernelStep, TaskStep, TimePasses, Checks, RootAnswers, SetsFinal,
           StoreRaises, QueryReturns, Catches, CodeEnds, CodeBreaks

\* In no run more sub-calls than the budget reach the model, and never more than
\* max_parallel of maps are there at once, whatever earlier maps and runs have left behind
\* (llm_query_helper, amap_recursive).
THEOREM BudgetHolds == Spec => []WithinBudget
  <1>1. BudgetInv => WithinBudget
    BY DEF BudgetInv, WithinBudget
  <1>. QED
    BY <1>1, BudgetInit, BudgetStep, PTL DEF Spec

-----------------------------------------------------------------------------
(* What is returned                                                        *)

\* The state has no Final while the run goes on, and the answer is the Final of code that
\* ran to its end.
ReturnInv ==
  /\ Running => state.Final = NoFinal
  /\ at = "returned" => code.raised = "no" /\ answer = state.Final

LEMMA ReturnStep == ReturnInv /\ [Next]_vars => ReturnInv'
  <1>. SUFFICES ASSUME ReturnInv, [Next]_vars PROVE ReturnInv'
    OBVIOUS
  <1>1. CASE Begins
    BY <1>1 DEF Begins, ReturnInv, Fresh
  <1>2. CASE CodeEnds
    <2>1. at = "code" /\ state.Final = NoFinal
      BY <1>2 DEF CodeEnds, ReturnInv, Running
    <2>2. /\ code'.raised = code.raised /\ code.raised \in {"no", "plain"}
          /\ code.raised # "no" => state' = state
      BY <1>2 DEF CodeEnds, TakenOver, NoCode
    <2>3. CASE state'.Final # NoFinal
      <3>1. at' = "returned" /\ answer' = state'.Final
        BY <1>2, <2>3 DEF CodeEnds
      <3>. QED
        BY <3>1, <2>1, <2>2, <2>3 DEF ReturnInv, Running
    <2>4. CASE state'.Final = NoFinal
      BY <1>2, <2>4 DEF CodeEnds, ReturnInv
    <2>. QED
      BY <2>3, <2>4
  <1>3. CASE SetsFinal \/ StoreRaises \/ LlmQuery \/ Maps \/ Catches
    <2>1. at = "code" /\ at' \in {"code", "query", "map"} /\ UNCHANGED <<state, answer>>
      BY <1>3 DEF Does, SetsFinal, StoreRaises, LlmQuery, Maps, Catches
    <2>. QED
      BY <2>1 DEF ReturnInv, Running
  <1>4. CASE \E t \in tasks : TaskEnters(t) \/ TaskReturns(t)
    <2>1. PICK t \in tasks : TaskEnters(t) \/ TaskReturns(t)
      BY <1>4
    <2>2. UNCHANGED <<at, state, answer>> /\ (at = "returned" => code' = code)
      BY <2>1 DEF TaskEnters, TaskReturns, Raises
    <2>. QED
      BY <2>2 DEF ReturnInv, Running
  <1>5. CASE Checks \/ RootAnswers \/ QueryReturns \/ MapReturns \/ CodeBreaks
    <2>1. /\ at \in {"check", "root", "query", "map", "code"} /\ UNCHANGED <<state, answer>>
          /\ at' # "returned"
      BY <1>5 DEF Checks, RootAnswers, QueryReturns, MapReturns, CodeBreaks
    <2>. QED
      BY <2>1 DEF ReturnInv, Running
  <1>6. CASE UNCHANGED <<at, state, answer, code>>
    BY <1>6 DEF ReturnInv, Running
  <1>. QED
    BY <1>1, <1>2, <1>3, <1>4, <1>5, <1>6
       DEF Next, vars, CodeStep, KernelStep, TaskStep, TimePasses

\* A run returns what code that ran to its end made Final (_repl_exec, run).
THEOREM OnlyWholeCodeReturns == Spec => []ReturnsWholeCode
  <1>1. Init => ReturnInv
    BY DEF Init, ReturnInv, Running, Fresh
  <1>2. ReturnInv => ReturnsWholeCode
    BY DEF ReturnInv, ReturnsWholeCode
  <1>. QED
    BY <1>1, <1>2, ReturnStep, PTL DEF Spec

-----------------------------------------------------------------------------
(* The governor                                                            *)

ItemType == [id : Nat, cost : Nat, rel : Nat, critical : BOOLEAN, ev : {"", "log"}]

\* The largest of some numbers up to n.
LEMMA MaxIs ==
  ASSUME NEW n \in Nat, NEW S \in SUBSET (1..n), S # {}
  PROVE  Max(S) \in S /\ \A y \in S : y <= Max(S)
  <1>. DEFINE B == {n - y : y \in S}
              R == {p \in Nat \X Nat : p[1] < p[2]}
  <1>1. B \subseteq Nat /\ \E b \in B : TRUE
    <2>1. \A y \in S : n - y \in Nat
      OBVIOUS
    <2>2. \E y \in S : TRUE
      OBVIOUS
    <2>. QED
      BY <2>1, <2>2
  <1>2. IsWellFoundedOn(R, Nat)
    BY NatLessThanWellFounded, Zenon DEF OpToRel
  <1>3. \A a, b \in Nat : <<a, b>> \notin R => ~(a < b)
    OBVIOUS
  <1>. HIDE DEF R
  <1>4. PICK b \in B : \A a \in B : <<a, b>> \notin R
    <2>. HIDE DEF B
    <2>. QED
      BY <1>1, <1>2, WFMin
  <1>5. PICK x \in S : b = n - x
    OBVIOUS
  <1>6. \A y \in S : n - y \in B /\ n - y \in Nat /\ n - x \in Nat
    OBVIOUS
  <1>7. \A y \in S : ~(n - y < n - x)
    BY <1>3, <1>4, <1>5, <1>6
  <1>8. \A y \in S : x >= y
    BY <1>7
  <1>9. Max(S) \in S /\ \A y \in S : Max(S) >= y
    BY <1>8 DEF Max
  <1>10. \A y \in S : y \in Nat
    OBVIOUS
  <1>. QED
    BY <1>9, <1>10

\* The cost of no item and of one.
LEMMA CostIs ==
  ASSUME NEW s \in Seq(ItemType)
  PROVE  /\ CostOf(s) \in Nat
         /\ Len(s) = 0 => CostOf(s) = 0
         /\ Len(s) = 1 => CostOf(s) = s[1].cost
  <1>. DEFINE step == [p \in Nat \X (1..Len(s)) |-> p[1] + s[p[2]].cost]
              E(f) == f = [n \in 0..Len(s) |-> IF n = 0 THEN 0 ELSE f[n - 1] + s[n].cost]
  <1>1. Len(s) \in Nat /\ \A n \in 1..Len(s) : s[n].cost \in Nat
    <2>1. Len(s) \in Nat /\ \A n \in 1..Len(s) : s[n] \in ItemType
      OBVIOUS
    <2>2. \A it \in ItemType : it.cost \in Nat
      BY DEF ItemType
    <2>. QED
      BY <2>1, <2>2
  <1>2. step \in [Nat \X (1..Len(s)) -> Nat]
    BY <1>1
  <1>3. \A a \in Nat, n \in 1..Len(s) : step[<<a, n>>] = a + s[n].cost
    OBVIOUS
  <1>. HIDE DEF step
  <1>4. PICK f \in [0..Len(s) -> Nat] : Follows(f, 0, step, Len(s))
    <2>1. 0 \in Nat
      OBVIOUS
    <2>. QED
      BY <1>1, <1>2, <2>1, Recursion
  <1>5. E(f)
    <2>1. ASSUME NEW n \in 1..Len(s) PROVE f[n] = f[n - 1] + s[n].cost
      <3>1. f[n - 1] \in Nat
        BY <1>1
      <3>. QED
        BY <1>3, <1>4, <3>1 DEF Follows
    <2>2. \A n \in 0..Len(s) : f[n] = IF n = 0 THEN 0 ELSE f[n - 1] + s[n].cost
      BY <1>1, <1>4, <2>1 DEF Follows
    <2>. QED
      BY <2>2
  <1>6. CostOf(s) = (CHOOSE g : E(g))[Len(s)]
    BY DEF CostOf
  <1>7. PICK h : h = CHOOSE g : E(g)
    OBVIOUS
  <1>8. E(h)
    <2>. HIDE DEF E
    <2>. QED
      BY <1>5, <1>7
  <1>9. h[0] = 0 /\ \A n \in 1..Len(s) : h[n] = h[n - 1] + s[n].cost
    BY <1>1, <1>8
  <1>. HIDE DEF E
  <1>10. 0..Len(s) \subseteq {n \in 0..Len(s) : h[n] \in Nat}
    <2>. DEFINE S == {n \in 0..Len(s) : h[n] \in Nat}
    <2>1. 0 \in S
      BY <1>1, <1>9
    <2>2. ASSUME NEW n \in 1..Len(s), n - 1 \in S PROVE n \in S
      <3>1. h[n - 1] \in Nat /\ s[n].cost \in Nat
        BY <1>1, <2>2
      <3>2. h[n] = h[n - 1] + s[n].cost
        BY <1>9
      <3>3. h[n] \in Nat /\ n \in 0..Len(s)
        BY <1>1, <3>1, <3>2
      <3>. QED
        BY <3>3
    <2>. HIDE DEF S
    <2>3. 0..Len(s) \subseteq S
      BY <1>1, <2>1, <2>2, UpTo
    <2>. QED
      BY <2>3 DEF S
  <1>11. CostOf(s) = h[Len(s)] /\ Len(s) \in 0..Len(s)
    BY <1>1, <1>6, <1>7
  <1>12. Len(s) = 1 => CostOf(s) = s[1].cost
    BY <1>1, <1>9, <1>11
  <1>. QED
    BY <1>9, <1>10, <1>11, <1>12

\* Whoever nobody precedes, and who precedes everybody, is sorted first.
LEMMA RankedFirst ==
  ASSUME NEW S, IsFiniteSet(S), NEW R, NEW g \in S,
         \A x \in S : <<x, g>> \notin R /\ (x = g \/ <<g, x>> \in R),
         NEW r, r = Ranked(S, R)
  PROVE  /\ \E T : r \in Seq(T)
         /\ Len(r) \in Nat /\ Len(r) > 0 /\ r[1] = g
  <1>. DEFINE In(x) == {y \in S : <<y, x>> \in R}
  <1>1. PICK N \in Nat : N = Cardinality(S)
    BY FS_CardinalityType
  <1>2. N > 0
    <2>1. S # {}
      OBVIOUS
    <2>. QED
      BY <1>1, <2>1, FS_EmptySet
  <1>3. \A x \in S : Cardinality(In(x)) = 0 <=> x = g
    <2>. TAKE x \in S
    <2>1. PICK T : T = In(x)
      OBVIOUS
    <2>2. T \subseteq S /\ (T = {} <=> x = g)
      BY <2>1
    <2>3. IsFiniteSet(T)
      BY <2>2, FS_Subset
    <2>4. Cardinality(T) = 0 <=> T = {}
      BY <2>3, FS_EmptySet
    <2>. QED
      BY <2>1, <2>2, <2>4
  <1>4. r = [n \in 1..N |-> CHOOSE x \in S : Cardinality(In(x)) = n - 1]
    BY <1>1 DEF Ranked
  <1>. HIDE DEF In
  <1>5. r[1] = CHOOSE x \in S : Cardinality(In(x)) = 0
    BY <1>2, <1>4
  <1>6. r[1] = g
    BY <1>3, <1>5
  <1>7. PICK T : T = {r[n] : n \in 1..N}
    OBVIOUS
  <1>8. r \in [1..N -> T]
    BY <1>4, <1>7
  <1>9. r \in Seq(T) /\ Len(r) = N
    BY <1>8
  <1>. QED
    BY <1>2, <1>6, <1>9

\* The item that is sorted first is packed if it fits.
LEMMA FirstIsPacked ==
  ASSUME NEW items \in Seq(ItemType), NEW cap \in Nat, NEW g \in ToSet(items), g.cost <= cap,
         \A x \in ToSet(items) : x = g \/ (Precedes(g, x) /\ ~Precedes(x, g)),
         ~Precedes(g, g)
  PROVE  g.id \in PackCtx(items, cap)
  <1>1. ToSet(items) \subseteq ItemType /\ IsFiniteSet(ToSet(items))
    <2>1. ToSet(items) \subseteq ItemType
      BY DEF ToSet
    <2>2. PICK f : f = items
      OBVIOUS
    <2>3. PICK n \in Nat : n = Len(items)
      OBVIOUS
    <2>4. items \in Surjection(1..n, ToSet(items))
      BY <2>3 DEF Surjection, ToSet
    <2>5. IsFiniteSet(1..n)
      BY FS_Interval
    <2>6. IsFiniteSet(ToSet(items))
      BY <2>4, <2>5, FS_Surjection
    <2>. QED
      BY <2>1, <2>6
  <1>2. PICK R : R = {p \in ToSet(items) \X ToSet(items) : Precedes(p[1], p[2])}
    OBVIOUS
  <1>3. PICK r : r = Ranked(ToSet(items), R)
    OBVIOUS
  <1>4. \A x \in ToSet(items) : <<x, g>> \notin R /\ (x = g \/ <<g, x>> \in R)
    BY <1>2
  <1>5. /\ \E T : r \in Seq(T)
        /\ Len(r) \in Nat /\ Len(r) > 0 /\ r[1] = g
    BY <1>1, <1>3, <1>4, RankedFirst
  <1>6. PICK T : r \in Seq(T)
    BY <1>5
  <1>. DEFINE take(p, it) == IF CostOf(p) + it.cost <= cap THEN Append(p, it) ELSE p
              step == [p \in Seq(T) \X (1..Len(r)) |-> take(p[1], r[p[2]])]
              E(f) == f = [n \in 0..Len(r) |-> IF n = 0 THEN << >> ELSE take(f[n - 1], r[n])]
  <1>7. step \in [Seq(T) \X (1..Len(r)) -> Seq(T)]
    <2>1. ASSUME NEW p \in Seq(T) \X (1..Len(r)) PROVE take(p[1], r[p[2]]) \in Seq(T)
      BY <1>6
    <2>. QED
      BY <2>1
  <1>8. \A p \in Seq(T), n \in 1..Len(r) : step[<<p, n>>] = take(p, r[n])
    OBVIOUS
  <1>. HIDE DEF step, take
  <1>9. PICK f \in [0..Len(r) -> Seq(T)] : Follows(f, << >>, step, Len(r))
    <2>1. << >> \in Seq(T)
      OBVIOUS
    <2>. QED
      BY <1>5, <1>7, <2>1, Recursion
  <1>10. E(f)
    <2>1. ASSUME NEW n \in 1..Len(r) PROVE f[n] = take(f[n - 1], r[n])
      <3>1. f[n - 1] \in Seq(T)
        <4>1. n - 1 \in 0..Len(r)
          BY <1>5
        <4>. QED
          BY <1>9, <4>1
      <3>. QED
        BY <1>8, <1>9, <3>1 DEF Follows
    <2>2. \A n \in 0..Len(r) : f[n] = IF n = 0 THEN << >> ELSE take(f[n - 1], r[n])
      BY <1>5, <1>9, <2>1 DEF Follows
    <2>. QED
      BY <2>2
  <1>11. PICK h : h = CHOOSE F : E(F)
    OBVIOUS
  <1>12. E(h)
    <2>. HIDE DEF E
    <2>. QED
      BY <1>10, <1>11
  <1>13. PackCtx(items, cap) = {it.id : it \in ToSet(h[Len(r)])}
    BY <1>2, <1>3, <1>11 DEF PackCtx, take
  <1>14. h[0] = << >> /\ \A n \in 1..Len(r) : h[n] = take(h[n - 1], r[n])
    <2>1. \A n \in 0..Len(r) : h[n] = IF n = 0 THEN << >> ELSE take(h[n - 1], r[n])
      BY <1>12
    <2>2. 0 \in 0..Len(r) /\ \A n \in 1..Len(r) : n \in 0..Len(r) /\ n # 0
      BY <1>5
    <2>. QED
      BY <2>1, <2>2
  <1>. HIDE DEF E
  <1>. DEFINE S == {n \in 0..Len(r) : h[n] \in Seq(T) /\ (n # 0 => g \in ToSet(h[n]))}
  <1>15. 0 \in S
    <2>1. << >> \in Seq(T) /\ 0 \in 0..Len(r)
      BY <1>5
    <2>. QED
      BY <1>14, <2>1
  <1>16. ASSUME NEW n \in 1..Len(r), n - 1 \in S PROVE n \in S
    <2>1. r[n] \in T /\ h[n - 1] \in Seq(T) /\ n - 1 \in 0..Len(r)
      BY <1>6, <1>16
    <2>2. PICK p : p = h[n - 1]
      OBVIOUS
    <2>3. h[n] = p \/ h[n] = Append(p, r[n])
      BY <1>14, <2>2 DEF take
    <2>4. /\ Append(p, r[n]) \in Seq(T) /\ r[n] \in ToSet(Append(p, r[n]))
          /\ ToSet(p) \subseteq ToSet(Append(p, r[n]))
      <3>1. PICK q : q = Append(p, r[n])
        OBVIOUS
      <3>2. /\ q \in Seq(T) /\ Len(q) = Len(p) + 1 /\ Len(p) \in Nat
            /\ DOMAIN q = 1..(Len(p) + 1) /\ DOMAIN p = 1..Len(p)
            /\ q[Len(p) + 1] = r[n] /\ \A i \in 1..Len(p) : q[i] = p[i]
        BY <2>1, <2>2, <3>1, AppendProperties
      <3>3. Len(p) + 1 \in DOMAIN q /\ DOMAIN p \subseteq DOMAIN q
        BY <3>2
      <3>. QED
        BY <3>1, <3>2, <3>3 DEF ToSet
    <2>5. CASE n = 1
      <3>1. p = << >> /\ r[n] = g
        BY <1>5, <1>14, <2>2, <2>5
      <3>2. CostOf(p) = 0
        <4>1. << >> \in Seq(ItemType) /\ Len(<< >>) = 0
          OBVIOUS
        <4>. QED
          BY <3>1, <4>1, CostIs
      <3>3. g.cost \in Nat
        BY <1>1 DEF ItemType
      <3>4. CostOf(p) + g.cost <= cap
        BY <3>2, <3>3
      <3>5. take(p, g) = Append(p, g)
        BY <3>4 DEF take
      <3>6. h[n] = Append(p, r[n])
        BY <1>14, <2>2, <3>1, <3>5
      <3>7. h[n] \in Seq(T) /\ g \in ToSet(h[n])
        BY <2>4, <3>1, <3>6
      <3>. QED
        BY <3>7
    <2>6. CASE n # 1
      <3>1. n - 1 # 0 /\ g \in ToSet(p)
        BY <1>16, <2>2, <2>6
      <3>2. h[n] \in Seq(T) /\ g \in ToSet(h[n])
        BY <2>1, <2>2, <2>3, <2>4, <3>1
      <3>. QED
        BY <3>2
    <2>. QED
      BY <2>5, <2>6
  <1>. HIDE DEF S
  <1>17. 0..Len(r) \subseteq S
    BY <1>5, <1>15, <1>16, UpTo
  <1>18. g \in ToSet(h[Len(r)])
    <2>1. Len(r) \in S /\ Len(r) # 0
      BY <1>5, <1>17
    <2>. QED
      BY <2>1 DEF S
  <1>. QED
    BY <1>13, <1>18

\* What is dropped is a spare item if there is one, and the rest stays as it was.
LEMMA DropOne ==
  ASSUME NEW s \in Seq(ItemType), Len(s) > 0, NEW q, q = RemoveAt(s, DropIndex(s))
  PROVE  /\ q \in Seq(ItemType) /\ Len(q) = Len(s) - 1
         /\ (\E i \in 1..Len(s) : ~s[i].critical) => ~s[DropIndex(s)].critical
         /\ DropIndex(s) \in 1..Len(s)
         /\ \A j \in 1..Len(q) : q[j] = IF j < DropIndex(s) THEN s[j] ELSE s[j + 1]
  <1>1. PICK n \in Nat : n = Len(s) /\ n > 0 /\ DOMAIN s = 1..n
    OBVIOUS
  <1>2. PICK spare : spare = {i \in 1..n : ~s[i].critical}
    OBVIOUS
  <1>3. DropIndex(s) = IF spare = {} THEN n ELSE Max(spare)
    BY <1>1, <1>2 DEF DropIndex
  <1>4. spare # {} => Max(spare) \in spare
    BY <1>2, MaxIs
  <1>5. PICK d : d = DropIndex(s)
    OBVIOUS
  <1>6. d \in 1..n /\ ((\E i \in 1..n : ~s[i].critical) => ~s[d].critical)
    BY <1>1, <1>2, <1>3, <1>4, <1>5
  <1>7. q = SubSeq(s, 1, d - 1) \o SubSeq(s, d + 1, n)
    BY <1>1, <1>5 DEF RemoveAt
  <1>8. PICK a : a = SubSeq(s, 1, d - 1)
    OBVIOUS
  <1>9. PICK b : b = SubSeq(s, d + 1, n)
    OBVIOUS
  <1>10. /\ a \in Seq(ItemType) /\ Len(a) = d - 1
         /\ \A j \in 1..(d - 1) : a[j] = s[j]
    BY <1>1, <1>6, <1>8
  <1>11. /\ b \in Seq(ItemType) /\ Len(b) = n - d
         /\ \A j \in 1..(n - d) : b[j] = s[d + j]
    BY <1>1, <1>6, <1>9
  <1>12. q = a \o b
    BY <1>7, <1>8, <1>9
  <1>13. q \in Seq(ItemType) /\ Len(q) = n - 1
    BY <1>1, <1>6, <1>10, <1>11, <1>12
  <1>14. ASSUME NEW j \in 1..(n - 1) PROVE q[j] = IF j < d THEN s[j] ELSE s[j + 1]
    <2>1. CASE j < d
      BY <1>6, <1>10, <1>11, <1>12, <2>1
    <2>2. CASE ~(j < d)
      <3>1. q[j] = b[j - (d - 1)]
        BY <1>1, <1>6, <1>10, <1>11, <1>12, <2>2
      <3>2. j - (d - 1) \in 1..(n - d) /\ d + (j - (d - 1)) = j + 1
        BY <1>1, <1>6, <2>2
      <3>. QED
        BY <1>11, <2>2, <3>1, <3>2
    <2>. QED
      BY <2>1, <2>2
  <1>. QED
    BY <1>1, <1>5, <1>6, <1>13, <1>14

\* The items of a prompt: the first alone is critical.
Anchored(items) ==
  Len(items) > 0 /\ items[1].critical /\ \A k \in 2..Len(items) : ~items[k].critical

\* Over the cap, an anchored list loses another item than its first, if that fits alone.
LEMMA DropKeepsFirst ==
  ASSUME NEW s \in Seq(ItemType), NEW cap \in Nat, CostOf(s) > cap, s[1].cost <= cap,
         Anchored(s), NEW q, q = RemoveAt(s, DropIndex(s))
  PROVE  Anchored(q) /\ q[1] = s[1]
  <1>1. PICK n \in Nat : n = Len(s) /\ n > 0
    BY DEF Anchored
  <1>2. PICK d : d = DropIndex(s)
    OBVIOUS
  <1>3. /\ Len(q) = n - 1 /\ d \in 1..n
        /\ (\E i \in 1..n : ~s[i].critical) => ~s[d].critical
        /\ \A j \in 1..(n - 1) : q[j] = IF j < d THEN s[j] ELSE s[j + 1]
    BY <1>1, <1>2, DropOne
  <1>4. n # 1
    <2>1. n = 1 => CostOf(s) = s[1].cost
      BY <1>1, CostIs
    <2>2. CostOf(s) \in Nat
      BY CostIs
    <2>. QED
      BY <2>1, <2>2
  <1>5. ~s[2].critical /\ 2 \in 1..n
    BY <1>1, <1>4 DEF Anchored
  <1>6. d # 1
    BY <1>3, <1>5 DEF Anchored
  <1>7. q[1] = s[1] /\ Len(q) > 0
    BY <1>1, <1>3, <1>4, <1>6
  <1>8. ASSUME NEW j \in 2..(n - 1) PROVE ~q[j].critical
    <2>1. q[j] = s[j] \/ q[j] = s[j + 1]
      BY <1>3
    <2>2. j \in 2..n /\ j + 1 \in 2..n
      OBVIOUS
    <2>. QED
      BY <1>1, <2>1, <2>2 DEF Anchored
  <1>. QED
    BY <1>3, <1>7, <1>8 DEF Anchored

\* What the cohesion rule leaves: nothing over the cap, and the first item when it was
\* packed and fits.
LEMMA CohesionKeeps ==
  ASSUME NEW items \in Seq(ItemType), NEW cap \in Nat, NEW packed,
         NEW out, out = ApplyCohesion(packed, items, cap)
  PROVE  /\ CostOf(out) \in Nat /\ CostOf(out) <= cap
         /\ Anchored(items) /\ items[1].cost <= cap /\ items[1].id \in packed
              => items[1] \in ToSet(out)
  <1>1. PICK I : I = {i \in DOMAIN items : items[i].id \in WithCalls(packed, items)}
    OBVIOUS
  <1>2. PICK c : c = Picked(items, I)
    OBVIOUS
  <1>3. I \in SUBSET (DOMAIN items)
    BY <1>1
  <1>4. /\ c \in Seq(ItemType) /\ Len(c) \in Nat
        /\ \E from : PickedAt(c, items, I, from)
    BY <1>2, <1>3, PickedAre
  <1>. DEFINE drop(s) == IF CostOf(s) > cap THEN RemoveAt(s, DropIndex(s)) ELSE s
              step == [p \in Seq(ItemType) \X (1..Len(c)) |-> drop(p[1])]
              E(f) == f = [n \in 0..Len(c) |-> IF n = 0 THEN c ELSE drop(f[n - 1])]
  <1>5. \A s \in Seq(ItemType) :
          /\ drop(s) \in Seq(ItemType) /\ Len(drop(s)) \in Nat
          /\ CostOf(s) > cap => Len(s) > 0 /\ Len(drop(s)) = Len(s) - 1
    <2>. TAKE s \in Seq(ItemType)
    <2>1. Len(s) \in Nat /\ CostOf(s) \in Nat /\ (CostOf(s) > cap => Len(s) > 0)
      BY CostIs
    <2>2. CASE CostOf(s) > cap
      <3>1. PICK q : q = RemoveAt(s, DropIndex(s))
        OBVIOUS
      <3>2. q \in Seq(ItemType) /\ Len(q) = Len(s) - 1
        BY <2>1, <2>2, <3>1, DropOne
      <3>. QED
        BY <2>1, <2>2, <3>1, <3>2
    <2>3. CASE ~(CostOf(s) > cap)
      BY <2>1, <2>3
    <2>. QED
      BY <2>2, <2>3
  <1>6. ASSUME NEW s \in Seq(ItemType), s[1].cost <= cap, Anchored(s)
        PROVE  Anchored(drop(s)) /\ drop(s)[1] = s[1]
    <2>1. CASE CostOf(s) > cap
      <3>1. PICK q : q = RemoveAt(s, DropIndex(s))
        OBVIOUS
      <3>2. Anchored(q) /\ q[1] = s[1]
        BY <1>6, <2>1, <3>1, DropKeepsFirst
      <3>. QED
        BY <2>1, <3>1, <3>2
    <2>2. CASE ~(CostOf(s) > cap)
      BY <1>6, <2>2
    <2>. QED
      BY <2>1, <2>2
  <1>7. step \in [Seq(ItemType) \X (1..Len(c)) -> Seq(ItemType)]
    BY <1>5
  <1>8. \A s \in Seq(ItemType), n \in 1..Len(c) : step[<<s, n>>] = drop(s)
    OBVIOUS
  <1>9. \A s \in Seq(ItemType) : CostOf(s) <= cap => drop(s) = s
    <2>. TAKE s \in Seq(ItemType)
    <2>1. CostOf(s) \in Nat
      BY CostIs
    <2>. QED
      BY <2>1
  <1>. HIDE DEF step
  <1>10. PICK f \in [0..Len(c) -> Seq(ItemType)] : Follows(f, c, step, Len(c))
    BY <1>4, <1>7, Recursion
  <1>11. out = (CHOOSE F : E(F))[Len(c)]
    BY <1>1, <1>2 DEF ApplyCohesion
  <1>. HIDE DEF drop
  <1>12. E(f)
    <2>1. ASSUME NEW n \in 1..Len(c) PROVE f[n] = drop(f[n - 1])
      <3>1. f[n - 1] \in Seq(ItemType)
        <4>1. n - 1 \in 0..Len(c)
          BY <1>4
        <4>. QED
          BY <1>10, <4>1
      <3>. QED
        BY <1>8, <1>10, <3>1 DEF Follows
    <2>2. \A n \in 0..Len(c) : f[n] = IF n = 0 THEN c ELSE drop(f[n - 1])
      BY <1>4, <1>10, <2>1 DEF Follows
    <2>. QED
      BY <2>2
  <1>13. PICK h : h = CHOOSE F : E(F)
    OBVIOUS
  <1>14. E(h)
    <2>. HIDE DEF E
    <2>. QED
      BY <1>12, <1>13
  <1>15. h[0] = c /\ \A n \in 1..Len(c) : h[n] = drop(h[n - 1])
    <2>1. \A n \in 0..Len(c) : h[n] = IF n = 0 THEN c ELSE drop(h[n - 1])
      BY <1>14
    <2>2. 0 \in 0..Len(c) /\ \A n \in 1..Len(c) : n \in 0..Len(c) /\ n # 0
      BY <1>4
    <2>. QED
      BY <2>1, <2>2
  <1>16. out = h[Len(c)]
    BY <1>11, <1>13
  <1>. HIDE DEF E
  <1>. DEFINE Fits(n) == CostOf(h[n]) <= cap \/ Len(h[n]) <= Len(c) - n
              S == {n \in 0..Len(c) : h[n] \in Seq(ItemType) /\ Fits(n)}
  <1>17. 0 \in S
    <2>1. h[0] \in Seq(ItemType) /\ Len(h[0]) <= Len(c) - 0 /\ 0 \in 0..Len(c)
      BY <1>4, <1>15
    <2>. QED
      BY <2>1
  <1>18. ASSUME NEW n \in 1..Len(c), n - 1 \in S PROVE n \in S
    <2>1. PICK s \in Seq(ItemType) : s = h[n - 1]
      BY <1>18
    <2>2. h[n] = drop(s) /\ h[n] \in Seq(ItemType)
      BY <1>5, <1>15, <2>1
    <2>3. CASE CostOf(s) <= cap
      <3>1. h[n] = s
        BY <1>9, <2>2, <2>3
      <3>. QED
        BY <2>2, <2>3, <3>1
    <2>4. CASE ~(CostOf(s) <= cap)
      <3>1. CostOf(s) > cap
        BY <2>4, CostIs
      <3>2. Len(h[n]) = Len(s) - 1 /\ Len(s) \in Nat
        BY <1>5, <2>2, <3>1
      <3>3. Len(s) <= Len(c) - (n - 1)
        BY <1>18, <2>1, <2>4
      <3>4. Len(h[n]) <= Len(c) - n
        BY <1>4, <3>2, <3>3
      <3>. QED
        BY <2>2, <3>4
    <2>. QED
      BY <2>3, <2>4
  <1>19. Len(c) \in S
    <2>. HIDE DEF S
    <2>1. 0..Len(c) \subseteq S
      BY <1>4, <1>17, <1>18, UpTo
    <2>. QED
      BY <1>4, <2>1
  <1>20. CostOf(out) \in Nat /\ CostOf(out) <= cap
    <2>1. out \in Seq(ItemType) /\ (CostOf(out) <= cap \/ Len(out) <= Len(c) - Len(c))
      BY <1>16, <1>19
    <2>2. Len(out) \in Nat /\ (Len(out) <= Len(c) - Len(c) => Len(out) = 0)
      BY <1>4, <2>1
    <2>. QED
      BY <2>1, <2>2, CostIs
  <1>. HIDE DEF S
  <1>21. ASSUME Anchored(items), items[1].cost <= cap, items[1].id \in packed
         PROVE  items[1] \in ToSet(out)
    <2>0. PICK from : PickedAt(c, items, I, from)
      BY <1>4
    <2>1. /\ from \in [1..Len(c) -> I]
          /\ \A n \in 1..Len(c) : c[n] = items[from[n]]
          /\ \A m, n \in 1..Len(c) : m < n => from[m] < from[n]
          /\ \A i \in I : \E n \in 1..Len(c) : from[n] = i
      BY <2>0 DEF PickedAt
    <2>2. 1 \in I /\ I \subseteq 1..Len(items) /\ Len(items) \in Nat
      <3>1. Len(items) \in Nat /\ DOMAIN items = 1..Len(items)
        OBVIOUS
      <3>2. 1 \in DOMAIN items
        BY <1>21, <3>1 DEF Anchored
      <3>. QED
        BY <1>1, <1>21, <3>1, <3>2 DEF WithCalls
    <2>3. \A n \in 1..Len(c) : from[n] \in 1..Len(items)
      BY <2>1, <2>2
    <2>4. PICK n \in 1..Len(c) : from[n] = 1
      BY <2>1, <2>2
    <2>5. 1 \in 1..Len(c)
      BY <1>4, <2>4
    <2>6. n = 1
      <3>1. 1 < n => from[1] < 1
        BY <2>1, <2>4, <2>5
      <3>2. from[1] \in 1..Len(items)
        BY <2>3, <2>5
      <3>3. ~(1 < n)
        BY <2>2, <3>1, <3>2
      <3>. QED
        BY <1>4, <3>3
    <2>7. c[1] = items[1]
      BY <2>1, <2>4, <2>5, <2>6
    <2>8. Anchored(c)
      <3>1. \A k \in 2..Len(c) : from[k] \in 2..Len(items) /\ k \in 1..Len(c)
        <4>. TAKE k \in 2..Len(c)
        <4>1. k \in 1..Len(c) /\ 1 < k
          BY <1>4
        <4>2. from[1] < from[k] /\ from[k] \in 1..Len(items)
          BY <2>1, <2>3, <2>5, <4>1
        <4>. QED
          BY <2>2, <2>4, <2>6, <4>1, <4>2
      <3>2. \A k \in 2..Len(c) : ~c[k].critical
        BY <1>21, <2>1, <3>1 DEF Anchored
      <3>3. Len(c) > 0
        BY <1>4, <2>5
      <3>. QED
        BY <1>21, <2>7, <3>2, <3>3 DEF Anchored
    <2>. DEFINE A == {k \in 0..Len(c) : h[k] \in Seq(ItemType) /\ Anchored(h[k]) /\ h[k][1] = items[1]}
    <2>9. 0 \in A
      BY <1>4, <1>15, <2>7, <2>8
    <2>10. ASSUME NEW k \in 1..Len(c), k - 1 \in A PROVE k \in A
      <3>1. PICK s \in Seq(ItemType) : s = h[k - 1]
        BY <2>10
      <3>2. Anchored(s) /\ s[1] = items[1]
        BY <2>10, <3>1
      <3>3. Anchored(drop(s)) /\ drop(s)[1] = s[1]
        BY <1>6, <1>21, <3>2
      <3>4. h[k] = drop(s) /\ h[k] \in Seq(ItemType)
        BY <1>5, <1>15, <3>1
      <3>. QED
        BY <3>2, <3>3, <3>4
    <2>. HIDE DEF A
    <2>11. Len(c) \in A
      <3>1. 0..Len(c) \subseteq A
        BY <1>4, <2>9, <2>10, UpTo
      <3>. QED
        BY <1>4, <3>1
    <2>12. out \in Seq(ItemType) /\ Len(out) > 0 /\ out[1] = items[1]
      BY <1>16, <2>11 DEF A, Anchored
    <2>13. 1 \in DOMAIN out
      BY <2>12
    <2>. QED
      BY <2>12, <2>13 DEF ToSet
  <1>. QED
    BY <1>20, <1>21

-----------------------------------------------------------------------------
(* The goal stays                                                          *)

\* What is not of the goal: never critical, no more relevant than its cost allows.
Light(x) == ~x.critical /\ x.rel <= 2 * x.cost

\* A prompt begins with the goal, and nothing after it outweighs its cost.
Goal == Item(1, GoalCost, GoalCost, TRUE, "")
GoalFirst(p) ==
  /\ p \in Seq(ItemType) /\ Len(p) > 0 /\ p[1] = Goal
  /\ \A k \in 2..Len(p) : Light(p[k])

\* The state and the globals have a list, the history is of what is printed.
IsState(s) == s = [Final |-> s.Final, SUMS |-> s.SUMS] /\ \E T : s.SUMS \in Seq(T)
PromptInv ==
  /\ IsState(state) /\ IsState(globs) /\ history \in Seq(Prints) /\ IsFiniteSet(tasks)
  /\ prompt = << >> \/ GoalFirst(prompt)

\* Nothing light comes before a goal that fits: Boost outweighs it.
LEMMA GoalOutweighs ==
  ASSUME GoalCost <= Cap, NEW x \in ItemType, Light(x)
  PROVE  Precedes(Goal, x) /\ ~Precedes(x, Goal)
  <1>1. PICK c \in Nat, r \in Nat, p \in Nat : c = x.cost /\ r = x.rel /\ p = Per(x)
    BY DEF ItemType, Per
  <1>2. p >= 1 /\ p >= c /\ r <= 2 * p
    BY <1>1 DEF Per, Light
  <1>3. PICK g \in Nat : g = Per(Goal)
    BY KernelAssumption DEF Per, Goal, Item
  <1>4. g <= Cap + 1
    BY <1>3, KernelAssumption DEF Per, Goal, Item
  <1>5. Relevance(Goal) = GoalCost + Boost /\ Relevance(x) = r
    BY <1>1, KernelAssumption, BoostAssumption DEF Relevance, Goal, Item, Light
  <1>6. r * g < (GoalCost + Boost) * p
    <2>1. r * g <= (2 * p) * g
      BY <1>2
    <2>2. (2 * p) * g <= (2 * p) * (Cap + 1)
      BY <1>4, KernelAssumption
    <2>3. (2 * p) * (Cap + 1) = p * (2 * (Cap + 1))
      BY KernelAssumption
    <2>4. p * (2 * (Cap + 1)) < p * Boost
      BY <1>2, TokenAssumption, KernelAssumption, BoostAssumption
    <2>5. p * Boost <= (GoalCost + Boost) * p
      BY KernelAssumption, BoostAssumption
    <2>6. r * g \in Nat /\ (2 * p) * g \in Nat /\ (2 * p) * (Cap + 1) \in Nat
          /\ p * (2 * (Cap + 1)) \in Nat /\ p * Boost \in Nat /\ (GoalCost + Boost) * p \in Nat
      BY KernelAssumption, BoostAssumption
    <2>. QED
      BY <2>1, <2>2, <2>3, <2>4, <2>5, <2>6
  <1>7. r * g \in Nat /\ (GoalCost + Boost) * p \in Nat
    BY KernelAssumption, BoostAssumption
  <1>. QED
    BY <1>1, <1>3, <1>5, <1>6, <1>7 DEF Precedes

LEMMA LightItem ==
  ASSUME NEW i \in Nat, NEW c \in Nat, NEW r \in Nat, r <= 2 * c, NEW e \in {"", "log"}
  PROVE  Item(i, c, r, FALSE, e) \in ItemType /\ Light(Item(i, c, r, FALSE, e))
  BY DEF Item, ItemType, Light

LEMMA Joined ==
  ASSUME NEW S, NEW a \in Seq(S), NEW b \in Seq(S), NEW d, d = a \o b,
         NEW n \in Nat, n = Len(a), NEW m \in Nat, m = Len(b)
  PROVE  /\ d \in Seq(S) /\ Len(d) = n + m
         /\ \A i \in 1..(n + m) : d[i] = IF i <= n THEN a[i] ELSE b[i - n]
  <1>1. d \in Seq(S) /\ Len(d) = n + m
    BY ConcatProperties
  <1>2. ASSUME NEW i \in 1..(n + m) PROVE d[i] = IF i <= n THEN a[i] ELSE b[i - n]
    BY <1>1, ConcatProperties
  <1>. QED
    BY <1>1, <1>2

\* So the items of a prompt begin with the goal.
LEMMA ItemsGoalFirst ==
  ASSUME NEW T, state.SUMS \in Seq(T), history \in Seq(Prints)
  PROVE  GoalFirst(Items)
  <1>. DEFINE B == [i \in DOMAIN state.SUMS |-> Item(3 + i, 1, 1, FALSE, "")]
              C == [i \in DOMAIN history |->
                      Item(3 + Len(state.SUMS) + i, history[i].cost, history[i].rel, FALSE, "log")]
  <1>1. PICK a : a = << Goal, Item(2, 1, 0, FALSE, ""), Item(3, 1, 0, FALSE, "") >>
    OBVIOUS
  <1>2. PICK n \in Nat : n = Len(state.SUMS) /\ DOMAIN state.SUMS = 1..n
    OBVIOUS
  <1>3. PICK m \in Nat : m = Len(history) /\ DOMAIN history = 1..m
    OBVIOUS
  <1>4. /\ a \in Seq(ItemType) /\ Len(a) = 3 /\ a[1] = Goal
        /\ Light(a[2]) /\ Light(a[3])
    <2>1. Goal \in ItemType
      BY KernelAssumption DEF Goal, Item, ItemType
    <2>2. PICK x : x = Item(2, 1, 0, FALSE, "")
      OBVIOUS
    <2>3. PICK y : y = Item(3, 1, 0, FALSE, "")
      OBVIOUS
    <2>4. x \in ItemType /\ Light(x) /\ y \in ItemType /\ Light(y)
      <3>1. PICK u \in Nat, v \in Nat, w \in Nat, z \in Nat : u = 2 /\ v = 1 /\ w = 0 /\ z = 3
        OBVIOUS
      <3>2. x = Item(u, v, w, FALSE, "") /\ y = Item(z, v, w, FALSE, "")
        BY <2>2, <2>3, <3>1
      <3>3. w <= 2 * v
        BY <3>1
      <3>. QED
        BY <3>2, <3>3, LightItem
    <2>5. a = << Goal, x, y >>
      BY <1>1, <2>2, <2>3
    <2>. QED
      BY <2>1, <2>4, <2>5
  <1>5. PICK b : b = B
    OBVIOUS
  <1>6. b \in Seq(ItemType) /\ Len(b) = n /\ \A i \in 1..n : Light(b[i])
    <2>1. ASSUME NEW i \in 1..n PROVE b[i] \in ItemType /\ Light(b[i])
      <3>1. b[i] = Item(3 + i, 1, 1, FALSE, "")
        BY <1>2, <1>5
      <3>2. PICK u \in Nat, v \in Nat : u = 3 + i /\ v = 1
        OBVIOUS
      <3>3. b[i] = Item(u, v, v, FALSE, "")
        BY <3>1, <3>2
      <3>4. v <= 2 * v
        OBVIOUS
      <3>. QED
        BY <3>3, <3>4, LightItem
    <2>2. b \in [1..n -> ItemType]
      BY <1>2, <1>5, <2>1
    <2>. QED
      BY <2>1, <2>2
  <1>7. PICK c : c = C
    OBVIOUS
  <1>8. c \in Seq(ItemType) /\ Len(c) = m /\ \A i \in 1..m : Light(c[i])
    <2>1. ASSUME NEW i \in 1..m PROVE c[i] \in ItemType /\ Light(c[i])
      <3>1. c[i] = Item(3 + n + i, history[i].cost, history[i].rel, FALSE, "log")
        BY <1>2, <1>3, <1>7
      <3>2. history[i] \in Prints
        BY <1>3
      <3>3. PICK v, w \in Nat : v = history[i].cost /\ w = history[i].rel /\ w <= 2 * v
        BY <3>2, KernelAssumption, TokenAssumption
      <3>4. PICK u \in Nat : u = 3 + n + i
        OBVIOUS
      <3>5. c[i] = Item(u, v, w, FALSE, "log")
        BY <3>1, <3>3, <3>4
      <3>. QED
        BY <3>3, <3>5, LightItem
    <2>2. c \in [1..m -> ItemType]
      BY <1>3, <1>7, <2>1
    <2>. QED
      BY <2>1, <2>2
  <1>9. Items = (a \o b) \o c
    BY <1>1, <1>5, <1>7 DEF Items, Goal
  <1>. HIDE DEF B, C
  <1>10. PICK d : d = a \o b
    OBVIOUS
  <1>11. /\ d \in Seq(ItemType) /\ Len(d) = 3 + n
         /\ \A i \in 1..(3 + n) : d[i] = IF i <= 3 THEN a[i] ELSE b[i - 3]
    <2>1. PICK k \in Nat : k = 3 /\ k = Len(a)
      BY <1>4
    <2>2. /\ d \in Seq(ItemType) /\ Len(d) = k + n
          /\ \A i \in 1..(k + n) : d[i] = IF i <= k THEN a[i] ELSE b[i - k]
      <3>1. a \in Seq(ItemType) /\ b \in Seq(ItemType) /\ n = Len(b) /\ k = Len(a)
        BY <1>4, <1>6, <2>1
      <3>. QED
        BY <1>10, <3>1, Joined
    <2>. QED
      BY <2>1, <2>2
  <1>12. d[1] = Goal /\ \A i \in 2..(3 + n) : Light(d[i])
    <2>1. d[1] = Goal
      BY <1>4, <1>11
    <2>2. ASSUME NEW i \in 2..(3 + n) PROVE Light(d[i])
      <3>1. d[i] = IF i <= 3 THEN a[i] ELSE b[i - 3]
        BY <1>11
      <3>2. i <= 3 => i = 2 \/ i = 3
        OBVIOUS
      <3>3. ~(i <= 3) => i - 3 \in 1..n
        OBVIOUS
      <3>. QED
        BY <1>4, <1>6, <3>1, <3>2, <3>3
    <2>. QED
      BY <2>1, <2>2
  <1>13. PICK p : p = d \o c
    OBVIOUS
  <1>14. /\ p \in Seq(ItemType) /\ Len(p) = 3 + n + m
         /\ \A i \in 1..(3 + n + m) : p[i] = IF i <= 3 + n THEN d[i] ELSE c[i - (3 + n)]
    <2>1. PICK k \in Nat : k = 3 + n /\ k = Len(d)
      BY <1>11
    <2>2. /\ p \in Seq(ItemType) /\ Len(p) = k + m
          /\ \A i \in 1..(k + m) : p[i] = IF i <= k THEN d[i] ELSE c[i - k]
      <3>1. d \in Seq(ItemType) /\ c \in Seq(ItemType) /\ m = Len(c) /\ k = Len(d)
        BY <1>8, <1>11, <2>1
      <3>. QED
        BY <1>13, <3>1, Joined
    <2>. QED
      BY <2>1, <2>2
  <1>15. p[1] = Goal
    BY <1>12, <1>14
  <1>16. ASSUME NEW i \in 2..(3 + n + m) PROVE Light(p[i])
    <2>1. p[i] = IF i <= 3 + n THEN d[i] ELSE c[i - (3 + n)]
      BY <1>14
    <2>2. i <= 3 + n => i \in 2..(3 + n)
      OBVIOUS
    <2>3. ~(i <= 3 + n) => i - (3 + n) \in 1..m
      OBVIOUS
    <2>. QED
      BY <1>8, <1>12, <2>1, <2>2, <2>3
  <1>17. Items = p
    BY <1>9, <1>10, <1>13
  <1>18. Len(p) > 0 /\ \A i \in 2..Len(p) : Light(p[i])
    BY <1>14, <1>16
  <1>19. GoalFirst(p)
    BY <1>14, <1>15, <1>18 DEF GoalFirst
  <1>. QED
    BY <1>17, <1>19

LEMMA PromptInit == Init => PromptInv
  <1>. SUFFICES ASSUME Init PROVE PromptInv
    OBVIOUS
  <1>1. << >> \in Seq(Nat) /\ << >> \in Seq(Prints)
    OBVIOUS
  <1>2. IsState(Fresh)
    BY <1>1 DEF IsState, Fresh
  <1>3. IsFiniteSet(tasks)
    BY FS_EmptySet DEF Init
  <1>. QED
    BY <1>1, <1>2, <1>3 DEF Init, PromptInv

\* A task that moves on leaves finitely many.
LEMMA MovedFinite ==
  ASSUME IsFiniteSet(tasks), NEW t, NEW to, NEW s, s = Moved(t, to)
  PROVE  IsFiniteSet(s)
  <1>1. PICK u : u = [t EXCEPT !.at = to]
    OBVIOUS
  <1>2. s \subseteq tasks \cup {u}
    BY <1>1 DEF Moved
  <1>3. IsFiniteSet({u})
    BY FS_Singleton
  <1>4. IsFiniteSet(tasks \cup {u})
    BY <1>3, FS_Union
  <1>. QED
    BY <1>2, <1>4, FS_Subset

\* So does a map that begins, and its list has an entry for each of its tasks.
LEMMA MapFinite ==
  ASSUME IsFiniteSet(tasks), NEW n \in Nat, NEW m, NEW s,
         s = tasks \cup {[map |-> m, index |-> i, at |-> "wait"] : i \in 1..n}
  PROVE  IsFiniteSet(s)
  <1>. DEFINE N == {[map |-> m, index |-> i, at |-> "wait"] : i \in 1..n}
              f == [i \in 1..n |-> [map |-> m, index |-> i, at |-> "wait"]]
  <1>1. f \in Surjection(1..n, N)
    BY DEF Surjection
  <1>2. IsFiniteSet(1..n)
    BY FS_Interval
  <1>. HIDE DEF f, N
  <1>3. IsFiniteSet(N)
    BY <1>1, <1>2, FS_Surjection
  <1>4. s = tasks \cup N
    BY DEF N
  <1>. QED
    BY <1>3, <1>4, FS_Union

LEMMA InOrderIsList ==
  ASSUME IsFiniteSet(tasks), NEW m
  PROVE  \E T : InOrder(m) \in Seq(T)
  <1>1. MapOf(m) \subseteq tasks
    BY DEF MapOf
  <1>2. PICK n \in Nat : n = Cardinality(MapOf(m))
    BY <1>1, FS_Subset, FS_CardinalityType
  <1>3. PICK T : T = {<<m, i>> : i \in 1..n}
    OBVIOUS
  <1>4. InOrder(m) \in [1..n -> T]
    BY <1>2, <1>3 DEF InOrder
  <1>5. InOrder(m) \in Seq(T)
    BY <1>4
  <1>. QED
    BY <1>5

LEMMA PromptStep == PromptInv /\ [Next]_vars => PromptInv'
  <1>. SUFFICES ASSUME PromptInv, [Next]_vars PROVE PromptInv'
    OBVIOUS
  <1>0. IsFiniteSet(tasks) /\ history \in Seq(Prints) /\ IsState(state) /\ IsState(globs)
    BY DEF PromptInv
  <1>1. IsState(Fresh) /\ << >> \in Seq(Prints)
    <2>1. << >> \in Seq(Nat) /\ << >> \in Seq(Prints)
      OBVIOUS
    <2>. QED
      BY <2>1 DEF IsState, Fresh
  <1>2. CASE Begins
    <2>1. state' = Fresh /\ history' = << >> /\ UNCHANGED <<globs, tasks, prompt>>
      BY <1>2 DEF Begins
    <2>. QED
      BY <1>0, <1>1, <2>1 DEF PromptInv, IsState, GoalFirst
  <1>3. CASE Checks
    <2>1. UNCHANGED <<state, globs, history, tasks>> /\ (prompt' = prompt \/ prompt' = Items)
      BY <1>3 DEF Checks
    <2>2. GoalFirst(Items)
      <3>1. PICK T : state.SUMS \in Seq(T)
        BY <1>0 DEF IsState
      <3>. QED
        BY <1>0, <3>1, ItemsGoalFirst
    <2>3. PICK i : i = Items
      OBVIOUS
    <2>4. prompt' = i => GoalFirst(prompt')
      BY <2>2, <2>3
    <2>. QED
      BY <2>1, <2>3, <2>4 DEF PromptInv, IsState, GoalFirst
  <1>4. CASE RootAnswers
    <2>1. UNCHANGED <<state, history, tasks, prompt>> /\ globs' \in {state, globs}
      BY <1>4 DEF RootAnswers
    <2>. QED
      BY <1>0, <2>1 DEF PromptInv, IsState, GoalFirst
  <1>5. CASE SetsFinal
    <2>1. UNCHANGED <<state, history, tasks, prompt>> /\ globs' = [globs EXCEPT !.Final = {globs.SUMS}]
      BY <1>5 DEF SetsFinal, Does
    <2>2. globs' = [Final |-> {globs.SUMS}, SUMS |-> globs.SUMS]
      BY <1>0, <2>1 DEF IsState
    <2>3. IsState(globs')
      BY <1>0, <2>2 DEF IsState
    <2>. QED
      BY <2>1, <2>3 DEF PromptInv, IsState, GoalFirst
  <1>6. CASE Maps
    <2>1. PICK n \in Widths :
            tasks' = tasks \cup {[map |-> maps + 1, index |-> i, at |-> "wait"] : i \in 1..n}
      BY <1>6 DEF Maps
    <2>2. n \in Nat
      BY KernelAssumption
    <2>3. PICK m : m = maps + 1
      OBVIOUS
    <2>4. PICK s : s = tasks'
      OBVIOUS
    <2>5. IsFiniteSet(s)
      BY <1>0, <2>1, <2>2, <2>3, <2>4, MapFinite
    <2>6. UNCHANGED <<state, globs, history, prompt>>
      BY <1>6 DEF Maps, Does
    <2>. QED
      BY <2>4, <2>5, <2>6 DEF PromptInv, IsState, GoalFirst
  <1>7. CASE TaskStep
    <2>1. PICK t \in tasks : TaskEnters(t) \/ TaskReturns(t)
      BY <1>7 DEF TaskStep
    <2>2. UNCHANGED <<state, globs, history, prompt>>
      BY <2>1 DEF TaskEnters, TaskReturns
    <2>3. \E to : tasks' = Moved(t, to)
      BY <2>1 DEF TaskEnters, TaskReturns
    <2>4. PICK s : s = tasks'
      OBVIOUS
    <2>5. IsFiniteSet(s)
      BY <1>0, <2>3, <2>4, MovedFinite
    <2>. QED
      BY <2>2, <2>4, <2>5 DEF PromptInv, IsState, GoalFirst
  <1>8. CASE MapReturns
    <2>1. UNCHANGED <<state, history, prompt>> /\ tasks' \subseteq tasks
      BY <1>8 DEF MapReturns
    <2>2. globs' = globs \/ globs' = [globs EXCEPT !.SUMS = InOrder(code.map)]
      BY <1>8 DEF MapReturns
    <2>3. PICK l : l = InOrder(code.map)
      OBVIOUS
    <2>4. \E T : l \in Seq(T)
      BY <1>0, <2>3, InOrderIsList
    <2>5. globs' = globs \/ globs' = [Final |-> globs.Final, SUMS |-> l]
      BY <1>0, <2>2, <2>3 DEF IsState
    <2>6. IsState(globs')
      BY <1>0, <2>4, <2>5 DEF IsState
    <2>7. PICK s : s = tasks'
      OBVIOUS
    <2>8. IsFiniteSet(s)
      BY <1>0, <2>1, <2>7, FS_Subset
    <2>. QED
      BY <2>1, <2>6, <2>7, <2>8 DEF PromptInv, IsState, GoalFirst
  <1>9. CASE CodeEnds
    <2>1. /\ state' \in {state, globs} /\ globs' = Fresh /\ UNCHANGED <<tasks, prompt>>
          /\ \E printed \in Prints : history' = Append(history, printed)
      BY <1>9 DEF CodeEnds, TakenOver
    <2>2. history' \in Seq(Prints)
      BY <1>0, <2>1
    <2>3. IsState(state') /\ IsState(globs')
      BY <1>0, <1>1, <2>1
    <2>. QED
      BY <2>1, <2>2, <2>3 DEF PromptInv, IsState, GoalFirst
  <1>10. CASE CodeBreaks
    <2>1. globs' = Fresh /\ UNCHANGED <<state, history, tasks, prompt>>
      BY <1>10 DEF CodeBreaks
    <2>. QED
      BY <1>1, <2>1 DEF PromptInv, IsState, GoalFirst
  <1>11. CASE UNCHANGED <<state, globs, history, tasks, prompt>>
    BY <1>11 DEF PromptInv, IsState, GoalFirst
  <1>12. CASE TimePasses \/ StoreRaises \/ LlmQuery \/ Catches \/ QueryReturns
    BY <1>11, <1>12 DEF TimePasses, StoreRaises, LlmQuery, Does, Catches, QueryReturns
  <1>. QED
    BY <1>2, <1>3, <1>4, <1>5, <1>6, <1>7, <1>8, <1>9, <1>10, <1>11, <1>12
       DEF Next, CodeStep, KernelStep, vars

\* Every prompt is at most the line of the goal longer than the cap, and what is weighed for
\* it keeps the goal if it fits, for every goal, cap, list and history of the kernel's
\* (pack_ctx, apply_cohesion_rule, build_rlm_prompt).
THEOREM GoalStaysInContext == Spec => []GoalAnchored
  <1>1. PromptInv => GoalAnchored
    <2>. SUFFICES ASSUME PromptInv PROVE GoalAnchored
      OBVIOUS
    <2>1. PICK p : p = prompt
      OBVIOUS
    <2>2. PICK packed : packed = PackCtx(p, Cap)
      OBVIOUS
    <2>3. PICK out : out = ApplyCohesion(packed, p, Cap)
      OBVIOUS
    <2>4. Kept = out
      BY <2>1, <2>2, <2>3 DEF Kept, PackedUnder
    <2>5. p \in Seq(ItemType)
      <3>1. << >> \in Seq(ItemType)
        OBVIOUS
      <3>. QED
        BY <2>1, <3>1 DEF PromptInv, GoalFirst
    <2>6. /\ CostOf(out) \in Nat /\ CostOf(out) <= Cap
          /\ Anchored(p) /\ p[1].cost <= Cap /\ p[1].id \in packed => p[1] \in ToSet(out)
      BY <2>3, <2>5, KernelAssumption, CohesionKeeps
    <2>7. ASSUME p # << >>, p[1].cost <= Cap PROVE 1 \in {it.id : it \in ToSet(out)}
      <3>1. /\ Len(p) > 0 /\ p[1] = Goal
            /\ \A k \in 2..Len(p) : Light(p[k])
        BY <2>1, <2>7 DEF PromptInv, GoalFirst
      <3>2. Anchored(p)
        <4>1. Goal.critical
          BY DEF Goal, Item
        <4>2. \A k \in 2..Len(p) : ~p[k].critical
          BY <3>1 DEF Light
        <4>. QED
          BY <3>1, <4>1, <4>2 DEF Anchored
      <3>3. Goal.id = 1 /\ Goal.cost = GoalCost
        BY DEF Goal, Item
      <3>4. PICK g : g = Goal
        OBVIOUS
      <3>5. g \in ToSet(p) /\ g.cost <= Cap
        <4>1. 1 \in DOMAIN p
          BY <2>5, <3>1
        <4>. QED
          BY <2>7, <3>1, <3>4, <4>1 DEF ToSet
      <3>6. \A x \in ToSet(p) : x = g \/ (Precedes(g, x) /\ ~Precedes(x, g))
        <4>. TAKE x \in ToSet(p)
        <4>1. PICK k \in 1..Len(p) : x = p[k]
          BY <2>5 DEF ToSet
        <4>2. CASE k = 1
          BY <3>1, <3>4, <4>1, <4>2
        <4>3. CASE k # 1
          <5>1. k \in 2..Len(p) /\ x \in ItemType
            BY <2>5, <4>1, <4>3
          <5>2. Light(x) /\ GoalCost <= Cap
            BY <2>7, <3>1, <3>3, <4>1, <5>1
          <5>. QED
            BY <3>4, <5>1, <5>2, GoalOutweighs
        <4>. QED
          BY <4>2, <4>3
      <3>7. ~Precedes(g, g)
        <4>1. g.id = 1 /\ g.cost = GoalCost
          BY <3>3, <3>4
        <4>2. PICK w : w = Relevance(g) * Per(g)
          OBVIOUS
        <4>3. w \in Nat
          <5>1. Relevance(g) = GoalCost + Boost
            BY <3>4 DEF Relevance, Goal, Item
          <5>2. Per(g) \in Nat
            BY <4>1, KernelAssumption DEF Per
          <5>3. GoalCost + Boost \in Nat
            BY KernelAssumption, BoostAssumption
          <5>. QED
            BY <4>2, <5>1, <5>2, <5>3
        <4>. QED
          BY <4>1, <4>2, <4>3, KernelAssumption DEF Precedes
      <3>8. g.id \in packed
        BY <2>2, <2>5, <3>5, <3>6, <3>7, KernelAssumption, FirstIsPacked
      <3>9. g \in ToSet(out)
        BY <2>6, <2>7, <3>1, <3>2, <3>4, <3>8
      <3>. QED
        BY <3>3, <3>4, <3>9
    <2>8. Sent <= GoalCost + Cap
      <3>1. Sent = GoalCost + CostOf(out)
        BY <2>4 DEF Sent, PromptCost, Kept
      <3>. QED
        BY <2>6, <3>1, KernelAssumption
    <2>. QED
      BY <2>1, <2>4, <2>7, <2>8 DEF GoalAnchored
  <1>. QED
    BY <1>1, PromptInit, PromptStep, PTL DEF Spec

-----------------------------------------------------------------------------
(* The caches of the tool search                                           *)

\* The request is a record of its fields, and they say where it is.
ReqOK ==
  /\ req = [at |-> req.at, kind |-> req.kind, q |-> req.q, mode |-> req.mode, k |-> req.k,
            strict |-> req.strict, alike |-> req.alike, cat |-> req.cat, names |-> req.names,
            shown |-> req.shown, changed |-> req.changed, error |-> req.error]
  /\ req.kind # "" => req.q \in Queries
  /\ req.kind # "cached" => ~req.alike
  /\ req.kind = "assemble" => req.strict
  /\ req.at \in {"load", "search", "hydrate"} => req.kind # "" /\ req.error = "none"
  /\ req.at = "hydrate" => req.kind = "assemble"

\* A cache holds for a catalog what is made of that catalog.
RewritesOK == \A h \in DOMAIN rewrites : rewrites[h] = RewriteMap(h)
IndexesOK == \A h \in DOMAIN indexes : indexes[h] = Index(h)

\* a was asked and names are its answer.
IsAnswer(a, names) == a \in asked /\ a.q \in Queries /\ names = Answer(a.cat, a.q, a.mode, a.k)

\* A kept search was asked, of the catalog its key names.
KeptSearch(e, a) ==
  /\ IsAnswer(a, e.names)
  /\ e.key = [norm |-> a.q.norm, hash |-> a.cat, mode |-> a.mode, k |-> a.k]
SearchesOK ==
  /\ \E S : searches \in Seq(S)
  /\ \A i \in DOMAIN searches : \E a \in asked : KeptSearch(searches[i], a)

\* The names of the request answer a search of its catalog, of the same normal form or similar.
Found1(a) ==
  /\ IsAnswer(a, req.names)
  /\ a.cat = req.cat /\ a.mode = req.mode /\ a.k = req.k
  /\ req.kind # "cached" => a.q = req.q
  /\ a.q.norm = req.q.norm \/ (req.alike /\ Similar(a.q, req.q))
NamesOK == req.at = "hydrate" \/ Succeeded => \E a \in asked : Found1(a)

CacheInv == ReqOK /\ RewritesOK /\ IndexesOK /\ SearchesOK /\ NamesOK

-----------------------------------------------------------------------------
(* Steps                                                                   *)

LEMMA InitCache == SearchInit => CacheInv
  <1>. SUFFICES ASSUME SearchInit PROVE CacheInv
    OBVIOUS
  <1>1. ReqOK /\ ~Succeeded /\ req.at # "hydrate"
    BY DEF SearchInit, NoRequest, ReqOK, Succeeded
  <1>2. RewritesOK /\ IndexesOK /\ SearchesOK
    <2>1. searches \in Seq({})
      BY DEF SearchInit
    <2>. QED
      BY <2>1 DEF SearchInit, RewritesOK, IndexesOK, SearchesOK
  <1>. QED
    BY <1>1, <1>2 DEF CacheInv, NamesOK

\* A step that leaves the caches alone keeps what is said of them.
LEMMA CachesKept ==
  ASSUME CacheInv, UNCHANGED <<rewrites, indexes, searches, asked>>
  PROVE  RewritesOK' /\ IndexesOK' /\ SearchesOK'
  BY DEF CacheInv, RewritesOK, IndexesOK, SearchesOK, KeptSearch, IsAnswer

\* With what is kept, the answer is that without.
LEMMA CachedAnswer ==
  ASSUME CacheInv
  PROVE  /\ MapNow = RewriteMap(req.cat) /\ IndexNow = Index(req.cat)
         /\ Find(req.cat, MapNow, IndexNow, req.q, req.mode, req.k)
              = Answer(req.cat, req.q, req.mode, req.k)
  <1>1. MapNow = RewriteMap(req.cat)
    BY DEF CacheInv, RewritesOK, MapNow, Known, HashOf
  <1>2. IndexNow = Index(req.cat)
    BY DEF CacheInv, IndexesOK, IndexNow, Known, HashOf
  <1>. QED
    BY <1>1, <1>2 DEF Answer

\* Two queries of one normal form are similar to the same queries.
LEMMA SimilarByNorm ==
  ASSUME NEW a \in Queries, NEW q
  PROVE  Similar(Asked(a.norm), q) => Similar(a, q)
  <1>1. Asked(a.norm) \in Queries /\ Asked(a.norm).norm = a.norm
    BY DEF Asked
  <1>2. Asked(a.norm).words = a.words
    BY <1>1, SearchAssumption
  <1>. QED
    BY <1>2 DEF Similar

LEMMA ReusesStep == ASSUME CacheInv, Reuses PROVE NamesOK' /\ ReqOK'
  <1>1. PICK i \in Reusable : req' = [req EXCEPT !.at = "done", !.names = searches[i].names]
    <2>. DEFINE same == {j \in Reusable : searches[j].key = Key}
                those == IF same # {} THEN same ELSE Reusable
    <2>1. \E i \in those : req' = [req EXCEPT !.at = "done", !.names = searches[i].names]
      BY DEF Reuses
    <2>. QED
      BY <2>1
  <1>2. i \in DOMAIN searches
    BY DEF Reusable
  <1>3. PICK a \in asked : KeptSearch(searches[i], a)
    BY <1>2 DEF CacheInv, SearchesOK
  <1>4. /\ searches[i].key.norm = a.q.norm /\ searches[i].key.hash = a.cat
        /\ searches[i].key.mode = a.mode /\ searches[i].key.k = a.k /\ a.q \in Queries
    BY <1>3 DEF KeptSearch, IsAnswer
  <1>5. /\ a.cat = req.cat /\ a.mode = req.mode /\ a.k = req.k
        /\ a.q.norm = req.q.norm \/ (req.alike /\ Similar(a.q, req.q))
    <2>1. CASE searches[i].key = Key
      BY <2>1, <1>4 DEF Key, HashOf
    <2>2. CASE searches[i].key # Key
      <3>1. /\ req.alike /\ [searches[i].key EXCEPT !.norm = Key.norm] = Key
            /\ Similar(Asked(searches[i].key.norm), req.q)
        BY <2>2 DEF Reusable
      <3>2. [norm |-> Key.norm, hash |-> a.cat, mode |-> a.mode, k |-> a.k] = Key
        BY <3>1, <1>3 DEF KeptSearch
      <3>3. a.cat = req.cat /\ a.mode = req.mode /\ a.k = req.k
        BY <3>2 DEF Key, HashOf
      <3>. QED
        BY <3>1, <3>3, <1>4, SimilarByNorm
    <2>. QED
      BY <2>1, <2>2
  <1>6. ReqOK' /\ req'.names = searches[i].names /\ UNCHANGED <<asked, req.cat, req.mode, req.k>>
           /\ req'.kind = req.kind /\ req.kind = "cached" /\ req'.q = req.q /\ req'.alike = req.alike
    BY <1>1 DEF CacheInv, ReqOK, Reuses
  <1>7. Found1(a)'
    BY <1>3, <1>5, <1>6 DEF Found1, KeptSearch, IsAnswer
  <1>. QED
    BY <1>6, <1>7 DEF NamesOK

LEMMA SearchStep == ASSUME CacheInv, SearchesTools PROVE CacheInv'
  <1>. DEFINE refusal == Refusal(req.cat, req.q, req.mode)
              names == Find(req.cat, MapNow, IndexNow, req.q, req.mode, req.k)
              a == [cat |-> req.cat, q |-> req.q, mode |-> req.mode, k |-> req.k]
  <1>1. /\ names = Answer(req.cat, req.q, req.mode, req.k)
        /\ MapNow = RewriteMap(req.cat) /\ IndexNow = Index(req.cat)
    BY CachedAnswer
  <1>2. RewritesOK'
    <2>1. rewrites' = rewrites \/ rewrites' = With(rewrites, req.cat, RewriteMap(req.cat))
      BY <1>1 DEF SearchesTools, HashOf
    <2>. QED
      BY <2>1 DEF CacheInv, RewritesOK, With
  <1>3. IndexesOK'
    <2>1. indexes' = indexes \/ indexes' = With(indexes, req.cat, Index(req.cat))
      BY <1>1 DEF SearchesTools, HashOf
    <2>. QED
      BY <2>1 DEF CacheInv, IndexesOK, With
  <1>4. req.at = "search" /\ req.q \in Queries /\ req.kind # "" /\ req.error = "none"
    BY DEF SearchesTools, CacheInv, ReqOK
  <1>5. CASE refusal # "none"
    <2>1. req' = [req EXCEPT !.at = "done", !.error = refusal] /\ UNCHANGED <<searches, asked>>
      BY <1>5 DEF SearchesTools, Fails
    <2>2. ReqOK' /\ ~Succeeded' /\ req'.at # "hydrate"
      BY <2>1, <1>5 DEF CacheInv, ReqOK, Succeeded
    <2>3. SearchesOK'
      BY <2>1 DEF CacheInv, SearchesOK, KeptSearch, IsAnswer
    <2>. QED
      BY <1>2, <1>3, <2>2, <2>3 DEF CacheInv, NamesOK
  <1>6. CASE refusal = "none"
    <2>1. PICK n, b : n = names /\ b = a
      OBVIOUS
    <2>2. /\ searches' = IF req.kind = "cached" THEN Append(searches, [key |-> Key, names |-> n])
                         ELSE searches
          /\ asked' = asked \cup {b}
          /\ req' = [req EXCEPT !.names = n,
                       !.at = IF req.kind = "assemble" THEN "hydrate" ELSE "done"]
      BY <1>6, <2>1 DEF SearchesTools
    <2>3. /\ n = Answer(b.cat, b.q, b.mode, b.k)
          /\ b.cat = req.cat /\ b.q = req.q /\ b.mode = req.mode /\ b.k = req.k
      BY <1>1, <2>1
    <2>4. /\ ReqOK' /\ req'.names = n /\ req'.cat = req.cat /\ req'.mode = req.mode
          /\ req'.k = req.k /\ req'.q = req.q
      <3>1. CASE req.kind = "assemble"
        <4>1. req' = [req EXCEPT !.names = n, !.at = "hydrate"]
          BY <2>2, <3>1
        <4>. QED
          BY ONLY <3>1, <4>1, <1>4, CacheInv DEF CacheInv, ReqOK
      <3>2. CASE req.kind # "assemble"
        <4>1. req' = [req EXCEPT !.names = n, !.at = "done"]
          BY <2>2, <3>2
        <4>. QED
          BY ONLY <3>2, <4>1, <1>4, CacheInv DEF CacheInv, ReqOK
      <3>. QED
        BY <3>1, <3>2
    <2>5. b \in asked' /\ IsAnswer(b, n)'
      BY <2>2, <2>3, <1>4 DEF IsAnswer
    <2>6. NamesOK'
      BY <2>3, <2>4, <2>5 DEF NamesOK, Found1
    <2>7. SearchesOK'
      <3>1. PICK S : searches \in Seq(S)
        BY DEF CacheInv, SearchesOK
      <3>2. PICK old, new, e : old = searches /\ new = searches' /\ e = [key |-> Key, names |-> n]
        OBVIOUS
      <3>3. ASSUME NEW i \in DOMAIN old PROVE \E c \in asked' : KeptSearch(old[i], c)'
        BY <2>2, <3>2 DEF CacheInv, SearchesOK, KeptSearch, IsAnswer
      <3>4. CASE req.kind # "cached"
        BY <3>1, <3>2, <3>3, <3>4, <2>2 DEF SearchesOK, KeptSearch, IsAnswer
      <3>5. CASE req.kind = "cached"
        <4>1. e.names = n /\ e.key = [norm |-> b.q.norm, hash |-> b.cat, mode |-> b.mode, k |-> b.k]
          BY <3>2, <2>3 DEF Key, HashOf
        <4>2. KeptSearch(e, b)'
          BY <4>1, <2>5 DEF KeptSearch
        <4>3. new = Append(old, e) /\ old \in Seq(S \cup {e})
          BY <3>1, <3>2, <3>5, <2>2
        <4>4. /\ new \in Seq(S \cup {e})
              /\ DOMAIN new = DOMAIN old \cup {Len(old) + 1}
              /\ \A i \in DOMAIN old : new[i] = old[i]
              /\ new[Len(old) + 1] = e
          BY <4>3
        <4>5. \A i \in DOMAIN new : \E c \in asked' : KeptSearch(new[i], c)'
          BY <4>2, <4>4, <3>3, <2>5
        <4>. QED
          BY <4>4, <4>5, <3>2 DEF SearchesOK, KeptSearch, IsAnswer
      <3>. QED
        BY <3>4, <3>5
    <2>. QED
      BY <1>2, <1>3, <2>4, <2>6, <2>7 DEF CacheInv
  <1>. QED
    BY <1>5, <1>6

LEMMA CacheStep == CacheInv /\ [SearchNext]_searchVars => CacheInv'
  <1>. SUFFICES ASSUME CacheInv, [SearchNext]_searchVars PROVE CacheInv'
    OBVIOUS
  <1>1. CASE Asks
    <2>1. PICK c \in Calls :
            req' = [NoRequest EXCEPT !.at = "load", !.kind = c.kind, !.q = c.q,
                      !.mode = ModeOf(c.q, c.mode), !.k = Least(c.k), !.strict = c.strict,
                      !.alike = c.alike]
      BY <1>1 DEF Asks
    <2>2. /\ c.kind \in {"search", "cached", "assemble"} /\ c.q \in Queries
          /\ c.kind = "assemble" => c.strict
          /\ c.kind # "cached" => ~c.alike
      BY SearchAssumption DEF CallType
    <2>3. ReqOK' /\ req'.at = "load"
      BY <2>1, <2>2 DEF ReqOK, NoRequest
    <2>. QED
      BY <1>1, <2>3, CachesKept DEF CacheInv, NamesOK, Succeeded, Asks
  <1>2. CASE Loads
    <2>1. \/ req' = [req EXCEPT !.at = "done", !.error = "load"]
          \/ req' = [req EXCEPT !.at = "search", !.cat = Catalog(disk)]
      BY <1>2 DEF Loads, Fails
    <2>2. ReqOK' /\ ~Succeeded' /\ req'.at # "hydrate"
      BY <1>2, <2>1 DEF CacheInv, ReqOK, Succeeded, Loads
    <2>. QED
      BY <1>2, <2>2, CachesKept DEF CacheInv, NamesOK, Loads
  <1>3. CASE Reuses
    BY <1>3, ReusesStep, CachesKept DEF CacheInv, Reuses
  <1>4. CASE SearchesTools
    BY <1>4, SearchStep
  <1>5. CASE Hydrates \/ Renders \/ Edits
    <2>1. UNCHANGED <<rewrites, indexes, searches, asked>>
      BY <1>5 DEF Hydrates, Renders, Edits
    <2>2. /\ ReqOK'
          /\ req'.names = req.names /\ req'.cat = req.cat /\ req'.mode = req.mode /\ req'.k = req.k
          /\ req'.kind = req.kind /\ req'.q = req.q /\ req'.alike = req.alike
          /\ req'.at = "hydrate" \/ Succeeded' => req.at = "hydrate" \/ Succeeded
      <3>1. CASE Hydrates
        <4>1. \/ \E m : req' = [req EXCEPT !.shown = m]
              \/ req' = [req EXCEPT !.at = "done", !.error = "hydrate"]
          BY <3>1 DEF Hydrates, Fails
        <4>. QED
          BY <3>1, <4>1 DEF CacheInv, ReqOK, Succeeded, Hydrates
      <3>2. CASE Renders
        <4>1. \/ req' = [req EXCEPT !.at = "done"]
              \/ req' = [req EXCEPT !.at = "done", !.error = "denied"]
          BY <3>2 DEF Renders, Fails
        <4>. QED
          BY <3>2, <4>1 DEF CacheInv, ReqOK, Succeeded, Renders
      <3>3. CASE Edits
        BY <3>3 DEF CacheInv, ReqOK, Succeeded, Edits
      <3>. QED
        BY <1>5, <3>1, <3>2, <3>3
    <2>3. NamesOK'
      BY <2>1, <2>2 DEF CacheInv, NamesOK, Found1, IsAnswer
    <2>. QED
      BY <2>1, <2>2, <2>3, CachesKept DEF CacheInv
  <1>6. CASE Clears
    <2>1. ReqOK' /\ ~Succeeded' /\ req'.at # "hydrate"
      BY <1>6 DEF Clears, NoRequest, ReqOK, Succeeded
    <2>2. searches' \in Seq({}) /\ DOMAIN searches' = {} /\ DOMAIN rewrites' = {} /\ DOMAIN indexes' = {}
      BY <1>6 DEF Clears
    <2>. QED
      BY <2>1, <2>2 DEF CacheInv, NamesOK, RewritesOK, IndexesOK, SearchesOK
  <1>7. CASE UNCHANGED searchVars
    <2>1. UNCHANGED <<req, rewrites, indexes, searches, asked>>
      BY <1>7 DEF searchVars
    <2>. QED
      BY <2>1, CachesKept DEF CacheInv, ReqOK, NamesOK, Succeeded, Found1, IsAnswer
  <1>. QED
    BY <1>1, <1>2, <1>3, <1>4, <1>5, <1>6, <1>7 DEF SearchNext

\* No cache changes an answer: equal query and catalog give equal names for any edits of the
\* manifests and any order of requests (search_tools, search_with_cache).
THEOREM SearchIsDeterministic == SearchSpec => []Deterministic
  <1>1. CacheInv => Deterministic
    BY DEF CacheInv, NamesOK, Found1, IsAnswer, Deterministic
  <1>. QED
    BY <1>1, InitCache, CacheStep, PTL DEF SearchSpec

-----------------------------------------------------------------------------
(* What is shown                                                           *)

\* While nobody edits the directory the catalog is what is in it.
CatalogOK ==
  ~req.changed /\ req.kind # "" /\ req.error = "none" /\ req.at \in {"search", "hydrate", "done"} =>
    /\ req.cat = Catalog(disk)
    /\ req.strict => ~LoadFails(disk)

\* Those shown are the first of the names.
ShownOK ==
  req.at = "hydrate" \/ (Succeeded /\ req.kind = "assemble") =>
    /\ \E S : req.shown \in Seq(S)
    /\ req.at = "done" => Len(req.shown) = Len(req.names)
    /\ \A i \in DOMAIN req.shown :
         /\ req.shown[i].name = req.names[i]
         /\ ~req.changed => req.shown[i] = req.cat[req.names[i]]

StartsEmpty == req.at \in {"load", "search"} => req.shown = << >>

ShownInv == CatalogOK /\ ShownOK /\ StartsEmpty

\* In a directory that is loaded strictly the manifest of a name is the file of that name, if
\* that is the name's.
LEMMA FileOfName ==
  ASSUME NEW dir, ~LoadFails(dir), NEW n, n \in Holders(dir, n)
  PROVE  Catalog(dir)[n] = dir[n]
  <1>1. n \in ToolNames /\ n \in Nat /\ n \in ToolFiles(dir) /\ dir[n].name = n
    BY SearchAssumption DEF Holders, ToolFiles
  <1>2. Holders(dir, n) = {n}
    BY <1>1 DEF LoadFails, Holders
  <1>3. Min({n}) = n
    <2>1. Min({n}) \in {n}
      BY <1>1 DEF Min
    <2>. QED
      BY <2>1
  <1>4. n \in {dir[f].name : f \in ToolFiles(dir)}
    BY <1>1
  <1>. QED
    BY <1>2, <1>3, <1>4 DEF Catalog

LEMMA HydrateStep == ASSUME ReqOK, ShownInv, Hydrates PROVE ShownInv'
  <1>. DEFINE n == req.names[Len(req.shown) + 1]
  <1>1. req.at = "hydrate" /\ req.kind = "assemble" /\ req.error = "none" /\ req.strict
    BY DEF Hydrates, ReqOK
  <1>2. CASE n \in Holders(disk, n)
    <2>1. req' = [req EXCEPT !.shown = Append(req.shown, disk[n])] /\ disk' = disk
      BY <1>2 DEF Hydrates
    <2>2. /\ req'.shown = Append(req.shown, disk[n]) /\ req'.names = req.names /\ req'.cat = req.cat
          /\ req'.changed = req.changed /\ req'.at = "hydrate" /\ req'.kind = req.kind
          /\ req'.error = req.error /\ req'.strict = req.strict
      BY <2>1, <1>1 DEF ReqOK
    <2>3. PICK S : req.shown \in Seq(S)
      BY <1>1 DEF ShownInv, ShownOK
    <2>4. req.shown \in Seq(S \cup {disk[n]})
      BY <2>3
    <2>5. /\ req'.shown \in Seq(S \cup {disk[n]})
          /\ DOMAIN req'.shown = DOMAIN req.shown \cup {Len(req.shown) + 1}
          /\ \A i \in DOMAIN req.shown : req'.shown[i] = req.shown[i]
          /\ req'.shown[Len(req.shown) + 1] = disk[n]
      BY <2>2, <2>4
    <2>6. disk[n].name = n
      BY <1>2 DEF Holders
    <2>7. ~req.changed => disk[n] = req.cat[n]
      BY <1>1, <1>2, FileOfName DEF ShownInv, CatalogOK
    <2>8. ShownOK'
      <3>1. ASSUME NEW i \in DOMAIN req'.shown
            PROVE  /\ req'.shown[i].name = req'.names[i]
                   /\ ~req'.changed => req'.shown[i] = req'.cat[req'.names[i]]
        <4>1. CASE i \in DOMAIN req.shown
          BY <4>1, <2>2, <2>5, <1>1 DEF ShownInv, ShownOK
        <4>2. CASE i = Len(req.shown) + 1
          BY <4>2, <2>2, <2>5, <2>6, <2>7
        <4>. QED
          BY <4>1, <4>2, <2>5
      <3>. QED
        BY <3>1, <2>2, <2>5 DEF ShownOK
    <2>. QED
      BY <2>1, <2>2, <2>8, <1>1 DEF ShownInv, CatalogOK, StartsEmpty
  <1>3. CASE n \notin Holders(disk, n)
    <2>1. req' = [req EXCEPT !.at = "done", !.error = "hydrate"]
      BY <1>3 DEF Hydrates, Fails
    <2>2. req'.at = "done" /\ req'.error = "hydrate"
      BY <2>1 DEF ReqOK
    <2>. QED
      BY <2>2 DEF ShownInv, CatalogOK, ShownOK, StartsEmpty, Succeeded
  <1>. QED
    BY <1>2, <1>3

LEMMA ShownStep == CacheInv /\ ShownInv /\ [SearchNext]_searchVars => ShownInv'
  <1>. SUFFICES ASSUME ReqOK, ShownInv, [SearchNext]_searchVars PROVE ShownInv'
    BY DEF CacheInv
  <1>1. CASE Asks
    <2>1. PICK c \in Calls :
            req' = [NoRequest EXCEPT !.at = "load", !.kind = c.kind, !.q = c.q,
                      !.mode = ModeOf(c.q, c.mode), !.k = Least(c.k), !.strict = c.strict,
                      !.alike = c.alike]
      BY <1>1 DEF Asks
    <2>2. req'.at = "load" /\ req'.shown = << >>
      BY <2>1 DEF NoRequest
    <2>. QED
      BY <2>2 DEF ShownInv, CatalogOK, ShownOK, StartsEmpty, Succeeded
  <1>2. CASE Loads
    <2>1. CASE req.strict /\ LoadFails(disk)
      <3>1. req' = [req EXCEPT !.at = "done", !.error = "load"]
        BY <1>2, <2>1 DEF Loads, Fails
      <3>2. req'.at = "done" /\ req'.error = "load"
        BY <3>1 DEF ReqOK
      <3>. QED
        BY <3>2 DEF ShownInv, CatalogOK, ShownOK, StartsEmpty, Succeeded
    <2>2. CASE ~(req.strict /\ LoadFails(disk))
      <3>1. req' = [req EXCEPT !.at = "search", !.cat = Catalog(disk)] /\ disk' = disk
        BY <1>2, <2>2 DEF Loads
      <3>2. /\ req'.at = "search" /\ req'.cat = Catalog(disk) /\ req'.shown = req.shown
            /\ req'.strict = req.strict
        BY <3>1 DEF ReqOK
      <3>. QED
        BY <1>2, <2>2, <3>1, <3>2 DEF ShownInv, CatalogOK, ShownOK, StartsEmpty, Succeeded, Loads
    <2>. QED
      BY <2>1, <2>2
  <1>3. CASE Reuses
    <2>1. PICK names : req' = [req EXCEPT !.at = "done", !.names = names]
      BY <1>3 DEF Reuses
    <2>2. /\ req'.at = "done" /\ req'.kind = req.kind /\ req.kind = "cached" /\ req'.cat = req.cat
          /\ req'.changed = req.changed /\ req'.strict = req.strict /\ req'.error = req.error
          /\ disk' = disk /\ req.at = "search"
      BY <1>3, <2>1 DEF ReqOK, Reuses
    <2>. QED
      BY <2>2 DEF ShownInv, CatalogOK, ShownOK, StartsEmpty, Succeeded
  <1>4. CASE SearchesTools
    <2>1. CASE Refusal(req.cat, req.q, req.mode) # "none"
      <3>. DEFINE e == Refusal(req.cat, req.q, req.mode)
      <3>. HIDE DEF e
      <3>1. req' = [req EXCEPT !.at = "done", !.error = e]
        BY <1>4, <2>1 DEF SearchesTools, Fails, e
      <3>2. req'.at = "done" /\ req'.error # "none"
        BY <3>1, <2>1 DEF ReqOK, e
      <3>. QED
        BY <3>2 DEF ShownInv, CatalogOK, ShownOK, StartsEmpty, Succeeded
    <2>2. CASE Refusal(req.cat, req.q, req.mode) = "none"
      <3>1. PICK names : req' = [req EXCEPT !.names = names,
                                   !.at = IF req.kind = "assemble" THEN "hydrate" ELSE "done"]
        BY <1>4, <2>2 DEF SearchesTools
      <3>2. /\ req'.at = IF req.kind = "assemble" THEN "hydrate" ELSE "done"
            /\ req'.kind = req.kind /\ req'.cat = req.cat /\ req'.changed = req.changed
            /\ req'.strict = req.strict /\ req'.error = req.error /\ req'.shown = req.shown
            /\ disk' = disk /\ req.at = "search" /\ req.shown = << >>
        BY <1>4, <3>1 DEF ReqOK, SearchesTools, ShownInv, StartsEmpty
      <3>3. req'.shown \in Seq({}) /\ DOMAIN req'.shown = {}
        BY <3>2
      <3>. QED
        BY <3>2, <3>3 DEF ShownInv, CatalogOK, ShownOK, StartsEmpty, Succeeded
    <2>. QED
      BY <2>1, <2>2
  <1>5. CASE Hydrates
    BY <1>5, HydrateStep
  <1>6. CASE Renders
    <2>1. \/ req' = [req EXCEPT !.at = "done"]
          \/ req' = [req EXCEPT !.at = "done", !.error = "denied"]
      BY <1>6 DEF Renders, Fails
    <2>2. /\ req'.at = "done" /\ req'.error \in {req.error, "denied"} /\ req.at = "hydrate"
          /\ req'.kind = req.kind /\ req'.cat = req.cat /\ req'.changed = req.changed
          /\ req'.strict = req.strict /\ req'.shown = req.shown /\ req'.names = req.names
          /\ disk' = disk /\ Len(req.shown) = Len(req.names)
      BY <1>6, <2>1 DEF ReqOK, Renders
    <2>. QED
      BY <2>2 DEF ReqOK, ShownInv, CatalogOK, ShownOK, StartsEmpty, Succeeded
  <1>7. CASE Clears
    <2>1. req'.at = "idle"
      BY <1>7 DEF Clears, NoRequest
    <2>. QED
      BY <2>1 DEF ShownInv, CatalogOK, ShownOK, StartsEmpty, Succeeded
  <1>8. CASE Edits
    <2>1. /\ req'.changed /\ req'.at = req.at /\ req'.kind = req.kind /\ req'.error = req.error
          /\ req'.shown = req.shown /\ req'.names = req.names
      BY <1>8 DEF ReqOK, Edits
    <2>. QED
      BY <2>1 DEF ShownInv, CatalogOK, ShownOK, StartsEmpty, Succeeded
  <1>9. CASE UNCHANGED searchVars
    BY <1>9 DEF searchVars, ShownInv, CatalogOK, ShownOK, StartsEmpty, Succeeded
  <1>. QED
    BY <1>1, <1>2, <1>3, <1>4, <1>5, <1>6, <1>7, <1>8, <1>9 DEF SearchNext

\* What a compilation shows the model are the manifests that were ranked, in their order, if
\* the directory is left alone, and their names in any case (assemble_tools_topk,
\* load_selected).
THEOREM ShownAreTheRanked == SearchSpec => []ShownIsRanked
  <1>1. SearchInit => ShownInv
    <2>. SUFFICES ASSUME SearchInit PROVE ShownInv
      OBVIOUS
    <2>1. req = NoRequest
      BY DEF SearchInit
    <2>2. req.at = "idle"
      BY ONLY <2>1 DEF NoRequest
    <2>. QED
      BY ONLY <2>2 DEF ShownInv, CatalogOK, ShownOK, StartsEmpty, Succeeded
  <1>2. ShownInv => ShownIsRanked
    BY DEF ShownInv, ShownOK, ShownIsRanked, Succeeded
  <1>. QED
    BY <1>1, <1>2, InitCache, CacheStep, ShownStep, PTL DEF SearchSpec

-----------------------------------------------------------------------------
(* Which tool comes first                                                  *)

Directories == [ToolNames -> Manifests \cup {Absent}]

\* The least of some numbers is one of them.
LEMMA MinIs ==
  ASSUME NEW S \in SUBSET Nat, S # {}
  PROVE  Min(S) \in S
  <1>. DEFINE R == {p \in Nat \X Nat : p[1] < p[2]}
  <1>1. IsWellFoundedOn(R, Nat)
    BY NatLessThanWellFounded, Zenon DEF OpToRel
  <1>2. \A a, b \in Nat : <<a, b>> \notin R => b <= a
    OBVIOUS
  <1>. HIDE DEF R
  <1>3. PICK x \in S : TRUE
    OBVIOUS
  <1>4. PICK m \in S : \A y \in S : <<y, m>> \notin R
    BY <1>1, <1>3, WFMin
  <1>5. \A y \in S : m <= y
    BY <1>2, <1>4
  <1>. QED
    BY <1>5 DEF Min

\* A catalog has finitely many names, which are numbers, and manifests with a flag and a
\* number of arguments.
LEMMA CatalogIs ==
  ASSUME NEW dir \in Directories, NEW cat, cat = Catalog(dir)
  PROVE  /\ IsFiniteSet(DOMAIN cat) /\ DOMAIN cat \subseteq Nat
         /\ \A n \in DOMAIN cat : cat[n].args \in Nat /\ cat[n].hot \in BOOLEAN
  <1>1. \A f \in ToolNames :
          dir[f].name \in Nat /\ dir[f].args \in Nat /\ dir[f].hot \in BOOLEAN
    <2>1. ASSUME NEW m \in ManifestType PROVE m.name \in Nat /\ m.args \in Nat /\ m.hot \in BOOLEAN
      <3>1. m.name \in ToolNames \cup {0}
        BY DEF ManifestType
      <3>2. m.args \in Nat /\ m.hot \in BOOLEAN
        BY DEF ManifestType
      <3>3. ToolNames \cup {0} \subseteq Nat
        BY SearchAssumption
      <3>. QED
        BY <3>1, <3>2, <3>3
    <2>2. Absent.name \in Nat /\ Absent.args \in Nat /\ Absent.hot \in BOOLEAN
      BY DEF Absent
    <2>3. ASSUME NEW f \in ToolNames PROVE dir[f] \in ManifestType \/ dir[f] = Absent
      BY SearchAssumption DEF Directories
    <2>. QED
      BY <2>1, <2>2, <2>3
  <1>2. ToolFiles(dir) \subseteq ToolNames /\ IsFiniteSet(ToolFiles(dir))
    <2>1. ToolFiles(dir) \subseteq ToolNames
      BY DEF ToolFiles
    <2>. QED
      BY <2>1, SearchAssumption, FS_Subset
  <1>3. DOMAIN cat = {dir[f].name : f \in ToolFiles(dir)}
    BY DEF Catalog
  <1>4. IsFiniteSet(DOMAIN cat)
    <2>. DEFINE g == [f \in ToolFiles(dir) |-> dir[f].name]
    <2>1. g \in Surjection(ToolFiles(dir), DOMAIN cat)
      BY <1>3 DEF Surjection
    <2>. HIDE DEF g
    <2>. QED
      BY <1>2, <2>1, FS_Surjection
  <1>5. DOMAIN cat \subseteq Nat
    BY <1>1, <1>2, <1>3
  <1>6. ASSUME NEW n \in DOMAIN cat PROVE cat[n].args \in Nat /\ cat[n].hot \in BOOLEAN
    <2>1. PICK H : H = Holders(dir, n)
      OBVIOUS
    <2>2. H \subseteq ToolNames /\ H # {} /\ H \subseteq Nat
      BY <1>2, <1>3, <2>1, SearchAssumption DEF Holders
    <2>3. Min(H) \in H
      BY <2>2, MinIs
    <2>4. cat[n] = dir[Min(H)]
      BY <1>3, <2>1 DEF Catalog
    <2>. QED
      BY <1>1, <2>2, <2>3, <2>4
  <1>. QED
    BY <1>4, <1>5, <1>6

\* By weight, flag, arguments and name: an order, whatever the weights.
Lexicographic(R, D, w, h, g) ==
  \A a, b \in D :
    <<a, b>> \in R <=>
      \/ w[a] > w[b]
      \/ /\ w[a] = w[b]
         /\ \/ a \in h /\ b \notin h
            \/ (a \in h <=> b \in h) /\ g[a] < g[b]
            \/ (a \in h <=> b \in h) /\ g[a] = g[b] /\ a < b

LEMMA WeightOrders ==
  ASSUME NEW D \in SUBSET Nat, NEW w \in [D -> Int], NEW h \in SUBSET D, NEW g \in [D -> Nat],
         NEW R, Lexicographic(R, D, w, h, g)
  PROVE  Orders(R, D)
  <1>. DEFINE Lt(a, b) ==
         \/ w[a] > w[b]
         \/ /\ w[a] = w[b]
            /\ \/ a \in h /\ b \notin h
               \/ (a \in h <=> b \in h) /\ g[a] < g[b]
               \/ (a \in h <=> b \in h) /\ g[a] = g[b] /\ a < b
  <1>1. \A a, b \in D : <<a, b>> \in R <=> Lt(a, b)
    BY DEF Lexicographic
  <1>2. \A a \in D : w[a] \in Int /\ g[a] \in Nat /\ a \in Nat
    OBVIOUS
  <1>3. \A a \in D : ~Lt(a, a)
    BY <1>2
  <1>4. \A a, b \in D : a = b \/ Lt(a, b) \/ Lt(b, a)
    BY <1>2
  <1>5. \A a, b, c \in D : Lt(a, b) /\ Lt(b, c) => Lt(a, c)
    BY <1>2
  <1>. HIDE DEF Lt
  <1>. QED
    BY <1>1, <1>3, <1>4, <1>5 DEF Orders

\* So what is scored has every name of the catalog.
LEMMA ScoredHasAll ==
  ASSUME NEW dir \in Directories, NEW cat, cat = Catalog(dir), NEW q \in Queries,
         NEW index, index = Index(cat), NEW words, words = Rewrite(q.words, RewriteMap(cat)),
         NEW names, names = Scored(index, words)
  PROVE  /\ names \in Seq(DOMAIN cat) /\ Len(names) = Cardinality(DOMAIN cat)
         /\ Cardinality(DOMAIN cat) \in Nat
         /\ \A x \in DOMAIN cat : \E n \in DOMAIN names : names[n] = x
  <1>1. PICK D : D = DOMAIN cat
    OBVIOUS
  <1>2. /\ IsFiniteSet(D) /\ D \subseteq Nat
        /\ \A n \in D : cat[n].args \in Nat /\ cat[n].hot \in BOOLEAN
    BY <1>1, CatalogIs
  <1>3. DOMAIN index.docs = D
    BY <1>1 DEF Index
  <1>4. \A n \in D : index.docs[n].hot = cat[n].hot /\ index.docs[n].args = cat[n].args
    BY <1>1 DEF Index
  <1>5. PICK w : w = [n \in D |-> Weight(index, words, n)]
    OBVIOUS
  <1>6. w \in [D -> Int]
    <2>1. \A n \in D : Weight(index, words, n) \in Int
      BY <1>1, WeightAssumption DEF Directories
    <2>. QED
      BY <1>5, <2>1
  <1>7. PICK h : h = {n \in D : cat[n].hot}
    OBVIOUS
  <1>8. PICK g : g = [n \in D |-> cat[n].args]
    OBVIOUS
  <1>9. g \in [D -> Nat] /\ h \in SUBSET D
    BY <1>2, <1>7, <1>8
  <1>10. PICK R : R = ByWeight(index, words)
    OBVIOUS
  <1>11. Orders(R, D)
    <2>1. ASSUME NEW a \in D, NEW b \in D
          PROVE  <<a, b>> \in R <=>
                   \/ w[a] > w[b]
                   \/ /\ w[a] = w[b]
                      /\ \/ a \in h /\ b \notin h
                         \/ (a \in h <=> b \in h) /\ g[a] < g[b]
                         \/ (a \in h <=> b \in h) /\ g[a] = g[b] /\ a < b
      <3>1. <<a, b>> \in R <=>
              \/ w[a] > w[b]
              \/ w[a] = w[b] /\ Ties(a, index.docs[a], b, index.docs[b])
        BY <1>3, <1>5, <1>10 DEF ByWeight
      <3>2. Ties(a, index.docs[a], b, index.docs[b]) <=>
              \/ a \in h /\ b \notin h
              \/ (a \in h <=> b \in h) /\ g[a] < g[b]
              \/ (a \in h <=> b \in h) /\ g[a] = g[b] /\ a < b
        <4>1. /\ index.docs[a].args = g[a] /\ index.docs[b].args = g[b]
              /\ index.docs[a].hot <=> a \in h
              /\ index.docs[b].hot <=> b \in h
              /\ index.docs[a].hot = index.docs[b].hot <=> (a \in h <=> b \in h)
          BY <1>2, <1>4, <1>7, <1>8
        <4>. QED
          BY <4>1 DEF Ties
      <3>. QED
        BY <3>1, <3>2
    <2>. QED
      <3>1. Lexicographic(R, D, w, h, g)
        BY <2>1 DEF Lexicographic
      <3>. QED
        BY <1>2, <1>6, <1>9, <3>1, WeightOrders
  <1>12. names = Ranked(D, R)
    BY <1>3, <1>10 DEF Scored
  <1>. QED
    BY <1>1, <1>2, <1>11, <1>12, RankedIsInOrder

\* What is moved up stays, and what alone is moved up leads.
LEMMA UpKeeps ==
  ASSUME NEW T, NEW s \in Seq(T), NEW chosen, NEW u, u = Up(s, chosen)
  PROVE  /\ u \in Seq(T)
         /\ \A i \in DOMAIN s : \E j \in DOMAIN u : u[j] = s[i]
         /\ \A i \in DOMAIN s : chosen = {s[i]} => Len(u) > 0 /\ u[1] = s[i]
  <1>1. PICK I : I = {i \in DOMAIN s : s[i] \in chosen}
    OBVIOUS
  <1>2. PICK J : J = {i \in DOMAIN s : s[i] \notin chosen}
    OBVIOUS
  <1>3. PICK p : p = Picked(s, I)
    OBVIOUS
  <1>4. PICK r : r = Picked(s, J)
    OBVIOUS
  <1>5. p \in Seq(T) /\ Len(p) \in Nat /\ DOMAIN p = 1..Len(p) /\ \E f : PickedAt(p, s, I, f)
    BY <1>1, <1>3, PickedAre
  <1>6. r \in Seq(T) /\ Len(r) \in Nat /\ DOMAIN r = 1..Len(r) /\ \E f : PickedAt(r, s, J, f)
    BY <1>2, <1>4, PickedAre
  <1>7. u = p \o r
    BY <1>1, <1>2, <1>3, <1>4 DEF Up
  <1>8. PICK n \in Nat, m \in Nat : n = Len(p) /\ m = Len(r)
    BY <1>5, <1>6
  <1>9. /\ u \in Seq(T) /\ Len(u) = n + m
        /\ \A i \in 1..(n + m) : u[i] = IF i <= n THEN p[i] ELSE r[i - n]
    <2>1. p \in Seq(T) /\ r \in Seq(T) /\ n = Len(p) /\ m = Len(r)
      BY <1>5, <1>6, <1>8
    <2>. QED
      BY <1>7, <2>1, Joined
  <1>10. DOMAIN u = 1..(n + m)
    BY <1>9
  <1>11. PICK f : PickedAt(p, s, I, f)
    BY <1>5
  <1>12. PICK g : PickedAt(r, s, J, g)
    BY <1>6
  <1>13. \A i \in I : \E j \in 1..n : p[j] = s[i]
    BY <1>8, <1>11 DEF PickedAt
  <1>14. \A i \in J : \E j \in 1..m : r[j] = s[i]
    BY <1>8, <1>12 DEF PickedAt
  <1>15. ASSUME NEW i \in DOMAIN s PROVE \E j \in DOMAIN u : u[j] = s[i]
    <2>1. CASE i \in I
      <3>1. PICK j \in 1..n : p[j] = s[i]
        BY <1>13, <2>1
      <3>2. j \in 1..(n + m) /\ j <= n
        OBVIOUS
      <3>. QED
        BY <1>9, <1>10, <3>1, <3>2
    <2>2. CASE i \in J
      <3>1. PICK j \in 1..m : r[j] = s[i]
        BY <1>14, <2>2
      <3>2. n + j \in 1..(n + m) /\ ~(n + j <= n) /\ (n + j) - n = j
        OBVIOUS
      <3>. QED
        BY <1>9, <1>10, <3>1, <3>2
    <2>. QED
      BY <1>1, <1>2, <2>1, <2>2
  <1>16. ASSUME NEW i \in DOMAIN s, chosen = {s[i]} PROVE Len(u) > 0 /\ u[1] = s[i]
    <2>1. i \in I
      BY <1>1, <1>16
    <2>2. n > 0
      BY <1>13, <2>1
    <2>3. 1 \in 1..n /\ 1 \in 1..(n + m) /\ 1 <= n /\ n + m > 0
      BY <2>2
    <2>4. p[1] = s[f[1]] /\ f[1] \in I
      BY <1>8, <1>11, <2>3 DEF PickedAt
    <2>5. s[f[1]] \in chosen
      BY <1>1, <2>4
    <2>. QED
      BY <1>9, <1>16, <2>3, <2>4, <2>5
  <1>. QED
    BY <1>9, <1>15, <1>16

\* The first of a list begin as it does, and are all of a short one.
LEMMA FirstKeeps ==
  ASSUME NEW T, NEW s \in Seq(T), NEW k \in Nat, NEW p, p = First(s, k)
  PROVE  /\ Len(s) <= k => p = s
         /\ k > 0 /\ Len(s) > 0 => p # << >> /\ Head(p) = s[1]
  <1>1. PICK n \in Nat : n = Len(s)
    OBVIOUS
  <1>2. PICK l \in Nat : l = (IF n < k THEN n ELSE k) /\ l <= n
    BY <1>1
  <1>3. p = SubSeq(s, 1, l)
    BY <1>1, <1>2 DEF First
  <1>4. /\ p \in Seq(T) /\ Len(p) = l
        /\ \A i \in 1..l : p[i] = s[i]
    BY <1>1, <1>2, <1>3
  <1>5. ASSUME n <= k PROVE p = s
    <2>1. l = n
      BY <1>2, <1>5
    <2>. QED
      BY <1>1, <1>4, <2>1, SeqEqual
  <1>6. ASSUME k > 0, n > 0 PROVE p # << >> /\ Head(p) = s[1]
    <2>1. l > 0 /\ 1 \in 1..l
      BY <1>2, <1>6
    <2>2. p # << >> /\ Head(p) = p[1]
      BY <1>4, <2>1
    <2>. QED
      BY <1>4, <2>1, <2>2
  <1>. QED
    BY <1>1, <1>5, <1>6

\* The answer of a catalog that is not cut begins with the tool that is named.
LEMMA AnswerLeads ==
  ASSUME NEW dir \in Directories, NEW cat, cat = Catalog(dir), NEW q \in Queries,
         NEW k \in Nat, k > 0, q.exact \in DOMAIN cat, Cardinality(DOMAIN cat) <= Cut,
         NEW names, names = Answer(cat, q, "bm25", k)
  PROVE  names # << >> /\ Head(names) = q.exact
  <1>1. PICK index : index = Index(cat)
    OBVIOUS
  <1>2. PICK words : words = Rewrite(q.words, RewriteMap(cat))
    OBVIOUS
  <1>3. PICK s : s = Scored(index, words)
    OBVIOUS
  <1>4. PICK D, c : D = DOMAIN cat /\ c = Cardinality(D)
    OBVIOUS
  <1>5. s \in Seq(D) /\ Len(s) = c /\ c \in Nat /\ \A x \in D : \E n \in DOMAIN s : s[n] = x
    BY <1>1, <1>2, <1>3, <1>4, ScoredHasAll
  <1>6. PICK t : t = First(s, Cut)
    OBVIOUS
  <1>7. t = s
    BY <1>4, <1>5, <1>6, SearchAssumption, FirstKeeps
  <1>8. PICK spaced : spaced = {n \in ToolNames : q.dotted /\ Space[n] = q.ns}
    OBVIOUS
  <1>9. PICK u : u = Up(t, spaced)
    OBVIOUS
  <1>10. PICK v : v = Up(u, {q.exact})
    OBVIOUS
  <1>11. u \in Seq(D) /\ \A i \in DOMAIN s : \E j \in DOMAIN u : u[j] = s[i]
    <2>1. u \in Seq(D) /\ \A i \in DOMAIN t : \E j \in DOMAIN u : u[j] = t[i]
      <3>1. t \in Seq(D)
        BY <1>5, <1>7
      <3>. QED
        BY <1>9, <3>1, UpKeeps
    <2>. QED
      BY <1>7, <2>1
  <1>12. PICK j \in DOMAIN u : u[j] = q.exact
    BY <1>4, <1>5, <1>11
  <1>13. v \in Seq(D) /\ Len(v) > 0 /\ v[1] = q.exact
    <2>1. {q.exact} = {u[j]}
      BY <1>12
    <2>2. PICK chosen : chosen = {u[j]} /\ v = Up(u, chosen)
      BY <1>10, <2>1
    <2>3. v \in Seq(D) /\ Len(v) > 0 /\ v[1] = u[j]
      BY <1>11, <2>2, UpKeeps
    <2>. QED
      BY <1>12, <2>3
  <1>14. names = First(v, k)
    <2>1. names = Boosted(s, q, k)
      BY <1>1, <1>2, <1>3 DEF Answer, Find
    <2>. QED
      BY <1>6, <1>8, <1>9, <1>10, <2>1 DEF Boosted
  <1>. QED
    BY <1>13, <1>14, FirstKeeps

\* A request searches the catalog of a directory, for at least one name.
SearchedInv ==
  /\ disk \in Directories
  /\ req.kind # "" => req.k \in Nat /\ req.k > 0
  /\ req.at \in {"search", "hydrate"} \/ Succeeded => \E dir \in Directories : req.cat = Catalog(dir)

LEMMA SearchedStep == CacheInv /\ SearchedInv /\ [SearchNext]_searchVars => SearchedInv'
  <1>. SUFFICES ASSUME ReqOK, SearchedInv, [SearchNext]_searchVars PROVE SearchedInv'
    BY DEF CacheInv
  <1>1. CASE Asks
    <2>1. PICK c \in Calls :
            req' = [NoRequest EXCEPT !.at = "load", !.kind = c.kind, !.q = c.q,
                      !.mode = ModeOf(c.q, c.mode), !.k = Least(c.k), !.strict = c.strict,
                      !.alike = c.alike]
      BY <1>1 DEF Asks
    <2>2. req'.at = "load" /\ req'.k = Least(c.k)
      BY <2>1 DEF NoRequest
    <2>3. c.k \in Nat /\ c.k > 0
      <3>1. c.k \in Nat \ {0}
        BY SearchAssumption DEF CallType
      <3>. QED
        BY <3>1
    <2>4. Least(c.k) \in Nat /\ Least(c.k) > 0
      BY <2>3, SearchAssumption DEF Least
    <2>5. disk' = disk
      BY <1>1 DEF Asks
    <2>. QED
      BY <2>2, <2>4, <2>5 DEF SearchedInv, Succeeded
  <1>2. CASE Loads
    <2>1. CASE req.strict /\ LoadFails(disk)
      <3>1. req' = [req EXCEPT !.at = "done", !.error = "load"] /\ disk' = disk
        BY <1>2, <2>1 DEF Loads, Fails
      <3>2. /\ req'.at = "done" /\ req'.error = "load" /\ req'.kind = req.kind /\ req'.k = req.k
        BY <3>1 DEF ReqOK
      <3>. QED
        BY <3>1, <3>2 DEF SearchedInv, Succeeded
    <2>2. CASE ~(req.strict /\ LoadFails(disk))
      <3>1. req' = [req EXCEPT !.at = "search", !.cat = Catalog(disk)] /\ disk' = disk
        BY <1>2, <2>2 DEF Loads
      <3>2. req'.cat = Catalog(disk) /\ req'.kind = req.kind /\ req'.k = req.k
        BY <3>1 DEF ReqOK
      <3>. QED
        BY <3>1, <3>2 DEF SearchedInv, Succeeded
    <2>. QED
      BY <2>1, <2>2
  <1>3. CASE Reuses
    <2>1. PICK names : req' = [req EXCEPT !.at = "done", !.names = names]
      BY <1>3 DEF Reuses
    <2>2. /\ req'.kind = req.kind /\ req'.cat = req.cat /\ req'.k = req.k
          /\ disk' = disk /\ req.at = "search"
      BY <1>3, <2>1 DEF ReqOK, Reuses
    <2>. QED
      BY <2>2 DEF SearchedInv, Succeeded
  <1>4. CASE SearchesTools
    <2>1. /\ req'.kind = req.kind /\ req'.cat = req.cat /\ req'.k = req.k
      <3>1. CASE Refusal(req.cat, req.q, req.mode) # "none"
        <4>. DEFINE e == Refusal(req.cat, req.q, req.mode)
        <4>. HIDE DEF e
        <4>1. req' = [req EXCEPT !.at = "done", !.error = e]
          BY <1>4, <3>1 DEF SearchesTools, Fails, e
        <4>. QED
          BY <4>1 DEF ReqOK
      <3>2. CASE Refusal(req.cat, req.q, req.mode) = "none"
        <4>1. PICK names : req' = [req EXCEPT !.names = names,
                                     !.at = IF req.kind = "assemble" THEN "hydrate" ELSE "done"]
          BY <1>4, <3>2 DEF SearchesTools
        <4>. QED
          BY <4>1 DEF ReqOK
      <3>. QED
        BY <3>1, <3>2
    <2>2. disk' = disk /\ req.at = "search"
      BY <1>4 DEF SearchesTools
    <2>. QED
      BY <2>1, <2>2 DEF SearchedInv, Succeeded
  <1>5. CASE Hydrates \/ Renders
    <2>1. \E p : req' = [req EXCEPT !.shown = p]
          \/ req' = [req EXCEPT !.at = "done"]
          \/ \E e : req' = [req EXCEPT !.at = "done", !.error = e]
      BY <1>5 DEF Hydrates, Renders, Fails
    <2>2. /\ req'.kind = req.kind /\ req'.cat = req.cat /\ req'.k = req.k
      BY <2>1 DEF ReqOK
    <2>3. disk' = disk /\ req.at = "hydrate"
      BY <1>5 DEF Hydrates, Renders
    <2>. QED
      BY <2>2, <2>3 DEF SearchedInv, Succeeded
  <1>6. CASE Clears
    <2>1. req'.at = "idle" /\ req'.kind = "" /\ disk' = disk
      BY <1>6 DEF Clears, NoRequest
    <2>. QED
      BY <2>1 DEF SearchedInv, Succeeded
  <1>7. CASE Edits
    <2>1. /\ req'.at = req.at /\ req'.kind = req.kind /\ req'.error = req.error
          /\ req'.cat = req.cat /\ req'.k = req.k
      BY <1>7 DEF ReqOK, Edits
    <2>2. disk' \in Directories
      BY <1>7 DEF Edits, SearchedInv, Directories
    <2>. QED
      BY <2>1, <2>2 DEF SearchedInv, Succeeded
  <1>8. CASE UNCHANGED searchVars
    BY <1>8 DEF searchVars, SearchedInv, Succeeded
  <1>. QED
    BY <1>1, <1>2, <1>3, <1>4, <1>5, <1>6, <1>7, <1>8 DEF SearchNext

\* In every catalog that is not cut a tool asked for by its name comes first, whatever the
\* weights, the aliases of the others and the caches (rewrite_query,
\* _apply_exact_name_boost).
THEOREM NamedToolIsFirst == SearchSpec => []ExactFirst
  <1>1. SearchInit => SearchedInv
    <2>. SUFFICES ASSUME SearchInit PROVE SearchedInv
      OBVIOUS
    <2>1. disk \in Directories
      BY SearchAssumption DEF SearchInit, Directories
    <2>2. req.at = "idle" /\ req.kind = ""
      BY DEF SearchInit, NoRequest
    <2>. QED
      BY <2>1, <2>2 DEF SearchedInv, Succeeded
  <1>2. CacheInv /\ SearchedInv => ExactFirst
    <2>. SUFFICES ASSUME CacheInv, SearchedInv, Succeeded, req.kind # "cached", req.mode = "bm25",
                         req.q.exact \in DOMAIN req.cat, Cardinality(DOMAIN req.cat) <= Cut
                  PROVE  req.names # << >> /\ Head(req.names) = req.q.exact
      BY DEF ExactFirst
    <2>1. PICK a \in asked : Found1(a)
      BY DEF CacheInv, NamesOK
    <2>2. /\ a.q \in Queries /\ a.q = req.q /\ a.cat = req.cat /\ a.mode = "bm25" /\ a.k = req.k
          /\ req.names = Answer(a.cat, a.q, a.mode, a.k)
      BY <2>1 DEF Found1, IsAnswer
    <2>3. PICK dir \in Directories : req.cat = Catalog(dir)
      BY DEF SearchedInv
    <2>4. PICK q \in Queries : q = req.q
      BY <2>2
    <2>5. PICK k \in Nat : k = req.k /\ k > 0
      BY DEF SearchedInv, Succeeded
    <2>6. PICK cat, names : cat = req.cat /\ names = req.names
      OBVIOUS
    <2>7. names = Answer(cat, q, "bm25", k)
      BY <2>2, <2>4, <2>5, <2>6
    <2>8. names # << >> /\ Head(names) = q.exact
      BY <2>3, <2>4, <2>5, <2>6, <2>7, AnswerLeads
    <2>. QED
      BY <2>4, <2>6, <2>8
  <1>. QED
    BY <1>1, <1>2, InitCache, CacheStep, SearchedStep, PTL DEF SearchSpec
=============================================================================
