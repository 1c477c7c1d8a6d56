----------------------------- MODULE SumTheorems -----------------------------
(***************************************************************************)
(* What a sum over a finite set is: the facts about SumFunctionOnSet and   *)
(* SumFunction of the community module Functions that the proofs about     *)
(* balances need.  The library defines the sum by a recursive function of  *)
(* its own choosing and proves nothing about it.                           *)
(*                                                                         *)
(* The induction these facts rest on is over finite sets, and the theorems *)
(* of the library that say so take the property as a parameter, which no   *)
(* backend can instantiate.  SmallestCounterexample says it of sets: a     *)
(* family of subsets of a finite set that has a member has a smallest one. *)
(* Applied to the subsets on which a claim fails, it gives the step of the *)
(* induction as a first-order fact.                                        *)
(***************************************************************************)
EXTENDS Functions, FiniteSetTheorems, TLAPS

(* What the recursive function inside SumFunctionOnSet says of the finite   *)
(* subsets of S.                                                            *)
Sums(g, f, S) ==
    g = [T \in SUBSET S |->
            IF T = {} THEN 0
            ELSE LET x == CHOOSE x \in T : TRUE IN f[x] + g[T \ {x}]]

LEMMA SumIsChosen ==
    ASSUME NEW f, NEW S
    PROVE  SumFunctionOnSet(f, S) = (CHOOSE g : Sums(g, f, S))[S]
BY Zenon DEF SumFunctionOnSet, FoldFunctionOnSet, MapThenFoldSet, Sums

(* A property of finite sets that fails fails of a smallest subset. *)
LEMMA SmallestCounterexample ==
    ASSUME NEW S, IsFiniteSet(S), NEW T \in SUBSET SUBSET S, T # {}
    PROVE  \E U \in T : \A V \in T : V \subseteq U => V = U
<1>1. FiniteSubsetsOf(S) = SUBSET S
  BY FS_FiniteSubsetsOfFinite
<1>2. IsWellFoundedOn(StrictSubsetOrdering(S), SUBSET S)
  BY <1>1, FS_StrictSubsetOrderingWellFounded, Zenon
<1>3. \E U \in T : \A V \in T : ~(<<V, U>> \in StrictSubsetOrdering(S))
  BY <1>2, WFMin, Zenon
<1> QED BY <1>3 DEF StrictSubsetOrdering

LEMMA SumsAgree ==
    ASSUME NEW f, NEW S, IsFiniteSet(S), NEW g, NEW h, NEW R,
           Sums(g, f, S), Sums(h, f, R), S \subseteq R
    PROVE  g[S] = h[S]
<1> DEFINE differ == {T \in SUBSET S : g[T] # h[T]}
<1>1. SUFFICES ASSUME differ # {} PROVE FALSE
  OBVIOUS
<1>a. differ \in SUBSET SUBSET S
  OBVIOUS
<1>2. PICK T \in differ : \A V \in differ : V \subseteq T => V = T
  <2> HIDE DEF differ
  <2> QED BY <1>1, <1>a, SmallestCounterexample
<1> DEFINE x == CHOOSE x \in T : TRUE
<1>3. T # {} /\ x \in T
  BY <1>2 DEF Sums
<1>4. g[T] = f[x] + g[T \ {x}] /\ h[T] = f[x] + h[T \ {x}]
  BY <1>3 DEF Sums
<1>5. g[T \ {x}] = h[T \ {x}]
  BY <1>2, <1>3
<1> QED BY <1>2, <1>4, <1>5

(* The recursion that SumFunctionOnSet stands for *)
LEMMA SumUnfold ==
    ASSUME NEW f, NEW S, IsFiniteSet(S)
    PROVE  SumFunctionOnSet(f, S) =
               IF S = {} THEN 0
               ELSE LET x == CHOOSE x \in S : TRUE
                    IN  f[x] + SumFunctionOnSet(f, S \ {x})
<1> DEFINE Sum(T) == SumFunctionOnSet(f, T)
           Unfolded(T) == IF T = {} THEN 0
                          ELSE LET x == CHOOSE x \in T : TRUE IN f[x] + Sum(T \ {x})
           folded == {T \in SUBSET S : Sum(T) # Unfolded(T)}
<1>1. SUFFICES ASSUME folded # {} PROVE FALSE
  <2>1. S \in SUBSET S
    OBVIOUS
  <2> QED BY <2>1
<1>a. folded \in SUBSET SUBSET S
  OBVIOUS
<1>2. PICK T \in folded : \A V \in folded : V \subseteq T => V = T
  <2> HIDE DEF folded
  <2> QED BY <1>1, <1>a, SmallestCounterexample
<1>3. IsFiniteSet(T)
  BY FS_Subset
<1> HIDE DEF Sum
<1> DEFINE g == [V \in SUBSET T |-> IF V = T THEN Unfolded(T) ELSE Sum(V)]
<1>4. Sums(g, f, T)
  <2> SUFFICES ASSUME NEW V \in SUBSET T
               PROVE  g[V] = IF V = {} THEN 0
                             ELSE LET x == CHOOSE x \in V : TRUE IN f[x] + g[V \ {x}]
    BY DEF Sums
  <2> DEFINE x == CHOOSE x \in V : TRUE
  <2>1. V # {} => x \in V
    OBVIOUS
  <2>2. V # {} => V \ {x} \in SUBSET T /\ V \ {x} # T
    BY <2>1
  <2>3. V # {} => g[V \ {x}] = Sum(V \ {x})
    BY <2>2
  <2>4. g[V] = Unfolded(V)
    BY <1>2
  <2> QED BY <2>3, <2>4
<1> DEFINE chosen == CHOOSE h : Sums(h, f, T)
<1>5. Sums(chosen, f, T)
  BY <1>4
<1>6. Sum(T) = chosen[T]
  BY SumIsChosen DEF Sum
<1>7. chosen[T] = g[T]
  BY <1>3, <1>4, <1>5, SumsAgree
<1>8. g[T] = Unfolded(T)
  OBVIOUS
<1> QED BY <1>2, <1>6, <1>7, <1>8

-----------------------------------------------------------------------------
(* Sums of integers *)

LEMMA SumEmpty == ASSUME NEW f PROVE SumFunctionOnSet(f, {}) = 0
BY SumUnfold, FS_EmptySet

(* A sum of integers is one, and any summand can be taken out of it. *)
LEMMA SumSplit ==
    ASSUME NEW f, NEW S, IsFiniteSet(S), \A x \in S : f[x] \in Int
    PROVE  /\ SumFunctionOnSet(f, S) \in Int
           /\ \A x \in S : SumFunctionOnSet(f, S) = f[x] + SumFunctionOnSet(f, S \ {x})
<1> DEFINE Sum(T) == SumFunctionOnSet(f, T)
           Splits(T) == Sum(T) \in Int /\ \A x \in T : Sum(T) = f[x] + Sum(T \ {x})
           failing == {T \in SUBSET S : ~Splits(T)}
<1>1. SUFFICES ASSUME failing # {} PROVE FALSE
  <2>1. S \in SUBSET S
    OBVIOUS
  <2> QED BY <2>1
<1>a. failing \in SUBSET SUBSET S
  OBVIOUS
<1>2. PICK T \in failing : \A V \in failing : V \subseteq T => V = T
  <2> HIDE DEF failing
  <2> QED BY <1>1, <1>a, SmallestCounterexample
<1>3. \A V \in SUBSET T : V # T => Splits(V)
  BY <1>2
<1>4. \A V \in SUBSET T : IsFiniteSet(V)
  BY FS_Subset
<1> DEFINE c == CHOOSE x \in T : TRUE
<1>5. \A V \in SUBSET T :
         Sum(V) = IF V = {} THEN 0 ELSE LET x == CHOOSE x \in V : TRUE IN f[x] + Sum(V \ {x})
  BY <1>4, SumUnfold
<1> HIDE DEF Sum
<1>6. T # {} /\ c \in T
  <2>1. Sum({}) = 0
    BY <1>5
  <2>2. T # {}
    <3> SUFFICES ASSUME T = {} PROVE Splits(T)
      OBVIOUS
    <3>1. Sum(T) = 0
      BY <2>1
    <3> QED BY <3>1
  <2> QED BY <2>2
<1>7. Sum(T) = f[c] + Sum(T \ {c})
  BY <1>5, <1>6
<1> HIDE DEF c
<1>8. T \ {c} \in SUBSET T /\ T \ {c} # T
  BY <1>6
<1>9. Sum(T) \in Int
  BY <1>3, <1>6, <1>7, <1>8
<1>10. ASSUME NEW x \in T PROVE Sum(T) = f[x] + Sum(T \ {x})
  <2>1. CASE x = c
    BY <2>1, <1>7
  <2>2. CASE x # c
    <3>1. Sum(T \ {c}) = f[x] + Sum((T \ {c}) \ {x})
      BY <1>3, <1>8, <2>2
    <3>2. T \ {x} \in SUBSET T /\ T \ {x} # T /\ c \in T \ {x}
      BY <1>6, <2>2
    <3>3. Sum(T \ {x}) = f[c] + Sum((T \ {x}) \ {c})
      BY <1>3, <3>2
    <3>4. (T \ {x}) \ {c} = (T \ {c}) \ {x}
      OBVIOUS
    <3>5. (T \ {c}) \ {x} \in SUBSET T /\ (T \ {c}) \ {x} # T
      BY <1>6
    <3>6. Sum((T \ {c}) \ {x}) \in Int /\ f[x] \in Int /\ f[c] \in Int
      BY <1>3, <1>6, <3>5
    <3> DEFINE rest == Sum((T \ {c}) \ {x})
    <3>7. Sum(T) = f[c] + (f[x] + rest) /\ Sum(T \ {x}) = f[c] + rest
      BY <1>7, <3>1, <3>3, <3>4, Zenon
    <3> HIDE DEF rest
    <3> QED BY <3>6, <3>7 DEF rest
  <2> QED BY <2>1, <2>2
<1> QED BY <1>2, <1>9, <1>10

(* Sums depend on their summands only. *)
LEMMA SumSame ==
    ASSUME NEW S, IsFiniteSet(S), NEW f, NEW h, \A x \in S : f[x] = h[x]
    PROVE  SumFunctionOnSet(f, S) = SumFunctionOnSet(h, S)
<1> DEFINE Sum(e, T) == SumFunctionOnSet(e, T)
           differ == {T \in SUBSET S : Sum(f, T) # Sum(h, T)}
<1>1. SUFFICES ASSUME differ # {} PROVE FALSE
  <2>1. S \in SUBSET S
    OBVIOUS
  <2> QED BY <2>1
<1>2. differ \in SUBSET SUBSET S
  OBVIOUS
<1>3. PICK T \in differ : \A V \in differ : V \subseteq T => V = T
  <2> HIDE DEF differ
  <2> QED BY <1>1, <1>2, SmallestCounterexample
<1>4. IsFiniteSet(T)
  BY FS_Subset
<1> DEFINE x == CHOOSE x \in T : TRUE
<1>5. \A e : Sum(e, T) = IF T = {} THEN 0 ELSE e[x] + Sum(e, T \ {x})
  BY <1>4, SumUnfold
<1> HIDE DEF Sum
<1>6. T # {} /\ x \in T
  BY <1>3, <1>5
<1>7. Sum(f, T \ {x}) = Sum(h, T \ {x})
  BY <1>3, <1>6
<1>8. f[x] = h[x]
  BY <1>6
<1> QED BY <1>3, <1>5, <1>6, <1>7, <1>8

(* One summand is changed. *)
LEMMA SumChanged ==
    ASSUME NEW S, IsFiniteSet(S), NEW f, NEW h,
           \A y \in S : f[y] \in Int /\ h[y] \in Int,
           NEW x \in S, \A y \in S \ {x} : f[y] = h[y]
    PROVE  SumFunctionOnSet(h, S) = SumFunctionOnSet(f, S) - f[x] + h[x]
<1> DEFINE Sum(e, T) == SumFunctionOnSet(e, T)
<1>1. IsFiniteSet(S \ {x})
  BY FS_RemoveElement
<1>2. Sum(f, S \ {x}) = Sum(h, S \ {x}) /\ Sum(f, S \ {x}) \in Int
  BY <1>1, SumSame, SumSplit
<1>3. Sum(f, S) = f[x] + Sum(f, S \ {x}) /\ Sum(h, S) = h[x] + Sum(h, S \ {x})
  BY SumSplit
<1> HIDE DEF Sum
<1> QED BY <1>2, <1>3 DEF Sum

(* The summands of f at the p[m], and no others, differ from those of g:    *)
(* by h[m].                                                                 *)
LEMMA SumMoved ==
    ASSUME NEW S, IsFiniteSet(S), NEW M, IsFiniteSet(M),
           NEW f, NEW g, \A x \in S : f[x] \in Int /\ g[x] \in Int,
           NEW h, NEW p, \A m \in M : p[m] \in S /\ h[m] = f[p[m]] - g[p[m]],
           \A m, n \in M : p[m] = p[n] => m = n,
           \A x \in S : (\A m \in M : p[m] # x) => f[x] = g[x]
    PROVE  SumFunctionOnSet(f, S) - SumFunctionOnSet(g, S) = SumFunctionOnSet(h, M)
<1> DEFINE Sum(e, T) == SumFunctionOnSet(e, T)
           mix(T) == [x \in S |-> IF \E m \in T : p[m] = x THEN g[x] ELSE f[x]]
           failing == {T \in SUBSET M : Sum(f, S) - Sum(mix(T), S) # Sum(h, T)}
<1>0. \A m \in M : h[m] \in Int
  OBVIOUS
<1>1. failing = {}
  <2>1. SUFFICES ASSUME failing # {} PROVE FALSE
    OBVIOUS
  <2>2. failing \in SUBSET SUBSET M
    OBVIOUS
  <2>3. PICK T \in failing : \A V \in failing : V \subseteq T => V = T
    <3> HIDE DEF failing
    <3> QED BY <2>1, <2>2, SmallestCounterexample
  <2>4. T # {}
    <3> SUFFICES ASSUME T = {} PROVE Sum(f, S) - Sum(mix(T), S) = Sum(h, T)
      OBVIOUS
    <3>1. \A x \in S : mix(T)[x] = f[x]
      OBVIOUS
    <3>2. Sum(mix(T), S) = Sum(f, S) /\ Sum(f, S) \in Int
      BY <3>1, SumSame, SumSplit
    <3>3. Sum(h, T) = 0
      BY SumEmpty
    <3> HIDE DEF Sum
    <3> QED BY <3>2, <3>3
  <2>5. PICK m \in T : TRUE
    BY <2>4
  <2>6. IsFiniteSet(T) /\ IsFiniteSet(T \ {m})
    BY FS_Subset, FS_RemoveElement
  <2>7. Sum(h, T) = h[m] + Sum(h, T \ {m}) /\ Sum(h, T \ {m}) \in Int
    BY SMTT(30), <1>0, <2>6, SumSplit
  <2>8. Sum(f, S) - Sum(mix(T \ {m}), S) = Sum(h, T \ {m})
    BY <2>3
  <2> DEFINE before == mix(T \ {m})  after == mix(T)
  <2>9. /\ p[m] \in S
        /\ before[p[m]] = f[p[m]] /\ after[p[m]] = g[p[m]]
        /\ \A y \in S \ {p[m]} : before[y] = after[y]
        /\ \A y \in S : before[y] \in Int /\ after[y] \in Int
    OBVIOUS
  <2> HIDE DEF mix, before, after
  <2>10. Sum(after, S) = Sum(before, S) - before[p[m]] + after[p[m]]
    BY <2>9, SumChanged
  <2>11. Sum(f, S) \in Int /\ Sum(before, S) \in Int
    BY <2>9, SumSplit
  <2>12. h[m] = f[p[m]] - g[p[m]] /\ f[p[m]] \in Int /\ g[p[m]] \in Int
    BY <2>9
  <2> HIDE DEF Sum
  <2>13. Sum(f, S) - Sum(after, S) = Sum(h, T)
    BY <2>7, <2>8, <2>9, <2>10, <2>11, <2>12 DEF before
  <2> QED BY <2>3, <2>13 DEF after
<1>2. Sum(f, S) - Sum(mix(M), S) = Sum(h, M)
  <2>1. M \in SUBSET M
    OBVIOUS
  <2> QED BY <1>1, <2>1
<1>3. \A x \in S : mix(M)[x] = g[x]
  OBVIOUS
<1>4. Sum(mix(M), S) = Sum(g, S)
  <2> HIDE DEF mix
  <2> QED BY <1>3, SumSame
<1> QED BY <1>2, <1>4

(* The sum over two sets that have nothing in common *)
LEMMA SumJoined ==
    ASSUME NEW f, NEW S, IsFiniteSet(S), NEW T, IsFiniteSet(T), S \cap T = {},
           \A x \in S \cup T : f[x] \in Int
    PROVE  SumFunctionOnSet(f, S \cup T) = SumFunctionOnSet(f, S) + SumFunctionOnSet(f, T)
<1> DEFINE Sum(V) == SumFunctionOnSet(f, V)
           failing == {V \in SUBSET T : Sum(S \cup V) # Sum(S) + Sum(V)}
<1>1. SUFFICES ASSUME failing # {} PROVE FALSE
  <2>1. T \in SUBSET T
    OBVIOUS
  <2> QED BY <2>1
<1>a. failing \in SUBSET SUBSET T
  OBVIOUS
<1>2. PICK V \in failing : \A W \in failing : W \subseteq V => W = V
  <2> HIDE DEF failing
  <2> QED BY <1>1, <1>a, SmallestCounterexample
<1>3. /\ V \in SUBSET T /\ Sum(S \cup V) # Sum(S) + Sum(V)
      /\ \A x \in V : Sum(S \cup (V \ {x})) = Sum(S) + Sum(V \ {x})
  BY <1>2
<1>4. IsFiniteSet(V) /\ IsFiniteSet(S \cup V)
  BY <1>3, FS_Subset, FS_Union
<1>5. Sum(S) \in Int /\ Sum({}) = 0
  BY SumSplit, SumEmpty
<1>6. PICK x \in V : TRUE
  <2> SUFFICES ASSUME V = {} PROVE FALSE
    OBVIOUS
  <2>1. S \cup V = S
    OBVIOUS
  <2> HIDE DEF Sum
  <2> QED BY <1>3, <1>5, <2>1
<1>7. (S \cup V) \ {x} = S \cup (V \ {x}) /\ x \in S \cup V
  BY <1>3, <1>6
<1>8. Sum(S \cup V) = f[x] + Sum((S \cup V) \ {x})
  <2>1. \A y \in S \cup V : f[y] \in Int
    BY <1>3
  <2> QED BY <1>4, <1>7, <2>1, SumSplit
<1>9. Sum(V) = f[x] + Sum(V \ {x})
  <2>1. \A y \in V : f[y] \in Int
    BY <1>3
  <2> QED BY <1>4, <1>6, <2>1, SumSplit
<1>10. Sum(V \ {x}) \in Int
  <2>1. IsFiniteSet(V \ {x}) /\ \A y \in V \ {x} : f[y] \in Int
    BY <1>3, <1>4, FS_Subset
  <2> QED BY <2>1, SumSplit
<1>11. f[x] \in Int
  BY <1>3, <1>6
<1> HIDE DEF Sum
<1> QED BY <1>3, <1>5, <1>6, <1>7, <1>8, <1>9, <1>10, <1>11

(* The sum of natural numbers is one, and that of zeros is zero. *)
LEMMA SumNatural ==
    ASSUME NEW f, NEW S, IsFiniteSet(S), \A x \in S : f[x] \in Nat
    PROVE  /\ SumFunctionOnSet(f, S) \in Nat
           /\ (\A x \in S : f[x] = 0) => SumFunctionOnSet(f, S) = 0
<1> DEFINE Sum(V) == SumFunctionOnSet(f, V)
           Fits(V) == Sum(V) \in Nat /\ ((\A x \in V : f[x] = 0) => Sum(V) = 0)
           failing == {V \in SUBSET S : ~Fits(V)}
<1>1. SUFFICES ASSUME failing # {} PROVE FALSE
  <2>1. S \in SUBSET S
    OBVIOUS
  <2> QED BY <2>1
<1>a. failing \in SUBSET SUBSET S
  OBVIOUS
<1>2. PICK V \in failing : \A W \in failing : W \subseteq V => W = V
  <2> HIDE DEF failing
  <2> QED BY <1>1, <1>a, SmallestCounterexample
<1>3. V \in SUBSET S /\ ~Fits(V) /\ \A x \in V : Fits(V \ {x})
  BY <1>2
<1>4. IsFiniteSet(V) /\ \A x \in V : f[x] \in Int /\ f[x] \in Nat
  BY <1>3, FS_Subset
<1>5. Sum({}) = 0
  BY SumEmpty
<1>6. \A x \in V : Sum(V) = f[x] + Sum(V \ {x})
  BY <1>4, SumSplit
<1> HIDE DEF Sum
<1>7. PICK x \in V : TRUE
  BY <1>3, <1>5
<1>8. Sum(V \ {x}) \in Nat /\ ((\A y \in V \ {x} : f[y] = 0) => Sum(V \ {x}) = 0)
  BY <1>3, <1>7
<1>9. Sum(V) = f[x] + Sum(V \ {x}) /\ f[x] \in Nat
  BY <1>4, <1>6, <1>7
<1>10. Sum(V) \in Nat
  BY <1>8, <1>9
<1>11. (\A y \in V : f[y] = 0) => Sum(V) = 0
  BY <1>7, <1>8, <1>9
<1> QED BY <1>3, <1>10, <1>11

(* The sum over one element *)
LEMMA SumOne ==
    ASSUME NEW f, NEW x, f[x] \in Int
    PROVE  SumFunctionOnSet(f, {x}) = f[x]
<1>1. IsFiniteSet({x}) /\ {x} \ {x} = {}
  BY FS_Singleton
<1>2. SumFunctionOnSet(f, {x}) = f[x] + SumFunctionOnSet(f, {x} \ {x})
  BY <1>1, SumSplit
<1> QED BY <1>1, <1>2, SumEmpty

(* Of finitely many numbers one is the largest. *)
LEMMA LargestOfSome ==
    ASSUME NEW S, IsFiniteSet(S), S # {}, NEW f, \A x \in S : f[x] \in Int
    PROVE  \E x \in S : \A y \in S : f[y] <= f[x]
<1> DEFINE endless == {T \in SUBSET S : T # {} /\ \A x \in T : \E y \in T : ~(f[y] <= f[x])}
<1>1. SUFFICES ASSUME endless # {} PROVE FALSE
  OBVIOUS
<1>2. endless \in SUBSET SUBSET S
  OBVIOUS
<1>3. PICK T \in endless : \A V \in endless : V \subseteq T => V = T
  <2> HIDE DEF endless
  <2> QED BY <1>1, <1>2, SmallestCounterexample
<1>4. T \in SUBSET S /\ T # {} /\ \A x \in T : \E y \in T : ~(f[y] <= f[x])
  BY <1>3
<1>5. PICK z \in T : TRUE
  BY <1>4
<1>6. PICK V : V = T \ {z}
  OBVIOUS
<1>7. V \notin endless
  BY <1>3, <1>5, <1>6
<1>8. CASE V = {}
  BY <1>4, <1>5, <1>6, <1>8
<1>9. CASE V # {}
  <2>1. PICK m \in V : \A y \in V : f[y] <= f[m]
    BY <1>4, <1>6, <1>7, <1>9
  <2>2. f[m] \in Int /\ f[z] \in Int /\ \A y \in T : y = z \/ y \in V
    BY <1>4, <1>5, <1>6, <2>1
  <2>3. CASE f[z] <= f[m]
    BY <1>4, <1>6, <2>1, <2>2, <2>3
  <2>4. CASE f[m] < f[z]
    <3>1. \A y \in T : f[y] \in Int
      BY <1>4
    <3>2. \A y \in T : f[y] <= f[z]
      BY <2>1, <2>2, <2>4, <3>1
    <3> QED BY <1>4, <1>5, <3>2
  <2> QED BY <2>2, <2>3, <2>4
<1> QED BY <1>8, <1>9
=============================================================================
