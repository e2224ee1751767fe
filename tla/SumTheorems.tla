---------------------------- MODULE SumTheorems -----------------------------
(***************************************************************************)
(* Facts on SumFunctionOnSet of the module Functions. It is a fold and so  *)
(* recursive; the induction they need is stated for sets and not for       *)
(* predicates, so that first-order provers can apply it: every non-empty   *)
(* set of naturals has a least element.                                    *)
(***************************************************************************)
EXTENDS Integers, FiniteSets, Functions, FiniteSetTheorems, WellFoundedInduction, TLAPS

(***************************************************************************)
(* Induction and recursion.                                                *)
(***************************************************************************)

LEMMA LeastElement ==
  ASSUME NEW T \in SUBSET Nat, T # {}
  PROVE  \E x \in T : \A y \in T : x <= y
<1> DEFINE R == OpToRel(<, Nat)
<1>1. IsWellFoundedOn(R, Nat)
  BY NatLessThanWellFounded
<1>2. PICK x \in T : \A y \in T : ~(<<y, x>> \in R)
  <2> HIDE DEF R
  <2> QED
    BY <1>1, WFMin
<1>3. \A y \in T : ~(y < x)
  BY <1>2 DEF OpToRel
<1> QED
  BY <1>3

LEMMA SetInduction ==
  ASSUME NEW A \in SUBSET Nat, 0 \in A, \A n \in A : n + 1 \in A
  PROVE  A = Nat
<1> DEFINE T == Nat \ A
<1>1. SUFFICES ASSUME T # {} PROVE FALSE
  OBVIOUS
<1>2. PICK x \in T : \A y \in T : x <= y
  BY <1>1, LeastElement
<1>3. x \in Nat /\ x # 0 /\ x - 1 \in Nat /\ x - 1 < x
  OBVIOUS
<1>4. x - 1 \in A
  BY <1>2, <1>3
<1> QED
  BY <1>4

(* Counting up to n, a value can be defined from the one before.           *)
Iterated(n, base, step, it) ==
  it[0] = base /\ \A k \in 1..n : it[k] = step[<<k, it[k - 1]>>]

LEMMA CountedRecursionDefined ==
  ASSUME NEW n \in Nat, NEW X, NEW base \in X, NEW step \in [(1..n) \X X -> X]
  PROVE  \E it \in [0..n -> X] : Iterated(n, base, step, it)
<1> DEFINE Rule(it, m) == it[0] = base /\ \A k \in 1..m : it[k] = step[<<k, it[k - 1]>>]
           A == {m \in Nat : m <= n => \E it \in [0..m -> X] : Rule(it, m)}
<1>1. 0 \in A
  <2>1. [k \in 0..0 |-> base] \in [0..0 -> X] /\ Rule([k \in 0..0 |-> base], 0)
    OBVIOUS
  <2> QED
    BY <2>1
<1>2. ASSUME NEW m \in A
      PROVE  m + 1 \in A
  <2>1. SUFFICES ASSUME m + 1 <= n
                 PROVE  \E it \in [0..(m + 1) -> X] : Rule(it, m + 1)
    OBVIOUS
  <2>2. PICK it \in [0..m -> X] : Rule(it, m)
    BY <2>1
  <2> DEFINE next == step[<<m + 1, it[m]>>]
             more == [k \in 0..(m + 1) |-> IF k = m + 1 THEN next ELSE it[k]]
  <2>3. m \in Nat /\ m + 1 \in 1..n /\ it[m] \in X
    BY <2>1
  <2>4. next \in X
    BY <2>3
  <2> HIDE DEF next
  <2>5. more \in [0..(m + 1) -> X]
    BY <2>3, <2>4
  <2>6. more[0] = base
    BY <2>2, <2>3
  <2>7. ASSUME NEW k \in 1..(m + 1)
        PROVE  more[k] = step[<<k, more[k - 1]>>]
    <3>1. k \in 1..m \/ k = m + 1
      BY <2>3
    <3>2. CASE k \in 1..m
      BY <2>2, <2>3, <3>2
    <3>3. CASE k = m + 1
      <4>1. k - 1 = m /\ k - 1 \in 0..(m + 1) /\ k - 1 # m + 1
        BY <2>3, <3>3
      <4>2. more[k] = next /\ more[k - 1] = it[m]
        BY <3>3, <4>1
      <4> QED
        BY <3>3, <4>1, <4>2 DEF next
    <3> QED
      BY <3>1, <3>2, <3>3
  <2> QED
    BY <2>5, <2>6, <2>7
<1>3. A = Nat
  <2> HIDE DEF A
  <2>1. A \in SUBSET Nat
    BY DEF A
  <2> QED
    BY <1>1, <1>2, <2>1, SetInduction
<1>4. n \in A
  BY <1>3
<1> QED
  BY <1>4 DEF Iterated

(* What holds of a set whenever it holds of the set without any one        *)
(* element, holds of every finite set.                                     *)
LEMMA FiniteInduction ==
  ASSUME NEW S, IsFiniteSet(S), NEW F,
         \A T \in SUBSET S : (\A x \in T : T \ {x} \in F) => T \in F
  PROVE  S \in F
<1> DEFINE A == {n \in Nat : \A T \in SUBSET S : Cardinality(T) <= n => T \in F}
<1>1. \A T \in SUBSET S : IsFiniteSet(T) /\ Cardinality(T) \in Nat
  BY FS_Subset, FS_CardinalityType
<1>2. 0 \in A
  <2> SUFFICES ASSUME NEW T \in SUBSET S, Cardinality(T) <= 0
               PROVE  T \in F
    OBVIOUS
  <2>1. T = {}
    BY <1>1, FS_EmptySet
  <2> QED
    BY <2>1
<1>3. \A n \in A : n + 1 \in A
  <2> SUFFICES ASSUME NEW n \in A, NEW T \in SUBSET S, Cardinality(T) <= n + 1
               PROVE  T \in F
    OBVIOUS
  <2> SUFFICES ASSUME NEW x \in T PROVE T \ {x} \in F
    OBVIOUS
  <2>1. Cardinality(T \ {x}) = Cardinality(T) - 1
    BY <1>1, FS_RemoveElement
  <2> QED
    BY <1>1, <2>1
<1>4. A = Nat
  <2> HIDE DEF A
  <2>1. A \in SUBSET Nat
    BY DEF A
  <2> QED
    BY <1>2, <1>3, <2>1, SetInduction
<1> QED
  BY <1>1, <1>4

(* A recursion over the subsets of a finite set defines a function: pick   *)
(* takes one element at a time, step combines it with the result for the   *)
(* others.                                                                 *)
Picks(S, pick) ==
  pick \in [(SUBSET S) \ {{}} -> S] /\ \A T \in (SUBSET S) \ {{}} : pick[T] \in T

Follows(S, base, step, pick, it) ==
  \A T \in SUBSET S :
    it[T] = IF T = {} THEN base ELSE step[<<pick[T], it[T \ {pick[T]}]>>]

LEMMA RecursionDefined ==
  ASSUME NEW S, IsFiniteSet(S), NEW X, NEW base \in X, NEW step \in [S \X X -> X],
         NEW pick, Picks(S, pick)
  PROVE  \E it \in [SUBSET S -> X] : Follows(S, base, step, pick, it)
<1> DEFINE Small(n)    == {T \in SUBSET S : Cardinality(T) <= n}
           Rule(it, T) == it[T] = IF T = {} THEN base ELSE step[<<pick[T], it[T \ {pick[T]}]>>]
           A           == {n \in Nat : \E it \in [Small(n) -> X] : \A T \in Small(n) : Rule(it, T)}
<1>1. \A T \in SUBSET S : IsFiniteSet(T) /\ Cardinality(T) \in Nat
  BY FS_Subset, FS_CardinalityType
<1>2. 0 \in A
  <2> DEFINE it == [T \in Small(0) |-> base]
  <2>1. \A T \in Small(0) : T = {}
    BY <1>1, FS_EmptySet
  <2>2. it \in [Small(0) -> X] /\ \A T \in Small(0) : Rule(it, T)
    BY <2>1
  <2> QED
    BY <2>2
<1>3. \A n \in A : n + 1 \in A
  <2> SUFFICES ASSUME NEW n \in A PROVE n + 1 \in A
    OBVIOUS
  <2>1. PICK it \in [Small(n) -> X] : \A T \in Small(n) : Rule(it, T)
    OBVIOUS
  <2> DEFINE more == [T \in Small(n + 1) |->
               IF T = {} THEN base ELSE step[<<pick[T], it[T \ {pick[T]}]>>]]
  <2>2. ASSUME NEW T \in Small(n + 1), T # {}
        PROVE  pick[T] \in S /\ T \ {pick[T]} \in Small(n)
    <3>1. T \in SUBSET S /\ Cardinality(T) <= n + 1
      BY <2>2
    <3>2. pick[T] \in T
      <4> HIDE DEF Small, A, Rule
      <4> QED
        BY <2>2, <3>1 DEF Picks
    <3>3. Cardinality(T \ {pick[T]}) = Cardinality(T) - 1
      <4> HIDE DEF Small, A, Rule
      <4> QED
        BY <1>1, <3>1, <3>2, FS_RemoveElement
    <3> QED
      BY <1>1, <3>1, <3>2, <3>3
  <2>3. ASSUME NEW T \in Small(n)
        PROVE  T \in Small(n + 1) /\ more[T] = it[T]
    <3>1. T \in Small(n + 1)
      BY <1>1
    <3>2. Rule(it, T)
      BY <2>1
    <3> QED
      BY <3>1, <3>2
  <2>4. \A T \in Small(n + 1) :
          T # {} => it[T \ {pick[T]}] \in X /\ more[T \ {pick[T]}] = it[T \ {pick[T]}]
    BY <2>2, <2>3
  <2>5. more \in [Small(n + 1) -> X]
    <3> SUFFICES ASSUME NEW T \in Small(n + 1), T # {}
                 PROVE  step[<<pick[T], it[T \ {pick[T]}]>>] \in X
      OBVIOUS
    <3>1. <<pick[T], it[T \ {pick[T]}]>> \in S \X X
      BY <2>2, <2>4
    <3> QED
      BY <3>1
  <2>6. \A T \in Small(n + 1) : Rule(more, T)
    BY <2>4
  <2>7. \E i \in [Small(n + 1) -> X] : \A T \in Small(n + 1) : Rule(i, T)
    <3> HIDE DEF Small, Rule, more
    <3> QED
      BY <2>5, <2>6
  <2>8. n + 1 \in Nat
    OBVIOUS
  <2> QED
    <3> HIDE DEF Small, Rule, more
    <3> QED
      BY <2>7, <2>8
<1>4. A = Nat
  <2> HIDE DEF A
  <2>1. A \in SUBSET Nat
    BY DEF A
  <2> QED
    BY <1>2, <1>3, <2>1, SetInduction
<1>5. Cardinality(S) \in A /\ Small(Cardinality(S)) = SUBSET S
  BY <1>1, <1>4, FS_Subset, FS_CardinalityType
<1>6. PICK it \in [SUBSET S -> X] : \A T \in SUBSET S : Rule(it, T)
  BY <1>5
<1> QED
  BY <1>6 DEF Follows

(***************************************************************************)
(* Sums. Iter(f, S) is the function that the fold behind                   *)
(* SumFunctionOnSet(f, S) defines on the subsets of S.                     *)
(***************************************************************************)

Some(s) == CHOOSE x \in s : TRUE

Equation(f, S, it) ==
  it = [s \in SUBSET S |-> IF s = {} THEN 0 ELSE f[Some(s)] + it[s \ {Some(s)}]]

Iter(f, S) == CHOOSE it : Equation(f, S, it)

LEMMA SumIsIter ==
  ASSUME NEW f, NEW S
  PROVE  SumFunctionOnSet(f, S) = Iter(f, S)[S]
BY DEF SumFunctionOnSet, FoldFunctionOnSet, MapThenFoldSet, Iter, Equation, Some

LEMMA IterDefined ==
  ASSUME NEW S, IsFiniteSet(S), NEW f, \A x \in S : f[x] \in Int
  PROVE  /\ Iter(f, S) \in [SUBSET S -> Int]
         /\ \A T \in SUBSET S :
              Iter(f, S)[T] = IF T = {} THEN 0 ELSE f[Some(T)] + Iter(f, S)[T \ {Some(T)}]
<1> DEFINE step == [p \in S \X Int |-> f[p[1]] + p[2]]
           pick == [T \in (SUBSET S) \ {{}} |-> Some(T)]
<1>1. step \in [S \X Int -> Int]
  OBVIOUS
<1>2. Picks(S, pick)
  <2>1. \A T \in (SUBSET S) \ {{}} : Some(T) \in T
    BY DEF Some
  <2> QED
    BY <2>1 DEF Picks
<1>3. PICK it \in [SUBSET S -> Int] : Follows(S, 0, step, pick, it)
  <2> DEFINE X    == Int
             base == 0
  <2>1. base \in X /\ step \in [S \X X -> X]
    BY <1>1
  <2> HIDE DEF step, pick, X, base
  <2>2. \E it \in [SUBSET S -> X] : Follows(S, base, step, pick, it)
    BY <1>2, <2>1, RecursionDefined
  <2> QED
    BY <2>2 DEF X, base
<1>4. Equation(f, S, it)
  <2>1. ASSUME NEW T \in SUBSET S, T # {}
        PROVE  step[<<pick[T], it[T \ {pick[T]}]>>] = f[Some(T)] + it[T \ {Some(T)}]
    <3>1. pick[T] = Some(T) /\ Some(T) \in S
      BY <2>1, <1>2 DEF Picks
    <3>2. it[T \ {Some(T)}] \in Int
      BY <3>1
    <3>3. \A x \in S, v \in Int : step[<<x, v>>] = f[x] + v
      OBVIOUS
    <3> HIDE DEF step, pick
    <3> QED
      BY <3>1, <3>2, <3>3
  <2>2. \A T \in SUBSET S :
          it[T] = IF T = {} THEN 0 ELSE f[Some(T)] + it[T \ {Some(T)}]
    <3> HIDE DEF step, pick
    <3> QED
      BY <1>3, <2>1 DEF Follows
  <2> QED
    BY <2>2 DEF Equation
<1>5. Equation(f, S, Iter(f, S))
  <2> HIDE DEF step, pick
  <2> QED
    BY <1>4 DEF Iter
<1> DEFINE g == Iter(f, S)
<1>6. g = [s \in SUBSET S |-> IF s = {} THEN 0 ELSE f[Some(s)] + g[s \ {Some(s)}]]
  BY <1>5 DEF Equation
<1>7. \A T \in SUBSET S : g[T] = IF T = {} THEN 0 ELSE f[Some(T)] + g[T \ {Some(T)}]
  <2> HIDE DEF g
  <2> QED
    BY <1>6
<1>8. \A T \in SUBSET S : g[T] \in Int
  <2> DEFINE F == {T \in SUBSET S : g[T] \in Int}
  <2> SUFFICES ASSUME NEW T \in SUBSET S PROVE T \in F
    OBVIOUS
  <2>1. IsFiniteSet(T)
    BY FS_Subset
  <2>2. ASSUME NEW U \in SUBSET T, \A x \in U : U \ {x} \in F
        PROVE  U \in F
    <3> HIDE DEF g
    <3>1. U # {} => Some(U) \in U /\ Some(U) \in S
      BY DEF Some
    <3>2. U \in SUBSET S
      OBVIOUS
    <3>3. U # {} => g[U \ {Some(U)}] \in Int
      BY <2>2, <3>1
    <3> QED
      BY <1>7, <3>1, <3>2, <3>3
  <2> HIDE DEF F
  <2> QED
    BY <2>1, <2>2, FiniteInduction
<1>9. g \in [SUBSET S -> Int]
  <2> HIDE DEF g
  <2> QED
    BY <1>6, <1>8
<1> QED
  BY <1>7, <1>9

(* The value for a set depends neither on the set it is a subset of nor on *)
(* the function elsewhere.                                                 *)
LEMMA IterAgree ==
  ASSUME NEW S, IsFiniteSet(S), NEW f, \A x \in S : f[x] \in Int,
         NEW T, IsFiniteSet(T), NEW g, \A x \in T : g[x] \in Int,
         NEW U, U \subseteq S, U \subseteq T, \A x \in U : f[x] = g[x]
  PROVE  Iter(f, S)[U] = Iter(g, T)[U]
<1> DEFINE F == {V \in SUBSET U : Iter(f, S)[V] = Iter(g, T)[V]}
<1>1. \A V \in SUBSET S :
        Iter(f, S)[V] = IF V = {} THEN 0 ELSE f[Some(V)] + Iter(f, S)[V \ {Some(V)}]
  BY IterDefined, Zenon
<1>2. \A V \in SUBSET T :
        Iter(g, T)[V] = IF V = {} THEN 0 ELSE g[Some(V)] + Iter(g, T)[V \ {Some(V)}]
  BY IterDefined, Zenon
<1>3. ASSUME NEW V \in SUBSET U, \A x \in V : V \ {x} \in F
      PROVE  V \in F
  <2>1. V \in SUBSET S /\ V \in SUBSET T
    OBVIOUS
  <2>2. V # {} => Some(V) \in V
    BY DEF Some
  <2>3. V # {} => Iter(f, S)[V \ {Some(V)}] = Iter(g, T)[V \ {Some(V)}]
    BY <1>3, <2>2
  <2>4. V # {} => f[Some(V)] = g[Some(V)]
    BY <2>2
  <2> QED
    BY <1>1, <1>2, <2>1, <2>3, <2>4
<1>4. IsFiniteSet(U)
  BY FS_Subset
<1>5. U \in F
  <2> HIDE DEF F
  <2> QED
    BY <1>3, <1>4, FiniteInduction
<1> QED
  BY <1>5

LEMMA SumType ==
  ASSUME NEW S, IsFiniteSet(S), NEW f, \A x \in S : f[x] \in Int
  PROVE  SumFunctionOnSet(f, S) \in Int
<1>1. Iter(f, S) \in [SUBSET S -> Int]
  BY IterDefined, Zenon
<1>2. Iter(f, S)[S] \in Int
  BY <1>1
<1> QED
  BY <1>2, SumIsIter

LEMMA SumEmpty ==
  ASSUME NEW f
  PROVE  SumFunctionOnSet(f, {}) = 0
BY SumIsIter, IterDefined, FS_EmptySet

LEMMA SumSame ==
  ASSUME NEW S, IsFiniteSet(S), NEW f, NEW g,
         \A x \in S : f[x] \in Int /\ g[x] = f[x]
  PROVE  SumFunctionOnSet(g, S) = SumFunctionOnSet(f, S)
<1>1. Iter(g, S)[S] = Iter(f, S)[S]
  BY IterAgree
<1> QED
  BY <1>1, SumIsIter

(* The sum does not depend on the order in which the elements are taken.   *)
LEMMA SumRemove ==
  ASSUME NEW S, IsFiniteSet(S), NEW f, \A x \in S : f[x] \in Int, NEW e \in S
  PROVE  SumFunctionOnSet(f, S) = f[e] + SumFunctionOnSet(f, S \ {e})
<1> DEFINE g    == Iter(f, S)
           F    == {T \in SUBSET S : \A x \in T : g[T] = f[x] + g[T \ {x}]}
<1>1. \A T \in SUBSET S : g[T] = IF T = {} THEN 0 ELSE f[Some(T)] + g[T \ {Some(T)}]
  BY IterDefined
<1>2. \A T \in SUBSET S : g[T] \in Int
  BY IterDefined
<1>3. ASSUME NEW T \in SUBSET S, \A x \in T : T \ {x} \in F
      PROVE  T \in F
  <2> SUFFICES ASSUME NEW x \in T PROVE g[T] = f[x] + g[T \ {x}]
    OBVIOUS
  <2> DEFINE y == Some(T)
  <2>1. y \in T
    BY DEF Some
  <2> HIDE DEF g, y, F
  <2>2. g[T] = f[y] + g[T \ {y}]
    BY <1>1, <2>1 DEF y
  <2>3. CASE x = y
    BY <2>2, <2>3
  <2>4. CASE x # y
    <3>1. g[T \ {y}] = f[x] + g[(T \ {y}) \ {x}]
      BY <1>3, <2>1, <2>4 DEF F
    <3>2. g[T \ {x}] = f[y] + g[(T \ {x}) \ {y}]
      BY <1>3, <2>1, <2>4 DEF F
    <3>3. (T \ {x}) \ {y} = (T \ {y}) \ {x}
      OBVIOUS
    <3>4. f[x] \in Int /\ f[y] \in Int /\ g[(T \ {x}) \ {y}] \in Int
      BY <1>2, <2>1
    <3>5. g[T] = f[y] + (f[x] + g[(T \ {x}) \ {y}])
      BY <2>2, <3>1, <3>3
    <3> QED
      BY <3>2, <3>4, <3>5
  <2> QED
    BY <2>3, <2>4
<1>4. S \in F
  <2> HIDE DEF F
  <2> QED
    BY <1>3, FiniteInduction
<1>5. IsFiniteSet(S \ {e})
  BY FS_Subset
<1>6. Iter(f, S \ {e})[S \ {e}] = g[S \ {e}]
  BY <1>5, IterAgree
<1> QED
  BY <1>4, <1>6, SumIsIter

LEMMA SumAdd ==
  ASSUME NEW S, IsFiniteSet(S), NEW f, NEW e, e \notin S,
         \A x \in S \cup {e} : f[x] \in Int
  PROVE  SumFunctionOnSet(f, S \cup {e}) = SumFunctionOnSet(f, S) + f[e]
<1>1. IsFiniteSet(S \cup {e})
  BY FS_AddElement
<1>2. (S \cup {e}) \ {e} = S
  OBVIOUS
<1>3. SumFunctionOnSet(f, S) \in Int
  BY SumType
<1> QED
  BY <1>1, <1>2, <1>3, SumRemove

(* Two functions that differ at one element.                               *)
LEMMA SumChange ==
  ASSUME NEW S, IsFiniteSet(S), NEW f, NEW g, NEW e \in S,
         \A x \in S : f[x] \in Int /\ g[x] \in Int,
         \A x \in S \ {e} : g[x] = f[x]
  PROVE  SumFunctionOnSet(g, S) = SumFunctionOnSet(f, S) + g[e] - f[e]
<1>1. IsFiniteSet(S \ {e})
  BY FS_Subset
<1>2. SumFunctionOnSet(g, S \ {e}) = SumFunctionOnSet(f, S \ {e})
  BY <1>1, SumSame
<1>3. SumFunctionOnSet(f, S \ {e}) \in Int
  BY <1>1, SumType
<1>4. SumFunctionOnSet(f, S) = f[e] + SumFunctionOnSet(f, S \ {e})
  BY SumRemove
<1>5. SumFunctionOnSet(g, S) = g[e] + SumFunctionOnSet(g, S \ {e})
  BY SumRemove
<1> QED
  BY <1>2, <1>3, <1>4, <1>5

(* A sum of the greater terms over the greater set is the greater.         *)
LEMMA SumLeq ==
  ASSUME NEW S, IsFiniteSet(S), NEW f, NEW g,
         \A x \in S : f[x] \in Int /\ g[x] \in Int /\ f[x] <= g[x]
  PROVE  SumFunctionOnSet(f, S) <= SumFunctionOnSet(g, S)
<1> DEFINE F == {T \in SUBSET S : SumFunctionOnSet(f, T) <= SumFunctionOnSet(g, T)}
<1>1. ASSUME NEW T \in SUBSET S, \A x \in T : T \ {x} \in F
      PROVE  T \in F
  <2>1. CASE T = {}
    BY <2>1, SumEmpty
  <2>2. CASE T # {}
    <3>1. PICK x \in T : TRUE
      BY <2>2
    <3>2. IsFiniteSet(T) /\ IsFiniteSet(T \ {x})
      BY FS_Subset
    <3>3. SumFunctionOnSet(f, T \ {x}) \in Int /\ SumFunctionOnSet(g, T \ {x}) \in Int
      BY <3>2, SumType
    <3>4. SumFunctionOnSet(f, T) = f[x] + SumFunctionOnSet(f, T \ {x})
      BY <3>2, SumRemove
    <3>5. SumFunctionOnSet(g, T) = g[x] + SumFunctionOnSet(g, T \ {x})
      BY <3>2, SumRemove
    <3>6. SumFunctionOnSet(f, T \ {x}) <= SumFunctionOnSet(g, T \ {x})
      BY <1>1
    <3> QED
      BY <3>3, <3>4, <3>5, <3>6
  <2> QED
    BY <2>1, <2>2
<1>2. S \in F
  <2> HIDE DEF F
  <2> QED
    BY <1>1, FiniteInduction
<1> QED
  BY <1>2

LEMMA SumNat ==
  ASSUME NEW S, IsFiniteSet(S), NEW f, \A x \in S : f[x] \in Nat
  PROVE  SumFunctionOnSet(f, S) \in Nat
<1> DEFINE F == {T \in SUBSET S : SumFunctionOnSet(f, T) \in Nat}
<1>1. ASSUME NEW T \in SUBSET S, \A x \in T : T \ {x} \in F
      PROVE  T \in F
  <2>1. CASE T = {}
    BY <2>1, SumEmpty
  <2>2. CASE T # {}
    <3>1. PICK x \in T : TRUE
      BY <2>2
    <3>2. IsFiniteSet(T)
      BY FS_Subset
    <3>3. SumFunctionOnSet(f, T) = f[x] + SumFunctionOnSet(f, T \ {x})
      BY <3>2, SumRemove
    <3> QED
      BY <1>1, <3>3
  <2> QED
    BY <2>1, <2>2
<1>2. S \in F
  <2> HIDE DEF F
  <2> QED
    BY <1>1, FiniteInduction
<1> QED
  BY <1>2

(* Sums are additive in the function.                                      *)
LEMMA SumOfSums ==
  ASSUME NEW S, IsFiniteSet(S), NEW f, NEW g, NEW h,
         \A x \in S : f[x] \in Int /\ g[x] \in Int /\ h[x] = f[x] + g[x]
  PROVE  SumFunctionOnSet(h, S) = SumFunctionOnSet(f, S) + SumFunctionOnSet(g, S)
<1> DEFINE F == {T \in SUBSET S :
       SumFunctionOnSet(h, T) = SumFunctionOnSet(f, T) + SumFunctionOnSet(g, T)}
<1>1. ASSUME NEW T \in SUBSET S, \A x \in T : T \ {x} \in F
      PROVE  T \in F
  <2>1. CASE T = {}
    BY <2>1, SumEmpty
  <2>2. CASE T # {}
    <3>1. PICK x \in T : TRUE
      BY <2>2
    <3>2. IsFiniteSet(T) /\ IsFiniteSet(T \ {x})
      BY FS_Subset
    <3>3. SumFunctionOnSet(f, T \ {x}) \in Int /\ SumFunctionOnSet(g, T \ {x}) \in Int
      BY <3>2, SumType
    <3>4. SumFunctionOnSet(f, T) = f[x] + SumFunctionOnSet(f, T \ {x})
      BY <3>2, SumRemove
    <3>5. SumFunctionOnSet(g, T) = g[x] + SumFunctionOnSet(g, T \ {x})
      BY <3>2, SumRemove
    <3>6. SumFunctionOnSet(h, T) = h[x] + SumFunctionOnSet(h, T \ {x})
      BY <3>2, SumRemove
    <3>7. SumFunctionOnSet(h, T \ {x})
            = SumFunctionOnSet(f, T \ {x}) + SumFunctionOnSet(g, T \ {x})
      BY <1>1
    <3> QED
      BY <3>3, <3>4, <3>5, <3>6, <3>7
  <2> QED
    BY <2>1, <2>2
<1>2. S \in F
  <2> HIDE DEF F
  <2> QED
    BY <1>1, FiniteInduction
<1> QED
  BY <1>2

LEMMA SumZero ==
  ASSUME NEW S, IsFiniteSet(S), NEW f, \A x \in S : f[x] = 0
  PROVE  SumFunctionOnSet(f, S) = 0
<1> DEFINE F == {T \in SUBSET S : SumFunctionOnSet(f, T) = 0}
<1>1. ASSUME NEW T \in SUBSET S, \A x \in T : T \ {x} \in F
      PROVE  T \in F
  <2>1. CASE T = {}
    BY <2>1, SumEmpty
  <2>2. CASE T # {}
    <3>1. PICK x \in T : TRUE
      BY <2>2
    <3>2. IsFiniteSet(T)
      BY FS_Subset
    <3>3. SumFunctionOnSet(f, T) = f[x] + SumFunctionOnSet(f, T \ {x})
      BY <3>2, SumRemove
    <3> QED
      BY <1>1, <3>3
  <2> QED
    BY <2>1, <2>2
<1>2. S \in F
  <2> HIDE DEF F
  <2> QED
    BY <1>1, FiniteInduction
<1> QED
  BY <1>2

(* A term is at most the sum of the terms.                                 *)
LEMMA SumElement ==
  ASSUME NEW S, IsFiniteSet(S), NEW f, \A x \in S : f[x] \in Nat, NEW e \in S
  PROVE  f[e] <= SumFunctionOnSet(f, S)
<1>1. IsFiniteSet(S \ {e})
  BY FS_Subset
<1>2. SumFunctionOnSet(f, S \ {e}) \in Nat
  BY <1>1, SumNat
<1>3. SumFunctionOnSet(f, S) = f[e] + SumFunctionOnSet(f, S \ {e})
  BY SumRemove
<1> QED
  BY <1>2, <1>3

(* What a sequence that grows adds to the sum of its terms.                *)
LEMMA SumAppend ==
  ASSUME NEW n \in Nat, NEW f, NEW g,
         \A i \in 1..n : f[i] \in Int /\ g[i] = f[i], g[n + 1] \in Int
  PROVE  SumFunctionOnSet(g, 1..(n + 1)) = SumFunctionOnSet(f, 1..n) + g[n + 1]
<1> DEFINE S == 1..n
           e == n + 1
<1>1. IsFiniteSet(S)
  BY FS_Interval
<1>2. e \notin S /\ 1..(n + 1) = S \cup {e}
  OBVIOUS
<1>3. \A i \in S \cup {e} : g[i] \in Int
  OBVIOUS
<1>4. \A i \in S : f[i] \in Int /\ g[i] = f[i]
  OBVIOUS
<1> HIDE DEF S, e
<1>5. SumFunctionOnSet(g, S \cup {e}) = SumFunctionOnSet(g, S) + g[e]
  BY <1>1, <1>2, <1>3, SumAdd
<1>6. SumFunctionOnSet(g, S) = SumFunctionOnSet(f, S)
  BY <1>1, <1>4, SumSame
<1>7. SumFunctionOnSet(g, 1..(n + 1)) = SumFunctionOnSet(f, S) + g[e]
  BY <1>2, <1>5, <1>6
<1> QED
  BY <1>7 DEF S, e
(* Elements that contribute nothing may be left out.                       *)
LEMMA SumRestrict ==
  ASSUME NEW S, IsFiniteSet(S), NEW f, \A x \in S : f[x] \in Int,
         NEW R, R \subseteq S, \A x \in S \ R : f[x] = 0
  PROVE  SumFunctionOnSet(f, S) = SumFunctionOnSet(f, R)
<1> DEFINE F == {T \in SUBSET S : SumFunctionOnSet(f, T) = SumFunctionOnSet(f, T \cap R)}
<1>1. ASSUME NEW T \in SUBSET S, \A x \in T : T \ {x} \in F
      PROVE  T \in F
  <2>1. CASE T = {}
    <3>1. T \cap R = T
      BY <2>1
    <3> QED
      BY <3>1
  <2>2. CASE T # {}
    <3>1. PICK x \in T : TRUE
      BY <2>2
    <3> DEFINE U == T \ {x}
    <3>2. IsFiniteSet(T) /\ IsFiniteSet(U) /\ IsFiniteSet(T \cap R)
      BY FS_Subset
    <3>3. SumFunctionOnSet(f, T) = f[x] + SumFunctionOnSet(f, U)
      BY <3>2, SumRemove
    <3>4. SumFunctionOnSet(f, U) = SumFunctionOnSet(f, U \cap R)
      BY <1>1
    <3>5. CASE x \in R
      <4>1. (T \cap R) \ {x} = U \cap R /\ x \in T \cap R
        BY <3>5
      <4>2. \A y \in T \cap R : f[y] \in Int
        OBVIOUS
      <4> DEFINE V == T \cap R
      <4> HIDE DEF V
      <4>3. SumFunctionOnSet(f, V) = f[x] + SumFunctionOnSet(f, V \ {x})
        BY <3>2, <4>1, <4>2, SumRemove DEF V
      <4> QED
        BY <3>3, <3>4, <4>1, <4>3 DEF V
    <3>6. CASE x \notin R
      <4>1. T \cap R = U \cap R /\ f[x] = 0
        BY <3>6
      <4>2. SumFunctionOnSet(f, U) \in Int
        BY <3>2, SumType
      <4>3. SumFunctionOnSet(f, T) = SumFunctionOnSet(f, U)
        BY <3>3, <4>1, <4>2
      <4> QED
        BY <3>4, <4>1, <4>3
    <3> QED
      BY <3>5, <3>6
  <2> QED
    BY <2>1, <2>2
<1>2. S \in F
  <2> HIDE DEF F
  <2> QED
    BY <1>1, FiniteInduction
<1>3. S \cap R = R
  OBVIOUS
<1> QED
  BY <1>2, <1>3

LEMMA SumScale ==
  ASSUME NEW S, IsFiniteSet(S), NEW f, NEW g, NEW c \in Int,
         \A x \in S : f[x] \in Int /\ g[x] = f[x] * c
  PROVE  SumFunctionOnSet(g, S) = SumFunctionOnSet(f, S) * c
<1> DEFINE F == {T \in SUBSET S : SumFunctionOnSet(g, T) = SumFunctionOnSet(f, T) * c}
<1>1. ASSUME NEW T \in SUBSET S, \A x \in T : T \ {x} \in F
      PROVE  T \in F
  <2>1. CASE T = {}
    BY <2>1, SumEmpty
  <2>2. CASE T # {}
    <3>1. PICK x \in T : TRUE
      BY <2>2
    <3> DEFINE U == T \ {x}
    <3>2. IsFiniteSet(T) /\ IsFiniteSet(U)
      BY FS_Subset
    <3>3. \A y \in S : g[y] \in Int
      <4>1. \A m, n \in Int : m * n \in Int
        OBVIOUS
      <4> QED
        BY <4>1
    <3>4. SumFunctionOnSet(f, U) \in Int
      BY <3>2, SumType
    <3>5. SumFunctionOnSet(f, T) = f[x] + SumFunctionOnSet(f, U)
      BY <3>2, SumRemove
    <3>6. SumFunctionOnSet(g, T) = g[x] + SumFunctionOnSet(g, U)
      BY <3>2, <3>3, SumRemove
    <3>7. SumFunctionOnSet(g, U) = SumFunctionOnSet(f, U) * c
      BY <1>1
    <3>8. \A m, n \in Int : m * c + n * c = (m + n) * c
      OBVIOUS
    <3>9. g[x] = f[x] * c /\ f[x] \in Int
      OBVIOUS
    <3>10. SumFunctionOnSet(g, T) = (f[x] + SumFunctionOnSet(f, U)) * c
      BY <3>4, <3>6, <3>7, <3>8, <3>9
    <3> QED
      BY <3>5, <3>10
  <2> QED
    BY <2>1, <2>2
<1>2. S \in F
  <2> HIDE DEF F
  <2> QED
    BY <1>1, FiniteInduction
<1> QED
  BY <1>2

(* Elements that are named several times are counted once.                 *)
LEMMA SumImage ==
  ASSUME NEW D, IsFiniteSet(D), NEW at, NEW f, \A i \in D : f[at[i]] \in Nat,
         NEW g, \A i \in D : g[i] = f[at[i]]
  PROVE  SumFunctionOnSet(f, {at[i] : i \in D}) <= SumFunctionOnSet(g, D)
<1> DEFINE Image(T) == {at[i] : i \in T}
           F == {T \in SUBSET D :
                  /\ IsFiniteSet(Image(T))
                  /\ SumFunctionOnSet(f, Image(T)) <= SumFunctionOnSet(g, T)}
<1>1. ASSUME NEW T \in SUBSET D, \A i \in T : T \ {i} \in F
      PROVE  T \in F
  <2>1. CASE T = {}
    <3>1. Image(T) = {}
      BY <2>1
    <3> HIDE DEF Image
    <3> QED
      BY <2>1, <3>1, SumEmpty, FS_EmptySet
  <2>2. CASE T # {}
    <3>1. PICK i \in T : TRUE
      BY <2>2
    <3> DEFINE U == T \ {i}
               e == at[i]
    <3>2. IsFiniteSet(T) /\ IsFiniteSet(U)
      BY FS_Subset
    <3>3. IsFiniteSet(Image(U)) /\ \A x \in Image(U) : f[x] \in Nat
      <4>1. IsFiniteSet(Image(U))
        BY <1>1
      <4> QED
        BY <4>1
    <3>4. Image(T) = Image(U) \cup {e} /\ f[e] \in Nat /\ g[i] = f[e]
      OBVIOUS
    <3>5. SumFunctionOnSet(g, T) = g[i] + SumFunctionOnSet(g, U)
      <4>1. \A j \in T : g[j] \in Int
        OBVIOUS
      <4> QED
        BY <3>2, <4>1, SumRemove
    <3>6. SumFunctionOnSet(f, Image(U)) <= SumFunctionOnSet(g, U)
      BY <1>1
    <3>7. SumFunctionOnSet(g, U) \in Nat
      BY <3>2, SumNat
    <3>8. SumFunctionOnSet(f, Image(U)) \in Nat
      <4> HIDE DEF Image
      <4> QED
        BY <3>3, SumNat
    <3> HIDE DEF U, e, Image, F
    <3>9. CASE e \in Image(U)
      <4>1. Image(T) = Image(U)
        BY <3>4, <3>9
      <4>2. SumFunctionOnSet(f, Image(T)) <= SumFunctionOnSet(g, T)
        <5>1. g[i] \in Nat
          BY <3>4
        <5>2. SumFunctionOnSet(f, Image(U)) <= SumFunctionOnSet(g, T)
          BY <3>5, <3>6, <3>7, <3>8, <5>1
        <5> QED
          BY <4>1, <5>2
      <4> QED
        BY <3>3, <4>1, <4>2 DEF F
    <3>10. CASE e \notin Image(U)
      <4>1. \A x \in Image(U) \cup {e} : f[x] \in Int
        BY <3>3, <3>4
      <4>2. SumFunctionOnSet(f, Image(T)) = SumFunctionOnSet(f, Image(U)) + f[e]
        BY <3>3, <3>4, <3>10, <4>1, SumAdd
      <4>3. SumFunctionOnSet(f, Image(T)) <= SumFunctionOnSet(g, T)
        BY <3>4, <3>5, <3>6, <3>7, <3>8, <4>2
      <4>4. IsFiniteSet(Image(T))
        BY <3>3, <3>4, FS_AddElement
      <4> QED
        BY <4>3, <4>4 DEF F
    <3> QED
      BY <3>9, <3>10
  <2> QED
    BY <2>1, <2>2
<1>2. D \in F
  <2> HIDE DEF F
  <2> QED
    BY <1>1, FiniteInduction
<1> QED
  BY <1>2


=============================================================================
