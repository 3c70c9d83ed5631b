------------------------------ MODULE Induction ------------------------------
(***************************************************************************)
(* Induction and recursion on natural numbers and on finite sets, stated   *)
(* with sets and functions where the library's theorems take operators, so *)
(* that proofs can cite them.                                              *)
(***************************************************************************)
EXTENDS Integers, Functions, FiniteSetTheorems, WellFoundedInduction, TLAPS

\* Ways to go on from a value in S, and to take the elements of a set one by one.
Steps(D, S) == [D -> [S -> S]]
Picks(D) == {pick \in [(SUBSET D) \ {{}} -> D] : \A U \in (SUBSET D) \ {{}} : pick[U] \in U}

\* A function of the naturals, of those up to m, or of the subsets of D, that a first
\* value and steps define.  Lemmas about them cite no more than these names, which the
\* provers instantiate more easily than what they stand for.
Counts(f, S, base, step) ==
    f \in [Nat -> S] /\ f[0] = base /\ \A n \in Nat \ {0} : f[n] = step[n][f[n - 1]]

CountsTo(f, m, S, base, step) ==
    f \in [0..m -> S] /\ f[0] = base /\ \A n \in 1..m : f[n] = step[n][f[n - 1]]

Shrinks(f, D, S, base, step, pick) ==
    /\ f \in [SUBSET D -> S]
    /\ f[{}] = base
    /\ \A U \in SUBSET D : U # {} => f[U] = step[pick[U]][f[U \ {pick[U]}]]

------------------------------------------------------------------------------
(* Natural numbers *)

\* A set of naturals that is not empty has a least element.
LEMMA Least ==
    ASSUME NEW S \in SUBSET Nat, S # {}
    PROVE  \E m \in S : \A k \in S : m <= k
<1> DEFINE R == {pair \in Nat \X Nat : pair[1] < pair[2]}
<1>1. IsWellFoundedOn(R, Nat)
  BY NatLessThanWellFounded DEF OpToRel
<1>2. PICK m \in S : \A k \in S : <<k, m>> \notin R
  BY <1>1, WFMin
<1>3. ASSUME NEW k \in S PROVE m <= k
  <2>1. <<k, m>> \notin R /\ k \in Nat /\ m \in Nat
    BY <1>2
  <2>2. QED
    BY <2>1
<1>4. QED
  BY <1>3

\* A set of naturals up to m that is not empty has a greatest element.
LEMMA Greatest ==
    ASSUME NEW m \in Nat, NEW S \in SUBSET (0..m), S # {}
    PROVE  \E n \in S : \A k \in S : k <= n
<1> DEFINE R == {m - k : k \in S}
<1>1. \A k \in S : m - k \in Nat /\ m - k \in R
  OBVIOUS
<1>2. R \in SUBSET Nat /\ R # {}
  BY <1>1
<1> HIDE DEF R
<1>3. PICK r \in R : \A k \in R : r <= k
  BY <1>2, Least
<1>4. PICK n \in S : r = m - n
  BY DEF R
<1>5. ASSUME NEW k \in S PROVE k <= n
  BY <1>1, <1>3, <1>4
<1>6. QED
  BY <1>5

\* A set that has zero and the successor of each of its elements has all naturals.
LEMMA NaturalInduction ==
    ASSUME NEW S \in SUBSET Nat, 0 \in S, \A n \in S : n + 1 \in S
    PROVE  S = Nat
<1>1. SUFFICES ASSUME S # Nat PROVE FALSE
  OBVIOUS
<1>2. PICK m \in Nat \ S : \A k \in Nat \ S : m <= k
  BY <1>1, Least
<1>3. m - 1 \in Nat /\ m - 1 \notin Nat \ S
  BY <1>2
<1>4. QED
  BY <1>2, <1>3

\* A function of the naturals may be defined by its first value and by steps.
LEMMA NaturalRecursion ==
    ASSUME NEW S, NEW base \in S, NEW step \in Steps(Nat, S)
    PROVE  \E f : Counts(f, S, base, step)
<1> USE DEF Steps, Counts
<1> DEFINE Upto(n, g) == /\ g \in [0..n -> S]
                         /\ g[0] = base
                         /\ \A k \in 1..n : g[k] = step[k][g[k - 1]]
           Good == {n \in Nat : \E g : Upto(n, g)}
           Same == {n \in Nat : \A m \in Nat : \A g, h :
                        Upto(n, g) /\ Upto(m, h) /\ n <= m => g[n] = h[n]}
<1>1. Good = Nat
  <2>1. 0 \in Good
    <3>1. Upto(0, [k \in 0..0 |-> base])
      OBVIOUS
    <3>2. QED
      BY <3>1
  <2>2. ASSUME NEW n \in Good PROVE n + 1 \in Good
    <3>1. PICK g : Upto(n, g)
      OBVIOUS
    <3> DEFINE h == [k \in 0..(n + 1) |-> IF k = n + 1 THEN step[n + 1][g[n]] ELSE g[k]]
    <3>2. h \in [0..(n + 1) -> S]
      <4>1. g[n] \in S /\ n + 1 \in Nat
        BY <3>1
      <4>2. step[n + 1][g[n]] \in S
        BY <4>1
      <4>3. QED
        BY <3>1, <4>2
    <3>3. \A k \in 0..n : h[k] = g[k]
      OBVIOUS
    <3>4. h[n + 1] = step[n + 1][g[n]]
      OBVIOUS
    <3> HIDE DEF h
    <3>5. ASSUME NEW k \in 1..(n + 1) PROVE h[k] = step[k][h[k - 1]]
      <4>1. CASE k = n + 1
        BY <4>1, <3>3, <3>4
      <4>2. CASE k \in 1..n
        BY <4>2, <3>3, <3>1
      <4>3. QED
        BY <4>1, <4>2
    <3>6. Upto(n + 1, h)
      BY <3>1, <3>2, <3>3, <3>5
    <3>7. QED
      BY <3>6
  <2>3. Good \in SUBSET Nat
    OBVIOUS
  <2> HIDE DEF Good
  <2>4. QED
    BY <2>1, <2>2, <2>3, NaturalInduction
<1>2. Same = Nat
  <2>1. 0 \in Same
    OBVIOUS
  <2>2. ASSUME NEW n \in Same,
               NEW m \in Nat, NEW g, NEW h, Upto(n + 1, g), Upto(m, h), n + 1 <= m
        PROVE  g[n + 1] = h[n + 1]
    <3>1. Upto(n, [k \in 0..n |-> g[k]])
      BY <2>2
    <3>2. [k \in 0..n |-> g[k]][n] = h[n]
      <4>1. n <= m
        BY <2>2
      <4> HIDE DEF Upto
      <4>2. QED
        BY <2>2, <3>1, <4>1
    <3>3. g[n + 1] = step[n + 1][g[n]] /\ h[n + 1] = step[n + 1][h[n]]
      BY <2>2
    <3>4. QED
      BY <3>2, <3>3
  <2>3. Same \in SUBSET Nat /\ \A n \in Same : n + 1 \in Same
    <3> HIDE DEF Upto
    <3>1. QED
      BY <2>2
  <2> HIDE DEF Same
  <2>4. QED
    BY <2>1, <2>3, NaturalInduction
<1> DEFINE c == [n \in Nat |-> CHOOSE g : Upto(n, g)]
           f == [n \in Nat |-> c[n][n]]
<1>3. \A n \in Nat : Upto(n, c[n])
  <2> HIDE DEF Upto
  <2>1. \A n \in Nat : \E g : Upto(n, g)
    BY <1>1
  <2>2. QED
    BY <2>1, Zenon
<1> HIDE DEF c
<1>4. \A n \in Nat : f[n] \in S
  BY <1>3
<1>5. f[0] = base
  BY <1>3
<1>6. ASSUME NEW n \in Nat \ {0} PROVE f[n] = step[n][f[n - 1]]
  <2>1. Upto(n, c[n]) /\ Upto(n - 1, c[n - 1]) /\ n - 1 \in Nat /\ n - 1 <= n
    BY <1>3
  <2>2. c[n - 1][n - 1] = c[n][n - 1]
    <3> HIDE DEF Upto
    <3>1. n - 1 \in Same
      BY <1>2, <2>1
    <3>2. QED
      BY <2>1, <3>1
  <2>3. c[n][n] = step[n][c[n][n - 1]]
    BY <2>1
  <2>4. QED
    BY <2>1, <2>2, <2>3
<1>7. f = [n \in Nat |-> f[n]]
  OBVIOUS
<1> HIDE DEF f
<1>8. QED
  BY <1>4, <1>5, <1>6, <1>7

\* The same up to a natural.
LEMMA UptoInduction ==
    ASSUME NEW m \in Nat, NEW S \in SUBSET (0..m), 0 \in S,
           \A n \in S : n < m => n + 1 \in S
    PROVE  S = 0..m
<1> DEFINE T == {n \in Nat : n <= m => n \in S}
<1>1. T \in SUBSET Nat /\ 0 \in T /\ \A n \in T : n + 1 \in T
  OBVIOUS
<1> HIDE DEF T
<1>2. T = Nat
  BY <1>1, NaturalInduction
<1>3. ASSUME NEW n \in 0..m PROVE n \in S
  <2>1. n \in T
    BY <1>2
  <2>2. QED
    BY <2>1 DEF T
<1>4. QED
  BY <1>3

LEMMA UptoRecursion ==
    ASSUME NEW m \in Nat, NEW S, NEW base \in S, NEW step \in Steps(1..m, S)
    PROVE  \E f : CountsTo(f, m, S, base, step)
<1> DEFINE all == [n \in Nat |-> IF n \in 1..m THEN step[n] ELSE [s \in S |-> s]]
<1>1. all \in Steps(Nat, S) /\ \A n \in 1..m : all[n] = step[n]
  BY DEF Steps
<1> HIDE DEF all
<1>2. PICK f : Counts(f, S, base, all)
  BY <1>1, NaturalRecursion
<1> DEFINE g == [n \in 0..m |-> f[n]]
<1>3. CountsTo(g, m, S, base, step)
  <2>1. g \in [0..m -> S] /\ g[0] = base
    BY <1>2 DEF Counts
  <2>2. ASSUME NEW n \in 1..m PROVE g[n] = step[n][g[n - 1]]
    BY <1>1, <1>2 DEF Counts
  <2> HIDE DEF g
  <2>3. QED
    BY <2>1, <2>2 DEF CountsTo
<1>4. QED
  BY <1>3

------------------------------------------------------------------------------
(* Finite sets *)

\* A family that has each subset whose proper subsets it has, has all subsets.
LEMMA SubsetInduction ==
    ASSUME NEW D, IsFiniteSet(D), NEW Good \in SUBSET (SUBSET D),
           \A U \in SUBSET D : (\A V \in SUBSET U : V # U => V \in Good) => U \in Good
    PROVE  Good = SUBSET D
<1>1. SUFFICES ASSUME Good # SUBSET D PROVE FALSE
  OBVIOUS
<1>2. FiniteSubsetsOf(D) = SUBSET D
  BY FS_FiniteSubsetsOfFinite
<1>3. IsWellFoundedOn(StrictSubsetOrdering(D), SUBSET D)
  BY <1>2, FS_StrictSubsetOrderingWellFounded
<1> DEFINE Bad == (SUBSET D) \ Good
<1>4. Bad # {} /\ Bad \subseteq SUBSET D
  BY <1>1
<1> HIDE DEF Bad
<1>5. PICK U \in Bad : \A V \in Bad : ~ (<<V, U>> \in StrictSubsetOrdering(D))
  BY <1>3, <1>4, WFMin
<1>6. ASSUME NEW V \in SUBSET U, V # U PROVE V \in Good
  BY <1>4, <1>5, <1>6 DEF StrictSubsetOrdering, Bad
<1>7. QED
  BY <1>4, <1>5, <1>6 DEF Bad

\* A function of the subsets may be defined by its value at the empty set and by
\* steps that take one element away.
LEMMA SubsetRecursion ==
    ASSUME NEW D, NEW S, NEW base \in S, NEW step \in Steps(D, S), NEW pick \in Picks(D),
           IsFiniteSet(D)
    PROVE  \E f : Shrinks(f, D, S, base, step, pick)
<1> USE DEF Steps, Picks, Shrinks
<1> DEFINE Def(g, U) == IF U = {} THEN base ELSE step[pick[U]][g[U \ {pick[U]}]]
           Upto(U, g) == g \in [SUBSET U -> S] /\ \A V \in SUBSET U : g[V] = Def(g, V)
           Good == {U \in SUBSET D : \E g : Upto(U, g)}
           Same == {U \in SUBSET D : \A V \in SUBSET D : \A g, h :
                        Upto(U, g) /\ Upto(V, h) /\ U \subseteq V => g[U] = h[U]}
<1>1. ASSUME NEW U \in SUBSET D, NEW V \in SUBSET U, NEW g, Upto(U, g)
      PROVE  Upto(V, [W \in SUBSET V |-> g[W]])
  <2> DEFINE h == [W \in SUBSET V |-> g[W]]
  <2>1. h \in [SUBSET V -> S]
    BY <1>1
  <2>2. ASSUME NEW W \in SUBSET V PROVE h[W] = Def(h, W)
    <3>1. W \ {pick[W]} \in SUBSET V /\ g[W] = Def(g, W)
      BY <1>1
    <3>2. QED
      BY <3>1
  <2> HIDE DEF h, Def
  <2>3. QED
    BY <2>1, <2>2 DEF h
<1>2. Same = SUBSET D
  <2>1. ASSUME NEW U \in SUBSET D, \A V \in SUBSET U : V # U => V \in Same,
               NEW V \in SUBSET D, NEW g, NEW h, Upto(U, g), Upto(V, h), U \subseteq V
        PROVE  g[U] = h[U]
    <3>1. g[U] = Def(g, U) /\ h[U] = Def(h, U)
      BY <2>1
    <3>2. CASE U = {}
      BY <3>1, <3>2
    <3>3. CASE U # {}
      <4> DEFINE W == U \ {pick[U]}
      <4>1. W \in SUBSET U /\ W # U
        BY <3>3
      <4>2. Upto(W, [X \in SUBSET W |-> g[X]])
        BY <1>1, <2>1, <4>1
      <4>3. W \in Same /\ W \subseteq V /\ W \in SUBSET W
        BY <2>1, <4>1
      <4>4. [X \in SUBSET W |-> g[X]][W] = h[W]
        <5> HIDE DEF Upto, W
        <5>1. QED
          BY <2>1, <4>2, <4>3
      <4>5. g[W] = h[W]
        BY <4>4
      <4>6. QED
        BY <3>1, <3>3, <4>5
    <3>4. QED
      BY <3>2, <3>3
  <2>2. \A U \in SUBSET D : (\A V \in SUBSET U : V # U => V \in Same) => U \in Same
    <3> HIDE DEF Upto
    <3>1. QED
      BY <2>1
  <2>3. Same \in SUBSET (SUBSET D)
    OBVIOUS
  <2> HIDE DEF Same
  <2>4. QED
    BY <2>2, <2>3, SubsetInduction
<1> DEFINE c == [U \in SUBSET D |-> CHOOSE g : Upto(U, g)]
           f == [U \in SUBSET D |-> c[U][U]]
<1>3. ASSUME NEW U \in SUBSET D, \A V \in SUBSET U : V # U => V \in Good
      PROVE  U \in Good
  <2> DEFINE h == [V \in SUBSET U |-> IF V = U THEN Def(f, U) ELSE f[V]]
  <2>1. ASSUME NEW V \in SUBSET U, V # U PROVE Upto(V, c[V])
    <3>1. \E g : Upto(V, g)
      BY <1>3, <2>1
    <3> HIDE DEF Upto
    <3>2. QED
      BY <3>1, Zenon
  <2>2. ASSUME NEW V \in SUBSET U, V # U PROVE f[V] \in S /\ f[V] = Def(f, V)
    <3>1. V \in SUBSET D /\ Upto(V, c[V])
      BY <2>1, <2>2
    <3>2. c[V][V] \in S /\ c[V][V] = Def(c[V], V)
      BY <3>1
    <3>3. CASE V = {}
      BY <3>1, <3>2, <3>3
    <3>4. CASE V # {}
      <4> DEFINE W == V \ {pick[V]}
      <4>1. W \in SUBSET U /\ W # U /\ W \subseteq V /\ W \in SUBSET D
        BY <3>1, <3>4
      <4>2. Upto(W, c[W]) /\ W \in Same
        BY <1>2, <2>1, <4>1
      <4>3. c[W][W] = c[V][W]
        <5> HIDE DEF Upto, W, c
        <5>1. QED
          BY <3>1, <4>1, <4>2
      <4>4. f[W] = c[V][W]
        BY <4>1, <4>3
      <4> HIDE DEF W, c
      <4>5. QED
        BY <3>1, <3>2, <3>4, <4>4 DEF W
    <3>5. QED
      BY <3>3, <3>4
  <2>3. ASSUME NEW V \in SUBSET U PROVE h[V] = Def(h, V) /\ h[V] \in S
    <3> HIDE DEF f
    <3>1. CASE V = {}
      BY <3>1, <2>2
    <3>2. CASE V # {}
      <4> DEFINE W == V \ {pick[V]}
      <4>1. W \in SUBSET U /\ W # U /\ pick[V] \in D
        BY <3>2
      <4>2. h[W] = f[W] /\ f[W] \in S
        BY <2>2, <4>1
      <4>3. h[V] = Def(f, V)
        BY <2>2
      <4>4. Def(h, V) = Def(f, V)
        BY <4>2
      <4>5. Def(f, V) \in S
        <5>1. step[pick[V]] \in [S -> S]
          BY <4>1
        <5>2. QED
          BY <3>2, <4>2, <5>1
      <4>6. QED
        BY <4>3, <4>4, <4>5
    <3>3. QED
      BY <3>1, <3>2
  <2>4. h \in [SUBSET U -> S]
    <3> HIDE DEF f, Def
    <3>1. h = [V \in SUBSET U |-> h[V]]
      OBVIOUS
    <3> HIDE DEF h
    <3>2. QED
      BY <2>3, <3>1
  <2> HIDE DEF h, Def
  <2>5. Upto(U, h)
    BY <2>3, <2>4
  <2>6. QED
    BY <2>5
<1>4. Good = SUBSET D
  <2>1. Good \in SUBSET (SUBSET D)
    OBVIOUS
  <2>2. \A U \in SUBSET D : (\A V \in SUBSET U : V # U => V \in Good) => U \in Good
    BY <1>3
  <2> HIDE DEF Good
  <2>3. QED
    BY <2>1, <2>2, SubsetInduction
<1>5. PICK g : Upto(D, g)
  BY <1>4
<1>6. QED
  BY <1>5
------------------------------------------------------------------------------
(* Sums *)

\* A sum over a finite set is an integer, and is any of its terms plus the sum of the
\* others.
LEMMA SumEquation ==
    ASSUME NEW D, NEW f \in [D -> Int], IsFiniteSet(D)
    PROVE  /\ SumFunctionOnSet(f, {}) = 0
           /\ \A U \in SUBSET D :
                 /\ SumFunctionOnSet(f, U) \in Int
                 /\ \A x \in U : SumFunctionOnSet(f, U) = f[x] + SumFunctionOnSet(f, U \ {x})
<1> DEFINE pick == [U \in (SUBSET D) \ {{}} |-> CHOOSE x \in U : TRUE]
           step == [x \in D |-> [n \in Int |-> f[x] + n]]
           Term(h, U) == f[CHOOSE x \in U : TRUE] + h[U \ {CHOOSE x \in U : TRUE}]
<1>1. ASSUME NEW U \in SUBSET D, U # {} PROVE pick[U] \in U
  BY <1>1
<1>2. step \in Steps(D, Int)
  BY DEF Steps
<1>3. PICK g \in [SUBSET D -> Int] :
         /\ g[{}] = 0
         /\ \A U \in SUBSET D : U # {} => g[U] = step[pick[U]][g[U \ {pick[U]}]]
  <2> DEFINE zero == 0
  <2>1. pick \in Picks(D) /\ zero \in Int
    BY <1>1 DEF Picks
  <2> HIDE DEF pick, step, zero
  <2>2. PICK g : Shrinks(g, D, Int, zero, step, pick)
    BY <1>2, <2>1, SubsetRecursion
  <2>3. QED
    BY <2>2 DEF zero, Shrinks
<1>4. ASSUME NEW U \in SUBSET D
      PROVE  g[U] = IF U = {} THEN 0 ELSE Term(g, U)
  <2>1. CASE U = {}
    BY <1>3, <2>1
  <2>2. CASE U # {}
    <3>1. pick[U] \in D /\ pick[U] = CHOOSE x \in U : TRUE
      BY <1>1, <2>2
    <3>2. g[U \ {pick[U]}] \in Int
      BY <1>3
    <3>3. step[pick[U]][g[U \ {pick[U]}]] = f[pick[U]] + g[U \ {pick[U]}]
      BY <3>1, <3>2
    <3> HIDE DEF pick, step
    <3>4. QED
      BY <1>3, <2>2, <3>1, <3>3
  <2>3. QED
    BY <2>1, <2>2
<1>5. ASSUME NEW U \in SUBSET D PROVE SumFunctionOnSet(f, U) = g[U]
  <2> DEFINE Iter == CHOOSE h : h = [V \in SUBSET U |-> IF V = {} THEN 0 ELSE Term(h, V)]
             Same == {V \in SUBSET U : Iter[V] = g[V]}
  <2>1. SumFunctionOnSet(f, U) = Iter[U]
    BY DEF SumFunctionOnSet, FoldFunctionOnSet, MapThenFoldSet
  <2>2. Iter = [V \in SUBSET U |-> IF V = {} THEN 0 ELSE Term(Iter, V)]
    <3> DEFINE h == [V \in SUBSET U |-> g[V]]
    <3>1. ASSUME NEW V \in SUBSET U PROVE h[V] = IF V = {} THEN 0 ELSE Term(h, V)
      BY <1>4
    <3>2. h = [V \in SUBSET U |-> IF V = {} THEN 0 ELSE Term(h, V)]
      BY <3>1
    <3> HIDE DEF h, Term
    <3>3. QED
      BY <3>2, Zenon
  <2> HIDE DEF Iter
  <2>3. ASSUME NEW V \in SUBSET U, \A W \in SUBSET V : W # V => W \in Same
        PROVE  Iter[V] = g[V]
    <3>1. CASE V = {}
      BY <1>4, <2>2, <3>1
    <3>2. CASE V # {}
      <4> DEFINE W == V \ {CHOOSE x \in V : TRUE}
      <4>1. W \in SUBSET V /\ W # V
        BY <3>2
      <4>2. Iter[W] = g[W]
        BY <2>3, <4>1
      <4>3. QED
        BY <1>4, <2>2, <3>2, <4>2
    <3>3. QED
      BY <3>1, <3>2
  <2>4. IsFiniteSet(U) /\ Same \in SUBSET (SUBSET U)
    BY FS_Subset
  <2>5. \A V \in SUBSET U : (\A W \in SUBSET V : W # V => W \in Same) => V \in Same
    BY <2>3
  <2> HIDE DEF Same
  <2>6. Same = SUBSET U
    BY <2>4, <2>5, SubsetInduction
  <2>7. QED
    BY <2>1, <2>6 DEF Same
<1> DEFINE Additive == {U \in SUBSET D : \A x \in U : g[U] = f[x] + g[U \ {x}]}
<1>6. ASSUME NEW U \in SUBSET D, \A V \in SUBSET U : V # U => V \in Additive, NEW x \in U
      PROVE  g[U] = f[x] + g[U \ {x}]
  <2> DEFINE c == CHOOSE y \in U : TRUE
  <2>1. c \in U /\ g[U] = f[c] + g[U \ {c}]
    BY <1>4
  <2> HIDE DEF c
  <2>2. CASE x = c
    BY <2>1, <2>2
  <2>3. CASE x # c
    <3>1. g[U \ {c}] = f[x] + g[(U \ {c}) \ {x}]
      BY <1>6, <2>1, <2>3
    <3>2. g[U \ {x}] = f[c] + g[(U \ {x}) \ {c}]
      BY <1>6, <2>1, <2>3
    <3>3. (U \ {c}) \ {x} = (U \ {x}) \ {c}
      OBVIOUS
    <3>4. /\ f[x] \in Int /\ f[c] \in Int
          /\ g[(U \ {c}) \ {x}] \in Int
      BY <2>1
    <3> DEFINE rest == g[(U \ {c}) \ {x}]
    <3>5. g[U] = f[c] + (f[x] + rest) /\ g[U \ {x}] = f[c] + rest /\ rest \in Int
      BY <2>1, <3>1, <3>2, <3>3, <3>4
    <3> HIDE DEF rest
    <3>6. QED
      BY <3>4, <3>5
  <2>4. QED
    BY <2>2, <2>3
<1>7. Additive = SUBSET D
  <2>1. Additive \in SUBSET (SUBSET D)
    OBVIOUS
  <2>2. \A U \in SUBSET D : (\A V \in SUBSET U : V # U => V \in Additive) => U \in Additive
    BY <1>6
  <2> HIDE DEF Additive
  <2>3. QED
    BY <2>1, <2>2, SubsetInduction
<1>8. {} \in SUBSET D /\ g[{}] = 0 /\ \A U \in SUBSET D : g[U] \in Int
  BY <1>3
<1>9. ASSUME NEW U \in SUBSET D, NEW x \in U PROVE g[U] = f[x] + g[U \ {x}]
  <2>1. U \in Additive
    BY <1>7
  <2>2. QED
    BY <2>1
<1>10. \A U \in SUBSET D : \A x \in U : U \ {x} \in SUBSET D
  OBVIOUS
<1>11. QED
  BY <1>5, <1>8, <1>9, <1>10

\* The sum over two sets that share nothing is the sum of both.
LEMMA SumOfUnion ==
    ASSUME NEW D, NEW f \in [D -> Int], IsFiniteSet(D),
           NEW A \in SUBSET D, NEW B \in SUBSET D, A \cap B = {}
    PROVE  SumFunctionOnSet(f, A \cup B) = SumFunctionOnSet(f, A) + SumFunctionOnSet(f, B)
<1> DEFINE Sum(U) == SumFunctionOnSet(f, U)
           Good == {U \in SUBSET B : Sum(A \cup U) = Sum(A) + Sum(U)}
<1>1. /\ Sum({}) = 0
      /\ \A U \in SUBSET D : Sum(U) \in Int /\ \A x \in U : Sum(U) = f[x] + Sum(U \ {x})
  BY SumEquation
<1> HIDE DEF Sum
<1>2. Good = SUBSET B
  <2>1. IsFiniteSet(B) /\ Good \in SUBSET (SUBSET B)
    BY FS_Subset
  <2>2. ASSUME NEW U \in SUBSET B, \A V \in SUBSET U : V # U => V \in Good
        PROVE  Sum(A \cup U) = Sum(A) + Sum(U)
    <3>1. CASE U = {}
      <4>1. A \cup U = A /\ Sum(A) \in Int
        BY <1>1, <3>1
      <4>2. QED
        BY <1>1, <3>1, <4>1
    <3>2. CASE U # {}
      <4>1. PICK x \in U : TRUE
        BY <3>2
      <4>2. Sum(A \cup (U \ {x})) = Sum(A) + Sum(U \ {x})
        BY <2>2, <4>1
      <4>3. (A \cup U) \ {x} = A \cup (U \ {x}) /\ x \in A \cup U
        BY <4>1
      <4>4. Sum(A \cup U) = f[x] + Sum(A \cup (U \ {x})) /\ Sum(U) = f[x] + Sum(U \ {x})
        BY <1>1, <4>1, <4>3
      <4>5. f[x] \in Int /\ Sum(A) \in Int /\ Sum(U \ {x}) \in Int
        BY <1>1, <4>1
      <4>6. QED
        BY <4>2, <4>4, <4>5
    <3>3. QED
      BY <3>1, <3>2
  <2> HIDE DEF Good
  <2>3. (\A U \in SUBSET B : (\A V \in SUBSET U : V # U => V \in Good) => U \in Good)
    BY <2>2 DEF Good
  <2>4. QED
    BY <2>1, <2>3, SubsetInduction
<1>3. B \in Good
  BY <1>2
<1>4. QED
  BY <1>3 DEF Sum

\* A sum of naturals is at least the sum over a part.
LEMMA SumOfPart ==
    ASSUME NEW D, NEW f \in [D -> Nat], IsFiniteSet(D), NEW A \in SUBSET D, NEW B \in SUBSET A
    PROVE  SumFunctionOnSet(f, A) \in Nat /\ SumFunctionOnSet(f, B) <= SumFunctionOnSet(f, A)
<1> DEFINE Sum(U) == SumFunctionOnSet(f, U)
           Good == {U \in SUBSET D : Sum(U) >= 0}
<1>1. f \in [D -> Int]
  OBVIOUS
<1>2. /\ Sum({}) = 0
      /\ \A U \in SUBSET D : Sum(U) \in Int /\ \A x \in U : Sum(U) = f[x] + Sum(U \ {x})
  BY <1>1, SumEquation
<1>3. Sum(B \cup (A \ B)) = Sum(B) + Sum(A \ B)
  BY <1>1, SumOfUnion
<1> HIDE DEF Sum
<1>4. Good = SUBSET D
  <2>1. Good \in SUBSET (SUBSET D)
    OBVIOUS
  <2>2. ASSUME NEW U \in SUBSET D, \A V \in SUBSET U : V # U => V \in Good
        PROVE  Sum(U) >= 0
    <3>1. CASE U = {}
      BY <1>2, <3>1
    <3>2. CASE U # {}
      <4>1. PICK x \in U : TRUE
        BY <3>2
      <4>2. Sum(U \ {x}) >= 0
        BY <2>2, <4>1
      <4>3. Sum(U) = f[x] + Sum(U \ {x}) /\ f[x] \in Nat /\ Sum(U \ {x}) \in Int
        BY <1>2, <4>1
      <4>4. QED
        BY <4>2, <4>3
    <3>3. QED
      BY <3>1, <3>2
  <2> HIDE DEF Good
  <2>3. (\A U \in SUBSET D : (\A V \in SUBSET U : V # U => V \in Good) => U \in Good)
    BY <2>2 DEF Good
  <2>4. QED
    BY <2>1, <2>3, SubsetInduction
<1>5. A \in Good /\ A \ B \in Good /\ B \in SUBSET D
  BY <1>4
<1>6. Sum(A) >= 0 /\ Sum(A \ B) >= 0 /\ Sum(A) \in Int /\ Sum(B) \in Int /\ Sum(A \ B) \in Int
  BY <1>2, <1>5
<1>7. B \cup (A \ B) = A
  OBVIOUS
<1>8. QED
  BY <1>3, <1>6, <1>7 DEF Sum

==============================================================================
