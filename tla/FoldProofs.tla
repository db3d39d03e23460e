----------------------------- MODULE FoldProofs ------------------------------
(***************************************************************************)
(* What the sums of Retrieval and the concatenations of Providers compute, *)
(* for every finite set and every list.  The folds of the community        *)
(* modules are recursive functions; that there is such a function, and     *)
(* what it says of one element more, is shown by least counterexamples.    *)
(***************************************************************************)
EXTENDS FiniteSetsExt, SequencesExt, FiniteSetTheorems, TLAPS

(* A set of numbers that has 0 and with each number the next has them all. *)
LEMMA AllNumbers ==
    ASSUME NEW T, 0 \in T, \A n \in Nat : n \in T => n + 1 \in T
    PROVE  Nat \subseteq T
<1>. SUFFICES ASSUME Nat \ T # {} PROVE FALSE
  OBVIOUS
<1>. DEFINE U == {0..n : n \in Nat \ T}
<1>1. U \subseteq FiniteSubsetsOf(Nat) /\ U # {}
  <2>1. ASSUME NEW n \in Nat \ T PROVE 0..n \subseteq Nat /\ IsFiniteSet(0..n)
    BY FS_Interval
  <2>. QED  BY <2>1 DEF FiniteSubsetsOf
<1>2. PICK A \in U : \A B \in U : <<B, A>> \notin StrictSubsetOrdering(Nat)
  BY <1>1, FS_StrictSubsetOrderingWellFounded, WFMin
<1>3. PICK n \in Nat \ T : A = 0..n
  OBVIOUS
<1>4. n - 1 \in Nat \ T
  BY <1>3
<1>5. 0..(n - 1) \in U
  BY <1>4
<1>6. <<0..(n - 1), A>> \in StrictSubsetOrdering(Nat)
  <2>1. 0..(n - 1) \subseteq Nat /\ A \subseteq Nat /\ 0..(n - 1) \subseteq A
        /\ n \in A /\ n \notin 0..(n - 1)
    BY <1>3
  <2>. QED  BY <2>1 DEF StrictSubsetOrdering
<1>. QED  BY <1>2, <1>5, <1>6

----------------------------------------------------------------------------
(* Sums *)

(* The element the folds take next *)
Pick(A) == CHOOSE x \in A : TRUE

(* iter[A] is the sum of f over A, for all sets A of its arguments. *)
Sums(f, iter) ==
    /\ iter \in [SUBSET DOMAIN f -> Int]
    /\ iter[{}] = 0
    /\ \A A \in SUBSET DOMAIN f :
          A # {} => iter[A] = f[Pick(A)] + iter[A \ {Pick(A)}]

(* What holds of no set and, with a set, of one element more, holds of all. *)
LEMMA PickInduction ==
    ASSUME NEW S, IsFiniteSet(S), NEW T, {} \in T,
           \A A \in SUBSET S : A # {} /\ A \ {Pick(A)} \in T => A \in T
    PROVE  SUBSET S \subseteq T
<1>. SUFFICES ASSUME NEW C \in SUBSET S, C \notin T PROVE FALSE
  OBVIOUS
<1>. DEFINE U == {A \in SUBSET S : A \notin T}
<1>1. U \subseteq FiniteSubsetsOf(S) /\ U # {}
  BY FS_Subset DEF FiniteSubsetsOf
<1>2. PICK A \in U : \A B \in U : <<B, A>> \notin StrictSubsetOrdering(S)
  <2>. HIDE DEF U
  <2>. QED  BY <1>1, FS_StrictSubsetOrderingWellFounded, WFMin
<1>3. A # {} /\ Pick(A) \in A
  BY <1>2 DEF Pick
<1>4. A \ {Pick(A)} \in U
  BY <1>2, <1>3
<1>5. <<A \ {Pick(A)}, A>> \in StrictSubsetOrdering(S)
  BY <1>2, <1>3 DEF StrictSubsetOrdering
<1>. QED  BY <1>2, <1>4, <1>5

(* SumFunction is such a sum. *)
LEMMA SumFolds ==
    ASSUME NEW S, IsFiniteSet(S), NEW f \in [S -> Int]
    PROVE  \E iter : Sums(f, iter) /\ SumFunction(f) = iter[S]
<1>. DEFINE Upto(n) == {A \in SUBSET S : Cardinality(A) <= n}
            Body(g, A) == IF A = {} THEN 0 ELSE f[Pick(A)] + g[A \ {Pick(A)}]
            Good(g, D) == g \in [D -> Int] /\ \A A \in D : g[A] = Body(g, A)
            T == {n \in Nat : \E g : Good(g, Upto(n))}
<1>0. \A A \in SUBSET S : /\ Cardinality(A) \in Nat
                          /\ Cardinality(A) = 0 <=> A = {}
                          /\ A # {} => /\ Pick(A) \in A /\ f[Pick(A)] \in Int
                                       /\ Cardinality(A \ {Pick(A)}) = Cardinality(A) - 1
  <2>1. ASSUME NEW A \in SUBSET S PROVE IsFiniteSet(A)
    BY FS_Subset
  <2>2. ASSUME NEW A \in SUBSET S, A # {} PROVE Pick(A) \in A
    BY <2>2 DEF Pick
  <2>. QED  BY <2>1, <2>2, FS_CardinalityType, FS_EmptySet, FS_RemoveElement
<1>1. 0 \in T
  <2>1. Good([A \in Upto(0) |-> 0], Upto(0))
    BY <1>0
  <2>. QED  BY <2>1
<1>2. ASSUME NEW n \in Nat, n \in T PROVE n + 1 \in T
  <2>1. PICK g : Good(g, Upto(n))
    BY <1>2
  <2>. DEFINE h == [A \in Upto(n + 1) |-> Body(g, A)]
  <2>2. \A A \in Upto(n + 1) : A # {} => A \ {Pick(A)} \in Upto(n)
    BY <1>0
  <2>3. h \in [Upto(n + 1) -> Int]
    BY <1>0, <2>1, <2>2
  <2>4. \A A \in Upto(n) : A \in Upto(n + 1) /\ h[A] = g[A]
    BY <1>0, <2>1
  <2>5. \A A \in Upto(n + 1) : h[A] = Body(h, A)
    BY <2>2, <2>4
  <2>6. Good(h, Upto(n + 1))
    BY <2>3, <2>5
  <2>. HIDE DEF h, Good, Upto
  <2>. QED  BY <2>6
<1>3. T = Nat
  BY <1>1, <1>2, AllNumbers
<1>4. PICK g : Good(g, SUBSET S)
  <2>1. Cardinality(S) \in Nat /\ \A A \in SUBSET S : Cardinality(A) <= Cardinality(S)
    BY FS_CardinalityType, FS_Subset
  <2>2. Upto(Cardinality(S)) = SUBSET S
    BY <2>1
  <2>. QED  BY <1>3, <2>1, <2>2
<1>5. PICK iter : /\ iter = CHOOSE h : h = [A \in SUBSET S |-> Body(h, A)]
                  /\ SumFunction(f) = iter[S]
  BY DEF SumFunction, SumFunctionOnSet, FoldFunctionOnSet, MapThenFoldSet, Pick
<1>6. iter = [A \in SUBSET S |-> Body(iter, A)]
  <2>1. g = [A \in SUBSET S |-> Body(g, A)]
    BY <1>4
  <2>. QED  BY <1>5, <2>1
<1>7. Sums(f, iter)
  <2>1. iter[{}] = 0 /\ \A A \in SUBSET S : iter[A] = Body(iter, A)
    BY <1>6
  <2>. DEFINE Ints == {A \in SUBSET S : iter[A] \in Int}
  <2>3. {} \in Ints
    BY <2>1
  <2>4. \A A \in SUBSET S : A # {} /\ A \ {Pick(A)} \in Ints => A \in Ints
    <3>. SUFFICES ASSUME NEW A \in SUBSET S, A # {}, iter[A \ {Pick(A)}] \in Int
                  PROVE  iter[A] \in Int
      OBVIOUS
    <3>1. iter[A] = f[Pick(A)] + iter[A \ {Pick(A)}] /\ f[Pick(A)] \in Int
      BY <1>0, <2>1
    <3>. QED  BY <3>1
  <2>2. SUBSET S \subseteq Ints
    <3>. HIDE DEF Ints
    <3>. QED  BY <2>3, <2>4, PickInduction
  <2>. QED  BY <1>6, <2>1, <2>2 DEF Sums
<1>. QED  BY <1>5, <1>7

LEMMA SumIsInt ==
    ASSUME NEW S, IsFiniteSet(S), NEW f \in [S -> Int]
    PROVE  SumFunction(f) \in Int
<1>1. PICK iter : Sums(f, iter) /\ SumFunction(f) = iter[S]
  BY SumFolds
<1>. QED  BY <1>1 DEF Sums

(* A sum of numbers none of which is negative is at least each of them. *)
LEMMA SumBounds ==
    ASSUME NEW S, IsFiniteSet(S), NEW f \in [S -> Nat]
    PROVE  SumFunction(f) \in Nat /\ \A x \in S : f[x] <= SumFunction(f)
<1>1. f \in [S -> Int]
  OBVIOUS
<1>2. PICK iter : Sums(f, iter) /\ SumFunction(f) = iter[S]
  BY <1>1, SumFolds
<1>. DEFINE T == {A \in SUBSET S : iter[A] \in Nat /\ \A x \in A : f[x] <= iter[A]}
<1>3. {} \in T
  BY <1>2 DEF Sums
<1>4. ASSUME NEW A \in SUBSET S, A # {}, A \ {Pick(A)} \in T PROVE A \in T
  <2>1. Pick(A) \in A /\ f[Pick(A)] \in Nat
    BY <1>4 DEF Pick
  <2>2. iter[A] = f[Pick(A)] + iter[A \ {Pick(A)}]
    BY <1>2, <1>4 DEF Sums
  <2>3. iter[A \ {Pick(A)}] \in Nat /\ \A x \in A \ {Pick(A)} : f[x] <= iter[A \ {Pick(A)}]
    BY <1>4
  <2>4. iter[A] \in Nat /\ f[Pick(A)] <= iter[A]
    BY <2>1, <2>2, <2>3
  <2>5. ASSUME NEW x \in A \ {Pick(A)} PROVE f[x] <= iter[A]
    <3>1. f[x] \in Nat /\ f[x] <= iter[A \ {Pick(A)}]
      BY <2>3
    <3>. QED  BY <2>1, <2>2, <2>3, <3>1
  <2>. QED  BY <2>4, <2>5
<1>5. SUBSET S \subseteq T
  <2>. HIDE DEF T
  <2>. QED  BY <1>3, <1>4, PickInduction
<1>. QED  BY <1>2, <1>5

LEMMA SquareIsNat ==
    ASSUME NEW a \in Int
    PROVE  a * a \in Nat /\ (a # 0 => a * a >= 1)
OBVIOUS

(* A square is not above that of the mean. *)
LEMMA MeanBound ==
    ASSUME NEW x \in Nat, NEW y \in Nat, NEW z \in Int, z * z <= x * y
    PROVE  2 * z <= x + y
<1>1. SUFFICES ASSUME 2 * z >= x + y + 1 PROVE FALSE
  OBVIOUS
<1>2. (x + y + 1) * (x + y + 1) <= (2 * z) * (2 * z)
  <2>. DEFINE a == x + y + 1
              b == 2 * z
  <2>1. a \in Nat /\ b \in Nat /\ a <= b
    BY <1>1
  <2>. HIDE DEF a, b
  <2>2. a * a <= b * b
    BY <2>1
  <2>. QED  BY <2>2 DEF a, b
<1>3. (2 * z) * (2 * z) = 4 * (z * z)
  OBVIOUS
<1>4. (x + y + 1) * (x + y + 1) = (x - y) * (x - y) + 4 * (x * y) + 2 * (x + y) + 1
  OBVIOUS
<1>5. (x - y) * (x - y) \in Nat
  BY SquareIsNat
<1>6. z * z \in Int /\ x * y \in Int
  OBVIOUS
<1>. QED  BY <1>2, <1>3, <1>4, <1>5, <1>6

(* One component more on the two sides of the inequality below *)
LEMMA OneComponentMore ==
    ASSUME NEW p \in Nat, NEW q \in Nat, NEW a \in Int, a * a <= p * q,
           NEW v \in Int, NEW w \in Int
    PROVE  (a + v * w) * (a + v * w) <= (p + v * v) * (q + w * w)
<1>. DEFINE x == p * (w * w)
            y == q * (v * v)
            z == a * (v * w)
<1>1. x \in Nat /\ y \in Nat /\ z \in Int
  <2>1. v * v \in Nat /\ w * w \in Nat
    BY SquareIsNat
  <2>. QED  BY <2>1
<1>2. z * z <= x * y
  <2>. DEFINE s == (v * w) * (v * w)
  <2>1. s \in Nat /\ a * a \in Int /\ p * q \in Int
    BY SquareIsNat
  <2>2. z * z = (a * a) * s /\ x * y = (p * q) * s
    OBVIOUS
  <2>. HIDE DEF s
  <2>3. ASSUME NEW m \in Int, NEW n \in Int, m <= n PROVE m * s <= n * s
    BY <2>1, <2>3
  <2>. QED  BY <2>1, <2>2, <2>3
<1>3. 2 * z <= x + y
  <2>. HIDE DEF x, y, z
  <2>. QED  BY <1>1, <1>2, MeanBound
<1>4. (a + v * w) * (a + v * w) = a * a + 2 * z + (v * w) * (v * w)
  OBVIOUS
<1>5. (p + v * v) * (q + w * w) = p * q + (x + y) + (v * w) * (v * w)
  OBVIOUS
<1>6. a * a \in Int /\ p * q \in Int /\ (v * w) * (v * w) \in Int
  OBVIOUS
<1>. HIDE DEF x, y, z
<1>. QED  BY <1>1, <1>3, <1>4, <1>5, <1>6

(***************************************************************************)
(* The inequality of Cauchy and Schwarz                                    *)
(***************************************************************************)
LEMMA CauchySchwarz ==
    ASSUME NEW S, IsFiniteSet(S), NEW v \in [S -> Int], NEW w \in [S -> Int]
    PROVE  LET dot == SumFunction([i \in S |-> v[i] * w[i]]) IN
           dot * dot <= SumFunction([i \in S |-> v[i] * v[i]])
                        * SumFunction([i \in S |-> w[i] * w[i]])
<1>. DEFINE vw == [i \in S |-> v[i] * w[i]]
            vv == [i \in S |-> v[i] * v[i]]
            ww == [i \in S |-> w[i] * w[i]]
<1>1. vw \in [S -> Int] /\ vv \in [S -> Int] /\ ww \in [S -> Int]
  OBVIOUS
<1>2. PICK a : Sums(vw, a) /\ SumFunction(vw) = a[S]
  <2>. HIDE DEF vw
  <2>. QED  BY <1>1, SumFolds
<1>3. PICK p : Sums(vv, p) /\ SumFunction(vv) = p[S]
  <2>. HIDE DEF vv
  <2>. QED  BY <1>1, SumFolds
<1>4. PICK q : Sums(ww, q) /\ SumFunction(ww) = q[S]
  <2>. HIDE DEF ww
  <2>. QED  BY <1>1, SumFolds
<1>. DEFINE Bounded(A) == /\ p[A] \in Nat /\ q[A] \in Nat
                          /\ a[A] \in Int /\ a[A] * a[A] <= p[A] * q[A]
            T == {A \in SUBSET S : Bounded(A)}
<1>5. {} \in T
  BY <1>2, <1>3, <1>4 DEF Sums
<1>6. ASSUME NEW A \in SUBSET S, A # {}, A \ {Pick(A)} \in T PROVE A \in T
  <2>. DEFINE x == Pick(A)
              B == A \ {x}
  <2>1. x \in S /\ v[x] \in Int /\ w[x] \in Int
    BY <1>6 DEF Pick
  <2>2. /\ a[A] = a[B] + v[x] * w[x]
        /\ p[A] = p[B] + v[x] * v[x]
        /\ q[A] = q[B] + w[x] * w[x]
    <3>1. a[A] = vw[x] + a[B] /\ p[A] = vv[x] + p[B] /\ q[A] = ww[x] + q[B]
      <4>. HIDE DEF vw, vv, ww
      <4>. QED  BY <1>1, <1>2, <1>3, <1>4, <1>6 DEF Sums
    <3>2. vw[x] = v[x] * w[x] /\ vv[x] = v[x] * v[x] /\ ww[x] = w[x] * w[x]
      BY <2>1
    <3>3. Bounded(B) /\ vw[x] \in Int /\ vv[x] \in Int /\ ww[x] \in Int
      BY <1>1, <1>6, <2>1
    <3>. HIDE DEF x, B, vw, vv, ww
    <3>. QED  BY <2>1, <3>1, <3>2, <3>3
  <2>3. Bounded(B)
    BY <1>6
  <2>. HIDE DEF x, B
  <2>4. v[x] * v[x] \in Nat /\ w[x] * w[x] \in Nat /\ v[x] * w[x] \in Int
    BY <2>1, SquareIsNat
  <2>5. p[A] \in Nat /\ q[A] \in Nat /\ a[A] \in Int
    BY <2>2, <2>3, <2>4
  <2>6. a[A] * a[A] <= p[A] * q[A]
    BY <2>1, <2>2, <2>3, OneComponentMore
  <2>. QED  BY <2>5, <2>6
<1>7. SUBSET S \subseteq T
  <2>. HIDE DEF T
  <2>. QED  BY <1>5, <1>6, PickInduction
<1>8. Bounded(S)
  BY <1>7
<1>. QED  BY <1>2, <1>3, <1>4, <1>8

----------------------------------------------------------------------------
(* Concatenations *)

(* g[i] is the concatenation of the first i of n lists. *)
Concatenations(ss, n, g) ==
    g = [i \in 1..n |-> IF i = 1 THEN ss[1] ELSE g[i - 1] \o ss[i]]

(***************************************************************************)
(* FlattenSeq ends where the concatenations of its first lists end.        *)
(***************************************************************************)
LEMMA FlattenSteps ==
    ASSUME NEW ss, NEW n \in Nat \ {0}, Len(ss) = n,
           NEW g, Concatenations(ss, n, g)
    PROVE  FlattenSeq(ss) = g[n]
<1>. DEFINE Body(f, i) == IF i = 1 THEN ss[1] ELSE f[i - 1] \o ss[i]
<1>1. PICK flat : /\ flat = CHOOSE f : f = [i \in 1..n |-> Body(f, i)]
                  /\ FlattenSeq(ss) = flat[n]
  <2>1. FlattenSeq(ss) = (CHOOSE f : f = [i \in 1..Len(ss) |-> Body(f, i)])[Len(ss)]
    BY Zenon DEF FlattenSeq
  <2>. QED  BY <2>1
<1>2. g = [i \in 1..n |-> Body(g, i)]
  BY DEF Concatenations
<1>3. ASSUME NEW k \in Nat \ {0}, flat[k] = g[k] PROVE Body(flat, k + 1) = Body(g, k + 1)
  <2>1. (k + 1) - 1 = k
    OBVIOUS
  <2>. QED  BY <1>3, <2>1, Zenon
<1>4. Body(flat, 1) = Body(g, 1)
  OBVIOUS
<1>. HIDE DEF Body
<1>5. flat = [i \in 1..n |-> Body(flat, i)]
  BY <1>1, <1>2
<1>. DEFINE T == {k \in Nat : k \in 1..n => flat[k] = g[k]}
<1>6. 0 \in T
  OBVIOUS
<1>7. ASSUME NEW k \in Nat, k \in T PROVE k + 1 \in T
  <2>1. CASE k = 0
    BY <1>2, <1>4, <1>5, <2>1
  <2>2. CASE k # 0 /\ k + 1 \in 1..n
    BY <1>2, <1>3, <1>5, <1>7, <2>2
  <2>3. CASE k + 1 \notin 1..n
    BY <2>3
  <2>. QED  BY <2>1, <2>2, <2>3
<1>8. Nat \subseteq T
  <2>. HIDE DEF T
  <2>. QED  BY <1>6, <1>7, AllNumbers
<1>. QED  BY <1>1, <1>8

LEMMA FlattenOne ==
    ASSUME NEW ss, Len(ss) = 1
    PROVE  FlattenSeq(ss) = ss[1]
<1>. DEFINE g == [i \in 1..1 |-> ss[1]]
<1>1. Concatenations(ss, 1, g)
  BY DEF Concatenations
<1>2. FlattenSeq(ss) = g[1]
  <2>1. PICK n \in Nat \ {0} : n = 1
    OBVIOUS
  <2>. HIDE DEF g
  <2>2. Len(ss) = n /\ Concatenations(ss, n, g)
    BY <1>1, <2>1
  <2>. QED  BY <2>1, <2>2, FlattenSteps
<1>. QED  BY <1>2

LEMMA FlattenTwo ==
    ASSUME NEW ss, Len(ss) = 2
    PROVE  FlattenSeq(ss) = ss[1] \o ss[2]
<1>. DEFINE both == ss[1] \o ss[2]
            g == [i \in 1..2 |-> IF i = 1 THEN ss[1] ELSE both]
<1>1. Concatenations(ss, 2, g)
  <2>1. g[1] = ss[1]
    OBVIOUS
  <2>2. ASSUME NEW i \in 1..2
        PROVE  (IF i = 1 THEN ss[1] ELSE both) = IF i = 1 THEN ss[1] ELSE g[i - 1] \o ss[i]
    <3>1. CASE i = 1
      BY <3>1
    <3>2. CASE i = 2
      <4>1. i - 1 = 1
        BY <3>2
      <4>. HIDE DEF g
      <4>. QED  BY <2>1, <3>2, <4>1
    <3>. QED  BY <3>1, <3>2
  <2>. QED  BY <2>2 DEF Concatenations
<1>2. FlattenSeq(ss) = g[2]
  <2>1. PICK n \in Nat \ {0} : n = 2
    OBVIOUS
  <2>. HIDE DEF g
  <2>2. Len(ss) = n /\ Concatenations(ss, n, g)
    BY <1>1, <2>1
  <2>. QED  BY <2>1, <2>2, FlattenSteps
<1>3. g[2] = both
  <2>. HIDE DEF both
  <2>. QED  OBVIOUS
<1>. QED  BY <1>2, <1>3
=============================================================================
