----------------------------- MODULE LadderProofs -----------------------------
(***************************************************************************)
(* What is proved of ladders: how one is split (Ladder) and how the        *)
(* reports judge one, and an order that is alone (Comparison); for any     *)
(* number of orders of any size, at any ratio.  Both rest on sums over the *)
(* rungs, so that the facts about those come first.                        *)
(***************************************************************************)
EXTENDS Ladder, Comparison, TLAPS, FiniteSetTheorems, WellFoundedInduction
-----------------------------------------------------------------------------
(* Induction. *)

\* A set of natural numbers has a least one.
LEMMA HasLeast ==
  ASSUME NEW S \in SUBSET Nat, S # {}
  PROVE  \E x \in S : \A y \in S : x <= y
<1> DEFINE R == {ss \in Nat \X Nat : ss[1] < ss[2]}
<1>1. IsWellFoundedOn(R, Nat)
  BY NatLessThanWellFounded, Zenon DEF OpToRel
<1>2. \E x \in S : \A y \in S : ~(<<y, x>> \in R)
  <2> HIDE DEF R
  <2> QED BY <1>1, WFMin
<1>3. \A x, y \in Nat : <<y, x>> \in R <=> y < x
  OBVIOUS
<1> QED
  <2> HIDE DEF R
  <2>1. \A x, y \in Nat : ~(<<y, x>> \in R) => x <= y
    BY <1>3
  <2> QED BY <1>2, <2>1

\* A set of numbers that holds zero and the next of each holds them all.
LEMMA Induction ==
  ASSUME NEW T \in SUBSET Nat, 0 \in T, \A n \in T : n + 1 \in T
  PROVE  T = Nat
<1>1. SUFFICES ASSUME Nat \ T # {} PROVE FALSE
  OBVIOUS
<1>2. PICK m \in Nat \ T : \A n \in Nat \ T : m <= n
  BY <1>1, HasLeast
<1>3. m # 0 /\ m - 1 \in Nat
  BY <1>2
<1>4. m - 1 \in T
  BY <1>2, <1>3
<1> QED BY <1>2, <1>4

\* What {} has, and a set keeps when it gains an element, a finite set has.
LEMMA SetInduction ==
  ASSUME NEW S, IsFiniteSet(S), NEW T, {} \in T,
         \A s \in SUBSET S : s \in T => \A x \in S \ s : s \union {x} \in T
  PROVE  S \in T
<1> DEFINE N == {n \in Nat : \A s \in SUBSET S : Cardinality(s) = n => s \in T}
<1>1. \A s \in SUBSET S : IsFiniteSet(s) /\ Cardinality(s) \in Nat
  BY FS_Subset, FS_CardinalityType
<1>2. 0 \in N
  BY <1>1, FS_EmptySet
<1>3. ASSUME NEW n \in N PROVE n + 1 \in N
  <2>1. SUFFICES ASSUME NEW s \in SUBSET S, Cardinality(s) = n + 1
                 PROVE  s \in T
    BY <1>3
  <2>2. PICK x \in s : TRUE
    BY <2>1, FS_EmptySet, <1>1
  <2>3. Cardinality(s \ {x}) = n
    BY <1>1, <2>1, FS_RemoveElement
  <2>4. s \ {x} \in T /\ s = (s \ {x}) \union {x}
    BY <2>3
  <2> QED BY <2>4
<1>4. N = Nat
  <2> HIDE DEF N
  <2> N \in SUBSET Nat
    BY DEF N
  <2> QED BY <1>2, <1>3, Induction
<1> QED BY <1>1, <1>4

-----------------------------------------------------------------------------
(* Sums, as MapThenSumSet takes them: of f over S, one element at a time.  *)

\* The element that is taken next.
Pick(s) == CHOOSE x \in s : TRUE

\* g sums f over each subset of S.
Adds(g, f, s) == IF s = {} THEN 0 ELSE f[Pick(s)] + g[s \ {Pick(s)}]
Sums(g, f, S) == g = [s \in SUBSET S |-> Adds(g, f, s)]
Total(f, S) == (CHOOSE g : Sums(g, f, S))[S]

\* It is one of the set's.
LEMMA Picks == ASSUME NEW s, s # {} PROVE Pick(s) \in s
BY DEF Pick

\* A set without one of its elements has one less.
LEMMA OneLess ==
  ASSUME NEW s, IsFiniteSet(s), NEW n \in Nat, Cardinality(s) = n + 1, NEW x \in s
  PROVE  Cardinality(s \ {x}) = n
<1>1. Cardinality(s \ {x}) = Cardinality(s) - 1
  BY FS_RemoveElement
<1> QED BY <1>1

\* What is a number on a finite set has sums over its subsets.
LEMMA SumExists ==
  ASSUME NEW S, IsFiniteSet(S), NEW f, \A x \in S : f[x] \in Int
  PROVE  \E g \in [SUBSET S -> Int] : Sums(g, f, S)
<1> DEFINE N == {n \in Nat : \E g \in [SUBSET S -> Int] :
                   \A s \in SUBSET S : Cardinality(s) <= n => g[s] = Adds(g, f, s)}
<1>1. \A s \in SUBSET S : IsFiniteSet(s) /\ Cardinality(s) \in Nat
  BY FS_Subset, FS_CardinalityType
<1>2. 0 \in N
  <2> DEFINE g == [s \in SUBSET S |-> 0]
  <2>1. g \in [SUBSET S -> Int]
    OBVIOUS
  <2>2. \A s \in SUBSET S : Cardinality(s) <= 0 => g[s] = Adds(g, f, s)
    BY <1>1, FS_EmptySet DEF Adds
  <2> QED BY <2>1, <2>2
<1>3. ASSUME NEW n \in N PROVE n + 1 \in N
  <2>1. PICK g \in [SUBSET S -> Int] :
          \A s \in SUBSET S : Cardinality(s) <= n => g[s] = Adds(g, f, s)
    OBVIOUS
  <2> DEFINE h == [s \in SUBSET S |-> Adds(g, f, s)]
  <2>2. \A s \in SUBSET S : s # {} => Pick(s) \in S /\ s \ {Pick(s)} \in SUBSET S
    BY Picks
  <2>3. h \in [SUBSET S -> Int]
    BY <2>2 DEF Adds
  <2>4. ASSUME NEW s \in SUBSET S, Cardinality(s) <= n + 1
        PROVE  h[s] = Adds(h, f, s)
    <3>1. CASE s = {}
      BY <3>1 DEF Adds
    <3>2. CASE s # {}
      <4> DEFINE r == s \ {Pick(s)}
      <4>1. r \in SUBSET S /\ Cardinality(r) = Cardinality(s) - 1
        BY <1>1, <3>2, FS_RemoveElement, Picks
      <4>2. Cardinality(r) <= n
        BY <1>1, <4>1, <2>4
      <4>3. g[r] = h[r]
        BY <2>1, <4>1, <4>2
      <4> QED BY <4>3, <3>2 DEF Adds
    <3> QED BY <3>1, <3>2
  <2> HIDE DEF h
  <2> QED BY <2>3, <2>4
<1>4. N = Nat
  <2> HIDE DEF N
  <2> N \in SUBSET Nat
    BY DEF N
  <2> QED BY <1>2, <1>3, Induction
<1>5. PICK g \in [SUBSET S -> Int] :
        \A s \in SUBSET S : Cardinality(s) <= Cardinality(S) => g[s] = Adds(g, f, s)
  <2> Cardinality(S) \in Nat
    BY FS_CardinalityType
  <2> QED BY <1>4
<1>6. \A s \in SUBSET S : g[s] = Adds(g, f, s)
  BY <1>5, FS_Subset
<1> QED BY <1>6 DEF Sums

\* Two such functions, over whatever sets, agree where both sum f.
LEMMA SumUnique ==
  ASSUME NEW S, IsFiniteSet(S), NEW f, NEW A, NEW B, S \subseteq A, S \subseteq B,
         NEW g, Sums(g, f, A), NEW h, Sums(h, f, B)
  PROVE  g[S] = h[S]
<1> DEFINE N == {n \in Nat : \A s \in SUBSET S : Cardinality(s) = n => g[s] = h[s]}
<1>1. \A s \in SUBSET S : IsFiniteSet(s) /\ Cardinality(s) \in Nat
  BY FS_Subset, FS_CardinalityType
<1>2. \A s \in SUBSET S : g[s] = Adds(g, f, s) /\ h[s] = Adds(h, f, s)
  BY DEF Sums
<1>3. 0 \in N
  BY <1>1, <1>2, FS_EmptySet DEF Adds
<1>4. ASSUME NEW n \in N PROVE n + 1 \in N
  <2>1. SUFFICES ASSUME NEW s \in SUBSET S, Cardinality(s) = n + 1
                 PROVE  g[s] = h[s]
    BY <1>4
  <2>2. s # {}
    BY <2>1, FS_EmptySet, <1>1
  <2> DEFINE r == s \ {Pick(s)}
  <2>3. Cardinality(r) = n /\ r \in SUBSET S
    <3>1. Pick(s) \in s /\ n \in Nat
      BY <2>2, Picks
    <3> QED BY <1>1, <2>1, <3>1, OneLess
  <2>4. g[s \ {Pick(s)}] = h[s \ {Pick(s)}]
    BY <1>4, <2>3
  <2> QED BY <2>2, <2>4, <1>2 DEF Adds
<1>5. N = Nat
  <2> HIDE DEF N
  <2> N \in SUBSET Nat
    BY DEF N
  <2> QED BY <1>3, <1>4, Induction
<1> QED BY <1>1, <1>5

\* The total is a number: 0 of nothing, and otherwise the element that is taken
\* first and the total of the others.
LEMMA TotalInt ==
  ASSUME NEW S, IsFiniteSet(S), NEW f, \A x \in S : f[x] \in Int
  PROVE  /\ Total(f, S) \in Int
         /\ Total(f, {}) = 0
         /\ S # {} => Total(f, S) = f[Pick(S)] + Total(f, S \ {Pick(S)})
<1> DEFINE g == CHOOSE g : Sums(g, f, S)
<1>1. Sums(g, f, S)
  BY SumExists, Zenon
<1>2. PICK h \in [SUBSET S -> Int] : Sums(h, f, S)
  BY SumExists
<1> HIDE DEF g
<1>3. Total(f, S) = g[S]
  BY DEF Total, g
<1>4. Total(f, S) \in Int
  BY <1>1, <1>2, <1>3, SumUnique
<1>5. Total(f, {}) = 0
  <2> DEFINE e == CHOOSE e : Sums(e, f, {})
  <2>1. Sums(e, f, {})
    BY SumExists, FS_EmptySet, Zenon
  <2> HIDE DEF e
  <2>2. e[{}] = 0
    BY <2>1 DEF Sums, Adds
  <2> QED BY <2>2 DEF Total, e
<1>6. ASSUME S # {}
      PROVE Total(f, S) = f[Pick(S)] + Total(f, S \ {Pick(S)})
  <2> DEFINE r == S \ {Pick(S)}
             e == CHOOSE e : Sums(e, f, r)
  <2>1. IsFiniteSet(r) /\ \A x \in r : f[x] \in Int
    BY FS_Subset
  <2>2. Sums(e, f, r)
    <3> HIDE DEF r
    <3> QED BY <2>1, SumExists, Zenon
  <2> HIDE DEF e
  <2>3. g[r] = e[r]
    <3> r \subseteq S
      OBVIOUS
    <3> HIDE DEF r
    <3> QED BY <1>1, <2>1, <2>2, SumUnique
  <2>4. g[S] = f[Pick(S)] + g[r]
    BY <1>1, <1>6 DEF Sums, Adds
  <2>5. Total(f, r) = e[r]
    BY DEF Total, e
  <2> QED BY <1>3, <2>3, <2>4, <2>5
<1> QED BY <1>4, <1>5, <1>6

\* Any element may be taken first: the total does not depend on the order.
LEMMA TotalAny ==
  ASSUME NEW S, IsFiniteSet(S), NEW f, \A x \in S : f[x] \in Int, NEW a \in S
  PROVE  Total(f, S) = f[a] + Total(f, S \ {a})
<1> DEFINE N == {n \in Nat : \A s \in SUBSET S : Cardinality(s) = n =>
                   \A x \in s : Total(f, s) = f[x] + Total(f, s \ {x})}
<1>1. \A s \in SUBSET S : IsFiniteSet(s) /\ Cardinality(s) \in Nat
  BY FS_Subset, FS_CardinalityType
<1>2. \A s \in SUBSET S : /\ Total(f, s) \in Int
                          /\ s # {} => Total(f, s) = f[Pick(s)] + Total(f, s \ {Pick(s)})
  BY <1>1, TotalInt
<1>3. 0 \in N
  BY <1>1, FS_EmptySet
<1>4. ASSUME NEW n \in N PROVE n + 1 \in N
  <2>1. SUFFICES ASSUME NEW s \in SUBSET S, Cardinality(s) = n + 1, NEW x \in s
                 PROVE  Total(f, s) = f[x] + Total(f, s \ {x})
    BY <1>4
  <2> DEFINE y == Pick(s)
  <2>2. y \in s /\ Total(f, s) = f[y] + Total(f, s \ {y})
    BY <1>2, <2>1, Picks
  <2> HIDE DEF y
  <2>3. CASE x = y
    BY <2>2, <2>3
  <2>4. CASE x # y
    <3>1. Cardinality(s \ {x}) = n /\ Cardinality(s \ {y}) = n
      <4>1. n \in Nat /\ IsFiniteSet(s) /\ Cardinality(s) = n + 1
        BY <1>1, <2>1
      <4> HIDE DEF N
      <4> QED BY <4>1, <2>2, OneLess
    <3>2. /\ Total(f, s \ {x}) = f[y] + Total(f, (s \ {x}) \ {y})
          /\ Total(f, s \ {y}) = f[x] + Total(f, (s \ {y}) \ {x})
      BY <1>4, <2>2, <2>4, <3>1
    <3>3. (s \ {x}) \ {y} = (s \ {y}) \ {x}
      OBVIOUS
    <3>4. f[x] \in Int /\ f[y] \in Int /\ Total(f, (s \ {y}) \ {x}) \in Int
      BY <1>2, <2>2
    <3> DEFINE t == Total(f, (s \ {y}) \ {x})
               tx == Total(f, s \ {x})
               ty == Total(f, s \ {y})
               fx == f[x]
               fy == f[y]
    <3>5. /\ tx = fy + t /\ ty = fx + t /\ Total(f, s) = fy + ty
          /\ fx \in Int /\ fy \in Int /\ t \in Int
      BY <2>2, <3>2, <3>3, <3>4, Zenon
    <3> HIDE DEF t, tx, ty, fx, fy
    <3>6. Total(f, s) = fx + tx
      BY <3>5
    <3> QED BY <3>6 DEF fx, tx
  <2> QED BY <2>3, <2>4
<1>5. N = Nat
  <2> HIDE DEF N
  <2> N \in SUBSET Nat
    BY DEF N
  <2> QED BY <1>3, <1>4, Induction
<1> QED BY <1>1, <1>5

\* A new element adds its number to the total.
LEMMA TotalWith ==
  ASSUME NEW S, IsFiniteSet(S), NEW f, \A x \in S : f[x] \in Int,
         NEW s \in SUBSET S, NEW a \in S \ s
  PROVE  /\ Total(f, s \union {a}) = f[a] + Total(f, s)
         /\ Total(f, s) \in Int /\ f[a] \in Int
<1>1. IsFiniteSet(s) /\ IsFiniteSet(s \union {a})
  BY FS_Subset
<1> DEFINE r == s \union {a}
<1>2. r \ {a} = s /\ a \in r /\ (\A x \in r : f[x] \in Int) /\ \A x \in s : f[x] \in Int
  OBVIOUS
<1>3. Total(f, s) \in Int
  BY <1>1, <1>2, TotalInt
<1>4. Total(f, r) = f[a] + Total(f, r \ {a})
  <2> HIDE DEF r
  <2> QED BY <1>1, <1>2, TotalAny DEF r
<1> QED BY <1>2, <1>3, <1>4

\* The total is the same when the numbers are found under other names.
LEMMA TotalOver ==
  ASSUME NEW S, IsFiniteSet(S), NEW f, NEW g, NEW b, \A x \in S : f[x] \in Int /\ f[x] = g[b[x]],
         \A x, y \in S : b[x] = b[y] => x = y
  PROVE  Total(f, S) = Total(g, {b[x] : x \in S})
<1> DEFINE T == {s \in SUBSET S : Total(f, s) = Total(g, {b[x] : x \in s})}
<1>1. {} \in T
  <2>1. Total(f, {}) = 0 /\ Total(g, {}) = 0
    BY TotalInt, FS_EmptySet
  <2>2. {b[x] : x \in {}} = {}
    OBVIOUS
  <2> QED BY <2>1, <2>2
<1>2. ASSUME NEW s \in SUBSET S, s \in T, NEW a \in S \ s
      PROVE  s \union {a} \in T
  <2> DEFINE I(u) == {b[x] : x \in u}
  <2>1. I(s \union {a}) = I(s) \union {b[a]} /\ b[a] \notin I(s)
    OBVIOUS
  <2>2. IsFiniteSet(I(s \union {a}))
    <3>1. IsFiniteSet(s \union {a})
      BY FS_Subset
    <3> DEFINE u == s \union {a}
               c == [x \in u |-> b[x]]
    <3>2. c \in Surjection(u, I(u))
      BY DEF Surjection
    <3> HIDE DEF I, c, u
    <3> QED BY <3>1, <3>2, FS_Surjection DEF u
  <2>3. \A y \in I(s \union {a}) : g[y] \in Int
    OBVIOUS
  <2>4. b[a] \in I(s \union {a}) \ I(s) /\ I(s) \in SUBSET I(s \union {a})
    BY <2>1
  <2>5. Total(g, I(s) \union {b[a]}) = g[b[a]] + Total(g, I(s))
    <3> DEFINE all == I(s \union {a})
               before == I(s)
               ba == b[a]
    <3>1. IsFiniteSet(all) /\ (\A y \in all : g[y] \in Int) /\ ba \in all \ before /\ before \in SUBSET all
      BY <2>2, <2>3, <2>4
    <3> HIDE DEF all, before, ba
    <3>2. Total(g, before \union {ba}) = g[ba] + Total(g, before)
      BY <3>1, TotalWith
    <3> QED BY <3>2 DEF all, before, ba
  <2>6. Total(f, s \union {a}) = f[a] + Total(f, s)
    BY TotalWith
  <2>7. Total(f, s) = Total(g, I(s)) /\ f[a] = g[b[a]]
    BY <1>2
  <2>8. Total(f, s \union {a}) = Total(g, I(s \union {a}))
    <3> HIDE DEF I, T
    <3> QED BY <2>1, <2>5, <2>6, <2>7
  <2> QED BY <2>8
<1>3. S \in T
  <2> HIDE DEF T
  <2> QED BY <1>1, <1>2, SetInduction
<1> QED BY <1>3

\* Functions that are equal on a set have the same total there.
LEMMA TotalSame ==
  ASSUME NEW S, IsFiniteSet(S), NEW f, NEW g, \A x \in S : f[x] \in Int /\ f[x] = g[x]
  PROVE  Total(f, S) = Total(g, S)
<1> DEFINE b == [x \in S |-> x]
<1>1. Total(f, S) = Total(g, {b[x] : x \in S})
  <2>1. \A x \in S : f[x] \in Int /\ f[x] = g[b[x]]
    OBVIOUS
  <2>2. \A x, y \in S : b[x] = b[y] => x = y
    OBVIOUS
  <2> HIDE DEF b
  <2> QED BY <2>1, <2>2, TotalOver
<1>2. {b[x] : x \in S} = S
  OBVIOUS
<1> QED BY <1>1, <1>2

\* What is sold is bought with the sign turned: so are the totals.
LEMMA TotalMinus ==
  ASSUME NEW S, IsFiniteSet(S), NEW f, NEW g, \A x \in S : f[x] \in Int /\ g[x] = -f[x]
  PROVE  Total(g, S) = -Total(f, S)
<1> DEFINE T == {s \in SUBSET S : Total(g, s) = -Total(f, s)}
<1>1. {} \in T
  <2>1. Total(f, {}) = 0 /\ Total(g, {}) = 0
    BY TotalInt, FS_EmptySet
  <2> QED BY <2>1
<1>2. ASSUME NEW s \in SUBSET S, s \in T, NEW a \in S \ s
      PROVE  s \union {a} \in T
  <2>1. /\ Total(f, s \union {a}) = f[a] + Total(f, s) /\ Total(f, s) \in Int
        /\ Total(g, s \union {a}) = g[a] + Total(g, s)
    BY TotalWith
  <2>2. Total(g, s) = -Total(f, s) /\ f[a] \in Int /\ g[a] = -f[a]
    BY <1>2
  <2>3. Total(g, s \union {a}) = -Total(f, s \union {a})
    BY <2>1, <2>2
  <2> QED BY <2>3
<1>3. S \in T
  <2> HIDE DEF T
  <2> QED BY <1>1, <1>2, SetInduction
<1> QED BY <1>3

\* A total of numbers is a number.
LEMMA TotalNat ==
  ASSUME NEW S, IsFiniteSet(S), NEW f, \A x \in S : f[x] \in Nat
  PROVE  Total(f, S) \in Nat /\ \A a \in S : f[a] <= Total(f, S)
<1> DEFINE T == {s \in SUBSET S : Total(f, s) \in Nat}
<1>0. \A x \in S : f[x] \in Int
  OBVIOUS
<1>1. {} \in T
  BY TotalInt, FS_EmptySet
<1>2. ASSUME NEW s \in SUBSET S, s \in T, NEW a \in S \ s
      PROVE  s \union {a} \in T
  <2>1. Total(f, s \union {a}) = f[a] + Total(f, s)
    <3> HIDE DEF T
    <3> QED BY <1>0, TotalWith
  <2>2. Total(f, s) \in Nat /\ f[a] \in Nat
    BY <1>2
  <2>3. Total(f, s \union {a}) \in Nat
    BY <2>1, <2>2
  <2> QED BY <2>3
<1>3. \A s \in SUBSET S : s \in T
  <2> TAKE s \in SUBSET S
  <2>1. IsFiniteSet(s)
    BY FS_Subset
  <2>2. T = T /\ \A u \in SUBSET s : u \in T => \A x \in s \ u : u \union {x} \in T
    BY <1>2
  <2> HIDE DEF T
  <2> QED BY <1>1, <2>1, <2>2, SetInduction
<1>4. ASSUME NEW a \in S PROVE f[a] <= Total(f, S)
  <2>1. Total(f, S) = f[a] + Total(f, S \ {a})
    <3> HIDE DEF T
    <3> QED BY <1>0, TotalAny
  <2>2. Total(f, S \ {a}) \in Nat /\ f[a] \in Nat
    BY <1>3
  <2> QED BY <2>1, <2>2
<1> QED BY <1>3, <1>4

\* A part of a set comes to no more than the whole.
LEMMA TotalGrows ==
  ASSUME NEW S, IsFiniteSet(S), NEW W \in SUBSET S, NEW f, \A x \in S : f[x] \in Nat
  PROVE  Total(f, W) <= Total(f, S)
<1> DEFINE T == {s \in SUBSET S : Total(f, s \intersect W) <= Total(f, s)}
<1>0. \A s \in SUBSET S : Total(f, s) \in Nat
  <2> TAKE s \in SUBSET S
  <2>1. IsFiniteSet(s) /\ \A x \in s : f[x] \in Nat
    BY FS_Subset
  <2> HIDE DEF T
  <2> QED BY <2>1, TotalNat
<1>1. {} \in T
  <2>1. {} \intersect W = {} /\ Total(f, {}) \in Nat
    BY <1>0
  <2> QED BY <2>1
<1>2. ASSUME NEW s \in SUBSET S, s \in T, NEW a \in S \ s
      PROVE  s \union {a} \in T
  <2> HIDE DEF T
  <2>1. ASSUME NEW u \in SUBSET S, a \notin u
        PROVE  Total(f, u \union {a}) = f[a] + Total(f, u) /\ Total(f, u) \in Nat /\ f[a] \in Nat
    <3>1. \A x \in S : f[x] \in Int
      OBVIOUS
    <3>2. Total(f, u \union {a}) = f[a] + Total(f, u)
      BY <2>1, <3>1, TotalWith
    <3> QED BY <1>0, <3>2
  <2> DEFINE v == s \intersect W
  <2>2. v \in SUBSET S /\ a \notin v /\ Total(f, v) <= Total(f, s)
    BY <1>2 DEF T
  <2>3. CASE a \in W
    <3>1. (s \union {a}) \intersect W = v \union {a}
      BY <2>3
    <3> HIDE DEF v
    <3>2. Total(f, v \union {a}) <= Total(f, s \union {a})
      BY <2>1, <2>2
    <3> QED BY <3>1, <3>2 DEF T
  <2>4. CASE a \notin W
    <3>1. (s \union {a}) \intersect W = v
      BY <2>4
    <3> HIDE DEF v
    <3>2. Total(f, v) <= Total(f, s \union {a})
      <4>1. Total(f, v) \in Nat
        BY <2>1, <2>2
      <4>2. Total(f, s \union {a}) = f[a] + Total(f, s) /\ Total(f, s) \in Nat /\ f[a] \in Nat
        BY <2>1
      <4> QED BY <2>2, <4>1, <4>2
    <3> QED BY <3>1, <3>2 DEF T
  <2> QED BY <2>3, <2>4
<1>3. S \in T
  <2> HIDE DEF T
  <2> QED BY <1>1, <1>2, SetInduction
<1>4. S \intersect W = W
  OBVIOUS
<1> QED BY <1>3, <1>4

\* The totals of two functions add up to that of their sum.
LEMMA TotalPlus ==
  ASSUME NEW S, IsFiniteSet(S), NEW f, NEW g, NEW h,
         \A x \in S : f[x] \in Int /\ g[x] \in Int /\ h[x] = f[x] + g[x]
  PROVE  Total(h, S) = Total(f, S) + Total(g, S)
<1> DEFINE T == {s \in SUBSET S : Total(h, s) = Total(f, s) + Total(g, s)}
<1>1. {} \in T
  <2>1. Total(f, {}) = 0 /\ Total(g, {}) = 0 /\ Total(h, {}) = 0
    BY TotalInt, FS_EmptySet
  <2> QED BY <2>1
<1>2. ASSUME NEW s \in SUBSET S, s \in T, NEW a \in S \ s
      PROVE  s \union {a} \in T
  <2>1. /\ Total(f, s \union {a}) = f[a] + Total(f, s) /\ Total(f, s) \in Int /\ f[a] \in Int
        /\ Total(g, s \union {a}) = g[a] + Total(g, s) /\ Total(g, s) \in Int /\ g[a] \in Int
        /\ Total(h, s \union {a}) = h[a] + Total(h, s)
    <3> HIDE DEF T
    <3>1. ASSUME NEW e, \A x \in S : e[x] \in Int
          PROVE  /\ Total(e, s \union {a}) = e[a] + Total(e, s)
                 /\ Total(e, s) \in Int /\ e[a] \in Int
      BY <3>1, TotalWith
    <3>2. (\A x \in S : f[x] \in Int) /\ (\A x \in S : g[x] \in Int) /\ (\A x \in S : h[x] \in Int)
      OBVIOUS
    <3> QED BY <3>1, <3>2
  <2>2. Total(h, s) = Total(f, s) + Total(g, s) /\ h[a] = f[a] + g[a]
    BY <1>2
  <2>3. Total(h, s \union {a}) = Total(f, s \union {a}) + Total(g, s \union {a})
    BY <2>1, <2>2
  <2> QED BY <2>3
<1>3. S \in T
  <2> HIDE DEF T
  <2> QED BY <1>1, <1>2, SetInduction
<1> QED BY <1>3

\* One for each element of a part of the set comes to the size of the part.
LEMMA TotalCounts ==
  ASSUME NEW S, IsFiniteSet(S), NEW W \in SUBSET S,
         NEW f, \A x \in S : f[x] = IF x \in W THEN 1 ELSE 0
  PROVE  Total(f, S) = Cardinality(W)
<1> DEFINE T == {s \in SUBSET S : Total(f, s) = Cardinality(s \intersect W)}
<1>0. \A x \in S : f[x] \in Int
  OBVIOUS
<1>1. {} \in T
  <2>1. Total(f, {}) = 0 /\ {} \intersect W = {} /\ Cardinality({}) = 0
    BY TotalInt, FS_EmptySet
  <2> QED BY <2>1
<1>2. ASSUME NEW s \in SUBSET S, s \in T, NEW a \in S \ s
      PROVE  s \union {a} \in T
  <2>1. /\ Total(f, s \union {a}) = f[a] + Total(f, s) /\ Total(f, s) \in Int
    <3> HIDE DEF T
    <3> QED BY <1>0, TotalWith
  <2>2. Total(f, s) = Cardinality(s \intersect W)
    BY <1>2
  <2>3. IsFiniteSet(s \intersect W) /\ a \notin s \intersect W
    BY FS_Subset
  <2>4. CASE a \in W
    <3>1. (s \union {a}) \intersect W = (s \intersect W) \union {a}
      BY <2>4
    <3>2. Cardinality((s \union {a}) \intersect W) = Cardinality(s \intersect W) + 1
      BY <2>3, <3>1, FS_AddElement
    <3>3. f[a] = 1
      BY <2>4
    <3>4. Total(f, s \union {a}) = Cardinality((s \union {a}) \intersect W)
      <4> DEFINE t == Total(f, s)
                 c == Cardinality(s \intersect W)
      <4>1. t \in Int /\ t = c /\ Total(f, s \union {a}) = 1 + t
        BY <2>1, <2>2, <3>3
      <4>2. Cardinality((s \union {a}) \intersect W) = c + 1
        BY <3>2
      <4> HIDE DEF t, c
      <4> QED BY <4>1, <4>2
    <3> QED BY <3>4
  <2>5. CASE a \notin W
    <3>1. (s \union {a}) \intersect W = s \intersect W
      BY <2>5
    <3>2. f[a] = 0
      BY <2>5
    <3>3. Total(f, s \union {a}) = Total(f, s)
      BY <2>1, <3>2
    <3>4. Total(f, s \union {a}) = Cardinality((s \union {a}) \intersect W)
      BY <2>2, <3>1, <3>3
    <3> QED BY <3>4
  <2> QED BY <2>4, <2>5
<1>3. S \in T
  <2> HIDE DEF T
  <2> QED BY <1>1, <1>2, SetInduction
<1>4. S \intersect W = W
  OBVIOUS
<1> QED BY <1>3, <1>4

\* Elements that count for nothing do not change the total.
LEMMA TotalOfPart ==
  ASSUME NEW S, IsFiniteSet(S), NEW W \in SUBSET S,
         NEW f, \A x \in S : f[x] \in Int /\ (x \notin W => f[x] = 0)
  PROVE  Total(f, S) = Total(f, W)
<1> DEFINE T == {s \in SUBSET S : Total(f, s) = Total(f, s \intersect W)}
<1>1. {} \in T
  <2>1. {} \intersect W = {}
    OBVIOUS
  <2> QED BY <2>1
<1>2. ASSUME NEW s \in SUBSET S, s \in T, NEW a \in S \ s
      PROVE  s \union {a} \in T
  <2>1. /\ Total(f, s \union {a}) = f[a] + Total(f, s) /\ Total(f, s) \in Int
    <3> HIDE DEF T
    <3>1. ASSUME NEW e, \A x \in S : e[x] \in Int
          PROVE  Total(e, s \union {a}) = e[a] + Total(e, s) /\ Total(e, s) \in Int
      BY <3>1, TotalWith
    <3>2. \A x \in S : f[x] \in Int
      OBVIOUS
    <3> QED BY <3>1, <3>2
  <2>2. Total(f, s) = Total(f, s \intersect W)
    BY <1>2
  <2>3. CASE a \in W
    <3>1. (s \union {a}) \intersect W = (s \intersect W) \union {a}
      BY <2>3
    <3>2. s \intersect W \in SUBSET S /\ a \in S \ (s \intersect W)
      OBVIOUS
    <3>3. Total(f, (s \intersect W) \union {a}) = f[a] + Total(f, s \intersect W)
      <4> DEFINE v == s \intersect W
      <4> HIDE DEF v
      <4>1. v \in SUBSET S /\ a \in S \ v
        BY <3>2 DEF v
      <4>2. Total(f, v \union {a}) = f[a] + Total(f, v)
        BY <4>1, TotalWith
      <4> QED BY <4>2 DEF v
    <3>4. Total(f, s \union {a}) = Total(f, (s \union {a}) \intersect W)
      BY <2>1, <2>2, <3>1, <3>3
    <3> QED BY <3>4
  <2>4. CASE a \notin W
    <3>1. (s \union {a}) \intersect W = s \intersect W
      BY <2>4
    <3>2. Total(f, s \union {a}) = Total(f, s)
      BY <2>1, <2>4
    <3>3. Total(f, s \union {a}) = Total(f, (s \union {a}) \intersect W)
      BY <2>2, <3>1, <3>2
    <3> QED BY <3>3
  <2> QED BY <2>3, <2>4
<1>3. S \in T
  <2> HIDE DEF T
  <2> QED BY <1>1, <1>2, SetInduction
<1>4. S \intersect W = W
  OBVIOUS
<1> QED BY <1>3, <1>4
-----------------------------------------------------------------------------
(* Rounding. *)

\* What division rounded down leaves is less than the divisor.
LEMMA Divides ==
  ASSUME NEW n \in Nat, NEW p \in Nat \ {0}
  PROVE  n \div p \in Nat /\ p * (n \div p) <= n /\ n < p * (n \div p) + p
BY Z3

\* And the remainder is what it leaves.
LEMMA Remainder ==
  ASSUME NEW n \in Nat, NEW p \in Nat \ {0}
  PROVE  n % p \in Nat /\ n % p < p /\ n = p * (n \div p) + (n % p)
BY Z3

\* Multiples of p are p apart.
LEMMA Multiples ==
  ASSUME NEW a \in Nat, NEW b \in Nat, NEW p \in Nat \ {0}, a < b
  PROVE  p * a + p <= p * b
BY Z3

\* Share rounds up, by less than one lot.
LEMMA SharesRoundUp ==
  ASSUME NEW n \in Nat
  PROVE  /\ Share(n) \in Nat
         /\ n * Num \in Nat /\ Den * Share(n) \in Nat
         /\ n * Num <= Den * Share(n) /\ Den * Share(n) <= n * Num + Den - 1
<1> DEFINE k == n * Num
<1>1. Num \in Nat /\ Den \in Nat \ {0}
  BY ComparisonAssumption
<1>2. k \in Nat
  BY <1>1, Z3
<1> HIDE DEF k
<1>3. k + Den - 1 \in Nat
  BY <1>1, <1>2
<1>4. Share(n) = (k + Den - 1) \div Den
  BY DEF Share, k
<1>5. /\ Share(n) \in Nat /\ Den * Share(n) <= k + Den - 1
      /\ k + Den - 1 < Den * Share(n) + Den
  BY <1>1, <1>3, <1>4, Divides
<1>6. Den * Share(n) \in Nat
  BY <1>1, <1>5, Z3
<1> DEFINE q == Den * Share(n)
<1>7. k <= q
  <2>1. q \in Nat /\ k + Den - 1 < q + Den
    BY <1>5, <1>6
  <2> HIDE DEF q
  <2> QED BY <1>1, <1>2, <2>1
<1> QED BY <1>2, <1>5, <1>6, <1>7 DEF k

\* The shares of two numbers exceed that of their sum by no more than one.
LEMMA SharesOfTwo ==
  ASSUME NEW a \in Nat, NEW b \in Nat
  PROVE  /\ Share(a + b) <= Share(a) + Share(b)
         /\ Share(a) + Share(b) <= Share(a + b) + 1
<1> DEFINE x == Share(a)
           y == Share(b)
           z == Share(a + b)
           qx == Den * x
           qy == Den * y
           qz == Den * z
           A == a * Num
           B == b * Num
<1>1. Num \in Nat /\ Den \in Nat \ {0}
  BY ComparisonAssumption
<1>2. (a + b) * Num = A + B
  BY <1>1, Z3
<1>3. /\ x \in Nat /\ y \in Nat /\ z \in Nat
      /\ A \in Nat /\ B \in Nat /\ qx \in Nat /\ qy \in Nat /\ qz \in Nat
      /\ A <= qx /\ qx <= A + Den - 1 /\ B <= qy /\ qy <= B + Den - 1
      /\ A + B <= qz /\ qz <= A + B + Den - 1
  BY <1>2, SharesRoundUp
<1>4. Den * (x + y) = qx + qy /\ Den * (z + 1) = qz + Den
  <2> HIDE DEF x, y, z
  <2> QED BY <1>1, <1>3, Z3
<1> HIDE DEF x, y, z, qx, qy, qz, A, B
<1>5. z <= x + y
  <2>1. SUFFICES ASSUME x + y < z PROVE FALSE
    BY <1>3
  <2>2. Den * (x + y) + Den <= Den * z
    <3>1. x + y \in Nat
      BY <1>3
    <3> QED BY <1>1, <1>3, <2>1, <3>1, Multiples
  <2> QED BY <1>1, <1>3, <1>4, <2>2 DEF qz
<1>6. x + y <= z + 1
  <2>1. SUFFICES ASSUME z + 1 < x + y PROVE FALSE
    BY <1>3
  <2>2. Den * (z + 1) + Den <= Den * (x + y)
    <3>1. x + y \in Nat /\ z + 1 \in Nat
      BY <1>3
    <3> QED BY <1>1, <2>1, <3>1, Multiples
  <2> QED BY <1>1, <1>3, <1>4, <2>2
<1> QED BY <1>5, <1>6 DEF x, y, z

\* Those of the rungs exceed that of the ladder by no more than one each.
LEMMA SharesOfRungs ==
  ASSUME NEW S, IsFiniteSet(S), NEW f, \A x \in S : f[x] \in Nat,
         NEW g, \A x \in S : g[x] = Share(f[x])
  PROVE  /\ Total(f, S) \in Nat /\ Total(g, S) \in Nat
         /\ Share(Total(f, S)) <= Total(g, S)
         /\ Total(g, S) <= Share(Total(f, S)) + Cardinality(S)
<1> DEFINE Near(s) == /\ Total(f, s) \in Nat /\ Total(g, s) \in Nat
                      /\ Share(Total(f, s)) <= Total(g, s)
                      /\ Total(g, s) <= Share(Total(f, s)) + Cardinality(s)
           T == {s \in SUBSET S : Near(s)}
<1>1. \A x \in S : f[x] \in Int /\ g[x] \in Nat /\ g[x] \in Int
  BY SharesRoundUp
<1>2. {} \in T
  <2>1. Total(f, {}) = 0 /\ Total(g, {}) = 0
    BY <1>1, FS_EmptySet, TotalInt
  <2>2. Share(0) = 0
    <3>1. /\ Share(0) \in Nat /\ Den * Share(0) \in Nat /\ Den * Share(0) <= 0 * Num + Den - 1
      BY SharesRoundUp
    <3>2. 0 * Num = 0 /\ Den \in Nat \ {0}
      BY ComparisonAssumption
    <3>3. 0 < Share(0) => Den * 0 + Den <= Den * Share(0)
      BY <3>1, <3>2, Multiples
    <3>4. Den * 0 = 0
      BY <3>2
    <3> DEFINE q == Den * Share(0)
    <3> HIDE DEF q
    <3>5. q \in Nat /\ q <= Den - 1 /\ (0 < Share(0) => Den <= q)
      BY <3>1, <3>2, <3>3, <3>4 DEF q
    <3> QED BY <3>1, <3>2, <3>5
  <2>3. Cardinality({}) = 0
    BY FS_EmptySet
  <2>4. Near({})
    BY <2>1, <2>2, <2>3
  <2> QED BY <2>4
<1>3. ASSUME NEW s \in SUBSET S, s \in T, NEW a \in S \ s
      PROVE  s \union {a} \in T
  <2> DEFINE m == Total(f, s)
             n == Total(g, s)
             c == Cardinality(s)
             z == Share(m)
             fa == f[a]
             y == Share(f[a])
             w == Share(m + fa)
  <2>1. /\ Total(f, s \union {a}) = fa + m /\ Total(g, s \union {a}) = y + n
    BY <1>1, TotalWith
  <2>2. Cardinality(s \union {a}) = c + 1 /\ c \in Nat
    <3>1. IsFiniteSet(s)
      BY FS_Subset
    <3> QED BY <3>1, FS_AddElement, FS_CardinalityType
  <2>3. m \in Nat /\ n \in Nat /\ fa \in Nat /\ z <= n /\ n <= z + c
    BY <1>3
  <2>4. /\ z \in Nat /\ y \in Nat /\ w \in Nat
        /\ w <= z + y /\ z + y <= w + 1
    <3>1. m + fa \in Nat
      BY <2>3
    <3> HIDE DEF m, fa
    <3> QED BY <2>3, <3>1, SharesRoundUp, SharesOfTwo DEF fa
  <2>5. fa + m = m + fa
    BY <2>3
  <2> HIDE DEF m, n, c, z, fa, y, w
  <2>6. /\ fa + m \in Nat /\ y + n \in Nat /\ w <= y + n /\ y + n <= w + (c + 1)
    BY <2>2, <2>3, <2>4
  <2>7. Share(fa + m) = w
    BY <2>5 DEF w
  <2>8. Near(s \union {a})
    BY <2>1, <2>2, <2>6, <2>7
  <2> QED BY <2>8
<1>4. S \in T
  <2> HIDE DEF T
  <2> QED BY <1>2, <1>3, SetInduction
<1> QED BY <1>4
-----------------------------------------------------------------------------
(* The largest remainders, as allocate_lots deals them out. *)

\* L orders S: nothing is ahead of itself, and of two one is ahead.
InARow(L, S) ==
  /\ \A p \in S : <<p, p>> \notin L
  /\ \A p, q, r \in S : <<p, q>> \in L /\ <<q, r>> \in L => <<p, r>> \in L
  /\ \A p, q \in S : p = q \/ <<p, q>> \in L \/ <<q, p>> \in L

\* Of things in a row, with L the pairs of one that is ahead of another, those
\* with fewer than k ahead of them are k.
LEMMA FirstOfThem ==
  ASSUME NEW S, IsFiniteSet(S), NEW L, InARow(L, S),
         NEW k \in Nat, k <= Cardinality(S)
  PROVE  Cardinality({r \in S : Cardinality({q \in S : <<q, r>> \in L}) < k}) = k
<1> DEFINE Before(r) == {q \in S : <<q, r>> \in L}
           rank == [r \in S |-> Cardinality(Before(r))]
           n == Cardinality(S)
<1>1. n \in Nat /\ \A u \in SUBSET S : IsFiniteSet(u) /\ Cardinality(u) \in Nat /\ Cardinality(u) <= n
  BY FS_Subset, FS_CardinalityType
<1>2. \A u \in SUBSET S, v \in SUBSET S : u \subseteq v /\ u # v => Cardinality(u) < Cardinality(v)
  <2> TAKE u \in SUBSET S, v \in SUBSET S
  <2> HAVE u \subseteq v /\ u # v
  <2>1. IsFiniteSet(v) /\ Cardinality(u) \in Nat /\ Cardinality(v) \in Nat
    BY <1>1
  <2>2. Cardinality(u) <= Cardinality(v) /\ Cardinality(u) # Cardinality(v)
    BY <2>1, FS_Subset
  <2> QED BY <2>1, <2>2
<1>3. \A r \in S : rank[r] \in 0 .. n - 1
  <2> TAKE r \in S
  <2>1. Before(r) \in SUBSET S /\ Before(r) # S
    BY DEF InARow
  <2> HIDE DEF Before
  <2>2. Cardinality(Before(r)) < n /\ Cardinality(Before(r)) \in Nat
    BY <1>1, <1>2, <2>1
  <2> QED BY <1>1, <2>2
<1>4. \A p, q \in S : <<p, q>> \in L => rank[p] < rank[q]
  <2> TAKE p, q \in S
  <2> HAVE <<p, q>> \in L
  <2>1. /\ Before(p) \in SUBSET S /\ Before(q) \in SUBSET S
        /\ Before(p) \subseteq Before(q) /\ p \in Before(q) /\ p \notin Before(p)
    BY DEF InARow
  <2> HIDE DEF Before
  <2>2. Cardinality(Before(p)) < Cardinality(Before(q))
    BY <1>2, <2>1
  <2> QED BY <2>2
<1> HIDE DEF rank
<1>5. \A p, q \in S : rank[p] = rank[q] => p = q
  <2> TAKE p, q \in S
  <2>1. rank[p] \in Nat /\ rank[q] \in Nat
    BY <1>1, <1>3
  <2> HAVE rank[p] = rank[q]
  <2>2. ~(rank[p] < rank[q]) /\ ~(rank[q] < rank[p])
    BY <2>1
  <2> QED BY <1>4, <2>2, Zenon DEF InARow
<1>6. rank \in [S -> 0 .. n - 1]
  BY <1>3 DEF rank
<1>7. rank \in Surjection(S, 0 .. n - 1)
  <2>1. rank \in Injection(S, 0 .. n - 1)
    BY <1>5, <1>6, Zenon DEF Injection, IsInjective
  <2>2. IsFiniteSet(0 .. n - 1) /\ Cardinality(0 .. n - 1) = n
    <3>1. n - 1 \in Int /\ 0 \in Int
      BY <1>1
    <3> DEFINE m == n - 1
    <3>2. IsFiniteSet(0 .. m) /\ Cardinality(0 .. m) = IF 0 > m THEN 0 ELSE m - 0 + 1
      <4> HIDE DEF m
      <4> QED BY <3>1, FS_Interval DEF m
    <3> QED BY <1>1, <3>2
  <2> HIDE DEF n
  <2> QED BY <2>1, <2>2, FS_Injection DEF n
<1> DEFINE W == {r \in S : rank[r] < k}
           front == [r \in W |-> rank[r]]
<1>8. front \in Injection(W, 0 .. k - 1)
  <2>1. \A r \in W : rank[r] \in 0 .. k - 1
    BY <1>1, <1>3
  <2>2. \A p, q \in W : front[p] = front[q] => p = q
    BY <1>5
  <2>3. front \in [W -> 0 .. k - 1]
    BY <2>1
  <2>4. \A p, q \in DOMAIN front : front[p] = front[q] => p = q
    BY <2>2
  <2> HIDE DEF front, W
  <2> QED BY <2>3, <2>4, Zenon DEF Injection, IsInjective
<1>9. front \in Surjection(W, 0 .. k - 1)
  <2>1. ASSUME NEW i \in 0 .. k - 1
        PROVE  \E r \in W : front[r] = i
    <3>1. i \in 0 .. n - 1
      BY <1>1
    <3>2. PICK r \in S : rank[r] = i
      BY <1>7, <3>1 DEF Surjection
    <3> QED BY <3>2
  <2> HIDE DEF W, front
  <2> QED BY <1>8, <2>1, Zenon DEF Injection, Surjection
<1>10. Cardinality(W) = k
  <2>1. IsFiniteSet(0 .. k - 1) /\ Cardinality(0 .. k - 1) = k
    BY FS_Interval
  <2> HIDE DEF W, front
  <2> QED BY <1>8, <1>9, <2>1, FS_Injection
<1>11. W = {r \in S : Cardinality({q \in S : <<q, r>> \in L}) < k}
  BY DEF rank
<1> QED BY <1>10, <1>11

\* b are the shares of n lots that the lots f, p of them, have, rounded down.
RoundedDown(b, S, f, p, n) ==
  /\ IsFiniteSet(S) /\ \A x \in S : f[x] \in Nat
  /\ n \in Nat /\ p \in Nat \ {0} /\ p = Total(f, S)
  /\ \A x \in S : b[x] = (n * f[x]) \div p

\* Those that had a fraction.
Fractions(S, f, p, n) == {x \in S : (n * f[x]) % p # 0}

\* They leave no more lots than there are shares with a fraction.
LEMMA WhatIsLeft ==
  ASSUME NEW S, NEW f, NEW n, NEW p, NEW b, RoundedDown(b, S, f, p, n)
  PROVE  /\ \A x \in S : b[x] \in Nat
         /\ Total(b, S) \in Nat /\ Total(b, S) <= n
         /\ n - Total(b, S) <= Cardinality(Fractions(S, f, p, n))
<1>f. Fractions(S, f, p, n) = {x \in S : (n * f[x]) % p # 0}
  BY DEF Fractions
<1> DEFINE M == Fractions(S, f, p, n)
           e == [x \in S |-> IF x \in M THEN 1 ELSE 0]
<1>0. /\ IsFiniteSet(S) /\ \A x \in S : f[x] \in Nat
      /\ n \in Nat /\ p \in Nat \ {0} /\ p = Total(f, S)
      /\ \A x \in S : b[x] = (n * f[x]) \div p
  BY DEF RoundedDown
<1> USE <1>0
<1>1. ASSUME NEW x \in S
      PROVE  /\ f[x] \in Nat /\ b[x] \in Nat /\ e[x] \in Nat
             /\ p * b[x] <= n * f[x] /\ n * f[x] <= p * b[x] + p * e[x]
  <2> DEFINE k == n * f[x]
             c == b[x]
             m == k % p
             i == e[x]
  <2>1. k \in Nat /\ f[x] \in Nat
    <3>1. f[x] \in Nat
      OBVIOUS
    <3> QED BY <3>1, Z3
  <2>2. c = k \div p /\ i = (IF m # 0 THEN 1 ELSE 0)
    BY <1>f
  <2> HIDE DEF k, c, m, i
  <2>3. c \in Nat /\ m \in Nat /\ m < p /\ k = p * c + m
    BY <2>1, <2>2, Divides, Remainder DEF m
  <2>4. i \in Nat /\ p * c <= k /\ k <= p * c + p * i
    <3>1. CASE m = 0
      <4>1. i = 0 /\ p * i = 0
        BY <2>2, <3>1
      <4> QED BY <2>3, <3>1, <4>1, Z3
    <3>2. CASE m # 0
      <4>1. i = 1 /\ p * i = p
        BY <2>2, <3>2
      <4> QED BY <2>3, <4>1, Z3
    <3> QED BY <3>1, <3>2
  <2> QED BY <2>1, <2>3, <2>4 DEF k, c, i
<1> DEFINE Near(s) == /\ p * Total(b, s) <= n * Total(f, s)
                      /\ n * Total(f, s) <= p * Total(b, s) + p * Total(e, s)
           T == {s \in SUBSET S : Near(s)}
<1>2. Total(e, S) = Cardinality(M)
  <2>1. M \in SUBSET S /\ \A x \in S : e[x] = IF x \in M THEN 1 ELSE 0
    BY <1>f
  <2> HIDE DEF M, e
  <2> QED BY <2>1, TotalCounts
<1> HIDE DEF e
<1>3. {} \in T
  <2>1. Total(f, {}) = 0 /\ Total(b, {}) = 0 /\ Total(e, {}) = 0
    BY TotalInt, FS_EmptySet
  <2>2. p * 0 = 0 /\ n * 0 = 0
    OBVIOUS
  <2>3. Near({})
    BY <2>1, <2>2
  <2> QED BY <2>3
<1>4. \A s \in SUBSET S : Total(f, s) \in Nat /\ Total(b, s) \in Nat /\ Total(e, s) \in Nat
  <2> TAKE s \in SUBSET S
  <2> HIDE DEF T
  <2> QED BY <1>1, FS_Subset, TotalNat
<1>5. ASSUME NEW s \in SUBSET S, s \in T, NEW a \in S \ s
      PROVE  s \union {a} \in T
  <2> DEFINE F == Total(f, s)
             B == Total(b, s)
             E == Total(e, s)
             x == f[a]
             y == b[a]
             z == e[a]
  <2>1. /\ Total(f, s \union {a}) = x + F
        /\ Total(b, s \union {a}) = y + B
        /\ Total(e, s \union {a}) = z + E
    <3> HIDE DEF T
    <3>1. ASSUME NEW g, \A c \in S : g[c] \in Nat
          PROVE  Total(g, s \union {a}) = g[a] + Total(g, s)
      <4>1. \A c \in S : g[c] \in Int
        BY <3>1
      <4> QED BY <4>1, TotalWith
    <3> QED BY <1>1, <3>1
  <2>2. /\ F \in Nat /\ B \in Nat /\ E \in Nat /\ x \in Nat /\ y \in Nat /\ z \in Nat
        /\ p * y <= n * x /\ n * x <= p * y + p * z
    BY <1>1, <1>4
  <2>3. p * B <= n * F /\ n * F <= p * B + p * E
    BY <1>5
  <2> HIDE DEF F, B, E, x, y, z
  <2>4. p * (y + B) <= n * (x + F) /\ n * (x + F) <= p * (y + B) + p * (z + E)
    <3>1. /\ p * (y + B) = p * y + p * B /\ p * (z + E) = p * z + p * E
          /\ n * (x + F) = n * x + n * F
          /\ p * y \in Nat /\ p * B \in Nat /\ p * z \in Nat /\ p * E \in Nat /\ n * x \in Nat /\ n * F \in Nat
      BY <2>2, Z3
    <3> DEFINE py == p * y
               pB == p * B
               pz == p * z
               pE == p * E
               nx == n * x
               nF == n * F
    <3>2. /\ py \in Nat /\ pB \in Nat /\ pz \in Nat /\ pE \in Nat /\ nx \in Nat /\ nF \in Nat
          /\ py <= nx /\ nx <= py + pz /\ pB <= nF /\ nF <= pB + pE
      BY <2>2, <2>3, <3>1
    <3> HIDE DEF py, pB, pz, pE, nx, nF
    <3>3. py + pB <= nx + nF /\ nx + nF <= (py + pB) + (pz + pE)
      BY <3>2
    <3> QED BY <3>1, <3>3 DEF py, pB, pz, pE, nx, nF
  <2>5. Near(s \union {a})
    BY <2>1, <2>4
  <2> QED BY <2>5
<1>6. Near(S)
  <2>1. S \in T
    <3> HIDE DEF T
    <3> QED BY <1>3, <1>5, SetInduction
  <2> QED BY <2>1
<1> DEFINE B == Total(b, S)
           c == Cardinality(M)
<1>7. B \in Nat /\ c \in Nat /\ p * B <= n * p /\ n * p <= p * B + p * c
  BY <1>2, <1>4, <1>6
<1> HIDE DEF B, c
<1>8. n * p = p * n /\ p * B + p * c = p * (B + c)
  BY <1>7, Z3
<1>9. B <= n
  <2>1. SUFFICES ASSUME n < B PROVE FALSE
    BY <1>7
  <2>2. p * n + p <= p * B /\ p * n \in Nat /\ p * B \in Nat
    BY <1>7, <2>1, Multiples, Z3
  <2> QED BY <1>7, <1>8, <2>2
<1>10. n <= B + c
  <2>1. SUFFICES ASSUME B + c < n PROVE FALSE
    BY <1>7
  <2>2. B + c \in Nat
    BY <1>7
  <2>3. p * (B + c) + p <= p * n /\ p * (B + c) \in Nat /\ p * n \in Nat
    <3> DEFINE d == B + c
    <3> HIDE DEF d
    <3>1. d \in Nat /\ d < n
      BY <2>1, <2>2 DEF d
    <3>2. p * d + p <= p * n /\ p * d \in Nat /\ p * n \in Nat
      BY <3>1, Multiples, Z3
    <3> QED BY <3>2 DEF d
  <2> QED BY <1>7, <1>8, <2>3
<1>11. n - B <= c
  BY <1>7, <1>9, <1>10
<1> QED BY <1>1, <1>7, <1>9, <1>11 DEF B, c

\* In the row L a larger fraction comes before a smaller one.
ByFraction(L, S, f, p, n) ==
  \A x, y \in S : (n * f[x]) % p > (n * f[y]) % p => <<x, y>> \in L

\* a are the shares b, and a lot more for each of the first k of the row.
ToppedUp(a, b, S, L, k) ==
  \A x \in S : a[x] = b[x] + IF Cardinality({y \in S : <<y, x>> \in L}) < k THEN 1 ELSE 0

\* The largest remainders: when each share with more of a fraction is ahead (L) of
\* each with less, and the first of them get what is left, a lot each, then the
\* shares are n together, and each is its own, rounded down or up.
LEMMA LargestRemainders ==
  ASSUME NEW S, NEW f, NEW n, NEW p, NEW b, RoundedDown(b, S, f, p, n),
         NEW L, InARow(L, S), ByFraction(L, S, f, p, n),
         NEW a, ToppedUp(a, b, S, L, n - Total(b, S))
  PROVE  /\ \A x \in S : a[x] \in Nat /\ a[x] * p < n * f[x] + p /\ a[x] * p > n * f[x] - p
         /\ Total(a, S) = n
<1> DEFINE k == n - Total(b, S)
           W == {x \in S : Cardinality({y \in S : <<y, x>> \in L}) < k}
           M == Fractions(S, f, p, n)
           e == [x \in S |-> IF x \in W THEN 1 ELSE 0]
<1>0. /\ IsFiniteSet(S) /\ \A x \in S : f[x] \in Nat
      /\ n \in Nat /\ p \in Nat \ {0}
      /\ \A x \in S : b[x] = (n * f[x]) \div p
  BY DEF RoundedDown
<1>1. /\ \A x \in S : b[x] \in Nat
      /\ Total(b, S) \in Nat /\ Total(b, S) <= n
      /\ n - Total(b, S) <= Cardinality(Fractions(S, f, p, n))
  BY WhatIsLeft
<1> USE <1>0
<1>f. M = {x \in S : (n * f[x]) % p # 0}
  BY DEF Fractions
<1>2. Total(b, S) \in Nat /\ k \in Nat /\ k <= Cardinality(M) /\ k <= Cardinality(S)
  <2>1. Total(b, S) \in Nat /\ Total(b, S) <= n /\ k <= Cardinality(M)
    BY <1>1
  <2>2. Cardinality(M) <= Cardinality(S) /\ Cardinality(M) \in Nat /\ Cardinality(S) \in Nat
    <3>1. M \in SUBSET S
      BY <1>f
    <3> HIDE DEF M
    <3> QED BY <3>1, FS_Subset, FS_CardinalityType
  <2> QED BY <2>1, <2>2
<1>3. Cardinality(W) = k
  <2> HIDE DEF k
  <2>1. \A j \in Nat : j <= Cardinality(S) =>
          Cardinality({x \in S : Cardinality({y \in S : <<y, x>> \in L}) < j}) = j
    BY FirstOfThem
  <2> QED BY <1>2, <2>1
<1>4. Total(e, S) = k
  <2>1. W \in SUBSET S /\ \A x \in S : e[x] = IF x \in W THEN 1 ELSE 0
    OBVIOUS
  <2> HIDE DEF W, e
  <2> QED BY <1>3, <2>1, TotalCounts
<1>5. \A x \in S : a[x] = b[x] + e[x] /\ e[x] \in Int
  BY DEF ToppedUp
<1>6. Total(a, S) = n
  <2>1. \A x \in S : b[x] \in Int /\ e[x] \in Int /\ a[x] = b[x] + e[x]
    <3>1. \A x \in S : b[x] \in Int
      BY <1>1
    <3> HIDE DEF e
    <3> QED BY <1>5, <3>1
  <2> HIDE DEF e
  <2>2. Total(a, S) = Total(b, S) + Total(e, S)
    BY <2>1, TotalPlus
  <2> DEFINE t == Total(b, S)
  <2>3. Total(a, S) = t + (n - t) /\ t \in Nat
    BY <1>2, <1>4, <2>2
  <2> HIDE DEF t
  <2> QED BY <2>3
<1>7. \A x \in W : x \in M
  <2>1. SUFFICES ASSUME NEW x \in W, x \notin M PROVE FALSE
    OBVIOUS
  <2>2. x \in S /\ (n * f[x]) % p = 0
    BY <1>f, <2>1
  <2>3. \A y \in M : <<y, x>> \in L
    <3> TAKE y \in M
    <3>1. y \in S /\ (n * f[y]) % p # 0
      BY <1>f
    <3>2. n * f[y] \in Nat
      <4>1. f[y] \in Nat
        BY <3>1
      <4> QED BY <4>1, Z3
    <3>3. (n * f[y]) % p \in Nat
      <4> DEFINE m == n * f[y]
      <4> HIDE DEF m
      <4> QED BY <3>2, Remainder DEF m
    <3>4. (n * f[y]) % p > (n * f[x]) % p
      BY <2>2, <3>1, <3>3
    <3> QED BY <2>2, <3>1, <3>4 DEF ByFraction
  <2> DEFINE A == {y \in S : <<y, x>> \in L}
  <2>4. M \in SUBSET A /\ A \in SUBSET S
    BY <1>f, <2>3
  <2>5. Cardinality(A) < k
    BY <2>1
  <2> HIDE DEF M, A, W
  <2>6. Cardinality(M) <= Cardinality(A) /\ Cardinality(M) \in Nat /\ Cardinality(A) \in Nat
    BY <2>4, FS_Subset, FS_CardinalityType
  <2> HIDE DEF k
  <2> QED BY <1>2, <2>5, <2>6
<1>8. ASSUME NEW x \in S
      PROVE  a[x] \in Nat /\ a[x] * p < n * f[x] + p /\ a[x] * p > n * f[x] - p
  <2> DEFINE m == n * f[x]
             q == m \div p
             r == m % p
             i == e[x]
  <2>1. m \in Nat
    <3>1. f[x] \in Nat
      OBVIOUS
    <3> QED BY <3>1, Z3
  <2>2. a[x] = q + i /\ i \in {0, 1} /\ (i = 1 => r # 0)
    <3>1. a[x] = b[x] + e[x] /\ b[x] = q
      BY <1>5
    <3>2. e[x] = 0 \/ (e[x] = 1 /\ x \in W)
      OBVIOUS
    <3>3. x \in W => r # 0
      <4> HIDE DEF W
      <4> QED BY <1>f, <1>7
    <3> HIDE DEF e, W, q, r
    <3> QED BY <3>1, <3>2, <3>3
  <2> HIDE DEF m
  <2>3. q \in Nat /\ r \in Nat /\ r < p /\ m = p * q + r
    BY <2>1, Divides, Remainder
  <2> HIDE DEF q, r, i
  <2>4. q * p = p * q /\ p * q \in Nat /\ (q + 1) * p = p * q + p
    BY <2>3, Z3
  <2> DEFINE t == p * q
  <2> HIDE DEF t
  <2>5. q * p = t /\ (q + 1) * p = t + p /\ t \in Nat /\ m = t + r
    BY <2>3, <2>4 DEF t
  <2>6. CASE i = 0
    <3>1. a[x] = q
      BY <2>2, <2>3, <2>6
    <3>2. q * p < m + p /\ q * p > m - p
      BY <2>1, <2>3, <2>5
    <3> QED BY <2>3, <3>1, <3>2 DEF m
  <2>7. CASE i = 1
    <3>1. a[x] = q + 1 /\ r > 0
      BY <2>2, <2>3, <2>7
    <3>2. (q + 1) * p < m + p /\ (q + 1) * p > m - p
      BY <2>1, <2>3, <2>5, <3>1
    <3> QED BY <2>3, <3>1, <3>2 DEF m
  <2> QED BY <2>2, <2>6, <2>7
<1> QED BY <1>6, <1>8

\* Allocate, as a function of the sizes f of the orders S and the lots n.
Split(f, S, n) ==
  LET p == Total(f, S)
      b == [r \in S |-> (n * f[r]) \div p]
      part(r) == (n * f[r]) % p
      ahead(q, r) == \/ part(q) > part(r)
                     \/ part(q) = part(r) /\ f[q] > f[r]
                     \/ part(q) = part(r) /\ f[q] = f[r] /\ q < r
  IN  [r \in S |-> IF n <= 0 THEN 0
                   ELSE b[r] + IF Cardinality({q \in S : ahead(q, r)}) < n - Total(b, S) THEN 1 ELSE 0]

\* allocate_lots: the parts are numbers of lots that "sum to EXACTLY the total",
\* and each is the rung's own share of it, rounded down or up.
LEMMA SplitsTheTotal ==
  ASSUME NEW S, IsFiniteSet(S), S # {}, S \subseteq Nat, NEW f, \A r \in S : f[r] \in Nat \ {0},
         NEW p, p = Total(f, S), NEW n \in Nat, NEW a, a = Split(f, S, n)
  PROVE  /\ a \in [S -> Nat]
         /\ Total(a, S) = n
         /\ \A r \in S : a[r] * p < n * f[r] + p /\ a[r] * p > n * f[r] - p
<1> DEFINE b == [r \in S |-> (n * f[r]) \div p]
           part(r) == (n * f[r]) % p
           Ahead(q, r) == \/ part(q) > part(r)
                          \/ part(q) = part(r) /\ f[q] > f[r]
                          \/ part(q) = part(r) /\ f[q] = f[r] /\ q < r
           L == {w \in S \X S : Ahead(w[1], w[2])}
           more(r) == IF Cardinality({q \in S : <<q, r>> \in L}) < n - Total(b, S) THEN 1 ELSE 0
<1>1. \A r \in S : f[r] \in Nat
  OBVIOUS
<1>2. p \in Nat \ {0}
  <2>1. Total(f, S) \in Nat /\ \A r \in S : f[r] <= Total(f, S)
    BY <1>1, TotalNat
  <2>2. PICK r \in S : TRUE
    OBVIOUS
  <2>3. f[r] \in Nat \ {0}
    OBVIOUS
  <2> QED BY <2>1, <2>3
<1>3. RoundedDown(b, S, f, p, n)
  BY <1>1, <1>2 DEF RoundedDown
<1>4. \A r \in S : part(r) \in Nat
  <2> TAKE r \in S
  <2> DEFINE k == n * f[r]
  <2>1. k \in Nat
    <3>1. f[r] \in Nat
      BY <1>1
    <3> QED BY <3>1, Z3
  <2> HIDE DEF k
  <2>2. k % p \in Nat
    BY <1>2, <2>1, Remainder
  <2> QED BY <2>2 DEF k
<1>5. InARow(L, S)
  <2>1. \A q, r \in S : <<q, r>> \in L <=> Ahead(q, r)
    OBVIOUS
  <2> HIDE DEF L, part
  <2>2. \A q, r \in S : q = r \/ Ahead(q, r) \/ Ahead(r, q)
    BY <1>1, <1>4
  <2>3. \A r \in S : ~Ahead(r, r)
    BY <1>1, <1>4
  <2>4. \A q, r, s \in S : Ahead(q, r) /\ Ahead(r, s) => Ahead(q, s)
    BY <1>1, <1>4
  <2> HIDE DEF Ahead
  <2> QED BY <2>1, <2>2, <2>3, <2>4, Zenon DEF InARow
<1>6. ByFraction(L, S, f, p, n)
  BY DEF ByFraction
<1>7. ASSUME n # 0
      PROVE  DOMAIN a = S /\ \A r \in S : a[r] = b[r] + more(r)
  <2>1. ~(n <= 0)
    BY <1>7
  <2>2. a = [r \in S |-> b[r] + IF Cardinality({q \in S : Ahead(q, r)}) < n - Total(b, S) THEN 1 ELSE 0]
    BY <2>1, Zenon DEF Split
  <2>3. \A r \in S : {q \in S : Ahead(q, r)} = {q \in S : <<q, r>> \in L}
    <3> HIDE DEF Ahead
    <3> QED OBVIOUS
  <2> HIDE DEF Ahead, L, b
  <2> QED BY <2>2, <2>3
<1>8. CASE n # 0
  <2>1. \A r \in S : a[r] = b[r] + more(r)
    BY <1>7, <1>8
  <2> HIDE DEF b, L
  <2>2. /\ \A r \in S : a[r] \in Nat /\ a[r] * p < n * f[r] + p /\ a[r] * p > n * f[r] - p
        /\ Total(a, S) = n
    <3>1. ToppedUp(a, b, S, L, n - Total(b, S))
      BY <2>1 DEF ToppedUp
    <3> QED BY <1>3, <1>5, <1>6, <3>1, LargestRemainders
  <2>3. a \in [S -> Nat]
    BY <1>7, <1>8, <2>2 DEF Split
  <2> QED BY <2>2, <2>3
<1>9. CASE n = 0
  <2>1. a = [r \in S |-> 0]
    <3>1. n <= 0
      BY <1>9
    <3> QED BY <3>1, Zenon DEF Split
  <2>2. Total(a, S) = 0
    <3> DEFINE none == {}
    <3>1. none \in SUBSET S /\ \A r \in S : a[r] \in Int /\ (r \notin none => a[r] = 0)
      BY <2>1
    <3>2. Total(a, none) = 0
      BY TotalInt, FS_EmptySet
    <3> HIDE DEF none
    <3>3. Total(a, S) = Total(a, none)
      BY <3>1, TotalOfPart
    <3> QED BY <3>2, <3>3
  <2>3. \A r \in S : a[r] = 0 /\ n * f[r] = 0 /\ a[r] * p = 0
    BY <1>1, <1>2, <1>9, <2>1
  <2>4. \A r \in S : a[r] * p < n * f[r] + p /\ a[r] * p > n * f[r] - p
    BY <1>2, <2>3
  <2> QED BY <1>9, <2>1, <2>2, <2>4
<1> QED BY <1>8, <1>9
-----------------------------------------------------------------------------
(* The sizing of a ladder. *)

\* The orders of a ladder are finitely many, each for a lot at least.
LEMMA RungsAreLots ==
  ASSUME LadderTypeOK, NEW rungs \in SUBSET Rung
  PROVE  IsFiniteSet(rungs) /\ \A r \in rungs : size[r] \in Nat \ {0} /\ r \in Nat
<1>1. IsFiniteSet(Rung) /\ Rung \subseteq Nat /\ RungSizes \subseteq Nat \ {0}
  BY LadderAssumption
<1>2. size \in [Rung -> RungSizes]
  BY DEF LadderTypeOK
<1>3. IsFiniteSet(rungs)
  BY <1>1, FS_Subset
<1> QED BY <1>1, <1>2, <1>3

\* Lots sums the sizes.
LEMMA LotsAreTotal ==
  ASSUME NEW rungs
  PROVE  Lots(rungs) = Total(size, rungs)
<1> DEFINE P(g) == g = [s \in SUBSET rungs |-> IF s = {} THEN 0 ELSE size[Pick(s)] + g[s \ {Pick(s)}]]
<1>1. \A g : P(g) <=> Sums(g, size, rungs)
  BY DEF Sums, Adds
<1>2. Lots(rungs) = (CHOOSE g : P(g))[rungs]
  BY Zenon DEF Lots, MapThenSumSet, MapThenFoldSet, Pick
<1> HIDE DEF P
<1>3. (CHOOSE g : P(g)) = (CHOOSE g : Sums(g, size, rungs))
  BY <1>1, Zenon
<1> QED BY <1>2, <1>3, Zenon DEF Total

\* A ladder of orders is for a lot at least, and so is each of its parts.
LEMMA LotsAreLots ==
  ASSUME LadderTypeOK, NEW rungs \in SUBSET Rung
  PROVE  /\ Lots(rungs) \in Nat
         /\ rungs # {} => Lots(rungs) \in Nat \ {0}
<1>1. IsFiniteSet(rungs) /\ \A r \in rungs : size[r] \in Nat \ {0}
  BY RungsAreLots
<1>2. \A r \in rungs : size[r] \in Nat
  BY <1>1
<1>3. Total(size, rungs) \in Nat /\ \A r \in rungs : size[r] <= Total(size, rungs)
  BY <1>1, <1>2, TotalNat
<1> QED BY <1>1, <1>3, LotsAreTotal

\* Which it is.
LEMMA AllocateSplits ==
  ASSUME NEW rungs, NEW total
  PROVE  Allocate(rungs, total) = Split(size, rungs, total)
<1> DEFINE p == Lots(rungs)
           b == [r \in rungs |-> (total * size[r]) \div p]
           fraction(m, r) == (total * size[r]) % m
           Ahead(m, q, r) == \/ fraction(m, q) > fraction(m, r)
                             \/ fraction(m, q) = fraction(m, r) /\ size[q] > size[r]
                             \/ fraction(m, q) = fraction(m, r) /\ size[q] = size[r] /\ q < r
           Alloc(m, t) == [r \in rungs |->
                             IF total <= 0 THEN 0
                             ELSE ((total * size[r]) \div m)
                                    + IF Cardinality({q \in rungs : Ahead(m, q, r)}) < total - t THEN 1 ELSE 0]
<1>1. p = Total(size, rungs)
  BY LotsAreTotal
<1>2. Allocate(rungs, total) = Alloc(p, MapThenSumSet(LAMBDA r : (total * size[r]) \div p, rungs))
  BY Zenon DEF Allocate
<1> HIDE DEF p
<1>3. MapThenSumSet(LAMBDA r : (total * size[r]) \div p, rungs) = Total(b, rungs)
  <2> DEFINE P(g) == g = [s \in SUBSET rungs |-> IF s = {} THEN 0
                                 ELSE ((total * size[Pick(s)]) \div p) + g[s \ {Pick(s)}]]
  <2>1. \A g : P(g) <=> Sums(g, b, rungs)
    <3>1. \A s \in SUBSET rungs : s # {} => Pick(s) \in rungs
      BY Picks
    <3>2. \A s \in SUBSET rungs : s # {} => b[Pick(s)] = (total * size[Pick(s)]) \div p
      BY <3>1
    <3> HIDE DEF b
    <3> QED BY <3>2 DEF Sums, Adds
  <2>2. MapThenSumSet(LAMBDA r : (total * size[r]) \div p, rungs) = (CHOOSE g : P(g))[rungs]
    BY Zenon DEF MapThenSumSet, MapThenFoldSet, Pick
  <2> HIDE DEF P
  <2>3. (CHOOSE g : P(g)) = (CHOOSE g : Sums(g, b, rungs))
    BY <2>1, Zenon
  <2> QED BY <2>2, <2>3, Zenon DEF Total
<1>4. Split(size, rungs, total) = Alloc(p, Total(b, rungs))
  <2> DEFINE z == Total(size, rungs)
             c == [r \in rungs |-> (total * size[r]) \div z]
  <2>1. Split(size, rungs, total)
          = [r \in rungs |->
               IF total <= 0 THEN 0
               ELSE c[r] + IF Cardinality({q \in rungs : Ahead(z, q, r)}) < total - Total(c, rungs) THEN 1 ELSE 0]
    BY Zenon DEF Split
  <2>2. \A r \in rungs : c[r] = (total * size[r]) \div z
    OBVIOUS
  <2> DEFINE t == Total(c, rungs)
  <2> HIDE DEF c, Ahead, t, z
  <2>3. Split(size, rungs, total) = Alloc(z, t)
    BY <2>1, <2>2 DEF t
  <2>4. z = p
    BY <1>1 DEF z
  <2>5. c = b
    BY <2>4 DEF c
  <2> HIDE DEF Alloc
  <2> QED BY <2>3, <2>4, <2>5 DEF t
<1> HIDE DEF b, Alloc
<1> QED BY <1>2, <1>3, <1>4

\* allocate_lots splits exactly, for the rungs of any ladder and any total: the
\* parts sum to the total, and each is its rung's fair part of it, rounded down or up.
THEOREM AllocatesTheTotal ==
  ASSUME LadderTypeOK, NEW rungs \in SUBSET Rung, rungs # {}, NEW total \in Nat
  PROVE  /\ Allocate(rungs, total) \in [rungs -> Nat]
         /\ Total(Allocate(rungs, total), rungs) = total
         /\ \A r \in rungs :
              /\ Allocate(rungs, total)[r] * Lots(rungs) < total * size[r] + Lots(rungs)
              /\ Allocate(rungs, total)[r] * Lots(rungs) > total * size[r] - Lots(rungs)
<1>1. IsFiniteSet(rungs) /\ rungs \subseteq Nat /\ \A r \in rungs : size[r] \in Nat \ {0}
  BY RungsAreLots
<1> DEFINE a == Split(size, rungs, total)
           p == Total(size, rungs)
<1>2. Allocate(rungs, total) = a /\ Lots(rungs) = p
  BY AllocateSplits, LotsAreTotal
<1> HIDE DEF p
<1>3. /\ a \in [rungs -> Nat]
      /\ Total(a, rungs) = total
      /\ \A r \in rungs : a[r] * p < total * size[r] + p /\ a[r] * p > total * size[r] - p
  <2> HIDE DEF a
  <2> QED BY <1>1, SplitsTheTotal DEF p, a
<1> QED BY <1>2, <1>3

\* The sizing gives numbers of lots.
LEMMA SharesAreLots ==
  /\ \A n \in Nat : FollowerShare(n) \in Nat
  /\ \A n \in Nat : RungLots(n) \in Nat
  /\ \A n, k, m \in Nat : CoverageTarget(n, k, m) \in Nat
<1>1. RatioNum \in Nat /\ RatioDen \in Nat \ {0}
  BY LadderAssumption
<1>2. ASSUME NEW n \in Nat PROVE FollowerShare(n) \in Nat
  <2> DEFINE k == n * RatioNum
  <2>1. k \in Nat
    BY <1>1, Z3
  <2> HIDE DEF k
  <2>2. -((-k) \div RatioDen) \in Nat
    BY <1>1, <2>1, Z3
  <2> QED BY <2>2 DEF FollowerShare, CeilDiv, k
<1>3. ASSUME NEW n \in Nat, NEW k \in Nat, NEW m \in Nat
      PROVE  CoverageTarget(n, k, m) \in Nat
  <2>1. CASE n = 0 \/ k = 0 \/ m = 0
    BY <2>1 DEF CoverageTarget
  <2>2. CASE n # 0 /\ k # 0 /\ m # 0
    <3> DEFINE t == n * Least(k, m)
               q == RoundDiv(t, m)
    <3>1. t \in Nat
      <4>1. Least(k, m) \in Nat
        BY DEF Least
      <4> QED BY <4>1, Z3
    <3> HIDE DEF t
    <3>2. q \in Nat
      <4>1. t \div m \in Nat
        BY <2>2, <3>1, Divides
      <4> QED BY <4>1 DEF RoundDiv
    <3> HIDE DEF q
    <3>3. CoverageTarget(n, k, m) = Least(n, Greatest(1, q))
      BY <2>2 DEF CoverageTarget, q, t
    <3> QED BY <3>2, <3>3 DEF Least, Greatest
  <2> QED BY <2>1, <2>2
<1> QED BY <1>2, <1>3 DEF RungLots, Greatest
-----------------------------------------------------------------------------
(* The invariant of the handler. *)

\* The type invariant, part by part.
MasterOK ==
  /\ mpos \in Nat /\ size \in [Rung -> RungSizes]
  /\ state \in [Rung -> {"none", "resting", "filled"}]
  /\ marked \subseteq Rung /\ due \subseteq Rung

\* The follower's part.
FollowerOK ==
  /\ held \in Nat /\ placed \in [Rung -> Nat] /\ open \in [Rung -> Nat]
  /\ \A r \in Rung : open[r] <= placed[r]

\* The handler's; only an exit asks for the position's sign, only an entry for the
\* cached one.
ReadsOK ==
  /\ mcache \in Nat \union {NoValue} /\ hcache \in Nat \union {NoValue}
  /\ pc \in {"idle", "signed", "book", "mpos", "settled", "held", "place"}
  /\ (pc = "signed" => Exit) /\ (pc = "held" => ~Exit)
  /\ cur \in Rung
  /\ read \in [book : (SUBSET Rung) \union {Unread}, mpos : Nat, filled : BOOLEAN,
               held : Nat, was : BOOLEAN]

\* The exits that rest are for no more than the position: when one fills, the
\* position does not turn.
Covered == Exit => Total(size, Resting) <= mpos

\* A rung that filled before its event was handled is known to have filled by the
\* time it is sized, when no read about it fails.
FilledIsSeen ==
  {"lag", "book", "order", "refused"} \intersect setting.faults = {} /\ read.was /\ pc # "idle" =>
    /\ state[cur] = "filled"
    /\ pc \in (IF Exit THEN {"settled", "place"} ELSE {"mpos", "settled", "held", "place"}) =>
         read.book # Unread /\ cur \notin read.book
    /\ pc \in {"held", "place"} => read.filled

\* A ladder that stands still rests whole, and the rung that is handled has no
\* mirror yet.
StillRests ==
  /\ marked = {} /\ due \subseteq setting.rungs
  /\ state = [r \in Rung |-> IF r \in setting.rungs THEN "resting" ELSE "none"]
  /\ pc # "idle" => cur \in setting.rungs /\ placed[cur] = 0

\* Whatever the handler has read is so: the whole ladder rests (but for the rung
\* itself, perhaps), and neither position has moved.
StillReads ==
  /\ pc \in (IF Exit THEN {"settled", "place"} ELSE {"mpos", "settled", "held", "place"}) =>
       read.book \in SUBSET Rung /\ read.book \union {cur} = setting.rungs
  /\ pc \in (IF Exit THEN {"book", "settled", "place"} ELSE {"settled", "held", "place"}) => read.mpos = mpos
  /\ pc \in {"held", "place"} => ~read.filled
  /\ pc \in (IF Exit THEN {"mpos", "book", "settled", "place"} ELSE {"place"}) => read.held = start

\* An exit finds the follower as he was at the start; so does an entry, although
\* mirrors fill, because the cache of the first read outlives the burst.
StillHeld ==
  IF Exit THEN held = start /\ held > 0
  ELSE /\ mcache \in {NoValue, mpos} /\ hcache \in {NoValue, start}
       /\ hcache = NoValue => held = start /\ placed = [r \in Rung |-> 0]
       /\ pc = "place" => hcache = start

\* What is asked of the ladder, and what it comes to for each rung.
Asks ==
  IF Exit THEN CoverageTarget(held, Total(size, setting.rungs), mpos)
          ELSE Greatest(0, FollowerShare(mpos + Total(size, setting.rungs)) - start)
ShareOf == Split(size, setting.rungs, Asks)

\* A mirror carries its rung's part of it, and every rung whose event has been
\* handled has one, unless that part is nothing.
StillShared ==
  \A r \in Rung :
    /\ placed[r] = 0 \/ (r \in setting.rungs /\ placed[r] = ShareOf[r])
    /\ r \in setting.rungs \ due /\ ~(pc # "idle" /\ cur = r) => placed[r] = ShareOf[r]

Still == StandsStill => StillRests /\ StillReads /\ StillHeld /\ StillShared

LadderInv ==
  /\ setting \in Ladders /\ start \in Nat
  /\ MasterOK /\ FollowerOK /\ ReadsOK /\ Covered /\ FilledIsSeen /\ Still

\* Which holds the type invariant.
LEMMA LadderInvTypes ==
  /\ LadderInv => LadderTypeOK
  /\ LadderInv => setting.rungs \in SUBSET Rung /\ setting.rungs # {} /\ setting.faults \in SUBSET Disturbances
                    /\ setting.exit \in BOOLEAN /\ setting.maxStart \in Nat
<1>1. LadderInv => LadderTypeOK
  BY DEF LadderInv, MasterOK, FollowerOK, ReadsOK, LadderTypeOK
<1>2. ASSUME setting \in Ladders
      PROVE  setting.rungs \in SUBSET Rung /\ setting.rungs # {} /\ setting.faults \in SUBSET Disturbances
                    /\ setting.exit \in BOOLEAN /\ setting.maxStart \in Nat
  <2>1. setting \in LadderScenario /\ setting.rungs # {}
    BY <1>2, LadderAssumption
  <2> HIDE DEF Disturbances
  <2> QED BY <2>1 DEF LadderScenario
<1> QED BY <1>1, <1>2 DEF LadderInv

\* What is asked is a number of lots, and the parts of it are theirs.
LEMMA AsksAreLots ==
  ASSUME LadderInv
  PROVE  /\ Asks \in Nat /\ ShareOf \in [setting.rungs -> Nat]
         /\ Total(ShareOf, setting.rungs) = Asks
         /\ Asked = Asks /\ Lots(setting.rungs) = Total(size, setting.rungs)
         /\ \A r \in setting.rungs :
              /\ ShareOf[r] * Lots(setting.rungs) < Asks * size[r] + Lots(setting.rungs)
              /\ ShareOf[r] * Lots(setting.rungs) > Asks * size[r] - Lots(setting.rungs)
<1>1. LadderTypeOK /\ setting.rungs \in SUBSET Rung /\ setting.rungs # {}
  BY LadderInvTypes
<1>2. Lots(setting.rungs) = Total(size, setting.rungs) /\ Total(size, setting.rungs) \in Nat
  BY <1>1, LotsAreTotal, LotsAreLots
<1>3. Asks \in Nat
  <2> DEFINE t == Total(size, setting.rungs)
  <2>1. held \in Nat /\ mpos \in Nat /\ start \in Nat /\ t \in Nat
    BY <1>1, <1>2 DEF LadderTypeOK
  <2> HIDE DEF t
  <2>2. CoverageTarget(held, t, mpos) \in Nat
    BY <2>1, SharesAreLots
  <2>3. Greatest(0, FollowerShare(mpos + t) - start) \in Nat
    <3>1. FollowerShare(mpos + t) \in Nat
      <4>1. mpos + t \in Nat
        BY <2>1
      <4> QED BY <4>1, SharesAreLots
    <3> QED BY <2>1, <3>1 DEF Greatest
  <2> QED BY <2>2, <2>3 DEF Asks, t
<1>4. ShareOf = Allocate(setting.rungs, Asks)
  BY AllocateSplits DEF ShareOf
<1>5. Asked = Asks
  BY <1>2, Zenon DEF Asked, Asks
<1> HIDE DEF Asks
<1> QED BY <1>1, <1>2, <1>3, <1>4, <1>5, AllocatesTheTotal
-----------------------------------------------------------------------------
(* Each step keeps it. *)

\* A ladder begins with nothing read and nothing placed.
LEMMA InitLadderInv == LadderInit => LadderInv
<1> SUFFICES ASSUME LadderInit PROVE LadderInv
  OBVIOUS
<1>1. setting \in Ladders /\ setting \in LadderScenario /\ setting.rungs # {}
  BY LadderAssumption DEF LadderInit
<1>2. setting.rungs \in SUBSET Rung /\ setting.maxStart \in Nat
  <2> HIDE DEF Disturbances
  <2> QED BY <1>1 DEF LadderScenario
<1>3. PICK first \in (IF Disturbed("grows") THEN SUBSET setting.rungs ELSE {setting.rungs}) :
        /\ state = [r \in Rung |-> IF r \in first THEN "resting" ELSE "none"]
        /\ due = first
  BY DEF LadderInit
<1>4. first \in SUBSET setting.rungs
  BY <1>3
<1>5. MasterOK
  <2>1. size \in [Rung -> RungSizes] /\ mpos \in Nat /\ marked = {}
    BY <1>2 DEF LadderInit
  <2>2. state \in [Rung -> {"none", "resting", "filled"}]
    BY <1>3
  <2> QED BY <1>2, <1>3, <1>4, <2>1, <2>2 DEF MasterOK
<1>6. FollowerOK
  BY <1>2 DEF LadderInit, FollowerOK
<1>7. ReadsOK
  <2>1. (CHOOSE r \in Rung : TRUE) \in Rung
    BY <1>1, <1>2
  <2> QED BY <2>1 DEF LadderInit, ReadsOK, NoRead, NoValue
<1>8. Covered
  <2> SUFFICES ASSUME Exit PROVE Total(size, Resting) <= mpos
    BY DEF Covered
  <2>1. Lots(setting.rungs) <= mpos /\ mpos \in Nat
    BY <1>2 DEF LadderInit
  <2>2. Resting = first
    BY <1>2, <1>3, <1>4 DEF Resting
  <2>3. IsFiniteSet(setting.rungs) /\ \A r \in setting.rungs : size[r] \in Nat
    <3>1. IsFiniteSet(Rung) /\ RungSizes \subseteq Nat /\ size \in [Rung -> RungSizes]
      BY <1>5, LadderAssumption DEF MasterOK
    <3> QED BY <1>2, <3>1, FS_Subset
  <2>4. Total(size, first) <= Total(size, setting.rungs)
    BY <1>4, <2>3, TotalGrows
  <2>5. Total(size, first) \in Nat /\ Total(size, setting.rungs) \in Nat
    <3>1. IsFiniteSet(first) /\ \A r \in first : size[r] \in Nat
      BY <1>4, <2>3, FS_Subset
    <3> QED BY <2>3, <3>1, TotalNat
  <2>6. Total(size, setting.rungs) <= mpos
    BY <2>1, LotsAreTotal
  <2> QED BY <2>1, <2>2, <2>4, <2>5, <2>6
<1>9. FilledIsSeen
  BY DEF LadderInit, FilledIsSeen
<1>10. Still
  <2> SUFFICES ASSUME StandsStill PROVE StillRests /\ StillReads /\ StillHeld /\ StillShared
    BY DEF Still
  <2>1. ~Disturbed("grows")
    BY DEF StandsStill, Disturbed
  <2>2. first = setting.rungs
    BY <1>3, <2>1
  <2>3. StillRests
    BY <1>3, <2>2 DEF LadderInit, StillRests
  <2>4. StillReads
    BY DEF LadderInit, StillReads
  <2>5. StillHeld
    <3>1. held \in Nat
      BY <1>6 DEF FollowerOK
    <3> QED BY <3>1 DEF LadderInit, StillHeld, Exit
  <2>6. StillShared
    BY <1>2, <1>3, <2>2 DEF LadderInit, StillShared
  <2> QED BY <2>3, <2>4, <2>5, <2>6
<1>11. start \in Nat
  BY <1>6 DEF FollowerOK, LadderInit
<1> QED BY <1>1, <1>5, <1>6, <1>7, <1>8, <1>9, <1>10, <1>11 DEF LadderInv

\* While neither the ladder nor the follower moves, what is asked stays.
LEMMA SharesStay ==
  ASSUME UNCHANGED <<setting, start, mpos, size>>, Exit => held' = held
  PROVE  ShareOf' = ShareOf /\ Asks' = Asks
BY DEF ShareOf, Asks, Exit

\* A step of the handler leaves the master alone.
LEMMA MasterStays ==
  ASSUME LadderInv, UNCHANGED <<setting, ladder>>, due' \in SUBSET Rung
  PROVE  MasterOK' /\ Covered' /\ (StandsStill' <=> StandsStill)
<1>1. MasterOK'
  BY DEF LadderInv, MasterOK, ladder
<1>2. Covered'
  BY DEF LadderInv, Covered, ladder, Resting, Exit
<1>3. StandsStill' <=> StandsStill
  BY DEF StandsStill, Exit
<1> QED BY <1>1, <1>2, <1>3

\* An event whose rung has its mirror is dropped; otherwise its rung is the one
\* that is handled.
LEMMA TakeStep ==
  ASSUME LadderInv, UNCHANGED <<setting, start>>, NEW r \in Rung, Take(r)
  PROVE  LadderInv'
<1>1. /\ pc = "idle" /\ r \in due /\ due' = due \ {r} /\ cur' = r
      /\ UNCHANGED <<ladder, mirror, caches>>
      /\ IF r \in Mapped THEN Return
         ELSE /\ read' = [NoRead EXCEPT !.was = state[r] = "filled"]
              /\ pc' = IF Exit THEN "signed" ELSE "book"
  BY DEF Take, Goto
<1>2. MasterOK' /\ Covered' /\ (StandsStill' <=> StandsStill)
  <2>1. due' \in SUBSET Rung
    BY <1>1 DEF LadderInv, MasterOK
  <2> QED BY <1>1, <2>1, MasterStays
<1>3. FollowerOK'
  BY <1>1 DEF LadderInv, FollowerOK, mirror
<1>4. ReadsOK'
  <2>1. [NoRead EXCEPT !.was = state[r] = "filled"]
          \in [book : (SUBSET Rung) \union {Unread}, mpos : Nat, filled : BOOLEAN, held : Nat, was : BOOLEAN]
    BY DEF NoRead
  <2>2. NoRead \in [book : (SUBSET Rung) \union {Unread}, mpos : Nat, filled : BOOLEAN, held : Nat, was : BOOLEAN]
    BY DEF NoRead
  <2> QED BY <1>1, <2>1, <2>2 DEF LadderInv, ReadsOK, Return, caches, Exit
<1>5. FilledIsSeen'
  BY <1>1 DEF FilledIsSeen, Return, NoRead, Exit, ladder
<1>6. Still'
  <2> SUFFICES ASSUME StandsStill PROVE StillRests' /\ StillReads' /\ StillHeld' /\ StillShared'
    BY <1>2 DEF Still
  <2>1. StillRests /\ StillReads /\ StillHeld /\ StillShared
    BY DEF LadderInv, Still
  <2>2. placed' = placed /\ placed \in [Rung -> Nat] /\ (pc' # "idle" => placed[r] = 0)
    BY <1>1 DEF LadderInv, FollowerOK, mirror, Mapped, Return
  <2>3. StillRests'
    BY <1>1, <2>1, <2>2 DEF StillRests, ladder
  <2>4. StillReads'
    BY <1>1 DEF StillReads, Return, Exit
  <2>5. StillHeld'
    BY <1>1, <2>1 DEF StillHeld, Return, Exit, ladder, mirror, caches
  <2>6. StillShared'
    <3>1. ShareOf' = ShareOf
      BY <1>1, SharesStay DEF ladder, mirror
    <3>2. pc' = "idle" => placed[r] # 0
      BY <1>1, <2>2 DEF Mapped
    <3> QED BY <1>1, <2>1, <2>2, <3>1, <3>2 DEF StillShared
  <2> QED BY <2>3, <2>4, <2>5, <2>6
<1> QED BY <1>2, <1>3, <1>4, <1>5, <1>6 DEF LadderInv

\* Between its first read and its last the handler changes what it has read, and
\* the caches.
LEMMA ReadingStep ==
  ASSUME LadderInv, UNCHANGED <<setting, start, ladder, due, mirror, cur>>,
         ReadsOK', FilledIsSeen', StandsStill => StillReads' /\ StillHeld',
         pc # "idle", StandsStill => pc' # "idle"
  PROVE  LadderInv'
<1>1. MasterOK' /\ Covered' /\ (StandsStill' <=> StandsStill)
  <2>1. due' \in SUBSET Rung
    BY DEF LadderInv, MasterOK
  <2> QED BY <2>1, MasterStays
<1>2. FollowerOK'
  BY DEF LadderInv, FollowerOK, mirror
<1>3. Still'
  <2> SUFFICES ASSUME StandsStill PROVE StillRests' /\ StillShared'
    BY <1>1 DEF Still
  <2>1. StillRests /\ StillShared
    BY DEF LadderInv, Still
  <2>2. StillRests'
    BY <2>1 DEF StillRests, ladder, mirror
  <2>3. StillShared'
    <3>1. ShareOf' = ShareOf
      BY SharesStay DEF ladder, mirror
    <3> QED BY <2>1, <3>1 DEF StillShared, mirror
  <2> QED BY <2>2, <2>3
<1> QED BY <1>1, <1>2, <1>3 DEF LadderInv

\* A read that cannot fail tells the truth.
LEMMA TrueOutcomes ==
  ASSUME NEW fault, NEW truth, NEW fallback
  PROVE  /\ \A o \in Outcomes(fault, truth, fallback) : o = truth \/ o = fallback
         /\ fault \notin setting.faults => \A o \in Outcomes(fault, truth, fallback) : o = truth
BY DEF Outcomes, Disturbed

\* What stands still leaves out.
LEMMA StillFaults ==
  ASSUME StandsStill
  PROVE  /\ setting.faults \intersect {"grows", "fills", "expiry", "book", "position", "order", "refused"} = {}
         /\ Exit => "mirrors" \notin setting.faults
         /\ ~Exit => "repeat" \notin setting.faults
BY DEF StandsStill

\* A follower who holds something is read to hold it, or the handler returns.
LEMMA ReadSignedStep ==
  ASSUME LadderInv, UNCHANGED <<setting, start>>, ReadSigned
  PROVE  LadderInv'
<1>1. PICK h \in Outcomes("position", held, 0) :
        IF h = 0 THEN Return ELSE read' = [read EXCEPT !.held = h] /\ pc' = "mpos"
  BY DEF ReadSigned, Goto
<1>2. pc = "signed" /\ UNCHANGED <<ladder, due, mirror, caches, cur>>
  BY DEF ReadSigned
<1>3. h \in Nat
  <2>1. held \in Nat
    BY DEF LadderInv, FollowerOK
  <2> QED BY <2>1, TrueOutcomes
<1>4. ReadsOK'
  <2>1. NoRead \in [book : (SUBSET Rung) \union {Unread}, mpos : Nat, filled : BOOLEAN, held : Nat, was : BOOLEAN]
    BY DEF NoRead
  <2> QED BY <1>1, <1>2, <1>3, <2>1 DEF LadderInv, ReadsOK, Return, caches, Exit
<1>5. FilledIsSeen'
  BY <1>1, <1>2 DEF LadderInv, FilledIsSeen, ReadsOK, Return, Exit, ladder
<1>6. ASSUME StandsStill
      PROVE  StillReads' /\ StillHeld' /\ pc' # "idle"
  <2>1. StillReads /\ StillHeld /\ Exit
    BY <1>2, <1>6 DEF LadderInv, Still, ReadsOK
  <2>2. h = held /\ h > 0 /\ held = start
    <3>1. h = held
      BY <1>6, StillFaults, TrueOutcomes
    <3> QED BY <2>1, <3>1 DEF StillHeld
  <2>3. read' = [read EXCEPT !.held = h] /\ pc' = "mpos"
    BY <1>1, <1>3, <2>2
  <2>4. read'.held = start
    BY <2>2, <2>3 DEF LadderInv, ReadsOK
  <2> QED BY <1>2, <2>1, <2>3, <2>4 DEF StillReads, StillHeld, Exit, mirror
<1> QED BY <1>2, <1>4, <1>5, <1>6, ReadingStep

\* The book that is read is what rests, without the rung or with it, or nothing.
LEMMA ReadBookStep ==
  ASSUME LadderInv, UNCHANGED <<setting, start>>, ReadBook
  PROVE  LadderInv'
<1>1. PICK book \in Listings :
        /\ read' = [read EXCEPT !.book = book]
        /\ pc' = IF Exit THEN "settled" ELSE IF book = Unread THEN "place" ELSE "mpos"
  BY DEF ReadBook, Goto
<1>2. pc = "book" /\ UNCHANGED <<ladder, due, mirror, caches, cur>>
  BY DEF ReadBook
<1>3. Resting \in SUBSET Rung /\ cur \in Rung
  BY DEF Resting, LadderInv, ReadsOK
<1>4. ReadsOK'
  <2>1. book \in (SUBSET Rung) \union {Unread}
    <3>1. book \in {Resting, Resting \ {cur}, Resting \union {cur}, Unread, {}}
      BY DEF Listings, Disturbed
    <3>2. /\ Resting \in SUBSET Rung /\ Resting \ {cur} \in SUBSET Rung
          /\ Resting \union {cur} \in SUBSET Rung /\ {} \in SUBSET Rung
      BY <1>3
    <3> QED BY <3>1, <3>2, Zenon
  <2> QED BY <1>1, <1>2, <2>1 DEF LadderInv, ReadsOK, caches, Exit
<1>5. FilledIsSeen'
  <2> SUFFICES ASSUME {"lag", "book", "order", "refused"} \intersect setting.faults = {}, read.was
               PROVE  state[cur] = "filled" /\ book # Unread /\ cur \notin book
                      /\ pc' \notin {"held", "place"} /\ read'.book = book
    <3>1. read'.was = read.was
      BY <1>1 DEF LadderInv, ReadsOK
    <3> QED BY <1>1, <1>2, <3>1 DEF FilledIsSeen, Exit, ladder
  <2>1. state[cur] = "filled"
    BY <1>2 DEF LadderInv, FilledIsSeen
  <2>2. book = Resting
    BY <1>1 DEF Listings, Disturbed
  <2>3. book # Unread
    <3>1. NoValue \notin Rung
      BY LadderAssumption DEF NoValue
    <3> QED BY <1>3, <2>2, <3>1 DEF Unread
  <2>4. cur \notin book
    BY <2>1, <2>2 DEF Resting
  <2>5. read'.book = book
    BY <1>1 DEF LadderInv, ReadsOK
  <2> QED BY <1>1, <2>1, <2>3, <2>4, <2>5
<1>6. ASSUME StandsStill
      PROVE  StillReads' /\ StillHeld' /\ pc' # "idle"
  <2>1. StillReads /\ StillHeld /\ StillRests
    BY <1>6 DEF LadderInv, Still
  <2>2. Resting = setting.rungs /\ cur \in setting.rungs
    <3>1. setting.rungs \in SUBSET Rung
      BY LadderInvTypes
    <3> QED BY <1>2, <2>1, <3>1 DEF StillRests, Resting
  <2>3. book \in SUBSET Rung /\ book \union {cur} = setting.rungs
    <3>1. "book" \notin setting.faults
      BY <1>6, StillFaults
    <3>2. book \in {Resting, Resting \ {cur}, Resting \union {cur}}
      BY <3>1 DEF Listings, Disturbed
    <3> QED BY <1>3, <2>2, <3>2
  <2>4. book # Unread
    <3>1. NoValue \notin Rung
      BY LadderAssumption DEF NoValue
    <3> QED BY <2>3, <3>1 DEF Unread
  <2>5. /\ read'.book = book /\ read'.mpos = read.mpos /\ read'.held = read.held
        /\ pc' = IF Exit THEN "settled" ELSE "mpos"
    BY <1>1, <2>4 DEF LadderInv, ReadsOK
  <2>6. StillReads'
    BY <1>2, <2>1, <2>3, <2>5 DEF StillReads, Exit, ladder
  <2>7. StillHeld'
    BY <1>2, <2>1, <2>5 DEF StillHeld, Exit, ladder, mirror, caches
  <2> QED BY <2>5, <2>6, <2>7
<1> QED BY <1>2, <1>4, <1>5, <1>6, ReadingStep

\* The position that is read is the master's, the cached one, or nothing.
LEMMA ReadPositionStep ==
  ASSUME LadderInv, UNCHANGED <<setting, start>>, ReadPosition
  PROVE  LadderInv'
<1>1. PICK m \in (IF ~Exit /\ mcache # NoValue THEN {mcache} ELSE Outcomes("position", mpos, 0)) :
        read' = [read EXCEPT !.mpos = m] /\ mcache' = IF Exit THEN mcache ELSE m
  BY DEF ReadPosition
<1>2. /\ pc = "mpos" /\ pc' = (IF Exit THEN "book" ELSE "settled")
      /\ UNCHANGED <<ladder, due, mirror, hcache, cur>>
  BY DEF ReadPosition, Goto
<1>3. m \in Nat
  <2>1. mpos \in Nat /\ mcache \in Nat \union {NoValue}
    BY DEF LadderInv, MasterOK, ReadsOK
  <2> QED BY <1>1, <2>1, TrueOutcomes
<1>4. /\ read'.mpos = m /\ read'.book = read.book /\ read'.held = read.held
      /\ read'.filled = read.filled /\ read'.was = read.was
  BY <1>1 DEF LadderInv, ReadsOK
<1>5. ReadsOK'
  <2>1. mcache' \in Nat \union {NoValue} /\ hcache' \in Nat \union {NoValue}
    BY <1>1, <1>2, <1>3 DEF LadderInv, ReadsOK
  <2>2. read' \in [book : (SUBSET Rung) \union {Unread}, mpos : Nat, filled : BOOLEAN, held : Nat, was : BOOLEAN]
    BY <1>1, <1>3 DEF LadderInv, ReadsOK
  <2>3. pc' \in {"book", "settled"} /\ cur' \in Rung
    BY <1>2 DEF LadderInv, ReadsOK
  <2> QED BY <2>1, <2>2, <2>3 DEF ReadsOK
<1>6. FilledIsSeen'
  BY <1>2, <1>4 DEF LadderInv, FilledIsSeen, Exit, ladder
<1>7. ASSUME StandsStill
      PROVE  StillReads' /\ StillHeld' /\ pc' # "idle"
  <2>1. StillReads /\ StillHeld
    BY <1>7 DEF LadderInv, Still
  <2>2. m = mpos
    <3>1. "position" \notin setting.faults
      BY <1>7, StillFaults
    <3>2. ~Exit => mcache \in {NoValue, mpos}
      BY <2>1 DEF StillHeld
    <3> QED BY <3>1, <3>2, TrueOutcomes
  <2>3. StillReads'
    BY <1>2, <1>4, <2>1, <2>2 DEF StillReads, Exit, ladder
  <2>4. StillHeld'
    BY <1>1, <1>2, <2>1, <2>2 DEF StillHeld, Exit, ladder, mirror
  <2> QED BY <1>2, <2>3, <2>4
<1> QED BY <1>2, <1>5, <1>6, <1>7, ReadingStep

\* A rung that filled, and is not in the book, is found to have filled; one that
\* rests, and is in no mark, is not.
LEMMA SettledStep ==
  ASSUME LadderInv, UNCHANGED <<setting, start>>, Settled
  PROVE  LadderInv'
<1>1. PICK done \in Outcomes("order", state[cur] = "filled", FALSE) :
        read' = [read EXCEPT !.filled =
                   cur \in marked \/ ((read.book = Unread \/ cur \notin read.book) /\ done)]
  BY DEF Settled
<1>2. /\ pc = "settled" /\ pc' = (IF Exit THEN "place" ELSE "held")
      /\ UNCHANGED <<ladder, due, mirror, caches, cur>>
  BY DEF Settled, Goto
<1>3. done = FALSE \/ done = (state[cur] = "filled")
  BY TrueOutcomes
<1> DEFINE seen == cur \in marked \/ ((read.book = Unread \/ cur \notin read.book) /\ done)
<1>4. seen \in BOOLEAN
  BY <1>3
<1>5. read' = [read EXCEPT !.filled = seen]
  BY <1>1
<1>6. seen <=> cur \in marked \/ ((read.book = Unread \/ cur \notin read.book) /\ done)
  OBVIOUS
<1> HIDE DEF seen
<1>7. /\ read'.mpos = read.mpos /\ read'.book = read.book /\ read'.held = read.held
      /\ read'.filled = seen /\ read'.was = read.was
  BY <1>5 DEF LadderInv, ReadsOK
<1>8. ReadsOK'
  <2>1. read' \in [book : (SUBSET Rung) \union {Unread}, mpos : Nat, filled : BOOLEAN, held : Nat, was : BOOLEAN]
    BY <1>4, <1>5 DEF LadderInv, ReadsOK
  <2> QED BY <1>2, <2>1 DEF LadderInv, ReadsOK, caches, Exit
<1>9. FilledIsSeen'
  <2> SUFFICES ASSUME {"lag", "book", "order", "refused"} \intersect setting.faults = {}, read.was
               PROVE  state[cur] = "filled" /\ seen /\ read.book # Unread /\ cur \notin read.book
    BY <1>2, <1>7 DEF FilledIsSeen, Exit, ladder
  <2>1. state[cur] = "filled" /\ read.book # Unread /\ cur \notin read.book
    BY <1>2 DEF LadderInv, FilledIsSeen
  <2>2. done
    <3>1. "order" \notin setting.faults
      OBVIOUS
    <3>2. done = (state[cur] = "filled")
      BY <3>1, TrueOutcomes
    <3> QED BY <2>1, <3>2
  <2> QED BY <1>6, <2>1, <2>2
<1>10. ASSUME StandsStill
       PROVE  StillReads' /\ StillHeld' /\ pc' # "idle"
  <2>1. StillReads /\ StillHeld /\ StillRests
    BY <1>10 DEF LadderInv, Still
  <2>2. ~seen
    <3>1. cur \notin marked /\ cur \in setting.rungs /\ cur \in Rung
      BY <1>2, <2>1 DEF StillRests, LadderInv, ReadsOK
    <3>2. state[cur] # "filled"
      BY <2>1, <3>1 DEF StillRests
    <3> QED BY <1>3, <1>6, <3>1, <3>2
  <2>3. StillReads'
    BY <1>2, <1>7, <2>1, <2>2 DEF StillReads, Exit, ladder
  <2>4. StillHeld'
    <3>1. pc' # "place" \/ Exit
      BY <1>2
    <3> QED BY <1>2, <2>1, <3>1 DEF StillHeld, Exit, ladder, mirror, caches
  <2> QED BY <1>2, <2>3, <2>4
<1> QED BY <1>2, <1>8, <1>9, <1>10, ReadingStep

\* What the follower is read to hold is what he holds, what he held when it was
\* cached, or nothing.
LEMMA ReadHeldStep ==
  ASSUME LadderInv, UNCHANGED <<setting, start>>, ReadHeld
  PROVE  LadderInv'
<1>1. PICK h \in (IF hcache # NoValue THEN {hcache} ELSE Outcomes("position", held, 0)) :
        read' = [read EXCEPT !.held = h] /\ hcache' = h
  BY DEF ReadHeld
<1>2. /\ pc = "held" /\ pc' = "place" /\ UNCHANGED <<ladder, due, mirror, mcache, cur>>
  BY DEF ReadHeld, Goto
<1>3. h \in Nat
  <2>1. held \in Nat /\ hcache \in Nat \union {NoValue}
    BY DEF LadderInv, FollowerOK, ReadsOK
  <2> QED BY <1>1, <2>1, TrueOutcomes
<1>4. /\ read'.mpos = read.mpos /\ read'.book = read.book /\ read'.held = h
      /\ read'.filled = read.filled /\ read'.was = read.was
  BY <1>1 DEF LadderInv, ReadsOK
<1>5. ReadsOK' /\ ~Exit
  <2>1. read' \in [book : (SUBSET Rung) \union {Unread}, mpos : Nat, filled : BOOLEAN, held : Nat, was : BOOLEAN]
    BY <1>1, <1>3 DEF LadderInv, ReadsOK
  <2> QED BY <1>1, <1>2, <1>3, <2>1 DEF LadderInv, ReadsOK, Exit
<1>6. FilledIsSeen'
  BY <1>2, <1>4, <1>5 DEF LadderInv, FilledIsSeen, Exit, ladder
<1>7. ASSUME StandsStill
      PROVE  StillReads' /\ StillHeld' /\ pc' # "idle"
  <2>1. StillReads /\ StillHeld
    BY <1>7 DEF LadderInv, Still
  <2>2. h = start
    <3>1. "position" \notin setting.faults
      BY <1>7, StillFaults
    <3>2. hcache \in {NoValue, start} /\ (hcache = NoValue => held = start)
      BY <1>5, <2>1 DEF StillHeld
    <3> QED BY <3>1, <3>2, TrueOutcomes
  <2>3. StillReads'
    BY <1>2, <1>4, <1>5, <2>1, <2>2 DEF StillReads, Exit, ladder
  <2>4. StillHeld'
    <3>1. h # NoValue
      BY <1>3 DEF NoValue
    <3> QED BY <1>1, <1>2, <1>5, <2>1, <2>2, <3>1 DEF StillHeld, Exit, ladder, mirror
  <2> QED BY <1>2, <2>3, <2>4
<1> QED BY <1>2, <1>5, <1>6, <1>7, ReadingStep

\* The lots of an order are a whole number.
LEMMA SizedInLots ==
  ASSUME LadderInv
  PROVE  EntryLots \in Int /\ ExitLots \in Int
<1>1. LadderTypeOK /\ cur \in Rung
  BY LadderInvTypes DEF LadderTypeOK
<1>2. /\ read.mpos \in Nat /\ read.held \in Nat /\ size[cur] \in Nat
      /\ read.book \in SUBSET Rung \/ read.book = Unread
  <2>1. size[cur] \in Nat
    BY <1>1, RungsAreLots
  <2> QED BY <2>1 DEF LadderInv, ReadsOK
<1>3. FollowerShare(read.mpos) \in Nat /\ RungLots(size[cur]) \in Nat
  BY <1>2, SharesAreLots
<1>4. FollowerShare(Greatest(0, read.mpos - size[cur])) \in Nat
  <2>1. Greatest(0, read.mpos - size[cur]) \in Nat
    BY <1>2 DEF Greatest
  <2> QED BY <2>1, SharesAreLots
<1>5. ASSUME read.book # Unread
      PROVE  LET rungs == read.book \union {cur}
             IN  /\ Allocate(rungs, Greatest(0, FollowerShare(read.mpos + Lots(rungs)) - read.held))[cur] \in Nat
                 /\ Allocate(rungs, CoverageTarget(read.held, Lots(rungs), read.mpos))[cur] \in Nat
  <2> DEFINE rungs == read.book \union {cur}
  <2>1. rungs \in SUBSET Rung /\ rungs # {} /\ cur \in rungs
    BY <1>1, <1>2, <1>5
  <2> HIDE DEF rungs
  <2>2. Lots(rungs) \in Nat
    BY <1>1, <2>1, LotsAreLots
  <2>3. Greatest(0, FollowerShare(read.mpos + Lots(rungs)) - read.held) \in Nat
    <3>1. FollowerShare(read.mpos + Lots(rungs)) \in Nat
      <4>1. read.mpos + Lots(rungs) \in Nat
        BY <1>2, <2>2
      <4> QED BY <4>1, SharesAreLots
    <3> QED BY <1>2, <3>1 DEF Greatest
  <2>4. CoverageTarget(read.held, Lots(rungs), read.mpos) \in Nat
    BY <1>2, <2>2, SharesAreLots
  <2>5. ASSUME NEW n \in Nat PROVE Allocate(rungs, n)[cur] \in Nat
    <3>1. Allocate(rungs, n) \in [rungs -> Nat]
      BY <1>1, <2>1, AllocatesTheTotal
    <3> QED BY <2>1, <3>1
  <2> QED BY <2>3, <2>4, <2>5 DEF rungs
<1>6. EntryLots \in Int
  <2>1. CASE read.book = Unread
    BY <1>3, <2>1 DEF EntryLots
  <2>2. CASE read.book # Unread /\ read.filled
    BY <1>2, <1>3, <2>2 DEF EntryLots, Greatest
  <2>3. CASE read.book # Unread /\ ~read.filled
    BY <1>5, <2>3 DEF EntryLots
  <2> QED BY <2>1, <2>2, <2>3
<1>7. ExitLots \in Int
  <2>1. CASE read.filled
    BY <1>2, <1>3, <2>1 DEF ExitLots, Greatest
  <2>2. CASE read.book = Unread /\ ~read.filled
    BY <1>2, <1>4, <2>2 DEF ExitLots, Least
  <2>3. CASE read.book # Unread /\ ~read.filled
    BY <1>5, <2>3 DEF ExitLots
  <2> QED BY <2>1, <2>2, <2>3
<1> QED BY <1>6, <1>7

\* On a ladder that stands still the rung is sized to its part of the whole.
LEMMA SizedToItsPart ==
  ASSUME LadderInv, StandsStill, pc = "place"
  PROVE  (IF Exit THEN ExitLots ELSE EntryLots) = ShareOf[cur]
<1>1. StillReads /\ StillRests /\ StillHeld
  BY DEF LadderInv, Still
<1>2. /\ read.book \in SUBSET Rung /\ read.book \union {cur} = setting.rungs
      /\ read.mpos = mpos /\ read.held = start /\ ~read.filled
  BY <1>1 DEF StillReads
<1>3. read.book # Unread
  <2>1. NoValue \notin Rung
    BY LadderAssumption DEF NoValue
  <2> QED BY <1>2, <2>1 DEF Unread
<1>4. Lots(setting.rungs) = Total(size, setting.rungs)
  BY LotsAreTotal
<1>5. CASE Exit
  <2>1. ExitLots = Allocate(setting.rungs, CoverageTarget(start, Lots(setting.rungs), mpos))[cur]
    BY <1>2, <1>3, Zenon DEF ExitLots
  <2>2. CoverageTarget(start, Lots(setting.rungs), mpos) = Asks
    BY <1>1, <1>4, <1>5 DEF Asks, StillHeld
  <2> HIDE DEF Asks
  <2>3. Allocate(setting.rungs, Asks) = ShareOf
    BY AllocateSplits DEF ShareOf
  <2> QED BY <1>5, <2>1, <2>2, <2>3
<1>6. CASE ~Exit
  <2>1. EntryLots = Allocate(setting.rungs, Greatest(0, FollowerShare(mpos + Lots(setting.rungs)) - start))[cur]
    BY <1>2, <1>3, Zenon DEF EntryLots
  <2>2. Greatest(0, FollowerShare(mpos + Lots(setting.rungs)) - start) = Asks
    BY <1>4, <1>6 DEF Asks
  <2>3. Allocate(setting.rungs, Asks) = ShareOf
    BY AllocateSplits DEF ShareOf
  <2> QED BY <1>6, <2>1, <2>2, <2>3
<1> QED BY <1>5, <1>6

\* The rung gets its mirror, unless it asks for nothing or the exchange refuses.
LEMMA PlaceStep ==
  ASSUME LadderInv, UNCHANGED <<setting, start>>, Place
  PROVE  LadderInv'
<1> DEFINE lots == IF Exit THEN ExitLots ELSE EntryLots
<1>1. /\ pc = "place" /\ pc' = "idle" /\ read' = NoRead
      /\ UNCHANGED <<ladder, due, held, caches, cur>>
  BY DEF Place, Return
<1>2. \/ lots >= 1 /\ placed' = [placed EXCEPT ![cur] = lots] /\ open' = [open EXCEPT ![cur] = lots]
      \/ (lots < 1 \/ Disturbed("refused")) /\ UNCHANGED <<placed, open>>
  BY DEF Place
<1>3. lots \in Int
  BY SizedInLots
<1>4. StandsStill => lots = ShareOf[cur]
  BY <1>1, SizedToItsPart
<1> HIDE DEF lots
<1>5. MasterOK' /\ Covered' /\ (StandsStill' <=> StandsStill)
  <2>1. due' \in SUBSET Rung
    BY <1>1 DEF LadderInv, MasterOK
  <2> QED BY <1>1, <2>1, MasterStays
<1>6. cur \in Rung /\ placed \in [Rung -> Nat]
  BY DEF LadderInv, ReadsOK, FollowerOK
<1>7. FollowerOK'
  BY <1>1, <1>2, <1>3, <1>6 DEF LadderInv, FollowerOK
<1>8. ReadsOK'
  <2>1. NoRead \in [book : (SUBSET Rung) \union {Unread}, mpos : Nat, filled : BOOLEAN, held : Nat, was : BOOLEAN]
    BY DEF NoRead
  <2> QED BY <1>1, <2>1 DEF LadderInv, ReadsOK, caches
<1>9. FilledIsSeen'
  BY <1>1 DEF FilledIsSeen
<1>10. Still'
  <2> SUFFICES ASSUME StandsStill PROVE StillRests' /\ StillReads' /\ StillHeld' /\ StillShared'
    BY <1>5 DEF Still
  <2>1. StillRests /\ StillReads /\ StillHeld /\ StillShared
    BY DEF LadderInv, Still
  <2>2. StillRests'
    BY <1>1, <2>1 DEF StillRests, ladder
  <2>3. StillReads'
    BY <1>1 DEF StillReads
  <2>4. StillHeld'
    <3>1. ~Exit => hcache # NoValue
      <4>1. start \in Nat
        BY DEF LadderInv
      <4> QED BY <1>1, <2>1, <4>1 DEF StillHeld, NoValue
    <3> QED BY <1>1, <2>1, <3>1 DEF StillHeld, Exit, ladder, caches
  <2>5. StillShared'
    <3>1. ShareOf' = ShareOf
      BY <1>1, SharesStay DEF ladder
    <3>2. cur \in setting.rungs /\ placed[cur] = 0 /\ ~Disturbed("refused")
      BY <1>1, <2>1, StillFaults DEF StillRests, Disturbed
    <3>3. ShareOf[cur] \in Nat /\ lots = ShareOf[cur]
      BY <1>4, <3>2, AsksAreLots
    <3>4. placed'[cur] = ShareOf[cur] /\ \A r \in Rung : r # cur => placed'[r] = placed[r]
      BY <1>2, <1>6, <3>2, <3>3
    <3>5. ASSUME NEW r \in Rung
          PROVE  /\ placed'[r] = 0 \/ (r \in setting'.rungs /\ placed'[r] = ShareOf'[r])
                 /\ r \in setting'.rungs \ due' /\ ~(pc' # "idle" /\ cur' = r) => placed'[r] = ShareOf'[r]
      <4>1. CASE r = cur
        BY <3>1, <3>2, <3>4, <4>1
      <4>2. CASE r # cur
        BY <1>1, <2>1, <3>1, <3>4, <4>2 DEF StillShared
      <4> QED BY <4>1, <4>2
    <3> QED BY <3>5 DEF StillShared
  <2> QED BY <2>2, <2>3, <2>4, <2>5
<1> QED BY <1>5, <1>7, <1>8, <1>9, <1>10 DEF LadderInv

\* Nothing the master or the clock does is part of a ladder that stands still,
\* and none of it touches the follower or what has been read.
LEMMA MasterStep ==
  ASSUME LadderInv, UNCHANGED <<setting, start, mirror, handler>>, ~StandsStill,
         MasterOK', Covered', ReadsOK',
         \A r \in Rung : state[r] = "filled" => state'[r] = "filled"
  PROVE  LadderInv'
<1>1. FollowerOK'
  BY DEF LadderInv, FollowerOK, mirror
<1>2. FilledIsSeen'
  <2>1. cur \in Rung
    BY DEF LadderInv, ReadsOK
  <2> QED BY <2>1 DEF LadderInv, FilledIsSeen, handler, Exit
<1>3. ~StandsStill'
  BY DEF StandsStill, Exit
<1> QED BY <1>1, <1>2, <1>3 DEF LadderInv, Still

\* A new exit is for no more than what is left of the position.
LEMMA MasterAddsStep ==
  ASSUME LadderInv, UNCHANGED <<setting, start>>, NEW r \in Rung, MasterAdds(r)
  PROVE  LadderInv'
<1>1. /\ Disturbed("grows") /\ r \in setting.rungs /\ state[r] = "none"
      /\ Exit => Lots(Resting) + size[r] <= mpos
      /\ state' = [state EXCEPT ![r] = "resting"]
      /\ due' = due \union {r}
      /\ UNCHANGED <<mpos, size, marked, mirror, caches, handler>>
  BY DEF MasterAdds
<1>2. ~StandsStill
  BY <1>1, StillFaults DEF Disturbed
<1>3. MasterOK'
  BY <1>1 DEF LadderInv, MasterOK
<1>4. ReadsOK'
  BY <1>1 DEF LadderInv, ReadsOK, caches, handler, Exit
<1>5. Covered'
  <2>1. Resting' = Resting \union {r} /\ r \notin Resting /\ Resting \in SUBSET Rung
    BY <1>1 DEF Resting, LadderInv, MasterOK
  <2>2. IsFiniteSet(Rung) /\ \A q \in Rung : size[q] \in Int
    <3>1. LadderTypeOK
      BY LadderInvTypes
    <3> QED BY <3>1, RungsAreLots
  <2>3. Total(size, Resting \union {r}) = size[r] + Total(size, Resting) /\ Total(size, Resting) \in Int
    BY <2>1, <2>2, TotalWith
  <2>4. Lots(Resting) = Total(size, Resting)
    BY LotsAreTotal
  <2>5. size[r] \in Int /\ mpos \in Nat
    BY <2>2 DEF LadderInv, MasterOK
  <2>6. Exit => Total(size, Resting \union {r}) <= mpos
    BY <1>1, <2>3, <2>4, <2>5
  <2> QED BY <1>1, <2>1, <2>6 DEF Covered, Exit
<1>6. \A q \in Rung : state[q] = "filled" => state'[q] = "filled"
  BY <1>1 DEF LadderInv, MasterOK
<1> QED BY <1>1, <1>2, <1>3, <1>4, <1>5, <1>6, MasterStep

\* A fill of an exit takes what it covered off the position.
LEMMA MasterFillsStep ==
  ASSUME LadderInv, UNCHANGED <<setting, start>>, NEW r \in Rung, MasterFills(r)
  PROVE  LadderInv'
<1>1. /\ Disturbed("fills") /\ state[r] = "resting"
      /\ state' = [state EXCEPT ![r] = "filled"]
      /\ mpos' = IF Exit THEN mpos - size[r] ELSE mpos + size[r]
      /\ UNCHANGED <<size, marked, due, mirror, caches, handler>>
  BY DEF MasterFills
<1>2. ~StandsStill
  BY <1>1, StillFaults DEF Disturbed
<1>3. Resting' = Resting \ {r} /\ r \in Resting /\ Resting \in SUBSET Rung
  BY <1>1 DEF Resting, LadderInv, MasterOK
<1>4. IsFiniteSet(Rung) /\ \A q \in Rung : size[q] \in Nat
  <2>1. LadderTypeOK
    BY LadderInvTypes
  <2> QED BY <2>1, RungsAreLots
<1>5. /\ Total(size, Resting) = size[r] + Total(size, Resting \ {r})
      /\ Total(size, Resting \ {r}) \in Nat
  <2>1. IsFiniteSet(Resting) /\ \A q \in Resting : size[q] \in Int
    BY <1>3, <1>4, FS_Subset
  <2>2. Total(size, Resting) = size[r] + Total(size, Resting \ {r})
    BY <1>3, <2>1, TotalAny
  <2>3. IsFiniteSet(Resting \ {r}) /\ \A q \in Resting \ {r} : size[q] \in Nat
    BY <1>3, <1>4, FS_Subset
  <2>4. Total(size, Resting \ {r}) \in Nat
    <3> DEFINE rest == Resting \ {r}
    <3> HIDE DEF rest
    <3> QED BY <2>3, TotalNat DEF rest
  <2> QED BY <2>2, <2>4
<1>6. mpos' \in Nat /\ (Exit => Total(size, Resting \ {r}) <= mpos')
  <2> DEFINE rest == Total(size, Resting \ {r})
  <2>1. /\ mpos \in Nat /\ size[r] \in Nat /\ rest \in Nat
        /\ Exit => size[r] + rest <= mpos
    BY <1>4, <1>5 DEF LadderInv, MasterOK, Covered
  <2> HIDE DEF rest
  <2>2. mpos' \in Nat /\ (Exit => rest <= mpos')
    BY <1>1, <2>1
  <2> QED BY <2>2 DEF rest
<1>7. MasterOK'
  BY <1>1, <1>6 DEF LadderInv, MasterOK
<1>8. Covered'
  BY <1>1, <1>3, <1>6 DEF Covered, Exit
<1>9. ReadsOK'
  BY <1>1 DEF LadderInv, ReadsOK, caches, handler, Exit
<1>10. \A q \in Rung : state[q] = "filled" => state'[q] = "filled"
  BY <1>1 DEF LadderInv, MasterOK
<1> QED BY <1>1, <1>2, <1>7, <1>8, <1>9, <1>10, MasterStep

\* Nothing is marked that did not fill.
LEMMA MarkStep ==
  ASSUME LadderInv, UNCHANGED <<setting, start>>, NEW r \in Rung, Mark(r)
  PROVE  LadderInv'
<1>1. /\ state[r] = "filled" /\ marked' = marked \union {r}
      /\ UNCHANGED <<mpos, size, state, due, mirror, caches, handler>>
  BY DEF Mark
<1>2. ~StandsStill
  <2>1. StillRests => state[r] # "filled"
    BY DEF StillRests
  <2> QED BY <1>1, <2>1 DEF LadderInv, Still
<1>3. MasterOK'
  BY <1>1 DEF LadderInv, MasterOK
<1>4. Covered'
  BY <1>1 DEF LadderInv, Covered, Resting, Exit
<1>5. ReadsOK'
  BY <1>1 DEF LadderInv, ReadsOK, caches, handler, Exit
<1> QED BY <1>1, <1>2, <1>3, <1>4, <1>5, MasterStep

\* The caches do not run out while a ladder is handled that stands still.
LEMMA CacheExpiresStep ==
  ASSUME LadderInv, UNCHANGED <<setting, start>>, CacheExpires
  PROVE  LadderInv'
<1>1. /\ Disturbed("expiry") /\ UNCHANGED <<ladder, due, mirror, handler>>
      /\ mcache' \in {mcache, NoValue} /\ hcache' \in {hcache, NoValue}
  BY DEF CacheExpires
<1>2. ~StandsStill
  BY <1>1, StillFaults DEF Disturbed
<1>3. MasterOK' /\ Covered'
  <2>1. due' \in SUBSET Rung
    BY <1>1 DEF LadderInv, MasterOK
  <2> QED BY <1>1, <2>1, MasterStays
<1>4. ReadsOK'
  BY <1>1 DEF LadderInv, ReadsOK, handler, Exit
<1> QED BY <1>1, <1>2, <1>3, <1>4, MasterStep DEF ladder

\* A mirror that fills, of an entry, was sized after the follower was read; those
\* of exits that stand still do not fill.
LEMMA MirrorFillsStep ==
  ASSUME LadderInv, UNCHANGED <<setting, start>>, NEW r \in Rung, MirrorFills(r)
  PROVE  LadderInv'
<1>1. Disturbed("mirrors") /\ UNCHANGED <<ladder, due, placed, caches, handler>>
  BY DEF MirrorFills
<1>2. PICK n \in 1 .. (IF Exit THEN Least(open[r], held) ELSE open[r]) :
        /\ open' = [open EXCEPT ![r] = @ - n]
        /\ held' = IF Exit THEN held - n ELSE held + n
  BY DEF MirrorFills
<1>3. held \in Nat /\ open \in [Rung -> Nat] /\ placed \in [Rung -> Nat] /\ open[r] <= placed[r]
  BY DEF LadderInv, FollowerOK
<1>4. /\ n \in Nat \ {0} /\ n <= open[r] /\ (Exit => n <= held)
  <2>1. open[r] \in Nat
    BY <1>3
  <2> QED BY <1>2, <1>3, <2>1 DEF Least
<1>5. FollowerOK'
  <2>1. held' \in Nat
    BY <1>2, <1>3, <1>4
  <2>2. open' \in [Rung -> Nat] /\ \A q \in Rung : open'[q] <= open[q]
    BY <1>2, <1>3, <1>4
  <2> QED BY <1>1, <1>3, <2>1, <2>2 DEF LadderInv, FollowerOK
<1>6. MasterOK' /\ Covered' /\ (StandsStill' <=> StandsStill)
  <2>1. due' \in SUBSET Rung
    BY <1>1 DEF LadderInv, MasterOK
  <2> QED BY <1>1, <2>1, MasterStays
<1>7. ReadsOK' /\ FilledIsSeen'
  BY <1>1 DEF LadderInv, ReadsOK, FilledIsSeen, caches, handler, Exit, ladder
<1>8. Still'
  <2> SUFFICES ASSUME StandsStill PROVE StillRests' /\ StillReads' /\ StillHeld' /\ StillShared'
    BY <1>6 DEF Still
  <2>1. StillRests /\ StillReads /\ StillHeld /\ StillShared
    BY DEF LadderInv, Still
  <2>2. ~Exit
    BY <1>1, StillFaults DEF Disturbed
  <2>3. StillRests' /\ StillReads'
    BY <1>1, <2>1 DEF StillRests, StillReads, ladder, handler, Exit
  <2>4. hcache # NoValue
    <3>1. placed[r] # 0
      BY <1>3, <1>4
    <3> QED BY <2>1, <2>2, <3>1 DEF StillHeld
  <2>5. StillHeld'
    BY <1>1, <2>1, <2>2, <2>4 DEF StillHeld, Exit, ladder, caches, handler
  <2>6. StillShared'
    <3>1. ShareOf' = ShareOf
      BY <1>1, <2>2, SharesStay DEF ladder
    <3> QED BY <1>1, <2>1, <3>1 DEF StillShared, handler
  <2> QED BY <2>3, <2>5, <2>6
<1> QED BY <1>5, <1>6, <1>7, <1>8 DEF LadderInv

\* An event that is pushed again waits for the lock like the first.
LEMMA RepushStep ==
  ASSUME LadderInv, UNCHANGED <<setting, start>>, NEW r \in Rung, Repush(r)
  PROVE  LadderInv'
<1>1. /\ state[r] = "resting" /\ due' = due \union {r}
      /\ UNCHANGED <<ladder, mirror, caches, handler>>
  BY DEF Repush
<1>2. MasterOK' /\ Covered' /\ (StandsStill' <=> StandsStill)
  <2>1. due' \in SUBSET Rung
    BY <1>1 DEF LadderInv, MasterOK
  <2> QED BY <1>1, <2>1, MasterStays
<1>3. FollowerOK' /\ ReadsOK' /\ FilledIsSeen'
  BY <1>1 DEF LadderInv, FollowerOK, ReadsOK, FilledIsSeen, caches, handler, mirror, Exit, ladder
<1>4. Still'
  <2> SUFFICES ASSUME StandsStill PROVE StillRests' /\ StillReads' /\ StillHeld' /\ StillShared'
    BY <1>2 DEF Still
  <2>1. StillRests /\ StillReads /\ StillHeld /\ StillShared
    BY DEF LadderInv, Still
  <2>2. StillRests'
    BY <1>1, <2>1 DEF StillRests, ladder, mirror, handler
  <2>3. StillReads' /\ StillHeld'
    BY <1>1, <2>1 DEF StillReads, StillHeld, Exit, ladder, mirror, caches, handler
  <2>4. StillShared'
    <3>1. ShareOf' = ShareOf
      BY <1>1, SharesStay DEF ladder, mirror
    <3> QED BY <1>1, <2>1, <3>1 DEF StillShared, handler, mirror
  <2> QED BY <2>2, <2>3, <2>4
<1> QED BY <1>2, <1>3, <1>4 DEF LadderInv

\* The invariant holds.
LEMMA LadderInvariance == LadderSpec => []LadderInv
<1>1. LadderInit => LadderInv
  BY InitLadderInv
<1>2. LadderInv /\ [LadderNext]_ladderVars => LadderInv'
  <2> SUFFICES ASSUME LadderInv, [LadderNext]_ladderVars PROVE LadderInv'
    OBVIOUS
  <2>1. CASE LadderNext
    <3>1. UNCHANGED <<setting, start>> /\ (Handle \/ World)
      BY <2>1 DEF LadderNext
    <3>2. CASE Handle
      BY <3>1, <3>2, TakeStep, ReadSignedStep, ReadBookStep, ReadPositionStep, SettledStep,
         ReadHeldStep, PlaceStep DEF Handle
    <3>3. CASE World
      BY <3>1, <3>3, MasterAddsStep, MasterFillsStep, MarkStep, MirrorFillsStep, RepushStep,
         CacheExpiresStep DEF World
    <3> QED BY <3>1, <3>2, <3>3
  <2>2. CASE UNCHANGED ladderVars
    <3>1. UNCHANGED <<setting, start, ladder, due, mirror, caches, handler>>
      BY <2>2 DEF ladderVars
    <3>2. MasterOK' /\ Covered' /\ (StandsStill' <=> StandsStill)
      <4>1. due' \in SUBSET Rung
        BY <3>1 DEF LadderInv, MasterOK
      <4> QED BY <3>1, <4>1, MasterStays
    <3>3. FollowerOK' /\ ReadsOK' /\ FilledIsSeen'
      BY <3>1 DEF LadderInv, FollowerOK, ReadsOK, FilledIsSeen, caches, handler, mirror, Exit, ladder
    <3>4. ShareOf' = ShareOf
      BY <3>1, SharesStay DEF ladder, mirror
    <3>5. StandsStill => StillRests' /\ StillReads' /\ StillHeld' /\ StillShared'
      BY <3>1, <3>4 DEF LadderInv, Still, StillRests, StillReads, StillHeld, StillShared, Exit,
                        ladder, mirror, caches, handler
    <3> QED BY <3>1, <3>2, <3>3, <3>5 DEF LadderInv, Still
  <2> QED BY <2>1, <2>2
<1> QED BY <1>1, <1>2, PTL DEF LadderSpec
-----------------------------------------------------------------------------
(* What holds of ladders. *)

\* The master's position and the follower's stay numbers of lots, no mirror rests
\* with more than was placed, and every order that is placed is a whole number of
\* lots: for any ladders, at any ratio, whatever is read and whatever fails.
THEOREM LadderTypeCorrect == LadderSpec => []LadderTypeOK
<1>1. LadderInv => LadderTypeOK
  BY LadderInvTypes
<1> QED BY <1>1, LadderInvariance, PTL

\* Once each rung of a ladder that stands still has been handled, in any order and
\* each from reads of its own, the mirrors together carry what the whole ladder
\* asks for, and each carries its own part of it, rounded down or up.
THEOREM LadderIsSplit == LadderSpec => []SplitFairly
<1>1. ASSUME LadderInv PROVE SplitFairly
  <2> SUFFICES ASSUME StandsStill, Handled
               PROVE  /\ MapThenSumSet(LAMBDA r : placed[r], Rung) = Asked
                      /\ \A r \in setting.rungs :
                           /\ placed[r] * Lots(setting.rungs) < Asked * size[r] + Lots(setting.rungs)
                           /\ placed[r] * Lots(setting.rungs) > Asked * size[r] - Lots(setting.rungs)
    BY Zenon DEF SplitFairly
  <2>1. StillShared
    BY <1>1 DEF LadderInv, Still
  <2>2. setting.rungs \in SUBSET Rung /\ IsFiniteSet(Rung) /\ IsFiniteSet(setting.rungs)
    BY <1>1, LadderInvTypes, LadderAssumption, FS_Subset
  <2>3. \A r \in setting.rungs : placed[r] = ShareOf[r]
    BY <2>1, <2>2 DEF StillShared, Handled
  <2>4. \A r \in Rung : placed[r] \in Int /\ (r \notin setting.rungs => placed[r] = 0)
    BY <1>1, <2>1 DEF StillShared, LadderInv, FollowerOK
  <2>5. Total(placed, Rung) = Total(placed, setting.rungs)
    BY <2>2, <2>4, TotalOfPart
  <2>6. Total(placed, setting.rungs) = Total(ShareOf, setting.rungs)
    <3>1. \A r \in setting.rungs : placed[r] \in Int /\ placed[r] = ShareOf[r]
      BY <2>2, <2>3, <2>4
    <3> QED BY <2>2, <3>1, TotalSame
  <2>7. MapThenSumSet(LAMBDA r : placed[r], Rung) = Total(placed, Rung)
    <3> DEFINE P(g) == g = [s \in SUBSET Rung |-> IF s = {} THEN 0 ELSE placed[Pick(s)] + g[s \ {Pick(s)}]]
    <3>1. \A g : P(g) <=> Sums(g, placed, Rung)
      BY DEF Sums, Adds
    <3>2. MapThenSumSet(LAMBDA r : placed[r], Rung) = (CHOOSE g : P(g))[Rung]
      BY Zenon DEF MapThenSumSet, MapThenFoldSet, Pick
    <3> HIDE DEF P
    <3>3. (CHOOSE g : P(g)) = (CHOOSE g : Sums(g, placed, Rung))
      BY <3>1, Zenon
    <3> QED BY <3>2, <3>3, Zenon DEF Total
  <2> QED BY <1>1, <2>3, <2>5, <2>6, <2>7, AsksAreLots
<1> QED BY <1>1, LadderInvariance, PTL

\* A rung that filled before its event was handled is sized to bring the follower
\* to his share of the position the master is read to hold, by the one step that
\* places its mirror.
THEOREM FilledRungIsSized == LadderSpec => FilledReachesShare
<1> DEFINE Reaches ==
      pc = "place" /\ pc' = "idle" /\ read.was /\ {"lag", "book", "order", "refused"} \intersect setting.faults = {} =>
        IF Exit THEN read.held - placed'[cur] <= FollowerShare(read.mpos)
                ELSE read.held + placed'[cur] >= FollowerShare(read.mpos)
<1>1. LadderInv /\ [LadderNext]_ladderVars => [Reaches]_ladderVars
  <2> SUFFICES ASSUME LadderInv, LadderNext, pc = "place", pc' = "idle", read.was,
                      {"lag", "book", "order", "refused"} \intersect setting.faults = {}
               PROVE  IF Exit THEN read.held - placed'[cur] <= FollowerShare(read.mpos)
                              ELSE read.held + placed'[cur] >= FollowerShare(read.mpos)
    BY Zenon
  <2>1. Place
    <3>1. ~World
      <4>1. World => pc' = pc
        BY DEF World, MasterAdds, MasterFills, Mark, MirrorFills, Repush, CacheExpires, handler
      <4> QED BY <4>1
    <3>2. Handle
      BY <3>1 DEF LadderNext
    <3> QED BY <3>2 DEF Handle, Take, ReadSigned, ReadBook, ReadPosition, Settled, ReadHeld
  <2>2. read.filled /\ read.book # Unread
    BY DEF LadderInv, FilledIsSeen
  <2> DEFINE share == FollowerShare(read.mpos)
             lots == IF Exit THEN ExitLots ELSE EntryLots
  <2>3. read.held \in Nat /\ read.mpos \in Nat /\ cur \in Rung /\ placed \in [Rung -> Nat]
    BY DEF LadderInv, ReadsOK, FollowerOK
  <2>4. share \in Nat
    BY <2>3, SharesAreLots
  <2>5. lots = IF Exit THEN Greatest(0, read.held - share) ELSE Greatest(0, share - read.held)
    BY <2>2, Zenon DEF ExitLots, EntryLots
  <2>6. \/ lots >= 1 /\ placed'[cur] = lots
        \/ lots < 1 /\ placed'[cur] \in Nat
    <3>1. ~Disturbed("refused")
      BY DEF Disturbed
    <3>2. \/ lots >= 1 /\ placed' = [placed EXCEPT ![cur] = lots]
          \/ lots < 1 /\ placed' = placed
      BY <2>1, <3>1 DEF Place
    <3> HIDE DEF lots
    <3> QED BY <2>3, <3>2
  <2> HIDE DEF lots, share
  <2>7. CASE Exit
    <3>1. lots \in Nat /\ read.held - share <= lots
      BY <2>3, <2>4, <2>5, <2>7 DEF Greatest
    <3> QED BY <2>3, <2>4, <2>6, <2>7, <3>1 DEF share
  <2>8. CASE ~Exit
    <3>1. lots \in Nat /\ share - read.held <= lots
      BY <2>3, <2>4, <2>5, <2>8 DEF Greatest
    <3> QED BY <2>3, <2>4, <2>6, <2>8, <3>1 DEF share
  <2> QED BY <2>7, <2>8
<1>2. LadderSpec => [][Reaches]_ladderVars
  <2> HIDE DEF Reaches
  <2> QED BY <1>1, LadderInvariance, PTL DEF LadderSpec
<1> QED BY <1>2 DEF FilledReachesShare
-----------------------------------------------------------------------------
(* The reports. *)

\* What the engine placed, and the leg that says so.
Linked ==
  /\ \A j \in DOMAIN copies :
       /\ copies[j].side = orders[copies[j].for].side
       /\ legs[copies[j].for].status # "waiting"
  /\ \A j, k \in DOMAIN copies : copies[j].for = copies[k].for => j = k
  /\ \A i \in DOMAIN legs : legs[i].copy # None => copies[legs[i].copy].for = i

\* On a day when nothing is late an order is copied when it is placed.
OnTime ==
  ~Fault("late") =>
    /\ \A i \in DOMAIN orders : legs[i].status = "waiting" => orders[i].at = now
    /\ \A j \in DOMAIN copies : copies[j].at = orders[copies[j].for].at

\* On a day when every leg is written each copy has its link.
Recorded ==
  ~Fault("unrecorded") =>
    \A j \in DOMAIN copies : legs[copies[j].for].copy = j /\ legs[copies[j].for].named

\* No row claims an order of the other side.
Claimed ==
  \A k \in DOMAIN pairs : pairs[k] # None => copies[pairs[k]].side = orders[k].side

\* The only order of its side.
Lone(i) == Rungs(i) = {i}

\* There is a link to follow, or nobody to mistake the copy for.
Tells(i) == ~Fault("unrecorded") \/ (~Fault("late") /\ Lone(i))

\* The row of such an order claims its copy.
Found ==
  ~Fault("unreadable") =>
    \A j \in DOMAIN copies :
      LET i == copies[j].for IN i \in DOMAIN pairs /\ Tells(i) => pairs[i] = j

\* Nor does fill_compare miss the copy of an order, when both filled and the leg
\* is there to say so.
FoundFills ==
  ~Fault("unreadable") /\ ~Fault("unrecorded") =>
    \A j \in DOMAIN copies :
      LET i == copies[j].for
      IN  i \in DOMAIN fills /\ orders[i].filled > 0 /\ copies[j].filled > 0 => fills[i] = j

DayInv == TypeOK /\ Linked /\ OnTime /\ Recorded /\ Claimed /\ Found /\ FoundFills
-----------------------------------------------------------------------------
(* The types. *)

Order == [side : Sides, size : Sizes, filled : Nat, at : 0 .. MaxTime, state : States]
CopyOf(is) == [side : Sides, size : Nat, filled : Nat, at : 0 .. MaxTime, state : States, for : is]
LegTo(js) == [status : Statuses, copy : {None} \union js, named : BOOLEAN]

ClockOK  == scene \in Scenarios /\ now \in 0 .. MaxTime
OrdersOK == orders \in Seq(Order) /\ Len(orders) <= scene.most
CopiesOK == copies \in Seq(CopyOf(DOMAIN orders))
LegsOK   == legs \in Seq(LegTo(DOMAIN copies)) /\ Len(legs) = Len(orders)
RowsOK   ==
  /\ rows \in 0 .. Len(orders) + 1
  /\ \A s \in {pairs, fills} :
       s \in Seq({None} \union DOMAIN copies) /\ Len(s) = (IF rows = 0 THEN 0 ELSE rows - 1)

\* The type invariant, part by part.
LEMMA TypeParts ==
  /\ TypeOK <=> ClockOK /\ OrdersOK /\ CopiesOK /\ LegsOK /\ RowsOK
  /\ ClockOK' /\ OrdersOK' /\ CopiesOK' /\ LegsOK' /\ RowsOK' => TypeOK'
BY Zenon DEF TypeOK, ClockOK, OrdersOK, CopiesOK, LegsOK, RowsOK, Order, CopyOf, LegTo

\* What the orders, the copies and the legs are made of.
LEMMA Fields ==
  ASSUME TypeOK
  PROVE  /\ Len(orders) \in Nat /\ Len(copies) \in Nat
         /\ DOMAIN orders = 1 .. Len(orders)
         /\ DOMAIN copies = 1 .. Len(copies)
         /\ DOMAIN legs = DOMAIN orders
         /\ \A i \in DOMAIN orders : orders[i] \in Order /\ legs[i] \in LegTo(DOMAIN copies)
         /\ \A j \in DOMAIN copies : copies[j] \in CopyOf(DOMAIN orders)
<1>1. OrdersOK /\ CopiesOK /\ LegsOK
  BY TypeParts
<1>2. /\ Len(orders) \in Nat /\ DOMAIN orders = 1 .. Len(orders)
      /\ \A i \in DOMAIN orders : orders[i] \in Order
  BY <1>1 DEF OrdersOK
<1>3. /\ Len(copies) \in Nat /\ DOMAIN copies = 1 .. Len(copies)
      /\ \A j \in DOMAIN copies : copies[j] \in CopyOf(DOMAIN orders)
  BY <1>1 DEF CopiesOK
<1>4. /\ DOMAIN legs = 1 .. Len(orders)
      /\ \A i \in DOMAIN legs : legs[i] \in LegTo(DOMAIN copies)
  BY <1>1 DEF LegsOK
<1> QED BY <1>2, <1>3, <1>4
-----------------------------------------------------------------------------
(* The nearest of several. *)

\* Of those that a measure makes least there is a first.
LEMMA LeastByMeasure ==
  ASSUME NEW S \in SUBSET Nat, S # {}, NEW m \in [S -> Nat]
  PROVE  \E j \in S : \A k \in S : m[j] < m[k] \/ (m[j] = m[k] /\ j <= k)
<1>1. PICK g \in {m[j] : j \in S} : \A h \in {m[j] : j \in S} : g <= h
  <2>1. {m[j] : j \in S} \in SUBSET Nat /\ {m[j] : j \in S} # {}
    OBVIOUS
  <2> QED BY <2>1, HasLeast
<1>2. PICK j \in {k \in S : m[k] = g} : \A k \in {k \in S : m[k] = g} : j <= k
  <2>1. {k \in S : m[k] = g} \in SUBSET Nat /\ {k \in S : m[k] = g} # {}
    BY <1>1
  <2> QED BY <2>1, HasLeast
<1>3. ASSUME NEW k \in S
      PROVE  m[j] < m[k] \/ (m[j] = m[k] /\ j <= k)
  <2>1. m[j] = g /\ g <= m[k] /\ g \in Nat /\ m[k] \in Nat
    BY <1>1, <1>2
  <2>2. CASE m[k] = g
    BY <1>2, <2>1, <2>2
  <2>3. CASE m[k] # g
    BY <2>1, <2>3
  <2> QED BY <2>2, <2>3
<1> QED BY <1>2, <1>3

\* The orders Infer chooses among.
Near(i, candidates, taken, window) ==
  {j \in candidates \ taken : copies[j].side = orders[i].side /\ Gap(i, j) <= window}

\* Infer claims one of them when there is one, and nothing otherwise.
LEMMA InfersTheNearest ==
  ASSUME TypeOK, NEW i \in DOMAIN orders, NEW candidates \in SUBSET DOMAIN copies,
         NEW taken, NEW window
  PROVE  LET j == Infer(i, candidates, taken, window)
             near == Near(i, candidates, taken, window)
         IN  IF near = {} THEN j = None ELSE j \in near
<1> DEFINE near == Near(i, candidates, taken, window)
           Nearer(j, k) == Gap(i, j) < Gap(i, k) \/ (Gap(i, j) = Gap(i, k) /\ j <= k)
<1>1. Infer(i, candidates, taken, window)
        = IF near = {} THEN None ELSE CHOOSE j \in near : \A k \in near : Nearer(j, k)
  BY DEF Infer, Near
<1>2. near \in SUBSET Nat /\ near \subseteq DOMAIN copies
  BY Fields DEF Near
<1>3. \A j \in near : Gap(i, j) \in Nat
  <2> TAKE j \in near
  <2>1. orders[i].at \in Int /\ copies[j].at \in Int
    BY <1>2, Fields, ComparisonAssumption DEF Order, CopyOf
  <2> QED BY <2>1 DEF Gap, Abs
<1> HIDE DEF near
<1>4. ASSUME near # {}
      PROVE  \E j \in near : \A k \in near : Nearer(j, k)
  <2> DEFINE gap == [j \in near |-> Gap(i, j)]
  <2>1. gap \in [near -> Nat]
    BY <1>3
  <2>2. \A j \in near : gap[j] = Gap(i, j)
    OBVIOUS
  <2> HIDE DEF gap
  <2>3. \E j \in near : \A k \in near : gap[j] < gap[k] \/ (gap[j] = gap[k] /\ j <= k)
    BY <1>2, <1>4, <2>1, LeastByMeasure
  <2> QED BY <2>2, <2>3
<1>5. CASE near = {}
  BY <1>1, <1>5 DEF near
<1>6. CASE near # {}
  <2> HIDE DEF Nearer
  <2>1. (CHOOSE j \in near : \A k \in near : Nearer(j, k)) \in near
    BY <1>4, <1>6, Zenon
  <2> QED BY <1>1, <1>6, <2>1 DEF near
<1> QED BY <1>5, <1>6

\* A row claims the link it has among the candidates, or infers one of its side.
LEMMA PairsUp ==
  ASSUME TypeOK, Linked, NEW i \in DOMAIN orders, NEW candidates \in SUBSET DOMAIN copies,
         NEW taken, NEW window
  PROVE  LET j == Pair(i, candidates, taken, window)
         IN  /\ j # None => j \in DOMAIN copies /\ copies[j].side = orders[i].side
             /\ j \in {None} \union DOMAIN copies
<1> DEFINE j == Pair(i, candidates, taken, window)
<1>1. CASE LegOf(i).copy \in candidates
  <2>1. j = LegOf(i).copy /\ j \in DOMAIN copies
    BY <1>1 DEF Pair
  <2>2. i \in DOMAIN legs /\ j # None
    BY <2>1, Fields DEF None
  <2>3. LegOf(i) = legs[i]
    BY <2>1, <2>2 DEF LegOf, Leg
  <2>4. copies[j].for = i
    BY <2>1, <2>2, <2>3 DEF Linked
  <2> QED BY <2>1, <2>4 DEF Linked
<1>2. CASE LegOf(i).copy \notin candidates
  <2>1. j = Infer(i, candidates, taken, window)
    BY <1>2 DEF Pair
  <2>2. j = None \/ j \in Near(i, candidates, taken, window)
    BY <2>1, InfersTheNearest
  <2> QED BY <2>2 DEF Near
<1> QED BY <1>1, <1>2
-----------------------------------------------------------------------------
(* The invariant. *)

\* Before the reports read no row is written.
LEMMA NoRows ==
  ASSUME TypeOK, rows = 0
  PROVE  pairs = <<>> /\ fills = <<>>
<1>1. \A s \in {pairs, fills} : s \in Seq({None} \union DOMAIN copies) /\ Len(s) = 0
  BY TypeParts DEF RowsOK
<1> QED BY <1>1

\* Nor is any when the day goes on.
LEMMA StillNoRows ==
  ASSUME TypeOK, OrdersOK', rows = 0, UNCHANGED Report
  PROVE  RowsOK' /\ Claimed' /\ Found' /\ FoundFills'
<1>1. rows' = 0 /\ pairs' = <<>> /\ fills' = <<>>
  BY NoRows DEF Report
<1>2. RowsOK'
  <2>1. Len(orders') \in Nat
    BY DEF OrdersOK
  <2>2. /\ <<>> \in Seq({None} \union DOMAIN copies')
        /\ Len(<<>>) = 0
    OBVIOUS
  <2>3. rows' \in 0 .. Len(orders') + 1
    BY <1>1, <2>1
  <2> QED BY <1>1, <2>2, <2>3 DEF RowsOK
<1>3. Claimed' /\ Found' /\ FoundFills'
  <2>1. DOMAIN pairs' = {} /\ DOMAIN fills' = {}
    BY <1>1
  <2> QED BY <2>1 DEF Claimed, Found, FoundFills
<1> QED BY <1>2, <1>3

\* The day begins with nothing to report.
LEMMA InitDayInv == Init => DayInv
<1> SUFFICES ASSUME Init PROVE DayInv
  OBVIOUS
<1>1. /\ now = 0 /\ rows = 0 /\ scene \in Scenarios
      /\ orders = <<>> /\ copies = <<>> /\ legs = <<>> /\ pairs = <<>> /\ fills = <<>>
  BY DEF Init
<1>2. MaxTime \in Nat /\ scene.most \in Nat
  BY <1>1, ComparisonAssumption DEF Scenario
<1>3. ClockOK
  BY <1>1, <1>2 DEF ClockOK
<1>4. OrdersOK /\ CopiesOK /\ LegsOK
  BY <1>1, <1>2 DEF OrdersOK, CopiesOK, LegsOK
<1>5. RowsOK
  BY <1>1 DEF RowsOK
<1>6. DOMAIN orders = {} /\ DOMAIN copies = {} /\ DOMAIN legs = {} /\ DOMAIN pairs = {}
      /\ DOMAIN fills = {}
  BY <1>1
<1>7. Linked /\ OnTime /\ Recorded /\ Claimed /\ Found /\ FoundFills
  BY <1>6 DEF Linked, OnTime, Recorded, Claimed, Found, FoundFills
<1> QED BY <1>3, <1>4, <1>5, <1>7, TypeParts DEF DayInv

\* When nothing is late, time passes only once the orders have been handled.
LEMMA TickStep ==
  ASSUME DayInv, Tick
  PROVE  DayInv'
<1>1. /\ rows = 0 /\ now' = now + 1 /\ now < MaxTime /\ UNCHANGED <<scene, orders, copies, legs>>
      /\ UNCHANGED Report
      /\ Fault("late") \/ \A i \in DOMAIN legs : legs[i].status # "waiting"
  BY DEF Tick, Working
<1>2. TypeOK /\ ClockOK /\ OrdersOK /\ CopiesOK /\ LegsOK
  BY TypeParts DEF DayInv
<1>3. ClockOK'
  BY <1>1, <1>2, ComparisonAssumption DEF ClockOK
<1>4. OrdersOK' /\ CopiesOK' /\ LegsOK'
  BY <1>1, <1>2 DEF OrdersOK, CopiesOK, LegsOK
<1>5. RowsOK' /\ Claimed' /\ Found' /\ FoundFills'
  BY <1>1, <1>2, <1>4, StillNoRows
<1>6. Linked' /\ Recorded'
  BY <1>1 DEF DayInv, Linked, Recorded, Fault
<1>7. OnTime'
  BY <1>1, <1>2, Fields DEF DayInv, OnTime, Fault
<1> QED BY <1>3, <1>4, <1>5, <1>6, <1>7, TypeParts DEF DayInv

\* A new order waits for its copy, and nothing is the copy of it yet.
LEMMA MasterPlacesStep ==
  ASSUME DayInv, MasterPlaces
  PROVE  DayInv'
<1>1. PICK side \in Sides, lots \in Sizes :
        orders' = Append(orders, [side |-> side, size |-> lots, filled |-> 0, at |-> now, state |-> "open"])
  BY DEF MasterPlaces
<1> DEFINE o == [side |-> side, size |-> lots, filled |-> 0, at |-> now, state |-> "open"]
           l == Leg("waiting", None, FALSE)
           n == Len(orders) + 1
<1>2. /\ rows = 0 /\ Len(orders) < scene.most /\ UNCHANGED <<scene, now, copies>>
      /\ UNCHANGED Report
      /\ legs' = Append(legs, l)
  BY DEF MasterPlaces, Working
<1>3. TypeOK /\ ClockOK /\ OrdersOK /\ CopiesOK /\ LegsOK
  BY TypeParts DEF DayInv
<1>4. o \in Order /\ l \in LegTo(DOMAIN copies)
  BY <1>3 DEF Order, LegTo, ClockOK, Leg, States, Statuses
<1>5. ClockOK'
  BY <1>2, <1>3 DEF ClockOK
<1>6. OrdersOK'
  <2>1. scene.most \in Nat
    BY <1>3, ComparisonAssumption DEF ClockOK, Scenario
  <2> HIDE DEF o
  <2> QED BY <1>1, <1>2, <1>3, <1>4, <2>1 DEF OrdersOK, o
<1>7. /\ Len(orders') = n /\ DOMAIN orders' = 1 .. n
      /\ DOMAIN orders \subseteq DOMAIN orders' /\ n \notin DOMAIN orders
      /\ orders'[n] = o /\ \A i \in DOMAIN orders : orders'[i] = orders[i]
  BY <1>1, <1>3 DEF OrdersOK
<1>8. /\ DOMAIN legs' = 1 .. n /\ Len(legs') = n
      /\ legs'[n] = l /\ \A i \in DOMAIN orders : legs'[i] = legs[i]
  <2>1. DOMAIN orders = 1 .. Len(orders) /\ Len(orders) \in Nat
    BY <1>3 DEF OrdersOK
  <2>2. legs \in Seq(LegTo(DOMAIN copies)) /\ Len(legs) = Len(orders)
    BY <1>3 DEF LegsOK
  <2> HIDE DEF l
  <2> QED BY <1>2, <2>1, <2>2
<1>9. \A i \in DOMAIN orders' : i = n \/ i \in DOMAIN orders
  BY <1>7, Fields, <1>3
<1> HIDE DEF o, l, n
<1>10. CopiesOK'
  <2>1. CopyOf(DOMAIN orders) \subseteq CopyOf(DOMAIN orders')
    BY <1>7 DEF CopyOf
  <2>2. \A S, T : S \subseteq T => Seq(S) \subseteq Seq(T)
    OBVIOUS
  <2> QED BY <1>2, <1>3, <2>1, <2>2 DEF CopiesOK
<1>11. LegsOK'
  <2>1. legs' \in Seq(LegTo(DOMAIN copies))
    BY <1>2, <1>3, <1>4 DEF LegsOK
  <2> QED BY <1>2, <1>7, <1>8, <2>1 DEF LegsOK
<1>12. RowsOK' /\ Claimed' /\ Found' /\ FoundFills'
  BY <1>2, <1>3, <1>6, StillNoRows
<1>13. \A j \in DOMAIN copies : copies[j].for \in DOMAIN orders
  BY <1>3, Fields DEF CopyOf
<1>14. Linked' /\ Recorded'
  <2>1. l.status = "waiting" /\ l.copy = None
    BY DEF l, Leg
  <2>2. \A i \in DOMAIN legs' : legs'[i].copy # None => i \in DOMAIN legs /\ legs'[i] = legs[i]
    BY <1>3, <1>7, <1>8, <1>9, <2>1, Fields
  <2> QED BY <1>2, <1>7, <1>8, <1>13, <2>2 DEF DayInv, Linked, Recorded, Fault
<1>15. OnTime'
  <2>1. o.at = now
    BY DEF o
  <2> QED BY <1>2, <1>7, <1>8, <1>9, <1>13, <2>1 DEF DayInv, OnTime, Fault
<1> QED BY <1>5, <1>6, <1>10, <1>11, <1>12, <1>14, <1>15, TypeParts DEF DayInv

\* The share of an order is a number of lots.
LEMMA ShareOfOrder ==
  ASSUME TypeOK, NEW i \in DOMAIN orders
  PROVE  Share(orders[i].size) \in Nat
<1>1. orders[i] \in Order
  BY Fields
<1>2. orders[i].size \in Nat
  BY <1>1, ComparisonAssumption DEF Order
<1> QED BY <1>2, SharesRoundUp

\* The new copy is its order's, and its leg says so unless the write is lost.
LEMMA CopyStep ==
  ASSUME DayInv, NEW i \in DOMAIN orders, Copy(i)
  PROVE  DayInv'
<1> DEFINE n == Len(copies) + 1
<1>1. TypeOK /\ ClockOK /\ OrdersOK /\ CopiesOK /\ LegsOK
  BY TypeParts DEF DayInv
<1>2. /\ rows = 0 /\ legs[i].status = "waiting" /\ UNCHANGED <<scene, now, orders>>
      /\ UNCHANGED Report
  BY DEF Copy, Working
<1>3. PICK lots \in {Share(orders[i].size), 2 * Share(orders[i].size)} :
        copies' = Append(copies, [side |-> orders[i].side, size |-> lots, filled |-> 0, at |-> now,
                                  state |-> "open", for |-> i])
  BY DEF Copy
<1> DEFINE c == [side |-> orders[i].side, size |-> lots, filled |-> 0, at |-> now,
                 state |-> "open", for |-> i]
<1>4. c \in CopyOf(DOMAIN orders)
  <2>1. orders[i] \in Order
    BY <1>1, Fields
  <2>2. orders[i].side \in Sides /\ orders[i].size \in Nat
    BY <2>1, ComparisonAssumption DEF Order
  <2>3. lots \in Nat
    BY <2>2, SharesRoundUp
  <2>4. now \in 0 .. MaxTime
    BY <1>1 DEF ClockOK
  <2> QED BY <2>2, <2>3, <2>4 DEF CopyOf, States
<1>5. c.side = orders[i].side /\ c.at = now /\ c.for = i
  OBVIOUS
<1>6. copies' = Append(copies, c)
  BY <1>3
<1> HIDE DEF c
<1>7. /\ DOMAIN copies = 1 .. Len(copies) /\ Len(copies) \in Nat
      /\ copies \in Seq(CopyOf(DOMAIN orders))
  BY <1>1 DEF CopiesOK
<1>8. /\ Len(copies') = n /\ DOMAIN copies' = 1 .. n /\ copies'[n] = c
      /\ \A j \in DOMAIN copies : copies'[j] = copies[j]
      /\ copies' \in Seq(CopyOf(DOMAIN orders))
  BY <1>4, <1>6, <1>7
<1>9. /\ n \in DOMAIN copies' /\ n \notin DOMAIN copies /\ n # None
      /\ DOMAIN copies \subseteq DOMAIN copies'
      /\ \A j \in DOMAIN copies' : j = n \/ j \in DOMAIN copies
  BY <1>7, <1>8 DEF None
<1>10. PICK l \in {Leg("pending", n, TRUE), Leg("pending", n, FALSE), Leg("nothing", None, FALSE)} :
         /\ legs' = [legs EXCEPT ![i] = l]
         /\ ~Fault("unrecorded") => l = Leg("pending", n, TRUE)
  BY <1>8 DEF Copy
<1>11. /\ l.status # "waiting" /\ l.copy \in {None, n}
       /\ ~Fault("unrecorded") => l.copy = n /\ l.named
       /\ l \in LegTo(DOMAIN copies')
  <2>1. {"pending", "nothing"} \subseteq Statuses
    BY DEF Statuses
  <2>2. /\ Leg("pending", n, TRUE).copy = n /\ Leg("pending", n, TRUE).named
        /\ \A named \in BOOLEAN : /\ Leg("pending", n, named).status = "pending"
                                 /\ Leg("pending", n, named).copy = n
                                 /\ Leg("pending", n, named) \in LegTo(DOMAIN copies')
    BY <1>9 DEF Leg, LegTo, Statuses
  <2>3. /\ Leg("nothing", None, FALSE).status = "nothing" /\ Leg("nothing", None, FALSE).copy = None
        /\ Leg("nothing", None, FALSE) \in LegTo(DOMAIN copies')
    BY DEF Leg, LegTo, Statuses
  <2> QED BY <1>10, <2>2, <2>3
<1>12. /\ legs \in Seq(LegTo(DOMAIN copies)) /\ DOMAIN legs = DOMAIN orders
       /\ Len(legs) = Len(orders) /\ DOMAIN orders = 1 .. Len(orders) /\ Len(orders) \in Nat
  BY <1>1, Fields DEF LegsOK
<1>13. /\ legs' \in Seq(LegTo(DOMAIN copies')) /\ Len(legs') = Len(orders')
       /\ DOMAIN legs' = DOMAIN legs
       /\ legs'[i] = l /\ \A k \in DOMAIN legs : k # i => legs'[k] = legs[k]
  <2>1. LegTo(DOMAIN copies) \subseteq LegTo(DOMAIN copies')
    BY <1>9 DEF LegTo
  <2>2. legs \in Seq(LegTo(DOMAIN copies'))
    BY <1>12, <2>1
  <2> QED BY <1>2, <1>10, <1>11, <1>12, <2>2
<1> HIDE DEF n
<1>14. ClockOK' /\ OrdersOK' /\ CopiesOK' /\ LegsOK'
  BY <1>1, <1>2, <1>8, <1>13 DEF ClockOK, OrdersOK, CopiesOK, LegsOK
<1>15. RowsOK' /\ Claimed' /\ Found' /\ FoundFills'
  BY <1>1, <1>2, <1>14, StillNoRows
<1>16. \A j \in DOMAIN copies : copies[j].for \in DOMAIN legs /\ copies[j].for # i
  BY <1>1, <1>2, Fields DEF DayInv, Linked, CopyOf
<1>17. Linked'
  <2>1. \A j \in DOMAIN copies' : /\ copies'[j].side = orders'[copies'[j].for].side
                                  /\ legs'[copies'[j].for].status # "waiting"
    <3>1. TAKE j \in DOMAIN copies'
    <3>2. CASE j = n
      BY <1>2, <1>5, <1>8, <1>11, <1>13, <3>2
    <3>3. CASE j \in DOMAIN copies
      BY <1>2, <1>8, <1>13, <1>16, <3>3 DEF DayInv, Linked
    <3> QED BY <1>9, <3>2, <3>3
  <2>2. \A j, k \in DOMAIN copies' : copies'[j].for = copies'[k].for => j = k
    BY <1>5, <1>8, <1>9, <1>16 DEF DayInv, Linked
  <2>3. \A k \in DOMAIN legs' : legs'[k].copy # None => copies'[legs'[k].copy].for = k
    <3>1. SUFFICES ASSUME NEW k \in DOMAIN legs', legs'[k].copy # None
                   PROVE  copies'[legs'[k].copy].for = k
      OBVIOUS
    <3>2. CASE k = i
      BY <1>5, <1>8, <1>11, <1>13, <3>1, <3>2
    <3>3. CASE k # i
      <4>1. k \in DOMAIN legs /\ legs'[k] = legs[k] /\ legs[k] \in LegTo(DOMAIN copies)
        BY <1>1, <1>13, <3>3, Fields
      <4>2. legs[k].copy \in DOMAIN copies
        BY <3>1, <4>1 DEF LegTo
      <4> QED BY <1>8, <3>1, <4>1, <4>2 DEF DayInv, Linked
    <3> QED BY <3>2, <3>3
  <2> QED BY <2>1, <2>2, <2>3 DEF Linked
<1>18. Recorded'
  <2>1. SUFFICES ASSUME ~Fault("unrecorded"), NEW j \in DOMAIN copies'
                 PROVE  legs'[copies'[j].for].copy = j /\ legs'[copies'[j].for].named
    BY <1>2 DEF Recorded, Fault
  <2>2. CASE j = n
    BY <1>5, <1>8, <1>11, <1>13, <2>1, <2>2
  <2>3. CASE j \in DOMAIN copies
    BY <1>8, <1>13, <1>16, <2>1, <2>3 DEF DayInv, Recorded
  <2> QED BY <1>9, <2>2, <2>3
<1>19. OnTime'
  <2>1. SUFFICES ASSUME ~Fault("late")
                 PROVE  /\ \A k \in DOMAIN orders : legs'[k].status = "waiting" => orders[k].at = now
                        /\ \A j \in DOMAIN copies' : copies'[j].at = orders[copies'[j].for].at
    BY <1>2 DEF OnTime, Fault
  <2>2. /\ \A k \in DOMAIN orders : legs[k].status = "waiting" => orders[k].at = now
        /\ \A j \in DOMAIN copies : copies[j].at = orders[copies[j].for].at
    BY <2>1 DEF DayInv, OnTime
  <2>3. \A k \in DOMAIN orders : legs'[k].status = "waiting" => orders[k].at = now
    BY <1>11, <1>12, <1>13, <2>2
  <2>4. \A j \in DOMAIN copies' : copies'[j].at = orders[copies'[j].for].at
    BY <1>2, <1>5, <1>8, <1>9, <2>2
  <2> QED BY <2>3, <2>4
<1> QED BY <1>14, <1>15, <1>17, <1>18, <1>19, TypeParts DEF DayInv

\* A decision against a copy changes the leg alone, which no copy is for.
LEMMA CopiesNotStep ==
  ASSUME DayInv, NEW i \in DOMAIN orders, CopiesNot(i)
  PROVE  DayInv'
<1>1. TypeOK /\ ClockOK /\ OrdersOK /\ CopiesOK /\ LegsOK
  BY TypeParts DEF DayInv
<1>2. /\ rows = 0 /\ legs[i].status = "waiting" /\ UNCHANGED <<scene, now, orders, copies>>
      /\ UNCHANGED Report
  BY DEF CopiesNot, Working
<1>3. PICK l \in {Leg("failed", None, TRUE), Leg("nothing", None, FALSE), Leg("skipped", None, TRUE)} :
        legs' = [legs EXCEPT ![i] = l]
  BY DEF CopiesNot
<1>4. l \in LegTo(DOMAIN copies) /\ l.status # "waiting" /\ l.copy = None
  <2>1. {"failed", "nothing", "skipped"} \subseteq Statuses /\ "waiting" \notin {"failed", "nothing", "skipped"}
    BY DEF Statuses
  <2>2. \A status \in {"failed", "nothing", "skipped"}, named \in BOOLEAN :
          /\ Leg(status, None, named).status = status /\ Leg(status, None, named).copy = None
          /\ Leg(status, None, named) \in LegTo(DOMAIN copies)
    BY DEF Leg, LegTo, Statuses
  <2> QED BY <1>3, <2>1, <2>2
<1>5. /\ legs \in Seq(LegTo(DOMAIN copies)) /\ DOMAIN legs = DOMAIN orders
      /\ Len(legs) = Len(orders) /\ DOMAIN orders = 1 .. Len(orders) /\ Len(orders) \in Nat
  BY <1>1, Fields DEF LegsOK
<1>6. /\ legs' \in Seq(LegTo(DOMAIN copies')) /\ Len(legs') = Len(orders')
      /\ DOMAIN legs' = DOMAIN legs
      /\ legs'[i] = l /\ \A k \in DOMAIN legs : k # i => legs'[k] = legs[k]
  BY <1>2, <1>3, <1>4, <1>5
<1>7. ClockOK' /\ OrdersOK' /\ CopiesOK' /\ LegsOK'
  BY <1>1, <1>2, <1>6 DEF ClockOK, OrdersOK, CopiesOK, LegsOK
<1>8. RowsOK' /\ Claimed' /\ Found' /\ FoundFills'
  BY <1>1, <1>2, <1>7, StillNoRows
<1>9. \A j \in DOMAIN copies : copies[j].for \in DOMAIN legs /\ copies[j].for # i
  BY <1>1, <1>2, Fields DEF DayInv, Linked, CopyOf
<1>10. Linked' /\ Recorded'
  BY <1>2, <1>4, <1>6, <1>9 DEF DayInv, Linked, Recorded, Fault
<1>11. OnTime'
  BY <1>2, <1>4, <1>5, <1>6 DEF DayInv, OnTime, Fault
<1> QED BY <1>7, <1>8, <1>10, <1>11, TypeParts DEF DayInv

\* Of an order that ends only the state and what it filled change.
LEMMA EndedIsOf ==
  ASSUME TypeOK, NEW i \in DOMAIN orders, NEW n \in Nat
  PROVE  LET o == Ended(orders[i], n)
         IN  o \in Order /\ o.side = orders[i].side /\ o.at = orders[i].at
<1>1. orders[i] \in Order
  BY Fields
<1>2. (IF n = orders[i].size THEN "closed" ELSE "cancelled") \in States
  BY DEF States
<1> QED BY <1>1, <1>2 DEF Order, Ended

\* So it is of the copy, whatever became of it.
LEMMA FatesAreOf ==
  ASSUME TypeOK, NEW j \in DOMAIN copies, NEW n, NEW f \in Fates(copies[j], n)
  PROVE  /\ f \in CopyOf(DOMAIN orders)
         /\ f.side = copies[j].side /\ f.at = copies[j].at /\ f.for = copies[j].for
<1>1. copies[j] \in CopyOf(DOMAIN orders)
  BY Fields
<1> DEFINE asked == copies[j].size
<1>2. asked \in Nat
  BY <1>1 DEF CopyOf
<1>3. \/ \E q \in 0 .. asked : f = Ended(copies[j], q)
      \/ \E q \in 0 .. asked - 1 : f = [copies[j] EXCEPT !.filled = q]
  BY DEF Fates
<1>4. CASE \E q \in 0 .. asked : f = Ended(copies[j], q)
  <2>1. PICK q \in Nat : f = Ended(copies[j], q)
    BY <1>2, <1>4
  <2>2. (IF q = copies[j].size THEN "closed" ELSE "cancelled") \in States
    BY DEF States
  <2> QED BY <1>1, <2>1, <2>2 DEF CopyOf, Ended
<1>5. CASE \E q \in 0 .. asked - 1 : f = [copies[j] EXCEPT !.filled = q]
  <2>1. PICK q \in Nat : f = [copies[j] EXCEPT !.filled = q]
    BY <1>2, <1>5
  <2> QED BY <1>1, <2>1 DEF CopyOf
<1> QED BY <1>3, <1>4, <1>5

\* When an order ends nothing else changes of it, nor of its copy.
LEMMA EndStep ==
  ASSUME DayInv, NEW i \in DOMAIN orders, NEW n \in Nat,
         rows = 0, UNCHANGED Report, UNCHANGED <<scene, now, legs>>, MasterEnds(i, n),
         CopyEnds(i, n)
  PROVE  DayInv'
<1>1. TypeOK /\ ClockOK /\ OrdersOK /\ CopiesOK /\ LegsOK
  BY TypeParts DEF DayInv
<1>2. /\ DOMAIN orders = 1 .. Len(orders) /\ Len(orders) \in Nat /\ orders \in Seq(Order)
      /\ DOMAIN copies = 1 .. Len(copies) /\ Len(copies) \in Nat
      /\ copies \in Seq(CopyOf(DOMAIN orders))
      /\ DOMAIN legs = DOMAIN orders
  BY <1>1, Fields DEF OrdersOK, CopiesOK
<1> DEFINE o == Ended(orders[i], n)
<1>3. orders' = [orders EXCEPT ![i] = o]
  BY DEF MasterEnds
<1>4. o \in Order /\ o.side = orders[i].side /\ o.at = orders[i].at
  BY <1>1, EndedIsOf
<1> HIDE DEF o
<1>5. /\ orders' \in Seq(Order) /\ Len(orders') = Len(orders) /\ DOMAIN orders' = DOMAIN orders
      /\ orders'[i] = o /\ \A k \in DOMAIN orders : k # i => orders'[k] = orders[k]
  BY <1>2, <1>3, <1>4
<1>6. \A k \in DOMAIN orders : orders'[k].side = orders[k].side /\ orders'[k].at = orders[k].at
  BY <1>4, <1>5
<1> DEFINE C == CopyOf(DOMAIN orders)
<1>7. C = CopyOf(DOMAIN orders')
  BY <1>5
<1>8. UNCHANGED copies \/ \E j \in CopiesOf(i) : \E f \in Fates(copies[j], n) :
                              copies' = [copies EXCEPT ![j] = f]
  BY DEF CopyEnds
<1>9. ASSUME ~UNCHANGED copies
      PROVE  /\ copies' \in Seq(C) /\ DOMAIN copies' = DOMAIN copies
             /\ \A j \in DOMAIN copies : /\ copies'[j].side = copies[j].side
                                         /\ copies'[j].at = copies[j].at
                                         /\ copies'[j].for = copies[j].for
  <2>1. PICK j \in CopiesOf(i) : \E f \in Fates(copies[j], n) : copies' = [copies EXCEPT ![j] = f]
    BY <1>8, <1>9
  <2>2. PICK f \in Fates(copies[j], n) : copies' = [copies EXCEPT ![j] = f]
    BY <2>1
  <2>3. j \in DOMAIN copies
    BY DEF CopiesOf
  <2>4. f \in C /\ f.side = copies[j].side /\ f.at = copies[j].at /\ f.for = copies[j].for
    BY <1>1, <2>3, FatesAreOf
  <2>5. copies \in Seq(C)
    BY <1>2
  <2> HIDE DEF C
  <2>6. /\ copies' \in Seq(C) /\ DOMAIN copies' = DOMAIN copies
        /\ copies'[j] = f /\ \A k \in DOMAIN copies : k # j => copies'[k] = copies[k]
    BY <2>2, <2>3, <2>4, <2>5
  <2> QED BY <2>4, <2>6
<1>10. /\ copies' \in Seq(CopyOf(DOMAIN orders')) /\ DOMAIN copies' = DOMAIN copies
       /\ \A j \in DOMAIN copies : /\ copies'[j].side = copies[j].side
                                   /\ copies'[j].at = copies[j].at /\ copies'[j].for = copies[j].for
  <2>1. CASE UNCHANGED copies
    <3> HIDE DEF C
    <3> QED BY <1>2, <1>7, <2>1 DEF C
  <2>2. CASE ~UNCHANGED copies
    <3> HIDE DEF C
    <3> QED BY <1>7, <1>9, <2>2
  <2> QED BY <2>1, <2>2
<1> HIDE DEF C
<1>11. ClockOK' /\ OrdersOK' /\ CopiesOK' /\ LegsOK'
  BY <1>1, <1>5, <1>10 DEF ClockOK, OrdersOK, CopiesOK, LegsOK
<1>12. RowsOK' /\ Claimed' /\ Found' /\ FoundFills'
  BY <1>1, <1>11, StillNoRows
<1>13. \A j \in DOMAIN copies : copies[j].for \in DOMAIN orders
  BY <1>1, Fields DEF CopyOf
<1>14. Linked'
  <2>1. \A k \in DOMAIN legs : legs[k].copy # None => legs[k].copy \in DOMAIN copies
    BY <1>1, <1>2, Fields DEF LegTo
  <2> QED BY <1>6, <1>10, <1>13, <2>1 DEF DayInv, Linked
<1>15. Recorded'
  BY <1>10 DEF DayInv, Recorded, Fault
<1>16. OnTime'
  BY <1>5, <1>6, <1>10, <1>13 DEF DayInv, OnTime, Fault
<1> QED BY <1>11, <1>12, <1>14, <1>15, <1>16, TypeParts DEF DayInv

\* An order that fills ends.
LEMMA FillStep ==
  ASSUME DayInv, NEW i \in DOMAIN orders, Fill(i)
  PROVE  DayInv'
<1>1. orders[i].size \in Nat
  BY Fields, ComparisonAssumption DEF DayInv, Order
<1> QED BY <1>1, EndStep DEF Fill, Ends, Report

\* So does one that is cancelled.
LEMMA CancelStep ==
  ASSUME DayInv, NEW i \in DOMAIN orders, Cancel(i)
  PROVE  DayInv'
<1>1. PICK n \in 0 .. orders[i].size - 1 : MasterEnds(i, n) /\ CopyEnds(i, n)
  BY DEF Cancel
<1>2. orders[i].size \in Nat
  BY Fields, ComparisonAssumption DEF DayInv, Order
<1> QED BY <1>1, <1>2, EndStep DEF Cancel, Ends, Report

\* The reports begin without a row.
LEMMA ReadStep ==
  ASSUME DayInv, Read
  PROVE  DayInv'
<1>1. /\ rows = 0 /\ rows' = 1 /\ UNCHANGED <<scene, now, orders, copies, legs, pairs, fills>>
  BY DEF Read
<1>2. TypeOK /\ ClockOK /\ OrdersOK /\ CopiesOK /\ LegsOK
  BY TypeParts DEF DayInv
<1>3. ClockOK' /\ OrdersOK' /\ CopiesOK' /\ LegsOK'
  BY <1>1, <1>2 DEF ClockOK, OrdersOK, CopiesOK, LegsOK
<1>4. pairs = <<>> /\ fills = <<>>
  BY <1>1, <1>2, NoRows
<1>5. RowsOK'
  <2>1. Len(orders) \in Nat
    BY <1>2, Fields
  <2> QED BY <1>1, <1>4, <2>1 DEF RowsOK
<1>6. Linked' /\ OnTime' /\ Recorded'
  BY <1>1 DEF DayInv, Linked, OnTime, Recorded, Fault
<1>7. Claimed' /\ Found' /\ FoundFills'
  BY <1>1, <1>4 DEF Claimed, Found, FoundFills
<1> QED BY <1>3, <1>5, <1>6, <1>7, TypeParts DEF DayInv

\* What the only order of its side could be paired with is its own copy.
LEMMA OnlyItsCopy ==
  ASSUME DayInv, NEW i \in DOMAIN orders, Lone(i),
         NEW j \in DOMAIN copies, copies[j].side = orders[i].side
  PROVE  copies[j].for = i
<1>1. copies[j].for \in DOMAIN orders
  BY Fields DEF DayInv, CopyOf
<1>2. orders[copies[j].for].side = orders[i].side
  BY DEF DayInv, Linked
<1> QED BY <1>1, <1>2 DEF Lone, Rungs

\* The next row claims the copy of an order that tells.
LEMMA ClaimsItsCopy ==
  ASSUME DayInv, NEW j \in DOMAIN copies, NEW i, i = copies[j].for,
         ~Fault("unreadable"), Tells(i), i \notin DOMAIN pairs, DOMAIN pairs \subseteq DOMAIN orders
  PROVE  Pair(i, Seen, RangeOf(pairs), OrderWindow) = j
<1>1. TypeOK /\ i \in DOMAIN orders /\ i \in DOMAIN legs /\ legs[i] \in LegTo(DOMAIN copies)
  BY Fields DEF DayInv, CopyOf
<1>2. Seen = DOMAIN copies /\ None \notin Seen /\ j # None
  BY <1>1, Fields DEF Seen, None
<1>3. LegOf(i).copy \in Seen => legs[i].named /\ LegOf(i) = legs[i]
  BY <1>2 DEF LegOf, Leg
<1>4. CASE LegOf(i).copy \in Seen
  <2>1. LegOf(i).copy = legs[i].copy /\ legs[i].copy # None
    BY <1>2, <1>3, <1>4
  <2>2. copies[legs[i].copy].for = i
    BY <1>1, <2>1 DEF DayInv, Linked
  <2>3. legs[i].copy = j
    BY <1>2, <1>4, <2>1, <2>2 DEF DayInv, Linked
  <2> QED BY <1>4, <2>1, <2>3 DEF Pair
<1>5. CASE LegOf(i).copy \notin Seen
  <2>1. Fault("unrecorded")
    <3>1. ~Fault("unrecorded") => LegOf(i).copy = j
      BY DEF DayInv, Recorded, LegOf
    <3> QED BY <1>2, <1>5, <3>1
  <2>2. ~Fault("late") /\ Lone(i)
    BY <2>1 DEF Tells
  <2> DEFINE taken == RangeOf(pairs)
             near == Near(i, Seen, taken, OrderWindow)
  <2>3. j \notin taken
    <3>1. SUFFICES ASSUME NEW k \in DOMAIN pairs, pairs[k] = j PROVE FALSE
      BY DEF RangeOf
    <3>2. copies[j].side = orders[k].side
      BY <1>2, <3>1 DEF DayInv, Claimed
    <3>3. k \in DOMAIN orders /\ k # i
      BY <3>1
    <3>4. Lone(i) => k \notin Rungs(i)
      BY <3>3 DEF Lone
    <3>5. copies[j].side = orders[i].side
      BY DEF DayInv, Linked
    <3> QED BY <2>2, <3>2, <3>3, <3>4, <3>5 DEF Rungs
  <2>4. copies[j].side = orders[i].side /\ Gap(i, j) <= OrderWindow
    <3>1. copies[j].side = orders[i].side
      BY DEF DayInv, Linked
    <3>2. copies[j].at = orders[i].at
      BY <2>2 DEF DayInv, OnTime
    <3>3. copies[j].at \in Int
      BY <1>1, Fields, ComparisonAssumption DEF CopyOf
    <3>4. Gap(i, j) = 0
      BY <3>2, <3>3 DEF Gap, Abs
    <3> QED BY <3>1, <3>4, ComparisonAssumption
  <2>5. j \in near
    BY <1>2, <2>3, <2>4 DEF Near
  <2>6. Infer(i, Seen, taken, OrderWindow) \in near
    <3> HIDE DEF taken
    <3>1. near # {}
      BY <2>5
    <3>2. Seen \in SUBSET DOMAIN copies
      BY <1>2
    <3> QED BY <1>1, <3>1, <3>2, InfersTheNearest
  <2>7. \A k \in near : k = j
    <3> TAKE k \in near
    <3>1. k \in DOMAIN copies /\ copies[k].side = orders[i].side
      BY <1>2 DEF Near
    <3>2. copies[k].for = i
      BY <1>1, <2>2, <3>1, OnlyItsCopy
    <3> QED BY <3>1, <3>2 DEF DayInv, Linked
  <2> QED BY <1>5, <2>6, <2>7 DEF Pair
<1> QED BY <1>4, <1>5

\* The next row claims what it may claim, and its own copy where it can tell.
LEMMA RowStep ==
  ASSUME DayInv, Row
  PROVE  DayInv'
<1> DEFINE p == Pair(rows, Seen, RangeOf(pairs), OrderWindow)
           f == IF orders[rows].filled = 0 THEN None
                ELSE Pair(rows, SeenFills, RangeOf(fills), FillWindow)
           js == {None} \union DOMAIN copies
<1>1. /\ rows \in DOMAIN orders /\ rows' = rows + 1 /\ pairs' = Append(pairs, p)
      /\ fills' = Append(fills, f) /\ UNCHANGED <<scene, now, orders, copies, legs>>
  BY DEF Row
<1>2. TypeOK /\ ClockOK /\ OrdersOK /\ CopiesOK /\ LegsOK /\ RowsOK /\ Linked
  BY TypeParts DEF DayInv
<1>3. ClockOK' /\ OrdersOK' /\ CopiesOK' /\ LegsOK'
  BY <1>1, <1>2 DEF ClockOK, OrdersOK, CopiesOK, LegsOK
<1>4. Seen \in SUBSET DOMAIN copies /\ SeenFills \in SUBSET DOMAIN copies
  BY DEF Seen, SeenFills
<1>5. p \in js /\ (p # None => copies[p].side = orders[rows].side) /\ f \in js
  BY <1>1, <1>2, <1>4, PairsUp
<1> HIDE DEF p, f
<1>6. /\ Len(orders) \in Nat /\ DOMAIN orders = 1 .. Len(orders) /\ rows \in 1 .. Len(orders)
      /\ pairs \in Seq(js) /\ Len(pairs) = rows - 1 /\ fills \in Seq(js) /\ Len(fills) = rows - 1
  <2>1. Len(orders) \in Nat /\ DOMAIN orders = 1 .. Len(orders)
    BY <1>2, Fields
  <2>2. rows # 0
    BY <1>1, <2>1
  <2> QED BY <1>1, <1>2, <2>1, <2>2 DEF RowsOK
<1> HIDE DEF js
<1>7. /\ pairs' \in Seq(js) /\ Len(pairs') = rows /\ DOMAIN pairs' = 1 .. rows
      /\ DOMAIN pairs = 1 .. rows - 1 /\ pairs'[rows] = p
      /\ \A k \in DOMAIN pairs : pairs'[k] = pairs[k]
  BY <1>1, <1>5, <1>6
<1>8. /\ fills' \in Seq(js) /\ Len(fills') = rows /\ DOMAIN fills' = 1 .. rows
      /\ DOMAIN fills = 1 .. rows - 1 /\ fills'[rows] = f
      /\ \A k \in DOMAIN fills : fills'[k] = fills[k]
  BY <1>1, <1>5, <1>6
<1>9. RowsOK'
  <2>1. rows' \in 0 .. Len(orders') + 1 /\ rows' # 0 /\ rows' - 1 = rows
    BY <1>1, <1>6
  <2> QED BY <1>1, <1>7, <1>8, <2>1 DEF RowsOK, js
<1>10. Linked' /\ OnTime' /\ Recorded'
  BY <1>1 DEF DayInv, Linked, OnTime, Recorded, Fault
<1>11. \A k \in DOMAIN pairs' : k = rows \/ k \in DOMAIN pairs
  BY <1>6, <1>7
<1>12. Claimed'
  BY <1>1, <1>5, <1>7, <1>11 DEF DayInv, Claimed
<1>13. Found'
  <2>1. \A k : Tells(k)' <=> Tells(k)
    BY <1>1 DEF Tells, Lone, Rungs, Fault
  <2>2. SUFFICES ASSUME ~Fault("unreadable"), NEW j \in DOMAIN copies,
                        copies[j].for \in DOMAIN pairs', Tells(copies[j].for)
                 PROVE  pairs'[copies[j].for] = j
    BY <1>1, <2>1 DEF Found, Fault
  <2>3. CASE copies[j].for = rows
    <3>1. rows \notin DOMAIN pairs /\ DOMAIN pairs \subseteq DOMAIN orders
      BY <1>6, <1>7
    <3>2. p = j
      BY <2>2, <2>3, <3>1, ClaimsItsCopy DEF p
    <3> QED BY <1>7, <2>3, <3>2
  <2>4. CASE copies[j].for \in DOMAIN pairs
    BY <1>7, <2>2, <2>4 DEF DayInv, Found
  <2> QED BY <1>11, <2>2, <2>3, <2>4
<1>14. FoundFills'
  <2>1. SUFFICES ASSUME ~Fault("unreadable"), ~Fault("unrecorded"), NEW j \in DOMAIN copies,
                        copies[j].for \in DOMAIN fills',
                        orders[copies[j].for].filled > 0, copies[j].filled > 0
                 PROVE  fills'[copies[j].for] = j
    BY <1>1 DEF FoundFills, Fault
  <2>2. CASE copies[j].for = rows
    <3>1. legs[rows].copy = j /\ legs[rows].named
      BY <2>1, <2>2 DEF DayInv, Recorded
    <3>2. j \in SeenFills
      BY <2>1 DEF SeenFills, Seen
    <3>3. Pair(rows, SeenFills, RangeOf(fills), FillWindow) = j
      BY <3>1, <3>2 DEF Pair, LegOf
    <3>4. f = j
      <4>1. ~(orders[rows].filled = 0)
        BY <2>1, <2>2
      <4> QED BY <3>3, <4>1 DEF f
    <3> QED BY <1>8, <2>2, <3>4
  <2>3. CASE copies[j].for \in DOMAIN fills
    BY <1>8, <2>1, <2>3 DEF DayInv, FoundFills
  <2>4. copies[j].for = rows \/ copies[j].for \in DOMAIN fills
    BY <1>6, <1>8, <2>1
  <2> QED BY <2>2, <2>3, <2>4
<1> QED BY <1>3, <1>9, <1>10, <1>12, <1>13, <1>14, TypeParts DEF DayInv

\* The invariant holds all day.
LEMMA DayInvariance == Spec => []DayInv
<1>1. Init => DayInv
  BY InitDayInv
<1>2. DayInv /\ [Next]_vars => DayInv'
  <2> SUFFICES ASSUME DayInv, [Next]_vars PROVE DayInv'
    OBVIOUS
  <2>1. CASE Tick
    BY <2>1, TickStep
  <2>2. CASE MasterPlaces
    BY <2>2, MasterPlacesStep
  <2>3. CASE Read
    BY <2>3, ReadStep
  <2>4. CASE Row
    BY <2>4, RowStep
  <2>5. ASSUME NEW i \in DOMAIN orders, Copy(i)
        PROVE  DayInv'
    BY <2>5, CopyStep
  <2>6. ASSUME NEW i \in DOMAIN orders, CopiesNot(i)
        PROVE  DayInv'
    BY <2>6, CopiesNotStep
  <2>7. ASSUME NEW i \in DOMAIN orders, Fill(i)
        PROVE  DayInv'
    BY <2>7, FillStep
  <2>8. ASSUME NEW i \in DOMAIN orders, Cancel(i)
        PROVE  DayInv'
    BY <2>8, CancelStep
  <2>9. CASE UNCHANGED vars
    <3>1. ClockOK /\ OrdersOK /\ CopiesOK /\ LegsOK /\ RowsOK
      BY TypeParts DEF DayInv
    <3>2. ClockOK' /\ OrdersOK' /\ CopiesOK' /\ LegsOK' /\ RowsOK'
      BY <2>9, <3>1 DEF ClockOK, OrdersOK, CopiesOK, LegsOK, RowsOK, vars
    <3>3. Linked' /\ OnTime' /\ Recorded' /\ Claimed'
      BY <2>9 DEF DayInv, Linked, OnTime, Recorded, Claimed, Fault, vars
    <3>4. Found'
      BY <2>9 DEF DayInv, Found, Tells, Lone, Rungs, Fault, vars
    <3>5. FoundFills'
      BY <2>9 DEF DayInv, FoundFills, Fault, vars
    <3> QED BY <3>2, <3>3, <3>4, <3>5, TypeParts DEF DayInv
  <2> QED BY <2>1, <2>2, <2>3, <2>4, <2>5, <2>6, <2>7, <2>8, <2>9 DEF Next
<1> QED BY <1>1, <1>2, PTL DEF Spec

\* The orders, the copies, the legs and the rows of the reports are what the
\* reports take them for: a claimed copy exists, a link names one, the reports
\* have a row for each order.
THEOREM DayTypeCorrect == Spec => []TypeOK
<1>1. DayInv => TypeOK
  BY DEF DayInv
<1> QED BY <1>1, DayInvariance, PTL
-----------------------------------------------------------------------------
(* What the report says of an order that is alone. *)

\* Fewer than two orders of one side are one.
LEMMA NotALadder ==
  ASSUME TypeOK, NEW i \in DOMAIN orders, ~IsLadder(Rungs(i))
  PROVE  Lone(i)
<1>1. SUFFICES ASSUME NEW k \in Rungs(i), k # i
               PROVE  FALSE
  BY DEF Lone, Rungs
<1>2. IsFiniteSet(Rungs(i))
  <2>1. Rungs(i) \subseteq 1 .. Len(orders) /\ Len(orders) \in Nat
    BY Fields DEF Rungs
  <2>2. IsFiniteSet(1 .. Len(orders))
    BY <2>1, FS_Interval
  <2> QED BY <2>1, <2>2, FS_Subset
<1>3. {i, k} \subseteq Rungs(i)
  BY <1>1 DEF Rungs
<1>4. Cardinality({i, k}) = 2
  <2>1. IsFiniteSet({i}) /\ Cardinality({i}) = 1
    BY FS_Singleton
  <2>2. Cardinality({i} \union {k}) = Cardinality({i}) + 1
    BY <1>1, <2>1, FS_AddElement
  <2>3. {i} \union {k} = {i, k}
    OBVIOUS
  <2> QED BY <2>1, <2>2, <2>3
<1>5. Cardinality({i, k}) <= Cardinality(Rungs(i)) /\ Cardinality(Rungs(i)) \in Nat
  BY <1>2, <1>3, FS_Subset, FS_CardinalityType
<1> QED BY <1>4, <1>5 DEF IsLadder

\* Its row claims its copy, and nothing when there is none.
LEMMA RowOfItsOwn ==
  ASSUME DayInv, Reported, ~Fault("unreadable"), NEW i \in DOMAIN orders, Lone(i)
  PROVE  /\ CopiesOf(i) = {} => pairs[i] = None
         /\ Tells(i) => \A j \in CopiesOf(i) : pairs[i] = j
<1>1. DOMAIN pairs = DOMAIN orders /\ pairs[i] \in {None} \union DOMAIN copies
  <2>1. Len(orders) \in Nat /\ DOMAIN orders = 1 .. Len(orders)
    BY Fields DEF DayInv
  <2>2. rows # 0 /\ rows - 1 = Len(orders)
    BY <2>1 DEF Reported
  <2>3. pairs \in Seq({None} \union DOMAIN copies) /\ Len(pairs) = Len(orders)
    BY <2>2, TypeParts DEF DayInv, RowsOK
  <2> QED BY <2>1, <2>3
<1>2. CopiesOf(i) = {} => pairs[i] = None
  <2>1. SUFFICES ASSUME pairs[i] # None PROVE CopiesOf(i) # {}
    OBVIOUS
  <2>2. pairs[i] \in DOMAIN copies /\ copies[pairs[i]].side = orders[i].side
    BY <1>1, <2>1 DEF DayInv, Claimed
  <2>3. copies[pairs[i]].for = i
    BY <2>2, OnlyItsCopy
  <2> QED BY <2>2, <2>3 DEF CopiesOf
<1>3. Tells(i) => \A j \in CopiesOf(i) : pairs[i] = j
  BY <1>1 DEF DayInv, Found, CopiesOf
<1> QED BY <1>2, <1>3

\* A copy that is missing without a decision, too large, or left or filled beside
\* an order that was withdrawn unfilled is a mismatch in the report, whether its
\* leg was written or not, and whatever became of the orders of the other side:
\* order_compare's grades of the order its row claims, which is the right one.
THEOREM WrongIsReported == Spec => []WrongCopyIsSeen
<1>1. DayInv => WrongCopyIsSeen
  <2>1. SUFFICES ASSUME DayInv, Reported, ~Fault("unreadable"), ~Fault("late"),
                        NEW i \in DOMAIN orders, ~IsLadder(Rungs(i)), WrongCopy(i)
                 PROVE  OrderVerdict(i) \in Mismatches
    BY DEF WrongCopyIsSeen, Fault
  <2>2. OrderVerdict(i) = Grade(i, pairs[i])
    BY <2>1 DEF OrderVerdict
  <2>3. Lone(i) /\ Tells(i)
    BY <2>1, NotALadder DEF DayInv, Tells
  <2>4. CASE CopiesOf(i) = {} /\ orders[i].state # "cancelled" /\ legs[i].status # "skipped"
    <3>1. pairs[i] = None
      BY <2>1, <2>3, <2>4, RowOfItsOwn
    <3>2. RowLeg(i, None).status # "skipped"
      BY <2>4 DEF RowLeg, LegOf, Leg
    <3>3. Grade(i, None) = "missing"
      BY <2>1, <2>4, <3>2 DEF Grade, GradeNone
    <3> QED BY <2>2, <3>1, <3>3 DEF Mismatches
  <2>5. ASSUME NEW j \in CopiesOf(i),
               IF Cancelled(orders[i]) THEN copies[j].state = "open" \/ copies[j].filled > 0
               ELSE copies[j].size > Share(orders[i].size) + Tolerance
        PROVE  OrderVerdict(i) \in Mismatches
    <3>1. pairs[i] = j /\ j \in DOMAIN copies
      BY <2>1, <2>3, <2>5, RowOfItsOwn DEF CopiesOf
    <3>2. j # None /\ copies[j] \in CopyOf(DOMAIN orders)
      BY <2>1, <3>1, Fields DEF DayInv, None
    <3>3. CASE Cancelled(orders[i])
      <4>1. copies[j].filled \in Nat
        BY <3>2 DEF CopyOf
      <4>2. copies[j].filled > 0 \/ (copies[j].filled = 0 /\ copies[j].state = "open")
        BY <2>5, <3>3, <4>1
      <4>3. Grade(i, j) \in {"extra", "cancel_missed"}
        BY <3>2, <3>3, <4>2 DEF Grade
      <4> QED BY <2>2, <3>1, <4>3 DEF Mismatches
    <3>4. CASE ~Cancelled(orders[i])
      <4>1. Grade(i, j) = Sized(copies[j].size, Share(orders[i].size), Tolerance, "matched")
        BY <3>2, <3>4 DEF Grade
      <4>2. copies[j].size > Share(orders[i].size) + Tolerance
        BY <2>5, <3>4
      <4>3. Grade(i, j) = "oversized"
        <5> DEFINE lots == copies[j].size
                   target == Share(orders[i].size)
        <5>1. Grade(i, j) = Sized(lots, target, Tolerance, "matched") /\ lots > target + Tolerance
          BY <4>1, <4>2
        <5>2. lots \in Nat /\ target \in Nat
          BY <2>1, <3>2, ShareOfOrder DEF CopyOf, DayInv
        <5> HIDE DEF lots, target
        <5>3. ~(lots + Tolerance < target)
          BY <5>1, <5>2 DEF Tolerance
        <5> QED BY <5>1, <5>3 DEF Sized
      <4> QED BY <2>2, <3>1, <4>3 DEF Mismatches
    <3> QED BY <3>3, <3>4
  <2> QED BY <2>1, <2>4, <2>5 DEF WrongCopy
<1> QED BY <1>1, DayInvariance, PTL

\* The share of nothing is nothing.
LEMMA NoShare == Share(0) = 0
<1>1. Share(0) = (0 * Num + Den - 1) \div Den
  BY DEF Share
<1>2. Den - 1 \in Nat /\ 0 * Num + Den - 1 = Den - 1 /\ Den \in Nat \ {0}
  BY ComparisonAssumption
<1>3. (Den - 1) \div Den = 0
  BY <1>2, Z3
<1> QED BY <1>1, <1>2, <1>3

\* What is right of an order is graded so.
LEMMA GradesTheRight ==
  ASSUME TypeOK, NEW i \in DOMAIN orders, NEW j \in DOMAIN copies, j # None,
         copies[j].size = Share(orders[i].size), copies[j].filled = Share(orders[i].filled),
         copies[j].state # "open"
  PROVE  Grade(i, j) \in {"matched", "cancelled_ok"}
<1>1. CASE Cancelled(orders[i])
  <2>1. copies[j].filled = 0
    BY <1>1, NoShare DEF Cancelled
  <2>2. ~(copies[j].filled > 0)
    BY <2>1
  <2> QED BY <1>1, <2>1, <2>2 DEF Grade
<1>2. CASE ~Cancelled(orders[i])
  <2>1. Grade(i, j) = Sized(Share(orders[i].size), Share(orders[i].size), Tolerance, "matched")
    BY <1>2 DEF Grade
  <2>2. Share(orders[i].size) \in Nat
    BY ShareOfOrder
  <2> QED BY <2>1, <2>2 DEF Sized, Tolerance
<1> QED BY <1>1, <1>2

\* An order of its own side that was copied rightly, and whose leg was written,
\* is no mismatch: a row never grades another order's copy in its place.
THEOREM RightIsPassed == Spec => []LoneOrderIsClean
<1>1. DayInv => LoneOrderIsClean
  <2>1. SUFFICES ASSUME DayInv, Reported, ~Fault("unreadable"), ~Fault("unrecorded"),
                        NEW i \in DOMAIN orders, ~IsLadder(Rungs(i)), Right(i)
                 PROVE  OrderVerdict(i) \in Passes
    BY DEF LoneOrderIsClean, Fault
  <2>2. OrderVerdict(i) = Grade(i, pairs[i])
    BY <2>1 DEF OrderVerdict
  <2>3. Lone(i) /\ Tells(i)
    BY <2>1, NotALadder DEF DayInv, Tells
  <2>4. PICK j \in DOMAIN copies :
          /\ CopiesOf(i) = {j} /\ copies[j].size = Share(orders[i].size)
          /\ copies[j].filled = Share(orders[i].filled) /\ copies[j].state # "open"
    BY <2>1 DEF Right
  <2>5. pairs[i] = j /\ j # None
    <3>1. j \in CopiesOf(i) /\ j # None
      BY <2>1, <2>4, Fields DEF DayInv, None
    <3> QED BY <2>1, <2>3, <3>1, RowOfItsOwn
  <2>6. Grade(i, j) \in {"matched", "cancelled_ok"}
    BY <2>1, <2>4, <2>5, GradesTheRight DEF DayInv
  <2> QED BY <2>2, <2>5, <2>6 DEF Passes
<1> QED BY <1>1, DayInvariance, PTL
-----------------------------------------------------------------------------
(* What the reports say of a day that was copied rightly. *)

\* On such a day the rows pair the orders with the copies, one to one, and each
\* copy is what its order asked for.
Faithful ==
  /\ DayInv /\ Reported
  /\ ~Fault("unreadable") /\ ~Fault("unrecorded")
  /\ \A i \in DOMAIN orders : Right(i)

\* On a faithful day the reports claim for each order its own copy, of its share.
LEMMA PairsAreRight ==
  ASSUME Faithful
  PROVE  /\ \A i \in DOMAIN orders :
              /\ pairs[i] \in DOMAIN copies /\ pairs[i] # None
              /\ copies[pairs[i]].for = i /\ copies[pairs[i]].side = orders[i].side
              /\ copies[pairs[i]].size = Share(orders[i].size)
              /\ copies[pairs[i]].filled = Share(orders[i].filled)
              /\ copies[pairs[i]].state # "open"
         /\ \A j \in DOMAIN copies : copies[j].for \in DOMAIN orders /\ pairs[copies[j].for] = j
         /\ \A i, k \in DOMAIN orders : pairs[i] = pairs[k] => i = k
<1>1. TypeOK /\ DOMAIN pairs = DOMAIN orders /\ DOMAIN fills = DOMAIN orders
  <2>1. TypeOK /\ Reported
    BY DEF Faithful, DayInv
  <2>2. Len(orders) \in Nat /\ DOMAIN orders = 1 .. Len(orders)
    BY <2>1, Fields
  <2>3. rows # 0 /\ rows - 1 = Len(orders)
    BY <2>1, <2>2 DEF Reported
  <2>4. \A s \in {pairs, fills} : s \in Seq({None} \union DOMAIN copies) /\ Len(s) = Len(orders)
    BY <2>1, <2>3, TypeParts DEF RowsOK
  <2> QED BY <2>1, <2>2, <2>4
<1>2. \A j \in DOMAIN copies : copies[j].for \in DOMAIN orders /\ j # None
  <2> TAKE j \in DOMAIN copies
  <2>1. copies[j] \in CopyOf(DOMAIN orders) /\ j \in 1 .. Len(copies)
    BY <1>1, Fields
  <2> QED BY <2>1 DEF CopyOf, None
<1>3. \A j \in DOMAIN copies : pairs[copies[j].for] = j
  BY <1>1, <1>2 DEF Faithful, DayInv, Found, Tells
<1>4. ASSUME NEW i \in DOMAIN orders
      PROVE  /\ pairs[i] \in DOMAIN copies /\ pairs[i] # None
             /\ copies[pairs[i]].for = i /\ copies[pairs[i]].side = orders[i].side
             /\ copies[pairs[i]].size = Share(orders[i].size)
             /\ copies[pairs[i]].filled = Share(orders[i].filled)
             /\ copies[pairs[i]].state # "open"
  <2>1. PICK j \in DOMAIN copies :
          /\ CopiesOf(i) = {j} /\ copies[j].size = Share(orders[i].size)
          /\ copies[j].filled = Share(orders[i].filled) /\ copies[j].state # "open"
    BY DEF Faithful, Right
  <2>2. copies[j].for = i
    BY <2>1 DEF CopiesOf
  <2>3. pairs[i] = j
    BY <1>3, <2>2
  <2>4. copies[j].side = orders[i].side
    BY <2>2 DEF Faithful, DayInv, Linked
  <2> QED BY <1>2, <2>1, <2>2, <2>3, <2>4
<1>5. \A i, k \in DOMAIN orders : pairs[i] = pairs[k] => i = k
  BY <1>4
<1> QED BY <1>2, <1>3, <1>4, <1>5

\* The share of a lot or more is a lot at least.
LEMMA ShareOfLots ==
  ASSUME NEW n \in Nat \ {0}
  PROVE  Share(n) \in Nat \ {0}
<1>1. Share(n) \in Nat /\ n * Num <= Den * Share(n)
  BY SharesRoundUp
<1>2. n * Num >= 1 /\ Den * 0 = 0
  <2>1. Num \in Nat \ {0} /\ Den \in Nat \ {0}
    BY ComparisonAssumption
  <2> QED BY <2>1, Z3
<1>3. Share(n) # 0
  <2>1. SUFFICES ASSUME Share(n) = 0 PROVE FALSE
    OBVIOUS
  <2>2. n * Num \in Int
    BY ComparisonAssumption
  <2> QED BY <1>1, <1>2, <2>1, <2>2
<1> QED BY <1>1, <1>3

\* Any set of orders is finite, and they are for a lot at least.
LEMMA OrdersAreLots ==
  ASSUME TypeOK, NEW is \in SUBSET DOMAIN orders
  PROVE  /\ IsFiniteSet(is)
         /\ \A i \in is : /\ orders[i].size \in Nat \ {0} /\ orders[i].side \in Sides
                          /\ orders[i].filled \in Nat
<1>1. IsFiniteSet(is)
  <2>1. is \subseteq 1 .. Len(orders) /\ Len(orders) \in Nat
    BY Fields
  <2>2. IsFiniteSet(1 .. Len(orders))
    BY <2>1, FS_Interval
  <2> QED BY <2>1, <2>2, FS_Subset
<1>2. \A i \in is : orders[i] \in Order
  BY Fields
<1> QED BY <1>1, <1>2, ComparisonAssumption DEF Order

\* What several orders and their copies come to.
LEMMA LotsAddUp ==
  ASSUME NEW is, IsFiniteSet(is), is # {}, NEW f, \A i \in is : f[i] \in Nat \ {0}
  PROVE  LET g == [i \in is |-> Share(f[i])]
         IN  /\ Total(f, is) \in Nat \ {0} /\ Total(g, is) \in Nat
             /\ Share(Total(f, is)) \in Nat
             /\ Share(Total(f, is)) <= Total(g, is)
             /\ Total(g, is) <= Share(Total(f, is)) + Cardinality(is)
             /\ Cardinality(is) \in Nat
<1> DEFINE g == [i \in is |-> Share(f[i])]
<1>1. IsFiniteSet(is) /\ \A i \in is : f[i] \in Nat \ {0} /\ g[i] = Share(f[i])
  OBVIOUS
<1> HIDE DEF g
<1>2. /\ Total(f, is) \in Nat /\ Total(g, is) \in Nat
      /\ Share(Total(f, is)) <= Total(g, is)
      /\ Total(g, is) <= Share(Total(f, is)) + Cardinality(is)
  BY <1>1, SharesOfRungs
<1>3. Total(f, is) # 0
  <2>1. PICK a \in is : TRUE
    OBVIOUS
  <2>2. Total(f, is) = f[a] + Total(f, is \ {a})
    BY <1>1, TotalAny
  <2>3. Total(f, is \ {a}) \in Nat
    <3>1. IsFiniteSet(is \ {a}) /\ \A i \in is \ {a} : f[i] \in Nat /\ g[i] = Share(f[i])
      BY <1>1, FS_RemoveElement
    <3> QED BY <3>1, SharesOfRungs
  <2> QED BY <1>1, <2>2, <2>3
<1>4. Share(Total(f, is)) \in Nat /\ Cardinality(is) \in Nat
  BY <1>1, <1>2, SharesRoundUp, FS_CardinalityType
<1> QED BY <1>2, <1>3, <1>4 DEF g

\* The sums of apply_ladder_context.
LEMMA LadderSums ==
  ASSUME NEW is
  PROVE  /\ OrderLots(is) = Total([k \in is |-> orders[k].size], is)
         /\ PlacedLots(is)
              = Total([k \in is |-> IF pairs[k] = None THEN 0 ELSE copies[pairs[k]].size], is)
<1>1. OrderLots(is) = Total([k \in is |-> orders[k].size], is)
  <2> DEFINE f == [k \in is |-> orders[k].size]
             P(g) == g = [s \in SUBSET is |-> IF s = {} THEN 0 ELSE orders[Pick(s)].size + g[s \ {Pick(s)}]]
  <2>1. \A g : P(g) <=> Sums(g, f, is)
    <3>1. \A s \in SUBSET is : s # {} => f[Pick(s)] = orders[Pick(s)].size
      BY Picks
    <3> HIDE DEF f
    <3> QED BY <3>1 DEF Sums, Adds
  <2>2. OrderLots(is) = (CHOOSE g : P(g))[is]
    BY Zenon DEF OrderLots, MapThenSumSet, MapThenFoldSet, Pick
  <2> HIDE DEF P, f
  <2>3. (CHOOSE g : P(g)) = (CHOOSE g : Sums(g, f, is))
    BY <2>1, Zenon
  <2> QED BY <2>2, <2>3, Zenon DEF Total, f
<1>2. PlacedLots(is)
        = Total([k \in is |-> IF pairs[k] = None THEN 0 ELSE copies[pairs[k]].size], is)
  <2> DEFINE lots(k) == IF pairs[k] = None THEN 0 ELSE copies[pairs[k]].size
             f == [k \in is |-> lots(k)]
             P(g) == g = [s \in SUBSET is |-> IF s = {} THEN 0 ELSE lots(Pick(s)) + g[s \ {Pick(s)}]]
  <2>1. \A g : P(g) <=> Sums(g, f, is)
    <3>1. \A s \in SUBSET is : s # {} => f[Pick(s)] = lots(Pick(s))
      BY Picks
    <3> HIDE DEF f, lots
    <3> QED BY <3>1 DEF Sums, Adds
  <2>2. PlacedLots(is) = (CHOOSE g : P(g))[is]
    BY Zenon DEF PlacedLots, MapThenSumSet, MapThenFoldSet, Pick
  <2> HIDE DEF P
  <2>3. (CHOOSE g : P(g)) = (CHOOSE g : Sums(g, f, is))
    BY <2>1, Zenon
  <2> QED BY <2>2, <2>3, Zenon DEF Total
<1> QED BY <1>1, <1>2

\* Inside a ladder or out of it, each order passes.
LEMMA RightIsGraded ==
  ASSUME Faithful, NEW i \in DOMAIN orders
  PROVE  OrderVerdict(i) \in Passes
<1> DEFINE j == pairs[i]
           rungs == Rungs(i)
<1>1. TypeOK /\ rungs \in SUBSET DOMAIN orders /\ rungs # {} /\ i \in rungs
  BY DEF Rungs, Faithful, DayInv
<1>2. /\ j \in DOMAIN copies /\ j # None /\ copies[j].size = Share(orders[i].size)
      /\ copies[j].filled = Share(orders[i].filled) /\ copies[j].state # "open"
  BY PairsAreRight
<1>3. Grade(i, j) \in {"matched", "cancelled_ok"}
  <2> HIDE DEF j
  <2> QED BY <1>1, <1>2, GradesTheRight
<1>4. Sized(PlacedLots(rungs), Share(OrderLots(rungs)), Allowance(Cardinality(rungs)), "ladder") = "ladder"
  <2> DEFINE f == [k \in rungs |-> orders[k].size]
             g == [k \in rungs |-> Share(orders[k].size)]
             h == [k \in rungs |-> IF pairs[k] = None THEN 0 ELSE copies[pairs[k]].size]
  <2>1. h = g
    BY <1>1, PairsAreRight
  <2>2. OrderLots(rungs) = Total(f, rungs) /\ PlacedLots(rungs) = Total(g, rungs)
    <3>1. OrderLots(rungs) = Total(f, rungs) /\ PlacedLots(rungs) = Total(h, rungs)
      BY LadderSums
    <3> QED BY <2>1, <3>1
  <2> DEFINE target == Share(Total(f, rungs))
             lots == Total(g, rungs)
             n == Cardinality(rungs)
  <2>3. /\ lots \in Nat /\ target \in Nat /\ n \in Nat
        /\ target <= lots /\ lots <= target + n
    <3> HIDE DEF rungs
    <3>1. IsFiniteSet(rungs) /\ \A k \in rungs : orders[k].size \in Nat \ {0}
      BY <1>1, OrdersAreLots
    <3>2. g = [k \in rungs |-> Share(f[k])] /\ \A k \in rungs : f[k] \in Nat \ {0}
      BY <3>1
    <3> HIDE DEF f, g
    <3> QED BY <1>1, <3>1, <3>2, LotsAddUp
  <2> HIDE DEF target, lots, n
  <2>4. ~(lots > target + Allowance(n)) /\ ~(lots + Tolerance < target)
    BY <2>3 DEF Allowance, Tolerance
  <2>5. Sized(lots, target, Allowance(n), "ladder") = "ladder"
    BY <2>4 DEF Sized
  <2> QED BY <2>2, <2>5 DEF target, lots, n
<1> HIDE DEF rungs, j
<1>5. OrderVerdict(i) \in {"ladder", Grade(i, j)}
  BY <1>4 DEF OrderVerdict, rungs, j
<1> QED BY <1>3, <1>5 DEF Passes

\* The sums of reconcile_groups.
LEMMA NetSums ==
  /\ MasterNet = Total([i \in FilledOrders |-> Signed(orders[i])], FilledOrders)
  /\ FollowerNet = Total([j \in SeenFills |-> Signed(copies[j])], SeenFills)
<1>1. MasterNet = Total([i \in FilledOrders |-> Signed(orders[i])], FilledOrders)
  <2> DEFINE is == FilledOrders
             f == [i \in is |-> Signed(orders[i])]
             P(g) == g = [s \in SUBSET is |-> IF s = {} THEN 0 ELSE Signed(orders[Pick(s)]) + g[s \ {Pick(s)}]]
  <2>1. \A g : P(g) <=> Sums(g, f, is)
    <3>1. \A s \in SUBSET is : s # {} => f[Pick(s)] = Signed(orders[Pick(s)])
      BY Picks
    <3> HIDE DEF f, is
    <3> QED BY <3>1 DEF Sums, Adds
  <2>2. MasterNet = (CHOOSE g : P(g))[is]
    BY Zenon DEF MasterNet, MapThenSumSet, MapThenFoldSet, Pick
  <2> HIDE DEF P, is
  <2>3. (CHOOSE g : P(g)) = (CHOOSE g : Sums(g, f, is))
    BY <2>1, Zenon
  <2> QED BY <2>2, <2>3, Zenon DEF Total, is
<1>2. FollowerNet = Total([j \in SeenFills |-> Signed(copies[j])], SeenFills)
  <2> DEFINE js == SeenFills
             f == [j \in js |-> Signed(copies[j])]
             P(g) == g = [s \in SUBSET js |-> IF s = {} THEN 0 ELSE Signed(copies[Pick(s)]) + g[s \ {Pick(s)}]]
  <2>1. \A g : P(g) <=> Sums(g, f, js)
    <3>1. \A s \in SUBSET js : s # {} => f[Pick(s)] = Signed(copies[Pick(s)])
      BY Picks
    <3> HIDE DEF f, js
    <3> QED BY <3>1 DEF Sums, Adds
  <2>2. FollowerNet = (CHOOSE g : P(g))[js]
    BY Zenon DEF FollowerNet, MapThenSumSet, MapThenFoldSet, Pick
  <2> HIDE DEF P, js
  <2>3. (CHOOSE g : P(g)) = (CHOOSE g : Sums(g, f, js))
    BY <2>1, Zenon
  <2> QED BY <2>2, <2>3, Zenon DEF Total, js
<1> QED BY <1>1, <1>2

\* The fills that are seen are the copies of the orders that filled, and their
\* shares.
LEMMA FillsAreOfFilledOrders ==
  ASSUME Faithful
  PROVE  /\ SeenFills = {pairs[i] : i \in FilledOrders}
         /\ \A i \in FilledOrders :
              /\ i \in DOMAIN orders /\ orders[i].filled \in Nat \ {0}
              /\ Signed(orders[i]) = IF orders[i].side = "buy" THEN orders[i].filled
                                     ELSE -orders[i].filled
              /\ Signed(copies[pairs[i]]) = IF orders[i].side = "buy" THEN Share(orders[i].filled)
                                            ELSE -Share(orders[i].filled)
<1>1. \A i \in DOMAIN orders : orders[i].filled \in Nat
  BY OrdersAreLots DEF Faithful, DayInv
<1>2. \A i \in DOMAIN orders : copies[pairs[i]].filled > 0 <=> orders[i].filled > 0
  <2> TAKE i \in DOMAIN orders
  <2>1. copies[pairs[i]].filled = Share(orders[i].filled)
    BY PairsAreRight
  <2>2. CASE orders[i].filled = 0
    BY <2>1, <2>2, NoShare
  <2>3. CASE orders[i].filled \in Nat \ {0}
    BY <2>1, <2>3, ShareOfLots
  <2> QED BY <1>1, <2>2, <2>3
<1>3. SeenFills = {pairs[i] : i \in FilledOrders}
  <2>1. SeenFills = {j \in DOMAIN copies : copies[j].filled > 0}
    BY DEF SeenFills, Seen, Faithful
  <2>2. \A j \in DOMAIN copies : copies[j].for \in DOMAIN orders /\ pairs[copies[j].for] = j
    BY PairsAreRight
  <2>3. \A i \in DOMAIN orders : pairs[i] \in DOMAIN copies
    BY PairsAreRight
  <2>4. ASSUME NEW j \in SeenFills PROVE j \in {pairs[i] : i \in FilledOrders}
    <3>1. copies[j].for \in DOMAIN orders /\ pairs[copies[j].for] = j /\ copies[j].filled > 0
      BY <2>1, <2>2, <2>4
    <3>2. copies[j].for \in FilledOrders
      BY <1>2, <3>1 DEF FilledOrders
    <3> QED BY <3>1, <3>2
  <2>5. ASSUME NEW i \in FilledOrders PROVE pairs[i] \in SeenFills
    BY <1>2, <2>1, <2>3, <2>5 DEF FilledOrders
  <2> QED BY <2>4, <2>5
<1>4. ASSUME NEW i \in FilledOrders
      PROVE  /\ i \in DOMAIN orders /\ orders[i].filled \in Nat \ {0}
             /\ Signed(orders[i]) = IF orders[i].side = "buy" THEN orders[i].filled
                                    ELSE -orders[i].filled
             /\ Signed(copies[pairs[i]]) = IF orders[i].side = "buy" THEN Share(orders[i].filled)
                                           ELSE -Share(orders[i].filled)
  <2>1. i \in DOMAIN orders /\ orders[i].filled > 0
    BY DEF FilledOrders
  <2>2. copies[pairs[i]].side = orders[i].side /\ copies[pairs[i]].filled = Share(orders[i].filled)
    BY <2>1, PairsAreRight
  <2>3. orders[i].filled \in Nat \ {0}
    BY <1>1, <2>1
  <2> QED BY <2>1, <2>2, <2>3 DEF Signed
<1> QED BY <1>3, <1>4

\* Where they are of one side the nets are the sums of their lots, with one sign.
LEMMA NetsOfOneSide ==
  ASSUME Faithful, FilledOrders # {}, NEW side \in Sides,
         \A i \in FilledOrders : orders[i].side = side
  PROVE  LET m == Total([i \in FilledOrders |-> orders[i].filled], FilledOrders)
             n == Total([i \in FilledOrders |-> Share(orders[i].filled)], FilledOrders)
         IN  \/ MasterNet = m /\ FollowerNet = n
             \/ MasterNet = -m /\ FollowerNet = -n
<1> DEFINE is == FilledOrders
           lots == [i \in is |-> orders[i].filled]
           shares == [i \in is |-> Share(orders[i].filled)]
           f == [i \in is |-> Signed(orders[i])]
           g == [j \in SeenFills |-> Signed(copies[j])]
           h == [i \in is |-> Signed(copies[pairs[i]])]
<1>1. /\ IsFiniteSet(is) /\ is \subseteq DOMAIN orders
      /\ \A i \in is : lots[i] \in Int /\ shares[i] \in Int
  <2>1. TypeOK /\ is \in SUBSET DOMAIN orders
    BY DEF Faithful, DayInv, FilledOrders
  <2>2. IsFiniteSet(is)
    BY <2>1, OrdersAreLots
  <2>3. \A i \in is : orders[i].filled \in Nat \ {0} /\ Share(orders[i].filled) \in Nat \ {0}
    BY FillsAreOfFilledOrders, ShareOfLots
  <2> QED BY <2>1, <2>2, <2>3
<1>2. \A i \in is : /\ f[i] = IF side = "buy" THEN lots[i] ELSE -lots[i]
                    /\ h[i] = IF side = "buy" THEN shares[i] ELSE -shares[i]
  BY FillsAreOfFilledOrders
<1>3. SeenFills = {pairs[i] : i \in is}
  BY FillsAreOfFilledOrders
<1>4. \A i \in is : h[i] = g[pairs[i]]
  BY <1>3
<1>5. \A i, k \in is : pairs[i] = pairs[k] => i = k
  BY <1>1, PairsAreRight
<1>6. MasterNet = Total(f, is) /\ FollowerNet = Total(g, SeenFills)
  BY NetSums
<1> HIDE DEF is, lots, shares, f, g, h
<1>7. \A i \in is : f[i] \in Int /\ h[i] \in Int
  BY <1>1, <1>2
<1>8. Total(g, SeenFills) = Total(h, is)
  BY <1>1, <1>3, <1>4, <1>5, <1>7, TotalOver
<1>9. CASE side = "buy"
  <2>1. Total(f, is) = Total(lots, is)
    <3>1. \A i \in is : f[i] \in Int /\ f[i] = lots[i]
      BY <1>2, <1>7, <1>9
    <3> QED BY <1>1, <3>1, TotalSame
  <2>2. Total(h, is) = Total(shares, is)
    <3>1. \A i \in is : h[i] \in Int /\ h[i] = shares[i]
      BY <1>2, <1>7, <1>9
    <3> QED BY <1>1, <3>1, TotalSame
  <2> QED BY <1>6, <1>8, <2>1, <2>2 DEF is, lots, shares
<1>10. CASE side # "buy"
  <2>1. Total(f, is) = -Total(lots, is)
    <3>1. \A i \in is : lots[i] \in Int /\ f[i] = -lots[i]
      BY <1>1, <1>2, <1>10
    <3> QED BY <1>1, <3>1, TotalMinus
  <2>2. Total(h, is) = -Total(shares, is)
    <3>1. \A i \in is : shares[i] \in Int /\ h[i] = -shares[i]
      BY <1>1, <1>2, <1>10
    <3> QED BY <1>1, <3>1, TotalMinus
  <2> QED BY <1>6, <1>8, <2>1, <2>2 DEF is, lots, shares
<1> QED BY <1>9, <1>10

\* The net of the follower is then his share of the master's, within a lot for
\* each order.
LEMMA NetIsMatched ==
  ASSUME Faithful, FilledOrders # {}, NEW side \in Sides,
         \A i \in FilledOrders : orders[i].side = side
  PROVE  GroupVerdict = "matched"
<1> DEFINE m == Total([i \in FilledOrders |-> orders[i].filled], FilledOrders)
           n == Total([i \in FilledOrders |-> Share(orders[i].filled)], FilledOrders)
           t == Share(m)
           c == Cardinality(FilledOrders)
<1>1. /\ m \in Nat \ {0} /\ n \in Nat /\ t \in Nat /\ c \in Nat
      /\ t <= n /\ n <= t + c
  <2> DEFINE f == [i \in FilledOrders |-> orders[i].filled]
             g == [i \in FilledOrders |-> Share(orders[i].filled)]
  <2>1. TypeOK /\ FilledOrders \in SUBSET DOMAIN orders
    BY DEF Faithful, DayInv, FilledOrders
  <2>2. IsFiniteSet(FilledOrders)
    BY <2>1, OrdersAreLots
  <2>3. g = [i \in FilledOrders |-> Share(f[i])] /\ \A i \in FilledOrders : f[i] \in Nat \ {0}
    BY FillsAreOfFilledOrders
  <2>4. m = Total(f, FilledOrders) /\ n = Total(g, FilledOrders)
    OBVIOUS
  <2> HIDE DEF f, g, m, n
  <2> QED BY <2>2, <2>3, <2>4, LotsAddUp
<1>2. \/ MasterNet = m /\ FollowerNet = n
      \/ MasterNet = -m /\ FollowerNet = -n
  BY NetsOfOneSide
<1>3. SeenFills # {} /\ ~Fault("unreadable")
  <2>1. SeenFills = {pairs[i] : i \in FilledOrders}
    BY FillsAreOfFilledOrders
  <2> QED BY <2>1 DEF Faithful
<1> HIDE DEF m, n, c
<1>4. \/ FollowerNet = n /\ TargetNet = t
      \/ FollowerNet = -n /\ TargetNet = -t
  <2>1. CASE MasterNet = m /\ FollowerNet = n
    BY <1>1, <2>1 DEF TargetNet
  <2>2. CASE MasterNet = -m /\ FollowerNet = -n
    <3>1. -m < 0 /\ -(-m) = m
      BY <1>1
    <3> QED BY <2>2, <3>1 DEF TargetNet
  <2> QED BY <1>2, <2>1, <2>2
<1> HIDE DEF t
<1>5. Abs(FollowerNet) = n /\ Abs(TargetNet) = t
  BY <1>1, <1>4 DEF Abs
<1>6. ~(FollowerNet * TargetNet < 0)
  <2>1. n * t \in Nat /\ (-n) * (-t) = n * t
    BY <1>1, Z3
  <2> QED BY <1>4, <2>1
<1>7. ~(n + Tolerance < t) /\ ~(n > t + Allowance(c))
  BY <1>1 DEF Tolerance, Allowance
<1> QED BY <1>3, <1>5, <1>6, <1>7 DEF GroupVerdict, c

\* An order that filled alone and wholly is graded by its copy.
LEMMA FillIsMatched ==
  ASSUME Faithful, NEW i \in FilledOrders, orders[i].filled = orders[i].size
  PROVE  FillGrade(i) = "matched"
<1> DEFINE j == pairs[i]
<1>1. i \in DOMAIN orders /\ orders[i].filled \in Nat \ {0}
  BY FillsAreOfFilledOrders
<1>2. /\ j \in DOMAIN copies /\ j # None /\ copies[j].for = i
      /\ copies[j].size = Share(orders[i].filled) /\ copies[j].filled = Share(orders[i].filled)
  BY <1>1, PairsAreRight
<1>3. Share(orders[i].filled) \in Nat \ {0}
  BY <1>1, ShareOfLots
<1>4. i \in DOMAIN fills
  <2>1. TypeOK /\ Reported
    BY DEF Faithful, DayInv
  <2>2. Len(orders) \in Nat /\ DOMAIN orders = 1 .. Len(orders)
    BY <2>1, Fields
  <2>3. rows # 0 /\ rows - 1 = Len(orders)
    BY <2>1, <2>2 DEF Reported
  <2>4. fills \in Seq({None} \union DOMAIN copies) /\ Len(fills) = Len(orders)
    BY <2>1, <2>3, TypeParts DEF RowsOK
  <2> QED BY <1>1, <2>2, <2>4
<1> HIDE DEF j
<1>5. fills[i] = j
  <2>1. orders[i].filled > 0 /\ copies[j].filled > 0
    BY <1>1, <1>2, <1>3
  <2> QED BY <1>2, <1>4, <2>1 DEF Faithful, DayInv, FoundFills
<1>6. legs[i].copy = j /\ legs[i].named
  BY <1>2 DEF Faithful, DayInv, Recorded
<1>7. RowLeg(i, j).copy = j
  BY <1>6 DEF RowLeg, LegOf
<1>8. /\ ~(copies[j].filled > copies[j].size + Tolerance)
      /\ ~(copies[j].filled + Tolerance < copies[j].size)
  <2> DEFINE s == Share(orders[i].filled)
  <2>1. s \in Nat /\ copies[j].filled = s /\ copies[j].size = s
    BY <1>2, <1>3
  <2> HIDE DEF s
  <2> QED BY <2>1 DEF Tolerance
<1> QED BY <1>2, <1>5, <1>7, <1>8 DEF FillGrade

\* A day that was copied rightly and written down reads clean: each order passes
\* order_compare, in a ladder or out of it, because the shares of the rungs come
\* to the share of the ladder within a lot for each; and where the master traded
\* one way, fill_compare finds the follower's net to be his share of the
\* master's and each order matched.
THEOREM RightDayIsClean == Spec => []FaithfulDayIsClean
<1>1. DayInv => FaithfulDayIsClean
  <2>1. SUFFICES ASSUME DayInv, Reported, ~Fault("unreadable"), ~Fault("unrecorded"),
                        \A i \in DOMAIN orders : Right(i)
                 PROVE  /\ \A i \in DOMAIN orders : OrderVerdict(i) \in Passes
                        /\ OneWay =>
                             /\ GroupVerdict = "matched"
                             /\ \A i \in FilledOrders :
                                  orders[i].filled = orders[i].size \/ Cardinality(FilledOrders) >= 2
                                  => FillVerdict(i) \in {"matched", "ladder"}
    BY DEF FaithfulDayIsClean, Fault
  <2>2. Faithful
    BY <2>1 DEF Faithful
  <2>3. \A i \in DOMAIN orders : OrderVerdict(i) \in Passes
    BY <2>2, RightIsGraded
  <2>4. ASSUME OneWay
        PROVE  /\ GroupVerdict = "matched"
               /\ \A i \in FilledOrders :
                    orders[i].filled = orders[i].size \/ Cardinality(FilledOrders) >= 2
                    => FillVerdict(i) \in {"matched", "ladder"}
    <3>1. PICK side \in Sides : \A i \in FilledOrders : orders[i].side = side
      <4> DEFINE sides == {orders[i].side : i \in FilledOrders}
      <4>1. sides \subseteq Sides
        <5>1. TypeOK /\ FilledOrders \in SUBSET DOMAIN orders
          BY <2>1 DEF DayInv, FilledOrders
        <5> QED BY <5>1, OrdersAreLots
      <4>2. IsFiniteSet(sides)
        <5>1. IsFiniteSet(Sides)
          <6>1. Sides = {"buy"} \union {"sell"}
            BY DEF Sides
          <6> QED BY <6>1, FS_Singleton, FS_AddElement
        <5> HIDE DEF sides
        <5> QED BY <4>1, <5>1, FS_Subset
      <4>3. \E side : sides = {side}
        <5>1. Cardinality(sides) = 1
          BY <2>4 DEF OneWay
        <5> HIDE DEF sides
        <5> QED BY <4>2, <5>1, FS_Singleton
      <4> QED BY <4>1, <4>3
    <3>2. FilledOrders # {}
      <4>1. SUFFICES ASSUME FilledOrders = {} PROVE FALSE
        OBVIOUS
      <4>2. {orders[i].side : i \in FilledOrders} = {}
        BY <4>1
      <4>3. Cardinality({}) = 1
        BY <2>4, <4>2 DEF OneWay
      <4> QED BY <4>3, FS_EmptySet
    <3>3. GroupVerdict = "matched"
      BY <2>2, <3>1, <3>2, NetIsMatched
    <3>4. ASSUME NEW i \in FilledOrders,
                 orders[i].filled = orders[i].size \/ Cardinality(FilledOrders) >= 2
          PROVE  FillVerdict(i) \in {"matched", "ladder"}
      <4>1. CASE Cardinality(FilledOrders) < 2
        <5>1. orders[i].filled = orders[i].size
          <6>1. IsFiniteSet(FilledOrders)
            BY <2>1, OrdersAreLots DEF DayInv, FilledOrders
          <6>2. Cardinality(FilledOrders) \in Nat
            BY <6>1, FS_CardinalityType
          <6> QED BY <3>4, <4>1, <6>2
        <5>2. FillGrade(i) = "matched"
          BY <2>2, <5>1, FillIsMatched
        <5> QED BY <4>1, <5>2 DEF FillVerdict
      <4>2. CASE ~(Cardinality(FilledOrders) < 2)
        BY <3>3, <4>2 DEF FillVerdict
      <4> QED BY <4>1, <4>2
    <3> QED BY <3>3, <3>4
  <2> QED BY <2>3, <2>4
<1> QED BY <1>1, DayInvariance, PTL
=============================================================================
