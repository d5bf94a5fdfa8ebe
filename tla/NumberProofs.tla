---------------------------- MODULE NumberProofs ----------------------------
(***************************************************************************)
(* What the proofs about lists, levels and counts share.                   *)
(***************************************************************************)
EXTENDS Common, FiniteSetTheorems, WellFoundedInduction, TLAPS

\* A set of numbers has a least one: induction, by a least counterexample.
LEMMA LeastNat ==
    ASSUME NEW T, T \subseteq Nat, T # {}
    PROVE  \E n \in T : \A m \in T : n <= m
<1> DEFINE R == {ss \in Nat \X Nat : ss[1] < ss[2]}
<1>1. IsWellFoundedOn(R, Nat)
  BY NatLessThanWellFounded DEF OpToRel
<1> HIDE DEF R
<1>2. PICK n \in T : \A m \in T : ~(<<m, n>> \in R)
  BY <1>1, WFMin
<1>3. \A m \in T : n <= m
  <2> TAKE m \in T
  <2>1. ~(<<m, n>> \in R)
    BY <1>2
  <2>2. m \in Nat /\ n \in Nat
    OBVIOUS
  <2>3. ~(m < n)
    BY <2>1, <2>2 DEF R
  <2> QED
    BY <2>2, <2>3
<1> QED
  BY <1>2, <1>3

-----------------------------------------------------------------------------
(* A set in its order. *)

\* Everyone but oneself is ahead or behind, as a strict order of all has it.
Orders(ahead) ==
    /\ IsFiniteSet(DOMAIN ahead)
    /\ \A n \in DOMAIN ahead :
          /\ ahead[n] \subseteq DOMAIN ahead /\ n \notin ahead[n]
          /\ \A m \in ahead[n] : ahead[m] \subseteq ahead[n]
    /\ \A m, n \in DOMAIN ahead : m = n \/ m \in ahead[n] \/ n \in ahead[m]

LEMMA AheadIsSmaller ==
    ASSUME NEW ahead, Orders(ahead), NEW m \in DOMAIN ahead, NEW n \in DOMAIN ahead
    PROVE  /\ Cardinality(ahead[n]) \in Nat
           /\ m \in ahead[n] <=> Cardinality(ahead[m]) < Cardinality(ahead[n])
<1>1. \A k \in DOMAIN ahead : IsFiniteSet(ahead[k]) /\ Cardinality(ahead[k]) \in Nat
  BY FS_Subset, FS_CardinalityType DEF Orders
<1>2. ASSUME NEW k \in DOMAIN ahead, NEW l \in DOMAIN ahead, k \in ahead[l]
      PROVE  Cardinality(ahead[k]) < Cardinality(ahead[l])
  <2>1. ahead[k] \subseteq ahead[l] /\ ahead[k] # ahead[l]
    BY <1>2 DEF Orders
  <2>2. /\ Cardinality(ahead[k]) <= Cardinality(ahead[l])
        /\ Cardinality(ahead[k]) # Cardinality(ahead[l])
    BY <1>1, <2>1, FS_Subset
  <2> QED
    BY <1>1, <2>2
<1>3. m = n \/ m \in ahead[n] \/ n \in ahead[m]
  BY DEF Orders
<1> QED
  BY <1>1, <1>2, <1>3 DEF Orders

\* Each has a place of its own, the one after those ahead.
LEMMA InOrderIs ==
    ASSUME NEW ahead, Orders(ahead)
    PROVE  LET s == InOrder(ahead)
               size == Cardinality(DOMAIN ahead)
           IN /\ size \in Nat /\ s \in [1 .. size -> DOMAIN ahead]
              /\ \A n \in DOMAIN ahead : /\ Cardinality(ahead[n]) + 1 \in 1 .. size
                                         /\ s[Cardinality(ahead[n]) + 1] = n
              /\ \A i \in 1 .. size : Cardinality(ahead[s[i]]) = i - 1
              /\ \A i, j \in 1 .. size : i < j <=> s[i] \in ahead[s[j]]
<1> DEFINE S == DOMAIN ahead
           size == Cardinality(S)
           place == [n \in S |-> Cardinality(ahead[n]) + 1]
           s == InOrder(ahead)
<1>1. IsFiniteSet(S) /\ size \in Nat
  BY FS_CardinalityType DEF Orders
<1>2. ASSUME NEW n \in S PROVE Cardinality(ahead[n]) \in Nat /\ place[n] \in 1 .. size
  <2>1. ahead[n] \subseteq S \ {n} /\ IsFiniteSet(S \ {n}) /\ Cardinality(S \ {n}) = size - 1
    BY <1>1, FS_RemoveElement DEF Orders
  <2>2. Cardinality(ahead[n]) <= size - 1 /\ Cardinality(ahead[n]) \in Nat
    BY <2>1, FS_Subset, AheadIsSmaller
  <2> QED
    BY <1>1, <2>2
<1>3. place \in Injection(S, 1 .. size)
  <2>1. ASSUME NEW m \in S, NEW n \in S, place[m] = place[n] PROVE m = n
    <3>1. Cardinality(ahead[m]) = Cardinality(ahead[n])
      BY <1>2, <2>1
    <3>2. m \notin ahead[n] /\ n \notin ahead[m]
      BY <3>1, AheadIsSmaller
    <3> QED
      BY <3>2 DEF Orders
  <2> QED
    BY <1>2, <2>1 DEF Injection, IsInjective
<1>4. place \in Surjection(S, 1 .. size)
  BY <1>1, <1>3, FS_Interval, FS_Injection
<1>5. ASSUME NEW i \in 1 .. size
      PROVE  s[i] \in S /\ Cardinality(ahead[s[i]]) = i - 1
  <2>1. \E n \in S : place[n] = i
    BY <1>4, <1>5 DEF Surjection
  <2>2. \E n \in S : Cardinality(ahead[n]) = i - 1
    BY <1>2, <2>1
  <2>3. s[i] = CHOOSE n \in S : Cardinality(ahead[n]) = i - 1
    BY <1>5 DEF InOrder
  <2> QED
    BY <2>2, <2>3
<1>6. DOMAIN s = 1 .. size /\ s = [i \in 1 .. size |-> s[i]]
  BY DEF InOrder
<1> HIDE DEF s
<1>7. ASSUME NEW n \in S
      PROVE  Cardinality(ahead[n]) + 1 \in 1 .. size /\ s[Cardinality(ahead[n]) + 1] = n
  <2> DEFINE i == Cardinality(ahead[n]) + 1
  <2>1. i \in 1 .. size /\ place[s[i]] = place[n] /\ s[i] \in S
    BY <1>2, <1>5
  <2> QED
    BY <1>3, <2>1 DEF Injection, IsInjective
<1>8. ASSUME NEW i \in 1 .. size, NEW j \in 1 .. size PROVE i < j <=> s[i] \in ahead[s[j]]
  BY <1>5, AheadIsSmaller
<1> QED
  BY <1>1, <1>5, <1>6, <1>7, <1>8 DEF s
-----------------------------------------------------------------------------
(* Amounts are added up to a number, in any order. *)

One(s) == CHOOSE e \in s : TRUE
Adds(amounts, h, s) == IF s = {} THEN 0 ELSE amounts[One(s)] + h[s \ {One(s)}]
Totals(amounts, h) == [s \in SUBSET (DOMAIN amounts) |-> Adds(amounts, h, s)]
Summed(amounts) == (CHOOSE h : h = Totals(amounts, h))[DOMAIN amounts]

LEMMA OneLess ==
    ASSUME NEW S, IsFiniteSet(S), NEW s \in SUBSET S, s # {}
    PROVE  /\ One(s) \in s /\ s \ {One(s)} \in SUBSET S
           /\ Cardinality(s) \in Nat /\ Cardinality(s \ {One(s)}) \in Nat
           /\ Cardinality(s \ {One(s)}) = Cardinality(s) - 1
<1>1. One(s) \in s
  BY DEF One
<1>2. IsFiniteSet(s) /\ IsFiniteSet(s \ {One(s)})
  BY FS_Subset
<1> QED
  BY <1>1, <1>2, FS_RemoveElement, FS_CardinalityType

LEMMA SubsetCounts ==
    ASSUME NEW S, IsFiniteSet(S), NEW s \in SUBSET S
    PROVE  Cardinality(s) \in Nat /\ Cardinality(S) \in Nat /\ Cardinality(s) <= Cardinality(S)
BY FS_Subset, FS_CardinalityType

\* The totals exist: they can be added up set by set, the larger after the smaller.
LEMMA TotalsExist ==
    ASSUME NEW S, IsFiniteSet(S), NEW amounts \in [S -> Int]
    PROVE  \E h : h = Totals(amounts, h)
<1> DEFINE Upto(n) == \E h \in [SUBSET S -> Int] :
                        \A s \in SUBSET S : Cardinality(s) <= n => h[s] = Adds(amounts, h, s)
           Not == {n \in Nat : ~Upto(n)}
<1>1. Upto(0)
  <2> DEFINE h == [s \in SUBSET S |-> 0]
  <2>1. \A s \in SUBSET S : Cardinality(s) <= 0 => s = {}
    <3> SUFFICES ASSUME NEW s \in SUBSET S, Cardinality(s) <= 0, s # {} PROVE FALSE
      OBVIOUS
    <3>1. /\ Cardinality(s) \in Nat /\ Cardinality(s \ {One(s)}) \in Nat
          /\ Cardinality(s \ {One(s)}) = Cardinality(s) - 1
      BY OneLess
    <3> QED
      BY <3>1
  <2>2. h \in [SUBSET S -> Int] /\ \A s \in SUBSET S : Cardinality(s) <= 0 => h[s] = Adds(amounts, h, s)
    BY <2>1 DEF Adds
  <2> QED
    BY <2>2
<1>2. ASSUME NEW n \in Nat, Upto(n) PROVE Upto(n + 1)
  <2> PICK h \in [SUBSET S -> Int] :
        \A s \in SUBSET S : Cardinality(s) <= n => h[s] = Adds(amounts, h, s)
    BY <1>2
  <2> DEFINE g == [s \in SUBSET S |-> Adds(amounts, h, s)]
  <2>1. \A s \in SUBSET S : Adds(amounts, h, s) \in Int
    <3> TAKE s \in SUBSET S
    <3>1. CASE s = {}
      BY <3>1 DEF Adds
    <3>2. CASE s # {}
      <4>1. One(s) \in S /\ s \ {One(s)} \in SUBSET S
        BY <3>2, OneLess
      <4> QED
        BY <3>2, <4>1 DEF Adds
    <3> QED
      BY <3>1, <3>2
  <2>2. g \in [SUBSET S -> Int]
    BY <2>1
  <2>3. ASSUME NEW s \in SUBSET S, Cardinality(s) <= n + 1 PROVE g[s] = Adds(amounts, g, s)
    <3>1. CASE s = {}
      BY <3>1 DEF Adds
    <3>2. CASE s # {}
      <4>1. /\ s \ {One(s)} \in SUBSET S /\ Cardinality(s) \in Nat
            /\ Cardinality(s \ {One(s)}) = Cardinality(s) - 1
        BY <3>2, OneLess
      <4>2. h[s \ {One(s)}] = Adds(amounts, h, s \ {One(s)})
        BY <2>3, <4>1
      <4>3. g[s \ {One(s)}] = h[s \ {One(s)}]
        BY <4>1, <4>2
      <4>4. g[s] = amounts[One(s)] + h[s \ {One(s)}]
        BY <3>2 DEF Adds
      <4> HIDE DEF g
      <4> QED
        BY <3>2, <4>3, <4>4 DEF Adds
    <3> QED
      BY <3>1, <3>2
  <2> HIDE DEF g
  <2> QED
    BY <2>2, <2>3
<1> HIDE DEF Upto
<1>3. Not = {}
  <2> SUFFICES ASSUME Not # {} PROVE FALSE
    OBVIOUS
  <2>1. PICK n \in Not : \A m \in Not : n <= m
    BY LeastNat
  <2>2. n # 0 /\ n \in Nat /\ ~Upto(n)
    BY <1>1, <2>1
  <2>3. n - 1 \in Nat /\ n - 1 \notin Not
    BY <2>1, <2>2
  <2>4. Upto(n - 1)
    BY <2>3
  <2>5. Upto((n - 1) + 1)
    BY <1>2, <2>3, <2>4
  <2> QED
    BY <2>2, <2>5
<1>4. Upto(Cardinality(S))
  BY <1>3, FS_CardinalityType
<1>5. PICK h \in [SUBSET S -> Int] :
        \A s \in SUBSET S : Cardinality(s) <= Cardinality(S) => h[s] = Adds(amounts, h, s)
  BY <1>4 DEF Upto
<1>6. \A s \in SUBSET S : h[s] = Adds(amounts, h, s)
  BY <1>5, SubsetCounts
<1>7. DOMAIN amounts = S /\ h = [s \in SUBSET S |-> h[s]]
  OBVIOUS
<1>8. h = [s \in SUBSET S |-> Adds(amounts, h, s)]
  BY <1>6, <1>7
<1> QED
  BY <1>7, <1>8 DEF Totals

LEMMA SmallestSet ==
    ASSUME NEW S, IsFiniteSet(S), NEW odd \in SUBSET (SUBSET S), odd # {}
    PROVE  \E s \in odd : \A x \in s : s \ {x} \notin odd
<1> DEFINE Sizes == {Cardinality(s) : s \in odd}
<1>1. Sizes \subseteq Nat /\ Sizes # {}
  BY SubsetCounts
<1>2. PICK n \in Sizes : \A m \in Sizes : n <= m
  BY <1>1, LeastNat
<1>3. PICK s \in odd : n = Cardinality(s)
  BY <1>2
<1>4. ASSUME NEW x \in s PROVE s \ {x} \notin odd
  <2>1. IsFiniteSet(s) /\ Cardinality(s) \in Nat /\ Cardinality(s \ {x}) = Cardinality(s) - 1
    BY FS_Subset, FS_RemoveElement, FS_CardinalityType
  <2>2. ASSUME s \ {x} \in odd PROVE n <= Cardinality(s \ {x})
    BY <1>2, <2>2
  <2> QED
    BY <1>3, <2>1, <2>2
<1> QED
  BY <1>4

\* What each set of them adds up to.
Adding(amounts, S, h) ==
    h \in [SUBSET S -> Int] /\ \A s \in SUBSET S : h[s] = Adds(amounts, h, s)

\* Whichever of them is added last.
AnyLast(amounts, S, h) ==
    \A s \in SUBSET S, x \in S : x \in s => h[s] = amounts[x] + h[s \ {x}]

LEMMA TotalsAre ==
    ASSUME NEW S, IsFiniteSet(S), NEW amounts \in [S -> Int]
    PROVE  \E h : Summed(amounts) = h[S] /\ Adding(amounts, S, h)
<1> DEFINE h == CHOOSE f : f = Totals(amounts, f)
           odd == {s \in SUBSET S : h[s] \notin Int}
<1>1. h = Totals(amounts, h)
  BY TotalsExist
<1> HIDE DEF h
<1>2. \A s \in SUBSET S : h[s] = Adds(amounts, h, s)
  BY <1>1 DEF Totals
<1>3. odd = {}
  <2> SUFFICES ASSUME odd # {} PROVE FALSE
    OBVIOUS
  <2>1. PICK s \in odd : \A x \in s : s \ {x} \notin odd
    BY SmallestSet
  <2>2. s # {}
    <3>1. s \in SUBSET S /\ h[s] \notin Int
      BY <2>1
    <3>2. h[s] = Adds(amounts, h, s)
      BY <1>2, <3>1
    <3> QED
      BY <3>1, <3>2 DEF Adds
  <2>3. One(s) \in s /\ One(s) \in S /\ h[s \ {One(s)}] \in Int
    BY <2>1, <2>2 DEF One
  <2>4. h[s] = amounts[One(s)] + h[s \ {One(s)}]
    BY <1>2, <2>1, <2>2 DEF Adds
  <2> QED
    BY <2>1, <2>3, <2>4
<1>4. DOMAIN h = SUBSET S /\ h = [s \in SUBSET S |-> h[s]]
  BY <1>1 DEF Totals
<1>5. h \in [SUBSET S -> Int]
  BY <1>3, <1>4
<1>6. Summed(amounts) = h[S]
  BY DEF h, Summed
<1> QED
  BY <1>2, <1>5, <1>6 DEF Adding

LEMMA AnyAddsLast ==
    ASSUME NEW S, IsFiniteSet(S), NEW amounts \in [S -> Int], NEW h, Adding(amounts, S, h)
    PROVE  AnyLast(amounts, S, h)
<1> DEFINE odd == {s \in SUBSET S : \E x \in s : h[s] # amounts[x] + h[s \ {x}]}
<1> SUFFICES ASSUME odd # {} PROVE FALSE
  BY DEF AnyLast
<1>1. PICK s \in odd : \A x \in s : s \ {x} \notin odd
  BY SmallestSet
<1>2. PICK x \in s : h[s] # amounts[x] + h[s \ {x}]
  BY <1>1
<1> DEFINE y == One(s)
<1>3. y \in s /\ y \in S /\ x \in S /\ s \in SUBSET S
  BY <1>1 DEF One
<1>4. h[s] = amounts[y] + h[s \ {y}]
  BY <1>3 DEF Adds, Adding
<1> HIDE DEF y
<1>5. x # y
  BY <1>2, <1>4
<1>6. h[s \ {y}] = amounts[x] + h[(s \ {y}) \ {x}] /\ h[s \ {x}] = amounts[y] + h[(s \ {x}) \ {y}]
  BY <1>1, <1>3, <1>5
<1>7. (s \ {y}) \ {x} = (s \ {x}) \ {y} /\ (s \ {x}) \ {y} \in SUBSET S
  BY <1>3
<1>8. h[(s \ {x}) \ {y}] \in Int /\ amounts[x] \in Int /\ amounts[y] \in Int
  BY <1>3, <1>7 DEF Adding
<1> PICK r \in Int : r = h[(s \ {x}) \ {y}]
  BY <1>8
<1>9. h[s] = amounts[y] + (amounts[x] + r) /\ h[s \ {x}] = amounts[y] + r
  BY <1>4, <1>6, <1>7
<1> QED
  BY <1>2, <1>8, <1>9

\* What is nothing does not count.
LEMMA NothingAdds ==
    ASSUME NEW S, IsFiniteSet(S), NEW amounts \in [S -> Int], NEW D \in SUBSET S,
           \A x \in S \ D : amounts[x] = 0
    PROVE  Summed(amounts) = Summed([x \in D |-> amounts[x]])
<1> DEFINE less == [x \in D |-> amounts[x]]
<1>1. IsFiniteSet(D) /\ less \in [D -> Int] /\ DOMAIN less = D
  BY FS_Subset
<1>2. PICK h : Summed(amounts) = h[S] /\ Adding(amounts, S, h)
  BY TotalsAre
<1>3. PICK g : Summed(less) = g[D] /\ Adding(less, D, g)
  BY <1>1, TotalsAre
<1>4. \A s \in SUBSET D, x \in D : x \in s => g[s] = amounts[x] + g[s \ {x}]
  <2> HIDE DEF less
  <2>1. \A s \in SUBSET D, x \in D : x \in s => g[s] = less[x] + g[s \ {x}]
    BY <1>1, <1>3, AnyAddsLast DEF AnyLast
  <2> QED
    BY <2>1 DEF less
<1>5. \A s \in SUBSET S, x \in S : x \in s => h[s] = amounts[x] + h[s \ {x}]
  BY <1>2, AnyAddsLast DEF AnyLast
<1>6. h[{}] = 0 /\ g[{}] = 0
  BY <1>2, <1>3 DEF Adds, Adding
<1> DEFINE odd == {s \in SUBSET S : h[s] # g[s \cap D]}
<1>7. odd = {}
  <2> SUFFICES ASSUME odd # {} PROVE FALSE
    OBVIOUS
  <2>1. PICK s \in odd : \A x \in s : s \ {x} \notin odd
    BY SmallestSet
  <2>2. s # {} /\ s \in SUBSET S
    BY <1>6, <2>1
  <2>3. PICK x \in s : TRUE
    BY <2>2
  <2>4. h[s] = amounts[x] + h[s \ {x}] /\ h[s \ {x}] = g[(s \ {x}) \cap D]
    BY <1>5, <2>1, <2>2
  <2>5. CASE x \in D
    <3>1. x \in s \cap D /\ s \cap D \in SUBSET D /\ (s \ {x}) \cap D = (s \cap D) \ {x}
      BY <2>2, <2>5
    <3>2. g[s \cap D] = amounts[x] + g[(s \cap D) \ {x}]
      BY <1>4, <3>1
    <3> QED
      BY <2>1, <2>4, <3>1, <3>2
  <2>6. CASE x \notin D
    <3>1. (s \ {x}) \cap D = s \cap D /\ amounts[x] = 0 /\ s \cap D \in SUBSET D
      BY <2>2, <2>6
    <3>2. g[s \cap D] \in Int
      BY <1>3, <3>1 DEF Adding
    <3>3. h[s] = 0 + g[s \cap D]
      BY <2>4, <3>1
    <3> QED
      BY <2>1, <3>2, <3>3
  <2> QED
    BY <2>5, <2>6
<1>8. h[S] = g[S \cap D] /\ S \cap D = D
  BY <1>7
<1> QED
  BY <1>2, <1>3, <1>8
=============================================================================
