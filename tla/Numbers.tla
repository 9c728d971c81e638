------------------------------ MODULE Numbers ------------------------------
(***************************************************************************)
(* Lemmas about the natural numbers that several proofs need: induction    *)
(* and the existence of what a recursive definition computes from its      *)
(* predecessor, first-order (with a set in the place of a predicate, and a *)
(* function in that of an operator, since the provers cannot instantiate   *)
(* those), and quotients and remainders by a number that is not known.     *)
(***************************************************************************)
EXTENDS Naturals, WellFoundedInduction, TLAPS

-----------------------------------------------------------------------------
\* A set of numbers with 0 and the successor of each of its members has them all.
LEMMA Induct ==
  ASSUME NEW S, 0 \in S, \A n \in Nat : n \in S => n + 1 \in S
  PROVE Nat \subseteq S
<1> SUFFICES ASSUME Nat \ S # {} PROVE FALSE
  OBVIOUS
<1>1. PICK x \in Nat \ S : \A y \in Nat \ S : ~(<<y, x>> \in OpToRel(<, Nat))
  BY NatLessThanWellFounded, WFMin
<1>2. x # 0 /\ x - 1 \in Nat
  OBVIOUS
<1>3. <<x - 1, x>> \in OpToRel(<, Nat)
  <2>1. x - 1 < x
    BY <1>2
  <2>2. OpToRel(<, Nat) = {ss \in Nat \X Nat : ss[1] < ss[2]}
    BY DEF OpToRel
  <2> QED
    BY <1>2, <2>1, <2>2
<1>4. x - 1 \in S
  <2> SUFFICES ASSUME x - 1 \notin S PROVE FALSE
    OBVIOUS
  <2>1. x - 1 \in Nat \ S
    BY <1>2
  <2> QED
    BY <1>1, <1>3, <2>1
<1> QED
  BY <1>2, <1>4

\* A set of numbers that is not empty has a least one.
LEMMA Least ==
  ASSUME NEW S, S \subseteq Nat, S # {}
  PROVE  \E x \in S : \A y \in S : x <= y
<1>1. PICK x \in S : \A y \in S : ~(<<y, x>> \in OpToRel(<, Nat))
  BY NatLessThanWellFounded, WFMin
<1>2. OpToRel(<, Nat) = {ss \in Nat \X Nat : ss[1] < ss[2]}
  BY DEF OpToRel
<1>3. \A y \in S : x <= y
  <2> SUFFICES ASSUME NEW y \in S, ~(x <= y) PROVE FALSE
    OBVIOUS
  <2>1. y < x /\ y \in Nat /\ x \in Nat
    OBVIOUS
  <2>2. <<y, x>> \in OpToRel(<, Nat)
    BY <1>2, <2>1
  <2> QED
    BY <1>1, <2>2
<1> QED
  BY <1>3
-----------------------------------------------------------------------------
\* What takes the n-th value of an iteration to the next one.
Steps(V) == [Nat \X V -> V]

\* The function g iterates step, from first.
Iterates(g, V, step, first) ==
  g \in [Nat -> V] /\ g[0] = first /\ \A k \in Nat : g[k + 1] = step[<<k, g[k]>>]

\* What is defined from its predecessor exists: by gluing the runs up to each n.
LEMMA Iterated ==
  ASSUME NEW V, NEW step \in Steps(V), NEW first \in V
  PROVE  \E g : Iterates(g, V, step, first)
<1> USE DEF Steps, Iterates
<1> DEFINE Runs(n) == {f \in [0 .. n -> V] :
                         f[0] = first /\ \A k \in 0 .. n - 1 : f[k + 1] = step[<<k, f[k]>>]}
<1>1. \A n \in Nat : Runs(n) # {}
  <2> DEFINE S == {n \in Nat : Runs(n) # {}}
  <2>1. 0 \in S
    <3>1. [k \in 0 .. 0 |-> first] \in Runs(0)
      OBVIOUS
    <3> QED
      BY <3>1
  <2>2. ASSUME NEW n \in Nat, n \in S PROVE n + 1 \in S
    <3>1. PICK f \in Runs(n) : TRUE
      BY <2>2
    <3> DEFINE g == [k \in 0 .. n + 1 |-> IF k = n + 1 THEN step[<<n, f[n]>>] ELSE f[k]]
    <3>2. g \in [0 .. n + 1 -> V] /\ g[0] = first
      OBVIOUS
    <3>3. \A k \in 0 .. n : g[k + 1] = step[<<k, g[k]>>]
      <4> SUFFICES ASSUME NEW k \in 0 .. n PROVE g[k + 1] = step[<<k, g[k]>>]
        OBVIOUS
      <4>1. CASE k = n
        <5>1. g[n + 1] = step[<<n, f[n]>>] /\ g[n] = f[n]
          BY <3>1
        <5> QED
          BY <4>1, <5>1
      <4>2. CASE k # n
        BY <4>2, <3>1
      <4> QED
        BY <4>1, <4>2
    <3>4. g \in Runs(n + 1)
      <4>1. (n + 1) - 1 = n
        OBVIOUS
      <4> HIDE DEF g
      <4> QED
        BY <3>2, <3>3, <4>1
    <3> HIDE DEF g, Runs
    <3> QED
      BY <3>4
  <2> HIDE DEF S
  <2>3. Nat \subseteq S
    BY <2>1, <2>2, Induct
  <2> QED
    BY <2>3 DEF S
<1>2. ASSUME NEW n \in Nat, NEW m \in Nat, n <= m, NEW f \in Runs(n), NEW g \in Runs(m)
      PROVE  f[n] = g[n]
  <2> DEFINE S == {k \in Nat : k <= n => f[k] = g[k]}
  <2>1. 0 \in S
    OBVIOUS
  <2>2. ASSUME NEW k \in Nat, k \in S PROVE k + 1 \in S
    <3>1. CASE k + 1 <= n
      <4>1. f[k + 1] = step[<<k, f[k]>>] /\ g[k + 1] = step[<<k, g[k]>>]
        BY <1>2, <3>1
      <4>2. f[k] = g[k]
        BY <2>2, <3>1
      <4> QED
        BY <4>1, <4>2
    <3>2. CASE ~(k + 1 <= n)
      BY <3>2
    <3> QED
      BY <3>1, <3>2
  <2> HIDE DEF S
  <2>3. Nat \subseteq S
    BY <2>1, <2>2, Induct
  <2> QED
    BY <2>3 DEF S
<1> DEFINE run(n) == CHOOSE f \in Runs(n) : TRUE
           g == [n \in Nat |-> run(n)[n]]
<1>3. \A n \in Nat : run(n) \in Runs(n)
  BY <1>1
<1> HIDE DEF run
<1>4. g \in [Nat -> V] /\ g[0] = first
  BY <1>3
<1>5. ASSUME NEW k \in Nat PROVE g[k + 1] = step[<<k, g[k]>>]
  <2>1. run(k)[k] = run(k + 1)[k]
    <3>1. k + 1 \in Nat /\ k <= k + 1
      OBVIOUS
    <3>2. run(k) \in Runs(k) /\ run(k + 1) \in Runs(k + 1)
      BY <1>3, <3>1
    <3> HIDE DEF Runs
    <3> QED
      BY <1>2, <3>1, <3>2
  <2>2. run(k + 1)[k + 1] = step[<<k, run(k + 1)[k]>>]
    BY <1>3
  <2> QED
    BY <2>1, <2>2
<1> QED
  BY <1>4, <1>5
-----------------------------------------------------------------------------
\* Quotient and remainder are the only ones.
LEMMA QuotientOf ==
  ASSUME NEW w \in Nat \ {0}, NEW x \in 0 .. w - 1, NEW y \in Nat
  PROVE  (y * w + x) \div w = y /\ (y * w + x) % w = x
BY SMT

LEMMA QuotientRemainder ==
  ASSUME NEW w \in Nat \ {0}, NEW s \in Nat
  PROVE  /\ s = (s \div w) * w + (s % w)
         /\ s \div w \in Nat /\ s % w \in 0 .. w - 1
BY SMT

LEMMA ProductOrder ==
  ASSUME NEW w \in Nat \ {0}, NEW a \in Nat, NEW b \in Nat, a < b
  PROVE  a * w + w <= b * w
<1>1. (a + 1) * w <= b * w
  BY SMT
<1>2. (a + 1) * w = a * w + w
  BY SMT
<1> QED
  BY <1>1, <1>2

LEMMA QuotientBelow ==
  ASSUME NEW w \in Nat \ {0}, NEW s \in Nat, NEW m \in Nat
  PROVE  s \div w < m <=> s < m * w
<1> DEFINE q == s \div w
           r == s % w
<1>1. s = q * w + r /\ q \in Nat /\ r \in 0 .. w - 1
  BY QuotientRemainder
<1> HIDE DEF q, r
<1>2. ASSUME q < m PROVE s < m * w
  <2>1. q * w + w <= m * w
    BY <1>1, <1>2, ProductOrder
  <2> QED
    BY <1>1, <2>1
<1>3. ASSUME ~(q < m) PROVE ~(s < m * w)
  <2>1. m * w <= q * w
    <3>1. CASE m = q
      BY <1>1, <3>1
    <3>2. CASE m < q
      <4>1. m * w + w <= q * w
        BY <1>1, <3>2, ProductOrder
      <4> QED
        BY <1>1, <4>1
    <3> QED
      BY <1>1, <1>3, <3>1, <3>2
  <2> QED
    BY <1>1, <2>1
<1> QED
  BY <1>2, <1>3 DEF q

=============================================================================
