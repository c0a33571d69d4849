----------------------------- MODULE Recursion ------------------------------
(***************************************************************************)
(* Induction and recursion over the natural numbers, as far as the proofs  *)
(* of this project need them: every set of numbers has a least one, so     *)
(* what fails for no least number holds for all; and a function that is    *)
(* given by its first value and by a step exists.                          *)
(***************************************************************************)
EXTENDS Integers, NaturalsInduction, WellFoundedInduction, TLAPS

Before == {pair \in Nat \X Nat : pair[1] < pair[2]}

\* A set of numbers that is not empty has a least one.
LEMMA LeastIsThere == ASSUME NEW S \in SUBSET Nat, S # {} PROVE \E n \in S : \A m \in S : n <= m
<1>1. IsWellFoundedOn(Before, Nat)
  BY NatLessThanWellFounded, Zenon DEF OpToRel, Before
<1>2. PICK n \in S : \A m \in S : ~ (<<m, n>> \in Before)
  BY <1>1, WFMin, Zenon
<1>3. ASSUME NEW m \in S PROVE n <= m
  <2>1. m \in Nat /\ n \in Nat /\ ~ (<<m, n>> \in Before)
    BY <1>2
  <2>2. m < n => <<m, n>> \in Before
    BY <2>1 DEF Before
  <2> QED BY <2>1, <2>2
<1> QED BY <1>3

\* A set of numbers with 0 in it, and with the next of each of its own, is all
\* of them.
LEMMA Induction ==
    ASSUME NEW S, 0 \in S, \A n \in Nat : n \in S => n + 1 \in S
    PROVE  Nat \subseteq S
<1> DEFINE missing == {n \in Nat : n \notin S}
<1> SUFFICES ASSUME missing # {} PROVE FALSE
  OBVIOUS
<1>1. PICK least \in missing : \A m \in missing : least <= m
  BY LeastIsThere, Zenon
<1>2. least \in Nat /\ least # 0
  OBVIOUS
<1>3. least - 1 \in Nat /\ ~ (least <= least - 1)
  BY <1>2
<1>4. least - 1 \in S
  BY <1>1, <1>3
<1>5. (least - 1) + 1 = least
  BY <1>2
<1>6. least \in S
  BY <1>3, <1>4, <1>5
<1> QED BY <1>6

\* The functions that follow a first value and a step up to n.
Upto(n, X, first, next) ==
    {g \in [0 .. n -> X] : g[0] = first /\ \A k \in 0 .. n - 1 : g[k + 1] = next[<<k, g[k]>>]}

LEMMA UptoIsThere ==
    ASSUME NEW X, NEW first \in X, NEW next \in [Nat \X X -> X]
    PROVE  \A n \in Nat : Upto(n, X, first, next) # {}
<1> DEFINE S == {n \in Nat : Upto(n, X, first, next) # {}}
<1>1. 0 \in S
  <2>1. [k \in 0 .. 0 |-> first] \in Upto(0, X, first, next)
    BY DEF Upto
  <2> QED BY <2>1
<1>2. ASSUME NEW n \in Nat, n \in S PROVE n + 1 \in S
  <2>1. PICK g : g \in Upto(n, X, first, next)
    BY <1>2
  <2> DEFINE h == [k \in 0 .. n + 1 |-> IF k = n + 1 THEN next[<<n, g[n]>>] ELSE g[k]]
  <2>2. g \in [0 .. n -> X] /\ g[0] = first /\ \A k \in 0 .. n - 1 : g[k + 1] = next[<<k, g[k]>>]
    BY <2>1 DEF Upto
  <2>3. g[n] \in X /\ next[<<n, g[n]>>] \in X
    BY <2>2
  <2>4. h \in [0 .. n + 1 -> X] /\ h[0] = first
    BY <2>2, <2>3
  <2>5. ASSUME NEW k \in 0 .. (n + 1) - 1 PROVE h[k + 1] = next[<<k, h[k]>>]
    <3>1. CASE k = n
      <4>1. h[n + 1] = next[<<n, g[n]>>] /\ h[n] = g[n]
        OBVIOUS
      <4> QED BY <3>1, <4>1
    <3>2. CASE k # n
      <4>1. k \in 0 .. n - 1 /\ k + 1 \in 0 .. n
        BY <3>2
      <4> QED BY <2>2, <4>1
    <3> QED BY <3>1, <3>2
  <2> HIDE DEF h
  <2>6. h \in Upto(n + 1, X, first, next)
    BY <2>4, <2>5 DEF Upto
  <2> QED BY <2>6
<1> HIDE DEF S
<1>3. Nat \subseteq S
  BY <1>1, <1>2, Induction, Zenon
<1> QED BY <1>3 DEF S

LEMMA UptoAgree ==
    ASSUME NEW X, NEW first \in X, NEW next \in [Nat \X X -> X], NEW n \in Nat,
           NEW g \in Upto(n, X, first, next), NEW h \in Upto(n + 1, X, first, next)
    PROVE  g[n] = h[n]
<1> DEFINE S == {k \in Nat : k <= n => g[k] = h[k]}
<1>1. 0 \in S
  BY DEF Upto
<1>2. ASSUME NEW k \in Nat, k \in S PROVE k + 1 \in S
  <2> SUFFICES ASSUME k + 1 <= n PROVE g[k + 1] = h[k + 1]
    OBVIOUS
  <2>1. k \in 0 .. n - 1 /\ k \in 0 .. (n + 1) - 1 /\ g[k] = h[k]
    BY <1>2
  <2> QED BY <2>1 DEF Upto
<1> HIDE DEF S
<1>3. Nat \subseteq S
  BY <1>1, <1>2, Induction, Zenon
<1> QED BY <1>3 DEF S

\* The functions that follow a first value and a step for ever.
Followers(X, first, next) ==
    {f \in [Nat -> X] : f[0] = first /\ \A n \in Nat : f[n + 1] = next[<<n, f[n]>>]}

\* A first value and a step give a function.
LEMMA FunctionIsThere ==
    ASSUME NEW X, NEW first \in X, NEW next \in [Nat \X X -> X]
    PROVE  Followers(X, first, next) # {}
<1> DEFINE part(n) == CHOOSE g : g \in Upto(n, X, first, next)
           f == [n \in Nat |-> part(n)[n]]
<1>1. ASSUME NEW n \in Nat PROVE part(n) \in Upto(n, X, first, next)
  BY UptoIsThere
<1> HIDE DEF part
<1>2. f \in [Nat -> X]
  BY <1>1 DEF Upto
<1>3. f[0] = first
  BY <1>1 DEF Upto
<1>4. ASSUME NEW n \in Nat PROVE f[n + 1] = next[<<n, f[n]>>]
  <2>1. n + 1 \in Nat /\ n \in 0 .. (n + 1) - 1
    OBVIOUS
  <2>2. part(n)[n] = part(n + 1)[n]
    <3>1. part(n) \in Upto(n, X, first, next) /\ part(n + 1) \in Upto(n + 1, X, first, next)
      BY <1>1, <2>1
    <3> QED BY <3>1, UptoAgree
  <2>3. part(n + 1)[n + 1] = next[<<n, part(n + 1)[n]>>]
    BY <1>1, <2>1 DEF Upto
  <2> QED BY <2>1, <2>2, <2>3
<1> HIDE DEF f
<1> QED BY <1>2, <1>3, <1>4 DEF Followers
=============================================================================
