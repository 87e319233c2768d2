----------------------------- MODULE Recursion -----------------------------
(***************************************************************************)
(* Induction over the naturals and definition by recursion, in the form    *)
(* the provers can use: over a set instead of over a predicate, and with   *)
(* the base and the step of the recursion as constants that an INSTANCE    *)
(* gives their value.                                                      *)
(***************************************************************************)
EXTENDS Integers, WellFoundedInduction, TLAPS

CONSTANTS Base, Step(_, _)

Values[n \in Nat] == IF n = 0 THEN Base ELSE Step(Values[n - 1], n)

\* Every set of naturals that is not empty has a least member.
LEMMA LeastOf ==
    ASSUME NEW S \in SUBSET Nat, S # {}
    PROVE  \E m \in S : \A k \in S : m <= k
  <1> DEFINE R == {pair \in Nat \X Nat : pair[1] < pair[2]}
  <1>1. IsWellFoundedOn(R, Nat)
    BY NatLessThanWellFounded DEF OpToRel
  <1>2. PICK m \in S : \A k \in S : <<k, m>> \notin R
    <2> HIDE DEF R
    <2> QED BY <1>1, WFMin
  <1>3. ASSUME NEW k \in S
        PROVE  ~(k < m)
    <2>1. <<k, m>> \in R <=> k < m
      OBVIOUS
    <2> HIDE DEF R
    <2>2. QED BY <1>2, <2>1
  <1>4. QED BY <1>3

\* A set that holds 0 and the successor of every natural it holds, holds all.
LEMMA ByInduction ==
    ASSUME NEW S, 0 \in S, \A n \in Nat : n \in S => n + 1 \in S
    PROVE  Nat \subseteq S
  <1> SUFFICES ASSUME ~(Nat \subseteq S)
               PROVE  FALSE
    OBVIOUS
  <1>1. PICK m \in Nat \ S : \A k \in Nat \ S : m <= k
    BY LeastOf
  <1>2. m # 0 /\ m - 1 \in Nat /\ ~(m <= m - 1)
    OBVIOUS
  <1>3. m - 1 \in S
    BY <1>1, <1>2
  <1>4. m \in S
    BY <1>2, <1>3
  <1>5. QED BY <1>4

-----------------------------------------------------------------------------
\* Functions that follow the recursion up to n: there is one, and they agree.
Equation(f, n) == f[n] = IF n = 0 THEN Base ELSE Step(f[n - 1], n)
UpTo(g, n) == \A k \in 0..n : Equation(g, k)

LEMMA Unique ==
    ASSUME NEW g, NEW h, NEW n \in Nat, UpTo(g, n), UpTo(h, n)
    PROVE  g[n] = h[n]
  <1> DEFINE S == {k \in Nat : k <= n => g[k] = h[k]}
  <1>1. 0 \in S
    BY DEF UpTo, Equation
  <1>2. ASSUME NEW k \in Nat, k \in S
        PROVE  k + 1 \in S
    <2>1. CASE k + 1 <= n
      <3>1. k + 1 \in 0..n /\ k + 1 # 0 /\ (k + 1) - 1 = k
        BY <2>1
      <3>2. Equation(g, k + 1) /\ Equation(h, k + 1) /\ g[k] = h[k]
        BY <1>2, <2>1, <3>1 DEF UpTo
      <3>3. QED BY <3>1, <3>2 DEF Equation
    <2>2. QED BY <2>1
  <1>3. Nat \subseteq S
    <2> HIDE DEF S
    <2> QED BY <1>1, <1>2, ByInduction
  <1>4. QED BY <1>3

LEMMA Exists == \A n \in Nat : \E g : UpTo(g, n)
  <1> DEFINE S == {n \in Nat : \E g : UpTo(g, n)}
  <1>1. 0 \in S
    <2>1. UpTo([k \in {0} |-> Base], 0)
      BY DEF UpTo, Equation
    <2>2. QED BY <2>1
  <1>2. ASSUME NEW n \in Nat, n \in S
        PROVE  n + 1 \in S
    <2>1. PICK g : UpTo(g, n)
      BY <1>2
    <2> DEFINE h == [k \in 0..(n + 1) |-> IF k <= n THEN g[k] ELSE Step(g[n], n + 1)]
    <2>2. ASSUME NEW k \in 0..(n + 1)
          PROVE  Equation(h, k)
      <3>1. CASE k <= n
        <4>1. k \in 0..n /\ h[k] = g[k] /\ (k # 0 => h[k - 1] = g[k - 1])
          BY <3>1
        <4>2. Equation(g, k)
          BY <2>1, <4>1 DEF UpTo
        <4> HIDE DEF h
        <4>3. QED BY <4>1, <4>2 DEF Equation
      <3>2. CASE ~(k <= n)
        <4>1. k = n + 1 /\ k # 0 /\ h[k] = Step(g[n], n + 1) /\ h[k - 1] = g[n]
          BY <3>2
        <4> HIDE DEF h
        <4>2. QED BY <4>1 DEF Equation
      <3>3. QED BY <3>1, <3>2
    <2>3. UpTo(h, n + 1)
      BY <2>2 DEF UpTo
    <2>4. QED BY <2>3
  <1>3. Nat \subseteq S
    <2> HIDE DEF S
    <2> QED BY <1>1, <1>2, ByInduction
  <1>4. QED BY <1>3

(***************************************************************************)
(* A function defined by recursion follows its equation: the definition    *)
(* chooses a function that does, and there is one, put together from those *)
(* that follow it up to n.                                                 *)
(***************************************************************************)
THEOREM FollowsEquation ==
    Values = [n \in Nat |-> IF n = 0 THEN Base ELSE Step(Values[n - 1], n)]
  <1> DEFINE G(n) == CHOOSE g : UpTo(g, n)
             w == [n \in Nat |-> G(n)[n]]
  <1>1. ASSUME NEW n \in Nat
        PROVE  UpTo(G(n), n)
    BY Exists
  <1>2. ASSUME NEW n \in Nat
        PROVE  w[n] = IF n = 0 THEN Base ELSE Step(w[n - 1], n)
    <2>1. Equation(G(n), n)
      BY <1>1 DEF UpTo
    <2>2. ASSUME n # 0
          PROVE  G(n)[n - 1] = G(n - 1)[n - 1]
      <3>1. n - 1 \in Nat /\ UpTo(G(n - 1), n - 1)
        BY <1>1, <2>2
      <3> HIDE DEF G
      <3>2. UpTo(G(n), n - 1)
        BY <1>1, <2>2 DEF UpTo
      <3>3. QED BY <3>1, <3>2, Unique
    <2>3. w[n] = G(n)[n] /\ (n # 0 => w[n - 1] = G(n - 1)[n - 1])
      OBVIOUS
    <2> HIDE DEF w, G
    <2>4. QED BY <2>1, <2>2, <2>3 DEF Equation
  <1>3. w = [n \in Nat |-> IF n = 0 THEN Base ELSE Step(w[n - 1], n)]
    <2> DEFINE v == [n \in Nat |-> IF n = 0 THEN Base ELSE Step(w[n - 1], n)]
    <2>1. \A n \in Nat : w[n] = v[n]
      BY <1>2
    <2>2. QED BY <2>1
  <1> HIDE DEF w
  <1>4. QED BY <1>3 DEF Values
=============================================================================
