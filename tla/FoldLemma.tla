------------------------------ MODULE FoldLemma ------------------------------
(***************************************************************************)
(* What a fold over a sequence keeps, for any operator op: the loops of    *)
(* the code over a batch are folds of one handler each, and a proof about  *)
(* such a loop is a proof about the handler and an instance of this.       *)
(***************************************************************************)
EXTENDS Naturals, SequencesExt, WellFoundedInduction, TLAPS

CONSTANT op(_, _)   \* what the loop does with one element

Folded(base, seq) == FoldLeft(op, base, seq)

\* A set of numbers that is not empty has a least one: a well-founded order has minimal elements.
LEMMA LeastOf ==
  ASSUME NEW S \in SUBSET Nat, S # {}
  PROVE  \E m \in S : \A y \in S : m =< y
<1>. DEFINE R == OpToRel(<, Nat)
<1>1. IsWellFoundedOn(R, Nat)
  BY NatLessThanWellFounded, Zenon
<1>2. \A x, y \in Nat : x < y => <<x, y>> \in R
  BY DEF OpToRel
<1>. HIDE DEF R
<1>3. PICK x \in S : \A y \in S : ~ (<<y, x>> \in R)
  BY <1>1, WFMin, Zenon
<1>4. ASSUME NEW y \in S PROVE x =< y
  <2>1. x \in Nat /\ y \in Nat
    OBVIOUS
  <2>2. ~(y < x)
    BY <1>2, <1>3, <2>1
  <2>. QED BY <2>1, <2>2
<1>. QED BY <1>4

\* Where a fold is after each element, it is at the end: induction over the sequence.
LEMMA FoldSteps ==
  ASSUME NEW E, NEW seq \in Seq(E), NEW P, NEW base \in P[0],
         \A i \in 1 .. Len(seq) : \A t \in P[i - 1] : op(t, seq[i]) \in P[i]
  PROVE  Folded(base, seq) \in P[Len(seq)]
<1>. DEFINE step(g, s) == IF s = {} THEN base ELSE op(g[s \ {Max(s)}], seq[Max(s)])
            Iter(g, D) == g = [s \in SUBSET D |-> step(g, s)]
            iter == CHOOSE g : Iter(g, DOMAIN seq)
<1>1. Folded(base, seq) = iter[DOMAIN seq]
  BY DEF Folded, FoldLeft, MapThenFoldSet
<1>. HIDE DEF iter
<1>2. DOMAIN seq = 1 .. Len(seq) /\ Len(seq) \in Nat
  OBVIOUS
<1>3. ASSUME NEW k \in Nat PROVE Max(1 .. (k + 1)) = k + 1 /\ (1 .. (k + 1)) \ {k + 1} = 1 .. k
  BY DEF Max
\* There is such a function on the subsets of every initial stretch of the sequence.
<1>4. \A k \in Nat : \E g : Iter(g, 1 .. k)
  <2>. DEFINE B == {k \in Nat : ~\E g : Iter(g, 1 .. k)}
  <2>. SUFFICES ASSUME B # {} PROVE FALSE
    OBVIOUS
  <2>1. PICK m \in B : \A y \in B : m =< y
    <3>1. B \in SUBSET Nat
      OBVIOUS
    <3>. HIDE DEF B
    <3>. QED BY <3>1, LeastOf
  <2>2. CASE m = 0
    <3>1. 1 .. 0 = {} /\ SUBSET {} = {{}}
      OBVIOUS
    <3>. DEFINE g == [s \in SUBSET (1 .. 0) |-> base]
    <3>2. Iter(g, 1 .. 0)
      BY <3>1
    <3>. QED BY <2>1, <2>2, <3>2
  <2>3. CASE m # 0
    <3>. DEFINE k == m - 1
    <3>0. m \in Nat
      BY <2>1
    <3>1. k \in Nat /\ m = k + 1 /\ m \in Nat
      BY <3>0, <2>3
    <3>. HIDE DEF k
    <3>2. k \notin B
      <4>. HIDE DEF B
      <4>. QED BY <2>1, <3>1
    <3>3. PICK g : Iter(g, 1 .. k)
      BY <3>1, <3>2
    <3>. DEFINE h == [s \in SUBSET (1 .. m) |->
                        IF m \in s THEN op(g[s \ {m}], seq[m]) ELSE g[s]]
    <3>4. ASSUME NEW s \in SUBSET (1 .. m) PROVE h[s] = step(h, s)
      <4>1. CASE m \in s
        <5>1. Max(s) = m
          <6>1. \A y \in s : m >= y
            BY <3>1
          <6>2. \A x \in s : (\A y \in s : x >= y) => x = m
            BY <3>1, <4>1
          <6>. QED BY <4>1, <6>1, <6>2 DEF Max
        <5>2. s \ {m} \in SUBSET (1 .. m) /\ m \notin s \ {m}
          BY <3>1
        <5>. QED BY <4>1, <5>1, <5>2
      <4>2. CASE m \notin s
        <5>1. s \in SUBSET (1 .. k)
          BY <3>1, <4>2
        <5>2. g[s] = step(g, s)
          BY <3>3, <5>1
        <5>3. s \ {Max(s)} \in SUBSET (1 .. m) /\ m \notin s \ {Max(s)}
          BY <4>2
        <5>. QED BY <4>2, <5>2, <5>3
      <4>. QED BY <4>1, <4>2
    <3>5. Iter(h, 1 .. m)
      <4>. HIDE DEF step
      <4>. QED BY <3>4
    <3>. QED BY <2>1, <3>5
  <2>. QED BY <2>2, <2>3
<1>5. Iter(iter, DOMAIN seq)
  <2>1. \E g : Iter(g, DOMAIN seq)
    BY <1>2, <1>4
  <2>. HIDE DEF Iter
  <2>. QED BY <2>1 DEF iter
\* It takes one more element at a time.
<1>6. \A k \in 0 .. Len(seq) : iter[1 .. k] \in P[k]
  <2>. DEFINE B == {k \in 0 .. Len(seq) : iter[1 .. k] \notin P[k]}
  <2>. SUFFICES ASSUME B # {} PROVE FALSE
    OBVIOUS
  <2>1. PICK m \in B : \A y \in B : m =< y
    <3>1. B \in SUBSET Nat
      OBVIOUS
    <3>. HIDE DEF B
    <3>. QED BY <3>1, LeastOf
  <2>2. m \in 0 .. Len(seq) /\ 1 .. m \in SUBSET (DOMAIN seq)
    BY <1>2, <2>1
  <2>3. iter[1 .. m] = step(iter, 1 .. m)
    BY <1>5, <2>2
  <2>4. CASE m = 0
    <3>1. 1 .. m = {}
      BY <2>4
    <3>. QED BY <2>1, <2>3, <3>1
  <2>5. CASE m # 0
    <3>. DEFINE k == m - 1
    <3>0. m \in Nat /\ m <= Len(seq)
      BY <2>2, <1>2
    <3>1. k \in Nat /\ m = k + 1 /\ k \in 0 .. Len(seq)
      BY <3>0, <2>5, <1>2
    <3>. HIDE DEF k
    <3>2. iter[1 .. k] \in P[k]
      BY <2>1, <3>1
    <3>3. Max(1 .. m) = m /\ (1 .. m) \ {m} = 1 .. k
      BY <1>3, <3>1
    <3>5. m \in 1 .. m /\ m \in 1 .. Len(seq)
      BY <3>0, <2>5, <1>2
    <3>4. m \in 1 .. Len(seq) /\ m - 1 = k
      BY <3>1, <3>5
    <3>. QED BY <2>1, <2>3, <3>2, <3>3, <3>4, <3>5
  <2>. QED BY <2>4, <2>5
<1>. QED BY <1>1, <1>2, <1>6

\* A fold stays in any set its operator stays in.
LEMMA FoldStays ==
  ASSUME NEW S, NEW E, NEW seq \in Seq(E), NEW base \in S, \A t \in S, e \in E : op(t, e) \in S
  PROVE  Folded(base, seq) \in S
<1>. DEFINE P == [i \in 0 .. Len(seq) |-> S]
<1>1. \A i \in 1 .. Len(seq) : seq[i] \in E /\ i - 1 \in 0 .. Len(seq) /\ i \in 0 .. Len(seq)
  OBVIOUS
<1>2. \A i \in 0 .. Len(seq) : P[i] = S
  OBVIOUS
<1>3. 0 \in 0 .. Len(seq) /\ Len(seq) \in 0 .. Len(seq)
  OBVIOUS
<1>. HIDE DEF P
<1>4. \A i \in 1 .. Len(seq) : \A t \in P[i - 1] : op(t, seq[i]) \in P[i]
  BY <1>1, <1>2
<1>. QED BY <1>2, <1>3, <1>4, FoldSteps
=============================================================================
