-------------------------- MODULE Prediction_proofs --------------------------
(***************************************************************************)
(* Proofs about Prediction, for any speeds, send rate, replay ring and     *)
(* snap distance, any number of frames, of ticks and of transforms shed.   *)
(*                                                                         *)
(* Every frame sent is in one place on the way up (simulated, due or       *)
(* rising) and on one side of the client's ack, and what the client will   *)
(* know after each envelope still on its way is already decided: that      *)
(* course of worlds is what the baseline follows, and the replay over it   *)
(* repeats the ticks the server has yet to make.                           *)
(***************************************************************************)
EXTENDS Prediction, SequenceTheorems, TLAPS

Fenv == INSTANCE FoldLemma WITH op <- applyEnvelope

-----------------------------------------------------------------------------
(* Recursion over ticks. *)

\* What holds at a tick and is kept by each later one holds up to the last.
LEMMA Upward ==
  ASSUME NEW lo \in Nat, NEW hi \in Nat, lo <= hi, NEW T, lo \in T,
         \A t \in (lo + 1) .. hi : t - 1 \in T => t \in T
  PROVE  \A t \in lo .. hi : t \in T
<1>. DEFINE B == {t \in lo .. hi : t \notin T}
<1>. SUFFICES ASSUME B # {} PROVE FALSE
  OBVIOUS
<1>1. PICK m \in B : \A y \in B : m <= y
  <2>1. B \in SUBSET Nat
    OBVIOUS
  <2>. HIDE DEF B
  <2>. QED BY ONLY <2>1, B # {}, Fenv!LeastOf
<1>2. m \in lo .. hi /\ m \notin T /\ m # lo
  BY <1>1
<1>3. m - 1 \in lo .. hi /\ m \in (lo + 1) .. hi
  BY <1>2
<1>4. m - 1 \in T
  <2>1. m - 1 \notin B
    <3>. HIDE DEF B
    <3>. QED BY <1>1, <1>3
  <2>. QED BY <1>3, <2>1
<1>. QED BY <1>2, <1>3, <1>4

\* A tick computed from the one before: there is a function that does it for a whole span.
Recurs(g, lo, hi, w, G) == g = [t \in lo .. hi |-> IF t = lo THEN w ELSE G[<<g[t - 1], t>>]]

LEMMA Iterates ==
  ASSUME NEW lo \in Nat, NEW hi \in Nat, lo <= hi, NEW w, NEW G
  PROVE  \E g : Recurs(g, lo, hi, w, G)
<1>. DEFINE T == {h \in lo .. hi : \E g : Recurs(g, lo, h, w, G)}
<1>1. lo \in T
  <2>. DEFINE g == [t \in lo .. lo |-> w]
  <2>1. g = [t \in lo .. lo |-> IF t = lo THEN w ELSE G[<<g[t - 1], t>>]]
    OBVIOUS
  <2>2. Recurs(g, lo, lo, w, G)
    <3>. HIDE DEF g
    <3>. QED BY <2>1 DEF Recurs
  <2>. QED BY <2>2
<1>2. ASSUME NEW h \in (lo + 1) .. hi, h - 1 \in T PROVE h \in T
  <2>1. PICK g : Recurs(g, lo, h - 1, w, G)
    BY <1>2
  <2>2. \A t \in lo .. (h - 1) : g[t] = IF t = lo THEN w ELSE G[<<g[t - 1], t>>]
    BY <2>1 DEF Recurs
  <2>. DEFINE f == [t \in lo .. h |-> IF t = h THEN G[<<g[h - 1], h>>] ELSE g[t]]
  <2>3. ASSUME NEW t \in lo .. h PROVE f[t] = IF t = lo THEN w ELSE G[<<f[t - 1], t>>]
    <3>1. CASE t = h
      <4>1. h - 1 \in lo .. h /\ h - 1 # h /\ h # lo /\ h \in lo .. h
        OBVIOUS
      <4>2. f[h] = G[<<g[h - 1], h>>] /\ f[h - 1] = g[h - 1]
        BY <4>1
      <4>. HIDE DEF f
      <4>. QED BY <3>1, <4>1, <4>2
    <3>2. CASE t # h /\ t = lo
      <4>1. t \in lo .. (h - 1) /\ f[t] = g[t]
        BY <3>2
      <4>. HIDE DEF f
      <4>. QED BY <2>2, <3>2, <4>1
    <3>3. CASE t # h /\ t # lo
      <4>1. t \in lo .. (h - 1) /\ t - 1 \in lo .. h /\ t - 1 # h
        BY <3>3
      <4>2. f[t] = g[t] /\ f[t - 1] = g[t - 1]
        BY <3>3, <4>1
      <4>. HIDE DEF f
      <4>. QED BY <2>2, <3>3, <4>1, <4>2
    <3>. QED BY <3>1, <3>2, <3>3
  <2>4. f = [t \in lo .. h |-> f[t]]
    OBVIOUS
  <2>5. Recurs(f, lo, h, w, G)
    <3>. HIDE DEF f
    <3>. QED BY <2>3, <2>4 DEF Recurs
  <2>6. h \in lo .. hi
    OBVIOUS
  <2>. QED BY <2>5, <2>6
<1>3. hi \in lo .. hi
  OBVIOUS
<1>. HIDE DEF T
<1>4. hi \in T
  BY <1>1, <1>2, <1>3, Upward
<1>. QED BY <1>4 DEF T

-----------------------------------------------------------------------------
(* Lists of frames. *)

Frame == [seq : Nat, tick : Nat, value : Speeds]
Ordered(s) == \A i, j \in 1 .. Len(s) : i <= j => s[i].tick <= s[j].tick
Value(s, n) == IF n = 0 THEN 0 ELSE s[n].value

\* The elements of a stretch of a list.
LEMMA Stretch ==
  ASSUME NEW E, NEW s \in Seq(E), NEW a \in 0 .. Len(s), NEW b \in a .. Len(s)
  PROVE  /\ SubSeq(s, a + 1, b) \in Seq(E)
         /\ Len(SubSeq(s, a + 1, b)) = b - a
         /\ \A i \in 1 .. (b - a) : SubSeq(s, a + 1, b)[i] = s[a + i]
<1>1. Len(s) \in Nat /\ a \in Int /\ b \in Int /\ a <= b /\ a + 1 \in Int
  OBVIOUS
<1>2. \A i \in (a + 1) .. b : s[i] \in E
  BY <1>1, ElementOfSeq
<1>3. /\ SubSeq(s, a + 1, b) \in Seq(E)
      /\ Len(SubSeq(s, a + 1, b)) = IF a + 1 <= b THEN b - (a + 1) + 1 ELSE 0
      /\ \A i \in 1 .. (b - (a + 1) + 1) : SubSeq(s, a + 1, b)[i] = s[(a + 1) + i - 1]
  BY <1>1, <1>2, SubSeqProperties
<1>4. \A i \in 1 .. (b - a) : i \in 1 .. (b - (a + 1) + 1) /\ (a + 1) + i - 1 = a + i
  BY <1>1
<1>. QED BY <1>1, <1>3, <1>4

\* A stretch of a stretch.
LEMMA Within ==
  ASSUME NEW E, NEW s \in Seq(E), NEW a \in 0 .. Len(s), NEW b \in a .. Len(s),
         NEW c \in 0 .. (b - a), NEW d \in c .. (b - a)
  PROVE  SubSeq(SubSeq(s, a + 1, b), c + 1, d) = SubSeq(s, (a + c) + 1, a + d)
<1>. DEFINE q == SubSeq(s, a + 1, b)
            x == SubSeq(q, c + 1, d)
            y == SubSeq(s, (a + c) + 1, a + d)
<1>0. Len(s) \in Nat /\ a \in Nat /\ b \in Nat /\ c \in Nat /\ d \in Nat
  OBVIOUS
<1>1. q \in Seq(E) /\ Len(q) = b - a /\ \A i \in 1 .. (b - a) : q[i] = s[a + i]
  BY Stretch
<1>2. a + c \in 0 .. Len(s) /\ a + d \in (a + c) .. Len(s)
  BY <1>0
<1>. HIDE DEF q
<1>3. x \in Seq(E) /\ Len(x) = d - c /\ \A i \in 1 .. (d - c) : x[i] = q[c + i]
  BY <1>1, Stretch
<1>4. /\ y \in Seq(E) /\ Len(y) = (a + d) - (a + c)
      /\ \A i \in 1 .. ((a + d) - (a + c)) : y[i] = s[(a + c) + i]
  BY <1>2, Stretch
<1>. HIDE DEF x, y
<1>5. (a + d) - (a + c) = d - c
  BY <1>0
<1>6. ASSUME NEW i \in 1 .. Len(x) PROVE x[i] = y[i]
  <2>1. i \in 1 .. (d - c) /\ c + i \in 1 .. (b - a) /\ a + (c + i) = (a + c) + i
    BY <1>0, <1>3
  <2>. QED BY <1>1, <1>3, <1>4, <1>5, <2>1
<1>7. x = y
  BY <1>3, <1>4, <1>5, <1>6, SeqEqual
<1>. QED BY <1>7 DEF x, y, q

\* One more element at the end of a list, or of a stretch.
LEMMA Longer ==
  ASSUME NEW E, NEW s \in Seq(E), NEW e \in E, NEW a \in 0 .. Len(s), NEW b \in a .. Len(s)
  PROVE  /\ SubSeq(Append(s, e), a + 1, b) = SubSeq(s, a + 1, b)
         /\ SubSeq(Append(s, e), a + 1, Len(s) + 1) = Append(SubSeq(s, a + 1, Len(s)), e)
<1>. DEFINE r == Append(s, e)
<1>0. Len(s) \in Nat /\ a \in Nat /\ b \in Nat /\ a <= b /\ b <= Len(s)
  OBVIOUS
<1>1. /\ r \in Seq(E) /\ Len(r) = Len(s) + 1 /\ r[Len(s) + 1] = e
      /\ \A i \in 1 .. Len(s) : r[i] = s[i]
  BY AppendProperties
<1>. HIDE DEF r
<1>2. a \in 0 .. Len(r) /\ b \in a .. Len(r) /\ Len(s) + 1 \in a .. Len(r) /\ Len(s) \in a .. Len(s)
  BY <1>0, <1>1
<1>3. SubSeq(r, a + 1, b) = SubSeq(s, a + 1, b)
  <2>. DEFINE x == SubSeq(r, a + 1, b)
              y == SubSeq(s, a + 1, b)
  <2>1. x \in Seq(E) /\ Len(x) = b - a /\ \A i \in 1 .. (b - a) : x[i] = r[a + i]
    BY <1>1, <1>2, Stretch
  <2>2. y \in Seq(E) /\ Len(y) = b - a /\ \A i \in 1 .. (b - a) : y[i] = s[a + i]
    BY Stretch
  <2>. HIDE DEF x, y
  <2>3. \A i \in 1 .. (b - a) : a + i \in 1 .. Len(s)
    BY <1>0
  <2>4. \A i \in 1 .. Len(x) : x[i] = y[i]
    BY <1>1, <2>1, <2>2, <2>3
  <2>5. x = y
    BY <2>1, <2>2, <2>4, SeqEqual
  <2>. QED BY <2>5 DEF x, y
<1>4. SubSeq(r, a + 1, Len(s) + 1) = Append(SubSeq(s, a + 1, Len(s)), e)
  <2>. DEFINE x == SubSeq(r, a + 1, Len(s) + 1)
              z == SubSeq(s, a + 1, Len(s))
              y == Append(z, e)
  <2>1. /\ x \in Seq(E) /\ Len(x) = (Len(s) + 1) - a
        /\ \A i \in 1 .. ((Len(s) + 1) - a) : x[i] = r[a + i]
    BY <1>1, <1>2, Stretch, SMTT(30)
  <2>2. z \in Seq(E) /\ Len(z) = Len(s) - a /\ \A i \in 1 .. (Len(s) - a) : z[i] = s[a + i]
    BY <1>2, Stretch
  <2>. HIDE DEF x, z
  <2>3. /\ y \in Seq(E) /\ Len(y) = Len(z) + 1 /\ y[Len(z) + 1] = e
        /\ \A i \in 1 .. Len(z) : y[i] = z[i]
    BY <2>2, AppendProperties
  <2>. HIDE DEF y
  <2>4. ASSUME NEW i \in 1 .. Len(x) PROVE x[i] = y[i]
    <3>1. CASE i \in 1 .. (Len(s) - a)
      <4>1. a + i \in 1 .. Len(s) /\ i \in 1 .. ((Len(s) + 1) - a)
        BY <1>0, <3>1
      <4>. QED BY <1>1, <2>1, <2>2, <2>3, <3>1, <4>1
    <3>2. CASE i \notin 1 .. (Len(s) - a)
      <4>0. i \in 1 .. ((Len(s) + 1) - a)
        BY <2>1
      <4>1. i = (Len(s) - a) + 1 /\ a + i = Len(s) + 1
        BY ONLY <1>0, <3>2, <4>0
      <4>2. i \in 1 .. ((Len(s) + 1) - a) /\ i = Len(z) + 1
        BY <1>0, <2>1, <2>2, <4>1
      <4>3. x[i] = r[Len(s) + 1] /\ y[i] = e
        BY <2>1, <2>3, <4>1, <4>2
      <4>. QED BY <1>1, <4>3
    <3>. QED BY <3>1, <3>2
  <2>5. Len(x) = Len(y)
    BY <1>0, <2>1, <2>2, <2>3
  <2>6. x = y
    BY <2>1, <2>3, <2>4, <2>5, SeqEqual
  <2>. QED BY <2>6 DEF x, y, z
<1>. QED BY <1>3, <1>4 DEF r

\* A stretch that ends short of its list takes the next element, and the rest gives it up.
LEMMA Moves ==
  ASSUME NEW E, NEW s \in Seq(E), NEW a \in 0 .. Len(s), NEW b \in a .. (Len(s) - 1)
  PROVE  /\ SubSeq(s, b + 1, Len(s)) # <<>>
         /\ Head(SubSeq(s, b + 1, Len(s))) = s[b + 1]
         /\ Tail(SubSeq(s, b + 1, Len(s))) = SubSeq(s, (b + 1) + 1, Len(s))
         /\ Append(SubSeq(s, a + 1, b), s[b + 1]) = SubSeq(s, a + 1, b + 1)
<1>0. Len(s) \in Nat /\ a \in Nat /\ b \in Nat /\ a <= b /\ b < Len(s) /\ b + 1 \in 1 .. Len(s)
  OBVIOUS
<1>1. b \in 0 .. Len(s) /\ Len(s) \in b .. Len(s) /\ b + 1 \in a .. Len(s) /\ b \in a .. Len(s)
  BY <1>0
<1>2. Len(SubSeq(s, b + 1, Len(s))) = Len(s) - b
  BY <1>1, Stretch
<1>3. SubSeq(s, b + 1, Len(s)) # <<>>
  <2>. DEFINE q == SubSeq(s, b + 1, Len(s))
  <2>1. Len(q) = Len(s) - b
    BY <1>2
  <2>. HIDE DEF q
  <2>2. Len(q) # 0
    BY ONLY <1>0, <2>1
  <2>3. q # <<>>
    BY ONLY <2>2
  <2>. QED BY <2>3 DEF q
<1>4. /\ Head(SubSeq(s, b + 1, Len(s))) = s[b + 1]
      /\ Tail(SubSeq(s, b + 1, Len(s))) = SubSeq(s, (b + 1) + 1, Len(s))
  <2>1. Len(s) \in (b + 1) .. Len(s)
    BY <1>0
  <2>. QED BY <1>0, <2>1, HeadTailOfSubSeq
<1>5. Append(SubSeq(s, a + 1, b), s[b + 1]) = SubSeq(s, a + 1, b + 1)
  <2>. DEFINE z == SubSeq(s, a + 1, b)
              x == SubSeq(s, a + 1, b + 1)
              e == s[b + 1]
              y == Append(z, e)
  <2>1. z \in Seq(E) /\ Len(z) = b - a /\ \A i \in 1 .. (b - a) : z[i] = s[a + i]
    BY <1>1, Stretch
  <2>2. /\ x \in Seq(E) /\ Len(x) = (b + 1) - a
        /\ \A i \in 1 .. ((b + 1) - a) : x[i] = s[a + i]
    BY <1>1, Stretch
  <2>3. e \in E
    BY <1>0, ElementOfSeq
  <2>. HIDE DEF x, z, e
  <2>4. /\ y \in Seq(E) /\ Len(y) = Len(z) + 1 /\ y[Len(z) + 1] = e
        /\ \A i \in 1 .. Len(z) : y[i] = z[i]
    BY <2>1, <2>3, AppendProperties
  <2>. HIDE DEF y
  <2>5. ASSUME NEW i \in 1 .. Len(x) PROVE x[i] = y[i]
    <3>1. CASE i \in 1 .. (b - a)
      BY <1>0, <2>1, <2>2, <2>4, <3>1
    <3>2. CASE i \notin 1 .. (b - a)
      <4>1. i = (b - a) + 1 /\ a + i = b + 1
        BY <1>0, <2>2, <3>2
      <4>2. x[i] = s[b + 1] /\ y[i] = e
        BY <1>0, <2>1, <2>2, <2>4, <4>1
      <4>. QED BY <4>2 DEF e
    <3>. QED BY <3>1, <3>2
  <2>6. Len(x) = Len(y)
    BY <1>0, <2>1, <2>2, <2>4
  <2>7. x = y
    BY <2>2, <2>4, <2>5, <2>6, SeqEqual
  <2>. QED BY <2>7 DEF x, y, z, e
<1>. QED BY <1>3, <1>4, <1>5

\* The fields of a frame.
LEMMA Framed ==
  ASSUME NEW s \in Seq(Frame)
  PROVE  /\ Len(s) \in Nat
         /\ \A i \in 1 .. Len(s) :
              s[i] \in Frame /\ s[i].tick \in Nat /\ s[i].seq \in Nat /\ s[i].value \in Nat
<1>1. Len(s) \in Nat
  OBVIOUS
<1>2. ASSUME NEW i \in 1 .. Len(s)
      PROVE  s[i] \in Frame /\ s[i].tick \in Nat /\ s[i].seq \in Nat /\ s[i].value \in Nat
  <2>1. s[i] \in Frame
    BY ElementOfSeq
  <2>. QED BY <2>1, PredictionAssumption DEF Frame
<1>. QED BY <1>1, <1>2

\* Frames up to a tick lead a list in the order of ticks, and those after it follow.
LEMMA Leading ==
  ASSUME NEW s \in Seq(Frame), Ordered(s), NEW t \in Int
  PROVE  /\ leading(s, t) \in 0 .. Len(s)
         /\ \A i \in 1 .. leading(s, t) : s[i].tick <= t
         /\ \A i \in (leading(s, t) + 1) .. Len(s) : s[i].tick > t
<1>. DEFINE k == leading(s, t)
            B == {n \in 0 .. Len(s) : n < Len(s) => s[n + 1].tick > t}
<1>0. Len(s) \in Nat /\ \A i \in 1 .. Len(s) : s[i].tick \in Int
  BY Framed
<1>. HIDE DEF k
<1>1. \E n \in 0 .. Len(s) : /\ \A i \in 1 .. n : s[i].tick <= t
                             /\ n < Len(s) => s[n + 1].tick > t
  <2>1. Len(s) \in B /\ B \in SUBSET Nat
    BY <1>0
  <2>2. PICK m \in B : \A y \in B : m <= y
    <3>. HIDE DEF B
    <3>. QED BY ONLY <2>1, Fenv!LeastOf
  <2>3. ASSUME NEW i \in 1 .. m PROVE s[i].tick <= t
    <3>1. m \in 0 .. Len(s)
      OBVIOUS
    <3>2. i - 1 \in 0 .. Len(s) /\ i - 1 < Len(s) /\ i \in 1 .. Len(s) /\ ~(m <= i - 1)
      BY <1>0, <3>1
    <3>3. i - 1 \notin B
      <4>. HIDE DEF B
      <4>. QED BY <2>2, <3>2
    <3>4. (i - 1) + 1 = i
      OBVIOUS
    <3>5. ~(s[i].tick > t)
      BY <3>2, <3>3, <3>4
    <3>. QED BY <1>0, <3>2, <3>5
  <2>. QED BY <2>2, <2>3
<1>2. /\ k \in 0 .. Len(s)
      /\ \A i \in 1 .. k : s[i].tick <= t
      /\ k < Len(s) => s[k + 1].tick > t
  BY ONLY <1>1 DEF leading, k
<1>3. ASSUME NEW i \in (k + 1) .. Len(s) PROVE s[i].tick > t
  <2>1. k + 1 \in 1 .. Len(s) /\ i \in 1 .. Len(s) /\ k + 1 <= i /\ k < Len(s)
    BY <1>0, <1>2
  <2>2. s[k + 1].tick <= s[i].tick
    BY <2>1 DEF Ordered
  <2>3. s[k + 1].tick \in Int /\ s[i].tick \in Int /\ s[k + 1].tick > t
    BY <1>0, <1>2, <2>1
  <2>. QED BY <2>2, <2>3
<1>. QED BY <1>2, <1>3 DEF k

\* Nothing else splits a list at a tick.
LEMMA LeadingIs ==
  ASSUME NEW s \in Seq(Frame), Ordered(s), NEW t \in Int, NEW k \in 0 .. Len(s),
         \A i \in 1 .. k : s[i].tick <= t,
         \A i \in (k + 1) .. Len(s) : s[i].tick > t
  PROVE  leading(s, t) = k
<1>. DEFINE n == leading(s, t)
<1>0. Len(s) \in Nat /\ \A i \in 1 .. Len(s) : s[i].tick \in Int
  BY Framed
<1>1. /\ n \in 0 .. Len(s)
      /\ \A i \in 1 .. n : s[i].tick <= t
      /\ \A i \in (n + 1) .. Len(s) : s[i].tick > t
  BY Leading
<1>. HIDE DEF n
<1>2. ~(n < k)
  <2>. SUFFICES ASSUME n < k PROVE FALSE
    OBVIOUS
  <2>1. n + 1 \in 1 .. k /\ n + 1 \in (n + 1) .. Len(s) /\ n + 1 \in 1 .. Len(s)
    BY <1>0, <1>1
  <2>. QED BY <1>0, <1>1, <2>1
<1>3. ~(k < n)
  <2>. SUFFICES ASSUME k < n PROVE FALSE
    OBVIOUS
  <2>1. k + 1 \in 1 .. n /\ k + 1 \in (k + 1) .. Len(s) /\ k + 1 \in 1 .. Len(s)
    BY <1>0, <1>1
  <2>. QED BY <1>0, <1>1, <2>1
<1>4. n = k
  BY ONLY <1>0, <1>1, <1>2, <1>3, k \in 0 .. Len(s)
<1>. QED BY <1>4 DEF n

\* InputRing.ack: frames are numbered without a gap, so an ack prunes as many as it is ahead.
LEMMA Prunable ==
  ASSUME NEW s \in Seq(Frame), NEW a \in Nat, \A i \in 1 .. Len(s) : s[i].seq = a + i,
         NEW n \in a .. (a + Len(s))
  PROVE  prunable(s, n) = n - a
<1>. DEFINE Splits(k) == /\ \A i \in 1 .. k : s[i].seq <= n
                         /\ k < Len(s) => s[k + 1].seq > n
            k == prunable(s, n)
<1>0. Len(s) \in Nat /\ n \in Nat /\ n - a \in 0 .. Len(s)
  OBVIOUS
<1>1. Splits(n - a)
  <2>1. ASSUME NEW i \in 1 .. (n - a) PROVE s[i].seq <= n
    <3>1. i \in 1 .. Len(s) /\ a + i <= n
      BY <1>0
    <3>. QED BY <3>1
  <2>2. ASSUME n - a < Len(s) PROVE s[(n - a) + 1].seq > n
    <3>1. (n - a) + 1 \in 1 .. Len(s) /\ a + ((n - a) + 1) > n
      BY <1>0, <2>2
    <3>. QED BY <3>1
  <2>. QED BY <2>1, <2>2
<1>2. k \in 0 .. Len(s) /\ Splits(k)
  BY <1>0, <1>1 DEF prunable
<1>. HIDE DEF k
<1>3. ~(k < n - a)
  <2>. SUFFICES ASSUME k < n - a PROVE FALSE
    OBVIOUS
  <2>1. k < Len(s) /\ k + 1 \in 1 .. Len(s) /\ ~(a + (k + 1) > n)
    BY <1>0, <1>2
  <2>. QED BY <1>2, <2>1
<1>4. ~(n - a < k)
  <2>. SUFFICES ASSUME n - a < k PROVE FALSE
    OBVIOUS
  <2>1. k \in 1 .. Len(s) /\ k \in 1 .. k /\ ~(a + k <= n)
    BY <1>0, <1>2
  <2>. QED BY <1>2, <2>1
<1>5. k = n - a
  BY <1>0, <1>2, <1>3, <1>4
<1>. QED BY <1>5 DEF k

\* A stretch of an ordered list is ordered.
LEMMA StretchOrdered ==
  ASSUME NEW s \in Seq(Frame), Ordered(s), NEW a \in 0 .. Len(s), NEW b \in a .. Len(s)
  PROVE  Ordered(SubSeq(s, a + 1, b))
<1>. DEFINE q == SubSeq(s, a + 1, b)
<1>1. Len(q) = b - a /\ \A i \in 1 .. (b - a) : q[i] = s[a + i]
  BY Stretch
<1>. HIDE DEF q
<1>2. Len(s) \in Nat /\ a \in Nat /\ b \in Nat
  OBVIOUS
<1>3. ASSUME NEW i \in 1 .. Len(q), NEW j \in 1 .. Len(q), i <= j PROVE q[i].tick <= q[j].tick
  <2>1. /\ i \in 1 .. (b - a) /\ j \in 1 .. (b - a) /\ a + i \in 1 .. Len(s)
        /\ a + j \in 1 .. Len(s) /\ a + i <= a + j
    BY <1>1, <1>2, <1>3
  <2>2. s[a + i].tick <= s[a + j].tick
    BY <2>1 DEF Ordered
  <2>. QED BY <1>1, <2>1, <2>2
<1>4. Ordered(q)
  BY <1>3 DEF Ordered
<1>. QED BY <1>4 DEF q

\* The frames of a stretch up to a tick, and the others, are stretches too.
LEMMA Parts ==
  ASSUME NEW s \in Seq(Frame), Ordered(s), NEW a \in 0 .. Len(s), NEW b \in a .. Len(s),
         NEW t \in Int
  PROVE  \E m \in a .. b :
           /\ through(SubSeq(s, a + 1, b), t) = SubSeq(s, a + 1, m)
           /\ beyond(SubSeq(s, a + 1, b), t) = SubSeq(s, m + 1, b)
           /\ \A i \in (a + 1) .. m : s[i].tick <= t
           /\ \A i \in (m + 1) .. b : s[i].tick > t
<1>. DEFINE q == SubSeq(s, a + 1, b)
            k == leading(q, t)
<1>0. Len(s) \in Nat /\ a \in Nat /\ b \in Nat
  OBVIOUS
<1>1. q \in Seq(Frame) /\ Len(q) = b - a /\ \A i \in 1 .. (b - a) : q[i] = s[a + i]
  BY Stretch
<1>2. Ordered(q)
  BY StretchOrdered
<1>3. through(q, t) = SubSeq(q, 1, k) /\ beyond(q, t) = SubSeq(q, k + 1, Len(q))
  BY DEF through, beyond
<1>4. /\ k \in 0 .. Len(q)
      /\ \A i \in 1 .. k : q[i].tick <= t
      /\ \A i \in (k + 1) .. Len(q) : q[i].tick > t
  <2>. HIDE DEF q
  <2>. QED BY <1>1, <1>2, Leading
<1>5. SubSeq(q, 0 + 1, k) = SubSeq(s, (a + 0) + 1, a + k)
  <2>. HIDE DEF k
  <2>1. 0 \in 0 .. (b - a) /\ k \in 0 .. (b - a)
    BY <1>0, <1>1, <1>4
  <2>. QED BY <2>1, Within
<1>6. SubSeq(q, k + 1, b - a) = SubSeq(s, (a + k) + 1, a + (b - a))
  <2>. HIDE DEF k
  <2>1. k \in 0 .. (b - a) /\ b - a \in k .. (b - a)
    BY <1>0, <1>1, <1>4
  <2>. QED BY <2>1, Within
<1>. HIDE DEF q, k
<1>7. /\ a + k \in a .. b /\ 0 + 1 = 1 /\ a + 0 = a /\ a + (b - a) = b
      /\ \A i \in (a + 1) .. (a + k) : i - a \in 1 .. k /\ i - a \in 1 .. (b - a) /\ a + (i - a) = i
      /\ \A i \in ((a + k) + 1) .. b :
            i - a \in (k + 1) .. Len(q) /\ i - a \in 1 .. (b - a) /\ a + (i - a) = i
  BY <1>0, <1>1, <1>4
<1>8. /\ through(q, t) = SubSeq(s, a + 1, a + k) /\ beyond(q, t) = SubSeq(s, (a + k) + 1, b)
  BY <1>1, <1>3, <1>5, <1>6, <1>7
<1>9. ASSUME NEW i \in (a + 1) .. (a + k) PROVE s[i].tick <= t
  BY <1>1, <1>4, <1>7, ZenonT(30)
<1>10. ASSUME NEW i \in ((a + k) + 1) .. b PROVE s[i].tick > t
  BY <1>1, <1>4, <1>7, ZenonT(30)
<1>. QED BY <1>7, <1>8, <1>9, <1>10 DEF q

-----------------------------------------------------------------------------
(* What frames amount to. *)

\* The axis after a stretch is that of its last frame.
LEMMA AxisOn ==
  ASSUME NEW s \in Seq(Frame), NEW a \in 0 .. Len(s), NEW b \in a .. Len(s)
  PROVE  /\ axisAfter(Value(s, a), SubSeq(s, a + 1, b)) = Value(s, b)
         /\ Value(s, b) \in Speeds
<1>. DEFINE q == SubSeq(s, a + 1, b)
<1>0. Len(s) \in Nat /\ a \in Nat /\ b \in Nat /\ a <= b /\ b <= Len(s)
  OBVIOUS
<1>1. q \in Seq(Frame) /\ Len(q) = b - a /\ \A i \in 1 .. (b - a) : q[i] = s[a + i]
  BY Stretch
<1>. HIDE DEF q
<1>2. ASSUME a = b PROVE axisAfter(Value(s, a), q) = Value(s, b)
  <2>1. q = <<>>
    BY <1>0, <1>1, <1>2
  <2>. QED BY <1>2, <2>1 DEF axisAfter
<1>3. ASSUME a # b PROVE axisAfter(Value(s, a), q) = Value(s, b)
  <2>1. b - a \in 1 .. (b - a) /\ a + (b - a) = b /\ b # 0
    BY <1>0, <1>3
  <2>2. q # <<>> /\ Last(q) = s[b]
    BY <1>1, <2>1 DEF Last
  <2>. QED BY <2>1, <2>2 DEF axisAfter, Value
<1>4. Value(s, b) \in Speeds
  <2>1. CASE b = 0
    BY <2>1, PredictionAssumption DEF Value
  <2>2. CASE b # 0
    <3>1. b \in 1 .. Len(s)
      BY <1>0, <2>2
    <3>2. s[b] \in Frame
      BY <3>1, Framed
    <3>. QED BY <2>2, <3>2 DEF Value, Frame
  <2>. QED BY <2>1, <2>2
<1>5. axisAfter(Value(s, a), q) = Value(s, b)
  BY <1>2, <1>3
<1>. QED BY <1>4, <1>5 DEF q

\* The axis at a tick is that of the last frame up to it.
LEMMA AxisIs ==
  ASSUME NEW s \in Seq(Frame), Ordered(s), NEW t \in Int
  PROVE  AxisAt(s, t) = Value(s, leading(s, t)) /\ AxisAt(s, t) \in Nat
<1>. DEFINE k == leading(s, t)
<1>1. k \in 0 .. Len(s) /\ 0 \in 0 .. Len(s) /\ Value(s, 0) = 0 /\ 0 + 1 = 1
  BY Leading DEF Value
<1>2. AxisAt(s, t) = axisAfter(0, SubSeq(s, 1, k))
  BY DEF AxisAt, through
<1>. HIDE DEF k
<1>3. axisAfter(Value(s, 0), SubSeq(s, 0 + 1, k)) = Value(s, k) /\ Value(s, k) \in Speeds
  BY <1>1, AxisOn
<1>4. AxisAt(s, t) = Value(s, k) /\ Value(s, k) \in Nat
  BY <1>1, <1>2, <1>3, PredictionAssumption
<1>. QED BY <1>4 DEF k

\* The poses of a list of frames, tick by tick.
Poses(g, s, t) == g = [n \in 0 .. t |-> IF n = 0 THEN 0 ELSE g[n - 1] + AxisAt(s, n)]

LEMMA PosesExist ==
  ASSUME NEW s \in Seq(Frame), Ordered(s), NEW t \in Nat
  PROVE  \E g : Poses(g, s, t) /\ PoseAt(s, t) = g[t]
<1>. DEFINE G == [x \in Nat \X Nat |-> x[1] + AxisAt(s, x[2])]
<1>0. 0 \in Nat /\ 0 <= t /\ 0 \in 0 .. t
  OBVIOUS
<1>1. PICK g : Recurs(g, 0, t, 0, G)
  <2>. HIDE DEF G
  <2>. QED BY <1>0, Iterates
<1>2. \A n \in 0 .. t : g[n] = IF n = 0 THEN 0 ELSE G[<<g[n - 1], n>>]
  BY <1>1 DEF Recurs
<1>3. ASSUME NEW x \in Nat, NEW n \in Nat
      PROVE  G[<<x, n>>] = x + AxisAt(s, n) /\ AxisAt(s, n) \in Nat
  <2>1. n \in Int
    OBVIOUS
  <2>2. AxisAt(s, n) \in Nat
    BY <2>1, AxisIs
  <2>3. <<x, n>> \in Nat \X Nat /\ <<x, n>>[1] = x /\ <<x, n>>[2] = n
    OBVIOUS
  <2>. QED BY <2>2, <2>3
<1>4. g = [n \in 0 .. t |-> g[n]]
  BY <1>1 DEF Recurs
<1>. HIDE DEF G
<1>5. \A n \in 0 .. t : g[n] \in Nat
  <2>. DEFINE T == {n \in 0 .. t : g[n] \in Nat}
  <2>1. 0 \in T
    <3>1. g[0] = 0
      BY <1>0, <1>2
    <3>. QED BY <1>0, <3>1
  <2>2. ASSUME NEW n \in (0 + 1) .. t, n - 1 \in T PROVE n \in T
    <3>1. n \in 0 .. t /\ n # 0 /\ n \in Nat /\ g[n - 1] \in Nat
      BY <2>2
    <3>2. g[n] = G[<<g[n - 1], n>>]
      BY <1>2, <3>1
    <3>3. g[n] \in Nat
      BY <1>3, <3>1, <3>2
    <3>. QED BY <3>1, <3>3
  <2>3. \A n \in 0 .. t : n \in T
    <3>. HIDE DEF T
    <3>. QED BY <1>0, <2>1, <2>2, Upward
  <2>. QED BY <2>3
<1>6. \A n \in 0 .. t : g[n] = IF n = 0 THEN 0 ELSE g[n - 1] + AxisAt(s, n)
  <2>1. \A n \in 0 .. t : n # 0 => n - 1 \in 0 .. t /\ n \in Nat
    OBVIOUS
  <2>. QED BY <1>2, <1>3, <1>5, <2>1
<1>7. Poses(g, s, t)
  BY <1>4, <1>6 DEF Poses
<1>. DEFINE p == CHOOSE h : Poses(h, s, t)
<1>8. Poses(p, s, t)
  BY <1>7
<1>9. PoseAt(s, t) = p[t]
  BY DEF PoseAt, Poses
<1>. QED BY <1>8, <1>9

\* Lists that agree on the axis of each tick agree on the poses.
LEMMA PosesAgree ==
  ASSUME NEW s \in Seq(Frame), Ordered(s), NEW r, NEW t \in Nat, NEW u \in Nat, t <= u,
         \A n \in 1 .. t : AxisAt(s, n) = AxisAt(r, n),
         NEW g, NEW h, Poses(g, s, t), Poses(h, r, u)
  PROVE  \A n \in 0 .. t : g[n] = h[n] /\ g[n] \in Nat
<1>. DEFINE T == {n \in 0 .. t : g[n] = h[n] /\ g[n] \in Nat}
<1>0. 0 \in Nat /\ 0 <= t /\ 0 \in 0 .. t /\ 0 \in 0 .. u
  OBVIOUS
<1>1. \A n \in 0 .. t : g[n] = IF n = 0 THEN 0 ELSE g[n - 1] + AxisAt(s, n)
  BY DEF Poses
<1>2. \A n \in 0 .. u : h[n] = IF n = 0 THEN 0 ELSE h[n - 1] + AxisAt(r, n)
  BY DEF Poses
<1>3. 0 \in T
  BY <1>0, <1>1, <1>2
<1>4. ASSUME NEW n \in (0 + 1) .. t, n - 1 \in T PROVE n \in T
  <2>1. n \in 0 .. t /\ n \in 0 .. u /\ n # 0 /\ n \in 1 .. t /\ n \in Int
    OBVIOUS
  <2>2. g[n - 1] = h[n - 1] /\ g[n - 1] \in Nat
    BY <1>4
  <2>3. AxisAt(s, n) \in Nat
    BY <2>1, AxisIs
  <2>4. g[n] = h[n] /\ g[n] \in Nat
    BY <1>1, <1>2, <2>1, <2>2, <2>3
  <2>. QED BY <2>1, <2>4
<1>5. \A n \in 0 .. t : n \in T
  <2>. HIDE DEF T
  <2>. QED BY <1>0, <1>3, <1>4, Upward
<1>. QED BY <1>5

\* A pose is the pose a tick before and the axis of the tick.
LEMMA PoseSteps ==
  ASSUME NEW s \in Seq(Frame), Ordered(s), NEW t \in Nat
  PROVE  /\ PoseAt(s, 0) = 0
         /\ PoseAt(s, t) \in Nat
         /\ PoseAt(s, t + 1) = PoseAt(s, t) + AxisAt(s, t + 1)
<1>0. 0 \in Nat /\ 0 \in 0 .. 0 /\ t \in 0 .. t /\ t + 1 \in Nat /\ t <= t + 1 /\ t + 1 \in 0 .. (t + 1)
  OBVIOUS
<1>1. PICK f : Poses(f, s, 0) /\ PoseAt(s, 0) = f[0]
  BY <1>0, PosesExist
<1>2. PICK g : Poses(g, s, t) /\ PoseAt(s, t) = g[t]
  BY PosesExist
<1>3. PICK h : Poses(h, s, t + 1) /\ PoseAt(s, t + 1) = h[t + 1]
  BY <1>0, PosesExist
<1>4. f[0] = 0
  BY <1>0, <1>1 DEF Poses
<1>5. g[t] = h[t] /\ g[t] \in Nat
  BY <1>0, <1>2, <1>3, PosesAgree
<1>6. h[t + 1] = h[(t + 1) - 1] + AxisAt(s, t + 1)
  <2>1. t + 1 # 0
    OBVIOUS
  <2>. QED BY <1>0, <1>3, <2>1 DEF Poses
<1>7. (t + 1) - 1 = t
  OBVIOUS
<1>. QED BY <1>1, <1>2, <1>3, <1>4, <1>5, <1>6, <1>7

\* A frame stamped later changes nothing up to a tick.
LEMMA Appended ==
  ASSUME NEW s \in Seq(Frame), Ordered(s), NEW f \in Frame,
         \A i \in 1 .. Len(s) : s[i].tick <= f.tick
  PROVE  /\ Append(s, f) \in Seq(Frame) /\ Ordered(Append(s, f))
         /\ \A t \in Nat : t < f.tick =>
              /\ leading(Append(s, f), t) = leading(s, t)
              /\ AxisAt(Append(s, f), t) = AxisAt(s, t)
              /\ PoseAt(Append(s, f), t) = PoseAt(s, t)
         /\ \A n \in 0 .. Len(s) : Value(Append(s, f), n) = Value(s, n)
<1>. DEFINE r == Append(s, f)
<1>0. /\ Len(s) \in Nat /\ f.tick \in Nat
      /\ \A i \in 1 .. Len(s) : s[i].tick \in Nat
  BY Framed DEF Frame
<1>1. /\ r \in Seq(Frame) /\ Len(r) = Len(s) + 1 /\ r[Len(s) + 1] = f
      /\ \A i \in 1 .. Len(s) : r[i] = s[i]
  BY AppendProperties
<1>. HIDE DEF r
<1>2. Ordered(r)
  <2>. SUFFICES ASSUME NEW i \in 1 .. Len(r), NEW j \in 1 .. Len(r), i <= j
                PROVE  r[i].tick <= r[j].tick
    BY DEF Ordered
  <2>1. CASE j \in 1 .. Len(s)
    <3>1. i \in 1 .. Len(s)
      BY <1>0, <2>1
    <3>2. s[i].tick <= s[j].tick
      BY <2>1, <3>1 DEF Ordered
    <3>. QED BY <1>1, <2>1, <3>1, <3>2
  <2>2. CASE j \notin 1 .. Len(s)
    <3>1. j = Len(s) + 1 /\ (i \in 1 .. Len(s) \/ i = Len(s) + 1)
      BY <1>0, <1>1, <2>2
    <3>. QED BY <1>0, <1>1, <3>1
  <2>. QED BY <2>1, <2>2
<1>3. \A n \in 0 .. Len(s) : Value(r, n) = Value(s, n)
  <2>1. \A n \in 0 .. Len(s) : n # 0 => n \in 1 .. Len(s)
    BY <1>0
  <2>. QED BY <1>1, <2>1 DEF Value
<1>4. ASSUME NEW t \in Nat, t < f.tick
      PROVE  leading(r, t) = leading(s, t) /\ AxisAt(r, t) = AxisAt(s, t)
  <2>. DEFINE k == leading(s, t)
  <2>0. t \in Int
    OBVIOUS
  <2>1. /\ k \in 0 .. Len(s)
        /\ \A i \in 1 .. k : s[i].tick <= t
        /\ \A i \in (k + 1) .. Len(s) : s[i].tick > t
    BY <2>0, Leading
  <2>. HIDE DEF k
  <2>2. k \in 0 .. Len(r)
    BY <1>0, <1>1, <2>1
  <2>3. ASSUME NEW i \in 1 .. k PROVE r[i].tick <= t
    <3>1. i \in 1 .. Len(s)
      BY <1>0, <2>1
    <3>. QED BY <1>1, <2>1, <3>1
  <2>4. ASSUME NEW i \in (k + 1) .. Len(r) PROVE r[i].tick > t
    <3>1. CASE i = Len(s) + 1
      BY <1>0, <1>1, <1>4, <3>1
    <3>2. CASE i # Len(s) + 1
      <4>1. i \in 1 .. Len(s) /\ i \in (k + 1) .. Len(s)
        BY <1>0, <1>1, <2>1, <3>2
      <4>. QED BY <1>1, <2>1, <4>1
    <3>. QED BY <3>1, <3>2
  <2>5. leading(r, t) = k
    BY <1>1, <1>2, <2>0, <2>2, <2>3, <2>4, LeadingIs
  <2>6. AxisAt(r, t) = Value(r, k) /\ AxisAt(s, t) = Value(s, k)
    BY <1>1, <1>2, <2>0, <2>5, AxisIs DEF k
  <2>. QED BY <1>3, <2>1, <2>5, <2>6 DEF k
<1>5. ASSUME NEW t \in Nat, t < f.tick PROVE PoseAt(r, t) = PoseAt(s, t)
  <2>1. PICK g : Poses(g, s, t) /\ PoseAt(s, t) = g[t]
    BY PosesExist
  <2>2. PICK h : Poses(h, r, t) /\ PoseAt(r, t) = h[t]
    BY <1>1, <1>2, PosesExist
  <2>3. \A n \in 1 .. t : AxisAt(s, n) = AxisAt(r, n)
    <3>1. \A n \in 1 .. t : n \in Nat /\ n < f.tick
      BY <1>0, <1>5
    <3>. QED BY <1>4, <3>1
  <2>4. t <= t /\ t \in 0 .. t
    OBVIOUS
  <2>5. \A n \in 0 .. t : g[n] = h[n] /\ g[n] \in Nat
    BY ONLY s \in Seq(Frame), Ordered(s), t \in Nat, <2>1, <2>2, <2>3, <2>4, PosesAgree
  <2>. QED BY <2>1, <2>2, <2>4, <2>5
<1>6. \A t \in Nat : t < f.tick =>
         leading(r, t) = leading(s, t) /\ AxisAt(r, t) = AxisAt(s, t) /\ PoseAt(r, t) = PoseAt(s, t)
  BY <1>4, <1>5
<1>. QED BY <1>1, <1>2, <1>3, <1>6 DEF r

-----------------------------------------------------------------------------
(* The replay. *)

World == [pose : Nat, count : Nat, axis : Nat]

\* #frameFor: the frames of a ring stamped with one tick, when the list it is the end of has been
\* followed at least to the ring.
LEMMA FrameForIs ==
  ASSUME NEW s \in Seq(Frame), Ordered(s), NEW a \in 0 .. Len(s), NEW t \in Int,
         a <= leading(s, t - 1)
  PROVE  /\ leading(s, t - 1) \in 0 .. Len(s) /\ leading(s, t) \in leading(s, t - 1) .. Len(s)
         /\ frameFor(SubSeq(s, a + 1, Len(s)), t) = SubSeq(s, leading(s, t - 1) + 1, leading(s, t))
<1>. DEFINE ring == SubSeq(s, a + 1, Len(s))
            before == leading(s, t - 1)
<1>0. Len(s) \in Nat /\ t - 1 \in Int /\ Len(s) \in a .. Len(s) /\ \A i \in 1 .. Len(s) : s[i].tick \in Int
  BY Framed
<1>1. before \in 0 .. Len(s) /\ \A i \in 1 .. before : s[i].tick <= t - 1
  BY <1>0, Leading
<1>2. PICK m \in a .. Len(s) :
        /\ beyond(ring, t - 1) = SubSeq(s, m + 1, Len(s))
        /\ \A i \in (a + 1) .. m : s[i].tick <= t - 1
        /\ \A i \in (m + 1) .. Len(s) : s[i].tick > t - 1
  BY <1>0, Parts
<1>. HIDE DEF ring, before
<1>3. m \in 0 .. Len(s) /\ m \in Int
  BY <1>0, <1>2
<1>4. \A i \in 1 .. m : s[i].tick <= t - 1
  <2>1. \A i \in 1 .. m : i \in 1 .. before \/ i \in (a + 1) .. m
    BY <1>0, <1>1, <1>3 DEF before
  <2>. QED BY <1>1, <1>2, <2>1
<1>5. before = m
  BY <1>0, <1>2, <1>3, <1>4, LeadingIs DEF before
<1>6. PICK n \in m .. Len(s) :
        /\ through(SubSeq(s, m + 1, Len(s)), t) = SubSeq(s, m + 1, n)
        /\ \A i \in (m + 1) .. n : s[i].tick <= t
        /\ \A i \in (n + 1) .. Len(s) : s[i].tick > t
  <2>1. Len(s) \in m .. Len(s)
    BY <1>0, <1>3
  <2>. QED BY <1>3, <2>1, Parts
<1>7. n \in 0 .. Len(s)
  BY <1>0, <1>3, <1>6
<1>8. ASSUME NEW i \in 1 .. n PROVE s[i].tick <= t
  <2>1. i \in 1 .. Len(s) /\ (i \in 1 .. m \/ i \in (m + 1) .. n)
    BY <1>0, <1>3, <1>7
  <2>. QED BY <1>0, <1>4, <1>6, <2>1
<1>9. leading(s, t) = n
  BY <1>6, <1>7, <1>8, LeadingIs
<1>10. frameFor(ring, t) = SubSeq(s, before + 1, n)
  BY <1>2, <1>5, <1>6 DEF frameFor
<1>. QED BY <1>1, <1>5, <1>6, <1>9, <1>10 DEF ring, before

\* So is what a ring has for a tick a list of frames.
LEMMA FrameForType ==
  ASSUME NEW s \in Seq(Frame), Ordered(s), NEW t \in Int
  PROVE  frameFor(s, t) \in Seq(Frame)
<1>1. 0 \in 0 .. Len(s) /\ 0 + 1 = 1 /\ t - 1 \in Int /\ Len(s) \in Nat
  OBVIOUS
<1>2. leading(s, t - 1) \in 0 .. Len(s)
  BY <1>1, Leading
<1>3. 0 <= leading(s, t - 1)
  BY <1>1, <1>2
<1>4. SubSeq(s, 0 + 1, Len(s)) = s
  BY <1>1, SubSeqFull
<1>5. /\ leading(s, t) \in leading(s, t - 1) .. Len(s)
      /\ frameFor(SubSeq(s, 0 + 1, Len(s)), t) = SubSeq(s, leading(s, t - 1) + 1, leading(s, t))
  BY <1>1, <1>3, FrameForIs
<1>6. SubSeq(s, leading(s, t - 1) + 1, leading(s, t)) \in Seq(Frame)
  BY <1>2, <1>5, Stretch
<1>. QED BY <1>4, <1>5, <1>6

\* One tick of the client.
LEMMA SteppedIs ==
  ASSUME NEW w \in World, NEW q \in Seq(Frame)
  PROVE  /\ stepped(w, q) \in World
         /\ stepped(w, q) = [pose |-> w.pose + axisAfter(w.axis, q), count |-> w.count + Len(q),
                             axis |-> axisAfter(w.axis, q)]
<1>1. axisAfter(w.axis, q) \in Nat
  <2>1. CASE q = <<>>
    BY <2>1 DEF axisAfter, World
  <2>2. CASE q # <<>>
    <3>1. Len(q) \in 1 .. Len(q)
      BY <2>2, EmptySeq
    <3>2. q[Len(q)].value \in Nat
      BY <3>1, Framed
    <3>. QED BY <2>2, <3>2 DEF axisAfter, Last
  <2>. QED BY <2>1, <2>2
<1>2. w = [pose |-> w.pose, count |-> w.count, axis |-> w.axis] /\ w.pose \in Nat /\ w.count \in Nat
  BY DEF World
<1>3. Len(q) \in Nat
  OBVIOUS
<1>. DEFINE x == axisAfter(w.axis, q)
            n == Len(q)
<1>4. stepped(w, q) = [[w EXCEPT !.pose = @ + x, !.count = @ + n] EXCEPT !.axis = x]
  BY DEF stepped, ticked
<1>. HIDE DEF x, n
<1>5. stepped(w, q) = [pose |-> w.pose + x, count |-> w.count + n, axis |-> x]
  BY <1>2, <1>4
<1>. QED BY <1>1, <1>2, <1>3, <1>5 DEF x, n, World

\* #replay and #step: a run of ticks is a course of worlds, each a tick after the one before.
Stepping(g, w, ring, lo, hi) ==
  /\ g[lo] = w /\ \A t \in lo .. hi : g[t] \in World
  /\ \A t \in (lo + 1) .. hi : g[t] = stepped(g[t - 1], frameFor(ring, t))

LEMMA Steps ==
  ASSUME NEW ring \in Seq(Frame), Ordered(ring), NEW w \in World, NEW lo \in Nat, NEW hi \in Nat,
         lo <= hi
  PROVE  \E g : Stepping(g, w, ring, lo, hi) /\ stepThrough(w, ring, lo, hi) = g[hi]
<1>. DEFINE G == [x \in World \X Nat |-> stepped(x[1], frameFor(ring, x[2]))]
            Goes(g) == g = [t \in lo .. hi |-> IF t = lo THEN w
                                               ELSE stepped(g[t - 1], frameFor(ring, t))]
<1>0. lo \in lo .. hi /\ hi \in lo .. hi
  OBVIOUS
<1>1. PICK g : Recurs(g, lo, hi, w, G)
  <2>. HIDE DEF G
  <2>. QED BY Iterates
<1>2. \A t \in lo .. hi : g[t] = IF t = lo THEN w ELSE G[<<g[t - 1], t>>]
  BY <1>1 DEF Recurs
<1>3. ASSUME NEW x \in World, NEW t \in Nat
      PROVE  G[<<x, t>>] = stepped(x, frameFor(ring, t)) /\ stepped(x, frameFor(ring, t)) \in World
  <2>1. frameFor(ring, t) \in Seq(Frame)
    <3>1. t \in Int
      OBVIOUS
    <3>. QED BY <3>1, FrameForType
  <2>2. stepped(x, frameFor(ring, t)) \in World
    BY <2>1, SteppedIs
  <2>3. <<x, t>> \in World \X Nat /\ <<x, t>>[1] = x /\ <<x, t>>[2] = t
    OBVIOUS
  <2>. QED BY <2>2, <2>3
<1>4. g = [t \in lo .. hi |-> g[t]]
  BY <1>1 DEF Recurs
<1>. HIDE DEF G
\* Whatever goes so stays among the worlds.
<1>5. ASSUME NEW h, \A t \in lo .. hi : h[t] = IF t = lo THEN w ELSE G[<<h[t - 1], t>>]
      PROVE  \A t \in lo .. hi : h[t] \in World
  <2>. DEFINE T == {t \in lo .. hi : h[t] \in World}
  <2>1. lo \in T
    BY <1>0, <1>5
  <2>2. ASSUME NEW t \in (lo + 1) .. hi, t - 1 \in T PROVE t \in T
    <3>1. t \in lo .. hi /\ t # lo /\ t \in Nat /\ h[t - 1] \in World
      BY <2>2
    <3>2. h[t] = G[<<h[t - 1], t>>]
      BY <1>5, <3>1
    <3>3. h[t] \in World
      BY <1>3, <3>1, <3>2
    <3>. QED BY <3>1, <3>3
  <2>3. \A t \in lo .. hi : t \in T
    <3>. HIDE DEF T
    <3>. QED BY <2>1, <2>2, Upward
  <2>. QED BY <2>3
<1>6. \A t \in lo .. hi : g[t] \in World
  BY <1>2, <1>5
<1>7. \A t \in lo .. hi : t # lo => t \in Nat /\ t - 1 \in lo .. hi
  OBVIOUS
<1>8. \A t \in lo .. hi : g[t] = IF t = lo THEN w ELSE stepped(g[t - 1], frameFor(ring, t))
  BY <1>2, <1>3, <1>6, <1>7
<1>9. Goes(g)
  BY <1>4, <1>8
<1>. DEFINE p == CHOOSE h : Goes(h)
<1>10. Goes(p)
  <2>. HIDE DEF Goes
  <2>. QED BY <1>9
<1>11. stepThrough(w, ring, lo, hi) = p[hi]
  BY DEF stepThrough
<1>. HIDE DEF p
<1>12. \A t \in lo .. hi : p[t] = IF t = lo THEN w ELSE stepped(p[t - 1], frameFor(ring, t))
  BY <1>10
<1>. HIDE DEF Goes
<1>13. \A t \in lo .. hi : p[t] \in World
  <2>. DEFINE T == {t \in lo .. hi : p[t] \in World}
  <2>1. lo \in T
    BY <1>0, <1>12
  <2>2. ASSUME NEW t \in (lo + 1) .. hi, t - 1 \in T PROVE t \in T
    <3>1. t \in lo .. hi /\ t # lo /\ t \in Nat /\ p[t - 1] \in World
      BY <2>2
    <3>2. p[t] \in World
      BY <1>3, <1>12, <3>1
    <3>. QED BY <3>1, <3>2
  <2>3. \A t \in lo .. hi : t \in T
    <3>. HIDE DEF T
    <3>. QED BY <2>1, <2>2, Upward
  <2>. QED BY <2>3
<1>14. \A t \in (lo + 1) .. hi : t \in lo .. hi /\ t # lo
  OBVIOUS
<1>15. Stepping(p, w, ring, lo, hi)
  BY <1>0, <1>12, <1>13, <1>14 DEF Stepping
<1>. QED BY <1>11, <1>15

\* A replay ends among the worlds.
LEMMA StepsType ==
  ASSUME NEW ring \in Seq(Frame), Ordered(ring), NEW w \in World, NEW lo \in Nat, NEW hi \in Nat,
         lo <= hi
  PROVE  stepThrough(w, ring, lo, hi) \in World
<1>1. hi \in lo .. hi
  OBVIOUS
<1>2. PICK g : Stepping(g, w, ring, lo, hi) /\ stepThrough(w, ring, lo, hi) = g[hi]
  BY Steps
<1>. QED BY <1>1, <1>2 DEF Stepping

\* Where the frames up to a tick have taken the avatar.
Reached(s, t) == [pose |-> PoseAt(s, t), count |-> leading(s, t), axis |-> AxisAt(s, t)]

\* A replay over a tick everything is right at, with a ring that holds every later frame, ends right.
LEMMA StepsAgree ==
  ASSUME NEW s \in Seq(Frame), Ordered(s), NEW a \in 0 .. Len(s), NEW lo \in Nat, NEW hi \in Nat,
         lo <= hi, a <= leading(s, lo)
  PROVE  stepThrough(Reached(s, lo), SubSeq(s, a + 1, Len(s)), lo, hi) = Reached(s, hi)
<1>. DEFINE ring == SubSeq(s, a + 1, Len(s))
            w == Reached(s, lo)
<1>0. Len(s) \in Nat /\ Len(s) \in a .. Len(s) /\ a \in Nat /\ hi \in lo .. hi /\ lo \in lo .. hi
  OBVIOUS
<1>1. ring \in Seq(Frame) /\ Ordered(ring)
  BY <1>0, Stretch, StretchOrdered
<1>2. ASSUME NEW t \in Nat
      PROVE  PoseAt(s, t) \in Nat /\ leading(s, t) \in 0 .. Len(s) /\ AxisAt(s, t) \in Nat
             /\ AxisAt(s, t) = Value(s, leading(s, t))
  <2>1. t \in Int
    OBVIOUS
  <2>. QED BY <2>1, PoseSteps, Leading, AxisIs
<1>3. ASSUME NEW t \in Nat PROVE Reached(s, t) \in World
  <2>1. leading(s, t) \in 0 .. Len(s)
    BY <1>2
  <2>2. leading(s, t) \in Nat
    BY ONLY <1>0, <2>1
  <2>. QED BY <1>2, <2>2 DEF Reached, World
<1>. HIDE DEF ring, w
<1>s. PICK g : Stepping(g, w, ring, lo, hi) /\ stepThrough(w, ring, lo, hi) = g[hi]
  <2>1. w \in World
    BY <1>3 DEF w
  <2>. QED BY <1>1, <2>1, Steps
<1>4. /\ g[lo] = w /\ \A t \in lo .. hi : g[t] \in World
      /\ \A t \in (lo + 1) .. hi : g[t] = stepped(g[t - 1], frameFor(ring, t))
      /\ stepThrough(w, ring, lo, hi) = g[hi]
  BY <1>s DEF Stepping
<1>. DEFINE T == {t \in lo .. hi : g[t] = Reached(s, t) /\ a <= leading(s, t)}
<1>5. lo \in T
  BY <1>0, <1>4 DEF w
<1>6. ASSUME NEW t \in (lo + 1) .. hi, t - 1 \in T PROVE t \in T
  <2>. DEFINE k == leading(s, t - 1)
              n == leading(s, t)
              q == SubSeq(s, k + 1, n)
  <2>1. t \in lo .. hi /\ t \in Nat /\ t \in Int /\ t - 1 \in Nat /\ (t - 1) + 1 = t
    OBVIOUS
  <2>2. g[t - 1] = Reached(s, t - 1) /\ a <= k
    BY <1>6
  <2>3. k \in 0 .. Len(s) /\ n \in k .. Len(s) /\ frameFor(ring, t) = q
    BY <2>1, <2>2, FrameForIs DEF ring
  <2>4. q \in Seq(Frame) /\ Len(q) = n - k
    <3>. HIDE DEF k, n
    <3>. QED BY <2>3, Stretch
  <2>5. axisAfter(Value(s, k), q) = Value(s, n)
    <3>. HIDE DEF k, n
    <3>. QED BY <2>3, AxisOn
  <2>6. AxisAt(s, t - 1) = Value(s, k) /\ AxisAt(s, t) = Value(s, n)
    BY <1>2, <2>1
  <2>7. PoseAt(s, t) = PoseAt(s, t - 1) + AxisAt(s, t)
    <3>1. PoseAt(s, (t - 1) + 1) = PoseAt(s, t - 1) + AxisAt(s, (t - 1) + 1)
      BY <2>1, PoseSteps
    <3>. QED BY <2>1, <3>1
  <2>. HIDE DEF k, n, q
  <2>8. g[t] = stepped(Reached(s, t - 1), q)
    BY <1>4, <2>2, <2>3
  <2>9. /\ Reached(s, t - 1).pose = PoseAt(s, t - 1) /\ Reached(s, t - 1).count = k
        /\ Reached(s, t - 1).axis = Value(s, k) /\ Reached(s, t - 1) \in World
    BY <1>3, <2>1, <2>6 DEF Reached, k
  <2>10. g[t] = [pose |-> PoseAt(s, t - 1) + Value(s, n), count |-> k + (n - k), axis |-> Value(s, n)]
    <3>1. stepped(Reached(s, t - 1), q)
            = [pose |-> Reached(s, t - 1).pose + axisAfter(Reached(s, t - 1).axis, q),
               count |-> Reached(s, t - 1).count + Len(q),
               axis |-> axisAfter(Reached(s, t - 1).axis, q)]
      BY <2>4, <2>9, SteppedIs
    <3>. QED BY <2>4, <2>5, <2>8, <2>9, <3>1
  <2>11. k + (n - k) = n /\ a <= n
    BY <1>0, <2>2, <2>3
  <2>12. g[t] = Reached(s, t)
    BY <2>6, <2>7, <2>10, <2>11 DEF Reached, n
  <2>. QED BY <2>1, <2>11, <2>12 DEF n
<1>7. \A t \in lo .. hi : t \in T
  <2>. HIDE DEF T
  <2>. QED BY <1>5, <1>6, Upward
<1>8. g[hi] = Reached(s, hi)
  BY <1>0, <1>7
<1>. QED BY <1>4, <1>8 DEF ring, w

\* The distance two spans of ticks cover.
LEMMA Spans ==
  ASSUME NEW x \in Nat, NEW a \in Int, NEW b \in Int, NEW c \in Int
  PROVE  x * (b - a) + x * (c - b) = x * (c - a) /\ x * (a - a) = 0 /\ x * (b - a) \in Int
OBVIOUS

\* A replay without input goes straight on.
LEMMA StepsStraight ==
  ASSUME NEW w \in World, NEW lo \in Nat, NEW hi \in Nat, lo <= hi
  PROVE  stepThrough(w, <<>>, lo, hi)
           = [pose |-> w.pose + w.axis * (hi - lo), count |-> w.count, axis |-> w.axis]
<1>. DEFINE ring == <<>>
<1>0. hi \in lo .. hi /\ lo \in lo .. hi /\ w.pose \in Nat /\ w.count \in Nat /\ w.axis \in Nat
      /\ w = [pose |-> w.pose, count |-> w.count, axis |-> w.axis]
  BY DEF World
<1>1. ring \in Seq(Frame) /\ Len(ring) = 0 /\ Ordered(ring)
  BY DEF Ordered
<1>2. ASSUME NEW t \in Nat PROVE frameFor(ring, t) = <<>>
  <2>1. 0 \in 0 .. Len(ring) /\ 0 + 1 = 1 /\ t - 1 \in Int /\ t \in Int
    BY <1>1
  <2>2. leading(ring, t - 1) = 0 /\ leading(ring, t) = 0
    <3>1. leading(ring, t - 1) \in 0 .. Len(ring) /\ leading(ring, t) \in 0 .. Len(ring)
      <4>. HIDE DEF ring
      <4>. QED BY <1>1, <2>1, Leading
    <3>. QED BY <1>1, <3>1
  <2>3. frameFor(SubSeq(ring, 0 + 1, Len(ring)), t) = SubSeq(ring, 0 + 1, 0)
    <3>1. 0 <= leading(ring, t - 1)
      BY <2>2
    <3>2. frameFor(SubSeq(ring, 0 + 1, Len(ring)), t)
            = SubSeq(ring, leading(ring, t - 1) + 1, leading(ring, t))
      <4>. HIDE DEF ring
      <4>. QED BY <1>1, <2>1, <3>1, FrameForIs
    <3>. QED BY <2>2, <3>2
  <2>4. SubSeq(ring, 0 + 1, 0) = <<>>
    <3>1. 0 + 1 \in Int /\ 0 \in Int /\ 0 < 0 + 1
      OBVIOUS
    <3>. QED BY <3>1, SubSeqEmpty
  <2>5. SubSeq(ring, 0 + 1, Len(ring)) = ring
    <3>. HIDE DEF ring
    <3>. QED BY <1>1, <2>1, SubSeqFull
  <2>. QED BY <2>3, <2>4, <2>5
<1>. HIDE DEF ring
<1>s. PICK g : Stepping(g, w, ring, lo, hi) /\ stepThrough(w, ring, lo, hi) = g[hi]
  BY <1>1, Steps
<1>3. /\ g[lo] = w /\ \A t \in lo .. hi : g[t] \in World
      /\ \A t \in (lo + 1) .. hi : g[t] = stepped(g[t - 1], frameFor(ring, t))
      /\ stepThrough(w, ring, lo, hi) = g[hi]
  BY <1>s DEF Stepping
<1>. DEFINE at(t) == [pose |-> w.pose + w.axis * (t - lo), count |-> w.count, axis |-> w.axis]
            T == {t \in lo .. hi : g[t] = at(t)}
<1>4. lo \in T
  <2>1. w.axis * (lo - lo) = 0 /\ w.pose + 0 = w.pose
    BY <1>0
  <2>. QED BY <1>0, <1>3, <2>1
<1>5. ASSUME NEW t \in (lo + 1) .. hi, t - 1 \in T PROVE t \in T
  <2>1. t \in lo .. hi /\ t \in Nat /\ t - 1 \in lo .. hi
    OBVIOUS
  <2>2. g[t - 1] = at(t - 1) /\ g[t - 1] \in World
    BY <1>3, <1>5, <2>1
  <2>3. g[t] = stepped(g[t - 1], <<>>)
    BY <1>2, <1>3, <2>1
  <2>4. <<>> \in Seq(Frame) /\ Len(<<>>) = 0 /\ \A x : axisAfter(x, <<>>) = x
    BY DEF axisAfter
  <2>5. g[t] = [pose |-> g[t - 1].pose + g[t - 1].axis, count |-> g[t - 1].count + 0,
                axis |-> g[t - 1].axis]
    BY <2>2, <2>3, <2>4, SteppedIs
  <2>6. (w.pose + w.axis * ((t - 1) - lo)) + w.axis = w.pose + w.axis * (t - lo)
    BY <1>0, <2>1
  <2>7. g[t - 1].pose = w.pose + w.axis * ((t - 1) - lo) /\ g[t - 1].count = w.count
        /\ g[t - 1].axis = w.axis /\ w.count + 0 = w.count
    BY <1>0, <2>2
  <2>8. g[t] = at(t)
    BY <2>5, <2>6, <2>7
  <2>. QED BY <2>1, <2>8
<1>6. \A t \in lo .. hi : t \in T
  <2>. HIDE DEF T
  <2>. QED BY <1>4, <1>5, Upward
<1>7. g[hi] = at(hi)
  BY <1>0, <1>6
<1>. QED BY <1>3, <1>7 DEF ring

-----------------------------------------------------------------------------
(* The invariant. *)

Mirror == [pose : Nat, count : Nat, depicted : Nat, acked : Nat, posed : Nat]
StateEnvelope == [kind : {"state"}, tick : Nat, ack : Nat, count : Nat \cup {Same}]
TransformEnvelope == [kind : {"transform"}, tick : Nat, pose : Nat \cup {Same}]
Envelope == StateEnvelope \cup TransformEnvelope

PredictionTypes ==
  /\ auth \in [tick : Nat, pose : Nat, count : Nat, axis : Nat, ack : Nat,
               told : [pose : Nat, count : Nat]]
  /\ due \in Seq(Frame) /\ rising \in Seq(Frame) /\ unacked \in Seq(Frame)
  /\ sentFrames \in Seq(Frame) /\ falling \in Seq(Envelope)
  /\ local \in Nat /\ predicted \in Nat /\ missed \in Nat /\ shed \in 0 .. MaxShed
  /\ horizonAxis \in Nat /\ fold \in Nat /\ drawn \in Int
  /\ mirror \in Mirror /\ base \in [tick : Nat, pose : Nat, count : Nat]
  /\ tardy \in BOOLEAN /\ blurred \in BOOLEAN

\* InputSender numbers frames without a gap and stamps them with a clock that does not go back.
Sent ==
  /\ Ordered(sentFrames)
  /\ \A i \in 1 .. Len(sentFrames) : sentFrames[i].seq = i /\ sentFrames[i].tick <= local

\* A frame is simulated, due or rising, in that order, and pruned or in the ring.
Placed ==
  /\ auth.ack + Len(due) <= Len(sentFrames) /\ mirror.acked <= Len(sentFrames)
  /\ due = SubSeq(sentFrames, auth.ack + 1, auth.ack + Len(due))
  /\ rising = SubSeq(sentFrames, (auth.ack + Len(due)) + 1, Len(sentFrames))
  /\ unacked = SubSeq(sentFrames, mirror.acked + 1, Len(sentFrames))

\* The server is where the frames it simulated took it, and the ring's horizon is where those pruned did.
Held ==
  /\ auth.tick <= local
  /\ auth.count = auth.ack /\ auth.axis = Value(sentFrames, auth.ack)
  /\ horizonAxis = Value(sentFrames, mirror.acked)
  /\ \A i \in 1 .. auth.ack : sentFrames[i].tick <= auth.tick
  /\ ~tardy => \A i \in (auth.ack + 1) .. Len(sentFrames) : sentFrames[i].tick > auth.tick
  /\ ~tardy => auth.pose = PoseAt(sentFrames, auth.tick)
  /\ auth.tick % SendEvery = 0 => auth.told.pose = auth.pose /\ auth.told.count = auth.count

\* The world without its predicted ticks, and the course it takes as the envelopes on their way
\* arrive.
Rewound == [mirror EXCEPT !.pose = base.pose, !.count = base.count]
Course(w) ==
  /\ w[0] = Rewound
  /\ \A i \in 0 .. Len(falling) : w[i] \in Mirror
  /\ \A i \in 1 .. Len(falling) : w[i] = applyEnvelope(w[i - 1], falling[i])

\* A pose that was shed is told by a later one.
Resolves(e, tick) == e.kind = "transform" /\ e.pose # Same /\ e.tick > tick
Resolved(i) == missed = 0 \/ \E j \in 1 .. i : Resolves(falling[j], missed)

\* What the client was told of the input is what the server had simulated at the tick depicted.
Knows(m) ==
  /\ m.count = m.acked /\ m.acked <= auth.ack
  /\ m.depicted <= auth.tick /\ m.depicted % SendEvery = 0 /\ m.posed <= auth.tick
  /\ \A i \in 1 .. m.acked : sentFrames[i].tick <= m.depicted
  /\ ~tardy => \A i \in (m.acked + 1) .. Len(sentFrames) : sentFrames[i].tick > m.depicted

Informed(w) ==
  /\ \A i \in 0 .. Len(falling) : Knows(w[i])
  /\ \A i \in 0 .. Len(falling) :
        ~tardy /\ Resolved(i) => w[i].pose = PoseAt(sentFrames, w[i].posed)
  /\ \A i, j \in 0 .. Len(falling) : i <= j => w[i].acked <= w[j].acked
  /\ w[Len(falling)].count = auth.told.count
  /\ Resolved(Len(falling)) => w[Len(falling)].pose = auth.told.pose

InOrder ==
  /\ \A i \in 1 .. Len(falling) : falling[i].tick \in 1 .. auth.tick
  /\ \A i, j \in 1 .. Len(falling) :
        i < j /\ falling[i].kind = "transform" /\ falling[j].kind = "transform"
           => falling[i].tick < falling[j].tick

Ahead == InOrder /\ \E w : Course(w) /\ Informed(w)

\* What the client predicts: right when it was told in time, and straight on without input.
Predicted ==
  /\ base.tick = mirror.depicted
  /\ predicted = local \/ (predicted = 0 /\ local = 1 /\ sentFrames = <<>> /\ base.tick = 0)
  /\ ~tardy /\ Told /\ Whole =>
        /\ mirror.pose = PoseAt(sentFrames, predicted)
        /\ mirror.count = leading(sentFrames, predicted)
        /\ fold = AxisAt(sentFrames, predicted)
  /\ unacked = <<>> /\ Whole =>
        /\ mirror.pose = base.pose + horizonAxis * (predicted - base.tick)
        /\ mirror.count = base.count
        /\ fold = horizonAxis

PredictionInv ==
  PredictionTypes /\ Sent /\ Placed /\ Held /\ Ahead /\ Predicted

-----------------------------------------------------------------------------
(* Envelopes. *)

LEMMA StateApplied ==
  ASSUME NEW m \in Mirror, NEW e \in StateEnvelope
  PROVE  /\ applyEnvelope(m, e) \in Mirror
         /\ applyEnvelope(m, e) =
              [pose |-> m.pose, count |-> written(m.count, e.count), depicted |-> e.tick,
               acked |-> IF e.ack > m.acked THEN e.ack ELSE m.acked, posed |-> m.posed]
<1>1. /\ m = [pose |-> m.pose, count |-> m.count, depicted |-> m.depicted, acked |-> m.acked,
              posed |-> m.posed]
      /\ m.pose \in Nat /\ m.count \in Nat /\ m.depicted \in Nat /\ m.acked \in Nat /\ m.posed \in Nat
  BY DEF Mirror
<1>2. e.kind = "state" /\ e.tick \in Nat /\ e.ack \in Nat /\ e.count \in Nat \cup {Same}
  BY DEF StateEnvelope
<1>3. written(m.count, e.count) \in Nat
  BY <1>1, <1>2 DEF written
<1>. DEFINE n == written(m.count, e.count)
            a == IF e.ack > m.acked THEN e.ack ELSE m.acked
<1>4. applyEnvelope(m, e) = [m EXCEPT !.depicted = e.tick, !.count = n, !.acked = a]
  BY <1>2 DEF applyEnvelope
<1>5. a \in Nat
  BY <1>1, <1>2
<1>. HIDE DEF n, a
<1>6. applyEnvelope(m, e) = [pose |-> m.pose, count |-> n, depicted |-> e.tick, acked |-> a,
                             posed |-> m.posed]
  BY <1>1, <1>4
<1>. QED BY <1>1, <1>2, <1>3, <1>5, <1>6 DEF n, a, Mirror

LEMMA TransformApplied ==
  ASSUME NEW m \in Mirror, NEW e \in TransformEnvelope
  PROVE  /\ applyEnvelope(m, e) \in Mirror
         /\ applyEnvelope(m, e) =
              [pose |-> written(m.pose, e.pose), count |-> m.count, depicted |-> m.depicted,
               acked |-> m.acked, posed |-> e.tick]
<1>1. /\ m = [pose |-> m.pose, count |-> m.count, depicted |-> m.depicted, acked |-> m.acked,
              posed |-> m.posed]
      /\ m.pose \in Nat /\ m.count \in Nat /\ m.depicted \in Nat /\ m.acked \in Nat /\ m.posed \in Nat
  BY DEF Mirror
<1>2. e.kind = "transform" /\ e.tick \in Nat /\ e.pose \in Nat \cup {Same}
  BY DEF TransformEnvelope
<1>. DEFINE x == written(m.pose, e.pose)
<1>3. x \in Nat
  BY <1>1, <1>2 DEF written
<1>4. applyEnvelope(m, e) = [m EXCEPT !.pose = x, !.posed = e.tick]
  BY <1>2 DEF applyEnvelope
<1>. HIDE DEF x
<1>5. applyEnvelope(m, e) = [pose |-> x, count |-> m.count, depicted |-> m.depicted,
                             acked |-> m.acked, posed |-> e.tick]
  BY <1>1, <1>4
<1>. QED BY <1>1, <1>2, <1>3, <1>5 DEF x, Mirror

\* What a delta says is what the receiver has then, when it had what was told last.
LEMMA DeltaTold ==
  ASSUME NEW now \in Nat, NEW told \in Nat
  PROVE  /\ delta(now, told) \in Nat \cup {Same}
         /\ written(told, delta(now, told)) = now
         /\ delta(now, told) # Same => \A was : written(was, delta(now, told)) = now
  BY DEF delta, written, Same

\* applyBatch follows the course.
LEMMA BatchIs ==
  ASSUME NEW q \in Seq(Envelope), NEW k \in 0 .. Len(q), NEW w,
         \A i \in 1 .. Len(q) : w[i] = applyEnvelope(w[i - 1], q[i])
  PROVE  applyBatch(w[0], SubSeq(q, 1, k)) = w[k]
<1>. DEFINE b == SubSeq(q, 1, k)
            P == [i \in 0 .. k |-> {w[i]}]
<1>0. Len(q) \in Nat /\ k \in Nat /\ k <= Len(q) /\ 0 \in 0 .. Len(q) /\ 0 + 1 = 1 /\ k - 0 = k
      /\ 0 \in 0 .. k /\ k \in 0 .. k
  OBVIOUS
<1>1. b \in Seq(Envelope) /\ Len(b) = k /\ \A i \in 1 .. k : b[i] = q[i]
  <2>1. /\ SubSeq(q, 0 + 1, k) \in Seq(Envelope) /\ Len(SubSeq(q, 0 + 1, k)) = k - 0
        /\ \A i \in 1 .. (k - 0) : SubSeq(q, 0 + 1, k)[i] = q[0 + i]
    BY <1>0, Stretch
  <2>2. \A i \in 1 .. k : 0 + i = i
    BY <1>0
  <2>. QED BY <1>0, <2>1, <2>2
<1>. HIDE DEF b
<1>2. w[0] \in P[0]
  BY <1>0
<1>3. ASSUME NEW i \in 1 .. Len(b), NEW x \in P[i - 1] PROVE applyEnvelope(x, b[i]) \in P[i]
  <2>1. i \in 1 .. k /\ i \in 1 .. Len(q) /\ i \in 0 .. k /\ i - 1 \in 0 .. k
    BY <1>0, <1>1
  <2>2. x = w[i - 1] /\ P[i] = {w[i]}
    BY <2>1
  <2>. QED BY <1>1, <2>1, <2>2
<1>4. P[Len(b)] = {w[k]}
  BY <1>0, <1>1
<1>. HIDE DEF P
<1>5. Fenv!Folded(w[0], b) \in P[Len(b)]
  BY ONLY <1>1, <1>2, <1>3, Fenv!FoldSteps
<1>6. applyBatch(w[0], b) = Fenv!Folded(w[0], b)
  BY DEF applyBatch, Fenv!Folded, FoldLeft, MapThenFoldSet, Fenv!FoldLeft, Fenv!MapThenFoldSet,
         Max, Fenv!Max
<1>. QED BY <1>4, <1>5, <1>6 DEF b

-----------------------------------------------------------------------------
(* The steps. *)

LEMMA InitPrediction ==
  ASSUME PredictionInit
  PROVE  PredictionInv
<1>0. /\ sentFrames = <<>> /\ Len(sentFrames) = 0 /\ sentFrames \in Seq(Frame)
      /\ falling = <<>> /\ Len(falling) = 0 /\ falling \in Seq(Envelope)
      /\ due = <<>> /\ Len(due) = 0 /\ rising = <<>> /\ unacked = <<>>
  BY DEF PredictionInit
<1>1. PredictionTypes
  <2>1. MaxShed \in Nat
    BY PredictionAssumption
  <2>2. /\ auth \in [tick : Nat, pose : Nat, count : Nat, axis : Nat, ack : Nat,
                     told : [pose : Nat, count : Nat]]
        /\ mirror \in Mirror /\ base \in [tick : Nat, pose : Nat, count : Nat]
    BY DEF PredictionInit, Mirror
  <2>3. /\ due \in Seq(Frame) /\ rising \in Seq(Frame) /\ unacked \in Seq(Frame)
    BY <1>0
  <2>4. shed \in 0 .. MaxShed
    BY <2>1 DEF PredictionInit
  <2>5. /\ local \in Nat /\ predicted \in Nat /\ missed \in Nat
        /\ horizonAxis \in Nat /\ fold \in Nat /\ drawn \in Int
    BY DEF PredictionInit
  <2>6. tardy \in BOOLEAN /\ blurred \in BOOLEAN
    BY DEF PredictionInit
  <2>. QED BY <1>0, <2>2, <2>3, <2>4, <2>5, <2>6 DEF PredictionTypes
<1>2. Sent
  BY <1>0 DEF Sent, Ordered
<1>3. Ordered(sentFrames)
  BY <1>2 DEF Sent
<1>4. leading(sentFrames, 0) = 0
  <2>1. 0 \in Int
    OBVIOUS
  <2>2. leading(sentFrames, 0) \in 0 .. Len(sentFrames)
    BY <1>0, <1>3, <2>1, Leading
  <2>. QED BY ONLY <1>0, <2>2
<1>5. PoseAt(sentFrames, 0) = 0 /\ AxisAt(sentFrames, 0) = 0
  <2>1. 0 \in Int /\ 0 \in Nat
    OBVIOUS
  <2>2. AxisAt(sentFrames, 0) = Value(sentFrames, leading(sentFrames, 0))
    BY <1>0, <1>3, <2>1, AxisIs
  <2>3. PoseAt(sentFrames, 0) = 0
    BY <1>0, <1>3, <2>1, PoseSteps
  <2>. QED BY <1>4, <2>2, <2>3 DEF Value
<1>6. Placed
  <2>1. SubSeq(sentFrames, 0 + 1, 0) = <<>>
    BY SubSeqEmpty
  <2>2. auth.ack = 0 /\ mirror.acked = 0 /\ 0 + 0 = 0
    BY DEF PredictionInit
  <2>. QED BY <1>0, <2>1, <2>2 DEF Placed
<1>7. 0 % SendEvery = 0
  BY PredictionAssumption
<1>8. Held
  BY <1>0, <1>5 DEF PredictionInit, Held, Value
<1>9. Ahead
  <2>. DEFINE v == [i \in 0 .. 0 |-> mirror]
  <2>1. PICK w : w = v
    OBVIOUS
  <2>2. mirror = Rewound /\ mirror \in Mirror /\ w[0] = mirror
    BY <1>1, <2>1 DEF PredictionInit, Rewound, PredictionTypes
  <2>. HIDE DEF v
  <2>3. Course(w)
    BY <1>0, <2>2 DEF Course
  <2>4. Informed(w)
    BY <1>0, <1>5, <1>7, <2>2 DEF Informed, Knows, PredictionInit
  <2>5. InOrder
    BY <1>0 DEF InOrder
  <2>. QED BY <2>3, <2>4, <2>5 DEF Ahead
<1>10. Predicted
  BY <1>0, <1>4, <1>5 DEF Predicted, PredictionInit
<1>. QED BY <1>1, <1>2, <1>6, <1>8, <1>9, <1>10 DEF PredictionInv

\* Sim.step: the frames simulated are the next that were due, and they alone move the avatar.
LEMMA Simulates ==
  ASSUME PredictionTypes, Sent, Placed, Held, stepAuthority
  PROVE  \E m \in auth.ack .. (auth.ack + Len(due)) :
           /\ due' = SubSeq(sentFrames, m + 1, auth.ack + Len(due))
           /\ auth' = [tick |-> auth.tick + 1, pose |-> auth.pose + Value(sentFrames, m), count |-> m,
                       axis |-> Value(sentFrames, m), ack |-> m,
                       told |-> IF (auth.tick + 1) % SendEvery = 0
                                THEN [pose |-> auth.pose + Value(sentFrames, m), count |-> m]
                                ELSE auth.told]
           /\ falling' = IF (auth.tick + 1) % SendEvery = 0
                         THEN falling \o
                              <<[kind |-> "state", tick |-> auth.tick + 1, ack |-> m,
                                 count |-> delta(m, auth.told.count)],
                                [kind |-> "transform", tick |-> auth.tick + 1,
                                 pose |-> delta(auth.pose + Value(sentFrames, m), auth.told.pose)]>>
                         ELSE falling
           /\ \A i \in (auth.ack + 1) .. m : sentFrames[i].tick <= auth.tick + 1
           /\ \A i \in (m + 1) .. (auth.ack + Len(due)) : sentFrames[i].tick > auth.tick + 1
<1>. DEFINE s == sentFrames
            t == auth.tick + 1
            a == auth.ack
            b == a + Len(due)
            now == through(due, t)
<1>0. /\ s \in Seq(Frame) /\ Ordered(s) /\ Len(s) \in Nat /\ a \in Nat /\ Len(due) \in Nat
      /\ auth.tick \in Nat /\ t \in Int /\ auth.pose \in Nat /\ b <= Len(s)
      /\ due = SubSeq(s, a + 1, b) /\ auth.count = a /\ auth.axis = Value(s, a)
      /\ auth = [tick |-> auth.tick, pose |-> auth.pose, count |-> auth.count, axis |-> auth.axis,
                 ack |-> auth.ack, told |-> auth.told]
  <2>1. s \in Seq(Frame) /\ due \in Seq(Frame)
    BY DEF PredictionTypes
  <2>2. /\ a \in Nat /\ auth.tick \in Nat /\ t \in Int /\ auth.pose \in Nat
        /\ auth = [tick |-> auth.tick, pose |-> auth.pose, count |-> auth.count, axis |-> auth.axis,
                   ack |-> auth.ack, told |-> auth.told]
    BY SMTT(30) DEF PredictionTypes
  <2>3. Len(s) \in Nat /\ Len(due) \in Nat
    BY <2>1
  <2>4. Ordered(s) /\ b <= Len(s) /\ due = SubSeq(s, a + 1, b)
    BY DEF Sent, Placed
  <2>5. auth.count = a /\ auth.axis = Value(s, a)
    BY DEF Held
  <2>. QED BY <2>1, <2>2, <2>3, <2>4, <2>5
<1>1. a \in 0 .. Len(s) /\ b \in a .. Len(s)
  BY <1>0
<1>. HIDE DEF s, a, b
<1>2. PICK m \in a .. b : /\ now = SubSeq(s, a + 1, m) /\ beyond(due, t) = SubSeq(s, m + 1, b)
                          /\ \A i \in (a + 1) .. m : s[i].tick <= t
                          /\ \A i \in (m + 1) .. b : s[i].tick > t
  BY <1>0, <1>1, Parts
<1>. HIDE DEF now
<1>3. m \in Nat /\ a <= m /\ m <= Len(s) /\ m \in a .. Len(s)
  BY <1>0, <1>1, SMTT(30)
<1>4. now \in Seq(Frame) /\ Len(now) = m - a /\ \A i \in 1 .. (m - a) : now[i] = s[a + i]
  <2>1. /\ SubSeq(s, a + 1, m) \in Seq(Frame) /\ Len(SubSeq(s, a + 1, m)) = m - a
        /\ \A i \in 1 .. (m - a) : SubSeq(s, a + 1, m)[i] = s[a + i]
    <3>1. s \in Seq(Frame) /\ a \in 0 .. Len(s) /\ m \in a .. Len(s)
      BY <1>0, <1>1, <1>3
    <3>. QED BY ONLY <3>1, Stretch
  <2>. QED BY ONLY <1>2, <2>1
<1>5. axisAfter(Value(s, a), now) = Value(s, m)
  <2>1. axisAfter(Value(s, a), SubSeq(s, a + 1, m)) = Value(s, m)
    BY ONLY <1>0, <1>1, <1>3, AxisOn
  <2>. QED BY ONLY <1>2, <2>1
<1>. DEFINE ack == IF now = <<>> THEN auth.ack ELSE Last(now).seq
<1>6. ack = m
  <2>1. CASE m = a
    <3>1. now = <<>>
      BY <1>0, <1>4, <2>1
    <3>. QED BY <2>1, <3>1 DEF a
  <2>2. CASE m # a
    <3>1. m - a \in 1 .. (m - a) /\ a + (m - a) = m /\ m \in 1 .. Len(s)
      BY <1>0, <1>3, <2>2
    <3>2. now # <<>> /\ Last(now) = s[m]
      BY <1>4, <3>1 DEF Last
    <3>3. s[m].seq = m
      BY <3>1 DEF s, Sent
    <3>. QED BY <3>2, <3>3
  <2>. QED BY <2>1, <2>2
<1>. HIDE DEF ack
<1>. DEFINE x == Value(s, m)
            next == ticked(auth, auth.axis, now)
<1>7. next = [auth EXCEPT !.pose = @ + x, !.count = @ + (m - a)]
  BY <1>0, <1>4, <1>5 DEF ticked
<1>8. a + (m - a) = m
  BY <1>0, <1>3
<1>. HIDE DEF x
<1>9. next = [tick |-> auth.tick, pose |-> auth.pose + x, count |-> m, axis |-> auth.axis,
              ack |-> auth.ack, told |-> auth.told]
  BY <1>0, <1>7, <1>8
<1>. HIDE DEF next
<1>10. /\ due' = beyond(due, t)
       /\ auth' = [next EXCEPT !.tick = t, !.axis = axisAfter(auth.axis, now), !.ack = ack,
                    !.told = IF t % SendEvery = 0 THEN [pose |-> next.pose, count |-> next.count]
                             ELSE @]
       /\ falling' = IF t % SendEvery = 0
                     THEN falling \o
                           <<[kind |-> "state", tick |-> t, ack |-> ack,
                              count |-> delta(next.count, auth.told.count)],
                             [kind |-> "transform", tick |-> t,
                              pose |-> delta(next.pose, auth.told.pose)]>>
                     ELSE falling
  BY DEF stepAuthority, next, ack, now
<1>11. next.pose = auth.pose + x /\ next.count = m /\ axisAfter(auth.axis, now) = x
  BY <1>0, <1>5, <1>9 DEF x
<1>12. auth' = [tick |-> t, pose |-> auth.pose + x, count |-> m, axis |-> x, ack |-> m,
                told |-> IF t % SendEvery = 0 THEN [pose |-> auth.pose + x, count |-> m]
                         ELSE auth.told]
  BY <1>6, <1>9, <1>10, <1>11
<1>13. falling' = IF t % SendEvery = 0
                  THEN falling \o
                        <<[kind |-> "state", tick |-> t, ack |-> m,
                           count |-> delta(m, auth.told.count)],
                          [kind |-> "transform", tick |-> t,
                           pose |-> delta(auth.pose + x, auth.told.pose)]>>
                  ELSE falling
  BY <1>6, <1>10, <1>11
<1>. QED BY <1>2, <1>10, <1>12, <1>13 DEF s, a, b, x

\* The fields.
LEMMA Typed ==
  ASSUME PredictionTypes
  PROVE  /\ auth.tick \in Nat /\ auth.pose \in Nat /\ auth.count \in Nat /\ auth.axis \in Nat
         /\ auth.ack \in Nat /\ auth.told.pose \in Nat /\ auth.told.count \in Nat
         /\ Len(due) \in Nat /\ Len(rising) \in Nat /\ Len(unacked) \in Nat
         /\ Len(sentFrames) \in Nat /\ Len(falling) \in Nat
         /\ mirror.pose \in Nat /\ mirror.count \in Nat /\ mirror.depicted \in Nat
         /\ mirror.acked \in Nat /\ mirror.posed \in Nat
         /\ base.tick \in Nat /\ base.pose \in Nat /\ base.count \in Nat
         /\ \A i \in 1 .. Len(sentFrames) : sentFrames[i].tick \in Nat
<1>1. /\ Len(due) \in Nat /\ Len(rising) \in Nat /\ Len(unacked) \in Nat
      /\ Len(sentFrames) \in Nat /\ Len(falling) \in Nat
  BY SMTT(30) DEF PredictionTypes
<1>2. /\ auth.tick \in Nat /\ auth.pose \in Nat /\ auth.count \in Nat /\ auth.axis \in Nat
      /\ auth.ack \in Nat /\ auth.told.pose \in Nat /\ auth.told.count \in Nat
      /\ base.tick \in Nat /\ base.pose \in Nat /\ base.count \in Nat
  BY DEF PredictionTypes
<1>3. /\ mirror.pose \in Nat /\ mirror.count \in Nat /\ mirror.depicted \in Nat
      /\ mirror.acked \in Nat /\ mirror.posed \in Nat
  BY DEF PredictionTypes, Mirror
<1>4. sentFrames \in Seq(Frame)
  BY DEF PredictionTypes
<1>5. \A i \in 1 .. Len(sentFrames) : sentFrames[i].tick \in Nat
  BY <1>4, Framed
<1>. QED BY <1>1, <1>2, <1>3, <1>5

\* What was known stays known while the server goes on.
LEMMA KnowsStill ==
  ASSUME PredictionTypes, auth'.tick \in Nat, auth'.ack \in Nat,
         auth.ack <= auth'.ack, auth.tick <= auth'.tick, sentFrames' = sentFrames,
         ~tardy' => ~tardy, NEW m \in Mirror, Knows(m)
  PROVE  Knows(m)'
<1>1. m.acked \in Nat /\ m.depicted \in Nat /\ m.posed \in Nat
  BY DEF Mirror
<1>2. auth.ack \in Nat /\ auth.tick \in Nat
  BY Typed
<1>3. m.acked <= auth'.ack /\ m.depicted <= auth'.tick /\ m.posed <= auth'.tick
  BY <1>1, <1>2 DEF Knows
<1>. QED BY <1>3 DEF Knows

\* Sim.step keeps frames where they belong.
LEMMA AuthorityHeld ==
  ASSUME PredictionTypes, Sent, Placed, Held, stepAuthority
  PROVE  /\ PredictionTypes' /\ Sent' /\ Placed' /\ Held'
         /\ auth'.ack >= auth.ack /\ auth'.tick = auth.tick + 1
<1>. DEFINE s == sentFrames
            t == auth.tick + 1
            a == auth.ack
            b == a + Len(due)
<1>0. /\ s \in Seq(Frame) /\ Ordered(s) /\ Len(s) \in Nat /\ a \in Nat /\ Len(due) \in Nat
      /\ auth.tick \in Nat /\ t \in Int /\ t \in Nat /\ auth.pose \in Nat /\ b <= Len(s) /\ b \in Nat
      /\ a <= b /\ \A i \in 1 .. Len(s) : s[i].tick \in Nat
  <2>1. s \in Seq(Frame) /\ Ordered(s) /\ b <= Len(s)
    BY DEF PredictionTypes, Sent, Placed
  <2>2. /\ Len(s) \in Nat /\ a \in Nat /\ Len(due) \in Nat /\ auth.tick \in Nat /\ auth.pose \in Nat
        /\ \A i \in 1 .. Len(s) : s[i].tick \in Nat
    BY Typed
  <2>. QED BY <2>1, <2>2
<1>1. PICK m \in a .. b :
        /\ due' = SubSeq(s, m + 1, b)
        /\ auth' = [tick |-> t, pose |-> auth.pose + Value(s, m), count |-> m,
                    axis |-> Value(s, m), ack |-> m,
                    told |-> IF t % SendEvery = 0
                             THEN [pose |-> auth.pose + Value(s, m), count |-> m] ELSE auth.told]
        /\ falling' = IF t % SendEvery = 0
                      THEN falling \o
                           <<[kind |-> "state", tick |-> t, ack |-> m,
                              count |-> delta(m, auth.told.count)],
                             [kind |-> "transform", tick |-> t,
                              pose |-> delta(auth.pose + Value(s, m), auth.told.pose)]>>
                      ELSE falling
        /\ \A i \in (a + 1) .. m : s[i].tick <= t
        /\ \A i \in (m + 1) .. b : s[i].tick > t
  BY Simulates
<1>2. /\ UNCHANGED <<rising, clientSide, shed, missed>> /\ auth.tick < local
      /\ tardy' = (tardy \/ \E f \in ToSet(rising) : f.tick <= t)
  BY DEF stepAuthority
<1>3. /\ sentFrames' = sentFrames /\ local' = local /\ unacked' = unacked /\ mirror' = mirror
      /\ base' = base /\ horizonAxis' = horizonAxis /\ rising' = rising
  BY <1>2 DEF clientSide
<1>. HIDE DEF s, a, b
<1>4. /\ m \in Nat /\ a <= m /\ m <= b /\ m <= Len(s) /\ m \in 0 .. Len(s) /\ m \in m .. Len(s)
      /\ b \in m .. Len(s) /\ b \in a .. Len(s) /\ Len(s) \in b .. Len(s) /\ b \in 0 .. Len(s)
  BY <1>0, <1>1, SMTT(30)
<1>5. Value(s, m) \in Nat
  BY <1>0, <1>4, AxisOn, PredictionAssumption
<1>6. /\ auth'.tick = t /\ auth'.pose = auth.pose + Value(s, m) /\ auth'.count = m
      /\ auth'.axis = Value(s, m) /\ auth'.ack = m
      /\ t % SendEvery = 0 => auth'.told = [pose |-> auth.pose + Value(s, m), count |-> m]
  BY <1>1
<1>7. due' \in Seq(Frame) /\ Len(due') = b - m
  <2>1. s \in Seq(Frame) /\ m \in 0 .. Len(s) /\ b \in m .. Len(s)
    BY <1>0, <1>4
  <2>2. SubSeq(s, m + 1, b) \in Seq(Frame) /\ Len(SubSeq(s, m + 1, b)) = b - m
    BY ONLY <2>1, Stretch
  <2>. QED BY <1>1, <2>2
<1>8. PredictionTypes'
  <2>1. auth' \in [tick : Nat, pose : Nat, count : Nat, axis : Nat, ack : Nat,
                   told : [pose : Nat, count : Nat]]
    <3>1. auth.told \in [pose : Nat, count : Nat]
      BY DEF PredictionTypes
    <3>2. auth.pose + Value(s, m) \in Nat
      BY <1>0, <1>5
    <3>3. (IF t % SendEvery = 0 THEN [pose |-> auth.pose + Value(s, m), count |-> m] ELSE auth.told)
            \in [pose : Nat, count : Nat]
      BY <1>4, <3>1, <3>2
    <3>. QED BY <1>0, <1>1, <1>4, <1>5, <3>2, <3>3
  <2>2. falling' \in Seq(Envelope)
    <3>. DEFINE e1 == [kind |-> "state", tick |-> t, ack |-> m, count |-> delta(m, auth.told.count)]
                e2 == [kind |-> "transform", tick |-> t,
                       pose |-> delta(auth.pose + Value(s, m), auth.told.pose)]
    <3>1. /\ delta(m, auth.told.count) \in Nat \cup {Same}
          /\ delta(auth.pose + Value(s, m), auth.told.pose) \in Nat \cup {Same}
      <4>0. auth.told.count \in Nat /\ auth.told.pose \in Nat
        BY Typed
      <4>1. auth.told.count \in Nat /\ auth.told.pose \in Nat /\ auth.pose + Value(s, m) \in Nat
        BY <1>0, <1>5, <4>0
      <4>. QED BY <1>4, <4>1, DeltaTold
    <3>2. e1 \in StateEnvelope /\ e2 \in TransformEnvelope
      BY <1>0, <1>4, <3>1 DEF StateEnvelope, TransformEnvelope
    <3>3. falling \in Seq(Envelope)
      BY DEF PredictionTypes
    <3>4. falling' = falling \o <<e1, e2>> \/ falling' = falling
      BY <1>1
    <3>. HIDE DEF e1, e2
    <3>5. <<e1, e2>> \in Seq(Envelope)
      BY <3>2 DEF Envelope
    <3>. QED BY <3>3, <3>4, <3>5, ConcatProperties
  <2>3. tardy' \in BOOLEAN
    BY <1>2
  <2>. QED BY <1>2, <1>7, <2>1, <2>2, <2>3 DEF PredictionTypes, clientSide
<1>9. Sent'
  BY <1>3 DEF Sent
<1>10. Placed'
  <2>1. auth'.ack + Len(due') = b
    BY <1>0, <1>4, <1>6, <1>7
  <2>2. due' = SubSeq(s, m + 1, b)
    BY <1>1
  <2>. QED BY <1>0, <1>3, <1>6, <2>1, <2>2 DEF Placed, s, a, b
<1>11. ASSUME ~tardy' PROVE \A i \in (m + 1) .. Len(s) : s[i].tick > t
  <2>. TAKE i \in (m + 1) .. Len(s)
  <2>1. CASE i \in (m + 1) .. b
    BY <1>1, <2>1
  <2>2. CASE i \notin (m + 1) .. b
    <3>1. i - b \in 1 .. (Len(s) - b) /\ b + (i - b) = i /\ i \in 1 .. Len(s)
      BY <1>0, <1>4, <2>2
    <3>2. /\ Len(SubSeq(s, b + 1, Len(s))) = Len(s) - b
          /\ \A j \in 1 .. (Len(s) - b) : SubSeq(s, b + 1, Len(s))[j] = s[b + j]
      <4>1. s \in Seq(Frame) /\ b \in 0 .. Len(s) /\ Len(s) \in b .. Len(s)
        BY <1>0, <1>4
      <4>. QED BY ONLY <4>1, Stretch
    <3>3. rising = SubSeq(s, b + 1, Len(s))
      BY DEF Placed, s, a, b
    <3>4. rising[i - b] = s[i] /\ i - b \in DOMAIN rising
      <4>1. rising \in Seq(Frame)
        BY DEF PredictionTypes
      <4>. QED BY <3>1, <3>2, <3>3, <4>1
    <3>5. s[i] \in ToSet(rising)
      BY <3>4 DEF ToSet
    <3>6. ~(s[i].tick <= t)
      BY <1>2, <1>11, <3>5
    <3>. QED BY <1>0, <3>1, <3>6, SMTT(30)
  <2>. QED BY <2>1, <2>2
<1>12. ASSUME NEW i \in 1 .. m PROVE s[i].tick <= t
  <2>1. i \in 1 .. Len(s) /\ (i \in 1 .. a \/ i \in (a + 1) .. m)
    BY <1>0, <1>4
  <2>2. CASE i \in 1 .. a
    <3>1. s[i].tick <= auth.tick
      BY <2>2 DEF Held, s, a
    <3>. QED BY <1>0, <2>1, <3>1
  <2>. QED BY <1>1, <2>1, <2>2
<1>13. ASSUME ~tardy' PROVE auth.pose + Value(s, m) = PoseAt(s, t)
  <2>1. leading(s, t) = m
    BY <1>0, <1>4, <1>11, <1>12, <1>13, LeadingIs
  <2>2. AxisAt(s, t) = Value(s, m)
    BY <1>0, <2>1, AxisIs
  <2>3. auth.pose = PoseAt(s, auth.tick)
    BY <1>2, <1>13 DEF Held, s
  <2>4. PoseAt(s, auth.tick + 1) = PoseAt(s, auth.tick) + AxisAt(s, auth.tick + 1)
    BY <1>0, PoseSteps
  <2>. QED BY <2>2, <2>3, <2>4
<1>14. Held'
  <2>1. auth'.tick <= local'
    <3>1. local \in Nat
      BY DEF PredictionTypes
    <3>. QED BY <1>0, <1>2, <1>3, <1>6, <3>1
  <2>2. auth'.count = auth'.ack /\ auth'.axis = Value(sentFrames', auth'.ack)
        /\ horizonAxis' = Value(sentFrames', mirror'.acked)
    BY <1>3, <1>6 DEF Held, s
  <2>3. \A i \in 1 .. auth'.ack : sentFrames'[i].tick <= auth'.tick
    BY <1>3, <1>6, <1>12 DEF s
  <2>4. ~tardy' => \A i \in (auth'.ack + 1) .. Len(sentFrames') : sentFrames'[i].tick > auth'.tick
    BY <1>3, <1>6, <1>11 DEF s
  <2>5. ~tardy' => auth'.pose = PoseAt(sentFrames', auth'.tick)
    BY <1>3, <1>6, <1>13 DEF s
  <2>6. auth'.tick % SendEvery = 0 => auth'.told.pose = auth'.pose /\ auth'.told.count = auth'.count
    BY <1>6
  <2>. QED BY <2>1, <2>2, <2>3, <2>4, <2>5, <2>6 DEF Held
<1>15. auth'.ack >= auth.ack
  BY <1>4, <1>6 DEF a
<1>. QED BY <1>6, <1>8, <1>9, <1>10, <1>14, <1>15

\* A send says where the server is, and the client will know it when the last of it arrives.
LEMMA AuthorityAhead ==
  ASSUME PredictionTypes, Sent, Placed, Held, Ahead, stepAuthority
  PROVE  Ahead'
<1>. DEFINE s == sentFrames
<1>t. PICK t : t = auth.tick + 1
  OBVIOUS
<1>n. PICK n : n = Len(falling)
  OBVIOUS
<1>0. /\ PredictionTypes' /\ Sent' /\ Placed' /\ Held'
      /\ auth'.ack >= auth.ack /\ auth'.tick = auth.tick + 1 /\ auth'.tick = t
  BY <1>t, AuthorityHeld
<1>1. /\ s \in Seq(Frame) /\ Ordered(s) /\ n \in Nat /\ auth.ack \in Nat /\ auth.tick \in Nat
      /\ auth'.tick \in Nat /\ auth'.ack \in Nat /\ auth.told.count \in Nat /\ auth.told.pose \in Nat
      /\ auth'.pose \in Nat /\ falling \in Seq(Envelope) /\ t = auth.tick + 1 /\ n = Len(falling)
  <2>1. s \in Seq(Frame) /\ Ordered(s) /\ falling \in Seq(Envelope)
    BY DEF PredictionTypes, Sent
  <2>2. n \in Nat /\ auth.ack \in Nat /\ auth.tick \in Nat
        /\ auth.told.count \in Nat /\ auth.told.pose \in Nat
    BY <1>n, Typed
  <2>3. auth' \in [tick : Nat, pose : Nat, count : Nat, axis : Nat, ack : Nat,
                   told : [pose : Nat, count : Nat]]
    BY <1>0 DEF PredictionTypes
  <2>. QED BY <1>t, <1>n, <2>1, <2>2, <2>3
<1>2. /\ sentFrames' = sentFrames /\ mirror' = mirror /\ base' = base /\ missed' = missed
      /\ ~tardy' => ~tardy
  BY DEF stepAuthority, clientSide
<1>3. PICK w : Course(w) /\ Informed(w)
  BY DEF Ahead
<1>4. \A i \in 0 .. n : w[i] \in Mirror
  BY <1>3, <1>n DEF Course
<1>5. ASSUME NEW x \in Mirror, Knows(x) PROVE Knows(x)'
  BY <1>0, <1>1, <1>2, <1>5, KnowsStill
<1>6. Rewound' = Rewound
  BY <1>2 DEF Rewound
<1>7. PICK m \in Nat :
        /\ auth'.ack = m /\ auth'.count = m
        /\ auth'.told = IF t % SendEvery = 0 THEN [pose |-> auth'.pose, count |-> m] ELSE auth.told
        /\ falling' = IF t % SendEvery = 0
                      THEN falling \o
                           <<[kind |-> "state", tick |-> t, ack |-> m,
                              count |-> delta(m, auth.told.count)],
                             [kind |-> "transform", tick |-> t,
                              pose |-> delta(auth'.pose, auth.told.pose)]>>
                      ELSE falling
  <2>1. PICK m \in auth.ack .. (auth.ack + Len(due)) :
           /\ auth' = [tick |-> auth.tick + 1, pose |-> auth.pose + Value(sentFrames, m), count |-> m,
                       axis |-> Value(sentFrames, m), ack |-> m,
                       told |-> IF (auth.tick + 1) % SendEvery = 0
                                THEN [pose |-> auth.pose + Value(sentFrames, m), count |-> m]
                                ELSE auth.told]
           /\ falling' = IF (auth.tick + 1) % SendEvery = 0
                         THEN falling \o
                              <<[kind |-> "state", tick |-> auth.tick + 1, ack |-> m,
                                 count |-> delta(m, auth.told.count)],
                                [kind |-> "transform", tick |-> auth.tick + 1,
                                 pose |-> delta(auth.pose + Value(sentFrames, m), auth.told.pose)]>>
                         ELSE falling
    BY Simulates
  <2>2. auth'.pose = auth.pose + Value(sentFrames, m) /\ auth'.ack = m /\ auth'.count = m
    BY <2>1
  <2>3. m \in Nat
    BY <1>1, <2>2
  <2>. QED BY <1>t, <2>1, <2>2, <2>3
<1>8. CASE t % SendEvery # 0
  <2>1. falling' = falling /\ auth'.told = auth.told
    BY <1>7, <1>8
  <2>2. InOrder'
    BY <1>0, <1>1, <2>1 DEF Ahead, InOrder
  <2>3. Course(w)'
    BY <1>3, <1>6, <2>1 DEF Course
  <2>4. \A i : Resolved(i)' = Resolved(i)
    BY <1>2, <2>1 DEF Resolved
  <2>5. Informed(w)'
    BY <1>n, <1>2, <1>3, <1>4, <1>5, <2>1, <2>4 DEF Informed
  <2>. QED BY <2>2, <2>3, <2>5 DEF Ahead
<1>9. CASE t % SendEvery = 0
  <2>a. PICK e1 : e1 = [kind |-> "state", tick |-> t, ack |-> m,
                        count |-> delta(m, auth.told.count)]
    OBVIOUS
  <2>b. PICK e2 : e2 = [kind |-> "transform", tick |-> t,
                        pose |-> delta(auth'.pose, auth.told.pose)]
    OBVIOUS
  <2>c. PICK w1 : w1 = applyEnvelope(w[n], e1)
    OBVIOUS
  <2>d. PICK w2 : w2 = applyEnvelope(w1, e2)
    OBVIOUS
  <2>1. falling' = falling \o <<e1, e2>> /\ auth'.told = [pose |-> auth'.pose, count |-> m]
    BY <1>7, <1>9, <2>a, <2>b
  <2>2. /\ delta(m, auth.told.count) \in Nat \cup {Same}
        /\ written(auth.told.count, delta(m, auth.told.count)) = m
    BY <1>1, DeltaTold
  <2>3. /\ delta(auth'.pose, auth.told.pose) \in Nat \cup {Same}
        /\ written(auth.told.pose, delta(auth'.pose, auth.told.pose)) = auth'.pose
        /\ delta(auth'.pose, auth.told.pose) # Same
             => \A was : written(was, delta(auth'.pose, auth.told.pose)) = auth'.pose
    BY <1>1, DeltaTold
  <2>4. t \in Nat /\ e1 \in StateEnvelope /\ e2 \in TransformEnvelope
    BY <1>1, <2>a, <2>b, <2>2, <2>3 DEF StateEnvelope, TransformEnvelope
  <2>5. /\ e1.kind = "state" /\ e1.tick = t /\ e1.ack = m /\ e1.count = delta(m, auth.told.count)
        /\ e2.kind = "transform" /\ e2.tick = t /\ e2.pose = delta(auth'.pose, auth.told.pose)
    BY <2>a, <2>b
  <2>6. <<e1, e2>> \in Seq(Envelope) /\ Len(<<e1, e2>>) = 2 /\ <<e1, e2>>[1] = e1 /\ <<e1, e2>>[2] = e2
    BY <2>4 DEF Envelope
  <2>7. /\ Len(falling') = n + 2 /\ falling'[n + 1] = e1 /\ falling'[n + 2] = e2
        /\ \A i \in 1 .. n : falling'[i] = falling[i]
    <3>. DEFINE q == <<e1, e2>>
    <3>. HIDE DEF q
    <3>0. n = Len(falling)
      BY <1>1
    <3>1. /\ Len(falling \o q) = Len(falling) + Len(q)
          /\ \A i \in 1 .. Len(falling) + Len(q) :
               (falling \o q)[i] = IF i <= Len(falling) THEN falling[i] ELSE q[i - Len(falling)]
      BY <1>1, <2>6, ConcatProperties DEF q
    <3>2. Len(q) = 2 /\ q[1] = e1 /\ q[2] = e2 /\ falling' = falling \o q
      BY <2>1, <2>6 DEF q
    <3>3. /\ n + 1 \in 1 .. n + 2 /\ n + 2 \in 1 .. n + 2 /\ ~(n + 1 <= n) /\ ~(n + 2 <= n)
          /\ (n + 1) - n = 1 /\ (n + 2) - n = 2 /\ \A i \in 1 .. n : i \in 1 .. n + 2 /\ i <= n
      BY <1>1, SMTT(30)
    <3>. QED BY <3>0, <3>1, <3>2, <3>3
  <2>8. /\ w[n] \in Mirror /\ Knows(w[n]) /\ w[n].count = auth.told.count
        /\ Resolved(n) => w[n].pose = auth.told.pose
    <3>1. n \in 0 .. n
      BY <1>1
    <3>. QED BY <1>n, <1>3, <1>4, <3>1 DEF Informed
  <2>9. /\ w[n].acked \in Nat /\ w[n].posed \in Nat /\ w[n].acked <= auth.ack /\ w[n].posed <= auth.tick
        /\ w[n].pose \in Nat
    BY <2>8 DEF Knows, Mirror
  <2>10. (IF m > w[n].acked THEN m ELSE w[n].acked) = m
    BY <1>0, <1>1, <1>7, <2>9, SMTT(30)
  <2>11. w1 = [pose |-> w[n].pose, count |-> m, depicted |-> t, acked |-> m, posed |-> w[n].posed]
         /\ w1 \in Mirror
    BY <2>c, <2>2, <2>4, <2>5, <2>8, <2>10, StateApplied
  <2>12. w2 = [pose |-> written(w[n].pose, e2.pose), count |-> m, depicted |-> t, acked |-> m,
               posed |-> t] /\ w2 \in Mirror
    BY <2>d, <2>4, <2>5, <2>11, TransformApplied
  <2>13. PICK v : v = [i \in 0 .. n + 2 |-> IF i <= n THEN w[i] ELSE IF i = n + 1 THEN w1 ELSE w2]
    OBVIOUS
  <2>14. /\ \A i \in 0 .. n : v[i] = w[i]
         /\ v[n + 1] = w1 /\ v[n + 2] = w2
    BY <1>1, <2>13
  <2>15. \A i \in 0 .. n + 2 : i \in 0 .. n \/ i = n + 1 \/ i = n + 2
    BY <1>1, SMTT(30)
  <2>16. Course(v)'
    <3>1. v[0] = Rewound'
      <4>1. 0 \in 0 .. n
        BY <1>1
      <4>. QED BY <1>3, <1>6, <2>14, <4>1 DEF Course
    <3>2. \A i \in 0 .. n + 2 : v[i] \in Mirror
      BY <1>4, <2>11, <2>12, <2>14, <2>15
    <3>3. ASSUME NEW i \in 1 .. n + 2 PROVE v[i] = applyEnvelope(v[i - 1], falling'[i])
      <4>1. CASE i \in 1 .. n
        <5>1. i \in 0 .. n /\ i - 1 \in 0 .. n
          BY <1>1, <4>1
        <5>2. w[i] = applyEnvelope(w[i - 1], falling[i])
          BY <1>n, <1>3, <4>1 DEF Course
        <5>. QED BY <2>7, <2>14, <4>1, <5>1, <5>2
      <4>2. CASE i = n + 1
        <5>1. i - 1 = n /\ n \in 0 .. n
          BY <1>1, <4>2
        <5>. QED BY <2>c, <2>7, <2>14, <4>2, <5>1
      <4>3. CASE i = n + 2
        <5>1. i - 1 = n + 1
          BY <1>1, <4>3
        <5>. QED BY <2>d, <2>7, <2>14, <4>3, <5>1
      <4>. QED BY <1>1, <4>1, <4>2, <4>3, SMTT(30)
    <3>. QED BY <2>7, <3>1, <3>2, <3>3 DEF Course
  <2>17. \A i \in 0 .. n : Resolved(i)' = Resolved(i)
    <3>1. \A i \in 0 .. n : \A j \in 1 .. i : j \in 1 .. n
      BY <1>1
    <3>. QED BY <1>2, <2>7, <3>1 DEF Resolved
  <2>18. Resolved(n + 1)' => Resolved(n)
    <3>1. \A j \in 1 .. n + 1 : j \in 1 .. n \/ j = n + 1
      BY <1>1
    <3>2. ~Resolves(e1, missed)
      BY <2>5 DEF Resolves
    <3>. QED BY <1>2, <2>7, <3>1, <3>2 DEF Resolved
  <2>19. Resolved(n + 2)' => Resolved(n) \/ e2.pose # Same
    <3>1. \A j \in 1 .. n + 2 : j \in 1 .. n \/ j = n + 1 \/ j = n + 2
      BY <1>1, SMTT(30)
    <3>2. ~Resolves(e1, missed) /\ (Resolves(e2, missed) => e2.pose # Same)
      BY <2>5 DEF Resolves
    <3>. QED BY <1>2, <2>7, <3>1, <3>2 DEF Resolved
  \* The last of it tells the pose, by naming it or by naming none.
  <2>20. Resolved(n + 2)' => w2.pose = auth'.pose
    <3>1. w2.pose = written(w[n].pose, e2.pose)
      BY <2>12
    <3>2. Resolved(n) => w2.pose = auth'.pose
      BY <2>3, <2>5, <2>8, <3>1
    <3>3. e2.pose # Same => w2.pose = auth'.pose
      BY <2>3, <2>5, <3>1
    <3>. QED BY <2>19, <3>2, <3>3
  <2>21. Knows(w1)' /\ Knows(w2)'
    <3>1. /\ w1.count = m /\ w1.acked = m /\ w1.depicted = t /\ w1.posed = w[n].posed
          /\ w2.count = m /\ w2.acked = m /\ w2.depicted = t /\ w2.posed = t
      BY <2>11, <2>12
    <3>2. /\ m <= auth'.ack /\ t <= auth'.tick /\ w[n].posed <= auth'.tick /\ m = auth'.ack
          /\ t = auth'.tick
      BY <1>0, <1>1, <1>7, <2>9, SMTT(30)
    <3>3. /\ \A i \in 1 .. m : sentFrames'[i].tick <= t
          /\ ~tardy' => \A i \in (m + 1) .. Len(sentFrames') : sentFrames'[i].tick > t
      BY <1>0, <3>2 DEF Held
    <3>. QED BY <1>9, <3>1, <3>2, <3>3 DEF Knows
  <2>22. Informed(v)'
    <3>1. \A i \in 0 .. n + 2 : Knows(v[i])'
      <4>1. \A i \in 0 .. n : Knows(w[i])'
        BY <1>n, <1>3, <1>4, <1>5 DEF Informed
      <4>. QED BY <2>14, <2>15, <2>21, <4>1
    <3>2. ASSUME NEW i \in 0 .. n + 2, ~tardy', Resolved(i)'
          PROVE  v[i].pose = PoseAt(sentFrames', v[i].posed)
      <4>1. CASE i \in 0 .. n
        <5>1. Resolved(i) /\ ~tardy
          BY <1>2, <2>17, <3>2, <4>1
        <5>2. w[i].pose = PoseAt(sentFrames, w[i].posed)
          BY <1>n, <1>3, <4>1, <5>1 DEF Informed
        <5>. QED BY <1>2, <2>14, <4>1, <5>2
      <4>2. CASE i = n + 1
        <5>1. Resolved(n) /\ ~tardy /\ n \in 0 .. n
          BY <1>1, <1>2, <2>18, <3>2, <4>2
        <5>2. w[n].pose = PoseAt(sentFrames, w[n].posed)
          BY <1>n, <1>3, <5>1 DEF Informed
        <5>3. w1.pose = w[n].pose /\ w1.posed = w[n].posed
          BY <2>11
        <5>. QED BY <1>2, <2>14, <4>2, <5>2, <5>3
      <4>3. CASE i = n + 2
        <5>1. w2.pose = auth'.pose /\ w2.posed = t
          BY <2>12, <2>20, <3>2, <4>3
        <5>2. auth'.pose = PoseAt(sentFrames', auth'.tick)
          BY <1>0, <3>2 DEF Held
        <5>. QED BY <1>0, <2>14, <4>3, <5>1, <5>2
      <4>. QED BY <2>15, <4>1, <4>2, <4>3
    <3>3. ASSUME NEW i \in 0 .. n + 2, NEW j \in 0 .. n + 2, i <= j PROVE v[i].acked <= v[j].acked
      <4>1. \A x \in 0 .. n : w[x].acked \in Nat /\ w[x].acked <= m
        <5>1. \A x \in 0 .. n : w[x].acked \in Nat /\ w[x].acked <= auth.ack
          BY <1>n, <1>3, <1>4 DEF Informed, Knows, Mirror
        <5>. QED BY <1>0, <1>1, <1>7, <5>1, SMTT(30)
      <4>2. w1.acked = m /\ w2.acked = m
        BY <2>11, <2>12
      <4>3. CASE i \in 0 .. n /\ j \in 0 .. n
        BY <1>n, <1>3, <2>14, <3>3, <4>3 DEF Informed
      <4>4. CASE i \in 0 .. n /\ j \notin 0 .. n
        BY <2>14, <2>15, <4>1, <4>2, <4>4
      <4>5. CASE i \notin 0 .. n
        <5>1. j \notin 0 .. n
          BY <1>1, <3>3, <4>5
        <5>2. v[i].acked = m /\ v[j].acked = m
          BY <2>14, <2>15, <4>2, <4>5, <5>1
        <5>. QED BY <5>2
      <4>. QED BY <4>3, <4>4, <4>5
    <3>4. v[n + 2].count = auth'.told.count /\ (Resolved(n + 2)' => v[n + 2].pose = auth'.told.pose)
      BY <2>1, <2>12, <2>14, <2>20
    <3>. QED BY <2>7, <3>1, <3>2, <3>3, <3>4 DEF Informed
  <2>23. InOrder'
    <3>1. /\ \A i \in 1 .. n : falling[i].tick \in 1 .. auth.tick
          /\ \A i, j \in 1 .. n : i < j /\ falling[i].kind = "transform" /\ falling[j].kind = "transform"
                => falling[i].tick < falling[j].tick
      BY <1>n DEF Ahead, InOrder
    <3>2. \A i \in 1 .. n + 2 : i \in 1 .. n \/ i = n + 1 \/ i = n + 2
      BY <1>1, SMTT(30)
    <3>3. \A i \in 1 .. n + 2 : falling'[i].tick \in 1 .. auth'.tick
      <4>1. \A x \in 1 .. auth.tick : x \in 1 .. auth'.tick
        BY <1>0, <1>1
      <4>2. t \in 1 .. auth'.tick
        BY <1>0, <1>1
      <4>. QED BY <2>5, <2>7, <3>1, <3>2, <4>1, <4>2
    <3>4. ASSUME NEW i \in 1 .. n + 2, NEW j \in 1 .. n + 2, i < j,
                 falling'[i].kind = "transform", falling'[j].kind = "transform"
          PROVE  falling'[i].tick < falling'[j].tick
      <4>1. CASE j \in 1 .. n
        <5>1. i \in 1 .. n
          BY <1>1, <3>4, <4>1
        <5>. QED BY <2>7, <3>1, <3>4, <4>1, <5>1
      <4>2. CASE j = n + 1
        BY <2>5, <2>7, <3>4, <4>2
      <4>3. CASE j = n + 2
        <5>1. i \in 1 .. n
          <6>1. i # n + 1
            BY <2>5, <2>7, <3>4
          <6>. QED BY <1>1, <3>4, <4>3, <6>1
        <5>2. falling[i].tick \in 1 .. auth.tick /\ falling'[i] = falling[i] /\ falling'[j].tick = t
          BY <2>5, <2>7, <3>1, <4>3, <5>1
        <5>. QED BY <1>1, <5>2, SMTT(30)
      <4>. QED BY <3>2, <4>1, <4>2, <4>3
    <3>. QED BY <2>7, <3>3, <3>4 DEF InOrder
  <2>. QED BY <2>16, <2>22, <2>23 DEF Ahead
<1>. QED BY <1>8, <1>9

LEMMA AuthorityKeeps ==
  ASSUME PredictionInv, stepAuthority
  PROVE  PredictionInv'
<1>1. PredictionTypes' /\ Sent' /\ Placed' /\ Held'
  BY AuthorityHeld DEF PredictionInv
<1>2. Ahead'
  BY AuthorityAhead DEF PredictionInv
<1>3. /\ mirror' = mirror /\ base' = base /\ predicted' = predicted /\ local' = local
      /\ sentFrames' = sentFrames /\ missed' = missed /\ blurred' = blurred /\ fold' = fold
      /\ unacked' = unacked /\ horizonAxis' = horizonAxis /\ (~tardy' => ~tardy)
  BY DEF stepAuthority, clientSide
<1>4. Predicted'
  BY <1>3 DEF PredictionInv, Predicted, Told, Whole
<1>. QED BY <1>1, <1>2, <1>4 DEF PredictionInv

\* A list of frames that grew at most by frames stamped `from` or later.
Grows(r, s, from) ==
  /\ r \in Seq(Frame) /\ Ordered(r) /\ Len(s) <= Len(r)
  /\ \A i \in 1 .. Len(s) : r[i] = s[i]
  /\ \A i \in (Len(s) + 1) .. Len(r) : r[i].tick >= from
  /\ \A t \in Nat : t < from =>
        leading(r, t) = leading(s, t) /\ AxisAt(r, t) = AxisAt(s, t) /\ PoseAt(r, t) = PoseAt(s, t)
  /\ \A n \in 0 .. Len(s) : Value(r, n) = Value(s, n)

LEMMA SameGrows ==
  ASSUME NEW s \in Seq(Frame), Ordered(s), NEW from \in Nat
  PROVE  Grows(s, s, from)
<1>1. Len(s) \in Nat
  OBVIOUS
<1>. QED BY <1>1 DEF Grows

LEMMA AppendGrows ==
  ASSUME NEW s \in Seq(Frame), Ordered(s), NEW f \in Frame,
         \A i \in 1 .. Len(s) : s[i].tick <= f.tick
  PROVE  Grows(Append(s, f), s, f.tick)
<1>. DEFINE r == Append(s, f)
<1>0. Len(s) \in Nat /\ f.tick \in Nat
  BY DEF Frame
<1>1. /\ r \in Seq(Frame) /\ Len(r) = Len(s) + 1 /\ r[Len(s) + 1] = f
      /\ \A i \in 1 .. Len(s) : r[i] = s[i]
  BY AppendProperties
<1>2. /\ Ordered(r)
      /\ \A t \in Nat : t < f.tick =>
           leading(r, t) = leading(s, t) /\ AxisAt(r, t) = AxisAt(s, t) /\ PoseAt(r, t) = PoseAt(s, t)
      /\ \A n \in 0 .. Len(s) : Value(r, n) = Value(s, n)
  BY Appended
<1>. HIDE DEF r
<1>3. ASSUME NEW i \in (Len(s) + 1) .. Len(r) PROVE r[i].tick >= f.tick
  <2>1. i = Len(s) + 1
    BY <1>0, <1>1
  <2>. QED BY <1>0, <1>1, <2>1
<1>4. Len(s) <= Len(r)
  BY <1>0, <1>1
<1>5. Grows(r, s, f.tick)
  BY <1>1, <1>2, <1>3, <1>4 DEF Grows
<1>. QED BY <1>5 DEF r

\* Frames sent later than the server's tick change nothing it or the client knows.
LEMMA KnowsGrown ==
  ASSUME PredictionTypes, Placed, NEW from \in Nat, Grows(sentFrames', sentFrames, from), auth' = auth,
         ~tardy' => ~tardy /\ auth.tick < from, NEW m \in Mirror, Knows(m)
  PROVE  Knows(m)'
<1>1. /\ m.acked \in Nat /\ m.depicted \in Nat /\ auth.ack \in Nat /\ auth.tick \in Nat
      /\ Len(sentFrames) \in Nat /\ Len(due) \in Nat
  BY Typed DEF Mirror
<1>2. m.acked <= Len(sentFrames) /\ m.depicted <= auth.tick
  BY <1>1 DEF Knows, Placed
<1>3. \A i \in 1 .. m.acked : sentFrames'[i].tick <= m.depicted
  <2>1. \A i \in 1 .. m.acked : i \in 1 .. Len(sentFrames)
    BY <1>1, <1>2
  <2>. QED BY <2>1 DEF Knows, Grows
<1>4. ASSUME ~tardy', NEW i \in (m.acked + 1) .. Len(sentFrames') PROVE sentFrames'[i].tick > m.depicted
  <2>0. sentFrames' \in Seq(Frame) /\ Len(sentFrames') \in Nat
    BY DEF Grows
  <2>1. CASE i \in 1 .. Len(sentFrames)
    <3>1. i \in (m.acked + 1) .. Len(sentFrames)
      BY <1>1, <2>0, <2>1
    <3>. QED BY <1>4, <2>1, <3>1 DEF Knows, Grows
  <2>2. CASE i \notin 1 .. Len(sentFrames)
    <3>1. i \in (Len(sentFrames) + 1) .. Len(sentFrames') /\ i \in 1 .. Len(sentFrames')
      BY <1>1, <2>0, <2>2
    <3>2. sentFrames'[i].tick >= from
      BY <3>1 DEF Grows
    <3>3. sentFrames'[i].tick \in Nat
      BY <2>0, <3>1, Framed
    <3>. QED BY <1>1, <1>2, <1>4, <3>2, <3>3, SMTT(30)
  <2>. QED BY <2>1, <2>2
<1>. QED BY <1>3, <1>4 DEF Knows

LEMMA HeldGrown ==
  ASSUME PredictionTypes, Placed, Held, NEW from \in Nat, Grows(sentFrames', sentFrames, from),
         auth' = auth, ~tardy' => ~tardy /\ auth.tick < from, local' \in Nat, local' >= local,
         horizonAxis' = Value(sentFrames', mirror'.acked)
  PROVE  Held'
<1>1. /\ auth.ack \in Nat /\ auth.tick \in Nat /\ local \in Nat
      /\ Len(sentFrames) \in Nat /\ Len(due) \in Nat
  BY Typed DEF PredictionTypes
<1>2. auth.ack <= Len(sentFrames) /\ auth.ack \in 0 .. Len(sentFrames)
  BY <1>1 DEF Placed
<1>3. \A i \in 1 .. auth.ack : sentFrames'[i].tick <= auth.tick
  <2>1. \A i \in 1 .. auth.ack : i \in 1 .. Len(sentFrames)
    BY <1>1, <1>2
  <2>. QED BY <2>1 DEF Held, Grows
<1>4. ASSUME ~tardy', NEW i \in (auth.ack + 1) .. Len(sentFrames') PROVE sentFrames'[i].tick > auth.tick
  <2>0. sentFrames' \in Seq(Frame) /\ Len(sentFrames') \in Nat
    BY DEF Grows
  <2>1. CASE i \in 1 .. Len(sentFrames)
    <3>1. i \in (auth.ack + 1) .. Len(sentFrames)
      BY <1>1, <2>0, <2>1
    <3>. QED BY <1>4, <2>1, <3>1 DEF Held, Grows
  <2>2. CASE i \notin 1 .. Len(sentFrames)
    <3>1. i \in (Len(sentFrames) + 1) .. Len(sentFrames') /\ i \in 1 .. Len(sentFrames')
      BY <1>1, <2>0, <2>2
    <3>2. sentFrames'[i].tick >= from
      BY <3>1 DEF Grows
    <3>3. sentFrames'[i].tick \in Nat
      BY <2>0, <3>1, Framed
    <3>. QED BY <1>1, <1>4, <3>2, <3>3
  <2>. QED BY <2>1, <2>2
<1>5. auth.axis = Value(sentFrames', auth.ack)
  BY <1>2 DEF Held, Grows
<1>6. ~tardy' => auth.pose = PoseAt(sentFrames', auth.tick)
  BY <1>1 DEF Held, Grows
<1>7. auth.tick <= local'
  BY <1>1 DEF Held
<1>. QED BY <1>3, <1>4, <1>5, <1>6, <1>7 DEF Held

\* The course goes on from the envelopes that were applied.
LEMMA AheadShift ==
  ASSUME PredictionTypes, Placed, InOrder, NEW w, Course(w), Informed(w),
         NEW k \in 0 .. Len(falling), falling' = SubSeq(falling, k + 1, Len(falling)),
         Rewound' = w[k], auth' = auth,
         NEW from \in Nat, Grows(sentFrames', sentFrames, from),
         ~tardy' => ~tardy /\ auth.tick < from,
         missed' = missed \/ (missed' = 0 /\ \E j \in 1 .. k : Resolves(falling[j], missed))
  PROVE  Ahead'
<1>n. PICK n : n = Len(falling)
  OBVIOUS
<1>0. n \in Nat /\ k \in Nat /\ k <= n /\ k \in 0 .. n /\ n \in k .. n
  BY <1>n, Typed
<1>1. falling \in Seq(Envelope)
  BY DEF PredictionTypes
<1>2. Len(falling') = n - k /\ \A i \in 1 .. (n - k) : falling'[i] = falling[k + i]
  <2>1. /\ Len(SubSeq(falling, k + 1, n)) = n - k
        /\ \A i \in 1 .. (n - k) : SubSeq(falling, k + 1, n)[i] = falling[k + i]
    BY <1>n, <1>0, <1>1, Stretch
  <2>. QED BY <1>n, <2>1
<1>3. PICK v : v = [i \in 0 .. (n - k) |-> w[k + i]]
  OBVIOUS
<1>4. \A i \in 0 .. (n - k) : v[i] = w[k + i] /\ k + i \in 0 .. n
  BY <1>0, <1>3
<1>5. /\ \A i \in 0 .. n : w[i] \in Mirror /\ Knows(w[i])
      /\ \A i \in 1 .. n : w[i] = applyEnvelope(w[i - 1], falling[i])
  BY <1>n DEF Course, Informed
<1>6. Course(v)'
  <2>1. v[0] = w[k] /\ k + 0 = k
    BY <1>0, <1>4
  <2>2. ASSUME NEW i \in 1 .. (n - k) PROVE v[i] = applyEnvelope(v[i - 1], falling'[i])
    <3>1. /\ i \in 0 .. (n - k) /\ i - 1 \in 0 .. (n - k) /\ k + i \in 1 .. n
          /\ k + (i - 1) = (k + i) - 1
      BY <1>0
    <3>. QED BY <1>2, <1>4, <1>5, <3>1
  <2>. QED BY <1>2, <1>4, <1>5, <2>1, <2>2 DEF Course
<1>7. ASSUME NEW i \in 0 .. (n - k), Resolved(i)' PROVE Resolved(k + i)
  <2>1. CASE missed' = missed
    <3>1. missed = 0 \/ \E j \in 1 .. i : Resolves(falling'[j], missed)
      BY <1>7, <2>1 DEF Resolved
    <3>2. \A j \in 1 .. i : j \in 1 .. (n - k) /\ k + j \in 1 .. (k + i)
      BY <1>0
    <3>. QED BY <1>2, <3>1, <3>2 DEF Resolved
  <2>2. CASE \E j \in 1 .. k : Resolves(falling[j], missed)
    <3>1. \A j \in 1 .. k : j \in 1 .. (k + i)
      BY <1>0
    <3>. QED BY <2>2, <3>1 DEF Resolved
  <2>. QED BY <2>1, <2>2
<1>8. Informed(v)'
  <2>1. \A i \in 0 .. (n - k) : Knows(v[i])'
    <3>1. \A x \in Mirror : Knows(x) => Knows(x)'
      BY KnowsGrown
    <3>. QED BY <1>4, <1>5, <3>1
  <2>2. ASSUME NEW i \in 0 .. (n - k), ~tardy', Resolved(i)'
        PROVE  v[i].pose = PoseAt(sentFrames', v[i].posed)
    <3>1. Resolved(k + i) /\ ~tardy /\ k + i \in 0 .. n
      BY <1>4, <1>7, <2>2
    <3>2. w[k + i].pose = PoseAt(sentFrames, w[k + i].posed)
      BY <1>n, <3>1 DEF Informed
    <3>3. w[k + i].posed \in Nat /\ w[k + i].posed <= auth.tick /\ auth.tick \in Nat
      BY <1>5, <3>1, Typed DEF Knows, Mirror
    <3>4. w[k + i].posed < from
      BY <2>2, <3>3
    <3>5. PoseAt(sentFrames', w[k + i].posed) = PoseAt(sentFrames, w[k + i].posed)
      BY <3>3, <3>4 DEF Grows
    <3>. QED BY <1>4, <3>2, <3>5
  <2>3. ASSUME NEW i \in 0 .. (n - k), NEW j \in 0 .. (n - k), i <= j PROVE v[i].acked <= v[j].acked
    <3>1. k + i \in 0 .. n /\ k + j \in 0 .. n /\ k + i <= k + j
      BY <1>0, <2>3
    <3>2. w[k + i].acked <= w[k + j].acked
      BY <1>n, <3>1 DEF Informed
    <3>. QED BY <1>4, <3>2
  <2>4. n - k \in 0 .. (n - k) /\ k + (n - k) = n
    BY <1>0
  <2>5. v[n - k] = w[n]
    BY <1>4, <2>4
  <2>6. v[n - k].count = auth.told.count
    BY <1>n, <2>5 DEF Informed
  <2>7. Resolved(n - k)' => v[n - k].pose = auth.told.pose
    BY <1>n, <1>7, <2>4, <2>5 DEF Informed
  <2>. QED BY <1>2, <2>1, <2>2, <2>3, <2>6, <2>7 DEF Informed
<1>9. InOrder'
  <2>1. \A i \in 1 .. (n - k) : k + i \in 1 .. n
    BY <1>0
  <2>2. \A i, j \in 1 .. (n - k) : i < j => k + i < k + j
    BY <1>0
  <2>3. \A i \in 1 .. (n - k) : falling'[i].tick \in 1 .. auth.tick
    BY <1>n, <1>2, <2>1 DEF InOrder
  <2>4. \A i, j \in 1 .. (n - k) :
           i < j /\ falling'[i].kind = "transform" /\ falling'[j].kind = "transform"
              => falling'[i].tick < falling'[j].tick
    BY <1>n, <1>2, <2>1, <2>2 DEF InOrder
  <2>. QED BY <1>2, <2>3, <2>4 DEF InOrder
<1>. QED BY <1>6, <1>8, <1>9 DEF Ahead

LEMMA ArriveKeeps ==
  ASSUME PredictionInv, arriveInput
  PROVE  PredictionInv'
<1>. USE DEF PredictionInv
<1>. DEFINE s == sentFrames
            a == auth.ack
            b == a + Len(due)
<1>0. /\ auth' = auth /\ falling' = falling /\ tardy' = tardy /\ shed' = shed /\ missed' = missed
      /\ UNCHANGED clientSide /\ rising # <<>>
      /\ due' = Append(due, Head(rising)) /\ rising' = Tail(rising)
  BY DEF arriveInput
<1>1. /\ s' = s /\ local' = local /\ unacked' = unacked /\ mirror' = mirror /\ fold' = fold
      /\ base' = base /\ horizonAxis' = horizonAxis /\ predicted' = predicted /\ drawn' = drawn
      /\ blurred' = blurred
  BY <1>0 DEF clientSide
<1>2. /\ s \in Seq(Frame) /\ Ordered(s) /\ due \in Seq(Frame) /\ rising \in Seq(Frame)
      /\ due = SubSeq(s, a + 1, b) /\ rising = SubSeq(s, b + 1, Len(s)) /\ b <= Len(s)
  BY DEF PredictionTypes, Sent, Placed
<1>3. Len(s) \in Nat /\ a \in Nat /\ Len(due) \in Nat /\ b \in Nat /\ a <= b
  <2>1. Len(s) \in Nat /\ a \in Nat /\ Len(due) \in Nat
    BY Typed
  <2>. QED BY <2>1
<1>. HIDE DEF s, b
<1>4. b < Len(s)
  <2>. SUFFICES ASSUME b = Len(s) PROVE FALSE
    BY <1>2, <1>3
  <2>1. SubSeq(s, b + 1, Len(s)) = <<>>
    BY <1>3, SubSeqEmpty
  <2>. QED BY <1>0, <1>2, <2>1
<1>5. a \in 0 .. Len(s) /\ b \in a .. (Len(s) - 1)
  BY <1>3, <1>4
<1>6. /\ Head(rising) = s[b + 1]
      /\ rising' = SubSeq(s, (b + 1) + 1, Len(s))
      /\ due' = SubSeq(s, a + 1, b + 1)
  <2>1. /\ Head(SubSeq(s, b + 1, Len(s))) = s[b + 1]
        /\ Tail(SubSeq(s, b + 1, Len(s))) = SubSeq(s, (b + 1) + 1, Len(s))
        /\ Append(SubSeq(s, a + 1, b), s[b + 1]) = SubSeq(s, a + 1, b + 1)
    BY <1>2, <1>5, Moves
  <2>. QED BY <1>0, <1>2, <2>1
<1>7. due' \in Seq(Frame) /\ Len(due') = (b + 1) - a
  <2>1. s \in Seq(Frame) /\ a \in 0 .. Len(s) /\ b + 1 \in a .. Len(s)
    BY <1>2, <1>3, <1>4
  <2>2. SubSeq(s, a + 1, b + 1) \in Seq(Frame) /\ Len(SubSeq(s, a + 1, b + 1)) = (b + 1) - a
    BY ONLY <2>1, Stretch
  <2>. QED BY <1>6, <2>2
<1>8. rising' \in Seq(Frame)
  BY <1>0, <1>2, HeadTailProperties
<1>9. PredictionTypes'
  BY <1>0, <1>1, <1>7, <1>8 DEF PredictionTypes, s
<1>10. Sent'
  BY <1>1 DEF Sent, s
<1>11. Placed'
  <2>1. auth'.ack + Len(due') = b + 1 /\ b + 1 <= Len(s)
    BY <1>0, <1>3, <1>4, <1>7
  <2>. QED BY <1>0, <1>1, <1>6, <2>1 DEF Placed, s
<1>12. Held'
  BY <1>0, <1>1 DEF Held, s
<1>13. Ahead'
  <2>1. \A w : Course(w)' = Course(w)
    BY <1>0, <1>1 DEF Course, Rewound
  <2>2. \A w : Informed(w)' = Informed(w)
    BY <1>0, <1>1 DEF Informed, Knows, Resolved, s
  <2>3. InOrder'
    BY <1>0 DEF Ahead, InOrder
  <2>. QED BY <2>1, <2>2, <2>3 DEF Ahead
<1>14. Predicted'
  BY <1>0, <1>1 DEF Predicted, Told, Whole, s
<1>. QED BY <1>9, <1>10, <1>11, <1>12, <1>13, <1>14

\* A pose shed leaves what is told after it missing until a later one, or told nothing.
LEMMA ShedKeeps ==
  ASSUME PredictionInv, shedTransform
  PROVE  PredictionInv'
<1>. USE DEF PredictionInv
<1>n. PICK n : n = Len(falling)
  OBVIOUS
<1>l. PICK e : e = falling[n]
  OBVIOUS
<1>0. /\ auth' = auth /\ due' = due /\ rising' = rising /\ tardy' = tardy /\ shed' = shed + 1
      /\ UNCHANGED clientSide /\ shed < MaxShed /\ falling # <<>>
      /\ e.kind = "transform" /\ falling' = Front(falling)
      /\ missed' = IF e.pose = Same THEN missed ELSE e.tick
  BY <1>n, <1>l DEF shedTransform, Last
<1>1. /\ sentFrames' = sentFrames /\ local' = local /\ unacked' = unacked /\ mirror' = mirror
      /\ base' = base /\ horizonAxis' = horizonAxis /\ predicted' = predicted /\ fold' = fold
      /\ drawn' = drawn /\ blurred' = blurred
  BY <1>0 DEF clientSide
<1>2. falling \in Seq(Envelope) /\ n \in Nat /\ n # 0 /\ n \in 1 .. n /\ n - 1 \in 0 .. n
      /\ n \in 0 .. n /\ n - 1 \in Nat
  <2>1. falling \in Seq(Envelope)
    BY DEF PredictionTypes
  <2>2. Len(falling) \in Nat /\ Len(falling) # 0
    BY <1>0, <2>1, EmptySeq
  <2>. QED BY <1>n, <2>1, <2>2
<1>3. e \in TransformEnvelope /\ e.tick \in 1 .. auth.tick /\ e.tick \in Nat
  <2>1. e \in Envelope
    BY <1>n, <1>l, <1>2, ElementOfSeq
  <2>2. e \in TransformEnvelope
    BY <1>0, <2>1 DEF Envelope, StateEnvelope
  <2>3. e.tick \in 1 .. auth.tick
    BY <1>n, <1>l, <1>2 DEF Ahead, InOrder
  <2>. QED BY <2>2, <2>3 DEF TransformEnvelope
<1>4. falling' \in Seq(Envelope) /\ Len(falling') = n - 1 /\ \A i \in 1 .. (n - 1) : falling'[i] = falling[i]
  <2>1. falling' = SubSeq(falling, 0 + 1, n - 1)
    BY <1>n, <1>0 DEF Front
  <2>2. 0 \in 0 .. n /\ (n - 1) \in 0 .. n /\ (n - 1) - 0 = n - 1 /\ \A i \in 1 .. (n - 1) : 0 + i = i
    BY <1>2
  <2>3. /\ SubSeq(falling, 0 + 1, n - 1) \in Seq(Envelope)
        /\ Len(SubSeq(falling, 0 + 1, n - 1)) = (n - 1) - 0
        /\ \A i \in 1 .. ((n - 1) - 0) : SubSeq(falling, 0 + 1, n - 1)[i] = falling[0 + i]
    BY <1>n, <1>2, <2>2, Stretch
  <2>. QED BY <2>1, <2>2, <2>3
<1>5. PredictionTypes'
  <2>1. shed' \in 0 .. MaxShed
    <3>1. shed \in 0 .. MaxShed /\ MaxShed \in Nat
      BY PredictionAssumption DEF PredictionTypes
    <3>. QED BY <1>0, <3>1
  <2>2. missed' \in Nat
    BY <1>0, <1>3 DEF PredictionTypes
  <2>. QED BY <1>0, <1>1, <1>4, <2>1, <2>2 DEF PredictionTypes
<1>6. Sent'
  BY <1>1 DEF Sent
<1>7. Placed'
  BY <1>0, <1>1 DEF Placed
<1>8. Held'
  BY <1>0, <1>1 DEF Held
<1>9. PICK w : Course(w) /\ Informed(w)
  BY DEF Ahead
<1>10. \A i \in 0 .. (n - 1) : i \in 0 .. n
  BY <1>2
<1>11. \A i \in 1 .. (n - 1) : i \in 1 .. n
  BY <1>2
<1>12. Course(w)'
  <2>1. Rewound' = Rewound
    BY <1>1 DEF Rewound
  <2>. QED BY <1>n, <1>4, <1>9, <1>10, <1>11, <2>1 DEF Course
<1>13. /\ w[n].count = w[n - 1].count /\ w[n].acked = w[n - 1].acked
       /\ w[n].pose = written(w[n - 1].pose, e.pose)
  <2>1. w[n] = applyEnvelope(w[n - 1], e) /\ w[n - 1] \in Mirror
    BY <1>n, <1>l, <1>2, <1>9 DEF Course
  <2>. QED BY <1>3, <2>1, TransformApplied
\* Nothing earlier tells what the pose shed would have.
<1>14. ASSUME NEW i \in 0 .. (n - 1), Resolved(i)' PROVE e.pose = Same /\ Resolved(i)
  <2>1. \A j \in 1 .. i : j \in 1 .. (n - 1) /\ j \in 1 .. n /\ j < n
    BY <1>2
  <2>2. CASE e.pose # Same
    <3>1. missed' = e.tick /\ missed' # 0
      BY <1>0, <1>3, <2>2
    <3>2. PICK j \in 1 .. i : Resolves(falling'[j], e.tick)
      BY <1>14, <3>1 DEF Resolved
    <3>3. falling[j].kind = "transform" /\ falling[j].tick > e.tick
      BY <1>4, <2>1, <3>2 DEF Resolves
    <3>4. falling[j].tick < e.tick
      BY <1>n, <1>l, <1>0, <1>2, <2>1, <3>3 DEF Ahead, InOrder
    <3>5. falling[j].tick \in 1 .. auth.tick
      BY <1>n, <2>1 DEF Ahead, InOrder
    <3>. QED BY <1>3, <3>3, <3>4, <3>5
  <2>3. CASE e.pose = Same
    <3>1. missed' = missed
      BY <1>0, <2>3
    <3>. QED BY <1>4, <1>14, <2>1, <2>3, <3>1 DEF Resolved
  <2>. QED BY <2>2, <2>3
<1>15. Resolved(n - 1)' => w[n - 1].pose = auth.told.pose
  <2>. SUFFICES ASSUME Resolved(n - 1)' PROVE w[n - 1].pose = auth.told.pose
    OBVIOUS
  <2>1. n - 1 \in 0 .. (n - 1)
    BY <1>2
  <2>2. e.pose = Same /\ Resolved(n - 1)
    BY <1>14, <2>1
  <2>3. \A j \in 1 .. (n - 1) : j \in 1 .. n
    BY <1>2
  <2>4. Resolved(n)
    BY <2>2, <2>3 DEF Resolved
  <2>5. w[n].pose = auth.told.pose
    BY <1>n, <1>9, <2>4 DEF Informed
  <2>. QED BY <1>13, <2>2, <2>5 DEF written
<1>16. Informed(w)'
  <2>1. \A i \in 0 .. (n - 1) : Knows(w[i])'
    BY <1>n, <1>0, <1>1, <1>9, <1>10 DEF Informed, Knows
  <2>2. \A i \in 0 .. (n - 1) : ~tardy' /\ Resolved(i)' => w[i].pose = PoseAt(sentFrames', w[i].posed)
    BY <1>n, <1>0, <1>1, <1>9, <1>10, <1>14 DEF Informed
  <2>3. \A i, j \in 0 .. (n - 1) : i <= j => w[i].acked <= w[j].acked
    BY <1>n, <1>9, <1>10 DEF Informed
  <2>4. w[n - 1].count = auth.told.count
    BY <1>n, <1>9, <1>13 DEF Informed
  <2>. QED BY <1>0, <1>4, <1>15, <2>1, <2>2, <2>3, <2>4 DEF Informed
<1>17. InOrder'
  BY <1>n, <1>0, <1>4, <1>11 DEF Ahead, InOrder
<1>18. Ahead'
  BY <1>12, <1>16, <1>17 DEF Ahead
<1>19. Predicted'
  <2>1. missed' = 0 => missed = 0
    BY <1>0, <1>3
  <2>2. Told' => Told
    BY <1>1, <2>1 DEF Told
  <2>. QED BY <1>0, <1>1, <2>2 DEF Predicted, Whole
<1>. QED BY <1>5, <1>6, <1>7, <1>8, <1>18, <1>19

\* A frame sent is on the wire and in the ring, behind every other.
LEMMA AppendPlaced ==
  ASSUME NEW s \in Seq(Frame), NEW f \in Frame, NEW a \in 0 .. Len(s), NEW b \in a .. Len(s)
  PROVE  /\ SubSeq(Append(s, f), a + 1, b) = SubSeq(s, a + 1, b)
         /\ Append(SubSeq(s, a + 1, Len(s)), f) = SubSeq(Append(s, f), a + 1, Len(Append(s, f)))
         /\ Len(Append(s, f)) = Len(s) + 1
<1>1. Len(Append(s, f)) = Len(s) + 1
  BY AppendProperties
<1>2. /\ SubSeq(Append(s, f), a + 1, b) = SubSeq(s, a + 1, b)
      /\ SubSeq(Append(s, f), a + 1, Len(s) + 1) = Append(SubSeq(s, a + 1, Len(s)), f)
  BY Longer
<1>. QED BY <1>1, <1>2

\* Input.onFocusLoss: the frame is stamped with a tick that was predicted.
LEMMA FocusLossKeeps ==
  ASSUME PredictionInv, focusLoss
  PROVE  PredictionInv'
<1>. USE DEF PredictionInv
<1>. DEFINE s == sentFrames
            b == auth.ack + Len(due)
<1>f. PICK f : f = [seq |-> Len(sentFrames) + 1, tick |-> local, value |-> 0]
  OBVIOUS
<1>0. /\ s' = Append(s, f) /\ unacked' = Append(unacked, f) /\ rising' = Append(rising, f)
      /\ blurred' = TRUE /\ tardy' = (tardy \/ local <= auth.tick)
      /\ auth' = auth /\ due' = due /\ falling' = falling /\ local' = local
      /\ horizonAxis' = horizonAxis /\ mirror' = mirror /\ base' = base /\ fold' = fold
      /\ predicted' = predicted /\ drawn' = drawn /\ shed' = shed /\ missed' = missed
      /\ axisAfter(0, s) # 0
  BY <1>f DEF focusLoss
<1>1. /\ s \in Seq(Frame) /\ Ordered(s) /\ rising \in Seq(Frame) /\ unacked \in Seq(Frame)
      /\ local \in Nat /\ \A i \in 1 .. Len(s) : s[i].tick <= local
  BY DEF PredictionTypes, Sent
<1>2. /\ Len(s) \in Nat /\ auth.ack \in Nat /\ Len(due) \in Nat /\ b \in Nat /\ auth.tick \in Nat
      /\ mirror.acked \in Nat /\ b <= Len(s) /\ mirror.acked <= Len(s)
  <2>1. /\ Len(s) \in Nat /\ auth.ack \in Nat /\ Len(due) \in Nat /\ auth.tick \in Nat
        /\ mirror.acked \in Nat
    BY Typed
  <2>. QED BY <2>1, SMTT(30) DEF Placed
<1>3. f \in Frame /\ f.tick = local /\ f.seq = Len(s) + 1
  <2>1. Len(s) + 1 \in Nat /\ 0 \in Speeds /\ local \in Nat
    BY <1>1, <1>2, PredictionAssumption
  <2>2. f = [seq |-> Len(s) + 1, tick |-> local, value |-> 0]
    BY <1>f
  <2>. QED BY ONLY <2>1, <2>2 DEF Frame
<1>4. Grows(s', s, local)
  BY <1>0, <1>1, <1>3, AppendGrows
<1>5. /\ s' \in Seq(Frame) /\ Ordered(s') /\ Len(s') = Len(s) + 1 /\ s'[Len(s) + 1] = f
      /\ \A i \in 1 .. Len(s) : s'[i] = s[i]
  <2>1. /\ Append(s, f) \in Seq(Frame) /\ Len(Append(s, f)) = Len(s) + 1
        /\ Append(s, f)[Len(s) + 1] = f /\ \A i \in 1 .. Len(s) : Append(s, f)[i] = s[i]
    BY <1>1, <1>3, AppendProperties
  <2>2. Ordered(s')
    BY <1>4 DEF Grows
  <2>. QED BY <1>0, <2>1, <2>2
<1>6. PredictionTypes'
  <2>1. unacked' \in Seq(Frame) /\ rising' \in Seq(Frame)
    BY <1>0, <1>1, <1>3, AppendProperties
  <2>2. tardy' \in BOOLEAN /\ blurred' \in BOOLEAN
    BY <1>0
  <2>. QED BY <1>0, <1>5, <2>1, <2>2 DEF PredictionTypes
<1>7. Sent'
  <2>1. ASSUME NEW i \in 1 .. Len(s') PROVE s'[i].seq = i /\ s'[i].tick <= local
    <3>1. CASE i \in 1 .. Len(s)
      BY <1>5, <3>1 DEF Sent
    <3>2. CASE i \notin 1 .. Len(s)
      <4>1. i = Len(s) + 1
        BY <1>2, <1>5, <3>2
      <4>. QED BY <1>1, <1>3, <1>5, <4>1
    <3>. QED BY <3>1, <3>2
  <2>. QED BY <1>0, <1>5, <2>1 DEF Sent
<1>8. Placed'
  <2>. HIDE DEF b
  <2>1. /\ auth.ack \in 0 .. Len(s) /\ b \in auth.ack .. Len(s) /\ b \in 0 .. Len(s)
        /\ Len(s) \in b .. Len(s) /\ mirror.acked \in 0 .. Len(s) /\ Len(s) \in mirror.acked .. Len(s)
    BY <1>2 DEF b
  <2>2. SubSeq(s', auth.ack + 1, b) = SubSeq(s, auth.ack + 1, b)
    BY <1>0, <1>1, <1>3, <2>1, AppendPlaced
  <2>3. Append(SubSeq(s, b + 1, Len(s)), f) = SubSeq(s', b + 1, Len(s'))
    BY <1>0, <1>1, <1>3, <2>1, AppendPlaced
  <2>4. Append(SubSeq(s, mirror.acked + 1, Len(s)), f) = SubSeq(s', mirror.acked + 1, Len(s'))
    BY <1>0, <1>1, <1>3, <2>1, AppendPlaced
  <2>5. b <= Len(s') /\ mirror.acked <= Len(s')
    BY <1>2, <1>5
  <2>. QED BY <1>0, <2>2, <2>3, <2>4, <2>5 DEF Placed, b
<1>9. ~tardy' => ~tardy /\ auth.tick < local
  <2>1. ~tardy' => ~tardy /\ ~(local <= auth.tick)
    BY <1>0, Zenon
  <2>2. ~(local <= auth.tick) => auth.tick < local
    BY <1>1, <1>2
  <2>. QED BY <2>1, <2>2
<1>10. Held'
  <2>1. horizonAxis' = Value(sentFrames', mirror'.acked)
    <3>1. mirror.acked \in 0 .. Len(s)
      BY <1>2
    <3>. QED BY <1>0, <1>4, <3>1 DEF Held, Grows
  <2>2. local' \in Nat /\ local' >= local
    BY <1>0, <1>1
  <2>. QED BY <1>0, <1>1, <1>4, <1>9, <2>1, <2>2, HeldGrown
<1>11. Ahead'
  <2>1. PICK w : Course(w) /\ Informed(w)
    BY DEF Ahead
  <2>2. falling' = SubSeq(falling, 0 + 1, Len(falling)) /\ 0 \in 0 .. Len(falling)
    <3>1. falling \in Seq(Envelope) /\ Len(falling) \in Nat /\ 0 + 1 = 1
      BY Typed DEF PredictionTypes
    <3>2. SubSeq(falling, 1, Len(falling)) = falling
      BY <3>1, SubSeqFull
    <3>. QED BY <1>0, <3>1, <3>2
  <2>3. Rewound' = w[0]
    BY <1>0, <2>1 DEF Rewound, Course
  <2>4. InOrder
    BY DEF Ahead
  <2>. QED BY <1>0, <1>1, <1>4, <1>9, <2>1, <2>2, <2>3, <2>4, AheadShift
<1>12. Predicted'
  <2>1. ~Told'
    BY <1>0 DEF Told
  <2>2. unacked' # <<>>
    BY <1>0, <1>1, <1>3, AppendProperties
  <2>3. s # <<>>
    BY <1>0 DEF axisAfter
  <2>4. base.tick = mirror.depicted /\ predicted = local
    BY <2>3 DEF Predicted
  <2>. QED BY <1>0, <2>1, <2>2, <2>4 DEF Predicted
<1>. QED BY <1>6, <1>7, <1>8, <1>10, <1>11, <1>12

\* A pose and a count written over a world.
LEMMA Overwritten ==
  ASSUME NEW m \in Mirror, NEW x \in Nat, NEW y \in Nat
  PROVE  [m EXCEPT !.pose = x, !.count = y]
           = [pose |-> x, count |-> y, depicted |-> m.depicted, acked |-> m.acked, posed |-> m.posed]
<1>1. /\ m = [pose |-> m.pose, count |-> m.count, depicted |-> m.depicted, acked |-> m.acked,
              posed |-> m.posed]
      /\ m.pose \in Nat /\ m.count \in Nat /\ m.depicted \in Nat /\ m.acked \in Nat /\ m.posed \in Nat
  BY DEF Mirror
<1>2. PICK z : z = [m EXCEPT !.pose = x, !.count = y]
  OBVIOUS
<1>3. z = [pose |-> x, count |-> y, depicted |-> m.depicted, acked |-> m.acked, posed |-> m.posed]
  BY <1>1, <1>2
<1>. QED BY <1>2, <1>3

\* #rewind and applyBatch: the first envelopes take the world along its course.
LEMMA DrainedIs ==
  ASSUME PredictionTypes, NEW w, Course(w), NEW k \in 0 .. Len(falling)
  PROVE  LET batch == SubSeq(falling, 1, k)
             m == applyBatch(rewind(batch), batch)
         IN  /\ m \in Mirror /\ m.acked = w[k].acked /\ m.depicted = w[k].depicted
             /\ m.posed = w[k].posed
             /\ (k = 0 => batch = <<>> /\ m = mirror)
             /\ (k # 0 => batch # <<>> /\ m = w[k])
<1>. DEFINE batch == SubSeq(falling, 1, k)
            m == applyBatch(rewind(batch), batch)
<1>0. /\ falling \in Seq(Envelope) /\ Len(falling) \in Nat /\ k \in Nat /\ k <= Len(falling)
      /\ mirror \in Mirror
  BY Typed DEF PredictionTypes
<1>1. /\ w[0] = Rewound /\ w[k] \in Mirror
      /\ \A i \in 1 .. Len(falling) : w[i] = applyEnvelope(w[i - 1], falling[i])
  BY DEF Course
<1>2. Rewound = [pose |-> base.pose, count |-> base.count, depicted |-> mirror.depicted,
                 acked |-> mirror.acked, posed |-> mirror.posed]
  <2>1. base.pose \in Nat /\ base.count \in Nat
    BY Typed
  <2>. QED BY <1>0, <2>1, Overwritten DEF Rewound
<1>3. CASE k = 0
  <2>1. batch = <<>>
    BY <1>3, SubSeqEmpty
  <2>2. m = applyBatch(mirror, <<>>)
    BY <2>1 DEF rewind
  <2>3. PICK u : u = [i \in 0 .. 0 |-> mirror]
    OBVIOUS
  <2>4. u[0] = mirror
    BY <2>3
  <2>5. applyBatch(u[0], SubSeq(<<>>, 1, 0)) = u[0]
    <3>1. PICK q : q = <<>>
      OBVIOUS
    <3>2. q \in Seq(Envelope) /\ Len(q) = 0 /\ 0 \in 0 .. Len(q)
      BY <3>1
    <3>3. \A i \in 1 .. Len(q) : u[i] = applyEnvelope(u[i - 1], q[i])
      BY <3>2
    <3>4. applyBatch(u[0], SubSeq(q, 1, 0)) = u[0]
      BY ONLY <3>2, <3>3, BatchIs
    <3>. QED BY <3>1, <3>4
  <2>6. SubSeq(<<>>, 1, 0) = <<>>
    BY SubSeqEmpty
  <2>7. m = mirror
    BY <2>2, <2>4, <2>5, <2>6
  <2>. HIDE DEF m
  <2>8. w[k] = Rewound
    BY <1>1, <1>3
  <2>9. m.acked = w[k].acked /\ m.depicted = w[k].depicted /\ m.posed = w[k].posed
    BY <1>2, <2>7, <2>8
  <2>. QED BY <1>0, <1>3, <2>1, <2>7, <2>9 DEF m
<1>4. CASE k # 0
  <2>1. batch # <<>>
    <3>1. 0 \in 0 .. Len(falling) /\ k \in 0 .. Len(falling) /\ 0 + 1 = 1 /\ k - 0 = k
      BY <1>0
    <3>2. Len(SubSeq(falling, 0 + 1, k)) = k - 0
      BY ONLY <1>0, <3>1, Stretch
    <3>3. Len(batch) # 0
      BY <1>4, <3>1, <3>2
    <3>. HIDE DEF batch
    <3>. QED BY <3>3
  <2>2. rewind(batch) = w[0]
    BY <1>1, <2>1 DEF rewind, Rewound
  <2>3. applyBatch(w[0], batch) = w[k]
    BY <1>0, <1>1, BatchIs
  <2>4. m = w[k]
    BY <2>2, <2>3
  <2>. HIDE DEF m, batch
  <2>. QED BY <1>1, <1>4, <2>1, <2>4 DEF m, batch
<1>. QED BY <1>3, <1>4

\* InputRing.ack: what an ack prunes is what lies below it, and is held.
LEMMA RingIs ==
  ASSUME PredictionTypes, Sent, Placed, Held, NEW c \in mirror.acked .. Len(sentFrames)
  PROVE  LET cut == prunable(unacked, c)
         IN  /\ heldAtHorizon(SubSeq(unacked, 1, cut)) = Value(sentFrames, c)
             /\ SubSeq(unacked, cut + 1, Len(unacked)) = SubSeq(sentFrames, c + 1, Len(sentFrames))
             /\ c = mirror.acked => cut = 0
<1>. DEFINE s == sentFrames
            a == mirror.acked
            cut == prunable(unacked, c)
<1>0. /\ s \in Seq(Frame) /\ unacked \in Seq(Frame) /\ Len(s) \in Nat /\ a \in Nat /\ a <= Len(s)
      /\ unacked = SubSeq(s, a + 1, Len(s)) /\ a \in 0 .. Len(s) /\ Len(s) \in a .. Len(s)
      /\ c \in Nat /\ a <= c /\ c <= Len(s) /\ c \in a .. Len(s)
  <2>1. s \in Seq(Frame) /\ unacked \in Seq(Frame) /\ a <= Len(s) /\ unacked = SubSeq(s, a + 1, Len(s))
    BY DEF PredictionTypes, Placed
  <2>2. Len(s) \in Nat /\ a \in Nat
    BY Typed
  <2>. QED BY <2>1, <2>2
<1>1. Len(unacked) = Len(s) - a /\ \A i \in 1 .. (Len(s) - a) : unacked[i] = s[a + i]
  <2>1. /\ Len(SubSeq(s, a + 1, Len(s))) = Len(s) - a
        /\ \A i \in 1 .. (Len(s) - a) : SubSeq(s, a + 1, Len(s))[i] = s[a + i]
    <3>1. s \in Seq(Frame) /\ a \in 0 .. Len(s) /\ Len(s) \in a .. Len(s)
      BY <1>0
    <3>. QED BY ONLY <3>1, Stretch, SMTT(30)
  <2>. QED BY <1>0, <2>1
<1>2. \A i \in 1 .. Len(unacked) : unacked[i].seq = a + i
  <2>1. \A i \in 1 .. Len(unacked) : i \in 1 .. (Len(s) - a) /\ a + i \in 1 .. Len(s)
    BY <1>0, <1>1, SMTT(30)
  <2>. QED BY <1>1, <2>1 DEF Sent
<1>. HIDE DEF s, a
<1>3. cut = c - a
  <2>1. c \in a .. (a + Len(unacked))
    BY <1>0, <1>1
  <2>. QED BY <1>0, <1>2, <2>1, Prunable
<1>. HIDE DEF cut
<1>4. SubSeq(unacked, 1, cut) = SubSeq(s, a + 1, c)
  <2>1. 0 \in 0 .. (Len(s) - a) /\ c - a \in 0 .. (Len(s) - a)
    BY <1>0
  <2>2. SubSeq(SubSeq(s, a + 1, Len(s)), 0 + 1, c - a) = SubSeq(s, (a + 0) + 1, a + (c - a))
    BY <1>0, <2>1, Within
  <2>3. 0 + 1 = 1 /\ a + 0 = a /\ a + (c - a) = c
    BY <1>0, SMTT(30)
  <2>. QED BY <1>0, <1>3, <2>2, <2>3
<1>5. SubSeq(unacked, cut + 1, Len(unacked)) = SubSeq(s, c + 1, Len(s))
  <2>1. c - a \in 0 .. (Len(s) - a) /\ Len(s) - a \in (c - a) .. (Len(s) - a)
    BY <1>0
  <2>2. SubSeq(SubSeq(s, a + 1, Len(s)), (c - a) + 1, Len(s) - a)
          = SubSeq(s, (a + (c - a)) + 1, a + (Len(s) - a))
    BY <1>0, <2>1, Within
  <2>3. a + (c - a) = c /\ a + (Len(s) - a) = Len(s)
    BY <1>0
  <2>. QED BY <1>0, <1>1, <1>3, <2>2, <2>3
<1>6. horizonAxis = Value(s, a)
  BY DEF Held, s, a
<1>7. axisAfter(Value(s, a), SubSeq(s, a + 1, c)) = Value(s, c)
  BY <1>0, AxisOn
<1>8. heldAtHorizon(SubSeq(unacked, 1, cut)) = Value(s, c)
  BY <1>4, <1>6, <1>7 DEF heldAtHorizon
<1>9. c = a => cut = 0
  BY <1>0, <1>3
<1>. QED BY <1>5, <1>8, <1>9 DEF s, a, cut

\* A frame of the client: what was drained is the baseline, what is not acked is replayed over it.
LEMMA ClientKeeps ==
  ASSUME PredictionInv, NEW k \in 0 .. Len(falling), NEW n \in 0 .. 2, NEW v \in Speeds,
         clientFrame(k, n, v)
  PROVE  PredictionInv'
<1>. USE DEF PredictionInv
<1>. DEFINE s == sentFrames
            batch == SubSeq(falling, 1, k)
            m == applyBatch(rewind(batch), batch)
            cut == prunable(unacked, m.acked)
            held == heldAtHorizon(SubSeq(unacked, 1, cut))
            moved == n > 0 /\ v /= axisAfter(0, s)
            f == [seq |-> Len(s) + 1, tick |-> local + n, value |-> v]
            ring == SubSeq(unacked, cut + 1, Len(unacked)) \o (IF moved THEN <<f>> ELSE <<>>)
            again == batch /= <<>>
            start == [pose |-> m.pose, count |-> m.count,
                      axis |-> IF again THEN seedActions(held, ring, m.depicted) ELSE fold]
            now == local + n
            at == IF again THEN m.depicted ELSE predicted
            after == stepThrough(start, ring, replayFrom(at, now), now)
            saw == {e \in ToSet(batch) : e.kind = "transform"}
<1>1. /\ local' = now
      /\ falling' = SubSeq(falling, k + 1, Len(falling))
      /\ unacked' = ring
      /\ horizonAxis' = held
      /\ s' = IF moved THEN Append(s, f) ELSE s
      /\ rising' = IF moved THEN Append(rising, f) ELSE rising
      /\ base' = IF again THEN [tick |-> m.depicted, pose |-> m.pose, count |-> m.count] ELSE base
      /\ mirror' = [m EXCEPT !.pose = after.pose, !.count = after.count]
      /\ fold' = after.axis
      /\ predicted' = now
      /\ missed' = IF \E e \in saw : e.pose /= Same /\ e.tick > missed THEN 0 ELSE missed
      /\ drawn' \in measureCorrections(again, after.pose)
      /\ blurred' = (blurred /\ ~again)
      /\ auth' = auth /\ due' = due /\ tardy' = tardy /\ shed' = shed
  BY DEF clientFrame
<1>2. PICK w : Course(w) /\ Informed(w)
  BY DEF Ahead
<1>3. /\ m \in Mirror /\ m.acked = w[k].acked /\ m.depicted = w[k].depicted /\ m.posed = w[k].posed
      /\ (k = 0 => batch = <<>> /\ m = mirror)
      /\ (k # 0 => batch # <<>> /\ m = w[k])
  BY <1>2, DrainedIs
<1>4. (again <=> k # 0) /\ (again => m = w[k]) /\ (~again => m = mirror)
  BY <1>3
<1>. HIDE DEF m
<1>5. /\ s \in Seq(Frame) /\ Ordered(s) /\ rising \in Seq(Frame) /\ unacked \in Seq(Frame)
      /\ local \in Nat /\ predicted \in Nat /\ fold \in Nat /\ drawn \in Int /\ n \in Nat
      /\ v \in Nat /\ falling \in Seq(Envelope) /\ missed \in Nat /\ mirror \in Mirror
  BY PredictionAssumption DEF PredictionTypes, Sent
<1>6. /\ Len(s) \in Nat /\ auth.ack \in Nat /\ Len(due) \in Nat /\ auth.tick \in Nat
      /\ mirror.acked \in Nat /\ mirror.depicted \in Nat /\ mirror.pose \in Nat
      /\ mirror.count \in Nat /\ base.tick \in Nat /\ base.pose \in Nat /\ base.count \in Nat
      /\ Len(falling) \in Nat /\ Len(rising) \in Nat
  BY Typed
<1>7. m.pose \in Nat /\ m.count \in Nat /\ m.depicted \in Nat /\ m.acked \in Nat /\ m.posed \in Nat
  BY <1>3 DEF Mirror
<1>8. auth.ack + Len(due) <= Len(s) /\ mirror.acked <= Len(s) /\ auth.tick <= local
  BY DEF Placed, Held
<1>9. w[0] = Rewound /\ w[0] \in Mirror /\ w[k] \in Mirror /\ Knows(w[k]) /\ Knows(w[0])
      /\ w[0].acked <= w[k].acked
  <2>1. 0 \in 0 .. Len(falling) /\ k \in 0 .. Len(falling) /\ 0 <= k
    BY <1>6
  <2>. QED BY <1>2, <2>1 DEF Course, Informed
<1>10. w[0] = [pose |-> base.pose, count |-> base.count, depicted |-> mirror.depicted,
               acked |-> mirror.acked, posed |-> mirror.posed]
  BY <1>5, <1>6, <1>9, Overwritten DEF Rewound
<1>11. /\ m.acked \in mirror.acked .. Len(s) /\ m.acked <= auth.ack /\ m.depicted <= auth.tick
       /\ m.posed <= auth.tick /\ m.acked \in 0 .. Len(s) /\ mirror.depicted <= auth.tick
  <2>1. w[0].acked = mirror.acked /\ w[0].depicted = mirror.depicted
    BY <1>10
  <2>2. w[k].acked <= auth.ack /\ w[k].depicted <= auth.tick /\ w[k].posed <= auth.tick
        /\ w[0].depicted <= auth.tick
    BY <1>9 DEF Knows
  <2>3. mirror.acked <= m.acked /\ m.acked <= auth.ack /\ m.depicted <= auth.tick
        /\ m.posed <= auth.tick /\ mirror.depicted <= auth.tick
    BY ONLY <1>3, <1>9, <2>1, <2>2
  <2>4. \A a, b, c, d, x \in Nat : a <= b /\ b <= c /\ c + d <= x => b \in a .. x /\ b \in 0 .. x
    OBVIOUS
  <2>5. m.acked \in mirror.acked .. Len(s) /\ m.acked \in 0 .. Len(s)
    BY ONLY <1>6, <1>7, <1>8, <2>3, <2>4
  <2>. QED BY ONLY <2>3, <2>5
<1>12. /\ held = Value(s, m.acked)
       /\ SubSeq(unacked, cut + 1, Len(unacked)) = SubSeq(s, m.acked + 1, Len(s))
       /\ m.acked = mirror.acked => cut = 0
  BY <1>11, RingIs
<1>13. ring = SubSeq(s, m.acked + 1, Len(s)) \o (IF moved THEN <<f>> ELSE <<>>)
  BY <1>12
<1>14. f \in Frame /\ f.tick = now /\ f.seq = Len(s) + 1
  <2>1. Len(s) + 1 \in Nat /\ local + n \in Nat
    BY <1>5, <1>6
  <2>. QED BY <2>1 DEF Frame
<1>15. now \in Nat /\ local <= now /\ auth.tick <= now /\ \A i \in 1 .. Len(s) : s[i].tick <= now
  <2>1. now \in Nat /\ local <= now /\ auth.tick <= now
    BY <1>5, <1>6, <1>8
  <2>2. \A i \in 1 .. Len(s) : s[i].tick \in Nat /\ s[i].tick <= local
    BY <1>5, Framed DEF Sent
  <2>. QED BY <1>5, <2>1, <2>2
<1>. HIDE DEF held, cut, f, ring, again, now, at, saw, start, batch
<1>16. PICK from \in Nat : Grows(s', s, from) /\ local < from
  <2>1. CASE moved
    <3>1. \A i \in 1 .. Len(s) : s[i].tick <= f.tick
      BY <1>14, <1>15
    <3>2. Grows(Append(s, f), s, f.tick)
      BY <1>5, <1>14, <3>1, AppendGrows
    <3>3. now \in Nat /\ local < now
      BY <1>5, <1>15, <2>1 DEF now
    <3>. QED BY <1>1, <1>14, <2>1, <3>2, <3>3
  <2>2. CASE ~moved
    <3>1. local + 1 \in Nat /\ local < local + 1
      BY <1>5
    <3>. QED BY <1>1, <1>5, <2>2, <3>1, SameGrows
  <2>. QED BY <2>1, <2>2
<1>17. auth.tick < from
  BY <1>5, <1>6, <1>8, <1>16
<1>18. /\ s' \in Seq(Frame) /\ Ordered(s') /\ Len(s) <= Len(s') /\ Len(s') \in Nat
  BY <1>16 DEF Grows
<1>a. /\ m.acked \in 0 .. Len(s') /\ Len(s') \in m.acked .. Len(s') /\ m.acked \in m.acked .. Len(s')
      /\ m.depicted \in Int
  <2>1. \A a, x, y \in Nat : a \in 0 .. x /\ x <= y => a \in 0 .. y /\ y \in a .. y /\ a \in a .. y
    OBVIOUS
  <2>2. m.acked \in 0 .. Len(s') /\ Len(s') \in m.acked .. Len(s') /\ m.acked \in m.acked .. Len(s')
    BY ONLY <1>6, <1>7, <1>11, <1>18, <2>1
  <2>. QED BY ONLY <1>7, <2>2
<1>19. ring = SubSeq(s', m.acked + 1, Len(s'))
  <2>1. Len(s) \in m.acked .. Len(s) /\ m.acked \in 0 .. Len(s)
    BY <1>6, <1>7, <1>11
  <2>2. SubSeq(s, m.acked + 1, Len(s)) \in Seq(Frame)
    BY <1>5, <2>1, Stretch
  <2>3. CASE moved
    <3>1. ring = Append(SubSeq(s, m.acked + 1, Len(s)), f)
      BY <1>13, <1>14, <2>2, <2>3, AppendIsConcat
    <3>2. s' = Append(s, f)
      BY <1>1, <2>3
    <3>. QED BY <1>5, <1>14, <2>1, <3>1, <3>2, AppendPlaced
  <2>4. CASE ~moved
    <3>1. s' = s
      BY <1>1, <2>4
    <3>. QED BY <1>13, <2>2, <2>4, <3>1, ConcatEmptySeq
  <2>. QED BY <2>3, <2>4
<1>. HIDE DEF after
<1>20. PICK j \in m.acked .. Len(s') :
         /\ through(ring, m.depicted) = SubSeq(s', m.acked + 1, j)
         /\ \A i \in (m.acked + 1) .. j : s'[i].tick <= m.depicted
         /\ \A i \in (j + 1) .. Len(s') : s'[i].tick > m.depicted
  BY <1>a, <1>18, <1>19, Parts
<1>21. /\ held = Value(s', m.acked) /\ held \in Nat
       /\ seedActions(held, ring, m.depicted) = Value(s', j) /\ Value(s', j) \in Nat
  <2>1. m.acked \in 0 .. Len(s') /\ j \in m.acked .. Len(s') /\ m.acked \in m.acked .. Len(s')
    BY <1>a, <1>20
  <2>2. Value(s', m.acked) = Value(s, m.acked)
    BY <1>11, <1>16 DEF Grows
  <2>3. axisAfter(Value(s', m.acked), SubSeq(s', m.acked + 1, j)) = Value(s', j)
        /\ Value(s', j) \in Speeds
    BY <1>18, <2>1, AxisOn
  <2>4. Value(s', m.acked) \in Speeds
    BY <1>18, <2>1, AxisOn
  <2>. QED BY <1>12, <1>20, <2>2, <2>3, <2>4, PredictionAssumption DEF seedActions
<1>22. Knows(w[k])'
  BY <1>1, <1>9, <1>16, <1>17, KnowsGrown
<1>23. ~tardy => j = m.acked /\ leading(s', m.depicted) = m.acked
  <2>1. /\ \A i \in 1 .. m.acked : s'[i].tick <= m.depicted
        /\ ~tardy' => \A i \in (m.acked + 1) .. Len(s') : s'[i].tick > m.depicted
    BY <1>3, <1>22 DEF Knows
  <2>2. m.acked \in 0 .. Len(s') /\ m.depicted \in Int
    BY <1>a
  <2>3. SUFFICES ASSUME ~tardy PROVE j = m.acked /\ leading(s', m.depicted) = m.acked
    OBVIOUS
  <2>4. \A i \in (m.acked + 1) .. Len(s') : s'[i].tick > m.depicted
    BY <1>1, <2>1, <2>3
  <2>5. leading(s', m.depicted) = m.acked
    BY <1>18, <2>1, <2>2, <2>4, LeadingIs
  <2>6. j = m.acked
    <3>1. SUFFICES ASSUME m.acked < j PROVE FALSE
      BY <1>7, <1>18, <1>20
    <3>2. j \in (m.acked + 1) .. Len(s') /\ j \in (m.acked + 1) .. j /\ j \in 1 .. Len(s')
      BY <1>7, <1>18, <1>20, <3>1
    <3>3. s'[j].tick \in Nat
      BY <1>18, <3>2, Framed
    <3>. QED BY <1>7, <1>20, <2>4, <3>2, <3>3, SMTT(30)
  <2>. QED BY <2>5, <2>6
<1>24. start \in World /\ start.pose = m.pose /\ start.count = m.count
       /\ start.axis = IF again THEN Value(s', j) ELSE fold
  <2>1. start = [pose |-> m.pose, count |-> m.count, axis |-> IF again THEN Value(s', j) ELSE fold]
    BY <1>21 DEF start
  <2>. QED BY <1>5, <1>7, <1>21, <2>1 DEF World
<1>25. /\ at \in Nat /\ at <= now /\ replayFrom(at, now) \in Nat /\ replayFrom(at, now) <= now
       /\ (Whole' => replayFrom(at, now) = at)
  <2>1. base.tick = mirror.depicted
        /\ (predicted = local \/ (predicted = 0 /\ local = 1 /\ base.tick = 0))
    BY DEF Predicted
  <2>2. MAX_REPLAY_TICKS \in Nat
    BY PredictionAssumption
  <2>b. \A a, c \in Nat : a <= c =>
          /\ replayFrom(a, c) \in Nat /\ replayFrom(a, c) <= c
          /\ (c - a <= MAX_REPLAY_TICKS => replayFrom(a, c) = a)
    BY <2>2 DEF replayFrom
  <2>3. CASE again
    <3>1. at = m.depicted /\ base'.tick = m.depicted /\ local' = now
      BY <1>1, <2>3 DEF at
    <3>2. Whole' => now - m.depicted <= MAX_REPLAY_TICKS
      BY <3>1 DEF Whole
    <3>3. m.depicted <= now
      <4>1. \A a, b, c \in Nat : a <= b /\ b <= c => a <= c
        OBVIOUS
      <4>. QED BY ONLY <1>6, <1>7, <1>11, <1>15, <4>1
    <3>. QED BY ONLY <1>7, <1>15, <2>2, <2>b, <3>1, <3>2, <3>3
  <2>4. CASE ~again
    <3>1. at = predicted /\ base' = base /\ local' = now
      BY <1>1, <2>4 DEF at
    <3>2. Whole' => now - base.tick <= MAX_REPLAY_TICKS
      BY <3>1 DEF Whole
    <3>3. base.tick <= predicted /\ predicted <= now
      BY <1>5, <1>6, <1>8, <1>11, <1>15, <2>1, SMTT(30)
    <3>4. Whole' => now - predicted <= MAX_REPLAY_TICKS
      BY <1>5, <1>6, <1>15, <2>2, <3>2, <3>3, SMTT(30)
    <3>. QED BY ONLY <1>5, <1>15, <2>2, <2>b, <3>1, <3>3, <3>4
  <2>. QED BY <2>3, <2>4
<1>26. ring \in Seq(Frame) /\ Ordered(ring)
  BY <1>a, <1>18, <1>19, Stretch, StretchOrdered
<1>27. after \in World /\ after.pose \in Nat /\ after.count \in Nat /\ after.axis \in Nat
  <2>1. after \in World
    BY <1>15, <1>24, <1>25, <1>26, StepsType DEF after
  <2>. QED BY <2>1 DEF World
<1>28. /\ mirror' = [pose |-> after.pose, count |-> after.count, depicted |-> m.depicted,
                     acked |-> m.acked, posed |-> m.posed]
       /\ mirror' \in Mirror /\ mirror'.acked = m.acked /\ mirror'.depicted = m.depicted
       /\ mirror'.posed = m.posed /\ mirror'.pose = after.pose /\ mirror'.count = after.count
  <2>1. mirror' = [pose |-> after.pose, count |-> after.count, depicted |-> m.depicted,
                   acked |-> m.acked, posed |-> m.posed]
    BY <1>1, <1>3, <1>27, Overwritten, ZenonT(30)
  <2>. QED BY <1>7, <1>27, <2>1 DEF Mirror
<1>29. PredictionTypes'
  <2>1. drawn' \in Int
    <3>1. measureCorrections(again, after.pose) \subseteq {0, drawn, mirror.pose + drawn - after.pose}
      BY DEF measureCorrections
    <3>2. mirror.pose + drawn - after.pose \in Int
      <4>1. \A a, c \in Nat, b \in Int : a + b - c \in Int
        OBVIOUS
      <4>. QED BY ONLY <1>5, <1>6, <1>27, <4>1
    <3>. QED BY <1>1, <1>5, <3>1, <3>2, SMTT(30)
  <2>2. rising' \in Seq(Frame)
    BY <1>1, <1>5, <1>14, AppendProperties
  <2>3. falling' \in Seq(Envelope)
    <3>1. k \in 0 .. Len(falling) /\ Len(falling) \in k .. Len(falling)
      BY <1>6
    <3>. QED BY <1>1, <1>5, <3>1, Stretch
  <2>4. missed' \in Nat /\ shed' \in 0 .. MaxShed /\ blurred' \in BOOLEAN /\ tardy' \in BOOLEAN
    BY <1>1, <1>5 DEF PredictionTypes
  <2>5. base' \in [tick : Nat, pose : Nat, count : Nat]
    BY <1>1, <1>7 DEF PredictionTypes
  <2>6. auth' = auth /\ due' = due /\ local' \in Nat /\ predicted' \in Nat /\ unacked' \in Seq(Frame)
        /\ horizonAxis' \in Nat /\ fold' \in Nat
    BY <1>1, <1>15, <1>21, <1>26, <1>27
  <2>. QED BY <1>18, <1>28, <2>1, <2>2, <2>3, <2>4, <2>5, <2>6 DEF PredictionTypes
<1>30. Sent'
  <2>1. ASSUME NEW i \in 1 .. Len(s') PROVE s'[i].seq = i /\ s'[i].tick <= now
    <3>1. CASE i \in 1 .. Len(s)
      BY <1>15, <1>16, <3>1 DEF Sent, Grows
    <3>2. CASE i \notin 1 .. Len(s)
      <4>1. moved
        BY <1>1, <3>2
      <4>2. Len(s') = Len(s) + 1 /\ s'[Len(s) + 1] = f
        BY <1>1, <1>5, <1>14, <4>1, AppendProperties
      <4>3. i = Len(s) + 1
        BY <1>6, <3>2, <4>2, SMTT(30)
      <4>. QED BY <1>14, <1>15, <4>2, <4>3
    <3>. QED BY <3>1, <3>2
  <2>. QED BY <1>1, <1>18, <2>1 DEF Sent
<1>31. Placed'
  <2>1. PICK b : b = auth.ack + Len(due)
    OBVIOUS
  <2>2. auth.ack \in 0 .. Len(s) /\ b \in auth.ack .. Len(s) /\ b \in 0 .. Len(s) /\ b \in Nat
        /\ Len(s) \in b .. Len(s)
    <3>1. \A x, d, y \in Nat : x + d <= y =>
            /\ x \in 0 .. y /\ x + d \in x .. y /\ x + d \in 0 .. y /\ x + d \in Nat /\ y \in (x + d) .. y
      OBVIOUS
    <3>. QED BY ONLY <1>6, <1>8, <2>1, <3>1
  <2>3. /\ SubSeq(s', auth.ack + 1, b) = SubSeq(s, auth.ack + 1, b)
        /\ rising' = SubSeq(s', b + 1, Len(s'))
    <3>1. rising = SubSeq(s, b + 1, Len(s))
      BY <2>1 DEF Placed
    <3>2. CASE moved
      <4>1. SubSeq(Append(s, f), auth.ack + 1, b) = SubSeq(s, auth.ack + 1, b)
        BY <1>5, <1>14, <2>2, AppendPlaced
      <4>2. Append(SubSeq(s, b + 1, Len(s)), f) = SubSeq(Append(s, f), b + 1, Len(Append(s, f)))
        BY <1>5, <1>14, <2>2, AppendPlaced
      <4>. QED BY <1>1, <3>1, <3>2, <4>1, <4>2
    <3>3. CASE ~moved
      BY <1>1, <3>1, <3>3
    <3>. QED BY <3>2, <3>3
  <2>4. b <= Len(s') /\ m.acked <= Len(s')
    BY <1>a, <1>6, <1>18, <2>2
  <2>5. due = SubSeq(s, auth.ack + 1, b)
    BY <2>1 DEF Placed
  <2>. QED BY <1>1, <1>19, <1>28, <2>1, <2>3, <2>4, <2>5 DEF Placed
<1>32. Held'
  <2>1. horizonAxis' = Value(sentFrames', mirror'.acked)
    BY <1>1, <1>21, <1>28
  <2>2. local' \in Nat /\ local' >= local
    BY <1>1, <1>5, <1>15
  <2>. QED BY <1>1, <1>16, <1>17, <2>1, <2>2, HeldGrown
<1>m. missed' = missed \/ (missed' = 0 /\ \E i \in 1 .. k : Resolves(falling[i], missed))
  <2>1. SUFFICES ASSUME NEW e \in saw, e.pose # Same, e.tick > missed
                 PROVE  \E i \in 1 .. k : Resolves(falling[i], missed)
    BY <1>1
  <2>2. k \in 0 .. Len(falling) /\ 0 \in 0 .. Len(falling) /\ k \in 0 .. Len(falling) /\ k \in Nat
    BY <1>6
  <2>3. batch \in Seq(Envelope) /\ Len(batch) = k /\ \A i \in 1 .. k : batch[i] = falling[i]
    <3>1. /\ SubSeq(falling, 0 + 1, k) \in Seq(Envelope) /\ Len(SubSeq(falling, 0 + 1, k)) = k - 0
          /\ \A i \in 1 .. (k - 0) : SubSeq(falling, 0 + 1, k)[i] = falling[0 + i]
      BY <1>5, <2>2, Stretch
    <3>2. 0 + 1 = 1 /\ k - 0 = k /\ \A i \in 1 .. k : 0 + i = i
      BY <2>2
    <3>3. batch = SubSeq(falling, 1, k)
      BY DEF batch
    <3>. QED BY <3>1, <3>2, <3>3
  <2>4. PICK i \in 1 .. Len(batch) : e = batch[i]
    BY <2>1, <2>3 DEF saw, ToSet
  <2>5. e.kind = "transform"
    BY <2>1 DEF saw
  <2>. QED BY <2>1, <2>3, <2>4, <2>5 DEF Resolves
<1>33. Ahead'
  <2>1. InOrder
    BY DEF Ahead
  <2>2. Rewound' = w[k]
    <3>1. Rewound' = [pose |-> base'.pose, count |-> base'.count, depicted |-> m.depicted,
                      acked |-> m.acked, posed |-> m.posed]
      <4>1. base'.pose \in Nat /\ base'.count \in Nat
        BY <1>29 DEF PredictionTypes
      <4>2. Rewound' = [mirror' EXCEPT !.pose = base'.pose, !.count = base'.count]
        BY DEF Rewound
      <4>. QED BY <1>28, <4>1, <4>2, Overwritten
    <3>2. CASE again
      <4>1. base'.pose = m.pose /\ base'.count = m.count
        BY <1>1, <3>2
      <4>2. m = [pose |-> m.pose, count |-> m.count, depicted |-> m.depicted, acked |-> m.acked,
                 posed |-> m.posed]
        BY <1>3 DEF Mirror
      <4>. QED BY <1>4, <3>1, <3>2, <4>1, <4>2
    <3>3. CASE ~again
      BY <1>1, <1>4, <1>10, <3>1, <3>3
    <3>. QED BY <3>2, <3>3
  <2>. QED BY <1>1, <1>2, <1>m, <1>16, <1>17, <2>1, <2>2, AheadShift
<1>34. /\ base'.tick = m.depicted
       /\ (again => base'.pose = m.pose /\ base'.count = m.count)
       /\ (~again => base' = base /\ missed' = missed /\ (blurred' <=> blurred) /\ (Whole' => Whole))
  <2>1. CASE again
    BY <1>1, <2>1
  <2>2. CASE ~again
    <3>1. base' = base /\ m = mirror /\ base.tick = mirror.depicted /\ local' = now
      BY <1>1, <1>4, <2>2 DEF Predicted
    <3>2. missed' = missed
      <4>1. k = 0
        BY <1>4, <2>2
      <4>2. ~ \E i \in 1 .. 0 : TRUE
        OBVIOUS
      <4>3. batch = <<>>
        BY <2>2 DEF again
      <4>4. saw = {}
        BY <4>2, <4>3 DEF saw, ToSet
      <4>. QED BY <1>1, <4>4
    <3>3. \A a, b, c, d \in Nat : a <= b /\ b - c <= d => a - c <= d
      OBVIOUS
    <3>4. Whole' => Whole
      <4>1. MAX_REPLAY_TICKS \in Nat
        BY PredictionAssumption
      <4>2. Whole' => now - base.tick <= MAX_REPLAY_TICKS
        BY <3>1 DEF Whole
      <4>3. now - base.tick <= MAX_REPLAY_TICKS => local - base.tick <= MAX_REPLAY_TICKS
        BY ONLY <1>5, <1>6, <1>15, <3>3, <4>1
      <4>. QED BY <4>2, <4>3 DEF Whole
    <3>5. blurred' <=> blurred
      BY <1>1, <2>2, Zenon DEF PredictionTypes
    <3>. QED BY <2>2, <3>1, <3>2, <3>4, <3>5
  <2>. QED BY <2>1, <2>2
\* The frames all in time, and the baseline told: the replay starts right.
<1>35. ASSUME ~tardy, Told', Whole' PROVE after = Reached(s', now)
  <2>1. at = replayFrom(at, now)
    BY <1>25, <1>35
  <2>2. start = Reached(s', at) /\ m.acked <= leading(s', at)
    <3>1. m.posed = m.depicted /\ missed' = 0 /\ ~blurred'
      BY <1>28, <1>35 DEF Told
    <3>2. CASE again
      <4>1. at = m.depicted /\ m = w[k]
        BY <1>4, <3>2 DEF at
      <4>2. Resolved(k)
        BY <1>m, <3>1 DEF Resolved
      <4>3. w[k].pose = PoseAt(s, w[k].posed)
        BY <1>2, <1>35, <4>2 DEF Informed
      <4>4. m.depicted < from
        <5>1. \A a, b, c \in Nat : a <= b /\ b < c => a < c
          OBVIOUS
        <5>. QED BY ONLY <1>6, <1>7, <1>11, <1>16, <1>17, <5>1
      <4>5. PoseAt(s', m.depicted) = PoseAt(s, m.depicted)
        BY <1>7, <1>16, <4>4 DEF Grows
      <4>6. leading(s', m.depicted) = m.acked /\ j = m.acked
        BY <1>23, <1>35
      <4>7. AxisAt(s', m.depicted) = Value(s', j)
        BY <1>a, <1>18, <4>6, AxisIs
      <4>8. m.count = m.acked
        BY <1>9, <4>1 DEF Knows
      <4>9. start = [pose |-> m.pose, count |-> m.count, axis |-> Value(s', j)]
        BY <1>21, <3>2 DEF start
      <4>. QED BY <1>7, <3>1, <4>1, <4>3, <4>5, <4>6, <4>7, <4>8, <4>9 DEF Reached
    <3>3. CASE ~again
      <4>1. at = predicted /\ m = mirror /\ start = [pose |-> m.pose, count |-> m.count, axis |-> fold]
        BY <1>4, <3>3 DEF at, start
      <4>2. Told /\ Whole
        BY <1>34, <1>35, <3>1, <3>3, <4>1 DEF Told
      <4>3. /\ mirror.pose = PoseAt(s, predicted) /\ mirror.count = leading(s, predicted)
            /\ fold = AxisAt(s, predicted)
        BY <1>35, <4>2 DEF Predicted
      <4>4. predicted < from /\ \A i \in 1 .. Len(s) : s[i].tick <= predicted
        <5>1. CASE predicted = local
          BY <1>16, <5>1 DEF Sent
        <5>2. CASE predicted = 0 /\ s = <<>>
          <6>1. 0 < from
            BY <1>5, <1>16
          <6>. QED BY <5>2, <6>1
        <5>. QED BY <5>1, <5>2 DEF Predicted
      <4>5. /\ leading(s', predicted) = leading(s, predicted)
            /\ AxisAt(s', predicted) = AxisAt(s, predicted) /\ PoseAt(s', predicted) = PoseAt(s, predicted)
        BY <1>5, <1>16, <4>4 DEF Grows
      <4>6. leading(s, predicted) = Len(s)
        <5>1. Len(s) \in 0 .. Len(s) /\ \A i \in (Len(s) + 1) .. Len(s) : s[i].tick > predicted
          BY <1>6
        <5>2. predicted \in Int
          BY <1>5
        <5>. QED BY <1>5, <4>4, <5>1, <5>2, LeadingIs
      <4>7. m.acked <= Len(s)
        BY <1>6, <1>7, <1>11
      <4>. QED BY <4>1, <4>3, <4>5, <4>6, <4>7 DEF Reached
    <3>. QED BY <3>2, <3>3
  <2>3. stepThrough(Reached(s', at), SubSeq(s', m.acked + 1, Len(s')), at, now) = Reached(s', now)
    BY <1>a, <1>15, <1>18, <1>25, <2>2, StepsAgree
  <2>. QED BY <1>19, <2>1, <2>2, <2>3 DEF after
\* Nothing unacked: the replay goes straight on from the baseline.
<1>36. ASSUME ring = <<>>, Whole'
       PROVE  /\ after.pose = base'.pose + held * (now - base'.tick)
              /\ after.count = base'.count /\ after.axis = held
  <2>1. at = replayFrom(at, now)
    BY <1>25, <1>36
  <2>2. after = stepThrough(start, <<>>, at, now)
    BY <1>36, <2>1 DEF after
  <2>3. after = [pose |-> start.pose + start.axis * (now - at), count |-> start.count, axis |-> start.axis]
    BY <1>15, <1>24, <1>25, <2>2, StepsStraight
  <2>4. Len(s') = m.acked
    <3>1. Len(ring) = Len(s') - m.acked
      BY <1>a, <1>18, <1>19, Stretch, SMTT(30)
    <3>2. Len(ring) = 0
      BY <1>36
    <3>. QED BY <1>7, <1>18, <3>1, <3>2, SMTT(30)
  <2>5. CASE again
    <3>1. j = m.acked
      BY <1>7, <1>20, <2>4
    <3>2. start.axis = held /\ at = m.depicted
      BY <1>21, <1>24, <2>5, <3>1 DEF at
    <3>. QED BY <1>24, <1>34, <2>3, <2>5, <3>2
  <2>6. CASE ~again
    <3>1. m = mirror /\ at = predicted /\ start.axis = fold
      BY <1>4, <1>24, <2>6 DEF at
    <3>2. unacked = <<>>
      <4>1. Len(s) = m.acked
        BY <1>6, <1>7, <1>11, <1>18, <2>4
      <4>2. unacked = SubSeq(s, m.acked + 1, Len(s))
        BY <3>1 DEF Placed
      <4>3. m.acked \in 0 .. Len(s) /\ Len(s) \in m.acked .. Len(s)
        BY <1>6, <1>7, <1>11
      <4>4. Len(unacked) = Len(s) - m.acked
        BY <1>5, <4>2, <4>3, Stretch, ZenonT(30)
      <4>5. Len(unacked) = 0
        BY <1>6, <4>1, <4>4
      <4>. QED BY <1>5, <4>5, EmptySeq
    <3>3. /\ mirror.pose = base.pose + horizonAxis * (predicted - base.tick)
          /\ mirror.count = base.count /\ fold = horizonAxis
      BY <1>34, <1>36, <2>6, <3>2 DEF Predicted
    <3>4. horizonAxis = held
      BY <1>12, <3>1 DEF Held
    <3>5. /\ held * (predicted - base.tick) + held * (now - predicted) = held * (now - base.tick)
          /\ held * (predicted - base.tick) \in Int /\ held * (now - predicted) \in Int
          /\ held * (now - base.tick) \in Int
      <4>1. base.tick \in Int /\ predicted \in Int /\ now \in Int
        BY <1>5, <1>6, <1>15
      <4>2. held \in Nat
        BY <1>21
      <4>3. /\ held * (predicted - base.tick) + held * (now - predicted) = held * (now - base.tick)
            /\ held * (predicted - base.tick) \in Int
        BY ONLY <4>1, <4>2, Spans
      <4>4. held * (now - predicted) \in Int
        BY ONLY <4>1, <4>2, Spans
      <4>5. held * (now - base.tick) \in Int
        BY ONLY <4>1, <4>2, Spans
      <4>. QED BY ONLY <4>3, <4>4, <4>5
    <3>6. after.pose = base.pose + held * (predicted - base.tick) + held * (now - predicted)
      BY <1>24, <2>3, <3>1, <3>3, <3>4
    <3>7. \A a \in Nat, b, c, d \in Int : b + c = d => a + b + c = a + d
      OBVIOUS
    <3>8. after.pose = base.pose + held * (now - base.tick)
      BY ONLY <1>6, <3>5, <3>6, <3>7, SMTT(30)
    <3>. QED BY <1>24, <1>34, <2>3, <2>6, <3>1, <3>3, <3>4, <3>8
  <2>. QED BY <2>5, <2>6
<1>37. Predicted'
  <2>1. base'.tick = mirror'.depicted /\ predicted' = local'
    BY <1>1, <1>28, <1>34
  <2>2. ~tardy' /\ Told' /\ Whole' =>
           /\ mirror'.pose = PoseAt(s', predicted') /\ mirror'.count = leading(s', predicted')
           /\ fold' = AxisAt(s', predicted')
    BY <1>1, <1>28, <1>35 DEF Reached
  <2>3. unacked' = <<>> /\ Whole' =>
           /\ mirror'.pose = base'.pose + horizonAxis' * (predicted' - base'.tick)
           /\ mirror'.count = base'.count /\ fold' = horizonAxis'
    BY <1>1, <1>28, <1>36
  <2>. QED BY <2>1, <2>2, <2>3 DEF Predicted
<1>. QED BY <1>29, <1>30, <1>31, <1>32, <1>33, <1>37

LEMMA NextKeeps ==
  ASSUME PredictionInv, [PredictionNext]_predictionVars
  PROVE  PredictionInv'
<1>1. CASE stepAuthority
  BY <1>1, AuthorityKeeps
<1>2. CASE arriveInput
  BY <1>2, ArriveKeeps
<1>3. CASE shedTransform
  BY <1>3, ShedKeeps
<1>4. CASE focusLoss
  BY <1>4, FocusLossKeeps
<1>5. ASSUME NEW k \in 0 .. Len(falling), NEW n \in 0 .. 2, NEW v \in Speeds, clientFrame(k, n, v)
      PROVE  PredictionInv'
  BY <1>5, ClientKeeps
<1>6. CASE UNCHANGED predictionVars
  <2>1. /\ auth' = auth /\ due' = due /\ rising' = rising /\ falling' = falling /\ local' = local
        /\ unacked' = unacked /\ horizonAxis' = horizonAxis /\ mirror' = mirror /\ base' = base
        /\ fold' = fold /\ predicted' = predicted /\ drawn' = drawn /\ sentFrames' = sentFrames
        /\ tardy' = tardy /\ shed' = shed /\ missed' = missed /\ blurred' = blurred
    BY <1>6 DEF predictionVars
  <2>2. PredictionTypes' /\ Sent' /\ Placed' /\ Held'
    BY <2>1 DEF PredictionInv, PredictionTypes, Sent, Placed, Held
  <2>3. Ahead'
    <3>1. PICK w : Course(w) /\ Informed(w)
      BY DEF PredictionInv, Ahead
    <3>2. InOrder'
      BY <2>1 DEF PredictionInv, Ahead, InOrder
    <3>3. Course(w)'
      BY <2>1, <3>1 DEF Course, Rewound
    <3>4. Informed(w)'
      BY <2>1, <3>1 DEF Informed, Knows, Resolved
    <3>. QED BY <3>2, <3>3, <3>4 DEF Ahead
  <2>4. Predicted'
    BY <2>1 DEF PredictionInv, Predicted, Told, Whole
  <2>. QED BY <2>2, <2>3, <2>4 DEF PredictionInv
<1>. QED BY <1>1, <1>2, <1>3, <1>4, <1>5, <1>6 DEF PredictionNext

-----------------------------------------------------------------------------
(* The theorems. *)

\* Frames stay numbered, each in one place on its way and on one side of the ack, and the baseline is
\* on the course the server set for it: what the client's drain, ack and replay keep, whatever was
\* shed, late or cut.
THEOREM PredictionInvariant == PredictionSpec => []PredictionInv
<1>1. PredictionInit => PredictionInv
  BY InitPrediction
<1>2. PredictionInv /\ [PredictionNext]_predictionVars => PredictionInv'
  BY NextKeeps
<1>. QED BY <1>1, <1>2, PTL DEF PredictionSpec

\* Server, wire, ring, world and baseline keep their types: no pose, count or tick is ever Same or
\* negative, whatever deltas left out.
THEOREM PredictionTypeCorrect == PredictionSpec => []PredictionTypes
<1>1. PredictionInv => PredictionTypes
  BY DEF PredictionInv
<1>. QED BY <1>1, PredictionInvariant, PTL

\* A frame the server has not simulated.
Unsimulated(i) == sentFrames[i].seq > auth.ack

\* InputRing.ack: such a frame is still in the ring to be replayed, however acks were sent, delayed or
\* drained together.
RingHoldsUnsimulated ==
  \A i \in 1 .. Len(sentFrames) :
    Unsimulated(i) => \E j \in 1 .. Len(unacked) : unacked[j] = sentFrames[i]

\* The ring is pruned by the ack alone, and the ack is never ahead of the server.
THEOREM NothingPrunedEarly == PredictionSpec => []RingHoldsUnsimulated
<1>1. ASSUME PredictionInv PROVE RingHoldsUnsimulated
  <2>. DEFINE s == sentFrames
  <2>1. PredictionTypes /\ Sent /\ Placed /\ Ahead
    BY <1>1 DEF PredictionInv
  <2>2. /\ auth.ack \in Nat /\ Len(s) \in Nat /\ mirror.acked \in Nat /\ base.pose \in Nat
        /\ base.count \in Nat /\ Len(falling) \in Nat /\ s \in Seq(Frame) /\ mirror \in Mirror
    BY <2>1, Typed DEF PredictionTypes
  <2>3. mirror.acked <= auth.ack
    <3>1. PICK w : Course(w) /\ Informed(w)
      BY <2>1 DEF Ahead
    <3>2. w[0] = [pose |-> base.pose, count |-> base.count, depicted |-> mirror.depicted,
                  acked |-> mirror.acked, posed |-> mirror.posed]
      BY <2>2, <3>1, Overwritten DEF Course, Rewound
    <3>3. 0 \in 0 .. Len(falling)
      BY <2>2
    <3>4. Knows(w[0])
      BY <3>1, <3>3 DEF Informed
    <3>. QED BY <3>2, <3>4 DEF Knows
  <2>4. SUFFICES ASSUME NEW i \in 1 .. Len(s), Unsimulated(i)
                 PROVE  \E j \in 1 .. Len(unacked) : unacked[j] = s[i]
    BY DEF RingHoldsUnsimulated
  <2>5. s[i].seq = i
    BY <2>1 DEF Sent
  <2>6. /\ mirror.acked \in 0 .. Len(s) /\ Len(s) \in mirror.acked .. Len(s)
        /\ i - mirror.acked \in 1 .. (Len(s) - mirror.acked) /\ mirror.acked + (i - mirror.acked) = i
    BY <2>2, <2>3, <2>4, <2>5 DEF Unsimulated
  <2>7. /\ Len(unacked) = Len(s) - mirror.acked
        /\ \A j \in 1 .. (Len(s) - mirror.acked) : unacked[j] = s[mirror.acked + j]
    <3>1. unacked = SubSeq(s, mirror.acked + 1, Len(s))
      BY <2>1 DEF Placed
    <3>. QED BY <2>2, <2>6, <3>1, Stretch, ZenonT(30)
  <2>8. unacked[i - mirror.acked] = s[i] /\ i - mirror.acked \in 1 .. Len(unacked)
    BY <2>6, <2>7
  <2>. QED BY <2>8
<1>. QED BY <1>1, PredictionInvariant, PTL

\* Prediction.rewind and advance: with every frame in time, a baseline told and a replay that
\* was not cut, the pose and the state shown at the local tick are those the server reaches on it,
\* for any send rate, replay ring and input.
THEOREM ShowsTheFuture == PredictionSpec => []PredictionAgrees
<1>1. ASSUME PredictionInv PROVE PredictionAgrees
  <2>1. SUFFICES ASSUME ~tardy, Told, Whole
                 PROVE  /\ mirror.pose = PoseAt(sentFrames, local)
                        /\ mirror.count = leading(sentFrames, local)
    BY DEF PredictionAgrees
  <2>2. /\ mirror.pose = PoseAt(sentFrames, predicted)
        /\ mirror.count = leading(sentFrames, predicted)
    BY <1>1, <2>1 DEF PredictionInv, Predicted
  <2>3. CASE predicted = local
    BY <2>2, <2>3
  <2>4. CASE predicted = 0 /\ local = 1 /\ sentFrames = <<>>
    <3>1. sentFrames \in Seq(Frame) /\ Ordered(sentFrames) /\ Len(sentFrames) = 0
      BY <1>1, <2>4 DEF PredictionInv, PredictionTypes, Sent
    <3>2. ASSUME NEW t \in Int PROVE leading(sentFrames, t) = 0 /\ AxisAt(sentFrames, t) = 0
      <4>1. leading(sentFrames, t) \in 0 .. Len(sentFrames)
        BY <3>1, Leading
      <4>2. leading(sentFrames, t) = 0
        BY <3>1, <4>1
      <4>3. AxisAt(sentFrames, t) = Value(sentFrames, leading(sentFrames, t))
        BY <3>1, AxisIs
      <4>. QED BY <4>2, <4>3 DEF Value
    <3>3. ASSUME NEW t \in Nat
          PROVE  /\ PoseAt(sentFrames, t + 1) = PoseAt(sentFrames, t) + AxisAt(sentFrames, t + 1)
                 /\ PoseAt(sentFrames, 0) = 0
      BY <3>1, PoseSteps
    <3>4. 0 + 1 = 1 /\ 0 \in Nat /\ 0 \in Int /\ 1 \in Int /\ 0 + 0 = 0
      OBVIOUS
    <3>5. PoseAt(sentFrames, 0 + 1) = PoseAt(sentFrames, 0) + AxisAt(sentFrames, 0 + 1)
          /\ PoseAt(sentFrames, 0) = 0
      BY ONLY <3>3, <3>4, Zenon
    <3>6. AxisAt(sentFrames, 1) = 0 /\ leading(sentFrames, 0) = 0 /\ leading(sentFrames, 1) = 0
      BY ONLY <3>2, <3>4, Zenon
    <3>7. PoseAt(sentFrames, 1) = 0
      BY ONLY <3>4, <3>5, <3>6
    <3>. QED BY <2>2, <2>4, <3>5, <3>6, <3>7
  <2>. QED BY <1>1, <2>3, <2>4 DEF PredictionInv, Predicted
<1>. QED BY <1>1, PredictionInvariant, PTL

\* The same after frames that came too late: once nothing is on its way and everything is acked, the
\* replay over the baseline is the server's pose carried on at the axis the ring holds at its horizon.
THEOREM LateFramesMend == PredictionSpec => []LateIsMended
<1>1. ASSUME PredictionInv PROVE LateIsMended
  <2>1. SUFFICES ASSUME rising = <<>>, due = <<>>, falling = <<>>, unacked = <<>>, Told, Whole,
                        mirror.depicted = auth.tick
                 PROVE  /\ mirror.pose = auth.pose + auth.axis * (local - auth.tick)
                        /\ mirror.count = auth.count
    BY DEF LateIsMended
  <2>. DEFINE s == sentFrames
  <2>2. PredictionTypes /\ Sent /\ Placed /\ Held /\ Ahead /\ Predicted
    BY <1>1 DEF PredictionInv
  <2>3. /\ auth.tick \in Nat /\ auth.pose \in Nat /\ auth.count \in Nat /\ auth.ack \in Nat
        /\ Len(s) \in Nat /\ mirror.acked \in Nat /\ base.pose \in Nat /\ base.count \in Nat
        /\ base.tick \in Nat /\ s \in Seq(Frame) /\ mirror \in Mirror /\ local \in Nat
    BY <2>2, Typed DEF PredictionTypes
  <2>4. auth.ack = Len(s) /\ mirror.acked = Len(s)
    <3>1. Len(due) = 0 /\ auth.ack + Len(due) = auth.ack /\ auth.ack <= Len(s) /\ mirror.acked <= Len(s)
      BY <2>1, <2>2, <2>3 DEF Placed
    <3>2. rising = SubSeq(s, auth.ack + 1, Len(s)) /\ unacked = SubSeq(s, mirror.acked + 1, Len(s))
      BY <2>2, <3>1 DEF Placed
    <3>3. /\ auth.ack \in 0 .. Len(s) /\ Len(s) \in auth.ack .. Len(s)
          /\ mirror.acked \in 0 .. Len(s) /\ Len(s) \in mirror.acked .. Len(s)
      BY <2>3, <3>1
    <3>4. Len(rising) = Len(s) - auth.ack
      BY <2>3, <3>2, <3>3, Stretch, SMTT(30)
    <3>5. Len(unacked) = Len(s) - mirror.acked
      BY <2>3, <3>2, <3>3, Stretch, SMTT(30)
    <3>6. Len(rising) = 0 /\ Len(unacked) = 0
      BY <2>1
    <3>7. \A a, b \in Nat : 0 = b - a => a = b
      OBVIOUS
    <3>. QED BY ONLY <2>3, <3>4, <3>5, <3>6, <3>7
  <2>5. horizonAxis = auth.axis /\ auth.axis \in Nat /\ auth.count = auth.ack
    BY <2>2, <2>4, Typed DEF Held
  <2>6. PICK w : Course(w) /\ Informed(w)
    BY <2>2 DEF Ahead
  <2>7. w[0] = [pose |-> base.pose, count |-> base.count, depicted |-> mirror.depicted,
                acked |-> mirror.acked, posed |-> mirror.posed]
    BY <2>3, <2>6, Overwritten, ZenonT(30) DEF Course, Rewound
  <2>8. Len(falling) = 0
    BY <2>1
  <2>9. Knows(w[0]) /\ w[0].count = auth.told.count /\ w[0].pose = auth.told.pose
    <3>1. Resolved(0)
      BY <2>1 DEF Told, Resolved
    <3>. QED BY <2>6, <2>8, <3>1 DEF Informed
  <2>10. base.pose = auth.pose /\ base.count = auth.count /\ base.tick = auth.tick
    <3>1. auth.tick % SendEvery = 0
      BY <2>1, <2>7, <2>9 DEF Knows
    <3>. QED BY <2>1, <2>2, <2>7, <2>9, <3>1 DEF Held, Predicted
  <2>11. /\ mirror.pose = auth.pose + auth.axis * (predicted - auth.tick)
         /\ mirror.count = auth.count
    BY <2>1, <2>2, <2>5, <2>10 DEF Predicted
  <2>12. CASE predicted = local
    BY <2>11, <2>12
  <2>13. CASE predicted = 0 /\ local = 1 /\ s = <<>> /\ base.tick = 0
    <3>1. auth.axis = 0
      <4>1. Len(s) = 0
        BY <2>13
      <4>. QED BY <2>2, <2>4, <4>1 DEF Held, Value
    <3>2. \A x \in Int : 0 * x = 0
      OBVIOUS
    <3>3. predicted - auth.tick \in Int /\ local - auth.tick \in Int
      BY <2>3, <2>13
    <3>. QED BY ONLY <2>11, <3>1, <3>2, <3>3
  <2>. QED BY <2>2, <2>12, <2>13 DEF Predicted
<1>. QED BY <1>1, PredictionInvariant, PTL

=============================================================================
