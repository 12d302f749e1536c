---------------------------- MODULE Inputs_proofs ----------------------------
(***************************************************************************)
(* Proofs about Inputs, for any bindings, any window, any gap and rate     *)
(* limits, any number of frames and of resyncs, and every fault.           *)
(*                                                                         *)
(* Two accounts are kept. The first is of numbers: each one sent is on the *)
(* wire, filed, applied or dropped, and what the frontier passed is        *)
(* settled. The second is of ticks: within one life of the client's clock  *)
(* what is filed comes before what is on the wire and that before the      *)
(* clock, so a frame is filed behind every earlier one of its life.        *)
(***************************************************************************)
EXTENDS Inputs, FiniteSetTheorems, SequenceTheorems, TLAPS

Fedge == INSTANCE FoldLemma WITH op <- applyEdge
Fframe == INSTANCE FoldLemma WITH op <- foldFrame
Fphase == INSTANCE FoldLemma WITH op <- byAction
Frelease == INSTANCE FoldLemma WITH op <- release
Fslot == INSTANCE FoldLemma WITH op <- slotOut

-----------------------------------------------------------------------------
(* What the operators return. *)

\* A list of a finite set is a sequence over it.
LEMMA Listed ==
  ASSUME NEW X, IsFiniteSet(X)
  PROVE  SetToSeq(X) \in Seq(X)
<1>. DEFINE n == Cardinality(X)
            q == SetToSeq(X)
<1>1. n \in Nat /\ ExistsBijection(1 .. n, X)
  BY FS_CardinalityType
<1>2. PICK f \in Bijection(1 .. n, X) : TRUE
  BY <1>1 DEF ExistsBijection
<1>3. f \in [1 .. n -> X] /\ IsInjective(f)
  BY <1>2 DEF Bijection, Injection
<1>4. q \in [1 .. n -> X]
  BY <1>3 DEF SetToSeq
<1>. QED BY <1>1, <1>4

\* ActionStates.applyEdge keeps two sets of actions.
LEMMA EdgeHeld ==
  ASSUME NEW st \in Held, NEW e \in Edges
  PROVE  applyEdge(st, e) \in Held
<1>1. e.action \in Actions /\ e.on \in {"press", "release", "hold"}
  BY DEF Edges
<1>2. st.held \in SUBSET Actions /\ st.axis \in SUBSET Actions /\ st = [held |-> st.held, axis |-> st.axis]
  BY DEF Held
<1>3. CASE e.on = "press"
  BY <1>1, <1>2, <1>3 DEF applyEdge, Held
<1>4. CASE e.on = "release"
  BY <1>1, <1>2, <1>4 DEF applyEdge, Held
<1>5. CASE e.on = "hold"
  BY <1>1, <1>2, <1>5 DEF applyEdge, Held
<1>. QED BY <1>1, <1>3, <1>4, <1>5

\* foldInputEdges: a fold of edges holds actions.
LEMMA EdgesHeld ==
  ASSUME NEW st \in Held, NEW es \in Seq(Edges)
  PROVE  foldInputEdges(st, es) \in Held
<1>1. \A t \in Held, e \in Edges : applyEdge(t, e) \in Held
  BY EdgeHeld
<1>2. Fedge!Folded(st, es) \in Held
  BY ONLY <1>1, st \in Held, es \in Seq(Edges), Fedge!FoldStays
<1>3. FoldLeft(applyEdge, st, es) = Fedge!Folded(st, es)
  BY DEF Fedge!Folded, FoldLeft, MapThenFoldSet, Fedge!FoldLeft, Fedge!MapThenFoldSet, Max, Fedge!Max
<1>. QED BY <1>2, <1>3 DEF foldInputEdges

\* So does a fold of frames, of the ring or of the tick buffer.
LEMMA FramesHeld ==
  ASSUME NEW st \in Held, NEW E, \A f \in E : f.edges \in Seq(Edges), NEW fs \in Seq(E)
  PROVE  foldFrames(st, fs) \in Held
<1>1. \A t \in Held, f \in E : foldFrame(t, f) \in Held
  BY EdgesHeld DEF foldFrame
<1>2. Fframe!Folded(st, fs) \in Held
  BY ONLY <1>1, st \in Held, fs \in Seq(E), Fframe!FoldStays
<1>3. FoldLeft(foldFrame, st, fs) = Fframe!Folded(st, fs)
  BY DEF Fframe!Folded, FoldLeft, MapThenFoldSet, Fframe!FoldLeft, Fframe!MapThenFoldSet, Max, Fframe!Max
<1>. QED BY <1>2, <1>3 DEF foldFrames

\* GameClient.#flushInput: what is coalesced is made of the edges that were pending.
LEMMA CoalescedEdges ==
  ASSUME NEW es \in Seq(Edges)
  PROVE  coalesce(es) \in Seq(Edges)
<1>1. ASSUME NEW t \in Seq(Edges), NEW e \in Edges PROVE byAction(t, e) \in Seq(Edges)
  <2>1. Append(t, e) \in Seq(Edges)
    OBVIOUS
  <2>2. [i \in 1 .. Len(t) |-> IF t[i].action = e.action /\ t[i].on = e.on THEN e ELSE t[i]] \in Seq(Edges)
    OBVIOUS
  <2>. QED BY <2>1, <2>2 DEF byAction
<1>2. << >> \in Seq(Edges)
  OBVIOUS
<1>3. Fphase!Folded(<< >>, es) \in Seq(Edges)
  BY ONLY <1>1, <1>2, es \in Seq(Edges), Fphase!FoldStays
<1>4. FoldLeft(byAction, << >>, es) = Fphase!Folded(<< >>, es)
  BY DEF Fphase!Folded, FoldLeft, MapThenFoldSet, Fphase!FoldLeft, Fphase!MapThenFoldSet, Max, Fphase!Max
<1>. QED BY <1>3, <1>4 DEF coalesce

\* BindingTable.#button: a key makes edges.
LEMMA KeyEdges ==
  ASSUME NEW a \in Actions, NEW on \in BOOLEAN
  PROVE  buttonEdges(a, on) \in Seq(Edges)
<1>1. \A v \in {0, 1} : axisEdge(a, v) \in Edges
  BY DEF axisEdge, Edges
<1>2. edgeOf(a, "press") \in Edges /\ edgeOf(a, "release") \in Edges
  BY DEF edgeOf, Edges
<1>3. axisEdges(a, on) \in Seq(Edges)
  BY <1>1 DEF axisEdges
<1>. QED BY <1>2, <1>3 DEF buttonEdges

\* The releases of every code held (BindingTable.resolve on focusLost).
LEMMA ReleaseEdges ==
  ASSUME NEW codes \in Seq(Actions)
  PROVE  FoldLeft(release, << >>, codes) \in Seq(Edges)
<1>1. ASSUME NEW t \in Seq(Edges), NEW a \in Actions PROVE release(t, a) \in Seq(Edges)
  <2>1. buttonEdges(a, FALSE) \in Seq(Edges)
    BY KeyEdges
  <2>2. \A u \in Seq(Edges) : t \o u \in Seq(Edges)
    OBVIOUS
  <2>. QED BY <2>1, <2>2 DEF release
<1>2. << >> \in Seq(Edges)
  OBVIOUS
<1>3. Frelease!Folded(<< >>, codes) \in Seq(Edges)
  BY ONLY <1>1, <1>2, codes \in Seq(Actions), Frelease!FoldStays
<1>4. FoldLeft(release, << >>, codes) = Frelease!Folded(<< >>, codes)
  BY DEF Frelease!Folded, FoldLeft, MapThenFoldSet, Frelease!FoldLeft, Frelease!MapThenFoldSet, Max,
         Frelease!Max
<1>. QED BY <1>3, <1>4

\* One frame is applied before another: once, and in order within a life.
Before(f, g) == f.seq # g.seq /\ (f.life = g.life => f.seq < g.seq)
Chain(s) == \A i, j \in 1 .. Len(s) : i < j => Before(s[i], s[j])

\* What is filed up to tick u.
Below(u) == UNION {ToSet(buffer[t]) : t \in -PastGrace .. u}

\* The slots one after the other are one chain.
SlotsChained ==
  /\ \A t \in Slots : Chain(buffer[t])
  /\ \A t, u \in Slots : t < u => \A f \in ToSet(buffer[t]), g \in ToSet(buffer[u]) : Before(f, g)

\* Two chains, one before the other, make one.
LEMMA TwoChains ==
  ASSUME NEW E, NEW s \in Seq(E), NEW q \in Seq(E), Chain(s), Chain(q),
         \A f \in ToSet(s), g \in ToSet(q) : Before(f, g)
  PROVE  s \o q \in Seq(E) /\ Chain(s \o q) /\ ToSet(s \o q) = ToSet(s) \cup ToSet(q)
<1>. DEFINE c == s \o q
<1>1. /\ c \in Seq(E) /\ Len(c) = Len(s) + Len(q) /\ Len(s) \in Nat /\ Len(q) \in Nat
      /\ \A i \in 1 .. Len(c) : c[i] = IF i <= Len(s) THEN s[i] ELSE q[i - Len(s)]
  BY ConcatProperties
<1>. HIDE DEF c
<1>2. ASSUME NEW i \in 1 .. Len(c), NEW j \in 1 .. Len(c), i < j PROVE Before(c[i], c[j])
  <2>1. CASE j <= Len(s)
    <3>1. i \in 1 .. Len(s) /\ j \in 1 .. Len(s) /\ i <= Len(s)
      BY <1>1, <1>2, <2>1
    <3>. QED BY <1>1, <1>2, <2>1, <3>1 DEF Chain
  <2>2. CASE i > Len(s)
    <3>. DEFINE x == i - Len(s)
                y == j - Len(s)
    <3>1. x \in 1 .. Len(q) /\ y \in 1 .. Len(q) /\ x < y /\ ~(i <= Len(s)) /\ ~(j <= Len(s))
      BY <1>1, <1>2, <2>2
    <3>2. c[i] = q[x] /\ c[j] = q[y]
      BY <1>1, <3>1
    <3>. HIDE DEF x, y
    <3>. QED BY <3>1, <3>2 DEF Chain
  <2>3. CASE i <= Len(s) /\ j > Len(s)
    <3>. DEFINE y == j - Len(s)
    <3>1. i \in 1 .. Len(s) /\ y \in 1 .. Len(q) /\ ~(j <= Len(s))
      BY <1>1, <1>2, <2>3
    <3>2. c[i] = s[i] /\ c[j] = q[y]
      BY <1>1, <2>3, <3>1
    <3>. HIDE DEF y
    <3>. QED BY <3>1, <3>2 DEF ToSet
  <2>. QED BY <1>1, <2>1, <2>2, <2>3
<1>3. ASSUME NEW x PROVE x \in ToSet(c) <=> x \in ToSet(s) \cup ToSet(q)
  <2>1. ASSUME NEW i \in DOMAIN c, x = c[i] PROVE x \in ToSet(s) \cup ToSet(q)
    <3>1. i \in 1 .. Len(c)
      BY <1>1, <2>1
    <3>2. CASE i <= Len(s)
      BY <1>1, <2>1, <3>1, <3>2 DEF ToSet
    <3>3. CASE ~(i <= Len(s))
      <4>1. i - Len(s) \in 1 .. Len(q)
        BY <1>1, <3>1, <3>3
      <4>. QED BY <1>1, <2>1, <3>1, <3>3, <4>1 DEF ToSet
    <3>. QED BY <3>2, <3>3
  <2>2. ASSUME NEW i \in DOMAIN s, x = s[i] PROVE x \in ToSet(c)
    <3>1. i \in 1 .. Len(c) /\ i <= Len(s) /\ DOMAIN c = 1 .. Len(c)
      BY <1>1, <2>2
    <3>. QED BY <1>1, <2>2, <3>1 DEF ToSet
  <2>3. ASSUME NEW j \in DOMAIN q, x = q[j] PROVE x \in ToSet(c)
    <3>. DEFINE i == j + Len(s)
    <3>1. i \in 1 .. Len(c) /\ ~(i <= Len(s)) /\ i - Len(s) = j /\ DOMAIN c = 1 .. Len(c)
      BY <1>1, <2>3
    <3>. HIDE DEF i
    <3>. QED BY <1>1, <2>3, <3>1 DEF ToSet
  <2>. QED BY <2>1, <2>2, <2>3 DEF ToSet
<1>4. Chain(c)
  BY <1>2 DEF Chain
<1>5. ToSet(c) = ToSet(s) \cup ToSet(q)
  BY <1>3
<1>. QED BY <1>1, <1>4, <1>5 DEF c

\* InputBuffer.drainThrough: all that is due, each frame behind the earlier ones of its life.
LEMMA Drained ==
  ASSUME buffer \in [Slots -> Seq(Entry)], SlotsChained
  PROVE  /\ drainThrough \in Seq(Entry) /\ Chain(drainThrough)
         /\ ToSet(drainThrough) = Below(1)
<1>. DEFINE n == PastGrace + 2
            slots == [i \in 1 .. n |-> buffer[i + Oldest]]
            P == [k \in 0 .. n |-> {out \in Seq(Entry) : Chain(out) /\ ToSet(out) = Below(k + Oldest)}]
<1>1. PastGrace \in Nat /\ FutureHorizon \in Nat /\ FutureHorizon >= 1 /\ n \in Nat
  BY InputAssumption
<1>2. \A i \in 1 .. n : i + Oldest \in Slots
  BY <1>1 DEF Oldest, Slots
<1>3. slots \in Seq(Seq(Entry)) /\ Len(slots) = n /\ \A i \in 1 .. n : slots[i] = buffer[i + Oldest]
  BY <1>1, <1>2
<1>4. \A k \in 0 .. n : P[k] = {out \in Seq(Entry) : Chain(out) /\ ToSet(out) = Below(k + Oldest)}
  OBVIOUS
<1>5. 0 \in 0 .. n /\ n \in 0 .. n /\ n + Oldest = 1 /\ 0 + Oldest = -PastGrace - 1
  BY <1>1 DEF Oldest
<1>. HIDE DEF slots, P
<1>6. << >> \in P[0]
  <2>1. << >> \in Seq(Entry) /\ Chain(<< >>) /\ ToSet(<< >>) = {}
    BY DEF Chain, ToSet
  <2>2. -PastGrace .. (-PastGrace - 1) = {}
    BY <1>1
  <2>3. Below(0 + Oldest) = {}
    BY <1>5, <2>2 DEF Below
  <2>. QED BY <1>4, <1>5, <2>1, <2>3
<1>7. ASSUME NEW i \in 1 .. n, NEW out \in P[i - 1] PROVE slotOut(out, slots[i]) \in P[i]
  <2>. DEFINE u == i + Oldest
              w == (i - 1) + Oldest
              slot == buffer[u]
  <2>1. i - 1 \in 0 .. n /\ i \in 0 .. n /\ u \in Slots /\ w \in Int /\ u \in Int
    BY <1>1, <1>2 DEF Oldest
  <2>2. -PastGrace .. u = (-PastGrace .. w) \cup {u} /\ \A t \in -PastGrace .. w : t \in Slots /\ t < u
    BY <1>1 DEF Oldest, Slots
  <2>3. slots[i] = slot /\ slot \in Seq(Entry)
    BY <1>3, <2>1
  <2>. HIDE DEF u, w
  <2>4. out \in Seq(Entry) /\ Chain(out) /\ ToSet(out) = Below(w)
    BY <1>4, <2>1 DEF w
  <2>5. Chain(slot) /\ \A f \in ToSet(out), g \in ToSet(slot) : Before(f, g)
    BY <2>1, <2>2, <2>4 DEF SlotsChained, Below
  <2>6. out \o slot \in Seq(Entry) /\ Chain(out \o slot) /\ ToSet(out \o slot) = ToSet(out) \cup ToSet(slot)
    BY ONLY <2>3, <2>4, <2>5, TwoChains
  <2>7. Below(u) = Below(w) \cup ToSet(slot)
    BY <2>2 DEF Below
  <2>. HIDE DEF slot
  <2>. QED BY <1>4, <2>1, <2>3, <2>4, <2>6, <2>7 DEF slotOut, u
<1>8. Fslot!Folded(<< >>, slots) \in P[Len(slots)]
  <2>1. \A i \in 1 .. Len(slots) : \A out \in P[i - 1] : slotOut(out, slots[i]) \in P[i]
    BY <1>3, <1>7
  <2>. QED BY ONLY <1>3, <1>6, <2>1, Fslot!FoldSteps
<1>9. FoldLeft(slotOut, << >>, slots) = Fslot!Folded(<< >>, slots)
  BY DEF Fslot!Folded, FoldLeft, MapThenFoldSet, Fslot!FoldLeft, Fslot!MapThenFoldSet, Max, Fslot!Max
<1>10. drainThrough = Fslot!Folded(<< >>, slots)
  BY <1>9 DEF drainThrough, slots
<1>. QED BY <1>3, <1>4, <1>5, <1>8, <1>10

\* AdmissionState.takeAck: the frontier stays below what arrived and passes only settled numbers.
LEMMA Acknowledges ==
  ASSUME frontier \in Int, highest \in Int, frontier <= highest, NEW settled, highest + 1 \notin settled
  PROVE  /\ takeAck(settled) \in frontier .. highest
         /\ \A m \in (frontier + 1) .. takeAck(settled) : m \in settled
<1>. DEFINE G == {d \in Nat : frontier + d + 1 \notin settled}
<1>1. highest - frontier \in G
  <2>1. highest - frontier \in Nat /\ frontier + (highest - frontier) + 1 = highest + 1
    OBVIOUS
  <2>. QED BY <2>1
<1>2. PICK d \in G : \A y \in G : d =< y
  <2>1. G \in SUBSET Nat /\ G # {}
    BY <1>1
  <2>. HIDE DEF G
  <2>. QED BY ONLY <2>1, Fslot!LeastOf
<1>. DEFINE n == frontier + d
<1>3. n \in frontier .. highest
  <2>1. d \in Nat /\ d <= highest - frontier
    BY <1>1, <1>2
  <2>. QED BY <2>1
<1>4. n + 1 \notin settled
  BY <1>2
<1>5. ASSUME NEW m \in (frontier + 1) .. n PROVE m \in settled
  <2>. DEFINE y == m - frontier - 1
  <2>1. y \in Nat /\ y < d /\ frontier + y + 1 = m
    BY <1>2, <1>5
  <2>2. y \notin G
    <3>1. d \in Nat /\ \A z \in G : d <= z
      BY <1>2
    <3>. HIDE DEF G, y
    <3>. QED BY <2>1, <3>1
  <2>. QED BY <2>1, <2>2
<1>. HIDE DEF n
<1>6. \E k \in frontier .. highest : (\A m \in (frontier + 1) .. k : m \in settled) /\ k + 1 \notin settled
  BY <1>3, <1>4, <1>5
<1>. QED BY <1>6 DEF takeAck

\* InputRing.ack stops at the first frame above the number, or at the end.
LEMMA Prunes ==
  ASSUME ring \in Seq(Frame), NEW m \in Int
  PROVE  pruned(m) \in 0 .. Len(ring)
<1>. DEFINE G == {k \in Nat : k <= Len(ring) /\ (k < Len(ring) => ring[k + 1].seq > m)}
<1>1. Len(ring) \in G /\ Len(ring) \in Nat
  OBVIOUS
<1>2. PICK k \in G : \A y \in G : k =< y
  <2>1. G \in SUBSET Nat /\ G # {}
    BY <1>1
  <2>. HIDE DEF G
  <2>. QED BY ONLY <2>1, Fslot!LeastOf
<1>3. k \in Nat /\ k <= Len(ring) /\ (k < Len(ring) => ring[k + 1].seq > m)
  BY <1>2
<1>4. ASSUME NEW i \in 1 .. k PROVE ring[i].seq <= m
  <2>. DEFINE y == i - 1
  <2>1. y \in Nat /\ y < k /\ y < Len(ring) /\ y + 1 = i /\ i \in 1 .. Len(ring)
    BY <1>1, <1>3, <1>4
  <2>2. y \notin G
    <3>1. \A z \in G : k <= z
      BY <1>2
    <3>. HIDE DEF G, y
    <3>. QED BY <1>3, <2>1, <3>1
  <2>3. ring[i].seq \in Int
    <3>1. ring[i] \in Frame
      BY <2>1
    <3>2. MaxFrames \in Nat
      BY InputAssumption
    <3>. QED BY <3>1, <3>2 DEF Frame, Seqs
  <2>4. ~(ring[y + 1].seq > m)
    BY <1>1, <2>1, <2>2
  <2>. QED BY <2>1, <2>3, <2>4
<1>5. k \in 0 .. Len(ring)
  BY <1>1, <1>3
<1>. QED BY <1>3, <1>4, <1>5 DEF pruned

-----------------------------------------------------------------------------
(* The client's actions. *)

\* TypeOK in two halves, the client's and the wire's, and the authority's.
ClientTypes ==
  /\ down \subseteq Actions /\ sentAxes \subseteq Axes
  /\ state \in {"joining", "live", "stalled"} /\ acts \in Held /\ horizon \in Held
  /\ pending \in Seq(Edges) /\ ring \in Seq(Frame)
  /\ seq \in 0 .. MaxFrames /\ asked \in 0 .. MaxAsks
  /\ lead \in Int /\ depicted \in Oldest .. 0 /\ ack \in Seqs \cup {-1}
  /\ rejoined \in BOOLEAN /\ life \in 0 .. MaxResyncs
  /\ uplink \in Seq(Uplinked) /\ downlink \in Seq(Downlinked)

ServerTypes ==
  /\ owed \in BOOLEAN /\ closed \in BOOLEAN /\ letGo \in BOOLEAN
  /\ frontier \in Seqs \cup {-1} /\ highest \in Seqs \cup {-1}
  /\ resolved \subseteq Seqs /\ arrived \subseteq Seqs /\ dropped \subseteq Seqs
  /\ DOMAIN gaps \subseteq Seqs /\ gaps \in [DOMAIN gaps -> Int]
  /\ tokens \in 0 .. Bucket /\ refusals \in Nat
  /\ buffer \in [Slots -> Seq(Entry)] /\ folded \in Held
  /\ log \in Seq([seq : Seqs, life : 0 .. MaxResyncs])

LEMMA TypeHalves == TypeOK <=> ClientTypes /\ ServerTypes
BY DEF TypeOK, ClientTypes, ServerTypes

LEMMA ServerStays ==
  ASSUME ServerTypes, UNCHANGED serverVars
  PROVE  ServerTypes'
BY DEF ServerTypes, serverVars, admissionVars

\* The constants as numbers.
LEMMA Numbers ==
  /\ PastGrace \in Nat /\ FutureHorizon \in Nat /\ FutureHorizon >= 1 /\ ClampTicks \in Nat
  /\ MaxFrames \in Nat /\ MaxAsks \in Nat /\ MaxResyncs \in Nat /\ MaxSeqGap \in Nat
  /\ Bucket \in Nat /\ Bucket >= 1 /\ MaxLead \in Nat
  /\ Oldest \in Int /\ Oldest < 0 /\ Oldest = -PastGrace - 1
  /\ Seqs = 0 .. (MaxFrames - 1) /\ Slots = -PastGrace .. FutureHorizon
BY InputAssumption DEF Oldest, Seqs, Slots

InputOf(es, tick) == [kind |-> "input", seq |-> seq, edges |-> es, tick |-> tick, life |-> life]

\* The wire up, after a client's action that leaves the next number at sq: what was on it, then at
\* most one frame, then perhaps a message without a number.
Said(up, sq, tick) ==
  /\ up \in Seq(Uplinked) /\ Len(up) >= Len(uplink)
  /\ \A i \in 1 .. Len(uplink) : up[i] = uplink[i]
  /\ \A i \in (Len(uplink) + 1) .. Len(up) : up[i].kind = "input" =>
       /\ sq = seq + 1 /\ i = Len(uplink) + 1
       /\ up[i].seq = seq /\ up[i].life = life /\ up[i].tick = tick
  /\ \/ sq = seq
     \/ sq = seq + 1 /\ Len(up) > Len(uplink) /\ up[Len(uplink) + 1].kind = "input"

\* What any action of the client does to the numbers and the ticks.
ClientStep ==
  /\ UNCHANGED serverVars
  /\ \E tick \in Int :
       /\ Said(uplink', seq', tick)
       /\ seq' # seq =>
            state # "joining" /\ tick >= lead /\ (life' = life => tick <= lead' /\ state' # "joining")
  /\ \/ life' = life /\ state = "joining" /\ seq' = seq
     \/ life' = life /\ state # "joining" /\ state' # "joining" /\ lead' >= lead
     \/ life' = life + 1 /\ state' = "joining"
  /\ downlink' = downlink \/ (downlink # << >> /\ downlink' = Tail(downlink))
  /\ \/ ack' \in {ack, -1}
     \/ seq' = seq /\ downlink # << >> /\ Head(downlink).kind = "state" /\ ack' = Head(downlink).ack /\ ack' > ack

LEMMA SaysNothing ==
  ASSUME ClientTypes, NEW tick
  PROVE  Said(uplink, seq, tick)
<1>1. Len(uplink) \in Nat /\ (Len(uplink) + 1) .. Len(uplink) = {}
  BY DEF ClientTypes
<1>. QED BY <1>1 DEF Said, ClientTypes

LEMMA SaysMore ==
  ASSUME ClientTypes, NEW up, NEW sq, NEW tick, Said(up, sq, tick), NEW m \in [kind : {"join", "ask"}]
  PROVE  Said(Append(up, m), sq, tick)
<1>. DEFINE w == Append(up, m)
            n == Len(uplink)
<1>1. up \in Seq(Uplinked) /\ m \in Uplinked /\ m.kind # "input" /\ n \in Nat /\ Len(up) \in Nat
  BY DEF Said, Uplinked, ClientTypes
<1>2. /\ w \in Seq(Uplinked) /\ Len(w) = Len(up) + 1 /\ w[Len(up) + 1] = m
      /\ \A i \in 1 .. Len(up) : w[i] = up[i]
  BY <1>1
<1>3. Len(up) >= n /\ \A i \in 1 .. n : up[i] = uplink[i]
  BY DEF Said
<1>4. \A i \in (n + 1) .. Len(up) : up[i].kind = "input" =>
        sq = seq + 1 /\ i = n + 1 /\ up[i].seq = seq /\ up[i].life = life /\ up[i].tick = tick
  BY DEF Said
<1>5. sq = seq \/ (sq = seq + 1 /\ Len(up) > n /\ up[n + 1].kind = "input")
  BY DEF Said
<1>. HIDE DEF w, n
<1>6. \A i \in 1 .. n : w[i] = uplink[i]
  BY <1>1, <1>2, <1>3
<1>7. ASSUME NEW i \in (n + 1) .. Len(w), w[i].kind = "input"
      PROVE  sq = seq + 1 /\ i = n + 1 /\ w[i].seq = seq /\ w[i].life = life /\ w[i].tick = tick
  <2>1. i # Len(up) + 1
    BY <1>1, <1>2, <1>7
  <2>2. i \in (n + 1) .. Len(up) /\ i \in 1 .. Len(up)
    BY <1>1, <1>2, <1>3, <2>1
  <2>. QED BY <1>2, <1>4, <1>7, <2>2
<1>8. sq = seq \/ (sq = seq + 1 /\ Len(w) > n /\ w[n + 1].kind = "input")
  <2>1. Len(up) > n => n + 1 \in 1 .. Len(up) /\ Len(w) > n
    BY <1>1, <1>2
  <2>. QED BY <1>2, <1>5, <2>1
<1>9. Len(w) >= n
  BY <1>1, <1>2, <1>3
<1>. QED BY <1>2, <1>6, <1>7, <1>8, <1>9 DEF Said, w, n

LEMMA SaysFrame ==
  ASSUME ClientTypes, NEW es \in Seq(Edges), NEW tick \in Int, seq < MaxFrames
  PROVE  Said(Append(uplink, InputOf(es, tick)), seq + 1, tick)
<1>. DEFINE m == InputOf(es, tick)
            n == Len(uplink)
            w == Append(uplink, m)
<1>1. seq \in Seqs
  BY Numbers DEF ClientTypes
<1>2. /\ m \in Uplinked /\ m.kind = "input" /\ m.seq = seq /\ m.life = life /\ m.tick = tick
  BY <1>1 DEF InputOf, Uplinked, ClientTypes
<1>3. uplink \in Seq(Uplinked) /\ n \in Nat
  BY DEF ClientTypes
<1>. HIDE DEF m
<1>4. w \in Seq(Uplinked) /\ Len(w) = n + 1 /\ w[n + 1] = m /\ \A i \in 1 .. n : w[i] = uplink[i]
  BY <1>2, <1>3
<1>. HIDE DEF w, n
<1>5. \A i \in (n + 1) .. Len(w) : i = n + 1
  BY <1>3, <1>4
<1>6. Len(w) >= n /\ Len(w) > n
  BY <1>3, <1>4
<1>. QED BY <1>2, <1>4, <1>5, <1>6 DEF Said, w, n, m

\* GameClient.#flushInput: a number, a frame in the ring and the same frame on the wire.
LEMMA Flushes ==
  ASSUME ClientTypes, NEW edges \in Seq(Edges), NEW tick \in Int, seq < MaxFrames
  PROVE  /\ flushInput(edges, tick).acts \in Held
         /\ flushInput(edges, tick).seq = seq + 1 /\ seq + 1 \in 0 .. MaxFrames
         /\ flushInput(edges, tick).ring \in Seq(Frame)
         /\ flushInput(edges, tick).horizon \in Held
         /\ Said(flushInput(edges, tick).uplink, seq + 1, tick)
<1>. DEFINE f == [seq |-> seq, edges |-> coalesce(edges)]
<1>1. coalesce(edges) \in Seq(Edges) /\ seq \in Seqs /\ seq + 1 \in 0 .. MaxFrames
  BY CoalescedEdges, Numbers DEF ClientTypes
<1>2. f \in Frame /\ f.edges = coalesce(edges)
  BY <1>1 DEF Frame
<1>. HIDE DEF f
<1>3. foldInputEdges(acts, edges) \in Held
  BY EdgesHeld DEF ClientTypes
<1>4. pushed(f).ring \in Seq(Frame) /\ pushed(f).horizon \in Held
  <2>1. ring \in Seq(Frame) /\ horizon \in Held
    BY DEF ClientTypes
  <2>2. CASE Len(ring) >= RingTicks
    <3>1. ring # << >>
      BY <2>1, <2>2, InputAssumption
    <3>2. Head(ring) \in Frame /\ Tail(ring) \in Seq(Frame)
      BY <2>1, <3>1
    <3>3. foldInputEdges(horizon, Head(ring).edges) \in Held
      BY <2>1, <3>2, EdgesHeld DEF Frame
    <3>4. Append(Tail(ring), f) \in Seq(Frame)
      BY <1>2, <3>2
    <3>. QED BY <2>2, <3>3, <3>4 DEF pushed
  <2>3. CASE ~(Len(ring) >= RingTicks)
    <3>1. Append(ring, f) \in Seq(Frame)
      BY <1>2, <2>1
    <3>. QED BY <2>1, <2>3, <3>1 DEF pushed
  <2>. QED BY <2>2, <2>3
<1>5. Said(Append(uplink, InputOf(coalesce(edges), tick)), seq + 1, tick)
  BY <1>1, SaysFrame
<1>6. /\ flushInput(edges, tick).acts = foldInputEdges(acts, edges)
      /\ flushInput(edges, tick).seq = seq + 1
      /\ flushInput(edges, tick).ring = pushed(f).ring
      /\ flushInput(edges, tick).horizon = pushed(f).horizon
      /\ flushInput(edges, tick).uplink = Append(uplink, InputOf(coalesce(edges), tick))
  BY DEF flushInput, f, InputOf
<1>. QED BY <1>1, <1>3, <1>4, <1>5, <1>6

\* GameClient.#resumeInput: what is said again is made of edges.
LEMMA Resumes ==
  ASSUME acts' \in Held, rejoined \in BOOLEAN, NEW edges \in Seq(Edges), resumeInput(edges)
  PROVE  sentAxes' \subseteq Axes /\ pending' \in Seq(Edges) /\ rejoined' \in BOOLEAN
<1>. DEFINE axis == SetToSeq(acts'.axis)
            held == SetToSeq(acts'.held)
            again == [i \in 1 .. Len(axis) |-> axisEdge(axis[i], 1)]
            presses == [i \in 1 .. Len(held) |-> edgeOf(held[i], "press")]
<1>1. IsFiniteSet(Actions)
  BY InputAssumption
<1>2. acts'.axis \in SUBSET Actions /\ acts'.held \in SUBSET Actions
  BY DEF Held
<1>3. IsFiniteSet(acts'.axis) /\ IsFiniteSet(acts'.held)
  BY <1>1, <1>2, FS_Subset
<1>4. axis \in Seq(acts'.axis) /\ held \in Seq(acts'.held)
  BY <1>3, Listed
<1>. HIDE DEF axis, held
<1>5. axis \in Seq(Actions) /\ held \in Seq(Actions)
  BY <1>2, <1>4, SeqMonotonic
<1>6. \A a \in Actions : axisEdge(a, 1) \in Edges /\ edgeOf(a, "press") \in Edges
  BY DEF axisEdge, edgeOf, Edges
<1>7. again \in Seq(Edges) /\ presses \in Seq(Edges)
  BY <1>5, <1>6
<1>. HIDE DEF again, presses
<1>8. edges \o again \in Seq(Edges) /\ << >> \in Seq(Edges)
  BY <1>7
<1>9. edges \o again \o presses \in Seq(Edges) /\ edges \o again \o << >> \in Seq(Edges)
  BY <1>7, <1>8
<1>10. /\ sentAxes' = {} /\ rejoined' = FALSE
       /\ pending' = edges \o again \o (IF rejoined THEN presses ELSE << >>)
  BY DEF resumeInput, again, presses, axis, held
<1>. QED BY <1>9, <1>10

\* GameClient.#resync: a new life, announced behind what was sent.
LEMMA Resyncs ==
  ASSUME ClientTypes, acts' \in Held, NEW sent, NEW tick, Said(sent, seq', tick), resync(sent)
  PROVE  /\ Said(uplink', seq', tick)
         /\ life' = life + 1 /\ life' \in 0 .. MaxResyncs /\ state' = "joining"
         /\ pending' \in Seq(Edges) /\ ring' \in Seq(Frame) /\ horizon' \in Held
         /\ ack' = -1 /\ lead' \in Int /\ depicted' \in Oldest .. 0 /\ rejoined' \in BOOLEAN
         /\ sentAxes' \subseteq Axes
<1>1. [kind |-> "join"] \in [kind : {"join", "ask"}]
  OBVIOUS
<1>2. Said(Append(sent, [kind |-> "join"]), seq', tick)
  BY <1>1, SaysMore
<1>3. life + 1 \in 0 .. MaxResyncs
  BY Numbers DEF resync, ClientTypes
<1>4. Oldest \in Oldest .. 0
  BY Numbers
<1>. QED BY <1>2, <1>3, <1>4 DEF resync, ClientTypes

\* A key event changes what is pending.
LEMMA KeyStep ==
  ASSUME ClientTypes, NEW a \in Actions, NEW on \in BOOLEAN, onKey(a, on)
  PROVE  ClientTypes' /\ ClientStep
<1>1. buttonEdges(a, on) \in Seq(Edges)
  BY KeyEdges
<1>2. pending \in Seq(Edges)
  BY DEF ClientTypes
<1>3. \A u \in Seq(Edges) : pending \o u \in Seq(Edges)
  BY <1>2
<1>4. pending' \in Seq(Edges)
  BY <1>1, <1>2, <1>3 DEF onKey
<1>5. down' \subseteq Actions /\ sentAxes' \subseteq Axes
  BY DEF onKey, resolveKey, ClientTypes
<1>6. UNCHANGED <<state, acts, ring, horizon, seq, asked, lead, depicted, ack, rejoined, life,
                  uplink, downlink, serverVars>>
  BY DEF onKey, ringVars, clockVars
<1>7. ClientTypes'
  BY <1>4, <1>5, <1>6 DEF ClientTypes
<1>8. Said(uplink, seq, 0) /\ 0 \in Int
  BY SaysNothing
<1>9. lead' >= lead
  BY <1>6 DEF ClientTypes
<1>. QED BY <1>6, <1>7, <1>8, <1>9 DEF ClientStep

\* The handler of a lost focus releases what is held, at once.
LEMMA FocusStep ==
  ASSUME ClientTypes, focusLost
  PROVE  ClientTypes' /\ ClientStep
<1>. DEFINE edges == FoldLeft(release, << >>, SetToSeq(down))
<1>1. IsFiniteSet(Actions)
  BY InputAssumption
<1>2. IsFiniteSet(down) /\ down \in SUBSET Actions
  BY <1>1, FS_Subset DEF ClientTypes
<1>3. SetToSeq(down) \in Seq(down)
  BY <1>2, Listed
<1>4. SetToSeq(down) \in Seq(Actions)
  BY <1>2, <1>3, SeqMonotonic
<1>5. edges \in Seq(Edges)
  BY <1>4, ReleaseEdges
<1>. HIDE DEF edges
<1>6. pending \in Seq(Edges)
  BY DEF ClientTypes
<1>7. pending \o edges \in Seq(Edges) /\ << >> \in Seq(Edges)
  BY <1>5, <1>6
<1>8. /\ seq < MaxFrames /\ down' = {} /\ sentAxes' = {}
      /\ pending' = IF state = "joining" THEN pending \o edges ELSE << >>
      /\ UNCHANGED <<state, asked, lead, depicted, ack, rejoined, life, downlink, serverVars>>
  BY DEF focusLost, edges, clockVars
<1>9. lead \in Int /\ lead' >= lead
  BY <1>8 DEF ClientTypes
<1>10. CASE state = "joining"
  <2>1. /\ acts' = acts /\ seq' = seq /\ uplink' = uplink /\ ring' = ring /\ horizon' = horizon
    BY <1>10 DEF focusLost, unflushed
  <2>2. ClientTypes'
    BY <1>7, <1>8, <1>10, <2>1 DEF ClientTypes
  <2>3. Said(uplink, seq, 0) /\ 0 \in Int
    BY SaysNothing
  <2>. QED BY <1>8, <1>10, <2>1, <2>2, <2>3 DEF ClientStep
<1>11. CASE state # "joining"
  <2>. DEFINE fl == flushInput(pending \o edges, lead)
  <2>1. /\ acts' = fl.acts /\ seq' = fl.seq /\ uplink' = fl.uplink /\ ring' = fl.ring
        /\ horizon' = fl.horizon
    BY <1>11 DEF focusLost, edges
  <2>2. /\ fl.acts \in Held /\ fl.seq = seq + 1 /\ seq + 1 \in 0 .. MaxFrames
        /\ fl.ring \in Seq(Frame) /\ fl.horizon \in Held /\ Said(fl.uplink, seq + 1, lead)
    BY <1>7, <1>8, <1>9, Flushes
  <2>. HIDE DEF fl
  <2>3. uplink' \in Seq(Uplinked)
    BY <2>1, <2>2 DEF Said
  <2>4. ClientTypes'
    BY <1>7, <1>8, <1>11, <2>1, <2>2, <2>3 DEF ClientTypes
  <2>5. Said(uplink', seq', lead)
    BY <2>1, <2>2
  <2>6. lead >= lead /\ lead <= lead'
    BY <1>8, <1>9
  <2>. QED BY <1>8, <1>9, <1>11, <2>4, <2>5, <2>6 DEF ClientStep
<1>. QED BY <1>10, <1>11

\* A display frame flushes, then finds its clock behind and joins again, or decides if it is stalled.
LEMMA FrameStep ==
  ASSUME ClientTypes, NEW n \in 0 .. 1, frame(n)
  PROVE  ClientTypes' /\ ClientStep
<1>. DEFINE sends == acceptsInput /\ n > 0 /\ pending # << >>
            after == IF sends THEN flushInput(pending, lead + n) ELSE unflushed
            tick == lead + n
<1>1. /\ state # "joining" /\ (sends => seq < MaxFrames)
      /\ acts' = after.acts /\ seq' = after.seq
      /\ UNCHANGED <<down, asked, downlink, serverVars>>
  BY DEF frame
<1>2. lead \in Int /\ tick \in Int /\ tick >= lead /\ pending \in Seq(Edges) /\ << >> \in Seq(Edges)
  BY DEF ClientTypes
<1>3. /\ after.acts \in Held /\ after.seq \in 0 .. MaxFrames /\ after.ring \in Seq(Frame)
      /\ after.horizon \in Held /\ Said(after.uplink, after.seq, tick)
  <2>1. CASE sends
    <3>1. seq < MaxFrames
      BY <1>1, <2>1
    <3>. QED BY <1>2, <2>1, <3>1, Flushes
  <2>2. CASE ~sends
    <3>1. /\ after.acts = acts /\ after.seq = seq /\ after.ring = ring /\ after.horizon = horizon
          /\ after.uplink = uplink
      BY <2>2 DEF unflushed
    <3>. QED BY <3>1, SaysNothing DEF ClientTypes
  <2>. QED BY <2>1, <2>2
<1>4. CASE tick < depicted
  <2>1. resync(after.uplink)
    BY <1>4 DEF frame
  <2>. HIDE DEF after, sends, tick
  <2>2. acts' \in Held /\ Said(after.uplink, seq', tick)
    BY <1>1, <1>3
  <2>3. /\ Said(uplink', seq', tick)
        /\ life' = life + 1 /\ life' \in 0 .. MaxResyncs /\ state' = "joining"
        /\ pending' \in Seq(Edges) /\ ring' \in Seq(Frame) /\ horizon' \in Held
        /\ ack' = -1 /\ lead' \in Int /\ depicted' \in Oldest .. 0 /\ rejoined' \in BOOLEAN
        /\ sentAxes' \subseteq Axes
    BY <2>1, <2>2, Resyncs
  <2>4. uplink' \in Seq(Uplinked)
    BY <2>3 DEF Said
  <2>5. ClientTypes'
    BY <1>1, <1>3, <2>3, <2>4 DEF ClientTypes
  <2>6. life' # life
    BY <2>3 DEF ClientTypes
  <2>. QED BY <1>1, <1>2, <2>3, <2>5, <2>6 DEF ClientStep
<1>5. CASE ~(tick < depicted)
  <2>1. /\ lead' = tick /\ uplink' = after.uplink /\ ring' = after.ring /\ horizon' = after.horizon
        /\ \E drought \in Droughts, frozen \in Stills(after.ring) :
             checkLiveness(drought \/ frozen, IF sends \/ ~acceptsInput THEN << >> ELSE pending)
        /\ UNCHANGED <<depicted, ack, life>>
    BY <1>5 DEF frame
  <2>2. PICK stalls, edges : edges \in Seq(Edges) /\ checkLiveness(stalls, edges)
    BY <1>2, <2>1
  <2>. HIDE DEF after, sends, tick
  <2>3. acts' \in Held /\ rejoined \in BOOLEAN
    BY <1>1, <1>3 DEF ClientTypes
  <2>4. /\ state' \in {"live", "stalled"}
        /\ sentAxes' \subseteq Axes /\ pending' \in Seq(Edges) /\ rejoined' \in BOOLEAN
    <3>1. CASE resumeInput(edges)
      BY <2>2, <2>3, <3>1, Resumes DEF checkLiveness
    <3>2. CASE pending' = edges /\ UNCHANGED <<sentAxes, rejoined>>
      BY <2>2, <3>2 DEF checkLiveness, ClientTypes
    <3>. QED BY <2>2, <3>1, <3>2 DEF checkLiveness
  <2>5. uplink' \in Seq(Uplinked) /\ Said(uplink', seq', tick)
    BY <1>1, <1>3, <2>1 DEF Said
  <2>6. ClientTypes'
    BY <1>1, <1>2, <1>3, <2>1, <2>4, <2>5 DEF ClientTypes
  <2>7. tick <= lead' /\ lead' >= lead
    BY <1>2, <2>1
  <2>. QED BY <1>1, <1>2, <2>1, <2>4, <2>5, <2>6, <2>7 DEF ClientStep
<1>. QED BY <1>4, <1>5

LEMMA AskStep ==
  ASSUME ClientTypes, ask
  PROVE  ClientTypes' /\ ClientStep
<1>1. /\ state = "live" /\ asked < MaxAsks /\ asked' = asked + 1
      /\ uplink' = Append(uplink, [kind |-> "ask"])
      /\ UNCHANGED <<down, sentAxes, state, pending, acts, ring, horizon, seq, lead, depicted, ack,
                     rejoined, life, downlink, serverVars>>
  BY DEF ask, acceptsInput, deviceVars, ringVars, clockVars
<1>2. asked' \in 0 .. MaxAsks
  BY <1>1, Numbers DEF ClientTypes
<1>3. [kind |-> "ask"] \in [kind : {"join", "ask"}] /\ 0 \in Int
  OBVIOUS
<1>4. Said(uplink, seq, 0)
  BY SaysNothing
<1>5. Said(uplink', seq, 0)
  BY <1>1, <1>3, <1>4, SaysMore
<1>6. uplink' \in Seq(Uplinked)
  BY <1>5 DEF Said
<1>7. ClientTypes'
  BY <1>1, <1>2, <1>6 DEF ClientTypes
<1>8. lead' >= lead
  BY <1>1 DEF ClientTypes
<1>. QED BY <1>1, <1>3, <1>5, <1>7, <1>8 DEF ClientStep

LEMMA InboxStep ==
  ASSUME ClientTypes, drainInbox
  PROVE  ClientTypes' /\ ClientStep
<1>. DEFINE envelope == Head(downlink)
<1>1. /\ downlink # << >> /\ downlink' = Tail(downlink) /\ UNCHANGED serverVars
  BY DEF drainInbox
<1>2. downlink \in Seq(Downlinked)
  BY DEF ClientTypes
<1>3. envelope \in Downlinked /\ Tail(downlink) \in Seq(Downlinked)
  BY <1>1, <1>2
<1>4. CASE envelope.kind = "welcome" /\ state # "joining"
  <2>1. UNCHANGED <<clientVars, uplink>>
    BY <1>4 DEF drainInbox, onWelcome
  <2>2. UNCHANGED <<down, sentAxes, state, pending, acts, ring, horizon, seq, asked, lead, depicted, ack,
                    rejoined, life, uplink>>
    BY <2>1 DEF clientVars, deviceVars, ringVars, clockVars
  <2>3. ClientTypes'
    BY <1>1, <1>3, <2>2 DEF ClientTypes
  <2>4. Said(uplink, seq, 0) /\ 0 \in Int
    BY SaysNothing
  <2>5. lead' >= lead
    BY <2>2 DEF ClientTypes
  <2>. QED BY <1>1, <1>4, <2>2, <2>3, <2>4, <2>5 DEF ClientStep
<1>5. CASE envelope.kind = "welcome" /\ state = "joining"
  <2>1. envelope.tick \in Oldest .. 0
    BY <1>3, <1>5 DEF Downlinked
  <2>2. PICK rtt \in 1 .. MaxLead :
          /\ lead' = envelope.tick + rtt /\ depicted' = envelope.tick
          /\ state' = "live"
          /\ UNCHANGED <<down, acts, ringVars, seq, asked, ack, life>>
          /\ resumeInput(pending)
    BY <1>5 DEF drainInbox, onWelcome
  <2>3. UNCHANGED <<down, acts, ring, horizon, seq, asked, ack, life, uplink>>
    BY <1>5, <2>2 DEF drainInbox, ringVars
  <2>. HIDE DEF envelope
  <2>4. acts' \in Held /\ pending \in Seq(Edges) /\ rejoined \in BOOLEAN
    BY <2>3 DEF ClientTypes
  <2>5. sentAxes' \subseteq Axes /\ pending' \in Seq(Edges) /\ rejoined' \in BOOLEAN
    BY <2>2, <2>4, Resumes
  <2>6. lead' \in Int
    BY <2>1, <2>2, Numbers
  <2>7. ClientTypes'
    BY <1>1, <1>3, <2>1, <2>2, <2>3, <2>5, <2>6 DEF ClientTypes
  <2>8. Said(uplink, seq, 0) /\ 0 \in Int
    BY SaysNothing
  <2>. QED BY <1>1, <1>5, <2>3, <2>7, <2>8 DEF ClientStep
<1>6. CASE envelope.kind = "state" /\ state = "joining"
  <2>1. UNCHANGED <<clientVars, uplink>>
    BY <1>6 DEF drainInbox, onState
  <2>2. UNCHANGED <<down, sentAxes, state, pending, acts, ring, horizon, seq, asked, lead, depicted, ack,
                    rejoined, life, uplink>>
    BY <2>1 DEF clientVars, deviceVars, ringVars, clockVars
  <2>3. ClientTypes'
    BY <1>1, <1>3, <2>2 DEF ClientTypes
  <2>4. Said(uplink, seq, 0) /\ 0 \in Int
    BY SaysNothing
  <2>. QED BY <1>1, <1>6, <2>2, <2>3, <2>4 DEF ClientStep
<1>7. CASE envelope.kind = "state" /\ state # "joining"
  <2>. DEFINE newer == envelope.ack > ack
              k == pruned(envelope.ack)
  <2>1. /\ depicted' = envelope.tick /\ ack' = IF newer THEN envelope.ack ELSE ack
        /\ horizon' = IF newer THEN foldFrames(horizon, SubSeq(ring, 1, k)) ELSE horizon
        /\ ring' = IF newer THEN SubSeq(ring, k + 1, Len(ring)) ELSE ring
        /\ UNCHANGED <<down, sentAxes, state, pending, acts, seq, asked, lead, rejoined, life, uplink>>
    BY <1>7 DEF drainInbox, onState, deviceVars
  <2>2. envelope.tick \in Oldest .. 0 /\ envelope.ack \in Seqs \cup {-1}
    BY <1>3, <1>7 DEF Downlinked
  <2>3. envelope.ack \in Int /\ ring \in Seq(Frame) /\ horizon \in Held
    BY <2>2, Numbers DEF ClientTypes
  <2>4. k \in 0 .. Len(ring)
    BY <2>3, Prunes
  <2>. HIDE DEF k, newer, envelope
  <2>5. SubSeq(ring, 1, k) \in Seq(Frame) /\ SubSeq(ring, k + 1, Len(ring)) \in Seq(Frame)
    BY <2>3, <2>4
  <2>6. \A f \in Frame : f.edges \in Seq(Edges)
    BY DEF Frame
  <2>7. foldFrames(horizon, SubSeq(ring, 1, k)) \in Held
    BY <2>3, <2>5, <2>6, FramesHeld
  <2>8. ack' \in Seqs \cup {-1} /\ ring' \in Seq(Frame) /\ horizon' \in Held
    BY <2>1, <2>2, <2>3, <2>5, <2>7 DEF ClientTypes
  <2>9. ClientTypes'
    BY <1>1, <1>3, <2>1, <2>2, <2>8 DEF ClientTypes
  <2>10. Said(uplink, seq, 0) /\ 0 \in Int
    BY SaysNothing
  <2>11. lead' >= lead
    BY <2>1 DEF ClientTypes
  <2>12. ack' = ack \/ (ack' = envelope.ack /\ ack' > ack)
    BY <2>1 DEF newer
  <2>. QED BY <1>1, <1>7, <2>1, <2>9, <2>10, <2>11, <2>12 DEF ClientStep, envelope
<1>8. CASE envelope.kind = "rate-change" /\ state = "joining"
  <2>1. UNCHANGED <<clientVars, uplink>>
    BY <1>8 DEF drainInbox, onRateChange
  <2>2. UNCHANGED <<down, sentAxes, state, pending, acts, ring, horizon, seq, asked, lead, depicted, ack,
                    rejoined, life, uplink>>
    BY <2>1 DEF clientVars, deviceVars, ringVars, clockVars
  <2>3. ClientTypes'
    BY <1>1, <1>3, <2>2 DEF ClientTypes
  <2>4. Said(uplink, seq, 0) /\ 0 \in Int
    BY SaysNothing
  <2>. QED BY <1>1, <1>8, <2>2, <2>3, <2>4 DEF ClientStep
<1>9. CASE envelope.kind = "rate-change" /\ state # "joining"
  <2>1. UNCHANGED <<down, acts, seq, asked>> /\ resync(uplink)
    BY <1>9 DEF drainInbox, onRateChange
  <2>2. acts' \in Held /\ Said(uplink, seq', 0) /\ 0 \in Int
    BY <2>1, SaysNothing DEF ClientTypes
  <2>3. /\ Said(uplink', seq', 0)
        /\ life' = life + 1 /\ life' \in 0 .. MaxResyncs /\ state' = "joining"
        /\ pending' \in Seq(Edges) /\ ring' \in Seq(Frame) /\ horizon' \in Held
        /\ ack' = -1 /\ lead' \in Int /\ depicted' \in Oldest .. 0 /\ rejoined' \in BOOLEAN
        /\ sentAxes' \subseteq Axes
    BY <2>1, <2>2, Resyncs
  <2>4. uplink' \in Seq(Uplinked)
    BY <2>3 DEF Said
  <2>5. ClientTypes'
    BY <1>1, <1>3, <2>1, <2>2, <2>3, <2>4 DEF ClientTypes
  <2>. QED BY <1>1, <2>1, <2>2, <2>3, <2>5 DEF ClientStep
<1>10. envelope.kind \in {"welcome", "state", "rate-change"}
  BY <1>3 DEF Downlinked
<1>. HIDE DEF envelope
<1>. QED BY <1>4, <1>5, <1>6, <1>7, <1>8, <1>9, <1>10

-----------------------------------------------------------------------------
(* The invariant. *)

\* The frames on the wire are numbered in the order they were sent; those behind the head are new.
WireInOrder ==
  /\ \A i \in 1 .. Len(uplink) : uplink[i].kind = "input" => uplink[i].seq < seq
  /\ \A i, j \in 1 .. Len(uplink) :
       i < j /\ uplink[i].kind = "input" /\ uplink[j].kind = "input" => uplink[i].seq < uplink[j].seq
  /\ \A i \in 2 .. Len(uplink) :
       uplink[i].kind = "input" => uplink[i].seq > highest /\ uplink[i].seq \notin dropped

\* The head may be a replay: then its number is known, or was refused as too far ahead and still is.
HeadFits ==
  uplink # << >> /\ uplink[1].kind = "input" =>
    \/ seen(uplink[1].seq) \/ uplink[1].seq <= frontier
    \/ /\ uplink[1].seq > highest
       /\ uplink[1].seq \in dropped => uplink[1].seq > highest + MaxSeqGap

\* No number goes missing.
Accounted ==
  \A s \in 0 .. (seq - 1) :
    \/ s \in appliedSeqs \cup dropped \cup FiledSeqs
    \/ \E i \in 1 .. Len(uplink) : uplink[i].kind = "input" /\ uplink[i].seq = s

\* What admission knows of lies below the newest arrival.
Numbered ==
  /\ frontier <= highest /\ highest < seq
  /\ \A s \in dropped : s < seq
  /\ \A s \in appliedSeqs \cup FiledSeqs \cup arrived \cup resolved \cup DOMAIN gaps : s <= highest

\* A number is applied, dropped or filed, and no two of these.
Apart == appliedSeqs \cap dropped = {} /\ FiledSeqs \cap dropped = {} /\ FiledSeqs \cap appliedSeqs = {}

\* What is resolved or passed was applied or dropped, and a dated gap was dropped.
Settled ==
  /\ resolved \subseteq appliedSeqs \cup dropped
  /\ DOMAIN gaps \subseteq dropped
  /\ \A s \in 0 .. frontier : s \in appliedSeqs \cup dropped

\* Nobody was told of more than the frontier.
Acked ==
  /\ ack <= frontier
  /\ \A i \in 1 .. Len(downlink) : downlink[i].kind = "state" => downlink[i].ack <= frontier

\* Nothing is of a life to come, and while the client joins nothing is of its present one.
Lives ==
  /\ \A i \in 1 .. Len(uplink) : uplink[i].kind = "input" =>
       uplink[i].life <= life /\ (state = "joining" => uplink[i].life < life)
  /\ \A f \in Filed : f.life <= life /\ (state = "joining" => f.life < life)

\* Within a life: ticks on the wire rise, up to the clock; one that is late does not matter.
WireByTick ==
  /\ \A i, j \in 1 .. Len(uplink) :
       /\ i < j /\ uplink[i].kind = "input" /\ uplink[j].kind = "input"
       /\ uplink[i].life = uplink[j].life
       => uplink[i].tick < -PastGrace \/ uplink[i].tick <= uplink[j].tick
  /\ \A i \in 1 .. Len(uplink) :
       uplink[i].kind = "input" /\ state # "joining" /\ uplink[i].life = life =>
         uplink[i].tick < -PastGrace \/ uplink[i].tick <= lead

\* Within a life: nothing is filed above the clock, or above a frame still on the wire.
FiledByTick ==
  \A t \in Slots : \A f \in ToSet(buffer[t]) :
    /\ state # "joining" /\ f.life = life => t <= lead
    /\ \A i \in 1 .. Len(uplink) :
         uplink[i].kind = "input" /\ uplink[i].life = f.life => t <= uplink[i].tick

\* The log is a chain, and comes before what is filed.
LogChained ==
  /\ Chain(log)
  /\ \A l \in ToSet(log), f \in Filed : Before(l, f)

Ledgered ==
  WireInOrder /\ HeadFits /\ Accounted /\ Numbered /\ Apart /\ Settled /\ Acked /\ NothingStuck
Ordered == Lives /\ WireByTick /\ FiledByTick /\ LogChained /\ SlotsChained

InputsInv == TypeOK /\ Ledgered /\ Ordered

\* A frame on the wire has a number, a tick and a life.
LEMMA OnTheWire ==
  ASSUME ClientTypes, NEW i \in 1 .. Len(uplink), uplink[i].kind = "input"
  PROVE  /\ uplink[i].seq \in Seqs /\ uplink[i].seq \in Int /\ uplink[i].tick \in Int
         /\ uplink[i].life \in 0 .. MaxResyncs /\ uplink[i].life \in Int
         /\ uplink[i].edges \in Seq(Edges)
<1>1. uplink[i] \in Uplinked
  BY DEF ClientTypes
<1>2. /\ uplink[i].seq \in Seqs /\ uplink[i].tick \in Int /\ uplink[i].life \in 0 .. MaxResyncs
      /\ uplink[i].edges \in Seq(Edges)
  BY <1>1 DEF Uplinked
<1>. QED BY <1>2, Numbers

\* A filed frame is an entry.
LEMMA FiledEntries ==
  ASSUME ServerTypes
  PROVE  /\ \A t \in Slots : \A f \in ToSet(buffer[t]) : f \in Filed
         /\ \A f \in Filed : \E t \in Slots : f \in ToSet(buffer[t])
         /\ \A f \in Filed : f \in Entry /\ f.seq \in Seqs /\ f.seq \in Int /\ f.life \in Int
<1>1. \A t \in Slots : \A f \in ToSet(buffer[t]) : f \in Entry
  BY DEF ServerTypes, ToSet
<1>2. \A f \in Entry : f.seq \in Seqs /\ f.seq \in Int /\ f.life \in Int
  BY Numbers DEF Entry
<1>. QED BY <1>1, <1>2 DEF Filed

\* No action of the client spoils either account.
LEMMA ClientKeeps ==
  ASSUME InputsInv, ClientTypes', ClientStep
  PROVE  Ledgered' /\ Ordered'
<1>. DEFINE n == Len(uplink)
            w == uplink'
<1>1. ClientTypes /\ ServerTypes
  BY TypeHalves DEF InputsInv
<1>2. PICK tick \in Int :
        /\ Said(w, seq', tick)
        /\ seq' # seq =>
             state # "joining" /\ tick >= lead /\ (life' = life => tick <= lead' /\ state' # "joining")
  BY DEF ClientStep
<1>3. /\ n \in Nat /\ Len(w) \in Nat /\ Len(w) >= n /\ seq \in Int /\ lead \in Int /\ lead' \in Int
      /\ life \in Int /\ seq >= 0
  BY <1>1, <1>2, Numbers DEF ClientTypes, Said
<1>4. \A i \in 1 .. n : w[i] = uplink[i] /\ i \in 1 .. Len(w)
  BY <1>2, <1>3 DEF Said
<1>5. ASSUME NEW i \in 1 .. Len(w), w[i].kind = "input", i \notin 1 .. n
      PROVE  /\ i = n + 1 /\ seq' = seq + 1 /\ w[i].seq = seq /\ w[i].life = life /\ w[i].tick = tick
  <2>1. i \in (n + 1) .. Len(w)
    BY <1>3, <1>5
  <2>. QED BY <1>2, <1>5, <2>1 DEF Said
<1>6. seq' = seq \/ (seq' = seq + 1 /\ n + 1 \in 1 .. Len(w) /\ w[n + 1].kind = "input")
  <2>1. Len(w) > n => n + 1 \in 1 .. Len(w)
    BY <1>3
  <2>. QED BY <1>2, <2>1 DEF Said
<1>7. UNCHANGED <<frontier, resolved, arrived, gaps, highest, buffer, closed, log, dropped>>
  BY DEF ClientStep, serverVars, admissionVars
<1>8. Filed' = Filed /\ FiledSeqs' = FiledSeqs /\ appliedSeqs' = appliedSeqs
  BY <1>7 DEF Filed, FiledSeqs, appliedSeqs
<1>9. \A i \in 1 .. n : uplink[i].kind = "input" =>
        uplink[i].seq \in Int /\ uplink[i].tick \in Int /\ uplink[i].life \in Int
  BY <1>1, OnTheWire
<1>10. /\ highest \in Int /\ frontier \in Int /\ highest < seq
       /\ PastGrace \in Nat /\ (\A s \in dropped : s \in Int /\ s < seq)
  BY <1>1, Numbers DEF ServerTypes, InputsInv, Ledgered, Numbered
<1>. HIDE DEF n, w
<1>11. WireInOrder'
  <2>1. ASSUME NEW i \in 1 .. Len(w), w[i].kind = "input" PROVE w[i].seq < seq'
    <3>1. CASE i \in 1 .. n
      <4>1. uplink[i].seq < seq /\ w[i] = uplink[i]
        BY <1>4, <2>1, <3>1 DEF InputsInv, Ledgered, WireInOrder, n
      <4>. QED BY <1>3, <1>4, <1>6, <1>9, <2>1, <3>1, <4>1
    <3>2. CASE i \notin 1 .. n
      BY <1>3, <1>5, <2>1, <3>2
    <3>. QED BY <3>1, <3>2
  <2>2. ASSUME NEW i \in 1 .. Len(w), NEW j \in 1 .. Len(w), i < j, w[i].kind = "input", w[j].kind = "input"
        PROVE  w[i].seq < w[j].seq
    <3>1. CASE j \in 1 .. n
      <4>1. i \in 1 .. n
        BY <1>3, <2>2, <3>1
      <4>. QED BY <1>4, <2>2, <3>1, <4>1 DEF InputsInv, Ledgered, WireInOrder, n
    <3>2. CASE j \notin 1 .. n
      <4>1. j = n + 1 /\ w[j].seq = seq
        BY <1>5, <2>2, <3>2
      <4>2. i \in 1 .. n
        BY <1>3, <2>2, <4>1
      <4>. QED BY <1>4, <2>2, <4>1, <4>2 DEF InputsInv, Ledgered, WireInOrder, n
    <3>. QED BY <3>1, <3>2
  <2>3. ASSUME NEW i \in 2 .. Len(w), w[i].kind = "input"
        PROVE  w[i].seq > highest' /\ w[i].seq \notin dropped'
    <3>0. i \in 1 .. Len(w)
      BY <1>3, <2>3
    <3>1. CASE i \in 1 .. n
      <4>1. i \in 2 .. n
        BY <2>3, <3>1, <1>3
      <4>. QED BY <1>4, <1>7, <2>3, <3>1, <4>1 DEF InputsInv, Ledgered, WireInOrder, n
    <3>2. CASE i \notin 1 .. n
      <4>1. w[i].seq = seq
        BY <1>5, <2>3, <3>0, <3>2
      <4>. QED BY <1>3, <1>7, <1>10, <4>1
    <3>. QED BY <3>1, <3>2
  <2>. QED BY <2>1, <2>2, <2>3 DEF WireInOrder, w
<1>12. HeadFits'
  <2>. SUFFICES ASSUME w # << >>, w[1].kind = "input"
                PROVE  \/ w[1].seq \in arrived \/ w[1].seq \in resolved \/ w[1].seq <= frontier
                       \/ w[1].seq > highest /\ (w[1].seq \in dropped => w[1].seq > highest + MaxSeqGap)
    BY <1>7 DEF HeadFits, seen, w
  <2>1. CASE 1 \in 1 .. n
    <3>1. uplink # << >> /\ w[1] = uplink[1]
      BY <1>1, <1>4, <2>1 DEF n, ClientTypes
    <3>. QED BY <3>1 DEF InputsInv, Ledgered, HeadFits, seen
  <2>2. CASE 1 \notin 1 .. n
    <3>1. 1 \in 1 .. Len(w)
      <4>1. w \in Seq(Uplinked)
        BY <1>2 DEF Said
      <4>. QED BY <4>1
    <3>2. w[1].seq = seq
      BY <1>5, <2>2, <3>1
    <3>. QED BY <1>3, <1>10, <3>2
  <2>. QED BY <2>1, <2>2
<1>13. Accounted'
  <2>1. ASSUME NEW s \in 0 .. (seq' - 1)
        PROVE  \/ s \in appliedSeqs \cup dropped \cup FiledSeqs
               \/ \E i \in 1 .. Len(w) : w[i].kind = "input" /\ w[i].seq = s
    <3>1. CASE s \in 0 .. (seq - 1)
      <4>1. CASE \E i \in 1 .. n : uplink[i].kind = "input" /\ uplink[i].seq = s
        BY <1>4, <4>1
      <4>. QED BY <3>1, <4>1 DEF InputsInv, Ledgered, Accounted, n
    <3>2. CASE s \notin 0 .. (seq - 1)
      <4>1. seq' = seq + 1 /\ s = seq
        BY <1>3, <1>6, <2>1, <3>2
      <4>2. n + 1 \in 1 .. Len(w) /\ w[n + 1].kind = "input" /\ n + 1 \notin 1 .. n
        BY <1>3, <1>6, <4>1
      <4>3. w[n + 1].seq = seq
        BY <1>5, <4>2
      <4>. QED BY <4>1, <4>2, <4>3
    <3>. QED BY <3>1, <3>2
  <2>. QED BY <1>7, <1>8, <2>1 DEF Accounted, w
<1>14. Numbered'
  <2>1. highest < seq' /\ \A s \in dropped : s < seq'
    BY <1>3, <1>6, <1>10
  <2>. QED BY <1>7, <1>8, <2>1 DEF InputsInv, Ledgered, Numbered
<1>15. Apart' /\ Settled' /\ NothingStuck'
  BY <1>7, <1>8 DEF InputsInv, Ledgered, Apart, Settled, NothingStuck
<1>16. Acked'
  <2>1. downlink \in Seq(Downlinked)
    BY <1>1 DEF ClientTypes
  <2>2. \A i \in 1 .. Len(downlink) : downlink[i].kind = "state" => downlink[i].ack <= frontier
    BY DEF InputsInv, Ledgered, Acked
  <2>3. \A i \in 1 .. Len(downlink') : downlink'[i].kind = "state" => downlink'[i].ack <= frontier
    <3>1. CASE downlink' = downlink
      BY <2>2, <3>1
    <3>2. CASE downlink # << >> /\ downlink' = Tail(downlink)
      <4>1. Len(downlink') = Len(downlink) - 1 /\ \A i \in 1 .. Len(downlink') : downlink'[i] = downlink[i + 1]
        BY <2>1, <3>2
      <4>2. \A i \in 1 .. Len(downlink') : i + 1 \in 1 .. Len(downlink)
        BY <2>1, <4>1
      <4>. QED BY <2>2, <4>1, <4>2
    <3>. QED BY <3>1, <3>2 DEF ClientStep
  <2>4. ack' <= frontier
    <3>1. CASE ack' \in {ack, -1}
      <4>1. -1 <= frontier
        BY <1>1, Numbers DEF ServerTypes
      <4>. QED BY <3>1, <4>1 DEF InputsInv, Ledgered, Acked
    <3>2. CASE downlink # << >> /\ Head(downlink).kind = "state" /\ ack' = Head(downlink).ack
      <4>1. 1 \in 1 .. Len(downlink) /\ Head(downlink) = downlink[1]
        BY <2>1, <3>2
      <4>. QED BY <2>2, <3>2, <4>1
    <3>. QED BY <3>1, <3>2 DEF ClientStep
  <2>. QED BY <1>7, <2>3, <2>4 DEF Acked
<1>17. Ledgered'
  BY <1>11, <1>12, <1>13, <1>14, <1>15, <1>16 DEF Ledgered
\* The three things that may become of the client's life.
<1>18. \/ life' = life /\ state = "joining" /\ seq' = seq
       \/ life' = life /\ state # "joining" /\ state' # "joining" /\ lead' >= lead
       \/ life' = life + 1 /\ state' = "joining"
  BY DEF ClientStep
<1>19. \A f \in Filed : f.life \in Int
  BY <1>1, FiledEntries
<1>20. Lives'
  <2>1. ASSUME NEW i \in 1 .. Len(w), w[i].kind = "input"
        PROVE  w[i].life <= life' /\ (state' = "joining" => w[i].life < life')
    <3>1. CASE i \in 1 .. n
      <4>1. uplink[i].life <= life /\ (state = "joining" => uplink[i].life < life)
        BY <1>4, <2>1, <3>1 DEF InputsInv, Ordered, Lives, n
      <4>. QED BY <1>3, <1>4, <1>9, <1>18, <2>1, <3>1, <4>1
    <3>2. CASE i \notin 1 .. n
      BY <1>2, <1>3, <1>5, <1>18, <2>1, <3>2
    <3>. QED BY <3>1, <3>2
  <2>2. ASSUME NEW f \in Filed PROVE f.life <= life' /\ (state' = "joining" => f.life < life')
    <3>1. f.life <= life /\ (state = "joining" => f.life < life)
      BY DEF InputsInv, Ordered, Lives
    <3>. QED BY <1>3, <1>18, <1>19, <3>1
  <2>. QED BY <1>8, <2>1, <2>2 DEF Lives, w
<1>21. WireByTick'
  <2>1. ASSUME NEW i \in 1 .. Len(w), NEW j \in 1 .. Len(w), i < j, w[i].kind = "input", w[j].kind = "input",
               w[i].life = w[j].life
        PROVE  w[i].tick < -PastGrace \/ w[i].tick <= w[j].tick
    <3>1. CASE j \in 1 .. n
      <4>1. i \in 1 .. n
        BY <1>3, <2>1, <3>1
      <4>. QED BY <1>4, <2>1, <3>1, <4>1 DEF InputsInv, Ordered, WireByTick, n
    <3>2. CASE j \notin 1 .. n
      <4>1. j = n + 1 /\ w[j].tick = tick /\ w[j].life = life /\ seq' = seq + 1
        BY <1>5, <2>1, <3>2
      <4>2. i \in 1 .. n /\ state # "joining" /\ tick >= lead
        BY <1>2, <1>3, <2>1, <4>1
      <4>3. uplink[i].tick < -PastGrace \/ uplink[i].tick <= lead
        BY <1>4, <2>1, <4>1, <4>2 DEF InputsInv, Ordered, WireByTick, n
      <4>. QED BY <1>3, <1>4, <1>9, <2>1, <4>1, <4>2, <4>3
    <3>. QED BY <3>1, <3>2
  <2>2. ASSUME NEW i \in 1 .. Len(w), w[i].kind = "input", state' # "joining", w[i].life = life'
        PROVE  w[i].tick < -PastGrace \/ w[i].tick <= lead'
    <3>1. CASE i \in 1 .. n
      <4>1. uplink[i].life <= life /\ (state = "joining" => uplink[i].life < life)
        BY <1>4, <2>2, <3>1 DEF InputsInv, Ordered, Lives, n
      <4>2. state # "joining" /\ life' = life /\ lead' >= lead
        BY <1>3, <1>4, <1>9, <1>18, <2>2, <3>1, <4>1
      <4>3. uplink[i].tick < -PastGrace \/ uplink[i].tick <= lead
        BY <1>4, <2>2, <3>1, <4>2 DEF InputsInv, Ordered, WireByTick, n
      <4>. QED BY <1>3, <1>4, <1>9, <2>2, <3>1, <4>2, <4>3
    <3>2. CASE i \notin 1 .. n
      <4>1. w[i].tick = tick /\ w[i].life = life /\ seq' = seq + 1
        BY <1>5, <2>2, <3>2
      <4>. QED BY <1>2, <1>3, <2>2, <4>1
    <3>. QED BY <3>1, <3>2
  <2>. QED BY <2>1, <2>2 DEF WireByTick, w
<1>22. FiledByTick'
  <2>1. ASSUME NEW t \in Slots, NEW f \in ToSet(buffer[t])
        PROVE  /\ state' # "joining" /\ f.life = life' => t <= lead'
               /\ \A i \in 1 .. Len(w) : w[i].kind = "input" /\ w[i].life = f.life => t <= w[i].tick
    <3>1. f \in Filed /\ f.life \in Int /\ t \in Int
      BY <1>1, <2>1, FiledEntries, Numbers
    <3>2. f.life <= life /\ (state = "joining" => f.life < life)
      BY <3>1 DEF InputsInv, Ordered, Lives
    <3>3. state # "joining" /\ f.life = life => t <= lead
      BY <2>1 DEF InputsInv, Ordered, FiledByTick
    <3>4. state' # "joining" /\ f.life = life' => t <= lead'
      BY <1>3, <1>18, <3>1, <3>2, <3>3
    <3>5. ASSUME NEW i \in 1 .. Len(w), w[i].kind = "input", w[i].life = f.life PROVE t <= w[i].tick
      <4>1. CASE i \in 1 .. n
        BY <1>4, <2>1, <3>5, <4>1 DEF InputsInv, Ordered, FiledByTick, n
      <4>2. CASE i \notin 1 .. n
        <5>1. w[i].tick = tick /\ w[i].life = life /\ seq' = seq + 1
          BY <1>5, <3>5, <4>2
        <5>. QED BY <1>2, <1>3, <3>1, <3>3, <3>5, <5>1
      <4>. QED BY <4>1, <4>2
    <3>. QED BY <3>4, <3>5
  <2>. QED BY <1>7, <2>1 DEF FiledByTick, w
<1>23. LogChained' /\ SlotsChained'
  BY <1>7, <1>8 DEF InputsInv, Ordered, LogChained, SlotsChained, Chain
<1>. QED BY <1>17, <1>20, <1>21, <1>22, <1>23 DEF Ordered

-----------------------------------------------------------------------------
(* The authority receives. *)

\* The wire up loses its head, or is replayed as it was.
Shortened(d) ==
  /\ d \in {0, 1} /\ uplink' \in Seq(Uplinked) /\ Len(uplink') = Len(uplink) - d
  /\ \A i \in 1 .. Len(uplink') : i + d \in 1 .. Len(uplink) /\ uplink'[i] = uplink[i + d]

LEMMA HeadTaken ==
  ASSUME ClientTypes, uplink # << >>
  PROVE  /\ 1 \in 1 .. Len(uplink) /\ Head(uplink) = uplink[1]
         /\ uplink' = Tail(uplink) => Shortened(1)
         /\ uplink' = uplink => Shortened(0)
<1>1. uplink \in Seq(Uplinked) /\ Len(uplink) \in Nat /\ Len(uplink) >= 1
  BY DEF ClientTypes
<1>2. 1 \in 1 .. Len(uplink) /\ Head(uplink) = uplink[1]
  BY <1>1
<1>3. ASSUME uplink' = Tail(uplink) PROVE Shortened(1)
  <2>1. /\ uplink' \in Seq(Uplinked) /\ Len(uplink') = Len(uplink) - 1
        /\ \A i \in 1 .. Len(uplink') : uplink'[i] = uplink[i + 1]
    BY <1>1, <1>3
  <2>2. \A i \in 1 .. Len(uplink') : i + 1 \in 1 .. Len(uplink)
    BY <1>1, <2>1
  <2>. QED BY <2>1, <2>2 DEF Shortened
<1>4. ASSUME uplink' = uplink PROVE Shortened(0)
  <2>1. \A i \in 1 .. Len(uplink) : i + 0 = i
    BY <1>1
  <2>. QED BY <1>1, <1>4, <2>1 DEF Shortened
<1>. QED BY <1>2, <1>3, <1>4

\* What is given up is dropped, alone or with all that is filed.
Gives(G) == (dropped' = dropped \cup G /\ UNCHANGED <<buffer, closed>>) \/ closeFor(G)

LEMMA Given ==
  ASSUME ServerTypes, NEW G \in SUBSET Seqs, Gives(G)
  PROVE  /\ buffer' \in [Slots -> Seq(Entry)] /\ closed' \in BOOLEAN /\ dropped' \subseteq Seqs
         /\ dropped' \cup FiledSeqs' = dropped \cup G \cup FiledSeqs
         /\ dropped \cup G \subseteq dropped'
         /\ dropped' \cap FiledSeqs' \subseteq dropped \cup G
         /\ Filed' \subseteq Filed /\ FiledSeqs' \subseteq FiledSeqs
         /\ ~closed' => FiledSeqs' = FiledSeqs
         /\ \A t \in Slots : ToSet(buffer'[t]) \subseteq ToSet(buffer[t]) /\ (Chain(buffer[t]) => Chain(buffer'[t]))
<1>1. CASE dropped' = dropped \cup G /\ UNCHANGED <<buffer, closed>>
  <2>1. Filed' = Filed /\ FiledSeqs' = FiledSeqs
    BY <1>1 DEF Filed, FiledSeqs
  <2>. QED BY <1>1, <2>1 DEF ServerTypes, Chain
<1>2. CASE closeFor(G)
  <2>1. closed' = TRUE /\ buffer' = NoFrames /\ dropped' = dropped \cup G \cup FiledSeqs
    BY <1>2 DEF closeFor
  <2>2. \A t \in Slots : buffer'[t] = << >>
    BY <2>1 DEF NoFrames
  <2>3. ToSet(<< >>) = {} /\ Chain(<< >>) /\ << >> \in Seq(Entry)
    BY DEF ToSet, Chain
  <2>4. Filed' = {}
    BY <2>2, <2>3 DEF Filed
  <2>5. FiledSeqs' = {}
    BY <2>4 DEF FiledSeqs
  <2>6. FiledSeqs \subseteq Seqs
    BY FiledEntries DEF FiledSeqs
  <2>7. buffer' \in [Slots -> Seq(Entry)]
    BY <2>1, <2>3 DEF NoFrames
  <2>8. \A t \in Slots : ToSet(buffer'[t]) = {} /\ Chain(buffer'[t])
    BY <2>2, <2>3
  <2>. QED BY <2>1, <2>4, <2>5, <2>6, <2>7, <2>8 DEF ServerTypes
<1>. QED BY <1>1, <1>2 DEF Gives

\* Taking from the wire and from the slots leaves the ticks in order.
LEMMA OrderKept ==
  ASSUME InputsInv, NEW d, Shortened(d), UNCHANGED <<state, lead, life, log>>,
         Filed' \subseteq Filed,
         \A t \in Slots : ToSet(buffer'[t]) \subseteq ToSet(buffer[t]) /\ (Chain(buffer[t]) => Chain(buffer'[t]))
  PROVE  Ordered'
<1>. DEFINE w == uplink'
<1>1. d \in {0, 1} /\ \A i \in 1 .. Len(w) : i + d \in 1 .. Len(uplink) /\ w[i] = uplink[i + d]
  BY DEF Shortened
<1>2. \A i, j \in 1 .. Len(w) : i < j => i + d < j + d
  <2>1. w \in Seq(Uplinked)
    BY DEF Shortened
  <2>2. \A i \in 1 .. Len(w) : i \in Int
    BY <2>1
  <2>. QED BY <1>1, <2>2
<1>. HIDE DEF w
<1>3. Lives'
  <2>1. \A i \in 1 .. Len(w) : w[i].kind = "input" =>
          w[i].life <= life /\ (state = "joining" => w[i].life < life)
    BY <1>1 DEF InputsInv, Ordered, Lives
  <2>2. \A f \in Filed' : f.life <= life /\ (state = "joining" => f.life < life)
    BY DEF InputsInv, Ordered, Lives
  <2>. QED BY <2>1, <2>2 DEF Lives, w
<1>4. WireByTick'
  <2>1. \A i, j \in 1 .. Len(w) :
          i < j /\ w[i].kind = "input" /\ w[j].kind = "input" /\ w[i].life = w[j].life =>
          w[i].tick < -PastGrace \/ w[i].tick <= w[j].tick
    BY <1>1, <1>2 DEF InputsInv, Ordered, WireByTick
  <2>2. \A i \in 1 .. Len(w) :
          w[i].kind = "input" /\ state # "joining" /\ w[i].life = life =>
          w[i].tick < -PastGrace \/ w[i].tick <= lead
    BY <1>1 DEF InputsInv, Ordered, WireByTick
  <2>. QED BY <2>1, <2>2 DEF WireByTick, w
<1>5. FiledByTick'
  <2>1. ASSUME NEW t \in Slots, NEW f \in ToSet(buffer'[t])
        PROVE  /\ state # "joining" /\ f.life = life => t <= lead
               /\ \A i \in 1 .. Len(w) : w[i].kind = "input" /\ w[i].life = f.life => t <= w[i].tick
    <3>1. f \in ToSet(buffer[t])
      OBVIOUS
    <3>. QED BY <1>1, <3>1 DEF InputsInv, Ordered, FiledByTick
  <2>. QED BY <2>1 DEF FiledByTick, w
<1>6. LogChained'
  BY DEF InputsInv, Ordered, LogChained, Chain
<1>7. SlotsChained'
  <2>1. \A t \in Slots : Chain(buffer'[t])
    BY DEF InputsInv, Ordered, SlotsChained
  <2>2. \A t, u \in Slots : t < u => \A f \in ToSet(buffer'[t]), g \in ToSet(buffer'[u]) : Before(f, g)
    BY DEF InputsInv, Ordered, SlotsChained
  <2>. QED BY <2>1, <2>2 DEF SlotsChained, Chain
<1>. QED BY <1>3, <1>4, <1>5, <1>6, <1>7 DEF Ordered

\* The marks of admission are numbers.
LEMMA Counters ==
  ASSUME ClientTypes, ServerTypes
  PROVE  /\ highest \in Int /\ highest >= -1 /\ frontier \in Int /\ frontier >= -1
         /\ seq \in Int /\ seq >= 0 /\ MaxSeqGap \in Nat
         /\ \A s \in Seqs : s \in Int /\ s >= 0
<1>1. highest \in Seqs \cup {-1} /\ frontier \in Seqs \cup {-1} /\ seq \in 0 .. MaxFrames
  BY DEF ClientTypes, ServerTypes
<1>2. Seqs = 0 .. (MaxFrames - 1) /\ MaxFrames \in Nat /\ MaxSeqGap \in Nat
  BY Numbers
<1>. QED BY <1>1, <1>2

\* What the log names are numbers.
LEMMA AppliedNumbers ==
  ASSUME ServerTypes
  PROVE  appliedSeqs \subseteq Seqs
<1>. DEFINE R == [seq : Seqs, life : 0 .. MaxResyncs]
<1>0. log \in Seq(R) /\ \A r \in R : r.seq \in Seqs
  BY DEF ServerTypes
<1>. HIDE DEF R
<1>1. \A i \in 1 .. Len(log) : log[i] \in R
  BY <1>0
<1>2. \A i \in 1 .. Len(log) : log[i].seq \in Seqs
  BY <1>0, <1>1
<1>. QED BY <1>2 DEF appliedSeqs

\* A head that is new to admission is newer than all it knows.
LEMMA Fresh ==
  ASSUME InputsInv, uplink # << >>, uplink[1].kind = "input", ~seen(uplink[1].seq), uplink[1].seq > frontier
  PROVE  /\ uplink[1].seq \in Seqs /\ uplink[1].seq > highest /\ uplink[1].seq < seq
         /\ uplink[1].seq \notin appliedSeqs \cup FiledSeqs \cup DOMAIN gaps
         /\ \A i \in 2 .. Len(uplink) : uplink[i].kind = "input" => uplink[i].seq > uplink[1].seq
         /\ uplink[1].seq <= highest + MaxSeqGap =>
              /\ uplink[1].seq \notin dropped
              /\ \A m \in (highest + 1) .. (uplink[1].seq - 1) : m \in dropped
<1>. DEFINE s == uplink[1].seq
<1>1. ClientTypes /\ ServerTypes
  BY TypeHalves DEF InputsInv
<1>2. 1 \in 1 .. Len(uplink) /\ Len(uplink) \in Nat
  BY <1>1, HeadTaken DEF ClientTypes
<1>3. s \in Seqs /\ s \in Int
  BY <1>1, <1>2, OnTheWire
<1>4. highest \in Int /\ frontier \in Int /\ seq \in Int /\ MaxSeqGap \in Nat /\ highest >= -1
  BY <1>1, Counters
<1>5. s > highest /\ (s \in dropped => s > highest + MaxSeqGap)
  <2>1. ~(s <= frontier)
    BY <1>3, <1>4
  <2>. QED BY <2>1 DEF InputsInv, Ledgered, HeadFits
<1>6. s < seq
  BY <1>2 DEF InputsInv, Ledgered, WireInOrder
<1>7. \A m \in appliedSeqs \cup FiledSeqs \cup DOMAIN gaps : m <= highest
  BY DEF InputsInv, Ledgered, Numbered
<1>8. s \notin appliedSeqs \cup FiledSeqs \cup DOMAIN gaps
  BY <1>3, <1>4, <1>5, <1>7
<1>9. ASSUME NEW i \in 2 .. Len(uplink), uplink[i].kind = "input" PROVE uplink[i].seq > s
  <2>1. i \in 1 .. Len(uplink) /\ 1 < i
    BY <1>2, <1>9
  <2>2. s < uplink[i].seq
    BY <1>2, <1>9, <2>1 DEF InputsInv, Ledgered, WireInOrder
  <2>3. uplink[i].seq \in Int
    BY <1>1, <1>9, <2>1, OnTheWire
  <2>. QED BY <1>3, <2>2, <2>3
<1>10. ASSUME NEW m \in (highest + 1) .. (s - 1) PROVE m \in dropped
  <2>1. m \in 0 .. (seq - 1) /\ m < s /\ m > highest /\ m \in Int
    BY <1>3, <1>4, <1>6
  <2>2. m \notin appliedSeqs \cup FiledSeqs
    BY <1>4, <1>7, <2>1
  <2>3. ASSUME NEW i \in 1 .. Len(uplink), uplink[i].kind = "input", uplink[i].seq = m PROVE FALSE
    <3>1. i # 1
      BY <1>3, <2>1, <2>3
    <3>2. i \in 2 .. Len(uplink)
      BY <1>2, <2>3, <3>1
    <3>. QED BY <1>3, <1>9, <2>1, <2>3, <3>2
  <2>. QED BY <2>1, <2>2, <2>3 DEF InputsInv, Ledgered, Accounted
<1>. QED BY <1>3, <1>4, <1>5, <1>6, <1>8, <1>9, <1>10

\* What receiving must not do to the account of numbers.
LEMMA LedgerKept ==
  ASSUME InputsInv, uplink # << >>, NEW d, Shortened(d), UNCHANGED <<frontier, log, seq, ack, downlink>>,
         highest' \in Int, highest <= highest', highest' < seq,
         \A s \in dropped' : s < seq,
         \A s \in FiledSeqs' \cup arrived' \cup resolved' \cup DOMAIN gaps' : s <= highest',
         \A i \in 2 .. Len(uplink) :
           uplink[i].kind = "input" => uplink[i].seq > highest' /\ uplink[i].seq \notin dropped',
         d = 0 => HeadFits',
         FiledSeqs \subseteq dropped' \cup FiledSeqs', dropped \subseteq dropped',
         d = 1 /\ uplink[1].kind = "input" => uplink[1].seq \in appliedSeqs \cup dropped' \cup FiledSeqs',
         appliedSeqs \cap dropped' = {}, FiledSeqs' \cap dropped' = {}, FiledSeqs' \cap appliedSeqs = {},
         resolved' \subseteq appliedSeqs \cup dropped', DOMAIN gaps' \subseteq dropped',
         NothingStuck'
  PROVE  Ledgered'
<1>. DEFINE w == uplink'
            n == Len(uplink)
<1>1. ClientTypes /\ ServerTypes
  BY TypeHalves DEF InputsInv
<1>2. /\ d \in {0, 1} /\ Len(w) = n - d /\ w \in Seq(Uplinked)
      /\ \A i \in 1 .. Len(w) : i + d \in 1 .. n /\ w[i] = uplink[i + d]
  BY DEF Shortened
<1>3. n \in Nat /\ n >= 1 /\ Len(w) \in Nat
  BY <1>1, <1>2 DEF ClientTypes
<1>4. appliedSeqs' = appliedSeqs
  BY DEF appliedSeqs
<1>5. highest \in Int /\ frontier \in Int /\ seq \in Int
  BY <1>1, Counters
<1>. HIDE DEF w, n
<1>6. WireInOrder'
  <2>1. \A i \in 1 .. Len(w) : w[i].kind = "input" => w[i].seq < seq
    BY <1>2 DEF InputsInv, Ledgered, WireInOrder, n
  <2>2. ASSUME NEW i \in 1 .. Len(w), NEW j \in 1 .. Len(w), i < j, w[i].kind = "input", w[j].kind = "input"
        PROVE  w[i].seq < w[j].seq
    <3>1. i + d < j + d
      BY <1>2, <1>3, <2>2
    <3>. QED BY <1>2, <2>2, <3>1 DEF InputsInv, Ledgered, WireInOrder, n
  <2>3. ASSUME NEW i \in 2 .. Len(w), w[i].kind = "input"
        PROVE  w[i].seq > highest' /\ w[i].seq \notin dropped'
    <3>1. i \in 1 .. Len(w) /\ i + d \in 2 .. n
      BY <1>2, <1>3, <2>3
    <3>. QED BY <1>2, <2>3, <3>1 DEF n
  <2>. QED BY <2>1, <2>2, <2>3 DEF WireInOrder, w
<1>7. HeadFits'
  <2>1. CASE d = 1
    <3>1. ASSUME w # << >>, w[1].kind = "input" PROVE w[1].seq > highest' /\ w[1].seq \notin dropped'
      <4>1. 1 \in 1 .. Len(w)
        BY <1>2, <3>1
      <4>2. 1 + d \in 2 .. n /\ w[1] = uplink[1 + d]
        BY <1>2, <1>3, <2>1, <4>1
      <4>. QED BY <3>1, <4>2 DEF n
    <3>. QED BY <3>1 DEF HeadFits, w
  <2>. QED BY <1>2, <2>1
<1>8. Accounted'
  <2>1. ASSUME NEW s \in 0 .. (seq - 1)
        PROVE  \/ s \in appliedSeqs \cup dropped' \cup FiledSeqs'
               \/ \E i \in 1 .. Len(w) : w[i].kind = "input" /\ w[i].seq = s
    <3>1. CASE s \in appliedSeqs \cup dropped \cup FiledSeqs
      BY <3>1
    <3>2. ASSUME NEW k \in 1 .. n, uplink[k].kind = "input", uplink[k].seq = s
          PROVE  \/ s \in appliedSeqs \cup dropped' \cup FiledSeqs'
                 \/ \E i \in 1 .. Len(w) : w[i].kind = "input" /\ w[i].seq = s
      <4>1. CASE d = 1 /\ k = 1
        BY <3>2, <4>1
      <4>2. CASE ~(d = 1 /\ k = 1)
        <5>. DEFINE i == k - d
        <5>1. i \in 1 .. Len(w) /\ i + d = k
          BY <1>2, <1>3, <3>2, <4>2
        <5>. HIDE DEF i
        <5>. QED BY <1>2, <3>2, <5>1
      <4>. QED BY <4>1, <4>2
    <3>. QED BY <2>1, <3>1, <3>2 DEF InputsInv, Ledgered, Accounted, n
  <2>. QED BY <1>4, <2>1 DEF Accounted, w
<1>9. Numbered'
  <2>1. frontier <= highest /\ \A s \in appliedSeqs : s \in Int /\ s <= highest
    <3>1. \A s \in appliedSeqs : s \in Seqs
      BY <1>1, AppliedNumbers
    <3>. QED BY <1>1, <3>1, Counters DEF InputsInv, Ledgered, Numbered
  <2>2. frontier <= highest' /\ \A s \in appliedSeqs : s <= highest'
    BY <1>5, <2>1
  <2>. QED BY <1>4, <2>2 DEF Numbered
<1>10. Apart'
  BY <1>4 DEF Apart
<1>11. Settled'
  BY <1>4 DEF InputsInv, Ledgered, Settled
<1>12. Acked'
  BY DEF InputsInv, Ledgered, Acked
<1>. QED BY <1>6, <1>7, <1>8, <1>9, <1>10, <1>11, <1>12 DEF Ledgered

\* A message that admission does not note: a join, an ask, a repeat, one too far ahead or refused.
LEMMA SetAsideKeeps ==
  ASSUME InputsInv, uplink # << >>, ~closed, NEW d, Shortened(d), NEW G, Gives(G),
         UNCHANGED <<frontier, resolved, arrived, gaps, highest, log>>, UNCHANGED <<clientVars, downlink>>,
         \/ /\ G = {}
            /\ uplink[1].kind = "input" => seen(uplink[1].seq) \/ uplink[1].seq <= frontier
         \/ /\ G = {uplink[1].seq}
            /\ uplink[1].kind = "input" /\ ~seen(uplink[1].seq) /\ uplink[1].seq > frontier
            /\ d = 1 \/ uplink[1].seq > highest + MaxSeqGap
  PROVE  Ledgered' /\ Ordered'
<1>. DEFINE s == uplink[1].seq
<1>1. ClientTypes /\ ServerTypes
  BY TypeHalves DEF InputsInv
<1>2. Numbered /\ Apart /\ Settled /\ WireInOrder
  BY DEF InputsInv, Ledgered
<1>3. /\ highest \in Int /\ frontier \in Int /\ seq \in Int /\ highest < seq /\ MaxSeqGap \in Nat
      /\ \A m \in Seqs : m \in Int /\ m >= 0
  BY <1>1, <1>2, Counters DEF Numbered
<1>4. /\ G \in SUBSET Seqs /\ G \cap (appliedSeqs \cup FiledSeqs) = {}
      /\ \A m \in G : m < seq /\ m = s /\ uplink[1].kind = "input"
      /\ \A i \in 2 .. Len(uplink) : uplink[i].kind = "input" => uplink[i].seq \notin G
  <2>1. CASE G = {}
    BY <2>1
  <2>2. CASE G = {s} /\ uplink[1].kind = "input" /\ ~seen(s) /\ s > frontier
    <3>1. /\ s \in Seqs /\ s < seq /\ s \notin appliedSeqs \cup FiledSeqs
          /\ \A i \in 2 .. Len(uplink) : uplink[i].kind = "input" => uplink[i].seq > s
      BY <2>2, Fresh
    <3>2. s \in Int
      BY <1>3, <3>1
    <3>. HIDE DEF s
    <3>3. \A i \in 2 .. Len(uplink) : uplink[i].kind = "input" => uplink[i].seq # s
      BY <3>1, <3>2
    <3>. QED BY <2>2, <3>1, <3>3
  <2>. QED BY <2>1, <2>2
<1>5. /\ dropped' \cup FiledSeqs' = dropped \cup G \cup FiledSeqs
      /\ dropped \cup G \subseteq dropped' /\ dropped' \cap FiledSeqs' \subseteq dropped \cup G
      /\ Filed' \subseteq Filed /\ FiledSeqs' \subseteq FiledSeqs
      /\ ~closed' => FiledSeqs' = FiledSeqs
      /\ \A t \in Slots : ToSet(buffer'[t]) \subseteq ToSet(buffer[t]) /\ (Chain(buffer[t]) => Chain(buffer'[t]))
  BY <1>1, <1>4, Given
<1>6. /\ UNCHANGED <<state, lead, life, log>>
      /\ UNCHANGED <<frontier, log, seq, ack, downlink>>
  BY DEF clientVars, clockVars
<1>7. Ordered'
  BY <1>5, <1>6, OrderKept
<1>8. FiledSeqs \subseteq Seqs /\ \A m \in FiledSeqs : m \in Int /\ m <= highest
  <2>1. FiledSeqs \subseteq Seqs
    BY <1>1, FiledEntries DEF FiledSeqs
  <2>. QED BY <1>2, <1>3, <2>1 DEF Numbered
<1>9. \A m \in dropped' : m < seq
  <2>1. \A m \in dropped' : m \in dropped \cup G \cup FiledSeqs
    BY <1>5
  <2>2. \A m \in FiledSeqs : m < seq
    BY <1>3, <1>8
  <2>. QED BY <1>2, <1>4, <2>1, <2>2 DEF Numbered
<1>10. \A m \in FiledSeqs' \cup arrived' \cup resolved' \cup DOMAIN gaps' : m <= highest'
  BY <1>2, <1>5 DEF Numbered
<1>11. ASSUME NEW i \in 2 .. Len(uplink), uplink[i].kind = "input"
       PROVE  uplink[i].seq > highest' /\ uplink[i].seq \notin dropped'
  <2>1. uplink[i].seq > highest /\ uplink[i].seq \notin dropped
    BY <1>2, <1>11 DEF WireInOrder
  <2>2. uplink[i].seq \in Int
    <3>1. i \in 1 .. Len(uplink)
      BY <1>1, <1>11 DEF ClientTypes
    <3>. QED BY <1>1, <1>11, <3>1, OnTheWire
  <2>3. uplink[i].seq \notin FiledSeqs
    BY <1>3, <1>8, <2>1, <2>2
  <2>. QED BY <1>4, <1>5, <1>11, <2>1, <2>3
<1>12. d = 0 => HeadFits'
  <2>. SUFFICES ASSUME d = 0, uplink' # << >>, uplink'[1].kind = "input"
                PROVE  \/ seen(uplink'[1].seq) \/ uplink'[1].seq <= frontier
                       \/ /\ uplink'[1].seq > highest
                          /\ uplink'[1].seq \in dropped' => uplink'[1].seq > highest + MaxSeqGap
    BY DEF HeadFits, seen
  <2>1. uplink'[1] = uplink[1]
    <3>1. 1 \in 1 .. Len(uplink') /\ 1 + 0 = 1
      BY DEF Shortened
    <3>. QED BY <3>1 DEF Shortened
  <2>2. CASE uplink[1].kind = "input" => seen(s) \/ s <= frontier
    BY <2>1, <2>2
  <2>3. CASE uplink[1].kind = "input" /\ ~seen(s) /\ s > frontier /\ s > highest + MaxSeqGap
    <3>1. s \in Seqs
      BY <2>3, Fresh
    <3>2. s \in Int /\ s > highest
      BY <1>3, <2>3, <3>1
    <3>. QED BY <2>1, <2>3, <3>2
  <2>. QED BY <2>2, <2>3
<1>13. uplink[1].kind = "input" => s \in appliedSeqs \cup dropped' \cup FiledSeqs'
  <2>. SUFFICES ASSUME uplink[1].kind = "input", G = {}, seen(s) \/ s <= frontier
                PROVE  s \in appliedSeqs \cup dropped \cup FiledSeqs
    BY <1>5
  <2>1. s \in Int /\ s >= 0 /\ s <= highest
    <3>1. s \in Seqs
      BY <1>1, HeadTaken, OnTheWire
    <3>2. s \in Int /\ s >= 0
      BY <1>3, <3>1
    <3>3. s \in arrived \cup resolved => s <= highest
      BY <1>2 DEF Numbered
    <3>4. frontier <= highest
      BY <1>2 DEF Numbered
    <3>. HIDE DEF s
    <3>. QED BY <1>3, <3>2, <3>3, <3>4 DEF seen
  <2>. HIDE DEF s
  <2>2. CASE s <= frontier
    <3>1. s \in 0 .. frontier
      BY <1>3, <2>1, <2>2
    <3>. QED BY <1>2, <3>1 DEF Settled
  <2>3. CASE s > frontier
    <3>1. s \in (frontier + 1) .. highest
      BY <1>3, <2>1, <2>3
    <3>2. s \in resolved \cup DOMAIN gaps \cup FiledSeqs
      BY <3>1 DEF InputsInv, Ledgered, NothingStuck
    <3>. QED BY <1>2, <3>2 DEF Settled
  <2>. QED BY <1>3, <2>1, <2>2, <2>3
<1>14. appliedSeqs \cap dropped' = {} /\ FiledSeqs' \cap dropped' = {} /\ FiledSeqs' \cap appliedSeqs = {}
  <2>1. dropped' \subseteq dropped \cup G \cup FiledSeqs
    BY <1>5
  <2>. QED BY <1>2, <1>4, <1>5, <2>1 DEF Apart
<1>15. resolved' \subseteq appliedSeqs \cup dropped' /\ DOMAIN gaps' \subseteq dropped' /\ dropped \subseteq dropped'
  BY <1>2, <1>5 DEF Settled
<1>16. NothingStuck'
  BY <1>5 DEF InputsInv, Ledgered, NothingStuck
<1>17. FiledSeqs \subseteq dropped' \cup FiledSeqs' /\ highest' \in Int /\ highest <= highest' /\ highest' < seq
  BY <1>3, <1>5
<1>18. Ledgered'
  BY <1>6, <1>9, <1>10, <1>11, <1>12, <1>13, <1>14, <1>15, <1>16, <1>17, LedgerKept
<1>. QED BY <1>7, <1>18

\* AdmissionState.noteArrival of a fresh head: it is the newest arrival, the skipped are dated.
LEMMA Noted ==
  ASSUME InputsInv, uplink # << >>, uplink[1].kind = "input", ~seen(uplink[1].seq),
         uplink[1].seq > frontier, uplink[1].seq <= highest + MaxSeqGap, noteArrival(uplink[1])
  PROVE  /\ arrived' = arrived \cup {uplink[1].seq} /\ highest' = uplink[1].seq
         /\ DOMAIN gaps' = DOMAIN gaps \cup (highest + 1) .. (uplink[1].seq - 1)
         /\ DOMAIN gaps' \subseteq Seqs /\ gaps' \in [DOMAIN gaps' -> Int]
<1>. DEFINE s == uplink[1].seq
            D == DOMAIN gaps \cup {m \in (highest + 1) .. (s - 1) : m \notin resolved}
<1>1. ClientTypes /\ ServerTypes
  BY TypeHalves DEF InputsInv
<1>2. s \in Seqs /\ s > highest
  BY Fresh
<1>3. highest \in Int /\ highest >= -1 /\ s \in Int
  BY <1>1, <1>2, Counters
<1>4. uplink[1].tick \in Int
  BY <1>1, HeadTaken, OnTheWire
<1>5. /\ arrived' = arrived \cup {s} /\ highest' = s
      /\ gaps' = [m \in D |-> IF m > highest THEN uplink[1].tick ELSE gaps[m]]
  BY <1>2 DEF noteArrival
<1>6. D = DOMAIN gaps \cup (highest + 1) .. (s - 1)
  <2>1. \A m \in resolved : m <= highest
    BY DEF InputsInv, Ledgered, Numbered
  <2>2. \A m \in (highest + 1) .. (s - 1) : m \notin resolved
    <3>1. \A m \in (highest + 1) .. (s - 1) : ~(m <= highest)
      BY <1>3
    <3>. QED BY <2>1, <3>1
  <2>. QED BY <2>2
<1>7. DOMAIN gaps \subseteq Seqs /\ gaps \in [DOMAIN gaps -> Int]
  BY <1>1 DEF ServerTypes
<1>8. (highest + 1) .. (s - 1) \subseteq Seqs
  BY <1>2, <1>3, Numbers
<1>9. \A m \in D : m > highest \/ m \in DOMAIN gaps
  BY <1>3, <1>6
<1>. HIDE DEF s, D
<1>10. ASSUME NEW m \in D PROVE (IF m > highest THEN uplink[1].tick ELSE gaps[m]) \in Int
  BY <1>4, <1>7, <1>9
<1>11. gaps' \in [D -> Int] /\ DOMAIN gaps' = D
  BY <1>5, <1>10
<1>12. D \subseteq Seqs
  BY <1>6, <1>7, <1>8
<1>. QED BY <1>5, <1>6, <1>11, <1>12 DEF s

\* A fresh head that is refused, outside the window or over the rate, is settled as dropped.
LEMMA RefusedKeeps ==
  ASSUME InputsInv, uplink # << >>, ~closed, NEW d, Shortened(d),
         uplink[1].kind = "input", ~seen(uplink[1].seq), uplink[1].seq > frontier,
         uplink[1].seq <= highest + MaxSeqGap,
         noteArrival(uplink[1]), resolve(uplink[1]), Gives({uplink[1].seq}),
         UNCHANGED <<frontier, log>>, UNCHANGED <<clientVars, downlink>>
  PROVE  Ledgered' /\ Ordered'
<1>. DEFINE s == uplink[1].seq
            G == {s}
<1>1. ClientTypes /\ ServerTypes
  BY TypeHalves DEF InputsInv
<1>2. Numbered /\ Apart /\ Settled /\ WireInOrder
  BY DEF InputsInv, Ledgered
<1>3. /\ s \in Seqs /\ s > highest /\ s < seq
      /\ s \notin appliedSeqs \cup FiledSeqs \cup DOMAIN gaps
      /\ \A i \in 2 .. Len(uplink) : uplink[i].kind = "input" => uplink[i].seq > s
      /\ s \notin dropped
      /\ \A m \in (highest + 1) .. (s - 1) : m \in dropped
  BY Fresh
<1>4. /\ highest \in Int /\ frontier \in Int /\ seq \in Int /\ highest < seq
      /\ \A m \in Seqs : m \in Int /\ m >= 0
  BY <1>1, <1>2, Counters DEF Numbered
<1>5. /\ arrived' = arrived \cup {s} /\ highest' = s /\ resolved' = resolved \cup {s}
      /\ DOMAIN gaps' = DOMAIN gaps \cup (highest + 1) .. (s - 1)
  BY Noted DEF resolve
<1>6. /\ dropped' \cup FiledSeqs' = dropped \cup G \cup FiledSeqs
      /\ dropped \cup G \subseteq dropped' /\ dropped' \cap FiledSeqs' \subseteq dropped \cup G
      /\ Filed' \subseteq Filed /\ FiledSeqs' \subseteq FiledSeqs
      /\ ~closed' => FiledSeqs' = FiledSeqs
      /\ \A t \in Slots : ToSet(buffer'[t]) \subseteq ToSet(buffer[t]) /\ (Chain(buffer[t]) => Chain(buffer'[t]))
  <2>1. G \in SUBSET Seqs /\ Gives(G)
    BY <1>3
  <2>. HIDE DEF G
  <2>. QED BY <1>1, <2>1, Given
<1>7. /\ UNCHANGED <<state, lead, life, log>>
      /\ UNCHANGED <<frontier, log, seq, ack, downlink>>
  BY DEF clientVars, clockVars
<1>8. Ordered'
  BY <1>6, <1>7, OrderKept
<1>9. /\ \A m \in FiledSeqs \cup arrived \cup resolved \cup DOMAIN gaps : m \in Int /\ m <= highest
  <2>1. FiledSeqs \subseteq Seqs
    BY <1>1, FiledEntries DEF FiledSeqs
  <2>2. arrived \subseteq Seqs /\ resolved \subseteq Seqs /\ DOMAIN gaps \subseteq Seqs
    BY <1>1 DEF ServerTypes
  <2>. QED BY <1>2, <1>4, <2>1, <2>2 DEF Numbered
<1>10. s \in Int
  BY <1>3, <1>4
<1>. HIDE DEF s
<1>11. \A m \in dropped' : m < seq
  <2>1. \A m \in dropped' : m \in dropped \/ m = s \/ m \in FiledSeqs
    BY <1>6
  <2>2. \A m \in FiledSeqs : m < seq
    BY <1>4, <1>9
  <2>. QED BY <1>2, <1>3, <2>1, <2>2 DEF Numbered
<1>12. \A m \in FiledSeqs' \cup arrived' \cup resolved' \cup DOMAIN gaps' : m <= highest'
  <2>1. \A m \in FiledSeqs \cup arrived \cup resolved \cup DOMAIN gaps : m <= s
    BY <1>3, <1>4, <1>9, <1>10
  <2>2. \A m \in (highest + 1) .. (s - 1) : m <= s
    BY <1>4, <1>10
  <2>. QED BY <1>5, <1>6, <1>10, <2>1, <2>2
<1>13. ASSUME NEW i \in 2 .. Len(uplink), uplink[i].kind = "input"
       PROVE  uplink[i].seq > highest' /\ uplink[i].seq \notin dropped'
  <2>1. uplink[i].seq > s /\ uplink[i].seq > highest /\ uplink[i].seq \notin dropped
    BY <1>2, <1>3, <1>13 DEF WireInOrder
  <2>2. uplink[i].seq \in Int
    <3>1. i \in 1 .. Len(uplink)
      BY <1>1, <1>13 DEF ClientTypes
    <3>. QED BY <1>1, <1>13, <3>1, OnTheWire
  <2>3. uplink[i].seq \notin FiledSeqs /\ uplink[i].seq # s
    BY <1>4, <1>9, <1>10, <2>1, <2>2
  <2>. QED BY <1>5, <1>6, <2>1, <2>3
<1>14. d = 0 => HeadFits'
  <2>. SUFFICES ASSUME d = 0, uplink' # << >> PROVE uplink'[1].seq \in arrived'
    BY DEF HeadFits, seen
  <2>1. uplink'[1] = uplink[1]
    <3>1. 1 \in 1 .. Len(uplink') /\ 1 + 0 = 1
      BY DEF Shortened
    <3>. QED BY <3>1 DEF Shortened
  <2>. QED BY <1>5, <2>1 DEF s
<1>15. appliedSeqs \cap dropped' = {} /\ FiledSeqs' \cap dropped' = {} /\ FiledSeqs' \cap appliedSeqs = {}
  <2>1. dropped' \subseteq dropped \cup G \cup FiledSeqs
    BY <1>6
  <2>. QED BY <1>2, <1>3, <1>6, <2>1 DEF Apart
<1>16. resolved' \subseteq appliedSeqs \cup dropped' /\ DOMAIN gaps' \subseteq dropped' /\ dropped \subseteq dropped'
  BY <1>2, <1>3, <1>5, <1>6 DEF Settled
<1>17. NothingStuck'
  <2>. SUFFICES ASSUME ~closed', NEW n \in (frontier + 1) .. s
                PROVE  n \in resolved' \cup DOMAIN gaps' \cup FiledSeqs'
    BY <1>5 DEF NothingStuck
  <2>1. CASE n <= highest
    <3>1. n \in (frontier + 1) .. highest
      BY <1>4, <1>10, <2>1
    <3>2. n \in resolved \cup DOMAIN gaps \cup FiledSeqs
      BY <3>1 DEF InputsInv, Ledgered, NothingStuck
    <3>. QED BY <1>5, <1>6, <3>2
  <2>2. CASE n > highest
    <3>1. n = s \/ n \in (highest + 1) .. (s - 1)
      BY <1>4, <1>10, <2>2
    <3>. QED BY <1>5, <3>1
  <2>. QED BY <1>4, <1>10, <2>1, <2>2
<1>18. FiledSeqs \subseteq dropped' \cup FiledSeqs' /\ highest' \in Int /\ highest <= highest' /\ highest' < seq
  BY <1>3, <1>4, <1>5, <1>6, <1>10
<1>19. uplink[1].seq \in appliedSeqs \cup dropped' \cup FiledSeqs'
  BY <1>6 DEF s
<1>20. Ledgered'
  BY <1>7, <1>11, <1>12, <1>13, <1>14, <1>15, <1>16, <1>17, <1>18, <1>19, LedgerKept
<1>. QED BY <1>8, <1>20

\* A chain grows by a frame that comes behind all of it.
LEMMA ChainGrows ==
  ASSUME NEW E, NEW q \in Seq(E), NEW e \in E
  PROVE  /\ Append(q, e) \in Seq(E) /\ ToSet(Append(q, e)) = ToSet(q) \cup {e}
         /\ Chain(q) /\ (\A f \in ToSet(q) : Before(f, e)) => Chain(Append(q, e))
<1>. DEFINE c == Append(q, e)
<1>1. /\ c \in Seq(E) /\ Len(c) = Len(q) + 1 /\ Len(q) \in Nat /\ c[Len(q) + 1] = e
      /\ \A i \in 1 .. Len(q) : c[i] = q[i]
  OBVIOUS
<1>2. DOMAIN c = 1 .. Len(c) /\ DOMAIN q = 1 .. Len(q)
  OBVIOUS
<1>. HIDE DEF c
<1>3. \A i \in 1 .. Len(c) : i \in 1 .. Len(q) \/ i = Len(q) + 1
  BY <1>1
<1>4. Len(q) + 1 \in 1 .. Len(c) /\ \A i \in 1 .. Len(q) : i \in 1 .. Len(c)
  BY <1>1
<1>5. ToSet(c) = ToSet(q) \cup {e}
  <2>1. \A x \in ToSet(c) : x \in ToSet(q) \cup {e}
    BY <1>1, <1>2, <1>3 DEF ToSet
  <2>2. \A x \in ToSet(q) \cup {e} : x \in ToSet(c)
    BY <1>1, <1>2, <1>4 DEF ToSet
  <2>. QED BY <2>1, <2>2
<1>6. ASSUME Chain(q), \A f \in ToSet(q) : Before(f, e), NEW i \in 1 .. Len(c), NEW j \in 1 .. Len(c), i < j
      PROVE  Before(c[i], c[j])
  <2>1. i \in 1 .. Len(q)
    BY <1>1, <1>3, <1>6
  <2>2. CASE j \in 1 .. Len(q)
    BY <1>1, <1>6, <2>1, <2>2 DEF Chain
  <2>3. CASE j = Len(q) + 1
    <3>1. c[i] \in ToSet(q) /\ c[j] = e
      BY <1>1, <1>2, <2>1, <2>3 DEF ToSet
    <3>. QED BY <1>6, <3>1
  <2>. QED BY <1>3, <2>2, <2>3
<1>7. Chain(q) /\ (\A f \in ToSet(q) : Before(f, e)) => Chain(c)
  BY <1>6 DEF Chain
<1>. QED BY <1>1, <1>5, <1>7 DEF c

FiledAs(f) == [seq |-> f.seq, edges |-> f.edges, life |-> f.life]
SlotOf(f) == IF f.tick > FutureHorizon THEN FutureHorizon ELSE f.tick

\* InputBuffer.file: a frame in the window goes to the end of the slot of its tick, or of the last.
LEMMA FiledOne ==
  ASSUME ClientTypes, ServerTypes, uplink # << >>, uplink[1].kind = "input", uplink[1].tick >= -PastGrace,
         buffer' = [buffer EXCEPT ![SlotOf(uplink[1])] = Append(@, FiledAs(uplink[1]))]
  PROVE  /\ SlotOf(uplink[1]) \in Slots /\ SlotOf(uplink[1]) <= uplink[1].tick
         /\ \A t \in Slots : t <= uplink[1].tick => t <= SlotOf(uplink[1])
         /\ FiledAs(uplink[1]).seq = uplink[1].seq /\ FiledAs(uplink[1]).life = uplink[1].life
         /\ buffer' \in [Slots -> Seq(Entry)]
         /\ \A t \in Slots : t # SlotOf(uplink[1]) => buffer'[t] = buffer[t]
         /\ ToSet(buffer'[SlotOf(uplink[1])]) = ToSet(buffer[SlotOf(uplink[1])]) \cup {FiledAs(uplink[1])}
         /\ /\ Chain(buffer[SlotOf(uplink[1])])
            /\ \A f \in ToSet(buffer[SlotOf(uplink[1])]) : Before(f, FiledAs(uplink[1]))
            => Chain(buffer'[SlotOf(uplink[1])])
         /\ Filed' = Filed \cup {FiledAs(uplink[1])} /\ FiledSeqs' = FiledSeqs \cup {uplink[1].seq}
<1>. DEFINE f == uplink[1]
            e == FiledAs(f)
            at == SlotOf(f)
<1>1. f.seq \in Seqs /\ f.tick \in Int /\ f.life \in 0 .. MaxResyncs /\ f.edges \in Seq(Edges)
  BY HeadTaken, OnTheWire
<1>2. e \in Entry /\ e.seq = f.seq /\ e.life = f.life
  BY <1>1 DEF FiledAs, Entry
<1>3. at \in Slots /\ at <= f.tick /\ \A t \in Slots : t <= f.tick => t <= at
  <2>1. PastGrace \in Nat /\ FutureHorizon \in Nat /\ Slots = -PastGrace .. FutureHorizon
    BY Numbers
  <2>2. f.tick >= -PastGrace
    OBVIOUS
  <2>. HIDE DEF f
  <2>. QED BY <1>1, <2>1, <2>2 DEF SlotOf
<1>4. buffer \in [Slots -> Seq(Entry)]
  BY DEF ServerTypes
<1>5. buffer' = [buffer EXCEPT ![at] = Append(@, e)]
  OBVIOUS
<1>. HIDE DEF f, e, at
<1>6. /\ Append(buffer[at], e) \in Seq(Entry) /\ ToSet(Append(buffer[at], e)) = ToSet(buffer[at]) \cup {e}
      /\ Chain(buffer[at]) /\ (\A g \in ToSet(buffer[at]) : Before(g, e)) => Chain(Append(buffer[at], e))
  <2>1. buffer[at] \in Seq(Entry)
    BY <1>3, <1>4
  <2>. QED BY ONLY <2>1, <1>2, ChainGrows
<1>7. /\ buffer'[at] = Append(buffer[at], e) /\ buffer' \in [Slots -> Seq(Entry)]
      /\ \A t \in Slots : t # at => buffer'[t] = buffer[t]
  BY <1>3, <1>4, <1>5, <1>6
<1>8. Filed' = Filed \cup {e}
  <2>1. ToSet(buffer'[at]) = ToSet(buffer[at]) \cup {e}
    BY <1>6, <1>7
  <2>2. \A t \in Slots : t # at => ToSet(buffer'[t]) = ToSet(buffer[t])
    BY <1>7
  <2>3. \A x \in Filed' : x \in Filed \cup {e}
    BY <1>3, <2>1, <2>2 DEF Filed
  <2>4. \A x \in Filed \cup {e} : x \in Filed'
    BY <1>3, <2>1, <2>2 DEF Filed
  <2>. QED BY <2>3, <2>4
<1>9. FiledSeqs' = FiledSeqs \cup {f.seq}
  BY <1>2, <1>8 DEF FiledSeqs
<1>. QED BY <1>2, <1>3, <1>6, <1>7, <1>8, <1>9 DEF f, e, at

\* A fresh head in the window is filed behind every earlier frame of its life.
LEMMA FiledKeeps ==
  ASSUME InputsInv, uplink # << >>, ~closed, NEW d, Shortened(d),
         uplink[1].kind = "input", ~seen(uplink[1].seq), uplink[1].seq > frontier,
         uplink[1].seq <= highest + MaxSeqGap, uplink[1].tick >= -PastGrace,
         noteArrival(uplink[1]),
         buffer' = [buffer EXCEPT ![SlotOf(uplink[1])] = Append(@, FiledAs(uplink[1]))],
         UNCHANGED <<resolved, closed, dropped>>,
         UNCHANGED <<frontier, log>>, UNCHANGED <<clientVars, downlink>>
  PROVE  Ledgered' /\ Ordered'
<1>. DEFINE f == uplink[1]
            s == f.seq
            e == FiledAs(f)
            at == SlotOf(f)
<1>1. ClientTypes /\ ServerTypes
  BY TypeHalves DEF InputsInv
<1>2. Numbered /\ Apart /\ Settled /\ WireInOrder /\ NothingStuck
  BY DEF InputsInv, Ledgered
<1>3. /\ s \in Seqs /\ s > highest /\ s < seq
      /\ s \notin appliedSeqs \cup FiledSeqs \cup DOMAIN gaps
      /\ \A i \in 2 .. Len(uplink) : uplink[i].kind = "input" => uplink[i].seq > s
      /\ s \notin dropped
      /\ \A m \in (highest + 1) .. (s - 1) : m \in dropped
  BY Fresh
<1>4. /\ highest \in Int /\ frontier \in Int /\ seq \in Int /\ highest < seq
      /\ \A m \in Seqs : m \in Int /\ m >= 0
  BY <1>1, <1>2, Counters DEF Numbered
<1>5. /\ arrived' = arrived \cup {s} /\ highest' = s
      /\ DOMAIN gaps' = DOMAIN gaps \cup (highest + 1) .. (s - 1)
  BY Noted
<1>6. /\ at \in Slots /\ at <= f.tick /\ \A t \in Slots : t <= f.tick => t <= at
      /\ e.seq = s /\ e.life = f.life
      /\ \A t \in Slots : t # at => buffer'[t] = buffer[t]
      /\ ToSet(buffer'[at]) = ToSet(buffer[at]) \cup {e}
      /\ Chain(buffer[at]) /\ (\A g \in ToSet(buffer[at]) : Before(g, e)) => Chain(buffer'[at])
      /\ Filed' = Filed \cup {e} /\ FiledSeqs' = FiledSeqs \cup {s}
  BY <1>1, FiledOne
<1>7. /\ UNCHANGED <<state, lead, life, log>>
      /\ UNCHANGED <<frontier, log, seq, ack, downlink>>
  BY DEF clientVars, clockVars
<1>8. /\ 1 \in 1 .. Len(uplink) /\ Len(uplink) \in Nat /\ f.tick \in Int /\ f.life \in Int
      /\ PastGrace \in Nat /\ FutureHorizon \in Nat /\ f.tick >= -PastGrace /\ f.kind = "input"
  BY <1>1, HeadTaken, OnTheWire, Numbers DEF ClientTypes
<1>9. /\ \A m \in FiledSeqs \cup arrived \cup resolved \cup DOMAIN gaps : m \in Int /\ m <= highest
  <2>1. FiledSeqs \subseteq Seqs
    BY <1>1, FiledEntries DEF FiledSeqs
  <2>2. arrived \subseteq Seqs /\ resolved \subseteq Seqs /\ DOMAIN gaps \subseteq Seqs
    BY <1>1 DEF ServerTypes
  <2>. QED BY <1>2, <1>4, <2>1, <2>2 DEF Numbered
<1>10. s \in Int
  BY <1>3, <1>4
<1>11. d \in {0, 1} /\ \A i \in 1 .. Len(uplink') : i + d \in 1 .. Len(uplink) /\ uplink'[i] = uplink[i + d]
  BY DEF Shortened
<1>. HIDE DEF s, e, at
<1>12. \A m \in FiledSeqs' \cup arrived' \cup resolved' \cup DOMAIN gaps' : m <= highest'
  <2>1. \A m \in FiledSeqs \cup arrived \cup resolved \cup DOMAIN gaps : m <= s
    BY <1>3, <1>4, <1>9, <1>10
  <2>2. \A m \in (highest + 1) .. (s - 1) : m <= s
    BY <1>4, <1>10
  <2>. QED BY <1>5, <1>6, <1>10, <2>1, <2>2
<1>13. \A i \in 2 .. Len(uplink) : uplink[i].kind = "input" =>
         uplink[i].seq > highest' /\ uplink[i].seq \notin dropped'
  BY <1>2, <1>3, <1>5 DEF WireInOrder
<1>14. d = 0 => HeadFits'
  <2>. SUFFICES ASSUME d = 0, uplink' # << >> PROVE uplink'[1].seq \in arrived'
    BY DEF HeadFits, seen
  <2>1. uplink'[1] = uplink[1]
    <3>1. 1 \in 1 .. Len(uplink') /\ 1 + 0 = 1
      BY DEF Shortened
    <3>. QED BY <1>11, <3>1
  <2>. QED BY <1>5, <2>1 DEF s
<1>15. appliedSeqs \cap dropped' = {} /\ FiledSeqs' \cap dropped' = {} /\ FiledSeqs' \cap appliedSeqs = {}
  BY <1>2, <1>3, <1>6 DEF Apart
<1>16. resolved' \subseteq appliedSeqs \cup dropped' /\ DOMAIN gaps' \subseteq dropped' /\ dropped \subseteq dropped'
  BY <1>2, <1>3, <1>5 DEF Settled
<1>17. NothingStuck'
  <2>. SUFFICES ASSUME NEW n \in (frontier + 1) .. s
                PROVE  n \in resolved' \cup DOMAIN gaps' \cup FiledSeqs'
    BY <1>5 DEF NothingStuck
  <2>1. CASE n <= highest
    <3>1. n \in (frontier + 1) .. highest
      BY <1>4, <1>10, <2>1
    <3>2. n \in resolved \cup DOMAIN gaps \cup FiledSeqs
      BY <1>2, <3>1 DEF NothingStuck
    <3>. QED BY <1>5, <1>6, <3>2
  <2>2. CASE n > highest
    <3>1. n = s \/ n \in (highest + 1) .. (s - 1)
      BY <1>4, <1>10, <2>2
    <3>. QED BY <1>5, <1>6, <3>1
  <2>. QED BY <1>4, <1>10, <2>1, <2>2
<1>18. /\ FiledSeqs \subseteq dropped' \cup FiledSeqs' /\ highest' \in Int /\ highest <= highest' /\ highest' < seq
       /\ \A m \in dropped' : m < seq
  BY <1>2, <1>3, <1>4, <1>5, <1>6, <1>10 DEF Numbered
<1>19. uplink[1].seq \in appliedSeqs \cup dropped' \cup FiledSeqs'
  BY <1>6 DEF s
<1>20. Ledgered'
  BY <1>7, <1>12, <1>13, <1>14, <1>15, <1>16, <1>17, <1>18, <1>19, LedgerKept
\* The account of ticks.
<1>21. Lives /\ WireByTick /\ FiledByTick /\ LogChained /\ SlotsChained
  BY DEF InputsInv, Ordered
<1>22. ASSUME NEW g \in Filed PROVE g.seq \in Int /\ g.seq < s
  <2>1. g.seq \in FiledSeqs
    BY DEF FiledSeqs
  <2>. QED BY <1>3, <1>4, <1>9, <1>10, <2>1
<1>23. ASSUME NEW g \in Filed PROVE Before(g, e)
  BY <1>6, <1>10, <1>22 DEF Before
<1>24. ASSUME NEW t \in Slots, NEW g \in ToSet(buffer[t]), t > at PROVE Before(e, g)
  <2>1. g \in Filed
    BY <1>1, FiledEntries
  <2>2. g.life = f.life => t <= f.tick
    BY <1>8, <1>21 DEF FiledByTick
  <2>3. ~(t <= at)
    BY <1>6, <1>24, Numbers
  <2>4. g.life # e.life
    BY <1>6, <2>2, <2>3
  <2>5. g.seq # e.seq
    BY <1>6, <1>10, <1>22, <2>1
  <2>. QED BY <2>4, <2>5 DEF Before
<1>25. \A t \in Slots : t \in Int
  BY Numbers
<1>26. SlotsChained'
  <2>1. ASSUME NEW t \in Slots PROVE Chain(buffer'[t])
    <3>1. Chain(buffer[t])
      BY <1>21 DEF SlotsChained
    <3>2. \A g \in ToSet(buffer[t]) : Before(g, e)
      BY <1>1, <1>23, FiledEntries
    <3>. QED BY <1>6, <3>1, <3>2
  <2>2. ASSUME NEW t \in Slots, NEW u \in Slots, t < u, NEW g \in ToSet(buffer'[t]), NEW h \in ToSet(buffer'[u])
        PROVE  Before(g, h)
    <3>1. CASE g \in ToSet(buffer[t]) /\ h \in ToSet(buffer[u])
      BY <1>21, <2>2, <3>1 DEF SlotsChained
    <3>2. CASE u = at /\ h = e /\ g \in ToSet(buffer[t])
      BY <1>1, <1>23, <3>2, FiledEntries
    <3>3. CASE t = at /\ g = e /\ h \in ToSet(buffer[u])
      <4>1. u > at
        BY <1>25, <2>2, <3>3
      <4>. QED BY <1>24, <3>3, <4>1
    <3>4. ~(t = at /\ u = at)
      BY <1>25, <2>2
    <3>. QED BY <1>6, <2>2, <3>1, <3>2, <3>3, <3>4
  <2>. QED BY <2>1, <2>2 DEF SlotsChained, Chain
<1>27. LogChained'
  <2>1. \A l \in ToSet(log) : Before(l, e)
    <3>1. ASSUME NEW l \in ToSet(log) PROVE l.seq \in Int /\ l.seq < s
      <4>1. l.seq \in appliedSeqs
        BY <1>1 DEF ToSet, appliedSeqs, ServerTypes
      <4>2. l.seq <= highest /\ l.seq \in Int
        BY <1>1, <1>2, <1>4, <4>1, AppliedNumbers DEF Numbered
      <4>. QED BY <1>3, <1>4, <1>10, <4>2
    <3>. QED BY <1>6, <1>10, <3>1 DEF Before
  <2>. QED BY <1>6, <1>7, <1>21, <2>1 DEF LogChained, Chain
<1>28. Lives'
  <2>1. \A i \in 1 .. Len(uplink') : uplink'[i].kind = "input" =>
          uplink'[i].life <= life /\ (state = "joining" => uplink'[i].life < life)
    BY <1>11, <1>21 DEF Lives
  <2>2. \A g \in Filed' : g.life <= life /\ (state = "joining" => g.life < life)
    <3>1. e.life <= life /\ (state = "joining" => e.life < life)
      BY <1>6, <1>8, <1>21 DEF Lives
    <3>. QED BY <1>6, <1>21, <3>1 DEF Lives
  <2>. QED BY <1>7, <2>1, <2>2 DEF Lives
<1>29. WireByTick'
  <2>1. \A i, j \in 1 .. Len(uplink') : i < j => i + d < j + d
    BY <1>1, <1>11 DEF Shortened
  <2>2. \A i, j \in 1 .. Len(uplink') :
          /\ i < j /\ uplink'[i].kind = "input" /\ uplink'[j].kind = "input" /\ uplink'[i].life = uplink'[j].life
          => uplink'[i].tick < -PastGrace \/ uplink'[i].tick <= uplink'[j].tick
    BY <1>11, <1>21, <2>1 DEF WireByTick
  <2>3. \A i \in 1 .. Len(uplink') :
          uplink'[i].kind = "input" /\ state # "joining" /\ uplink'[i].life = life =>
          uplink'[i].tick < -PastGrace \/ uplink'[i].tick <= lead
    BY <1>11, <1>21 DEF WireByTick
  <2>. QED BY <1>7, <2>2, <2>3 DEF WireByTick
<1>30. FiledByTick'
  <2>1. \A i \in 1 .. Len(uplink) : uplink[i].kind = "input" /\ uplink[i].life = f.life => f.tick <= uplink[i].tick
    <3>1. ASSUME NEW i \in 1 .. Len(uplink), uplink[i].kind = "input", uplink[i].life = f.life, i # 1
          PROVE  f.tick <= uplink[i].tick
      <4>1. 1 < i
        BY <1>8, <3>1
      <4>2. ~(f.tick < -PastGrace)
        BY <1>8
      <4>. QED BY <1>8, <1>21, <3>1, <4>1, <4>2 DEF WireByTick
    <3>. QED BY <1>8, <3>1
  <2>2. state # "joining" /\ f.life = life => f.tick <= lead
    <3>1. ~(f.tick < -PastGrace)
      BY <1>8
    <3>. QED BY <1>8, <1>21, <3>1 DEF WireByTick
  <2>3. at \in Int /\ lead \in Int /\ \A i \in 1 .. Len(uplink) : uplink[i].kind = "input" => uplink[i].tick \in Int
    BY <1>1, <1>6, <1>25, OnTheWire DEF ClientTypes
  <2>4. /\ state # "joining" /\ e.life = life => at <= lead
        /\ \A i \in 1 .. Len(uplink) : uplink[i].kind = "input" /\ uplink[i].life = e.life => at <= uplink[i].tick
    BY <1>6, <1>8, <2>1, <2>2, <2>3
  <2>5. ASSUME NEW t \in Slots, NEW g \in ToSet(buffer'[t])
        PROVE  /\ state # "joining" /\ g.life = life => t <= lead
               /\ \A i \in 1 .. Len(uplink) : uplink[i].kind = "input" /\ uplink[i].life = g.life => t <= uplink[i].tick
    <3>1. CASE g \in ToSet(buffer[t])
      BY <1>21, <3>1 DEF FiledByTick
    <3>2. CASE t = at /\ g = e
      BY <2>4, <3>2
    <3>. QED BY <1>6, <2>5, <3>1, <3>2
  <2>. QED BY <1>7, <1>11, <2>5 DEF FiledByTick
<1>. QED BY <1>20, <1>26, <1>27, <1>28, <1>29, <1>30 DEF Ordered

\* The rate bucket, either way.
LEMMA TokenTaken ==
  ASSUME ServerTypes, takeToken
  PROVE  tokens' \in 0 .. Bucket /\ refusals' \in Nat
<1>1. tokens \in 0 .. Bucket /\ refusals \in Nat /\ Bucket \in Nat
  BY Numbers DEF ServerTypes
<1>2. tokens > 0 /\ tokens' = tokens - 1 /\ refusals' = refusals
  BY DEF takeToken
<1>. QED BY <1>1, <1>2

LEMMA TokenRefused ==
  ASSUME ServerTypes, NEW G, overRate(G)
  PROVE  tokens' \in 0 .. Bucket /\ refusals' \in Nat /\ Gives(G)
<1>1. tokens' = tokens /\ refusals' = refusals + 1
  BY DEF overRate
<1>2. Gives(G)
  BY DEF overRate, Gives
<1>. QED BY <1>1, <1>2 DEF ServerTypes

\* AdmissionState and the session, as a message is received.
LEMMA ReceiveKeeps ==
  ASSUME InputsInv, receive
  PROVE  InputsInv'
<1>. DEFINE f == uplink[1]
<1>1. ClientTypes /\ ServerTypes
  BY TypeHalves DEF InputsInv
<1>2. /\ uplink # << >> /\ ~closed /\ UNCHANGED <<clientVars, downlink>>
      /\ UNCHANGED <<folded, log, letGo>>
  BY DEF receive
<1>3. /\ 1 \in 1 .. Len(uplink) /\ Head(uplink) = f
      /\ uplink' = Tail(uplink) => Shortened(1)
      /\ uplink' = uplink => Shortened(0)
  BY <1>1, <1>2, HeadTaken
<1>4. \/ /\ f.kind = "join" /\ owed' = TRUE /\ uplink' = Tail(uplink)
         /\ UNCHANGED <<frontier, resolved, arrived, gaps, highest>>
         /\ UNCHANGED <<tokens, refusals, buffer, closed, dropped>>
      \/ /\ f.kind = "ask" /\ UNCHANGED <<frontier, resolved, arrived, gaps, highest>> /\ UNCHANGED owed
         /\ (takeToken /\ UNCHANGED <<buffer, closed, dropped>>) \/ overRate({})
         /\ uplink' = Tail(uplink)
      \/ /\ f.kind = "input" /\ admit(f) /\ UNCHANGED <<frontier, owed>>
         /\ uplink' = Tail(uplink) \/ uplink' = uplink
      \/ /\ f.kind = "input" /\ ~seen(f.seq) /\ f.seq > frontier
         /\ dropped' = dropped \cup {f.seq} /\ uplink' = Tail(uplink)
         /\ UNCHANGED <<frontier, resolved, arrived, gaps, highest>>
         /\ UNCHANGED <<tokens, refusals, buffer, closed, owed>>
  BY <1>3 DEF receive
<1>5. ASSUME NEW d, Shortened(d) PROVE ClientTypes'
  <2>1. uplink' \in Seq(Uplinked)
    BY <1>5 DEF Shortened
  <2>. QED BY <1>1, <1>2, <2>1 DEF ClientTypes, clientVars, deviceVars, ringVars, clockVars
\* What is left of ServerTypes' when a step gives up numbers.
<1>6. ASSUME NEW G \in SUBSET Seqs, Gives(G), tokens' \in 0 .. Bucket, refusals' \in Nat,
             owed' \in BOOLEAN, UNCHANGED frontier,
             highest' \in Seqs \cup {-1}, resolved' \subseteq Seqs, arrived' \subseteq Seqs,
             DOMAIN gaps' \subseteq Seqs, gaps' \in [DOMAIN gaps' -> Int]
      PROVE  ServerTypes'
  <2>1. buffer' \in [Slots -> Seq(Entry)] /\ closed' \in BOOLEAN /\ dropped' \subseteq Seqs
    BY <1>1, <1>6, Given
  <2>. QED BY <1>1, <1>2, <1>6, <2>1 DEF ServerTypes
<1>7. f.kind = "input" => f.seq \in Seqs /\ f.tick \in Int
  BY <1>1, <1>3, OnTheWire
<1>8. /\ tokens \in 0 .. Bucket /\ refusals \in Nat /\ owed \in BOOLEAN
      /\ highest \in Seqs \cup {-1} /\ resolved \subseteq Seqs /\ arrived \subseteq Seqs
      /\ DOMAIN gaps \subseteq Seqs /\ gaps \in [DOMAIN gaps -> Int]
  BY <1>1 DEF ServerTypes
<1>9. /\ highest \in Int /\ frontier \in Int /\ MaxSeqGap \in Nat /\ \A m \in Seqs : m \in Int
  BY <1>1, Counters
<1>. HIDE DEF f
<1>10. CASE /\ f.kind = "join" /\ owed' = TRUE /\ uplink' = Tail(uplink)
            /\ UNCHANGED <<frontier, resolved, arrived, gaps, highest>>
            /\ UNCHANGED <<tokens, refusals, buffer, closed, dropped>>
  <2>1. Shortened(1) /\ Gives({}) /\ f.kind # "input"
    BY <1>3, <1>10 DEF Gives
  <2>2. Ledgered' /\ Ordered'
    BY <1>2, <1>10, <2>1, SetAsideKeeps DEF f
  <2>3. ServerTypes'
    BY <1>6, <1>8, <1>10, <2>1
  <2>. QED BY <1>5, <2>1, <2>2, <2>3 DEF InputsInv, TypeOK, ClientTypes, ServerTypes
<1>11. CASE /\ f.kind = "ask" /\ UNCHANGED <<frontier, resolved, arrived, gaps, highest>> /\ UNCHANGED owed
            /\ (takeToken /\ UNCHANGED <<buffer, closed, dropped>>) \/ overRate({})
            /\ uplink' = Tail(uplink)
  <2>1. Shortened(1) /\ f.kind # "input"
    BY <1>3, <1>11
  <2>2. Gives({}) /\ tokens' \in 0 .. Bucket /\ refusals' \in Nat
    <3>1. CASE takeToken /\ UNCHANGED <<buffer, closed, dropped>>
      BY <1>1, <3>1, TokenTaken DEF Gives
    <3>2. CASE overRate({})
      BY <1>1, <3>2, TokenRefused
    <3>. QED BY <1>11, <3>1, <3>2
  <2>3. Ledgered' /\ Ordered'
    BY <1>2, <1>11, <2>1, <2>2, SetAsideKeeps DEF f
  <2>4. ServerTypes'
    BY <1>6, <1>8, <1>11, <2>2
  <2>. QED BY <1>5, <2>1, <2>3, <2>4 DEF InputsInv, TypeOK, ClientTypes, ServerTypes
<1>12. CASE /\ f.kind = "input" /\ ~seen(f.seq) /\ f.seq > frontier
            /\ dropped' = dropped \cup {f.seq} /\ uplink' = Tail(uplink)
            /\ UNCHANGED <<frontier, resolved, arrived, gaps, highest>>
            /\ UNCHANGED <<tokens, refusals, buffer, closed, owed>>
  <2>1. Shortened(1) /\ Gives({f.seq}) /\ {f.seq} \in SUBSET Seqs
    BY <1>3, <1>7, <1>12 DEF Gives
  <2>2. Ledgered' /\ Ordered'
    BY <1>2, <1>12, <2>1, SetAsideKeeps DEF f
  <2>3. ServerTypes'
    BY <1>6, <1>8, <1>12, <2>1
  <2>. QED BY <1>5, <2>1, <2>2, <2>3 DEF InputsInv, TypeOK, ClientTypes, ServerTypes
<1>13. CASE /\ f.kind = "input" /\ admit(f) /\ UNCHANGED <<frontier, owed>>
            /\ uplink' = Tail(uplink) \/ uplink' = uplink
  <2>. DEFINE repeated == f.seq <= frontier \/ seen(f.seq)
              tooFar == f.seq > highest + MaxSeqGap
              outside == f.tick < -PastGrace \/ f.tick > FutureHorizon + ClampTicks
  <2>1. PICK d : Shortened(d)
    BY <1>3, <1>13
  <2>2. f.seq \in Seqs /\ f.seq \in Int /\ f.tick \in Int /\ {f.seq} \in SUBSET Seqs
    BY <1>7, <1>9, <1>13
  <2>3. \/ /\ repeated \/ tooFar
           /\ dropped' = IF repeated THEN dropped ELSE dropped \cup {f.seq}
           /\ UNCHANGED <<arrived, gaps, highest, resolved, tokens, refusals, buffer, closed>>
        \/ /\ ~repeated /\ ~tooFar /\ noteArrival(f)
           /\ \/ /\ outside /\ resolve(f)
                 /\ dropped' = dropped \cup {f.seq}
                 /\ UNCHANGED <<tokens, refusals, closed, buffer>>
              \/ ~outside /\ overRate({f.seq}) /\ resolve(f)
              \/ /\ ~outside /\ takeToken
                 /\ buffer' = [buffer EXCEPT ![SlotOf(f)] = Append(@, FiledAs(f))]
                 /\ UNCHANGED <<resolved, closed, dropped>>
    BY <1>13 DEF admit, SlotOf, FiledAs
  <2>4. CASE repeated /\ dropped' = dropped
             /\ UNCHANGED <<arrived, gaps, highest, resolved, tokens, refusals, buffer, closed>>
    <3>1. Gives({})
      BY <2>4 DEF Gives
    <3>2. Ledgered' /\ Ordered'
      BY <1>2, <1>13, <2>1, <2>4, <3>1, SetAsideKeeps DEF f
    <3>3. ServerTypes'
      BY <1>6, <1>8, <1>13, <2>4, <3>1
    <3>. QED BY <1>5, <2>1, <3>2, <3>3 DEF InputsInv, TypeOK, ClientTypes, ServerTypes
  <2>5. CASE ~repeated /\ tooFar /\ dropped' = dropped \cup {f.seq}
             /\ UNCHANGED <<arrived, gaps, highest, resolved, tokens, refusals, buffer, closed>>
    <3>1. Gives({f.seq}) /\ f.seq > frontier /\ ~seen(f.seq)
      BY <1>9, <2>2, <2>5 DEF Gives
    <3>2. Ledgered' /\ Ordered'
      BY <1>2, <1>13, <2>1, <2>5, <3>1, SetAsideKeeps DEF f
    <3>3. ServerTypes'
      BY <1>6, <1>8, <1>13, <2>2, <2>5, <3>1
    <3>. QED BY <1>5, <2>1, <3>2, <3>3 DEF InputsInv, TypeOK, ClientTypes, ServerTypes
  <2>6. ASSUME ~repeated, ~tooFar, noteArrival(f)
        PROVE  /\ f.seq > frontier /\ ~seen(f.seq) /\ f.seq <= highest + MaxSeqGap
               /\ arrived' \subseteq Seqs /\ highest' \in Seqs \cup {-1}
               /\ DOMAIN gaps' \subseteq Seqs /\ gaps' \in [DOMAIN gaps' -> Int]
    <3>1. f.seq > frontier /\ ~seen(f.seq) /\ f.seq <= highest + MaxSeqGap
      BY <1>9, <2>2, <2>6
    <3>2. /\ arrived' = arrived \cup {f.seq} /\ highest' = f.seq
          /\ DOMAIN gaps' \subseteq Seqs /\ gaps' \in [DOMAIN gaps' -> Int]
      BY <1>2, <1>13, <2>6, <3>1, Noted DEF f
    <3>. QED BY <1>8, <2>2, <3>1, <3>2
  <2>7. CASE /\ ~repeated /\ ~tooFar /\ noteArrival(f) /\ resolve(f)
             /\ Gives({f.seq}) /\ tokens' \in 0 .. Bucket /\ refusals' \in Nat
    <3>1. /\ f.seq > frontier /\ ~seen(f.seq) /\ f.seq <= highest + MaxSeqGap
          /\ arrived' \subseteq Seqs /\ highest' \in Seqs \cup {-1}
          /\ DOMAIN gaps' \subseteq Seqs /\ gaps' \in [DOMAIN gaps' -> Int]
      BY <2>6, <2>7
    <3>2. Ledgered' /\ Ordered'
      BY <1>2, <1>13, <2>1, <2>7, <3>1, RefusedKeeps DEF f
    <3>3. resolved' \subseteq Seqs
      BY <1>8, <2>2, <2>7 DEF resolve
    <3>4. ServerTypes'
      BY <1>6, <1>8, <1>13, <2>2, <2>7, <3>1, <3>3
    <3>. QED BY <1>5, <2>1, <3>2, <3>4 DEF InputsInv, TypeOK, ClientTypes, ServerTypes
  <2>8. CASE /\ ~repeated /\ ~tooFar /\ noteArrival(f)
             /\ ~outside /\ takeToken
             /\ buffer' = [buffer EXCEPT ![SlotOf(f)] = Append(@, FiledAs(f))]
             /\ UNCHANGED <<resolved, closed, dropped>>
    <3>1. /\ f.seq > frontier /\ ~seen(f.seq) /\ f.seq <= highest + MaxSeqGap
          /\ arrived' \subseteq Seqs /\ highest' \in Seqs \cup {-1}
          /\ DOMAIN gaps' \subseteq Seqs /\ gaps' \in [DOMAIN gaps' -> Int]
      BY <2>6, <2>8
    <3>2. f.tick >= -PastGrace
      BY <2>2, <2>8, Numbers
    <3>3. Ledgered' /\ Ordered'
      BY <1>2, <1>13, <2>1, <2>8, <3>1, <3>2, FiledKeeps DEF f
    <3>4. buffer' \in [Slots -> Seq(Entry)]
      BY <1>1, <1>2, <1>13, <2>8, <3>2, FiledOne DEF f
    <3>5. tokens' \in 0 .. Bucket /\ refusals' \in Nat
      BY <1>1, <2>8, TokenTaken
    <3>6. ServerTypes'
      BY <1>1, <1>2, <1>13, <2>8, <3>1, <3>4, <3>5 DEF ServerTypes
    <3>. QED BY <1>5, <2>1, <3>3, <3>6 DEF InputsInv, TypeOK, ClientTypes, ServerTypes
  <2>9. ASSUME outside, dropped' = dropped \cup {f.seq}, UNCHANGED <<tokens, refusals, closed, buffer>>
        PROVE  Gives({f.seq}) /\ tokens' \in 0 .. Bucket /\ refusals' \in Nat
    BY <1>8, <2>9 DEF Gives
  <2>10. ASSUME overRate({f.seq}) PROVE Gives({f.seq}) /\ tokens' \in 0 .. Bucket /\ refusals' \in Nat
    BY <1>1, <2>10, TokenRefused
  <2>. HIDE DEF repeated, tooFar, outside
  <2>. QED BY <2>3, <2>4, <2>5, <2>7, <2>8, <2>9, <2>10
<1>. QED BY <1>4, <1>10, <1>11, <1>12, <1>13

-----------------------------------------------------------------------------
(* The authority steps. *)

\* A tick grows older by one, down to as old as any.
LEMMA Ages ==
  ASSUME NEW t \in Int
  PROVE  /\ age(t) \in Int
         /\ t > Oldest => age(t) = t - 1
         /\ t <= Oldest => age(t) = t
         /\ t \in Oldest .. 0 => age(t) \in Oldest .. 0
<1>1. Oldest \in Int
  BY Numbers
<1>. QED BY <1>1 DEF age

\* A step changes nothing on the wire but the ticks.
LEMMA AgedUp ==
  ASSUME ClientTypes
  PROVE  /\ aged(uplink) \in Seq(Uplinked) /\ Len(aged(uplink)) = Len(uplink)
         /\ \A i \in 1 .. Len(uplink) :
              /\ aged(uplink)[i].kind = uplink[i].kind
              /\ uplink[i].kind = "input" =>
                   /\ aged(uplink)[i].seq = uplink[i].seq /\ aged(uplink)[i].life = uplink[i].life
                   /\ aged(uplink)[i].tick = age(uplink[i].tick)
<1>. DEFINE g(m) == IF m.kind \in {"input", "state", "welcome"} THEN [m EXCEPT !.tick = age(@)] ELSE m
            w == aged(uplink)
<1>1. uplink \in Seq(Uplinked) /\ Len(uplink) \in Nat
  BY DEF ClientTypes
<1>2. ASSUME NEW m \in Uplinked
      PROVE  /\ g(m) \in Uplinked /\ g(m).kind = m.kind
             /\ m.kind = "input" => g(m).seq = m.seq /\ g(m).life = m.life /\ g(m).tick = age(m.tick)
  <2>1. CASE m \in [kind : {"join", "ask"}]
    BY <2>1 DEF Uplinked
  <2>2. CASE m \in [kind : {"input"}, seq : Seqs, edges : Seq(Edges), tick : Int, life : 0 .. MaxResyncs]
    <3>1. /\ m.kind = "input" /\ m.seq \in Seqs /\ m.edges \in Seq(Edges) /\ m.life \in 0 .. MaxResyncs
          /\ m.tick \in Int
      BY <2>2
    <3>2. age(m.tick) \in Int
      BY <3>1, Ages
    <3>. QED BY <2>2, <3>1, <3>2 DEF Uplinked
  <2>. QED BY <2>1, <2>2 DEF Uplinked
<1>3. w = [i \in 1 .. Len(uplink) |-> g(uplink[i])]
  BY DEF aged
<1>4. \A i \in 1 .. Len(uplink) : uplink[i] \in Uplinked
  BY <1>1
<1>. HIDE DEF g, w
<1>5. w \in Seq(Uplinked) /\ Len(w) = Len(uplink) /\ \A i \in 1 .. Len(uplink) : w[i] = g(uplink[i])
  BY <1>1, <1>2, <1>3, <1>4
<1>. QED BY <1>2, <1>4, <1>5 DEF w

LEMMA AgedDown ==
  ASSUME ClientTypes
  PROVE  /\ aged(downlink) \in Seq(Downlinked) /\ Len(aged(downlink)) = Len(downlink)
         /\ \A i \in 1 .. Len(downlink) :
              /\ aged(downlink)[i].kind = downlink[i].kind
              /\ downlink[i].kind = "state" => aged(downlink)[i].ack = downlink[i].ack
<1>. DEFINE g(m) == IF m.kind \in {"input", "state", "welcome"} THEN [m EXCEPT !.tick = age(@)] ELSE m
            w == aged(downlink)
<1>1. downlink \in Seq(Downlinked) /\ Len(downlink) \in Nat
  BY DEF ClientTypes
<1>2. ASSUME NEW m \in Downlinked
      PROVE  /\ g(m) \in Downlinked /\ g(m).kind = m.kind
             /\ m.kind = "state" => g(m).ack = m.ack
  <2>1. CASE m \in [kind : {"rate-change"}]
    BY <2>1 DEF Downlinked
  <2>2. CASE m \in [kind : {"welcome"}, tick : Oldest .. 0]
    <3>1. m.kind = "welcome" /\ m.tick \in Oldest .. 0
      BY <2>2
    <3>2. age(m.tick) \in Oldest .. 0
      <4>1. m.tick \in Int
        BY <3>1, Numbers
      <4>. QED BY <3>1, <4>1, Ages
    <3>. QED BY <2>2, <3>1, <3>2 DEF Downlinked
  <2>3. CASE m \in [kind : {"state"}, tick : Oldest .. 0, ack : Seqs \cup {-1}]
    <3>1. m.kind = "state" /\ m.tick \in Oldest .. 0 /\ m.ack \in Seqs \cup {-1}
      BY <2>3
    <3>2. age(m.tick) \in Oldest .. 0
      <4>1. m.tick \in Int
        BY <3>1, Numbers
      <4>. QED BY <3>1, <4>1, Ages
    <3>. QED BY <2>3, <3>1, <3>2 DEF Downlinked
  <2>. QED BY <2>1, <2>2, <2>3 DEF Downlinked
<1>3. w = [i \in 1 .. Len(downlink) |-> g(downlink[i])]
  BY DEF aged
<1>4. \A i \in 1 .. Len(downlink) : downlink[i] \in Downlinked
  BY <1>1
<1>. HIDE DEF g, w
<1>5. w \in Seq(Downlinked) /\ Len(w) = Len(downlink) /\ \A i \in 1 .. Len(downlink) : w[i] = g(downlink[i])
  BY <1>1, <1>2, <1>3, <1>4
<1>. QED BY <1>2, <1>4, <1>5 DEF w

\* The numbers a step applies, abandons and settles.
AppliedNow == {drainThrough[i].seq : i \in 1 .. Len(drainThrough)}
Stale == {n \in DOMAIN gaps : age(gaps[n]) < -PastGrace}
SettledNow == resolved \cup {n \in AppliedNow : n > frontier} \cup Stale
Noting == [i \in 1 .. Len(drainThrough) |-> [seq |-> drainThrough[i].seq, life |-> drainThrough[i].life]]

\* What a step does, by name.
StepsAs(sends) ==
  /\ ~closed
  /\ tokens' = IF tokens < Bucket THEN tokens + 1 ELSE tokens
  /\ folded' = Neutral \/ folded' = foldFrames(folded, drainThrough)
  /\ letGo' \in BOOLEAN
  /\ buffer' = [t \in Slots |-> IF t \in 1 .. (FutureHorizon - 1) THEN buffer[t + 1] ELSE << >>]
  /\ log' = log \o Noting
  /\ gaps' = [n \in DOMAIN gaps \ (Stale \cup AppliedNow) |-> age(gaps[n])]
  /\ IF sends THEN send(SettledNow)
     ELSE resolved' = SettledNow /\ downlink' = aged(downlink) /\ UNCHANGED <<frontier, arrived, owed>>
  /\ uplink' = aged(uplink)
  /\ lead' = IF state = "joining" THEN lead ELSE lead - 1
  /\ depicted' = age(depicted)
  /\ UNCHANGED <<down, sentAxes, state, pending, acts, ring, horizon, seq, asked, ack, rejoined, life,
                 highest, refusals, closed, dropped>>

LEMMA StepNamed ==
  ASSUME ServerTypes, NEW sends \in BOOLEAN, stepOnce(sends)
  PROVE  StepsAs(sends)
<1>. DEFINE bound == [n \in DOMAIN gaps |-> age(gaps[n])]
            stale == {n \in DOMAIN bound : bound[n] < -PastGrace}
<1>1. stale = Stale /\ DOMAIN bound = DOMAIN gaps /\ \A n \in DOMAIN gaps : bound[n] = age(gaps[n])
  BY DEF Stale
<1>2. [n \in DOMAIN gaps \ (stale \cup AppliedNow) |-> bound[n]]
        = [n \in DOMAIN gaps \ (Stale \cup AppliedNow) |-> age(gaps[n])]
  BY <1>1
<1>3. resolved \cup {n \in AppliedNow : n > frontier} \cup stale = SettledNow
  BY <1>1 DEF SettledNow
<1>4. \E silent \in Silences : /\ folded' = IF silent THEN Neutral ELSE foldFrames(folded, drainThrough)
                               /\ letGo' = (letGo \/ silent)
  BY DEF stepOnce
<1>5. folded' = Neutral \/ folded' = foldFrames(folded, drainThrough)
  BY <1>4
<1>6. letGo' \in BOOLEAN
  <2>1. letGo \in BOOLEAN /\ Silences \subseteq BOOLEAN
    BY DEF ServerTypes, Silences
  <2>. QED BY <1>4, <2>1
<1>7. gaps' = [n \in DOMAIN gaps \ (Stale \cup AppliedNow) |-> age(gaps[n])]
  BY <1>2 DEF stepOnce, AppliedNow
<1>8. log' = log \o Noting
  BY DEF stepOnce, Noting
<1>9. IF sends THEN send(SettledNow)
      ELSE resolved' = SettledNow /\ downlink' = aged(downlink) /\ UNCHANGED <<frontier, arrived, owed>>
  BY <1>3 DEF stepOnce, AppliedNow
<1>10. /\ ~closed
       /\ tokens' = IF tokens < Bucket THEN tokens + 1 ELSE tokens
       /\ buffer' = [t \in Slots |-> IF t \in 1 .. (FutureHorizon - 1) THEN buffer[t + 1] ELSE << >>]
       /\ uplink' = aged(uplink)
       /\ lead' = IF state = "joining" THEN lead ELSE lead - 1
       /\ depicted' = age(depicted)
       /\ UNCHANGED <<down, sentAxes, state, pending, acts, ring, horizon, seq, asked, ack, rejoined, life,
                      highest, refusals, closed, dropped>>
  BY DEF stepOnce, deviceVars, ringVars
<1>. QED BY <1>5, <1>6, <1>7, <1>8, <1>9, <1>10 DEF StepsAs

\* The slots that are not due move down by one tick.
LEMMA Advanced ==
  ASSUME ServerTypes, SlotsChained,
         buffer' = [t \in Slots |-> IF t \in 1 .. (FutureHorizon - 1) THEN buffer[t + 1] ELSE << >>]
  PROVE  /\ buffer' \in [Slots -> Seq(Entry)]
         /\ \A t \in Slots : buffer'[t] = << >> \/ (t >= 1 /\ t + 1 \in Slots /\ buffer'[t] = buffer[t + 1])
         /\ Filed = Below(1) \cup Filed'
         /\ \A f \in Below(1), g \in Filed' : Before(f, g)
         /\ FiledSeqs = AppliedNow \cup FiledSeqs' /\ AppliedNow \cap FiledSeqs' = {}
<1>1. buffer \in [Slots -> Seq(Entry)]
  BY DEF ServerTypes
<1>2. PastGrace \in Nat /\ FutureHorizon \in Nat /\ FutureHorizon >= 1 /\ Slots = -PastGrace .. FutureHorizon
  BY Numbers
<1>3. ASSUME NEW t \in 1 .. (FutureHorizon - 1) PROVE t \in Slots /\ t + 1 \in Slots /\ t >= 1 /\ t + 1 > 1
  BY <1>2
<1>4. << >> \in Seq(Entry) /\ ToSet(<< >>) = {}
  BY DEF ToSet
<1>5. /\ \A t \in Slots : buffer'[t] = << >> \/ (t >= 1 /\ t + 1 \in Slots /\ t + 1 > 1 /\ buffer'[t] = buffer[t + 1])
      /\ \A t \in 1 .. (FutureHorizon - 1) : buffer'[t] = buffer[t + 1]
  BY <1>3
<1>6. buffer' \in [Slots -> Seq(Entry)]
  BY <1>1, <1>3, <1>4
<1>7. \A t \in -PastGrace .. 1 : t \in Slots
  BY <1>2
<1>8. ASSUME NEW x \in Filed' PROVE \E t \in Slots : t > 1 /\ x \in ToSet(buffer[t])
  <2>1. PICK t \in Slots : x \in ToSet(buffer'[t])
    BY DEF Filed
  <2>2. buffer'[t] = buffer[t + 1] /\ t + 1 \in Slots /\ t + 1 > 1
    BY <1>4, <1>5, <2>1
  <2>. QED BY <2>1, <2>2
<1>9. ASSUME NEW t \in Slots, NEW x \in ToSet(buffer[t]), t > 1 PROVE x \in Filed'
  <2>. DEFINE u == t - 1
  <2>1. u \in 1 .. (FutureHorizon - 1) /\ u + 1 = t /\ u \in Slots
    BY <1>2, <1>9
  <2>. HIDE DEF u
  <2>2. x \in ToSet(buffer'[u])
    BY <1>5, <1>9, <2>1
  <2>. QED BY <2>1, <2>2 DEF Filed
<1>10. Filed = Below(1) \cup Filed'
  <2>1. ASSUME NEW x \in Filed PROVE x \in Below(1) \cup Filed'
    <3>1. PICK t \in Slots : x \in ToSet(buffer[t])
      BY DEF Filed
    <3>2. CASE t > 1
      BY <1>9, <3>1, <3>2
    <3>3. CASE ~(t > 1)
      <4>1. t \in -PastGrace .. 1
        BY <1>2, <3>1, <3>3
      <4>. QED BY <3>1, <4>1 DEF Below
    <3>. QED BY <3>2, <3>3
  <2>2. ASSUME NEW x \in Below(1) PROVE x \in Filed
    BY <1>7 DEF Below, Filed
  <2>3. ASSUME NEW x \in Filed' PROVE x \in Filed
    BY <1>8 DEF Filed
  <2>. QED BY <2>1, <2>2, <2>3
<1>11. ASSUME NEW f \in Below(1), NEW g \in Filed' PROVE Before(f, g)
  <2>1. PICK t \in -PastGrace .. 1 : f \in ToSet(buffer[t])
    BY DEF Below
  <2>2. PICK u \in Slots : u > 1 /\ g \in ToSet(buffer[u])
    BY <1>8
  <2>3. t \in Slots /\ t < u
    BY <1>2, <2>1, <2>2
  <2>. QED BY <2>1, <2>2, <2>3 DEF SlotsChained
<1>12. AppliedNow = {f.seq : f \in Below(1)}
  <2>1. drainThrough \in Seq(Entry) /\ ToSet(drainThrough) = Below(1)
    BY <1>1, Drained
  <2>2. DOMAIN drainThrough = 1 .. Len(drainThrough)
    BY <2>1
  <2>. QED BY <2>1, <2>2 DEF AppliedNow, ToSet
<1>13. FiledSeqs = AppliedNow \cup FiledSeqs'
  BY <1>10, <1>12 DEF FiledSeqs
<1>14. AppliedNow \cap FiledSeqs' = {}
  BY <1>11, <1>12 DEF FiledSeqs, Before
<1>. QED BY <1>5, <1>6, <1>10, <1>11, <1>13, <1>14

LogEntry == [seq : Seqs, life : 0 .. MaxResyncs]

\* What is due goes to the log as it was drained.
LEMMA Logs ==
  ASSUME ServerTypes, SlotsChained, LogChained, Filed = Below(1) \cup Filed',
         \A f \in Below(1), g \in Filed' : Before(f, g), log' = log \o Noting
  PROVE  /\ log' \in Seq(LogEntry) /\ LogChained'
         /\ appliedSeqs' = appliedSeqs \cup AppliedNow
<1>. DEFINE due == drainThrough
            q == Noting
<1>1. buffer \in [Slots -> Seq(Entry)] /\ log \in Seq(LogEntry)
  BY DEF ServerTypes, LogEntry
<1>2. due \in Seq(Entry) /\ Chain(due) /\ ToSet(due) = Below(1)
  BY <1>1, Drained
<1>3. \A i \in 1 .. Len(due) : due[i] \in Entry /\ due[i] \in ToSet(due)
  BY <1>2 DEF ToSet
<1>4. \A e \in Entry : [seq |-> e.seq, life |-> e.life] \in LogEntry
  BY DEF Entry, LogEntry
<1>5. q = [i \in 1 .. Len(due) |-> [seq |-> due[i].seq, life |-> due[i].life]] /\ Len(due) \in Nat
  BY <1>2 DEF Noting
<1>. HIDE DEF due, q
<1>6. /\ q \in Seq(LogEntry) /\ Len(q) = Len(due) /\ DOMAIN q = 1 .. Len(due)
      /\ \A i \in 1 .. Len(due) : q[i].seq = due[i].seq /\ q[i].life = due[i].life
  <2>1. \A i \in 1 .. Len(due) : [seq |-> due[i].seq, life |-> due[i].life] \in LogEntry
    BY <1>3, <1>4
  <2>. QED BY <1>5, <2>1
<1>7. Chain(q)
  BY <1>2, <1>6 DEF Chain, Before
<1>8. \A g \in ToSet(q) : \E i \in 1 .. Len(due) : g.seq = due[i].seq /\ g.life = due[i].life /\ due[i] \in Below(1)
  BY <1>2, <1>3, <1>6 DEF ToSet
<1>9. \A l \in ToSet(log), g \in ToSet(q) : Before(l, g)
  <2>1. \A l \in ToSet(log), f \in Below(1) : Before(l, f)
    BY DEF LogChained
  <2>. QED BY <1>8, <2>1 DEF Before
<1>10. log \o q \in Seq(LogEntry) /\ Chain(log \o q) /\ ToSet(log \o q) = ToSet(log) \cup ToSet(q)
  <2>1. Chain(log)
    BY DEF LogChained
  <2>. QED BY ONLY <1>1, <1>6, <1>7, <1>9, <2>1, TwoChains
<1>11. log' = log \o q
  BY DEF q
<1>12. LogChained'
  <2>1. ASSUME NEW l \in ToSet(log'), NEW f \in Filed' PROVE Before(l, f)
    <3>1. CASE l \in ToSet(log)
      BY <3>1 DEF LogChained
    <3>2. CASE l \in ToSet(q)
      <4>1. PICK i \in 1 .. Len(due) : l.seq = due[i].seq /\ l.life = due[i].life /\ due[i] \in Below(1)
        BY <1>8, <3>2
      <4>2. Before(due[i], f)
        BY <4>1
      <4>. QED BY <4>1, <4>2 DEF Before
    <3>. QED BY <1>10, <1>11, <2>1, <3>1, <3>2
  <2>2. Chain(log')
    BY <1>10, <1>11
  <2>. QED BY <2>1, <2>2 DEF LogChained, Chain
<1>13. appliedSeqs = {l.seq : l \in ToSet(log)} /\ appliedSeqs' = {l.seq : l \in ToSet(log')}
  <2>1. DOMAIN log = 1 .. Len(log)
    BY <1>1
  <2>2. DOMAIN log' = 1 .. Len(log')
    <3>1. \A z \in Seq(LogEntry) : DOMAIN z = 1 .. Len(z)
      OBVIOUS
    <3>. QED BY <1>10, <1>11, <3>1
  <2>. QED BY <2>1, <2>2 DEF appliedSeqs, ToSet
<1>14. AppliedNow = {l.seq : l \in ToSet(q)}
  BY <1>6 DEF AppliedNow, ToSet, due
<1>15. appliedSeqs' = appliedSeqs \cup AppliedNow
  BY <1>10, <1>11, <1>13, <1>14
<1>. QED BY <1>10, <1>11, <1>12, <1>15

\* Session.send: a Welcome, or the state with the contiguous run of settled numbers.
LEMMA Answers ==
  ASSUME InputsInv, NEW settled \in SUBSET Seqs, \A m \in settled : m <= highest, NEW sends \in BOOLEAN,
         IF sends THEN send(settled)
         ELSE resolved' = settled /\ downlink' = aged(downlink) /\ UNCHANGED <<frontier, arrived, owed>>
  PROVE  /\ frontier' \in frontier .. highest /\ frontier' \in Seqs \cup {-1}
         /\ \A m \in (frontier + 1) .. frontier' : m \in settled
         /\ resolved' \subseteq settled /\ \A m \in settled : m \in resolved' \/ m <= frontier'
         /\ arrived' \subseteq arrived /\ \A m \in arrived : m \in arrived' \/ m <= frontier'
         /\ owed' \in BOOLEAN /\ downlink' \in Seq(Downlinked)
         /\ \A i \in 1 .. Len(downlink') : downlink'[i].kind = "state" => downlink'[i].ack <= frontier'
<1>. DEFINE n == takeAck(settled)
            w == aged(downlink)
<1>1. ClientTypes /\ ServerTypes
  BY TypeHalves DEF InputsInv
<1>2. /\ highest \in Int /\ frontier \in Int /\ frontier <= highest /\ frontier >= -1
      /\ highest \in Seqs \cup {-1} /\ \A m \in Seqs : m \in Int
  BY <1>1, Counters DEF InputsInv, Ledgered, Numbered, ServerTypes
<1>3. n \in frontier .. highest /\ \A m \in (frontier + 1) .. n : m \in settled
  <2>1. highest + 1 \notin settled
    <3>1. ~(highest + 1 <= highest)
      BY <1>2
    <3>. QED BY <3>1
  <2>. QED BY <1>2, <2>1, Acknowledges
<1>4. /\ w \in Seq(Downlinked) /\ Len(w) = Len(downlink) /\ Len(w) \in Nat
      /\ \A i \in 1 .. Len(w) : w[i].kind = "state" => w[i].ack \in Int /\ w[i].ack <= frontier
  <2>1. /\ w \in Seq(Downlinked) /\ Len(w) = Len(downlink)
        /\ \A i \in 1 .. Len(downlink) : w[i].kind = downlink[i].kind
             /\ (downlink[i].kind = "state" => w[i].ack = downlink[i].ack)
    BY <1>1, AgedDown
  <2>2. \A i \in 1 .. Len(downlink) : downlink[i].kind = "state" => downlink[i].ack <= frontier
    BY DEF InputsInv, Ledgered, Acked
  <2>3. \A m \in Downlinked : m.kind = "state" => m.ack \in Seqs \cup {-1}
    BY DEF Downlinked
  <2>4. \A m \in Downlinked : m.kind = "state" => m.ack \in Int
    <3>1. \A k \in Seqs \cup {-1} : k \in Int
      BY ONLY <1>2
    <3>. QED BY ONLY <2>3, <3>1
  <2>. HIDE DEF w
  <2>. QED BY <2>1, <2>2, <2>4
<1>5. frontier \in Seqs \cup {-1} /\ n \in Seqs \cup {-1}
  <2>1. Seqs = 0 .. (MaxFrames - 1) /\ MaxFrames \in Nat
    BY Numbers
  <2>. HIDE DEF n
  <2>. QED BY <1>1, <1>2, <1>3, <2>1 DEF ServerTypes
<1>6. frontier \in frontier .. highest /\ (frontier + 1) .. frontier = {}
  BY <1>2
<1>. HIDE DEF n, w
<1>7. CASE ~sends \/ owed
  <2>0. owed \in BOOLEAN
    BY <1>1 DEF ServerTypes
  <2>1. UNCHANGED frontier /\ resolved' = settled /\ UNCHANGED arrived /\ owed' \in BOOLEAN
    <3>1. CASE ~sends
      BY <2>0, <3>1
    <3>2. CASE sends /\ owed
      BY <3>2 DEF send
    <3>. QED BY <1>7, <3>1, <3>2
  <2>2. downlink' \in Seq(Downlinked)
        /\ \A i \in 1 .. Len(downlink') : downlink'[i].kind = "state" => downlink'[i].ack <= frontier
    <3>1. CASE downlink' = w
      BY <1>4, <3>1
    <3>. DEFINE m == [kind |-> "welcome", tick |-> 0]
    <3>2. CASE downlink' = Append(w, m)
      <4>1. m \in Downlinked /\ m.kind # "state"
        BY Numbers DEF Downlinked
      <4>. HIDE DEF m
      <4>2. /\ downlink' \in Seq(Downlinked) /\ Len(downlink') = Len(w) + 1 /\ downlink'[Len(w) + 1] = m
            /\ \A i \in 1 .. Len(w) : downlink'[i] = w[i]
        BY <1>4, <3>2, <4>1
      <4>3. \A i \in 1 .. Len(downlink') : i \in 1 .. Len(w) \/ i = Len(w) + 1
        BY <1>4, <4>2
      <4>. QED BY <1>4, <4>1, <4>2, <4>3
    <3>3. downlink' = w \/ downlink' = Append(w, m)
      BY <1>7 DEF send, w
    <3>. QED BY <3>1, <3>2, <3>3
  <2>. QED BY <1>5, <1>6, <2>1, <2>2
<1>8. CASE sends /\ ~owed
  <2>. DEFINE m == [kind |-> "state", ack |-> n, tick |-> 0]
  <2>1. /\ frontier' = n /\ resolved' = {k \in settled : k > n} /\ arrived' = {k \in arrived : k > n}
        /\ owed' = owed /\ downlink' = Append(w, m)
    BY <1>8 DEF send, n, w
  <2>2. m \in Downlinked /\ m.ack = n
    BY <1>5, Numbers DEF Downlinked
  <2>. HIDE DEF m
  <2>3. /\ downlink' \in Seq(Downlinked) /\ Len(downlink') = Len(w) + 1 /\ downlink'[Len(w) + 1] = m
        /\ \A i \in 1 .. Len(w) : downlink'[i] = w[i]
    BY <1>4, <2>1, <2>2
  <2>4. n \in Int /\ frontier <= n
    BY <1>2, <1>3
  <2>5. ASSUME NEW i \in 1 .. Len(downlink'), downlink'[i].kind = "state" PROVE downlink'[i].ack <= n
    <3>1. CASE i \in 1 .. Len(w)
      <4>1. downlink'[i] = w[i] /\ w[i].kind = "state"
        BY <2>3, <2>5, <3>1
      <4>2. w[i].ack \in Int /\ w[i].ack <= frontier
        BY <1>4, <3>1, <4>1
      <4>. QED BY <1>2, <2>4, <4>1, <4>2
    <3>2. CASE i = Len(w) + 1
      BY <2>2, <2>3, <2>4, <3>2
    <3>. QED BY <1>4, <2>3, <2>5, <3>1, <3>2
  <2>6. arrived \subseteq Seqs /\ owed \in BOOLEAN
    BY <1>1 DEF ServerTypes
  <2>7. \A k \in Seqs : k > n \/ k <= n
    BY <1>2, <2>4
  <2>. QED BY <1>3, <1>5, <2>1, <2>3, <2>5, <2>6, <2>7
<1>. QED BY <1>7, <1>8

\* What a step leaves of the account of ticks.
LEMMA StepOrders ==
  ASSUME InputsInv, NEW sends, StepsAs(sends)
  PROVE  Ordered'
<1>. DEFINE w == uplink'
<1>1. ClientTypes /\ ServerTypes
  BY TypeHalves DEF InputsInv
<1>2. Lives /\ WireByTick /\ FiledByTick /\ LogChained /\ SlotsChained
  BY DEF InputsInv, Ordered
<1>3. /\ UNCHANGED <<state, life>> /\ lead' = IF state = "joining" THEN lead ELSE lead - 1
      /\ buffer' = [t \in Slots |-> IF t \in 1 .. (FutureHorizon - 1) THEN buffer[t + 1] ELSE << >>]
      /\ log' = log \o Noting /\ w = aged(uplink)
  BY DEF StepsAs
<1>4. /\ \A t \in Slots : buffer'[t] = << >> \/ (t >= 1 /\ t + 1 \in Slots /\ buffer'[t] = buffer[t + 1])
      /\ Filed = Below(1) \cup Filed' /\ \A f \in Below(1), g \in Filed' : Before(f, g)
  BY <1>1, <1>2, <1>3, Advanced
<1>5. LogChained'
  BY <1>1, <1>2, <1>3, <1>4, Logs
<1>6. /\ Len(w) = Len(uplink)
      /\ \A i \in 1 .. Len(uplink) : w[i].kind = uplink[i].kind /\
           (uplink[i].kind = "input" => w[i].life = uplink[i].life /\ w[i].tick = age(uplink[i].tick))
  BY <1>1, <1>3, AgedUp
<1>7. PastGrace \in Nat /\ Oldest = -PastGrace - 1 /\ Oldest \in Int /\ lead \in Int /\ \A t \in Slots : t \in Int
  BY <1>1, Numbers DEF ClientTypes
<1>8. \A i \in 1 .. Len(uplink) : uplink[i].kind = "input" => uplink[i].tick \in Int
  BY <1>1, OnTheWire
<1>9. ASSUME NEW t \in Int, NEW u \in Int, t < -PastGrace \/ t <= u
      PROVE  /\ age(t) < -PastGrace \/ age(t) <= age(u)
             /\ age(t) < -PastGrace \/ age(t) <= u - 1
  BY <1>7, <1>9 DEF age
<1>10. ToSet(<< >>) = {} /\ Chain(<< >>)
  BY DEF ToSet, Chain
<1>. HIDE DEF w
<1>11. Lives'
  <2>1. \A i \in 1 .. Len(w) : w[i].kind = "input" => w[i].life <= life /\ (state = "joining" => w[i].life < life)
    BY <1>2, <1>6 DEF Lives
  <2>2. \A f \in Filed' : f.life <= life /\ (state = "joining" => f.life < life)
    BY <1>2, <1>4 DEF Lives
  <2>. QED BY <1>3, <2>1, <2>2 DEF Lives, w
<1>12. WireByTick'
  <2>1. ASSUME NEW i \in 1 .. Len(w), NEW j \in 1 .. Len(w), i < j, w[i].kind = "input", w[j].kind = "input",
               w[i].life = w[j].life
        PROVE  w[i].tick < -PastGrace \/ w[i].tick <= w[j].tick
    <3>1. uplink[i].tick < -PastGrace \/ uplink[i].tick <= uplink[j].tick
      BY <1>2, <1>6, <2>1 DEF WireByTick
    <3>. QED BY <1>6, <1>8, <1>9, <2>1, <3>1
  <2>2. ASSUME NEW i \in 1 .. Len(w), w[i].kind = "input", state # "joining", w[i].life = life
        PROVE  w[i].tick < -PastGrace \/ w[i].tick <= lead - 1
    <3>1. uplink[i].tick < -PastGrace \/ uplink[i].tick <= lead
      BY <1>2, <1>6, <2>2 DEF WireByTick
    <3>. QED BY <1>6, <1>7, <1>8, <1>9, <2>2, <3>1
  <2>. QED BY <1>3, <2>1, <2>2 DEF WireByTick, w
<1>13. FiledByTick'
  <2>1. ASSUME NEW t \in Slots, NEW f \in ToSet(buffer'[t])
        PROVE  /\ state # "joining" /\ f.life = life => t <= lead - 1
               /\ \A i \in 1 .. Len(w) : w[i].kind = "input" /\ w[i].life = f.life => t <= w[i].tick
    <3>1. t >= 1 /\ t + 1 \in Slots /\ f \in ToSet(buffer[t + 1]) /\ t \in Int
      BY <1>4, <1>7, <1>10, <2>1
    <3>2. state # "joining" /\ f.life = life => t + 1 <= lead
      BY <1>2, <3>1 DEF FiledByTick
    <3>3. ASSUME NEW i \in 1 .. Len(w), w[i].kind = "input", w[i].life = f.life PROVE t <= w[i].tick
      <4>1. t + 1 <= uplink[i].tick /\ w[i].tick = age(uplink[i].tick) /\ uplink[i].tick \in Int
        BY <1>2, <1>6, <1>8, <3>1, <3>3 DEF FiledByTick
      <4>2. age(uplink[i].tick) = uplink[i].tick - 1
        BY <1>7, <3>1, <4>1 DEF age
      <4>. QED BY <3>1, <4>1, <4>2
    <3>4. state # "joining" /\ f.life = life => t <= lead - 1
      BY <1>7, <3>1, <3>2
    <3>. QED BY <3>3, <3>4
  <2>. QED BY <1>3, <2>1 DEF FiledByTick, w
<1>14. SlotsChained'
  <2>1. ASSUME NEW t \in Slots PROVE Chain(buffer'[t])
    BY <1>2, <1>4, <1>10 DEF SlotsChained
  <2>2. ASSUME NEW t \in Slots, NEW u \in Slots, t < u, NEW g \in ToSet(buffer'[t]), NEW h \in ToSet(buffer'[u])
        PROVE  Before(g, h)
    <3>1. t + 1 \in Slots /\ g \in ToSet(buffer[t + 1]) /\ u + 1 \in Slots /\ h \in ToSet(buffer[u + 1])
      BY <1>4, <1>10, <2>2
    <3>2. t + 1 < u + 1
      BY <1>7, <2>2
    <3>. QED BY <1>2, <3>1, <3>2 DEF SlotsChained
  <2>. QED BY <2>1, <2>2 DEF SlotsChained, Chain
<1>. QED BY <1>5, <1>11, <1>12, <1>13, <1>14 DEF Ordered

\* A step settles what is due and what is stale, and nothing that was not sent.
LEMMA StepSettles ==
  ASSUME InputsInv
  PROVE  /\ AppliedNow \subseteq FiledSeqs /\ Stale \subseteq DOMAIN gaps
         /\ SettledNow \in SUBSET Seqs /\ \A m \in SettledNow : m <= highest
         /\ SettledNow \subseteq appliedSeqs \cup AppliedNow \cup dropped
<1>1. ServerTypes /\ SlotsChained
  BY TypeHalves DEF InputsInv, Ordered
<1>2. Numbered /\ Settled
  BY DEF InputsInv, Ledgered
<1>3. AppliedNow \subseteq FiledSeqs
  <2>1. drainThrough \in Seq(Entry) /\ ToSet(drainThrough) = Below(1)
    BY <1>1, Drained DEF ServerTypes
  <2>2. Below(1) \subseteq Filed
    <3>1. \A t \in -PastGrace .. 1 : t \in Slots
      BY Numbers
    <3>. QED BY <3>1 DEF Below, Filed
  <2>3. \A i \in 1 .. Len(drainThrough) : drainThrough[i] \in Filed
    BY <2>1, <2>2 DEF ToSet
  <2>. QED BY <2>3 DEF AppliedNow, FiledSeqs
<1>4. Stale \subseteq DOMAIN gaps
  BY DEF Stale
<1>5. FiledSeqs \subseteq Seqs
  BY <1>1, FiledEntries DEF FiledSeqs
<1>6. SettledNow \subseteq resolved \cup AppliedNow \cup Stale
  BY DEF SettledNow
<1>. QED BY <1>1, <1>2, <1>3, <1>4, <1>5, <1>6 DEF ServerTypes, Numbered, Settled

\* What a step leaves of the account of numbers.
LEMMA StepAccounts ==
  ASSUME InputsInv, NEW sends \in BOOLEAN, StepsAs(sends)
  PROVE  Ledgered'
<1>. DEFINE w == uplink'
            front == frontier'
<1>1. ClientTypes /\ ServerTypes
  BY TypeHalves DEF InputsInv
<1>2. WireInOrder /\ HeadFits /\ Accounted /\ Numbered /\ Apart /\ Settled /\ Acked /\ NothingStuck
  BY DEF InputsInv, Ledgered
<1>3. LogChained /\ SlotsChained
  BY DEF InputsInv, Ordered
<1>4. /\ AppliedNow \subseteq FiledSeqs /\ Stale \subseteq DOMAIN gaps
      /\ SettledNow \in SUBSET Seqs /\ \A m \in SettledNow : m <= highest
      /\ SettledNow \subseteq appliedSeqs \cup AppliedNow \cup dropped
  BY StepSettles
<1>5. /\ buffer' = [t \in Slots |-> IF t \in 1 .. (FutureHorizon - 1) THEN buffer[t + 1] ELSE << >>]
      /\ log' = log \o Noting /\ w = aged(uplink) /\ ~closed
      /\ gaps' = [n \in DOMAIN gaps \ (Stale \cup AppliedNow) |-> age(gaps[n])]
      /\ UNCHANGED <<seq, ack, life, highest, closed, dropped>>
  BY DEF StepsAs
<1>6. IF sends THEN send(SettledNow)
      ELSE resolved' = SettledNow /\ downlink' = aged(downlink) /\ UNCHANGED <<frontier, arrived, owed>>
  BY DEF StepsAs
<1>7. /\ Filed = Below(1) \cup Filed' /\ (\A f \in Below(1), g \in Filed' : Before(f, g))
      /\ FiledSeqs = AppliedNow \cup FiledSeqs' /\ AppliedNow \cap FiledSeqs' = {}
  BY <1>1, <1>3, <1>5, Advanced
<1>8. appliedSeqs' = appliedSeqs \cup AppliedNow
  BY <1>1, <1>3, <1>5, <1>7, Logs
<1>9. /\ front \in frontier .. highest
      /\ \A m \in (frontier + 1) .. front : m \in SettledNow
      /\ resolved' \subseteq SettledNow /\ \A m \in SettledNow : m \in resolved' \/ m <= front
      /\ arrived' \subseteq arrived /\ \A m \in arrived : m \in arrived' \/ m <= front
      /\ \A i \in 1 .. Len(downlink') : downlink'[i].kind = "state" => downlink'[i].ack <= front
  BY <1>4, <1>6, Answers
<1>10. /\ highest \in Int /\ frontier \in Int /\ front \in Int /\ frontier <= front /\ front <= highest
       /\ \A m \in Seqs : m \in Int
  <2>1. highest \in Int /\ frontier \in Int /\ \A m \in Seqs : m \in Int
    BY <1>1, Counters
  <2>. HIDE DEF front
  <2>. QED BY <1>9, <2>1
<1>11. DOMAIN gaps' = DOMAIN gaps \ (Stale \cup AppliedNow)
  BY <1>5
<1>12. /\ Len(w) = Len(uplink)
       /\ \A i \in 1 .. Len(uplink) : w[i].kind = uplink[i].kind /\
            (uplink[i].kind = "input" => w[i].seq = uplink[i].seq)
  BY <1>1, <1>5, AgedUp
<1>. HIDE DEF w, front
<1>13. WireInOrder'
  <2>1. \A i \in 1 .. Len(w) : w[i].kind = "input" => w[i].seq < seq
    BY <1>2, <1>12 DEF WireInOrder
  <2>2. \A i, j \in 1 .. Len(w) : i < j /\ w[i].kind = "input" /\ w[j].kind = "input" => w[i].seq < w[j].seq
    BY <1>2, <1>12 DEF WireInOrder
  <2>3. \A i \in 2 .. Len(w) : w[i].kind = "input" => w[i].seq > highest /\ w[i].seq \notin dropped
    <3>1. \A i \in 2 .. Len(w) : i \in 1 .. Len(w)
      BY <1>1, <1>12 DEF ClientTypes
    <3>. QED BY <1>2, <1>12, <3>1 DEF WireInOrder
  <2>. QED BY <1>5, <2>1, <2>2, <2>3 DEF WireInOrder, w
<1>14. HeadFits'
  <2>. SUFFICES ASSUME w # << >>, w[1].kind = "input"
                PROVE  \/ w[1].seq \in arrived' \/ w[1].seq \in resolved' \/ w[1].seq <= front
                       \/ w[1].seq > highest /\ (w[1].seq \in dropped => w[1].seq > highest + MaxSeqGap)
    BY <1>5 DEF HeadFits, seen, w, front
  <2>1. 1 \in 1 .. Len(w)
    <3>1. w \in Seq(Uplinked)
      BY <1>1, <1>5, AgedUp
    <3>. QED BY <3>1
  <2>2. uplink # << >> /\ uplink[1].kind = "input" /\ w[1].seq = uplink[1].seq /\ uplink[1].seq \in Int
    BY <1>1, <1>12, <2>1, OnTheWire
  <2>3. \/ uplink[1].seq \in arrived \/ uplink[1].seq \in resolved \/ uplink[1].seq <= frontier
        \/ uplink[1].seq > highest /\ (uplink[1].seq \in dropped => uplink[1].seq > highest + MaxSeqGap)
    BY <1>2, <2>2 DEF HeadFits, seen
  <2>4. resolved \subseteq SettledNow
    BY DEF SettledNow
  <2>5. uplink[1].seq <= frontier => uplink[1].seq <= front
    BY <1>10, <2>2
  <2>. QED BY <1>9, <2>2, <2>3, <2>4, <2>5
<1>15. Accounted'
  <2>1. ASSUME NEW s \in 0 .. (seq - 1)
        PROVE  \/ s \in appliedSeqs' \cup dropped \cup FiledSeqs'
               \/ \E i \in 1 .. Len(w) : w[i].kind = "input" /\ w[i].seq = s
    <3>1. CASE s \in appliedSeqs \cup dropped \cup FiledSeqs
      BY <1>7, <1>8, <3>1
    <3>2. CASE \E i \in 1 .. Len(uplink) : uplink[i].kind = "input" /\ uplink[i].seq = s
      BY <1>12, <3>2
    <3>. QED BY <1>2, <2>1, <3>1, <3>2 DEF Accounted
  <2>. QED BY <1>5, <2>1 DEF Accounted, w
<1>16. Numbered'
  <2>1. /\ highest < seq /\ (\A s \in dropped : s < seq)
        /\ \A s \in appliedSeqs \cup FiledSeqs \cup arrived \cup resolved \cup DOMAIN gaps : s <= highest
    BY <1>2 DEF Numbered
  <2>2. \A s \in appliedSeqs' \cup FiledSeqs' \cup arrived' \cup resolved' \cup DOMAIN gaps' : s <= highest
    BY <1>4, <1>7, <1>8, <1>9, <1>11, <2>1
  <2>. QED BY <1>5, <1>10, <2>1, <2>2 DEF Numbered, front
<1>17. Apart'
  BY <1>2, <1>5, <1>7, <1>8 DEF Apart
<1>18. Settled'
  <2>1. \A s \in 0 .. front : s \in appliedSeqs' \cup dropped
    <3>1. ASSUME NEW s \in 0 .. front PROVE s \in 0 .. frontier \/ s \in (frontier + 1) .. front
      BY <1>10
    <3>. QED BY <1>2, <1>4, <1>8, <1>9, <3>1 DEF Settled
  <2>2. resolved' \subseteq appliedSeqs' \cup dropped /\ DOMAIN gaps' \subseteq dropped
    BY <1>2, <1>4, <1>8, <1>9, <1>11 DEF Settled
  <2>. QED BY <1>5, <2>1, <2>2 DEF Settled, front
<1>19. Acked'
  <2>1. ack \in Int /\ ack <= frontier
    <3>1. ack \in Seqs \cup {-1}
      BY <1>1 DEF ClientTypes
    <3>. QED BY <1>2, <1>10, <3>1 DEF Acked
  <2>2. ack <= front
    BY <1>10, <2>1
  <2>. QED BY <1>5, <1>9, <2>2 DEF Acked, front
<1>20. NothingStuck'
  <2>. SUFFICES ASSUME NEW n \in (front + 1) .. highest PROVE n \in resolved' \cup DOMAIN gaps' \cup FiledSeqs'
    BY <1>5 DEF NothingStuck, front
  <2>1. n \in (frontier + 1) .. highest /\ n > frontier /\ ~(n <= front)
    BY <1>10
  <2>2. n \in resolved \cup DOMAIN gaps \cup FiledSeqs
    BY <1>2, <1>5, <2>1 DEF NothingStuck
  <2>3. n \in SettledNow => n \in resolved'
    BY <1>9, <2>1
  <2>4. n \in resolved \cup AppliedNow \cup Stale => n \in SettledNow
    BY <2>1 DEF SettledNow
  <2>. QED BY <1>7, <1>11, <2>2, <2>3, <2>4
<1>. QED BY <1>13, <1>14, <1>15, <1>16, <1>17, <1>18, <1>19, <1>20 DEF Ledgered

\* Room.stepOnce keeps the invariant.
LEMMA StepKeeps ==
  ASSUME InputsInv, NEW sends \in BOOLEAN, stepOnce(sends)
  PROVE  InputsInv'
<1>1. ClientTypes /\ ServerTypes
  BY TypeHalves DEF InputsInv
<1>2. StepsAs(sends)
  BY <1>1, StepNamed
<1>3. Ledgered' /\ Ordered'
  BY <1>2, StepAccounts, StepOrders
<1>4. LogChained /\ SlotsChained
  BY DEF InputsInv, Ordered
<1>5. /\ SettledNow \in SUBSET Seqs /\ \A m \in SettledNow : m <= highest
  BY StepSettles
<1>6. IF sends THEN send(SettledNow)
      ELSE resolved' = SettledNow /\ downlink' = aged(downlink) /\ UNCHANGED <<frontier, arrived, owed>>
  BY <1>2 DEF StepsAs
<1>7. /\ frontier' \in Seqs \cup {-1} /\ resolved' \subseteq SettledNow /\ arrived' \subseteq arrived
      /\ owed' \in BOOLEAN /\ downlink' \in Seq(Downlinked)
  BY <1>5, <1>6, Answers
<1>8. /\ tokens' = IF tokens < Bucket THEN tokens + 1 ELSE tokens
      /\ folded' = Neutral \/ folded' = foldFrames(folded, drainThrough)
      /\ letGo' \in BOOLEAN
      /\ buffer' = [t \in Slots |-> IF t \in 1 .. (FutureHorizon - 1) THEN buffer[t + 1] ELSE << >>]
      /\ log' = log \o Noting
      /\ gaps' = [n \in DOMAIN gaps \ (Stale \cup AppliedNow) |-> age(gaps[n])]
      /\ uplink' = aged(uplink)
      /\ lead' = IF state = "joining" THEN lead ELSE lead - 1
      /\ depicted' = age(depicted)
      /\ UNCHANGED <<down, sentAxes, state, pending, acts, ring, horizon, seq, asked, ack, rejoined, life,
                     highest, refusals, closed, dropped>>
  BY <1>2 DEF StepsAs
<1>9. /\ buffer' \in [Slots -> Seq(Entry)]
      /\ Filed = Below(1) \cup Filed' /\ (\A f \in Below(1), g \in Filed' : Before(f, g))
  BY <1>1, <1>4, <1>8, Advanced
<1>10. log' \in Seq([seq : Seqs, life : 0 .. MaxResyncs])
  BY <1>1, <1>4, <1>8, <1>9, Logs DEF LogEntry
<1>11. folded' \in Held
  <2>1. drainThrough \in Seq(Entry)
    BY <1>1, <1>4, Drained DEF ServerTypes
  <2>2. \A f \in Entry : f.edges \in Seq(Edges)
    BY DEF Entry
  <2>3. folded \in Held /\ Neutral \in Held
    BY <1>1 DEF ServerTypes, Neutral, Held
  <2>4. foldFrames(folded, drainThrough) \in Held
    BY ONLY <2>1, <2>2, <2>3, FramesHeld
  <2>. QED BY <1>8, <2>3, <2>4
<1>12. DOMAIN gaps' \subseteq Seqs /\ gaps' \in [DOMAIN gaps' -> Int]
  <2>1. DOMAIN gaps \subseteq Seqs /\ gaps \in [DOMAIN gaps -> Int]
    BY <1>1 DEF ServerTypes
  <2>2. \A n \in DOMAIN gaps : age(gaps[n]) \in Int
    BY <2>1, Ages
  <2>. QED BY <1>8, <2>1, <2>2
<1>13. tokens' \in 0 .. Bucket
  <2>1. tokens \in 0 .. Bucket /\ Bucket \in Nat
    BY <1>1, Numbers DEF ServerTypes
  <2>. QED BY <1>8, <2>1
<1>14. lead' \in Int /\ depicted' \in Oldest .. 0
  <2>1. lead \in Int /\ depicted \in Oldest .. 0 /\ depicted \in Int
    BY <1>1, Numbers DEF ClientTypes
  <2>2. age(depicted) \in Oldest .. 0
    BY <2>1, Ages
  <2>. QED BY <1>8, <2>1, <2>2
<1>15. uplink' \in Seq(Uplinked)
  BY <1>1, <1>8, AgedUp
<1>16. ClientTypes'
  BY <1>1, <1>7, <1>8, <1>14, <1>15 DEF ClientTypes
<1>17. resolved' \subseteq Seqs /\ arrived' \subseteq Seqs
  BY <1>1, <1>5, <1>7 DEF ServerTypes
<1>18. ServerTypes'
  BY <1>1, <1>7, <1>8, <1>9, <1>10, <1>11, <1>12, <1>13, <1>17 DEF ServerTypes
<1>. QED BY <1>3, <1>16, <1>18 DEF InputsInv, TypeOK, ClientTypes, ServerTypes

-----------------------------------------------------------------------------
(* The theorems. *)

LEMMA RateKeeps ==
  ASSUME InputsInv, setSimRate
  PROVE  InputsInv'
<1>1. ClientTypes /\ ServerTypes
  BY TypeHalves DEF InputsInv
<1>2. downlink' = <<[kind |-> "rate-change"]>> /\ UNCHANGED <<clientVars, uplink>> /\ UNCHANGED serverVars
  BY DEF setSimRate
<1>3. downlink' \in Seq(Downlinked) /\ \A i \in 1 .. Len(downlink') : downlink'[i].kind # "state"
  <2>1. [kind |-> "rate-change"] \in Downlinked
    BY DEF Downlinked
  <2>. QED BY <1>2, <2>1
<1>4. UNCHANGED <<down, sentAxes, state, pending, acts, ring, horizon, seq, asked, lead, depicted, ack, rejoined,
                  life, uplink>>
  BY <1>2 DEF clientVars, deviceVars, ringVars, clockVars
<1>5. UNCHANGED <<frontier, resolved, arrived, gaps, highest, tokens, refusals, buffer, folded, owed, closed, log,
                  dropped, letGo>>
  BY <1>2 DEF serverVars, admissionVars
<1>6. ClientTypes'
  BY <1>1, <1>3, <1>4 DEF ClientTypes
<1>7. ServerTypes'
  BY <1>1, <1>2, ServerStays
<1>8. Filed' = Filed /\ FiledSeqs' = FiledSeqs /\ appliedSeqs' = appliedSeqs
  BY <1>5 DEF Filed, FiledSeqs, appliedSeqs
<1>9. WireInOrder' /\ HeadFits' /\ Accounted' /\ Numbered' /\ Apart' /\ Settled' /\ NothingStuck'
  BY <1>4, <1>5, <1>8
  DEF InputsInv, Ledgered, WireInOrder, HeadFits, seen, Accounted, Numbered, Apart, Settled, NothingStuck
<1>10. Acked'
  BY <1>3, <1>4, <1>5 DEF InputsInv, Ledgered, Acked
<1>11. Ordered'
  BY <1>4, <1>5, <1>8
  DEF InputsInv, Ordered, Lives, WireByTick, FiledByTick, LogChained, SlotsChained, Chain
<1>. QED BY <1>6, <1>7, <1>9, <1>10, <1>11 DEF InputsInv, Ledgered, TypeOK, ClientTypes, ServerTypes

\* Every action of the client is a ClientStep.
LEMMA ClientActs ==
  ASSUME ClientTypes, device \/ frames \/ ask \/ drainInbox
  PROVE  ClientTypes' /\ ClientStep
<1>1. CASE device
  BY <1>1, FocusStep, KeyStep DEF device
<1>2. CASE frames
  BY <1>2, FrameStep DEF frames
<1>. QED BY <1>1, <1>2, AskStep, InboxStep

LEMMA InputsStart == Init => InputsInv
<1>. SUFFICES ASSUME Init PROVE InputsInv
  OBVIOUS
<1>1. /\ uplink = <<[kind |-> "join"]>> /\ downlink = << >> /\ log = << >> /\ dropped = {} /\ buffer = NoFrames
      /\ seq = 0 /\ frontier = -1 /\ highest = -1 /\ ack = -1 /\ resolved = {} /\ arrived = {}
      /\ gaps = [n \in {} |-> 0] /\ state = "joining" /\ life = 0
  BY DEF Init
<1>2. /\ Len(uplink) = 1 /\ uplink \in Seq(Uplinked) /\ \A i \in 1 .. Len(uplink) : uplink[i].kind # "input"
  <2>1. [kind |-> "join"] \in Uplinked
    BY DEF Uplinked
  <2>. QED BY <1>1, <2>1
<1>3. /\ \A t \in Slots : buffer[t] = << >>
      /\ buffer \in [Slots -> Seq(Entry)] /\ ToSet(<< >>) = {} /\ Chain(<< >>)
  BY <1>1 DEF NoFrames, ToSet, Chain
<1>4. Filed = {} /\ FiledSeqs = {}
  BY <1>3 DEF Filed, FiledSeqs
<1>5. appliedSeqs = {} /\ DOMAIN gaps = {} /\ gaps \in [DOMAIN gaps -> Int]
  BY <1>1 DEF appliedSeqs
<1>6. ClientTypes
  <2>1. Neutral \in Held
    BY DEF Neutral, Held
  <2>2. Oldest \in Oldest .. 0 /\ 0 \in 0 .. MaxFrames /\ 0 \in 0 .. MaxAsks /\ 0 \in 0 .. MaxResyncs
    BY Numbers
  <2>3. << >> \in Seq(Edges) /\ << >> \in Seq(Frame) /\ << >> \in Seq(Downlinked)
    OBVIOUS
  <2>4. /\ down = {} /\ sentAxes = {} /\ pending = << >> /\ acts = Neutral /\ ring = << >> /\ horizon = Neutral
        /\ asked = 0 /\ lead = 0 /\ depicted = Oldest /\ rejoined = FALSE
    BY DEF Init
  <2>5. /\ down \subseteq Actions /\ sentAxes \subseteq Axes /\ acts \in Held /\ horizon \in Held
        /\ pending \in Seq(Edges) /\ ring \in Seq(Frame) /\ downlink \in Seq(Downlinked)
        /\ rejoined \in BOOLEAN /\ state \in {"joining", "live", "stalled"}
    BY <1>1, <2>1, <2>3, <2>4
  <2>6. /\ seq \in 0 .. MaxFrames /\ asked \in 0 .. MaxAsks /\ life \in 0 .. MaxResyncs
        /\ lead \in Int /\ depicted \in Oldest .. 0 /\ ack \in Seqs \cup {-1}
    BY <1>1, <2>2, <2>4
  <2>. QED BY <1>2, <2>5, <2>6 DEF ClientTypes
<1>7. ServerTypes
  <2>1. Neutral \in Held
    BY DEF Neutral, Held
  <2>2. Bucket \in 0 .. Bucket
    BY Numbers
  <2>3. owed = FALSE /\ closed = FALSE /\ letGo = FALSE /\ tokens = Bucket /\ refusals = 0 /\ folded = Neutral
    BY DEF Init
  <2>4. owed \in BOOLEAN /\ closed \in BOOLEAN /\ letGo \in BOOLEAN
    BY <2>3
  <2>5. log \in Seq([seq : Seqs, life : 0 .. MaxResyncs])
    BY <1>1
  <2>. QED BY <1>1, <1>3, <1>5, <2>1, <2>2, <2>3, <2>4, <2>5 DEF ServerTypes
<1>8. Ledgered
  <2>1. WireInOrder /\ HeadFits
    <3>1. \A i \in 2 .. Len(uplink) : i \in 1 .. Len(uplink)
      BY <1>2
    <3>. QED BY <1>2, <3>1 DEF WireInOrder, HeadFits
  <2>2. Accounted /\ Numbered /\ Apart /\ Settled /\ Acked /\ NothingStuck
    <3>1. 0 .. (0 - 1) = {} /\ 0 .. (-1) = {} /\ (-1 + 1) .. (-1) = {} /\ Len(downlink) = 0
      BY <1>1
    <3>. QED BY <1>1, <1>4, <1>5, <3>1 DEF Accounted, Numbered, Apart, Settled, Acked, NothingStuck
  <2>. QED BY <2>1, <2>2 DEF Ledgered
<1>9. Ordered
  <2>1. Lives /\ WireByTick
    BY <1>2, <1>4 DEF Lives, WireByTick
  <2>2. FiledByTick /\ SlotsChained
    BY <1>3 DEF FiledByTick, SlotsChained
  <2>3. LogChained
    BY <1>1, <1>3, <1>4 DEF LogChained
  <2>. QED BY <2>1, <2>2, <2>3 DEF Ordered
<1>. QED BY <1>6, <1>7, <1>8, <1>9, TypeHalves DEF InputsInv

LEMMA InputsKept ==
  ASSUME InputsInv, Next
  PROVE  InputsInv'
<1>1. CASE device \/ frames \/ ask \/ drainInbox
  <2>1. ClientTypes /\ ServerTypes
    BY TypeHalves DEF InputsInv
  <2>2. ClientTypes' /\ ClientStep
    BY <1>1, <2>1, ClientActs
  <2>3. Ledgered' /\ Ordered'
    BY <2>2, ClientKeeps
  <2>4. ServerTypes'
    BY <2>1, <2>2, ServerStays DEF ClientStep
  <2>. QED BY <2>2, <2>3, <2>4 DEF InputsInv, TypeOK, ClientTypes, ServerTypes
<1>2. CASE receive
  BY <1>2, ReceiveKeeps
<1>3. CASE steps
  BY <1>3, StepKeeps DEF steps
<1>4. CASE setSimRate
  BY <1>4, RateKeeps
<1>. QED BY <1>1, <1>2, <1>3, <1>4 DEF Next

\* Both accounts are kept by every action of the client, of the wire and of the authority.
THEOREM InputsInvariant == Spec => []InputsInv
<1>1. InputsInv /\ UNCHANGED vars => InputsInv'
  <2>. SUFFICES ASSUME InputsInv, UNCHANGED vars PROVE InputsInv'
    OBVIOUS
  <2>1. UNCHANGED <<down, sentAxes, state, pending, acts, ring, horizon, seq, asked, lead, depicted, ack, rejoined,
                    life, uplink, downlink>>
    BY DEF vars, clientVars, deviceVars, ringVars, clockVars
  <2>2. UNCHANGED <<frontier, resolved, arrived, gaps, highest, tokens, refusals, buffer, folded, owed, closed, log,
                    dropped, letGo>>
    BY DEF vars, serverVars, admissionVars
  <2>3. Filed' = Filed /\ FiledSeqs' = FiledSeqs /\ appliedSeqs' = appliedSeqs
    BY <2>2 DEF Filed, FiledSeqs, appliedSeqs
  <2>4. TypeOK'
    BY <2>1, <2>2 DEF InputsInv, TypeOK
  <2>5. Ledgered'
    BY <2>1, <2>2, <2>3 DEF InputsInv, Ledgered, WireInOrder, HeadFits, seen, Accounted, Numbered, Apart, Settled,
                            Acked, NothingStuck
  <2>6. Ordered'
    BY <2>1, <2>2, <2>3 DEF InputsInv, Ordered, Lives, WireByTick, FiledByTick, LogChained, SlotsChained, Chain
  <2>. QED BY <2>4, <2>5, <2>6 DEF InputsInv
<1>. QED BY <1>1, InputsStart, InputsKept, PTL DEF Spec

\* The state of the client and of the session has its type (GameClient, AdmissionState, InputBuffer).
THEOREM InputTypes == Spec => []TypeOK
<1>1. InputsInv => TypeOK
  BY DEF InputsInv
<1>. QED BY <1>1, InputsInvariant, PTL

\* No frame is applied twice, and within a life of the client's clock none before an earlier one
\* (InputBuffer.admit, drainThrough).
THEOREM FramesAppliedInOrder == Spec => []AppliedInOrder
<1>1. InputsInv => AppliedInOrder
  BY DEF InputsInv, Ordered, LogChained, Chain, Before, AppliedInOrder
<1>. QED BY <1>1, InputsInvariant, PTL

\* Every number the acknowledgement waits for is settled, filed or dated (AdmissionState.noteArrival,
\* abandonStale, takeAck).
THEOREM NoNumberStuck == Spec => []NothingStuck
<1>1. InputsInv => NothingStuck
  BY DEF InputsInv, Ledgered
<1>. QED BY <1>1, InputsInvariant, PTL

-----------------------------------------------------------------------------
(* The refinement of the ledger. *)

\* What became of a number, where the two accounts hold.
LEMMA Fates ==
  ASSUME InputsInv, NEW s \in Seqs
  PROVE  /\ s >= seq => fateOf[s] = "unsent"
         /\ s < seq /\ s \in appliedSeqs => fateOf[s] = "applied"
         /\ s < seq /\ s \in dropped => fateOf[s] = "dropped"
         /\ s < seq /\ s \notin appliedSeqs \cup dropped => fateOf[s] = "sent"
         /\ s \in appliedSeqs \cup FiledSeqs \cup dropped => s < seq
<1>1. ClientTypes /\ ServerTypes
  BY TypeHalves DEF InputsInv
<1>2. s \in Int /\ seq \in Int /\ highest \in Int
  BY <1>1, Counters
<1>3. Apart /\ Numbered
  BY DEF InputsInv, Ledgered
<1>4. s \in appliedSeqs \cup FiledSeqs \cup dropped => s < seq
  BY <1>2, <1>3 DEF Numbered
<1>5. fateOf[s] = IF s >= seq THEN "unsent"
                  ELSE IF s \in appliedSeqs \cap dropped THEN "both"
                  ELSE IF s \in appliedSeqs THEN "applied"
                  ELSE IF s \in dropped THEN "dropped" ELSE "sent"
  BY DEF fateOf
<1>6. s \notin appliedSeqs \cap dropped
  BY <1>3 DEF Apart
<1>. QED BY <1>2, <1>4, <1>5, <1>6

\* A client sends one frame, is told, forgets or does nothing the ledger sees.
LEMMA ClientSteps ==
  ASSUME InputsInv, ClientTypes', ClientStep
  PROVE  [Ledger!Next]_(Ledger!ledgerVars)
<1>1. ClientTypes /\ ServerTypes
  BY TypeHalves DEF InputsInv
<1>2. /\ seq \in Int /\ seq >= 0 /\ highest \in Int /\ frontier \in Int /\ \A s \in Seqs : s \in Int /\ s >= 0
  BY <1>1, Counters
<1>3. UNCHANGED <<log, dropped>>
  BY DEF ClientStep, serverVars
<1>4. appliedSeqs' = appliedSeqs
  BY <1>3 DEF appliedSeqs
<1>5. seq' = seq \/ seq' = seq + 1
  BY DEF ClientStep, Said
<1>6. /\ frontier <= highest /\ highest < seq
      /\ \A s \in appliedSeqs \cup dropped : s < seq
      /\ \A s \in 0 .. frontier : s \in appliedSeqs \cup dropped
  <2>1. Numbered /\ Settled
    BY DEF InputsInv, Ledgered
  <2>2. appliedSeqs \subseteq Seqs
    BY <1>1, AppliedNumbers
  <2>. QED BY <1>2, <2>1, <2>2 DEF Numbered, Settled
<1>7. CASE seq' = seq
  <2>1. fateOf' = fateOf
    BY <1>3, <1>4, <1>7 DEF fateOf
  <2>2. CASE ack' = ack
    BY <2>1, <2>2 DEF Ledger!ledgerVars
  <2>3. CASE ack' = -1
    BY <2>1, <2>3 DEF Ledger!Next, Ledger!Forget
  <2>4. CASE downlink # << >> /\ Head(downlink).kind = "state" /\ ack' = Head(downlink).ack /\ ack' > ack
    <3>1. downlink \in Seq(Downlinked)
      BY <1>1 DEF ClientTypes
    <3>2. 1 \in 1 .. Len(downlink) /\ Head(downlink) = downlink[1]
      BY <2>4, <3>1
    <3>3. ack' <= frontier
      BY <2>4, <3>2 DEF InputsInv, Ledgered, Acked
    <3>4. ack \in Seqs \cup {-1} /\ ack' \in Seqs \cup {-1}
      BY <1>1 DEF ClientTypes
    <3>5. ack' \in Seqs /\ ack' \in Int
      BY <1>2, <2>4, <3>4
    <3>6. ASSUME NEW s \in Seqs, s <= ack' PROVE fateOf[s] \in {"applied", "dropped"}
      <4>1. s \in 0 .. frontier
        BY <1>2, <3>3, <3>5, <3>6
      <4>2. s \in appliedSeqs \cup dropped /\ s < seq
        BY <1>6, <4>1
      <4>. QED BY <4>2, Fates
    <3>7. Ledger!Tell(ack')
      BY <2>1, <2>4, <3>6 DEF Ledger!Tell
    <3>. QED BY <3>5, <3>7 DEF Ledger!Next
  <2>. QED BY <2>2, <2>3, <2>4 DEF ClientStep
<1>8. CASE seq' = seq + 1
  <2>1. seq \in Seqs
    <3>1. seq' \in 0 .. MaxFrames /\ MaxFrames \in Nat /\ Seqs = 0 .. (MaxFrames - 1)
      BY Numbers DEF ClientTypes
    <3>. QED BY <1>2, <1>8, <3>1
  <2>2. ack' \in {ack, -1}
    BY <1>2, <1>8 DEF ClientStep
  <2>3. seq \notin appliedSeqs \cup dropped
    BY <1>2, <1>6
  <2>4. fateOf[seq] = "unsent"
    BY <1>2, <2>1, Fates
  <2>5. ASSUME NEW s \in Seqs PROVE fateOf'[s] = IF s = seq THEN "sent" ELSE fateOf[s]
    <3>1. fateOf[s] = IF s >= seq THEN "unsent"
                      ELSE IF s \in appliedSeqs \cap dropped THEN "both"
                      ELSE IF s \in appliedSeqs THEN "applied"
                      ELSE IF s \in dropped THEN "dropped" ELSE "sent"
      BY DEF fateOf
    <3>2. fateOf'[s] = IF s >= seq + 1 THEN "unsent"
                       ELSE IF s \in appliedSeqs \cap dropped THEN "both"
                       ELSE IF s \in appliedSeqs THEN "applied"
                       ELSE IF s \in dropped THEN "dropped" ELSE "sent"
      BY <1>3, <1>4, <1>8 DEF fateOf
    <3>3. s \in Int
      BY <1>2
    <3>4. CASE s = seq
      <4>1. ~(s >= seq + 1)
        BY <1>2, <3>4
      <4>. QED BY <2>3, <3>2, <3>4, <4>1
    <3>5. CASE s # seq
      <4>1. s >= seq <=> s >= seq + 1
        BY <1>2, <3>3, <3>5
      <4>. QED BY <3>1, <3>2, <3>5, <4>1
    <3>. QED BY <3>4, <3>5
  <2>6. fateOf' = [fateOf EXCEPT ![seq] = "sent"]
    <3>1. DOMAIN fateOf = Seqs /\ fateOf = [s \in Seqs |-> fateOf[s]] /\ fateOf' = [s \in Seqs |-> fateOf'[s]]
      BY DEF fateOf
    <3>. QED BY <2>1, <2>5, <3>1
  <2>7. Ledger!Send(seq)
    BY <2>2, <2>4, <2>6 DEF Ledger!Send
  <2>. QED BY <2>1, <2>7 DEF Ledger!Next
<1>. QED BY <1>5, <1>7, <1>8

\* The authority settles frames that were sent and not settled, all one way.
LEMMA AuthoritySettles ==
  ASSUME InputsInv, NEW S \in SUBSET Seqs, UNCHANGED <<seq, ack>>,
         \A s \in S : s < seq /\ s \notin appliedSeqs \cup dropped,
         \/ dropped' = dropped \cup S /\ appliedSeqs' = appliedSeqs
         \/ dropped' = dropped /\ appliedSeqs' = appliedSeqs \cup S
  PROVE  Ledger!Next
<1>. DEFINE how == IF dropped' = dropped \cup S /\ appliedSeqs' = appliedSeqs THEN "dropped" ELSE "applied"
<1>1. ClientTypes /\ ServerTypes
  BY TypeHalves DEF InputsInv
<1>2. seq \in Int /\ \A s \in Seqs : s \in Int
  BY <1>1, Counters
<1>3. \A s \in S : fateOf[s] = "sent"
  BY Fates
<1>4. ASSUME NEW s \in Seqs PROVE fateOf'[s] = IF s \in S THEN how ELSE fateOf[s]
  <2>1. fateOf[s] = IF s >= seq THEN "unsent"
                    ELSE IF s \in appliedSeqs \cap dropped THEN "both"
                    ELSE IF s \in appliedSeqs THEN "applied"
                    ELSE IF s \in dropped THEN "dropped" ELSE "sent"
    BY DEF fateOf
  <2>2. fateOf'[s] = IF s >= seq THEN "unsent"
                     ELSE IF s \in appliedSeqs' \cap dropped' THEN "both"
                     ELSE IF s \in appliedSeqs' THEN "applied"
                     ELSE IF s \in dropped' THEN "dropped" ELSE "sent"
    BY DEF fateOf
  <2>3. s \in S => ~(s >= seq) /\ s \notin appliedSeqs \cup dropped
    BY <1>2
  <2>4. CASE s \in S
    BY <2>2, <2>3, <2>4
  <2>5. CASE s \notin S
    <3>1. (s \in dropped' <=> s \in dropped) /\ (s \in appliedSeqs' <=> s \in appliedSeqs)
      BY <2>5
    <3>. QED BY <2>1, <2>2, <2>5, <3>1
  <2>. QED BY <2>4, <2>5
<1>5. fateOf' = [s \in Seqs |-> IF s \in S THEN how ELSE fateOf[s]]
  <2>1. fateOf' = [s \in Seqs |-> fateOf'[s]]
    BY DEF fateOf
  <2>. HIDE DEF how
  <2>. QED BY <1>4, <2>1
<1>6. how \in {"applied", "dropped"}
  OBVIOUS
<1>. HIDE DEF how
<1>7. Ledger!Settle(S, how)
  BY <1>3, <1>5 DEF Ledger!Settle
<1>. QED BY <1>6, <1>7 DEF Ledger!Next

LEMMA LedgerSteps ==
  ASSUME InputsInv, InputsInv', [Next]_vars
  PROVE  [Ledger!Next]_(Ledger!ledgerVars)
<1>1. ClientTypes /\ ServerTypes
  BY TypeHalves DEF InputsInv
<1>2. CASE device \/ frames \/ ask \/ drainInbox
  BY <1>1, <1>2, ClientActs, ClientSteps
<1>3. CASE receive
  <2>. DEFINE S == dropped' \ dropped
  <2>1. UNCHANGED <<seq, ack>> /\ UNCHANGED log
    BY <1>3 DEF receive, clientVars
  <2>2. appliedSeqs' = appliedSeqs
    BY <2>1 DEF appliedSeqs
  <2>3. dropped \subseteq dropped'
    BY <1>3 DEF receive, overRate, closeFor, admit
  <2>4. /\ dropped' \subseteq Seqs /\ (\A s \in dropped' : s < seq') /\ appliedSeqs' \cap dropped' = {}
    BY DEF InputsInv, TypeOK, Ledgered, Numbered, Apart
  <2>5. S \in SUBSET Seqs /\ dropped' = dropped \cup S /\ \A s \in S : s < seq /\ s \notin appliedSeqs \cup dropped
    BY <2>1, <2>2, <2>3, <2>4
  <2>. HIDE DEF S
  <2>. QED BY <2>1, <2>2, <2>5, AuthoritySettles
<1>4. CASE steps
  <2>1. PICK sends \in BOOLEAN : stepOnce(sends)
    BY <1>4 DEF steps
  <2>2. StepsAs(sends)
    BY <1>1, <2>1, StepNamed
  <2>3. /\ UNCHANGED <<seq, ack>> /\ UNCHANGED dropped /\ log' = log \o Noting
        /\ buffer' = [t \in Slots |-> IF t \in 1 .. (FutureHorizon - 1) THEN buffer[t + 1] ELSE << >>]
    BY <2>2 DEF StepsAs
  <2>4. LogChained /\ SlotsChained /\ Apart
    BY DEF InputsInv, Ordered, Ledgered
  <2>5. Filed = Below(1) \cup Filed' /\ \A f \in Below(1), g \in Filed' : Before(f, g)
    BY <1>1, <2>3, <2>4, Advanced
  <2>6. appliedSeqs' = appliedSeqs \cup AppliedNow
    BY <1>1, <2>3, <2>4, <2>5, Logs
  <2>7. AppliedNow \subseteq FiledSeqs /\ FiledSeqs \subseteq Seqs
    BY <1>1, StepSettles, FiledEntries DEF FiledSeqs
  <2>8. \A s \in AppliedNow : s < seq /\ s \notin appliedSeqs \cup dropped
    BY <2>4, <2>7, Fates DEF Apart
  <2>. QED BY <2>3, <2>6, <2>7, <2>8, AuthoritySettles
<1>5. CASE setSimRate \/ UNCHANGED vars
  <2>1. UNCHANGED <<seq, ack>> /\ UNCHANGED <<log, dropped>>
    BY <1>5 DEF setSimRate, vars, clientVars, serverVars
  <2>2. appliedSeqs' = appliedSeqs
    BY <2>1 DEF appliedSeqs
  <2>3. fateOf' = fateOf
    BY <2>1, <2>2 DEF fateOf
  <2>. QED BY <2>1, <2>3 DEF Ledger!ledgerVars
<1>. QED BY <1>2, <1>3, <1>4, <1>5 DEF Next

\* The input path implements the ledger: a frame is settled at most once, and the client is told to
\* forget settled frames only (AdmissionState.takeAck, InputRing.ack).
THEOREM InputPathKeepsLedger == Spec => KeepsLedger
<1>1. Init => Ledger!Init
  <2>. SUFFICES ASSUME Init PROVE Ledger!Init
    OBVIOUS
  <2>1. seq = 0 /\ ack = -1
    BY DEF Init
  <2>2. \A s \in Seqs : s >= seq
    BY <2>1, Numbers
  <2>. QED BY <2>1, <2>2 DEF Ledger!Init, fateOf
<1>2. InputsInv /\ InputsInv' /\ [Next]_vars => [Ledger!Next]_(Ledger!ledgerVars)
  BY LedgerSteps
<1>. QED BY <1>1, <1>2, InputsInvariant, PTL DEF Spec, KeepsLedger, Ledger!Spec
=============================================================================
