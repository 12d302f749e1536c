----------------------------- MODULE Play_proofs -----------------------------
(***************************************************************************)
(* Proofs about Sessions and Textures: what a player's client, the         *)
(* simulation it plays in and its renderer promise, for any connections,   *)
(* identities, limits, batches, losses and orders of delivery.             *)
(*                                                                         *)
(* None of the five promises of Sessions is inductive. A tick folds six    *)
(* lists, one after the other, over the registry, so what it does is       *)
(* proved element by element (Step, what holds between any two elements)   *)
(* and carried to the end of each list by FoldLemma. SessionsInv says how  *)
(* the accounts of a connection agree at the ticks: the client's end, the  *)
(* two directions of its link, the batch, the registry, the records that   *)
(* are loaded, cached, on their way to the store and in it.                *)
(***************************************************************************)
EXTENDS Sessions, Textures, FiniteSetTheorems, TLAPS

(* The types. *)

Frames == {"reject", "welcome"}
Save == [who : Who, value : Nat]
Record == Nat \cup {Empty}
Output == [sends : Seq(Conns \X Frames), closes : Seq(Conns), loads : Seq(Conns), saves : Seq(Save)]
Srv == [st : [Conns -> {"none", "open", "joined"}], admitting : SUBSET Conns, pending : SUBSET Conns,
        closed : BOOLEAN, field : [Conns -> Nat], fresh : SUBSET Conns, cache : [Who -> Record],
        blind : SUBSET Conns, out : Output]
Answer == [conn : Conns, value : Record]
Batch == [opened : Seq(Conns), saved : Seq(Who), records : Seq(Answer), frames : Seq(Conns),
          closed : Seq(Conns)]
Ending == {"disconnected", "rejected", "failed", "torn"}
Active == {"dialed", "connecting", "loading", "live", "resyncing"}

SessionTypes ==
  /\ srv \in Srv /\ srv.out = NoOutput
  /\ batch \in Batch
  /\ loads \subseteq Conns /\ refused \subseteq Conns
  /\ saves \in Seq(Save)
  /\ store \in [Who -> Nat] /\ played \in [Who -> Nat]
  /\ sock \in [Conns -> {"none", "open", "closing", "closed"}]
  /\ cli \in [Conns -> {"off"} \cup Active \cup Ending]
  /\ wire \in [Conns -> Seq(Frames \cup {"close"})]
  /\ inbox \in [Conns -> Seq(Frames)]

\* The registry's books.
Tidy(s) ==
  /\ s.admitting \subseteq Unjoined(s)
  /\ s.pending \cup s.fresh \cup s.blind \subseteq Joined(s)
  /\ \A c, d \in Unjoined(s) : SameId(c, d) => c = d
  /\ \A c, d \in Joined(s) : SameId(c, d) => c = d
  /\ Cardinality(Joined(s)) <= MaxPlayers

\* A list holds x.
Has(seq, x) == \E i \in DOMAIN seq : seq[i] = x

\* The client's end agrees with its state, and before it dials nobody knows of it.
EndOf(c) ==
  /\ sock[c] = "none" <=> cli[c] = "off"
  /\ sock[c] = "open" <=> cli[c] \in Active
  /\ sock[c] = "none" =>
       /\ srv.st[c] = "none" /\ ~Has(batch.opened, c) /\ ~Has(batch.closed, c)
       /\ wire[c] = << >> /\ inbox[c] = << >> /\ c \notin cut /\ c \notin refused
       /\ c \notin loads /\ \A i \in DOMAIN batch.records : batch.records[i].conn # c

\* A connection is opened once.
OpenedOnce ==
  /\ \A i, j \in DOMAIN batch.opened : batch.opened[i] = batch.opened[j] => i = j
  /\ \A c \in Conns : Has(batch.opened, c) => srv.st[c] = "none"

\* The simulation is through with a connection.
Past(c) == srv.closed \/ (srv.st[c] = "none" /\ ~Has(batch.opened, c))

\* A connection that ended is out of the simulation or about to be, and is not reported closed before.
ClosingOf(c) ==
  /\ sock[c] \in {"closing", "closed"} \/ c \in cut => Past(c) \/ Has(batch.closed, c)
  /\ Has(batch.closed, c) => sock[c] # "open" \/ c \in cut
  /\ cli[c] = "disconnected" => Past(c) \/ c \in cut

\* What is on the link: a refusal comes before the close, a Welcome goes to a player.
Refusal(c) ==
  \/ Has(inbox[c], "reject")
  \/ \E i \in DOMAIN wire[c] : wire[c][i] = "reject" /\ \A j \in 1 .. i : wire[c][j] # "close"
LinkOf(c) ==
  /\ Has(wire[c], "close") => c \in cut \/ Past(c)
  /\ c \in cut /\ sock[c] = "open" => Has(wire[c], "close")
  /\ cli[c] \in {"loading", "live", "resyncing"} \/ Has(inbox[c], "welcome") \/ Has(wire[c], "welcome")
       => srv.st[c] = "joined" \/ Has(wire[c], "close") \/ sock[c] # "open"
  /\ c \in refused \ cut =>
       /\ sock[c] = "open" => Refusal(c)
       /\ cli[c] # "disconnected"

\* The record of c is being read, or was and waits for the tick.
Asked(c) == c \in loads \/ \E i \in DOMAIN batch.records : batch.records[i].conn = c
Loads ==
  /\ \A c \in Conns : Asked(c) =>
       Named(c) /\ ~Has(batch.opened, c) /\ (srv.st[c] = "none" \/ c \in srv.admitting)
  /\ \A i, j \in DOMAIN batch.records : batch.records[i].conn = batch.records[j].conn => i = j
  /\ \A i \in DOMAIN batch.records : batch.records[i].conn \notin loads

\* What w has played is where it should be: with the player, in the cache, on its way, or in the store.
Kept(s, w) ==
  /\ \A c \in Joined(s) \ s.blind : identity[c] = w => s.cache[w] # Empty /\ s.field[c] = played[w]
  /\ \A c \in s.blind \cup s.admitting : identity[c] = w => s.cache[w] = Empty
  /\ s.cache[w] = Empty => store[w] = played[w] /\ \A i \in DOMAIN saves : saves[i].who # w
  /\ s.cache[w] # Empty => s.cache[w] = played[w] \/ \E c \in Joined(s) \ s.blind : identity[c] = w
  /\ \A i \in DOMAIN s.out.saves :
       s.out.saves[i].who = w => s.out.saves[i].value = played[w] /\ s.cache[w] # Empty
Stints ==
  \A w \in Who \ excused :
    /\ Kept(srv, w)
    /\ store[w] <= played[w]
    /\ \A i \in DOMAIN saves : saves[i].who = w => saves[i].value <= played[w]
    /\ \A i \in DOMAIN batch.records :
         LET a == batch.records[i]
         IN  identity[a.conn] = w /\ a.value # Empty /\ srv.st[a.conn] # "none" => a.value = played[w]
SessionsInv ==
  /\ SessionTypes /\ Tidy(srv) /\ (srv.closed => \A c \in Conns : srv.st[c] = "none")
  /\ OpenedOnce /\ Loads /\ Stints
  /\ \A c \in Conns : EndOf(c) /\ ClosingOf(c) /\ LinkOf(c)

-----------------------------------------------------------------------------
\* c is gone from the registry.
Left(s, t, c) ==
  /\ t \in Srv
  /\ t.st = [s.st EXCEPT ![c] = "none"] /\ t.field = [s.field EXCEPT ![c] = 0]
  /\ t.admitting = s.admitting \ {c} /\ t.pending = s.pending \ {c}
  /\ t.fresh = s.fresh \ {c} /\ t.blind = s.blind \ {c}
  /\ t.closed = s.closed

\* Nothing but saves was added to the output.
Told(s, t) == t.out.sends = s.out.sends /\ t.out.closes = s.out.closes /\ t.out.loads = s.out.loads

\* SimServer.release: a session leaves every book, and a player whose record is cached is captured and saved.
LEMMA Leaves ==
  ASSUME NEW s \in Srv, NEW c \in Conns, s.st[c] # "none"
  PROVE  /\ Left(s, release(s, c), c) /\ Told(s, release(s, c))
         /\ IF s.st[c] = "joined" /\ Named(c) /\ s.cache[identity[c]] # Empty
            THEN /\ release(s, c).cache = [s.cache EXCEPT ![identity[c]] = s.field[c]]
                 /\ release(s, c).out.saves = Append(s.out.saves, [who |-> identity[c], value |-> s.field[c]])
            ELSE release(s, c).cache = s.cache /\ release(s, c).out.saves = s.out.saves
<1>. DEFINE gone == [s EXCEPT !.st[c] = "none", !.admitting = @ \ {c}, !.pending = @ \ {c},
                               !.fresh = @ \ {c}, !.blind = @ \ {c}, !.field[c] = 0]
<1>1. Left(s, gone, c) /\ gone.out = s.out /\ gone.cache = s.cache
  BY DEF Srv, Left
<1>2. CASE s.st[c] # "joined"
  BY <1>1, <1>2 DEF release, Told
<1>3. CASE s.st[c] = "joined"
  <2>. DEFINE kept == captured(s, c)
              t == [gone EXCEPT !.cache = kept.cache, !.out = kept.out]
  <2>1. release(s, c) = t
    BY <1>3 DEF release
  <2>2. /\ kept.cache \in [Who -> Record] /\ kept.out \in Output /\ Told(s, kept)
        /\ IF Named(c) /\ s.cache[identity[c]] # Empty
            THEN /\ kept.cache = [s.cache EXCEPT ![identity[c]] = s.field[c]]
                 /\ kept.out.saves = Append(s.out.saves, [who |-> identity[c], value |-> s.field[c]])
            ELSE kept.cache = s.cache /\ kept.out.saves = s.out.saves
    <3>1. CASE ~(Named(c) /\ s.cache[identity[c]] # Empty)
      BY <3>1 DEF captured, Srv, Told
    <3>2. CASE Named(c) /\ s.cache[identity[c]] # Empty
      <4>1. identity[c] \in Who
        BY <3>2, SessionsAssumption DEF Named
      <4>2. [who |-> identity[c], value |-> s.field[c]] \in Save
        BY <4>1 DEF Save, Srv
      <4>3. /\ kept.cache = [s.cache EXCEPT ![identity[c]] = s.field[c]]
            /\ kept.out = [s.out EXCEPT !.saves = Append(@, [who |-> identity[c], value |-> s.field[c]])]
        BY <3>2 DEF captured, Srv, Output
      <4>4. kept.cache \in [Who -> Record]
        BY <4>1, <4>3 DEF Srv, Record
      <4>5. kept.out \in Output /\ kept.out.saves = Append(s.out.saves, [who |-> identity[c], value |-> s.field[c]])
            /\ Told(s, kept)
        <5>. DEFINE x == Append(s.out.saves, [who |-> identity[c], value |-> s.field[c]])
                    o == s.out
                    p == kept.out
        <5>1. o \in Output /\ x \in Seq(Save)
          BY <4>2 DEF Srv, Output
        <5>2. p = [o EXCEPT !.saves = x]
          BY <4>3
        <5>. HIDE DEF x, o, p
        <5>5. p \in Output /\ p.saves = x /\ p.sends = o.sends /\ p.closes = o.closes /\ p.loads = o.loads
          BY <5>1, <5>2 DEF Output
        <5>. QED BY <5>5 DEF Told, x, o, p
      <4>. QED BY <3>2, <4>3, <4>4, <4>5
    <3>. QED BY <3>1, <3>2
  <2>. HIDE DEF gone, kept
  <2>3. Left(s, t, c) /\ t.cache = kept.cache /\ t.out = kept.out
    BY <1>1, <2>2 DEF Left, Srv
  <2>. HIDE DEF t
  <2>. QED BY <1>3, <2>1, <2>2, <2>3 DEF Told
<1>. QED BY <1>2, <1>3

\* Nothing but what is said changes.
SameBooks(s, t) ==
  /\ t \in Srv
  /\ t.st = s.st /\ t.field = s.field /\ t.admitting = s.admitting /\ t.pending = s.pending
  /\ t.fresh = s.fresh /\ t.blind = s.blind /\ t.closed = s.closed /\ t.cache = s.cache

\* A frame and a close are appended to the output, and no book of the registry changes.
LEMMA Says ==
  ASSUME NEW s \in Srv, NEW c \in Conns, NEW f \in Frames
  PROVE  /\ SameBooks(s, sent(s, c, f))
         /\ sent(s, c, f).out.sends = Append(s.out.sends, <<c, f>>)
         /\ sent(s, c, f).out.closes = s.out.closes /\ sent(s, c, f).out.loads = s.out.loads
         /\ sent(s, c, f).out.saves = s.out.saves
         /\ SameBooks(s, closes(s, c))
         /\ closes(s, c).out.closes = Append(s.out.closes, c)
         /\ closes(s, c).out.sends = s.out.sends /\ closes(s, c).out.loads = s.out.loads
         /\ closes(s, c).out.saves = s.out.saves
<1>. DEFINE o == s.out
            x == Append(s.out.sends, <<c, f>>)
            y == Append(s.out.closes, c)
            p == [o EXCEPT !.sends = x]
            q == [o EXCEPT !.closes = y]
<1>1. o \in Output /\ x \in Seq(Conns \X Frames) /\ y \in Seq(Conns)
  BY DEF Srv, Output
<1>2. sent(s, c, f) = [s EXCEPT !.out = p] /\ closes(s, c) = [s EXCEPT !.out = q]
  BY DEF sent, closes, Srv
<1>. HIDE DEF o, x, y
<1>3. /\ p \in Output /\ p.sends = x /\ p.closes = o.closes /\ p.loads = o.loads /\ p.saves = o.saves
      /\ q \in Output /\ q.closes = y /\ q.sends = o.sends /\ q.loads = o.loads /\ q.saves = o.saves
  BY <1>1 DEF Output
<1>. HIDE DEF p, q
<1>4. SameBooks(s, [s EXCEPT !.out = p]) /\ SameBooks(s, [s EXCEPT !.out = q])
  BY <1>3 DEF Srv, SameBooks
<1>5. [s EXCEPT !.out = p].out = p /\ [s EXCEPT !.out = q].out = q
  BY DEF Srv
<1>. QED BY <1>2, <1>3, <1>4, <1>5 DEF o, x, y

\* A session that never joined is sent away.
Turned(s, t, c) ==
  /\ Left(s, t, c) /\ t.cache = s.cache /\ t.out.saves = s.out.saves /\ t.out.loads = s.out.loads
  /\ t.out.closes = Append(s.out.closes, c)
  /\ t.out.sends = s.out.sends \/ t.out.sends = Append(s.out.sends, <<c, "reject">>)

\* Rejecting a session and closing it (SimServer.reject, closeFor) both take it out and close its link.
LEMMA TurnsAway ==
  ASSUME NEW s \in Srv, NEW c \in Conns, s.st[c] = "open"
  PROVE  Turned(s, reject(s, c), c) /\ Turned(s, closeFor(s, c), c)
<1>. DEFINE s1 == sent(s, c, "reject")
            s2 == closes(s1, c)
            s3 == closes(s, c)
<1>1. /\ SameBooks(s, s1) /\ s1.out.sends = Append(s.out.sends, <<c, "reject">>)
      /\ s1.out.closes = s.out.closes /\ s1.out.loads = s.out.loads /\ s1.out.saves = s.out.saves
  BY Says DEF Frames
<1>2. SameBooks(s, s3) /\ s3.out.sends = s.out.sends /\ s3.out.closes = Append(s.out.closes, c)
      /\ s3.out.loads = s.out.loads /\ s3.out.saves = s.out.saves
  BY Says DEF Frames
<1>. HIDE DEF s1, s3
<1>3. s1 \in Srv
  BY <1>1 DEF SameBooks
<1>4. SameBooks(s1, s2) /\ s2.out.sends = s1.out.sends /\ s2.out.closes = Append(s1.out.closes, c)
      /\ s2.out.loads = s1.out.loads /\ s2.out.saves = s1.out.saves
  BY <1>3, Says DEF Frames
<1>. HIDE DEF s2
<1>5. s2 \in Srv /\ s2.st[c] = "open" /\ s3 \in Srv /\ s3.st[c] = "open"
  BY <1>1, <1>2, <1>4 DEF SameBooks
<1>6. Turned(s, release(s2, c), c)
  <2>1. /\ Left(s2, release(s2, c), c) /\ Told(s2, release(s2, c))
        /\ release(s2, c).cache = s2.cache /\ release(s2, c).out.saves = s2.out.saves
    BY <1>5, Leaves
  <2>. QED BY <1>1, <1>4, <2>1 DEF Turned, Left, Told, SameBooks
<1>7. Turned(s, release(s3, c), c)
  <2>1. /\ Left(s3, release(s3, c), c) /\ Told(s3, release(s3, c))
        /\ release(s3, c).cache = s3.cache /\ release(s3, c).out.saves = s3.out.saves
    BY <1>5, Leaves
  <2>. QED BY <1>2, <2>1 DEF Turned, Left, Told, SameBooks
<1>8. reject(s, c) = release(s2, c) /\ closeFor(s, c) = release(s3, c)
  BY DEF reject, closeFor, s1, s2, s3
<1>. QED BY <1>6, <1>7, <1>8

\* A session becomes a player's.
Enters(s, t, c) ==
  /\ t \in Srv /\ ~(Cardinality(Joined(s)) >= MaxPlayers) /\ \A d \in Joined(s) : ~SameId(c, d)
  /\ t.st = [s.st EXCEPT ![c] = "joined"] /\ t.pending = s.pending \cup {c}
  /\ t.fresh = s.fresh \cup {c} /\ t.admitting = s.admitting /\ t.closed = s.closed
  /\ t.cache = s.cache /\ t.out = s.out
  /\ IF Named(c) /\ s.cache[identity[c]] # Empty
     THEN t.field = [s.field EXCEPT ![c] = s.cache[identity[c]]] /\ t.blind = s.blind
     ELSE /\ t.field = [s.field EXCEPT ![c] = 0]
          /\ t.blind = IF Named(c) THEN s.blind \cup {c} ELSE s.blind

\* SimServer.admit: a session that asks to join is turned away or becomes a player.
LEMMA Admits ==
  ASSUME NEW s \in Srv, NEW c \in Conns, s.st[c] = "open"
  PROVE  Turned(s, admit(s, c), c) \/ Enters(s, admit(s, c), c)
<1>. DEFINE full == Cardinality(Joined(s)) >= MaxPlayers \/ \E d \in Joined(s) : SameId(c, d)
            record == IF Named(c) THEN s.cache[identity[c]] ELSE Empty
            value == IF record = Empty THEN 0 ELSE record
            seen == IF Named(c) /\ record = Empty THEN s.blind \cup {c} ELSE s.blind
            t == [s EXCEPT !.st[c] = "joined", !.pending = @ \cup {c}, !.field[c] = value,
                           !.fresh = @ \cup {c}, !.blind = seen]
<1>1. CASE full
  BY <1>1, TurnsAway DEF admit
<1>2. CASE ~full
  <2>1. admit(s, c) = t
    BY <1>2 DEF admit
  <2>2. value \in Nat /\ seen \in SUBSET Conns
    BY SessionsAssumption DEF Srv, Record, Named
  <2>3. IF Named(c) /\ s.cache[identity[c]] # Empty
        THEN value = s.cache[identity[c]] /\ seen = s.blind
        ELSE value = 0 /\ seen = IF Named(c) THEN s.blind \cup {c} ELSE s.blind
    OBVIOUS
  <2>. HIDE DEF value, seen
  <2>4. /\ t \in Srv /\ t.st = [s.st EXCEPT ![c] = "joined"] /\ t.pending = s.pending \cup {c}
        /\ t.fresh = s.fresh \cup {c} /\ t.admitting = s.admitting /\ t.closed = s.closed
        /\ t.cache = s.cache /\ t.out = s.out /\ t.field = [s.field EXCEPT ![c] = value] /\ t.blind = seen
    BY <2>2 DEF Srv
  <2>. HIDE DEF t
  <2>. QED BY <1>2, <2>1, <2>3, <2>4 DEF Enters
<1>. QED BY <1>1, <1>2

-----------------------------------------------------------------------------
\* What stays true between any two elements of a batch, of the players in W and but for leaves in D.
Outside(c) == srv.st[c] = "none" /\ ~Has(batch.opened, c)
Quiet(t) ==
  /\ \A c \in Conns : Outside(c) =>
       /\ t.st[c] = "none" /\ ~Has(t.out.closes, c) /\ ~Has(t.out.loads, c)
       /\ \A i \in DOMAIN t.out.sends : t.out.sends[i][1] # c
  /\ \A c \in Conns : Has(t.out.closes, c) => t.st[c] = "none"
  /\ \A i \in DOMAIN t.out.sends : t.out.sends[i][2] = "reject"
Owed(t) ==
  \A c \in Conns : c \in loads \/ Has(t.out.loads, c) => Named(c) /\ (t.st[c] = "none" \/ c \in t.admitting)
Stay(t, D) == \A c \in Conns \ D : srv.st[c] = "joined" => t.st[c] = "joined"
Step(t, W, D) ==
  t \in Srv /\ Tidy(t) /\ Quiet(t) /\ Owed(t) /\ Stay(t, D) /\ \A w \in W : Kept(t, w)

\* What a list holds once an element is appended.
LEMMA Appending ==
  ASSUME NEW X, NEW q \in Seq(X), NEW x \in X
  PROVE  /\ \A i \in DOMAIN Append(q, x) : Append(q, x)[i] = x \/ (i \in DOMAIN q /\ Append(q, x)[i] = q[i])
         /\ \A y : Has(Append(q, x), y) <=> Has(q, y) \/ y = x
<1>1. /\ Len(q) \in Nat /\ DOMAIN q = 1 .. Len(q) /\ DOMAIN Append(q, x) = 1 .. Len(q) + 1
      /\ Append(q, x)[Len(q) + 1] = x /\ \A i \in 1 .. Len(q) : Append(q, x)[i] = q[i]
  OBVIOUS
<1>2. \A i \in 1 .. Len(q) + 1 : i = Len(q) + 1 \/ i \in 1 .. Len(q)
  BY <1>1
<1>3. (\A i \in 1 .. Len(q) : i \in 1 .. Len(q) + 1) /\ Len(q) + 1 \in 1 .. Len(q) + 1
  BY <1>1
<1>4. \A i \in DOMAIN Append(q, x) : Append(q, x)[i] = x \/ (i \in DOMAIN q /\ Append(q, x)[i] = q[i])
  BY <1>1, <1>2
<1>5. ASSUME NEW y PROVE Has(Append(q, x), y) <=> Has(q, y) \/ y = x
  BY <1>1, <1>2, <1>3 DEF Has
<1>. QED BY <1>4, <1>5

\* Turning a session away keeps Step.
LEMMA StepTurned ==
  ASSUME NEW W \in SUBSET Who, NEW D, NEW s, Step(s, W, D), NEW c \in Conns, s.st[c] = "open",
         NEW t, Turned(s, t, c)
  PROVE  Step(t, W, D)
<1>1. /\ s \in Srv /\ t \in Srv /\ s.out \in Output /\ t.out \in Output
      /\ s.st \in [Conns -> {"none", "open", "joined"}] /\ s.field \in [Conns -> Nat]
  BY DEF Step, Turned, Left, Srv
<1>2. /\ t.st = [s.st EXCEPT ![c] = "none"] /\ t.field = [s.field EXCEPT ![c] = 0]
      /\ t.admitting = s.admitting \ {c} /\ t.pending = s.pending \ {c}
      /\ t.fresh = s.fresh \ {c} /\ t.blind = s.blind \ {c}
  BY DEF Turned, Left
<1>3. t.st[c] = "none" /\ \A d \in Conns : d # c => t.st[d] = s.st[d] /\ t.field[d] = s.field[d]
  BY <1>1, <1>2
<1>4. Joined(t) = Joined(s) /\ Unjoined(t) = Unjoined(s) \ {c} /\ c \notin Joined(s)
  BY <1>3 DEF Joined, Unjoined
<1>5. Tidy(s) /\ c \notin s.blind
  BY <1>4 DEF Step, Tidy
<1>6. Tidy(t)
  BY <1>2, <1>4, <1>5 DEF Tidy
<1>7. Quiet(t)
  <2>1. /\ \A d \in Conns : Has(t.out.closes, d) => Has(s.out.closes, d) \/ d = c
        /\ \A i \in DOMAIN t.out.sends :
             t.out.sends[i] = <<c, "reject">> \/ (i \in DOMAIN s.out.sends /\ t.out.sends[i] = s.out.sends[i])
    <3>1. s.out.closes \in Seq(Conns) /\ s.out.sends \in Seq(Conns \X Frames) /\ <<c, "reject">> \in Conns \X Frames
      BY <1>1 DEF Output, Frames
    <3>2. \A d : Has(Append(s.out.closes, c), d) <=> Has(s.out.closes, d) \/ d = c
      BY <3>1, Appending
    <3>3. \A i \in DOMAIN Append(s.out.sends, <<c, "reject">>) :
            LET a == Append(s.out.sends, <<c, "reject">>)[i]
            IN  a = <<c, "reject">> \/ (i \in DOMAIN s.out.sends /\ a = s.out.sends[i])
      BY <3>1, Appending
    <3>. QED BY <3>2, <3>3 DEF Turned
  <2>2. t.out.loads = s.out.loads
    BY DEF Turned
  <2>. QED BY <1>3, <2>1, <2>2 DEF Step, Quiet
<1>8. Owed(t)
  BY <1>2, <1>3 DEF Step, Owed, Turned
<1>9. Stay(t, D)
  BY <1>3 DEF Step, Stay
<1>10. \A w \in W : Kept(t, w)
  <2>. SUFFICES ASSUME NEW w \in W PROVE Kept(t, w)
    OBVIOUS
  <2>1. Kept(s, w) /\ t.cache = s.cache /\ t.out.saves = s.out.saves /\ t.blind = s.blind
    BY <1>2, <1>5 DEF Step, Turned
  <2>2. \A d \in Joined(s) : t.field[d] = s.field[d]
    BY <1>3, <1>4 DEF Joined
  <2>. QED BY <1>2, <1>4, <2>1, <2>2 DEF Kept
<1>. QED BY <1>1, <1>6, <1>7, <1>8, <1>9, <1>10 DEF Step

\* Letting a session in as a player keeps Step: the seats and the id were free.
LEMMA StepEnters ==
  ASSUME NEW W \in SUBSET Who, NEW D, NEW s, Step(s, W, D), NEW c \in Conns, s.st[c] = "open",
         c \notin s.admitting, NEW t, Enters(s, t, c)
  PROVE  Step(t, W, D)
<1>1. /\ s \in Srv /\ t \in Srv
      /\ s.st \in [Conns -> {"none", "open", "joined"}] /\ s.field \in [Conns -> Nat]
  BY DEF Step, Enters, Srv
<1>2. t.st[c] = "joined" /\ \A d \in Conns : d # c => t.st[d] = s.st[d]
  BY <1>1 DEF Enters
<1>3. Joined(t) = Joined(s) \cup {c} /\ Unjoined(t) = Unjoined(s) \ {c} /\ c \notin Joined(s)
  BY <1>2 DEF Joined, Unjoined
<1>4. Tidy(s) /\ c \notin s.blind
  BY <1>3 DEF Step, Tidy
<1>5. Tidy(t)
  <2>1. \A d, e \in Joined(t) : SameId(d, e) => d = e
    BY <1>3, <1>4 DEF Tidy, Enters, SameId, Named
  <2>2. t.pending \cup t.fresh \cup t.blind \subseteq Joined(t)
    BY <1>3, <1>4 DEF Tidy, Enters
  <2>3. Cardinality(Joined(t)) <= MaxPlayers
    <3>1. IsFiniteSet(Joined(s)) /\ MaxPlayers \in Nat
      BY SessionsAssumption, FS_Subset DEF Joined
    <3>2. Cardinality(Joined(s)) \in Nat
      BY <3>1, FS_CardinalityType
    <3>3. Cardinality(Joined(t)) = Cardinality(Joined(s)) + 1
      BY <1>3, <3>1, FS_AddElement
    <3>. QED BY <3>1, <3>2, <3>3 DEF Enters
  <2>. QED BY <1>3, <1>4, <2>1, <2>2, <2>3 DEF Tidy, Enters
<1>6. Quiet(t)
  BY <1>2 DEF Step, Quiet, Enters
<1>7. Owed(t)
  BY <1>2 DEF Step, Owed, Enters
<1>8. Stay(t, D)
  BY <1>2 DEF Step, Stay
<1>9. \A w \in W : Kept(t, w)
  <2>. SUFFICES ASSUME NEW w \in W PROVE Kept(t, w)
    OBVIOUS
  <2>1. Kept(s, w) /\ t.cache = s.cache /\ t.out.saves = s.out.saves /\ t.admitting = s.admitting
    BY DEF Step, Enters
  <2>2. \A d \in Joined(s) : t.field[d] = s.field[d]
    <3>1. t.field = [s.field EXCEPT ![c] = t.field[c]]
      BY <1>1 DEF Enters
    <3>. QED BY <1>1, <1>3, <3>1 DEF Joined
  <2>3. CASE identity[c] # w
    <3>1. \A d \in Joined(t) \ t.blind : identity[d] = w => d \in Joined(s) \ s.blind
      BY <1>3, <1>4, <2>3 DEF Enters
    <3>2. \A d \in Joined(s) \ s.blind : identity[d] = w => d \in Joined(t) \ t.blind
      BY <1>3, <1>4, <2>3 DEF Enters
    <3>3. \A d \in t.blind \cup t.admitting : identity[d] = w => d \in s.blind \cup s.admitting
      BY <2>1, <2>3 DEF Enters
    <3>. QED BY <2>1, <2>2, <3>1, <3>2, <3>3 DEF Kept
  <2>4. CASE identity[c] = w
    <3>1. Named(c) /\ \A d \in Joined(s) : identity[d] # w
      BY <2>4, SessionsAssumption DEF Enters, SameId, Named
    <3>2. CASE s.cache[w] = Empty
      <4>1. t.blind = s.blind \cup {c}
        BY <2>4, <3>1, <3>2 DEF Enters
      <4>. QED BY <1>3, <2>1, <3>1, <3>2, <4>1 DEF Kept
    <3>3. CASE s.cache[w] # Empty
      <4>1. t.blind = s.blind /\ t.field[c] = s.cache[w]
        BY <1>1, <2>4, <3>1, <3>3 DEF Enters
      <4>2. s.cache[w] = played[w]
        BY <2>1, <3>1, <3>3 DEF Kept
      <4>. QED BY <1>3, <2>1, <3>1, <3>3, <4>1, <4>2 DEF Kept
    <3>. QED BY <3>2, <3>3
  <2>. QED BY <2>3, <2>4
<1>. QED BY <1>1, <1>5, <1>6, <1>7, <1>8, <1>9 DEF Step

\* What a dropped connection changes.
Drops(s, t, c) ==
  t.closed = s.closed /\ Told(s, t) /\ t.st[c] = "none" /\ \A d \in Conns : s.st[d] = "none" => t.st[d] = "none"

\* SimServer.drop: a connection that is lost leaves whatever it was, and its stint goes to the store.
LEMMA StepDropped ==
  ASSUME NEW W \in SUBSET Who, NEW D, NEW s, Step(s, W, D), NEW c \in Conns, c \in D
  PROVE  Step(drop(s, c), W, D) /\ Drops(s, drop(s, c), c)
<1>. DEFINE t == release(s, c)
<1>. SUFFICES Step(t, W, D) /\ Drops(s, t, c)
  BY DEF drop
<1>a. CASE s.st[c] = "none"
  BY <1>a DEF release, Drops, Told
<1>b. CASE s.st[c] # "none"
  <2>0. /\ s \in Srv /\ s.st \in [Conns -> {"none", "open", "joined"}] /\ s.field \in [Conns -> Nat]
        /\ s.cache \in [Who -> Record] /\ s.out \in Output
    BY DEF Step, Srv
  <2>1. Left(s, t, c) /\ Told(s, t)
    BY <1>b, <2>0, Leaves
  <2>c. IF s.st[c] = "joined" /\ Named(c) /\ s.cache[identity[c]] # Empty
        THEN /\ t.cache = [s.cache EXCEPT ![identity[c]] = s.field[c]]
             /\ t.out.saves = Append(s.out.saves, [who |-> identity[c], value |-> s.field[c]])
        ELSE t.cache = s.cache /\ t.out.saves = s.out.saves
    BY <1>b, <2>0, Leaves
  <2>. HIDE DEF t
  <2>2. /\ t.st = [s.st EXCEPT ![c] = "none"] /\ t.field = [s.field EXCEPT ![c] = 0]
        /\ t.admitting = s.admitting \ {c} /\ t.pending = s.pending \ {c}
        /\ t.fresh = s.fresh \ {c} /\ t.blind = s.blind \ {c} /\ t \in Srv /\ t.closed = s.closed
    BY <2>1 DEF Left
  <2>3. t.st[c] = "none" /\ \A d \in Conns : d # c => t.st[d] = s.st[d] /\ t.field[d] = s.field[d]
    BY <2>0, <2>2
  <2>4. Joined(t) = Joined(s) \ {c} /\ Unjoined(t) = Unjoined(s) \ {c}
    BY <2>3 DEF Joined, Unjoined
  <2>5. Tidy(s)
    BY DEF Step
  <2>d. Cardinality(Joined(t)) <= MaxPlayers
    <3>1. IsFiniteSet(Joined(s)) /\ MaxPlayers \in Nat
      BY SessionsAssumption, FS_Subset DEF Joined
    <3>2. Cardinality(Joined(s)) \in Nat /\ Cardinality(Joined(t)) \in Nat
      BY <2>4, <3>1, FS_Subset, FS_CardinalityType
    <3>3. Cardinality(Joined(t)) <= Cardinality(Joined(s))
      BY <2>4, <3>1, FS_Subset
    <3>. QED BY <2>5, <3>1, <3>2, <3>3 DEF Tidy
  <2>6. Tidy(t)
    BY <2>2, <2>4, <2>5, <2>d DEF Tidy
  <2>7. Quiet(t) /\ Owed(t) /\ Stay(t, D)
    <3>1. Quiet(t)
      BY <2>1, <2>3 DEF Step, Quiet, Told
    <3>2. Owed(t)
      BY <2>1, <2>2, <2>3 DEF Step, Owed, Told
    <3>3. Stay(t, D)
      BY <2>3 DEF Step, Stay
    <3>. QED BY <3>1, <3>2, <3>3
  <2>8. ASSUME NEW w \in W PROVE Kept(t, w)
    <3>0. Kept(s, w) /\ w \in Who
      BY DEF Step
    <3>1. \A d \in Joined(t) : t.field[d] = s.field[d]
      BY <2>3, <2>4 DEF Joined
    <3>2. CASE s.st[c] = "joined" /\ Named(c) /\ s.cache[identity[c]] # Empty /\ identity[c] = w
      <4>1. c \in Joined(s) /\ c \notin s.blind /\ s.field[c] = played[w] /\ played[w] \in Nat
        BY <2>0, <3>0, <3>2 DEF Kept, Joined
      <4>2. t.cache[w] = played[w] /\ t.cache[w] # Empty
        BY <2>0, <2>c, <3>0, <3>2, <4>1, SessionsAssumption
      <4>3. \A d \in Joined(t) : identity[d] # w
        BY <2>4, <2>5, <3>2, <4>1 DEF Tidy, SameId
      <4>4. \A d \in t.blind \cup t.admitting : identity[d] # w
        BY <2>2, <3>0, <3>2 DEF Kept
      <4>5. \A i \in DOMAIN t.out.saves : t.out.saves[i].who = w => t.out.saves[i].value = played[w]
        <5>1. s.out.saves \in Seq(Save) /\ [who |-> identity[c], value |-> s.field[c]] \in Save
          BY <2>0, <3>0, <3>2 DEF Output, Save
        <5>2. t.out.saves = Append(s.out.saves, [who |-> identity[c], value |-> s.field[c]])
          BY <2>c, <3>2
        <5>3. \A i \in DOMAIN t.out.saves :
                \/ t.out.saves[i] = [who |-> identity[c], value |-> s.field[c]]
                \/ i \in DOMAIN s.out.saves /\ t.out.saves[i] = s.out.saves[i]
          BY <5>1, <5>2, Appending
        <5>. QED BY <3>0, <4>1, <5>3 DEF Kept
      <4>. QED BY <4>2, <4>3, <4>4, <4>5 DEF Kept
    <3>3. CASE ~(s.st[c] = "joined" /\ Named(c) /\ s.cache[identity[c]] # Empty /\ identity[c] = w)
      <4>1. t.cache[w] = s.cache[w]
        BY <2>0, <2>c, <3>0, <3>3
      <4>2. \A i \in DOMAIN t.out.saves :
              t.out.saves[i].who = w => i \in DOMAIN s.out.saves /\ t.out.saves[i] = s.out.saves[i]
        <5>1. CASE s.st[c] = "joined" /\ Named(c) /\ s.cache[identity[c]] # Empty
          <6>1. s.out.saves \in Seq(Save) /\ [who |-> identity[c], value |-> s.field[c]] \in Save
            BY <2>0, <5>1, SessionsAssumption DEF Output, Save, Named
          <6>2. t.out.saves = Append(s.out.saves, [who |-> identity[c], value |-> s.field[c]])
            BY <2>c, <5>1
          <6>3. \A i \in DOMAIN t.out.saves :
                  \/ t.out.saves[i] = [who |-> identity[c], value |-> s.field[c]]
                  \/ i \in DOMAIN s.out.saves /\ t.out.saves[i] = s.out.saves[i]
            BY <6>1, <6>2, Appending
          <6>. QED BY <3>3, <5>1, <6>3
        <5>2. CASE ~(s.st[c] = "joined" /\ Named(c) /\ s.cache[identity[c]] # Empty)
          BY <2>c, <5>2
        <5>. QED BY <5>1, <5>2
      <4>3. s.cache[w] # Empty => s.cache[w] = played[w] \/ \E d \in Joined(t) \ t.blind : identity[d] = w
        <5>. SUFFICES ASSUME s.cache[w] # Empty, s.cache[w] # played[w]
                      PROVE  \E d \in Joined(t) \ t.blind : identity[d] = w
          OBVIOUS
        <5>1. PICK d \in Joined(s) \ s.blind : identity[d] = w
          BY <3>0 DEF Kept
        <5>2. d # c
          BY <3>0, <3>3, <5>1, SessionsAssumption DEF Named, Joined
        <5>. QED BY <2>2, <2>4, <5>1, <5>2
      <4>4. \A d \in Joined(t) \ t.blind : d \in Joined(s) \ s.blind
        BY <2>2, <2>4
      <4>5. \A d \in t.blind \cup t.admitting : d \in s.blind \cup s.admitting
        BY <2>2
      <4>. QED BY <3>0, <3>1, <4>1, <4>2, <4>3, <4>4, <4>5 DEF Kept
    <3>. QED BY <3>2, <3>3
  <2>. QED BY <2>1, <2>2, <2>3, <2>6, <2>7, <2>8 DEF Step, Drops
<1>. QED BY <1>a, <1>b

\* SimServer.admit keeps Step, and no other session is touched.
LEMMA StepAdmits ==
  ASSUME NEW W \in SUBSET Who, NEW D, NEW s, Step(s, W, D), NEW c \in Conns, c \notin s.admitting
  PROVE  Step(admit(s, c), W, D) /\ admit(s, c).closed = s.closed /\ (s.out.loads = admit(s, c).out.loads)
         /\ admit(s, c).admitting = s.admitting
         /\ (\A d \in Conns : d # c => admit(s, c).st[d] = s.st[d])
         /\ \A d \in admit(s, c).blind : d \in s.blind \/ d = c
<1>1. s \in Srv /\ s.st \in [Conns -> {"none", "open", "joined"}]
  BY DEF Step, Srv
<1>2. CASE s.st[c] # "open"
  BY <1>2 DEF admit
<1>3. CASE s.st[c] = "open"
  <2>. DEFINE t == admit(s, c)
  <2>1. Turned(s, t, c) \/ Enters(s, t, c)
    BY <1>1, <1>3, Admits
  <2>. HIDE DEF t
  <2>2. Step(t, W, D)
    BY <1>3, <2>1, StepTurned, StepEnters
  <2>3. t.closed = s.closed /\ t.out.loads = s.out.loads /\ t.admitting = s.admitting
    BY <2>1 DEF Turned, Enters, Left
  <2>4. \A d \in Conns : d # c => t.st[d] = s.st[d]
    BY <1>1, <2>1 DEF Turned, Enters, Left
  <2>5. \A d \in t.blind : d \in s.blind \/ d = c
    BY <2>1 DEF Turned, Enters, Left
  <2>. QED BY <2>2, <2>3, <2>4, <2>5 DEF t
<1>. QED BY <1>2, <1>3

\* SimServer.receive: a Join is admitted, asks for its record first, or is ignored.
LEMMA StepReceives ==
  ASSUME NEW W \in SUBSET Who, NEW D, NEW s, Step(s, W, D), NEW c \in Conns
  PROVE  Step(receive(s, c), W, D) /\ receive(s, c).closed = s.closed
<1>1. s \in Srv /\ s.st \in [Conns -> {"none", "open", "joined"}] /\ s.out \in Output
  BY DEF Step, Srv
<1>2. CASE s.st[c] = "none"
  BY <1>2 DEF receive
<1>3. CASE s.st[c] = "joined"
  <2>. DEFINE t == [s EXCEPT !.pending = @ \cup {c}]
  <2>1. receive(s, c) = t
    BY <1>3 DEF receive, join
  <2>2. /\ t \in Srv /\ t.st = s.st /\ t.field = s.field /\ t.admitting = s.admitting /\ t.cache = s.cache
        /\ t.fresh = s.fresh /\ t.blind = s.blind /\ t.closed = s.closed /\ t.out = s.out
        /\ t.pending = s.pending \cup {c}
    BY <1>1 DEF Srv
  <2>. HIDE DEF t
  <2>3. Joined(t) = Joined(s) /\ Unjoined(t) = Unjoined(s) /\ c \in Joined(s)
    BY <1>3, <2>2 DEF Joined, Unjoined
  <2>4. Tidy(t)
    BY <2>2, <2>3 DEF Step, Tidy
  <2>5. Quiet(t) /\ Owed(t) /\ Stay(t, D)
    BY <2>2 DEF Step, Quiet, Owed, Stay
  <2>6. \A w \in W : Kept(t, w)
    BY <2>2, <2>3 DEF Step, Kept
  <2>. QED BY <2>1, <2>2, <2>4, <2>5, <2>6 DEF Step
<1>4. CASE s.st[c] = "open" /\ c \in s.admitting
  BY <1>4 DEF receive, join
<1>5. CASE s.st[c] = "open" /\ c \notin s.admitting /\ Named(c) /\ s.cache[identity[c]] = Empty
  <2>. DEFINE o == s.out
              x == Append(s.out.loads, c)
              p == [o EXCEPT !.loads = x]
              t == [s EXCEPT !.admitting = @ \cup {c}, !.out = p]
  <2>1. receive(s, c) = t
    BY <1>1, <1>5 DEF receive, join, Srv, Output
  <2>2. x \in Seq(Conns) /\ o \in Output /\ s.out.loads \in Seq(Conns)
    BY <1>1 DEF Output
  <2>. HIDE DEF x, o
  <2>3. p \in Output /\ p.sends = o.sends /\ p.closes = o.closes /\ p.saves = o.saves /\ p.loads = x
    BY <2>2 DEF Output
  <2>. HIDE DEF p
  <2>4. /\ t \in Srv /\ t.st = s.st /\ t.field = s.field /\ t.pending = s.pending /\ t.cache = s.cache
        /\ t.fresh = s.fresh /\ t.blind = s.blind /\ t.closed = s.closed /\ t.out = p
        /\ t.admitting = s.admitting \cup {c}
    BY <1>1, <2>3 DEF Srv
  <2>. HIDE DEF t
  <2>5. Joined(t) = Joined(s) /\ Unjoined(t) = Unjoined(s) /\ c \in Unjoined(s)
    BY <1>5, <2>4 DEF Joined, Unjoined
  <2>6. Tidy(t)
    BY <2>4, <2>5 DEF Step, Tidy
  <2>a. \A d : Has(Append(s.out.loads, c), d) <=> Has(s.out.loads, d) \/ d = c
    BY <2>2, Appending
  <2>b. t.out.loads = Append(s.out.loads, c)
    BY <2>3, <2>4 DEF x
  <2>7. Quiet(t)
    <3>1. t.out.closes = s.out.closes /\ t.out.sends = s.out.sends
      BY <2>3, <2>4 DEF o
    <3>2. \A d \in Conns : Outside(d) => d # c
      BY <1>5 DEF Step, Quiet
    <3>. QED BY <2>4, <2>a, <2>b, <3>1, <3>2 DEF Step, Quiet
  <2>8. Owed(t)
    BY <1>5, <2>4, <2>a, <2>b DEF Step, Owed
  <2>9. Stay(t, D)
    BY <2>4 DEF Step, Stay
  <2>10. \A w \in W : Kept(t, w)
    BY <1>5, <2>3, <2>4, <2>5 DEF Step, Kept, o
  <2>. QED BY <2>1, <2>4, <2>6, <2>7, <2>8, <2>9, <2>10 DEF Step
<1>6. CASE s.st[c] = "open" /\ c \notin s.admitting /\ ~(Named(c) /\ s.cache[identity[c]] = Empty)
  <2>1. receive(s, c) = admit(s, c)
    BY <1>6 DEF receive, join
  <2>. QED BY <1>6, <2>1, StepAdmits
<1>. QED BY <1>1, <1>2, <1>3, <1>4, <1>5, <1>6

\* The record of c is filed.
Seeds(s, t, c) ==
  /\ t.closed = s.closed /\ t.out.loads = s.out.loads
  /\ \A d \in Conns : d # c => t.st[d] = s.st[d] /\ (d \in t.admitting <=> d \in s.admitting)
  /\ \A d \in t.blind : d \in s.blind \/ (d = c /\ s.st[c] # "none")
\* SimServer.seed: the record that was read is cached if it is the player's last, and the session admitted.
LEMMA StepSeeds ==
  ASSUME NEW W \in SUBSET Who, NEW D, NEW s, Step(s, W, D), NEW a \in Answer, a.conn \notin loads,
         ~Has(s.out.loads, a.conn), Named(a.conn),
         s.st[a.conn] = "none" \/ a.conn \in s.admitting,
         \A w \in W : identity[a.conn] = w /\ a.value # Empty /\ s.st[a.conn] # "none" =>
            /\ a.value = played[w]
            /\ \A d \in s.blind : identity[d] # w
  PROVE  Step(seed(s, a), W, D) /\ Seeds(s, seed(s, a), a.conn)
<1>. DEFINE c == a.conn
<1>1. /\ s \in Srv /\ s.st \in [Conns -> {"none", "open", "joined"}] /\ c \in Conns /\ a.value \in Record
      /\ identity[c] \in Who
  BY SessionsAssumption DEF Step, Srv, Answer, Named
<1>2. CASE s.st[c] = "none"
  BY <1>2 DEF seed, Seeds
<1>3. CASE s.st[c] # "none"
  <2>. DEFINE filed == IF a.value = Empty THEN s.cache ELSE [s.cache EXCEPT ![identity[c]] = a.value]
              t == [s EXCEPT !.cache = filed, !.admitting = @ \ {c}]
  <2>0. c \in s.admitting
    BY <1>3
  <2>1. seed(s, a) = admit(t, c)
    BY <1>1, <1>3, <2>0 DEF seed, Srv
  <2>2. filed \in [Who -> Record]
    BY <1>1 DEF Srv
  <2>. HIDE DEF filed
  <2>3. /\ t \in Srv /\ t.st = s.st /\ t.field = s.field /\ t.pending = s.pending /\ t.cache = filed
        /\ t.fresh = s.fresh /\ t.blind = s.blind /\ t.closed = s.closed /\ t.out = s.out
        /\ t.admitting = s.admitting \ {c}
    BY <1>1, <2>2 DEF Srv
  <2>. HIDE DEF t
  <2>4. Joined(t) = Joined(s) /\ Unjoined(t) = Unjoined(s) /\ c \in Unjoined(s) /\ Tidy(s)
    BY <2>0, <2>3 DEF Joined, Unjoined, Step, Tidy
  <2>5. Tidy(t)
    BY <2>3, <2>4 DEF Tidy
  <2>6. Quiet(t) /\ Owed(t) /\ Stay(t, D)
    BY <2>3 DEF Step, Quiet, Owed, Stay
  <2>7. ASSUME NEW w \in W PROVE Kept(t, w)
    <3>1. Kept(s, w) /\ w \in Who
      BY DEF Step
    <3>2. CASE identity[c] # w \/ a.value = Empty
      <4>1. t.cache[w] = s.cache[w]
        BY <1>1, <2>3, <3>1, <3>2 DEF filed, Srv
      <4>. QED BY <2>3, <2>4, <3>1, <4>1 DEF Kept
    <3>3. CASE identity[c] = w /\ a.value # Empty
      <4>1. t.cache[w] = played[w] /\ t.cache[w] # Empty
        BY <1>1, <1>3, <2>3, <3>1, <3>3 DEF filed, Srv
      <4>2. s.cache[w] = Empty
        BY <2>0, <3>1, <3>3 DEF Kept
      <4>3. \A d \in Joined(t) \ t.blind : identity[d] # w
        BY <2>3, <2>4, <3>1, <4>2 DEF Kept
      <4>4. \A d \in t.blind \cup t.admitting : identity[d] # w
        <5>1. \A d \in s.admitting : identity[d] = w => d = c
          BY <2>0, <2>4, <3>3 DEF Tidy, SameId
        <5>. QED BY <1>3, <2>3, <3>3, <5>1
      <4>5. \A i \in DOMAIN t.out.saves : t.out.saves[i].who # w
        BY <2>3, <3>1, <4>2 DEF Kept
      <4>. QED BY <4>1, <4>3, <4>4, <4>5 DEF Kept
    <3>. QED BY <3>2, <3>3
  <2>8. Step(t, W, D) /\ c \notin t.admitting
    BY <2>3, <2>5, <2>6, <2>7 DEF Step
  <2>9. /\ Step(admit(t, c), W, D) /\ admit(t, c).closed = t.closed /\ admit(t, c).out.loads = t.out.loads
        /\ admit(t, c).admitting = t.admitting
        /\ (\A d \in Conns : d # c => admit(t, c).st[d] = t.st[d])
        /\ \A d \in admit(t, c).blind : d \in t.blind \/ d = c
    <3>. HIDE DEF c
    <3>1. c \in Conns /\ c \notin t.admitting /\ Step(t, W, D)
      BY <1>1, <2>8
    <3>. QED BY ONLY <3>1, W \in SUBSET Who, StepAdmits
  <2>. QED BY <1>3, <2>1, <2>3, <2>9 DEF Seeds
<1>. QED BY <1>2, <1>3

Fopen == INSTANCE FoldLemma WITH op <- open
Fsaved == INSTANCE FoldLemma WITH op <- recordReleased
Fseed == INSTANCE FoldLemma WITH op <- seed
Freceive == INSTANCE FoldLemma WITH op <- receive
Fdrop == INSTANCE FoldLemma WITH op <- drop
Fexpire == INSTANCE FoldLemma WITH op <- closeFor
Fwelcome == INSTANCE FoldLemma WITH op <- welcome
Frelease == INSTANCE FoldLemma WITH op <- release
Fcarry == INSTANCE FoldLemma WITH op <- carry

\* A list of a finite set names each of its elements once.
LEMMA Listed ==
  ASSUME NEW X, IsFiniteSet(X)
  PROVE  /\ SetToSeq(X) \in Seq(X)
         /\ \A i, j \in DOMAIN SetToSeq(X) : SetToSeq(X)[i] = SetToSeq(X)[j] => i = j
         /\ \A x \in X : Has(SetToSeq(X), x)
<1>. DEFINE n == Cardinality(X)
            q == SetToSeq(X)
<1>1. n \in Nat /\ ExistsBijection(1 .. n, X)
  BY FS_CardinalityType
<1>2. PICK f \in Bijection(1 .. n, X) : TRUE
  BY <1>1 DEF ExistsBijection
<1>3. f \in [1 .. n -> X] /\ IsInjective(f)
  BY <1>2 DEF Bijection, Injection
<1>4. q \in [1 .. n -> X] /\ IsInjective(q)
  BY <1>3 DEF SetToSeq
<1>5. q \in Injection(1 .. n, X)
  BY <1>4 DEF Injection
<1>6. Cardinality(1 .. n) = n
  BY <1>1, FS_Interval
<1>7. q \in Surjection(1 .. n, X)
  BY <1>5, <1>6, FS_Injection
<1>8. q \in Seq(X)
  BY <1>1, <1>4
<1>9. DOMAIN q = 1 .. n
  BY <1>4
<1>. QED BY <1>4, <1>7, <1>8, <1>9 DEF IsInjective, Surjection, Has

\* What an opened connection changes.
Opens(s, t, c) ==
  /\ \A d \in Conns : d # c => t.st[d] = s.st[d]
  /\ t.blind = s.blind /\ t.admitting = s.admitting /\ t.cache = s.cache /\ t.field = s.field
  /\ t.closed = s.closed /\ t.out.loads = s.out.loads /\ t.out.saves = s.out.saves
  /\ Joined(t) = Joined(s)
  /\ \A d \in Conns : Has(t.out.closes, d) => Has(s.out.closes, d) \/ d = c

\* SimServer.open: a new connection is registered, or turned away when too many wait to join.
LEMMA StepOpens ==
  ASSUME NEW W \in SUBSET Who, NEW D, NEW s, Step(s, W, D), NEW c \in Conns, Has(batch.opened, c),
         s.st[c] = "none", ~Has(s.out.closes, c), c \notin loads, ~Has(s.out.loads, c)
  PROVE  Step(open(s, c), W, D) /\ Opens(s, open(s, c), c)
<1>1. s \in Srv /\ s.st \in [Conns -> {"none", "open", "joined"}] /\ s.out \in Output
  BY DEF Step, Srv
<1>. DEFINE t == open(s, c)
<1>2. CASE openRefusal(s, c)
  <2>1. /\ SameBooks(s, t) /\ t.out.closes = Append(s.out.closes, c)
        /\ t.out.sends = s.out.sends /\ t.out.loads = s.out.loads /\ t.out.saves = s.out.saves
    BY <1>1, <1>2, Says DEF open, Frames
  <2>. HIDE DEF t
  <2>2. \A d : Has(t.out.closes, d) <=> Has(s.out.closes, d) \/ d = c
    <3>1. s.out.closes \in Seq(Conns)
      BY <1>1 DEF Output
    <3>2. \A d : Has(Append(s.out.closes, c), d) <=> Has(s.out.closes, d) \/ d = c
      BY <3>1, Appending
    <3>. QED BY <2>1, <3>2
  <2>3. Joined(t) = Joined(s) /\ Unjoined(t) = Unjoined(s)
    BY <2>1 DEF SameBooks, Joined, Unjoined
  <2>4. Tidy(t)
    BY <2>1, <2>3 DEF Step, Tidy, SameBooks
  <2>5. Quiet(t)
    BY <2>1, <2>2 DEF Step, Quiet, SameBooks, Outside
  <2>6. Owed(t) /\ Stay(t, D)
    BY <2>1 DEF Step, Owed, Stay, SameBooks
  <2>7. \A w \in W : Kept(t, w)
    BY <2>1, <2>3 DEF Step, Kept, SameBooks
  <2>8. Step(t, W, D)
    BY <2>1, <2>4, <2>5, <2>6, <2>7 DEF Step, SameBooks
  <2>. QED BY <2>1, <2>2, <2>3, <2>8 DEF SameBooks, t, Opens
<1>3. CASE ~openRefusal(s, c)
  <2>1. /\ t \in Srv /\ t.st = [s.st EXCEPT ![c] = "open"] /\ t.field = s.field /\ t.admitting = s.admitting
        /\ t.pending = s.pending /\ t.fresh = s.fresh /\ t.blind = s.blind /\ t.closed = s.closed
        /\ t.cache = s.cache /\ t.out = s.out
    BY <1>1, <1>3 DEF open, Srv
  <2>. HIDE DEF t
  <2>2. t.st[c] = "open" /\ \A d \in Conns : d # c => t.st[d] = s.st[d]
    BY <1>1, <2>1
  <2>3. Joined(t) = Joined(s) /\ Unjoined(t) = Unjoined(s) \cup {c}
    BY <2>2 DEF Joined, Unjoined
  <2>4. Tidy(t)
    <3>1. \A d \in Unjoined(s) : SameId(c, d) => c = d
      BY <1>3 DEF openRefusal, SameId
    <3>2. \A d, e \in Unjoined(t) : SameId(d, e) => d = e
      BY <2>3, <3>1 DEF Step, Tidy, SameId, Named
    <3>. QED BY <2>1, <2>3, <3>2 DEF Step, Tidy
  <2>5. Quiet(t)
    BY <2>1, <2>2 DEF Step, Quiet, Outside
  <2>6. Owed(t) /\ Stay(t, D)
    BY <2>1, <2>2 DEF Step, Owed, Stay
  <2>7. \A w \in W : Kept(t, w)
    BY <2>1, <2>3 DEF Step, Kept
  <2>8. Step(t, W, D)
    BY <2>1, <2>4, <2>5, <2>6, <2>7 DEF Step
  <2>. QED BY <2>1, <2>2, <2>3, <2>8 DEF t, Opens
<1>. QED BY <1>2, <1>3

\* What letting go of a record leaves alone.
Releases(s, t) ==
  /\ t.st = s.st /\ t.blind = s.blind /\ t.admitting = s.admitting
  /\ t.closed = s.closed /\ t.out = s.out

\* The cache lets go of a record that is in the store and that nobody plays with.
LEMMA StepReleases ==
  ASSUME NEW W \in SUBSET Who, NEW D, NEW s, Step(s, W, D), NEW w \in Who,
         w \in W => /\ \A c \in Joined(s) : identity[c] # w
                    /\ store[w] = played[w] /\ \A i \in DOMAIN saves : saves[i].who # w
                    /\ \A i \in DOMAIN s.out.saves : s.out.saves[i].who # w
  PROVE  Step(recordReleased(s, w), W, D) /\ Releases(s, recordReleased(s, w))
<1>1. s \in Srv /\ s.cache \in [Who -> Record]
  BY DEF Step, Srv
<1>. DEFINE t == recordReleased(s, w)
<1>2. /\ t \in Srv /\ t.st = s.st /\ t.field = s.field /\ t.admitting = s.admitting
      /\ t.pending = s.pending /\ t.fresh = s.fresh /\ t.blind = s.blind /\ t.closed = s.closed
      /\ t.cache = [s.cache EXCEPT ![w] = Empty] /\ t.out = s.out
  BY <1>1 DEF recordReleased, Srv, Record
<1>. HIDE DEF t
<1>3. Joined(t) = Joined(s) /\ Unjoined(t) = Unjoined(s)
  BY <1>2 DEF Joined, Unjoined
<1>4. Tidy(t) /\ Quiet(t) /\ Owed(t) /\ Stay(t, D)
  <2>1. Tidy(t)
    BY <1>2, <1>3 DEF Step, Tidy
  <2>2. Quiet(t)
    BY <1>2 DEF Step, Quiet
  <2>3. Owed(t) /\ Stay(t, D)
    BY <1>2 DEF Step, Owed, Stay
  <2>. QED BY <2>1, <2>2, <2>3
<1>5. ASSUME NEW v \in W PROVE Kept(t, v)
  <2>1. Kept(s, v) /\ v \in Who
    BY DEF Step
  <2>2. CASE v = w
    <3>1. t.cache[v] = Empty
      BY <1>1, <1>2, <2>2
    <3>. QED BY <1>2, <1>3, <2>2, <3>1 DEF Kept
  <2>3. CASE v # w
    <3>1. t.cache[v] = s.cache[v]
      BY <1>1, <1>2, <2>1, <2>3
    <3>. QED BY <1>2, <1>3, <2>1, <3>1 DEF Kept
  <2>. QED BY <2>2, <2>3
<1>6. Step(t, W, D)
  BY <1>2, <1>4, <1>5 DEF Step
<1>. QED BY <1>2, <1>6 DEF t, Releases

\* The connections the batch says are closed.
Leaving == {c \in Conns : Has(batch.closed, c)}

\* A tick starts from the invariant.
LEMMA StepBegins ==
  ASSUME SessionsInv, NEW W \in SUBSET (Who \ excused), NEW D
  PROVE  Step(srv, W, D)
<1>1. srv \in Srv /\ srv.out = NoOutput /\ Tidy(srv)
  BY DEF SessionsInv, SessionTypes
<1>2. /\ srv.out.sends = << >> /\ srv.out.closes = << >> /\ srv.out.loads = << >> /\ srv.out.saves = << >>
  BY <1>1 DEF NoOutput
<1>3. Quiet(srv)
  BY <1>2 DEF Quiet, Outside, Has
<1>4. Owed(srv)
  BY <1>2 DEF SessionsInv, Loads, Asked, Owed, Has
<1>5. \A w \in W : Kept(srv, w)
  BY DEF SessionsInv, Stints
<1>. QED BY <1>1, <1>3, <1>4, <1>5 DEF Step, Stay

\* After the connections that opened.
Opened(t) ==
  /\ t.blind = srv.blind /\ t.admitting = srv.admitting /\ t.cache = srv.cache
  /\ t.out.loads = << >> /\ t.out.saves = << >> /\ t.closed = srv.closed /\ Joined(t) = Joined(srv)
  /\ \A c \in Conns : ~Has(batch.opened, c) => t.st[c] = srv.st[c]

\* After every connection opened since the last tick.
LEMMA AfterOpened ==
  ASSUME SessionsInv, NEW W \in SUBSET (Who \ excused), NEW D
  PROVE  LET t == FoldLeft(open, srv, batch.opened) IN Step(t, W, D) /\ Opened(t)
<1>. DEFINE b == batch.opened
            P == [i \in 0 .. Len(b) |-> {t \in Srv :
                    /\ Step(t, W, D) /\ Opened(t)
                    /\ \A k \in DOMAIN b : k > i => t.st[b[k]] = "none" /\ ~Has(t.out.closes, b[k])}]
<1>1. /\ b \in Seq(Conns) /\ srv \in Srv /\ srv.out = NoOutput /\ Len(b) \in Nat /\ DOMAIN b = 1 .. Len(b)
  BY DEF SessionsInv, SessionTypes, Batch
<1>2. /\ \A i, j \in DOMAIN b : b[i] = b[j] => i = j
      /\ \A c \in Conns : Has(b, c) => srv.st[c] = "none" /\ c \notin loads
  BY DEF SessionsInv, OpenedOnce, Loads, Asked
<1>3. \A k \in DOMAIN b : b[k] \in Conns /\ Has(b, b[k])
  BY <1>1 DEF Has
<1>4. /\ srv.out.sends = << >> /\ srv.out.closes = << >> /\ srv.out.loads = << >> /\ srv.out.saves = << >>
  BY <1>1 DEF NoOutput
<1>5. srv \in P[0]
  <2>1. Step(srv, W, D) /\ Opened(srv)
    BY <1>4, StepBegins DEF Opened
  <2>2. \A c : ~Has(srv.out.closes, c)
    BY <1>4 DEF Has
  <2>3. \A k \in DOMAIN b : srv.st[b[k]] = "none" /\ ~Has(srv.out.closes, b[k])
    BY <1>2, <1>3, <2>2
  <2>4. 0 \in 0 .. Len(b)
    BY <1>1
  <2>. HIDE DEF b
  <2>. QED BY <1>1, <2>1, <2>3, <2>4
<1>6. ASSUME NEW i \in 1 .. Len(b), NEW s \in P[i - 1] PROVE open(s, b[i]) \in P[i]
  <2>. DEFINE c == b[i]
              t == open(s, c)
              j == i - 1
  <2>1. j \in 0 .. Len(b) /\ i \in 0 .. Len(b) /\ i > j /\ i \in DOMAIN b /\ i \in Nat /\ j \in Nat
        /\ \A k \in DOMAIN b : k > i => k > j /\ k # i
    BY <1>1
  <2>2. s \in P[j]
    OBVIOUS
  <2>. HIDE DEF j, b
  <2>3. /\ s \in Srv /\ Step(s, W, D) /\ Opened(s)
        /\ \A k \in DOMAIN b : k > j => s.st[b[k]] = "none" /\ ~Has(s.out.closes, b[k])
    BY <2>1, <2>2
  <2>. HIDE DEF P
  <2>4. /\ c \in Conns /\ Has(b, c) /\ s.st[c] = "none" /\ ~Has(s.out.closes, c) /\ c \notin loads
        /\ ~Has(s.out.loads, c) /\ Has(batch.opened, c)
    BY <1>2, <1>3, <2>1, <2>3 DEF Opened, Has, b
  <2>. HIDE DEF c
  <2>5. Step(t, W, D) /\ Opens(s, t, c)
    <3>1. W \in SUBSET Who
      OBVIOUS
    <3>. QED BY ONLY <2>3, <2>4, <3>1, StepOpens DEF t
  <2>. HIDE DEF t
  <2>6. Opened(t)
    BY <2>3, <2>4, <2>5 DEF Opened, Opens
  <2>7. \A k \in DOMAIN b : k > i => t.st[b[k]] = "none" /\ ~Has(t.out.closes, b[k])
    <3>. SUFFICES ASSUME NEW k \in DOMAIN b, k > i PROVE t.st[b[k]] = "none" /\ ~Has(t.out.closes, b[k])
      OBVIOUS
    <3>1. b[k] # c /\ b[k] \in Conns /\ k > j
      BY <1>2, <1>3, <2>1 DEF c
    <3>. QED BY <2>3, <2>5, <3>1 DEF Opens
  <2>8. t \in P[i]
    BY <2>1, <2>5, <2>6, <2>7 DEF P, Step
  <2>. QED BY <2>8 DEF t, c
<1>. HIDE DEF P
<1>7. Fopen!Folded(srv, b) \in P[Len(b)]
  <2>. HIDE DEF b
  <2>. QED BY <1>1, <1>5, <1>6, Fopen!FoldSteps
<1>8. FoldLeft(open, srv, b) = Fopen!Folded(srv, b)
  BY DEF Fopen!Folded, FoldLeft, MapThenFoldSet, Fopen!FoldLeft, Fopen!MapThenFoldSet, Max, Fopen!Max
<1>9. Len(b) \in 0 .. Len(b)
  BY <1>1
<1>. QED BY <1>7, <1>8, <1>9 DEF P

\* After the saves the store confirmed and the records it answered with.
Filed(t) ==
  /\ t.blind = srv.blind /\ t.admitting = srv.admitting
  /\ t.out.loads = << >> /\ t.out.saves = << >> /\ t.closed = srv.closed /\ Joined(t) = Joined(srv)
  /\ \A c \in Conns : ~Has(batch.opened, c) => t.st[c] = srv.st[c]

\* After every save acknowledged since the last tick: none was of a player who is back.
LEMMA AfterSaved ==
  ASSUME SessionsInv, NEW W \in SUBSET (Who \ excused), W \cap ReleasedLive = {}, NEW D,
         NEW s, Step(s, W, D), Opened(s)
  PROVE  LET t == FoldLeft(recordReleased, s, batch.saved) IN Step(t, W, D) /\ Filed(t)
<1>. DEFINE b == batch.saved
            E == {b[i] : i \in DOMAIN b}
            S == {t \in Srv : Step(t, W, D) /\ Filed(t)}
<1>1. b \in Seq(Who) /\ b \in Seq(E) /\ E \subseteq Who
  <2>1. b \in Seq(Who)
    BY DEF SessionsInv, SessionTypes, Batch
  <2>2. \A i \in 1 .. Len(b) : b[i] \in E
    BY <2>1
  <2>3. b \in Seq(E)
    BY <2>1, <2>2
  <2>4. E \subseteq Who
    BY <2>1
  <2>. QED BY <2>1, <2>3, <2>4
<1>2. s \in S
  BY DEF Opened, Filed, Step
<1>3. ASSUME NEW w \in E, w \in W
      PROVE  /\ \A c \in Joined(srv) : identity[c] # w
             /\ store[w] = played[w] /\ \A i \in DOMAIN saves : saves[i].who # w
  <2>1. w \in ToSet(batch.saved) /\ w \in Who \ excused
    BY <1>3 DEF ToSet
  <2>2. /\ \A c \in Joined(srv) : identity[c] # w
        /\ \A i \in DOMAIN saves : saves[i].who # w
        /\ ~(srv.cache[w] /= Empty /\ srv.cache[w] > store[w])
    BY <1>3, <2>1 DEF ReleasedLive
  <2>3. Kept(srv, w) /\ store[w] <= played[w]
    BY <2>1 DEF SessionsInv, Stints
  <2>4. store[w] \in Nat /\ played[w] \in Nat /\ srv.cache[w] \in Record
    BY <2>1 DEF SessionsInv, SessionTypes, Srv
  <2>5. CASE srv.cache[w] = Empty
    BY <2>2, <2>3, <2>5 DEF Kept
  <2>6. CASE srv.cache[w] # Empty
    <3>1. srv.cache[w] = played[w]
      BY <2>2, <2>3, <2>6 DEF Kept
    <3>2. ~(played[w] > store[w])
      BY <2>2, <2>6, <3>1
    <3>. QED BY <2>2, <2>3, <2>4, <3>2
  <2>. QED BY <2>5, <2>6
<1>4. ASSUME NEW t \in S, NEW w \in E PROVE recordReleased(t, w) \in S
  <2>. DEFINE u == recordReleased(t, w)
  <2>1. Step(t, W, D) /\ Filed(t) /\ w \in Who /\ W \in SUBSET Who
    BY <1>1
  <2>. HIDE DEF S, E
  <2>2. w \in W => /\ \A c \in Joined(t) : identity[c] # w
                   /\ store[w] = played[w] /\ \A i \in DOMAIN saves : saves[i].who # w
                   /\ \A i \in DOMAIN t.out.saves : t.out.saves[i].who # w
    BY <1>3, <2>1 DEF Filed
  <2>3. Step(u, W, D) /\ Releases(t, u)
    BY ONLY <2>1, <2>2, StepReleases
  <2>. HIDE DEF u
  <2>4. Filed(u)
    BY <2>1, <2>3 DEF Filed, Releases, Joined
  <2>5. u \in S
    BY <2>3, <2>4 DEF S, Step
  <2>. QED BY <2>5 DEF u
<1>. HIDE DEF S, E
<1>5. Fsaved!Folded(s, b) \in S
  <2>. HIDE DEF b
  <2>. QED BY <1>1, <1>2, <1>4, Fsaved!FoldStays
<1>6. FoldLeft(recordReleased, s, b) = Fsaved!Folded(s, b)
  BY DEF Fsaved!Folded, FoldLeft, MapThenFoldSet, Fsaved!FoldLeft, Fsaved!MapThenFoldSet, Max, Fsaved!Max
<1>. QED BY <1>5, <1>6 DEF S

\* After every record read since the last tick: none is older than what its player has played.
LEMMA AfterRecords ==
  ASSUME SessionsInv, NEW W \in SUBSET (Who \ excused), W \cap SeededLive = {}, NEW D,
         NEW s, Step(s, W, D), Filed(s)
  PROVE  LET t == FoldLeft(seed, s, batch.records) IN Step(t, W, D) /\ t.closed = srv.closed
<1>. DEFINE b == batch.records
            P == [i \in 0 .. Len(b) |-> {t \in Srv :
                    /\ Step(t, W, D) /\ t.closed = srv.closed /\ t.out.loads = << >>
                    /\ \A k \in DOMAIN b : k > i =>
                         /\ t.st[b[k].conn] = "none" \/ b[k].conn \in t.admitting
                         /\ b[k].value # Empty /\ t.st[b[k].conn] # "none" =>
                              /\ srv.st[b[k].conn] # "none"
                              /\ identity[b[k].conn] \in W =>
                                   \A d \in t.blind : identity[d] # identity[b[k].conn]}]
<1>1. /\ b \in Seq(Answer) /\ Len(b) \in Nat /\ DOMAIN b = 1 .. Len(b)
  BY DEF SessionsInv, SessionTypes, Batch
<1>2. ASSUME NEW k \in DOMAIN b
      PROVE  /\ b[k] \in Answer /\ b[k].conn \in Conns /\ b[k].conn \notin loads /\ Named(b[k].conn)
             /\ ~Has(batch.opened, b[k].conn)
             /\ srv.st[b[k].conn] = "none" \/ b[k].conn \in srv.admitting
             /\ \A j \in DOMAIN b : b[j].conn = b[k].conn => j = k
  <2>1. b[k] \in Answer /\ b[k].conn \in Conns /\ Asked(b[k].conn)
    <3>1. b[k] \in Answer
      BY <1>1
    <3>2. b[k].conn \in Conns
      BY <3>1 DEF Answer
    <3>3. Asked(b[k].conn)
      BY DEF Asked
    <3>. QED BY <3>1, <3>2, <3>3
  <2>. QED BY <2>1 DEF SessionsInv, Loads
<1>3. s \in P[0]
  <2>1. s \in Srv /\ 0 \in 0 .. Len(b)
    BY <1>1 DEF Step
  <2>2. ASSUME NEW k \in DOMAIN b
        PROVE  /\ s.st[b[k].conn] = "none" \/ b[k].conn \in s.admitting
               /\ b[k].value # Empty /\ s.st[b[k].conn] # "none" =>
                    /\ srv.st[b[k].conn] # "none"
                    /\ identity[b[k].conn] \in W =>
                         \A d \in s.blind : identity[d] # identity[b[k].conn]
    <3>1. s.st[b[k].conn] = srv.st[b[k].conn] /\ s.admitting = srv.admitting /\ s.blind = srv.blind
      BY <1>2 DEF Filed
    <3>2. ASSUME b[k].value # Empty, identity[b[k].conn] \in W, NEW d \in srv.blind,
                 identity[d] = identity[b[k].conn]
          PROVE  FALSE
      <4>1. b[k] \in ToSet(batch.records) /\ identity[b[k].conn] \in Who
        BY <3>2 DEF ToSet
      <4>2. identity[b[k].conn] \in SeededLive
        BY <3>2, <4>1 DEF SeededLive
      <4>. QED BY <3>2, <4>2
    <3>. QED BY <1>2, <3>1, <3>2
  <2>. HIDE DEF b
  <2>. QED BY <2>1, <2>2 DEF Filed
<1>4. ASSUME NEW i \in 1 .. Len(b), NEW t \in P[i - 1] PROVE seed(t, b[i]) \in P[i]
  <2>. DEFINE a == b[i]
              u == seed(t, a)
              j == i - 1
  <2>1. j \in 0 .. Len(b) /\ i \in 0 .. Len(b) /\ i > j /\ i \in DOMAIN b /\ i \in Nat /\ j \in Nat
        /\ \A k \in DOMAIN b : k > i => k > j /\ k # i
    BY <1>1
  <2>2. t \in P[j]
    OBVIOUS
  <2>. HIDE DEF j, b
  <2>3. /\ t \in Srv /\ Step(t, W, D) /\ t.closed = srv.closed /\ t.out.loads = << >>
        /\ \A k \in DOMAIN b : k > j =>
             /\ t.st[b[k].conn] = "none" \/ b[k].conn \in t.admitting
             /\ b[k].value # Empty /\ t.st[b[k].conn] # "none" =>
                  /\ srv.st[b[k].conn] # "none"
                  /\ identity[b[k].conn] \in W => \A d \in t.blind : identity[d] # identity[b[k].conn]
    BY <2>1, <2>2
  <2>. HIDE DEF P
  <2>4. /\ a \in Answer /\ a.conn \in Conns /\ a.conn \notin loads /\ ~Has(t.out.loads, a.conn)
        /\ Named(a.conn) /\ (t.st[a.conn] = "none" \/ a.conn \in t.admitting)
    BY <1>2, <2>1, <2>3 DEF Has
  <2>5. \A w \in W : identity[a.conn] = w /\ a.value # Empty /\ t.st[a.conn] # "none" =>
            a.value = played[w] /\ \A d \in t.blind : identity[d] # w
    <3>. SUFFICES ASSUME NEW w \in W, identity[a.conn] = w, a.value # Empty, t.st[a.conn] # "none"
                  PROVE  a.value = played[w] /\ \A d \in t.blind : identity[d] # w
      OBVIOUS
    <3>1. srv.st[a.conn] # "none" /\ \A d \in t.blind : identity[d] # w
      BY <2>1, <2>3
    <3>2. w \in Who \ excused
      OBVIOUS
    <3>3. a.value = played[w]
      BY <2>1, <3>1, <3>2 DEF SessionsInv, Stints, b
    <3>. QED BY <3>1, <3>3
  <2>. HIDE DEF a
  <2>6. Step(u, W, D) /\ Seeds(t, u, a.conn)
    <3>1. W \in SUBSET Who
      OBVIOUS
    <3>. QED BY ONLY <2>3, <2>4, <2>5, <3>1, StepSeeds
  <2>. HIDE DEF u
  <2>7. ASSUME NEW k \in DOMAIN b, k > i
        PROVE  /\ u.st[b[k].conn] = "none" \/ b[k].conn \in u.admitting
               /\ b[k].value # Empty /\ u.st[b[k].conn] # "none" =>
                  /\ srv.st[b[k].conn] # "none"
                  /\ identity[b[k].conn] \in W => \A d \in u.blind : identity[d] # identity[b[k].conn]
    <3>. DEFINE e == b[k].conn
    <3>1. e \in Conns /\ e # a.conn /\ k > j
      BY <1>2, <2>1, <2>7 DEF a
    <3>2. u.st[e] = t.st[e] /\ (e \in u.admitting <=> e \in t.admitting)
      BY <2>6, <3>1 DEF Seeds
    <3>3. t.st[e] # "none" /\ t.st[a.conn] # "none" => identity[a.conn] # identity[e]
      <4>. SUFFICES ASSUME t.st[e] # "none", t.st[a.conn] # "none", identity[a.conn] = identity[e] PROVE FALSE
        OBVIOUS
      <4>1. e \in t.admitting /\ a.conn \in t.admitting
        BY <2>3, <2>4, <3>1
      <4>2. Tidy(t) /\ SameId(a.conn, e)
        BY <2>3, <2>4 DEF Step, SameId
      <4>. QED BY <3>1, <4>1, <4>2 DEF Tidy
    <3>4. \A d \in u.blind : d \in t.blind \/ (d = a.conn /\ t.st[a.conn] # "none")
      BY <2>6 DEF Seeds
    <3>. HIDE DEF e
    <3>5. /\ t.st[e] = "none" \/ e \in t.admitting
          /\ b[k].value # Empty /\ t.st[e] # "none" =>
               srv.st[e] # "none" /\ (identity[e] \in W => \A d \in t.blind : identity[d] # identity[e])
      BY <2>3, <3>1 DEF e
    <3>6. /\ u.st[e] = "none" \/ e \in u.admitting
          /\ b[k].value # Empty /\ u.st[e] # "none" =>
               srv.st[e] # "none" /\ (identity[e] \in W => \A d \in u.blind : identity[d] # identity[e])
      BY <3>2, <3>3, <3>4, <3>5
    <3>. QED BY <3>6 DEF e
  <2>8. u \in Srv /\ u.closed = srv.closed /\ u.out.loads = << >>
    BY <2>3, <2>6 DEF Step, Seeds
  <2>9. u \in P[i]
    BY <2>1, <2>6, <2>7, <2>8 DEF P
  <2>. QED BY <2>9 DEF u, a
<1>. HIDE DEF P
<1>5. Fseed!Folded(s, b) \in P[Len(b)]
  <2>. HIDE DEF b
  <2>. QED BY <1>1, <1>3, <1>4, Fseed!FoldSteps
<1>6. FoldLeft(seed, s, b) = Fseed!Folded(s, b)
  BY DEF Fseed!Folded, FoldLeft, MapThenFoldSet, Fseed!FoldLeft, Fseed!MapThenFoldSet, Max, Fseed!Max
<1>7. Len(b) \in 0 .. Len(b)
  BY <1>1
<1>. QED BY <1>5, <1>6, <1>7 DEF P

\* After every frame received since the last tick.
LEMMA AfterFrames ==
  ASSUME SessionsInv, NEW W \in SUBSET Who, NEW D, NEW s, Step(s, W, D), s.closed = srv.closed
  PROVE  LET t == FoldLeft(receive, s, batch.frames) IN Step(t, W, D) /\ t.closed = srv.closed
<1>. DEFINE b == batch.frames
            S == {t \in Srv : Step(t, W, D) /\ t.closed = srv.closed}
<1>1. b \in Seq(Conns)
  BY DEF SessionsInv, SessionTypes, Batch
<1>2. s \in S
  BY DEF Step
<1>3. ASSUME NEW t \in S, NEW c \in Conns PROVE receive(t, c) \in S
  <2>1. Step(t, W, D) /\ t.closed = srv.closed
    OBVIOUS
  <2>2. Step(receive(t, c), W, D) /\ receive(t, c).closed = t.closed
    BY <2>1, StepReceives
  <2>. QED BY <2>1, <2>2 DEF Step
<1>. HIDE DEF S, b
<1>4. Freceive!Folded(s, b) \in S
  BY <1>1, <1>2, <1>3, Freceive!FoldStays
<1>5. FoldLeft(receive, s, b) = Freceive!Folded(s, b)
  BY DEF Freceive!Folded, FoldLeft, MapThenFoldSet, Freceive!FoldLeft, Freceive!MapThenFoldSet, Max, Freceive!Max
<1>. QED BY <1>4, <1>5 DEF S, b

\* After every connection closed since the last tick: none of them has a session left.
LEMMA AfterClosed ==
  ASSUME SessionsInv, NEW W \in SUBSET Who, NEW s, Step(s, W, Leaving), s.closed = srv.closed
  PROVE  LET t == FoldLeft(drop, s, batch.closed)
         IN  Step(t, W, Leaving) /\ t.closed = srv.closed /\ \A c \in Leaving : t.st[c] = "none"
<1>. DEFINE b == batch.closed
            D == Leaving
            P == [i \in 0 .. Len(b) |-> {t \in Srv :
                    /\ Step(t, W, D) /\ t.closed = srv.closed
                    /\ \A k \in DOMAIN b : k <= i => t.st[b[k]] = "none"}]
<1>1. b \in Seq(Conns) /\ Len(b) \in Nat /\ DOMAIN b = 1 .. Len(b)
  BY DEF SessionsInv, SessionTypes, Batch
<1>2. \A k \in DOMAIN b : b[k] \in Conns /\ b[k] \in D
  <2>1. \A k \in DOMAIN b : b[k] \in Conns /\ Has(batch.closed, b[k])
    BY <1>1 DEF Has
  <2>. QED BY <2>1 DEF Leaving
<1>. HIDE DEF D
<1>3. s \in P[0]
  <2>1. s \in Srv /\ 0 \in 0 .. Len(b) /\ \A k \in DOMAIN b : ~(k <= 0)
    BY <1>1 DEF Step
  <2>. HIDE DEF b
  <2>. QED BY <2>1 DEF D
<1>4. ASSUME NEW i \in 1 .. Len(b), NEW t \in P[i - 1] PROVE drop(t, b[i]) \in P[i]
  <2>. DEFINE c == b[i]
              u == drop(t, c)
              j == i - 1
  <2>1. j \in 0 .. Len(b) /\ i \in 0 .. Len(b) /\ i \in DOMAIN b
        /\ \A k \in DOMAIN b : k <= i => k <= j \/ k = i
    BY <1>1
  <2>2. t \in P[j]
    OBVIOUS
  <2>. HIDE DEF j, b
  <2>3. /\ t \in Srv /\ Step(t, W, D) /\ t.closed = srv.closed
        /\ \A k \in DOMAIN b : k <= j => t.st[b[k]] = "none"
    BY <2>1, <2>2
  <2>. HIDE DEF P
  <2>4. c \in Conns /\ c \in D
    BY <1>2, <2>1
  <2>. HIDE DEF c
  <2>5. Step(u, W, D) /\ Drops(t, u, c)
    BY ONLY W \in SUBSET Who, <2>3, <2>4, StepDropped
  <2>. HIDE DEF u
  <2>6. \A k \in DOMAIN b : k <= i => u.st[b[k]] = "none"
    BY <1>2, <2>1, <2>3, <2>5 DEF Drops, c
  <2>7. u \in P[i]
    BY <2>1, <2>3, <2>5, <2>6 DEF P, Drops, Step
  <2>. QED BY <2>7 DEF u, c
<1>. HIDE DEF P
<1>5. Fdrop!Folded(s, b) \in P[Len(b)]
  <2>. HIDE DEF b
  <2>. QED BY <1>1, <1>3, <1>4, Fdrop!FoldSteps
<1>6. FoldLeft(drop, s, b) = Fdrop!Folded(s, b)
  BY DEF Fdrop!Folded, FoldLeft, MapThenFoldSet, Fdrop!FoldLeft, Fdrop!MapThenFoldSet, Max, Fdrop!Max
<1>7. Len(b) \in 0 .. Len(b) /\ \A k \in DOMAIN b : k <= Len(b)
  BY <1>1
<1>. DEFINE t == FoldLeft(drop, s, b)
<1>8. Step(t, W, D) /\ t.closed = srv.closed /\ \A k \in DOMAIN b : t.st[b[k]] = "none"
  <2>. HIDE DEF t, b
  <2>1. t \in P[Len(b)]
    BY <1>5, <1>6 DEF t
  <2>. QED BY <1>7, <2>1 DEF P
<1>9. \A c \in D : t.st[c] = "none"
  BY <1>8 DEF Leaving, Has, D
<1>. QED BY <1>8, <1>9 DEF D

\* The registry after the expiries.
Expired(s, X) == FoldLeft(closeFor, s, SetToSeq({c \in X : s.st[c] = "open"}))

\* After every session that took too long to join.
LEMMA AfterExpired ==
  ASSUME NEW W \in SUBSET Who, NEW s, Step(s, W, Leaving), s.closed = srv.closed,
         \A c \in Leaving : s.st[c] = "none",
         NEW expired \in SUBSET Conns
  PROVE  LET t == Expired(s, expired)
         IN  Step(t, W, Leaving) /\ t.closed = srv.closed /\ \A c \in Leaving : t.st[c] = "none"
<1>. DEFINE X == {c \in expired : s.st[c] = "open"}
            b == SetToSeq(X)
            D == Leaving
            P == [i \in 0 .. Len(b) |-> {t \in Srv :
                    /\ Step(t, W, D) /\ t.closed = srv.closed /\ \A c \in D : t.st[c] = "none"
                    /\ \A k \in DOMAIN b : k > i => t.st[b[k]] = "open"}]
<1>1. b \in Seq(Conns) /\ b \in Seq(X) /\ \A i, j \in DOMAIN b : b[i] = b[j] => i = j
  <2>1. IsFiniteSet(X)
    BY SessionsAssumption, FS_Subset
  <2>2. b \in Seq(X) /\ \A i, j \in DOMAIN b : b[i] = b[j] => i = j
    BY <2>1, Listed
  <2>. HIDE DEF b
  <2>. QED BY <2>2
<1>. HIDE DEF b
<1>2. Len(b) \in Nat /\ DOMAIN b = 1 .. Len(b) /\ \A k \in DOMAIN b : b[k] \in X /\ b[k] \in Conns
  BY <1>1
<1>3. s \in P[0]
  <2>1. s \in Srv /\ 0 \in 0 .. Len(b)
    BY <1>2 DEF Step
  <2>. QED BY <1>2, <2>1
<1>4. ASSUME NEW i \in 1 .. Len(b), NEW t \in P[i - 1] PROVE closeFor(t, b[i]) \in P[i]
  <2>. DEFINE c == b[i]
              u == closeFor(t, c)
              j == i - 1
  <2>1. j \in 0 .. Len(b) /\ i \in 0 .. Len(b) /\ i \in DOMAIN b /\ i > j
        /\ \A k \in DOMAIN b : k > i => k > j /\ k # i
    BY <1>2
  <2>2. t \in P[j]
    OBVIOUS
  <2>. HIDE DEF j
  <2>3. /\ t \in Srv /\ Step(t, W, D) /\ t.closed = srv.closed /\ \A d \in D : t.st[d] = "none"
        /\ \A k \in DOMAIN b : k > j => t.st[b[k]] = "open"
    BY <2>1, <2>2
  <2>. HIDE DEF P, D
  <2>4. c \in Conns /\ t.st[c] = "open"
    BY <1>2, <2>1, <2>3
  <2>5. Turned(t, u, c)
    BY <2>3, <2>4, TurnsAway
  <2>6. Step(u, W, D)
    BY ONLY W \in SUBSET Who, <2>3, <2>4, <2>5, StepTurned
  <2>. HIDE DEF u
  <2>7. u.closed = t.closed /\ u.st = [t.st EXCEPT ![c] = "none"] /\ t.st \in [Conns -> {"none", "open", "joined"}]
    BY <2>3, <2>5 DEF Turned, Left, Srv
  <2>8. D \subseteq Conns
    BY DEF D, Leaving
  <2>9. \A d \in D : u.st[d] = "none"
    BY <2>3, <2>4, <2>7, <2>8
  <2>10. \A k \in DOMAIN b : k > i => u.st[b[k]] = "open"
    BY <1>1, <1>2, <2>1, <2>3, <2>4, <2>7
  <2>11. u \in P[i]
    BY <2>1, <2>3, <2>6, <2>7, <2>9, <2>10 DEF P, Step
  <2>. QED BY <2>11 DEF u, c
<1>. HIDE DEF P
<1>5. Fexpire!Folded(s, b) \in P[Len(b)]
  BY <1>1, <1>3, <1>4, Fexpire!FoldSteps
<1>6. FoldLeft(closeFor, s, b) = Fexpire!Folded(s, b)
  BY DEF Fexpire!Folded, FoldLeft, MapThenFoldSet, Fexpire!FoldLeft, Fexpire!MapThenFoldSet, Max, Fexpire!Max
<1>7. Len(b) \in 0 .. Len(b)
  BY <1>2
<1>8. Expired(s, expired) = Fexpire!Folded(s, b)
  BY <1>6 DEF Expired, b
<1>. QED BY <1>5, <1>7, <1>8 DEF P

\* What a tick leaves behind.
Ticked(t, W) ==
  /\ t \in Srv /\ t.closed = srv.closed /\ Tidy(t) /\ Owed(t) /\ Stay(t, Leaving)
  /\ \A w \in W : Kept(t, w)
  /\ \A c \in Leaving : t.st[c] = "none"
  /\ \A c \in Conns : Outside(c) =>
       /\ t.st[c] = "none" /\ ~Has(t.out.closes, c) /\ ~Has(t.out.loads, c)
       /\ \A i \in DOMAIN t.out.sends : t.out.sends[i][1] # c
  /\ \A c \in Conns : Has(t.out.closes, c) => t.st[c] = "none"
  /\ \A i \in DOMAIN t.out.sends : t.out.sends[i][2] = "welcome" => t.st[t.out.sends[i][1]] = "joined"

\* After the Welcomes: a player is welcomed and nobody else, whether or not this tick drains.
LEMMA AfterDrain ==
  ASSUME NEW W \in SUBSET Who, NEW s, Step(s, W, Leaving), s.closed = srv.closed,
         \A c \in Leaving : s.st[c] = "none"
  PROVE  Ticked(s, W) /\ Ticked(drain(s), W)
<1>. DEFINE E == s.pending
            b == SetToSeq(E)
            S == {t \in Srv : Ticked(t, W) /\ t.st = s.st}
<1>1. s \in Srv /\ s.st \in [Conns -> {"none", "open", "joined"}] /\ E \subseteq Conns /\ Tidy(s)
  BY DEF Step, Srv
<1>2. Ticked(s, W)
  BY DEF Step, Quiet, Ticked
<1>3. b \in Seq(E)
  BY <1>1, SessionsAssumption, FS_Subset, Listed
<1>4. \A c \in E : c \in Conns /\ s.st[c] = "joined"
  BY <1>1 DEF Tidy, Joined
<1>5. ASSUME NEW t \in S, NEW c \in E PROVE welcome(t, c) \in S
  <2>. DEFINE v == sent(t, c, "welcome")
              u == [v EXCEPT !.pending = @ \ {c}]
  <2>1. t \in Srv /\ Ticked(t, W) /\ t.st = s.st /\ c \in Conns /\ t.st[c] = "joined" /\ t.out \in Output
    BY <1>4 DEF Srv
  <2>. HIDE DEF S, E
  <2>2. /\ SameBooks(t, v) /\ v.out.sends = Append(t.out.sends, <<c, "welcome">>)
        /\ v.out.closes = t.out.closes /\ v.out.loads = t.out.loads /\ v.out.saves = t.out.saves
    BY <2>1, Says DEF Frames
  <2>. HIDE DEF v
  <2>3. v \in Srv
    BY <2>2 DEF SameBooks
  <2>4. /\ u \in Srv /\ u.st = v.st /\ u.field = v.field /\ u.admitting = v.admitting
        /\ u.pending = v.pending \ {c} /\ u.fresh = v.fresh /\ u.blind = v.blind /\ u.closed = v.closed
        /\ u.cache = v.cache /\ u.out = v.out
    BY <2>3 DEF Srv
  <2>. HIDE DEF u
  <2>5. Joined(u) = Joined(t) /\ Unjoined(u) = Unjoined(t) /\ u.st = t.st
    BY <2>2, <2>4 DEF SameBooks, Joined, Unjoined
  <2>6. Tidy(u)
    BY <2>1, <2>2, <2>4, <2>5 DEF Ticked, Tidy, SameBooks
  <2>7. \A w \in W : Kept(u, w)
    BY <2>1, <2>2, <2>4, <2>5 DEF Ticked, Kept, SameBooks
  <2>8. Owed(u) /\ Stay(u, Leaving)
    BY <2>1, <2>2, <2>4, <2>5 DEF Ticked, Owed, Stay, SameBooks
  <2>9. \A i \in DOMAIN u.out.sends :
          u.out.sends[i] = <<c, "welcome">> \/ (i \in DOMAIN t.out.sends /\ u.out.sends[i] = t.out.sends[i])
    <3>1. t.out.sends \in Seq(Conns \X Frames) /\ <<c, "welcome">> \in Conns \X Frames
      BY <2>1 DEF Output, Frames
    <3>2. u.out.sends = Append(t.out.sends, <<c, "welcome">>)
      BY <2>2, <2>4
    <3>. QED BY <3>1, <3>2, Appending
  <2>10. ~Outside(c)
    BY <2>1 DEF Ticked
  <2>11. Ticked(u, W)
    <3>1. \A d \in Conns : Outside(d) =>
            /\ u.st[d] = "none" /\ ~Has(u.out.closes, d) /\ ~Has(u.out.loads, d)
            /\ \A i \in DOMAIN u.out.sends : u.out.sends[i][1] # d
      BY <2>1, <2>2, <2>4, <2>5, <2>9, <2>10 DEF Ticked
    <3>2. \A d \in Conns : Has(u.out.closes, d) => u.st[d] = "none"
      BY <2>1, <2>2, <2>4, <2>5 DEF Ticked
    <3>3. \A i \in DOMAIN u.out.sends : u.out.sends[i][2] = "welcome" => u.st[u.out.sends[i][1]] = "joined"
      BY <2>1, <2>5, <2>9 DEF Ticked
    <3>4. u \in Srv /\ u.closed = srv.closed /\ \A d \in Leaving : u.st[d] = "none"
      BY <2>1, <2>2, <2>4, <2>5 DEF Ticked, SameBooks
    <3>. QED BY <2>6, <2>7, <2>8, <3>1, <3>2, <3>3, <3>4 DEF Ticked
  <2>12. u \in S
    BY <2>1, <2>5, <2>11 DEF S, Ticked
  <2>13. welcome(t, c) = u
    BY DEF welcome, u, v
  <2>. QED BY <2>12, <2>13
<1>6. s \in S
  BY <1>1, <1>2
<1>. HIDE DEF S, b
<1>7. Fwelcome!Folded(s, b) \in S
  <2>. HIDE DEF E
  <2>. QED BY <1>3, <1>5, <1>6, Fwelcome!FoldStays
<1>8. FoldLeft(welcome, s, b) = Fwelcome!Folded(s, b)
  BY DEF Fwelcome!Folded, FoldLeft, MapThenFoldSet, Fwelcome!FoldLeft, Fwelcome!MapThenFoldSet, Max, Fwelcome!Max
<1>9. drain(s) \in S
  BY <1>7, <1>8 DEF drain, b
<1>. QED BY <1>2, <1>9 DEF S

\* SimServer.tick, whole: the six lists, the expiries and the drain, in the order of the code.
LEMMA Ticks ==
  ASSUME SessionsInv, NEW W \in SUBSET (Who \ excused), W \cap ReleasedLive = {}, W \cap SeededLive = {},
         NEW expired \in SUBSET (Unjoined(srv) \ ToSet(batch.opened)), NEW drains
  PROVE  /\ Ticked(tick(srv, batch, expired, drains), W)
         /\ srv.closed => tick(srv, batch, expired, drains).out = NoOutput
<1>. DEFINE s1 == FoldLeft(open, srv, batch.opened)
            s2 == FoldLeft(recordReleased, s1, batch.saved)
            s3 == FoldLeft(seed, s2, batch.records)
            s4 == FoldLeft(receive, s3, batch.frames)
            s5 == FoldLeft(drop, s4, batch.closed)
            s6 == Expired(s5, expired)
<1>0. W \in SUBSET Who
  OBVIOUS
<1>1. CASE srv.closed
  <2>1. tick(srv, batch, expired, drains) = srv
    BY <1>1 DEF tick
  <2>2. Step(srv, W, Leaving) /\ \A c \in Leaving : srv.st[c] = "none"
    BY <1>1, StepBegins DEF SessionsInv, Leaving
  <2>. QED BY <1>0, <2>1, <2>2, AfterDrain DEF SessionsInv, SessionTypes
<1>2. CASE ~srv.closed
  <2>0. tick(srv, batch, expired, drains) = IF drains THEN drain(s6) ELSE s6
    BY <1>2 DEF tick, Expired
  <2>1. Step(s1, W, Leaving) /\ Opened(s1)
    BY AfterOpened
  <2>. HIDE DEF s1
  <2>2. Step(s2, W, Leaving) /\ Filed(s2)
    BY <2>1, AfterSaved
  <2>. HIDE DEF s2
  <2>3. Step(s3, W, Leaving) /\ s3.closed = srv.closed
    BY <2>2, AfterRecords
  <2>. HIDE DEF s3
  <2>4. Step(s4, W, Leaving) /\ s4.closed = srv.closed
    BY <1>0, <2>3, AfterFrames
  <2>. HIDE DEF s4
  <2>5. Step(s5, W, Leaving) /\ s5.closed = srv.closed /\ \A c \in Leaving : s5.st[c] = "none"
    BY <1>0, <2>4, AfterClosed
  <2>. HIDE DEF s5
  <2>6. expired \in SUBSET Conns
    BY DEF Unjoined
  <2>7. Step(s6, W, Leaving) /\ s6.closed = srv.closed /\ \A c \in Leaving : s6.st[c] = "none"
    BY <1>0, <2>5, <2>6, AfterExpired
  <2>. HIDE DEF s6
  <2>. QED BY <1>0, <1>2, <2>0, <2>7, AfterDrain
<1>. QED BY <1>1, <1>2

\* The world is over: nobody is left, and nothing is owed but the last saves.
LEMMA WorldEnds ==
  ASSUME SessionsInv
  PROVE  LET t == FoldLeft(release, [srv EXCEPT !.closed = TRUE], SetToSeq({c \in Conns : srv.st[c] /= "none"}))
         IN  /\ Step(t, Who \ excused, Conns) /\ t.closed = TRUE /\ t.out.sends = << >> /\ t.out.loads = << >>
             /\ \A c \in Conns : t.st[c] = "none"
<1>. DEFINE X == {c \in Conns : srv.st[c] /= "none"}
            W == Who \ excused
            b == SetToSeq(X)
            s == [srv EXCEPT !.closed = TRUE]
            P == [i \in 0 .. Len(b) |-> {t \in Srv :
                    /\ Step(t, W, Conns) /\ t.closed = TRUE /\ t.out.sends = << >> /\ t.out.loads = << >>
                    /\ \A c \in Conns : srv.st[c] = "none" => t.st[c] = "none"
                    /\ \A k \in DOMAIN b : k <= i => t.st[b[k]] = "none"}]
<1>1. IsFiniteSet(X) /\ X \subseteq Conns
  BY SessionsAssumption, FS_Subset
<1>2. b \in Seq(X) /\ \A x \in X : Has(b, x)
  BY <1>1, Listed
<1>. HIDE DEF b
<1>3. Len(b) \in Nat /\ DOMAIN b = 1 .. Len(b) /\ \A k \in DOMAIN b : b[k] \in Conns
  BY <1>1, <1>2
<1>4. s \in P[0]
  <2>1. Step(srv, W, Conns) /\ srv.out.sends = << >> /\ srv.out.loads = << >>
    BY StepBegins DEF SessionsInv, SessionTypes, NoOutput
  <2>2. /\ s \in Srv /\ s.closed = TRUE /\ s.st = srv.st /\ s.field = srv.field /\ s.admitting = srv.admitting
        /\ s.pending = srv.pending /\ s.fresh = srv.fresh /\ s.blind = srv.blind /\ s.cache = srv.cache
        /\ s.out = srv.out
    BY <2>1 DEF Step, Srv
  <2>. HIDE DEF s
  <2>3. Joined(s) = Joined(srv) /\ Unjoined(s) = Unjoined(srv)
    BY <2>2 DEF Joined, Unjoined
  <2>4. Tidy(s)
    BY <2>1, <2>2, <2>3 DEF Step, Tidy
  <2>5. Quiet(s)
    BY <2>1, <2>2 DEF Step, Quiet
  <2>6. Owed(s) /\ Stay(s, Conns)
    BY <2>1, <2>2 DEF Step, Owed, Stay
  <2>7. \A w \in W : Kept(s, w)
    BY <2>1, <2>2, <2>3 DEF Step, Kept
  <2>8. 0 \in 0 .. Len(b) /\ \A k \in DOMAIN b : ~(k <= 0)
    BY <1>3
  <2>9. Step(s, W, Conns)
    BY <2>2, <2>4, <2>5, <2>6, <2>7 DEF Step
  <2>. HIDE DEF W
  <2>. QED BY <2>1, <2>2, <2>8, <2>9
<1>5. ASSUME NEW i \in 1 .. Len(b), NEW t \in P[i - 1] PROVE release(t, b[i]) \in P[i]
  <2>. DEFINE c == b[i]
              u == drop(t, c)
              j == i - 1
  <2>1. j \in 0 .. Len(b) /\ i \in 0 .. Len(b) /\ i \in DOMAIN b
        /\ \A k \in DOMAIN b : k <= i => k <= j \/ k = i
    BY <1>3
  <2>2. t \in P[j]
    OBVIOUS
  <2>. HIDE DEF j, s
  <2>0. W \in SUBSET Who
    OBVIOUS
  <2>. HIDE DEF W
  <2>3. /\ t \in Srv /\ Step(t, W, Conns) /\ t.closed = TRUE /\ t.out.sends = << >> /\ t.out.loads = << >>
        /\ \A d \in Conns : srv.st[d] = "none" => t.st[d] = "none"
        /\ \A k \in DOMAIN b : k <= j => t.st[b[k]] = "none"
    BY <2>1, <2>2
  <2>. HIDE DEF P
  <2>4. c \in Conns
    BY <1>3, <2>1
  <2>. HIDE DEF c
  <2>5. Step(u, W, Conns) /\ Drops(t, u, c)
    BY ONLY <2>0, <2>3, <2>4, StepDropped
  <2>. HIDE DEF u
  <2>6. \A k \in DOMAIN b : k <= i => u.st[b[k]] = "none"
    BY <1>3, <2>1, <2>3, <2>5 DEF Drops, c
  <2>7. u.closed = TRUE /\ u.out.sends = << >> /\ u.out.loads = << >> /\ u \in Srv
    BY <2>3, <2>5 DEF Drops, Told, Step
  <2>8. \A d \in Conns : srv.st[d] = "none" => u.st[d] = "none"
    BY <2>3, <2>5 DEF Drops
  <2>9. u \in P[i]
    BY <2>1, <2>5, <2>6, <2>7, <2>8 DEF P
  <2>10. release(t, b[i]) = u
    BY DEF u, drop, c
  <2>. QED BY <2>9, <2>10
<1>. HIDE DEF P, s
<1>6. Frelease!Folded(s, b) \in P[Len(b)]
  BY <1>2, <1>4, <1>5, Frelease!FoldSteps
<1>7. FoldLeft(release, s, b) = Frelease!Folded(s, b)
  BY DEF Frelease!Folded, FoldLeft, MapThenFoldSet, Frelease!FoldLeft, Frelease!MapThenFoldSet, Max, Frelease!Max
<1>8. Len(b) \in 0 .. Len(b) /\ \A k \in DOMAIN b : k <= Len(b)
  BY <1>3
<1>. DEFINE t == FoldLeft(release, s, b)
<1>9. /\ Step(t, W, Conns) /\ t.closed = TRUE /\ t.out.sends = << >> /\ t.out.loads = << >>
      /\ (\A c \in Conns : srv.st[c] = "none" => t.st[c] = "none")
      /\ \A k \in DOMAIN b : t.st[b[k]] = "none"
  <2>. HIDE DEF t, W
  <2>1. t \in P[Len(b)]
    BY <1>6, <1>7 DEF t
  <2>. QED BY <1>8, <2>1 DEF P
<1>. HIDE DEF t
<1>10. \A c \in Conns : t.st[c] = "none"
  BY <1>2, <1>9 DEF Has
<1>. QED BY <1>9, <1>10 DEF t, s, b

\* What is carried to a link goes behind what is on it, all of it and nothing else.
Behind(links, given, c) ==
  /\ \A i \in DOMAIN wire[c] : i \in DOMAIN links[c] /\ links[c][i] = wire[c][i]
  /\ \A i \in DOMAIN links[c] : i \notin DOMAIN wire[c] => \E k \in DOMAIN given : given[k] = <<c, links[c][i]>>
  /\ \A k \in DOMAIN given : given[k][1] = c =>
       \E i \in DOMAIN links[c] : i \notin DOMAIN wire[c] /\ links[c][i] = given[k][2]

\* Frames carried to the links, one by one, are behind what was on each link and in order.
LEMMA Carries ==
  ASSUME wire \in [Conns -> Seq(Frames \cup {"close"})], NEW b \in Seq(Conns \X Frames)
  PROVE  LET links == FoldLeft(carry, wire, b)
         IN  links \in [Conns -> Seq(Frames \cup {"close"})] /\ \A c \in Conns : Behind(links, b, c)
<1>. DEFINE F == Seq(Frames \cup {"close"})
            P == [n \in 0 .. Len(b) |-> {l \in [Conns -> F] : \A c \in Conns :
              /\ \A i \in DOMAIN wire[c] : i \in DOMAIN l[c] /\ l[c][i] = wire[c][i]
              /\ \A i \in DOMAIN l[c] : i \notin DOMAIN wire[c] => \E k \in DOMAIN b : b[k] = <<c, l[c][i]>>
              /\ \A k \in DOMAIN b : k <= n /\ b[k][1] = c =>
                   \E i \in DOMAIN l[c] : i \notin DOMAIN wire[c] /\ l[c][i] = b[k][2]}]
<1>1. Len(b) \in Nat /\ DOMAIN b = 1 .. Len(b) /\ 0 \in 0 .. Len(b) /\ \A k \in DOMAIN b : ~(k <= 0) /\ k <= Len(b)
  OBVIOUS
<1>2. wire \in P[0]
  BY <1>1
<1>3. ASSUME NEW n \in 1 .. Len(b), NEW l \in P[n - 1] PROVE carry(l, b[n]) \in P[n]
  <2>. DEFINE d == b[n][1]
              f == b[n][2]
              u == carry(l, b[n])
              j == n - 1
  <2>1. j \in 0 .. Len(b) /\ n \in 0 .. Len(b) /\ n \in DOMAIN b
        /\ \A k \in DOMAIN b : k <= n => k <= j \/ k = n
    BY <1>1
  <2>2. l \in P[j]
    OBVIOUS
  <2>3. d \in Conns /\ f \in Frames /\ b[n] = <<d, f>>
    OBVIOUS
  <2>. HIDE DEF j
  <2>4. /\ l \in [Conns -> F]
        /\ \A c \in Conns :
              /\ \A i \in DOMAIN wire[c] : i \in DOMAIN l[c] /\ l[c][i] = wire[c][i]
              /\ \A i \in DOMAIN l[c] : i \notin DOMAIN wire[c] => \E k \in DOMAIN b : b[k] = <<c, l[c][i]>>
              /\ \A k \in DOMAIN b : k <= j /\ b[k][1] = c =>
                   \E i \in DOMAIN l[c] : i \notin DOMAIN wire[c] /\ l[c][i] = b[k][2]
    BY <2>1, <2>2
  <2>. HIDE DEF P
  <2>5. u = [l EXCEPT ![d] = Append(l[d], f)]
    BY <2>4 DEF carry
  <2>. HIDE DEF u, d, f
  <2>6. /\ l[d] \in F /\ Len(l[d]) \in Nat /\ DOMAIN l[d] = 1 .. Len(l[d])
        /\ Append(l[d], f) \in F /\ DOMAIN Append(l[d], f) = 1 .. Len(l[d]) + 1
        /\ Append(l[d], f)[Len(l[d]) + 1] = f /\ \A i \in 1 .. Len(l[d]) : Append(l[d], f)[i] = l[d][i]
    BY <2>3, <2>4
  <2>7. u \in [Conns -> F]
    <3>. HIDE DEF F
    <3>. QED BY <2>3, <2>4, <2>5, <2>6
  <2>8. ASSUME NEW c \in Conns
        PROVE /\ \A i \in DOMAIN wire[c] : i \in DOMAIN u[c] /\ u[c][i] = wire[c][i]
              /\ \A i \in DOMAIN u[c] : i \notin DOMAIN wire[c] => \E k \in DOMAIN b : b[k] = <<c, u[c][i]>>
              /\ \A k \in DOMAIN b : k <= n /\ b[k][1] = c =>
                   \E i \in DOMAIN u[c] : i \notin DOMAIN wire[c] /\ u[c][i] = b[k][2]
    <3>1. CASE c # d
      <4>1. u[c] = l[c]
        BY <2>3, <2>4, <2>5, <3>1
      <4>2. \A k \in DOMAIN b : k <= n /\ b[k][1] = c => k <= j
        BY <2>1, <2>3, <3>1
      <4>. QED BY <2>4, <4>1, <4>2
    <3>2. CASE c = d
      <4>. DEFINE m == Len(l[d]) + 1
      <4>1. u[c] = Append(l[d], f)
        BY <2>3, <2>4, <2>5, <3>2
      <4>2. /\ DOMAIN u[c] = 1 .. m /\ u[c][m] = f /\ (\A i \in DOMAIN l[c] : i \in DOMAIN u[c] /\ u[c][i] = l[c][i])
            /\ m \in DOMAIN u[c] /\ m \notin DOMAIN l[c] /\ \A i \in DOMAIN u[c] : i \in DOMAIN l[c] \/ i = m
        BY <2>6, <3>2, <4>1
      <4>. HIDE DEF m
      <4>3. m \notin DOMAIN wire[c]
        BY <2>4, <4>2
      <4>4. \A i \in DOMAIN wire[c] : i \in DOMAIN u[c] /\ u[c][i] = wire[c][i]
        BY <2>4, <4>2
      <4>5. \A i \in DOMAIN u[c] : i \notin DOMAIN wire[c] => \E k \in DOMAIN b : b[k] = <<c, u[c][i]>>
        <5>. SUFFICES ASSUME NEW i \in DOMAIN u[c], i \notin DOMAIN wire[c]
                      PROVE  \E k \in DOMAIN b : b[k] = <<c, u[c][i]>>
          OBVIOUS
        <5>1. CASE i = m
          <6>1. b[n] = <<c, u[c][i]>>
            BY <2>3, <3>2, <4>2, <5>1
          <6>. QED BY <2>1, <6>1
        <5>2. CASE i \in DOMAIN l[c]
          <6>1. u[c][i] = l[c][i]
            BY <4>2, <5>2
          <6>. QED BY <2>4, <5>2, <6>1
        <5>. QED BY <4>2, <5>1, <5>2
      <4>6. \A k \in DOMAIN b : k <= n /\ b[k][1] = c =>
                   \E i \in DOMAIN u[c] : i \notin DOMAIN wire[c] /\ u[c][i] = b[k][2]
        <5>. SUFFICES ASSUME NEW k \in DOMAIN b, k <= n, b[k][1] = c
                      PROVE  \E i \in DOMAIN u[c] : i \notin DOMAIN wire[c] /\ u[c][i] = b[k][2]
          OBVIOUS
        <5>1. CASE k = n
          BY <5>1, <4>2, <4>3 DEF f
        <5>2. CASE k <= j
          <6>1. PICK i \in DOMAIN l[c] : i \notin DOMAIN wire[c] /\ l[c][i] = b[k][2]
            BY <5>2, <2>4
          <6>. QED BY <4>2, <6>1
        <5>. QED BY <2>1, <5>1, <5>2
      <4>. QED BY <4>4, <4>5, <4>6
    <3>. QED BY <3>1, <3>2
  <2>9. u \in P[n]
    BY <2>1, <2>7, <2>8 DEF P
  <2>. QED BY <2>9 DEF u
<1>. HIDE DEF P
<1>4. Fcarry!Folded(wire, b) \in P[Len(b)]
  BY <1>2, <1>3, Fcarry!FoldSteps
<1>5. FoldLeft(carry, wire, b) = Fcarry!Folded(wire, b)
  BY DEF Fcarry!Folded, FoldLeft, MapThenFoldSet, Fcarry!FoldLeft, Fcarry!MapThenFoldSet, Max, Fcarry!Max
<1>6. Len(b) \in 0 .. Len(b)
  BY <1>1
<1>. DEFINE links == FoldLeft(carry, wire, b)
<1>7. links \in P[Len(b)]
  BY <1>4, <1>5
<1>. HIDE DEF links
<1>8. links \in [Conns -> F] /\ \A c \in Conns : Behind(links, b, c)
  BY <1>1, <1>6, <1>7 DEF P, Behind
<1>. QED BY <1>8 DEF links

\* What CarriedOut does to a link.
Delivered(out, c) ==
  /\ sock[c] = "none" => wire'[c] = wire[c]
  /\ \A i \in DOMAIN wire[c] : i \in DOMAIN wire'[c] /\ wire'[c][i] = wire[c][i]
  /\ \A i \in DOMAIN wire'[c] : i \notin DOMAIN wire[c] =>
       (\E k \in DOMAIN out.sends : out.sends[k] = <<c, wire'[c][i]>>) \/
       (wire'[c][i] = "close" /\ Has(out.closes, c))
  /\ sock[c] # "none" /\ Has(out.closes, c) => Has(wire'[c], "close")
  /\ sock[c] # "none" /\ Has(out.sends, <<c, "reject">>) =>
       \E i \in DOMAIN wire'[c] : /\ i \notin DOMAIN wire[c] /\ wire'[c][i] = "reject"
                                  /\ \A j \in 1 .. i : j \in DOMAIN wire[c] \/ wire'[c][j] # "close"

\* What the output of a tick does to the links: its frames, then the closes.
LEMMA Delivers ==
  ASSUME wire \in [Conns -> Seq(Frames \cup {"close"})], NEW out,
         out.sends \in Seq(Conns \X Frames), out.closes \in Seq(Conns), CarriedOut(out)
  PROVE  wire' \in [Conns -> Seq(Frames \cup {"close"})] /\ \A c \in Conns : Delivered(out, c)
<1>. DEFINE F == Seq(Frames \cup {"close"})
            links == FoldLeft(carry, wire, out.sends)
            full(c) == Append(links[c], "close")
<1>1. links \in [Conns -> F] /\ \A c \in Conns : Behind(links, out.sends, c)
  BY Carries
<1>2. wire' = [c \in Conns |-> IF sock[c] = "none" THEN wire[c]
                               ELSE IF c \in ToSet(out.closes) THEN full(c) ELSE links[c]]
  BY DEF CarriedOut
<1>3. \A c : c \in ToSet(out.closes) <=> Has(out.closes, c)
  BY DEF ToSet, Has
<1>. HIDE DEF links
<1>4. ASSUME NEW c \in Conns
      PROVE  /\ links[c] \in F /\ Len(links[c]) \in Nat /\ DOMAIN links[c] = 1 .. Len(links[c])
             /\ full(c) \in F /\ DOMAIN full(c) = 1 .. Len(links[c]) + 1 /\ full(c)[Len(links[c]) + 1] = "close"
             /\ \A i \in DOMAIN links[c] : i \in DOMAIN full(c) /\ full(c)[i] = links[c][i]
             /\ \A i \in DOMAIN full(c) : i \in DOMAIN links[c] \/ i = Len(links[c]) + 1
             /\ Len(links[c]) + 1 \in DOMAIN full(c)
             /\ \A i \in DOMAIN links[c] : 1 .. i \subseteq DOMAIN links[c]
             /\ wire[c] \in F
  <2>1. links[c] \in F /\ "close" \in Frames \cup {"close"} /\ wire[c] \in F
    BY <1>1
  <2>. QED BY <2>1
<1>. HIDE DEF F, full
<1>5. wire' \in [Conns -> F]
  BY <1>2, <1>4
<1>6. ASSUME NEW c \in Conns PROVE Delivered(out, c)
  <2>1. Behind(links, out.sends, c)
    BY <1>1
  <2>2. CASE sock[c] = "none"
    <3>1. wire'[c] = wire[c]
      BY <1>2, <2>2
    <3>. QED BY <2>2, <3>1 DEF Delivered
  <2>3. CASE sock[c] # "none"
    <3>1. IF Has(out.closes, c) THEN wire'[c] = full(c) ELSE wire'[c] = links[c]
      BY <1>2, <1>3, <2>3
    <3>2. \A i \in DOMAIN links[c] : i \in DOMAIN wire'[c] /\ wire'[c][i] = links[c][i]
      BY <1>4, <3>1
    <3>3. \A i \in DOMAIN wire'[c] : i \in DOMAIN links[c] \/ (wire'[c][i] = "close" /\ Has(out.closes, c))
      BY <1>4, <3>1
    <3>4. Has(out.closes, c) => Has(wire'[c], "close")
      BY <1>4, <3>1 DEF Has
    <3>5. \A i \in DOMAIN wire[c] : i \in DOMAIN wire'[c] /\ wire'[c][i] = wire[c][i]
      BY <2>1, <3>2 DEF Behind
    <3>6. \A i \in DOMAIN wire'[c] : i \notin DOMAIN wire[c] =>
            (\E k \in DOMAIN out.sends : out.sends[k] = <<c, wire'[c][i]>>) \/
            (wire'[c][i] = "close" /\ Has(out.closes, c))
      <4>. SUFFICES ASSUME NEW i \in DOMAIN wire'[c], i \notin DOMAIN wire[c], i \in DOMAIN links[c]
                    PROVE  \E k \in DOMAIN out.sends : out.sends[k] = <<c, wire'[c][i]>>
        BY <3>3
      <4>1. wire'[c][i] = links[c][i]
        BY <3>2
      <4>. QED BY <2>1, <4>1 DEF Behind
    <3>7. ASSUME Has(out.sends, <<c, "reject">>)
          PROVE  \E i \in DOMAIN wire'[c] : /\ i \notin DOMAIN wire[c] /\ wire'[c][i] = "reject"
                                  /\ \A j \in 1 .. i : j \in DOMAIN wire[c] \/ wire'[c][j] # "close"
      <4>1. PICK k \in DOMAIN out.sends : out.sends[k] = <<c, "reject">>
        BY <3>7 DEF Has
      <4>2. out.sends[k][1] = c /\ out.sends[k][2] = "reject"
        BY <4>1
      <4>3. PICK i \in DOMAIN links[c] : i \notin DOMAIN wire[c] /\ links[c][i] = "reject"
        BY <2>1, <4>2 DEF Behind
      <4>4. ASSUME NEW j \in 1 .. i, j \notin DOMAIN wire[c] PROVE wire'[c][j] # "close"
        <5>1. j \in DOMAIN links[c] /\ wire'[c][j] = links[c][j]
          BY <1>4, <3>2, <4>3
        <5>2. PICK n \in DOMAIN out.sends : out.sends[n] = <<c, links[c][j]>>
          BY <2>1, <4>4, <5>1 DEF Behind
        <5>3. out.sends[n] \in Conns \X Frames
          OBVIOUS
        <5>4. links[c][j] \in Frames
          BY <5>2, <5>3
        <5>. QED BY <5>1, <5>4 DEF Frames
      <4>. QED BY <3>2, <4>3, <4>4
    <3>. QED BY <2>3, <3>4, <3>5, <3>6, <3>7 DEF Delivered
  <2>. QED BY <2>2, <2>3
<1>. QED BY <1>5, <1>6 DEF F

\* What a list holds without its head.
LEMMA Tails ==
  ASSUME NEW X, NEW q \in Seq(X), q # << >>
  PROVE  /\ Tail(q) \in Seq(X) /\ Head(q) \in X
         /\ \A i \in DOMAIN Tail(q) : i + 1 \in DOMAIN q /\ Tail(q)[i] = q[i + 1]
         /\ \A x : Has(Tail(q), x) => Has(q, x)
         /\ \A x : Has(q, x) => Has(Tail(q), x) \/ Head(q) = x
         /\ Has(q, Head(q))
<1>1. /\ Len(q) \in Nat /\ Len(q) > 0 /\ Tail(q) \in Seq(X) /\ Head(q) = q[1] /\ Head(q) \in X
      /\ Len(Tail(q)) = Len(q) - 1 /\ DOMAIN q = 1 .. Len(q) /\ DOMAIN Tail(q) = 1 .. Len(q) - 1
      /\ \A i \in 1 .. Len(q) - 1 : Tail(q)[i] = q[i + 1]
  OBVIOUS
<1>2. \A i \in 1 .. Len(q) - 1 : i + 1 \in 1 .. Len(q)
  BY <1>1
<1>3. \A i \in 1 .. Len(q) : i = 1 \/ (i - 1 \in 1 .. Len(q) - 1 /\ (i - 1) + 1 = i)
  BY <1>1
<1>4. ASSUME NEW x, Has(Tail(q), x) PROVE Has(q, x)
  BY <1>1, <1>2, <1>4 DEF Has
<1>5. ASSUME NEW x, Has(q, x), Head(q) # x PROVE Has(Tail(q), x)
  <2>1. PICK i \in DOMAIN q : q[i] = x
    BY <1>5 DEF Has
  <2>2. i # 1 /\ i - 1 \in 1 .. Len(q) - 1 /\ (i - 1) + 1 = i
    BY <1>1, <1>3, <1>5, <2>1
  <2>3. Tail(q)[i - 1] = x
    BY <1>1, <2>1, <2>2
  <2>. QED BY <1>1, <2>2, <2>3 DEF Has
<1>6. Has(q, Head(q))
  <2>1. 1 \in DOMAIN q
    BY <1>1
  <2>. QED BY <1>1, <2>1 DEF Has
<1>. QED BY <1>1, <1>2, <1>4, <1>5, <1>6

\* A frame joins the batch.
LEMMA Arriving ==
  ASSUME batch \in Batch, NEW c \in Conns, NEW kind \in {"opened", "frames", "closed"}, arrives(c, kind)
  PROVE  /\ batch' \in Batch /\ batch'.records = batch.records
         /\ batch'.opened = IF kind = "opened" THEN Append(batch.opened, c) ELSE batch.opened
         /\ \A d : Has(batch'.opened, d) <=> Has(batch.opened, d) \/ (kind = "opened" /\ d = c)
         /\ \A d : Has(batch'.closed, d) <=> Has(batch.closed, d) \/ (kind = "closed" /\ d = c)
<1>1. batch.opened \in Seq(Conns) /\ batch.closed \in Seq(Conns) /\ batch.frames \in Seq(Conns)
  BY DEF Batch
<1>2. /\ \A d : Has(Append(batch.opened, c), d) <=> Has(batch.opened, d) \/ d = c
      /\ \A d : Has(Append(batch.closed, c), d) <=> Has(batch.closed, d) \/ d = c
  BY <1>1, Appending
<1>. DEFINE b == batch'
<1>3. CASE kind = "opened"
  <2>. DEFINE x == Append(batch.opened, c)
  <2>0. b = [batch EXCEPT !["opened"] = Append(batch["opened"], c)]
    BY <1>3 DEF arrives
  <2>a. [batch EXCEPT !["opened"] = Append(batch["opened"], c)] = [batch EXCEPT !.opened = Append(batch.opened, c)]
    OBVIOUS
  <2>b. x \in Seq(Conns)
    BY <1>1
  <2>1. b = [batch EXCEPT !.opened = x] /\ x \in Seq(Conns)
    BY <2>0, <2>a, <2>b, Zenon
  <2>. HIDE DEF b, x
  <2>2. b \in Batch /\ b.records = batch.records /\ b.opened = x /\ b.closed = batch.closed
    BY <2>1 DEF Batch
  <2>. QED BY <1>2, <1>3, <2>2 DEF b, x
<1>4. CASE kind = "frames"
  <2>. DEFINE x == Append(batch.frames, c)
  <2>0. b = [batch EXCEPT !["frames"] = Append(batch["frames"], c)]
    BY <1>4 DEF arrives
  <2>a. [batch EXCEPT !["frames"] = Append(batch["frames"], c)] = [batch EXCEPT !.frames = Append(batch.frames, c)]
    OBVIOUS
  <2>b. x \in Seq(Conns)
    BY <1>1
  <2>1. b = [batch EXCEPT !.frames = x] /\ x \in Seq(Conns)
    BY <2>0, <2>a, <2>b, Zenon
  <2>. HIDE DEF b, x
  <2>2. b \in Batch /\ b.records = batch.records /\ b.opened = batch.opened /\ b.closed = batch.closed
    BY <2>1 DEF Batch
  <2>. QED BY <1>4, <2>2 DEF b
<1>5. CASE kind = "closed"
  <2>. DEFINE x == Append(batch.closed, c)
  <2>0. b = [batch EXCEPT !["closed"] = Append(batch["closed"], c)]
    BY <1>5 DEF arrives
  <2>a. [batch EXCEPT !["closed"] = Append(batch["closed"], c)] = [batch EXCEPT !.closed = Append(batch.closed, c)]
    OBVIOUS
  <2>b. x \in Seq(Conns)
    BY <1>1
  <2>1. b = [batch EXCEPT !.closed = x] /\ x \in Seq(Conns)
    BY <2>0, <2>a, <2>b, Zenon
  <2>. HIDE DEF b, x
  <2>2. b \in Batch /\ b.records = batch.records /\ b.opened = batch.opened /\ b.closed = x
    BY <2>1 DEF Batch
  <2>. QED BY <1>2, <1>5, <2>2 DEF b, x
<1>. QED BY <1>3, <1>4, <1>5

\* What SessionsInv says of one connection.
Sound(c) == EndOf(c) /\ ClosingOf(c) /\ LinkOf(c)

\* Nothing a connection's books are about changes.
Untouched(d) ==
  /\ srv'.st[d] = srv.st[d] /\ srv'.closed = srv.closed
  /\ Has(batch'.opened, d) <=> Has(batch.opened, d)
  /\ Has(batch'.closed, d) <=> Has(batch.closed, d)
  /\ sock'[d] = sock[d] /\ cli'[d] = cli[d] /\ wire'[d] = wire[d] /\ inbox'[d] = inbox[d]
  /\ d \in cut' <=> d \in cut
  /\ d \in refused' <=> d \in refused
  /\ sock[d] = "none" => d \notin loads' /\ \A i \in DOMAIN batch'.records : batch'.records[i].conn # d

\* A connection that nothing touches stays sound.
LEMMA StaysSound ==
  ASSUME NEW d \in Conns, Untouched(d), Sound(d)
  PROVE  Sound(d)'
<1>1. EndOf(d)'
  BY DEF Untouched, Sound, EndOf
<1>2. ClosingOf(d)'
  BY DEF Untouched, Sound, ClosingOf, Past
<1>3. LinkOf(d)'
  BY DEF Untouched, Sound, LinkOf, Past, Refusal
<1>. QED BY <1>1, <1>2, <1>3 DEF Sound

\* A step of the client's end of c, or of its link.
LEMMA ClientKeeps ==
  ASSUME SessionsInv, NEW c \in Conns, UNCHANGED <<srv, loads, saves, store, played, refused, excused>>,
         SessionTypes', OpenedOnce', batch'.records = batch.records,
         \A d \in Conns : d # c =>
           /\ Has(batch'.opened, d) <=> Has(batch.opened, d)
           /\ Has(batch'.closed, d) <=> Has(batch.closed, d)
           /\ sock'[d] = sock[d] /\ cli'[d] = cli[d] /\ wire'[d] = wire[d] /\ inbox'[d] = inbox[d]
           /\ d \in cut' <=> d \in cut,
         Has(batch'.opened, c) => Has(batch.opened, c) \/ sock[c] = "none",
         Sound(c)'
  PROVE  SessionsInv'
<1>1. /\ Tidy(srv) /\ (srv.closed => \A d \in Conns : srv.st[d] = "none") /\ Loads /\ Stints
      /\ \A d \in Conns : Sound(d)
  BY DEF SessionsInv, Sound
<1>2. Tidy(srv)' /\ (srv.closed => \A d \in Conns : srv.st[d] = "none")'
  <2>1. srv' = srv
    OBVIOUS
  <2>2. Tidy(srv)'
    BY <1>1, <2>1 DEF Tidy, Joined, Unjoined
  <2>. QED BY <1>1, <2>1, <2>2
<1>3. Loads'
  <2>1. \A d \in Conns : Has(batch'.opened, d) => Has(batch.opened, d) \/ sock[d] = "none"
    OBVIOUS
  <2>2. \A d \in Conns : sock[d] = "none" => ~Asked(d)
    BY <1>1 DEF Sound, EndOf, Asked
  <2>3. \A d \in Conns : Asked(d)' <=> Asked(d)
    BY DEF Asked
  <2>. QED BY <1>1, <2>1, <2>2, <2>3 DEF Loads
<1>4. Stints'
  <2>1. \A w : Kept(srv, w)' <=> Kept(srv, w)
    BY DEF Kept, Joined
  <2>. QED BY <1>1, <2>1 DEF Stints
<1>5. \A d \in Conns : Sound(d)'
  <2>. SUFFICES ASSUME NEW d \in Conns, d # c PROVE Sound(d)'
    OBVIOUS
  <2>1. Sound(d)
    BY <1>1
  <2>2. Untouched(d)
    BY <2>1 DEF Untouched, Sound, EndOf
  <2>. QED BY <2>1, <2>2, StaysSound
<1>. QED BY <1>2, <1>3, <1>4, <1>5 DEF SessionsInv, Sound

\* The end closes: the peer hears of it unless the link is gone or was closed before.
LEMMA EndCloses ==
  ASSUME SessionsInv, NEW c \in Conns, NEW state \in Ending, state # "disconnected", cli[c] # "off",
         fail(c, state), UNCHANGED wire, clientOnly
  PROVE  SessionsInv'
<1>1. SessionTypes /\ Sound(c) /\ OpenedOnce /\ batch \in Batch
  BY DEF SessionsInv, SessionTypes, Sound
<1>2. /\ batch' \in Batch /\ batch'.records = batch.records /\ batch'.opened = batch.opened
      /\ \A d : Has(batch'.closed, d) <=> Has(batch.closed, d) \/ (d = c /\ sock[c] = "open" /\ c \notin cut)
  <2>1. CASE sock[c] = "open" /\ c \notin cut
    <3>1. arrives(c, "closed")
      BY <2>1 DEF fail, closeEnd, sends
    <3>. QED BY <1>1, <2>1, <3>1, Arriving
  <2>2. CASE ~(sock[c] = "open" /\ c \notin cut)
    BY <1>1, <2>2 DEF fail, closeEnd, sends
  <2>. QED BY <2>1, <2>2
<1>3. /\ cli' = [cli EXCEPT ![c] = state] /\ inbox' = [inbox EXCEPT ![c] = << >>]
      /\ sock' = [sock EXCEPT ![c] = IF sock[c] = "open" THEN "closing" ELSE sock[c]]
      /\ UNCHANGED <<srv, loads, saves, store, played, refused, excused, misses, cut>>
  BY DEF fail, closeEnd, clientOnly
<1>4. /\ cli'[c] = state /\ inbox'[c] = << >> /\ sock'[c] \in {"closing", "closed"}
      /\ sock[c] # "open" => sock'[c] = sock[c]
  BY <1>1, <1>3 DEF SessionTypes, Sound, EndOf
<1>5. SessionTypes'
  <2>1. /\ cli' \in [Conns -> {"off"} \cup Active \cup Ending]
        /\ sock' \in [Conns -> {"none", "open", "closing", "closed"}]
    BY <1>1, <1>3 DEF SessionTypes
  <2>2. inbox' \in [Conns -> Seq(Frames)]
    BY <1>1, <1>3 DEF SessionTypes
  <2>. QED BY <1>1, <1>2, <1>3, <2>1, <2>2 DEF SessionTypes
<1>6. OpenedOnce'
  BY <1>1, <1>2, <1>3 DEF OpenedOnce
<1>7. Sound(c)'
  <2>1. EndOf(c)'
    BY <1>4 DEF EndOf, Active, Ending
  <2>2. ClosingOf(c)'
    BY <1>1, <1>2, <1>3, <1>4 DEF ClosingOf, Sound, EndOf, Past
  <2>3. LinkOf(c)'
    BY <1>1, <1>2, <1>3, <1>4 DEF LinkOf, Sound, Past
  <2>. QED BY <2>1, <2>2, <2>3 DEF Sound
<1>8. \A d \in Conns : d # c => sock'[d] = sock[d] /\ cli'[d] = cli[d] /\ wire'[d] = wire[d] /\ inbox'[d] = inbox[d]
  BY <1>1, <1>3 DEF SessionTypes
<1>. QED BY <1>2, <1>3, <1>5, <1>6, <1>7, <1>8, ClientKeeps

\* The steps of a client and of its link keep the invariant.
LEMMA ClientSteps ==
  ASSUME SessionsInv, NEW c \in Conns,
         \/ connectWebSocket(c) \/ start(c) \/ resync(c) \/ destroy(c) \/ ClientStep(c) \/ linkFails(c)
  PROVE  SessionsInv'
<1>0. SessionTypes /\ Sound(c) /\ OpenedOnce /\ batch \in Batch
  BY DEF SessionsInv, SessionTypes, Sound
<1>0a. /\ wire[c] \in Seq(Frames \cup {"close"}) /\ inbox[c] \in Seq(Frames)
       /\ cli[c] \in {"off"} \cup Active \cup Ending
       /\ sock[c] \in {"none", "open", "closing", "closed"}
  BY <1>0 DEF SessionTypes
<1>0b. "closing" # "open" /\ "none" # "open" /\ Active \cap Ending = {} /\ "off" \notin Active \cup Ending
  BY DEF Active, Ending
<1>1. CASE connectWebSocket(c)
  <2>1. /\ cli' = [cli EXCEPT ![c] = "dialed"] /\ sock' = [sock EXCEPT ![c] = "open"] /\ cli[c] = "off"
        /\ UNCHANGED <<wire, inbox, srv, loads, saves, store, played, refused, excused, cut>>
        /\ arrives(c, "opened")
    BY <1>1 DEF connectWebSocket, clientOnly
  <2>2. /\ batch' \in Batch /\ batch'.records = batch.records /\ batch'.opened = Append(batch.opened, c)
        /\ \A d : Has(batch'.opened, d) <=> Has(batch.opened, d) \/ d = c
        /\ \A d : Has(batch'.closed, d) <=> Has(batch.closed, d)
    BY <1>0, <2>1, Arriving
  <2>3. /\ sock[c] = "none" /\ srv.st[c] = "none" /\ ~Has(batch.opened, c) /\ ~Has(batch.closed, c)
        /\ wire[c] = << >> /\ inbox[c] = << >> /\ c \notin cut /\ c \notin refused
    BY <1>0, <2>1 DEF Sound, EndOf
  <2>4. cli'[c] = "dialed" /\ sock'[c] = "open"
    BY <1>0, <2>1 DEF SessionTypes
  <2>5. SessionTypes'
    <3>1. /\ cli' \in [Conns -> {"off"} \cup Active \cup Ending]
          /\ sock' \in [Conns -> {"none", "open", "closing", "closed"}]
      BY <1>0, <2>1 DEF SessionTypes, Active
    <3>. QED BY <1>0, <2>1, <2>2, <3>1 DEF SessionTypes
  <2>6. OpenedOnce'
    <3>1. batch.opened \in Seq(Conns)
      BY <1>0 DEF Batch
    <3>2. \A i, j \in DOMAIN batch'.opened : batch'.opened[i] = batch'.opened[j] => i = j
      <4>. DEFINE q == batch.opened
                  n == Len(q) + 1
      <4>1. /\ DOMAIN Append(q, c) = 1 .. n /\ Append(q, c)[n] = c /\ DOMAIN q = 1 .. Len(q)
            /\ \A i \in DOMAIN Append(q, c) : i = n \/ (i \in DOMAIN q /\ Append(q, c)[i] = q[i])
        BY <3>1
      <4>. HIDE DEF n, q
      <4>2. \A i \in DOMAIN q : q[i] # c
        BY <2>3 DEF Has, q
      <4>3. \A i, j \in DOMAIN q : q[i] = q[j] => i = j
        BY <1>0 DEF OpenedOnce, q
      <4>4. \A i, j \in DOMAIN Append(q, c) : Append(q, c)[i] = Append(q, c)[j] => i = j
        BY <4>1, <4>2, <4>3
      <4>. QED BY <2>2, <4>4 DEF q
    <3>. QED BY <1>0, <2>1, <2>2, <2>3, <3>2 DEF OpenedOnce
  <2>7. Sound(c)'
    <3>1. EndOf(c)'
      BY <2>4 DEF EndOf, Active
    <3>2. ClosingOf(c)'
      BY <2>1, <2>2, <2>3, <2>4 DEF ClosingOf
    <3>3. LinkOf(c)'
      BY <2>1, <2>3, <2>4 DEF LinkOf, Has
    <3>. QED BY <3>1, <3>2, <3>3 DEF Sound
  <2>8. \A d \in Conns : d # c => sock'[d] = sock[d] /\ cli'[d] = cli[d]
    BY <1>0, <2>1 DEF SessionTypes
  <2>. QED BY <2>1, <2>2, <2>3, <2>5, <2>6, <2>7, <2>8, ClientKeeps
\* Nothing opens in the others.
<1>a. ASSUME batch' \in Batch, batch'.records = batch.records, batch'.opened = batch.opened,
             UNCHANGED <<srv, loads, saves, store, played, refused, excused>>,
             NEW s1 \in {"open", "closing", "closed"}, NEW k1 \in Active \cup Ending,
             NEW w1 \in Seq(Frames \cup {"close"}), NEW i1 \in Seq(Frames),
             sock' = [sock EXCEPT ![c] = s1], cli' = [cli EXCEPT ![c] = k1],
             wire' = [wire EXCEPT ![c] = w1], inbox' = [inbox EXCEPT ![c] = i1],
             \A d \in Conns : d # c => (Has(batch'.closed, d) <=> Has(batch.closed, d)) /\ (d \in cut' <=> d \in cut),
             (sock'[c] = s1 /\ cli'[c] = k1 /\ wire'[c] = w1 /\ inbox'[c] = i1) => Sound(c)'
      PROVE  SessionsInv'
  <2>. USE <1>a
  <2>1. sock'[c] = s1 /\ cli'[c] = k1 /\ wire'[c] = w1 /\ inbox'[c] = i1
    BY <1>0 DEF SessionTypes
  <2>2. SessionTypes'
    <3>1. /\ sock' \in [Conns -> {"none", "open", "closing", "closed"}]
          /\ cli' \in [Conns -> {"off"} \cup Active \cup Ending]
      BY <1>0 DEF SessionTypes
    <3>2. wire' \in [Conns -> Seq(Frames \cup {"close"})] /\ inbox' \in [Conns -> Seq(Frames)]
      BY <1>0 DEF SessionTypes
    <3>. QED BY <1>0, <3>1, <3>2 DEF SessionTypes
  <2>3. OpenedOnce'
    BY <1>0 DEF OpenedOnce
  <2>4. \A d \in Conns : d # c => sock'[d] = sock[d] /\ cli'[d] = cli[d] /\ wire'[d] = wire[d] /\ inbox'[d] = inbox[d]
    BY <1>0 DEF SessionTypes
  <2>. QED BY <2>1, <2>2, <2>3, <2>4, ClientKeeps
\* What the client sends, it sends over an open link that has not failed.
<1>b. ASSUME NEW kind \in {"frames", "closed"}, sends(c, kind)
      PROVE  /\ batch' \in Batch /\ batch'.records = batch.records /\ batch'.opened = batch.opened
             /\ \A d : Has(batch'.closed, d) <=>
                  Has(batch.closed, d) \/ (d = c /\ kind = "closed" /\ sock[c] = "open" /\ c \notin cut)
  <2>1. CASE sock[c] = "open" /\ c \notin cut
    <3>1. arrives(c, kind)
      BY <1>b, <2>1 DEF sends
    <3>. QED BY <1>0, <2>1, <3>1, Arriving
  <2>2. CASE ~(sock[c] = "open" /\ c \notin cut)
    BY <1>0, <1>b, <2>2 DEF sends
  <2>. QED BY <2>1, <2>2
<1>c. /\ cli = [cli EXCEPT ![c] = cli[c]] /\ sock = [sock EXCEPT ![c] = sock[c]]
      /\ wire = [wire EXCEPT ![c] = wire[c]] /\ inbox = [inbox EXCEPT ![c] = inbox[c]]
  BY <1>0 DEF SessionTypes
<1>2. CASE start(c)
  <2>1. /\ cli[c] = "dialed" /\ cli' = [cli EXCEPT ![c] = "connecting"] /\ sends(c, "frames")
        /\ UNCHANGED <<sock, wire, inbox, srv, loads, saves, store, played, refused, excused, cut>>
    BY <1>2 DEF start, clientOnly
  <2>2. sock[c] = "open" /\ "connecting" \in Active
    BY <1>0, <2>1 DEF Sound, EndOf, Active
  <2>3. batch' \in Batch /\ batch'.records = batch.records /\ batch'.opened = batch.opened
        /\ \A d : Has(batch'.closed, d) <=> Has(batch.closed, d)
    BY <1>b, <2>1
  <2>4. cli'[c] = "connecting" => Sound(c)'
    <3>. SUFFICES ASSUME cli'[c] = "connecting" PROVE Sound(c)'
      OBVIOUS
    <3>1. EndOf(c)'
      BY <2>1, <2>2 DEF EndOf
    <3>2. ClosingOf(c)'
      BY <1>0, <2>1, <2>2, <2>3 DEF Sound, ClosingOf, Past
    <3>3. LinkOf(c)'
      BY <1>0, <2>1, <2>2, <2>3 DEF Sound, LinkOf, Past, Refusal
    <3>. QED BY <3>1, <3>2, <3>3 DEF Sound
  <2>. QED BY <1>0a, <1>a, <1>c, <2>1, <2>2, <2>3, <2>4
<1>3. CASE resync(c)
  <2>1. /\ cli[c] = "live" /\ cli' = [cli EXCEPT ![c] = "resyncing"] /\ sends(c, "frames")
        /\ UNCHANGED <<sock, wire, inbox, srv, loads, saves, store, played, refused, excused, cut>>
    BY <1>3 DEF resync, clientOnly
  <2>2. sock[c] = "open" /\ "resyncing" \in Active
    BY <1>0, <2>1 DEF Sound, EndOf, Active
  <2>3. batch' \in Batch /\ batch'.records = batch.records /\ batch'.opened = batch.opened
        /\ \A d : Has(batch'.closed, d) <=> Has(batch.closed, d)
    BY <1>b, <2>1
  <2>4. cli'[c] = "resyncing" => Sound(c)'
    <3>. SUFFICES ASSUME cli'[c] = "resyncing" PROVE Sound(c)'
      OBVIOUS
    <3>1. EndOf(c)'
      BY <2>1, <2>2 DEF EndOf
    <3>2. ClosingOf(c)'
      BY <1>0, <2>1, <2>2, <2>3 DEF Sound, ClosingOf, Past
    <3>3. LinkOf(c)'
      BY <1>0, <2>1, <2>2, <2>3 DEF Sound, LinkOf, Past, Refusal
    <3>. QED BY <3>1, <3>2, <3>3 DEF Sound
  <2>. QED BY <1>0a, <1>a, <1>c, <2>1, <2>2, <2>3, <2>4
<1>4. CASE destroy(c)
  BY <1>4, EndCloses DEF destroy, Ending
<1>5. CASE deadline(c)
  BY <1>5, EndCloses DEF deadline, Ending
<1>6. CASE bundleLoads(c)
  <2>1. /\ cli[c] = "loading" /\ cli' = [cli EXCEPT ![c] = "live"]
        /\ UNCHANGED <<batch, sock, wire, inbox, srv, loads, saves, store, played, refused, excused, cut>>
    BY <1>6 DEF bundleLoads, stillLoading, clientOnly
  <2>2. sock[c] = "open" /\ "live" \in Active
    BY <1>0, <2>1 DEF Sound, EndOf, Active
  <2>3. cli'[c] = "live" => Sound(c)'
    <3>. SUFFICES ASSUME cli'[c] = "live" PROVE Sound(c)'
      OBVIOUS
    <3>1. EndOf(c)'
      BY <2>1, <2>2 DEF EndOf
    <3>2. ClosingOf(c)'
      BY <1>0, <2>1, <2>2 DEF Sound, ClosingOf, Past
    <3>3. LinkOf(c)'
      BY <1>0, <2>1, <2>2 DEF Sound, LinkOf, Past, Refusal
    <3>. QED BY <3>1, <3>2, <3>3 DEF Sound
  <2>. QED BY <1>0, <1>0a, <1>a, <1>c, <2>1, <2>2, <2>3
<1>7. CASE drainInbox(c) /\ Head(inbox[c]) = "reject"
  BY <1>7, EndCloses DEF drainInbox, Ending
<1>8. CASE drainInbox(c) /\ Head(inbox[c]) # "reject"
  <2>. DEFINE k1 == IF cli[c] = "connecting" THEN "loading" ELSE "live"
              i1 == Tail(inbox[c])
  <2>1. /\ inbox[c] # << >> /\ cli[c] \in {"connecting", "live", "resyncing"}
        /\ cli' = [cli EXCEPT ![c] = k1] /\ inbox' = [inbox EXCEPT ![c] = i1]
        /\ UNCHANGED <<batch, sock, wire, srv, loads, saves, store, played, refused, excused, cut>>
    BY <1>8 DEF drainInbox, clientOnly
  <2>2. sock[c] = "open" /\ k1 \in Active /\ k1 \in {"loading", "live"}
    BY <1>0, <2>1 DEF Sound, EndOf, Active
  <2>3. /\ i1 \in Seq(Frames) /\ Head(inbox[c]) \in Frames /\ (\A x : Has(i1, x) => Has(inbox[c], x))
        /\ (\A x : Has(inbox[c], x) => Has(i1, x) \/ Head(inbox[c]) = x) /\ Has(inbox[c], Head(inbox[c]))
    BY <1>0a, <2>1, Tails
  <2>4. Has(inbox[c], "welcome") /\ (Has(inbox[c], "reject") => Has(i1, "reject"))
    BY <1>8, <2>3 DEF Frames
  <2>. HIDE DEF k1, i1
  <2>5. cli'[c] = k1 /\ inbox'[c] = i1 => Sound(c)'
    <3>. SUFFICES ASSUME cli'[c] = k1, inbox'[c] = i1 PROVE Sound(c)'
      OBVIOUS
    <3>0. k1 # "disconnected" /\ k1 # "off"
      BY <2>2
    <3>1. EndOf(c)'
      BY <2>1, <2>2, <3>0 DEF EndOf
    <3>2. ClosingOf(c)'
      BY <1>0, <2>1, <2>2, <3>0 DEF Sound, ClosingOf, Past
    <3>3. LinkOf(c)'
      BY <1>0, <2>1, <2>2, <2>3, <2>4, <3>0 DEF Sound, LinkOf, Past, Refusal
    <3>. QED BY <3>1, <3>2, <3>3 DEF Sound
  <2>. QED BY <1>0, <1>0a, <1>a, <1>c, <2>1, <2>2, <2>3, <2>5
<1>9. CASE onSocketMessage(c)
  <2>. DEFINE w1 == Tail(wire[c])
              i1 == IF sock[c] = "open" /\ ~over(cli[c]) THEN Append(inbox[c], Head(wire[c])) ELSE inbox[c]
  <2>1. /\ wire[c] # << >> /\ Head(wire[c]) # "close"
        /\ wire' = [wire EXCEPT ![c] = w1] /\ inbox' = [inbox EXCEPT ![c] = i1]
        /\ UNCHANGED <<batch, sock, cli, srv, loads, saves, store, played, refused, excused, cut>>
    BY <1>9 DEF onSocketMessage, clientOnly
  <2>2. /\ w1 \in Seq(Frames \cup {"close"}) /\ Head(wire[c]) \in Frames
        /\ (\A i \in DOMAIN w1 : i + 1 \in DOMAIN wire[c] /\ w1[i] = wire[c][i + 1])
        /\ (\A x : Has(w1, x) => Has(wire[c], x)) /\ (\A x : Has(wire[c], x) => Has(w1, x) \/ Head(wire[c]) = x)
        /\ Has(wire[c], Head(wire[c]))
    BY <1>0a, <2>1, Tails
  <2>3. sock[c] = "open" => ~over(cli[c])
    BY <1>0 DEF Sound, EndOf, Active, over, isTerminal
  <2>4. sock[c] # "none"
    BY <1>0, <2>1 DEF Sound, EndOf
  <2>5. /\ i1 \in Seq(Frames) /\ (\A x : Has(inbox[c], x) => Has(i1, x))
        /\ (\A x : Has(i1, x) => Has(inbox[c], x) \/ x = Head(wire[c]))
        /\ (sock[c] = "open" => Has(i1, Head(wire[c])))
    <3>1. CASE sock[c] = "open"
      <4>1. i1 = Append(inbox[c], Head(wire[c]))
        BY <2>3, <3>1
      <4>2. \A y : Has(Append(inbox[c], Head(wire[c])), y) <=> Has(inbox[c], y) \/ y = Head(wire[c])
        BY <1>0a, <2>2, Appending
      <4>3. Append(inbox[c], Head(wire[c])) \in Seq(Frames)
        BY <1>0a, <2>2
      <4>. QED BY <4>1, <4>2, <4>3
    <3>2. CASE sock[c] # "open"
      BY <1>0a, <3>2
    <3>. QED BY <3>1, <3>2
  <2>6. ASSUME sock[c] = "open", NEW i \in DOMAIN wire[c], wire[c][i] = "reject",
               \A j \in 1 .. i : wire[c][j] # "close"
        PROVE  Has(i1, "reject") \/ \E n \in DOMAIN w1 : w1[n] = "reject" /\ \A j \in 1 .. n : w1[j] # "close"
    <3>1. CASE i = 1
      <4>1. Head(wire[c]) = "reject"
        BY <1>0a, <2>1, <2>6, <3>1
      <4>. QED BY <2>5, <2>6, <4>1
    <3>2. CASE i # 1
      <4>. DEFINE n == i - 1
      <4>1. /\ DOMAIN wire[c] = 1 .. Len(wire[c]) /\ Len(wire[c]) \in Nat /\ DOMAIN w1 = 1 .. Len(wire[c]) - 1
        BY <1>0a, <2>1
      <4>2. n \in DOMAIN w1 /\ n + 1 = i /\ \A j \in 1 .. n : j \in DOMAIN w1 /\ j + 1 \in 1 .. i
        BY <3>2, <4>1
      <4>. HIDE DEF n, w1
      <4>3. w1[n] = "reject" /\ \A j \in 1 .. n : w1[j] # "close"
        BY <2>2, <2>6, <4>2
      <4>. QED BY <4>2, <4>3
    <3>. QED BY <3>1, <3>2
  <2>. HIDE DEF w1, i1
  <2>7. wire'[c] = w1 /\ inbox'[c] = i1 => Sound(c)'
    <3>. SUFFICES ASSUME wire'[c] = w1, inbox'[c] = i1 PROVE Sound(c)'
      OBVIOUS
    <3>1. EndOf(c)'
      BY <1>0, <2>1, <2>4 DEF EndOf, Sound
    <3>2. ClosingOf(c)'
      BY <1>0, <2>1 DEF Sound, ClosingOf, Past
    <3>3. LinkOf(c)'
      <4>1. Has(wire[c], "close") <=> Has(w1, "close")
        BY <2>1, <2>2
      <4>2. Has(i1, "welcome") \/ Has(w1, "welcome") => Has(inbox[c], "welcome") \/ Has(wire[c], "welcome")
        BY <2>2, <2>5
      <4>3. sock[c] = "open" /\ Refusal(c) => Refusal(c)'
        BY <2>5, <2>6 DEF Refusal
      <4>. QED BY <1>0, <2>1, <4>1, <4>2, <4>3 DEF Sound, LinkOf, Past
    <3>. QED BY <3>1, <3>2, <3>3 DEF Sound
  <2>8. cli[c] \in Active \cup Ending /\ sock[c] \in {"open", "closing", "closed"}
    BY <1>0, <1>0a, <2>4 DEF Sound, EndOf
  <2>. QED BY <1>0, <1>a, <1>c, <2>1, <2>2, <2>5, <2>7, <2>8
<1>10. CASE onSocketClose(c)
  <2>. DEFINE w1 == Tail(wire[c])
              k1 == IF sock[c] = "open" THEN closedAs(c) ELSE cli[c]
  <2>1. /\ wire[c] # << >> /\ Head(wire[c]) = "close" /\ wire' = [wire EXCEPT ![c] = w1]
        /\ inbox' = [inbox EXCEPT ![c] = << >>] /\ cli' = [cli EXCEPT ![c] = k1]
        /\ sock' = [sock EXCEPT ![c] = "closed"] /\ sends(c, "closed")
        /\ UNCHANGED <<srv, loads, saves, store, played, refused, excused, cut>>
    BY <1>10, <1>c DEF onSocketClose, clientOnly
  <2>2. /\ w1 \in Seq(Frames \cup {"close"}) /\ (\A x : Has(w1, x) => Has(wire[c], x)) /\ Has(wire[c], "close")
    BY <1>0a, <2>1, Tails
  <2>3. /\ batch' \in Batch /\ batch'.records = batch.records /\ batch'.opened = batch.opened
        /\ \A d : Has(batch'.closed, d) <=> Has(batch.closed, d) \/ (d = c /\ sock[c] = "open" /\ c \notin cut)
    BY <1>b, <2>1
  <2>4. sock[c] # "none"
    BY <1>0, <2>1 DEF Sound, EndOf
  <2>5. k1 \in Ending /\ (k1 = "disconnected" => IF sock[c] = "open" THEN ~Has(inbox[c], "reject") ELSE cli[c] = k1)
    <3>1. CASE sock[c] = "open"
      <4>1. ~over(cli[c])
        BY <1>0, <3>1 DEF Sound, EndOf, Active, over, isTerminal
      <4>. QED BY <3>1, <4>1 DEF closedAs, Ending, Has, ToSet
    <3>2. CASE sock[c] # "open"
      BY <1>0, <1>0a, <2>4, <3>2 DEF Sound, EndOf
    <3>. QED BY <3>1, <3>2
  <2>6. sock[c] = "open" /\ Refusal(c) => Has(inbox[c], "reject")
    <3>1. wire[c][1] = "close" /\ \A i \in DOMAIN wire[c] : 1 \in 1 .. i
      BY <1>0a, <2>1
    <3>. QED BY <3>1 DEF Refusal
  <2>. HIDE DEF w1, k1
  <2>7. sock'[c] = "closed" /\ cli'[c] = k1 /\ wire'[c] = w1 /\ inbox'[c] = << >> => Sound(c)'
    <3>. SUFFICES ASSUME sock'[c] = "closed", cli'[c] = k1, wire'[c] = w1, inbox'[c] = << >> PROVE Sound(c)'
      OBVIOUS
    <3>1. EndOf(c)'
      BY <2>5 DEF EndOf, Active, Ending
    <3>2. ClosingOf(c)'
      <4>1. c \in cut \/ Past(c)
        BY <1>0, <2>2 DEF Sound, LinkOf
      <4>2. Past(c)' <=> Past(c)
        BY <2>1, <2>3 DEF Past
      <4>. QED BY <1>0, <2>1, <2>3, <4>1, <4>2 DEF Sound, ClosingOf
    <3>3. LinkOf(c)'
      <4>1. Past(c)' <=> Past(c)
        BY <2>1, <2>3 DEF Past
      <4>2. c \in refused \ cut => k1 # "disconnected"
        BY <1>0, <2>5, <2>6 DEF Sound, LinkOf
      <4>. QED BY <1>0, <2>1, <2>2, <4>1, <4>2 DEF Sound, LinkOf
    <3>. QED BY <3>1, <3>2, <3>3 DEF Sound
  <2>8. << >> \in Seq(Frames) /\ "closed" \in {"open", "closing", "closed"} /\ k1 \in Active \cup Ending
    BY <2>5
  <2>. QED BY <1>a, <2>1, <2>2, <2>3, <2>7, <2>8
<1>11. CASE linkFails(c)
  <2>1. /\ sock[c] = "open" /\ cut' = cut \cup {c} /\ arrives(c, "closed") /\ wire' = [wire EXCEPT ![c] = <<"close">>]
        /\ UNCHANGED <<srv, loads, saves, store, played, refused, excused, sock, cli, inbox>>
    BY <1>11 DEF linkFails
  <2>2. /\ batch' \in Batch /\ batch'.records = batch.records /\ batch'.opened = batch.opened
        /\ \A d : Has(batch'.closed, d) <=> Has(batch.closed, d) \/ d = c
    BY <1>0, <2>1, Arriving
  <2>3. <<"close">> \in Seq(Frames \cup {"close"}) /\ Has(<<"close">>, "close")
    BY DEF Has
  <2>4. wire'[c] = <<"close">> => Sound(c)'
    <3>. SUFFICES ASSUME wire'[c] = <<"close">> PROVE Sound(c)'
      OBVIOUS
    <3>1. EndOf(c)'
      BY <1>0, <2>1 DEF EndOf, Sound
    <3>2. ClosingOf(c)'
      BY <2>1, <2>2 DEF ClosingOf
    <3>3. LinkOf(c)'
      BY <2>1, <2>3 DEF LinkOf
    <3>. QED BY <3>1, <3>2, <3>3 DEF Sound
  <2>5. cli[c] \in Active \cup Ending
    BY <1>0, <2>1 DEF Sound, EndOf
  <2>. QED BY <1>0a, <1>a, <1>c, <2>1, <2>2, <2>3, <2>4, <2>5
<1>. QED BY <1>1, <1>2, <1>3, <1>4, <1>5, <1>6, <1>7, <1>8, <1>9, <1>10, <1>11 DEF ClientStep

\* Playing, and the steps of the store (a load or a save that lands or fails), keep the invariant.
LEMMA StoreSteps ==
  ASSUME SessionsInv, NEW c,
         (c \in Conns /\ (play(c) \/ loadRead(c) \/ loadFails(c))) \/ saveLands \/ saveFails
  PROVE  SessionsInv'
<1>0. /\ SessionTypes /\ OpenedOnce /\ batch \in Batch /\ Tidy(srv) /\ Loads /\ Stints
      /\ (srv.closed => \A d \in Conns : srv.st[d] = "none") /\ \A d \in Conns : Sound(d)
  BY DEF SessionsInv, SessionTypes, Sound
<1>0a. /\ srv \in Srv /\ srv.out = NoOutput /\ played \in [Who -> Nat] /\ store \in [Who -> Nat]
       /\ saves \in Seq(Save)
       /\ batch.records \in Seq(Answer) /\ srv.field \in [Conns -> Nat] /\ srv.out.saves = << >>
  BY <1>0 DEF SessionTypes, Srv, Batch, NoOutput
<1>1. CASE c \in Conns /\ play(c)
  <2>0. c \in Conns
    BY <1>1
  <2>. USE <2>0
  <2>. DEFINE v == identity[c]
  <2>1. /\ c \in srv.fresh /\ v \in Who /\ Named(c)
        /\ srv' = [srv EXCEPT !.field[c] = @ + 1, !.fresh = @ \ {c}]
        /\ played' = [played EXCEPT ![v] = IF c \in srv.blind THEN played[v] ELSE played[v] + 1]
        /\ UNCHANGED <<batch, loads, saves, store, refused, excused, sock, wire, cli, inbox, cut>>
    BY <1>1, SessionsAssumption DEF play, clientVars, Named
  <2>2. /\ srv' \in Srv /\ srv'.st = srv.st /\ srv'.admitting = srv.admitting /\ srv'.pending = srv.pending
        /\ srv'.closed = srv.closed /\ srv'.fresh = srv.fresh \ {c} /\ srv'.cache = srv.cache
        /\ srv'.blind = srv.blind /\ srv'.out = srv.out /\ srv'.field = [srv.field EXCEPT ![c] = srv.field[c] + 1]
    <3>. DEFINE f == [srv.field EXCEPT ![c] = srv.field[c] + 1]
                t == srv'
    <3>1. f \in [Conns -> Nat]
      BY <1>0a
    <3>2. t = [srv EXCEPT !.field = f, !.fresh = srv.fresh \ {c}]
      BY <1>0a, <2>1 DEF Srv
    <3>. HIDE DEF f, t
    <3>3. /\ t \in Srv /\ t.st = srv.st /\ t.admitting = srv.admitting /\ t.pending = srv.pending
          /\ t.closed = srv.closed /\ t.fresh = srv.fresh \ {c} /\ t.cache = srv.cache
          /\ t.blind = srv.blind /\ t.out = srv.out /\ t.field = f
      BY <1>0a, <3>1, <3>2 DEF Srv
    <3>. QED BY <3>3 DEF f, t
  <2>3. Joined(srv') = Joined(srv) /\ Unjoined(srv') = Unjoined(srv) /\ c \in Joined(srv)
    BY <1>0, <2>1, <2>2 DEF Joined, Unjoined, Tidy
  <2>4. Tidy(srv)'
    BY <1>0, <2>2, <2>3 DEF Tidy
  <2>5. SessionTypes'
    <3>1. played' \in [Who -> Nat]
      BY <1>0a, <2>1
    <3>. QED BY <1>0, <2>1, <2>2, <3>1 DEF SessionTypes
  <2>6. OpenedOnce' /\ Loads' /\ (srv.closed => \A d \in Conns : srv.st[d] = "none")'
    BY <1>0, <2>1, <2>2 DEF OpenedOnce, Loads, Asked
  <2>7. ASSUME NEW d \in Conns PROVE Sound(d)'
    <3>1. Untouched(d)
      BY <1>0, <2>1, <2>2 DEF Untouched, Sound, EndOf
    <3>. QED BY <1>0, <3>1, StaysSound
  <2>8. ASSUME NEW w \in Who \ excused
        PROVE  /\ Kept(srv, w)' /\ (store[w] <= played[w])'
               /\ (\A i \in DOMAIN saves : saves[i].who = w => saves[i].value <= played[w])'
               /\ (\A i \in DOMAIN batch.records :
                    LET a == batch.records[i]
                    IN  identity[a.conn] = w /\ a.value # Empty /\ srv.st[a.conn] # "none" => a.value = played[w])'
    <3>1. /\ Kept(srv, w) /\ store[w] <= played[w]
          /\ (\A i \in DOMAIN saves : saves[i].who = w => saves[i].value <= played[w])
          /\ (\A i \in DOMAIN batch.records :
               LET a == batch.records[i]
               IN  identity[a.conn] = w /\ a.value # Empty /\ srv.st[a.conn] # "none" => a.value = played[w])
      BY <1>0 DEF Stints
    <3>2. \A d \in Conns : d # c => srv'.field[d] = srv.field[d]
      BY <1>0a, <2>2
    <3>3. Joined(srv) \subseteq Conns
      BY DEF Joined
    <3>4. CASE w # v \/ c \in srv.blind
      <4>1. played'[w] = played[w]
        BY <1>0a, <2>1, <3>4
      <4>2. \A d \in Joined(srv) \ srv.blind : identity[d] = w => srv'.field[d] = srv.field[d]
        BY <3>2, <3>3, <3>4
      <4>3. Kept(srv, w)'
        BY <2>1, <2>2, <2>3, <3>1, <4>1, <4>2 DEF Kept
      <4>. QED BY <2>1, <2>2, <3>1, <4>1, <4>3
    <3>5. CASE w = v /\ c \notin srv.blind
      <4>1. played'[w] = played[w] + 1 /\ srv'.field[c] = srv.field[c] + 1 /\ played[w] \in Nat
        BY <1>0a, <2>1, <2>2, <3>5
      <4>2. srv.cache[w] # Empty /\ srv.field[c] = played[w]
        BY <2>3, <3>1, <3>5 DEF Kept
      <4>3. \A d \in Joined(srv) : identity[d] = w => d = c
        BY <1>0, <2>1, <2>3, <3>5 DEF Tidy, SameId
      <4>4. \A d \in srv.blind \cup srv.admitting : identity[d] # w
        BY <3>1, <4>2 DEF Kept
      <4>5. Kept(srv, w)'
        <5>1. \A d \in Joined(srv') \ srv'.blind : identity[d] = w =>
                 srv'.cache[w] # Empty /\ srv'.field[d] = played'[w]
          BY <2>2, <2>3, <4>1, <4>2, <4>3
        <5>2. \E d \in Joined(srv') \ srv'.blind : identity[d] = w
          BY <2>2, <2>3, <3>5
        <5>3. srv'.cache[w] # Empty /\ srv'.out.saves = << >>
          BY <1>0a, <2>2, <4>2
        <5>. QED BY <2>2, <4>4, <5>1, <5>2, <5>3 DEF Kept
      <4>6. store'[w] <= played'[w] /\ store[w] \in Nat
        BY <1>0a, <2>1, <3>1, <4>1
      <4>7. \A i \in DOMAIN saves : saves[i].who = w => saves[i].value <= played[w] + 1
        <5>1. \A i \in DOMAIN saves : saves[i].value \in Nat
          <6>1. \A i \in DOMAIN saves : saves[i] \in Save
            BY <1>0a
          <6>. QED BY <6>1 DEF Save
        <5>. QED BY <3>1, <4>1, <5>1
      <4>8. ASSUME NEW i \in DOMAIN batch.records, identity[batch.records[i].conn] = w,
                   srv.st[batch.records[i].conn] # "none"
            PROVE  FALSE
        <5>1. batch.records[i] \in Answer
          BY <1>0a
        <5>2. batch.records[i].conn \in Conns /\ Asked(batch.records[i].conn)
          BY <5>1 DEF Answer, Asked
        <5>3. batch.records[i].conn \in srv.admitting
          BY <1>0, <4>8, <5>2 DEF Loads
        <5>. QED BY <4>4, <4>8, <5>3
      <4>. QED BY <2>1, <2>2, <4>1, <4>5, <4>6, <4>7, <4>8
    <3>. QED BY <3>4, <3>5
  <2>9. Stints'
    <3>1. excused' = excused
      BY <2>1
    <3>. QED BY <2>8, <3>1 DEF Stints
  <2>. QED BY <2>4, <2>5, <2>6, <2>7, <2>9 DEF SessionsInv, Sound
\* The answer to a load joins the batch.
<1>a. ASSUME c \in Conns, NEW value \in Record, loadAnswered(c, value), value # Empty => value = store[identity[c]]
      PROVE  SessionsInv'
  <2>. USE <1>a
  <2>. DEFINE x == [conn |-> c, value |-> value]
              q == batch.records
              r == Append(q, x)
              n == Len(q) + 1
  <2>1. /\ c \in loads /\ loads' = loads \ {c}
        /\ batch' = [batch EXCEPT !.records = r]
        /\ UNCHANGED <<srv, saves, store, played, refused, excused, sock, wire, cli, inbox, cut>>
    BY DEF loadAnswered, clientVars
  <2>2. x \in Answer /\ q \in Seq(Answer) /\ r \in Seq(Answer)
    BY <1>0a DEF Answer
  <2>3. /\ DOMAIN r = 1 .. n /\ r[n] = x /\ DOMAIN q = 1 .. Len(q) /\ n \in DOMAIN r
        /\ (\A i \in DOMAIN r : i = n \/ (i \in DOMAIN q /\ r[i] = q[i]))
        /\ \A i \in DOMAIN q : i \in DOMAIN r /\ r[i] = q[i]
    BY <2>2
  <2>. HIDE DEF r, n
  <2>4. /\ batch' \in Batch /\ batch'.records = r /\ batch'.opened = batch.opened /\ batch'.closed = batch.closed
    BY <1>0, <2>1, <2>2 DEF Batch
  <2>5. x.conn = c /\ x.value = value
    OBVIOUS
  <2>. HIDE DEF x
  <2>6. SessionTypes'
    BY <1>0, <2>1, <2>4 DEF SessionTypes
  <2>7. OpenedOnce' /\ Tidy(srv)' /\ (srv.closed => \A d \in Conns : srv.st[d] = "none")'
    BY <1>0, <2>1, <2>4 DEF OpenedOnce, Tidy, Joined, Unjoined
  <2>8. \A d : Asked(d)' <=> Asked(d)
    BY <2>1, <2>3, <2>4, <2>5 DEF Asked
  <2>9. Loads'
    <3>1. \A i \in DOMAIN q : q[i].conn # c
      BY <1>0, <2>1 DEF Loads
    <3>2. \A i, j \in DOMAIN r : r[i].conn = r[j].conn => i = j
      <4>1. \A i, j \in DOMAIN q : q[i].conn = q[j].conn => i = j
        BY <1>0 DEF Loads
      <4>. HIDE DEF q
      <4>. QED BY <2>3, <2>5, <3>1, <4>1
    <3>3. \A i \in DOMAIN r : r[i].conn \notin loads'
      BY <1>0, <2>1, <2>3, <2>5 DEF Loads
    <3>. QED BY <1>0, <2>1, <2>4, <2>8, <3>2, <3>3 DEF Loads
  <2>10. ASSUME NEW d \in Conns PROVE Sound(d)'
    <3>1. sock[d] = "none" => ~Asked(d)
      BY <1>0 DEF Sound, EndOf, Asked
    <3>2. Untouched(d)
      BY <2>1, <2>4, <2>8, <3>1 DEF Untouched, Asked
    <3>. QED BY <1>0, <3>2, StaysSound
  <2>11. Stints'
    <3>1. \A w : Kept(srv, w)' <=> Kept(srv, w)
      BY <2>1 DEF Kept, Joined
    <3>2. ASSUME NEW w \in Who \ excused, identity[c] = w, value # Empty, srv.st[c] # "none" PROVE value = played[w]
      <4>1. c \in srv.admitting /\ Kept(srv, w)
        BY <1>0, <2>1, <3>2 DEF Loads, Asked, Stints
      <4>. QED BY <3>2, <4>1 DEF Kept
    <3>3. ASSUME NEW w \in Who \ excused, NEW i \in DOMAIN r
          PROVE  identity[r[i].conn] = w /\ r[i].value # Empty /\ srv.st[r[i].conn] # "none" => r[i].value = played[w]
      <4>1. CASE i = n
        BY <2>3, <2>5, <3>2, <4>1
      <4>2. CASE i \in DOMAIN q /\ r[i] = q[i]
        BY <1>0, <4>2 DEF Stints
      <4>. QED BY <2>3, <4>1, <4>2
    <3>4. Stints
      BY <1>0
    <3>. QED BY <2>1, <2>4, <3>1, <3>3, <3>4 DEF Stints
  <2>. QED BY <2>6, <2>7, <2>9, <2>10, <2>11 DEF SessionsInv, Sound
<1>2. CASE c \in Conns /\ loadRead(c)
  <2>1. loadAnswered(c, store[identity[c]]) /\ c \in loads
    BY <1>2 DEF loadRead, loadAnswered
  <2>2. identity[c] \in Who
    BY <1>0, <1>2, <2>1, SessionsAssumption DEF Loads, Asked, Named
  <2>3. store[identity[c]] \in Record
    BY <1>0a, <2>2 DEF Record
  <2>. QED BY <1>2, <1>a, <2>1, <2>3
<1>3. CASE c \in Conns /\ loadFails(c)
  <2>1. loadAnswered(c, Empty) /\ Empty \in Record
    BY <1>3 DEF loadFails, Record
  <2>. QED BY <1>3, <1>a, <2>1
\* The oldest write leaves the line.
<1>b. ASSUME saves # << >>
      PROVE  /\ Tail(saves) \in Seq(Save) /\ Head(saves) \in Save /\ Has(saves, Head(saves))
             /\ \A i \in DOMAIN Tail(saves) : i + 1 \in DOMAIN saves /\ Tail(saves)[i] = saves[i + 1]
  BY <1>0a, <1>b, Tails
<1>4. CASE saveLands
  <2>. DEFINE h == Head(saves)
              v == h.who
              x == Append(batch.saved, v)
  <2>1. /\ saves # << >> /\ saves' = Tail(saves) /\ store' = [store EXCEPT ![v] = h.value]
        /\ batch' = [batch EXCEPT !.saved = x]
        /\ UNCHANGED <<srv, loads, played, refused, excused, sock, wire, cli, inbox, cut>>
    BY <1>4 DEF saveLands, clientVars
  <2>2. v \in Who /\ h.value \in Nat /\ h \in Save /\ x \in Seq(Who)
    BY <1>0, <1>b, <2>1 DEF Save, Batch
  <2>3. PICK m \in DOMAIN saves : saves[m] = h
    BY <1>b, <2>1 DEF Has
  <2>. HIDE DEF h, x
  <2>4. /\ batch' \in Batch /\ batch'.records = batch.records /\ batch'.opened = batch.opened
        /\ batch'.closed = batch.closed
    BY <1>0, <2>1, <2>2 DEF Batch
  <2>5. SessionTypes'
    <3>1. store' \in [Who -> Nat]
      BY <1>0a, <2>1, <2>2
    <3>. QED BY <1>0, <1>b, <2>1, <2>4, <3>1 DEF SessionTypes
  <2>6. OpenedOnce' /\ Tidy(srv)' /\ (srv.closed => \A d \in Conns : srv.st[d] = "none")'
    BY <1>0, <2>1, <2>4 DEF OpenedOnce, Tidy, Joined, Unjoined
  <2>7. Loads'
    BY <1>0, <2>1, <2>4 DEF Loads, Asked
  <2>8. ASSUME NEW d \in Conns PROVE Sound(d)'
    <3>1. Untouched(d)
      BY <1>0, <2>1, <2>4 DEF Untouched, Sound, EndOf
    <3>. QED BY <1>0, <3>1, StaysSound
  <2>9. ASSUME NEW w \in Who \ excused
        PROVE  /\ Kept(srv, w)' /\ (store[w] <= played[w])'
               /\ (\A i \in DOMAIN saves : saves[i].who = w => saves[i].value <= played[w])'
    <3>1. /\ Kept(srv, w) /\ store[w] <= played[w]
          /\ (\A i \in DOMAIN saves : saves[i].who = w => saves[i].value <= played[w])
      BY <1>0 DEF Stints
    <3>2. \A i \in DOMAIN saves' : i + 1 \in DOMAIN saves /\ saves'[i] = saves[i + 1]
      BY <1>b, <2>1
    <3>3. \A i \in DOMAIN saves' : saves'[i].who = w => saves'[i].value <= played[w]
      BY <3>1, <3>2
    <3>4. (\A i \in DOMAIN saves : saves[i].who # w) => \A i \in DOMAIN saves' : saves'[i].who # w
      BY <3>2
    <3>5. CASE w = v
      <4>1. store'[w] = h.value /\ h.value <= played[w] /\ srv.cache[w] # Empty
        BY <1>0a, <2>1, <2>2, <2>3, <3>1, <3>5 DEF Kept
      <4>2. Kept(srv, w)'
        BY <2>1, <3>1, <4>1 DEF Kept, Joined
      <4>. QED BY <2>1, <3>3, <4>1, <4>2
    <3>6. CASE w # v
      <4>1. store'[w] = store[w]
        BY <1>0a, <2>1, <3>6
      <4>2. Kept(srv, w)'
        BY <2>1, <3>1, <3>4, <4>1 DEF Kept, Joined
      <4>. QED BY <2>1, <3>1, <3>3, <4>1, <4>2
    <3>. QED BY <3>5, <3>6
  <2>10. Stints'
    BY <1>0, <2>1, <2>4, <2>9 DEF Stints
  <2>. QED BY <2>5, <2>6, <2>7, <2>8, <2>10 DEF SessionsInv, Sound
<1>5. CASE saveFails
  <2>1. /\ saves # << >> /\ saves' = Tail(saves)
        /\ UNCHANGED <<srv, batch, loads, store, played, refused, excused, sock, wire, cli, inbox, cut>>
    BY <1>5 DEF saveFails, clientVars
  <2>2. SessionTypes'
    BY <1>0, <1>b, <2>1 DEF SessionTypes
  <2>3. OpenedOnce' /\ Tidy(srv)' /\ (srv.closed => \A d \in Conns : srv.st[d] = "none")' /\ Loads'
    BY <1>0, <2>1 DEF OpenedOnce, Tidy, Joined, Unjoined, Loads, Asked
  <2>4. ASSUME NEW d \in Conns PROVE Sound(d)'
    <3>1. Untouched(d)
      BY <1>0, <2>1 DEF Untouched, Sound, EndOf
    <3>. QED BY <1>0, <3>1, StaysSound
  <2>5. \A i \in DOMAIN saves' : i + 1 \in DOMAIN saves /\ saves'[i] = saves[i + 1]
    BY <1>b, <2>1
  <2>6. ASSUME NEW w \in Who \ excused
        PROVE  Kept(srv, w)' /\ (\A i \in DOMAIN saves : saves[i].who = w => saves[i].value <= played[w])'
    <3>1. Kept(srv, w) /\ (\A i \in DOMAIN saves : saves[i].who = w => saves[i].value <= played[w])
      BY <1>0 DEF Stints
    <3>2. (\A i \in DOMAIN saves : saves[i].who # w) => \A i \in DOMAIN saves' : saves'[i].who # w
      BY <2>5
    <3>3. Kept(srv, w)'
      BY <2>1, <3>1, <3>2 DEF Kept, Joined
    <3>. QED BY <2>1, <2>5, <3>1, <3>3
  <2>7. Stints'
    BY <1>0, <2>1, <2>6 DEF Stints
  <2>. QED BY <2>2, <2>3, <2>4, <2>7 DEF SessionsInv, Sound
<1>. QED BY <1>1, <1>2, <1>3, <1>4, <1>5

\* The output is laid out and the registry starts the next tick with an empty one.
LEMMA Settles ==
  ASSUME NEW t \in Srv, srv' = [t EXCEPT !.out = NoOutput]
  PROVE  /\ srv' \in Srv /\ srv'.out = NoOutput /\ srv'.st = t.st /\ srv'.field = t.field
         /\ srv'.admitting = t.admitting /\ srv'.pending = t.pending /\ srv'.fresh = t.fresh
         /\ srv'.blind = t.blind /\ srv'.closed = t.closed /\ srv'.cache = t.cache
         /\ Joined(srv') = Joined(t) /\ Unjoined(srv') = Unjoined(t)
<1>1. NoOutput \in Output
  BY DEF NoOutput, Output
<1>. DEFINE u == srv'
            o == NoOutput
<1>. HIDE DEF u, o
<1>2. u = [t EXCEPT !.out = o] /\ o \in Output
  BY <1>1 DEF u, o
<1>3. /\ u \in Srv /\ u.out = o /\ u.st = t.st /\ u.field = t.field
      /\ u.admitting = t.admitting /\ u.pending = t.pending /\ u.fresh = t.fresh
      /\ u.blind = t.blind /\ u.closed = t.closed /\ u.cache = t.cache
  BY <1>2 DEF Srv
<1>4. Joined(u) = Joined(t) /\ Unjoined(u) = Unjoined(t)
  BY <1>3 DEF Joined, Unjoined
<1>. QED BY <1>3, <1>4 DEF u, o

\* What Kept says of the registry with its output, it says of it once the output is on its way.
LEMMA StaysKept ==
  ASSUME NEW t \in Srv, srv' = [t EXCEPT !.out = NoOutput], saves \in Seq(Save), saves' = saves \o t.out.saves,
         UNCHANGED <<store, played>>, NEW w \in Who, Kept(t, w), played[w] \in Nat,
         \A i \in DOMAIN saves : saves[i].who = w => saves[i].value <= played[w]
  PROVE  Kept(srv, w)' /\ \A i \in DOMAIN saves' : saves'[i].who = w => saves'[i].value <= played'[w]
<1>0. t.out.saves \in Seq(Save)
  BY DEF Srv, Output
<1>1. \A i \in DOMAIN saves' :
        \/ i \in DOMAIN saves /\ saves'[i] = saves[i]
        \/ \E j \in DOMAIN t.out.saves : saves'[i] = t.out.saves[j]
  <2>. DEFINE p == saves
              q == t.out.saves
  <2>. HIDE DEF p, q
  <2>1. p \in Seq(Save) /\ q \in Seq(Save)
    BY <1>0 DEF p, q
  <2>2. /\ Len(p) \in Nat /\ Len(q) \in Nat /\ DOMAIN p = 1 .. Len(p) /\ DOMAIN q = 1 .. Len(q)
        /\ DOMAIN (p \o q) = 1 .. Len(p) + Len(q)
        /\ \A i \in 1 .. Len(p) + Len(q) : (p \o q)[i] = IF i <= Len(p) THEN p[i] ELSE q[i - Len(p)]
    BY <2>1
  <2>3. \A i \in 1 .. Len(p) + Len(q) : IF i <= Len(p) THEN i \in 1 .. Len(p) ELSE i - Len(p) \in 1 .. Len(q)
    BY <2>2
  <2>4. \A i \in DOMAIN (p \o q) :
          \/ i \in DOMAIN p /\ (p \o q)[i] = p[i]
          \/ \E j \in DOMAIN q : (p \o q)[i] = q[j]
    BY <2>2, <2>3
  <2>. QED BY <2>4 DEF p, q
<1>2. \A j \in DOMAIN t.out.saves : t.out.saves[j].who = w => t.out.saves[j].value = played[w] /\ t.cache[w] # Empty
  BY DEF Kept
<1>3. \A i \in DOMAIN saves' : saves'[i].who = w => saves'[i].value <= played'[w]
  <2>1. played[w] <= played[w]
    OBVIOUS
  <2>. QED BY <1>1, <1>2, <2>1
<1>4. t.cache[w] = Empty => \A i \in DOMAIN saves' : saves'[i].who # w
  <2>1. t.cache[w] = Empty => \A i \in DOMAIN saves : saves[i].who # w
    BY DEF Kept
  <2>. QED BY <1>1, <1>2, <2>1
<1>5. Kept(srv, w)'
  <2>1. srv'.out.saves = << >>
    BY Settles DEF NoOutput
  <2>2. /\ srv'.field = t.field /\ srv'.admitting = t.admitting
        /\ srv'.blind = t.blind /\ srv'.cache = t.cache /\ Joined(srv') = Joined(t)
    BY Settles
  <2>. QED BY <1>4, <2>1, <2>2 DEF Kept
<1>. QED BY <1>3, <1>5

\* A tick keeps the invariant: the registry by Ticks, the links by Delivers, the saves by StaysKept.
LEMMA TickKeeps ==
  ASSUME SessionsInv, NEW drains, Tick(drains)
  PROVE  SessionsInv'
<1>. DEFINE W == Who \ excused'
<1>0. /\ SessionTypes /\ OpenedOnce /\ batch \in Batch /\ Tidy(srv) /\ Loads /\ Stints
      /\ \A d \in Conns : Sound(d)
  BY DEF SessionsInv, SessionTypes, Sound
<1>1. PICK expired \in SUBSET (Unjoined(srv) \ ToSet(batch.opened)) :
        LET after == tick(srv, batch, expired, drains)
        IN  /\ srv' = [after EXCEPT !.out = NoOutput]
            /\ CarriedOut(after.out)
            /\ batch' = NoBatch
            /\ excused' = excused \cup ReleasedLive \cup SeededLive
            /\ UNCHANGED <<store, played, sock, cli, inbox, misses, resyncs, cut>>
  BY DEF Tick
<1>. DEFINE t == tick(srv, batch, expired, drains)
<1>2. W \in SUBSET (Who \ excused) /\ W \cap ReleasedLive = {} /\ W \cap SeededLive = {}
  BY <1>1
<1>. HIDE DEF W
<1>3. Ticked(t, W) /\ (srv.closed => t.out = NoOutput)
  BY ONLY SessionsInv, expired \in SUBSET (Unjoined(srv) \ ToSet(batch.opened)), <1>2, Ticks
<1>4. /\ srv' = [t EXCEPT !.out = NoOutput] /\ CarriedOut(t.out) /\ batch' = NoBatch
      /\ excused' = excused \cup ReleasedLive \cup SeededLive
      /\ UNCHANGED <<store, played, sock, cli, inbox, cut>>
  BY <1>1
<1>. HIDE DEF t
<1>5. t \in Srv /\ t.out \in Output
  BY <1>3 DEF Ticked, Srv
<1>6. /\ t.out.sends \in Seq(Conns \X Frames) /\ t.out.closes \in Seq(Conns)
      /\ t.out.loads \in Seq(Conns) /\ t.out.saves \in Seq(Save)
  BY <1>5 DEF Output
<1>7. /\ srv' \in Srv /\ srv'.out = NoOutput /\ srv'.st = t.st /\ srv'.field = t.field
      /\ srv'.admitting = t.admitting /\ srv'.pending = t.pending /\ srv'.fresh = t.fresh
      /\ srv'.blind = t.blind /\ srv'.closed = t.closed /\ srv'.cache = t.cache
      /\ Joined(srv') = Joined(t) /\ Unjoined(srv') = Unjoined(t)
  BY <1>4, <1>5, Settles
<1>8. wire' \in [Conns -> Seq(Frames \cup {"close"})] /\ \A c \in Conns : Delivered(t.out, c)
  BY <1>0, <1>4, <1>6, Delivers DEF SessionTypes
<1>9. /\ loads' = loads \cup ToSet(t.out.loads) /\ saves' = saves \o t.out.saves
      /\ refused' = refused \cup {c \in Conns : <<c, "reject">> \in ToSet(t.out.sends)}
  BY <1>4 DEF CarriedOut
<1>10. /\ batch' \in Batch /\ batch'.records = << >>
       /\ batch'.opened = << >> /\ batch'.closed = << >>
  BY <1>4 DEF NoBatch, Batch
<1>11. (\A d : ~Has(batch'.opened, d)) /\ (\A d : ~Has(batch'.closed, d))
  BY <1>10 DEF Has
<1>12. SessionTypes'
  <2>1. loads' \subseteq Conns
    BY <1>0, <1>6, <1>9 DEF SessionTypes, ToSet
  <2>2. saves' \in Seq(Save)
    BY <1>0, <1>6, <1>9 DEF SessionTypes
  <2>. QED BY <1>0, <1>4, <1>7, <1>8, <1>9, <1>10, <2>1, <2>2 DEF SessionTypes
<1>13. Tidy(srv)'
  BY <1>3, <1>7 DEF Ticked, Tidy
<1>14. (srv.closed => \A d \in Conns : srv.st[d] = "none")'
  <2>1. srv.closed => \A d \in Conns : srv.st[d] = "none"
    BY DEF SessionsInv
  <2>2. \A d \in Conns : srv.closed => t.st[d] = "none"
    <3>. SUFFICES ASSUME srv.closed PROVE \A d \in Conns : t.st[d] = "none"
      OBVIOUS
    <3>1. t = srv
      BY DEF t, tick
    <3>. QED BY <2>1, <3>1
  <2>3. srv'.closed = srv.closed
    BY <1>3, <1>7 DEF Ticked
  <2>. QED BY <1>7, <2>2, <2>3
<1>15. OpenedOnce'
  BY <1>10, <1>11 DEF OpenedOnce
<1>16. \A c : c \in ToSet(t.out.loads) <=> Has(t.out.loads, c)
  BY DEF ToSet, Has
<1>17. Loads'
  <2>1. \A c \in Conns : Asked(c)' => c \in loads \/ Has(t.out.loads, c)
    BY <1>9, <1>10, <1>16 DEF Asked
  <2>2. \A c \in Conns : Asked(c)' => Named(c) /\ (t.st[c] = "none" \/ c \in t.admitting)
    BY <1>3, <2>1 DEF Ticked, Owed
  <2>. QED BY <1>7, <1>10, <1>11, <2>2 DEF Loads
<1>18. Stints'
  <2>. SUFFICES ASSUME NEW w \in W
                PROVE  /\ Kept(srv, w)' /\ (store[w] <= played[w])'
                       /\ (\A i \in DOMAIN saves : saves[i].who = w => saves[i].value <= played[w])'
    BY <1>10 DEF Stints, W
  <2>1. w \in Who \ excused
    BY <1>2
  <2>2. /\ store[w] <= played[w] /\ played[w] \in Nat /\ saves \in Seq(Save)
        /\ \A i \in DOMAIN saves : saves[i].who = w => saves[i].value <= played[w]
    BY <1>0, <2>1 DEF Stints, SessionTypes
  <2>3. Kept(t, w)
    BY <1>3 DEF Ticked
  <2>4. Kept(srv, w)' /\ \A i \in DOMAIN saves' : saves'[i].who = w => saves'[i].value <= played'[w]
    BY <1>4, <1>5, <1>9, <2>1, <2>2, <2>3, StaysKept
  <2>. QED BY <1>4, <2>2, <2>4
<1>19. ASSUME NEW c \in Conns PROVE Sound(c)'
  <2>0. /\ sock'[c] = sock[c] /\ cli'[c] = cli[c] /\ inbox'[c] = inbox[c] /\ cut' = cut /\ srv'.st[c] = t.st[c]
        /\ srv'.closed = srv.closed /\ ~Has(batch'.opened, c) /\ ~Has(batch'.closed, c)
    BY <1>3, <1>4, <1>7, <1>11 DEF Ticked
  <2>1. Sound(c) /\ EndOf(c) /\ ClosingOf(c) /\ LinkOf(c)
    BY <1>0 DEF Sound
  <2>2. Outside(c) => /\ t.st[c] = "none" /\ ~Has(t.out.closes, c) /\ ~Has(t.out.loads, c)
                      /\ \A i \in DOMAIN t.out.sends : t.out.sends[i][1] # c
    BY <1>3 DEF Ticked
  <2>3. c \in refused' <=> c \in refused \/ Has(t.out.sends, <<c, "reject">>)
    BY <1>9 DEF ToSet, Has
  <2>4. Outside(c) => ~Has(t.out.sends, <<c, "reject">>)
    BY <2>2 DEF Has
  <2>5. Delivered(t.out, c)
    BY <1>8
  <2>6. Past(c) => Past(c)'
    BY <2>0, <2>2 DEF Past, Outside
  <2>6a. Past(c) => ~Has(t.out.sends, <<c, "reject">>)
    <3>1. srv.closed => t.out.sends = << >>
      BY <1>3 DEF NoOutput
    <3>. QED BY <2>4, <3>1 DEF Past, Outside, Has
  <2>7. Has(batch.closed, c) => Past(c)'
    <3>1. Has(batch.closed, c) => t.st[c] = "none"
      BY <1>3 DEF Ticked, Leaving
    <3>. QED BY <2>0, <3>1 DEF Past
  <2>8. EndOf(c)'
    <3>. SUFFICES ASSUME sock[c] = "none"
                  PROVE  /\ srv'.st[c] = "none" /\ wire'[c] = << >> /\ inbox'[c] = << >> /\ c \notin cut'
                         /\ c \notin refused' /\ c \notin loads'
      BY <1>10, <2>0, <2>1 DEF EndOf
    <3>1. Outside(c) /\ wire[c] = << >> /\ inbox[c] = << >> /\ c \notin cut /\ c \notin refused /\ c \notin loads
      BY <2>1 DEF EndOf, Outside
    <3>. QED BY <1>9, <1>16, <2>0, <2>2, <2>3, <2>4, <2>5, <3>1 DEF Delivered
  <2>9. ClosingOf(c)'
    BY <2>0, <2>1, <2>6, <2>7 DEF ClosingOf
  <2>10. Has(wire[c], "close") => Has(wire'[c], "close")
    BY <2>5 DEF Delivered, Has
  <2>11. LinkOf(c)'
    <3>1. Has(wire'[c], "close") => c \in cut \/ Past(c)'
      <4>. SUFFICES ASSUME NEW i \in DOMAIN wire'[c], wire'[c][i] = "close" PROVE c \in cut \/ Past(c)'
        BY DEF Has
      <4>1. CASE i \in DOMAIN wire[c]
        <5>1. Has(wire[c], "close")
          BY <2>5, <4>1 DEF Delivered, Has
        <5>. QED BY <2>1, <2>6, <5>1 DEF LinkOf
      <4>2. CASE i \notin DOMAIN wire[c]
        <5>1. (\E k \in DOMAIN t.out.sends : t.out.sends[k] = <<c, "close">>) \/ Has(t.out.closes, c)
          BY <2>5, <4>2 DEF Delivered
        <5>2. ~\E k \in DOMAIN t.out.sends : t.out.sends[k] = <<c, "close">>
          <6>. SUFFICES ASSUME NEW k \in DOMAIN t.out.sends, t.out.sends[k] = <<c, "close">> PROVE FALSE
            OBVIOUS
          <6>1. t.out.sends[k] \in Conns \X Frames
            BY <1>6
          <6>. QED BY <6>1 DEF Frames
        <5>3. t.st[c] = "none"
          BY <1>3, <5>1, <5>2 DEF Ticked
        <5>. QED BY <2>0, <5>3 DEF Past
      <4>. QED BY <4>1, <4>2
    <3>2. c \in cut /\ sock[c] = "open" => Has(wire'[c], "close")
      BY <2>1, <2>10 DEF LinkOf
    <3>3. cli[c] \in {"loading", "live", "resyncing"} \/ Has(inbox[c], "welcome") \/ Has(wire'[c], "welcome")
             => t.st[c] = "joined" \/ Has(wire'[c], "close") \/ sock[c] # "open"
      <4>1. srv.st[c] = "joined" \/ Has(wire[c], "close") \/ sock[c] # "open"
              => t.st[c] = "joined" \/ Has(wire'[c], "close") \/ sock[c] # "open"
        <5>1. CASE c \in Leaving
          BY <2>1, <3>2, <5>1 DEF ClosingOf, Leaving
        <5>2. CASE c \notin Leaving
          BY <1>3, <2>10, <5>2 DEF Ticked, Stay
        <5>. QED BY <5>1, <5>2
      <4>2. Has(wire'[c], "welcome") => Has(wire[c], "welcome") \/ t.st[c] = "joined"
        <5>. SUFFICES ASSUME NEW i \in DOMAIN wire'[c], wire'[c][i] = "welcome"
                      PROVE  Has(wire[c], "welcome") \/ t.st[c] = "joined"
          BY DEF Has
        <5>1. CASE i \in DOMAIN wire[c]
          BY <2>5, <5>1 DEF Delivered, Has
        <5>2. CASE i \notin DOMAIN wire[c]
          <6>1. PICK k \in DOMAIN t.out.sends : t.out.sends[k] = <<c, "welcome">>
            BY <2>5, <5>2 DEF Delivered
          <6>2. t.out.sends[k][1] = c /\ t.out.sends[k][2] = "welcome"
            BY <6>1
          <6>. QED BY <1>3, <6>2 DEF Ticked
        <5>. QED BY <5>1, <5>2
      <4>. QED BY <2>1, <4>1, <4>2 DEF LinkOf
    <3>4. c \in refused' \ cut => (sock[c] = "open" => Refusal(c)') /\ cli[c] # "disconnected"
      <4>. SUFFICES ASSUME c \in refused', c \notin cut
                    PROVE  (sock[c] = "open" => Refusal(c)') /\ cli[c] # "disconnected"
        OBVIOUS
      <4>1. CASE Has(t.out.sends, <<c, "reject">>)
        <5>1. ~Past(c) /\ ~Has(wire[c], "close") /\ cli[c] # "disconnected"
          BY <2>1, <2>6a, <4>1 DEF LinkOf, ClosingOf
        <5>2. ASSUME sock[c] = "open" PROVE Refusal(c)'
          <6>1. PICK i \in DOMAIN wire'[c] : /\ i \notin DOMAIN wire[c] /\ wire'[c][i] = "reject"
                                  /\ \A j \in 1 .. i : j \in DOMAIN wire[c] \/ wire'[c][j] # "close"
            BY <2>5, <4>1, <5>2 DEF Delivered
          <6>2. \A j \in 1 .. i : wire'[c][j] # "close"
            BY <2>5, <5>1, <6>1 DEF Delivered, Has
          <6>. QED BY <6>1, <6>2 DEF Refusal
        <5>. QED BY <5>1, <5>2
      <4>2. CASE c \in refused
        <5>1. cli[c] # "disconnected"
          BY <2>1, <4>2 DEF LinkOf
        <5>2. ASSUME sock[c] = "open" PROVE Refusal(c)'
          <6>1. Refusal(c)
            BY <2>1, <4>2, <5>2 DEF LinkOf
          <6>2. CASE Has(inbox[c], "reject")
            BY <2>0, <6>2 DEF Refusal
          <6>3. CASE ~Has(inbox[c], "reject")
            <7>1. PICK i \in DOMAIN wire[c] : wire[c][i] = "reject" /\ \A j \in 1 .. i : wire[c][j] # "close"
              BY <6>1, <6>3 DEF Refusal
            <7>2. wire[c] \in Seq(Frames \cup {"close"})
              BY <1>0 DEF SessionTypes
            <7>3. 1 .. i \subseteq DOMAIN wire[c]
              BY <7>1, <7>2
            <7>4. i \in DOMAIN wire'[c] /\ wire'[c][i] = "reject" /\ \A j \in 1 .. i : wire'[c][j] # "close"
              BY <2>5, <7>1, <7>3 DEF Delivered
            <7>. QED BY <7>4 DEF Refusal
          <6>. QED BY <6>2, <6>3
        <5>. QED BY <5>1, <5>2
      <4>. QED BY <2>3, <4>1, <4>2
    <3>. QED BY <2>0, <3>1, <3>2, <3>3, <3>4 DEF LinkOf
  <2>. QED BY <2>8, <2>9, <2>11 DEF Sound
<1>. QED BY <1>12, <1>13, <1>14, <1>15, <1>17, <1>18, <1>19 DEF SessionsInv, Sound

\* Closing the world keeps the invariant: everyone is released, and what they played is saved.
LEMMA WorldCloses ==
  ASSUME SessionsInv, closeWorld
  PROVE  SessionsInv'
<1>. DEFINE t == FoldLeft(release, [srv EXCEPT !.closed = TRUE], SetToSeq({c \in Conns : srv.st[c] /= "none"}))
            X == {c \in Conns : sock[c] = "open"}
            o == [t.out EXCEPT !.closes = SetToSeq(X)]
<1>0. /\ SessionTypes /\ OpenedOnce /\ Loads /\ Stints /\ \A d \in Conns : Sound(d)
  BY DEF SessionsInv, SessionTypes, Sound
<1>1. /\ Step(t, Who \ excused, Conns) /\ t.closed = TRUE /\ t.out.sends = << >> /\ t.out.loads = << >>
      /\ \A c \in Conns : t.st[c] = "none"
  BY WorldEnds
<1>2. /\ srv' = [t EXCEPT !.out = NoOutput] /\ CarriedOut(o)
      /\ UNCHANGED <<batch, store, played, excused, sock, cli, inbox, cut>>
  BY DEF closeWorld
<1>. HIDE DEF t
<1>3. t \in Srv /\ t.out \in Output
  BY <1>1 DEF Step, Srv
<1>4. SetToSeq(X) \in Seq(Conns) /\ \A c \in X : Has(SetToSeq(X), c)
  <2>1. IsFiniteSet(X) /\ X \subseteq Conns
    BY SessionsAssumption, FS_Subset
  <2>. HIDE DEF X
  <2>2. SetToSeq(X) \in Seq(X) /\ \A c \in X : Has(SetToSeq(X), c)
    BY <2>1, Listed
  <2>. DEFINE q == SetToSeq(X)
  <2>. HIDE DEF q
  <2>3. q \in Seq(X)
    BY <2>2 DEF q
  <2>4. q \in Seq(Conns)
    BY <2>1, <2>3
  <2>. QED BY <2>2, <2>4 DEF q
<1>5. o.sends = << >> /\ o.loads = << >> /\ o.saves = t.out.saves /\ o.closes = SetToSeq(X)
  <2>. DEFINE p == t.out
              q == SetToSeq(X)
  <2>1. p \in Output /\ q \in Seq(Conns)
    BY <1>3, <1>4
  <2>. HIDE DEF p, q
  <2>2. LET r == [p EXCEPT !.closes = q]
        IN  r.sends = p.sends /\ r.loads = p.loads /\ r.saves = p.saves /\ r.closes = q
    BY <2>1 DEF Output
  <2>. QED BY <1>1, <2>2 DEF p, q
<1>. HIDE DEF o, X
<1>6. /\ srv' \in Srv /\ srv'.out = NoOutput /\ srv'.st = t.st /\ srv'.field = t.field
      /\ srv'.admitting = t.admitting /\ srv'.pending = t.pending /\ srv'.fresh = t.fresh
      /\ srv'.blind = t.blind /\ srv'.closed = t.closed /\ srv'.cache = t.cache
      /\ Joined(srv') = Joined(t) /\ Unjoined(srv') = Unjoined(t)
  BY <1>2, <1>3, Settles
<1>7. wire' \in [Conns -> Seq(Frames \cup {"close"})] /\ \A c \in Conns : Delivered(o, c)
  <2>1. o.sends \in Seq(Conns \X Frames) /\ o.closes \in Seq(Conns)
    BY <1>4, <1>5
  <2>. QED BY <1>0, <1>2, <2>1, Delivers DEF SessionTypes
<1>8. loads' = loads /\ saves' = saves \o t.out.saves /\ refused' = refused
  BY <1>2, <1>5 DEF CarriedOut, ToSet
<1>9. SessionTypes'
  <2>1. saves' \in Seq(Save)
    BY <1>0, <1>3, <1>8 DEF SessionTypes, Output
  <2>. QED BY <1>0, <1>2, <1>6, <1>7, <1>8, <2>1 DEF SessionTypes
<1>10. Tidy(srv)'
  BY <1>1, <1>6 DEF Step, Tidy
<1>11. (srv.closed => \A d \in Conns : srv.st[d] = "none")'
  BY <1>1, <1>6
<1>12. OpenedOnce' /\ Loads'
  BY <1>0, <1>1, <1>2, <1>6, <1>8 DEF OpenedOnce, Loads, Asked
<1>13. Stints'
  <2>. SUFFICES ASSUME NEW w \in Who \ excused
                PROVE  /\ Kept(srv, w)' /\ (store[w] <= played[w])'
                       /\ (\A i \in DOMAIN saves : saves[i].who = w => saves[i].value <= played[w])'
    <3>1. \A i \in DOMAIN batch'.records : srv'.st[batch'.records[i].conn] = "none"
      <4>1. batch.records \in Seq(Answer)
        BY <1>0 DEF SessionTypes, Batch
      <4>2. \A i \in DOMAIN batch.records : batch.records[i] \in Answer
        BY <4>1
      <4>3. \A i \in DOMAIN batch.records : batch.records[i].conn \in Conns
        BY <4>2 DEF Answer
      <4>. QED BY <1>1, <1>2, <1>6, <4>3
    <3>. QED BY <1>2, <3>1 DEF Stints
  <2>2. /\ store[w] <= played[w] /\ played[w] \in Nat /\ saves \in Seq(Save)
        /\ \A i \in DOMAIN saves : saves[i].who = w => saves[i].value <= played[w]
    BY <1>0 DEF Stints, SessionTypes
  <2>3. Kept(t, w)
    BY <1>1 DEF Step
  <2>4. Kept(srv, w)' /\ \A i \in DOMAIN saves' : saves'[i].who = w => saves'[i].value <= played'[w]
    BY <1>2, <1>3, <1>8, <2>2, <2>3, StaysKept
  <2>. QED BY <1>2, <2>2, <2>4
<1>14. ASSUME NEW c \in Conns PROVE Sound(c)'
  <2>0. /\ sock'[c] = sock[c] /\ cli'[c] = cli[c] /\ inbox'[c] = inbox[c] /\ cut' = cut /\ srv'.st[c] = "none"
        /\ srv'.closed = TRUE /\ batch' = batch /\ Past(c)'
    BY <1>1, <1>2, <1>6 DEF Past
  <2>1. EndOf(c) /\ ClosingOf(c) /\ LinkOf(c)
    BY <1>0 DEF Sound
  <2>5. Delivered(o, c)
    BY <1>7
  <2>8. EndOf(c)'
    BY <1>8, <2>0, <2>1, <2>5 DEF EndOf, Delivered
  <2>9. ClosingOf(c)'
    BY <2>0, <2>1 DEF ClosingOf
  <2>10. sock[c] = "open" => Has(wire'[c], "close")
    <3>1. sock[c] = "open" => Has(o.closes, c)
      BY <1>4, <1>5 DEF X
    <3>. QED BY <2>5, <3>1 DEF Delivered
  <2>11. c \in refused \ cut => (sock[c] = "open" => Refusal(c)') /\ cli[c] # "disconnected"
    <3>. SUFFICES ASSUME c \in refused, c \notin cut
                  PROVE  (sock[c] = "open" => Refusal(c)') /\ cli[c] # "disconnected"
      OBVIOUS
    <3>1. cli[c] # "disconnected"
      BY <2>1 DEF LinkOf
    <3>2. ASSUME sock[c] = "open" PROVE Refusal(c)'
      <4>1. Refusal(c)
        BY <2>1, <3>2 DEF LinkOf
      <4>2. CASE Has(inbox[c], "reject")
        BY <2>0, <4>2 DEF Refusal
      <4>3. CASE ~Has(inbox[c], "reject")
        <5>1. PICK i \in DOMAIN wire[c] : wire[c][i] = "reject" /\ \A j \in 1 .. i : wire[c][j] # "close"
          BY <4>1, <4>3 DEF Refusal
        <5>2. wire[c] \in Seq(Frames \cup {"close"})
          BY <1>0 DEF SessionTypes
        <5>3. 1 .. i \subseteq DOMAIN wire[c]
          BY <5>1, <5>2
        <5>4. i \in DOMAIN wire'[c] /\ wire'[c][i] = "reject" /\ \A j \in 1 .. i : wire'[c][j] # "close"
          BY <2>5, <5>1, <5>3 DEF Delivered
        <5>. QED BY <5>4 DEF Refusal
      <4>. QED BY <4>2, <4>3
    <3>. QED BY <3>1, <3>2
  <2>12. LinkOf(c)'
    BY <1>8, <2>0, <2>10, <2>11 DEF LinkOf
  <2>. QED BY <2>8, <2>9, <2>12 DEF Sound
<1>. QED BY <1>9, <1>10, <1>11, <1>12, <1>13, <1>14 DEF SessionsInv, Sound

\* The inductive invariant, for any connections, identities, seats, timers and faults of links and store.
THEOREM SessionsInvariant == Spec => []SessionsInv
<1>1. Init => SessionsInv
  <2>. SUFFICES ASSUME Init PROVE SessionsInv
    OBVIOUS
  <2>. DEFINE s == [st |-> [c \in Conns |-> "none"], admitting |-> {}, pending |-> {}, closed |-> FALSE,
              field |-> [c \in Conns |-> 0], fresh |-> {}, cache |-> [w \in Who |-> Empty],
              blind |-> {}, out |-> NoOutput]
  <2>1. /\ srv = s /\ batch = NoBatch /\ loads = {} /\ saves = << >> /\ store = [w \in Who |-> 0]
        /\ sock = [c \in Conns |-> "none"] /\ wire = [c \in Conns |-> << >>] /\ cli = [c \in Conns |-> "off"]
        /\ inbox = [c \in Conns |-> << >>] /\ played = [w \in Who |-> 0] /\ refused = {} /\ cut = {}
    BY DEF Init
  <2>2. /\ NoOutput \in Output /\ batch \in Batch /\ batch.records = << >> /\ batch.opened = << >>
        /\ batch.closed = << >>
    BY <2>1 DEF NoOutput, Output, NoBatch, Batch
  <2>3. /\ srv \in Srv /\ srv.out = NoOutput /\ srv.st = [c \in Conns |-> "none"] /\ srv.admitting = {}
        /\ srv.pending = {} /\ srv.fresh = {} /\ srv.blind = {} /\ srv.closed = FALSE
        /\ srv.cache = [w \in Who |-> Empty]
    BY <2>1, <2>2 DEF Srv, Record
  <2>4. SessionTypes
    BY <2>1, <2>2, <2>3 DEF SessionTypes
  <2>5. Joined(srv) = {} /\ Unjoined(srv) = {}
    BY <2>3 DEF Joined, Unjoined
  <2>6. Tidy(srv)
    <3>1. Cardinality({}) = 0 /\ MaxPlayers \in Nat
      BY FS_EmptySet, SessionsAssumption
    <3>. QED BY <2>3, <2>5, <3>1 DEF Tidy
  <2>7. OpenedOnce /\ Loads
    BY <2>1, <2>2 DEF OpenedOnce, Loads, Asked, Has
  <2>8. Stints
    <3>. SUFFICES ASSUME NEW w \in Who
                  PROVE  /\ Kept(srv, w) /\ store[w] <= played[w]
                         /\ \A i \in DOMAIN saves : saves[i].who = w => saves[i].value <= played[w]
      BY <2>2 DEF Stints
    <3>1. store[w] = 0 /\ played[w] = 0 /\ srv.cache[w] = Empty /\ srv.out.saves = << >>
      BY <2>1, <2>3 DEF NoOutput
    <3>2. Kept(srv, w)
      <4>1. DOMAIN saves = {} /\ DOMAIN srv.out.saves = {} /\ srv.blind \cup srv.admitting = {}
        BY <2>1, <2>3, <3>1
      <4>. QED BY <2>5, <3>1, <4>1 DEF Kept
    <3>3. store[w] <= played[w]
      BY <3>1
    <3>. QED BY <2>1, <3>2, <3>3
  <2>9. ASSUME NEW c \in Conns PROVE Sound(c)
    <3>1. sock[c] = "none" /\ cli[c] = "off" /\ wire[c] = << >> /\ inbox[c] = << >> /\ srv.st[c] = "none"
      BY <2>1, <2>3
    <3>2. ~Has(batch.opened, c) /\ ~Has(batch.closed, c)
      BY <2>2 DEF Has
    <3>3. EndOf(c)
      BY <2>1, <2>2, <3>1, <3>2 DEF EndOf, Active
    <3>4. ClosingOf(c)
      BY <2>1, <3>1, <3>2 DEF ClosingOf
    <3>5. LinkOf(c)
      BY <2>1, <3>1 DEF LinkOf, Has
    <3>. QED BY <3>3, <3>4, <3>5 DEF Sound
  <2>. QED BY <2>3, <2>4, <2>6, <2>7, <2>8, <2>9 DEF SessionsInv, Sound
<1>2. ASSUME SessionsInv, [Next]_vars PROVE SessionsInv'
  <2>1. CASE \E drains \in BOOLEAN : Tick(drains)
    BY <1>2, <2>1, TickKeeps
  <2>2. CASE closeWorld
    BY <1>2, <2>2, WorldCloses
  <2>3. CASE saveLands \/ saveFails
    BY <1>2, <2>3, StoreSteps
  <2>4. ASSUME NEW c \in Conns, play(c) \/ loadRead(c) \/ loadFails(c) PROVE SessionsInv'
    BY <1>2, <2>4, StoreSteps
  <2>5. ASSUME NEW c \in Conns,
               \/ linkFails(c) \/ connectWebSocket(c) \/ start(c) \/ resync(c) \/ destroy(c) \/ ClientStep(c)
        PROVE  SessionsInv'
    BY <1>2, <2>5, ClientSteps
  <2>6. CASE UNCHANGED vars
    <3>0. /\ UNCHANGED <<srv, batch, loads, saves, store, played, refused, excused, sock, wire, cli, inbox, cut>>
      BY <2>6 DEF vars, serverVars, clientVars
    <3>1. SessionTypes' /\ OpenedOnce' /\ Tidy(srv)' /\ Loads' /\ (srv.closed => \A d \in Conns : srv.st[d] = "none")'
      BY <1>2, <3>0 DEF SessionsInv, SessionTypes, OpenedOnce, Tidy, Joined, Unjoined, Loads, Asked
    <3>2. Stints'
      BY <1>2, <3>0 DEF SessionsInv, Stints, Kept, Joined
    <3>3. ASSUME NEW d \in Conns PROVE Sound(d)'
      <4>1. Sound(d)
        BY <1>2 DEF SessionsInv, Sound
      <4>2. Untouched(d)
        BY <3>0, <4>1 DEF Untouched, Sound, EndOf
      <4>. QED BY <4>1, <4>2, StaysSound
    <3>. QED BY <3>1, <3>2, <3>3 DEF SessionsInv, Sound
  <2>. QED BY <1>2, <2>1, <2>2, <2>3, <2>4, <2>5, <2>6 DEF Next
<1>. QED BY <1>1, <1>2, PTL DEF Spec

\* Every variable of the sessions keeps its type.
THEOREM SessionTypeOK == Spec => []TypeOK
<1>1. SessionsInv => TypeOK
  BY DEF SessionsInv, SessionTypes, Srv, Tidy, TypeOK, Active, Ending
<1>. QED BY <1>1, SessionsInvariant, PTL

\* Whatever the order of joins, loads and lost links, no two players have one id, and never more
\* play than there are seats.
THEOREM PlayersAreOne == Spec => [](OnePlayerPerId /\ Cardinality(Joined(srv)) <= MaxPlayers)
<1>1. SessionsInv => OnePlayerPerId /\ Cardinality(Joined(srv)) <= MaxPlayers
  BY DEF SessionsInv, Tidy, OnePlayerPerId
<1>. QED BY <1>1, SessionsInvariant, PTL

\* What a player has played is in the store, on its way there or in the registry, unless its
\* record was released, or another filed, under them while they played (SessionRecords.release, #seed).
THEOREM StintsAreKept == Spec => []NoStintLost
<1>1. SessionsInv => NoStintLost
  <2>. SUFFICES ASSUME SessionsInv, NEW w \in Who \ excused
                PROVE  \/ played[w] \in {store[w], srv.cache[w]}
                       \/ \E c \in Joined(srv) : identity[c] = w /\ srv.field[c] = played[w]
    BY DEF NoStintLost
  <2>1. Kept(srv, w)
    BY DEF SessionsInv, Stints
  <2>. QED BY <2>1 DEF Kept
<1>. QED BY <1>1, SessionsInvariant, PTL

\* A client that believes it plays is a player of the simulation, or the close that tells it
\* otherwise is on its way.
THEOREM LiveSessionsAreHeld == Spec => []LiveIsHeld
<1>1. SessionsInv => LiveIsHeld
  BY DEF SessionsInv, EndOf, LinkOf, Active, LiveIsHeld, Has, ToSet
<1>. QED BY <1>1, SessionsInvariant, PTL

\* A client the simulation refused hears so before its link closes: it never ends as merely disconnected,
\* unless the link itself was cut.
THEOREM RefusalsAreTold == Spec => []RefusedIsTold
<1>1. SessionsInv => RefusedIsTold
  <2>1. SessionsInv => \A c \in Conns : c \in refused \ cut => cli[c] # "disconnected"
    BY DEF SessionsInv, LinkOf
  <2>2. SessionsInv => refused \subseteq Conns
    BY DEF SessionsInv, SessionTypes
  <2>. QED BY <2>1, <2>2 DEF RefusedIsTold
<1>. QED BY <1>1, SessionsInvariant, PTL

\* A client that has ended, or whose link was cut, is out of the registry or will be by the next tick.
THEOREM EndedSessionsLeave == Spec => []EndedIsReleased
<1>1. SessionsInv => EndedIsReleased
  <2>. SUFFICES ASSUME SessionsInv, NEW c \in Conns, over(cli[c])
                PROVE  \/ srv.closed \/ c \in ToSet(batch.closed)
                       \/ srv.st[c] = "none" /\ c \notin ToSet(batch.opened)
    BY DEF EndedIsReleased
  <2>1. sock[c] \in {"closing", "closed"}
    BY DEF SessionsInv, SessionTypes, EndOf, over, isTerminal, Active
  <2>2. Past(c) \/ Has(batch.closed, c)
    BY <2>1 DEF SessionsInv, ClosingOf
  <2>. QED BY <2>2 DEF Past, Has, ToSet
<1>. QED BY <1>1, SessionsInvariant, PTL

-----------------------------------------------------------------------------
(***************************************************************************)
(* The renderer's assets, for any assets, sprites, calls and limit of the  *)
(* guard's queue, and any number of context losses, so that any number of  *)
(* restores may overlap.                                                   *)
(***************************************************************************)

Intents == {NoIntent} \cup [op: {"unload"}] \cup [op: {"load"}, entry: Entries]

Guard == [state: {"ok", "lost", "restoring"}, pending: Seq(Calls), destroyed: BOOLEAN,
          present: BOOLEAN, terminal: BOOLEAN]
Skin == [name: Names, art: Versions \cup {0, Destroyed}]
CallState == [at: {"none", "loading", "queued", "done"}, entry: Entries \cup {NoIntent}]
RestoreState == [at: {"none", "uploading", "draining"}, todo: SUBSET Entries]

TexturesTypeOK ==
  /\ guard \in Guard
  /\ intents \in [Names -> Intents]
  /\ resident \in [Names -> Versions \cup {0}]
  /\ sprite \in [Sprites -> Skin]
  /\ call \in [Calls -> CallState]
  /\ \A c \in Calls : call[c].at = "loading" => call[c].entry \in Entries
  /\ restore \in [1..MaxLosses -> RestoreState]
  /\ losses \in 0..MaxLosses

\* Between the first name a restore drops and the scene it rebuilds, sprites may hold what is no longer
\* resident; at no other time, whatever other restores are draining.
CurrentUnlessUploading ==
  guard.destroyed \/ (\E k \in 1..MaxLosses : restore[k].at = "uploading") \/
    \A s \in Sprites : sprite[s].name \in Images => sprite[s].art = resident[sprite[s].name]

\* The queue holds every call that waits, and is empty when nobody is to drain it: when the guard is ok,
\* and once the renderer is gone.  The guard says it restores only while a restore runs.
QueueSound ==
  /\ \A c \in Calls : call[c].at = "queued" => \E i \in DOMAIN guard.pending : guard.pending[i] = c
  /\ guard.state = "ok" \/ guard.destroyed => guard.pending = <<>>
  /\ guard.state = "restoring" => guard.destroyed \/ Running # {}
  /\ guard.state = "lost" => losses > 0

\* The inductive invariant.
TexturesInv == TexturesTypeOK /\ CurrentUnlessUploading /\ QueueSound

-----------------------------------------------------------------------------

\* No order of losses, restores, fetches and calls breaks it.
THEOREM TexturesInvariant == TexturesSpec => []TexturesInv
<1>. USE TextureAssumption
<1>1. TexturesInit => TexturesInv
  <2>. SUFFICES ASSUME TexturesInit PROVE TexturesInv
    OBVIOUS
  <2>1. TexturesTypeOK
    <3>1. NoRestore \in RestoreState
      BY DEF NoRestore, RestoreState
    <3>2. <<>> \in Seq(Calls) /\ 0 \in 0..MaxLosses
      OBVIOUS
    <3>3. sprite \in [Sprites -> Skin]
      BY DEF TexturesInit, Skin
    <3>. QED BY <3>1, <3>2, <3>3 DEF TexturesInit, TexturesTypeOK, Intents, Guard, CallState
  <2>. QED BY <2>1 DEF TexturesInit, TexturesInv, CurrentUnlessUploading, QueueSound, TexturesTypeOK
<1>2. TexturesInv /\ [TexturesNext]_textureVars => TexturesInv'
  <2>. SUFFICES ASSUME TexturesInv, [TexturesNext]_textureVars PROVE TexturesInv'
    OBVIOUS
  <2>a. TexturesTypeOK /\ CurrentUnlessUploading /\ QueueSound
    BY DEF TexturesInv
  <2>b. Images \subseteq Names /\ \A n \in Texts : n \notin Images
    BY DEF Names
  \* What repointing and releasing do.
  <2>c. ASSUME NEW n \in Names, NEW a \in Versions \cup {0}
        PROVE  /\ repointed(n, a) \in [Sprites -> Skin]
               /\ \A s \in Sprites : /\ repointed(n, a)[s].name = sprite[s].name
                                     /\ sprite[s].name = n => repointed(n, a)[s].art = a
                                     /\ sprite[s].name # n => repointed(n, a)[s] = sprite[s]
    BY <2>a DEF repointed, TexturesTypeOK, Skin
  <2>d. ASSUME NEW n \in Names
        PROVE  /\ released(n) \in [Sprites -> Skin]
               /\ \A s \in Sprites : /\ released(n)[s].name = sprite[s].name
                                     /\ sprite[s].name \in Images => released(n)[s] = sprite[s]
    BY <2>a, <2>b DEF released, TexturesTypeOK, Skin
  <2>e. settled \in [Calls -> CallState]
        /\ \A c \in Calls : settled[c].at # "queued" /\ settled[c].entry = call[c].entry
                            /\ (settled[c].at = "loading" => call[c].at = "loading")
    BY <2>a DEF settled, TexturesTypeOK, CallState
  \* A step that leaves the guard, the restores and the calls that wait alone.
  <2>f. ASSUME UNCHANGED <<guard, restore, losses>>, \A c \in Calls : call'[c].at = "queued" => call[c].at = "queued"
        PROVE  QueueSound'
    BY <2>a, <2>f DEF QueueSound, Running
  <2>1. CASE UNCHANGED textureVars
    BY <2>1, <2>a DEF textureVars, TexturesInv, TexturesTypeOK, CurrentUnlessUploading, QueueSound, Running
  <2>2. ASSUME NEW c \in Calls, NEW e \in Entries, LoadLater(c, e) PROVE TexturesInv'
    <3>. DEFINE at == IF Full THEN "done" ELSE "queued"
    <3>1. /\ guard.state # "ok" /\ ~guard.destroyed /\ UNCHANGED <<resident, sprite, restore, losses>>
          /\ call' = [call EXCEPT ![c] = [at |-> at, entry |-> e]]
          /\ intents' = [intents EXCEPT ![e.name] = [op |-> "load", entry |-> e]]
      BY <2>2 DEF LoadLater, Begins, Gone
    <3>2. \/ guard' = guard /\ at = "done"
          \/ guard' = [guard EXCEPT !.pending = Append(guard.pending, c)]
      BY <2>2 DEF LoadLater
    <3>3. intents' \in [Names -> Intents]
      BY <2>a, <3>1 DEF TexturesTypeOK, Intents
    <3>4. /\ guard' \in Guard
          /\ guard'.state = guard.state /\ guard'.destroyed = guard.destroyed
          /\ \/ guard'.pending = guard.pending /\ at = "done"
             \/ guard'.pending = Append(guard.pending, c)
      <4>1. guard \in Guard /\ guard.pending \in Seq(Calls)
        BY <2>a DEF TexturesTypeOK, Guard
      <4>2. Append(guard.pending, c) \in Seq(Calls)
        BY <4>1
      <4>. HIDE DEF at
      <4>. QED BY <3>2, <4>1, <4>2 DEF Guard
    <3>5. /\ call' \in [Calls -> CallState]
          /\ call'[c].at = at /\ at # "loading" /\ \A d \in Calls : d # c => call'[d] = call[d]
      BY <2>a, <3>1 DEF TexturesTypeOK, CallState
    <3>. HIDE DEF at
    <3>6. TexturesTypeOK'
      BY <2>a, <3>1, <3>3, <3>4, <3>5 DEF TexturesTypeOK
    <3>7. CurrentUnlessUploading'
      BY <2>a, <3>1, <3>4 DEF CurrentUnlessUploading
    <3>8. ASSUME NEW d \in Calls, call'[d].at = "queued" PROVE \E i \in DOMAIN guard'.pending : guard'.pending[i] = d
      <4>0. guard.pending \in Seq(Calls)
        BY <2>a DEF TexturesTypeOK, Guard
      <4>1. CASE d = c
        <5>1. guard'.pending = Append(guard.pending, c)
          BY <3>4, <3>5, <3>8, <4>1
        <5>. QED BY <4>0, <4>1, <5>1
      <4>2. CASE d # c
        <5>1. PICK i \in DOMAIN guard.pending : guard.pending[i] = d
          BY <2>a, <3>5, <3>8, <4>2 DEF QueueSound
        <5>. QED BY <3>4, <4>0, <5>1
      <4>. QED BY <4>1, <4>2
    <3>9. QueueSound'
      BY <2>a, <3>1, <3>4, <3>8 DEF QueueSound, Running
    <3>. QED BY <3>6, <3>7, <3>9 DEF TexturesInv
  <2>3. ASSUME NEW c \in Calls, NEW e \in Entries, LoadImage(c, e) PROVE TexturesInv'
    <3>1. /\ UNCHANGED <<guard, intents, resident, sprite, restore, losses>>
          /\ call' = [call EXCEPT ![c] = [at |-> "loading", entry |-> e]]
      BY <2>3 DEF LoadImage, Begins
    <3>2. /\ call' \in [Calls -> CallState]
          /\ call'[c].at = "loading" /\ call'[c].entry = e /\ \A d \in Calls : d # c => call'[d] = call[d]
      BY <2>a, <3>1 DEF TexturesTypeOK, CallState
    <3>3. TexturesTypeOK'
      BY <2>a, <3>1, <3>2 DEF TexturesTypeOK
    <3>. QED BY <2>a, <2>f, <3>1, <3>2, <3>3 DEF TexturesInv, CurrentUnlessUploading
  <2>4. ASSUME NEW c \in Calls, NEW e \in Entries, LoadText(c, e) PROVE TexturesInv'
    <3>1. /\ UNCHANGED <<guard, intents, restore, losses>> /\ e.name \in Texts
          /\ call' = [call EXCEPT ![c] = [at |-> "done", entry |-> e]]
          /\ resident' = [resident EXCEPT ![e.name] = e.art] /\ sprite' = released(e.name)
      BY <2>4 DEF LoadText, Begins
    <3>2. /\ call' \in [Calls -> CallState]
          /\ call'[c].at = "done" /\ \A d \in Calls : d # c => call'[d] = call[d]
      BY <2>a, <3>1 DEF TexturesTypeOK, CallState
    <3>3. /\ resident' \in [Names -> Versions \cup {0}] /\ e.name \in Names
          /\ \A n \in Images : resident'[n] = resident[n]
      BY <2>a, <2>b, <3>1 DEF TexturesTypeOK, Entries
    <3>4. /\ sprite' \in [Sprites -> Skin]
          /\ \A s \in Sprites : /\ sprite'[s].name = sprite[s].name
                                /\ sprite[s].name \in Images => sprite'[s] = sprite[s]
      BY <2>d, <3>1, <3>3
    <3>5. TexturesTypeOK'
      BY <2>a, <3>1, <3>2, <3>3, <3>4 DEF TexturesTypeOK
    <3>6. CurrentUnlessUploading'
      BY <2>a, <3>1, <3>3, <3>4 DEF CurrentUnlessUploading
    <3>. QED BY <2>f, <3>1, <3>2, <3>5, <3>6 DEF TexturesInv
  <2>5. ASSUME NEW c \in Calls, Fetched(c) PROVE TexturesInv'
    <3>. DEFINE e == call[c].entry
    <3>1. /\ UNCHANGED <<guard, intents, restore, losses>> /\ call[c].at = "loading"
          /\ call' = [call EXCEPT ![c].at = "done"]
          /\ \/ /\ resident' = [resident EXCEPT ![e.name] = e.art]
                /\ sprite' = IF guard.destroyed THEN sprite ELSE repointed(e.name, e.art)
             \/ UNCHANGED <<resident, sprite>>
      BY <2>5 DEF Fetched
    <3>2. /\ call' \in [Calls -> CallState]
          /\ call'[c].at = "done" /\ \A d \in Calls : d # c => call'[d] = call[d]
      <4>1. call \in [Calls -> CallState] /\ call[c] \in CallState
        BY <2>a DEF TexturesTypeOK
      <4>2. call' = [call EXCEPT ![c] = [call[c] EXCEPT !.at = "done"]]
        BY <3>1
      <4>3. [call[c] EXCEPT !.at = "done"] \in CallState /\ [call[c] EXCEPT !.at = "done"].at = "done"
        BY <4>1 DEF CallState
      <4>. QED BY <4>1, <4>2, <4>3
    <3>3. e \in Entries /\ e.name \in Names /\ e.art \in Versions
      BY <2>a, <3>1 DEF TexturesTypeOK, Entries
    <3>. HIDE DEF e
    <3>4. CASE UNCHANGED <<resident, sprite>>
      <4>1. TexturesTypeOK'
        BY <2>a, <3>1, <3>2, <3>4 DEF TexturesTypeOK
      <4>. QED BY <2>a, <2>f, <3>1, <3>2, <3>4, <4>1 DEF TexturesInv, CurrentUnlessUploading
    <3>5. CASE /\ resident' = [resident EXCEPT ![e.name] = e.art]
               /\ sprite' = IF guard.destroyed THEN sprite ELSE repointed(e.name, e.art)
      <4>1. /\ resident' \in [Names -> Versions \cup {0}] /\ resident'[e.name] = e.art
            /\ \A n \in Names : n # e.name => resident'[n] = resident[n]
        BY <2>a, <3>3, <3>5 DEF TexturesTypeOK
      <4>2. sprite' \in [Sprites -> Skin]
        BY <2>a, <2>c, <3>3, <3>5 DEF TexturesTypeOK
      <4>3. TexturesTypeOK'
        BY <2>a, <3>1, <3>2, <4>1, <4>2 DEF TexturesTypeOK
      <4>4. CurrentUnlessUploading'
        <5>1. CASE guard.destroyed
          BY <3>1, <5>1 DEF CurrentUnlessUploading
        <5>2. CASE ~guard.destroyed
          <6>1. \A s \in Sprites : /\ sprite'[s].name = sprite[s].name
                                   /\ sprite[s].name = e.name => sprite'[s].art = e.art
                                   /\ sprite[s].name # e.name => sprite'[s] = sprite[s]
            <7>1. sprite' = repointed(e.name, e.art) /\ e.art \in Versions \cup {0}
              BY <3>3, <3>5, <5>2
            <7>2. \A s \in Sprites : /\ repointed(e.name, e.art)[s].name = sprite[s].name
                                     /\ sprite[s].name = e.name => repointed(e.name, e.art)[s].art = e.art
                                     /\ sprite[s].name # e.name => repointed(e.name, e.art)[s] = sprite[s]
              BY <2>c, <3>3, <7>1
            <7>. QED BY <7>1, <7>2
          <6>. QED BY <2>a, <2>b, <3>1, <4>1, <5>2, <6>1 DEF CurrentUnlessUploading
        <5>. QED BY <5>1, <5>2
      <4>. QED BY <2>f, <3>1, <3>2, <4>3, <4>4 DEF TexturesInv
    <3>. QED BY <3>1, <3>4, <3>5
  <2>6. ASSUME NEW n \in Names, Unload(n) PROVE TexturesInv'
    <3>1. UNCHANGED <<guard, call, restore, losses>>
      BY <2>6 DEF Unload
    <3>2. CASE Gone
      <4>1. /\ intents' = [intents EXCEPT ![n] = [op |-> "unload"]] /\ UNCHANGED <<resident, sprite>>
        BY <2>6, <3>2 DEF Unload
      <4>2. intents' \in [Names -> Intents]
        BY <2>a, <4>1 DEF TexturesTypeOK, Intents
      <4>3. TexturesTypeOK'
        BY <2>a, <3>1, <4>1, <4>2 DEF TexturesTypeOK
      <4>. QED BY <2>a, <2>f, <3>1, <4>1, <4>3 DEF TexturesInv, CurrentUnlessUploading
    <3>3. CASE ~Gone
      <4>1. /\ resident' = [resident EXCEPT ![n] = 0] /\ sprite' = repointed(n, 0) /\ UNCHANGED intents
        BY <2>6, <3>3 DEF Unload
      <4>2. /\ resident' \in [Names -> Versions \cup {0}] /\ resident'[n] = 0
            /\ \A m \in Names : m # n => resident'[m] = resident[m]
        BY <2>a, <4>1 DEF TexturesTypeOK
      <4>3. /\ sprite' \in [Sprites -> Skin]
            /\ \A s \in Sprites : /\ sprite'[s].name = sprite[s].name
                                  /\ sprite[s].name = n => sprite'[s].art = 0
                                  /\ sprite[s].name # n => sprite'[s] = sprite[s]
        BY <2>c, <4>1
      <4>4. TexturesTypeOK'
        BY <2>a, <3>1, <4>1, <4>2, <4>3 DEF TexturesTypeOK
      <4>5. CurrentUnlessUploading'
        BY <2>a, <2>b, <3>1, <4>2, <4>3 DEF CurrentUnlessUploading
      <4>. QED BY <2>f, <3>1, <4>4, <4>5 DEF TexturesInv
    <3>. QED BY <3>2, <3>3
  <2>7. ASSUME NEW n \in Names, NEW s \in Sprites, SetTexture(s, n) PROVE TexturesInv'
    <3>1. /\ UNCHANGED <<guard, intents, resident, call, restore, losses>>
          /\ sprite' = [sprite EXCEPT ![s] = [name |-> n, art |-> resident[n]]]
      BY <2>7 DEF SetTexture
    <3>2. TexturesTypeOK'
      BY <2>a, <3>1 DEF TexturesTypeOK, Skin
    <3>3. CurrentUnlessUploading'
      BY <2>a, <3>1 DEF CurrentUnlessUploading, TexturesTypeOK
    <3>. QED BY <2>f, <3>1, <3>2, <3>3 DEF TexturesInv
  <2>8. CASE Destroy
    <3>1. /\ guard' = [guard EXCEPT !.destroyed = TRUE, !.pending = <<>>] /\ call' = settled
          /\ intents' = [n \in Names |-> NoIntent] /\ resident' = [n \in Names |-> 0]
          /\ sprite' = [s \in Sprites |-> [sprite[s] EXCEPT !.art = 0]] /\ UNCHANGED <<restore, losses>>
      BY <2>8 DEF Destroy
    <3>2. /\ guard' \in Guard
          /\ guard'.state = guard.state /\ guard'.destroyed = TRUE /\ guard'.pending = <<>>
      <4>1. guard \in Guard /\ <<>> \in Seq(Calls)
        BY <2>a DEF TexturesTypeOK
      <4>. QED BY <3>1, <4>1 DEF Guard
    <3>0. sprite' \in [Sprites -> Skin] /\ intents' \in [Names -> Intents]
      BY <2>a, <3>1 DEF TexturesTypeOK, Skin, Intents
    <3>3. TexturesTypeOK'
      BY <2>a, <2>e, <3>0, <3>1, <3>2 DEF TexturesTypeOK
    <3>. QED BY <2>a, <2>e, <3>1, <3>2, <3>3 DEF TexturesInv, CurrentUnlessUploading, QueueSound
  <2>9. CASE Lose
    <3>1. /\ guard' = [guard EXCEPT !.present = FALSE, !.state = "lost"] /\ losses' = losses + 1
          /\ losses < MaxLosses /\ UNCHANGED <<intents, resident, sprite, call, restore>>
      BY <2>9 DEF Lose
    <3>2. /\ guard' \in Guard
          /\ guard'.state = "lost" /\ guard'.destroyed = guard.destroyed /\ guard'.pending = guard.pending
      BY <2>a, <3>1 DEF TexturesTypeOK, Guard
    <3>3. losses' \in 0..MaxLosses /\ losses' > 0
      BY <2>a, <3>1 DEF TexturesTypeOK
    <3>4. TexturesTypeOK'
      BY <2>a, <3>1, <3>2, <3>3 DEF TexturesTypeOK
    <3>. QED BY <2>a, <3>1, <3>2, <3>3, <3>4 DEF TexturesInv, CurrentUnlessUploading, QueueSound
  <2>10. CASE DeviceLost
    <3>1. /\ guard' = [guard EXCEPT !.present = FALSE, !.state = "lost", !.terminal = TRUE, !.pending = <<>>]
          /\ losses' = losses + 1 /\ losses < MaxLosses /\ call' = settled
          /\ UNCHANGED <<intents, resident, sprite, restore>>
      BY <2>10 DEF DeviceLost
    <3>2. /\ guard' \in Guard
          /\ guard'.state = "lost" /\ guard'.destroyed = guard.destroyed /\ guard'.pending = <<>>
      <4>1. guard \in Guard /\ <<>> \in Seq(Calls)
        BY <2>a DEF TexturesTypeOK
      <4>. QED BY <3>1, <4>1 DEF Guard
    <3>3. losses' \in 0..MaxLosses /\ losses' > 0
      BY <2>a, <3>1 DEF TexturesTypeOK
    <3>4. TexturesTypeOK'
      BY <2>a, <2>e, <3>1, <3>2, <3>3 DEF TexturesTypeOK
    <3>. QED BY <2>a, <2>e, <3>1, <3>2, <3>3, <3>4 DEF TexturesInv, CurrentUnlessUploading, QueueSound
  <2>11. CASE Restored
    <3>0. UNCHANGED <<sprite, call, losses>>
      BY <2>11 DEF Restored
    <3>1. CASE guard.destroyed \/ guard.state # "lost"
      <4>1. guard' = [guard EXCEPT !.present = TRUE] /\ UNCHANGED <<intents, resident, restore>>
        BY <2>11, <3>1 DEF Restored
      <4>2. /\ guard' \in Guard
            /\ guard'.state = guard.state /\ guard'.destroyed = guard.destroyed
            /\ guard'.pending = guard.pending
        BY <2>a, <4>1 DEF TexturesTypeOK, Guard
      <4>3. TexturesTypeOK'
        BY <2>a, <3>0, <4>1, <4>2 DEF TexturesTypeOK
      <4>. QED BY <2>a, <3>0, <4>1, <4>2, <4>3 DEF TexturesInv, CurrentUnlessUploading, QueueSound, Running
    <3>2. CASE ~(guard.destroyed \/ guard.state # "lost")
      <4>. DEFINE lets == merge.toUnload
                  up == [at |-> "uploading", todo |-> merge.toLoad]
      <4>1. /\ guard' = [guard EXCEPT !.present = TRUE, !.state = "restoring"]
            /\ intents' = [n \in Names |-> NoIntent]
            /\ resident' = [n \in Names |-> IF n \in lets THEN 0 ELSE resident[n]]
            /\ restore' = [restore EXCEPT ![losses] = up]
        BY <2>11, <3>2 DEF Restored
      <4>2. merge.toLoad \in SUBSET Entries
        <5>. DEFINE kept == {n \in Names : resident[n] # 0 /\ intents[n] = NoIntent}
                    asked == {n \in Names : intents[n].op = "load"}
        <5>1. merge.toLoad = {[name |-> n, art |-> resident[n]] : n \in kept} \cup {intents[n].entry : n \in asked}
          BY DEF merge
        <5>2. \A n \in kept : [name |-> n, art |-> resident[n]] \in Entries
          BY <2>a DEF TexturesTypeOK, Entries
        <5>3. \A n \in asked : intents[n].entry \in Entries
          BY <2>a DEF TexturesTypeOK, Intents, NoIntent
        <5>. QED BY <5>1, <5>2, <5>3
      <4>3. up \in RestoreState /\ up.at = "uploading"
        BY <4>2 DEF RestoreState
      <4>. HIDE DEF lets, up
      <4>4. losses \in 1..MaxLosses
        BY <2>a, <3>2 DEF TexturesTypeOK, QueueSound
      <4>5. /\ guard' \in Guard
            /\ guard'.state = "restoring" /\ guard'.destroyed = guard.destroyed
            /\ guard'.pending = guard.pending
        BY <2>a, <4>1 DEF TexturesTypeOK, Guard
      <4>6. /\ restore' \in [1..MaxLosses -> RestoreState]
            /\ restore'[losses].at = "uploading"
        BY <2>a, <4>1, <4>3, <4>4 DEF TexturesTypeOK, RestoreState
      <4>7. TexturesTypeOK'
        BY <2>a, <3>0, <4>1, <4>5, <4>6 DEF TexturesTypeOK, Intents
      <4>8. CurrentUnlessUploading'
        BY <4>4, <4>6 DEF CurrentUnlessUploading
      <4>9. losses \in Running'
        BY <4>4, <4>6 DEF Running
      <4>10. QueueSound'
        BY <2>a, <3>0, <3>2, <4>5, <4>9 DEF QueueSound
      <4>. QED BY <4>7, <4>8, <4>10 DEF TexturesInv
    <3>. QED BY <3>1, <3>2
  <2>12. ASSUME NEW k \in 1..MaxLosses, Reupload(k) PROVE TexturesInv'
    <3>1. PICK e \in restore[k].todo :
            /\ restore' = [restore EXCEPT ![k].todo = @ \ {e}]
            /\ IF e.name \in Images
               THEN /\ resident' \in {resident, [resident EXCEPT ![e.name] = e.art]}
                    /\ UNCHANGED <<intents, sprite>>
               ELSE /\ sprite' = released(e.name)
                    /\ resident' = [resident EXCEPT ![e.name] =
                                       IF Gone \/ guard.destroyed THEN 0 ELSE e.art]
                    /\ intents' = IF Gone /\ ~guard.destroyed
                                  THEN [intents EXCEPT ![e.name] = [op |-> "load", entry |-> e]]
                                  ELSE intents
      BY <2>12 DEF Reupload
    <3>2. UNCHANGED <<guard, call, losses>> /\ restore[k].at = "uploading"
      BY <2>12 DEF Reupload
    <3>3. e \in Entries /\ e.name \in Names /\ e.art \in Versions
      BY <2>a DEF TexturesTypeOK, RestoreState, Entries
    <3>4. /\ restore' \in [1..MaxLosses -> RestoreState]
          /\ \A j \in 1..MaxLosses : restore'[j].at = restore[j].at
      BY <2>a, <3>1 DEF TexturesTypeOK, RestoreState
    <3>5. /\ resident' \in [Names -> Versions \cup {0}] /\ intents' \in [Names -> Intents]
          /\ sprite' \in [Sprites -> Skin]
      <4>1. CASE e.name \in Images
        BY <2>a, <3>1, <3>3, <4>1 DEF TexturesTypeOK
      <4>2. CASE e.name \notin Images
        <5>1. [op |-> "load", entry |-> e] \in Intents
          BY <3>3 DEF Intents
        <5>2. (IF Gone \/ guard.destroyed THEN 0 ELSE e.art) \in Versions \cup {0}
          BY <3>3
        <5>3. intents' \in {intents, [intents EXCEPT ![e.name] = [op |-> "load", entry |-> e]]}
          BY <3>1, <4>2
        <5>4. intents' \in [Names -> Intents]
          BY <2>a, <5>1, <5>3 DEF TexturesTypeOK
        <5>5. resident' \in [Names -> Versions \cup {0}]
          BY <2>a, <3>1, <4>2, <5>2 DEF TexturesTypeOK
        <5>. QED BY <2>d, <3>1, <3>3, <4>2, <5>4, <5>5
      <4>. QED BY <4>1, <4>2
    <3>6. TexturesTypeOK'
      BY <2>a, <3>2, <3>4, <3>5 DEF TexturesTypeOK
    <3>7. CurrentUnlessUploading'
      BY <3>2, <3>4 DEF CurrentUnlessUploading
    <3>8. QueueSound'
      BY <2>a, <3>2, <3>4 DEF QueueSound, Running
    <3>. QED BY <3>6, <3>7, <3>8 DEF TexturesInv
  <2>13. ASSUME NEW k \in 1..MaxLosses, Rebuild(k) PROVE TexturesInv'
    <3>1. UNCHANGED <<guard, intents, resident, call, losses>>
      BY <2>13 DEF Rebuild
    <3>2. CASE guard.destroyed
      <4>1. restore' = [restore EXCEPT ![k] = NoRestore] /\ sprite' = sprite
        BY <2>13, <3>2 DEF Rebuild
      <4>2. restore' \in [1..MaxLosses -> RestoreState]
        BY <2>a, <4>1 DEF TexturesTypeOK, RestoreState, NoRestore
      <4>3. TexturesTypeOK'
        BY <2>a, <3>1, <4>1, <4>2 DEF TexturesTypeOK
      <4>. QED BY <2>a, <3>1, <3>2, <4>3 DEF TexturesInv, CurrentUnlessUploading, QueueSound
    <3>3. CASE ~guard.destroyed
      <4>1. /\ restore' = [restore EXCEPT ![k].at = "draining"]
            /\ sprite' = [s \in Sprites |-> [sprite[s] EXCEPT !.art = resident[sprite[s].name]]]
        BY <2>13, <3>3 DEF Rebuild
      <4>2. /\ restore' \in [1..MaxLosses -> RestoreState]
            /\ restore'[k].at = "draining"
        BY <2>a, <4>1 DEF TexturesTypeOK, RestoreState
      <4>3. /\ sprite' \in [Sprites -> Skin]
            /\ \A s \in Sprites : sprite'[s].name = sprite[s].name /\ sprite'[s].art = resident[sprite[s].name]
        <5>1. \A s \in Sprites : sprite[s] \in Skin /\ resident[sprite[s].name] \in Versions \cup {0, Destroyed}
          BY <2>a DEF TexturesTypeOK, Skin
        <5>2. \A s \in Sprites : LET x == [sprite[s] EXCEPT !.art = resident[sprite[s].name]]
                                IN  x \in Skin /\ x.name = sprite[s].name /\ x.art = resident[sprite[s].name]
          BY <5>1 DEF Skin
        <5>. QED BY <4>1, <5>2
      <4>4. TexturesTypeOK'
        BY <2>a, <3>1, <4>2, <4>3 DEF TexturesTypeOK
      <4>5. CurrentUnlessUploading'
        BY <3>1, <4>3 DEF CurrentUnlessUploading
      <4>6. k \in Running'
        BY <4>2 DEF Running
      <4>7. QueueSound'
        BY <2>a, <3>1, <4>6 DEF QueueSound
      <4>. QED BY <4>4, <4>5, <4>7 DEF TexturesInv
    <3>. QED BY <3>2, <3>3
  <2>14. ASSUME NEW k \in 1..MaxLosses, DrainOne(k) PROVE TexturesInv'
    <3>. DEFINE q == guard.pending
    <3>1. /\ guard' = [guard EXCEPT !.pending = Tail(q)] /\ call' = [call EXCEPT ![Head(q)].at = "done"]
          /\ q # <<>> /\ UNCHANGED <<intents, resident, sprite, restore, losses>>
      BY <2>14 DEF DrainOne
    <3>2. q \in Seq(Calls)
      BY <2>a DEF TexturesTypeOK, Guard
    <3>3. Head(q) \in Calls /\ Tail(q) \in Seq(Calls) /\ q[1] = Head(q)
      BY <3>1, <3>2
    <3>4. /\ guard' \in Guard
          /\ guard'.state = guard.state /\ guard'.destroyed = guard.destroyed /\ guard'.pending = Tail(q)
      BY <2>a, <3>1, <3>3 DEF TexturesTypeOK, Guard
    <3>5. /\ call' \in [Calls -> CallState]
          /\ call'[Head(q)].at = "done" /\ \A d \in Calls : d # Head(q) => call'[d] = call[d]
      <4>. DEFINE h == Head(q)
      <4>1. h \in Calls /\ call' = [call EXCEPT ![h].at = "done"]
        BY <3>1, <3>3
      <4>. HIDE DEF h
      <4>2. call \in [Calls -> CallState]
        BY <2>a DEF TexturesTypeOK
      <4>3. /\ call' \in [Calls -> CallState]
            /\ call'[h].at = "done" /\ \A d \in Calls : d # h => call'[d] = call[d]
        BY <4>1, <4>2 DEF CallState
      <4>. QED BY <4>3 DEF h
    <3>6. TexturesTypeOK'
      BY <2>a, <3>1, <3>4, <3>5 DEF TexturesTypeOK
    <3>7. ASSUME NEW d \in Calls, call'[d].at = "queued" PROVE \E i \in DOMAIN Tail(q) : Tail(q)[i] = d
      <4>1. d # q[1] /\ call[d].at = "queued"
        BY <3>3, <3>5, <3>7
      <4>2. PICK i \in DOMAIN q : q[i] = d
        BY <2>a, <4>1 DEF QueueSound
      <4>3. i \in 2..Len(q) /\ i - 1 \in 1..Len(Tail(q)) /\ Tail(q)[i - 1] = q[i]
        BY <3>1, <3>2, <4>1, <4>2
      <4>. QED BY <3>3, <4>2, <4>3
    <3>8. guard.state # "ok" /\ ~guard.destroyed
      BY <2>a, <3>1 DEF QueueSound
    <3>9. QueueSound'
      <4>. HIDE DEF q
      <4>. QED BY <2>a, <3>1, <3>4, <3>7, <3>8 DEF QueueSound, Running
    <3>. QED BY <2>a, <3>1, <3>4, <3>6, <3>9 DEF TexturesInv, CurrentUnlessUploading
  <2>15. ASSUME NEW k \in 1..MaxLosses, Finish(k) PROVE TexturesInv'
    <3>. DEFINE to == IF guard.state = "restoring" /\ ~guard.destroyed THEN "ok" ELSE guard.state
    <3>1. /\ guard.pending = <<>> /\ restore[k].at = "draining" /\ restore' = [restore EXCEPT ![k] = NoRestore]
          /\ guard' = [guard EXCEPT !.state = to] /\ UNCHANGED <<intents, resident, sprite, call, losses>>
      BY <2>15 DEF Finish
    <3>2. to \in {"ok", "lost", "restoring"}
      BY <2>a DEF TexturesTypeOK, Guard
    <3>3. to = "restoring" => guard.destroyed
      OBVIOUS
    <3>4. to = "lost" => guard.state = "lost"
      OBVIOUS
    <3>. HIDE DEF to
    <3>5. /\ guard' \in Guard
          /\ guard'.state = to /\ guard'.destroyed = guard.destroyed /\ guard'.pending = <<>>
      BY <2>a, <3>1, <3>2 DEF TexturesTypeOK, Guard
    <3>6. /\ restore' \in [1..MaxLosses -> RestoreState]
          /\ \A j \in 1..MaxLosses : restore[j].at = "uploading" => restore'[j].at = "uploading"
      BY <2>a, <3>1 DEF TexturesTypeOK, RestoreState, NoRestore
    <3>7. TexturesTypeOK'
      BY <2>a, <3>1, <3>5, <3>6 DEF TexturesTypeOK
    <3>8. CurrentUnlessUploading'
      BY <2>a, <3>1, <3>5, <3>6 DEF CurrentUnlessUploading
    <3>9. QueueSound'
      BY <2>a, <3>1, <3>3, <3>4, <3>5 DEF QueueSound
    <3>. QED BY <3>7, <3>8, <3>9 DEF TexturesInv
  <2>. QED
    BY <2>1, <2>2, <2>3, <2>4, <2>5, <2>6, <2>7, <2>8, <2>9, <2>10, <2>11, <2>12, <2>13, <2>14, <2>15
       DEF TexturesNext, Works
<1>. QED BY <1>1, <1>2, PTL DEF TexturesSpec

\* For any losses and overlapping restores, a context that is back shows every sprite of a fetched asset
\* with the texture its name has.
THEOREM ArtStaysCurrent == TexturesSpec => []ArtIsCurrent
<1>1. TexturesInv => ArtIsCurrent
  BY DEF TexturesInv, CurrentUnlessUploading, ArtIsCurrent, Running, TexturesTypeOK
<1>. QED BY <1>1, TexturesInvariant, PTL

\* However the guard is lost, restored and drained, no loadAssets call is left waiting with nobody to
\* answer it.
THEOREM NobodyStranded == TexturesSpec => []NoLoadStranded
<1>1. TexturesInv => NoLoadStranded
  <2>. SUFFICES ASSUME TexturesInv, NEW c \in Calls, call[c].at = "queued"
                PROVE  /\ \E i \in DOMAIN guard.pending : guard.pending[i] = c
                       /\ guard.state = "lost" \/ Running # {}
    BY DEF NoLoadStranded
  <2>1. PICK i \in DOMAIN guard.pending : guard.pending[i] = c
    BY DEF TexturesInv, QueueSound
  <2>2. guard.pending # <<>> /\ guard.state \in {"ok", "lost", "restoring"}
    BY <2>1 DEF TexturesInv, TexturesTypeOK, Guard
  <2>. QED BY <2>1, <2>2 DEF TexturesInv, QueueSound
<1>. QED BY <1>1, TexturesInvariant, PTL

=============================================================================
