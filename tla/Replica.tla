------------------------------ MODULE Replica ------------------------------
(***************************************************************************)
(* Replication of the authority's world to one client: the send-tick that  *)
(* drains the channels (packages/sim/src/replicate.ts and Sim.#drain), *)
(* the budget that holds structural ops over to later sends, the Welcome   *)
(* built for a joining or resyncing session (snapshot.ts, chunk.ts), the   *)
(* reliable FIFO link, and the client that applies what arrives (client.ts *)
(* and Mirror).                                                            *)
(*                                                                         *)
(* What happens on the client commutes with the script calls of a tick, so *)
(* it is interleaved with whole ticks only (`busy`).                       *)
(***************************************************************************)
EXTENDS World

CONSTANTS
    Budget,         \* MAX_STRUCTURAL_OPS_PER_SEND
    ChunkSize,      \* entities of a snapshot one frame can carry
    MaxResyncs,
    MaxFlight       \* frames that may be in flight when another send is made

ASSUME ReplicaAssumption ==
    /\ Budget \in Nat \ {0} /\ ChunkSize \in Nat \ {0} /\ MaxResyncs \in Nat
    /\ MaxFlight \in Nat

VARIABLES
    busy,           \* a tick has begun
    spill,          \* Sim.#spill: wire ops held over
    session,        \* of the client: "none", "pending" (a join unanswered), "on"
    skip,           \* Session.structuralSkip
    asked,          \* a JoinRequest on its way
    down,           \* frames on their way to the client
    client,         \* "joining", "loading", "live", "failed"
    held,           \* SnapshotChunks.#held
    answer,         \* the Welcome a bundle load was started for
    mirror, bridge,
    resyncs,
    orphaned,       \* a client was sent a reparent under an entity elided from the same send
    early           \* entities with a diff sent while their own spawn was still held over

replicaVars == <<worldVars, busy, spill, session, skip, asked, down, client, held, answer, mirror, bridge,
          resyncs, orphaned, early>>

M == INSTANCE Mirror

NoAnswer == [ents |-> <<>>, vals |-> <<>>, guest |-> FALSE]

ReplicaInit ==
    /\ WorldInit
    /\ busy = FALSE /\ spill = <<>>
    /\ session = "none" /\ skip = 0 /\ asked = TRUE
    /\ down = <<>>
    /\ client = "joining" /\ held = <<>> /\ answer = NoAnswer
    /\ mirror = M!NewMirror /\ bridge = M!NewBridge
    /\ resyncs = 0
    /\ orphaned = FALSE /\ early = {}

-----------------------------------------------------------------------------
\* The wire forms.

\* readEntitySnapshot; the spawn form leaves the hierarchy, the tags and the scripts to later ops.
readEntitySnapshot(e, x, hierarchy) ==
    [op |-> "spawn", id |-> x, pos |-> pos[x], owner |-> e.owner[x],
     parent |-> IF hierarchy THEN e.parent[x] ELSE NoId,
     tagged |-> hierarchy /\ x \in e.tagged,
     scripts |-> IF hierarchy THEN e.scripts[x] ELSE 0]

singles(o) == IF o.op = "group" THEN o.ops ELSE <<o>>

\* Ids spawned and released inside this one journal, whose ops are dropped as a pair.
ephemeralIds(e, log) ==
    {x \in Ids : /\ e.stat[x] = "gone"
                 /\ \E i \in DOMAIN log : SpawnOp(x) \in ToSet(singles(log[i]))}

\* The wire ops of one journal entry: none for an elided one, the op itself for a group of one.
toWireStructural(e, o, ephemeral) ==
    LET kept == SelectSeq(singles(o), LAMBDA s : s.id \notin ephemeral)
        wire == [i \in DOMAIN kept |-> IF kept[i].op = "spawn"
                                       THEN readEntitySnapshot(e, kept[i].id, FALSE)
                                       ELSE kept[i]]
    IN  IF Len(wire) <= 1 THEN wire ELSE <<GroupOp(wire)>>

\* How many ops fit in this send, a group counting what it holds; the first always does.
budgetCut(ordered) ==
    CHOOSE n \in 0..Len(ordered) :
        LET heft(k) == FoldLeft(LAMBDA w, o : w + Len(singles(o)), 0, SubSeq(ordered, 1, k))
        IN  /\ n <= 1 \/ heft(n) <= Budget
            /\ n = 0 => ordered = <<>>
            /\ n < Len(ordered) => heft(n + 1) > Budget

\* Mutant: the leave goes out with the joins, ahead of the destroys.
drainOnce_LeavesFirst(e, log, d) ==
    LET ephemeral == ephemeralIds(e, log)
        wire == FlattenSeq([i \in DOMAIN log |-> toWireStructural(e, log[i], ephemeral)])
        joins == IF roster.joins = 1 THEN <<[op |-> "join"]>> ELSE <<>>
        leaves == IF roster.leaves = 1 THEN <<[op |-> "leave"]>> ELSE <<>>
        ordered == spill \o joins \o leaves \o wire
        cut == budgetCut(ordered)
        exists == {x \in Ids : e.stat[x] \in {"live", "dying"}}
    IN  [structural |-> SubSeq(ordered, 1, cut),
         spill |-> SubSeq(ordered, cut + 1, Len(ordered)),
         vals |-> [x \in marks \cap exists |-> val[x]],
         poses |-> [x \in d \cap exists |-> pos[x]],
         orphaning |-> \E i \in DOMAIN wire : \E s \in ToSet(singles(wire[i])) :
                            s.op = "reparent" /\ s.parent \in ephemeral]

\* Everything one send drains.  A join goes ahead of the spawns its handler made, a leave behind
\* the destroys of what the player owned.
drainOnce(e, log, d) ==
    LET ephemeral == ephemeralIds(e, log)
        wire == FlattenSeq([i \in DOMAIN log |-> toWireStructural(e, log[i], ephemeral)])
        joins == IF roster.joins = 1 THEN <<[op |-> "join"]>> ELSE <<>>
        leaves == IF roster.leaves = 1 THEN <<[op |-> "leave"]>> ELSE <<>>
        ordered == spill \o joins \o wire \o leaves
        cut == budgetCut(ordered)
        exists == {x \in Ids : e.stat[x] \in {"live", "dying"}}
    IN  [structural |-> SubSeq(ordered, 1, cut),
         spill |-> SubSeq(ordered, cut + 1, Len(ordered)),
         vals |-> [x \in marks \cap exists |-> val[x]],
         poses |-> [x \in d \cap exists |-> pos[x]],
         orphaning |-> \E i \in DOMAIN wire : \E s \in ToSet(singles(wire[i])) :
                            s.op = "reparent" /\ s.parent \in ephemeral]

\* Mutant: the whole of the structural list, also what the session's baseline already told it.
stateEnvelopeFor_NoSkip(set) == [kind |-> "state", ops |-> set.structural, vals |-> set.vals]

\* A session's envelope, without the ops its own snapshot already showed the effect of.
stateEnvelopeFor(set) ==
    LET skipped == IF skip < Len(set.structural) THEN skip ELSE Len(set.structural)
    IN  [kind |-> "state", vals |-> set.vals,
         ops |-> SubSeq(set.structural, skipped + 1, Len(set.structural))]

transformEnvelope(set) == [kind |-> "transform", poses |-> set.poses]

\* Live ids with every parent ahead of its children.
ancestorsFirst(e, S) ==
    LET depth(x) == Cardinality(Chain(e.parent, x))
    IN  SetToSortSeq(S, LAMBDA a, b : \/ depth(a) < depth(b)
                                      \/ depth(a) = depth(b) /\ a < b)

buildSnapshot(e) ==
    LET exists == {x \in Ids : e.stat[x] \in {"live", "dying"}}
        order == ancestorsFirst(e, exists)
    IN  [ents |-> [i \in DOMAIN order |-> readEntitySnapshot(e, order[i], TRUE)],
         vals |-> [x \in exists |-> val[x]],
         guest |-> guest = "here"]

\* The Welcome, after the chunks that carry its entities when one frame cannot.
welcomeFrames(e) ==
    LET snapshot == buildSnapshot(e)
        n == Len(snapshot.ents)
        pieces == (n + ChunkSize - 1) \div ChunkSize
        piece(i) == SubSeq(snapshot.ents, (i - 1) * ChunkSize + 1,
                           IF i * ChunkSize < n THEN i * ChunkSize ELSE n)
        frame(ents, chunks) == [kind |-> "welcome", chunks |-> chunks,
                                snapshot |-> [snapshot EXCEPT !.ents = ents]]
    IN  IF n <= ChunkSize THEN <<frame(snapshot.ents, 0)>>
        ELSE Append([i \in 1..pieces |-> [kind |-> "chunk", index |-> i, ents |-> piece(i)]],
                    frame(<<>>, pieces))
-----------------------------------------------------------------------------
\* The authority's tick.

\* Sim.#join on a session already joined is a resync: the join is pending again, and nothing
\* is broadcast to it until it is answered.
receiveJoin ==
    /\ ~busy
    /\ asked
    /\ asked' = FALSE
    /\ session' = "pending"
    /\ UNCHANGED <<worldVars, busy, spill, skip, down, client, held, answer, mirror, bridge,
                   resyncs, orphaned, early>>

Scripts ==
    /\ Script
    /\ busy' = TRUE
    /\ UNCHANGED <<spill, session, skip, asked, down, client, held, answer, mirror, bridge,
                   resyncs, orphaned, early>>

\* The end of a tick whose batch asks for no drain.
Step ==
    /\ \E late \in AtEnd :
         LET w == drainDestroyed(late)
         IN  /\ ent' = w.ent /\ queue' = w.queue /\ journal' = w.journal /\ dirty' = w.dirty
             /\ work' = IF late = {} THEN work ELSE work + 1
    /\ busy
    /\ busy' = FALSE
    /\ UNCHANGED <<val, marks, pos, guest, roster, touch, spill, session, skip, asked, down, client,
                   held, answer, mirror, bridge, resyncs, orphaned, early>>

\* What is still to be sent to this session of the ops held over.
Unsent == SubSeq(spill, skip + 1, Len(spill))

\* The end of a tick that sends: Sim.#drain.
Send ==
    /\ Len(down) <= MaxFlight
    /\ \/ busy \/ journal /= <<>> \/ spill /= <<>> \/ session = "pending"
       \/ marks /= {} \/ dirty /= {} \/ queue /= <<>> \/ roster /= [joins |-> 0, leaves |-> 0]
    /\ \E late \in AtEnd :
         LET w == drainDestroyed(late)
             set == drainOnce(w.ent, w.journal, w.dirty)
         IN  /\ ent' = w.ent /\ queue' = w.queue
             /\ work' = IF late = {} THEN work ELSE work + 1
             /\ spill' = set.spill
             /\ orphaned' = (orphaned \/ set.orphaning)
             /\ CASE session = "on" ->
                       /\ skip' = IF skip < Len(set.structural)
                                  THEN 0 ELSE skip - Len(set.structural)
                       /\ down' = down \o <<stateEnvelopeFor(set), transformEnvelope(set)>>
                       /\ early' = early \cup
                            {x \in DOMAIN set.vals \cup DOMAIN set.poses :
                               \E i \in DOMAIN Unsent' : \E s \in ToSet(singles(Unsent'[i])) :
                                  s.op = "spawn" /\ s.id = x}
                  [] session = "pending" ->
                       /\ skip' = Len(set.spill)
                       /\ down' = down \o welcomeFrames(w.ent)
                       /\ early' = {}
                  [] OTHER -> UNCHANGED <<skip, down, early>>
    /\ journal' = <<>> /\ marks' = {} /\ dirty' = {}
    /\ roster' = [joins |-> 0, leaves |-> 0]
    /\ session' = IF session = "pending" THEN "on" ELSE session
    /\ busy' = FALSE
    /\ UNCHANGED <<val, pos, guest, touch, asked, client, held, answer, mirror, bridge, resyncs>>

-----------------------------------------------------------------------------
\* The client.

\* An envelope applied and drawn, or the session failed by what it threw.
shown(m, b) ==
    LET drawn == M!reconcile(m, b)
    IN  IF m.thrown \/ drawn.thrown
        THEN client' = "failed" /\ mirror' = M!NewMirror /\ bridge' = M!NewBridge
        ELSE client' = "live" /\ mirror' = [m EXCEPT !.delta = M!NoDelta] /\ bridge' = drawn

\* The baseline goes through the same appliers: the players, the entities, then the state.
openSession(snapshot) ==
    LET players == IF snapshot.guest THEN <<[op |-> "join"]>> ELSE <<>>
    IN  shown(M!applyState(M!NewMirror, players \o snapshot.ents, snapshot.vals), M!NewBridge)

\* SnapshotChunks.foldInto, then the session opens: when the bundle has loaded for the first
\* Welcome, at once for a later one, whose bundle this process already holds.
onWelcome(frame) ==
    IF client /= "joining" THEN UNCHANGED <<client, held, answer, mirror, bridge>>
    ELSE IF Len(held) /= frame.chunks \/ \E i \in DOMAIN held : held[i].index /= i
    THEN client' = "failed" /\ UNCHANGED <<held, answer, mirror, bridge>>
    ELSE LET whole == [frame.snapshot EXCEPT
                          !.ents = FlattenSeq([i \in DOMAIN held |-> held[i].ents]) \o @]
         IN  /\ held' = <<>>
             /\ IF resyncs > 0 THEN openSession(whole) /\ UNCHANGED answer
                ELSE client' = "loading" /\ answer' = whole /\ UNCHANGED <<mirror, bridge>>

dispatch(frame) ==
    CASE frame.kind = "chunk" ->
           /\ held' = IF client = "joining" THEN Append(held, frame) ELSE held
           /\ UNCHANGED <<client, answer, mirror, bridge>>
      [] frame.kind = "welcome" -> onWelcome(frame)
      [] frame.kind = "state" ->
           /\ IF client = "live" THEN shown(M!applyState(mirror, frame.ops, frame.vals), bridge)
              ELSE UNCHANGED <<client, mirror, bridge>>
           /\ UNCHANGED <<held, answer>>
      [] frame.kind = "transform" ->
           /\ mirror' = IF client = "live" THEN M!applyTransforms(mirror, frame.poses) ELSE mirror
           /\ UNCHANGED <<client, held, answer, bridge>>

\* What arrives while the bundle loads is held, never dropped.
mayDrain == client \in {"joining", "live"}

drainInbox ==
    /\ ~busy
    /\ mayDrain
    /\ down /= <<>>
    /\ down' = Tail(down)
    /\ dispatch(Head(down))
    /\ UNCHANGED <<worldVars, busy, spill, session, skip, asked, resyncs, orphaned, early>>

loaded ==
    /\ ~busy
    /\ client = "loading"
    /\ openSession(answer)
    /\ answer' = NoAnswer
    /\ UNCHANGED <<worldVars, busy, spill, session, skip, asked, down, held, resyncs, orphaned,
                   early>>

\* The mirror and the bridge are dropped and a second join is sent; frames of the old life still
\* in flight find no mirror.
resync ==
    /\ ~busy
    /\ client = "live"
    /\ resyncs < MaxResyncs
    /\ resyncs' = resyncs + 1
    /\ client' = "joining"
    /\ asked' = TRUE
    /\ held' = <<>>
    /\ mirror' = M!NewMirror /\ bridge' = M!NewBridge
    /\ UNCHANGED <<worldVars, busy, spill, session, skip, down, answer, orphaned, early>>

ReplicaNext == receiveJoin \/ Scripts \/ Step \/ Send \/ drainInbox \/ loaded \/ resync

-----------------------------------------------------------------------------
\* The records are the ones the code can hold, no entity hangs under one already released, and a
\* session is never told to skip an op that was not held over when its baseline was taken.
TypeOK ==
    /\ ent.stat \in [Ids -> {"none", "live", "dying", "gone"}]
    /\ ent.parent \in [Ids -> Ids \cup {NoId}]
    /\ \A x \in Exists : ent.parent[x] \in Exists \cup {NoId}
    /\ ent.tagged \subseteq Exists
    /\ ToSet(queue) = {x \in Ids : ent.stat[x] = "dying"} /\ Len(queue) <= MaxId
    /\ marks \subseteq Ids /\ dirty \subseteq Exists
    /\ val \in [Ids -> 0..1] /\ pos \in [Ids -> 0..1]
    /\ session \in {"none", "pending", "on"}
    /\ client \in {"joining", "loading", "live", "failed"}
    /\ mirror.ghosts \in Nat /\ mirror.dying = {} /\ mirror.unmap = {}
    /\ skip <= Len(spill)

\* Everything the authority has done has reached the client.
Quiet ==
    /\ client = "live" /\ session = "on"
    /\ ~busy /\ down = <<>> /\ spill = <<>> /\ journal = <<>> /\ queue = <<>>
    /\ marks = {} /\ dirty = {} /\ roster = [joins |-> 0, leaves |-> 0]

\* Once everything sent has arrived, the mirror holds exactly the authority's entities, with their
\* hierarchy, tags, scripts and owners, whatever was held over by the budget, elided, chunked or
\* covered by a baseline, and however often the client resynced in the middle of it.  Except after
\* a send that put a surviving entity under an elided one (toWireStructural), which the client
\* cannot follow.
Converges ==
    Quiet /\ ~orphaned =>
        /\ mirror.ghosts = 0
        /\ mirror.known = Exists /\ mirror.here = Exists
        /\ \A x \in Exists : /\ mirror.parent[x] = ent.parent[x]
                             /\ mirror.scripts[x] = ent.scripts[x]
                             /\ (x \in mirror.owned) = ent.owner[x]
        /\ mirror.tagged = ent.tagged
        /\ mirror.guest = (guest = "here")

\* A mirrored entity with an owner has that player in the mirrored roster: a join is applied before
\* what its handler spawned, a leave after the destroys of what the player owned, also when the
\* budget spreads them over several envelopes.
OwnersKnown == client = "live" /\ ~orphaned => (mirror.owned /= {} => mirror.guest)

\* After every envelope the renderer draws one node per mirrored entity, under the node of the
\* entity's parent, although the bridge applies what was added, moved and removed by kind and not
\* in the order it happened.
DrawnAsMirrored ==
    client = "live" /\ ~orphaned =>
        /\ bridge.node = mirror.here /\ bridge.drawn = mirror.here
        /\ \A x \in mirror.here : /\ bridge.under[x] = mirror.parent[x]
                                  /\ bridge.parentOf[x] = mirror.parent[x]

\* Once everything sent has arrived, every @serverState field and transform is the authority's,
\* but for an entity whose diff was sent while its own spawn was held over by the budget.
ValuesArrive ==
    Quiet /\ ~orphaned => \A x \in Exists \ early : mirror.val[x] = val[x] /\ mirror.pos[x] = pos[x]
=============================================================================
