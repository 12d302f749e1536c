------------------------------ MODULE Sessions ------------------------------
(***************************************************************************)
(* The life of a play session: a client (packages/client/src/client.ts and *)
(* lifecycle.ts) that joins over a WebSocket (packages/transport), the     *)
(* simulation's session registry and join sequence (packages/sim/src/sim.ts*)
(* and session.ts) and the records of named players it loads and saves     *)
(* (persisted.ts).                                                         *)
(*                                                                         *)
(* The host (packages/glue/src/server/instance.ts) turns what happens on   *)
(* its sockets and at its store into the next input batch, which a tick    *)
(* takes kind by kind and not in the order things happened.                *)
(*                                                                         *)
(* A player's persisted record is one number, the stints saved in it; a    *)
(* stint adds one when it is played.  Deadlines are choices: time is not   *)
(* modelled.  One connection is one page's life.                           *)
(***************************************************************************)
EXTENDS Naturals, SequencesExt

CONSTANTS
    Conns,          \* connections
    Who,            \* identities the host may name
    identity,       \* Conns -> Who \cup {Nobody}: as the host resolved it
    Nobody,
    Empty,          \* no record: neither in the cache nor read
    MaxUnjoined,    \* MAX_UNJOINED_CONNECTIONS
    MaxPlayers,
    MaxDrops,       \* links that may fail
    MaxMisses,      \* reads and writes the store may fail
    MaxResyncs

ASSUME SessionsAssumption ==
    /\ IsFiniteSet(Conns)
    /\ Nobody \notin Who
    /\ Empty \notin Nat
    /\ identity \in [Conns -> Who \cup {Nobody}]
    /\ {MaxUnjoined, MaxPlayers, MaxDrops, MaxMisses, MaxResyncs} \subseteq Nat

VARIABLES
    srv,            \* Sim
    batch,          \* the InputBatch the host is filling
    loads, saves,   \* reads and writes the host owes the simulation
    store,          \* the durable record of each identity
    sock,           \* the client's end: "none", "open", "closing", "closed"
    wire,           \* frames on the link to the client
    cli, inbox,
    misses, resyncs,
    played,         \* stints each identity has played on a record the store could read
    refused,        \* connections the simulation sent a Reject
    cut,            \* connections whose link failed
    excused         \* identities met by one of the known races of their record

serverVars == <<srv, batch, loads, saves, store, played, refused, excused>>
clientVars == <<sock, wire, cli, inbox>>
vars == <<serverVars, clientVars, misses, resyncs, cut>>

NoBatch == [opened |-> <<>>, saved |-> <<>>, records |-> <<>>, frames |-> <<>>, closed |-> <<>>]
NoOutput == [sends |-> <<>>, closes |-> <<>>, loads |-> <<>>, saves |-> <<>>]

Init ==
    /\ srv = [st |-> [c \in Conns |-> "none"], admitting |-> {}, pending |-> {}, closed |-> FALSE,
              field |-> [c \in Conns |-> 0], fresh |-> {}, cache |-> [w \in Who |-> Empty],
              blind |-> {}, out |-> NoOutput]
    /\ batch = NoBatch
    /\ loads = {} /\ saves = <<>>
    /\ store = [w \in Who |-> 0]
    /\ sock = [c \in Conns |-> "none"]
    /\ wire = [c \in Conns |-> <<>>]
    /\ cli = [c \in Conns |-> "off"] /\ inbox = [c \in Conns |-> <<>>]
    /\ misses = 0 /\ resyncs = 0
    /\ played = [w \in Who |-> 0]
    /\ refused = {} /\ cut = {} /\ excused = {}

-----------------------------------------------------------------------------
\* The simulation, as operators on its record.  Session.playerId is the identity, or else the
\* connection's own id, so two sessions share one only through an identity.

Named(c) == identity[c] /= Nobody
Joined(s) == {c \in Conns : s.st[c] = "joined"}
Unjoined(s) == {c \in Conns : s.st[c] = "open"}
SameId(c, d) == c = d \/ (Named(c) /\ identity[c] = identity[d])

sent(s, c, frame) == [s EXCEPT !.out.sends = Append(@, <<c, frame>>)]
closes(s, c) == [s EXCEPT !.out.closes = Append(@, c)]

openRefusal(s, c) ==
    \/ s.closed
    \/ Cardinality(Unjoined(s)) >= MaxUnjoined
    \/ Named(c) /\ \E d \in Unjoined(s) : SameId(c, d)

open(s, c) == IF openRefusal(s, c) THEN closes(s, c) ELSE [s EXCEPT !.st[c] = "open"]

\* Mutant: what is written is not put in the cache as well.
captured_Stale(s, c) ==
    IF Named(c) /\ s.cache[identity[c]] /= Empty
    THEN [s EXCEPT !.out.saves = Append(@, [who |-> identity[c], value |-> s.field[c]])]
    ELSE s

\* A record is written back only for a named player whose record is in the cache, and what is
\* written stays cached until the store confirms it.
captured(s, c) ==
    IF Named(c) /\ s.cache[identity[c]] /= Empty
    THEN [s EXCEPT !.cache[identity[c]] = s.field[c],
                   !.out.saves = Append(@, [who |-> identity[c], value |-> s.field[c]])]
    ELSE s

release(s, c) ==
    IF s.st[c] = "none" THEN s
    ELSE LET gone == [s EXCEPT !.st[c] = "none", !.admitting = @ \ {c}, !.pending = @ \ {c},
                               !.fresh = @ \ {c}, !.blind = @ \ {c}, !.field[c] = 0]
         IN  IF s.st[c] = "joined"
             THEN LET kept == captured(s, c)
                  IN  [gone EXCEPT !.cache = kept.cache, !.out = kept.out]
             ELSE gone

reject(s, c) == release(closes(sent(s, c, "reject"), c), c)
closeFor(s, c) == release(closes(s, c), c)

\* Mutant: the roster is only counted, so two connections of one identity may both play.
admit_AnyId(s, c) ==
    IF s.st[c] /= "open" THEN s
    ELSE IF Cardinality(Joined(s)) >= MaxPlayers THEN reject(s, c)
    ELSE LET record == IF Named(c) THEN s.cache[identity[c]] ELSE Empty
         IN  [s EXCEPT !.st[c] = "joined", !.pending = @ \cup {c},
                       !.field[c] = IF record = Empty THEN 0 ELSE record,
                       !.fresh = @ \cup {c},
                       !.blind = IF Named(c) /\ record = Empty THEN @ \cup {c} ELSE @]

\* Capacity and a second claim to the same id are tested once the record is in.  A player admitted
\* without one runs on the build's initializers, and is `blind` to what the store holds.
admit(s, c) ==
    IF s.st[c] /= "open" THEN s
    ELSE IF \/ Cardinality(Joined(s)) >= MaxPlayers
            \/ \E d \in Joined(s) : SameId(c, d)
    THEN reject(s, c)
    ELSE LET record == IF Named(c) THEN s.cache[identity[c]] ELSE Empty
         IN  [s EXCEPT !.st[c] = "joined", !.pending = @ \cup {c},
                       !.field[c] = IF record = Empty THEN 0 ELSE record,
                       !.fresh = @ \cup {c},
                       !.blind = IF Named(c) /\ record = Empty THEN @ \cup {c} ELSE @]

\* A joined session that sends again is resyncing.  A named player's record is asked for once.  The
\* version and project checks ahead of these reject exactly as admit does, and are left out.
join(s, c) ==
    IF s.st[c] = "joined" THEN [s EXCEPT !.pending = @ \cup {c}]
    ELSE IF c \in s.admitting THEN s
    ELSE IF Named(c) /\ s.cache[identity[c]] = Empty
    THEN [s EXCEPT !.admitting = @ \cup {c}, !.out.loads = Append(@, c)]
    ELSE admit(s, c)

receive(s, c) == IF s.st[c] = "none" THEN s ELSE join(s, c)

\* The host's answer to a load, for a session still there: a failed read seeds nothing and the
\* player is admitted anyway.
seed(s, answer) ==
    LET c == answer.conn
        seeded == IF answer.value = Empty THEN s
                  ELSE [s EXCEPT !.cache[identity[c]] = answer.value]
    IN  IF s.st[c] = "none" THEN s
        ELSE IF c \in s.admitting
             THEN admit([seeded EXCEPT !.admitting = @ \ {c}], c)
             ELSE seeded

recordReleased(s, w) == [s EXCEPT !.cache[w] = Empty]

\* Mutant: only a joined session is looked for, and one still joining keeps its slot.
drop_JoinedOnly(s, c) == IF s.st[c] = "joined" THEN release(s, c) ELSE s

drop(s, c) == release(s, c)

\* The Welcome of each join still unanswered, when the batch asks for a drain.
welcome(s, c) == [sent(s, c, "welcome") EXCEPT !.pending = @ \ {c}]
drain(s) == FoldLeft(welcome, s, SetToSeq(s.pending))

\* One batch, in the order tick() takes it: opened, saved, records, frames, closed; then the
\* sessions past the join deadline, then the drain.
tick(s, b, expired, drains) ==
    LET s1 == FoldLeft(open, s, b.opened)
        s2 == FoldLeft(recordReleased, s1, b.saved)
        s3 == FoldLeft(seed, s2, b.records)
        s4 == FoldLeft(receive, s3, b.frames)
        s5 == FoldLeft(drop, s4, b.closed)
        s6 == FoldLeft(closeFor, s5, SetToSeq({c \in expired : s5.st[c] = "open"}))
    IN  IF s.closed THEN s ELSE IF drains THEN drain(s6) ELSE s6

-----------------------------------------------------------------------------
\* The host (glue/src/server/instance.ts): it fills the batches and carries the output out, over a
\* store that takes writes in the order they were asked for.

\* What a tick produced goes out: frames in order with the close behind them, then the store's work.
carry(links, e) == [links EXCEPT ![e[1]] = Append(@, e[2])]
CarriedOut(out) ==
    /\ LET carried == FoldLeft(carry, wire, out.sends)
       IN  wire' = [c \in Conns |->
                      IF sock[c] = "none" THEN wire[c]
                      ELSE IF c \in ToSet(out.closes) THEN Append(carried[c], "close")
                      ELSE carried[c]]
    /\ loads' = loads \cup ToSet(out.loads)
    /\ saves' = saves \o out.saves
    /\ refused' = refused \cup {c \in Conns : <<c, "reject">> \in ToSet(out.sends)}

\* A record is released while its player is in the world, or while a newer write of it is on its way
\* or has failed: the acknowledgement names the player and not what was written.
ReleasedLive ==
    {w \in ToSet(batch.saved) :
        \/ \E c \in Joined(srv) : identity[c] = w
        \/ \E i \in DOMAIN saves : saves[i].who = w
        \/ srv.cache[w] /= Empty /\ srv.cache[w] > store[w]}

\* A record is filed for a player already in the world without it.
SeededLive ==
    {w \in Who : \E a \in ToSet(batch.records) : /\ a.value /= Empty /\ identity[a.conn] = w
                                                /\ \E c \in srv.blind : identity[c] = w}

Tick(drains) ==
    \E expired \in SUBSET (Unjoined(srv) \ ToSet(batch.opened)) :
      LET after == tick(srv, batch, expired, drains)
      IN  /\ batch /= NoBatch \/ expired /= {} \/ (drains /\ srv.pending /= {})
          /\ srv' = [after EXCEPT !.out = NoOutput]
          /\ CarriedOut(after.out)
          /\ batch' = NoBatch
          /\ excused' = excused \cup ReleasedLive \cup SeededLive
          /\ UNCHANGED <<store, played, sock, cli, inbox, misses, resyncs, cut>>

\* The world ends: every session leaves inline, and this output carries the last saves.
closeWorld ==
    /\ ~srv.closed
    /\ LET after == FoldLeft(release, [srv EXCEPT !.closed = TRUE],
                             SetToSeq({c \in Conns : srv.st[c] /= "none"}))
       IN  /\ srv' = [after EXCEPT !.out = NoOutput]
           /\ CarriedOut([after.out EXCEPT !.closes = SetToSeq({c \in Conns : sock[c] = "open"})])
    /\ UNCHANGED <<batch, store, played, excused, sock, cli, inbox, misses, resyncs, cut>>

\* A script writes the player's record while it is in the world.
play(c) ==
    /\ c \in srv.fresh
    /\ Named(c)
    /\ srv' = [srv EXCEPT !.field[c] = @ + 1, !.fresh = @ \ {c}]
    /\ played' = [played EXCEPT ![identity[c]] = IF c \in srv.blind THEN @ ELSE @ + 1]
    /\ UNCHANGED <<batch, loads, saves, store, refused, excused, clientVars, misses,
                   resyncs, cut>>

loadAnswered(c, value) ==
    /\ c \in loads
    /\ loads' = loads \ {c}
    /\ batch' = [batch EXCEPT !.records = Append(@, [conn |-> c, value |-> value])]
    /\ UNCHANGED <<srv, saves, store, played, refused, excused, clientVars, resyncs,
                   cut>>

loadRead(c) == loadAnswered(c, store[identity[c]]) /\ UNCHANGED misses

loadFails(c) ==
    /\ misses < MaxMisses
    /\ misses' = misses + 1
    /\ loadAnswered(c, Empty)

saveLands ==
    /\ saves /= <<>>
    /\ saves' = Tail(saves)
    /\ store' = [store EXCEPT ![Head(saves).who] = Head(saves).value]
    /\ batch' = [batch EXCEPT !.saved = Append(@, Head(saves).who)]
    /\ UNCHANGED <<srv, loads, played, refused, excused, clientVars, misses, resyncs,
                   cut>>

\* A write that failed is not acknowledged, so the simulation goes on holding the record.
saveFails ==
    /\ saves /= <<>>
    /\ misses < MaxMisses
    /\ misses' = misses + 1
    /\ saves' = Tail(saves)
    /\ UNCHANGED <<srv, batch, loads, store, played, refused, excused, clientVars, resyncs, cut>>

\* What the client sends joins the batch being filled, and how long a tick takes stands for the
\* link's delay.
arrives(c, kind) == batch' = [batch EXCEPT ![kind] = Append(@, c)]
sends(c, kind) == IF sock[c] = "open" /\ c \notin cut THEN arrives(c, kind) ELSE UNCHANGED batch

\* The link fails: what was on it is lost, and each end is told in its own time.
linkFails(c) ==
    /\ Cardinality(cut) < MaxDrops
    /\ sock[c] = "open"
    /\ c \notin cut
    /\ cut' = cut \cup {c}
    /\ arrives(c, "closed")
    /\ wire' = [wire EXCEPT ![c] = <<"close">>]
    /\ UNCHANGED <<srv, loads, saves, store, played, refused, excused, sock, cli, inbox, misses,
                   resyncs>>

-----------------------------------------------------------------------------
\* The client.

isTerminal(state) == state \in {"failed", "rejected", "disconnected"}
over(state) == isTerminal(state) \/ state = "torn"

clientOnly == UNCHANGED <<srv, loads, saves, store, played, refused, excused, misses, cut>>

connectWebSocket(c) ==
    /\ cli[c] = "off"
    /\ cli' = [cli EXCEPT ![c] = "dialed"]
    /\ sock' = [sock EXCEPT ![c] = "open"]
    /\ arrives(c, "opened")
    /\ UNCHANGED <<wire, inbox, resyncs>>
    /\ clientOnly

\* start() registers its handlers and sends the join.
start(c) ==
    /\ cli[c] = "dialed"
    /\ cli' = [cli EXCEPT ![c] = "connecting"]
    /\ sends(c, "frames")
    /\ UNCHANGED <<sock, wire, inbox, resyncs>>
    /\ clientOnly

\* WebSocketEnd.close: only an open end asks, and the peer learns of it behind what it was sent.
closeEnd(c) ==
    /\ sock' = [sock EXCEPT ![c] = IF @ = "open" THEN "closing" ELSE @]
    /\ sends(c, "closed")

\* #fail: the state, then the shutdown; the handlers are disposed, so nothing more is heard.
fail(c, state) ==
    /\ cli' = [cli EXCEPT ![c] = state]
    /\ inbox' = [inbox EXCEPT ![c] = <<>>]
    /\ closeEnd(c)

\* A frame is queued for the next display frame by an end still open and a session not over.
onSocketMessage(c) ==
    /\ wire[c] /= <<>> /\ Head(wire[c]) /= "close"
    /\ wire' = [wire EXCEPT ![c] = Tail(@)]
    /\ inbox' = [inbox EXCEPT ![c] = IF sock[c] = "open" /\ ~over(cli[c])
                                     THEN Append(@, Head(wire[c])) ELSE @]
    /\ UNCHANGED <<batch, sock, cli, resyncs>>
    /\ clientOnly

\* Mutant: the close does not look for the refusal that came ahead of it.
closedAs_Blank(c) == IF over(cli[c]) THEN cli[c] ELSE "disconnected"

\* onClose: a Reject still waiting for its display frame is why the link closed.
closedAs(c) ==
    IF "reject" \in ToSet(inbox[c]) THEN "rejected"
    ELSE IF over(cli[c]) THEN cli[c]
    ELSE "disconnected"

onSocketClose(c) ==
    /\ wire[c] /= <<>> /\ Head(wire[c]) = "close"
    /\ wire' = [wire EXCEPT ![c] = Tail(@)]
    /\ cli' = IF sock[c] = "open" THEN [cli EXCEPT ![c] = closedAs(c)] ELSE cli
    /\ sends(c, "closed")
    /\ sock' = [sock EXCEPT ![c] = "closed"]
    /\ inbox' = [inbox EXCEPT ![c] = <<>>]
    /\ UNCHANGED resyncs
    /\ clientOnly

\* One display frame's drain.  The first Welcome starts the bundle's load and suspends the drain;
\* after a resync the bundle is held already and the session opens at once.
drainInbox(c) ==
    /\ inbox[c] /= <<>>
    /\ cli[c] \in {"connecting", "live", "resyncing"}
    /\ IF Head(inbox[c]) = "reject"
       THEN fail(c, "rejected") /\ UNCHANGED wire
       ELSE /\ cli' = [cli EXCEPT ![c] = IF @ = "connecting" THEN "loading" ELSE "live"]
            /\ inbox' = [inbox EXCEPT ![c] = Tail(@)]
            /\ UNCHANGED <<batch, sock, wire>>
    /\ UNCHANGED resyncs
    /\ clientOnly

\* Mutant: a load that comes back opens its session without asking whether it is still wanted.
stillLoading_Always(c) == cli[c] = "loading" \/ over(cli[c])

\* Whether the Welcome a fetch started for is still the one being answered.
stillLoading(c) == cli[c] = "loading"

bundleLoads(c) ==
    /\ stillLoading(c)
    /\ cli' = [cli EXCEPT ![c] = "live"]
    /\ UNCHANGED <<batch, sock, wire, inbox, resyncs>>
    /\ clientOnly

\* The load failed or its deadline passed, or the join's deadline passed.
deadline(c) ==
    /\ cli[c] \in {"loading", "connecting", "resyncing"}
    /\ fail(c, "failed")
    /\ UNCHANGED <<wire, resyncs>>
    /\ clientOnly

resync(c) ==
    /\ cli[c] = "live"
    /\ resyncs < MaxResyncs
    /\ resyncs' = resyncs + 1
    /\ cli' = [cli EXCEPT ![c] = "resyncing"]
    /\ sends(c, "frames")
    /\ UNCHANGED <<sock, wire, inbox>>
    /\ clientOnly

\* The page unmounts the client, whatever its state.
destroy(c) ==
    /\ cli[c] \notin {"off", "torn"}
    /\ fail(c, "torn")
    /\ UNCHANGED <<wire, resyncs>>
    /\ clientOnly

ClientStep(c) ==
    \/ onSocketMessage(c) \/ onSocketClose(c) \/ drainInbox(c) \/ bundleLoads(c) \/ deadline(c)

Next ==
    \/ \E drains \in BOOLEAN : Tick(drains)
    \/ closeWorld \/ saveLands \/ saveFails
    \/ \E c \in Conns :
         \/ play(c) \/ loadRead(c) \/ loadFails(c) \/ linkFails(c)
         \/ connectWebSocket(c) \/ start(c) \/ resync(c) \/ destroy(c) \/ ClientStep(c)

Spec == Init /\ [][Next]_vars

-----------------------------------------------------------------------------
\* A session awaiting its record or its Welcome is one the registry holds, and an unjoined named
\* peer holds one slot.
TypeOK ==
    /\ srv.st \in [Conns -> {"none", "open", "joined"}]
    /\ srv.admitting \subseteq Unjoined(srv)
    /\ srv.pending \cup srv.fresh \cup srv.blind \subseteq Joined(srv)
    /\ Cardinality(Joined(srv)) <= MaxPlayers
    /\ \A c, d \in Unjoined(srv) : SameId(c, d) => c = d
    /\ cli \in [Conns -> {"off", "dialed", "connecting", "loading", "live", "resyncing",
                          "disconnected", "rejected", "failed", "torn"}]
    /\ sock \in [Conns -> {"none", "open", "closing", "closed"}]
    /\ store \in [Who -> Nat]

\* Two live players never share an id, however their joins, loads and leaves interleave: they would
\* share one record, and the second to leave would write over the first.
OnePlayerPerId == \A c, d \in Joined(srv) : SameId(c, d) => c = d

\* The newest stint of a player is always somewhere: in the world, in the cache, on its way to the
\* store or in it.  Except after a record was released under a live player or a newer write
\* than the one confirmed (SessionRecords.release), or filed under one playing without it (#seed).
NoStintLost ==
    \A w \in Who \ excused :
        \/ played[w] = 0
        \/ played[w] \in {store[w], srv.cache[w]}
        \/ \E i \in DOMAIN saves : saves[i].who = w /\ saves[i].value = played[w]
        \/ \E c \in Joined(srv) : identity[c] = w /\ srv.field[c] = played[w]

\* A session a client believes it has is one the simulation still holds, or the news that it does
\* not is on the link.
LiveIsHeld ==
    \A c \in Conns :
        cli[c] \in {"loading", "live"} =>
            srv.st[c] = "joined" \/ "close" \in ToSet(wire[c])

\* A client the simulation refused learns that it was refused, and does not take it for a dropped
\* link it should dial again, unless the link did fail or the page left first.
RefusedIsTold ==
    \A c \in refused \ cut : cli[c] /= "disconnected"

\* A session whose client is over, however it ended, is released or its close is in the next batch,
\* so no player stays behind in the world.
EndedIsReleased ==
    \A c \in Conns : over(cli[c]) =>
        \/ srv.closed
        \/ c \in ToSet(batch.closed)
        \/ srv.st[c] = "none" /\ c \notin ToSet(batch.opened)
=============================================================================
