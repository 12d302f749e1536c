------------------------------- MODULE Inputs -------------------------------
(***************************************************************************)
(* A player's input, from the device to the authoritative tick and back:   *)
(* the binding table, the client's per-frame flush, its ring of unacked    *)
(* frames and the stall and resync machine (packages/client), the frame    *)
(* validator, the admission state, the tick buffer and the input pass of   *)
(* the authority (packages/sim), and core's fold of edges both ends share. *)
(*                                                                         *)
(* Ticks are kept relative to the tick the authority stands on, so time    *)
(* never runs out: an authoritative step ages every tick in the state by   *)
(* one.  A tick older than the past grace is as old as any other.          *)
(***************************************************************************)
EXTENDS Integers, Sequences, FiniteSets, SequencesExt

CONSTANTS Buttons,        \* actions bound to a key as a button
          Axes,           \* actions bound to a key as one half of an axis
          MaxFrames,      \* bound: input frames the client sends
          MaxAsks,        \* bound: interactions and requests it sends
          MaxPending,     \* bound: device edges between two flushes
          MaxFlight,      \* bound: envelopes on the way to the client
          MaxResyncs,     \* bound: times the client joins again
          RingTicks,      \* RING_TICKS
          PastGrace,      \* pastGraceTicks
          FutureHorizon,  \* futureHorizonTicks
          ClampTicks,     \* HORIZON_CLAMP_TICKS
          MaxSeqGap,      \* maxSeqGap
          Bucket,         \* INPUT_BUCKET_FRAMES
          Breach,         \* RATE_BREACH_CLOSE
          MaxLead,        \* the lead a measured round trip may seed
          MaxAhead,       \* bound: how far the client's clock may run ahead
          MaxDrift,       \* bound: how far it may fall behind
          Faults          \* what may go wrong: "overcap", "replay", "drought", "silent"

Actions == Buttons \cup Axes
Seqs == 0..(MaxFrames - 1)
Oldest == -(PastGrace + 1)
Slots == -PastGrace..FutureHorizon   \* the ticks a frame may be filed under

ASSUME InputAssumption ==
  /\ Buttons \cap Axes = {} /\ IsFiniteSet(Actions)
  /\ {MaxFlight, RingTicks, FutureHorizon, Bucket, Breach, MaxLead} \subseteq Nat \ {0}
  /\ {MaxFrames, MaxAsks, MaxPending, MaxResyncs, PastGrace, ClampTicks,
      MaxSeqGap, MaxAhead, MaxDrift} \subseteq Nat

VARIABLES
  down, sentAxes,                    \* BindingTable: codes held, axes last sent off neutral
  state, pending, acts,              \* GameClient: lifecycle, edges to frame, folded input
  ring, horizon,                     \* InputRing: unacked frames, what is held below them
  seq, asked, lead, depicted,        \* next number, asks made, local tick, tick mirrored
  ack, rejoined,                     \* ackSeq, #rejoined
  uplink, downlink,                  \* frames on the wire
  frontier, resolved, arrived, gaps, highest, tokens, refusals,  \* AdmissionState
  buffer, folded, owed, closed,      \* InputBuffer, Session.actions, pendingJoin, Session.closed
  log, dropped, letGo, life          \* history: frames applied, frames given up, backstop, joins

deviceVars == <<down, sentAxes>>
ringVars == <<ring, horizon>>
clockVars == <<lead, depicted>>
clientVars == <<deviceVars, state, pending, acts, ringVars, seq, asked, clockVars, ack, rejoined, life>>
admissionVars == <<frontier, resolved, arrived, gaps, highest, tokens, refusals>>
serverVars == <<admissionVars, buffer, folded, owed, closed, log, dropped, letGo>>
vars == <<clientVars, uplink, downlink, serverVars>>

Edges == [action : Actions, on : {"press", "release"}] \cup
         [action : Actions, on : {"hold"}, value : {0, 1}]
Held == [held : SUBSET Actions, axis : SUBSET Actions]
Neutral == [held |-> {}, axis |-> {}]

(***************************************************************************)
(* Core's fold.  The one-tick pressed and released sets are left out: they *)
(* are cleared by every advanceTick and no later fold reads them.          *)
(***************************************************************************)
applyEdge(st, e) ==
  CASE e.on = "press" ->
         [held |-> st.held \cup {e.action}, axis |-> st.axis \cup {e.action}]
    [] e.on = "release" ->
         [held |-> st.held \ {e.action}, axis |-> st.axis \ {e.action}]
    [] e.on = "hold" ->
         [st EXCEPT !.axis = IF e.value = 0 THEN @ \ {e.action} ELSE @ \cup {e.action}]

foldInputEdges(st, edges) == FoldLeft(applyEdge, st, edges)
foldFrame(st, f) == foldInputEdges(st, f.edges)
foldFrames(st, frames) == FoldLeft(foldFrame, st, frames)

-----------------------------------------------------------------------------
(* The device and the binding table. *)

axisEdge(a, v) == [action |-> a, on |-> "hold", value |-> v]
edgeOf(a, on) == [action |-> a, on |-> on]

\* A return to neutral is sent only when something off neutral is remembered as sent.
axisEdges(a, pressed) ==
  IF pressed = (a \in sentAxes) THEN <<>> ELSE <<axisEdge(a, IF pressed THEN 1 ELSE 0)>>

buttonEdges(a, pressed) ==
  IF a \in Axes THEN axisEdges(a, pressed)
  ELSE <<edgeOf(a, IF pressed THEN "press" ELSE "release")>>

\* Auto-repeat is no edge: the code is held already.
resolveKey(a, pressed) ==
  /\ pressed = (a \notin down)
  /\ down' = IF pressed THEN down \cup {a} ELSE down \ {a}
  /\ sentAxes' = IF a \notin Axes THEN sentAxes
                 ELSE IF pressed THEN sentAxes \cup {a} ELSE sentAxes \ {a}

acceptsInput == state = "live"

onKey(a, pressed) ==
  /\ Len(pending) < MaxPending
  /\ resolveKey(a, pressed)
  /\ pending' = IF acceptsInput THEN pending \o buttonEdges(a, pressed) ELSE pending
  /\ UNCHANGED <<state, acts, ringVars, seq, asked, clockVars, ack, rejoined, life,
                 uplink, downlink, serverVars>>

-----------------------------------------------------------------------------
(* The client's frame. *)

\* One entry per action and phase: a repeat takes the place of the first, with the last's value.
byAction(kept, edge) ==
  LET same(i) == kept[i].action = edge.action /\ kept[i].on = edge.on
  IN  IF \E i \in 1..Len(kept) : same(i)
      THEN [i \in 1..Len(kept) |-> IF same(i) THEN edge ELSE kept[i]]
      ELSE Append(kept, edge)

coalesce(edges) == FoldLeft(byAction, <<>>, edges)

\* Mutant: the frame a full ring drops is not folded into the horizon.
pushed_Forgets(frame) ==
  [ring |-> Append(IF Len(ring) >= RingTicks THEN Tail(ring) ELSE ring, frame), horizon |-> horizon]

pushed(frame) ==
  IF Len(ring) >= RingTicks
  THEN [ring |-> Append(Tail(ring), frame), horizon |-> foldInputEdges(horizon, Head(ring).edges)]
  ELSE [ring |-> Append(ring, frame), horizon |-> horizon]

\* What a flush leaves: the edges framed, sent, kept in the ring and folded into live input.
flushInput(edges, tick) ==
  LET frame == [seq |-> seq, edges |-> coalesce(edges)]
  IN  [acts |-> foldInputEdges(acts, edges), seq |-> seq + 1,
       ring |-> pushed(frame).ring, horizon |-> pushed(frame).horizon,
       uplink |-> Append(uplink, [kind |-> "input", seq |-> seq, edges |-> frame.edges,
                                  tick |-> tick, life |-> life])]

unflushed == [acts |-> acts, seq |-> seq, ring |-> ring, horizon |-> horizon, uplink |-> uplink]

\* A hidden tab is not driven, so its releases leave in the very handler.
release(edges, a) == edges \o buttonEdges(a, FALSE)

focusLost ==
  LET edges == FoldLeft(release, <<>>, SetToSeq(down))
      after == IF state = "joining" THEN unflushed ELSE flushInput(pending \o edges, lead)
  IN  /\ edges # <<>> /\ seq < MaxFrames
      /\ down' = {} /\ sentAxes' = {}
      /\ pending' = IF state = "joining" THEN pending \o edges ELSE <<>>
      /\ acts' = after.acts /\ seq' = after.seq /\ uplink' = after.uplink
      /\ ring' = after.ring /\ horizon' = after.horizon
      /\ UNCHANGED <<state, asked, clockVars, ack, rejoined, life, downlink, serverVars>>

\* What the wire missed is said again: axes always, presses after a join.
resumeInput(edges) ==
  LET axis == SetToSeq(acts'.axis)
      held == SetToSeq(acts'.held)
  IN  /\ sentAxes' = {}
      /\ pending' = edges \o [i \in 1..Len(axis) |-> axisEdge(axis[i], 1)]
                          \o (IF rejoined THEN [i \in 1..Len(held) |-> edgeOf(held[i], "press")]
                              ELSE <<>>)
      /\ rejoined' = FALSE

\* The world, the clock and what is unsent are dropped; the numbers go on.
resync(sent) ==
  /\ life < MaxResyncs
  /\ state' = "joining" /\ pending' = <<>>
  /\ ring' = <<>> /\ horizon' = acts'
  /\ ack' = -1
  /\ lead' = 0 /\ depicted' = Oldest
  /\ rejoined' = TRUE /\ life' = life + 1
  /\ uplink' = Append(sent, [kind |-> "join"])
  /\ UNCHANGED sentAxes

(***************************************************************************)
(* The single decider for "stalled", both ways: a second of silence, or an *)
(* acknowledgement that stood still for sixty ticks while a frame waits    *)
(* for one.  Either clock may have run out whenever its condition holds.   *)
(***************************************************************************)
Droughts == IF "drought" \in Faults /\ downlink = <<>> THEN BOOLEAN ELSE {FALSE}
Stills(unacked) == IF unacked # <<>> THEN BOOLEAN ELSE {FALSE}

checkLiveness(stalls, edges) ==
  /\ state' = IF stalls THEN "stalled" ELSE "live"
  /\ IF state = "stalled" /\ ~stalls THEN resumeInput(edges)
     ELSE pending' = edges /\ UNCHANGED <<sentAxes, rejoined>>

\* One display frame whose clock advanced n ticks: flush, then the behind and liveness checks.
frame(n) ==
  LET sends == acceptsInput /\ n > 0 /\ pending # <<>>
      after == IF sends THEN flushInput(pending, lead + n) ELSE unflushed
  IN  /\ state # "joining"
      /\ sends => seq < MaxFrames
      /\ lead + n <= MaxAhead
      /\ acts' = after.acts /\ seq' = after.seq
      /\ IF lead + n < depicted THEN resync(after.uplink)
         ELSE /\ lead' = lead + n
              /\ uplink' = after.uplink /\ ring' = after.ring /\ horizon' = after.horizon
              /\ \E drought \in Droughts, frozen \in Stills(after.ring) :
                   checkLiveness(drought \/ frozen,
                                 IF sends \/ ~acceptsInput THEN <<>> ELSE pending)
              /\ UNCHANGED <<depicted, ack, life>>
      /\ UNCHANGED <<down, asked, downlink, serverVars>>

\* A HUD press, a pointer hit or a request: gated like input, sent unnumbered and unacked.
ask ==
  /\ acceptsInput /\ uplink = <<>> /\ asked < MaxAsks
  /\ asked' = asked + 1
  /\ uplink' = Append(uplink, [kind |-> "ask"])
  /\ UNCHANGED <<deviceVars, state, pending, acts, ringVars, seq, clockVars, ack, rejoined, life,
                 downlink, serverVars>>

-----------------------------------------------------------------------------
(* What the client makes of an envelope. *)

\* The snapshot's tick seeds the clock, the measured round trip its lead.
onWelcome(envelope) ==
  IF state # "joining" THEN UNCHANGED clientVars
  ELSE \E rtt \in 1..MaxLead :
         /\ lead' = envelope.tick + rtt /\ depicted' = envelope.tick
         /\ state' = "live"
         /\ UNCHANGED <<down, acts, ringVars, seq, asked, ack, life>>
         /\ resumeInput(pending)

\* How many frames leave the ring: from its head on, while they are at or below n.
pruned(n) ==
  CHOOSE k \in 0..Len(ring) :
    /\ \A i \in 1..k : ring[i].seq <= n
    /\ k < Len(ring) => ring[k + 1].seq > n

\* Everything at or below the acknowledged number is folded into the horizon.
onState(envelope) ==
  LET newer == envelope.ack > ack
      k == pruned(envelope.ack)
  IN  IF state = "joining"
      THEN UNCHANGED clientVars
      ELSE /\ depicted' = envelope.tick
           /\ ack' = IF newer THEN envelope.ack ELSE ack
           /\ horizon' = IF newer THEN foldFrames(horizon, SubSeq(ring, 1, k)) ELSE horizon
           /\ ring' = IF newer THEN SubSeq(ring, k + 1, Len(ring)) ELSE ring
           /\ UNCHANGED <<deviceVars, state, pending, acts, seq, asked, lead, rejoined, life>>

\* A new rate is a new session on the same connection.
onRateChange ==
  IF state = "joining" THEN UNCHANGED <<clientVars, uplink>>
  ELSE UNCHANGED <<down, acts, seq, asked>> /\ resync(uplink)

drainInbox ==
  /\ downlink # <<>>
  /\ downlink' = Tail(downlink)
  /\ LET envelope == Head(downlink)
     IN  CASE envelope.kind = "welcome" -> onWelcome(envelope) /\ UNCHANGED uplink
           [] envelope.kind = "state" -> onState(envelope) /\ UNCHANGED uplink
           [] envelope.kind = "rate-change" -> onRateChange
  /\ UNCHANGED serverVars

-----------------------------------------------------------------------------
(* The authority: admission. *)

seen(n) == n \in arrived \/ n \in resolved

\* Mutant: a skipped number is left undated.
noteArrival_Undated(f) ==
  /\ arrived' = arrived \cup {f.seq}
  /\ highest' = IF f.seq > highest THEN f.seq ELSE highest
  /\ UNCHANGED gaps

\* Dates every number skipped: the frame that was skipped over names no later tick than this one.
noteArrival(f) ==
  /\ arrived' = arrived \cup {f.seq}
  /\ gaps' = [n \in DOMAIN gaps \cup {m \in (highest + 1)..(f.seq - 1) : m \notin resolved} |->
                IF n > highest THEN f.tick ELSE gaps[n]]
  /\ highest' = IF f.seq > highest THEN f.seq ELSE highest

\* A refused frame is settled too: the acknowledgement past it is the report.
resolve(f) == resolved' = resolved \cup {f.seq}

NoFrames == [t \in Slots |-> <<>>]
Filed == UNION {ToSet(buffer[t]) : t \in Slots}
FiledSeqs == {f.seq : f \in Filed}

\* Orders the close and forgets the session's buffered frames.
closeFor(given) ==
  /\ closed' = TRUE
  /\ buffer' = NoFrames
  /\ dropped' = dropped \cup given \cup FiledSeqs

takeToken == tokens > 0 /\ tokens' = tokens - 1 /\ UNCHANGED refusals

\* A connection over its ceiling loses what it sent; a sustained breach is closed.
overRate(given) ==
  /\ tokens = 0 /\ UNCHANGED tokens
  /\ refusals' = refusals + 1
  /\ IF refusals' >= Breach THEN closeFor(given)
     ELSE dropped' = dropped \cup given /\ UNCHANGED <<closed, buffer>>

admit(f) ==
  LET repeated == f.seq <= frontier \/ seen(f.seq)
      tooFar == f.seq > highest + MaxSeqGap
      outside == f.tick < -PastGrace \/ f.tick > FutureHorizon + ClampTicks
      at == IF f.tick > FutureHorizon THEN FutureHorizon ELSE f.tick
  IN  \/ /\ repeated \/ tooFar
         /\ dropped' = IF repeated THEN dropped ELSE dropped \cup {f.seq}
         /\ UNCHANGED <<arrived, gaps, highest, resolved, tokens, refusals, buffer, closed>>
      \/ /\ ~repeated /\ ~tooFar /\ noteArrival(f)
         /\ \/ /\ outside /\ resolve(f)
               /\ dropped' = dropped \cup {f.seq}
               /\ UNCHANGED <<tokens, refusals, closed, buffer>>
            \/ ~outside /\ overRate({f.seq}) /\ resolve(f)
            \/ /\ ~outside /\ takeToken
               /\ buffer' = [buffer EXCEPT ![at] =
                               Append(@, [seq |-> f.seq, edges |-> f.edges, life |-> f.life])]
               /\ UNCHANGED <<resolved, closed, dropped>>

\* A frame the validator refuses, an over-long one say, leaves nothing but a skipped number.
\* One dropped with nothing sent behind it is never dated; here another frame follows.
Unnamed == "overcap" \in Faults /\ \E i \in 2..Len(uplink) : uplink[i].kind = "input"

receive ==
  /\ uplink # <<>> /\ ~closed
  /\ LET message == Head(uplink)
         rest == <<frontier, resolved, arrived, gaps, highest>>
         mine == <<tokens, refusals, buffer, closed, dropped>>
     IN  \/ /\ message.kind = "join" /\ owed' = TRUE /\ UNCHANGED <<rest, mine>>
            /\ uplink' = Tail(uplink)
         \/ /\ message.kind = "ask" /\ UNCHANGED <<rest, owed>>
            /\ (takeToken /\ UNCHANGED <<buffer, closed, dropped>>) \/ overRate({})
            /\ uplink' = Tail(uplink)
         \/ /\ message.kind = "input" /\ admit(message)
            /\ UNCHANGED <<frontier, owed>>
            /\ \/ uplink' = Tail(uplink)
               \/ "replay" \in Faults /\ ~seen(message.seq) /\ UNCHANGED uplink
         \/ /\ message.kind = "input" /\ Unnamed
            /\ ~seen(message.seq) /\ message.seq > frontier
            /\ dropped' = dropped \cup {message.seq}
            /\ uplink' = Tail(uplink)
            /\ UNCHANGED <<rest, tokens, refusals, buffer, closed, owed>>
  /\ UNCHANGED <<clientVars, downlink, folded, log, letGo>>

-----------------------------------------------------------------------------
(* The authority: a tick. *)

age(tick) == IF tick > Oldest THEN tick - 1 ELSE tick
aged(messages) ==
  [i \in 1..Len(messages) |->
     IF messages[i].kind \in {"input", "state", "welcome"}
     THEN [messages[i] EXCEPT !.tick = age(@)]
     ELSE messages[i]]

slotOut(out, slot) == out \o slot

\* Mutant: the slots are walked newest tick first.
drainThrough_NewestFirst == FoldLeft(slotOut, <<>>, [i \in 1..(PastGrace + 2) |-> buffer[2 - i]])

\* What the next tick drains: oldest tick first, in order of arrival within a tick.
drainThrough == FoldLeft(slotOut, <<>>, [i \in 1..(PastGrace + 2) |-> buffer[i + Oldest]])

\* Mutant: the frontier as a high-water mark.
takeAck_HighWater(settled) == highest

\* The contiguous run of settled numbers above the frontier.
takeAck(settled) ==
  CHOOSE n \in frontier..highest :
    /\ \A m \in (frontier + 1)..n : m \in settled
    /\ n + 1 \notin settled

\* What a session that is owed a Welcome gets is that, any other the state and its ack.
send(settled) ==
  IF owed THEN /\ downlink' = Append(aged(downlink), [kind |-> "welcome", tick |-> 0])
               /\ owed' = FALSE /\ resolved' = settled
               /\ UNCHANGED <<frontier, arrived>>
  ELSE LET n == takeAck(settled)
       IN  /\ downlink' = Append(aged(downlink), [kind |-> "state", ack |-> n, tick |-> 0])
           /\ frontier' = n
           /\ resolved' = {m \in settled : m > n}
           /\ arrived' = {m \in arrived : m > n}
           /\ UNCHANGED owed

\* The backstop: five seconds without a frame release every key a peer holds.
Silences == IF "silent" \in Faults /\ uplink = <<>> /\ folded # Neutral THEN BOOLEAN ELSE {FALSE}

\* One step: refill, drain and fold what is due, let a silent peer's keys go, date the gaps,
\* and on a send tick answer.
stepOnce(sends) ==
  LET due == drainThrough
      bound == [n \in DOMAIN gaps |-> age(gaps[n])]
      stale == {n \in DOMAIN bound : bound[n] < -PastGrace}
      applied == {due[i].seq : i \in 1..Len(due)}
      settled == resolved \cup {n \in applied : n > frontier} \cup stale
  IN  /\ ~closed /\ (state # "joining" => lead > (IF life < MaxResyncs THEN -MaxDrift ELSE 0))
      /\ tokens' = IF tokens < Bucket THEN tokens + 1 ELSE tokens
      /\ \E silent \in Silences : /\ folded' = IF silent THEN Neutral ELSE foldFrames(folded, due)
                                 /\ letGo' = (letGo \/ silent)
      /\ buffer' = [t \in Slots |-> IF t \in 1..(FutureHorizon - 1) THEN buffer[t + 1] ELSE <<>>]
      /\ log' = log \o [i \in 1..Len(due) |-> [seq |-> due[i].seq, life |-> due[i].life]]
      /\ gaps' = [n \in DOMAIN gaps \ (stale \cup applied) |-> bound[n]]
      /\ IF sends THEN Len(downlink) < MaxFlight /\ send(settled)
         ELSE resolved' = settled /\ downlink' = aged(downlink)
                /\ UNCHANGED <<frontier, arrived, owed>>
      /\ uplink' = aged(uplink)
      /\ lead' = IF state = "joining" THEN lead ELSE lead - 1
      /\ depicted' = age(depicted)
      /\ UNCHANGED <<deviceVars, state, pending, acts, ringVars, seq, asked, ack, rejoined, life,
                     highest, refusals, closed, dropped>>

\* The host retunes the rate: every joined session is told.
setSimRate ==
  /\ ~closed /\ ~owed /\ life < MaxResyncs /\ downlink = <<>> /\ state # "joining"
  /\ downlink' = <<[kind |-> "rate-change"]>>
  /\ UNCHANGED <<clientVars, uplink, serverVars>>

-----------------------------------------------------------------------------
Init ==
  /\ down = {} /\ sentAxes = {} /\ state = "joining" /\ pending = <<>> /\ acts = Neutral
  /\ ring = <<>> /\ horizon = Neutral /\ seq = 0 /\ asked = 0 /\ lead = 0 /\ depicted = Oldest
  /\ ack = -1 /\ rejoined = FALSE
  /\ uplink = <<[kind |-> "join"]>> /\ downlink = <<>>
  /\ frontier = -1 /\ resolved = {} /\ arrived = {} /\ gaps = [n \in {} |-> 0] /\ highest = -1
  /\ tokens = Bucket /\ refusals = 0
  /\ buffer = NoFrames /\ folded = Neutral /\ owed = FALSE /\ closed = FALSE
  /\ log = <<>> /\ dropped = {} /\ letGo = FALSE /\ life = 0

device == focusLost \/ \E a \in Actions, pressed \in BOOLEAN : onKey(a, pressed)
frames == \E n \in 0..1 : frame(n)
steps == \E sends \in BOOLEAN : stepOnce(sends)

Next ==
  \/ device \/ frames \/ ask \/ drainInbox
  \/ receive \/ steps \/ setSimRate

Spec == Init /\ [][Next]_vars

-----------------------------------------------------------------------------
(* Properties. *)

Frame == [seq : Seqs, edges : Seq(Edges)]
Entry == [seq : Seqs, edges : Seq(Edges), life : 0..MaxResyncs]
Uplinked ==
  [kind : {"join", "ask"}] \cup
  [kind : {"input"}, seq : Seqs, edges : Seq(Edges), tick : Int, life : 0..MaxResyncs]
Downlinked ==
  [kind : {"rate-change"}] \cup [kind : {"welcome"}, tick : Oldest..0] \cup
  [kind : {"state"}, tick : Oldest..0, ack : Seqs \cup {-1}]

\* The state every client and every session is in.
TypeOK ==
  /\ down \subseteq Actions /\ sentAxes \subseteq Axes
  /\ state \in {"joining", "live", "stalled"} /\ acts \in Held /\ horizon \in Held
  /\ pending \in Seq(Edges) /\ ring \in Seq(Frame)
  /\ seq \in 0..MaxFrames /\ asked \in 0..MaxAsks
  /\ lead \in Int /\ depicted \in Oldest..0 /\ ack \in Seqs \cup {-1}
  /\ rejoined \in BOOLEAN /\ owed \in BOOLEAN /\ closed \in BOOLEAN /\ letGo \in BOOLEAN
  /\ uplink \in Seq(Uplinked) /\ downlink \in Seq(Downlinked)
  /\ frontier \in Seqs \cup {-1} /\ highest \in Seqs \cup {-1}
  /\ resolved \subseteq Seqs /\ arrived \subseteq Seqs /\ dropped \subseteq Seqs
  /\ DOMAIN gaps \subseteq Seqs /\ gaps \in [DOMAIN gaps -> Int]
  /\ tokens \in 0..Bucket /\ refusals \in Nat
  /\ buffer \in [Slots -> Seq(Entry)] /\ folded \in Held
  /\ log \in Seq([seq : Seqs, life : 0..MaxResyncs]) /\ life \in 0..MaxResyncs

(***************************************************************************)
(* Within one life of the client's clock the authority applies frames in   *)
(* the order the player made them, each at most once, whatever was clamped *)
(* to the horizon, arrived late or was replayed (InputBuffer.admit,        *)
(* drainThrough): a release never overtakes its press.                     *)
(***************************************************************************)
AppliedInOrder ==
  \A i, j \in 1..Len(log) :
    i < j => /\ log[i].seq # log[j].seq
             /\ log[i].life = log[j].life => log[i].seq < log[j].seq

(***************************************************************************)
(* All three folds of one player's input agree.  What the ring's horizon   *)
(* holds, carried over every frame still unacked, is the client's live     *)
(* input, so a resimulation after an ack, an overflow or a resync never    *)
(* lets go of a held key or keeps a released one.  And once every frame    *)
(* has been applied, in order, the authority holds what the client holds   *)
(* (InputRing, Prediction.seedActions, foldInputEdges).  This is of at     *)
(* most two edges of a key between two flushes, a MaxPending of one and a  *)
(* lost focus: of a third, coalescing keeps the value and not the place.   *)
(***************************************************************************)
InFlight == \E i \in 1..Len(uplink) : uplink[i].kind = "input"
FoldsAgree ==
  /\ foldFrames(horizon, ring) = acts
  /\ ~InFlight /\ buffer = NoFrames /\ dropped = {} /\ ~letGo
       /\ (\A i, j \in 1..Len(log) : i < j => log[i].seq < log[j].seq)
     => folded = acts

(***************************************************************************)
(* Nothing the acknowledgement waits for can be waited for in vain: every  *)
(* number above the frontier and below the newest arrival is settled, is   *)
(* buffered for a tick still to come, or is dated so that the window will  *)
(* abandon it (AdmissionState.noteArrival, abandonStale).  A number left   *)
(* out would freeze the ack and the player's controls for good.            *)
(***************************************************************************)
NothingStuck ==
  ~closed => \A n \in (frontier + 1)..highest :
               n \in resolved \cup DOMAIN gaps \cup FiledSeqs

appliedSeqs == {log[i].seq : i \in 1..Len(log)}
fateOf == [s \in Seqs |->
  IF s >= seq THEN "unsent"
  ELSE IF s \in appliedSeqs \cap dropped THEN "both"
  ELSE IF s \in appliedSeqs THEN "applied"
  ELSE IF s \in dropped THEN "dropped" ELSE "sent"]

Ledger == INSTANCE InputLedger WITH fate <- fateOf, told <- ack

(***************************************************************************)
(* The whole path keeps the ledger's promise: no frame is settled twice    *)
(* and the client is never told to forget one that is not settled          *)
(* (AdmissionState.takeAck, InputRing.ack).                                *)
(***************************************************************************)
KeepsLedger == Ledger!Spec
=============================================================================
