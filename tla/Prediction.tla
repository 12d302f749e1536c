------------------------------ MODULE Prediction ------------------------------
(***************************************************************************)
(* The client's prediction of its own avatar (packages/client): what the   *)
(* server says lands on the authoritative baseline, and the ticks up to    *)
(* the local one are simulated over it from the unacked input              *)
(* (prediction.ts, passes.ts, ring.ts), the difference going to the        *)
(* display as a correction (bridge.ts).  The server is its tick: frames    *)
(* due are folded, the avatar moves, and at send rate a state envelope     *)
(* with the ack is followed by a transform envelope with the poses that    *)
(* changed.                                                                *)
(*                                                                         *)
(* One avatar on TopDownMovement, whose velocity is its intent, on one     *)
(* axis; `count` is a @serverState field a synced handler counts input     *)
(* with.  The client stays live and its clock ahead of the server's:       *)
(* stalls, resyncs and refused frames are in Inputs.                       *)
(***************************************************************************)
EXTENDS Integers, Sequences, SequencesExt

CONSTANTS
    Speeds,             \* values of the move axis
    SendEvery,          \* ticks between two sends
    MAX_REPLAY_TICKS,
    SNAP_DISTANCE,      \* the root of CORRECTION_SNAP_DISTANCE_SQUARED
    MaxLocalTick,       \* bound: the client's clock
    MaxSent,            \* bound: input frames
    MaxShed             \* bound: transform envelopes shed for backlog

ASSUME PredictionAssumption ==
    /\ 0 \in Speeds /\ Speeds \subseteq Nat
    /\ {SendEvery, MAX_REPLAY_TICKS} \subseteq Nat \ {0}
    /\ {SNAP_DISTANCE, MaxLocalTick, MaxSent, MaxShed} \subseteq Nat

Same == -1              \* a delta that does not name the value

VARIABLES
    auth,               \* the server: [tick, pose, count, axis, told] and what it last told
    due,                \* InputBuffer: frames that arrived and wait for their tick
    rising, falling,    \* the two directions of the connection
    local,              \* ClientClock's tick
    unacked, horizonAxis,   \* InputRing's frames, and what is held below them
    mirror,             \* the client's world and ackSeq: [pose, count, depicted, acked], and as history
                        \* the tick of the last transform applied
    base,               \* the baseline captured: [tick, pose, count]
    fold, predicted,    \* the replay's axis, #predictedTick
    drawn,              \* RenderBridge's correction: what is added to the pose it draws
    sentFrames,         \* history: every frame
    tardy,              \* history: a frame reached the server after its tick was simulated
    shed, missed,       \* history: envelopes shed, tick of a pose that was shed and not told since,
                        \* or 0
    blurred             \* history: a frame went out after its tick was predicted, and no replay since

predictionVars == <<auth, due, rising, falling, local, unacked, horizonAxis, mirror, base, fold,
                    predicted, drawn, sentFrames, tardy, shed, missed, blurred>>
clientSide == <<local, unacked, horizonAxis, mirror, base, fold, predicted, drawn, sentFrames,
                blurred>>

PredictionInit ==
    /\ auth = [tick |-> 0, pose |-> 0, count |-> 0, axis |-> 0, ack |-> 0,
               told |-> [pose |-> 0, count |-> 0]]
    /\ due = <<>> /\ rising = <<>> /\ falling = <<>>
    /\ local = 1
    /\ unacked = <<>> /\ horizonAxis = 0
    /\ mirror = [pose |-> 0, count |-> 0, depicted |-> 0, acked |-> 0, posed |-> 0]
    /\ base = [tick |-> 0, pose |-> 0, count |-> 0]
    /\ fold = 0 /\ predicted = 0
    /\ drawn = 0
    /\ sentFrames = <<>> /\ tardy = FALSE
    /\ shed = 0 /\ missed = 0 /\ blurred = FALSE

-----------------------------------------------------------------------------
\* Frames are numbered and stamped in the order they are sent, so those up to a tick, or up to a
\* number, lead the list.
leading(s, t) ==
    CHOOSE k \in 0..Len(s) : /\ \A i \in 1..k : s[i].tick <= t
                             /\ k < Len(s) => s[k + 1].tick > t
through(s, t) == SubSeq(s, 1, leading(s, t))
beyond(s, t) == SubSeq(s, leading(s, t) + 1, Len(s))

prunable(s, n) ==
    CHOOSE k \in 0..Len(s) : /\ \A i \in 1..k : s[i].seq <= n
                             /\ k < Len(s) => s[k + 1].seq > n

-----------------------------------------------------------------------------
\* A tick, of either end: the frames due are folded in the order they were sent, each of them an
\* event at the handler that counts, and the axis is the velocity the avatar moves at.
axisAfter(axis, frames) == IF frames = <<>> THEN axis ELSE Last(frames).value

ticked(w, axis, frames) ==
    [w EXCEPT !.pose = @ + axisAfter(axis, frames), !.count = @ + Len(frames)]

-----------------------------------------------------------------------------
\* The server.

\* What changed since the last send, and the value no longer owed.
delta(now, told) == IF now = told THEN Same ELSE now

stepAuthority ==
    LET t    == auth.tick + 1
        now  == through(due, t)
        next == ticked(auth, auth.axis, now)
        ack  == IF now = <<>> THEN auth.ack ELSE Last(now).seq
        send == t % SendEvery = 0
    IN  /\ auth.tick < local
        /\ due' = beyond(due, t)
        /\ auth' = [next EXCEPT !.tick = t, !.axis = axisAfter(auth.axis, now), !.ack = ack,
                    !.told = IF send THEN [pose |-> next.pose, count |-> next.count] ELSE @]
        /\ falling' = IF send
                      THEN falling \o
                           <<[kind |-> "state", tick |-> t, ack |-> ack,
                              count |-> delta(next.count, auth.told.count)],
                             [kind |-> "transform", tick |-> t,
                              pose |-> delta(next.pose, auth.told.pose)]>>
                      ELSE falling
        /\ tardy' = (tardy \/ \E f \in ToSet(rising) : f.tick <= t)
        /\ UNCHANGED <<rising, clientSide, shed, missed>>

arriveInput ==
    /\ rising /= <<>>
    /\ due' = Append(due, Head(rising))
    /\ rising' = Tail(rising)
    /\ UNCHANGED <<auth, falling, clientSide, tardy, shed, missed>>

\* A droppable frame behind a backlog is not written.
shedTransform ==
    /\ shed < MaxShed
    /\ falling /= <<>> /\ Last(falling).kind = "transform"
    /\ falling' = Front(falling)
    /\ shed' = shed + 1
    /\ missed' = IF Last(falling).pose = Same THEN missed ELSE Last(falling).tick
    /\ UNCHANGED <<auth, due, rising, clientSide, tardy>>

-----------------------------------------------------------------------------
\* One frame of the client: drain, advance the clock, flush, predict.

\* Mutant: a batch that only carries a transform is written over the predicted world.
rewind_StateOnly(batch) ==
    IF \E e \in ToSet(batch) : e.kind = "state"
    THEN [mirror EXCEPT !.pose = base.pose, !.count = base.count] ELSE mirror

\* The predicted ticks are taken back before the first authoritative write.
rewind(batch) ==
    IF batch = <<>> THEN mirror
    ELSE [mirror EXCEPT !.pose = base.pose, !.count = base.count]

written(was, said) == IF said = Same THEN was ELSE said

applyEnvelope(m, e) ==
    IF e.kind = "state"
    THEN [m EXCEPT !.depicted = e.tick, !.count = written(@, e.count),
                   !.acked = IF e.ack > @ THEN e.ack ELSE @]
    ELSE [m EXCEPT !.pose = written(@, e.pose), !.posed = e.tick]

applyBatch(m, batch) == FoldLeft(applyEnvelope, m, batch)

\* Mutant: a frame from below the baseline is taken to be in the horizon already.
heldAtHorizon_OnTime(pruned) ==
    axisAfter(horizonAxis, SelectSeq(pruned, LAMBDA f : f.tick > base.tick))

\* What the ack prunes from the ring is held at its horizon.
heldAtHorizon(pruned) == axisAfter(horizonAxis, pruned)

\* The fold a replay starts from: the horizon, and every frame the authority is past.
seedActions(held, ring, depicted) ==
    axisAfter(held, through(ring, depicted))

frameFor(ring, t) == through(beyond(ring, t - 1), t)

\* One tick of the client: [pose, count, axis].
stepped(w, frames) == [ticked(w, w.axis, frames) EXCEPT !.axis = axisAfter(w.axis, frames)]

\* The ticks after `at` to `to`, one by one.
stepThrough(w, ring, at, to) ==
    LET world[t \in at..to] == IF t = at THEN w ELSE stepped(world[t - 1], frameFor(ring, t))
    IN  world[to]

\* The tick a replay goes on from: a span past the ring is cut to its newest ticks.
replayFrom(at, to) == IF to - at > MAX_REPLAY_TICKS THEN to - MAX_REPLAY_TICKS ELSE at

\* What was on screen before the rewind and is not where the replay ended is eased away, or shown at
\* once when it is far.  An ease that nothing renews has run out or has not.
Distance(d) == IF d < 0 THEN -d ELSE d
measureCorrections(again, pose) ==
    LET off == mirror.pose + drawn - pose
    IN  CASE ~again \/ off = 0 -> {0, drawn}
          [] again /\ Distance(off) > SNAP_DISTANCE -> {0}
          [] OTHER -> {off}

\* The first `k` envelopes are drained, the clock gains `n` ticks, and an axis that moved to `v` is
\* flushed with the newest of them.
clientFrame(k, n, v) ==
    LET batch  == SubSeq(falling, 1, k)
        m      == applyBatch(rewind(batch), batch)
        cut    == prunable(unacked, m.acked)
        held   == heldAtHorizon(SubSeq(unacked, 1, cut))
        moved  == n > 0 /\ v /= axisAfter(0, sentFrames)
        frame  == [seq |-> Len(sentFrames) + 1, tick |-> local + n, value |-> v]
        ring   == SubSeq(unacked, cut + 1, Len(unacked)) \o (IF moved THEN <<frame>> ELSE <<>>)
        again  == batch /= <<>>
        start  == [pose |-> m.pose, count |-> m.count,
                   axis |-> IF again THEN seedActions(held, ring, m.depicted) ELSE fold]
        now    == local + n
        at     == IF again THEN m.depicted ELSE predicted
        after  == stepThrough(start, ring, replayFrom(at, now), now)
        saw    == {e \in ToSet(batch) : e.kind = "transform"}
    IN  /\ local' = now
        /\ v = axisAfter(0, sentFrames) \/ (n > 0 /\ Len(sentFrames) < MaxSent)
        /\ falling' = SubSeq(falling, k + 1, Len(falling))
        /\ unacked' = ring
        /\ horizonAxis' = held
        /\ sentFrames' = IF moved THEN Append(sentFrames, frame) ELSE sentFrames
        /\ rising' = IF moved THEN Append(rising, frame) ELSE rising
        /\ base' = IF again THEN [tick |-> m.depicted, pose |-> m.pose, count |-> m.count] ELSE base
        /\ mirror' = [m EXCEPT !.pose = after.pose, !.count = after.count]
        /\ fold' = after.axis
        /\ predicted' = now
        /\ missed' = IF \E e \in saw : e.pose /= Same /\ e.tick > missed THEN 0 ELSE missed
        /\ drawn' \in measureCorrections(again, after.pose)
        /\ blurred' = (blurred /\ ~again)
        /\ UNCHANGED <<auth, due, tardy, shed>>

\* A hidden tab is not driven: its releases leave in the handler, stamped with the tick predicted.
focusLoss ==
    LET frame == [seq |-> Len(sentFrames) + 1, tick |-> local, value |-> 0]
    IN  /\ axisAfter(0, sentFrames) /= 0 /\ Len(sentFrames) < MaxSent
        /\ unacked' = Append(unacked, frame)
        /\ sentFrames' = Append(sentFrames, frame)
        /\ rising' = Append(rising, frame)
        /\ blurred' = TRUE
        /\ tardy' = (tardy \/ local <= auth.tick)
        /\ UNCHANGED <<auth, due, falling, local, horizonAxis, mirror, base, fold, predicted, drawn,
                       shed, missed>>

PredictionNext ==
    \/ stepAuthority \/ arriveInput \/ shedTransform \/ focusLoss
    \/ \E k \in 0..Len(falling), n \in 0..2, v \in Speeds :
          local + n <= MaxLocalTick /\ clientFrame(k, n, v)

PredictionSpec == PredictionInit /\ [][PredictionNext]_predictionVars

-----------------------------------------------------------------------------
\* The client was told the pose at the tick it depicts, its replay was not cut, and no frame went out
\* behind its back.
Told == mirror.posed = mirror.depicted /\ missed = 0 /\ ~blurred
Whole == local - base.tick <= MAX_REPLAY_TICKS

\* What `frames` amount to at tick `t`, if each is simulated on the tick it is stamped.
AxisAt(frames, t) == axisAfter(0, through(frames, t))
PoseAt(frames, t) ==
    LET pose[n \in 0..t] == IF n = 0 THEN 0 ELSE pose[n - 1] + AxisAt(frames, n)
    IN  pose[t]

\* A client whose frames all arrive in time shows the future: the pose and the state it predicts for
\* its local tick are those the server reaches on that tick, whatever was acked, replayed or omitted
\* from a delta on the way.
PredictionAgrees ==
    ~tardy /\ Told /\ Whole =>
        /\ mirror.pose = PoseAt(sentFrames, local)
        /\ mirror.count = leading(sentFrames, local)

\* Also after frames that came too late: once everything sent is simulated, acked and told, the
\* client predicts from what the server holds.
LateIsMended ==
    /\ rising = <<>> /\ due = <<>> /\ falling = <<>> /\ unacked = <<>>
    /\ Told /\ Whole /\ mirror.depicted = auth.tick
    => /\ mirror.pose = auth.pose + auth.axis * (local - auth.tick)
       /\ mirror.count = auth.count
=============================================================================
