-------------------------------- MODULE Scripts --------------------------------
(***************************************************************************)
(* Creator code inside the engine (packages/core/src): the tick's passes   *)
(* (loop/loop.ts, runtime/load-game.ts), the dispatcher with its           *)
(* concurrency locks and its breaker (dispatch/), the timers and tweens a  *)
(* handler waits on (loop/), and the hosts whose end cancels what they own *)
(* (world/entity-manager.ts, runtime/player.ts, runtime/hosts.ts).         *)
(*                                                                         *)
(* One authoritative world, one script per host, every handler with the    *)
(* `ignore` lock.  Creator code is a choice: what a handler does up to its *)
(* next await is a segment, at most one call into the engine and then a    *)
(* return, a throw or an await.  An instance is <<host, life>>, which also *)
(* names the host's scope.                                                 *)
(***************************************************************************)
EXTENDS Naturals, Sequences, SequencesExt, FiniteSetsExt

CONSTANTS
    Things,             \* entities a script may spawn and destroy
    Guests,             \* players
    BREAKER_THRESHOLD,
    MaxTicks,
    MaxLives,           \* times a host may come into being
    MaxCalls            \* engine calls, throws and awaits of creator code

ASSUME ScriptsAssumption ==
    /\ Things \cap Guests = {} /\ "game" \notin Things \cup Guests
    /\ BREAKER_THRESHOLD \in Nat \ {0}
    /\ {MaxTicks, MaxLives, MaxCalls} \subseteq Nat

Hosts == {"game"} \cup Guests \cup Things
METHODS == {"start", "event", "update", "end"}

VARIABLES
    lives, up,          \* HostTable: which life each host is in, and the hosts registered
    attached, owed,     \* InstanceRegistry: instances in order, and those owed their @onStart
    doomed,             \* EntityManager's pending destroys
    runs,               \* invocations that have not settled
    timers, tweens,
    throws,             \* BreakerCounters, of the instances attached
    calls,              \* ids minted by timers and tweens, and the rest of MaxCalls
    now, phase, work,   \* the tick, the pass it is in, and what the pass has still to visit
    ended               \* instances whose host's @onEnd has gone out

scriptVars == <<lives, up, attached, owed, doomed, runs, timers, tweens, throws, calls, now, phase,
                work, ended>>
hostVars == <<lives, up, attached, owed>>

Calm == [m \in METHODS |-> 0]

ScriptsInit ==
    /\ lives = [h \in Hosts |-> IF h = "game" THEN 1 ELSE 0]
    /\ up = {"game"}
    /\ attached = <<<<"game", 1>>>> /\ owed = <<<<"game", 1>>>>
    /\ doomed = <<>>
    /\ runs = {} /\ timers = {} /\ tweens = {}
    /\ throws = [h \in Hosts |-> Calm]
    /\ calls = 0
    /\ now = 0 /\ phase = "between" /\ work = <<>>
    /\ ended = {}

Live(i) == i[1] \in up /\ lives[i[1]] = i[2]

-----------------------------------------------------------------------------
\* Hosts.

\* A host comes into being with its script, which is owed a start.
hosted(h) ==
    LET i == <<h, lives[h] + 1>>
    IN  /\ lives' = [lives EXCEPT ![h] = @ + 1]
        /\ up' = up \cup {h}
        /\ attached' = Append(attached, i)
        /\ owed' = Append(owed, i)

\* Instances go with their host, and so do the starts they are owed.
removeHost(gone) ==
    /\ attached' = SelectSeq(attached, LAMBDA i : i \notin gone)
    /\ owed' = SelectSeq(owed, LAMBDA i : i \notin gone)

\* hosts.remove and forgetInstance: the scope is destroyed, its invocations are dead, its counts go.
remove(gone) ==
    /\ removeHost(gone)
    /\ up' = up \ {i[1] : i \in gone}
    /\ throws' = [h \in Hosts |-> IF \E i \in gone : i[1] = h THEN Calm ELSE throws[h]]
    /\ UNCHANGED lives

\* Mutant: a tween that is cancelled leaves its waiter where it is.
resolved_Silently(rs, ids) == rs

\* A tween or a sleep resolves, and the body behind it will run once the engine returns.
resolved(rs, ids) == {[r EXCEPT !.ready = r.ready \/ r.on \in ids] : r \in rs}

dead(rs, gone) == {[r EXCEPT !.live = r.live /\ r.of \notin gone] : r \in rs}

-----------------------------------------------------------------------------
\* One segment of creator code, under the ambient of the instance `i`.

Ends == {"return", "throw", "sleep", "glide"}
Acts == {"nothing", "every", "after", "spawn", "destroy"}
Segments == {s \in [act : Acts, end : Ends] : s.act = "nothing" \/ s.end \in {"return", "glide"}}
Cost(s) == (IF s.act = "nothing" THEN 0 ELSE 1) + (IF s.end = "return" THEN 0 ELSE 1)

\* What it registers.
Timer(i, kind, id) ==
    [id |-> id, kind |-> kind, of |-> i, left |-> IF kind = "sleep" THEN 2 ELSE 1, bad |-> 0]
registered(i, s) ==
    (IF s.act \in {"every", "after"} THEN {Timer(i, s.act, calls + 1)} ELSE {}) \cup
    (IF s.end = "sleep" THEN {Timer(i, "sleep", calls + Cost(s))} ELSE {})

\* spawn and destroy reach any entity; a destroy only flips `alive`, and the drain does the rest.
reaches(s) ==
    CASE s.act = "spawn" ->
            /\ \E x \in Things \ up : lives[x] < MaxLives /\ hosted(x)
            /\ UNCHANGED doomed
      [] s.act = "destroy" ->
            /\ \E x \in (Things \cap up) \ ToSet(doomed) : doomed' = Append(doomed, x)
            /\ UNCHANGED hostVars
      [] OTHER -> UNCHANGED <<doomed, hostVars>>

\* A glide takes over its host's property: the tween before it is cancelled, which resolves it too.
Displaced(i, s) == {t \in tweens : s.end = "glide" /\ t.of[1] = i[1]}

parks(i, m, s, live) ==
    IF s.end \in {"sleep", "glide"}
    THEN {[of |-> i, method |-> m, on |-> calls + Cost(s), ready |-> FALSE, live |-> live]}
    ELSE {}

\* The call settles or parks; a throw is charged and a success clears the count.
counted(i, m, s) ==
    IF ~Live(i) \/ s.end \in {"sleep", "glide"} THEN throws
    ELSE [throws EXCEPT ![i[1]][m] = IF s.end = "throw" THEN @ + 1 ELSE 0]

segment(i, m, s, rs, live) ==
    LET old == Displaced(i, s)
    IN  /\ calls + Cost(s) <= MaxCalls
        /\ calls' = calls + Cost(s)
        /\ reaches(s)
        /\ timers' = timers \cup registered(i, s)
        /\ tweens' = (tweens \ old) \cup
                     (IF s.end = "glide" THEN {[id |-> calls + Cost(s), of |-> i, left |-> 2]} ELSE {})
        /\ runs' = resolved(rs, {t.id : t \in old}) \cup parks(i, m, s, live)
        /\ throws' = IF live THEN counted(i, m, s) ELSE throws

idle == UNCHANGED <<hostVars, doomed, runs, timers, tweens, throws, calls>>

\* Dispatcher.#invoke: nothing for a handler that is disabled, or running already.
disabled(i, m) == Live(i) /\ throws[i[1]][m] >= BREAKER_THRESHOLD
findRunning(i, m) == {r \in runs : r.live /\ r.of = i /\ r.method = m}

dispatch(i, m) ==
    IF disabled(i, m) \/ findRunning(i, m) /= {}
    THEN idle
    ELSE \E s \in Segments : segment(i, m, s, runs, TRUE)

-----------------------------------------------------------------------------
\* Between ticks.

\* The body behind a resolved await goes on, also when its invocation is dead.
resume(r) ==
    /\ phase = "between"
    /\ r.ready
    /\ \E s \in Segments : segment(r.of, r.method, s, runs \ {r}, r.live)
    /\ UNCHANGED <<now, phase, work, ended>>

Settled == \A r \in runs : ~r.ready

\* joinPlayer: the player's host, with the script the Game's handler adds.
joinPlayer(g) ==
    /\ phase = "between" /\ Settled
    /\ g \notin up /\ lives[g] < MaxLives
    /\ hosted(g)
    /\ UNCHANGED <<doomed, runs, timers, tweens, throws, calls, now, phase, work, ended>>

\* leavePlayer: @onEnd at the player's scripts, then the player's hosts go, with their instances and
\* their scopes.  Nothing is said to the timers and tweens.
leavePlayer(g) ==
    /\ phase = "between" /\ Settled
    /\ g \in up
    /\ dispatch(<<g, lives[g]>>, "end")
    /\ phase' = "leaving" /\ work' = <<<<g, lives[g]>>>>
    /\ ended' = ended \cup {<<g, lives[g]>>}
    /\ UNCHANGED now

playerRemoved ==
    /\ phase = "leaving"
    /\ remove(ToSet(work))
    /\ runs' = dead(runs, ToSet(work))
    /\ phase' = "between" /\ work' = <<>>
    /\ UNCHANGED <<doomed, timers, tweens, calls, now, ended>>

-----------------------------------------------------------------------------
\* A tick, pass by pass.

visit(f, ws) == phase' = f /\ work' = ws

step ==
    /\ phase = "between" /\ Settled
    /\ now < MaxTicks
    /\ now' = now + 1
    /\ visit("starts", owed)
    /\ owed' = <<>>
    /\ UNCHANGED <<lives, up, attached, doomed, runs, timers, tweens, throws, calls, ended>>

\* The next thing a pass visits, or the next pass.
visits(f) == phase = f /\ work /= <<>> /\ visit(f, Tail(work)) /\ UNCHANGED <<now, ended>>
turns(f) == phase = f /\ work = <<>> /\ UNCHANGED <<now, ended>>

starts == visits("starts") /\ dispatch(Head(work), "start")
startsOver == turns("starts") /\ visit("input", <<>>) /\ idle

\* The input pass: an event at one host, or none.
inputPass ==
    /\ turns("input")
    /\ \/ \E h \in up \ ToSet(doomed) : dispatch(<<h, lives[h]>>, "event")
       \/ idle
    /\ visit("due", <<>>)

\* Every timer comes a tick nearer; the due ones fire in the order of their ids.
ById(ts) == SetToSortSeq({t.id : t \in ts}, LAMBDA a, b : a < b)
advance ==
    /\ turns("due")
    /\ timers' = {[t EXCEPT !.left = @ - 1] : t \in timers}
    /\ visit("timers", ById({t \in timers : t.left = 1}))
    /\ UNCHANGED <<hostVars, doomed, runs, tweens, throws, calls>>

\* A due timer: one that was cancelled meanwhile is passed over, a sleep wakes its body, and a callback
\* runs under the guard, which charges a throw to the timer.
fire ==
    /\ visits("timers")
    /\ \/ (~\E t \in timers : t.id = Head(work)) /\ idle
       \/ \E t \in timers :
            /\ t.id = Head(work)
            /\ LET rest == (timers \ {t}) \cup
                           (IF t.kind = "every" THEN {[t EXCEPT !.left = 1]} ELSE {})
               IN  IF t.kind = "sleep"
                   THEN /\ timers' = rest /\ runs' = resolved(runs, {t.id})
                        /\ UNCHANGED <<hostVars, doomed, tweens, throws, calls>>
                   ELSE IF t.bad >= BREAKER_THRESHOLD
                   THEN timers' = rest /\ UNCHANGED <<hostVars, doomed, runs, tweens, throws, calls>>
                   ELSE \E s \in {s \in Segments : s.end \in {"return", "throw"}} :
                          /\ calls + Cost(s) <= MaxCalls /\ calls' = calls + Cost(s)
                          /\ reaches(s)
                          /\ timers' = registered(t.of, s) \cup
                                {IF u.id = t.id THEN [u EXCEPT !.bad = IF s.end = "throw" THEN @ + 1 ELSE 0]
                                 ELSE u : u \in rest}
                          /\ UNCHANGED <<runs, tweens, throws>>

\* Every tween comes a tick nearer, and one that arrives resolves.
tweensAdvance ==
    /\ turns("timers")
    /\ LET over == {t \in tweens : t.left = 1}
       IN  /\ tweens' = {[t EXCEPT !.left = @ - 1] : t \in tweens \ over}
           /\ runs' = resolved(runs, {t.id : t \in over})
    /\ visit("update", attached)
    /\ UNCHANGED <<hostVars, doomed, timers, throws, calls>>

update == visits("update") /\ dispatch(Head(work), "update")

\* drainDestroyed: every @onEnd first, then the teardown of all of them.
drainBegins ==
    /\ turns("update")
    /\ visit("ends", [n \in DOMAIN doomed |-> <<doomed[n], lives[doomed[n]]>>])
    /\ idle

dispatchEnd ==
    /\ phase = "ends" /\ work /= <<>>
    /\ dispatch(Head(work), "end")
    /\ visit("ends", Tail(work))
    /\ ended' = ended \cup {Head(work)}
    /\ UNCHANGED now

cancelScope(ts, gone) == {t \in ts : t.of \notin gone}

drainDestroyed ==
    LET gone == {i \in ended : Live(i) /\ i[1] \in Things}
        cut  == tweens \ cancelScope(tweens, gone)
    IN  /\ turns("ends")
        /\ timers' = cancelScope(timers, gone)
        /\ tweens' = tweens \ cut
        /\ runs' = dead(resolved(runs, {t.id : t \in cut}), gone)
        /\ remove(gone)
        /\ doomed' = SelectSeq(doomed, LAMBDA x : <<x, lives[x]>> \notin gone)
        /\ visit("between", <<>>)
        /\ UNCHANGED calls

ScriptsNext ==
    \/ \E r \in runs : resume(r)
    \/ \E g \in Guests : joinPlayer(g) \/ leavePlayer(g)
    \/ playerRemoved
    \/ step \/ starts \/ startsOver \/ inputPass \/ advance \/ fire \/ tweensAdvance \/ update
    \/ drainBegins \/ dispatchEnd \/ drainDestroyed

ScriptsSpec == ScriptsInit /\ [][ScriptsNext]_scriptVars

-----------------------------------------------------------------------------
\* Whatever a body of a live host waits for will come: the timer or the tween is there, so no lock is
\* held for good, also when the tween was taken over by another.
NobodyWaitsForever ==
    \A r \in runs : r.live /\ ~r.ready => \E t \in timers \cup tweens : t.id = r.on
=============================================================================
