------------------------------- MODULE JoinLine ------------------------------
(***************************************************************************)
(* The line joins wait in: callers that register, push their join and wait *)
(* with a deadline, and the one worker that pops, places and answers. The  *)
(* queue between them is a buffered channel or a Redis list; a list        *)
(* outlives this process and may lose a pop's reply.                       *)
(*                                                                         *)
(* What a placement is belongs to FleetPlacement; here Place takes a slot  *)
(* for the caller or finds none.                                           *)
(*                                                                         *)
(* Source: apps/grove/server-manager/internal/joins/{line,queue}.go        *)
(***************************************************************************)
EXTENDS Naturals, Sequences

CONSTANTS
  Callers,  \* joins, each made once
  Depth,    \* the line refuses joins past this length
  Kinds     \* the queues to check: a subset of {"memory", "redis"}

ASSUME DepthAssumption == Depth \in Nat
ASSUME KindAssumption  == Kinds \subseteq {"memory", "redis"}

VARIABLES
  kind,      \* which queue this process was given
  caller,    \* where each call of Join is
  told,      \* what it returned
  waiting,   \* Line.waiting: the callers a worker may still claim
  gone,      \* waiter.gone
  answers,   \* waiter.answers: the buffered answer, if any
  queue,     \* the jobs in the line, the end the worker pops from first
  worker,    \* the worker's step, the job it holds and what Place said
  slots,     \* callers a placement was committed for
  released,  \* history: callers whose placement was handed back
  lost,      \* history: callers whose job was popped and never reached the worker
  ahead      \* history: who was already in the line when each caller's job entered it

callerVars == <<caller, told>>
waiterVars == <<waiting, gone, answers>>
slotVars   == <<slots, released>>
history    == <<lost, ahead>>
vars == <<kind, callerVars, waiterVars, queue, worker, slotVars, history>>

CallerState == {"new", "registered", "measured", "waiting", "leaving", "done"}
Outcome     == {"nothing", "placement", "no capacity", "busy", "error"}
Idle        == [at |-> "idle", job |-> {}, placed |-> FALSE]

TypeOK ==
  /\ kind \in Kinds
  /\ caller \in [Callers -> CallerState]
  /\ told \in [Callers -> Outcome]
  /\ waiting \subseteq Callers
  /\ gone \subseteq Callers
  /\ answers \in [Callers -> SUBSET BOOLEAN]
  /\ queue \in Seq(Callers) /\ (kind = "memory" => Len(queue) <= Depth)
  /\ worker \in [at : {"idle", "take", "place", "settle", "release"},
                 job : SUBSET Callers, placed : BOOLEAN]
  /\ slots \subseteq Callers
  /\ released \subseteq Callers
  /\ lost \subseteq Callers
  /\ ahead \in [Callers -> SUBSET Callers]

Init ==
  /\ kind \in Kinds
  /\ caller = [c \in Callers |-> "new"]
  /\ told = [c \in Callers |-> "nothing"]
  /\ waiting = {} /\ gone = {}
  /\ answers = [c \in Callers |-> {}]
  /\ queue = << >>
  /\ worker = Idle
  /\ slots = {} /\ released = {}
  /\ lost = {} /\ ahead = [c \in Callers |-> {}]

-----------------------------------------------------------------------------
(* Join, one step per point where another goroutine can be seen. *)

\* Join has its outcome and is about to run its deferred abandon.
Returns(c, outcome) ==
  /\ caller' = [caller EXCEPT ![c] = "leaving"]
  /\ told' = [told EXCEPT ![c] = outcome]

Moves(c, from, to) ==
  /\ caller[c] = from
  /\ caller' = [caller EXCEPT ![c] = to]
  /\ UNCHANGED told

InLine(c) == \E i \in DOMAIN queue : queue[i] = c

\* The job of c enters the line, before or behind what is there.
Enters(c, line) ==
  /\ queue' = line
  /\ ahead' = [ahead EXCEPT ![c] = {a \in Callers : InLine(a)}]
  /\ UNCHANGED lost

\* Mutant: the waiter is written down only once the push has been accepted.
Register_Late(c) ==
  /\ Moves(c, "new", "registered")
  /\ UNCHANGED <<kind, waiterVars, queue, worker, slotVars, history>>

Register(c) ==
  /\ Moves(c, "new", "registered")
  /\ waiting' = waiting \cup {c}
  /\ UNCHANGED <<kind, gone, answers, queue, worker, slotVars, history>>

\* Memory.Push: one select, refused without adding when the channel is full.
MemoryPush(c) ==
  /\ kind = "memory" /\ Len(queue) < Depth
  /\ Moves(c, "registered", "waiting")
  /\ Enters(c, Append(queue, c))
  /\ UNCHANGED <<kind, waiterVars, worker, slotVars>>

\* Redis.Push reads the length in one command and pushes in the next.
Measure(c) ==
  /\ kind = "redis" /\ Len(queue) < Depth
  /\ Moves(c, "registered", "measured")
  /\ UNCHANGED <<kind, waiterVars, queue, worker, slotVars, history>>

\* LPUSH puts the job at the head, which is the end BLPOP pops.
RedisPush(c) ==
  /\ kind = "redis"
  /\ Moves(c, "measured", "waiting")
  /\ Enters(c, <<c>> \o queue)
  /\ UNCHANGED <<kind, waiterVars, worker, slotVars>>

Busy(c) ==
  /\ caller[c] = "registered" /\ Len(queue) >= Depth
  /\ Returns(c, "busy")
  /\ UNCHANGED <<kind, waiterVars, queue, worker, slotVars, history>>

\* The deadline passed in the push, or Redis did not answer; what it was sent may have landed.
PushFails(c) ==
  /\ caller[c] \in {"registered", "measured"}
  /\ Returns(c, "error")
  /\ \/ UNCHANGED <<queue, history>>
     \/ caller[c] = "measured" /\ Enters(c, <<c>> \o queue)
  /\ UNCHANGED <<kind, waiterVars, worker, slotVars>>

\* Either arm of the select may be taken when both are ready.
Answered(c) ==
  /\ caller[c] = "waiting"
  /\ \E placed \in answers[c] : Returns(c, IF placed THEN "placement" ELSE "no capacity")
  /\ answers' = [answers EXCEPT ![c] = {}]
  /\ UNCHANGED <<kind, waiting, gone, queue, worker, slotVars, history>>

Expires(c) ==
  /\ caller[c] = "waiting"
  /\ Returns(c, "no capacity")
  /\ UNCHANGED <<kind, waiterVars, queue, worker, slotVars, history>>

Abandon(c) ==
  /\ Moves(c, "leaving", "done")
  /\ waiting' = waiting \ {c}
  /\ gone' = gone \cup {c}
  /\ UNCHANGED <<kind, answers, queue, worker, slotVars, history>>

-----------------------------------------------------------------------------
(* Run and serve: one worker. *)

Pop ==
  /\ worker.at = "idle" /\ queue # << >>
  /\ worker' = [Idle EXCEPT !.at = "take", !.job = {Head(queue)}]
  /\ queue' = Tail(queue)
  /\ UNCHANGED <<kind, callerVars, waiterVars, slotVars, history>>

\* BLPOP popped and its reply was lost with the connection; the worker dials again.
PopLost ==
  /\ kind = "redis" /\ worker.at = "idle" /\ queue # << >>
  /\ lost' = lost \cup {Head(queue)}
  /\ queue' = Tail(queue)
  /\ UNCHANGED <<kind, callerVars, waiterVars, worker, slotVars, ahead>>

\* take: a join whose caller has gone costs no ranking and reserves no slot.
Take(c) ==
  /\ worker.at = "take" /\ worker.job = {c}
  /\ worker' = IF c \in waiting THEN [worker EXCEPT !.at = "place"] ELSE Idle
  /\ waiting' = waiting \ {c}
  /\ UNCHANGED <<kind, callerVars, gone, answers, queue, slotVars, history>>

Place(c) ==
  /\ worker.at = "place" /\ worker.job = {c}
  /\ \E placed \in BOOLEAN :
       /\ worker' = [worker EXCEPT !.at = "settle", !.placed = placed]
       /\ slots' = IF placed THEN slots \cup {c} ELSE slots
  /\ UNCHANGED <<kind, callerVars, waiterVars, queue, released, history>>

\* Mutant: the answer is handed over and the slot handed back when the buffer looks unread.
Settle_Unlocked(c) ==
  /\ worker.at = "settle" /\ worker.job = {c}
  /\ answers' = [answers EXCEPT ![c] = {worker.placed}]
  /\ worker' = IF worker.placed /\ c \notin gone THEN [worker EXCEPT !.at = "release"] ELSE Idle
  /\ UNCHANGED <<kind, callerVars, waiting, gone, queue, slotVars, history>>

\* settle: under the lock abandon takes, so a caller already gone is seen gone.
Settle(c) ==
  /\ worker.at = "settle" /\ worker.job = {c}
  /\ IF c \in gone
     THEN /\ worker' = IF worker.placed THEN [worker EXCEPT !.at = "release"] ELSE Idle
          /\ UNCHANGED answers
     ELSE /\ worker' = Idle
          /\ answers' = [answers EXCEPT ![c] = {worker.placed}]
  /\ UNCHANGED <<kind, callerVars, waiting, gone, queue, slotVars, history>>

Release(c) ==
  /\ worker.at = "release" /\ worker.job = {c}
  /\ worker' = Idle
  /\ slots' = slots \ {c}
  /\ released' = released \cup {c}
  /\ UNCHANGED <<kind, callerVars, waiterVars, queue, history>>

-----------------------------------------------------------------------------

\* The process dies with its callers' connections, its waiters and its fleet; a list survives it.
Crash ==
  /\ \E c \in Callers : caller[c] \notin {"new", "done"}
  /\ caller' = [c \in Callers |-> IF caller[c] = "new" THEN "new" ELSE "done"]
  /\ waiting' = {} /\ gone' = {c \in Callers : caller[c] # "new"}
  /\ answers' = [c \in Callers |-> {}]
  /\ worker' = Idle
  /\ slots' = {}
  /\ queue' = IF kind = "redis" THEN queue ELSE << >>
  /\ UNCHANGED <<kind, told, released, history>>

Serve == Pop \/ \E c \in Callers : Take(c) \/ Place(c) \/ Settle(c) \/ Release(c)

Next ==
  \/ \E c \in Callers :
       \/ Register(c) \/ MemoryPush(c) \/ Measure(c) \/ RedisPush(c) \/ Busy(c) \/ PushFails(c)
       \/ Answered(c) \/ Expires(c) \/ Abandon(c)
  \/ Serve
  \/ PopLost
  \/ Crash

Spec == Init /\ [][Next]_vars

(***************************************************************************)
(* The worker loops until the process ends and a goroutine with an answer  *)
(* reads it. Nothing is assumed of the deadline, of Redis or of callers.   *)
(***************************************************************************)
FairSpec == Spec /\ WF_vars(Serve) /\ \A c \in Callers : WF_vars(Answered(c))

-----------------------------------------------------------------------------
(* Properties. *)

(***************************************************************************)
(* A placement handed back is never also one a player walks away with      *)
(* (Line.settle and Line.abandon share a lock for this).                   *)
(***************************************************************************)
NeverBoth ==
  \A c \in released : told[c] # "placement"

(***************************************************************************)
(* No caller is left to its deadline by the line itself: while it waits    *)
(* unanswered, its job is in the line, in the worker's hands, or was lost  *)
(* on the wire by Redis (Line.Join registers before it pushes).            *)
(***************************************************************************)
NoForgottenCaller ==
  \A c \in Callers :
    caller[c] = "waiting" /\ answers[c] = {} => InLine(c) \/ c \in worker.job \/ c \in lost

(***************************************************************************)
(* Joins reach the worker in the order they entered the line: while it     *)
(* serves one, nobody who was ahead of that one is still waiting to be     *)
(* popped (Line: "the arrival order this exists to impose").               *)
(***************************************************************************)
InOrder == \A c \in worker.job : \A a \in ahead[c] : ~InLine(a)

MemoryInOrder == kind = "memory" => InOrder

(***************************************************************************)
(* Whoever waits in a memory line is reached by the worker, without the    *)
(* help of a deadline (Line.Run, Line.serve).                              *)
(***************************************************************************)
EveryoneReached ==
  \A c \in Callers : kind = "memory" /\ caller[c] = "waiting" ~> caller[c] # "waiting"

=============================================================================
