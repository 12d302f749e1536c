---------------------------- MODULE FleetPlacement ---------------------------
(***************************************************************************)
(* Joins placed over a fleet: the line's one worker and the router it      *)
(* calls, the boxes it starts worlds on, the beats those boxes send, and   *)
(* a rollout draining worlds under the joiners' feet.                      *)
(*                                                                         *)
(* A join mints at most one session, so the session it would mint carries  *)
(* the joiner's own id. What the network and the callers may do wrong is   *)
(* the constant Faults:                                                    *)
(*   "late"     a beat is delivered after the box has moved on, or         *)
(*              counted a start it does not name                           *)
(*   "lost"     a call to a box fails there, or is unanswered whether or   *)
(*              not it landed                                              *)
(*   "gone"     a caller gives up before it is answered                    *)
(*   "down"     a box's agent stops, with or without saying so             *)
(*   "restart"  the server manager restarts and forgets the fleet          *)
(*                                                                         *)
(* Source: apps/grove/server-manager/internal/{fleet/router.go,            *)
(* fleet/agent.go, joins/line.go, api/deployments.go, api/hosts.go} and    *)
(* apps/grove/instance-manager/internal/heartbeat/heartbeat.go             *)
(***************************************************************************)
EXTENDS FleetRegistry

CONSTANTS
  Requests,    \* what a joiner may ask for: records [world, region]
  Faults,      \* what may go wrong, a subset of the names above
  MaxSilence,  \* ticks between two beats that are heard from a box whose agent is up
  MaxFlight,   \* beats of the fleet that may be on the wire at once
  MaxDeploys   \* rollouts in one behaviour

ASSUME RequestsAssumption ==
  Requests \subseteq [world : World, region : {r.region : r \in Requests}]
ASSUME LivesAssumption   == Incarnations # {}
ASSUME DeploysAssumption == MaxDeploys \in Nat

Joiners == Sessions

VARIABLES
  req,      \* what each joiner asks for
  joiner,   \* where each joiner is
  worker,   \* the line's worker: the join it holds and how far it got
  ranked,   \* the order the worker's balancer answered
  box,      \* the instances each box runs
  ran,      \* history: the sessions each box ever started
  agent,    \* whether each box's agent is up
  calls,    \* starts on the wire, by box and session
  flight,   \* beats on the wire
  deploy    \* the rollout being fanned out

envVars == <<req, box, ran, agent, calls, flight, deploy>>
vars == <<registryVars, req, joiner, worker, ranked, box, ran, agent, calls, flight, deploy>>

JoinerState == {"new", "waiting", "taken", "gone", "answered"}

Idle == [at |-> "idle", job |-> {}, answer |-> {}, reply |-> "none"]
NoDeploy == [left |-> MaxDeploys, game |-> {}, asking |-> {}, rows |-> {}]

TypeOK ==
  /\ RegistryTypeOK
  /\ req \in [Joiners -> [world : World, region : {r.region : r \in Requests}]]
  /\ joiner \in [Joiners -> JoinerState]
  /\ worker \in [at : {"idle", "place", "start", "settle"}, job : SUBSET Joiners,
                 answer : SUBSET Placement, reply : {"none", "started", "refused"}]
  /\ DOMAIN ranked \subseteq Hosts
  /\ ranked \in [DOMAIN ranked -> Nat]
  /\ box \in [Hosts -> SUBSET InstanceReport]
  /\ ran \in [Hosts -> SUBSET Sessions]
  /\ agent \in [Hosts -> BOOLEAN]
  /\ calls \subseteq Hosts \X Sessions
  /\ flight \subseteq HostHeartbeat
  /\ deploy \in [left : 0 .. MaxDeploys, game : SUBSET Games, asking : SUBSET Hosts,
                 rows : SUBSET [host : Hosts, status : {"failed", "draining", "skipped"},
                                sessions : SUBSET Sessions]]

Init ==
  /\ RegistryInit
  /\ req \in [Joiners -> Requests]
  /\ joiner = [j \in Joiners |-> "new"]
  /\ worker = Idle
  /\ ranked = << >>
  /\ box = [h \in Hosts |-> {}]
  /\ ran = [h \in Hosts |-> {}]
  /\ agent = [h \in Hosts |-> TRUE]
  /\ calls = {}
  /\ flight = {}
  /\ deploy = NoDeploy

-----------------------------------------------------------------------------
(* The callers. The order they are served in is module JoinLine's subject. *)

Join(j) ==
  /\ joiner[j] = "new"
  /\ joiner' = [joiner EXCEPT ![j] = "waiting"]
  /\ UNCHANGED <<registryVars, worker, ranked, envVars>>

\* The deadline, or the caller closing its connection; the worker may already hold the join.
GiveUp(j) ==
  /\ "gone" \in Faults
  /\ joiner[j] \in {"waiting", "taken"}
  /\ joiner' = [joiner EXCEPT ![j] = "gone"]
  /\ UNCHANGED <<registryVars, worker, ranked, envVars>>

-----------------------------------------------------------------------------
(* The worker: take a join, rank the fleet, place, start, answer. *)

\* The ranking is made on rows read under the lock and used after it is let go.
TakeAndRank(j) ==
  /\ worker.at = "idle"
  /\ joiner[j] = "waiting"
  /\ joiner' = [joiner EXCEPT ![j] = "taken"]
  /\ worker' = [Idle EXCEPT !.at = "place", !.job = {j}]
  /\ ranked' = Rank(req[j].region)
  /\ UNCHANGED <<registryVars, envVars>>

\* Nothing qualifies: the caller is answered no, and nothing was reserved.
PlaceNowhere(j) ==
  /\ worker.at = "place" /\ worker.job = {j}
  /\ Answers(req[j].world, req[j].region, ranked, j) = {}
  /\ worker' = [worker EXCEPT !.at = "settle"]
  /\ ranked' = << >>
  /\ UNCHANGED <<registryVars, joiner, envVars>>

\* A placement, and the call to the box when it is for a world nothing runs yet.
Place(j) ==
  /\ worker.at = "place" /\ worker.job = {j}
  /\ \E p \in Answers(req[j].world, req[j].region, ranked, j) :
       /\ Reserve(req[j].world, p)
       /\ worker' = [worker EXCEPT !.at = IF p.starts THEN "start" ELSE "settle",
                                   !.answer = {p}]
       /\ calls' = IF p.starts THEN calls \cup {<<p.host, j>>} ELSE calls
  /\ ranked' = << >>
  /\ UNCHANGED <<joiner, req, box, ran, agent, flight, deploy>>

\* Agent.Start came back with the process: its port goes to the answer and to the reservation.
StartAnswered(j) ==
  /\ worker.at = "start" /\ worker.job = {j} /\ worker.reply = "started"
  /\ Started(req[j].world, j)
  /\ worker' = [worker EXCEPT !.at = "settle", !.reply = "none",
                  !.answer = {[p EXCEPT !.port = BoundPort] : p \in worker.answer}]
  /\ UNCHANGED <<joiner, ranked, envVars>>

\* Mutant: a failed start leaves the reservation to the next beat.
StartFailed_Keeps(j) ==
  /\ worker.at = "start" /\ worker.job = {j}
  /\ worker.reply = "refused" \/ "lost" \in Faults
  /\ worker' = [worker EXCEPT !.at = "settle", !.reply = "none", !.answer = {}]
  /\ UNCHANGED <<registryVars, joiner, ranked, envVars>>

\* The box refused, or nothing came back in time: the join is refused with it.
StartFailed(j) ==
  /\ worker.at = "start" /\ worker.job = {j}
  /\ worker.reply = "refused" \/ "lost" \in Faults
  /\ Release(GameOf(req[j].world), j)
  /\ worker' = [worker EXCEPT !.at = "settle", !.reply = "none", !.answer = {}]
  /\ UNCHANGED <<joiner, ranked, envVars>>

\* Mutant: the answer is handed over without looking whether anybody is there to take it.
Settled_Blocks(j) ==
  /\ worker.at = "settle" /\ worker.job = {j} /\ joiner[j] # "gone"
  /\ worker' = Idle
  /\ joiner' = [joiner EXCEPT ![j] = "answered"]
  /\ UNCHANGED <<registryVars, ranked, envVars>>

\* The caller is answered, or found gone and the slot its placement took is handed back.
Settled(j) ==
  /\ worker.at = "settle" /\ worker.job = {j}
  /\ worker' = Idle
  /\ joiner' = [joiner EXCEPT ![j] = IF @ = "gone" THEN "gone" ELSE "answered"]
  /\ IF joiner[j] = "gone" /\ worker.answer # {}
     THEN \E p \in worker.answer : Release(GameOf(req[j].world), p.session)
     ELSE UNCHANGED registryVars
  /\ UNCHANGED <<ranked, envVars>>

\* The rows and reservations are this process's memory, and so are the callers it was answering.
Restart ==
  /\ "restart" \in Faults
  /\ hosts' = << >> /\ pending' = << >> /\ events' = << >>
  /\ worker' = Idle /\ ranked' = << >>
  /\ joiner' = [j \in Joiners |-> IF joiner[j] \in {"waiting", "taken"} THEN "gone" ELSE joiner[j]]
  /\ deploy' = [NoDeploy EXCEPT !.left = deploy.left]
  /\ UNCHANGED <<req, box, ran, agent, calls, flight>>

-----------------------------------------------------------------------------
(* The boxes, as the server manager meets them. *)

\* A start reaches the box. It runs the world unless it is full or its agent is down, and may still
\* fail to: the code cannot be fetched, no port is free, the process does not spawn.
StartLands(h, j) ==
  LET room  == agent[h] /\ Cardinality(box[h]) < MaxInstances
      waits == worker.at = "start" /\ worker.job = {j}
  IN  /\ <<h, j>> \in calls
      /\ calls' = calls \ {<<h, j>>}
      /\ \/ /\ room
            /\ box' = [box EXCEPT ![h] =
                         @ \cup {[session |-> j, world |-> req[j].world, state |-> "starting"]}]
            /\ ran' = [ran EXCEPT ![h] = @ \cup {j}]
            /\ worker' = IF waits THEN [worker EXCEPT !.reply = "started"] ELSE worker
         \/ /\ ~room \/ "lost" \in Faults
            /\ worker' = IF waits THEN [worker EXCEPT !.reply = "refused"] ELSE worker
            /\ UNCHANGED <<box, ran>>
      /\ UNCHANGED <<registryVars, joiner, ranked, req, agent, flight, deploy>>

\* A probe changes what the box says of a world; a draining one stays draining.
Probe(h, i) ==
  /\ agent[h] /\ i \in box[h] /\ i.state # "draining"
  /\ \E s \in {"healthy", "unhealthy"} \ {i.state} :
       box' = [box EXCEPT ![h] = (@ \ {i}) \cup {[i EXCEPT !.state = s]}]
  /\ UNCHANGED <<registryVars, joiner, worker, ranked, req, ran, agent, calls, flight, deploy>>

\* An operator stops a world on its box: it drains until its process ends.
Stop(h, i) ==
  /\ agent[h] /\ i \in box[h] /\ i.state # "draining"
  /\ box' = [box EXCEPT ![h] = (@ \ {i}) \cup {[i EXCEPT !.state = "draining"]}]
  /\ UNCHANGED <<registryVars, joiner, worker, ranked, req, ran, agent, calls, flight, deploy>>

\* A process ends, and its box stops counting and naming it.
Exit(h, i) ==
  /\ i \in box[h]
  /\ box' = [box EXCEPT ![h] = @ \ {i}]
  /\ UNCHANGED <<registryVars, joiner, worker, ranked, req, ran, agent, calls, flight, deploy>>

Heartbeat(h, running, leaving) ==
  [host |-> h, running |-> running, instances |-> box[h], leaving |-> leaving,
   incarnation |-> CHOOSE n \in Incarnations : TRUE]

\* A beat delivered while it still describes the box.
BeatArrives(h) ==
  /\ agent[h]
  /\ Beat(Heartbeat(h, Cardinality(box[h]), FALSE))
  /\ UNCHANGED <<joiner, worker, ranked, envVars>>

\* A beat put on the wire. The count was read before the list, under another lock, so a start or
\* an exit in between leaves it one off.
BeatSent(h) ==
  /\ "late" \in Faults /\ agent[h] /\ Cardinality(flight) < MaxFlight
  /\ \E running \in {n \in 0 .. MaxInstances :
                       n <= Cardinality(box[h]) + 1 /\ Cardinality(box[h]) <= n + 1} :
       flight' = flight \cup {Heartbeat(h, running, FALSE)}
  /\ UNCHANGED <<registryVars, joiner, worker, ranked, req, box, ran, agent, calls, deploy>>

BeatDelivered(b) ==
  /\ b \in flight
  /\ Beat(b)
  /\ flight' = flight \ {b}
  /\ UNCHANGED <<joiner, worker, ranked, req, box, ran, agent, calls, deploy>>

\* The agent stops and its worlds run on; the farewell is one more beat, which may be lost.
AgentStops(h) ==
  /\ "down" \in Faults /\ agent[h]
  /\ agent' = [agent EXCEPT ![h] = FALSE]
  /\ \/ Beat(Heartbeat(h, Cardinality(box[h]), TRUE))
     \/ UNCHANGED registryVars
  /\ UNCHANGED <<joiner, worker, ranked, req, box, ran, calls, flight, deploy>>

\* The agent comes back and adopts what still runs. A drain its record tells of goes on; Stop never
\* writes one down and Redeploy's write may fail. Every other world is starting until probed.
AgentStarts(h) ==
  /\ ~agent[h]
  /\ agent' = [agent EXCEPT ![h] = TRUE]
  /\ \E written \in SUBSET {i \in box[h] : i.state = "draining"} :
       box' = [box EXCEPT ![h] = {IF i \in written THEN i ELSE [i EXCEPT !.state = "starting"] : i \in @}]
  /\ UNCHANGED <<registryVars, joiner, worker, ranked, req, ran, calls, flight, deploy>>

\* A box whose agent is up is heard at least every MaxSilence ticks. A row is retained for an hour
\* and a start is given up within START_TIMEOUT, seconds, so the row it waits on is not dropped.
Passes ==
  /\ \A h \in DOMAIN hosts :
       /\ agent[h] => hosts[h].age < MaxSilence
       /\ worker.at = "start" /\ h \in {p.host : p \in worker.answer} => hosts[h].age < Retain
  /\ Tick
  /\ UNCHANGED <<joiner, worker, ranked, envVars>>

-----------------------------------------------------------------------------
(* A rollout: every box holding the game is asked at once, and once all have *)
(* answered or timed out the answers are recorded one row at a time.         *)

Deploy(g) ==
  /\ deploy.left > 0 /\ deploy.asking = {} /\ deploy.rows = {}
  /\ Targets(g, {}) # {}
  /\ deploy' = [deploy EXCEPT !.left = @ - 1, !.game = {g}, !.asking = Targets(g, {})]
  /\ UNCHANGED <<registryVars, joiner, worker, ranked, req, box, ran, agent, calls, flight>>

\* The box drains its worlds of the game and says which, or its answer is lost.
Redeploy(h) ==
  LET held == {i \in box[h] : GameOf(i.world) \in deploy.game}
      ids  == {i.session : i \in held}
  IN  /\ h \in deploy.asking /\ agent[h]
      /\ box' = [box EXCEPT ![h] = {IF i \in held THEN [i EXCEPT !.state = "draining"] ELSE i : i \in @}]
      /\ \E row \in {[host |-> h, sessions |-> ids,
                      status |-> IF ids = {} THEN "skipped" ELSE "draining"]}
                    \cup (IF "lost" \in Faults
                          THEN {[host |-> h, sessions |-> {}, status |-> "failed"]} ELSE {}) :
           deploy' = [deploy EXCEPT !.asking = @ \ {h}, !.rows = @ \cup {row}]
      /\ UNCHANGED <<registryVars, joiner, worker, ranked, req, ran, agent, calls, flight>>

\* The box never got the request.
RedeployFailed(h) ==
  /\ h \in deploy.asking /\ (~agent[h] \/ "lost" \in Faults)
  /\ deploy' = [deploy EXCEPT !.asking = @ \ {h},
                  !.rows = @ \cup {[host |-> h, sessions |-> {}, status |-> "failed"]}]
  /\ UNCHANGED <<registryVars, joiner, worker, ranked, req, box, ran, agent, calls, flight>>

Recorded(row) ==
  /\ deploy.asking = {} /\ row \in deploy.rows
  /\ deploy' = [deploy EXCEPT !.rows = @ \ {row},
                  !.game = IF deploy.rows = {row} THEN {} ELSE @]
  /\ CASE row.status = "failed"   -> Suspect(row.host)
       [] row.status = "draining" -> Draining(row.host, row.sessions)
       [] OTHER                   -> UNCHANGED registryVars
  /\ UNCHANGED <<joiner, worker, ranked, req, box, ran, agent, calls, flight>>

-----------------------------------------------------------------------------

Serve(j) == TakeAndRank(j) \/ PlaceNowhere(j) \/ Place(j) \/ StartAnswered(j)
              \/ StartFailed(j) \/ Settled(j)

Next ==
  \/ \E j \in Joiners : Join(j) \/ GiveUp(j) \/ Serve(j)
  \/ Restart
  \/ \E h \in Hosts, j \in Joiners : StartLands(h, j)
  \/ \E h \in Hosts : \E i \in box[h] : Probe(h, i) \/ Stop(h, i) \/ Exit(h, i)
  \/ \E h \in Hosts : BeatArrives(h) \/ BeatSent(h) \/ AgentStops(h) \/ AgentStarts(h)
  \/ \E b \in flight : BeatDelivered(b)
  \/ Passes
  \/ \E g \in Games : Deploy(g)
  \/ \E h \in Hosts : Redeploy(h) \/ RedeployFailed(h)
  \/ \E row \in deploy.rows : Recorded(row)

Spec == Init /\ [][Next]_vars

(***************************************************************************)
(* The worker is a loop that never waits on a caller; a call to a box ends *)
(* within START_TIMEOUT; an agent beats as soon as it is up and on every   *)
(* tick, so one that is up again and again is heard again and again; a     *)
(* stopped agent is restarted by its host. Nobody has to join, give up,    *)
(* deploy, exit or fail.                                                   *)
(***************************************************************************)
Fairness ==
  /\ WF_vars(\E j \in Joiners : Serve(j))
  /\ WF_vars(\E h \in Hosts, j \in Joiners : StartLands(h, j))
  /\ \A h \in Hosts : SF_vars(BeatArrives(h)) /\ WF_vars(AgentStarts(h))

FairSpec == Spec /\ Fairness

-----------------------------------------------------------------------------
(* Properties. *)

(***************************************************************************)
(* No player is sent after a process nothing started: whatever a join is   *)
(* about to be answered with, the box it names did start that session      *)
(* (Registry.settle and Router.start exist for this).                      *)
(***************************************************************************)
SentToAStartedWorld ==
  worker.at = "settle" => \A p \in worker.answer : p.session \in ran[p.host]

(***************************************************************************)
(* Every placement handed out names a bound port, also the ones read off a *)
(* reservation another join made (Router.start, Registry.Started).         *)
(***************************************************************************)
Dialable ==
  worker.at = "settle" => \A p \in worker.answer : p.port = BoundPort

(***************************************************************************)
(* A reservation that beats may not clear belongs to the start the worker  *)
(* is waiting on now; one left behind would send every later joiner of the *)
(* world to a process nothing is ever going to spawn (Router.start).       *)
(***************************************************************************)
StartingIsOwned ==
  \A w \in DOMAIN pending :
    pending[w].starting => worker.at = "start" /\ worker.job = {pending[w].session}

(***************************************************************************)
(* No slot is spent twice: a reservation still counted against its box is  *)
(* not also among the instances that box's own count covers                *)
(* (Registry.settle, reservation.reported).                                *)
(***************************************************************************)
CountedOnce ==
  \A w \in DOMAIN pending :
    /\ ~pending[w].reported
    /\ pending[w].host \in DOMAIN hosts
    => ~Names(hosts[pending[w].host].instances, pending[w].session)

(***************************************************************************)
(* A box that may be given work is never believed to have more free slots  *)
(* than it has: its reported count and the reservations held against it    *)
(* cover every process it runs (Registry.reservedOn, Host.FreeSlots).      *)
(***************************************************************************)
NeverOverOffers ==
  \A h \in DOMAIN hosts :
    Placeable(hosts[h]) => Cardinality(box[h]) <= hosts[h].running + ReservedOn(h)

(***************************************************************************)
(* A second world of a game is started only where the first cannot be      *)
(* joined: no session is minted for a world while a box that may be given  *)
(* this work runs it, unless that box's own last beat said it was ailing   *)
(* (Registry.Place: "two joins between beats become two worlds").          *)
(***************************************************************************)
Runs(h, w) == {i \in box[h] : i.world = w /\ i.state \in {"starting", "healthy"}}

NoSecondWorld ==
  [][worker.at = "place" /\ worker'.at = "start" =>
       \A j \in worker.job : \A h \in DOMAIN hosts :
         Placeable(hosts[h]) /\ InRegion(h, req[j].region) =>
           \A i \in Runs(h, req[j].world) : Ailing(hosts[h].instances, i.session)]_vars

(***************************************************************************)
(* Every join in the line is answered or its caller gives up: no start, no *)
(* full fleet and no dead box holds the one worker for ever (Line.serve,   *)
(* Router.start).                                                          *)
(***************************************************************************)
EveryJoinAnswered ==
  \A j \in Joiners : joiner[j] = "waiting" ~> joiner[j] \in {"answered", "gone"}

(***************************************************************************)
(* A session that no box runs and no call will start does not stay         *)
(* reserved: the slot comes back and the next joiner ranks again           *)
(* (Registry.settle, Registry.evict).                                      *)
(***************************************************************************)
Dead(s) ==
  /\ joiner[s] \in {"answered", "gone"} /\ s \notin worker.job
  /\ \A h \in Hosts : <<h, s>> \notin calls /\ ~Names(box[h], s)

DeadIsForgotten ==
  \A s \in Sessions :
    Dead(s) ~> \A w \in DOMAIN pending : pending[w].session # s

=============================================================================
