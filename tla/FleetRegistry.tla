---------------------------- MODULE FleetRegistry ----------------------------
(***************************************************************************)
(* The registry of boxes inside the server manager: one row per box that   *)
(* has beaten in, one reservation per world that was placed and has not    *)
(* been beaten back, and the liveness transitions nobody has reported yet. *)
(* Every operation of the source runs under one mutex, so each is one      *)
(* action here; the modules that extend this one decide when they happen.  *)
(*                                                                         *)
(* Source: apps/grove/server-manager/internal/fleet/{registry,host,        *)
(* balancer,events}.go                                                     *)
(***************************************************************************)
EXTENDS Naturals, FiniteSets, Sequences

CONSTANTS
  Hosts,            \* host ids; numbers, because ties break on the lower id
  Games,            \* game ids
  Revisions,        \* versions of a game
  Sessions,         \* session ids; an instance id is minted with its session
  Incarnations,     \* lives of a box's agent
  RegionOf,         \* the region each box reports
  AnyRegion,        \* the request that names no region
  MaxInstances,     \* the instance cap every box reports
  StaleAfter,       \* silence, in ticks, that makes a box failed
  Retain,           \* silence, in ticks, past which a row is dropped
  MaxPendingEvents  \* transitions kept for the reporter

ASSUME HostsAssumption  == Hosts \subseteq Nat
ASSUME CapAssumption    == MaxInstances \in Nat \ {0}
ASSUME WindowAssumption == StaleAfter \in Nat \ {0} /\ Retain \in Nat /\ StaleAfter <= Retain
ASSUME EventsAssumption == MaxPendingEvents \in Nat

VARIABLES
  hosts,    \* the rows, keyed by host
  pending,  \* the reservations, keyed by world
  events    \* transitions nobody has taken, oldest first

registryVars == <<hosts, pending, events>>

World == Games \X Revisions
GameOf(w) == w[1]

InstanceState == {"starting", "healthy", "draining", "unhealthy"}
HostLiveness  == {"healthy", "suspected", "left", "failed"}
EventKind     == {"registered", "restarted", "returned", "suspected", "left", "failed"}

\* A port is 0 until the box's kernel has picked one; which one it picked matters to nobody here.
NoPort    == 0
BoundPort == 1
Port      == {NoPort, BoundPort}

\* checkHeartbeat refuses a beat with an unbound port, so a report always carries a bound one.
InstanceReport == [session : Sessions, world : World, state : InstanceState]

HostHeartbeat == [host : Hosts, running : Nat, instances : SUBSET InstanceReport,
                  leaving : BOOLEAN, incarnation : Incarnations]

\* A row is the last beat, how long ago it came, and what this service concluded since.
Host == [running : Nat, instances : SUBSET InstanceReport, leaving : BOOLEAN,
         incarnation : Incarnations, suspected : BOOLEAN,
         reported : HostLiveness, age : 0 .. Retain + 1]

Reservation == [host : Hosts, session : Sessions, port : Port,
                reported : BOOLEAN, starting : BOOLEAN]

Placement == [host : Hosts, session : Sessions, port : Port, starts : BOOLEAN]

FleetEvent == [host : Hosts, kind : EventKind, incarnation : Incarnations]

RegistryTypeOK ==
  /\ DOMAIN hosts \subseteq Hosts
  /\ hosts \in [DOMAIN hosts -> Host]
  /\ DOMAIN pending \subseteq World
  /\ pending \in [DOMAIN pending -> Reservation]
  /\ events \in Seq(FleetEvent)

RegistryInit ==
  /\ hosts = << >>
  /\ pending = << >>
  /\ events = << >>

-----------------------------------------------------------------------------
(* What is read off one row. *)

Fresh(h) == h.age < StaleAfter

\* The box's own last word outranks silence, and silence outranks suspicion.
Liveness(h) ==
  IF h.leaving THEN "left"
  ELSE IF ~Fresh(h) THEN "failed"
  ELSE IF h.suspected THEN "suspected"
  ELSE "healthy"

Placeable(h) == Liveness(h) = "healthy"

InRegion(id, region) == region = AnyRegion \/ RegionOf[id] = region

\* The sessions placed on a box that its own beats have yet to account for.
ReservedOn(id) ==
  Cardinality({w \in DOMAIN pending : pending[w].host = id /\ ~pending[w].reported})

FreeSlots(id) ==
  LET used == hosts[id].running + ReservedOn(id)
  IN  IF used < MaxInstances THEN MaxInstances - used ELSE 0

\* The boxes offered to the balancer.
Candidates(region) ==
  {id \in DOMAIN hosts : Placeable(hosts[id]) /\ InRegion(id, region) /\ FreeSlots(id) # 0}

\* A ranked box re-read under the lock the placement is decided in.
StillTakes(id, region) ==
  id \in DOMAIN hosts /\ Placeable(hosts[id]) /\ InRegion(id, region) /\ FreeSlots(id) > 0

\* MostFree: the order is kept as the free slots it was computed from, ties on the lower id.
Rank(region) == [id \in Candidates(region) |-> FreeSlots(id)]
EmptiestFirst(ranked, a, b) ==
  ranked[a] > ranked[b] \/ (ranked[a] = ranked[b] /\ a <= b)

Ailing(instances, s) ==
  \E i \in instances : i.session = s /\ i.state \in {"draining", "unhealthy"}

Names(instances, s) == \E i \in instances : i.session = s

-----------------------------------------------------------------------------
(* The event list. *)

\* The newest n of a list: what is left once the oldest past the cap are dropped.
Newest(s, n) == IF Len(s) <= n THEN s ELSE SubSeq(s, Len(s) - n + 1, Len(s))

KindFor(liveness) == IF liveness = "healthy" THEN "returned" ELSE liveness

\* note: the transitions in `new` join the list.
Note(new) == events' = Newest(events \o new, MaxPendingEvents)

Event(kind, id, h) == [host |-> id, kind |-> kind, incarnation |-> h.incarnation]

\* observe: nothing when the liveness of row h is the one an event last went out for.
Observed(id, h) ==
  IF Liveness(h) = h.reported THEN << >> ELSE <<Event(KindFor(Liveness(h)), id, h)>>

Reported(h) == [h EXCEPT !.reported = Liveness(h)]

-----------------------------------------------------------------------------
(* Beats. *)

\* Mutant: a beat that arrives during the start clears the reservation.
Settle_ForgetsStart(b, known) ==
  [w \in {w \in DOMAIN pending :
            /\ pending[w].host \in known
            /\ pending[w].host = b.host => Names(b.instances, pending[w].session)} |->
     IF pending[w].host = b.host
     THEN [pending[w] EXCEPT !.reported = TRUE, !.port = BoundPort] ELSE pending[w]]

\* Mutant: any beat of the box hands its slots back, named or not.
Settle_CountsEarly(b, known) ==
  [w \in {w \in DOMAIN pending :
            /\ pending[w].host \in known
            /\ \/ pending[w].host # b.host \/ pending[w].starting
               \/ Names(b.instances, pending[w].session)} |->
     IF pending[w].host = b.host
     THEN [pending[w] EXCEPT !.reported = TRUE] ELSE pending[w]]

\* Mutant: a beat that does not name a session leaves its reservation standing.
Settle_NeverClears(b, known) ==
  [w \in {w \in DOMAIN pending : pending[w].host \in known} |->
     IF pending[w].host = b.host /\ Names(b.instances, pending[w].session)
     THEN [pending[w] EXCEPT !.reported = TRUE, !.port = BoundPort] ELSE pending[w]]

\* What is still held once beat b is in and the rows in `known` are the ones left: a reservation
\* on a dropped box goes, and one on this box is confirmed by name or, unless its start is still
\* in flight, refused by its absence.
Settle(b, known) ==
  LET named(w) == pending[w].host = b.host /\ Names(b.instances, pending[w].session)
      kept == {w \in DOMAIN pending :
                 /\ pending[w].host \in known
                 /\ pending[w].host = b.host => named(w) \/ pending[w].starting}
  IN  [w \in kept |-> IF named(w)
                      THEN [pending[w] EXCEPT !.reported = TRUE, !.port = BoundPort]
                      ELSE pending[w]]

\* The row a beat leaves: suspicion is gone, and its liveness is the one events now speak for.
RowOf(b) ==
  Reported([running |-> b.running, instances |-> b.instances, leaving |-> b.leaving,
            incarnation |-> b.incarnation, suspected |-> FALSE,
            reported |-> "healthy", age |-> 0])

\* What a beat says that no row said before it.
BeatEvents(b) ==
  LET id == b.host
  IN  IF id \notin DOMAIN hosts THEN <<Event("registered", id, b)>>
      ELSE IF hosts[id].incarnation # b.incarnation THEN <<Event("restarted", id, b)>>
      ELSE Observed(id, [RowOf(b) EXCEPT !.reported = hosts[id].reported])

Beat(b) ==
  LET id   == b.host
      kept == {h \in DOMAIN hosts \ {id} : hosts[h].age <= Retain} \cup {id}
  IN  /\ hosts' = [h \in kept |-> IF h = id THEN RowOf(b) ELSE hosts[h]]
      /\ pending' = Settle(b, kept)
      /\ Note(BeatEvents(b))

\* Time, read through each row's age; a row is as old as it gets once it may be dropped.
Tick ==
  /\ hosts' = [id \in DOMAIN hosts |->
                 [hosts[id] EXCEPT !.age = IF @ > Retain THEN @ ELSE @ + 1]]
  /\ UNCHANGED <<pending, events>>

-----------------------------------------------------------------------------
(* Placements. *)

\* The healthy sessions of w a joiner may be sent to: those on the lowest id that has one.
Serving(w, region) ==
  LET healthy(id) == {i \in hosts[id].instances : i.world = w /\ i.state = "healthy"}
      on == {id \in DOMAIN hosts : /\ Placeable(hosts[id])
                                   /\ InRegion(id, region)
                                   /\ healthy(id) # {}}
  IN  UNION {{[host |-> id, session |-> i.session, port |-> BoundPort, starts |-> FALSE] :
                i \in healthy(id)} : id \in {h \in on : \A other \in on : h <= other}}

\* The placement w was already given, unless its box is out of reach or names it ailing.
Held(w, region) ==
  {[host |-> r.host, session |-> r.session, port |-> r.port, starts |-> FALSE] :
     r \in {pending[v] : v \in {v \in DOMAIN pending \cap {w} :
              LET id == pending[v].host
              IN  /\ id \in DOMAIN hosts
                  /\ Placeable(hosts[id])
                  /\ InRegion(id, region)
                  /\ ~Ailing(hosts[id].instances, pending[v].session)}}}

\* A new session s on the first box of the order that still takes one.
Minted(s, region, ranked) ==
  LET open == {id \in DOMAIN ranked : StillTakes(id, region)}
  IN  {[host |-> id, session |-> s, port |-> NoPort, starts |-> TRUE] :
         id \in {h \in open : \A other \in open : EmptiestFirst(ranked, h, other)}}

\* The placements one join for w may be answered with; none when nothing qualifies.
Answers(w, region, ranked, s) ==
  IF Serving(w, region) # {} THEN Serving(w, region)
  ELSE IF Held(w, region) # {} THEN Held(w, region)
  ELSE Minted(s, region, ranked)

\* Place commits p, one of Answers: a new session is reserved over whatever w had reserved.
Reserve(w, p) ==
  /\ pending' = IF p.starts
                THEN [v \in DOMAIN pending \cup {w} |->
                        IF v = w THEN [host |-> p.host, session |-> p.session, port |-> NoPort,
                                       reported |-> FALSE, starting |-> TRUE]
                        ELSE pending[v]]
                ELSE pending
  /\ UNCHANGED <<hosts, events>>

\* The box answered the start: its port is known before any beat names the session.
Started(w, s) ==
  /\ pending' = [v \in DOMAIN pending |->
                   IF v = w /\ pending[v].session = s
                   THEN [pending[v] EXCEPT !.port = BoundPort, !.starting = FALSE]
                   ELSE pending[v]]
  /\ UNCHANGED <<hosts, events>>

Release(g, s) ==
  /\ pending' = [v \in {v \in DOMAIN pending : ~(GameOf(v) = g /\ pending[v].session = s)} |->
                   pending[v]]
  /\ UNCHANGED <<hosts, events>>

-----------------------------------------------------------------------------
(* Deployments. *)

\* The boxes a new version of g must reach; a rollout that names no region is for all of them.
Targets(g, regions) ==
  {id \in DOMAIN hosts :
     /\ Fresh(hosts[id]) /\ ~hosts[id].leaving
     /\ regions # {} => RegionOf[id] \in regions
     /\ \/ \E i \in hosts[id].instances : GameOf(i.world) = g
        \/ \E w \in DOMAIN pending : GameOf(w) = g /\ pending[w].host = id}

\* The box answered a redeploy with the sessions it is now draining.
Draining(id, drained) ==
  /\ hosts' = [h \in DOMAIN hosts |->
                 IF h # id THEN hosts[h]
                 ELSE [hosts[h] EXCEPT !.instances =
                         {IF i.session \in drained THEN [i EXCEPT !.state = "draining"] ELSE i :
                            i \in hosts[h].instances}]]
  /\ UNCHANGED <<pending, events>>

\* Work dispatched to the box failed against it.
SuspectEvents(id) ==
  IF id \in DOMAIN hosts /\ ~hosts[id].suspected
  THEN Observed(id, [hosts[id] EXCEPT !.suspected = TRUE])
  ELSE << >>

Suspect(id) ==
  /\ hosts' = [h \in DOMAIN hosts |->
                 IF h = id /\ ~hosts[h].suspected
                 THEN Reported([hosts[h] EXCEPT !.suspected = TRUE])
                 ELSE hosts[h]]
  /\ Note(SuspectEvents(id))
  /\ UNCHANGED pending

=============================================================================
