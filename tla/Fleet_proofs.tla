----------------------------- MODULE Fleet_proofs ----------------------------
(***************************************************************************)
(* Proofs about FleetPlacement and FleetHistory, for any fleet, joiners,   *)
(* faults, restarts, lost reports and failed posts.                        *)
(*                                                                         *)
(* The placement invariant follows a session from the join that may mint   *)
(* it: before its start is sent nobody knows it, while its start is waited *)
(* on it may be reserved without running, and from then on whoever names   *)
(* it names a box that did start it. Its last part is about a fleet in     *)
(* good order, where the rows, the reservations and the boxes tell of the  *)
(* same processes.                                                         *)
(*                                                                         *)
(* The history invariant says what the reporter still holds when a post    *)
(* may fail: an unbroken stretch of the log that ends where the pending    *)
(* list begins, or the list has since filled up and there is no room to    *)
(* put it back.                                                            *)
(***************************************************************************)
EXTENDS FleetPlacement, FleetHistory, FiniteSetTheorems, SequenceTheorems, WellFoundedInduction,
        TLAPS

-----------------------------------------------------------------------------
(* What each operation of the registry does to the rows and to the         *)
(* reservations, stated once for both.                                     *)

\* The types, and the finiteness that counting reservations rests on.
RegistryInv == RegistryTypeOK /\ IsFiniteSet(DOMAIN pending)

-----------------------------------------------------------------------------
(* Events. *)

\* What is kept of a list past the cap is its end, as long as the cap allows (Registry.note, Registry.Restore).
LEMMA NewestOf ==
  ASSUME NEW s \in Seq(FleetEvent), NEW n \in Nat
  PROVE  LET t == Newest(s, n)
         IN  /\ t \in Seq(FleetEvent)
             /\ Len(t) = IF Len(s) <= n THEN Len(s) ELSE n
             /\ \A i \in 1 .. Len(t) : t[i] = s[Len(s) - Len(t) + i]
<1>1. Len(s) \in Nat /\ \A i \in 1 .. Len(s) : s[i] \in FleetEvent
  OBVIOUS
<1>2. CASE Len(s) <= n
  BY <1>1, <1>2 DEF Newest
<1>3. CASE ~(Len(s) <= n)
  <2>. DEFINE m == Len(s) - n + 1
              t == SubSeq(s, m, Len(s))
  <2>1. m \in Int /\ m >= 1 /\ m <= Len(s) + 1 /\ Len(s) - m + 1 = n
    BY <1>1, <1>3
  <2>2. \A i \in m .. Len(s) : s[i] \in FleetEvent
    BY <1>1, <2>1
  <2>3. /\ t \in Seq(FleetEvent) /\ Len(t) = n
        /\ \A i \in 1 .. n : t[i] = s[m + i - 1]
    BY <1>1, <2>1, <2>2, SubSeqProperties
  <2>4. \A i \in 1 .. n : m + i - 1 = Len(s) - n + i
    BY <1>1
  <2>. QED BY <1>3, <2>3, <2>4 DEF Newest
<1>. QED BY <1>2, <1>3

\* A row with its liveness recorded is a row, and recording it notes nothing or one event
\* (Registry.observe).
LEMMA ObserveTyped ==
  ASSUME NEW h \in Host
  PROVE  /\ Reported(h) \in Host
         /\ \A id \in Hosts : Observed(id, h) \in Seq(FleetEvent)
<1>1. Liveness(h) \in HostLiveness /\ KindFor(Liveness(h)) \in EventKind
  BY DEF Liveness, HostLiveness, KindFor, EventKind
<1>2. \A id \in Hosts : Event(KindFor(Liveness(h)), id, h) \in FleetEvent
  BY <1>1 DEF Event, FleetEvent, Host
<1>. QED BY <1>1, <1>2 DEF Reported, Observed, Host

-----------------------------------------------------------------------------
(* Beats and time. *)

\* A beat replaces one row, drops the rows nobody can act on, and settles (Registry.Beat).
LEMMA BeatEffect ==
  ASSUME RegistryInv, NEW b \in HostHeartbeat, Beat(b)
  PROVE  /\ RegistryInv'
         /\ \A h \in DOMAIN hosts' :
              IF h = b.host THEN hosts'[h].instances = b.instances
              ELSE h \in DOMAIN hosts /\ hosts'[h] = hosts[h]
         /\ BeatEvents(b) \in Seq(FleetEvent)
         /\ DOMAIN pending' \subseteq DOMAIN pending
         /\ \A w \in DOMAIN pending' :
              /\ pending'[w].host = pending[w].host
              /\ pending'[w].session = pending[w].session
              /\ pending'[w].starting = pending[w].starting
              /\ pending[w].port = BoundPort => pending'[w].port = BoundPort
              /\ \/ pending'[w] = pending[w]
                    /\ (pending[w].host = b.host => ~Names(b.instances, pending[w].session))
                 \/ pending'[w].reported /\ pending[w].host = b.host
<1>. DEFINE kept == {h \in DOMAIN hosts \ {b.host} : hosts[h].age <= Retain} \cup {b.host}
<1>1. hosts' = [h \in kept |-> IF h = b.host THEN RowOf(b) ELSE hosts[h]] /\ pending' = Settle(b, kept)
  BY DEF Beat
<1>2. \A h \in DOMAIN hosts : hosts[h] \in Host /\ h \in Hosts
  BY DEF RegistryInv, RegistryTypeOK
<1>3. b.host \in Hosts /\ b.incarnation \in Incarnations
  BY DEF HostHeartbeat
<1>a. RowOf(b) \in Host /\ RowOf(b).instances = b.instances
  <2>. DEFINE r == [running |-> b.running, instances |-> b.instances, leaving |-> b.leaving,
                    incarnation |-> b.incarnation, suspected |-> FALSE,
                    reported |-> "healthy", age |-> 0]
  <2>1. r \in Host
    BY WindowAssumption DEF HostHeartbeat, Host, HostLiveness
  <2>2. Reported(r) \in Host
    BY <2>1, ObserveTyped
  <2>3. Reported(r).instances = b.instances
    BY DEF Reported
  <2>. QED BY <2>2, <2>3 DEF RowOf
<1>4. DOMAIN hosts' \subseteq Hosts /\ hosts' \in [DOMAIN hosts' -> Host]
  BY <1>1, <1>2, <1>3, <1>a
<1>5. \A h \in DOMAIN hosts' :
        IF h = b.host THEN hosts'[h].instances = b.instances
        ELSE h \in DOMAIN hosts /\ hosts'[h] = hosts[h]
  BY <1>1, <1>a
<1>6. BeatEvents(b) \in Seq(FleetEvent)
  <2>2. \A k \in EventKind : <<Event(k, b.host, b)>> \in Seq(FleetEvent)
    BY <1>3 DEF Event, FleetEvent
  <2>3. CASE b.host \notin DOMAIN hosts
    <3>1. BeatEvents(b) = <<Event("registered", b.host, b)>> BY <2>3 DEF BeatEvents
    <3>. QED BY <2>2, <3>1 DEF EventKind
  <2>4. CASE b.host \in DOMAIN hosts /\ hosts[b.host].incarnation # b.incarnation
    <3>1. BeatEvents(b) = <<Event("restarted", b.host, b)>> BY <2>4 DEF BeatEvents
    <3>. QED BY <2>2, <3>1 DEF EventKind
  <2>5. CASE b.host \in DOMAIN hosts /\ ~(hosts[b.host].incarnation # b.incarnation)
    <3>. DEFINE r == [RowOf(b) EXCEPT !.reported = hosts[b.host].reported]
    <3>1. BeatEvents(b) = Observed(b.host, r) BY <2>5 DEF BeatEvents
    <3>2. r \in Host
      <4>1. hosts[b.host].reported \in HostLiveness BY <1>2, <2>5 DEF Host
      <4>. QED BY <4>1, <1>a DEF Host
    <3>. HIDE DEF r
    <3>. QED BY <1>3, <3>1, <3>2, ObserveTyped
  <2>. QED BY <2>3, <2>4, <2>5
<1>b. events' \in Seq(FleetEvent)
  <2>1. events \o BeatEvents(b) \in Seq(FleetEvent) /\ events' = Newest(events \o BeatEvents(b), MaxPendingEvents)
    BY <1>6 DEF RegistryInv, RegistryTypeOK, Beat, Note
  <2>. QED BY <2>1, NewestOf, EventsAssumption
<1>. HIDE DEF kept
<1>7. /\ DOMAIN pending' \subseteq DOMAIN pending
      /\ pending' \in [DOMAIN pending' -> Reservation]
      /\ \A w \in DOMAIN pending' :
           /\ pending'[w].host = pending[w].host
           /\ pending'[w].session = pending[w].session
           /\ pending'[w].starting = pending[w].starting
           /\ pending[w].port = BoundPort => pending'[w].port = BoundPort
           /\ \/ pending'[w] = pending[w]
                 /\ (pending[w].host = b.host => ~Names(b.instances, pending[w].session))
              \/ pending'[w].reported /\ pending[w].host = b.host
  <2>. DEFINE named(w) == pending[w].host = b.host /\ Names(b.instances, pending[w].session)
              held == {w \in DOMAIN pending :
                         /\ pending[w].host \in kept
                         /\ pending[w].host = b.host => named(w) \/ pending[w].starting}
              new(w) == [pending[w] EXCEPT !.reported = TRUE, !.port = BoundPort]
  <2>1. pending' = [w \in held |-> IF named(w) THEN new(w) ELSE pending[w]]
    BY <1>1 DEF Settle
  <2>2. \A w \in DOMAIN pending : pending[w] \in Reservation
    BY DEF RegistryInv, RegistryTypeOK
  <2>3. \A w \in DOMAIN pending :
          /\ new(w) \in Reservation
          /\ new(w).host = pending[w].host /\ new(w).session = pending[w].session
          /\ new(w).starting = pending[w].starting
          /\ new(w).port = BoundPort /\ new(w).reported = TRUE
    BY <2>2 DEF Reservation, Port
  <2>4. held \subseteq DOMAIN pending /\ \A w \in held : pending[w].host \in kept
    OBVIOUS
  <2>. HIDE DEF held, new
  <2>5. DOMAIN pending' = held /\ \A w \in held : pending'[w] = IF named(w) THEN new(w) ELSE pending[w]
    BY <2>1
  <2>6. pending' \in [DOMAIN pending' -> Reservation]
    BY <2>1, <2>2, <2>3, <2>4
  <2>. QED BY <2>3, <2>4, <2>5, <2>6
<1>8. IsFiniteSet(DOMAIN pending')
  BY <1>7, FS_Subset DEF RegistryInv
<1>9. RegistryInv'
  BY <1>4, <1>b, <1>7, <1>8 DEF RegistryInv, RegistryTypeOK
<1>. QED BY <1>5, <1>6, <1>7, <1>9

\* Time ages the rows and does nothing else.
LEMMA TickEffect ==
  ASSUME RegistryInv, Tick
  PROVE  /\ RegistryInv'
         /\ DOMAIN hosts' = DOMAIN hosts
         /\ \A h \in DOMAIN hosts : hosts'[h].instances = hosts[h].instances
         /\ pending' = pending
<1>. DEFINE aged(h) == [hosts[h] EXCEPT !.age = IF @ > Retain THEN @ ELSE @ + 1]
<1>1. hosts' = [h \in DOMAIN hosts |-> aged(h)] /\ UNCHANGED <<pending, events>>
  BY DEF Tick
<1>2. \A h \in DOMAIN hosts : hosts[h] \in Host
  BY DEF RegistryInv, RegistryTypeOK
<1>3. \A h \in DOMAIN hosts : aged(h) \in Host /\ aged(h).instances = hosts[h].instances
  BY <1>2, WindowAssumption DEF Host
<1>. HIDE DEF aged
<1>4. DOMAIN hosts' = DOMAIN hosts /\ \A h \in DOMAIN hosts : hosts'[h] = aged(h)
  BY <1>1
<1>5. hosts' \in [DOMAIN hosts' -> Host]
  BY <1>1, <1>3
<1>. QED BY <1>1, <1>3, <1>4, <1>5 DEF RegistryInv, RegistryTypeOK

-----------------------------------------------------------------------------
(* Placements. *)

\* The order the balancer answers is over known boxes (Registry.Candidates, MostFree.Rank).
LEMMA RankTyped ==
  ASSUME RegistryInv, NEW region
  PROVE  DOMAIN Rank(region) \subseteq Hosts /\ Rank(region) \in [DOMAIN Rank(region) -> Nat]
<1>1. \A id \in DOMAIN hosts : hosts[id].running \in Nat /\ id \in Hosts
  BY DEF RegistryInv, RegistryTypeOK, Host
<1>2. \A id \in DOMAIN hosts : ReservedOn(id) \in Nat
  <2>. TAKE id \in DOMAIN hosts
  <2>. DEFINE W == {w \in DOMAIN pending : pending[w].host = id /\ ~pending[w].reported}
  <2>1. W \in SUBSET DOMAIN pending OBVIOUS
  <2>. HIDE DEF W
  <2>2. IsFiniteSet(W) BY <2>1, FS_Subset DEF RegistryInv
  <2>3. Cardinality(W) \in Nat BY <2>2, FS_CardinalityType
  <2>. QED BY <2>3 DEF ReservedOn, W
<1>3. \A id \in DOMAIN hosts : FreeSlots(id) \in Nat
  BY <1>1, <1>2, CapAssumption DEF FreeSlots
<1>4. Candidates(region) \subseteq DOMAIN hosts
  BY DEF Candidates
<1>. QED BY <1>1, <1>3, <1>4 DEF Rank

\* Where a join may be sent: to a session a row names, to one that is reserved, or to a box that
\* is asked to start the session the join would mint (Registry.Place).
LEMMA AnswersEffect ==
  ASSUME RegistryInv, NEW w, NEW region, NEW s \in Sessions,
         NEW order, DOMAIN order \subseteq Hosts,
         NEW p \in Answers(w, region, order, s)
  PROVE  /\ p \in Placement
         /\ p.starts => p = [host |-> p.host, session |-> s, port |-> NoPort, starts |-> TRUE]
         /\ ~p.starts =>
              \/ /\ p.host \in DOMAIN hosts /\ p.port = BoundPort
                 /\ \E i \in hosts[p.host].instances : p.session = i.session
              \/ /\ w \in DOMAIN pending /\ p.host = pending[w].host
                 /\ p.session = pending[w].session /\ p.port = pending[w].port
<1>1. CASE p \in Serving(w, region)
  <2>1. PICK id \in DOMAIN hosts : \E i \in hosts[id].instances :
          p = [host |-> id, session |-> i.session, port |-> BoundPort, starts |-> FALSE]
    BY <1>1 DEF Serving
  <2>2. PICK i \in hosts[id].instances :
          p = [host |-> id, session |-> i.session, port |-> BoundPort, starts |-> FALSE]
    BY <2>1
  <2>3. id \in Hosts /\ i.session \in Sessions
    BY DEF RegistryInv, RegistryTypeOK, Host, InstanceReport
  <2>. QED BY <2>2, <2>3 DEF Placement, Port
<1>2. CASE p \in Held(w, region)
  <2>1. w \in DOMAIN pending
    BY <1>2 DEF Held
  <2>2. p = [host |-> pending[w].host, session |-> pending[w].session,
             port |-> pending[w].port, starts |-> FALSE]
    BY <1>2 DEF Held
  <2>3. pending[w] \in Reservation
    BY <2>1 DEF RegistryInv, RegistryTypeOK
  <2>. QED BY <2>1, <2>2, <2>3 DEF Placement, Reservation
<1>3. CASE p \in Minted(s, region, order)
  <2>1. PICK id \in DOMAIN order :
          p = [host |-> id, session |-> s, port |-> NoPort, starts |-> TRUE]
    BY <1>3 DEF Minted
  <2>2. id \in Hosts OBVIOUS
  <2>. QED BY <2>1, <2>2 DEF Placement, Port
<1>. QED BY <1>1, <1>2, <1>3 DEF Answers

\* Reserve writes one reservation or none (Registry.Place).
LEMMA ReserveEffect ==
  ASSUME RegistryInv, NEW w \in World, NEW p \in Placement, Reserve(w, p)
  PROVE  /\ RegistryInv'
         /\ hosts' = hosts
         /\ ~p.starts => pending' = pending
         /\ p.starts =>
              /\ DOMAIN pending' = DOMAIN pending \cup {w}
              /\ \A v \in DOMAIN pending' :
                   pending'[v] = IF v = w
                                 THEN [host |-> p.host, session |-> p.session, port |-> NoPort,
                                       reported |-> FALSE, starting |-> TRUE]
                                 ELSE pending[v]
<1>. DEFINE r == [host |-> p.host, session |-> p.session, port |-> NoPort,
                  reported |-> FALSE, starting |-> TRUE]
<1>1. r \in Reservation
  BY DEF Placement, Reservation, Port
<1>2. hosts' = hosts /\ events' = events
  BY DEF Reserve
<1>3. CASE ~p.starts
  <2>1. pending' = pending BY <1>3 DEF Reserve
  <2>. QED BY <1>2, <1>3, <2>1 DEF RegistryInv, RegistryTypeOK
<1>4. CASE p.starts
  <2>1. pending' = [v \in DOMAIN pending \cup {w} |-> IF v = w THEN r ELSE pending[v]]
    BY <1>4 DEF Reserve
  <2>. HIDE DEF r
  <2>2. pending' \in [DOMAIN pending' -> Reservation] /\ DOMAIN pending' = DOMAIN pending \cup {w}
    BY <1>1, <2>1 DEF RegistryInv, RegistryTypeOK
  <2>3. IsFiniteSet(DOMAIN pending')
    BY <2>2, FS_AddElement DEF RegistryInv
  <2>4. RegistryInv'
    BY <1>2, <2>2, <2>3 DEF RegistryInv, RegistryTypeOK
  <2>5. \A v \in DOMAIN pending' : pending'[v] = IF v = w THEN r ELSE pending[v]
    BY <2>1
  <2>. QED BY <1>2, <1>4, <2>2, <2>4, <2>5 DEF r
<1>. QED BY <1>3, <1>4

\* Started binds the port of one session's reservation and lets beats clear it again.
LEMMA StartedEffect ==
  ASSUME RegistryInv, NEW w, NEW s, Started(w, s)
  PROVE  /\ RegistryInv'
         /\ hosts' = hosts
         /\ DOMAIN pending' = DOMAIN pending
         /\ \A v \in DOMAIN pending :
              /\ pending'[v].host = pending[v].host /\ pending'[v].session = pending[v].session
              /\ pending'[v].reported = pending[v].reported
              /\ v = w /\ pending[v].session = s =>
                   pending'[v].port = BoundPort /\ ~pending'[v].starting
              /\ ~(v = w /\ pending[v].session = s) => pending'[v] = pending[v]
<1>. DEFINE new(v) == [pending[v] EXCEPT !.port = BoundPort, !.starting = FALSE]
<1>1. pending' = [v \in DOMAIN pending |->
                    IF v = w /\ pending[v].session = s THEN new(v) ELSE pending[v]]
      /\ hosts' = hosts /\ events' = events
  BY DEF Started
<1>2. \A v \in DOMAIN pending : pending[v] \in Reservation
  BY DEF RegistryInv, RegistryTypeOK
<1>3. \A v \in DOMAIN pending :
        /\ new(v) \in Reservation
        /\ new(v).host = pending[v].host /\ new(v).session = pending[v].session
        /\ new(v).reported = pending[v].reported
        /\ new(v).port = BoundPort /\ new(v).starting = FALSE
  BY <1>2 DEF Reservation, Port
<1>. HIDE DEF new
<1>4. DOMAIN pending' = DOMAIN pending /\ pending' \in [DOMAIN pending' -> Reservation]
  BY <1>1, <1>2, <1>3
<1>5. \A v \in DOMAIN pending :
        pending'[v] = IF v = w /\ pending[v].session = s THEN new(v) ELSE pending[v]
  BY <1>1
<1>6. RegistryInv'
  BY <1>1, <1>4 DEF RegistryInv, RegistryTypeOK
<1>. QED BY <1>1, <1>3, <1>4, <1>5, <1>6

\* Release drops the reservations of one session of one game and keeps the others.
LEMMA ReleaseEffect ==
  ASSUME RegistryInv, NEW g, NEW s, Release(g, s)
  PROVE  /\ RegistryInv'
         /\ hosts' = hosts
         /\ DOMAIN pending' \subseteq DOMAIN pending
         /\ \A v \in DOMAIN pending' :
              pending'[v] = pending[v] /\ ~(GameOf(v) = g /\ pending[v].session = s)
<1>. DEFINE W == {v \in DOMAIN pending : ~(GameOf(v) = g /\ pending[v].session = s)}
<1>1. pending' = [v \in W |-> pending[v]] /\ hosts' = hosts /\ events' = events
  BY DEF Release
<1>2. W \in SUBSET DOMAIN pending OBVIOUS
<1>3. \A v \in W : ~(GameOf(v) = g /\ pending[v].session = s) OBVIOUS
<1>. HIDE DEF W
<1>4. DOMAIN pending' = W /\ \A v \in W : pending'[v] = pending[v]
  BY <1>1
<1>5. IsFiniteSet(W) BY <1>2, FS_Subset DEF RegistryInv
<1>6. pending' \in [DOMAIN pending' -> Reservation]
  BY <1>1, <1>2 DEF RegistryInv, RegistryTypeOK
<1>7. RegistryInv'
  BY <1>1, <1>2, <1>4, <1>5, <1>6 DEF RegistryInv, RegistryTypeOK
<1>. QED BY <1>1, <1>2, <1>3, <1>4, <1>7

-----------------------------------------------------------------------------
(* Deployments. *)

\* Draining changes what the rows say of sessions, never which sessions they name.
LEMMA DrainingEffect ==
  ASSUME RegistryInv, NEW id, NEW drained, Draining(id, drained)
  PROVE  /\ RegistryInv'
         /\ pending' = pending
         /\ DOMAIN hosts' = DOMAIN hosts
         /\ \A h \in DOMAIN hosts : \A i \in hosts'[h].instances :
              \E k \in hosts[h].instances : k.session = i.session
<1>. DEFINE mark(i) == IF i.session \in drained THEN [i EXCEPT !.state = "draining"] ELSE i
            marked(h) == [hosts[h] EXCEPT !.instances = {mark(i) : i \in hosts[h].instances}]
<1>1. hosts' = [h \in DOMAIN hosts |-> IF h # id THEN hosts[h] ELSE marked(h)]
      /\ pending' = pending /\ events' = events
  BY DEF Draining
<1>2. \A h \in DOMAIN hosts : hosts[h] \in Host
  BY DEF RegistryInv, RegistryTypeOK
<1>3. \A i \in InstanceReport : mark(i) \in InstanceReport /\ mark(i).session = i.session
  BY DEF InstanceReport, InstanceState
<1>4. \A h \in DOMAIN hosts : hosts[h].instances \in SUBSET InstanceReport
  BY <1>2 DEF Host
<1>. HIDE DEF mark
<1>5. \A h \in DOMAIN hosts : {mark(i) : i \in hosts[h].instances} \in SUBSET InstanceReport
  BY <1>3, <1>4
<1>6. \A h \in DOMAIN hosts :
        marked(h) \in Host /\ marked(h).instances = {mark(i) : i \in hosts[h].instances}
  BY <1>2, <1>5 DEF Host
<1>. HIDE DEF marked
<1>7. DOMAIN hosts' = DOMAIN hosts /\ hosts' \in [DOMAIN hosts' -> Host]
  BY <1>1, <1>2, <1>6
<1>8. \A h \in DOMAIN hosts : \A i \in hosts'[h].instances :
        \E k \in hosts[h].instances : k.session = i.session
  <2>. TAKE h \in DOMAIN hosts
  <2>. TAKE i \in hosts'[h].instances
  <2>1. CASE h # id BY <1>1, <2>1
  <2>2. CASE h = id
    <3>1. i \in {mark(k) : k \in hosts[h].instances} BY <1>1, <1>6, <2>2
    <3>2. PICK k \in hosts[h].instances : i = mark(k) BY <3>1
    <3>. QED BY <1>3, <1>4, <3>2
  <2>. QED BY <2>1, <2>2
<1>9. RegistryInv'
  BY <1>1, <1>7 DEF RegistryInv, RegistryTypeOK
<1>. QED BY <1>1, <1>7, <1>8, <1>9

\* Suspicion is one bit of one row, and the liveness that goes with it.
LEMMA SuspectEffect ==
  ASSUME RegistryInv, NEW id \in Hosts, Suspect(id)
  PROVE  /\ RegistryInv'
         /\ pending' = pending
         /\ DOMAIN hosts' = DOMAIN hosts
         /\ \A h \in DOMAIN hosts : hosts'[h].instances = hosts[h].instances
         /\ SuspectEvents(id) \in Seq(FleetEvent)
<1>. DEFINE doubted(h) == [hosts[h] EXCEPT !.suspected = TRUE]
<1>1. hosts' = [h \in DOMAIN hosts |-> IF h = id /\ ~hosts[h].suspected
                                      THEN Reported(doubted(h)) ELSE hosts[h]]
      /\ pending' = pending
  BY DEF Suspect
<1>2. \A h \in DOMAIN hosts : hosts[h] \in Host
  BY DEF RegistryInv, RegistryTypeOK
<1>3. \A h \in DOMAIN hosts : doubted(h) \in Host /\ doubted(h).instances = hosts[h].instances
  BY <1>2 DEF Host
<1>a. SuspectEvents(id) \in Seq(FleetEvent)
  <2>1. CASE id \in DOMAIN hosts /\ ~hosts[id].suspected
    <3>1. SuspectEvents(id) = Observed(id, doubted(id)) BY <2>1 DEF SuspectEvents
    <3>. QED BY <1>3, <2>1, <3>1, ObserveTyped
  <2>2. CASE ~(id \in DOMAIN hosts /\ ~hosts[id].suspected)
    BY <2>2 DEF SuspectEvents
  <2>. QED BY <2>1, <2>2
<1>4. events' \in Seq(FleetEvent)
  <2>1. /\ events \o SuspectEvents(id) \in Seq(FleetEvent)
        /\ events' = Newest(events \o SuspectEvents(id), MaxPendingEvents)
    BY <1>a DEF RegistryInv, RegistryTypeOK, Suspect, Note
  <2>. QED BY <2>1, NewestOf, EventsAssumption
<1>. HIDE DEF doubted
<1>5. \A h \in DOMAIN hosts :
        /\ Reported(doubted(h)) \in Host
        /\ Reported(doubted(h)).instances = hosts[h].instances
  BY <1>3, ObserveTyped DEF Reported, Host
<1>6. DOMAIN hosts' = DOMAIN hosts /\ hosts' \in [DOMAIN hosts' -> Host]
  BY <1>1, <1>2, <1>5
<1>7. \A h \in DOMAIN hosts : hosts'[h].instances = hosts[h].instances
  BY <1>1, <1>5
<1>8. RegistryInv'
  BY <1>1, <1>4, <1>6 DEF RegistryInv, RegistryTypeOK
<1>. QED BY <1>1, <1>a, <1>6, <1>7, <1>8

-----------------------------------------------------------------------------
(* Placement. *)

FleetTypes == TypeOK /\ RegistryInv /\ \A h \in Hosts : IsFiniteSet(box[h])

\* The record the worker keeps.
WorkerRecord ==
  [at : {"idle", "place", "start", "settle"}, job : SUBSET Joiners,
   answer : SUBSET Placement, reply : {"none", "started", "refused"}]

\* The rows and the state of a rollout.
DeployRow == [host : Hosts, status : {"failed", "draining", "skipped"}, sessions : SUBSET Sessions]
DeployRecord ==
  [left : 0 .. MaxDeploys, game : SUBSET Games, asking : SUBSET Hosts, rows : SUBSET DeployRow]

\* The placement the worker is having started for join j on box h.
StartOn(h, j) == {[host |-> h, session |-> j, port |-> NoPort, starts |-> TRUE]}

\* The worker holds one join unless it is idle; its answer and reply fit its step.
WorkerFits ==
  /\ worker.at = "idle" => worker.job = {}
  /\ worker.at \in {"idle", "place"} => worker.reply = "none"
  /\ worker.at = "place" => worker.answer = {}
  /\ worker.at # "idle" => \E j \in Joiners : worker.job = {j}
  /\ worker.at = "start" =>
       \E h \in Hosts, j \in Joiners : worker.job = {j} /\ worker.answer = StartOn(h, j)
  /\ worker.at = "start" /\ worker.reply = "started" =>
       \A p \in worker.answer : p.session \in ran[p.host]

\* A session whose join was not placed yet was started and called for nowhere.
NotPlaced ==
  \A j \in Joiners :
    /\ joiner[j] \in {"new", "waiting"} => j \notin worker.job
    /\ joiner[j] \in {"new", "waiting"} \/ (worker.at = "place" /\ j \in worker.job) =>
         \A h \in Hosts : j \notin ran[h] /\ <<h, j>> \notin calls

\* The start the worker waits on was sent to the box it reserved.
CalledWhereReserved ==
  worker.at = "start" =>
    \A j \in worker.job, h \in Hosts :
      <<h, j>> \in calls => \A p \in worker.answer : p.host = h

\* Whoever names a session names a box that started it.
NamesRan ==
  /\ \A h \in Hosts : \A i \in box[h] : i.session \in ran[h]
  /\ \A b \in flight : \A i \in b.instances : i.session \in ran[b.host]
  /\ \A h \in DOMAIN hosts : \A i \in hosts[h].instances : i.session \in ran[h]

\* A reservation is being started by the worker, or its session was started and has a port.
ReservedRan ==
  \A w \in DOMAIN pending :
    IF pending[w].starting
    THEN /\ worker.at = "start" /\ worker.job = {pending[w].session}
         /\ w = req[pending[w].session].world
         /\ \A p \in worker.answer : p.host = pending[w].host
    ELSE pending[w].session \in ran[pending[w].host] /\ pending[w].port = BoundPort

FleetInv ==
  /\ FleetTypes /\ WorkerFits /\ NotPlaced /\ CalledWhereReserved /\ NamesRan /\ ReservedRan
  /\ SentToAStartedWorld /\ Dialable /\ CountedOnce

-----------------------------------------------------------------------------
(* Steps on parts of the state. *)

\* A beat that names only what its box started keeps the reservations honest (Registry.Beat).
LEMMA BeatKeeps ==
  ASSUME FleetInv, NEW b \in HostHeartbeat, Beat(b),
         \A i \in b.instances : i.session \in ran[b.host],
         ran' = ran, worker' = worker, req' = req
  PROVE  /\ RegistryInv' /\ ReservedRan' /\ CountedOnce'
         /\ \A h \in DOMAIN hosts' : \A i \in hosts'[h].instances : i.session \in ran'[h]
<1>1. /\ RegistryInv'
      /\ \A h \in DOMAIN hosts' :
           IF h = b.host THEN hosts'[h].instances = b.instances
           ELSE h \in DOMAIN hosts /\ hosts'[h] = hosts[h]
      /\ DOMAIN pending' \subseteq DOMAIN pending
      /\ \A w \in DOMAIN pending' :
           /\ pending'[w].host = pending[w].host
           /\ pending'[w].session = pending[w].session
           /\ pending'[w].starting = pending[w].starting
           /\ pending[w].port = BoundPort => pending'[w].port = BoundPort
           /\ \/ pending'[w] = pending[w]
                 /\ (pending[w].host = b.host => ~Names(b.instances, pending[w].session))
              \/ pending'[w].reported /\ pending[w].host = b.host
  BY BeatEffect DEF FleetInv, FleetTypes
<1>2. ReservedRan'
  BY <1>1 DEF FleetInv, ReservedRan
<1>3. CountedOnce'
  BY <1>1 DEF FleetInv, CountedOnce
<1>4. \A h \in DOMAIN hosts' : \A i \in hosts'[h].instances : i.session \in ran'[h]
  BY <1>1 DEF FleetInv, NamesRan
<1>. QED BY <1>1, <1>2, <1>3, <1>4

\* A step that keeps the reservations and names no new session in a row.
LEMMA RowsKeep ==
  ASSUME FleetInv, pending' = pending, DOMAIN hosts' \subseteq DOMAIN hosts,
         \A h \in DOMAIN hosts' : \A i \in hosts'[h].instances :
           \E k \in hosts[h].instances : k.session = i.session,
         ran' = ran, worker' = worker, req' = req
  PROVE  /\ ReservedRan' /\ CountedOnce'
         /\ \A h \in DOMAIN hosts' : \A i \in hosts'[h].instances : i.session \in ran'[h]
<1>1. ReservedRan' BY DEF FleetInv, ReservedRan
<1>2. CountedOnce' BY DEF FleetInv, CountedOnce, Names
<1>3. \A h \in DOMAIN hosts' : \A i \in hosts'[h].instances : i.session \in ran'[h]
  BY DEF FleetInv, NamesRan
<1>. QED BY <1>1, <1>2, <1>3

\* A beat of a box names what the box runs, and counts it (heartbeat.Body).
LEMMA HeartbeatTyped ==
  ASSUME FleetInv, NEW h \in Hosts, NEW leaving \in BOOLEAN
  PROVE  \A n \in Nat \cup {Cardinality(box[h])} :
           /\ Heartbeat(h, n, leaving) \in HostHeartbeat
           /\ \A i \in Heartbeat(h, n, leaving).instances :
                i.session \in ran[Heartbeat(h, n, leaving).host]
<1>1. Cardinality(box[h]) \in Nat
  BY FS_CardinalityType DEF FleetInv, FleetTypes
<1>2. (CHOOSE n \in Incarnations : TRUE) \in Incarnations
  BY LivesAssumption
<1>. QED BY <1>1, <1>2 DEF Heartbeat, HostHeartbeat, FleetInv, FleetTypes, TypeOK, NamesRan

-----------------------------------------------------------------------------
(* What every fleet keeps, whatever its size and whatever goes wrong. *)

\* Nothing the callers, the worker, the boxes, the network or a rollout does breaks the invariant.
THEOREM FleetInvariant == Spec => []FleetInv
<1>1. Init => FleetInv
  <2>. SUFFICES ASSUME Init PROVE FleetInv
    OBVIOUS
  <2>1. DOMAIN hosts = {} /\ DOMAIN pending = {}
    BY DEF Init, RegistryInit
  <2>2. RegistryTypeOK
    <3>1. events \in Seq(FleetEvent)
      BY DEF Init, RegistryInit
    <3>2. hosts \in [DOMAIN hosts -> Host] /\ pending \in [DOMAIN pending -> Reservation]
      BY <2>1 DEF Init, RegistryInit
    <3>. QED BY <2>1, <3>1, <3>2 DEF RegistryTypeOK
  <2>3. RegistryInv /\ \A h \in Hosts : IsFiniteSet(box[h])
    BY <2>1, <2>2, FS_EmptySet DEF Init, RegistryInv
  <2>4. TypeOK
    <3>1. req \in [Joiners -> [world : World, region : {r.region : r \in Requests}]]
      BY RequestsAssumption DEF Init
    <3>2. worker \in WorkerRecord
      BY DEF Init, Idle, WorkerRecord
    <3>3. DOMAIN ranked = {} /\ ranked \in [DOMAIN ranked -> Nat]
      BY DEF Init
    <3>4. deploy \in DeployRecord
      BY DeploysAssumption DEF Init, NoDeploy, DeployRecord
    <3>5. joiner \in [Joiners -> JoinerState]
      BY DEF Init, JoinerState
    <3>6. /\ box \in [Hosts -> SUBSET InstanceReport] /\ ran \in [Hosts -> SUBSET Sessions]
          /\ agent \in [Hosts -> BOOLEAN] /\ calls \subseteq Hosts \X Sessions
          /\ flight \subseteq HostHeartbeat
      BY DEF Init
    <3>. QED BY <2>2, <3>1, <3>2, <3>3, <3>4, <3>5, <3>6
         DEF TypeOK, WorkerRecord, DeployRecord, DeployRow
  <2>5. worker = Idle /\ worker.at = "idle" /\ worker.job = {} /\ worker.answer = {}
    BY DEF Init, Idle
  <2>6. WorkerFits /\ CalledWhereReserved /\ NotPlaced
    BY <2>1, <2>5 DEF Init, Idle, WorkerFits, CalledWhereReserved, NotPlaced
  <2>7. NamesRan /\ ReservedRan /\ CountedOnce
    BY <2>1 DEF Init, NamesRan, ReservedRan, CountedOnce
  <2>8. SentToAStartedWorld /\ Dialable
    BY <2>5 DEF SentToAStartedWorld, Dialable
  <2>. QED BY <2>3, <2>4, <2>6, <2>7, <2>8 DEF FleetInv, FleetTypes
<1>2. FleetInv /\ [Next]_vars => FleetInv'
  <2>. SUFFICES ASSUME FleetInv, [Next]_vars PROVE FleetInv'
    OBVIOUS
  <2>. USE DEF Idle, registryVars, envVars, Joiners
  \* The image of a finite set is finite.
  <2>image. ASSUME NEW S, IsFiniteSet(S), NEW f, DOMAIN f = S
            PROVE  IsFiniteSet({f[x] : x \in S})
    <3>. USE <2>image
    <3>. DEFINE T == {f[x] : x \in S}
                g == [x \in S |-> f[x]]
    <3>1. g \in Surjection(S, T)
      BY DEF Surjection
    <3>. HIDE DEF g, T
    <3>2. IsFiniteSet(T)
      BY <3>1, FS_Surjection
    <3>. QED BY <3>2 DEF T
  \* A step that changes nothing the invariant speaks of but the types.
  <2>quiet. ASSUME FleetInv, FleetTypes',
                   UNCHANGED <<hosts, pending, req, worker, ran, box, calls, flight, joiner>>
            PROVE  FleetInv'
    BY <2>quiet DEF FleetInv, WorkerFits, NotPlaced, CalledWhereReserved, NamesRan, ReservedRan,
             SentToAStartedWorld, Dialable, CountedOnce
  <2>1. ASSUME NEW j \in Joiners, Join(j) PROVE FleetInv'
    <3>1. UNCHANGED <<hosts, pending, events, req, worker, ranked, box, ran, agent, calls, flight, deploy>>
      BY <2>1 DEF Join
    <3>2. /\ joiner' \in [Joiners -> JoinerState]
          /\ \A x \in Joiners : joiner'[x] \in {"new", "waiting"} => joiner[x] \in {"new", "waiting"}
      BY <2>1 DEF Join, FleetInv, FleetTypes, TypeOK, JoinerState
    <3>3. FleetTypes'
      BY <3>1, <3>2 DEF FleetInv, FleetTypes, TypeOK, RegistryInv, RegistryTypeOK
    <3>4. NotPlaced'
      BY <3>1, <3>2 DEF FleetInv, NotPlaced
    <3>5. WorkerFits' /\ CalledWhereReserved' /\ NamesRan' /\ ReservedRan'
          /\ SentToAStartedWorld' /\ Dialable' /\ CountedOnce'
      BY <3>1 DEF FleetInv, WorkerFits, CalledWhereReserved, NamesRan, ReservedRan,
                  SentToAStartedWorld, Dialable, CountedOnce
    <3>. QED BY <3>3, <3>4, <3>5 DEF FleetInv
  <2>2. ASSUME NEW j \in Joiners, GiveUp(j) PROVE FleetInv'
    <3>1. UNCHANGED <<hosts, pending, events, req, worker, ranked, box, ran, agent, calls, flight, deploy>>
      BY <2>2 DEF GiveUp
    <3>2. /\ joiner' \in [Joiners -> JoinerState]
          /\ \A x \in Joiners : joiner'[x] \in {"new", "waiting"} => joiner[x] \in {"new", "waiting"}
      BY <2>2 DEF GiveUp, FleetInv, FleetTypes, TypeOK, JoinerState
    <3>3. FleetTypes'
      BY <3>1, <3>2 DEF FleetInv, FleetTypes, TypeOK, RegistryInv, RegistryTypeOK
    <3>4. NotPlaced'
      BY <3>1, <3>2 DEF FleetInv, NotPlaced
    <3>5. WorkerFits' /\ CalledWhereReserved' /\ NamesRan' /\ ReservedRan'
          /\ SentToAStartedWorld' /\ Dialable' /\ CountedOnce'
      BY <3>1 DEF FleetInv, WorkerFits, CalledWhereReserved, NamesRan, ReservedRan,
                  SentToAStartedWorld, Dialable, CountedOnce
    <3>. QED BY <3>3, <3>4, <3>5 DEF FleetInv
  <2>3. ASSUME NEW j \in Joiners, TakeAndRank(j) PROVE FleetInv'
    <3>1. UNCHANGED <<hosts, pending, events, req, box, ran, agent, calls, flight, deploy>>
      BY <2>3 DEF TakeAndRank
    <3>2. /\ worker.at = "idle" /\ joiner[j] = "waiting"
          /\ joiner' = [joiner EXCEPT ![j] = "taken"]
          /\ worker' = [at |-> "place", job |-> {j}, answer |-> {}, reply |-> "none"]
          /\ ranked' = Rank(req[j].region)
      BY <2>3 DEF TakeAndRank
    <3>3. /\ joiner' \in [Joiners -> JoinerState] /\ joiner'[j] = "taken"
          /\ \A x \in Joiners \ {j} : joiner'[x] = joiner[x]
      BY <3>2 DEF FleetInv, FleetTypes, TypeOK, JoinerState
    <3>4. DOMAIN ranked' \subseteq Hosts /\ ranked' \in [DOMAIN ranked' -> Nat]
      BY <3>2, RankTyped DEF FleetInv, FleetTypes
    <3>5. FleetTypes'
      BY <3>1, <3>2, <3>3, <3>4 DEF FleetInv, FleetTypes, TypeOK, RegistryInv, RegistryTypeOK
    <3>6. WorkerFits' /\ CalledWhereReserved' /\ SentToAStartedWorld' /\ Dialable'
      BY <3>2 DEF WorkerFits, CalledWhereReserved, SentToAStartedWorld, Dialable
    <3>7. NotPlaced'
      BY <3>1, <3>2, <3>3 DEF FleetInv, NotPlaced, WorkerFits
    <3>8. NamesRan' /\ ReservedRan' /\ CountedOnce'
      BY <3>1, <3>2 DEF FleetInv, NamesRan, ReservedRan, CountedOnce
    <3>. QED BY <3>5, <3>6, <3>7, <3>8 DEF FleetInv
  <2>4. ASSUME NEW j \in Joiners, PlaceNowhere(j) PROVE FleetInv'
    <3>1. UNCHANGED <<hosts, pending, events, req, joiner, box, ran, agent, calls, flight, deploy>>
      BY <2>4 DEF PlaceNowhere
    <3>2. /\ worker.at = "place" /\ worker.job = {j} /\ worker.answer = {}
          /\ worker' = [worker EXCEPT !.at = "settle"] /\ ranked' = << >>
      BY <2>4 DEF PlaceNowhere, FleetInv, WorkerFits
    <3>3. /\ worker' \in WorkerRecord /\ worker'.at = "settle" /\ worker'.job = {j}
          /\ worker'.answer = {}
      BY <3>2 DEF FleetInv, FleetTypes, TypeOK, WorkerRecord
    <3>4. DOMAIN ranked' \subseteq Hosts /\ ranked' \in [DOMAIN ranked' -> Nat]
      BY <3>2
    <3>5. FleetTypes'
      BY <3>1, <3>3, <3>4 DEF FleetInv, FleetTypes, TypeOK, RegistryInv, RegistryTypeOK, WorkerRecord
    <3>6. WorkerFits' /\ CalledWhereReserved' /\ SentToAStartedWorld' /\ Dialable'
      BY <3>3 DEF WorkerFits, CalledWhereReserved, SentToAStartedWorld, Dialable
    <3>7. NotPlaced'
      BY <3>1, <3>2, <3>3 DEF FleetInv, NotPlaced
    <3>8. NamesRan' /\ ReservedRan' /\ CountedOnce'
      BY <3>1, <3>2 DEF FleetInv, NamesRan, ReservedRan, CountedOnce
    <3>. QED BY <3>5, <3>6, <3>7, <3>8 DEF FleetInv
  <2>5. ASSUME NEW j \in Joiners, Place(j) PROVE FleetInv'
    <3>1. UNCHANGED <<req, joiner, box, ran, agent, flight, deploy>>
      BY <2>5 DEF Place
    <3>2. worker.at = "place" /\ worker.job = {j} /\ worker.reply = "none" /\ ranked' = << >>
      BY <2>5 DEF Place, FleetInv, WorkerFits
    <3>3. PICK p \in Answers(req[j].world, req[j].region, ranked, j) :
            /\ Reserve(req[j].world, p)
            /\ worker' = [worker EXCEPT !.at = IF p.starts THEN "start" ELSE "settle", !.answer = {p}]
            /\ calls' = IF p.starts THEN calls \cup {<<p.host, j>>} ELSE calls
      BY <2>5 DEF Place
    <3>4. req[j].world \in World
      BY DEF FleetInv, FleetTypes, TypeOK
    <3>5. /\ p \in Placement
          /\ p.starts => p = [host |-> p.host, session |-> j, port |-> NoPort, starts |-> TRUE]
          /\ ~p.starts =>
               \/ /\ p.host \in DOMAIN hosts /\ p.port = BoundPort
                  /\ \E i \in hosts[p.host].instances : p.session = i.session
               \/ /\ req[j].world \in DOMAIN pending /\ p.host = pending[req[j].world].host
                  /\ p.session = pending[req[j].world].session
                  /\ p.port = pending[req[j].world].port
      BY AnswersEffect DEF FleetInv, FleetTypes, TypeOK
    <3>6. p.starts \in BOOLEAN /\ p.host \in Hosts /\ p.session \in Sessions
      BY <3>5 DEF Placement
    <3>7. ranked' \in [DOMAIN ranked' -> Nat] /\ DOMAIN ranked' \subseteq Hosts
      BY <3>2
    <3>8. \A w \in DOMAIN pending :
            ~pending[w].starting /\ pending[w].session \in ran[pending[w].host]
            /\ pending[w].port = BoundPort
      BY <3>2 DEF FleetInv, ReservedRan
    <3>9. \A h \in Hosts : j \notin ran[h] /\ <<h, j>> \notin calls
      BY <3>2 DEF FleetInv, NotPlaced
    <3>10. CASE ~p.starts
      <4>1. /\ worker' \in WorkerRecord /\ worker'.at = "settle" /\ worker'.job = {j}
            /\ worker'.answer = {p}
        BY <3>2, <3>3, <3>5, <3>10 DEF FleetInv, FleetTypes, TypeOK, WorkerRecord
      <4>2. RegistryInv' /\ hosts' = hosts /\ pending' = pending /\ calls' = calls
        BY <3>3, <3>4, <3>5, <3>10, ReserveEffect DEF FleetInv, FleetTypes
      <4>3. p.session \in ran[p.host] /\ p.port = BoundPort
        BY <3>5, <3>8, <3>10 DEF FleetInv, NamesRan
      <4>4. FleetTypes'
        BY <3>1, <3>7, <4>1, <4>2 DEF FleetInv, FleetTypes, TypeOK, RegistryInv, WorkerRecord
      <4>5. WorkerFits' /\ CalledWhereReserved' /\ SentToAStartedWorld' /\ Dialable'
        BY <3>1, <4>1, <4>3 DEF WorkerFits, CalledWhereReserved, SentToAStartedWorld, Dialable
      <4>6. NotPlaced'
        BY <3>1, <3>2, <4>1, <4>2 DEF FleetInv, NotPlaced
      <4>7. NamesRan' /\ ReservedRan' /\ CountedOnce'
        BY <3>1, <3>8, <4>2 DEF FleetInv, NamesRan, ReservedRan, CountedOnce
      <4>. QED BY <4>4, <4>5, <4>6, <4>7 DEF FleetInv
    <3>11. CASE p.starts
      <4>1. /\ worker' \in WorkerRecord /\ worker'.at = "start" /\ worker'.job = {j}
            /\ worker'.answer = {p} /\ worker'.reply = "none"
        BY <3>2, <3>3, <3>5, <3>11 DEF FleetInv, FleetTypes, TypeOK, WorkerRecord
      <4>2. /\ RegistryInv' /\ hosts' = hosts
            /\ DOMAIN pending' = DOMAIN pending \cup {req[j].world}
            /\ \A v \in DOMAIN pending' :
                 pending'[v] = IF v = req[j].world
                               THEN [host |-> p.host, session |-> p.session, port |-> NoPort,
                                     reported |-> FALSE, starting |-> TRUE]
                               ELSE pending[v]
        BY <3>3, <3>4, <3>5, <3>11, ReserveEffect DEF FleetInv, FleetTypes
      <4>a. p = [host |-> p.host, session |-> j, port |-> NoPort, starts |-> TRUE]
        BY <3>5, <3>11
      <4>b. p.session = j BY <4>a
      <4>c. {p} = StartOn(p.host, j) BY <4>a, Zenon DEF StartOn
      <4>d. calls' = calls \cup {<<p.host, j>>} BY <3>3, <3>11
      <4>3. p.session = j /\ calls' = calls \cup {<<p.host, j>>} /\ {p} = StartOn(p.host, j)
        BY <4>b, <4>c, <4>d
      <4>4. FleetTypes'
        BY <3>1, <3>6, <3>7, <4>1, <4>2, <4>3
        DEF FleetInv, FleetTypes, TypeOK, RegistryInv, WorkerRecord
      <4>5. WorkerFits'
        BY <3>6, <4>1, <4>3 DEF WorkerFits
      <4>6. CalledWhereReserved'
        BY <3>9, <4>1, <4>3 DEF CalledWhereReserved
      <4>7. SentToAStartedWorld' /\ Dialable'
        BY <4>1 DEF SentToAStartedWorld, Dialable
      <4>8. NotPlaced'
        BY <3>1, <3>2, <4>1, <4>3 DEF FleetInv, NotPlaced
      <4>9. NamesRan'
        BY <3>1, <4>2 DEF FleetInv, NamesRan
      <4>10. ReservedRan'
        BY <3>1, <3>8, <4>1, <4>2, <4>3 DEF ReservedRan
      <4>11. CountedOnce'
        <5>1. \A h \in DOMAIN hosts : h \in Hosts BY DEF FleetInv, FleetTypes, TypeOK, RegistryTypeOK
        <5>2. \A h \in DOMAIN hosts : ~Names(hosts[h].instances, j)
          BY <3>9, <5>1 DEF FleetInv, NamesRan, Names
        <5>. QED BY <4>2, <4>3, <5>2 DEF FleetInv, CountedOnce
      <4>. QED BY <4>4, <4>5, <4>6, <4>7, <4>8, <4>9, <4>10, <4>11 DEF FleetInv
    <3>. QED BY <3>10, <3>11
  <2>6. ASSUME NEW j \in Joiners, StartAnswered(j) PROVE FleetInv'
    <3>1. UNCHANGED <<req, joiner, ranked, box, ran, agent, calls, flight, deploy>>
      BY <2>6 DEF StartAnswered
    <3>2. /\ worker.at = "start" /\ worker.job = {j} /\ worker.reply = "started"
          /\ Started(req[j].world, j)
          /\ worker' = [worker EXCEPT !.at = "settle", !.reply = "none",
                          !.answer = {[q EXCEPT !.port = BoundPort] : q \in worker.answer}]
      BY <2>6 DEF StartAnswered
    <3>3. PICK h \in Hosts : worker.answer = StartOn(h, j)
      BY <3>2 DEF FleetInv, WorkerFits
    <3>4. j \in ran[h]
      BY <3>2, <3>3 DEF FleetInv, WorkerFits, StartOn
    <3>. DEFINE bound == {[q EXCEPT !.port = BoundPort] : q \in worker.answer}
    <3>5. \A q \in bound : /\ q.host = h /\ q.session = j /\ q.port = BoundPort
                           /\ q \in Placement
      <4>. TAKE q \in bound
      <4>1. PICK r \in worker.answer : q = [r EXCEPT !.port = BoundPort] OBVIOUS
      <4>2. r = [host |-> h, session |-> j, port |-> NoPort, starts |-> TRUE] BY <3>3 DEF StartOn
      <4>3. q = [host |-> h, session |-> j, port |-> BoundPort, starts |-> TRUE] BY <4>1, <4>2
      <4>. QED BY <4>3 DEF Placement, Port
    <3>. HIDE DEF bound
    <3>6. /\ worker' \in WorkerRecord /\ worker'.at = "settle" /\ worker'.job = {j}
          /\ worker'.answer = bound
      <4>1. worker' = [worker EXCEPT !.at = "settle", !.reply = "none", !.answer = bound]
        BY <3>2 DEF bound
      <4>2. bound \in SUBSET Placement BY <3>5
      <4>. QED BY <3>2, <4>1, <4>2 DEF FleetInv, FleetTypes, TypeOK, WorkerRecord
    <3>7. /\ RegistryInv' /\ hosts' = hosts /\ DOMAIN pending' = DOMAIN pending
          /\ \A v \in DOMAIN pending :
               /\ pending'[v].host = pending[v].host /\ pending'[v].session = pending[v].session
               /\ pending'[v].reported = pending[v].reported
               /\ v = req[j].world /\ pending[v].session = j =>
                    pending'[v].port = BoundPort /\ ~pending'[v].starting
               /\ ~(v = req[j].world /\ pending[v].session = j) => pending'[v] = pending[v]
      <4>1. RegistryInv /\ Started(req[j].world, j) BY <3>2 DEF FleetInv, FleetTypes
      <4>. QED BY <4>1, StartedEffect
    <3>8. FleetTypes'
      BY <3>1, <3>6, <3>7 DEF FleetInv, FleetTypes, TypeOK, RegistryInv, WorkerRecord
    <3>9. WorkerFits' /\ CalledWhereReserved' /\ SentToAStartedWorld' /\ Dialable'
      BY <3>1, <3>4, <3>5, <3>6 DEF WorkerFits, CalledWhereReserved, SentToAStartedWorld, Dialable
    <3>10. NotPlaced'
      BY <3>1, <3>2, <3>6 DEF FleetInv, NotPlaced
    <3>11. NamesRan' /\ CountedOnce'
      BY <3>1, <3>7 DEF FleetInv, NamesRan, CountedOnce
    <3>12. ReservedRan'
      <4>. SUFFICES ASSUME NEW v \in DOMAIN pending
                    PROVE  /\ ~pending'[v].starting
                           /\ pending'[v].session \in ran[pending'[v].host]
                           /\ pending'[v].port = BoundPort
        BY <3>1, <3>7 DEF ReservedRan
      <4>1. CASE pending[v].starting
        <5>1. v = req[j].world /\ pending[v].session = j /\ pending[v].host = h
          BY <3>2, <3>3, <4>1 DEF FleetInv, ReservedRan, StartOn
        <5>. QED BY <3>4, <3>7, <5>1
      <4>2. CASE ~pending[v].starting
        BY <3>7, <4>2 DEF FleetInv, ReservedRan
      <4>. QED BY <4>1, <4>2
    <3>. QED BY <3>8, <3>9, <3>10, <3>11, <3>12 DEF FleetInv
  <2>7. ASSUME NEW j \in Joiners, StartFailed(j) PROVE FleetInv'
    <3>1. UNCHANGED <<req, joiner, ranked, box, ran, agent, calls, flight, deploy>>
      BY <2>7 DEF StartFailed
    <3>2. /\ worker.at = "start" /\ worker.job = {j}
          /\ Release(GameOf(req[j].world), j)
          /\ worker' = [worker EXCEPT !.at = "settle", !.reply = "none", !.answer = {}]
      BY <2>7 DEF StartFailed
    <3>3. /\ worker' \in WorkerRecord /\ worker'.at = "settle" /\ worker'.job = {j}
          /\ worker'.answer = {}
      BY <3>2 DEF FleetInv, FleetTypes, TypeOK, WorkerRecord
    <3>4. /\ RegistryInv' /\ hosts' = hosts /\ DOMAIN pending' \subseteq DOMAIN pending
          /\ \A v \in DOMAIN pending' :
               pending'[v] = pending[v] /\ ~(GameOf(v) = GameOf(req[j].world) /\ pending[v].session = j)
      BY <3>2, ReleaseEffect DEF FleetInv, FleetTypes
    <3>5. FleetTypes'
      BY <3>1, <3>3, <3>4 DEF FleetInv, FleetTypes, TypeOK, RegistryInv, WorkerRecord
    <3>6. WorkerFits' /\ CalledWhereReserved' /\ SentToAStartedWorld' /\ Dialable'
      BY <3>3 DEF WorkerFits, CalledWhereReserved, SentToAStartedWorld, Dialable
    <3>7. NotPlaced'
      BY <3>1, <3>2, <3>3 DEF FleetInv, NotPlaced
    <3>8. NamesRan' /\ CountedOnce'
      BY <3>1, <3>4 DEF FleetInv, NamesRan, CountedOnce
    <3>9. ReservedRan'
      <4>1. \A v \in DOMAIN pending' : ~pending[v].starting
        BY <3>2, <3>4 DEF FleetInv, ReservedRan
      <4>. QED BY <3>1, <3>4, <4>1 DEF FleetInv, ReservedRan
    <3>. QED BY <3>5, <3>6, <3>7, <3>8, <3>9 DEF FleetInv
  <2>8. ASSUME NEW j \in Joiners, Settled(j) PROVE FleetInv'
    <3>1. UNCHANGED <<req, ranked, box, ran, agent, calls, flight, deploy>>
      BY <2>8 DEF Settled
    <3>2. /\ worker.at = "settle" /\ worker.job = {j}
          /\ worker' = [at |-> "idle", job |-> {}, answer |-> {}, reply |-> "none"]
          /\ joiner' = [joiner EXCEPT ![j] = IF @ = "gone" THEN "gone" ELSE "answered"]
      BY <2>8 DEF Settled
    <3>3. /\ joiner' \in [Joiners -> JoinerState]
          /\ \A x \in Joiners : joiner'[x] \in {"new", "waiting"} => joiner[x] \in {"new", "waiting"}
      BY <3>2 DEF FleetInv, FleetTypes, TypeOK, JoinerState
    <3>4. /\ RegistryInv' /\ hosts' = hosts /\ DOMAIN pending' \subseteq DOMAIN pending
          /\ \A v \in DOMAIN pending' : pending'[v] = pending[v]
      <4>1. CASE UNCHANGED <<hosts, pending, events>>
        BY <4>1 DEF FleetInv, FleetTypes, TypeOK, RegistryInv, RegistryTypeOK
      <4>2. ASSUME NEW p, Release(GameOf(req[j].world), p.session)
            PROVE  /\ RegistryInv' /\ hosts' = hosts /\ DOMAIN pending' \subseteq DOMAIN pending
                   /\ \A v \in DOMAIN pending' : pending'[v] = pending[v]
        BY <4>2, ReleaseEffect DEF FleetInv, FleetTypes
      <4>. QED BY <2>8, <4>1, <4>2 DEF Settled
    <3>5. FleetTypes'
      BY <3>1, <3>2, <3>3, <3>4 DEF FleetInv, FleetTypes, TypeOK, RegistryInv
    <3>6. WorkerFits' /\ CalledWhereReserved' /\ SentToAStartedWorld' /\ Dialable'
      BY <3>2 DEF WorkerFits, CalledWhereReserved, SentToAStartedWorld, Dialable
    <3>7. NotPlaced'
      BY <3>1, <3>2, <3>3 DEF FleetInv, NotPlaced
    <3>8. NamesRan' /\ CountedOnce' /\ ReservedRan'
      BY <3>1, <3>2, <3>4 DEF FleetInv, NamesRan, CountedOnce, ReservedRan
    <3>. QED BY <3>5, <3>6, <3>7, <3>8 DEF FleetInv
  <2>9. CASE Restart
    <3>1. UNCHANGED <<req, box, ran, agent, calls, flight>>
      BY <2>9 DEF Restart
    <3>2. /\ hosts' = << >> /\ pending' = << >> /\ events' = << >> /\ ranked' = << >>
          /\ worker' = [at |-> "idle", job |-> {}, answer |-> {}, reply |-> "none"]
          /\ joiner' = [x \in Joiners |-> IF joiner[x] \in {"waiting", "taken"} THEN "gone" ELSE joiner[x]]
          /\ deploy' = [left |-> deploy.left, game |-> {}, asking |-> {}, rows |-> {}]
      BY <2>9 DEF Restart, NoDeploy
    <3>3. /\ joiner' \in [Joiners -> JoinerState]
          /\ \A x \in Joiners : joiner'[x] \in {"new", "waiting"} => joiner[x] \in {"new", "waiting"}
      BY <3>2 DEF FleetInv, FleetTypes, TypeOK, JoinerState
    <3>4. /\ DOMAIN hosts' = {} /\ DOMAIN pending' = {} /\ DOMAIN ranked' = {}
          /\ hosts' \in [DOMAIN hosts' -> Host] /\ pending' \in [DOMAIN pending' -> Reservation]
          /\ ranked' \in [DOMAIN ranked' -> Nat] /\ events' \in Seq(FleetEvent)
      BY <3>2
    <3>5. RegistryInv'
      BY <3>4, FS_EmptySet DEF RegistryInv, RegistryTypeOK
    <3>6. deploy.left \in 0 .. MaxDeploys
      BY DEF FleetInv, FleetTypes, TypeOK
    <3>7. FleetTypes'
      BY <3>1, <3>2, <3>3, <3>4, <3>5, <3>6 DEF FleetInv, FleetTypes, TypeOK, RegistryInv
    <3>8. WorkerFits' /\ CalledWhereReserved' /\ SentToAStartedWorld' /\ Dialable'
      BY <3>2 DEF WorkerFits, CalledWhereReserved, SentToAStartedWorld, Dialable
    <3>9. NotPlaced'
      BY <3>1, <3>2, <3>3 DEF FleetInv, NotPlaced
    <3>10. NamesRan' /\ CountedOnce' /\ ReservedRan'
      BY <3>1, <3>4 DEF FleetInv, NamesRan, CountedOnce, ReservedRan
    <3>. QED BY <3>7, <3>8, <3>9, <3>10 DEF FleetInv
  <2>10. ASSUME NEW h \in Hosts, NEW j \in Joiners, StartLands(h, j) PROVE FleetInv'
    <3>. DEFINE waits == worker.at = "start" /\ worker.job = {j}
                new == [session |-> j, world |-> req[j].world, state |-> "starting"]
    <3>1. UNCHANGED <<hosts, pending, events, joiner, ranked, req, agent, flight, deploy>>
      BY <2>10 DEF StartLands
    <3>a. <<h, j>> \in calls /\ calls' = calls \ {<<h, j>>}
      BY <2>10 DEF StartLands
    <3>b. PICK ok \in BOOLEAN :
          /\ box' = IF ok THEN [box EXCEPT ![h] = @ \cup {new}] ELSE box
          /\ ran' = IF ok THEN [ran EXCEPT ![h] = @ \cup {j}] ELSE ran
          /\ worker' = IF waits THEN [worker EXCEPT !.reply = IF ok THEN "started" ELSE "refused"]
                       ELSE worker
      <4>1. CASE /\ box' = [box EXCEPT ![h] = @ \cup {new}] /\ ran' = [ran EXCEPT ![h] = @ \cup {j}]
                 /\ worker' = IF waits THEN [worker EXCEPT !.reply = "started"] ELSE worker
        <5>. WITNESS TRUE \in BOOLEAN
        <5>. QED BY <4>1
      <4>2. CASE /\ UNCHANGED <<box, ran>>
                 /\ worker' = IF waits THEN [worker EXCEPT !.reply = "refused"] ELSE worker
        <5>. WITNESS FALSE \in BOOLEAN
        <5>. QED BY <4>2
      <4>. QED BY <2>10, <4>1, <4>2 DEF StartLands
    <3>2. /\ <<h, j>> \in calls /\ calls' = calls \ {<<h, j>>}
          /\ box' = IF ok THEN [box EXCEPT ![h] = @ \cup {new}] ELSE box
          /\ ran' = IF ok THEN [ran EXCEPT ![h] = @ \cup {j}] ELSE ran
          /\ worker' = IF waits THEN [worker EXCEPT !.reply = IF ok THEN "started" ELSE "refused"]
                       ELSE worker
      BY <3>a, <3>b
    <3>3. new \in InstanceReport
      BY DEF FleetInv, FleetTypes, TypeOK, InstanceReport, InstanceState
    <3>. HIDE DEF new
    <3>4. /\ box' \in [Hosts -> SUBSET InstanceReport] /\ ran' \in [Hosts -> SUBSET Sessions]
          /\ \A k \in Hosts : ran[k] \subseteq ran'[k] /\ ran'[k] \subseteq ran[k] \cup {j}
          /\ ok => j \in ran'[h]
      BY <3>2, <3>3 DEF FleetInv, FleetTypes, TypeOK
    <3>5. \A k \in Hosts : box'[k] = box[k] \/ (ok /\ k = h /\ box'[k] = box[k] \cup {new})
      BY <3>2 DEF FleetInv, FleetTypes, TypeOK
    <3>6. \A k \in Hosts : IsFiniteSet(box'[k])
      BY <3>5, FS_AddElement DEF FleetInv, FleetTypes
    <3>7. /\ worker' \in WorkerRecord /\ worker'.at = worker.at /\ worker'.job = worker.job
          /\ worker'.answer = worker.answer
          /\ worker'.reply = worker.reply
               \/ (waits /\ worker'.reply = IF ok THEN "started" ELSE "refused")
      BY <3>2 DEF FleetInv, FleetTypes, TypeOK, WorkerRecord
    <3>8. FleetTypes'
      BY <3>1, <3>2, <3>4, <3>6, <3>7
      DEF FleetInv, FleetTypes, TypeOK, RegistryInv, RegistryTypeOK, WorkerRecord
    <3>9. ~(joiner[j] \in {"new", "waiting"}) /\ ~(worker.at = "place" /\ j \in worker.job)
      BY <3>2 DEF FleetInv, NotPlaced
    <3>10. NotPlaced'
      BY <3>1, <3>2, <3>4, <3>7, <3>9 DEF FleetInv, NotPlaced
    <3>11. WorkerFits'
      <4>1. worker.at = "start" /\ worker'.reply = "started" =>
              \A p \in worker.answer : p.session \in ran'[p.host]
        <5>. SUFFICES ASSUME worker.at = "start", worker'.reply = "started", NEW p \in worker.answer
                      PROVE  p.session \in ran'[p.host]
          OBVIOUS
        <5>1. PICK k \in Hosts, x \in Joiners : worker.job = {x} /\ worker.answer = StartOn(k, x)
          BY DEF FleetInv, WorkerFits
        <5>2. p.host = k /\ p.session = x BY <5>1 DEF StartOn
        <5>3. CASE worker.reply = "started"
          BY <3>4, <5>2, <5>3 DEF FleetInv, WorkerFits
        <5>4. CASE worker.reply # "started"
          <6>1. waits /\ ok BY <3>7, <5>4
          <6>2. x = j /\ p.host = h BY <3>2, <5>1, <6>1 DEF FleetInv, CalledWhereReserved
          <6>. QED BY <3>4, <5>2, <6>1, <6>2
        <5>. QED BY <5>3, <5>4
      <4>. QED BY <3>7, <4>1 DEF FleetInv, WorkerFits
    <3>12. CalledWhereReserved'
      BY <3>2, <3>7 DEF FleetInv, CalledWhereReserved
    <3>13. SentToAStartedWorld' /\ Dialable'
      <4>1. \A p \in worker.answer : p.host \in Hosts
        BY DEF FleetInv, FleetTypes, TypeOK, Placement
      <4>. QED BY <3>4, <3>7, <4>1 DEF FleetInv, SentToAStartedWorld, Dialable
    <3>14. NamesRan'
      <4>1. \A k \in Hosts : \A i \in box'[k] : i.session \in ran'[k]
        BY <3>4, <3>5 DEF FleetInv, NamesRan, new
      <4>2. (\A b \in flight : b.host \in Hosts) /\ DOMAIN hosts \subseteq Hosts
        BY DEF FleetInv, FleetTypes, TypeOK, RegistryTypeOK, HostHeartbeat
      <4>. QED BY <3>1, <3>4, <4>1, <4>2 DEF FleetInv, NamesRan
    <3>15. ReservedRan' /\ CountedOnce'
      <4>1. \A w \in DOMAIN pending : pending[w].host \in Hosts
        BY DEF FleetInv, FleetTypes, TypeOK, RegistryTypeOK, Reservation
      <4>. QED BY <3>1, <3>4, <3>7, <4>1 DEF FleetInv, ReservedRan, CountedOnce
    <3>. QED BY <3>8, <3>10, <3>11, <3>12, <3>13, <3>14, <3>15 DEF FleetInv
  <2>11. ASSUME NEW h \in Hosts, NEW i \in box[h], Probe(h, i) PROVE FleetInv'
    <3>1. UNCHANGED <<hosts, pending, events, req, joiner, worker, ranked, ran, calls, flight>>
      BY <2>11 DEF Probe
    <3>2. PICK s \in {"healthy", "unhealthy"} :
            box' = [box EXCEPT ![h] = (@ \ {i}) \cup {[i EXCEPT !.state = s]}]
      BY <2>11 DEF Probe
    <3>a. i \in InstanceReport
      BY DEF FleetInv, FleetTypes, TypeOK
    <3>b. [i EXCEPT !.state = s] \in InstanceReport /\ [i EXCEPT !.state = s].session = i.session
      BY <3>a DEF InstanceReport, InstanceState
    <3>. DEFINE new == [i EXCEPT !.state = s]
    <3>. HIDE DEF new
    <3>c. new \in InstanceReport /\ new.session = i.session /\ box' = [box EXCEPT ![h] = (@ \ {i}) \cup {new}]
      BY <3>2, <3>b DEF new
    <3>3. box' \in [Hosts -> SUBSET InstanceReport] /\ agent' = agent /\ deploy' = deploy
      BY <2>11, <3>c DEF Probe, FleetInv, FleetTypes, TypeOK
    <3>4. \A k \in Hosts : \A x \in box'[k] : \E y \in box[k] : x.session = y.session
      BY <3>c DEF FleetInv, FleetTypes, TypeOK
    <3>5. \A k \in Hosts : IsFiniteSet(box'[k])
      <4>. TAKE k \in Hosts
      <4>1. CASE k # h BY <3>c, <4>1 DEF FleetInv, FleetTypes, TypeOK
      <4>2. CASE k = h
        <5>1. box'[h] = (box[h] \ {i}) \cup {new} BY <3>c DEF FleetInv, FleetTypes, TypeOK
        <5>2. IsFiniteSet(box[h] \ {i}) BY FS_RemoveElement DEF FleetInv, FleetTypes
        <5>. QED BY <4>2, <5>1, <5>2, FS_AddElement
      <4>. QED BY <4>1, <4>2
    <3>6. FleetTypes'
      BY <3>1, <3>3, <3>4, <3>5
      DEF FleetInv, FleetTypes, TypeOK, RegistryInv, RegistryTypeOK, DeployRow, DeployRecord
    <3>7. WorkerFits' /\ CalledWhereReserved' /\ NotPlaced' /\ SentToAStartedWorld' /\ Dialable'
      BY <3>1 DEF FleetInv, WorkerFits, CalledWhereReserved, NotPlaced, SentToAStartedWorld, Dialable
    <3>8. NamesRan' /\ ReservedRan' /\ CountedOnce'
      <4>1. \A k \in Hosts : \A x \in box'[k] : x.session \in ran[k]
        BY <3>4 DEF FleetInv, NamesRan
      <4>. QED BY <3>1, <4>1 DEF FleetInv, NamesRan, ReservedRan, CountedOnce
    <3>. QED BY <3>6, <3>7, <3>8 DEF FleetInv
  <2>12. ASSUME NEW h \in Hosts, NEW i \in box[h], Exit(h, i) PROVE FleetInv'
    <3>1. UNCHANGED <<hosts, pending, events, req, joiner, worker, ranked, ran, calls, flight>>
      BY <2>12 DEF Exit
    <3>2. box' = [box EXCEPT ![h] = @ \ {i}]
      BY <2>12 DEF Exit
    <3>3. box' \in [Hosts -> SUBSET InstanceReport] /\ agent' = agent /\ deploy' = deploy
      BY <2>12, <3>2 DEF Exit, FleetInv, FleetTypes, TypeOK
    <3>a. \A k \in Hosts : box'[k] \in SUBSET box[k]
      BY <3>2 DEF FleetInv, FleetTypes, TypeOK
    <3>4. \A k \in Hosts : \A x \in box'[k] : \E y \in box[k] : x.session = y.session
      BY <3>a
    <3>5. \A k \in Hosts : IsFiniteSet(box'[k])
      BY <3>a, FS_Subset DEF FleetInv, FleetTypes
    <3>6. FleetTypes'
      BY <3>1, <3>3, <3>4, <3>5
      DEF FleetInv, FleetTypes, TypeOK, RegistryInv, RegistryTypeOK, DeployRow, DeployRecord
    <3>7. WorkerFits' /\ CalledWhereReserved' /\ NotPlaced' /\ SentToAStartedWorld' /\ Dialable'
      BY <3>1 DEF FleetInv, WorkerFits, CalledWhereReserved, NotPlaced, SentToAStartedWorld, Dialable
    <3>8. NamesRan' /\ ReservedRan' /\ CountedOnce'
      <4>1. \A k \in Hosts : \A x \in box'[k] : x.session \in ran[k]
        BY <3>4 DEF FleetInv, NamesRan
      <4>. QED BY <3>1, <4>1 DEF FleetInv, NamesRan, ReservedRan, CountedOnce
    <3>. QED BY <3>6, <3>7, <3>8 DEF FleetInv
  <2>13. ASSUME NEW h \in Hosts, AgentStarts(h) PROVE FleetInv'
    <3>1. UNCHANGED <<hosts, pending, events, req, joiner, worker, ranked, ran, calls, flight>>
      BY <2>13 DEF AgentStarts
    <3>0. PICK written : box' = [box EXCEPT ![h] = {IF x \in written THEN x ELSE [x EXCEPT !.state = "starting"] : x \in @}]
      BY <2>13 DEF AgentStarts
    <3>. DEFINE f == [x \in box[h] |-> IF x \in written THEN x ELSE [x EXCEPT !.state = "starting"]]
    <3>2. box' = [box EXCEPT ![h] = {f[x] : x \in box[h]}]
      BY <3>0
    <3>a. \A x \in box[h] : f[x] \in InstanceReport /\ f[x].session = x.session
      BY DEF FleetInv, FleetTypes, TypeOK, InstanceReport, InstanceState
    <3>b. DOMAIN f = box[h] OBVIOUS
    <3>. HIDE DEF f
    <3>c. {f[x] : x \in box[h]} \in SUBSET InstanceReport /\ IsFiniteSet({f[x] : x \in box[h]})
      BY <3>a, <3>b, <2>image DEF FleetInv, FleetTypes
    <3>3. box' \in [Hosts -> SUBSET InstanceReport] /\ agent' \in [Hosts -> BOOLEAN] /\ deploy' = deploy
      <4>1. box' \in [Hosts -> SUBSET InstanceReport] BY <3>2, <3>c DEF FleetInv, FleetTypes, TypeOK
      <4>. QED BY <2>13, <4>1 DEF AgentStarts, FleetInv, FleetTypes, TypeOK
    <3>4. \A k \in Hosts : \A x \in box'[k] : \E y \in box[k] : x.session = y.session
      BY <3>2, <3>a DEF FleetInv, FleetTypes, TypeOK
    <3>5. \A k \in Hosts : IsFiniteSet(box'[k])
      BY <3>2, <3>c DEF FleetInv, FleetTypes, TypeOK
    <3>6. FleetTypes'
      BY <3>1, <3>3, <3>4, <3>5
      DEF FleetInv, FleetTypes, TypeOK, RegistryInv, RegistryTypeOK, DeployRow, DeployRecord
    <3>7. WorkerFits' /\ CalledWhereReserved' /\ NotPlaced' /\ SentToAStartedWorld' /\ Dialable'
      BY <3>1 DEF FleetInv, WorkerFits, CalledWhereReserved, NotPlaced, SentToAStartedWorld, Dialable
    <3>8. NamesRan' /\ ReservedRan' /\ CountedOnce'
      <4>1. \A k \in Hosts : \A i \in box'[k] : i.session \in ran[k]
        BY <3>4 DEF FleetInv, NamesRan
      <4>. QED BY <3>1, <4>1 DEF FleetInv, NamesRan, ReservedRan, CountedOnce
    <3>. QED BY <3>6, <3>7, <3>8 DEF FleetInv
  <2>14. ASSUME NEW h \in Hosts, Redeploy(h) PROVE FleetInv'
    <3>1. UNCHANGED <<hosts, pending, events, req, joiner, worker, ranked, ran, calls, flight>>
      BY <2>14 DEF Redeploy
    <3>. DEFINE f == [x \in box[h] |-> IF x \in {i \in box[h] : GameOf(i.world) \in deploy.game} THEN [x EXCEPT !.state = "draining"] ELSE x]
    <3>2. box' = [box EXCEPT ![h] = {f[x] : x \in box[h]}]
      BY <2>14 DEF Redeploy
    <3>a. \A x \in box[h] : f[x] \in InstanceReport /\ f[x].session = x.session
      BY DEF FleetInv, FleetTypes, TypeOK, InstanceReport, InstanceState
    <3>b. DOMAIN f = box[h] OBVIOUS
    <3>. HIDE DEF f
    <3>c. {f[x] : x \in box[h]} \in SUBSET InstanceReport /\ IsFiniteSet({f[x] : x \in box[h]})
      BY <3>a, <3>b, <2>image DEF FleetInv, FleetTypes
    <3>. DEFINE ids == {i.session : i \in {i \in box[h] : GameOf(i.world) \in deploy.game}}
    <3>d. ids \in SUBSET Sessions
      BY DEF FleetInv, FleetTypes, TypeOK, InstanceReport
    <3>e. PICK row \in DeployRow : deploy' = [deploy EXCEPT !.asking = @ \ {h}, !.rows = @ \cup {row}]
      <4>1. PICK row : /\ \/ row = [host |-> h, sessions |-> ids,
                                   status |-> IF ids = {} THEN "skipped" ELSE "draining"]
                          \/ row = [host |-> h, sessions |-> {}, status |-> "failed"]
                       /\ deploy' = [deploy EXCEPT !.asking = @ \ {h}, !.rows = @ \cup {row}]
        BY <2>14 DEF Redeploy
      <4>. HIDE DEF ids
      <4>2. row \in DeployRow
        BY <3>d, <4>1 DEF DeployRow
      <4>. QED BY <4>1, <4>2
    <3>3. box' \in [Hosts -> SUBSET InstanceReport] /\ agent' = agent /\ deploy' \in DeployRecord
      <4>1. box' \in [Hosts -> SUBSET InstanceReport] BY <3>2, <3>c DEF FleetInv, FleetTypes, TypeOK
      <4>2. deploy' \in DeployRecord BY <3>e DEF FleetInv, FleetTypes, TypeOK, DeployRow, DeployRecord
      <4>. QED BY <2>14, <4>1, <4>2 DEF Redeploy
    <3>4. \A k \in Hosts : \A x \in box'[k] : \E y \in box[k] : x.session = y.session
      BY <3>2, <3>a DEF FleetInv, FleetTypes, TypeOK
    <3>5. \A k \in Hosts : IsFiniteSet(box'[k])
      BY <3>2, <3>c DEF FleetInv, FleetTypes, TypeOK
    <3>6. FleetTypes'
      BY <3>1, <3>3, <3>4, <3>5
      DEF FleetInv, FleetTypes, TypeOK, RegistryInv, RegistryTypeOK, DeployRow, DeployRecord
    <3>7. WorkerFits' /\ CalledWhereReserved' /\ NotPlaced' /\ SentToAStartedWorld' /\ Dialable'
      BY <3>1 DEF FleetInv, WorkerFits, CalledWhereReserved, NotPlaced, SentToAStartedWorld, Dialable
    <3>8. NamesRan' /\ ReservedRan' /\ CountedOnce'
      <4>1. \A k \in Hosts : \A i \in box'[k] : i.session \in ran[k]
        BY <3>4 DEF FleetInv, NamesRan
      <4>. QED BY <3>1, <4>1 DEF FleetInv, NamesRan, ReservedRan, CountedOnce
    <3>. QED BY <3>6, <3>7, <3>8 DEF FleetInv
  <2>15. ASSUME NEW h \in Hosts, BeatArrives(h) PROVE FleetInv'
    <3>1. UNCHANGED <<req, joiner, worker, ranked, box, ran, agent, calls, flight, deploy>>
      BY <2>15 DEF BeatArrives
    <3>2. Beat(Heartbeat(h, Cardinality(box[h]), FALSE))
      BY <2>15 DEF BeatArrives
    <3>3. /\ Heartbeat(h, Cardinality(box[h]), FALSE) \in HostHeartbeat
          /\ \A i \in Heartbeat(h, Cardinality(box[h]), FALSE).instances :
               i.session \in ran[Heartbeat(h, Cardinality(box[h]), FALSE).host]
      BY HeartbeatTyped
    <3>4. /\ RegistryInv' /\ ReservedRan' /\ CountedOnce'
          /\ \A k \in DOMAIN hosts' : \A i \in hosts'[k].instances : i.session \in ran'[k]
      BY <3>1, <3>2, <3>3, BeatKeeps
    <3>5. FleetTypes'
      BY <3>1, <3>4 DEF FleetInv, FleetTypes, TypeOK, RegistryInv
    <3>6. WorkerFits' /\ CalledWhereReserved' /\ NotPlaced' /\ SentToAStartedWorld' /\ Dialable'
      BY <3>1 DEF FleetInv, WorkerFits, CalledWhereReserved, NotPlaced, SentToAStartedWorld, Dialable
    <3>7. NamesRan'
      BY <3>1, <3>4 DEF FleetInv, NamesRan
    <3>. QED BY <3>4, <3>5, <3>6, <3>7 DEF FleetInv
  <2>16. ASSUME NEW h \in Hosts, BeatSent(h) PROVE FleetInv'
    <3>1. UNCHANGED <<hosts, pending, events, req, joiner, worker, ranked, box, ran, agent, calls, deploy>>
      BY <2>16 DEF BeatSent
    <3>2. PICK running \in 0 .. MaxInstances : flight' = flight \cup {Heartbeat(h, running, FALSE)}
      BY <2>16 DEF BeatSent
    <3>3. /\ Heartbeat(h, running, FALSE) \in HostHeartbeat
          /\ \A i \in Heartbeat(h, running, FALSE).instances :
               i.session \in ran[Heartbeat(h, running, FALSE).host]
      <4>1. running \in Nat BY CapAssumption
      <4>. QED BY <4>1, HeartbeatTyped
    <3>4. FleetTypes'
      BY <3>1, <3>2, <3>3 DEF FleetInv, FleetTypes, TypeOK, RegistryInv, RegistryTypeOK
    <3>5. WorkerFits' /\ CalledWhereReserved' /\ NotPlaced' /\ SentToAStartedWorld' /\ Dialable' /\ ReservedRan' /\ CountedOnce'
      BY <3>1 DEF FleetInv, WorkerFits, CalledWhereReserved, NotPlaced, SentToAStartedWorld, Dialable,
         ReservedRan, CountedOnce
    <3>6. NamesRan'
      BY <3>1, <3>2, <3>3 DEF FleetInv, NamesRan
    <3>. QED BY <3>4, <3>5, <3>6 DEF FleetInv
  <2>17. ASSUME NEW b \in flight, BeatDelivered(b) PROVE FleetInv'
    <3>1. UNCHANGED <<req, joiner, worker, ranked, box, ran, agent, calls, deploy>> /\ flight' \subseteq flight
      BY <2>17 DEF BeatDelivered
    <3>2. Beat(b)
      BY <2>17 DEF BeatDelivered
    <3>3. b \in HostHeartbeat /\ \A i \in b.instances : i.session \in ran[b.host]
      BY DEF FleetInv, FleetTypes, TypeOK, NamesRan
    <3>4. /\ RegistryInv' /\ ReservedRan' /\ CountedOnce'
          /\ \A k \in DOMAIN hosts' : \A i \in hosts'[k].instances : i.session \in ran'[k]
      BY <3>1, <3>2, <3>3, BeatKeeps
    <3>5. FleetTypes'
      BY <3>1, <3>4 DEF FleetInv, FleetTypes, TypeOK, RegistryInv
    <3>6. WorkerFits' /\ CalledWhereReserved' /\ NotPlaced' /\ SentToAStartedWorld' /\ Dialable'
      BY <3>1 DEF FleetInv, WorkerFits, CalledWhereReserved, NotPlaced, SentToAStartedWorld, Dialable
    <3>7. NamesRan'
      BY <3>1, <3>4 DEF FleetInv, NamesRan
    <3>. QED BY <3>4, <3>5, <3>6, <3>7 DEF FleetInv
  <2>18. ASSUME NEW h \in Hosts, AgentStops(h) PROVE FleetInv'
    <3>1. UNCHANGED <<req, joiner, worker, ranked, box, ran, calls, flight, deploy>> /\ agent' \in [Hosts -> BOOLEAN]
      BY <2>18 DEF AgentStops, FleetInv, FleetTypes, TypeOK
    <3>2. /\ Heartbeat(h, Cardinality(box[h]), TRUE) \in HostHeartbeat
          /\ \A i \in Heartbeat(h, Cardinality(box[h]), TRUE).instances :
               i.session \in ran[Heartbeat(h, Cardinality(box[h]), TRUE).host]
      BY HeartbeatTyped
    <3>3. /\ RegistryInv' /\ ReservedRan' /\ CountedOnce'
          /\ \A k \in DOMAIN hosts' : \A i \in hosts'[k].instances : i.session \in ran'[k]
      <4>1. CASE Beat(Heartbeat(h, Cardinality(box[h]), TRUE))
        BY <3>1, <3>2, <4>1, BeatKeeps
      <4>2. CASE UNCHANGED <<hosts, pending, events>>
        BY <3>1, <4>2
        DEF FleetInv, FleetTypes, RegistryInv, RegistryTypeOK, ReservedRan, CountedOnce, NamesRan
      <4>. QED BY <2>18, <4>1, <4>2 DEF AgentStops
    <3>4. FleetTypes'
      BY <3>1, <3>3 DEF FleetInv, FleetTypes, TypeOK, RegistryInv
    <3>5. WorkerFits' /\ CalledWhereReserved' /\ NotPlaced' /\ SentToAStartedWorld' /\ Dialable'
      BY <3>1 DEF FleetInv, WorkerFits, CalledWhereReserved, NotPlaced, SentToAStartedWorld, Dialable
    <3>6. NamesRan'
      BY <3>1, <3>3 DEF FleetInv, NamesRan
    <3>. QED BY <3>3, <3>4, <3>5, <3>6 DEF FleetInv
  <2>19. CASE Passes
    <3>1. UNCHANGED <<req, joiner, worker, ranked, box, ran, agent, calls, flight>>
      BY <2>19 DEF Passes
    <3>2. Tick /\ deploy' = deploy
      BY <2>19 DEF Passes
    <3>3. /\ RegistryInv' /\ pending' = pending /\ DOMAIN hosts' \subseteq DOMAIN hosts
          /\ \A k \in DOMAIN hosts' : \A i \in hosts'[k].instances :
               \E x \in hosts[k].instances : x.session = i.session
      BY <3>2, TickEffect DEF FleetInv, FleetTypes
    <3>4. /\ ReservedRan' /\ CountedOnce'
          /\ \A k \in DOMAIN hosts' : \A i \in hosts'[k].instances : i.session \in ran'[k]
      BY <3>1, <3>3, RowsKeep
    <3>5. FleetTypes'
      BY <3>1, <3>2, <3>3 DEF FleetInv, FleetTypes, TypeOK, RegistryInv, DeployRow, DeployRecord
    <3>6. WorkerFits' /\ CalledWhereReserved' /\ NotPlaced' /\ SentToAStartedWorld' /\ Dialable'
      BY <3>1 DEF FleetInv, WorkerFits, CalledWhereReserved, NotPlaced, SentToAStartedWorld, Dialable
    <3>7. NamesRan'
      BY <3>1, <3>4 DEF FleetInv, NamesRan
    <3>. QED BY <3>4, <3>5, <3>6, <3>7 DEF FleetInv
  <2>20. ASSUME NEW row \in deploy.rows, Recorded(row) PROVE FleetInv'
    <3>1. UNCHANGED <<req, joiner, worker, ranked, box, ran, agent, calls, flight>>
      BY <2>20 DEF Recorded
    <3>a. row \in DeployRow /\ deploy \in DeployRecord
      BY DEF FleetInv, FleetTypes, TypeOK, DeployRow, DeployRecord
    <3>2. deploy' \in DeployRecord
      <4>1. deploy' = [deploy EXCEPT !.rows = @ \ {row}, !.game = IF deploy.rows = {row} THEN {} ELSE @]
        BY <2>20 DEF Recorded
      <4>. QED BY <3>a, <4>1 DEF DeployRecord
    <3>3. /\ RegistryInv' /\ pending' = pending /\ DOMAIN hosts' \subseteq DOMAIN hosts
          /\ \A k \in DOMAIN hosts' : \A i \in hosts'[k].instances :
               \E x \in hosts[k].instances : x.session = i.session
      <4>1. CASE row.status = "failed"
        <5>1. Suspect(row.host) BY <2>20, <4>1 DEF Recorded
        <5>2. row.host \in Hosts BY <3>a DEF DeployRow
        <5>. QED BY <5>1, <5>2, SuspectEffect DEF FleetInv, FleetTypes
      <4>2. CASE row.status = "draining"
        <5>1. Draining(row.host, row.sessions) BY <2>20, <4>2 DEF Recorded
        <5>. QED BY <5>1, DrainingEffect DEF FleetInv, FleetTypes
      <4>3. CASE row.status = "skipped"
        <5>1. UNCHANGED <<hosts, pending, events>> BY <2>20, <4>3 DEF Recorded
        <5>. QED BY <5>1 DEF FleetInv, FleetTypes, RegistryInv, RegistryTypeOK
      <4>. QED BY <3>a, <4>1, <4>2, <4>3 DEF DeployRow
    <3>4. /\ ReservedRan' /\ CountedOnce'
          /\ \A k \in DOMAIN hosts' : \A i \in hosts'[k].instances : i.session \in ran'[k]
      BY <3>1, <3>3, RowsKeep
    <3>5. FleetTypes'
      BY <3>1, <3>2, <3>3 DEF FleetInv, FleetTypes, TypeOK, RegistryInv, DeployRow, DeployRecord
    <3>6. WorkerFits' /\ CalledWhereReserved' /\ NotPlaced' /\ SentToAStartedWorld' /\ Dialable'
      BY <3>1 DEF FleetInv, WorkerFits, CalledWhereReserved, NotPlaced, SentToAStartedWorld, Dialable
    <3>7. NamesRan'
      BY <3>1, <3>4 DEF FleetInv, NamesRan
    <3>. QED BY <3>4, <3>5, <3>6, <3>7 DEF FleetInv
  <2>21. ASSUME NEW g \in Games, Deploy(g) PROVE FleetInv'
    <3>1. UNCHANGED <<hosts, pending, events, req, joiner, worker, ranked, box, ran, agent, calls, flight>>
      BY <2>21 DEF Deploy
    <3>a. deploy \in DeployRecord
      BY DEF FleetInv, FleetTypes, TypeOK, DeployRow, DeployRecord
    <3>2. deploy' \in DeployRecord
      <4>1. deploy' = [deploy EXCEPT !.left = @ - 1, !.game = {g}, !.asking = Targets(g, {})]
        BY <2>21 DEF Deploy
      <4>2. Targets(g, {}) \in SUBSET Hosts
        BY DEF Targets, FleetInv, FleetTypes, TypeOK, RegistryTypeOK
      <4>3. deploy.left - 1 \in 0 .. MaxDeploys
        BY <2>21, <3>a, DeploysAssumption DEF Deploy, DeployRecord
      <4>. QED BY <3>a, <4>1, <4>2, <4>3 DEF DeployRecord
    <3>3. FleetTypes'
      BY <3>1, <3>2 DEF FleetInv, FleetTypes, TypeOK, RegistryInv, RegistryTypeOK, DeployRow, DeployRecord
    <3>. QED BY <3>1, <3>3, <2>quiet
  <2>22. ASSUME NEW h \in Hosts, RedeployFailed(h) PROVE FleetInv'
    <3>1. UNCHANGED <<hosts, pending, events, req, joiner, worker, ranked, box, ran, agent, calls, flight>>
      BY <2>22 DEF RedeployFailed
    <3>a. deploy \in DeployRecord
      BY DEF FleetInv, FleetTypes, TypeOK, DeployRow, DeployRecord
    <3>2. deploy' \in DeployRecord
      <4>. DEFINE row == [host |-> h, sessions |-> {}, status |-> "failed"]
      <4>1. deploy' = [deploy EXCEPT !.asking = @ \ {h}, !.rows = @ \cup {row}]
        BY <2>22 DEF RedeployFailed
      <4>2. row \in DeployRow BY DEF DeployRow
      <4>. HIDE DEF row
      <4>. QED BY <3>a, <4>1, <4>2 DEF DeployRecord
    <3>3. FleetTypes'
      BY <3>1, <3>2 DEF FleetInv, FleetTypes, TypeOK, RegistryInv, RegistryTypeOK, DeployRow, DeployRecord
    <3>. QED BY <3>1, <3>3, <2>quiet
  <2>23. CASE UNCHANGED vars
    <3>1. UNCHANGED <<hosts, pending, events, req, joiner, worker, ranked, box, ran, agent, calls, flight, deploy>>
      BY <2>23 DEF vars
    <3>2. FleetTypes'
      BY <3>1 DEF FleetInv, FleetTypes, TypeOK, RegistryInv, RegistryTypeOK
    <3>. QED BY <3>1, <3>2, <2>quiet
  <2>24. ASSUME NEW h \in Hosts, NEW i \in box[h], Stop(h, i) PROVE FleetInv'
    <3>1. UNCHANGED <<hosts, pending, events, req, joiner, worker, ranked, ran, calls, flight>>
      BY <2>24 DEF Stop
    <3>2. box' = [box EXCEPT ![h] = (@ \ {i}) \cup {[i EXCEPT !.state = "draining"]}]
      BY <2>24 DEF Stop
    <3>a. i \in InstanceReport
      BY DEF FleetInv, FleetTypes, TypeOK
    <3>b. [i EXCEPT !.state = "draining"] \in InstanceReport /\ [i EXCEPT !.state = "draining"].session = i.session
      BY <3>a DEF InstanceReport, InstanceState
    <3>. DEFINE new == [i EXCEPT !.state = "draining"]
    <3>. HIDE DEF new
    <3>c. new \in InstanceReport /\ new.session = i.session /\ box' = [box EXCEPT ![h] = (@ \ {i}) \cup {new}]
      BY <3>2, <3>b DEF new
    <3>3. box' \in [Hosts -> SUBSET InstanceReport] /\ agent' = agent /\ deploy' = deploy
      BY <2>24, <3>c DEF Stop, FleetInv, FleetTypes, TypeOK
    <3>4. \A k \in Hosts : \A x \in box'[k] : \E y \in box[k] : x.session = y.session
      BY <3>c DEF FleetInv, FleetTypes, TypeOK
    <3>5. \A k \in Hosts : IsFiniteSet(box'[k])
      <4>. TAKE k \in Hosts
      <4>1. CASE k # h BY <3>c, <4>1 DEF FleetInv, FleetTypes, TypeOK
      <4>2. CASE k = h
        <5>1. box'[h] = (box[h] \ {i}) \cup {new} BY <3>c DEF FleetInv, FleetTypes, TypeOK
        <5>2. IsFiniteSet(box[h] \ {i}) BY FS_RemoveElement DEF FleetInv, FleetTypes
        <5>. QED BY <4>2, <5>1, <5>2, FS_AddElement
      <4>. QED BY <4>1, <4>2
    <3>6. FleetTypes'
      BY <3>1, <3>3, <3>4, <3>5
      DEF FleetInv, FleetTypes, TypeOK, RegistryInv, RegistryTypeOK, DeployRow, DeployRecord
    <3>7. WorkerFits' /\ CalledWhereReserved' /\ NotPlaced' /\ SentToAStartedWorld' /\ Dialable'
      BY <3>1 DEF FleetInv, WorkerFits, CalledWhereReserved, NotPlaced, SentToAStartedWorld, Dialable
    <3>8. NamesRan' /\ ReservedRan' /\ CountedOnce'
      <4>1. \A k \in Hosts : \A x \in box'[k] : x.session \in ran[k]
        BY <3>4 DEF FleetInv, NamesRan
      <4>. QED BY <3>1, <4>1 DEF FleetInv, NamesRan, ReservedRan, CountedOnce
    <3>. QED BY <3>6, <3>7, <3>8 DEF FleetInv
  <2>. QED BY <2>1, <2>2, <2>3, <2>4, <2>5, <2>6, <2>7, <2>8, <2>9, <2>10, <2>11, <2>12,
            <2>13, <2>14, <2>15, <2>16, <2>17, <2>18, <2>19, <2>20, <2>21, <2>22, <2>23, <2>24
       DEF Next, Serve
<1>. QED BY <1>1, <1>2, PTL DEF Spec

\* The registry, the router and the boxes keep their types (Registry, Router, Line).
THEOREM FleetTypeCorrect == Spec => []TypeOK
<1>1. FleetInv => TypeOK
  BY DEF FleetInv, FleetTypes
<1>. QED BY <1>1, FleetInvariant, PTL

\* An answer names a session its box has really started, for every fleet and every fault: the
\* reservation a second caller shares is one whose start came back (Registry.held, Router.start).
THEOREM AnswersNameStartedWorlds == Spec => []SentToAStartedWorld
<1>1. FleetInv => SentToAStartedWorld
  BY DEF FleetInv
<1>. QED BY <1>1, FleetInvariant, PTL

\* An answer carries a bound port (Router.Place, Registry.Started, Registry.portOf).
THEOREM AnswersAreDialable == Spec => []Dialable
<1>1. FleetInv => Dialable
  BY DEF FleetInv
<1>. QED BY <1>1, FleetInvariant, PTL

\* A reservation that is starting is the one the worker is waiting on (Router.start).
THEOREM StartsAreOwned == Spec => []StartingIsOwned
<1>1. FleetInv => StartingIsOwned
  BY DEF FleetInv, ReservedRan, StartingIsOwned
<1>. QED BY <1>1, FleetInvariant, PTL

\* No slot is counted both as reserved and as reported (Registry.settle, Registry.reservedOn).
THEOREM SlotsCountedOnce == Spec => []CountedOnce
<1>1. FleetInv => CountedOnce
  BY DEF FleetInv
<1>. QED BY <1>1, FleetInvariant, PTL

-----------------------------------------------------------------------------
(* A fleet in good order: nothing is lost or late, no caller gives up, every *)
(* box is heard before it goes stale, and all joiners ask for one region.    *)

Prompt ==
  /\ Faults = {}
  /\ MaxSilence \in Nat /\ MaxSilence < StaleAfter
  /\ \A q, r \in Requests : q.region = r.region

\* The reservation of the world of instance i is for i, on box h.
HeldFor(h, i) ==
  i.world \in DOMAIN pending /\ pending[i.world].host = h /\ pending[i.world].session = i.session

SessionsIn(instances) == {i.session : i \in instances}

\* Nothing goes wrong.
Calm ==
  /\ \A j \in Joiners : joiner[j] # "gone"
  /\ \A h \in Hosts : agent[h]
  /\ flight = {}
  /\ \A row \in deploy.rows : row.status # "failed"

\* Every row may be given work, and every reservation is on a row, in the region that is asked for.
Heard ==
  /\ \A h \in DOMAIN hosts :
       ~hosts[h].leaving /\ ~hosts[h].suspected /\ hosts[h].age <= MaxSilence
  /\ \A w \in DOMAIN pending :
       pending[w].host \in DOMAIN hosts /\ \A j \in Joiners : InRegion(pending[w].host, req[j].region)

\* A box that runs something was heard; it runs a session once, and the world its joiner asked for.
Boxed ==
  \A h \in Hosts : \A i \in box[h] :
    h \in DOMAIN hosts /\ i.world = req[i.session].world /\ \A k \in box[h] : k.session = i.session => k = i

\* A start on the wire is the one the worker waits on, reserved and never yet run; a start that was
\* refused never ran.
Reserved(h, j) ==
  LET w == req[j].world
  IN  /\ w \in DOMAIN pending /\ pending[w].host = h /\ pending[w].session = j
      /\ ~pending[w].reported /\ pending[w].starting
Called ==
  /\ \A h \in Hosts, j \in Joiners : <<h, j>> \in calls =>
       /\ worker.at = "start" /\ worker.job = {j} /\ worker.reply = "none"
       /\ Reserved(h, j)
       /\ \A k \in Hosts : j \notin ran[k]
  /\ worker.at = "start" /\ worker.reply = "refused" =>
       \A j \in worker.job, h \in Hosts : j \notin ran[h]

\* What a box has answered a rollout with is draining there for good.
Drained ==
  \A row \in deploy.rows :
    /\ row.sessions \subseteq ran[row.host]
    /\ \A i \in box[row.host] : i.session \in row.sessions => i.state = "draining"

\* Whatever a box runs is in the count of its last beat, or still counted as reserved.
Covered ==
  \A h \in DOMAIN hosts :
    /\ IsFiniteSet(SessionsIn(hosts[h].instances))
    /\ Cardinality(SessionsIn(hosts[h].instances)) <= hosts[h].running
    /\ \A i \in box[h] :
         Names(hosts[h].instances, i.session) \/ (HeldFor(h, i) /\ ~pending[i.world].reported)

\* Whatever a box runs was said to be ailing, was said to be healthy, or is held; and what is starting
\* there is held and nobody was told otherwise.
Healthy(instances, i) ==
  \E k \in instances : k.session = i.session /\ k.world = i.world /\ k.state = "healthy"
Told ==
  \A h \in DOMAIN hosts : \A i \in box[h] :
    /\ Ailing(hosts[h].instances, i.session) \/ Healthy(hosts[h].instances, i) \/ HeldFor(h, i)
    /\ i.state = "starting" => HeldFor(h, i) /\ ~Ailing(hosts[h].instances, i.session)

PromptInv == Calm /\ Heard /\ Boxed /\ Called /\ Drained /\ Covered /\ Told

\* What a fleet in good order keeps besides: rows, reservations and boxes tell of the same processes.
THEOREM PromptInvariant == ASSUME Prompt PROVE Spec => []PromptInv
<1>1. Init => PromptInv
  <2>. SUFFICES ASSUME Init PROVE PromptInv
    OBVIOUS
  <2>1. DOMAIN hosts = {} /\ DOMAIN pending = {}
    BY DEF Init, RegistryInit
  <2>2. deploy.rows = {} /\ worker.at = "idle"
    BY DEF Init, NoDeploy, Idle
  <2>3. Calm /\ Boxed /\ Called /\ Drained
    BY <2>2 DEF Init, Calm, Boxed, Called, Drained
  <2>. QED BY <2>1, <2>3 DEF PromptInv, Heard, Covered, Told
<1>2. FleetInv /\ FleetInv' /\ PromptInv /\ [Next]_vars => PromptInv'
  <2>. SUFFICES ASSUME FleetInv, FleetInv', PromptInv, [Next]_vars PROVE PromptInv'
    OBVIOUS
  <2>. USE DEF Idle, registryVars, envVars, Joiners
  <2>t. /\ hosts \in [DOMAIN hosts -> Host] /\ DOMAIN hosts \subseteq Hosts
        /\ pending \in [DOMAIN pending -> Reservation]
        /\ joiner \in [Joiners -> JoinerState]
        /\ worker \in WorkerRecord
        /\ box \in [Hosts -> SUBSET InstanceReport]
        /\ ran \in [Hosts -> SUBSET Sessions]
        /\ deploy \in DeployRecord
        /\ req \in [Joiners -> [world : World, region : {r.region : r \in Requests}]]
        /\ calls \subseteq Hosts \X Sessions
    BY DEF FleetInv, FleetTypes, TypeOK, RegistryTypeOK, WorkerRecord, DeployRecord, DeployRow
  <2>p. /\ Calm /\ Heard /\ Boxed /\ Called /\ Drained /\ Covered /\ Told
        /\ NamesRan /\ RegistryInv
    BY DEF PromptInv, FleetInv, FleetTypes
  \* Nothing is on the wire but the start the worker waits on.
  <2>w. ~(worker.at = "start" /\ worker.reply = "none") => calls = {}
    BY <2>t, <2>p DEF Called
  \* A step that keeps the rows, the reservations and the boxes.
  <2>q. ASSUME UNCHANGED <<hosts, pending, req, box, ran>>, Calm', Called', Drained' PROVE PromptInv'
    BY <2>p, <2>q DEF PromptInv, Heard, Boxed, Covered, Told, HeldFor
  \* A step of the worker, when no start is or was on the wire.
  <2>n. ASSUME calls' = {}, worker'.at # "start" PROVE Called'
    BY <2>n DEF Called
  <2>d. ASSUME UNCHANGED <<deploy, ran, box>> PROVE Drained'
    BY <2>p, <2>d DEF Drained
  <2>1. ASSUME NEW j \in Joiners, Join(j) PROVE PromptInv'
    <3>1. Calm'
      BY <2>1, <2>t, <2>p DEF Join, Calm
    <3>2. UNCHANGED <<hosts, pending, req, box, ran, worker, calls, deploy>>
      BY <2>1 DEF Join
    <3>3. Called'
      BY <2>p, <3>2 DEF Called, Reserved
    <3>. QED BY <2>q, <2>d, <3>1, <3>2, <3>3
  <2>2. ASSUME NEW j \in Joiners, GiveUp(j) PROVE PromptInv'
    BY <2>2 DEF GiveUp, Prompt
  <2>3. ASSUME NEW j \in Joiners, TakeAndRank(j) PROVE PromptInv'
    <3>1. Calm'
      BY <2>3, <2>t, <2>p DEF TakeAndRank, Calm
    <3>2. UNCHANGED <<hosts, pending, req, box, ran, calls, deploy>> /\ worker.at = "idle"
          /\ worker'.at = "place"
      BY <2>3 DEF TakeAndRank
    <3>. QED BY <2>q, <2>n, <2>d, <2>w, <3>1, <3>2
  <2>4. ASSUME NEW j \in Joiners, PlaceNowhere(j) PROVE PromptInv'
    <3>1. UNCHANGED <<hosts, pending, req, box, ran, calls, deploy, joiner, agent, flight>>
          /\ worker.at = "place" /\ worker' = [worker EXCEPT !.at = "settle"]
      BY <2>4 DEF PlaceNowhere
    <3>2. worker'.at = "settle"
      BY <2>t, <3>1 DEF WorkerRecord
    <3>3. Calm'
      BY <2>p, <3>1 DEF Calm
    <3>. QED BY <2>q, <2>n, <2>d, <2>w, <3>1, <3>2, <3>3
  <2>5. ASSUME NEW j \in Joiners, Place(j) PROVE PromptInv'
    <3>1. UNCHANGED <<req, joiner, box, ran, agent, flight, deploy>>
      BY <2>5 DEF Place
    <3>2. worker.at = "place" /\ worker.job = {j} /\ worker.reply = "none"
      BY <2>5 DEF Place, FleetInv, WorkerFits
    <3>3. PICK p \in Answers(req[j].world, req[j].region, ranked, j) :
            /\ Reserve(req[j].world, p)
            /\ worker' = [worker EXCEPT !.at = IF p.starts THEN "start" ELSE "settle", !.answer = {p}]
            /\ calls' = IF p.starts THEN calls \cup {<<p.host, j>>} ELSE calls
      BY <2>5 DEF Place
    <3>4. /\ p \in Placement
          /\ p.starts => p = [host |-> p.host, session |-> j, port |-> NoPort, starts |-> TRUE]
      BY AnswersEffect DEF FleetInv, FleetTypes, TypeOK
    <3>5. p.starts \in BOOLEAN /\ p.host \in Hosts /\ req[j].world \in World
      BY <2>t, <3>4 DEF Placement
    <3>6. Calm' /\ Drained'
      BY <2>p, <2>d, <3>1 DEF Calm
    <3>7. calls = {}
      BY <2>w, <3>2
    <3>8. CASE ~p.starts
      <4>1. hosts' = hosts /\ pending' = pending
        BY <3>3, <3>4, <3>5, <3>8, ReserveEffect DEF FleetInv, FleetTypes
      <4>2. calls' = {} /\ worker'.at # "start"
        BY <2>t, <3>3, <3>7, <3>8 DEF WorkerRecord
      <4>. QED BY <2>q, <2>n, <3>1, <3>6, <4>1, <4>2
    <3>9. CASE p.starts
      <4>. DEFINE w == req[j].world
      <4>1. /\ hosts' = hosts
            /\ DOMAIN pending' = DOMAIN pending \cup {w}
            /\ \A v \in DOMAIN pending' :
                 pending'[v] = IF v = w
                               THEN [host |-> p.host, session |-> p.session, port |-> NoPort,
                                     reported |-> FALSE, starting |-> TRUE]
                               ELSE pending[v]
        BY <3>3, <3>4, <3>5, <3>9, ReserveEffect DEF FleetInv, FleetTypes
      <4>2. p.session = j
        <5>1. p = [host |-> p.host, session |-> j, port |-> NoPort, starts |-> TRUE]  BY <3>4, <3>9
        <5>. QED BY <5>1
      <4>3. /\ worker'.at = "start" /\ worker'.job = {j} /\ worker'.reply = "none"
            /\ calls' = {<<p.host, j>>}
        BY <2>t, <3>2, <3>3, <3>7, <3>9 DEF WorkerRecord
      \* Neither a row nor the reservation answered, so the box chosen is one that still takes work.
      <4>4. /\ Serving(w, req[j].region) = {} /\ Held(w, req[j].region) = {}
            /\ p.host \in DOMAIN hosts /\ InRegion(p.host, req[j].region)
        <5>1. \A x \in Serving(w, req[j].region) \cup Held(w, req[j].region) : ~x.starts
          BY DEF Serving, Held
        <5>2. p \in Minted(j, req[j].region, ranked)
          BY <3>9, <5>1 DEF Answers
        <5>. QED BY <3>9, <5>1, <5>2 DEF Answers, Minted, StillTakes
      \* What the reservation was for, if there was one, was said to be ailing.
      <4>5. w \in DOMAIN pending => Ailing(hosts[pending[w].host].instances, pending[w].session)
        <5>. SUFFICES ASSUME w \in DOMAIN pending, ~Ailing(hosts[pending[w].host].instances, pending[w].session)
                      PROVE  FALSE
          OBVIOUS
        <5>1. pending[w].host \in DOMAIN hosts /\ InRegion(pending[w].host, req[j].region)
          BY <2>p DEF Heard
        <5>2. Placeable(hosts[pending[w].host])
          BY <2>p, <2>t, <5>1, WindowAssumption DEF Heard, Placeable, Liveness, Fresh, Prompt, Host
        <5>3. [host |-> pending[w].host, session |-> pending[w].session, port |-> pending[w].port,
               starts |-> FALSE] \in Held(w, req[j].region)
          BY <5>1, <5>2 DEF Held
        <5>. QED BY <4>4, <5>3
      <4>6. \A x \in Joiners : req[x].region = req[j].region
        BY <2>t DEF Prompt
      <4>7. Heard'
        BY <2>p, <3>1, <4>1, <4>4, <4>6 DEF Heard
      <4>8. Boxed'
        BY <2>p, <3>1, <4>1 DEF Boxed
      <4>9. Called'
        <5>1. \A k \in Hosts : j \notin ran[k]
          BY <3>2 DEF FleetInv, NotPlaced
        <5>2. Reserved(p.host, j)'
          BY <3>1, <4>1, <4>2 DEF Reserved
        <5>3. \A h \in Hosts, x \in Joiners : <<h, x>> \in calls' => h = p.host /\ x = j
          BY <4>3
        <5>. QED BY <3>1, <4>3, <5>1, <5>2, <5>3 DEF Called
      \* Whatever lost its reservation is in the row, and said to be ailing.
      <4>a. ASSUME NEW h \in DOMAIN hosts, NEW i \in box[h], HeldFor(h, i)
            PROVE  \/ HeldFor(h, i)' /\ pending'[i.world] = pending[i.world]
                   \/ Ailing(hosts[h].instances, i.session)
        <5>1. CASE i.world = w
          BY <4>a, <4>5, <5>1 DEF HeldFor
        <5>2. CASE i.world # w
          BY <4>a, <4>1, <5>2 DEF HeldFor
        <5>. QED BY <5>1, <5>2
      <4>b. \A instances, s : Ailing(instances, s) => Names(instances, s)
        BY DEF Ailing, Names
      <4>10. Covered'
        BY <2>p, <3>1, <4>1, <4>a, <4>b DEF Covered
      <4>11. Told'
        BY <2>p, <3>1, <4>1, <4>a DEF Told
      <4>. QED BY <3>6, <4>7, <4>8, <4>9, <4>10, <4>11 DEF PromptInv
    <3>. QED BY <3>5, <3>8, <3>9
  <2>6. ASSUME NEW j \in Joiners, StartAnswered(j) PROVE PromptInv'
    <3>1. /\ UNCHANGED <<req, joiner, box, ran, agent, calls, flight, deploy>>
          /\ worker.at = "start" /\ worker.reply = "started"
          /\ Started(req[j].world, j)
          /\ worker' = [worker EXCEPT !.at = "settle", !.reply = "none",
                          !.answer = {[p EXCEPT !.port = BoundPort] : p \in worker.answer}]
      BY <2>6 DEF StartAnswered
    <3>2. worker'.at = "settle"
      BY <2>t, <3>1 DEF WorkerRecord
    <3>3. /\ hosts' = hosts /\ DOMAIN pending' = DOMAIN pending
          /\ \A v \in DOMAIN pending :
               /\ pending'[v].host = pending[v].host /\ pending'[v].session = pending[v].session
               /\ pending'[v].reported = pending[v].reported
      BY <2>p, <3>1, StartedEffect
    <3>4. Calm' /\ Drained' /\ Called'
      BY <2>p, <2>d, <2>n, <2>w, <3>1, <3>2 DEF Calm
    <3>5. Heard' /\ Boxed'
      BY <2>p, <3>1, <3>3 DEF Heard, Boxed
    <3>6. \A h, i : HeldFor(h, i) => HeldFor(h, i)' /\ pending'[i.world].reported = pending[i.world].reported
      BY <3>3 DEF HeldFor
    <3>7. Covered' /\ Told'
      BY <2>p, <3>1, <3>3, <3>6 DEF Covered, Told
    <3>. QED BY <3>4, <3>5, <3>7 DEF PromptInv
  <2>7. ASSUME NEW j \in Joiners, StartFailed(j) PROVE PromptInv'
    <3>1. /\ UNCHANGED <<req, joiner, box, ran, agent, calls, flight, deploy>>
          /\ worker.at = "start" /\ worker.job = {j} /\ worker.reply = "refused"
          /\ Release(GameOf(req[j].world), j)
          /\ worker' = [worker EXCEPT !.at = "settle", !.reply = "none", !.answer = {}]
      BY <2>7 DEF StartFailed, Prompt
    <3>2. worker'.at = "settle"
      BY <2>t, <3>1 DEF WorkerRecord
    <3>3. /\ hosts' = hosts
          /\ DOMAIN pending' = {v \in DOMAIN pending : ~(GameOf(v) = GameOf(req[j].world) /\ pending[v].session = j)}
          /\ \A v \in DOMAIN pending' : pending'[v] = pending[v]
      BY <3>1 DEF Release
    <3>4. Calm' /\ Drained' /\ Called'
      BY <2>p, <2>d, <2>n, <2>w, <3>1, <3>2 DEF Calm
    <3>5. Heard' /\ Boxed'
      BY <2>p, <3>1, <3>3 DEF Heard, Boxed
    \* The session let go of never ran.
    <3>6. \A h \in Hosts : \A i \in box[h] : i.session # j
      BY <2>p, <3>1 DEF Called, NamesRan
    <3>7. \A h \in DOMAIN hosts : \A i \in box[h] :
            HeldFor(h, i) => HeldFor(h, i)' /\ pending'[i.world] = pending[i.world]
      BY <2>t, <3>3, <3>6 DEF HeldFor
    <3>8. Covered' /\ Told'
      BY <2>p, <3>1, <3>3, <3>7 DEF Covered, Told
    <3>. QED BY <3>4, <3>5, <3>8 DEF PromptInv
  <2>8. ASSUME NEW j \in Joiners, Settled(j) PROVE PromptInv'
    <3>1. /\ worker.at = "settle" /\ worker' = Idle
          /\ UNCHANGED <<req, box, ran, calls, deploy, agent, flight>>
          /\ joiner' = [joiner EXCEPT ![j] = IF @ = "gone" THEN "gone" ELSE "answered"]
      BY <2>8 DEF Settled
    <3>2. UNCHANGED <<hosts, pending>>
      BY <2>8, <2>p DEF Settled, Calm
    <3>3. Calm'
      BY <2>t, <2>p, <3>1 DEF Calm
    <3>. QED BY <2>q, <2>n, <2>d, <2>w, <3>1, <3>2, <3>3
  <2>9. CASE Restart
    BY <2>9 DEF Restart, Prompt
  <2>10. ASSUME NEW h \in Hosts, NEW j \in Joiners, StartLands(h, j) PROVE PromptInv'
    <3>. DEFINE new == [session |-> j, world |-> req[j].world, state |-> "starting"]
    <3>1. UNCHANGED <<hosts, pending, joiner, req, agent, flight, deploy>>
      BY <2>10 DEF StartLands
    <3>2. <<h, j>> \in calls /\ calls' = calls \ {<<h, j>>}
      BY <2>10 DEF StartLands
    <3>3. /\ worker.at = "start" /\ worker.job = {j} /\ worker.reply = "none"
          /\ Reserved(h, j) /\ \A k \in Hosts : j \notin ran[k]
      BY <2>p, <3>2 DEF Called
    <3>4. calls' = {}
      <4>1. \A k \in Hosts, x \in Joiners : <<k, x>> \in calls => x = j /\ k = h
        BY <2>p, <3>3 DEF Called, Reserved
      <4>. QED BY <2>t, <3>2, <4>1
    <3>5. Calm' /\ Heard'
      BY <2>p, <3>1 DEF Calm, Heard
    \* It runs: the new session was reserved, and no row or rollout knows it.
    <3>6. CASE /\ box' = [box EXCEPT ![h] = @ \cup {new}] /\ ran' = [ran EXCEPT ![h] = @ \cup {j}]
               /\ worker' = [worker EXCEPT !.reply = "started"]
      <4>1. worker'.reply = "started"
        BY <2>t, <3>6 DEF WorkerRecord
      <4>2. Called'
        BY <3>4, <4>1 DEF Called
      <4>3. /\ box'[h] = box[h] \cup {new} /\ \A k \in Hosts \ {h} : box'[k] = box[k]
            /\ \A k \in Hosts : ran[k] \subseteq ran'[k]
        BY <2>t, <3>6
      <4>4. new.session = j /\ new.world = req[j].world /\ new.state = "starting"
        OBVIOUS
      <4>. HIDE DEF new
      <4>5. \A k \in Hosts : \A i \in box[k] : i.session # j
        BY <2>p, <3>3 DEF NamesRan
      <4>6. Boxed'
        <5>1. h \in DOMAIN hosts
          BY <2>p, <3>3 DEF Reserved, Heard
        <5>. QED BY <2>p, <3>1, <4>3, <4>4, <4>5, <5>1 DEF Boxed
      <4>7. Drained'
        <5>1. \A row \in deploy.rows : row.host \in Hosts
          BY <2>t DEF DeployRecord, DeployRow
        <5>. QED BY <2>p, <3>1, <3>3, <4>3, <4>4, <5>1 DEF Drained
      <4>8. HeldFor(h, new) /\ ~pending[new.world].reported
        BY <3>3, <4>4 DEF HeldFor, Reserved
      <4>9. h \in DOMAIN hosts => ~Ailing(hosts[h].instances, new.session)
        BY <2>p, <3>3, <4>4 DEF NamesRan, Ailing
      <4>10. Covered'
        BY <2>t, <2>p, <3>1, <4>3, <4>8 DEF Covered, HeldFor
      <4>11. Told'
        BY <2>t, <2>p, <3>1, <4>3, <4>8, <4>9 DEF Told, HeldFor
      <4>. QED BY <3>5, <4>2, <4>6, <4>7, <4>10, <4>11 DEF PromptInv
    <3>7. CASE UNCHANGED <<box, ran>> /\ worker' = [worker EXCEPT !.reply = "refused"]
      <4>1. worker'.job = {j}
        BY <2>t, <3>3, <3>7 DEF WorkerRecord
      <4>2. Called'
        BY <3>3, <3>4, <3>7, <4>1 DEF Called
      <4>. QED BY <2>q, <2>d, <3>1, <3>5, <3>7, <4>2
    <3>. QED BY <2>10, <3>3, <3>6, <3>7 DEF StartLands
  \* A step of a box that leaves it a part of what it ran, with other states.
  <2>b. ASSUME NEW h \in Hosts, UNCHANGED <<hosts, pending, req, ran, calls, worker, joiner, agent, flight>>,
               \A k \in Hosts \ {h} : box'[k] = box[k],
               \A k \in box'[h] : \E i \in box[h] :
                 /\ k.session = i.session /\ k.world = i.world
                 /\ k.state = "starting" => k = i
                 /\ i.state = "draining" => k.state = "draining",
               \A i, k \in box'[h] : k.session = i.session => k = i
        PROVE  Heard' /\ Boxed' /\ Called' /\ Covered' /\ Told'
               /\ (deploy' = deploy => Calm' /\ Drained')
    <3>. USE <2>b
    <3>1. Heard' /\ Called' /\ (deploy' = deploy => Calm')
      BY <2>p DEF Heard, Called, Reserved, Calm
    <3>2. \A g \in Hosts : \A k \in box'[g] : \E i \in box[g] :
            /\ k.session = i.session /\ k.world = i.world
            /\ k.state = "starting" => k = i
            /\ i.state = "draining" => k.state = "draining"
      OBVIOUS
    <3>3. Boxed'
      BY <2>p, <3>2 DEF Boxed
    <3>4. \A g, i, k : k.session = i.session /\ k.world = i.world /\ HeldFor(g, i) => HeldFor(g, k)'
      BY DEF HeldFor
    <3>5. \A r, i, k : k.session = i.session /\ k.world = i.world /\ Healthy(r, i) => Healthy(r, k)
      BY DEF Healthy
    <3>6. Covered'
      <4>. SUFFICES ASSUME NEW g \in DOMAIN hosts, NEW k \in box'[g]
                    PROVE  \/ Names(hosts[g].instances, k.session)
                           \/ HeldFor(g, k)' /\ ~pending[k.world].reported
        BY <2>p DEF Covered
      <4>1. PICK i \in box[g] : k.session = i.session /\ k.world = i.world
        BY <2>t, <3>2
      <4>. QED BY <2>p, <3>4, <4>1 DEF Covered
    <3>7. Told'
      <4>. SUFFICES ASSUME NEW g \in DOMAIN hosts, NEW k \in box'[g]
                    PROVE  /\ \/ Ailing(hosts[g].instances, k.session) \/ Healthy(hosts[g].instances, k)
                              \/ HeldFor(g, k)'
                           /\ k.state = "starting" =>
                                HeldFor(g, k)' /\ ~Ailing(hosts[g].instances, k.session)
        BY DEF Told
      <4>1. PICK i \in box[g] : /\ k.session = i.session /\ k.world = i.world
                                /\ k.state = "starting" => k = i
        BY <2>t, <3>2
      <4>. QED BY <2>p, <3>4, <3>5, <4>1 DEF Told
    <3>8. deploy' = deploy => Drained'
      <4>1. \A row \in deploy.rows : row.host \in Hosts
        BY <2>t DEF DeployRecord, DeployRow
      <4>. QED BY <2>p, <3>2, <4>1 DEF Drained
    <3>. QED BY <3>1, <3>3, <3>6, <3>7, <3>8
  <2>11. ASSUME NEW h \in Hosts, NEW i \in box[h], Probe(h, i) PROVE PromptInv'
    <3>1. /\ UNCHANGED <<hosts, pending, req, ran, calls, worker, joiner, agent, flight, deploy>>
          /\ i.state # "draining"
      BY <2>11 DEF Probe
    <3>2. PICK s \in {"healthy", "unhealthy", "draining"} :
            box' = [box EXCEPT ![h] = (@ \ {i}) \cup {[i EXCEPT !.state = s]}]
      BY <2>11 DEF Probe
    <3>. DEFINE new == [i EXCEPT !.state = s]
    <3>3. new.session = i.session /\ new.world = i.world /\ new.state = s
      BY <2>t DEF InstanceReport
    <3>4. box'[h] = (box[h] \ {i}) \cup {new} /\ \A k \in Hosts \ {h} : box'[k] = box[k]
      BY <2>t, <3>2
    <3>. HIDE DEF new
    <3>5. \A k \in box'[h] : \E x \in box[h] :
            /\ k.session = x.session /\ k.world = x.world
            /\ k.state = "starting" => k = x
            /\ x.state = "draining" => k.state = "draining"
      BY <3>1, <3>3, <3>4
    <3>6. \A x, k \in box'[h] : k.session = x.session => k = x
      BY <2>p, <3>3, <3>4 DEF Boxed
    <3>. QED BY <2>b, <2>p, <3>1, <3>4, <3>5, <3>6 DEF PromptInv
  <2>12. ASSUME NEW h \in Hosts, NEW i \in box[h], Stop(h, i) PROVE PromptInv'
    <3>1. /\ UNCHANGED <<hosts, pending, req, ran, calls, worker, joiner, agent, flight, deploy>>
          /\ i.state # "draining"
      BY <2>12 DEF Stop
    <3>2. PICK s \in {"healthy", "unhealthy", "draining"} :
            box' = [box EXCEPT ![h] = (@ \ {i}) \cup {[i EXCEPT !.state = s]}]
      BY <2>12 DEF Stop
    <3>. DEFINE new == [i EXCEPT !.state = s]
    <3>3. new.session = i.session /\ new.world = i.world /\ new.state = s
      BY <2>t DEF InstanceReport
    <3>4. box'[h] = (box[h] \ {i}) \cup {new} /\ \A k \in Hosts \ {h} : box'[k] = box[k]
      BY <2>t, <3>2
    <3>. HIDE DEF new
    <3>5. \A k \in box'[h] : \E x \in box[h] :
            /\ k.session = x.session /\ k.world = x.world
            /\ k.state = "starting" => k = x
            /\ x.state = "draining" => k.state = "draining"
      BY <3>1, <3>3, <3>4
    <3>6. \A x, k \in box'[h] : k.session = x.session => k = x
      BY <2>p, <3>3, <3>4 DEF Boxed
    <3>. QED BY <2>b, <2>p, <3>1, <3>4, <3>5, <3>6 DEF PromptInv
  <2>13. ASSUME NEW h \in Hosts, NEW i \in box[h], Exit(h, i) PROVE PromptInv'
    <3>1. UNCHANGED <<hosts, pending, req, ran, calls, worker, joiner, agent, flight, deploy>>
      BY <2>13 DEF Exit
    <3>2. box'[h] = box[h] \ {i} /\ \A k \in Hosts \ {h} : box'[k] = box[k]
      BY <2>13, <2>t DEF Exit
    <3>3. \A x, k \in box'[h] : k.session = x.session => k = x
      BY <2>p, <3>2 DEF Boxed
    <3>. QED BY <2>b, <2>p, <3>1, <3>2, <3>3 DEF PromptInv
  <2>14. ASSUME NEW h \in Hosts, BeatArrives(h) PROVE PromptInv'
    <3>. DEFINE b == Heartbeat(h, Cardinality(box[h]), FALSE)
    <3>1. Beat(b) /\ UNCHANGED <<req, joiner, box, ran, agent, calls, flight, deploy, worker>>
      BY <2>14 DEF BeatArrives
    <3>2. /\ b.host = h /\ b.instances = box[h] /\ b.running = Cardinality(box[h]) /\ ~b.leaving
      BY DEF Heartbeat
    <3>. HIDE DEF b
    \* No row is old enough to be dropped.
    <3>3. {g \in DOMAIN hosts \ {h} : hosts[g].age <= Retain} \cup {h} = DOMAIN hosts \cup {h}
      <4>1. \A g \in DOMAIN hosts : hosts[g].age \in Nat /\ hosts[g].age <= MaxSilence
        BY <2>t, <2>p, WindowAssumption DEF Host, Heard
      <4>2. \A g \in DOMAIN hosts : hosts[g].age <= Retain
        BY <4>1, WindowAssumption DEF Prompt
      <4>. QED BY <4>2
    <3>4. /\ DOMAIN hosts' = DOMAIN hosts \cup {h}
          /\ hosts'[h] = RowOf(b)
          /\ \A g \in DOMAIN hosts \ {h} : hosts'[g] = hosts[g]
          /\ pending' = Settle(b, DOMAIN hosts \cup {h})
      BY <3>1, <3>2, <3>3 DEF Beat
    <3>5. /\ hosts'[h].running = Cardinality(box[h]) /\ hosts'[h].instances = box[h]
          /\ ~hosts'[h].leaving /\ ~hosts'[h].suspected /\ hosts'[h].age = 0
      BY <3>2, <3>4 DEF RowOf, Reported
    <3>6. /\ DOMAIN pending' \subseteq DOMAIN pending
          /\ \A w \in DOMAIN pending' :
               pending'[w].host = pending[w].host /\ pending'[w].session = pending[w].session
          /\ \A w \in DOMAIN pending :
               /\ pending[w].host # h => w \in DOMAIN pending' /\ pending'[w] = pending[w]
               /\ pending[w].host = h /\ Names(box[h], pending[w].session) => w \in DOMAIN pending'
               /\ pending[w].starting /\ ~Names(box[h], pending[w].session) =>
                    w \in DOMAIN pending' /\ pending'[w] = pending[w]
      <4>1. DOMAIN pending' = {w \in DOMAIN pending :
                                 /\ pending[w].host \in DOMAIN hosts \cup {h}
                                 /\ pending[w].host = h =>
                                      \/ pending[w].host = h /\ Names(box[h], pending[w].session)
                                      \/ pending[w].starting}
        BY <3>2, <3>4 DEF Settle
      <4>2. \A w \in DOMAIN pending' :
              pending'[w] = IF pending[w].host = h /\ Names(box[h], pending[w].session)
                            THEN [pending[w] EXCEPT !.reported = TRUE, !.port = BoundPort]
                            ELSE pending[w]
        BY <3>2, <3>4, <4>1 DEF Settle
      <4>3. \A w \in DOMAIN pending : pending[w].host \in DOMAIN hosts
        BY <2>p DEF Heard
      <4>4. \A w \in DOMAIN pending' :
              pending'[w].host = pending[w].host /\ pending'[w].session = pending[w].session
        BY <2>t, <4>1, <4>2 DEF Reservation
      <4>. QED BY <4>1, <4>2, <4>3, <4>4
    <3>7. Calm' /\ Drained' /\ Boxed'
      BY <2>p, <2>d, <3>1, <3>4 DEF Calm, Boxed
    <3>8. Heard'
      <4>1. \A g \in DOMAIN hosts' :
              ~hosts'[g].leaving /\ ~hosts'[g].suspected /\ hosts'[g].age <= MaxSilence
        <5>1. 0 <= MaxSilence
          BY DEF Prompt
        <5>. QED BY <2>p, <3>4, <3>5, <5>1 DEF Heard
      <4>2. \A w \in DOMAIN pending' : w \in DOMAIN pending /\ pending'[w].host \in DOMAIN hosts'
        BY <2>p, <3>4, <3>6 DEF Heard
      <4>. QED BY <2>p, <3>1, <3>6, <4>1, <4>2 DEF Heard
    <3>9. Called'
      <4>1. ASSUME NEW g \in Hosts, NEW j \in Joiners, Reserved(g, j), j \notin ran[h]
            PROVE  Reserved(g, j)'
        <5>1. ~Names(box[h], j)
          BY <2>p, <4>1 DEF NamesRan, Names
        <5>. QED BY <3>1, <3>6, <4>1, <5>1 DEF Reserved
      <4>. QED BY <2>p, <3>1, <4>1 DEF Called
    \* On another box nothing changed; on this one whatever runs is in the row.
    <3>10. ASSUME NEW g \in DOMAIN hosts \ {h}, NEW i, HeldFor(g, i)
           PROVE  HeldFor(g, i)' /\ pending'[i.world] = pending[i.world]
      BY <3>6, <3>10 DEF HeldFor
    <3>11. \A i \in box[h] : Names(box[h], i.session)
      BY DEF Names
    <3>12. Covered'
      <4>1. IsFiniteSet(SessionsIn(box[h])) /\ Cardinality(SessionsIn(box[h])) <= Cardinality(box[h])
        <5>1. IsFiniteSet(box[h])
          BY DEF FleetInv, FleetTypes
        <5>. DEFINE f == [i \in box[h] |-> i.session]
        <5>2. f \in Surjection(box[h], SessionsIn(box[h]))
          BY DEF Surjection, SessionsIn
        <5>. HIDE DEF f
        <5>. QED BY <5>1, <5>2, FS_Surjection
      <4>2. \A g \in DOMAIN hosts \ {h} : \A i \in box[g] :
              \/ Names(hosts[g].instances, i.session)
              \/ HeldFor(g, i)' /\ ~pending'[i.world].reported
        BY <2>p, <3>10 DEF Covered
      <4>. QED BY <2>p, <3>1, <3>4, <3>5, <3>11, <4>1, <4>2 DEF Covered
    <3>13. Told'
      <4>1. ASSUME NEW g \in DOMAIN hosts \ {h}, NEW i \in box[g]
            PROVE  /\ Ailing(hosts[g].instances, i.session) \/ Healthy(hosts[g].instances, i)
                        \/ HeldFor(g, i)'
                   /\ i.state = "starting" => HeldFor(g, i)' /\ ~Ailing(hosts[g].instances, i.session)
        BY <2>p, <3>10 DEF Told
      <4>2. ASSUME NEW i \in box[h]
            PROVE  /\ Ailing(box[h], i.session) \/ Healthy(box[h], i) \/ HeldFor(h, i)'
                   /\ i.state = "starting" => HeldFor(h, i)' /\ ~Ailing(box[h], i.session)
        <5>1. i.state \in InstanceState
          BY <2>t DEF InstanceReport
        <5>2. i.state = "starting" => ~Ailing(box[h], i.session)
          BY <2>p DEF Boxed, Ailing
        <5>3. i.state = "starting" => HeldFor(h, i)
          BY <2>p DEF Boxed, Told
        <5>4. HeldFor(h, i) => HeldFor(h, i)'
          BY <3>6, <3>11 DEF HeldFor
        <5>5. i.state # "starting" => Ailing(box[h], i.session) \/ Healthy(box[h], i)
          BY <5>1 DEF InstanceState, Ailing, Healthy
        <5>. QED BY <5>2, <5>3, <5>4, <5>5
      <4>. QED BY <3>1, <3>4, <3>5, <4>1, <4>2 DEF Told
    <3>. QED BY <3>7, <3>8, <3>9, <3>12, <3>13 DEF PromptInv
  <2>15. ASSUME NEW h \in Hosts, BeatSent(h) PROVE PromptInv'
    BY <2>15 DEF BeatSent, Prompt
  <2>16. ASSUME NEW h \in Hosts, AgentStops(h) PROVE PromptInv'
    BY <2>16 DEF AgentStops, Prompt
  <2>17. ASSUME NEW h \in Hosts, AgentStarts(h) PROVE PromptInv'
    BY <2>17, <2>p DEF AgentStarts, Calm
  <2>18. ASSUME NEW b \in flight, BeatDelivered(b) PROVE PromptInv'
    BY <2>18, <2>p DEF Calm
  <2>19. CASE Passes
    <3>1. /\ UNCHANGED <<req, joiner, box, ran, agent, calls, flight, deploy, worker>>
          /\ \A h \in DOMAIN hosts : hosts[h].age < MaxSilence
          /\ Tick
      BY <2>19, <2>t, <2>p DEF Passes, Calm
    <3>2. pending' = pending /\ DOMAIN hosts' = DOMAIN hosts
      BY <3>1 DEF Tick
    <3>3. \A h \in DOMAIN hosts :
            /\ hosts'[h].instances = hosts[h].instances /\ hosts'[h].running = hosts[h].running
            /\ hosts'[h].leaving = hosts[h].leaving /\ hosts'[h].suspected = hosts[h].suspected
            /\ hosts'[h].age <= MaxSilence
      <4>. SUFFICES ASSUME NEW h \in DOMAIN hosts
                    PROVE  /\ hosts'[h].instances = hosts[h].instances /\ hosts'[h].running = hosts[h].running
                           /\ hosts'[h].leaving = hosts[h].leaving
                           /\ hosts'[h].suspected = hosts[h].suspected
                           /\ hosts'[h].age <= MaxSilence
        OBVIOUS
      <4>1. hosts[h] \in Host /\ hosts[h].age \in Nat /\ hosts[h].age < MaxSilence
        BY <2>t, <3>1, WindowAssumption DEF Host
      <4>2. hosts'[h] = [hosts[h] EXCEPT !.age = IF @ > Retain THEN @ ELSE @ + 1]
        BY <3>1 DEF Tick
      <4>3. hosts[h].age + 1 <= MaxSilence
        BY <4>1 DEF Prompt
      <4>. QED BY <4>1, <4>2, <4>3 DEF Host, Prompt
    <3>4. Calm' /\ Drained' /\ Boxed' /\ Called'
      BY <2>p, <2>d, <3>1, <3>2 DEF Calm, Boxed, Called, Reserved
    <3>5. Heard'
      BY <2>p, <3>1, <3>2, <3>3 DEF Heard
    <3>6. Covered' /\ Told'
      BY <2>p, <3>1, <3>2, <3>3 DEF Covered, Told, HeldFor
    <3>. QED BY <3>4, <3>5, <3>6 DEF PromptInv
  <2>20. ASSUME NEW g \in Games, Deploy(g) PROVE PromptInv'
    <3>1. /\ UNCHANGED <<hosts, pending, req, joiner, box, ran, agent, calls, flight, worker>>
          /\ deploy.rows = {}
          /\ deploy' = [deploy EXCEPT !.left = @ - 1, !.game = {g}, !.asking = Targets(g, {})]
      BY <2>20 DEF Deploy
    <3>2. deploy'.rows = {}
      BY <2>t, <3>1 DEF DeployRecord
    <3>3. Calm' /\ Drained' /\ Called'
      BY <2>p, <3>1, <3>2 DEF Calm, Drained, Called, Reserved
    <3>. QED BY <2>q, <3>1, <3>3
  <2>21. ASSUME NEW h \in Hosts, Redeploy(h) PROVE PromptInv'
    <3>. DEFINE held == {i \in box[h] : GameOf(i.world) \in deploy.game}
                ids  == {i.session : i \in held}
                mark(i) == IF i \in held THEN [i EXCEPT !.state = "draining"] ELSE i
                row == [host |-> h, sessions |-> ids, status |-> IF ids = {} THEN "skipped" ELSE "draining"]
    <3>1. /\ UNCHANGED <<hosts, pending, req, ran, calls, worker, joiner, agent, flight>>
          /\ box' = [box EXCEPT ![h] = {mark(i) : i \in @}]
          /\ deploy' = [deploy EXCEPT !.asking = @ \ {h}, !.rows = @ \cup {row}]
      BY <2>21 DEF Redeploy, Prompt
    <3>2. box'[h] = {mark(i) : i \in box[h]} /\ \A k \in Hosts \ {h} : box'[k] = box[k]
      BY <2>t, <3>1
    <3>3. deploy'.rows = deploy.rows \cup {row}
      BY <2>t, <3>1 DEF DeployRecord
    <3>4. \A i \in box[h] :
            /\ mark(i).session = i.session /\ mark(i).world = i.world
            /\ mark(i).state = "starting" => mark(i) = i
            /\ i.state = "draining" \/ i \in held => mark(i).state = "draining"
      BY <2>t DEF InstanceReport
    <3>. HIDE DEF mark
    <3>5. \A k \in box'[h] : \E i \in box[h] :
            /\ k.session = i.session /\ k.world = i.world
            /\ k.state = "starting" => k = i
            /\ i.state = "draining" => k.state = "draining"
      BY <3>2, <3>4
    <3>6. \A i, k \in box'[h] : k.session = i.session => k = i
      BY <2>p, <3>2, <3>4 DEF Boxed
    <3>7. Heard' /\ Boxed' /\ Called' /\ Covered' /\ Told'
      BY <2>b, <3>1, <3>2, <3>5, <3>6
    <3>8. Calm'
      BY <2>p, <3>1, <3>3 DEF Calm
    <3>9. Drained'
      <4>1. \A r \in deploy.rows : r.host \in Hosts
        BY <2>t DEF DeployRecord, DeployRow
      <4>2. \A r \in deploy.rows : /\ r.sessions \subseteq ran[r.host]
                                   /\ \A k \in box'[r.host] : k.session \in r.sessions => k.state = "draining"
        BY <2>p, <3>2, <3>5, <4>1 DEF Drained
      <4>3. row.host = h /\ row.sessions = ids
        OBVIOUS
      <4>4. ids \subseteq ran[h]
        BY <2>p DEF NamesRan
      <4>5. \A k \in box'[h] : k.session \in ids => k.state = "draining"
        <5>. SUFFICES ASSUME NEW k \in box'[h], k.session \in ids PROVE k.state = "draining"
          OBVIOUS
        <5>1. PICK i \in box[h] : k = mark(i)
          BY <3>2
        <5>2. PICK x \in held : x.session = k.session
          OBVIOUS
        <5>3. x = i
          BY <2>p, <3>4, <5>1, <5>2 DEF Boxed
        <5>. QED BY <3>4, <5>1, <5>2, <5>3
      <4>. HIDE DEF row
      <4>. QED BY <3>1, <3>3, <4>2, <4>3, <4>4, <4>5 DEF Drained
    <3>. QED BY <3>7, <3>8, <3>9 DEF PromptInv
  <2>22. ASSUME NEW h \in Hosts, RedeployFailed(h) PROVE PromptInv'
    BY <2>22, <2>p DEF RedeployFailed, Prompt, Calm
  <2>23. ASSUME NEW row \in deploy.rows, Recorded(row) PROVE PromptInv'
    <3>1. /\ UNCHANGED <<req, joiner, box, ran, agent, calls, flight, worker>>
          /\ deploy' = [deploy EXCEPT !.rows = @ \ {row}, !.game = IF deploy.rows = {row} THEN {} ELSE @]
      BY <2>23 DEF Recorded
    <3>2. deploy'.rows = deploy.rows \ {row} /\ row \in DeployRow
      BY <2>t, <3>1 DEF DeployRecord
    <3>3. Calm' /\ Drained'
      BY <2>p, <3>1, <3>2 DEF Calm, Drained
    <3>4. CASE row.status = "draining"
      <4>. DEFINE id == row.host
                  mark(i) == IF i.session \in row.sessions THEN [i EXCEPT !.state = "draining"] ELSE i
      <4>1. Draining(id, row.sessions)
        BY <2>23, <3>4 DEF Recorded
      <4>2. pending' = pending /\ DOMAIN hosts' = DOMAIN hosts
            /\ \A g \in DOMAIN hosts \ {id} : hosts'[g] = hosts[g]
        BY <4>1 DEF Draining
      <4>3. id \in DOMAIN hosts =>
              /\ hosts'[id].instances = {mark(i) : i \in hosts[id].instances}
              /\ hosts'[id].running = hosts[id].running /\ hosts'[id].leaving = hosts[id].leaving
              /\ hosts'[id].suspected = hosts[id].suspected /\ hosts'[id].age = hosts[id].age
        <5>. SUFFICES ASSUME id \in DOMAIN hosts
                      PROVE  /\ hosts'[id].instances = {mark(i) : i \in hosts[id].instances}
                             /\ hosts'[id].running = hosts[id].running
                             /\ hosts'[id].leaving = hosts[id].leaving
                             /\ hosts'[id].suspected = hosts[id].suspected
                             /\ hosts'[id].age = hosts[id].age
          OBVIOUS
        <5>1. hosts'[id] = [hosts[id] EXCEPT !.instances = {mark(i) : i \in hosts[id].instances}]
          BY <4>1 DEF Draining
        <5>2. hosts[id] \in Host
          BY <2>t
        <5>. QED BY <5>1, <5>2 DEF Host
      <4>4. \A g \in DOMAIN hosts : \A i \in hosts[g].instances :
              /\ mark(i).session = i.session /\ mark(i).world = i.world
              /\ IF i.session \in row.sessions THEN mark(i).state = "draining" ELSE mark(i) = i
        BY <2>t DEF Host, InstanceReport
      <4>. HIDE DEF mark, id
      <4>5. Heard' /\ Boxed' /\ Called'
        BY <2>p, <3>1, <4>2, <4>3 DEF Heard, Boxed, Called, Reserved
      <4>6. ASSUME NEW g \in DOMAIN hosts
            PROVE  /\ SessionsIn(hosts'[g].instances) = SessionsIn(hosts[g].instances)
                   /\ \A s : Names(hosts[g].instances, s) => Names(hosts'[g].instances, s)
                   /\ \A s : Ailing(hosts[g].instances, s) => Ailing(hosts'[g].instances, s)
                   /\ \A i : Healthy(hosts[g].instances, i) =>
                        Healthy(hosts'[g].instances, i) \/ Ailing(hosts'[g].instances, i.session)
                   /\ \A s : Ailing(hosts'[g].instances, s) =>
                        Ailing(hosts[g].instances, s) \/ (g = id /\ s \in row.sessions)
        <5>1. CASE g # id
          BY <4>2, <5>1
        <5>2. CASE g = id
          <6>. DEFINE old == hosts[g].instances
          <6>1. hosts'[g].instances = {mark(i) : i \in old}
            BY <4>3, <4>6, <5>2
          <6>2. \A i \in old : /\ mark(i).session = i.session /\ mark(i).world = i.world
                               /\ IF i.session \in row.sessions THEN mark(i).state = "draining"
                                  ELSE mark(i) = i
            BY <4>4, <4>6
          <6>. HIDE DEF old
          <6>3. SessionsIn({mark(i) : i \in old}) = SessionsIn(old)
            BY <6>2 DEF SessionsIn
          <6>4. \A s : Names(old, s) => Names({mark(i) : i \in old}, s)
            BY <6>2 DEF Names
          <6>5. \A s : Ailing(old, s) => Ailing({mark(i) : i \in old}, s)
            BY <6>2 DEF Ailing
          <6>6. \A i : Healthy(old, i) =>
                   Healthy({mark(x) : x \in old}, i) \/ Ailing({mark(x) : x \in old}, i.session)
            BY <6>2 DEF Ailing, Healthy
          <6>7. \A s : Ailing({mark(i) : i \in old}, s) => Ailing(old, s) \/ s \in row.sessions
            BY <6>2 DEF Ailing
          <6>. QED BY <5>2, <6>1, <6>3, <6>4, <6>5, <6>6, <6>7 DEF old
        <5>. QED BY <5>1, <5>2
      <4>7. \A g \in DOMAIN hosts : hosts'[g].running = hosts[g].running
        BY <4>2, <4>3
      <4>8. Covered'
        BY <2>p, <3>1, <4>2, <4>6, <4>7 DEF Covered, HeldFor
      \* What the box has drained is not starting there.
      <4>9. \A i \in box[id] : i.session \in row.sessions => i.state = "draining"
        BY <2>p DEF Drained, id
      <4>10. Told'
        BY <2>p, <3>1, <4>2, <4>6, <4>9 DEF Told, HeldFor
      <4>. QED BY <3>3, <4>5, <4>8, <4>10 DEF PromptInv
    <3>5. CASE row.status # "draining"
      <4>1. row.status = "skipped"
        BY <2>p, <3>2, <3>5 DEF Calm, DeployRow
      <4>2. UNCHANGED <<hosts, pending>>
        BY <2>23, <4>1 DEF Recorded
      <4>3. Called'
        BY <2>p, <3>1, <4>2 DEF Called, Reserved
      <4>. QED BY <2>q, <3>1, <3>3, <4>2, <4>3
    <3>. QED BY <3>4, <3>5
  <2>24. CASE UNCHANGED vars
    <3>1. UNCHANGED <<hosts, pending, req, box, ran, worker, calls, deploy, joiner, agent, flight>>
      BY <2>24 DEF vars
    <3>2. Calm' /\ Called'
      BY <2>p, <3>1 DEF Calm, Called, Reserved
    <3>. QED BY <2>q, <2>d, <3>1, <3>2
  <2>. QED BY <2>1, <2>2, <2>3, <2>4, <2>5, <2>6, <2>7, <2>8, <2>9, <2>10, <2>11, <2>12,
            <2>13, <2>14, <2>15, <2>16, <2>17, <2>18, <2>19, <2>20, <2>21, <2>22, <2>23, <2>24
       DEF Next, Serve
<1>. QED BY <1>1, <1>2, FleetInvariant, PTL DEF Spec

\* In a fleet in good order no box is believed to have more free slots than it has (Registry.reservedOn,
\* Host.FreeSlots), for any number of boxes, worlds and joiners.
THEOREM NothingOverOffered == ASSUME Prompt PROVE Spec => []NeverOverOffers
<1>1. FleetInv /\ PromptInv => NeverOverOffers
  <2>. SUFFICES ASSUME FleetInv, PromptInv, NEW h \in DOMAIN hosts
                PROVE  Cardinality(box[h]) <= hosts[h].running + ReservedOn(h)
    BY DEF NeverOverOffers
  <2>. DEFINE named == SessionsIn(hosts[h].instances)
              W     == {w \in DOMAIN pending : pending[w].host = h /\ ~pending[w].reported}
              owed  == {pending[w].session : w \in W}
              runs  == SessionsIn(box[h])
  <2>1. /\ h \in Hosts /\ IsFiniteSet(box[h]) /\ IsFiniteSet(DOMAIN pending) /\ hosts[h].running \in Nat
    BY DEF FleetInv, FleetTypes, TypeOK, RegistryInv, RegistryTypeOK, Host
  <2>2. IsFiniteSet(named) /\ Cardinality(named) <= hosts[h].running
    BY DEF PromptInv, Covered
  <2>3. IsFiniteSet(W)
    BY <2>1, FS_Subset
  <2>4. IsFiniteSet(owed) /\ Cardinality(owed) <= Cardinality(W)
    <3>. DEFINE f == [w \in W |-> pending[w].session]
    <3>1. f \in Surjection(W, owed)
      BY DEF Surjection
    <3>. HIDE DEF f, W, owed
    <3>. QED BY <2>3, <3>1, FS_Surjection
  <2>5. runs \subseteq named \cup owed
    <3>. SUFFICES ASSUME NEW i \in box[h] PROVE i.session \in named \cup owed
      BY DEF SessionsIn
    <3>1. CASE Names(hosts[h].instances, i.session)
      BY <3>1 DEF Names, SessionsIn
    <3>2. CASE HeldFor(h, i) /\ ~pending[i.world].reported
      BY <3>2 DEF HeldFor
    <3>. QED BY <3>1, <3>2 DEF PromptInv, Covered
  <2>6. Cardinality(box[h]) = Cardinality(runs)
    <3>. DEFINE f == [i \in box[h] |-> i.session]
    <3>1. f \in Surjection(box[h], runs)
      BY DEF Surjection, SessionsIn
    <3>2. \A i, k \in box[h] : i.session = k.session => i = k
      BY <2>1 DEF PromptInv, Boxed
    <3>3. f \in Injection(box[h], runs)
      <4>1. f \in [box[h] -> runs]
        BY DEF SessionsIn
      <4>2. \A i, k \in box[h] : f[i] = f[k] => i = k
        BY <3>2
      <4>. HIDE DEF f, runs
      <4>. QED BY <4>1, <4>2 DEF Injection, IsInjective
    <3>. HIDE DEF f, runs
    <3>. QED BY <2>1, <3>1, <3>3, FS_Surjection
  <2>7. ReservedOn(h) = Cardinality(W)
    BY DEF ReservedOn
  <2>. HIDE DEF named, W, owed, runs
  <2>8. IsFiniteSet(named \cup owed) /\ Cardinality(named \cup owed) <= Cardinality(named) + Cardinality(owed)
    <3>1. /\ IsFiniteSet(named \cup owed)
          /\ Cardinality(named \cup owed)
               = Cardinality(named) + Cardinality(owed) - Cardinality(named \cap owed)
      BY <2>2, <2>4, FS_Union
    <3>2. IsFiniteSet(named \cap owed)
      BY <2>2, FS_Intersection
    <3>3. {Cardinality(named), Cardinality(owed), Cardinality(named \cap owed)} \subseteq Nat
      BY <2>2, <2>4, <3>2, FS_CardinalityType
    <3>. QED BY <3>1, <3>3
  <2>9. Cardinality(runs) <= Cardinality(named \cup owed)
    BY <2>5, <2>8, FS_Subset
  <2>10. {Cardinality(named), Cardinality(owed), Cardinality(W), Cardinality(runs),
          Cardinality(named \cup owed)} \subseteq Nat
    <3>1. IsFiniteSet(runs)
      BY <2>5, <2>8, FS_Subset
    <3>. QED BY <2>2, <2>3, <2>4, <2>8, <3>1, FS_CardinalityType
  <2>. QED BY <2>1, <2>2, <2>4, <2>6, <2>7, <2>8, <2>9, <2>10
<1>. QED BY <1>1, FleetInvariant, PromptInvariant, PTL

\* In a fleet in good order no second world is started beside one that can be joined (Registry.Place,
\* Registry.held), for any number of boxes, worlds and joiners.
THEOREM OneWorldServes == ASSUME Prompt PROVE Spec => NoSecondWorld
<1>. DEFINE Second ==
       worker.at = "place" /\ worker'.at = "start" =>
         \A j \in worker.job : \A h \in DOMAIN hosts :
           Placeable(hosts[h]) /\ InRegion(h, req[j].region) =>
             \A i \in Runs(h, req[j].world) : Ailing(hosts[h].instances, i.session)
<1>1. FleetInv /\ PromptInv /\ [Next]_vars => [Second]_vars
  <2>. SUFFICES ASSUME FleetInv, PromptInv, Next, worker.at = "place", worker'.at = "start",
                       NEW x \in worker.job, NEW h \in DOMAIN hosts, InRegion(h, req[x].region),
                       Placeable(hosts[h]),
                       NEW i \in Runs(h, req[x].world), ~Ailing(hosts[h].instances, i.session)
                PROVE  FALSE
    OBVIOUS
  <2>1. worker \in WorkerRecord
    BY DEF FleetInv, FleetTypes, TypeOK, WorkerRecord
  <2>2. PICK j \in Joiners : Place(j)
    <3>1. ~\E j \in Joiners : \/ Join(j) \/ GiveUp(j) \/ TakeAndRank(j) \/ PlaceNowhere(j)
                              \/ StartAnswered(j) \/ StartFailed(j) \/ Settled(j)
      BY <2>1 DEF Join, GiveUp, TakeAndRank, PlaceNowhere, StartAnswered, StartFailed, Settled,
                  WorkerRecord, Idle
    <3>2. ~Restart
      BY DEF Restart, Idle
    <3>3. ~\E k \in Hosts, j \in Joiners : StartLands(k, j)
      BY <2>1 DEF StartLands, WorkerRecord
    <3>4. ~\E k \in Hosts : \E y \in box[k] : Probe(k, y) \/ Stop(k, y) \/ Exit(k, y)
      BY DEF Probe, Stop, Exit
    <3>5. ~\E k \in Hosts : \/ BeatArrives(k) \/ BeatSent(k) \/ AgentStops(k) \/ AgentStarts(k)
                            \/ Redeploy(k) \/ RedeployFailed(k)
      BY DEF BeatArrives, BeatSent, AgentStops, AgentStarts, Redeploy, RedeployFailed
    <3>6. ~\E b \in flight : BeatDelivered(b)
      BY DEF BeatDelivered
    <3>7. ~Passes /\ (~\E g \in Games : Deploy(g)) /\ ~\E row \in deploy.rows : Recorded(row)
      BY DEF Passes, Deploy, Recorded
    <3>. QED BY <3>1, <3>2, <3>3, <3>4, <3>5, <3>6, <3>7 DEF Next, Serve
  <2>3. x = j
    BY <2>2 DEF Place
  <2>. DEFINE w == req[j].world
              region == req[j].region
  <2>4. PICK p \in Answers(w, region, ranked, j) :
          worker' = [worker EXCEPT !.at = IF p.starts THEN "start" ELSE "settle", !.answer = {p}]
    BY <2>2 DEF Place
  <2>5. p.starts
    BY <2>1, <2>4 DEF WorkerRecord
  <2>6. Serving(w, region) = {} /\ Held(w, region) = {}
    <3>1. \A y \in Serving(w, region) \cup Held(w, region) : ~y.starts
      BY DEF Serving, Held
    <3>. QED BY <2>4, <2>5, <3>1 DEF Answers
  <2>7. /\ i \in box[h] /\ i.world = w /\ InRegion(h, region)
    BY <2>3 DEF Runs
  \* A row that names a healthy one would have answered, on the lowest id that has one.
  <2>8. ~Healthy(hosts[h].instances, i)
    <3>. DEFINE healthy(id) == {k \in hosts[id].instances : k.world = w /\ k.state = "healthy"}
                on == {id \in DOMAIN hosts : Placeable(hosts[id]) /\ InRegion(id, region) /\ healthy(id) # {}}
                R == OpToRel(<, Nat)
    <3>. SUFFICES ASSUME Healthy(hosts[h].instances, i) PROVE FALSE
      OBVIOUS
    <3>1. h \in on
      BY <2>7 DEF Healthy
    <3>2. on \subseteq Nat
      BY HostsAssumption DEF FleetInv, FleetTypes, TypeOK, RegistryTypeOK
    <3>3. IsWellFoundedOn(R, Nat)
      BY NatLessThanWellFounded, Zenon
    <3>4. \A x1, y1 \in Nat : x1 < y1 => <<x1, y1>> \in R
      BY DEF OpToRel
    <3>. HIDE DEF R, on
    <3>5. PICK least \in on : \A y \in on : ~(<<y, least>> \in R)
      <4>1. on # {}
        BY <3>1
      <4>. QED BY <3>2, <3>3, <4>1, WFMin, Zenon
    <3>6. ASSUME NEW y \in on PROVE least <= y
      <4>1. least \in Nat /\ y \in Nat
        BY <3>2
      <4>2. ~(y < least)
        BY <3>4, <3>5, <4>1
      <4>. QED BY <4>1, <4>2
    <3>7. PICK k \in healthy(least) : TRUE
      BY DEF on
    <3>8. [host |-> least, session |-> k.session, port |-> BoundPort, starts |-> FALSE]
            \in Serving(w, region)
      <4>1. least \in {y \in on : \A other \in on : y <= other}
        BY <3>6
      <4>2. Serving(w, region)
              = UNION {{[host |-> id, session |-> y.session, port |-> BoundPort, starts |-> FALSE] :
                          y \in healthy(id)} : id \in {y \in on : \A other \in on : y <= other}}
        BY Zenon DEF Serving, on
      <4>. DEFINE of(id) == {[host |-> id, session |-> y.session, port |-> BoundPort, starts |-> FALSE] :
                               y \in healthy(id)}
                  lowest == {y \in on : \A other \in on : y <= other}
      <4>3. [host |-> least, session |-> k.session, port |-> BoundPort, starts |-> FALSE] \in of(least)
        BY <3>7
      <4>4. Serving(w, region) = UNION {of(id) : id \in lowest}
        BY <4>2, Zenon
      <4>5. least \in lowest
        BY <4>1, Zenon
      <4>. HIDE DEF of, lowest, healthy
      <4>. QED BY <4>3, <4>4, <4>5
    <3>. QED BY <2>6, <3>8
  <2>9. ~HeldFor(h, i)
    BY <2>6, <2>7 DEF HeldFor, Held
  <2>. QED BY <2>7, <2>8, <2>9 DEF PromptInv, Told
<1>. QED BY <1>1, FleetInvariant, PromptInvariant, PTL DEF Spec, NoSecondWorld

-----------------------------------------------------------------------------
(* The history. *)

\* The reporter's record.
Reporter ==
  [at: {"idle", "swept", "drained", "posting"}, batch: SUBSET Nat, events: Seq(FleetEvent),
   views: UNION {[S -> HostLiveness] : S \in SUBSET Hosts}]

HistoryTypes ==
  /\ RegistryInv /\ IsFiniteSet(DOMAIN hosts)
  /\ life \in [Hosts -> Incarnations]
  /\ log \in Seq(FleetEvent)
  /\ reporter \in Reporter
  /\ landed \in BOOLEAN
  /\ DOMAIN rows \subseteq Hosts /\ rows \in [DOMAIN rows -> HostLiveness]
  /\ told \subseteq DOMAIN log

\* What is pending is the end of the log.
PendingIsTheEnd ==
  /\ Len(events) <= MaxPendingEvents /\ Len(events) <= Len(log)
  /\ \A i \in 1 .. Len(events) : events[i] = log[Len(log) - Len(events) + i]

\* What is taken is a stretch of the log that ends at place k, right before what is pending.
TakenUpTo(k) ==
  /\ Len(reporter.events) <= k /\ k <= Len(log) - Len(events)
  /\ k = Len(log) - Len(events) \/ Len(events) = MaxPendingEvents
  /\ reporter.batch = k - Len(reporter.events) + 1 .. k
  /\ \A i \in 1 .. Len(reporter.events) : reporter.events[i] = log[k - Len(reporter.events) + i]

Taken ==
  IF reporter.at \in {"drained", "posting"} THEN \E k \in Nat : TakenUpTo(k)
  ELSE reporter.batch = {} /\ reporter.events = << >>

\* A report lands while it is posted, and what has landed is in the API's table.
LandedIsTold == landed => reporter.at = "posting" /\ reporter.batch \subseteq told

Accounted ==
  \A n \in 1 .. Len(log) :
    n > Len(log) - MaxPendingEvents => n \in told \cup reporter.batch \cup Pending

\* The inductive invariant.
HistoryInv == HistoryTypes /\ PendingIsTheEnd /\ Taken /\ LandedIsTold /\ Accounted

-----------------------------------------------------------------------------

\* Whatever is noted joins the log and the list alike: the list stays the log's end, what was taken
\* still ends where the list begins unless the list is full, and only a full list lets anything go.
LEMMA NoteKeeps ==
  ASSUME HistoryTypes, PendingIsTheEnd, Taken, Accounted,
         NEW new \in Seq(FleetEvent), Note(new), log' = log \o new,
         told' = told, reporter'.batch = reporter.batch, reporter'.events = reporter.events,
         reporter'.at \in {"drained", "posting"} <=> reporter.at \in {"drained", "posting"}
  PROVE  PendingIsTheEnd' /\ Taken' /\ Accounted' /\ log' \in Seq(FleetEvent) /\ told' \subseteq DOMAIN log'
<1>1. log \in Seq(FleetEvent) /\ events \in Seq(FleetEvent) /\ reporter.events \in Seq(FleetEvent)
  BY DEF HistoryTypes, RegistryInv, RegistryTypeOK, Reporter
<1>. DEFINE all == events \o new
<1>2. /\ all \in Seq(FleetEvent) /\ Len(all) = Len(events) + Len(new)
      /\ \A i \in 1 .. Len(events) : all[i] = events[i]
      /\ \A i \in 1 .. Len(new) : all[Len(events) + i] = new[i]
  BY <1>1
<1>3. /\ log' \in Seq(FleetEvent) /\ Len(log') = Len(log) + Len(new) /\ DOMAIN log' = 1 .. Len(log')
      /\ DOMAIN log = 1 .. Len(log)
      /\ \A i \in 1 .. Len(log) : log'[i] = log[i]
      /\ \A i \in 1 .. Len(new) : log'[Len(log) + i] = new[i]
  BY <1>1
<1>4. Len(log) \in Nat /\ Len(events) \in Nat /\ Len(new) \in Nat /\ Len(reporter.events) \in Nat
  BY <1>1
<1>5. /\ events' \in Seq(FleetEvent)
      /\ Len(events') = IF Len(all) <= MaxPendingEvents THEN Len(all) ELSE MaxPendingEvents
      /\ \A i \in 1 .. Len(events') : events'[i] = all[Len(all) - Len(events') + i]
  <2>1. events' = Newest(all, MaxPendingEvents)
    BY DEF Note
  <2>. HIDE DEF all
  <2>. QED BY <1>2, <2>1, NewestOf, EventsAssumption
<1>. HIDE DEF all
<1>6. \A i \in 1 .. Len(all) : all[i] = log'[Len(log') - Len(all) + i]
  <2>. TAKE i \in 1 .. Len(all)
  <2>1. CASE i <= Len(events)
    <3>1. all[i] = log[Len(log) - Len(events) + i]
      BY <1>2, <1>4, <2>1 DEF PendingIsTheEnd
    <3>2. Len(log) - Len(events) + i \in 1 .. Len(log) /\ Len(log') - Len(all) + i = Len(log) - Len(events) + i
      BY <1>2, <1>3, <1>4, <2>1 DEF PendingIsTheEnd
    <3>. QED BY <1>3, <3>1, <3>2
  <2>2. CASE i > Len(events)
    <3>1. i - Len(events) \in 1 .. Len(new) /\ Len(events) + (i - Len(events)) = i
      BY <1>2, <1>4, <2>2
    <3>2. Len(log') - Len(all) + i = Len(log) + (i - Len(events))
      BY <1>2, <1>3, <1>4, <2>2
    <3>3. all[Len(events) + (i - Len(events))] = log'[Len(log) + (i - Len(events))]
      BY <1>2, <1>3, <3>1
    <3>. QED BY <3>1, <3>2, <3>3
  <2>3. i \in Nat
    BY <1>2, <1>4
  <2>4. i <= Len(events) \/ i > Len(events)
    BY <1>4, <2>3
  <2>. QED BY <2>1, <2>2, <2>4, Zenon
<1>a. /\ Len(log') = Len(log) + Len(new)
      /\ Len(events') = IF Len(events) + Len(new) <= MaxPendingEvents THEN Len(events) + Len(new)
                        ELSE MaxPendingEvents
  BY <1>2, <1>3, <1>5
<1>7. PendingIsTheEnd'
  <2>1. Len(events') <= MaxPendingEvents /\ Len(events') <= Len(all) /\ Len(all) <= Len(log') /\ Len(events') \in Nat
    BY <1>2, <1>3, <1>4, <1>5, EventsAssumption DEF PendingIsTheEnd
  <2>2. ASSUME NEW i \in 1 .. Len(events') PROVE events'[i] = log'[Len(log') - Len(events') + i]
    <3>1. /\ Len(all) - Len(events') + i \in 1 .. Len(all)
          /\ Len(log') - Len(all) + (Len(all) - Len(events') + i) = Len(log') - Len(events') + i
      BY <1>2, <1>3, <1>4, <2>1
    <3>2. all[Len(all) - Len(events') + i] = log'[Len(log') - Len(all) + (Len(all) - Len(events') + i)]
      BY <1>6, <3>1
    <3>. QED BY <1>5, <3>1, <3>2
  <2>. QED BY <1>2, <1>3, <1>4, <2>1, <2>2 DEF PendingIsTheEnd
<1>8. Taken'
  <2>1. CASE reporter.at \notin {"drained", "posting"}
    BY <2>1 DEF Taken
  <2>2. CASE reporter.at \in {"drained", "posting"}
    <3>1. PICK k \in Nat : TakenUpTo(k)
      BY <2>2 DEF Taken
    <3>2. /\ k <= Len(log') - Len(events')
          /\ k = Len(log') - Len(events') \/ Len(events') = MaxPendingEvents
      <4>1. /\ k <= Len(log) - Len(events) /\ Len(events) <= MaxPendingEvents
            /\ k = Len(log) - Len(events) \/ Len(events) = MaxPendingEvents
        BY <3>1 DEF TakenUpTo, PendingIsTheEnd
      <4>2. CASE Len(events) + Len(new) <= MaxPendingEvents
        <5>1. Len(events') = Len(events) + Len(new) /\ Len(log') - Len(events') = Len(log) - Len(events)
          BY <1>4, <1>a, <4>2
        <5>2. Len(events) = MaxPendingEvents => Len(events') = MaxPendingEvents
          BY <1>4, <4>2, <5>1, EventsAssumption
        <5>. QED BY <4>1, <5>1, <5>2
      <4>3. CASE ~(Len(events) + Len(new) <= MaxPendingEvents)
        <5>1. Len(events') = MaxPendingEvents
          BY <1>a, <4>3
        <5>2. Len(log) - Len(events) <= Len(log') - MaxPendingEvents
          BY <1>4, <1>a, <4>3, EventsAssumption
        <5>. QED BY <1>4, <1>a, <4>1, <5>1, <5>2, EventsAssumption
      <4>. QED BY <4>2, <4>3
    <3>3. ASSUME NEW i \in 1 .. Len(reporter.events)
          PROVE  reporter.events[i] = log'[k - Len(reporter.events) + i]
      <4>1. k - Len(reporter.events) + i \in 1 .. Len(log)
        BY <1>4, <3>1 DEF TakenUpTo
      <4>. QED BY <1>3, <3>1, <4>1 DEF TakenUpTo
    <3>4. TakenUpTo(k)'
      BY <3>1, <3>2, <3>3 DEF TakenUpTo
    <3>. QED BY <2>2, <3>4 DEF Taken
  <2>. QED BY <2>1, <2>2
<1>9. Accounted'
  <2>. SUFFICES ASSUME NEW n \in 1 .. Len(log'), n > Len(log') - MaxPendingEvents
                PROVE  n \in told \cup reporter.batch \/ n \in Pending'
    BY DEF Accounted
  <2>1. CASE n <= Len(log)
    <3>1. n \in told \cup reporter.batch \/ n \in Pending
      BY <1>3, <1>4, <2>1, EventsAssumption DEF Accounted
    <3>. QED BY <1>2, <1>3, <1>4, <1>5, <3>1, EventsAssumption DEF Pending
  <2>2. CASE n > Len(log)
    BY <1>2, <1>3, <1>4, <1>5, <2>2, EventsAssumption DEF Pending, PendingIsTheEnd
  <2>. QED BY <1>3, <1>4, <2>1, <2>2
<1>10. told' \subseteq DOMAIN log'
  BY <1>3, <1>4 DEF HistoryTypes
<1>. QED BY <1>3, <1>7, <1>8, <1>9, <1>10

-----------------------------------------------------------------------------

\* Whatever is noted, taken, posted, lost or put back, in any order, the three places a transition can
\* be in stay an account of the end of the log (Registry.note, Drain and Restore, Reporter.Send).
THEOREM HistoryInvariant == HistorySpec => []HistoryInv
<1>a. FirstLife \in Incarnations
  <2>. DEFINE R == OpToRel(<, Nat)
  <2>1. IsWellFoundedOn(R, Nat)
    BY NatLessThanWellFounded, Zenon
  <2>2. \A x, y \in Nat : x < y => <<x, y>> \in R
    BY DEF OpToRel
  <2>. HIDE DEF R
  <2>3. Incarnations \subseteq Nat
    BY IncarnationsAssumption
  <2>4. Incarnations # {}
    BY IncarnationsAssumption
  <2>5. PICK n \in Incarnations : \A m \in Incarnations : ~ (<<m, n>> \in R)
    BY <2>1, <2>3, <2>4, WFMin, Zenon
  <2>6. ASSUME NEW m \in Incarnations PROVE n <= m
    <3>1. m \in Nat /\ n \in Nat
      BY <2>3
    <3>2. ~(m < n)
      BY <2>2, <2>5, <3>1
    <3>. QED BY <3>1, <3>2
  <2>. QED BY <2>6 DEF FirstLife
<1>b. /\ ReporterIdle \in Reporter /\ ReporterIdle.at = "idle" /\ ReporterIdle.batch = {}
      /\ ReporterIdle.events = << >>
  <2>1. << >> \in [{} -> HostLiveness] /\ {} \in SUBSET Hosts
    <3>1. << >> = [i \in {} |-> "healthy"]
      OBVIOUS
    <3>. QED BY <3>1
  <2>2. << >> \in UNION {[S -> HostLiveness] : S \in SUBSET Hosts}
    BY <2>1
  <2>. QED BY <2>2 DEF ReporterIdle, Reporter
<1>1. HistoryInit => HistoryInv
  <2>. SUFFICES ASSUME HistoryInit PROVE HistoryInv
    OBVIOUS
  <2>1. Len(log) = 0 /\ Len(events) = 0 /\ DOMAIN log = {} /\ DOMAIN hosts = {} /\ DOMAIN pending = {} /\ DOMAIN rows = {}
    BY DEF HistoryInit, RegistryInit
  <2>2. RegistryInv /\ IsFiniteSet(DOMAIN hosts)
    BY <2>1, FS_EmptySet DEF HistoryInit, RegistryInit, RegistryInv, RegistryTypeOK
  <2>3. HistoryTypes
    <3>1. life \in [Hosts -> Incarnations] /\ log \in Seq(FleetEvent)
      BY <1>a DEF HistoryInit
    <3>2. rows \in [DOMAIN rows -> HostLiveness]
      BY <2>1 DEF HistoryInit
    <3>. QED BY <1>b, <2>1, <2>2, <3>1, <3>2 DEF HistoryInit, HistoryTypes
  <2>. QED BY <1>b, <2>1, <2>3, EventsAssumption
           DEF HistoryInit, HistoryInv, PendingIsTheEnd, Taken, LandedIsTold, Accounted
<1>2. HistoryInv /\ [HistoryNext]_historyVars => HistoryInv'
  <2>. SUFFICES ASSUME HistoryInv, [HistoryNext]_historyVars PROVE HistoryInv'
    OBVIOUS
  <2>a. HistoryTypes /\ PendingIsTheEnd /\ Taken /\ LandedIsTold /\ Accounted
    BY DEF HistoryInv
  <2>b. /\ log \in Seq(FleetEvent) /\ events \in Seq(FleetEvent) /\ reporter \in Reporter
        /\ reporter.events \in Seq(FleetEvent)
    BY <2>a DEF HistoryTypes, RegistryInv, RegistryTypeOK, Reporter
  <2>c. Len(log) \in Nat /\ Len(events) \in Nat /\ Len(reporter.events) \in Nat /\ DOMAIN log = 1 .. Len(log)
    BY <2>b
  \* A beat, whoever sent it and whichever life it names.
  <2>1. ASSUME NEW h \in Hosts, NEW leaving \in BOOLEAN, Hears(BeatOf(h, leaving)),
               life' \in [Hosts -> Incarnations], UNCHANGED <<reporter, landed, rows, told>>
        PROVE  HistoryInv'
    <3>. DEFINE b == BeatOf(h, leaving)
    <3>1. b \in HostHeartbeat /\ b.host = h
      BY <2>a DEF HistoryTypes, BeatOf, HostHeartbeat
    <3>. HIDE DEF b
    <3>2. Beat(b) /\ log' = log \o BeatEvents(b)
      BY <2>1 DEF Hears, b
    <3>3. /\ RegistryInv' /\ BeatEvents(b) \in Seq(FleetEvent)
          /\ \A g \in DOMAIN hosts' : IF g = b.host THEN hosts'[g].instances = b.instances
                                      ELSE g \in DOMAIN hosts /\ hosts'[g] = hosts[g]
      BY <2>a, <3>1, <3>2, BeatEffect DEF HistoryTypes
    <3>4. IsFiniteSet(DOMAIN hosts')
      <4>1. DOMAIN hosts' \subseteq DOMAIN hosts \cup {h}
        BY <3>1, <3>3
      <4>2. IsFiniteSet(DOMAIN hosts \cup {h})
        BY <2>a, FS_AddElement DEF HistoryTypes
      <4>. QED BY <4>1, <4>2, FS_Subset
    <3>5. Note(BeatEvents(b))
      BY <3>2 DEF Beat
    <3>6. PendingIsTheEnd' /\ Taken' /\ Accounted' /\ log' \in Seq(FleetEvent) /\ told' \subseteq DOMAIN log'
      BY <2>1, <2>a, <3>2, <3>3, <3>5, NoteKeeps
    <3>7. HistoryTypes'
      BY <2>1, <2>a, <3>3, <3>4, <3>6 DEF HistoryTypes
    <3>. QED BY <2>1, <2>a, <3>6, <3>7 DEF HistoryInv, LandedIsTold
  <2>2. ASSUME NEW h \in Hosts, BeatHeard(h) PROVE HistoryInv'
    BY <2>1, <2>2, <2>a DEF BeatHeard, HistoryTypes
  <2>3. ASSUME NEW h \in Hosts, Restarts(h) PROVE HistoryInv'
    <3>1. life' \in [Hosts -> Incarnations] /\ UNCHANGED <<reporter, landed, rows, told>>
      BY <2>3, <2>a DEF Restarts, HistoryTypes
    <3>2. CASE Hears(BeatOf(h, TRUE))
      BY <2>1, <3>1, <3>2
    <3>3. CASE UNCHANGED <<registryVars, log>>
      BY <2>a, <3>1, <3>3
      DEF registryVars, HistoryInv, HistoryTypes, RegistryInv, RegistryTypeOK, PendingIsTheEnd, Taken, TakenUpTo,
          LandedIsTold, Accounted, Pending
    <3>. QED BY <2>3, <3>2, <3>3 DEF Restarts
  <2>4. ASSUME NEW h \in Hosts, Suspected(h) PROVE HistoryInv'
    <3>1. Suspect(h) /\ log' = log \o SuspectEvents(h) /\ UNCHANGED <<life, reporter, landed, rows, told>>
      BY <2>4 DEF Suspected
    <3>2. RegistryInv' /\ DOMAIN hosts' = DOMAIN hosts /\ SuspectEvents(h) \in Seq(FleetEvent)
      BY <2>a, <3>1, SuspectEffect DEF HistoryTypes
    <3>3. Note(SuspectEvents(h))
      BY <3>1 DEF Suspect
    <3>4. PendingIsTheEnd' /\ Taken' /\ Accounted' /\ log' \in Seq(FleetEvent) /\ told' \subseteq DOMAIN log'
      BY <2>a, <3>1, <3>2, <3>3, NoteKeeps
    <3>5. HistoryTypes'
      BY <2>a, <3>1, <3>2, <3>4 DEF HistoryTypes
    <3>. QED BY <2>a, <3>1, <3>4, <3>5 DEF HistoryInv, LandedIsTold
  <2>5. CASE ClockPasses
    <3>1. Tick /\ events' = events /\ UNCHANGED <<life, log, reporter, landed, rows, told>>
      BY <2>5 DEF ClockPasses, Tick
    <3>2. RegistryInv' /\ DOMAIN hosts' = DOMAIN hosts
      BY <2>a, <3>1, TickEffect DEF HistoryTypes
    <3>3. HistoryTypes'
      BY <2>a, <3>1, <3>2 DEF HistoryTypes
    <3>. QED BY <2>a, <3>1, <3>3
             DEF HistoryInv, PendingIsTheEnd, Taken, TakenUpTo, LandedIsTold, Accounted, Pending
  <2>6. CASE Sweep
    <3>1. PICK order \in Orders(Quiet) :
            LET new == [i \in DOMAIN order |->
                          Event(KindFor(Liveness(hosts[order[i]])), order[i], hosts[order[i]])]
            IN  Note(new) /\ log' = log \o new
      BY <2>6 DEF Sweep
    <3>. DEFINE new == [i \in DOMAIN order |->
                          Event(KindFor(Liveness(hosts[order[i]])), order[i], hosts[order[i]])]
    <3>2. /\ reporter.at = "idle" /\ hosts' = [id \in DOMAIN hosts |-> Reported(hosts[id])]
          /\ reporter' = [ReporterIdle EXCEPT !.at = "swept"] /\ UNCHANGED <<pending, life, landed, rows, told>>
      BY <2>6 DEF Sweep
    <3>3. \A id \in DOMAIN hosts : hosts[id] \in Host /\ id \in Hosts
      BY <2>a DEF HistoryTypes, RegistryInv, RegistryTypeOK
    <3>4. new \in Seq(FleetEvent)
      <4>1. Cardinality(Quiet) \in Nat
        <5>1. Quiet \subseteq DOMAIN hosts
          BY DEF Quiet
        <5>. QED BY <2>a, <5>1, FS_Subset, FS_CardinalityType DEF HistoryTypes
      <4>2. order \in [1 .. Cardinality(Quiet) -> DOMAIN hosts]
        BY DEF Orders, Quiet
      <4>3. \A id \in DOMAIN hosts : Event(KindFor(Liveness(hosts[id])), id, hosts[id]) \in FleetEvent
        <5>1. \A id \in DOMAIN hosts : KindFor(Liveness(hosts[id])) \in EventKind
          BY DEF KindFor, Liveness, EventKind
        <5>. QED BY <3>3, <5>1 DEF Event, FleetEvent, Host
      <4>4. new \in [1 .. Cardinality(Quiet) -> FleetEvent]
        BY <4>2, <4>3
      <4>. HIDE DEF new
      <4>. QED BY <4>1, <4>4
    <3>5. Note(new) /\ log' = log \o new
      BY <3>1
    <3>. HIDE DEF new
    <3>6. /\ reporter' \in Reporter /\ reporter'.at = "swept" /\ reporter'.batch = {} /\ reporter'.events = << >>
      BY <1>b, <3>2 DEF Reporter
    <3>7. reporter.batch = {} /\ reporter.events = << >>
      BY <2>a, <3>2 DEF Taken
    <3>8. PendingIsTheEnd' /\ Taken' /\ Accounted' /\ log' \in Seq(FleetEvent) /\ told' \subseteq DOMAIN log'
      <4>1. reporter'.at \in {"drained", "posting"} <=> reporter.at \in {"drained", "posting"}
        BY <3>2, <3>6
      <4>. QED BY <2>a, <3>2, <3>4, <3>5, <3>6, <3>7, <4>1, NoteKeeps
    <3>9. RegistryInv' /\ DOMAIN hosts' = DOMAIN hosts
      <4>1. \A id \in DOMAIN hosts : Reported(hosts[id]) \in Host
        BY <3>3, ObserveTyped
      <4>2. DOMAIN hosts' = DOMAIN hosts /\ hosts' \in [DOMAIN hosts' -> Host]
        BY <3>2, <4>1
      <4>3. events' \in Seq(FleetEvent)
        <5>1. events \o new \in Seq(FleetEvent)
          BY <2>b, <3>4
        <5>. QED BY <3>5, <5>1, NewestOf, EventsAssumption DEF Note
      <4>. QED BY <2>a, <3>2, <4>2, <4>3 DEF HistoryTypes, RegistryInv, RegistryTypeOK
    <3>10. HistoryTypes'
      BY <2>a, <3>2, <3>6, <3>8, <3>9 DEF HistoryTypes
    <3>. QED BY <2>a, <3>2, <3>8, <3>10 DEF HistoryInv, LandedIsTold
  <2>7. CASE Drain
    <3>1. /\ reporter.at = "swept" /\ events' = << >>
          /\ reporter' = [reporter EXCEPT !.at = "drained", !.batch = Pending, !.events = events]
          /\ UNCHANGED <<hosts, pending, life, log, landed, rows, told>>
      BY <2>7 DEF Drain
    <3>2. Pending \in SUBSET Nat
      BY <2>a, <2>c DEF Pending, PendingIsTheEnd
    <3>3. /\ reporter' \in Reporter /\ reporter'.at = "drained" /\ reporter'.batch = Pending
          /\ reporter'.events = events
      BY <2>b, <3>1, <3>2 DEF Reporter
    <3>4. Len(events') = 0 /\ events' \in Seq(FleetEvent)
      BY <3>1
    <3>5. HistoryTypes'
      BY <2>a, <3>1, <3>3, <3>4 DEF HistoryTypes, RegistryInv, RegistryTypeOK
    <3>6. PendingIsTheEnd'
      BY <2>c, <3>1, <3>4, EventsAssumption DEF PendingIsTheEnd
    <3>7. TakenUpTo(Len(log))'
      BY <2>a, <2>c, <3>1, <3>3, <3>4 DEF TakenUpTo, PendingIsTheEnd, Pending
    <3>8. Taken'
      BY <2>c, <3>1, <3>3, <3>7 DEF Taken
    <3>9. Accounted'
      BY <2>a, <3>1, <3>3 DEF Accounted, Taken
    <3>. QED BY <2>a, <3>1, <3>5, <3>6, <3>8, <3>9 DEF HistoryInv, LandedIsTold
  <2>8. CASE Views
    <3>. DEFINE views == [id \in DOMAIN hosts |-> Liveness(hosts[id])]
    <3>1. /\ reporter.at = "drained" /\ reporter' = [reporter EXCEPT !.at = "posting", !.views = views]
          /\ UNCHANGED <<registryVars, life, log, landed, rows, told>>
      BY <2>8 DEF Views
    <3>2. views \in UNION {[S -> HostLiveness] : S \in SUBSET Hosts}
      <4>1. \A id \in DOMAIN hosts : Liveness(hosts[id]) \in HostLiveness
        BY DEF Liveness, HostLiveness
      <4>2. DOMAIN hosts \in SUBSET Hosts
        BY <2>a DEF HistoryTypes, RegistryInv, RegistryTypeOK
      <4>3. views \in [DOMAIN hosts -> HostLiveness]
        BY <4>1
      <4>. QED BY <4>2, <4>3
    <3>. HIDE DEF views
    <3>3. /\ reporter' \in Reporter /\ reporter'.at = "posting" /\ reporter'.batch = reporter.batch
          /\ reporter'.events = reporter.events
      BY <2>b, <3>1, <3>2 DEF Reporter
    <3>4. HistoryTypes'
      BY <2>a, <3>1, <3>3 DEF HistoryTypes, RegistryInv, RegistryTypeOK, registryVars
    <3>. QED BY <2>a, <3>1, <3>3, <3>4
             DEF registryVars, HistoryInv, PendingIsTheEnd, Taken, TakenUpTo, LandedIsTold, Accounted, Pending
  <2>9. CASE Lands
    <3>1. /\ reporter.at = "posting" /\ told' = told \cup reporter.batch /\ landed' = TRUE
          /\ rows' = [id \in DOMAIN rows \cup DOMAIN reporter.views |->
                        IF id \in DOMAIN reporter.views THEN reporter.views[id] ELSE rows[id]]
          /\ UNCHANGED <<registryVars, life, log, reporter>>
      BY <2>9 DEF Lands
    <3>2. PICK S \in SUBSET Hosts : reporter.views \in [S -> HostLiveness]
      BY <2>b DEF Reporter
    <3>3. DOMAIN rows' \subseteq Hosts /\ rows' \in [DOMAIN rows' -> HostLiveness]
      BY <2>a, <3>1, <3>2 DEF HistoryTypes
    <3>4. PICK k \in Nat : TakenUpTo(k)
      BY <2>a, <3>1 DEF Taken
    <3>5. reporter.batch \subseteq DOMAIN log
      <4>1. k - Len(reporter.events) + 1 >= 1 /\ k <= Len(log) /\ k - Len(reporter.events) + 1 \in Int
        <5>1. Len(reporter.events) <= k /\ k <= Len(log) - Len(events)
          BY <3>4 DEF TakenUpTo
        <5>. QED BY <2>c, <5>1
      <4>2. reporter.batch = k - Len(reporter.events) + 1 .. k
        BY <3>4 DEF TakenUpTo
      <4>3. \A n \in k - Len(reporter.events) + 1 .. k : n \in 1 .. Len(log)
        BY <2>c, <4>1
      <4>. QED BY <2>c, <4>2, <4>3
    <3>6. HistoryTypes'
      BY <2>a, <3>1, <3>3, <3>5 DEF HistoryTypes, RegistryInv, RegistryTypeOK, registryVars
    <3>. QED BY <2>a, <3>1, <3>6
             DEF registryVars, HistoryInv, PendingIsTheEnd, Taken, TakenUpTo, LandedIsTold, Accounted, Pending
  <2>10. CASE Acknowledged
    <3>1. /\ landed /\ reporter' = ReporterIdle /\ landed' = FALSE
          /\ UNCHANGED <<registryVars, life, log, rows, told>>
      BY <2>10 DEF Acknowledged
    <3>2. HistoryTypes'
      BY <1>b, <2>a, <3>1 DEF HistoryTypes, RegistryInv, RegistryTypeOK, registryVars
    <3>3. Taken' /\ LandedIsTold' /\ PendingIsTheEnd'
      BY <1>b, <2>a, <3>1 DEF Taken, LandedIsTold, PendingIsTheEnd, registryVars
    <3>4. Accounted'
      BY <1>b, <2>a, <3>1 DEF Accounted, LandedIsTold, Pending, registryVars
    <3>. QED BY <3>2, <3>3, <3>4 DEF HistoryInv
  <2>11. CASE Restore
    <3>. DEFINE all == reporter.events \o events
    <3>1. /\ reporter.at = "posting" /\ events' = Newest(all, MaxPendingEvents)
          /\ reporter' = ReporterIdle /\ landed' = FALSE
          /\ UNCHANGED <<hosts, pending, life, log, rows, told>>
      BY <2>11 DEF Restore
    <3>2. PICK k \in Nat : TakenUpTo(k)
      BY <2>a, <3>1 DEF Taken
    <3>3. /\ all \in Seq(FleetEvent) /\ Len(all) = Len(reporter.events) + Len(events)
          /\ \A i \in 1 .. Len(reporter.events) : all[i] = reporter.events[i]
          /\ \A i \in 1 .. Len(events) : all[Len(reporter.events) + i] = events[i]
      BY <2>b
    <3>. HIDE DEF all
    <3>4. /\ events' \in Seq(FleetEvent)
          /\ Len(events') = IF Len(all) <= MaxPendingEvents THEN Len(all) ELSE MaxPendingEvents
          /\ \A i \in 1 .. Len(events') : events'[i] = all[Len(all) - Len(events') + i]
      BY <3>1, <3>3, NewestOf, EventsAssumption
    <3>5. HistoryTypes'
      BY <1>b, <2>a, <3>1, <3>4 DEF HistoryTypes, RegistryInv, RegistryTypeOK
    <3>6. Taken' /\ LandedIsTold'
      BY <1>b, <3>1 DEF Taken, LandedIsTold
    <3>7. CASE Len(events) = MaxPendingEvents
      \* The list is full: what was taken is older than all of it, and none of it fits.
      <4>1. Len(events') = Len(events) /\ Len(all) - Len(events') = Len(reporter.events)
        <5>1. /\ Len(all) = Len(reporter.events) + Len(events)
              /\ Len(events') = IF Len(all) <= MaxPendingEvents THEN Len(all) ELSE MaxPendingEvents
          BY <3>3, <3>4
        <5>2. CASE Len(all) <= MaxPendingEvents
          BY <2>c, <3>7, <5>1, <5>2
        <5>3. CASE ~(Len(all) <= MaxPendingEvents)
          BY <2>c, <3>7, <5>1, <5>3
        <5>. QED BY <5>2, <5>3
      <4>2. ASSUME NEW i \in 1 .. Len(events) PROVE events'[i] = events[i]
        <5>1. events'[i] = all[Len(all) - Len(events') + i]
          BY <3>4, <4>1
        <5>2. all[Len(reporter.events) + i] = events[i]
          BY <3>3
        <5>3. Len(all) - Len(events') + i = Len(reporter.events) + i
          BY <4>1
        <5>. QED BY <5>1, <5>2, <5>3
      <4>3. PendingIsTheEnd'
        BY <2>a, <3>1, <4>1, <4>2 DEF PendingIsTheEnd
      <4>4. Pending' = Pending
        BY <3>1, <4>1 DEF Pending
      <4>5. \A n \in reporter.batch : n <= Len(log) - MaxPendingEvents
        BY <2>c, <3>2, <3>7 DEF TakenUpTo
      <4>6. Accounted'
        <5>. SUFFICES ASSUME NEW n \in 1 .. Len(log), n > Len(log) - MaxPendingEvents
                      PROVE  n \in told \cup Pending
          BY <1>b, <3>1, <4>4 DEF Accounted
        <5>1. n \notin reporter.batch
          BY <2>c, <4>5, EventsAssumption
        <5>. QED BY <2>a, <5>1 DEF Accounted
      <4>. QED BY <3>5, <3>6, <4>3, <4>6 DEF HistoryInv
    <3>8. CASE k = Len(log) - Len(events)
      \* What was taken ends where the list begins: the two together are the end of the log.
      <4>1. \A i \in 1 .. Len(all) : all[i] = log[Len(log) - Len(all) + i]
        <5>. TAKE i \in 1 .. Len(all)
        <5>1. CASE i <= Len(reporter.events)
          <6>1. i \in 1 .. Len(reporter.events) /\ Len(log) - Len(all) + i = k - Len(reporter.events) + i
            BY <2>c, <3>3, <3>8, <5>1
          <6>. QED BY <3>2, <3>3, <6>1 DEF TakenUpTo
        <5>2. CASE i > Len(reporter.events)
          <6>. DEFINE j == i - Len(reporter.events)
          <6>1. /\ j \in 1 .. Len(events) /\ Len(reporter.events) + j = i
                /\ Len(log) - Len(all) + i = Len(log) - Len(events) + j
            BY <2>c, <3>3, <5>2
          <6>. HIDE DEF j
          <6>2. all[Len(reporter.events) + j] = log[Len(log) - Len(events) + j]
            BY <2>a, <3>3, <6>1 DEF PendingIsTheEnd
          <6>. QED BY <6>1, <6>2
        <5>3. i \in Nat
          BY <2>c, <3>3
        <5>4. i <= Len(reporter.events) \/ i > Len(reporter.events)
          BY <2>c, <5>3
        <5>. QED BY <5>1, <5>2, <5>4, Zenon
      <4>2. /\ Len(all) <= Len(log) /\ Len(all) \in Nat /\ Len(events') \in Nat
            /\ Len(events') <= Len(all) /\ Len(events') <= MaxPendingEvents
        BY <2>c, <3>2, <3>3, <3>4, <3>8, EventsAssumption DEF TakenUpTo
      <4>3. PendingIsTheEnd'
        <5>1. ASSUME NEW i \in 1 .. Len(events') PROVE events'[i] = log[Len(log) - Len(events') + i]
          <6>1. /\ Len(all) - Len(events') + i \in 1 .. Len(all)
                /\ Len(log) - Len(all) + (Len(all) - Len(events') + i) = Len(log) - Len(events') + i
            BY <2>c, <4>2
          <6>2. all[Len(all) - Len(events') + i] = log[Len(log) - Len(all) + (Len(all) - Len(events') + i)]
            BY <4>1, <6>1
          <6>. QED BY <3>4, <6>1, <6>2
        <5>. QED BY <2>c, <3>1, <4>2, <5>1 DEF PendingIsTheEnd
      <4>4. Accounted'
        <5>. SUFFICES ASSUME NEW n \in 1 .. Len(log), n > Len(log) - MaxPendingEvents
                      PROVE  n \in told \/ n \in Pending'
          BY <1>b, <3>1 DEF Accounted
        <5>1. n \in told \/ n \in reporter.batch \/ n \in Pending
          BY <2>a DEF Accounted
        <5>2. n \in reporter.batch \/ n \in Pending => n > Len(log) - Len(all)
          BY <2>c, <3>2, <3>3, <3>8 DEF TakenUpTo, Pending
        <5>3. n > Len(log) - Len(all) => n > Len(log) - Len(events')
          BY <2>c, <3>4, <4>2, EventsAssumption
        <5>4. n > Len(log) - Len(events') => n \in Pending'
          BY <2>c, <3>1, <4>2 DEF Pending
        <5>. QED BY <5>1, <5>2, <5>3, <5>4
      <4>. QED BY <3>5, <3>6, <4>3, <4>4 DEF HistoryInv
    <3>. QED BY <3>2, <3>7, <3>8 DEF TakenUpTo
  <2>12. CASE UNCHANGED historyVars
    BY <2>a, <2>12
    DEF historyVars, registryVars, HistoryInv, HistoryTypes, RegistryInv, RegistryTypeOK, PendingIsTheEnd, Taken,
        TakenUpTo, LandedIsTold, Accounted, Pending
  <2>. QED BY <2>2, <2>3, <2>4, <2>5, <2>6, <2>7, <2>8, <2>9, <2>10, <2>11, <2>12 DEF HistoryNext
<1>. QED BY <1>1, <1>2, PTL DEF HistorySpec

\* No transition is missing from the history but under MaxPendingEvents newer ones, however the posts
\* that carry it fail (Registry.Restore, Reporter.Send).
THEOREM HistoryHasNoHole == HistorySpec => []NoHole
<1>1. HistoryInv => NoHole
  <2>. SUFFICES ASSUME HistoryInv PROVE NoHole
    OBVIOUS
  <2>. DEFINE m == Len(log) - Len(events) + 1
  <2>1. /\ log \in Seq(FleetEvent) /\ events \in Seq(FleetEvent) /\ Len(log) \in Nat /\ Len(events) \in Nat
        /\ DOMAIN log = 1 .. Len(log) /\ DOMAIN events = 1 .. Len(events)
    BY DEF HistoryInv, HistoryTypes, RegistryInv, RegistryTypeOK
  <2>2. m \in Int /\ m >= 1 /\ m <= Len(log) + 1 /\ Len(log) - m + 1 = Len(events)
    BY <2>1 DEF HistoryInv, PendingIsTheEnd
  <2>3. \A i \in m .. Len(log) : log[i] \in FleetEvent
    BY <2>1, <2>2
  <2>4. /\ SubSeq(log, m, Len(log)) \in Seq(FleetEvent) /\ Len(SubSeq(log, m, Len(log))) = Len(events)
        /\ \A i \in 1 .. Len(events) : SubSeq(log, m, Len(log))[i] = log[m + i - 1]
    BY <2>1, <2>2, <2>3, SubSeqProperties
  <2>5. \A i \in 1 .. Len(events) : m + i - 1 = Len(log) - Len(events) + i
    BY <2>1
  <2>6. events = SubSeq(log, m, Len(log))
    <3>. HIDE DEF m
    <3>1. \A i \in 1 .. Len(events) : events[i] = SubSeq(log, m, Len(log))[i]
      BY <2>4, <2>5 DEF HistoryInv, PendingIsTheEnd
    <3>. QED BY <2>1, <2>4, <3>1, SeqEqual
  <2>7. Pending \subseteq DOMAIN log
    BY <2>1, <2>2 DEF Pending
  <2>. QED BY <2>1, <2>6, <2>7 DEF NoHole, HistoryInv, Accounted
<1>. QED BY <1>1, HistoryInvariant, PTL
=============================================================================
