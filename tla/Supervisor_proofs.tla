-------------------------- MODULE Supervisor_proofs --------------------------
(***************************************************************************)
(* Proofs about Supervisor, for any cap, any set of processes and ports,   *)
(* any number of restarts, and with records lost and pids unread.          *)
(*                                                                         *)
(* The map, the records and the issued ports are three accounts of the     *)
(* same processes, changed by different goroutines. BoxInv says how far    *)
(* they may disagree at any moment; the properties follow from it.         *)
(***************************************************************************)
EXTENDS Supervisor, FiniteSetTheorems, TLAPS

\* A process has an id and a port exactly when it was spawned, and no other has its id; the agent has
\* an object only for a spawned one and takes it for done only once it is gone.
Wired ==
  /\ \A p \in Pids :
       /\ at[p] = "unborn" => who[p] = None /\ inst[p].reap = "none"
       /\ at[p] # "unborn" => who[p] \in Ids /\ port[p] \in Ports
       /\ Done(p) => at[p] = "gone"
  /\ \A p, q \in Pids : who[p] = who[q] /\ who[p] # None => p = q

\* A record, on disk or in a redeploy's hands, is true of the process it names.
RecordsTrue == \A f \in files \cup writing : f.id = who[f.pid] /\ f.port = port[f.pid]

\* What a redeploy has read is of one process and, if that is alive, still what is on disk.
ReadIsCurrent ==
  /\ \A f \in writing : Live(f.pid) => f \in files
  /\ \A e, f \in writing : e.pid = f.pid

\* The processes whose port is not to be handed out: those whose reaper has not released it, and those
\* alive with a record to adopt them from.
Holding(p) == inst[p].reap \in {"wait", "release"} \/ (Live(p) /\ \E f \in files : f.pid = p)

PortsHeld == agent => \A p \in Pids : Holding(p) => port[p] \in issued

PortsApart == \A p, q \in Pids : Holding(p) /\ Holding(q) /\ p # q => port[p] # port[q]

\* The inductive invariant.
BoxInv ==
  /\ TypeOK /\ Wired /\ RecordsTrue /\ ReadIsCurrent /\ PortsHeld /\ PortsApart
  /\ LiveIsNamed /\ LiveIsRecorded /\ CapHolds /\ DrainRemembered

-----------------------------------------------------------------------------

\* Every step keeps the types.
LEMMA TypeStep ==
  ASSUME TypeOK, Next
  PROVE  TypeOK'
<1>. USE DEF procVars, agentVars, calls, history
<1>1. NoInstance \in Instance /\ NewInstance \in Instance
  BY DEF NoInstance, NewInstance, Instance
<1>a. inst \in [Pids -> Instance]
  BY DEF TypeOK
<1>2. ASSUME NEW id \in Ids, Start(id) PROVE TypeOK'
  <2>1. PICK p \in Pids, n \in Ports \ issued :
          /\ at' = [at EXCEPT ![p] = "runs"] /\ who' = [who EXCEPT ![p] = id]
          /\ port' = [port EXCEPT ![p] = n] /\ issued' = issued \cup {n}
          /\ inst' = [inst EXCEPT ![p] = NewInstance]
          /\ entries' = {q \in entries : who[q] # id} \cup {p}
          /\ Write([id |-> id, pid |-> p, port |-> n, draining |-> FALSE])
    BY <1>2 DEF Start
  <2>2. files' \in SUBSET Record /\ unwritten' \in SUBSET Pids
    <3>1. [id |-> id, pid |-> p, port |-> n, draining |-> FALSE] \in Record
      BY DEF Record
    <3>. QED BY <2>1, <3>1 DEF Write, Without, TypeOK
  <2>3. inst' \in [Pids -> Instance]
    BY <1>1, <1>a, <2>1
  <2>4. UNCHANGED <<bound, crowd, unread, agent, crashes, stopping, held, writing>>
    BY <1>2 DEF Start
  <2>. QED BY <2>1, <2>2, <2>3, <2>4 DEF TypeOK
<1>3. ASSUME NEW g \in Games, Redeploy(g) PROVE TypeOK'
  BY <1>3 DEF Redeploy, Running, TypeOK
<1>4. ASSUME NEW f \in writing, RedeployWrites(f) PROVE TypeOK'
  BY <1>4 DEF RedeployWrites, Write, Without, Record, TypeOK
<1>5. ASSUME NEW p \in Pids, Binds(p) \/ PlayersCome(p) \/ PlayersGo(p) \/ ProcessEnds(p) PROVE TypeOK'
  BY <1>5 DEF Binds, PlayersCome, PlayersGo, ProcessEnds, TypeOK
<1>6. ASSUME NEW p \in Pids, ReapExit(p) \/ ReapRelease(p) \/ ReapDrop(p) PROVE TypeOK'
  <2>1. inst' \in [Pids -> Instance]
    <3>1. \E i \in Instance : inst' = [inst EXCEPT ![p] = i]
      BY <1>6, <1>a DEF ReapExit, ReapRelease, ReapDrop, Instance
    <3>. QED BY <1>a, <3>1
  <2>. QED BY <1>6, <2>1 DEF ReapExit, ReapRelease, ReapDrop, Without, TypeOK
<1>7. ASSUME NEW p \in Pids, Probe(p) \/ Sweep(p) PROVE TypeOK'
  <2>1. inst' \in [Pids -> Instance]
    <3>1. CASE \E d \in BOOLEAN : inst' = [inst EXCEPT ![p].empty = d]
      BY <1>a, <3>1 DEF Instance
    <3>2. CASE inst' = [inst EXCEPT ![p].draining = FALSE] \/ inst' = inst
      BY <1>a, <3>2 DEF Instance
    <3>3. \A q : (q \notin crowd) \in BOOLEAN
      OBVIOUS
    <3>. QED BY <1>7, <3>1, <3>2, <3>3, Zenon DEF Probe, Sweep
  <2>. QED BY <1>7, <2>1 DEF Probe, Sweep, TypeOK
<1>8. ASSUME NEW p \in Pids, Stop(p) PROVE TypeOK'
  <2>1. inst' \in [Pids -> Instance]
    <3>1. \E i \in Instance : inst' = [inst EXCEPT ![p] = i]
      BY <1>8, <1>a DEF Stop, Instance
    <3>. QED BY <1>a, <3>1
  <2>. QED BY <1>8, <2>1 DEF Stop, TypeOK
<1>9. ASSUME NEW p \in Pids, StopReturns(p) \/ StopGivenUp(p) PROVE TypeOK'
  BY <1>9 DEF StopReturns, StopGivenUp, TypeOK
<1>10. ASSUME NEW p \in Pids, TearDown(p) PROVE TypeOK'
  <2>1. inst' \in [Pids -> Instance]
    <3>1. \E i \in Instance : inst' = [inst EXCEPT ![p] = i]
      BY <1>10, <1>a DEF TearDown, Instance
    <3>. QED BY <1>a, <3>1
  <2>2. at' \in [Pids -> {"unborn", "runs", "ending", "killed", "gone"}]
    BY <1>10 DEF TearDown, Signal, TypeOK
  <2>. QED BY <1>10, <2>1, <2>2 DEF TearDown, TypeOK
<1>11. ASSUME NEW p \in Pids, TearDownEnds(p) \/ DrainEnded(p) PROVE TypeOK'
  <2>1. inst' \in [Pids -> Instance]
    <3>1. \E i \in Instance : inst' = [inst EXCEPT ![p] = i]
      BY <1>11, <1>a DEF TearDownEnds, DrainEnded, Instance
    <3>. QED BY <1>a, <3>1
  <2>2. at' \in [Pids -> {"unborn", "runs", "ending", "killed", "gone"}]
    BY <1>11 DEF TearDownEnds, DrainEnded, Signal, TypeOK
  <2>. QED BY <1>11, <2>1, <2>2 DEF TearDownEnds, DrainEnded, TypeOK
<1>12. ASSUME NEW p \in Pids, RedeployMarks(p) PROVE TypeOK'
  <2>1. inst' \in [Pids -> Instance]
    <3>1. \E i \in Instance : inst' = [inst EXCEPT ![p] = i]
      BY <1>12, <1>a DEF RedeployMarks, Instance
    <3>. QED BY <1>a, <3>1
  <2>. QED BY <1>12, <2>1 DEF RedeployMarks, TypeOK
<1>13. ASSUME AgentDown PROVE TypeOK'
  <2>1. crashes' \in 0 .. MaxCrashes
    BY <1>13, BoxAssumption DEF AgentDown, TypeOK
  <2>2. inst' \in [Pids -> Instance]
    BY <1>1, <1>13 DEF AgentDown
  <2>. QED BY <1>13, <2>1, <2>2 DEF AgentDown, TypeOK
<1>14. ASSUME Adopt PROVE TypeOK'
  <2>1. \A d \in BOOLEAN : AdoptedInstance(d) \in Instance
    BY DEF AdoptedInstance, NewInstance, NoInstance, Instance
  <2>2. PICK kept \in SUBSET files :
          /\ files' = Remembered(kept) /\ unread' = unread \cup {f.pid : f \in kept}
          /\ issued' = HeldPorts(kept) /\ entries' = {f.pid : f \in Adopted(kept)}
          /\ inst' = [p \in Pids |->
                        IF \A f \in Adopted(kept) : f.pid # p THEN NoInstance
                        ELSE AdoptedInstance(\E f \in Adopted(kept) : f.pid = p /\ f.draining)]
    BY <1>14 DEF Adopt
  <2>3. Adopted(kept) \subseteq files /\ \A f \in files : f.pid \in Pids /\ f.port \in Ports
    BY DEF Adopted, TypeOK, Record
  <2>4. inst' \in [Pids -> Instance]
    BY <1>1, <2>1, <2>2
  <2>5. files' \in SUBSET Record /\ unread' \in SUBSET Pids /\ issued' \in SUBSET Ports /\ entries' \in SUBSET Pids
    BY <2>2, <2>3 DEF Remembered, HeldPorts, TypeOK
  <2>6. agent' = TRUE /\ UNCHANGED <<at, who, port, bound, crowd, unwritten, crashes, stopping, held, writing>>
    BY <1>14 DEF Adopt
  <2>. QED BY <2>4, <2>5, <2>6 DEF TypeOK
<1>. QED
  BY <1>2, <1>3, <1>4, <1>5, <1>6, <1>7, <1>8, <1>9, <1>10, <1>11, <1>12, <1>13, <1>14
  DEF Next, StopTears, DrainHurried, DrainEmptied, DrainRanOut

\* What is not lost and runs is a finite set that only a start adds to (Registry.running).
LEMMA CapKept ==
  ASSUME CapHolds, TypeOK, Lost \subseteq Lost', \A p \in Pids : Live(p)' => Live(p)
  PROVE  CapHolds'
<1>. DEFINE A == {p \in Pids \ Lost : Live(p)}
            B == {p \in Pids \ Lost' : Live(p)'}
<1>1. B \subseteq A /\ A \subseteq Pids
  OBVIOUS
<1>2. IsFiniteSet(A) /\ IsFiniteSet(B)
  BY <1>1, BoxAssumption, FS_Subset
<1>3. Cardinality(B) <= Cardinality(A)
  BY <1>1, <1>2, FS_Subset
<1>4. Cardinality(A) \in Nat /\ Cardinality(B) \in Nat
  BY <1>2, FS_CardinalityType
<1>. QED BY <1>3, <1>4, BoxAssumption DEF CapHolds

\* A step that only moves processes towards their end and objects along, and begins no drain, touches
\* none of the three accounts.
LEMMA QuietStep ==
  ASSUME BoxInv, TypeOK',
         UNCHANGED <<who, port, files, writing, unwritten, unread, agent, entries, issued>>,
         \A p \in Pids :
           /\ Live(p)' => Live(p)
           /\ at[p]' = "unborn" <=> at[p] = "unborn"
           /\ at[p] = "gone" => at[p]' = "gone"
           /\ \/ inst[p].reap' = inst[p].reap
              \/ inst[p].reap = "wait" /\ inst[p].reap' = "release" /\ at[p]' = "gone"
           /\ inst[p].stop' \in {"waiting", "hurried"} => inst[p].stop \in {"waiting", "hurried"}
  PROVE  BoxInv'
<1>1. Wired' BY DEF BoxInv, Wired, Done
<1>2. RecordsTrue' /\ ReadIsCurrent'
  BY DEF BoxInv, RecordsTrue, ReadIsCurrent, TypeOK, Record
<1>3. \A p \in Pids : Holding(p)' => Holding(p)
  BY DEF Holding
<1>4. PortsHeld' /\ PortsApart'
  BY <1>3 DEF BoxInv, PortsHeld, PortsApart
<1>5. LiveIsNamed'
  BY DEF BoxInv, LiveIsNamed, Lost, Running, Done, Live
<1>6. LiveIsRecorded' /\ DrainRemembered'
  BY DEF BoxInv, LiveIsRecorded, DrainRemembered
<1>7. CapHolds'
  BY CapKept DEF BoxInv, Lost
<1>. QED BY <1>1, <1>2, <1>4, <1>5, <1>6, <1>7 DEF BoxInv

-----------------------------------------------------------------------------

\* BoxInv is an invariant of the box: one step per action, the quiet ones through QuietStep.
THEOREM BoxInvariant == Spec => []BoxInv
<1>1. Init => BoxInv
  <2>. SUFFICES ASSUME Init PROVE BoxInv
    OBVIOUS
  <2>1. NoInstance \in Instance /\ NoInstance.reap = "none" /\ NoInstance.stop = "none"
    BY DEF NoInstance, Instance
  <2>2. TypeOK
    BY <2>1, BoxAssumption DEF Init, TypeOK
  <2>3. \A p \in Pids : ~Live(p) /\ ~Done(p) /\ ~Holding(p) /\ inst[p].stop = "none"
    BY <2>1 DEF Init, Live, Done, Holding
  <2>4. Wired /\ RecordsTrue /\ ReadIsCurrent
    BY <2>1, <2>3 DEF Init, Wired, RecordsTrue, ReadIsCurrent
  <2>5. PortsHeld /\ PortsApart /\ LiveIsNamed /\ LiveIsRecorded /\ DrainRemembered
    BY <2>3 DEF PortsHeld, PortsApart, LiveIsNamed, LiveIsRecorded, DrainRemembered
  <2>6. CapHolds
    <3>1. {p \in Pids \ Lost : Live(p)} = {}
      BY <2>3
    <3>. QED BY <3>1, FS_EmptySet, BoxAssumption DEF CapHolds
  <2>. QED BY <2>2, <2>4, <2>5, <2>6 DEF BoxInv
<1>2. BoxInv /\ [Next]_vars => BoxInv'
  <2>. SUFFICES ASSUME BoxInv, [Next]_vars PROVE BoxInv'
    OBVIOUS
  <2>. USE DEF procVars, agentVars, calls, history
  <2>1. CASE UNCHANGED vars
    BY <2>1 DEF vars, BoxInv, TypeOK, Wired, RecordsTrue, ReadIsCurrent, PortsHeld, PortsApart, Holding,
                LiveIsNamed, LiveIsRecorded, CapHolds, DrainRemembered, Lost, Running, Done, Live
  <2>2. CASE Next
    <3>1. TypeOK'
      BY <2>2, TypeStep DEF BoxInv
    <3>2. ASSUME NEW g \in Games, Redeploy(g) PROVE BoxInv'
      BY <3>1, <3>2, QuietStep DEF Redeploy, Live
    <3>3. ASSUME NEW p \in Pids, Binds(p) \/ PlayersCome(p) \/ PlayersGo(p) \/ ProcessEnds(p) PROVE BoxInv'
      BY <3>1, <3>3, QuietStep DEF Binds, PlayersCome, PlayersGo, ProcessEnds, Live, BoxInv, TypeOK
    <3>4. ASSUME NEW p \in Pids, ReapExit(p) PROVE BoxInv'
      BY <3>1, <3>4, QuietStep DEF ReapExit, Live, BoxInv, TypeOK, Instance
    <3>5. ASSUME NEW p \in Pids, Probe(p) \/ StopGivenUp(p) PROVE BoxInv'
      BY <3>1, <3>5, QuietStep DEF Probe, StopGivenUp, Live, BoxInv, TypeOK, Instance
    <3>6. ASSUME NEW p \in Pids, Stop(p) PROVE BoxInv'
      BY <3>1, <3>6, QuietStep DEF Stop, Live, BoxInv, TypeOK, Instance
    <3>7. ASSUME NEW p \in Pids, TearDown(p) PROVE BoxInv'
      BY <3>1, <3>7, QuietStep DEF TearDown, Signal, Live, BoxInv, TypeOK, Instance
    <3>8. ASSUME NEW p \in Pids, TearDownEnds(p) \/ DrainEnded(p) PROVE BoxInv'
      BY <3>1, <3>8, QuietStep DEF TearDownEnds, DrainEnded, Signal, Live, BoxInv, TypeOK, Instance
    \* A reaper drops the record of its own process, which is gone, and nobody else's (store.drop).
    <3>9. ASSUME NEW p \in Pids, ReapDrop(p) PROVE BoxInv'
      <4>. USE <3>1, <3>9
      <4>1. /\ UNCHANGED <<at, who, port, writing, unwritten, unread, agent, entries, issued>>
            /\ inst[p].reap = "drop" /\ at[p] = "gone" /\ who[p] \in Ids
            /\ inst' = [inst EXCEPT ![p].reap = "over"]
            /\ files' = {f \in files : f.id # who[p]}
        BY DEF ReapDrop, Without, BoxInv, Wired, Done
      <4>2. \A q \in Pids : /\ q # p => inst'[q] = inst[q]
                             /\ inst'[q].stop = inst[q].stop
                             /\ inst'[q].reap = IF q = p THEN "over" ELSE inst[q].reap
        BY <4>1 DEF BoxInv, TypeOK, Instance
      <4>3. \A f \in files : f.pid # p => f \in files'
        BY <4>1, BoxAssumption DEF BoxInv, RecordsTrue, Wired, TypeOK, Record
      <4>4. Wired'
        BY <4>1, <4>2 DEF BoxInv, Wired, Done
      <4>5. RecordsTrue' /\ ReadIsCurrent'
        BY <4>1, <4>3 DEF BoxInv, RecordsTrue, ReadIsCurrent, Live
      <4>6. PortsHeld' /\ PortsApart'
        <5>1. \A q \in Pids : Holding(q)' => Holding(q)
          BY <4>1, <4>2 DEF Holding, Live
        <5>. QED BY <4>1, <5>1 DEF BoxInv, PortsHeld, PortsApart
      <4>7. LiveIsNamed'
        BY <4>1, <4>2 DEF BoxInv, LiveIsNamed, Lost, Running, Done, Live
      <4>8. LiveIsRecorded'
        BY <4>1, <4>3 DEF BoxInv, LiveIsRecorded, Live
      <4>9. DrainRemembered'
        BY <4>1, <4>2, <4>3 DEF BoxInv, DrainRemembered, Live
      <4>10. CapHolds'
        BY <4>1, CapKept DEF BoxInv, Lost, Live
      <4>. QED BY <4>4, <4>5, <4>6, <4>7, <4>8, <4>9, <4>10 DEF BoxInv
    \* A port is given back only by the reaper of the process that had it, and nobody else holds it.
    <3>10. ASSUME NEW p \in Pids, ReapRelease(p) PROVE BoxInv'
      <4>. USE <3>1, <3>10
      <4>1. /\ UNCHANGED <<at, who, port, files, writing, unwritten, unread, agent, entries>>
            /\ inst[p].reap = "release" /\ at[p] = "gone"
            /\ inst' = [inst EXCEPT ![p].reap = "drop"]
            /\ issued' = issued \ {port[p]}
        BY DEF ReapRelease, BoxInv, Wired, Done
      <4>2. \A q \in Pids : /\ inst'[q].stop = inst[q].stop
                             /\ inst'[q].reap = IF q = p THEN "drop" ELSE inst[q].reap
        BY <4>1 DEF BoxInv, TypeOK, Instance
      <4>3. Wired' /\ RecordsTrue' /\ ReadIsCurrent'
        BY <4>1, <4>2 DEF BoxInv, Wired, Done, RecordsTrue, ReadIsCurrent, Live
      <4>4. PortsHeld' /\ PortsApart'
        <5>1. \A q \in Pids : Holding(q)' => Holding(q) /\ q # p
          BY <4>1, <4>2 DEF Holding, Live
        <5>2. Holding(p)
          BY <4>1 DEF Holding
        <5>. QED BY <4>1, <5>1, <5>2 DEF BoxInv, PortsHeld, PortsApart
      <4>5. LiveIsNamed'
        BY <4>1, <4>2 DEF BoxInv, LiveIsNamed, Lost, Running, Done, Live
      <4>6. LiveIsRecorded' /\ DrainRemembered'
        BY <4>1, <4>2 DEF BoxInv, LiveIsRecorded, DrainRemembered, Live
      <4>7. CapHolds'
        BY <4>1, CapKept DEF BoxInv, Lost, Live
      <4>. QED BY <4>3, <4>4, <4>5, <4>6, <4>7 DEF BoxInv
    \* An entry is deleted only for a process that is done (Registry.sweep, the end of Registry.Stop).
    <3>11. ASSUME NEW p \in Pids, Sweep(p) \/ StopReturns(p) PROVE BoxInv'
      <4>. USE <3>1, <3>11
      <4>1. /\ UNCHANGED <<at, who, port, files, writing, unwritten, unread, agent, inst, issued>>
            /\ Done(p) /\ \A q \in entries : q # p => q \in entries'
        <5>1. CASE Sweep(p)
          BY <5>1 DEF Sweep, Done
        <5>2. CASE StopReturns(p)
          BY <5>2, BoxAssumption DEF StopReturns, BoxInv, Wired, Done, TypeOK
        <5>. QED BY <5>1, <5>2
      <4>2. Wired' /\ RecordsTrue' /\ ReadIsCurrent'
        BY <4>1 DEF BoxInv, Wired, Done, RecordsTrue, ReadIsCurrent, Live
      <4>3. PortsHeld' /\ PortsApart'
        BY <4>1 DEF BoxInv, PortsHeld, PortsApart, Holding, Live
      <4>4. LiveIsNamed'
        BY <4>1 DEF BoxInv, LiveIsNamed, Lost, Running, Done, Live, Wired
      <4>5. LiveIsRecorded' /\ DrainRemembered'
        BY <4>1 DEF BoxInv, LiveIsRecorded, DrainRemembered, Live
      <4>6. CapHolds'
        BY <4>1, CapKept DEF BoxInv, Lost, Live
      <4>. QED BY <4>2, <4>3, <4>4, <4>5, <4>6 DEF BoxInv
    \* A redeploy reads a record before it stamps it, and stamps what is still the record of a live process.
    <3>12. ASSUME (\E p \in Pids : RedeployMarks(p)) \/ (\E f \in writing : RedeployWrites(f)) PROVE BoxInv'
      <4>. USE <3>1, <3>12
      <4>1. ASSUME NEW p \in Pids, RedeployMarks(p) PROVE BoxInv'
        <5>1. /\ UNCHANGED <<at, who, port, files, unwritten, unread, agent, entries, issued>>
              /\ writing = {} /\ writing' = {f \in files : f.id = who[p] /\ ~f.draining}
              /\ \A q \in Pids : inst'[q].reap = inst[q].reap /\ (q # p => inst'[q].stop = inst[q].stop)
          BY <4>1 DEF RedeployMarks, BoxInv, TypeOK, Instance
        <5>a. \A f \in writing' : f.pid = p
          BY <4>1, <5>1, BoxAssumption DEF BoxInv, RecordsTrue, Wired, TypeOK, Record
        <5>2. Wired' /\ RecordsTrue' /\ ReadIsCurrent'
          BY <5>1, <5>a DEF BoxInv, Wired, Done, RecordsTrue, ReadIsCurrent, Live
        <5>3. PortsHeld' /\ PortsApart'
          BY <5>1 DEF BoxInv, PortsHeld, PortsApart, Holding, Live
        <5>4. LiveIsNamed' /\ LiveIsRecorded'
          BY <5>1 DEF BoxInv, LiveIsNamed, LiveIsRecorded, Lost, Running, Done, Live
        <5>5. DrainRemembered'
          BY <5>1 DEF BoxInv, DrainRemembered, LiveIsRecorded, Live
        <5>6. CapHolds'
          BY <5>1, CapKept DEF BoxInv, Lost, Live
        <5>. QED BY <5>2, <5>3, <5>4, <5>5, <5>6 DEF BoxInv
      <4>2. ASSUME NEW f \in writing, RedeployWrites(f) PROVE BoxInv'
        <5>. DEFINE g == [f EXCEPT !.draining = TRUE]
        <5>1. /\ UNCHANGED <<at, who, port, unread, agent, inst, entries, issued>>
              /\ writing' = {} /\ Write(g)
          BY <4>2 DEF RedeployWrites
        <5>2. /\ f \in Record /\ g.id = f.id /\ g.pid = f.pid /\ g.port = f.port /\ g.draining = TRUE
              /\ f.id = who[f.pid] /\ f.port = port[f.pid] /\ f.id \in Ids /\ f.pid \in Pids
          BY DEF BoxInv, TypeOK, Record, RecordsTrue
        <5>. HIDE DEF g
        <5>3. CASE files' = Without(files, g.id) \cup {g} /\ UNCHANGED unwritten
          <6>1. g \in files' /\ \A e \in files : e \in files' \/ e.pid = f.pid
            BY <5>2, <5>3, BoxAssumption DEF Without, BoxInv, RecordsTrue, Wired, TypeOK, Record
          <6>2. \A e \in files' : e \in files \/ e = g
            BY <5>3 DEF Without
          <6>3. Wired' /\ RecordsTrue' /\ ReadIsCurrent'
            BY <5>1, <5>2, <6>2 DEF BoxInv, Wired, Done, RecordsTrue, ReadIsCurrent
          <6>4. \A q \in Pids : Holding(q)' => Holding(q)
            BY <5>1, <5>2, <6>2 DEF Holding, Live, BoxInv, ReadIsCurrent
          <6>5. PortsHeld' /\ PortsApart'
            BY <5>1, <6>4 DEF BoxInv, PortsHeld, PortsApart
          <6>6. LiveIsNamed'
            BY <5>1, <5>3 DEF BoxInv, LiveIsNamed, Lost, Running, Done, Live
          <6>7. LiveIsRecorded'
            BY <5>1, <5>2, <5>3, <6>1 DEF BoxInv, LiveIsRecorded, Live
          <6>8. DrainRemembered'
            BY <5>1, <5>2, <5>3, <6>1 DEF BoxInv, DrainRemembered, Live, ReadIsCurrent
          <6>9. CapHolds'
            BY <5>1, <5>3, CapKept DEF BoxInv, Lost, Live
          <6>. QED BY <6>3, <6>5, <6>6, <6>7, <6>8, <6>9 DEF BoxInv
        <5>4. CASE unwritten' = unwritten \cup {g.pid} /\ UNCHANGED files
          <6>1. Wired' /\ RecordsTrue' /\ ReadIsCurrent'
            BY <5>1, <5>4 DEF BoxInv, Wired, Done, RecordsTrue, ReadIsCurrent
          <6>2. PortsHeld' /\ PortsApart'
            BY <5>1, <5>4 DEF BoxInv, PortsHeld, PortsApart, Holding, Live
          <6>3. LiveIsNamed' /\ LiveIsRecorded'
            BY <5>1, <5>4 DEF BoxInv, LiveIsNamed, LiveIsRecorded, Lost, Running, Done, Live
          <6>4. DrainRemembered'
            <7>1. f.pid \in unwritten' /\ unwritten \subseteq unwritten' BY <5>2, <5>4
            <7>2. \A e \in writing : e.pid = f.pid
              BY DEF BoxInv, ReadIsCurrent
            <7>. QED BY <5>1, <5>4, <7>1, <7>2 DEF BoxInv, DrainRemembered, Live
          <6>5. CapHolds'
            BY <5>1, <5>4, CapKept DEF BoxInv, Lost, Live
          <6>. QED BY <6>1, <6>2, <6>3, <6>4, <6>5 DEF BoxInv
        <5>. QED BY <5>1, <5>3, <5>4 DEF Write
      <4>. QED BY <4>1, <4>2
    \* A start hands out a port nobody holds, within the cap, for an id that had no process.
    <3>13. ASSUME NEW id \in Ids, Start(id) PROVE BoxInv'
      <4>. USE <3>1, <3>13
      <4>1. PICK p \in Pids, n \in Ports \ issued :
              /\ at[p] = "unborn"
              /\ at' = [at EXCEPT ![p] = "runs"] /\ who' = [who EXCEPT ![p] = id]
              /\ port' = [port EXCEPT ![p] = n] /\ issued' = issued \cup {n}
              /\ inst' = [inst EXCEPT ![p] = NewInstance]
              /\ entries' = {q \in entries : who[q] # id} \cup {p}
              /\ Write([id |-> id, pid |-> p, port |-> n, draining |-> FALSE])
        BY DEF Start
      <4>2. /\ agent /\ Room /\ \A q \in Pids : who[q] # id
            /\ UNCHANGED <<unread, agent, writing>>
        BY DEF Start
      <4>. DEFINE rec == [id |-> id, pid |-> p, port |-> n, draining |-> FALSE]
      <4>3. /\ at'[p] = "runs" /\ who'[p] = id /\ port'[p] = n /\ inst'[p].reap = "wait" /\ inst'[p].stop = "none"
            /\ \A q \in Pids : q # p => at'[q] = at[q] /\ who'[q] = who[q] /\ port'[q] = port[q] /\ inst'[q] = inst[q]
        BY <4>1 DEF BoxInv, TypeOK, NewInstance, NoInstance
      <4>4. entries' = entries \cup {p}
        BY <4>1, <4>2 DEF BoxInv, TypeOK
      <4>5. /\ \A f \in files \cup writing : f.pid \in Pids /\ f.pid # p /\ f.id # id
            /\ ~Holding(p) /\ who[p] = None
        BY <4>1, <4>2, BoxAssumption DEF BoxInv, RecordsTrue, Wired, TypeOK, Record, Holding, Live
      <4>6. \/ files' = files \cup {rec} /\ unwritten' = unwritten
            \/ files' = files /\ unwritten' = unwritten \cup {p}
        BY <4>1, <4>5 DEF Write, Without
      <4>7. rec.id = id /\ rec.pid = p /\ rec.port = n
        OBVIOUS
      <4>. HIDE DEF rec
      <4>8. Wired'
        BY <4>1, <4>2, <4>3, <4>5, BoxAssumption DEF BoxInv, Wired, Done, TypeOK
      <4>9. RecordsTrue' /\ ReadIsCurrent'
        BY <4>2, <4>3, <4>5, <4>6, <4>7 DEF BoxInv, RecordsTrue, ReadIsCurrent, Live
      <4>10. \A q \in Pids : q # p /\ Holding(q)' => Holding(q)
        BY <4>3, <4>6, <4>7 DEF Holding, Live
      <4>11. PortsHeld' /\ PortsApart'
        <5>1. \A q \in Pids : q # p /\ Holding(q)' => port'[q] \in issued
          BY <4>2, <4>3, <4>10 DEF BoxInv, PortsHeld
        <5>2. PortsHeld'
          BY <4>1, <4>2, <4>3, <5>1 DEF PortsHeld
        <5>3. PortsApart'
          BY <4>1, <4>3, <4>10, <5>1 DEF BoxInv, PortsApart
        <5>. QED BY <5>2, <5>3
      <4>12. LiveIsNamed'
        <5>1. Lost \subseteq Lost'
          BY <4>2, <4>6 DEF Lost
        <5>. QED BY <4>2, <4>3, <4>4, <5>1 DEF BoxInv, LiveIsNamed, Running, Done, Live
      <4>13. LiveIsRecorded'
        BY <4>3, <4>6, <4>7 DEF BoxInv, LiveIsRecorded, Live
      <4>14. DrainRemembered'
        BY <4>2, <4>3, <4>6 DEF BoxInv, DrainRemembered, Live
      <4>15. CapHolds'
        <5>. DEFINE A == {q \in Pids \ Lost : Live(q)}
                    B == {q \in Pids \ Lost' : Live(q)'}
        <5>1. A \subseteq Running /\ Running \subseteq Pids
          BY <4>2 DEF BoxInv, LiveIsNamed, Running, TypeOK
        <5>2. B \subseteq A \cup {p}
          BY <4>2, <4>3, <4>6 DEF Lost, Live
        <5>3. IsFiniteSet(A) /\ IsFiniteSet(Running) /\ IsFiniteSet(A \cup {p}) /\ IsFiniteSet(B)
          BY <5>1, <5>2, BoxAssumption, FS_Subset, FS_AddElement
        <5>4. Cardinality(A) <= Cardinality(Running) /\ Cardinality(B) <= Cardinality(A \cup {p})
          BY <5>1, <5>2, <5>3, FS_Subset
        <5>5. Cardinality(A \cup {p}) <= Cardinality(A) + 1
          <6>. HIDE DEF A
          <6>1. Cardinality(A \cup {p}) = IF p \in A THEN Cardinality(A) ELSE Cardinality(A) + 1
            BY <5>3, FS_AddElement
          <6>2. Cardinality(A) \in Nat
            BY <5>3, FS_CardinalityType
          <6>. QED BY <6>1, <6>2
        <5>6. /\ Cardinality(A) \in Nat /\ Cardinality(B) \in Nat /\ Cardinality(Running) \in Nat
              /\ Cardinality(A \cup {p}) \in Nat
          BY <5>3, FS_CardinalityType
        <5>7. Cardinality(Running) < MaxInstances
          BY <4>2 DEF Room
        <5>8. Cardinality(B) <= MaxInstances
          BY <5>4, <5>5, <5>6, <5>7, BoxAssumption
        <5>. QED BY <5>8 DEF CapHolds
      <4>. QED BY <4>8, <4>9, <4>11, <4>12, <4>13, <4>14, <4>15 DEF BoxInv
    \* An agent that goes loses its map, its ports and its calls; the records are what is left.
    <3>14. ASSUME AgentDown PROVE BoxInv'
      <4>. USE <3>1, <3>14
      <4>1. /\ UNCHANGED <<at, who, port, files, unwritten, unread>> /\ agent' = FALSE /\ writing' = {}
            /\ \A p \in Pids : inst'[p].reap = "none" /\ inst'[p].stop = "none"
        BY DEF AgentDown, NoInstance
      <4>2. Wired' /\ RecordsTrue' /\ ReadIsCurrent'
        BY <4>1 DEF BoxInv, Wired, Done, RecordsTrue, ReadIsCurrent
      <4>3. PortsHeld' /\ PortsApart'
        BY <4>1 DEF BoxInv, PortsHeld, PortsApart, Holding, Live
      <4>4. LiveIsNamed' /\ LiveIsRecorded' /\ DrainRemembered'
        BY <4>1 DEF BoxInv, LiveIsNamed, LiveIsRecorded, DrainRemembered, Live
      <4>5. CapHolds'
        BY <4>1, CapKept DEF BoxInv, Lost, Live
      <4>. QED BY <4>2, <4>3, <4>4, <4>5 DEF BoxInv
    \* An agent that boots finds again every live process that has a record, with its port and its drain.
    <3>15. ASSUME Adopt PROVE BoxInv'
      <4>. USE <3>1, <3>15
      <4>1. PICK kept \in SUBSET files :
              /\ files' = Remembered(kept) /\ unread' = unread \cup {f.pid : f \in kept}
              /\ issued' = HeldPorts(kept) /\ entries' = {f.pid : f \in Adopted(kept)}
              /\ inst' = [p \in Pids |->
                            IF \A f \in Adopted(kept) : f.pid # p THEN NoInstance
                            ELSE AdoptedInstance(\E f \in Adopted(kept) : f.pid = p /\ f.draining)]
        BY DEF Adopt
      <4>2. agent' = TRUE /\ UNCHANGED <<at, who, port, unwritten, writing>>
        BY DEF Adopt
      <4>3. /\ \A f \in files : Live(f.pid) => f \in Adopted(kept) \/ f \in kept
            /\ \A f \in Adopted(kept) : f \in files /\ Live(f.pid)
        BY DEF Adopted
      <4>4. /\ files' \subseteq files /\ \A f \in files : Live(f.pid) => f \in files'
            /\ Adopted(kept) \subseteq files' /\ issued' = {f.port : f \in files'}
        BY <4>1, <4>3 DEF Remembered, HeldPorts
      <4>5. \A p \in Pids : (\E f \in Adopted(kept) : f.pid = p) =>
               /\ inst'[p].reap = "wait" /\ p \in entries'
               /\ inst'[p].stop = "waiting" => \E f \in Adopted(kept) : f.pid = p /\ f.draining
               /\ inst'[p].stop \in {"none", "waiting"}
        BY <4>1 DEF AdoptedInstance, NewInstance, NoInstance
      <4>6. \A p \in Pids : (\A f \in Adopted(kept) : f.pid # p) => inst'[p].reap = "none" /\ inst'[p].stop = "none"
        BY <4>1 DEF NoInstance
      <4>7. Wired'
        BY <4>2, <4>3, <4>5, <4>6, BoxAssumption DEF BoxInv, Wired, Done, Live
      <4>8. RecordsTrue' /\ ReadIsCurrent'
        BY <4>2, <4>4 DEF BoxInv, RecordsTrue, ReadIsCurrent, Live
      <4>9. PortsHeld' /\ PortsApart'
        <5>1. \A p \in Pids : Holding(p)' => Holding(p) /\ \E f \in files' : f.pid = p
          BY <4>2, <4>3, <4>4, <4>5, <4>6 DEF Holding, Live
        <5>2. \A p \in Pids : Holding(p)' => port'[p] \in issued'
          BY <4>2, <4>4, <5>1 DEF BoxInv, RecordsTrue
        <5>. QED BY <4>2, <5>1, <5>2 DEF BoxInv, PortsHeld, PortsApart
      <4>10. LiveIsNamed'
        <5>1. ASSUME NEW p \in Pids, p \notin Lost', Live(p)' PROVE p \in Running'
          <6>1. PICK f \in files : f.pid = p
            BY <4>2, <5>1 DEF BoxInv, LiveIsRecorded, Lost, Live
          <6>2. f \in Adopted(kept)
            BY <4>1, <4>2, <4>3, <5>1, <6>1 DEF Lost, Live
          <6>. QED BY <4>5, <6>1, <6>2 DEF Running, Done
        <5>. QED BY <5>1 DEF LiveIsNamed
      <4>11. LiveIsRecorded'
        BY <4>2, <4>4 DEF BoxInv, LiveIsRecorded, Live
      <4>12. DrainRemembered'
        BY <4>4, <4>5, <4>6 DEF DrainRemembered
      <4>13. CapHolds'
        BY <4>1, <4>2, CapKept DEF BoxInv, Lost, Live
      <4>. QED BY <4>7, <4>8, <4>9, <4>10, <4>11, <4>12, <4>13 DEF BoxInv
    <3>. QED
      BY <2>2, <3>2, <3>3, <3>4, <3>5, <3>6, <3>7, <3>8, <3>9, <3>10, <3>11, <3>12, <3>13, <3>14, <3>15
      DEF Next, StopTears, DrainHurried, DrainEmptied, DrainRanOut
  <2>. QED BY <2>1, <2>2
<1>. QED BY <1>1, <1>2, PTL DEF Spec

\* The box keeps its types.
THEOREM BoxTypeCorrect == Spec => []TypeOK
  BY BoxInvariant, PTL DEF BoxInv

\* No live process without an entry, but for the ones a failed write or read lost (Stop, Adopt).
THEOREM NoneUnnamed == Spec => []LiveIsNamed
  BY BoxInvariant, PTL DEF BoxInv

\* No live process without a record, but for the ones whose write failed (Start, reap, store.draining).
THEOREM NoneUnrecorded == Spec => []LiveIsRecorded
  BY BoxInvariant, PTL DEF BoxInv

\* The cap is a cap, through any number of restarts (Start, Adopt).
THEOREM CapIsACap == Spec => []CapHolds
  BY BoxInvariant, PTL DEF BoxInv

\* A redeploy's drain is on the record of every world it marked (Redeploy, store.draining).
THEOREM DrainsAreRemembered == Spec => []DrainRemembered
  BY BoxInvariant, PTL DEF BoxInv

\* Two live processes never share a port (Ports.Take, Hold and Release).
THEOREM NoPortTwice == Spec => []PortsExclusive
<1>1. BoxInv => PortsExclusive
  BY DEF BoxInv, PortsExclusive, PortsApart, LiveIsRecorded, Holding
<1>. QED BY <1>1, BoxInvariant, PTL
=============================================================================
