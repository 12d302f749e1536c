------------------------------ MODULE Supervisor ------------------------------
(***************************************************************************)
(* The instance manager's registry on one box: the game processes it       *)
(* starts, adopts, drains and reaps, and what it writes down so that the   *)
(* next run of the agent finds them again. Handlers, reapers, drainers and *)
(* the prober are goroutines of their own; only what one lock covers is    *)
(* one step. The kernel, the players and the disk are the environment.     *)
(***************************************************************************)
EXTENDS Naturals, FiniteSets

CONSTANTS Ids,          \* the ids worlds are placed under; the router mints one per session
          Games,
          GameOf,       \* the game each id is of
          Pids,         \* the processes this box may ever spawn (bound)
          Visited,      \* the ones players ever find their way to (bound)
          Ports,
          MaxInstances, \* the cap the box was configured with
          MaxCrashes,   \* how often the agent goes down (bound)
          Faults,       \* what goes wrong: a subset of AllFaults
          None

\* disk:  a record is not written
\* blind: the kernel cannot be asked about a pid as the agent boots
AllFaults == {"disk", "blind"}

ASSUME BoxAssumption ==
  /\ GameOf \in [Ids -> Games]
  /\ IsFiniteSet(Pids) /\ Visited \subseteq Pids
  /\ MaxInstances \in Nat \ {0} /\ MaxCrashes \in Nat
  /\ Faults \subseteq AllFaults
  /\ None \notin Ids \cup Ports

VARIABLES
  at,        \* what each process is doing
  who,       \* the id a process was spawned for
  port,      \* the port it was told to bind
  bound,     \* the processes that have bound it
  crowd,     \* the processes somebody is playing in
  files,     \* the records on disk
  agent,     \* whether the agent runs
  crashes,   \* how often it went down
  inst,      \* its object for each process
  entries,   \* the map of instances, as the processes it names
  issued,    \* the ports handed out
  stopping,  \* the objects a Stop call waits for
  held,      \* the objects a redeploy has still to mark
  writing,   \* the records a redeploy has read and not yet put back
  unwritten, \* (history) the processes a write about which has failed
  unread     \* (history) the processes a boot could not ask the kernel about

procVars == <<at, who, port, bound, crowd>>
agentVars == <<agent, crashes>>
calls == <<stopping, held, writing>>
history == <<unwritten, unread>>
vars == <<procVars, files, history, agentVars, inst, entries, issued, calls>>

-----------------------------------------------------------------------------

Record == [id : Ids, pid : Pids, port : Ports, draining : BOOLEAN]

\* The agent's object for a process. Of its state only draining is told apart, of its roster only
\* whether a probe has read it empty. reap: where the goroutine waiting for the child is; none says
\* there is no object. stop: the one shutdown an object gets: waiting for the world to be empty (or
\* hurried), about to tear it down, waiting for the drained child to end.
Instance == [draining : BOOLEAN,
             empty : BOOLEAN,
             reap : {"none", "wait", "release", "drop", "over"},
             stop : {"none", "waiting", "hurried", "tear", "drained", "over"}]

NoInstance == [draining |-> FALSE, empty |-> FALSE, reap |-> "none", stop |-> "none"]
NewInstance == [NoInstance EXCEPT !.reap = "wait"]

Live(p) == at[p] \in {"runs", "ending", "killed"}
Done(p) == inst[p].reap \in {"release", "drop", "over"}
Running == {p \in entries : ~Done(p)}

Room == Cardinality(Running) < MaxInstances

Without(fs, id) == {f \in fs : f.id # id}

\* A record replaces the one its id had; where that fails the error is only logged.
Write(rec) ==
  \/ files' = Without(files, rec.id) \cup {rec} /\ UNCHANGED unwritten
  \/ "disk" \in Faults /\ unwritten' = unwritten \cup {rec.pid} /\ UNCHANGED files

Init ==
  /\ at = [p \in Pids |-> "unborn"]
  /\ who = [p \in Pids |-> None]
  /\ port = [p \in Pids |-> None]
  /\ bound = {} /\ crowd = {} /\ files = {} /\ unwritten = {} /\ unread = {}
  /\ agent = TRUE /\ crashes = 0
  /\ inst = [p \in Pids |-> NoInstance]
  /\ entries = {} /\ issued = {}
  /\ stopping = {} /\ held = {} /\ writing = {}

-----------------------------------------------------------------------------
(* The processes and the people in them. *)

Binds(p) ==
  /\ at[p] = "runs" /\ p \notin bound
  /\ bound' = bound \cup {p}
  /\ UNCHANGED <<at, who, port, crowd, files, history, agentVars, inst, entries, issued, calls>>

PlayersCome(p) ==
  /\ at[p] = "runs" /\ p \in (bound \cap Visited) \ crowd
  /\ crowd' = crowd \cup {p}
  /\ UNCHANGED <<at, who, port, bound, files, history, agentVars, inst, entries, issued, calls>>

PlayersGo(p) ==
  /\ p \in crowd
  /\ crowd' = crowd \ {p}
  /\ UNCHANGED <<at, who, port, bound, files, history, agentVars, inst, entries, issued, calls>>

ProcessEnds(p) ==
  /\ Live(p)
  /\ at' = [at EXCEPT ![p] = "gone"]
  /\ bound' = bound \ {p} /\ crowd' = crowd \ {p}
  /\ UNCHANGED <<who, port, files, history, agentVars, inst, entries, issued, calls>>

\* Drain interrupts a process and Kill ends it; neither does anything to one that is gone.
Signal(p, as) == at' = [at EXCEPT ![p] = IF Live(p) /\ @ # "killed" THEN as ELSE @]

-----------------------------------------------------------------------------
(* A world is started, watched and reaped. *)

\* Under the lock: a session that has a process is handed that one, a full box refuses, and either
\* way nothing changes. Else a port is taken, a process spawned, entered and written down. An id is
\* the router's for one placement, so no start comes for one whose world has ended.
Start(id) ==
  /\ agent
  /\ \A p \in Running : who[p] # id
  /\ Room
  /\ \A p \in Pids : who[p] # id
  /\ \E p \in Pids, n \in Ports \ issued :
       /\ at[p] = "unborn"
       /\ \A q \in bound : port[q] # n
       /\ at' = [at EXCEPT ![p] = "runs"]
       /\ who' = [who EXCEPT ![p] = id]
       /\ port' = [port EXCEPT ![p] = n]
       /\ issued' = issued \cup {n}
       /\ inst' = [inst EXCEPT ![p] = NewInstance]
       /\ entries' = {q \in entries : who[q] # id} \cup {p}
       /\ Write([id |-> id, pid |-> p, port |-> n, draining |-> FALSE])
  /\ UNCHANGED <<bound, crowd, unread, agentVars, calls>>

ReapExit(p) ==
  /\ inst[p].reap = "wait" /\ at[p] = "gone"
  /\ inst' = [inst EXCEPT ![p].reap = "release", ![p].draining = FALSE]
  /\ UNCHANGED <<procVars, files, history, agentVars, entries, issued, calls>>

ReapRelease(p) ==
  /\ inst[p].reap = "release"
  /\ inst' = [inst EXCEPT ![p].reap = "drop"]
  /\ issued' = issued \ {port[p]}
  /\ UNCHANGED <<procVars, files, history, agentVars, entries, calls>>

ReapDrop(p) ==
  /\ inst[p].reap = "drop"
  /\ inst' = [inst EXCEPT ![p].reap = "over"]
  /\ files' = Without(files, who[p])
  /\ UNCHANGED <<procVars, history, agentVars, entries, issued, calls>>

\* Whoever has bound the port answers. The object may have exited since it was found not done; one
\* found done is marked unhealthy. A probe that fails leaves a drain and the roster alone.
Probe(p) ==
  /\ p \in entries
  /\ \/ \E q \in bound :
          /\ port[q] = port[p]
          /\ inst' = [inst EXCEPT ![p].empty = q \notin crowd]
     \/ Done(p) /\ inst' = [inst EXCEPT ![p].draining = FALSE]
  /\ UNCHANGED <<procVars, files, history, agentVars, entries, issued, calls>>

\* An entry is retained for minutes, so it is swept long after its reaper is through.
Sweep(p) ==
  /\ p \in entries /\ inst[p].reap = "over"
  /\ entries' = entries \ {p}
  /\ UNCHANGED <<procVars, files, history, agentVars, inst, issued, calls>>

-----------------------------------------------------------------------------
(* A world is stopped, or drained until its last player has left. *)

\* Mutant: a stop leaves the drain it finds under way to its deadline.
Stop_Waits(p) ==
  /\ p \in entries \ stopping
  /\ stopping' = stopping \cup {p}
  /\ inst' = [inst EXCEPT ![p].stop = IF @ = "none" THEN "tear" ELSE @]
  /\ UNCHANGED <<procVars, files, history, agentVars, entries, issued, held, writing>>

\* The first shutdown of an object is the one that runs, and a stop hurries it.
Stop(p) ==
  /\ p \in entries \ stopping
  /\ stopping' = stopping \cup {p}
  /\ inst' = [inst EXCEPT ![p].stop = CASE @ = "none" -> "tear" [] @ = "waiting" -> "hurried" [] OTHER -> @]
  /\ UNCHANGED <<procVars, files, history, agentVars, entries, issued, held, writing>>

StopReturns(p) ==
  /\ p \in stopping /\ Done(p)
  /\ stopping' = stopping \ {p}
  /\ entries' = {q \in entries : who[q] # who[p]}
  /\ UNCHANGED <<procVars, files, history, agentVars, inst, issued, held, writing>>

\* Mutant: a caller that hangs up takes the entry with it.
StopGivenUp_Forgets(p) ==
  /\ p \in stopping
  /\ stopping' = stopping \ {p}
  /\ entries' = {q \in entries : who[q] # who[p]}
  /\ UNCHANGED <<procVars, files, history, agentVars, inst, issued, held, writing>>

StopGivenUp(p) ==
  /\ p \in stopping
  /\ stopping' = stopping \ {p}
  /\ UNCHANGED <<procVars, files, history, agentVars, inst, entries, issued, held, writing>>

TearDown(p) ==
  /\ IF Done(p)
     THEN inst' = [inst EXCEPT ![p].stop = "over"] /\ UNCHANGED at
     ELSE inst' = [inst EXCEPT ![p].stop = "drained", ![p].draining = TRUE] /\ Signal(p, "ending")
  /\ UNCHANGED <<who, port, bound, crowd, files, history, agentVars, entries, issued, calls>>

StopTears(p) == inst[p].stop = "tear" /\ TearDown(p)

TearDownEnds(p) ==
  /\ inst[p].stop = "drained"
  /\ Signal(p, "killed") \/ (Done(p) /\ UNCHANGED at)
  /\ inst' = [inst EXCEPT ![p].stop = "over"]
  /\ UNCHANGED <<who, port, bound, crowd, files, history, agentVars, entries, issued, calls>>

Redeploy(g) ==
  /\ agent /\ held = {} /\ writing = {}
  /\ held' = {p \in Running : GameOf[who[p]] = g}
  /\ UNCHANGED <<procVars, files, history, agentVars, inst, entries, issued, stopping, writing>>

\* One turn of the loop: mark, begin the drain, read the record back; a missing record is an error
\* that is logged, and one that already tells of a drain is left alone.
RedeployMarks(p) ==
  /\ p \in held /\ writing = {}
  /\ held' = held \ {p}
  /\ inst' = [inst EXCEPT ![p].draining = TRUE, ![p].stop = IF @ = "none" THEN "waiting" ELSE @]
  /\ writing' = {f \in files : f.id = who[p] /\ ~f.draining}
  /\ UNCHANGED <<procVars, files, history, agentVars, entries, issued, stopping>>

\* Mutant: the record is put back without the stamp.
RedeployWrites_Unstamped(f) ==
  /\ f \in writing
  /\ writing' = {}
  /\ Write(f)
  /\ UNCHANGED <<procVars, unread, agentVars, inst, entries, issued, stopping, held>>

RedeployWrites(f) ==
  /\ f \in writing
  /\ writing' = {}
  /\ Write([f EXCEPT !.draining = TRUE])
  /\ UNCHANGED <<procVars, unread, agentVars, inst, entries, issued, stopping, held>>

DrainEnded(p) ==
  /\ inst[p].stop \in {"waiting", "hurried"} /\ Done(p)
  /\ inst' = [inst EXCEPT ![p].stop = "over"]
  /\ UNCHANGED <<procVars, files, history, agentVars, entries, issued, calls>>

DrainHurried(p) == inst[p].stop = "hurried" /\ TearDown(p)

DrainEmptied(p) == inst[p].stop \in {"waiting", "hurried"} /\ inst[p].empty /\ TearDown(p)

\* Measured from when the drain began, which the record keeps, so a restart does not put it off.
DrainRanOut(p) == inst[p].stop \in {"waiting", "hurried"} /\ ~inst[p].empty /\ TearDown(p)

-----------------------------------------------------------------------------
(* The agent goes down and comes back; its children run on. *)

AgentDown ==
  /\ agent /\ crashes < MaxCrashes
  /\ agent' = FALSE /\ crashes' = crashes + 1
  /\ inst' = [p \in Pids |-> NoInstance]
  /\ entries' = {} /\ issued' = {}
  /\ stopping' = {} /\ held' = {} /\ writing' = {}
  /\ UNCHANGED <<procVars, files, history>>

\* kept are the records whose pid the kernel would not answer for.
Adopted(kept) == {f \in files \ kept : Live(f.pid)}

\* Mutant: a read that failed is taken for a process that is gone.
Remembered_OnlyAdopted(kept) == Adopted(kept)

Remembered(kept) == Adopted(kept) \cup kept

HeldPorts(kept) == {f.port : f \in Adopted(kept) \cup kept}

\* Mutant: a world that was draining is marked and its drain is not taken up.
AdoptedInstance_NotResumed(draining) == [NewInstance EXCEPT !.draining = draining]

AdoptedInstance(draining) ==
  [NewInstance EXCEPT !.draining = draining, !.stop = IF draining THEN "waiting" ELSE "none"]

\* A record whose process runs is adopted, one whose process is gone is dropped, and one the kernel
\* would not answer for is left for the next boot.
Adopt ==
  /\ ~agent
  /\ \E kept \in SUBSET files :
       /\ kept # {} => "blind" \in Faults
       /\ files' = Remembered(kept)
       /\ unread' = unread \cup {f.pid : f \in kept}
       /\ issued' = HeldPorts(kept)
       /\ entries' = {f.pid : f \in Adopted(kept)}
       /\ inst' = [p \in Pids |->
                     IF \A f \in Adopted(kept) : f.pid # p THEN NoInstance
                     ELSE AdoptedInstance(\E f \in Adopted(kept) : f.pid = p /\ f.draining)]
  /\ agent' = TRUE
  /\ UNCHANGED <<procVars, unwritten, crashes, calls>>

-----------------------------------------------------------------------------

Next ==
  \/ \E id \in Ids : Start(id)
  \/ \E g \in Games : Redeploy(g)
  \/ \E f \in writing : RedeployWrites(f)
  \/ \E p \in Pids :
       \/ Binds(p) \/ PlayersCome(p) \/ PlayersGo(p) \/ ProcessEnds(p)
       \/ ReapExit(p) \/ ReapRelease(p) \/ ReapDrop(p)
       \/ Probe(p) \/ Sweep(p)
       \/ Stop(p) \/ StopReturns(p) \/ StopGivenUp(p) \/ StopTears(p) \/ TearDownEnds(p)
       \/ RedeployMarks(p) \/ DrainEnded(p) \/ DrainEmptied(p) \/ DrainHurried(p) \/ DrainRanOut(p)
  \/ AgentDown \/ Adopt

\* Goroutines run, timers fire and a killed process ends; nothing makes a world end of itself.
Fairness ==
  /\ WF_vars(Adopt)
  /\ \A p \in Pids :
       /\ WF_vars(ReapExit(p)) /\ WF_vars(ReapRelease(p)) /\ WF_vars(ReapDrop(p))
       /\ WF_vars(StopReturns(p)) /\ WF_vars(StopTears(p)) /\ WF_vars(TearDownEnds(p))
       /\ WF_vars(RedeployMarks(p)) /\ WF_vars(DrainEnded(p)) /\ WF_vars(DrainHurried(p))
       /\ WF_vars(at[p] = "killed" /\ ProcessEnds(p))
  /\ WF_vars(\E f \in writing : RedeployWrites(f))

Spec == Init /\ [][Next]_vars /\ Fairness

-----------------------------------------------------------------------------

TypeOK ==
  /\ at \in [Pids -> {"unborn", "runs", "ending", "killed", "gone"}]
  /\ who \in [Pids -> Ids \cup {None}] /\ port \in [Pids -> Ports \cup {None}]
  /\ bound \in SUBSET Pids /\ crowd \in SUBSET Pids
  /\ files \in SUBSET Record /\ unwritten \in SUBSET Pids /\ unread \in SUBSET Pids
  /\ agent \in BOOLEAN /\ crashes \in 0 .. MaxCrashes
  /\ inst \in [Pids -> Instance] /\ entries \in SUBSET Pids /\ issued \in SUBSET Ports
  /\ stopping \in SUBSET Pids /\ held \in SUBSET Pids
  /\ writing \in SUBSET Record

\* What the agent may fairly have lost sight of: a process whose record was not written, or whose pid
\* it could not ask about as it booted.
Lost == unwritten \cup unread

\* While the agent runs, every live process it has not lost is in the map and not taken for done: a
\* drain cut off, a client that hangs up or a restart leaves no live process with no entry naming it.
LiveIsNamed == agent => \A p \in Pids \ Lost : Live(p) => p \in Running

\* A live process has its record, whatever a redeploy was writing as a reaper dropped, so that the
\* next run of the agent can find it; all a write that fails costs is that process.
LiveIsRecorded ==
  \A p \in Pids : Live(p) => p \in unwritten \/ \E f \in files : f.pid = p /\ f.id = who[p] /\ f.port = port[p]

\* The cap is a cap across restarts: all that may run beside it is what the agent has lost.
CapHolds == Cardinality({p \in Pids \ Lost : Live(p)}) <= MaxInstances

\* No two processes are told the same port while both run: not in the window before the first has
\* bound it, and not after a restart that emptied the set of issued ports.
PortsExclusive ==
  \A p, q \in Pids :
    Live(p) /\ Live(q) /\ p # q /\ port[p] = port[q] => p \in unwritten \/ q \in unwritten

\* Once a redeploy is through with a world, a restart finds it ending: its record tells of the drain.
DrainRemembered ==
  \A p \in Pids :
    inst[p].stop \in {"waiting", "hurried"} /\ Live(p) =>
      \/ p \in unwritten
      \/ \E f \in files : f.pid = p /\ f.draining
      \/ \E f \in writing : f.pid = p

\* A stop is answered unless its caller hangs up or the agent goes, and does not wait out a deadline
\* sized to a match: the drain it finds under way is hurried and the child taken.
StopAnswered == \A p \in Pids : p \in stopping ~> p \notin stopping

\* A drain that was written down ends, players or not and through restarts, once deadlines pass.
DrainsEnd ==
  (\A p \in Pids : WF_vars(DrainEmptied(p) \/ DrainRanOut(p))) =>
    \A p \in Pids : (\E f \in files : f.pid = p /\ f.draining) ~> at[p] = "gone"
=============================================================================
