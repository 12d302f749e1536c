-------------------------------- MODULE Builds --------------------------------
(***************************************************************************)
(* From a saved draft to a version that can be played: saves and publishes *)
(* at the api (routes/workspace.ts, publishing.ts, tasks.ts, build.ts),    *)
(* its task rows (store.ts), the sweeper, the Redis stream that announces  *)
(* a task (queue.ts) and the build boxes (game-builder/src/consumer.ts).   *)
(*                                                                         *)
(* One game with one asset.  A revision's manifest is the asset's version  *)
(* (0: no asset); a compile is an outcome; what a build stores is the set  *)
(* of names under its revision's prefix.  The worker that verifies assets  *)
(* and the stream are external.                                            *)
(***************************************************************************)
EXTENDS Naturals, Sequences, SequencesExt, FiniteSetsExt

CONSTANTS
    Boxes,
    BUILD_ATTEMPTS,
    MaxRevision,    \* saves
    MaxEvents,      \* saves, publishes and faults: boxes that die, calls that go unanswered, pushes
                    \* that do not land
    MaxEntries      \* entries of one task the stream may hold at a time

ASSUME BuildsAssumption ==
    /\ BUILD_ATTEMPTS \in Nat \ {0}
    /\ {MaxRevision, MaxEvents, MaxEntries} \subseteq Nat

VARIABLES
    draft,      \* the game's row: its revision, its asset's version and the verdict on it, and the
                \* revision last published
    frozen,     \* the manifest of each revision
    tasks,      \* task rows, by id
    publishes,  \* publish requests being served
    stream,     \* entries not acknowledged
    box,
    outputs,    \* what is stored under each revision's build prefix
    events      \* saves, publishes and faults so far

buildVars == <<draft, frozen, tasks, publishes, stream, box, outputs, events>>

OUTPUTS == <<"client", "simConfig", "server", "manifest">>
Idle == [at |-> "idle", task |-> 0, copy |-> 0, attempts |-> 0]

BuildsInit ==
    /\ draft = [revision |-> 0, version |-> 0, validated |-> 0, published |-> 0]
    /\ frozen = <<>>
    /\ tasks = <<>>
    /\ publishes = {}
    /\ stream = {}
    /\ box = [b \in Boxes |-> Idle]
    /\ outputs = [r \in 1..MaxRevision |-> {}]
    /\ events = 0

-----------------------------------------------------------------------------
\* Task rows and their announcement.

isTerminal(status) == status \in {"SUCCESSFUL", "FAILED"}

Task(kind, revision, version) ==
    [kind |-> kind, revision |-> revision, version |-> version, status |-> "NOT_STARTED",
     attempts |-> 0]

\* advanceTask on a live row: a claim is counted, and the verdict on an upload is written beside it,
\* on the file only while it still holds the version that was looked at.
advanced(k, status) ==
    [tasks EXCEPT ![k].status = status,
                  ![k].attempts = IF status = "IN_PROGRESS" THEN @ + 1 ELSE @]

\* Mutant: the verdict is written by path, on whatever version the file has by now.
verdict_ByPath(k, status) ==
    IF tasks[k].kind = "ASSET_UPLOAD" /\ status = "SUCCESSFUL" /\ draft.version /= 0
    THEN [draft EXCEPT !.validated = draft.version]
    ELSE draft

verdict(k, status) ==
    IF tasks[k].kind = "ASSET_UPLOAD" /\ status = "SUCCESSFUL" /\ draft.version = tasks[k].version
    THEN [draft EXCEPT !.validated = tasks[k].version]
    ELSE draft

advanceTask(k, status) ==
    /\ tasks' = advanced(k, status)
    /\ draft' = verdict(k, status)

occurs == events < MaxEvents /\ events' = events + 1

Held(s, k) == {e \in s : e.task = k}

\* A push adds an entry, whose id no other entry and no box at work holds.
Ids == 1..(MaxEntries + MaxEvents + Cardinality(Boxes))
pushed(s, k) ==
    LET used == {e.copy : e \in Held(s, k)} \cup {box[b].copy : b \in {c \in Boxes : box[c].task = k}}
    IN  s \cup {[task |-> k, copy |-> Min(Ids \ used)]}

\* The row is committed first; the push behind it may not land.
announce(k) ==
    \/ stream' = pushed(stream, k) /\ UNCHANGED events
    \/ occurs /\ UNCHANGED stream

\* Mutant: a sweep looks for work somebody has begun.
unclaimed_Begun(k) == tasks[k].status = "IN_PROGRESS"

unclaimed(k) == tasks[k].status = "NOT_STARTED"

\* One row of a sweep: re-announced if nobody ever claimed it.
sweep(k) ==
    /\ unclaimed(k) /\ tasks[k].kind = "BUILD"
    /\ Cardinality(Held(stream, k)) < MaxEntries
    /\ stream' = pushed(stream, k)
    /\ UNCHANGED <<draft, frozen, tasks, publishes, box, outputs, events>>

-----------------------------------------------------------------------------
\* The creator's routes.

\* A save: source only, a new version of the asset with the task that verifies it, or its removal.
saveWorkspace(change) ==
    /\ draft.revision < MaxRevision
    /\ occurs
    /\ LET next == draft.revision + 1
           version == CASE change = "source" -> draft.version
                        [] change = "asset"  -> next
                        [] change = "remove" -> 0
       IN  /\ draft' = [draft EXCEPT !.revision = next, !.version = version,
                                     !.validated = IF change = "remove" THEN 0 ELSE @]
           /\ frozen' = Append(frozen, version)
           /\ tasks' = IF change = "asset" THEN Append(tasks, Task("ASSET_UPLOAD", next, next)) ELSE tasks
    /\ UNCHANGED <<publishes, stream, box, outputs>>

\* A publish reads the revision, looks for unverified assets, and queues a build of what it read.
publish ==
    /\ occurs
    /\ draft.revision > 0
    /\ publishes' = publishes \cup {[revision |-> draft.revision, n |-> events, at |-> "read"]}
    /\ UNCHANGED <<draft, frozen, tasks, stream, box, outputs>>

unvalidatedAssets == draft.version /= 0 /\ draft.validated /= draft.version

LiveBuild(r) == {k \in DOMAIN tasks : /\ tasks[k].kind = "BUILD" /\ tasks[k].revision = r
                                     /\ ~isTerminal(tasks[k].status)}

\* A build already live is announced again, any other is queued, announced and then marked published.
queueTask(p) ==
    /\ p.at = "read"
    /\ IF unvalidatedAssets
       THEN publishes' = publishes \ {p} /\ UNCHANGED <<tasks, stream, events>>
       ELSE LET live == LiveBuild(p.revision)
            IN  /\ tasks' = IF live /= {} THEN tasks ELSE Append(tasks, Task("BUILD", p.revision, 0))
                /\ announce(IF live /= {} THEN Min(live) ELSE Len(tasks'))
                /\ publishes' = (publishes \ {p}) \cup
                                (IF live /= {} THEN {} ELSE {[p EXCEPT !.at = "queued"]})
    /\ UNCHANGED <<draft, frozen, box, outputs>>

markPublished(p) ==
    /\ p.at = "queued"
    /\ publishes' = publishes \ {p}
    /\ draft' = [draft EXCEPT !.published = p.revision]
    /\ UNCHANGED <<frozen, tasks, stream, box, outputs, events>>

\* The asset service settles an upload: external.
assetVerified(k, status) ==
    /\ tasks[k].kind = "ASSET_UPLOAD" /\ ~isTerminal(tasks[k].status)
    /\ advanceTask(k, status)
    /\ UNCHANGED <<frozen, publishes, stream, box, outputs, events>>

-----------------------------------------------------------------------------
\* A build box.

goes(b, at) == box' = [box EXCEPT ![b].at = at]

\* An acknowledgement names the entry, whichever box holds it by now.
acked(b) == stream \ {[task |-> box[b].task, copy |-> box[b].copy]}

\* One pass: an entry nobody has read, or one claimed longer ago than the deadline, which its owner
\* may have died holding or be working on still.
takeEntry(b) ==
    /\ box[b].at = "idle"
    /\ \E e \in stream : box' = [box EXCEPT ![b] = [at |-> "handed", task |-> e.task, copy |-> e.copy,
                                                      attempts |-> 0]]
    /\ UNCHANGED <<draft, frozen, tasks, publishes, stream, outputs, events>>

\* The claim: refused for settled work, which is acknowledged, and counted against the attempts.
claim(b) ==
    LET k == box[b].task
    IN  /\ box[b].at = "handed"
        /\ IF isTerminal(tasks[k].status)
           THEN /\ stream' = acked(b) /\ box' = [box EXCEPT ![b] = Idle]
                /\ UNCHANGED <<tasks, draft>>
           ELSE /\ advanceTask(k, "IN_PROGRESS")
                /\ box' = [box EXCEPT ![b].at = IF tasks[k].attempts + 1 > BUILD_ATTEMPTS THEN "giveUp"
                                                ELSE "compile",
                                      ![b].attempts = tasks[k].attempts + 1]
                /\ UNCHANGED stream
        /\ UNCHANGED <<frozen, publishes, outputs, events>>

\* What the toolchain says of the source; a revision is compiled from its frozen manifest.
compile(b, outcome) ==
    /\ box[b].at = "compile"
    /\ goes(b, IF outcome = "compiled" THEN "store" ELSE "giveUp")
    /\ UNCHANGED <<draft, frozen, tasks, publishes, stream, outputs, events>>

Revision(b) == tasks[box[b].task].revision

\* Mutant: the commit marker goes out ahead of the server's half.
nextOutput_MarkerEarly(r) ==
    LET order == <<"client", "simConfig", "manifest", "server">>
    IN  order[Min({i \in 1..4 : order[i] \notin outputs[r]})]

nextOutput(r) == OUTPUTS[Min({i \in 1..4 : OUTPUTS[i] \notin outputs[r]})]

\* The next of the four outputs; a build begun again stores them again, which changes nothing.
store(b) ==
    LET r == Revision(b)
    IN  /\ box[b].at = "store"
        /\ IF outputs[r] = ToSet(OUTPUTS)
           THEN goes(b, "succeed") /\ UNCHANGED outputs
           ELSE outputs' = [outputs EXCEPT ![r] = @ \cup {nextOutput(r)}] /\ UNCHANGED box
        /\ UNCHANGED <<draft, frozen, tasks, publishes, stream, events>>

\* The box, the bucket or the toolchain fails: left for another box while attempts remain.
unavailable(b) ==
    /\ box[b].at \in {"compile", "store"}
    /\ occurs
    /\ IF box[b].attempts < BUILD_ATTEMPTS
       THEN box' = [box EXCEPT ![b] = Idle]
       ELSE goes(b, "giveUp")
    /\ UNCHANGED <<draft, frozen, tasks, publishes, stream, outputs>>

\* The outcome is written down and the entry acknowledged, also when another box had settled it.
settle(b) ==
    LET k == box[b].task
    IN  /\ box[b].at \in {"giveUp", "succeed"}
        /\ tasks' = IF isTerminal(tasks[k].status) THEN tasks
                    ELSE advanced(k, IF box[b].at = "succeed" THEN "SUCCESSFUL" ELSE "FAILED")
        /\ stream' = acked(b)
        /\ box' = [box EXCEPT ![b] = Idle]
        /\ UNCHANGED <<draft, frozen, publishes, outputs, events>>

\* A status call that is not answered, whether or not it was applied: the entry stays claimed.
unanswered(b, applied) ==
    LET k == box[b].task
        status == CASE box[b].at = "handed" -> "IN_PROGRESS" [] box[b].at = "succeed" -> "SUCCESSFUL"
                    [] OTHER -> "FAILED"
    IN  /\ box[b].at \in {"handed", "giveUp", "succeed"}
        /\ occurs
        /\ tasks' = IF applied /\ ~isTerminal(tasks[k].status) THEN advanced(k, status) ELSE tasks
        /\ box' = [box EXCEPT ![b] = Idle]
        /\ UNCHANGED <<draft, frozen, publishes, stream, outputs>>

\* The box dies, and what it had claimed stays claimed.
dies(b) ==
    /\ box[b] /= Idle
    /\ occurs
    /\ box' = [box EXCEPT ![b] = Idle]
    /\ UNCHANGED <<draft, frozen, tasks, publishes, stream, outputs>>

boxStep(b) == claim(b) \/ (\E o \in {"compiled", "rejected"} : compile(b, o)) \/ store(b) \/ settle(b)

BuildsNext ==
    \/ \E change \in {"source", "asset", "remove"} : saveWorkspace(change)
    \/ publish
    \/ \E p \in publishes : queueTask(p) \/ markPublished(p)
    \/ \E k \in DOMAIN tasks : sweep(k) \/ \E s \in {"SUCCESSFUL", "FAILED"} : assetVerified(k, s)
    \/ \E b \in Boxes : \/ takeEntry(b) \/ boxStep(b) \/ unavailable(b) \/ dies(b)
                        \/ \E applied \in BOOLEAN : unanswered(b, applied)

\* The boxes' loops and the sweeper's interval go on.
BuildsFairness ==
    /\ \A b \in Boxes : WF_buildVars(takeEntry(b)) /\ WF_buildVars(boxStep(b))
    /\ WF_buildVars(\E k \in DOMAIN tasks : sweep(k))

BuildsSpec == BuildsInit /\ [][BuildsNext]_buildVars /\ BuildsFairness

-----------------------------------------------------------------------------
\* A build manifest is the commit marker: where one is stored, everything it names is, and only such a
\* revision is played, whichever boxes died or built it twice.
NothingHalfBuilt ==
    /\ \A r \in DOMAIN outputs : "manifest" \in outputs[r] => outputs[r] = ToSet(OUTPUTS)
    /\ \A k \in DOMAIN tasks : tasks[k].kind = "BUILD" /\ tasks[k].status = "SUCCESSFUL" =>
            "manifest" \in outputs[tasks[k].revision]

Verified(version) ==
    version = 0 \/ \E k \in DOMAIN tasks : /\ tasks[k].kind = "ASSET_UPLOAD"
                                          /\ tasks[k].version = version
                                          /\ tasks[k].status = "SUCCESSFUL"

\* A file is held to be verified only if the very bytes it names passed, and a save that replaced them
\* while they were looked at does not inherit the pass.
VerdictMatchesBytes == draft.validated /= 0 /\ draft.validated = draft.version => Verified(draft.version)

\* Every build that was queued is settled, whatever pushes were lost and boxes died.
EveryBuildSettles ==
    \A k \in 1..MaxEvents :
        (k \in DOMAIN tasks /\ tasks[k].kind = "BUILD") ~> (k \in DOMAIN tasks /\ isTerminal(tasks[k].status))
=============================================================================
