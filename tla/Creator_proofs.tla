--------------------------- MODULE Creator_proofs ---------------------------
(***************************************************************************)
(* Proofs about Builds, Workspaces and Scripts: what the creator's tools   *)
(* and the creator's code promise, for any number of boxes, tabs, paths,   *)
(* saves, publishes, hosts, lives and faults.                              *)
(*                                                                         *)
(* A build's outcome is written from what a box remembers of a task, by a  *)
(* box that may not be the only one holding it.  BuildsInv ties what each  *)
(* box, entry and row says to what is stored.                              *)
(***************************************************************************)
EXTENDS Workspaces, Builds, Scripts, WellFoundedInduction, TLAPS

Statuses == {"NOT_STARTED", "IN_PROGRESS", "SUCCESSFUL", "FAILED"}
Places == {"idle", "handed", "compile", "store", "giveUp", "succeed"}
Row == [kind: {"BUILD", "ASSET_UPLOAD"}, revision: 1..MaxRevision, version: Nat, status: Statuses,
        attempts: Nat]
Copies == {0} \cup {Min(S) : S \in SUBSET Ids}

BuildsTypeOK ==
  /\ draft \in [revision: 0..MaxRevision, version: Nat, validated: Nat, published: Nat]
  /\ tasks \in Seq(Row)
  /\ publishes \subseteq [revision: 1..MaxRevision, n: Nat, at: {"read", "queued"}]
  /\ stream \subseteq [task: Nat, copy: Copies]
  /\ box \in [Boxes -> [at: Places, task: Nat, copy: Copies, attempts: Nat]]
  /\ outputs \in [1..MaxRevision -> SUBSET ToSet(OUTPUTS)]
  /\ events \in Nat

IsBuild(k) == k \in DOMAIN tasks /\ tasks[k].kind = "BUILD"

\* What the stream names and what a box works on is a build's row.
WorkIsABuild ==
  /\ \A e \in stream : IsBuild(e.task)
  /\ \A b \in Boxes : box[b].at # "idle" => IsBuild(box[b].task)

\* A box about to report success has seen all four outputs stored.
SucceedsOnceStored ==
  \A b \in Boxes : box[b].at = "succeed" => outputs[Revision(b)] = ToSet(OUTPUTS)

\* The version a file was last found good at is one whose upload succeeded.
VerdictEarned == Verified(draft.validated)

\* The inductive invariant.
BuildsInv == BuildsTypeOK /\ WorkIsABuild /\ SucceedsOnceStored /\ NothingHalfBuilt /\ VerdictEarned

-----------------------------------------------------------------------------

\* A set of numbers that is not empty has a least one: a well-founded order has minimal elements.
LEMMA LeastOf ==
  ASSUME NEW S \in SUBSET Nat, S # {}
  PROVE  \E m \in S : \A y \in S : m =< y
<1>. DEFINE R == OpToRel(<, Nat)
<1>1. IsWellFoundedOn(R, Nat)
  BY NatLessThanWellFounded, Zenon
<1>2. \A x, y \in Nat : x < y => <<x, y>> \in R
  BY DEF OpToRel
<1>. HIDE DEF R
<1>3. PICK x \in S : \A y \in S : ~ (<<y, x>> \in R)
  BY <1>1, WFMin, Zenon
<1>4. ASSUME NEW y \in S PROVE x =< y
  <2>1. x \in Nat /\ y \in Nat
    OBVIOUS
  <2>2. ~(y < x)
    BY <1>2, <1>3, <2>1
  <2>. QED BY <2>1, <2>2
<1>. QED BY <1>4

\* How rows may change: none goes, none becomes another's, and a success stays one.
RowsKept ==
  \A j \in DOMAIN tasks :
    /\ j \in DOMAIN tasks'
    /\ tasks'[j].kind = tasks[j].kind /\ tasks'[j].revision = tasks[j].revision
    /\ tasks'[j].version = tasks[j].version
    /\ tasks[j].status = "SUCCESSFUL" => tasks'[j].status = "SUCCESSFUL"

-----------------------------------------------------------------------------

\* Whatever the creator, the asset service, the sweeper and the boxes do, in any order and with any of
\* them failing half way, what each says of a build stays true of what is stored.
THEOREM BuildsInvariant == BuildsSpec => []BuildsInv
<1>. USE BuildsAssumption
<1>1. BuildsInit => BuildsInv
  <2>. SUFFICES ASSUME BuildsInit PROVE BuildsInv
    OBVIOUS
  <2>1. BuildsTypeOK
    <3>1. Idle \in [at: Places, task: Nat, copy: Copies, attempts: Nat]
      BY DEF Idle, Places, Copies
    <3>. QED BY <3>1 DEF BuildsInit, BuildsTypeOK
  <2>. QED BY <2>1 DEF BuildsInit, BuildsInv, WorkIsABuild, SucceedsOnceStored, NothingHalfBuilt,
                       VerdictEarned, Verified, Idle, BuildsTypeOK
<1>2. BuildsInv /\ [BuildsNext]_buildVars => BuildsInv'
  <2>. SUFFICES ASSUME BuildsInv, [BuildsNext]_buildVars PROVE BuildsInv'
    OBVIOUS
  <2>a. BuildsTypeOK /\ WorkIsABuild /\ SucceedsOnceStored /\ NothingHalfBuilt /\ VerdictEarned
    BY DEF BuildsInv
  \* The push of an announcement adds one well-typed entry, of the task it is for.
  <2>push. ASSUME NEW k \in Nat, stream \subseteq [task: Nat, copy: Copies], stream' = pushed(stream, k)
           PROVE  /\ stream' \subseteq [task: Nat, copy: Copies]
                  /\ \A e \in stream' : e \in stream \/ e.task = k
    <3>. USE <2>push
    <3>. DEFINE used == {e.copy : e \in Held(stream, k)} \cup {box[b].copy : b \in {c \in Boxes : box[c].task = k}}
    <3>1. stream' = stream \cup {[task |-> k, copy |-> Min(Ids \ used)]}
      BY DEF pushed
    <3>2. Ids \ used \in SUBSET Ids
      OBVIOUS
    <3>3. Min(Ids \ used) \in Copies
      <4>. HIDE DEF used
      <4>. QED BY <3>2 DEF Copies
    <3>. QED BY <3>1, <3>3
  \* What is stored next is one of the outputs not there yet, and the manifest only when it is the last.
  <2>next. ASSUME NEW r, outputs[r] \subseteq ToSet(OUTPUTS), outputs[r] # ToSet(OUTPUTS)
           PROVE  /\ nextOutput(r) \in ToSet(OUTPUTS)
                  /\ nextOutput(r) = "manifest" => outputs[r] \cup {nextOutput(r)} = ToSet(OUTPUTS)
    <3>. USE <2>next
    <3>. DEFINE S == {i \in 1..4 : OUTPUTS[i] \notin outputs[r]}
    <3>1. /\ OUTPUTS[1] = "client" /\ OUTPUTS[2] = "simConfig" /\ OUTPUTS[3] = "server"
          /\ OUTPUTS[4] = "manifest" /\ ToSet(OUTPUTS) = {OUTPUTS[1], OUTPUTS[2], OUTPUTS[3], OUTPUTS[4]}
      BY DEF OUTPUTS, ToSet
    <3>2. PICK m \in S : \A y \in S : m =< y
      BY <3>1
    <3>3. Min(S) \in S /\ \A y \in S : Min(S) =< y
      BY <3>2 DEF Min
    <3>4. nextOutput(r) = OUTPUTS[Min(S)]
      BY DEF nextOutput
    <3>. QED BY <3>1, <3>3, <3>4
  \* A live row that is advanced keeps what it is, and is the only one to change.
  <2>advance. ASSUME BuildsTypeOK, NEW k \in DOMAIN tasks, NEW s \in Statuses, ~isTerminal(tasks[k].status),
                     tasks' = advanced(k, s)
              PROVE  /\ tasks' \in Seq(Row) /\ RowsKept /\ DOMAIN tasks' = DOMAIN tasks
                     /\ tasks'[k].status = s
                     /\ \A j \in DOMAIN tasks : j # k => tasks'[j] = tasks[j]
    <3>. USE <2>advance
    <3>. DEFINE r == [tasks[k] EXCEPT !.status = s,
                                  !.attempts = IF s = "IN_PROGRESS" THEN @ + 1 ELSE @]
    <3>1. tasks \in Seq(Row) /\ tasks[k] \in Row
      BY DEF BuildsTypeOK
    <3>2. tasks' = [tasks EXCEPT ![k] = r]
      BY <3>1 DEF advanced
    <3>3. /\ r \in Row /\ r.status = s /\ r.kind = tasks[k].kind /\ r.revision = tasks[k].revision
          /\ r.version = tasks[k].version
      <4>1. ASSUME NEW x \in Row, NEW a \in Nat
            PROVE  LET y == [x EXCEPT !.status = s, !.attempts = a]
                   IN  /\ y \in Row /\ y.status = s /\ y.kind = x.kind /\ y.revision = x.revision
                       /\ y.version = x.version
        BY DEF Row
      <4>2. (IF s = "IN_PROGRESS" THEN tasks[k].attempts + 1 ELSE tasks[k].attempts) \in Nat
        BY <3>1 DEF Row
      <4>. QED BY <3>1, <4>1, <4>2
    <3>4. tasks[k].status # "SUCCESSFUL"
      BY DEF isTerminal
    <3>. HIDE DEF r
    <3>5. tasks' \in Seq(Row) /\ DOMAIN tasks' = DOMAIN tasks
      BY <3>1, <3>2, <3>3
    <3>. QED BY <3>1, <3>2, <3>3, <3>4, <3>5 DEF RowsKept
  \* A row that is added is the last one, and the others stay.
  <2>append. ASSUME BuildsTypeOK, NEW r \in Row, tasks' = Append(tasks, r)
             PROVE  /\ tasks' \in Seq(Row) /\ RowsKept
                    /\ DOMAIN tasks' = DOMAIN tasks \cup {Len(tasks')} /\ Len(tasks') \in Nat
                    /\ Len(tasks') \notin DOMAIN tasks /\ tasks'[Len(tasks')] = r
                    /\ \A j \in DOMAIN tasks : tasks'[j] = tasks[j]
    BY <2>append DEF BuildsTypeOK, RowsKept
  <2>b. ASSUME RowsKept, BuildsTypeOK', draft'.validated = draft.validated PROVE VerdictEarned'
    BY <2>a, <2>b DEF RowsKept, VerdictEarned, Verified
  <2>c. Idle \in [at: Places, task: Nat, copy: Copies, attempts: Nat] /\ Idle.at = "idle"
    BY DEF Idle, Places, Copies
  <2>d. tasks' = tasks => RowsKept
    BY DEF RowsKept
  <2>e. ASSUME NEW b \in Boxes, NEW x \in Places, goes(b, x)
        PROVE  /\ box' \in [Boxes -> [at: Places, task: Nat, copy: Copies, attempts: Nat]]
               /\ box'[b].at = x /\ box'[b].task = box[b].task
               /\ \A c \in Boxes : c # b => box'[c] = box[c]
    BY <2>a, <2>e DEF BuildsTypeOK, goes
  <2>f. ASSUME NEW b \in Boxes, box' = [box EXCEPT ![b] = Idle]
        PROVE  /\ box' \in [Boxes -> [at: Places, task: Nat, copy: Copies, attempts: Nat]]
               /\ box'[b].at = "idle" /\ \A c \in Boxes : c # b => box'[c] = box[c]
    BY <2>a, <2>c, <2>f DEF BuildsTypeOK
  \* A box that is let go, or goes on without success, and rows that are kept.
  <2>g. ASSUME NEW b \in Boxes, box'[b].at # "succeed", box'[b].at # "idle" => IsBuild(box'[b].task),
               \A c \in Boxes : c # b => box'[c] = box[c],
               BuildsTypeOK', RowsKept, stream' \subseteq stream, outputs' = outputs
        PROVE  WorkIsABuild' /\ SucceedsOnceStored'
    <3>1. WorkIsABuild'
      BY <2>a, <2>g DEF WorkIsABuild, IsBuild, RowsKept
    <3>2. SucceedsOnceStored'
      BY <2>a, <2>g DEF WorkIsABuild, SucceedsOnceStored, Revision, IsBuild, RowsKept
    <3>. QED BY <3>1, <3>2
  \* A box reports and is let go: a success only of what is stored.
  <2>h. ASSUME NEW b \in Boxes, NEW x \in Statuses, x = "SUCCESSFUL" => box[b].at = "succeed",
               box[b].at # "idle",
               \/ tasks' = tasks
               \/ ~isTerminal(tasks[box[b].task].status) /\ tasks' = advanced(box[b].task, x),
               box' = [box EXCEPT ![b] = Idle], stream' \subseteq stream, events' \in Nat,
               UNCHANGED <<draft, publishes, outputs>>
        PROVE  BuildsInv'
    <3>. DEFINE k == box[b].task
    <3>1. IsBuild(k)
      BY <2>a, <2>h DEF WorkIsABuild
    <3>2. /\ tasks' \in Seq(Row) /\ RowsKept /\ DOMAIN tasks' = DOMAIN tasks
          /\ \/ tasks' = tasks
             \/ tasks'[k].status = x /\ \A j \in DOMAIN tasks : j # k => tasks'[j] = tasks[j]
      <4>1. CASE tasks' = tasks
        BY <2>a, <2>d, <4>1 DEF BuildsTypeOK
      <4>2. CASE ~isTerminal(tasks[k].status) /\ tasks' = advanced(k, x)
        <5>. HIDE DEF k
        <5>. QED BY <2>a, <3>1, <4>2, <2>advance DEF IsBuild
      <4>. QED BY <2>h, <4>1, <4>2
    <3>3. BuildsTypeOK'
      BY <2>a, <2>f, <2>h, <3>2 DEF BuildsTypeOK, Ids, Copies
    <3>4. WorkIsABuild' /\ SucceedsOnceStored'
      BY <2>f, <2>g, <2>h, <3>2, <3>3
    <3>5. NothingHalfBuilt'
      <4>1. \A j \in DOMAIN tasks' : tasks'[j].kind = "BUILD" /\ tasks'[j].status = "SUCCESSFUL" =>
                "manifest" \in outputs[tasks'[j].revision]
        <5>. SUFFICES ASSUME NEW j \in DOMAIN tasks, tasks'[j].kind = "BUILD",
                             tasks'[j].status = "SUCCESSFUL"
                      PROVE  "manifest" \in outputs[tasks'[j].revision]
          BY <3>2
        <5>0. tasks'[j].kind = tasks[j].kind /\ tasks'[j].revision = tasks[j].revision
          BY <3>2 DEF RowsKept
        <5>1. CASE tasks[j].status = "SUCCESSFUL"
          BY <2>a, <5>0, <5>1 DEF NothingHalfBuilt
        <5>2. CASE tasks[j].status # "SUCCESSFUL"
          <6>1. j = k /\ box[b].at = "succeed"
            BY <2>h, <3>2, <5>2
          <6>2. outputs[tasks[j].revision] = ToSet(OUTPUTS)
            BY <2>a, <6>1 DEF SucceedsOnceStored, Revision
          <6>. QED BY <5>0, <6>2 DEF ToSet, OUTPUTS
        <5>. QED BY <5>1, <5>2
      <4>. QED BY <2>a, <2>h, <4>1 DEF NothingHalfBuilt
    <3>. QED BY <2>b, <2>h, <3>2, <3>3, <3>4, <3>5 DEF BuildsInv
  <2>i. \A j \in DOMAIN tasks : tasks[j] \in Row /\ tasks[j].revision \in 1..MaxRevision /\ tasks[j].attempts \in Nat
    <3>1. \A j \in DOMAIN tasks : tasks[j] \in Row
      BY <2>a DEF BuildsTypeOK
    <3>. QED BY <3>1 DEF Row
  <2>1. CASE UNCHANGED buildVars
    BY <2>1 DEF buildVars, BuildsInv, BuildsTypeOK, WorkIsABuild, SucceedsOnceStored,
                NothingHalfBuilt, VerdictEarned, Verified, IsBuild, Revision, Ids, Copies
  <2>2. ASSUME NEW change \in {"source", "asset", "remove"}, saveWorkspace(change) PROVE BuildsInv'
    <3>. DEFINE next == draft.revision + 1
                row == Task("ASSET_UPLOAD", next, next)
    <3>1. /\ draft' \in [revision: 0..MaxRevision, version: Nat, validated: Nat, published: Nat]
          /\ draft'.validated \in {0, draft.validated} /\ events' \in Nat
      <4>. DEFINE v == CASE change = "source" -> draft.version
                         [] change = "asset"  -> next
                         [] change = "remove" -> 0
                  w == IF change = "remove" THEN 0 ELSE draft.validated
      <4>1. draft' = [draft EXCEPT !.revision = next, !.version = v, !.validated = w]
        BY <2>2 DEF saveWorkspace
      <4>2. next \in 0..MaxRevision /\ events' \in Nat
        BY <2>a, <2>2 DEF saveWorkspace, occurs, BuildsTypeOK
      <4>3. draft.version \in Nat /\ draft.validated \in Nat
        BY <2>a DEF BuildsTypeOK
      <4>4. v \in Nat /\ w \in Nat /\ w \in {0, draft.validated}
        BY <4>2, <4>3
      <4>. HIDE DEF next, v, w
      <4>. QED BY <2>a, <4>1, <4>2, <4>4 DEF BuildsTypeOK
    <3>2. row \in Row
      BY <2>a, <2>2 DEF saveWorkspace, Task, Row, Statuses, BuildsTypeOK
    <3>3. tasks' = tasks \/ tasks' = Append(tasks, row)
      BY <2>2 DEF saveWorkspace
    <3>4. /\ RowsKept /\ tasks' \in Seq(Row)
          /\ \A j \in DOMAIN tasks' : \/ j \in DOMAIN tasks /\ tasks'[j] = tasks[j]
                                      \/ tasks'[j].kind # "BUILD"
      <4>. HIDE DEF row
      <4>1. row.kind # "BUILD"
        BY DEF row, Task
      <4>. QED BY <2>a, <2>d, <3>2, <3>3, <4>1, <2>append DEF BuildsTypeOK
    <3>5. UNCHANGED <<publishes, stream, box, outputs>>
      BY <2>2 DEF saveWorkspace
    <3>6. BuildsTypeOK'
      BY <2>a, <3>1, <3>4, <3>5 DEF BuildsTypeOK, Ids, Copies
    <3>7. WorkIsABuild' /\ SucceedsOnceStored'
      BY <2>a, <3>4, <3>5 DEF WorkIsABuild, SucceedsOnceStored, RowsKept, IsBuild, Revision
    <3>8. NothingHalfBuilt'
      BY <2>a, <3>4, <3>5 DEF NothingHalfBuilt
    <3>9. VerdictEarned'
      <4>1. CASE draft'.validated = 0
        BY <4>1 DEF VerdictEarned, Verified
      <4>. QED BY <2>b, <3>1, <3>4, <3>6, <4>1
    <3>. QED BY <3>6, <3>7, <3>8, <3>9 DEF BuildsInv
  <2>3. CASE publish
    <3>1. UNCHANGED <<draft, tasks, stream, box, outputs>> /\ events' \in Nat
      BY <2>a, <2>3 DEF publish, occurs, BuildsTypeOK
    <3>2. publishes' \subseteq [revision: 1..MaxRevision, n: Nat, at: {"read", "queued"}]
      <4>1. draft.revision \in 1..MaxRevision /\ events \in Nat
        BY <2>a, <2>3 DEF publish, BuildsTypeOK
      <4>. QED BY <2>a, <2>3, <4>1 DEF publish, BuildsTypeOK
    <3>3. BuildsTypeOK'
      BY <2>a, <3>1, <3>2 DEF BuildsTypeOK, Ids, Copies
    <3>. QED BY <2>a, <2>b, <2>d, <3>1, <3>3 DEF BuildsInv, WorkIsABuild, SucceedsOnceStored,
                NothingHalfBuilt, IsBuild, Revision
  <2>4. ASSUME NEW q \in publishes, queueTask(q) PROVE BuildsInv'
    <3>. DEFINE row == Task("BUILD", q.revision, 0)
                live == LiveBuild(q.revision)
    <3>0. UNCHANGED <<draft, box, outputs>> /\ q \in [revision: 1..MaxRevision, n: Nat, at: {"read", "queued"}]
      BY <2>a, <2>4 DEF queueTask, BuildsTypeOK
    <3>1. CASE unvalidatedAssets
      <4>1. UNCHANGED <<draft, tasks, stream, box, outputs, events>> /\ publishes' = publishes \ {q}
        BY <2>4, <3>1 DEF queueTask
      <4>2. BuildsTypeOK'
        BY <2>a, <4>1 DEF BuildsTypeOK, Ids, Copies
      <4>. QED BY <2>a, <2>b, <2>d, <4>1, <4>2 DEF BuildsInv, WorkIsABuild, SucceedsOnceStored,
                  NothingHalfBuilt, IsBuild, Revision
    <3>2. CASE ~unvalidatedAssets
      <4>1. /\ tasks' = IF live # {} THEN tasks ELSE Append(tasks, row)
            /\ announce(IF live # {} THEN Min(live) ELSE Len(tasks'))
            /\ publishes' \subseteq publishes \cup {[q EXCEPT !.at = "queued"]}
        BY <2>4, <3>2 DEF queueTask
      <4>2. row \in Row /\ row.kind = "BUILD" /\ row.status = "NOT_STARTED"
        BY <3>0 DEF Task, Row, Statuses
      <4>3. PICK k \in Nat :
              /\ \/ tasks' = tasks /\ IsBuild(k)
                 \/ tasks' = Append(tasks, row) /\ k = Len(tasks')
              /\ announce(k)
        <5>1. CASE live # {}
          <6>1. live \in SUBSET Nat /\ \A j \in live : IsBuild(j)
            BY <2>a DEF LiveBuild, BuildsTypeOK, IsBuild
          <6>0. tasks' = tasks /\ announce(Min(live))
            BY <4>1, <5>1
          <6>2. PICK m \in live : \A y \in live : m =< y
            BY <5>1, <6>1, LeastOf
          <6>. HIDE DEF live
          <6>3. Min(live) \in live
            BY <6>2 DEF Min
          <6>. QED BY <6>0, <6>1, <6>3
        <5>2. CASE live = {}
          BY <2>a, <4>1, <4>2, <5>2, <2>append
        <5>. QED BY <5>1, <5>2
      <4>. HIDE DEF row, live
      <4>4. /\ RowsKept /\ tasks' \in Seq(Row) /\ IsBuild(k)'
            /\ \A j \in DOMAIN tasks' : \/ j \in DOMAIN tasks /\ tasks'[j] = tasks[j]
                                        \/ tasks'[j].status # "SUCCESSFUL"
        BY <2>a, <2>d, <4>2, <4>3, <2>append DEF IsBuild, BuildsTypeOK
      <4>5. /\ stream' \subseteq [task: Nat, copy: Copies] /\ events' \in Nat
            /\ \A e \in stream' : e \in stream \/ e.task = k
        BY <2>a, <4>3, <2>push DEF announce, occurs, BuildsTypeOK
      <4>6. BuildsTypeOK'
        BY <2>a, <3>0, <4>1, <4>4, <4>5 DEF BuildsTypeOK, Ids, Copies
      <4>7. WorkIsABuild' /\ SucceedsOnceStored'
        BY <2>a, <3>0, <4>4, <4>5 DEF WorkIsABuild, SucceedsOnceStored, IsBuild, RowsKept, Revision
      <4>8. NothingHalfBuilt'
        BY <2>a, <3>0, <4>4 DEF NothingHalfBuilt
      <4>. QED BY <2>b, <3>0, <4>4, <4>6, <4>7, <4>8 DEF BuildsInv
    <3>. QED BY <3>1, <3>2
  <2>5. ASSUME NEW q \in publishes, markPublished(q) PROVE BuildsInv'
    <3>1. /\ UNCHANGED <<tasks, stream, box, outputs, events>> /\ publishes' \subseteq publishes
          /\ draft' = [draft EXCEPT !.published = q.revision]
      BY <2>5 DEF markPublished
    <3>2. /\ draft'.validated = draft.validated
          /\ draft' \in [revision: 0..MaxRevision, version: Nat, validated: Nat, published: Nat]
      <4>1. q.revision \in Nat
        BY <2>a DEF BuildsTypeOK
      <4>. QED BY <2>a, <3>1, <4>1 DEF BuildsTypeOK
    <3>3. BuildsTypeOK'
      BY <2>a, <3>1, <3>2 DEF BuildsTypeOK, Ids, Copies
    <3>. QED BY <2>a, <2>b, <2>d, <3>1, <3>2, <3>3 DEF BuildsInv, WorkIsABuild, SucceedsOnceStored,
                NothingHalfBuilt, IsBuild, Revision
  <2>6. ASSUME NEW k \in DOMAIN tasks, sweep(k) PROVE BuildsInv'
    <3>1. UNCHANGED <<draft, tasks, publishes, box, outputs, events>> /\ stream' = pushed(stream, k)
          /\ IsBuild(k) /\ k \in Nat
      BY <2>a, <2>6 DEF sweep, IsBuild, BuildsTypeOK
    <3>2. /\ stream' \subseteq [task: Nat, copy: Copies]
          /\ \A e \in stream' : e \in stream \/ e.task = k
      BY <2>a, <3>1, <2>push DEF BuildsTypeOK
    <3>3. BuildsTypeOK'
      BY <2>a, <3>1, <3>2 DEF BuildsTypeOK, Ids, Copies
    <3>. QED BY <2>a, <2>b, <2>d, <3>1, <3>2, <3>3 DEF BuildsInv, WorkIsABuild, SucceedsOnceStored,
                NothingHalfBuilt, IsBuild, Revision
  <2>7. ASSUME NEW k \in DOMAIN tasks, NEW st \in {"SUCCESSFUL", "FAILED"}, assetVerified(k, st)
        PROVE  BuildsInv'
    <3>1. /\ UNCHANGED <<publishes, stream, box, outputs, events>> /\ ~isTerminal(tasks[k].status)
          /\ tasks' = advanced(k, st) /\ draft' = verdict(k, st) /\ tasks[k].kind = "ASSET_UPLOAD"
      BY <2>7 DEF assetVerified, advanceTask
    <3>2. /\ tasks' \in Seq(Row) /\ RowsKept /\ DOMAIN tasks' = DOMAIN tasks /\ tasks'[k].status = st
          /\ \A j \in DOMAIN tasks : j # k => tasks'[j] = tasks[j]
      BY <2>a, <3>1, <2>advance DEF Statuses
    <3>3. \/ draft' = draft
          \/ st = "SUCCESSFUL" /\ draft' = [draft EXCEPT !.validated = tasks[k].version]
      BY <3>1 DEF verdict
    <3>4. tasks[k] \in Row
      BY <2>a DEF BuildsTypeOK
    <3>5. BuildsTypeOK'
      BY <2>a, <3>1, <3>2, <3>3, <3>4 DEF BuildsTypeOK, Row, Ids, Copies
    <3>6. WorkIsABuild' /\ SucceedsOnceStored'
      BY <2>a, <3>1, <3>2 DEF WorkIsABuild, SucceedsOnceStored, IsBuild, RowsKept, Revision
    <3>7. NothingHalfBuilt'
      BY <2>a, <3>1, <3>2 DEF NothingHalfBuilt, RowsKept
    <3>8. VerdictEarned'
      <4>1. CASE draft' = draft
        BY <2>b, <3>2, <3>5, <4>1
      <4>2. CASE st = "SUCCESSFUL" /\ draft' = [draft EXCEPT !.validated = tasks[k].version]
        <5>1. draft'.validated = tasks[k].version
          BY <2>a, <4>2 DEF BuildsTypeOK
        <5>2. /\ k \in DOMAIN tasks' /\ tasks'[k].kind = "ASSET_UPLOAD"
              /\ tasks'[k].version = tasks[k].version /\ tasks'[k].status = "SUCCESSFUL"
          BY <3>1, <3>2, <4>2 DEF RowsKept
        <5>. QED BY <5>1, <5>2 DEF VerdictEarned, Verified
      <4>. QED BY <3>3, <4>1, <4>2
    <3>. QED BY <3>5, <3>6, <3>7, <3>8 DEF BuildsInv
  <2>8. ASSUME NEW b \in Boxes, takeEntry(b) PROVE BuildsInv'
    <3>1. PICK e \in stream : box' = [box EXCEPT ![b] = [at |-> "handed", task |-> e.task,
                                                       copy |-> e.copy, attempts |-> 0]]
      BY <2>8 DEF takeEntry
    <3>2. UNCHANGED <<draft, tasks, publishes, stream, outputs, events>>
      BY <2>8 DEF takeEntry
    <3>3. /\ box' \in [Boxes -> [at: Places, task: Nat, copy: Copies, attempts: Nat]]
          /\ box'[b].at = "handed" /\ box'[b].task = e.task /\ \A c \in Boxes : c # b => box'[c] = box[c]
      BY <2>a, <3>1 DEF BuildsTypeOK, Places
    <3>4. BuildsTypeOK'
      BY <2>a, <3>2, <3>3 DEF BuildsTypeOK, Ids, Copies
    <3>5. IsBuild(box'[b].task)
      BY <2>a, <3>3 DEF WorkIsABuild
    <3>. QED BY <2>a, <2>b, <2>d, <2>g, <3>2, <3>3, <3>4, <3>5 DEF BuildsInv, NothingHalfBuilt
  <2>9. ASSUME NEW b \in Boxes, claim(b) PROVE BuildsInv'
    <3>. DEFINE k == box[b].task
    <3>0. box[b].at = "handed" /\ UNCHANGED <<publishes, outputs, events>>
      BY <2>9 DEF claim
    <3>1. IsBuild(k)
      BY <2>a, <3>0 DEF WorkIsABuild
    <3>2. CASE isTerminal(tasks[k].status)
      <4>1. stream' = acked(b) /\ box' = [box EXCEPT ![b] = Idle] /\ UNCHANGED <<tasks, draft>>
        BY <2>9, <3>2 DEF claim
      <4>2. BuildsTypeOK'
        BY <2>a, <2>f, <3>0, <4>1 DEF BuildsTypeOK, acked, Ids, Copies
      <4>. QED BY <2>a, <2>b, <2>d, <2>f, <2>g, <3>0, <4>1, <4>2 DEF BuildsInv, NothingHalfBuilt, acked
    <3>3. CASE ~isTerminal(tasks[k].status)
      <4>. DEFINE x == IF tasks[k].attempts + 1 > BUILD_ATTEMPTS THEN "giveUp" ELSE "compile"
      <4>1. /\ tasks' = advanced(k, "IN_PROGRESS") /\ draft' = verdict(k, "IN_PROGRESS")
            /\ box' = [box EXCEPT ![b].at = x, ![b].attempts = tasks[k].attempts + 1]
            /\ stream' = stream
        BY <2>9, <3>3 DEF claim, advanceTask
      <4>2. draft' = draft
        BY <4>1 DEF verdict
      <4>3. /\ tasks' \in Seq(Row) /\ RowsKept /\ DOMAIN tasks' = DOMAIN tasks
            /\ tasks'[k].status = "IN_PROGRESS" /\ \A j \in DOMAIN tasks : j # k => tasks'[j] = tasks[j]
        <5>. HIDE DEF k
        <5>. QED BY <2>a, <3>1, <3>3, <4>1, <2>advance DEF Statuses, IsBuild
      <4>4. x \in Places \ {"idle", "succeed"} /\ tasks[k].attempts + 1 \in Nat
        <5>. HIDE DEF k
        <5>. QED BY <2>i, <3>1 DEF Places, IsBuild
      <4>5. /\ box' \in [Boxes -> [at: Places, task: Nat, copy: Copies, attempts: Nat]]
            /\ box'[b].at = x /\ box'[b].task = k /\ \A c \in Boxes : c # b => box'[c] = box[c]
        <5>. HIDE DEF x
        <5>1. ASSUME NEW y \in [at: Places, task: Nat, copy: Copies, attempts: Nat], NEW n \in Nat
              PROVE  LET z == [y EXCEPT !.at = x, !.attempts = n]
                     IN  /\ z \in [at: Places, task: Nat, copy: Copies, attempts: Nat]
                         /\ z.at = x /\ z.task = y.task
          BY <4>4
        <5>2. box' = [box EXCEPT ![b] = [box[b] EXCEPT !.at = x, !.attempts = tasks[k].attempts + 1]]
          BY <2>a, <4>1 DEF BuildsTypeOK
        <5>. QED BY <2>a, <4>4, <5>1, <5>2 DEF BuildsTypeOK
      <4>. HIDE DEF x
      <4>6. BuildsTypeOK'
        BY <2>a, <3>0, <4>1, <4>2, <4>3, <4>5 DEF BuildsTypeOK, Ids, Copies
      <4>7. WorkIsABuild' /\ SucceedsOnceStored'
        BY <2>g, <3>0, <3>1, <4>1, <4>3, <4>4, <4>5, <4>6
      <4>8. NothingHalfBuilt'
        BY <2>a, <3>0, <4>3 DEF NothingHalfBuilt, RowsKept
      <4>. QED BY <2>b, <4>2, <4>3, <4>6, <4>7, <4>8 DEF BuildsInv
    <3>. QED BY <3>2, <3>3
  <2>10. ASSUME NEW b \in Boxes, NEW o \in {"compiled", "rejected"}, compile(b, o) PROVE BuildsInv'
    <3>. DEFINE x == IF o = "compiled" THEN "store" ELSE "giveUp"
    <3>1. goes(b, x) /\ UNCHANGED <<draft, tasks, publishes, stream, outputs, events>>
      BY <2>10 DEF compile
    <3>2. x \in Places \ {"idle", "succeed"}
      BY DEF Places
    <3>3. IsBuild(box[b].task)
      BY <2>a, <2>10 DEF WorkIsABuild, compile
    <3>. HIDE DEF x
    <3>4. BuildsTypeOK'
      BY <2>a, <2>e, <3>1, <3>2 DEF BuildsTypeOK, Ids, Copies
    <3>. QED BY <2>a, <2>b, <2>d, <2>e, <2>g, <3>1, <3>2, <3>3, <3>4 DEF BuildsInv, NothingHalfBuilt
  <2>11. ASSUME NEW b \in Boxes, store(b) PROVE BuildsInv'
    <3>. DEFINE r == Revision(b)
    <3>1. UNCHANGED <<draft, tasks, publishes, stream, events>> /\ box[b].at = "store"
      BY <2>11 DEF store
    <3>2. IsBuild(box[b].task)
      BY <2>a, <3>1 DEF WorkIsABuild
    <3>3. r \in 1..MaxRevision
      BY <2>i, <3>2 DEF Revision, IsBuild
    <3>4. CASE outputs[r] = ToSet(OUTPUTS)
      <4>1. goes(b, "succeed") /\ outputs' = outputs
        BY <2>11, <3>4 DEF store
      <4>2. /\ box' \in [Boxes -> [at: Places, task: Nat, copy: Copies, attempts: Nat]]
            /\ box'[b].task = box[b].task /\ \A c \in Boxes : c # b => box'[c] = box[c]
        BY <2>e, <4>1 DEF Places
      <4>3. BuildsTypeOK'
        BY <2>a, <3>1, <4>1, <4>2 DEF BuildsTypeOK, Ids, Copies
      <4>4. WorkIsABuild' /\ SucceedsOnceStored'
        BY <2>a, <3>1, <3>2, <3>4, <4>1, <4>2 DEF WorkIsABuild, SucceedsOnceStored, IsBuild, Revision
      <4>. QED BY <2>a, <2>b, <2>d, <3>1, <4>1, <4>3, <4>4 DEF BuildsInv, NothingHalfBuilt
    <3>5. CASE outputs[r] # ToSet(OUTPUTS)
      <4>1. outputs' = [outputs EXCEPT ![r] = @ \cup {nextOutput(r)}] /\ box' = box
        BY <2>11, <3>5 DEF store
      <4>. HIDE DEF r
      <4>2. /\ nextOutput(r) \in ToSet(OUTPUTS)
            /\ nextOutput(r) = "manifest" => outputs[r] \cup {nextOutput(r)} = ToSet(OUTPUTS)
        BY <2>a, <3>3, <3>5, <2>next DEF BuildsTypeOK
      <4>3. /\ outputs' \in [1..MaxRevision -> SUBSET ToSet(OUTPUTS)]
            /\ outputs'[r] = outputs[r] \cup {nextOutput(r)}
            /\ \A x \in 1..MaxRevision : outputs[x] \subseteq outputs'[x]
            /\ \A x \in 1..MaxRevision : x # r => outputs[x] = outputs'[x]
        BY <2>a, <3>3, <4>1, <4>2 DEF BuildsTypeOK
      <4>4. BuildsTypeOK'
        BY <2>a, <3>1, <4>1, <4>3 DEF BuildsTypeOK, Ids, Copies
      <4>5. \A j \in DOMAIN tasks : tasks[j].revision \in 1..MaxRevision
        BY <2>i
      <4>6. SucceedsOnceStored'
        <5>1. SUFFICES ASSUME NEW c \in Boxes, box[c].at = "succeed"
                       PROVE  outputs'[Revision(c)] = ToSet(OUTPUTS)
          BY <3>1, <4>1 DEF SucceedsOnceStored, Revision
        <5>2. outputs[Revision(c)] = ToSet(OUTPUTS) /\ Revision(c) \in 1..MaxRevision
          BY <2>a, <4>5, <5>1 DEF SucceedsOnceStored, WorkIsABuild, IsBuild, Revision
        <5>. QED BY <4>3, <5>2
      <4>7. WorkIsABuild'
        BY <2>a, <3>1, <4>1 DEF WorkIsABuild, IsBuild
      <4>8. NothingHalfBuilt'
        <5>1. ASSUME NEW x \in DOMAIN outputs', "manifest" \in outputs'[x]
              PROVE  outputs'[x] = ToSet(OUTPUTS)
          <6>1. x \in 1..MaxRevision /\ DOMAIN outputs = 1..MaxRevision
            BY <2>a, <4>3, <5>1 DEF BuildsTypeOK
          <6>2. CASE x # r
            BY <2>a, <4>3, <5>1, <6>1, <6>2 DEF NothingHalfBuilt
          <6>3. CASE x = r
            BY <2>a, <3>5, <4>2, <4>3, <5>1, <6>1, <6>3 DEF NothingHalfBuilt
          <6>. QED BY <6>2, <6>3
        <5>2. ASSUME NEW k \in DOMAIN tasks', tasks'[k].kind = "BUILD", tasks'[k].status = "SUCCESSFUL"
              PROVE  "manifest" \in outputs'[tasks'[k].revision]
          BY <2>a, <3>1, <4>3, <4>5, <5>2 DEF NothingHalfBuilt
        <5>. QED BY <5>1, <5>2 DEF NothingHalfBuilt
      <4>. QED BY <2>b, <2>d, <3>1, <4>4, <4>6, <4>7, <4>8 DEF BuildsInv
    <3>. QED BY <3>4, <3>5
  <2>12. ASSUME NEW b \in Boxes, unavailable(b) PROVE BuildsInv'
    <3>1. /\ UNCHANGED <<draft, tasks, publishes, stream, outputs>> /\ events' \in Nat
          /\ box[b].at \in {"compile", "store"}
          /\ box' = [box EXCEPT ![b] = Idle] \/ goes(b, "giveUp")
      BY <2>a, <2>12 DEF unavailable, occurs, BuildsTypeOK
    <3>2. IsBuild(box[b].task)
      BY <2>a, <3>1 DEF WorkIsABuild
    <3>3. /\ box' \in [Boxes -> [at: Places, task: Nat, copy: Copies, attempts: Nat]]
          /\ \/ box'[b].at = "idle"
             \/ box'[b].at = "giveUp" /\ box'[b].task = box[b].task
          /\ \A c \in Boxes : c # b => box'[c] = box[c]
      <4>1. CASE box' = [box EXCEPT ![b] = Idle]
        BY <2>f, <4>1
      <4>2. CASE goes(b, "giveUp")
        BY <2>e, <4>2 DEF Places
      <4>. QED BY <3>1, <4>1, <4>2
    <3>4. BuildsTypeOK'
      BY <2>a, <3>1, <3>3 DEF BuildsTypeOK, Ids, Copies
    <3>. QED BY <2>a, <2>b, <2>d, <2>g, <3>1, <3>2, <3>3, <3>4 DEF BuildsInv, NothingHalfBuilt
  <2>13. ASSUME NEW b \in Boxes, settle(b) PROVE BuildsInv'
    <3>. DEFINE k == box[b].task
                x == IF box[b].at = "succeed" THEN "SUCCESSFUL" ELSE "FAILED"
    <3>1. /\ UNCHANGED <<draft, publishes, outputs, events>> /\ box' = [box EXCEPT ![b] = Idle]
          /\ stream' = acked(b) /\ box[b].at \in {"giveUp", "succeed"}
          /\ tasks' = IF isTerminal(tasks[k].status) THEN tasks ELSE advanced(k, x)
      BY <2>13 DEF settle
    <3>2. x \in Statuses /\ (x = "SUCCESSFUL" => box[b].at = "succeed")
      BY DEF Statuses
    <3>3. tasks' = tasks \/ (~isTerminal(tasks[k].status) /\ tasks' = advanced(k, x))
      BY <3>1, Zenon
    <3>4. stream' \subseteq stream /\ events' \in Nat
      BY <2>a, <3>1 DEF acked, BuildsTypeOK
    <3>. HIDE DEF x
    <3>. QED BY <2>h, <3>1, <3>2, <3>3, <3>4
  <2>14. ASSUME NEW b \in Boxes, NEW applied \in BOOLEAN, unanswered(b, applied) PROVE BuildsInv'
    <3>. DEFINE k == box[b].task
                x == CASE box[b].at = "handed" -> "IN_PROGRESS" [] box[b].at = "succeed" -> "SUCCESSFUL"
                       [] OTHER -> "FAILED"
    <3>1. /\ UNCHANGED <<draft, publishes, stream, outputs>> /\ box' = [box EXCEPT ![b] = Idle]
          /\ events' \in Nat /\ box[b].at \in {"handed", "giveUp", "succeed"}
          /\ tasks' = IF applied /\ ~isTerminal(tasks[k].status) THEN advanced(k, x) ELSE tasks
      BY <2>a, <2>14 DEF unanswered, occurs, BuildsTypeOK
    <3>3. x \in Statuses /\ (x = "SUCCESSFUL" => box[b].at = "succeed")
      BY <3>1 DEF Statuses
    <3>4. tasks' = tasks \/ (~isTerminal(tasks[k].status) /\ tasks' = advanced(k, x))
      BY <3>1, Zenon
    <3>. HIDE DEF x
    <3>. QED BY <2>h, <3>1, <3>3, <3>4
  <2>15. ASSUME NEW b \in Boxes, dies(b) PROVE BuildsInv'
    <3>1. /\ UNCHANGED <<draft, tasks, publishes, stream, outputs>> /\ events' \in Nat
          /\ box' = [box EXCEPT ![b] = Idle]
      BY <2>a, <2>15 DEF dies, occurs, BuildsTypeOK
    <3>2. BuildsTypeOK'
      BY <2>a, <2>f, <3>1 DEF BuildsTypeOK, Ids, Copies
    <3>. QED BY <2>a, <2>b, <2>d, <2>f, <2>g, <3>1, <3>2 DEF BuildsInv, NothingHalfBuilt
  <2>. QED
    BY <2>1, <2>2, <2>3, <2>4, <2>5, <2>6, <2>7, <2>8, <2>9, <2>10, <2>11, <2>12, <2>13, <2>14, <2>15
       DEF BuildsNext, boxStep
<1>. QED BY <1>1, <1>2, PTL DEF BuildsSpec

\* The manifest a box stores last is the commit marker of a build for any number of boxes: no box that
\* dies, is overtaken or builds a revision twice leaves one over an incomplete set of outputs, and no
\* row says SUCCESSFUL of a revision that cannot be played.
THEOREM BuildsAreWhole == BuildsSpec => []NothingHalfBuilt
BY BuildsInvariant, PTL DEF BuildsInv

\* A pass the asset service gives belongs to the bytes it looked at: advanceTask never lends it to the
\* version that replaced them, whenever the verdict arrives.
THEOREM VerdictsAreOfTheBytes == BuildsSpec => []VerdictMatchesBytes
<1>1. BuildsInv => VerdictMatchesBytes
  BY DEF BuildsInv, VerdictEarned, VerdictMatchesBytes
<1>. QED BY <1>1, BuildsInvariant, PTL

-----------------------------------------------------------------------------
(***************************************************************************)
(* The editor's tabs and the save route.  A tab, the request it has in     *)
(* flight and the rows of the game are three accounts of the same text.    *)
(* WorkspacesInv says how they are reconciled at each stage of a save: by  *)
(* what the tab holds (its drafts), by what it says it owes, and by what   *)
(* it captured when the save began.                                        *)
(***************************************************************************)

Doings == {"off", "opening", "idle", "saving", "reloading", "fetching", "closed"}
Files == [Paths -> Nat]
Owing == [upserted: SUBSET Paths, removed: SUBSET Paths]
Tab == [files: Files, saved: SUBSET Paths, revision: Nat, pending: Owing, doing: Doings, sent: Owing,
        drafts: Files, target: Nat, pardoned: BOOLEAN, strays: SUBSET Paths]
Request == [tab: Tabs, exit: BOOLEAN, base: Nat, upserts: Files, deletes: SUBSET Paths,
            at: {"received", "stored", "committed"}, made: Files]

WorkspacesTypeOK ==
  /\ tab \in [Tabs -> Tab]
  /\ requests \subseteq Request
  /\ game \in [revision: Nat, rows: Files]
  /\ bucket \in [Assets -> Nat]
  /\ minted \in Nat

\* The text a tab does not owe.
Reconciled(w) == {p \in Sources \ w.strays : p \notin w.pending.upserted /\ p \notin w.pending.removed}

\* A draft that is owed is there, and a removal that is owed is of a file the service has.
OwesWhatItHolds(w) ==
  \A p \in Sources : /\ p \in w.pending.upserted => w.files[p] # 0
                     /\ p \in w.pending.removed => w.files[p] = 0 /\ p \in w.saved

\* What was captured for the save in flight is owed still, or was thrown away as a stray.
SentIsOwed(w) ==
  \A p \in Sources : /\ p \in w.sent.upserted => w.drafts[p] # 0 /\ p \notin w.sent.removed
                     /\ p \in w.sent.removed => p \in w.saved
                     /\ p \in Reconciled(w) => p \notin w.sent.upserted /\ p \notin w.sent.removed

\* A tab shows these rows, but for what it owes.
Shows(w, rows) ==
  \A p \in Sources : /\ p \in Reconciled(w) => w.files[p] = rows[p]
                     /\ p \in w.saved <=> rows[p] # 0

\* The rows a save made: what it sent, over what the tab had seen.
MadeBy(w, rows) ==
  \A p \in Sources : /\ p \in Reconciled(w) => w.files[p] = rows[p]
                     /\ p \in w.sent.upserted => rows[p] = w.drafts[p]
                     /\ p \in w.sent.removed => rows[p] = 0
                     /\ p \notin w.sent.upserted /\ p \notin w.sent.removed =>
                          (p \in w.saved <=> rows[p] # 0)

\* Each tab's books, at each stage of opening, saving and reloading.
TabSound(t) ==
  LET w == tab[t]
  IN  /\ OwesWhatItHolds(w)
      /\ w.doing = "off" => w.saved = {}
      /\ w.doing # "closed" => w.revision <= game.revision
      /\ w.doing = "saving" => SentIsOwed(w)
      /\ w.doing \in {"idle", "saving"} /\ w.revision = game.revision => Shows(w, game.rows)
      /\ w.doing = "idle" /\ ~w.pardoned => w.revision = game.revision
      /\ w.doing \in {"reloading", "fetching"} => w.pardoned /\ w.revision < game.revision
      /\ w.doing \in {"opening", "fetching"} =>
           /\ w.target <= game.revision
           /\ w.target = game.revision => w.drafts = game.rows

\* A request whose tab will hear of it says what the tab captured; it is refused as stale only if the
\* tab was overtaken, and once committed its rows are the game's until the next save.
Answerable(r) == ~r.exit /\ tab[r.tab].doing # "closed"

RequestSound(r) ==
  LET w == tab[r.tab]
  IN  /\ w.doing = "saving" /\ r.base = w.revision /\ r.deletes = w.sent.removed
      /\ \A p \in Sources : r.upserts[p] = IF p \in w.sent.upserted THEN w.drafts[p] ELSE 0
      /\ r.at # "committed" /\ ~w.pardoned => w.revision = game.revision
      /\ r.at = "committed" =>
           /\ w.revision < game.revision
           /\ ~w.pardoned => w.revision + 1 = game.revision
           /\ w.revision + 1 = game.revision => game.rows = r.made
           /\ MadeBy(w, r.made)

TabsSound == \A t \in Tabs : TabSound(t)
RequestsSound == \A r \in requests : Answerable(r) => RequestSound(r)
OneAtATime == \A q, r \in requests : Answerable(q) /\ Answerable(r) /\ q.tab = r.tab => q = r

\* The inductive invariant.
WorkspacesInv == WorkspacesTypeOK /\ TabsSound /\ RequestsSound /\ OneAtATime /\ NothingTypedIsLost

\* A tab that is to hear of a save hears it as it is: what was sent and not typed over is settled when
\* the save landed, a conflict means the tab was overtaken, and anything else leaves it all owed.
LEMMA AnswerKeeps ==
  ASSUME WorkspacesInv, NEW r \in requests, requests' = requests \ {r}, game' = game,
         bucket' \in [Assets -> Nat], minted' \in Nat, lost' = lost,
         NEW o, answers(r, o),
         \/ o \in {"refused", "unfrozen"} /\ r.at # "committed"
         \/ o = "conflict" /\ r.at # "committed" /\ r.base # game.revision
         \/ o \in {"saved", "unheard"} /\ r.at = "committed"
  PROVE  WorkspacesInv'
<1>. DEFINE t == r.tab
            w == tab[t]
<1>1. /\ WorkspacesTypeOK /\ TabsSound /\ RequestsSound /\ OneAtATime /\ NothingTypedIsLost
      /\ r \in Request /\ t \in Tabs /\ w \in Tab /\ game \in [revision: Nat, rows: Files]
  BY DEF WorkspacesInv, WorkspacesTypeOK, Request
<1>2. ASSUME tab' = tab PROVE WorkspacesInv'
  BY <1>1, <1>2 DEF WorkspacesInv, WorkspacesTypeOK, TabsSound, TabSound, RequestsSound, RequestSound,
     OneAtATime, Answerable, NothingTypedIsLost
<1>3. CASE r.exit
  BY <1>2, <1>3 DEF answers
<1>4. CASE ~r.exit /\ w.doing = "closed"
  <2>1. tab' = [tab EXCEPT ![t] = w]
    BY <1>4 DEF answers, hears, Standing
  <2>. QED BY <1>1, <1>2, <2>1 DEF WorkspacesTypeOK
<1>5. CASE Answerable(r)
  <2>0. RequestSound(r) /\ TabSound(t)
    BY <1>1, <1>5 DEF RequestsSound, TabsSound
  <2>1. w.doing = "saving" /\ r.base = w.revision /\ w.revision \in Nat /\ game.revision \in Nat
    BY <1>1, <2>0 DEF RequestSound, Tab
  <2>. DEFINE landed == savedAs(w, r.base + 1, r.made)
              v == CASE o = "saved"    -> [landed EXCEPT !.doing = "idle"]
                     [] o = "conflict" -> [w EXCEPT !.doing = "reloading"]
                     [] o = "unheard"  -> [w EXCEPT !.doing = "idle", !.pardoned = TRUE]
                     [] OTHER          -> [w EXCEPT !.doing = "idle"]
  <2>2. tab' = [tab EXCEPT ![t] = v]
    BY <1>5, <2>1 DEF Answerable, answers, hears, Standing
  <2>3. ASSUME v \in Tab, v.doing # "closed", v.doing # "saving", TabSound(t)' PROVE WorkspacesInv'
    <3>. HIDE DEF v
    <3>1. WorkspacesTypeOK'
      BY <1>1, <2>2, <2>3 DEF WorkspacesTypeOK
    <3>2. \A x \in Tabs : x # t => tab'[x] = tab[x]
      BY <1>1, <2>2 DEF WorkspacesTypeOK
    <3>3. TabsSound'
      BY <1>1, <2>3, <3>2 DEF TabsSound, TabSound
    <3>4. \A q \in requests' : Answerable(q)' => q.tab # t
      <4>. SUFFICES ASSUME NEW q \in requests, q # r, Answerable(q)', q.tab = t PROVE FALSE
        OBVIOUS
      <4>1. Answerable(q)
        BY <1>5 DEF Answerable
      <4>. QED BY <1>1, <1>5, <4>1 DEF OneAtATime
    <3>5. \A q \in requests' : Answerable(q)' => Answerable(q) /\ tab'[q.tab] = tab[q.tab]
      <4>1. \A q \in requests' : q.tab \in Tabs
        BY <1>1 DEF WorkspacesTypeOK, Request
      <4>. QED BY <3>2, <3>4, <4>1 DEF Answerable
    <3>6. RequestsSound'
      BY <1>1, <3>5 DEF RequestsSound, RequestSound
    <3>7. OneAtATime'
      BY <1>1, <3>5 DEF OneAtATime
    <3>. QED BY <1>1, <3>1, <3>3, <3>6, <3>7 DEF WorkspacesInv, NothingTypedIsLost
  <2>a. tab'[t] = v
    BY <1>1, <2>2 DEF WorkspacesTypeOK
  <2>4. CASE o \in {"refused", "unfrozen"} /\ r.at # "committed"
    <3>1. v = [w EXCEPT !.doing = "idle"]
      BY <2>4
    <3>. HIDE DEF v
    <3>2. /\ v \in Tab /\ v.doing = "idle" /\ v.files = w.files /\ v.saved = w.saved
          /\ v.revision = w.revision /\ v.pending = w.pending /\ v.pardoned = w.pardoned
          /\ v.strays = w.strays
      BY <1>1, <3>1 DEF Tab, Doings
    <3>3. TabSound(t)'
      BY <2>0, <2>1, <2>4, <2>a, <3>2 DEF TabSound, RequestSound, OwesWhatItHolds, Shows, Reconciled
    <3>. QED BY <2>3, <3>2, <3>3
  <2>5. CASE o = "conflict" /\ r.at # "committed" /\ r.base # game.revision
    <3>1. v = [w EXCEPT !.doing = "reloading"]
      BY <2>5
    <3>. HIDE DEF v
    <3>2. /\ v \in Tab /\ v.doing = "reloading" /\ v.files = w.files /\ v.saved = w.saved
          /\ v.revision = w.revision /\ v.pending = w.pending /\ v.pardoned = w.pardoned
      BY <1>1, <3>1 DEF Tab, Doings
    <3>3. TabSound(t)'
      BY <2>0, <2>1, <2>5, <2>a, <3>2 DEF TabSound, RequestSound, OwesWhatItHolds
    <3>. QED BY <2>3, <3>2, <3>3
  <2>6. CASE o = "unheard" /\ r.at = "committed"
    <3>1. v = [w EXCEPT !.doing = "idle", !.pardoned = TRUE]
      BY <2>6
    <3>. HIDE DEF v
    <3>2. /\ v \in Tab /\ v.doing = "idle" /\ v.files = w.files /\ v.saved = w.saved
          /\ v.revision = w.revision /\ v.pending = w.pending /\ v.pardoned = TRUE
      BY <1>1, <3>1 DEF Tab, Doings
    <3>3. TabSound(t)'
      BY <2>0, <2>1, <2>6, <2>a, <3>2 DEF TabSound, RequestSound, OwesWhatItHolds
    <3>. QED BY <2>3, <3>2, <3>3
  <2>7. CASE o = "saved" /\ r.at = "committed"
    <3>. DEFINE held == {p \in Paths : r.made[p] # 0}
                due == [upserted |-> {p \in w.pending.upserted :
                                         p \notin w.sent.upserted \/ w.files[p] # w.drafts[p]},
                         removed |-> w.pending.removed \ w.sent.removed]
    <3>1. v = [w EXCEPT !.revision = r.base + 1, !.saved = held, !.pending = due, !.doing = "idle"]
      <4>1. landed = [w EXCEPT !.revision = r.base + 1, !.saved = held, !.pending = due]
        BY <1>1 DEF savedAs, owing, Tab
      <4>2. v = [landed EXCEPT !.doing = "idle"]
        BY <2>7
      <4>. QED BY <1>1, <4>1, <4>2 DEF Tab
    <3>0. due \in Owing /\ held \in SUBSET Paths /\ r.base + 1 \in Nat
      BY <1>1, <2>1 DEF Owing, Tab
    <3>. HIDE DEF v, held, due
    <3>2. /\ v \in Tab /\ v.doing = "idle" /\ v.files = w.files /\ v.saved = held
          /\ v.revision = r.base + 1 /\ v.pending = due /\ v.pardoned = w.pardoned
          /\ v.strays = w.strays
      BY <1>1, <3>0, <3>1 DEF Tab, Doings
    <3>3. /\ \A p : p \in due.upserted <=> p \in w.pending.upserted /\
                       (p \notin w.sent.upserted \/ w.files[p] # w.drafts[p])
          /\ \A p : p \in due.removed <=> p \in w.pending.removed /\ p \notin w.sent.removed
          /\ \A p \in Sources : p \in held <=> r.made[p] # 0
      BY DEF due, held, Paths
    <3>4. OwesWhatItHolds(w) /\ SentIsOwed(w) /\ MadeBy(w, r.made)
      BY <2>0, <2>1, <2>7 DEF TabSound, RequestSound
    <3>5. OwesWhatItHolds(v)
      BY <3>2, <3>3, <3>4 DEF OwesWhatItHolds, SentIsOwed, MadeBy
    <3>6. Shows(v, r.made)
      <4>1. ASSUME NEW p \in Sources, p \in Reconciled(v) PROVE v.files[p] = r.made[p]
        <5>1. p \notin w.strays /\ p \notin due.upserted /\ p \notin due.removed
          BY <3>2, <4>1 DEF Reconciled
        <5>2. CASE p \in Reconciled(w)
          BY <3>2, <3>4, <5>2 DEF MadeBy
        <5>3. CASE p \in w.pending.upserted
          BY <3>2, <3>3, <3>4, <5>1, <5>3 DEF MadeBy
        <5>4. CASE p \in w.pending.removed
          BY <3>2, <3>3, <3>4, <5>1, <5>4 DEF MadeBy, OwesWhatItHolds
        <5>. QED BY <5>1, <5>2, <5>3, <5>4 DEF Reconciled
      <4>. QED BY <3>2, <3>3, <4>1 DEF Shows
    <3>7. TabSound(t)'
      BY <1>1, <2>0, <2>1, <2>7, <2>a, <3>2, <3>5, <3>6 DEF TabSound, RequestSound
    <3>. QED BY <2>3, <3>2, <3>7
  <2>. QED BY <2>4, <2>5, <2>6, <2>7
<1>. QED BY <1>3, <1>4, <1>5 DEF Answerable

\* However many tabs are open on a game, and whatever is typed, removed, saved, lost or reloaded while a
\* save is on its way, each tab's books agree with the rows it last saw.
THEOREM WorkspacesInvariant == WorkspacesSpec => []WorkspacesInv
<1>. USE WorkspacesAssumption
<1>1. WorkspacesInit => WorkspacesInv
  <2>. SUFFICES ASSUME WorkspacesInit PROVE WorkspacesInv
    OBVIOUS
  <2>1. NoFiles \in Files /\ NOTHING_PENDING \in Owing
    BY DEF NoFiles, Files, NOTHING_PENDING, Owing
  <2>2. WorkspacesTypeOK
    BY <2>1 DEF WorkspacesInit, WorkspacesTypeOK, Tab, Doings, TEMPLATE
  <2>3. TabsSound
    BY <2>1 DEF WorkspacesInit, TabsSound, TabSound, OwesWhatItHolds, NOTHING_PENDING
  <2>. QED BY <2>2, <2>3 DEF WorkspacesInit, WorkspacesInv, RequestsSound, OneAtATime, NothingTypedIsLost
<1>2. WorkspacesInv /\ [WorkspacesNext]_workspaceVars => WorkspacesInv'
  <2>. SUFFICES ASSUME WorkspacesInv, [WorkspacesNext]_workspaceVars PROVE WorkspacesInv'
    OBVIOUS
  <2>a. /\ WorkspacesTypeOK /\ TabsSound /\ RequestsSound /\ OneAtATime /\ NothingTypedIsLost
        /\ tab \in [Tabs -> Tab] /\ game.revision \in Nat /\ game.rows \in Files
    BY DEF WorkspacesInv, WorkspacesTypeOK
  <2>b. \A x \in requests : x \in Request /\ x.tab \in Tabs
    BY <2>a DEF WorkspacesTypeOK, Request
  \* A tab with nothing in flight before the step or after it.
  <2>c. ASSUME NEW t \in Tabs, NEW v \in Tab, tab' = [tab EXCEPT ![t] = v], TabSound(t)', lost' = {},
               tab[t].doing \notin {"saving", "closed"}, v.doing # "saving",
               UNCHANGED <<requests, game, bucket, minted, troubles>>
        PROVE  WorkspacesInv'
    <3>1. tab'[t] = v /\ \A x \in Tabs : x # t => tab'[x] = tab[x]
      BY <2>a, <2>c
    <3>2. WorkspacesTypeOK'
      BY <2>a, <2>c DEF WorkspacesTypeOK
    <3>3. TabsSound'
      BY <2>a, <2>c, <3>1 DEF TabsSound, TabSound
    <3>4. \A q \in requests : Answerable(q) => q.tab # t
      BY <2>a, <2>c DEF RequestsSound, RequestSound
    <3>5. \A q \in requests : Answerable(q)' => Answerable(q) /\ tab'[q.tab] = tab[q.tab]
      BY <2>b, <2>c, <3>1, <3>4 DEF Answerable
    <3>6. RequestsSound' /\ OneAtATime'
      BY <2>a, <2>c, <3>5 DEF RequestsSound, RequestSound, OneAtATime
    <3>. QED BY <2>c, <3>2, <3>3, <3>6 DEF WorkspacesInv, NothingTypedIsLost
  \* An edit keeps a tab's books in order, whatever it is doing: the path is owed from then on, or was
  \* never the service's, or is a stray of the save in flight.
  <2>edit. ASSUME NEW w \in Tab, NEW p \in Paths, NEW d \in Nat \ {0}, NEW v,
                  v = drafted(w, p, d) \/ v = dropFile(w, p)
           PROVE  /\ v \in Tab /\ v.doing = w.doing /\ v.revision = w.revision /\ v.sent = w.sent
                  /\ v.drafts = w.drafts /\ v.saved = w.saved /\ v.target = w.target /\ v.pardoned = w.pardoned
                  /\ OwesWhatItHolds(w) => OwesWhatItHolds(v)
                  /\ w.doing = "saving" /\ SentIsOwed(w) =>
                       SentIsOwed(v) /\ \A rows : MadeBy(w, rows) => MadeBy(v, rows)
                  /\ \A rows : Shows(w, rows) => Shows(v, rows)
    <3>. USE <2>edit
    <3>. DEFINE stray == p \notin w.saved /\ w.doing = "saving" /\ p \in w.sent.upserted
                S == IF stray THEN w.strays \cup {p} ELSE w.strays
                drop == [upserted |-> w.pending.upserted \ {p},
                         removed |-> IF p \in w.saved THEN w.pending.removed \cup {p} ELSE w.pending.removed]
                touch == [upserted |-> w.pending.upserted \cup {p}, removed |-> w.pending.removed \ {p}]
    <3>1. w.files \in Files /\ w.strays \subseteq Paths /\ w.pending \in Owing /\ w.saved \subseteq Paths
      BY DEF Tab
    <3>2. drop \in Owing /\ touch \in Owing /\ S \in SUBSET Paths
      BY <3>1 DEF Owing
    <3>3. CASE v = drafted(w, p, d)
      <4>1. v = [w EXCEPT !.files = [w.files EXCEPT ![p] = d], !.pending = touch]
        BY <3>3 DEF drafted, owing, touched, Tab
      <4>2. [w.files EXCEPT ![p] = d] \in Files
        BY <3>1 DEF Files
      <4>. HIDE DEF touch
      <4>3. /\ v \in Tab /\ v.doing = w.doing /\ v.revision = w.revision /\ v.sent = w.sent
            /\ v.drafts = w.drafts /\ v.saved = w.saved /\ v.target = w.target /\ v.pardoned = w.pardoned
            /\ v.strays = w.strays /\ v.pending = touch /\ v.files = [w.files EXCEPT ![p] = d]
        BY <3>2, <4>1, <4>2 DEF Tab
      <4>4. /\ v.pending.upserted = w.pending.upserted \cup {p} /\ v.pending.removed = w.pending.removed \ {p}
            /\ v.files[p] # 0 /\ \A x \in Paths : x # p => v.files[x] = w.files[x]
        BY <3>1, <4>3 DEF touch, Files
      <4>5. /\ Reconciled(v) \subseteq Reconciled(w) /\ p \notin Reconciled(v) /\ Sources \subseteq Paths
        BY <4>3, <4>4 DEF Reconciled, Paths
      <4>. QED BY <4>3, <4>4, <4>5 DEF OwesWhatItHolds, SentIsOwed, MadeBy, Shows
    <3>4. CASE v = dropFile(w, p)
      <4>1. v = [w EXCEPT !.files = [w.files EXCEPT ![p] = 0], !.strays = S, !.pending = drop]
        BY <3>4 DEF dropFile, owing, dropped, Tab
      <4>2. [w.files EXCEPT ![p] = 0] \in Files
        BY <3>1 DEF Files
      <4>. HIDE DEF drop, S
      <4>3. /\ v \in Tab /\ v.doing = w.doing /\ v.revision = w.revision /\ v.sent = w.sent
            /\ v.drafts = w.drafts /\ v.saved = w.saved /\ v.target = w.target /\ v.pardoned = w.pardoned
            /\ v.strays = S /\ v.pending = drop /\ v.files = [w.files EXCEPT ![p] = 0]
        BY <3>2, <4>1, <4>2 DEF Tab
      <4>4. /\ v.pending.upserted = w.pending.upserted \ {p}
            /\ p \in w.saved => v.pending.removed = w.pending.removed \cup {p}
            /\ p \notin w.saved => v.pending.removed = w.pending.removed
            /\ v.files[p] = 0 /\ \A x \in Paths : x # p => v.files[x] = w.files[x]
            /\ w.strays \subseteq v.strays /\ v.strays \subseteq w.strays \cup {p} /\ (stray => p \in v.strays)
        BY <3>1, <4>3 DEF drop, S, Files
      <4>5. Sources \subseteq Paths
        BY DEF Paths
      <4>6. /\ \A x \in Sources : x # p => (x \in Reconciled(v) <=> x \in Reconciled(w))
            /\ p \in Reconciled(v) => p \notin w.saved /\ ~stray
        BY <4>3, <4>4 DEF Reconciled
      <4>. HIDE DEF Reconciled
      <4>. QED BY <4>3, <4>4, <4>5, <4>6 DEF OwesWhatItHolds, SentIsOwed, MadeBy, Shows
    <3>. QED BY <3>3, <3>4
  \* A tab whose creator types.
  <2>d. ASSUME NEW t \in Tabs, NEW p \in Paths, NEW d \in Nat \ {0}, Standing(t), NEW v,
               v = drafted(tab[t], p, d) \/ v = dropFile(tab[t], p), tab' = [tab EXCEPT ![t] = v],
               minted' \in Nat, UNCHANGED <<requests, game, bucket, troubles, lost>>
        PROVE  WorkspacesInv'
    <3>. DEFINE w == tab[t]
    <3>0. w \in Tab
      BY <2>a
    <3>1. /\ v \in Tab /\ v.doing = w.doing /\ v.revision = w.revision /\ v.sent = w.sent
          /\ v.drafts = w.drafts /\ v.saved = w.saved /\ v.target = w.target /\ v.pardoned = w.pardoned
          /\ OwesWhatItHolds(w) => OwesWhatItHolds(v)
          /\ w.doing = "saving" /\ SentIsOwed(w) =>
               SentIsOwed(v) /\ \A rows : MadeBy(w, rows) => MadeBy(v, rows)
          /\ \A rows : Shows(w, rows) => Shows(v, rows)
      <4>. HIDE DEF w
      <4>1. v = drafted(w, p, d) \/ v = dropFile(w, p)
        BY <2>d DEF w
      <4>. QED BY <3>0, <4>1, <2>edit
    <3>2. tab'[t] = v /\ \A x \in Tabs : x # t => tab'[x] = tab[x]
      BY <2>a, <2>d
    <3>3. WorkspacesTypeOK'
      BY <2>a, <2>d, <3>1 DEF WorkspacesTypeOK
    <3>4. TabSound(t)
      BY <2>a DEF TabsSound
    <3>5. TabSound(t)'
      BY <2>d, <3>1, <3>2, <3>4 DEF TabSound
    <3>6. TabsSound'
      BY <2>a, <2>d, <3>2, <3>5 DEF TabsSound, TabSound
    <3>7. \A q \in requests : (Answerable(q) <=> Answerable(q)') /\ (q.tab = t \/ tab'[q.tab] = tab[q.tab])
      BY <2>b, <3>1, <3>2 DEF Answerable
    <3>8. RequestsSound'
      <4>. SUFFICES ASSUME NEW q \in requests, Answerable(q) PROVE RequestSound(q)'
        BY <2>d, <3>7 DEF RequestsSound
      <4>1. RequestSound(q)
        BY <2>a DEF RequestsSound
      <4>2. CASE q.tab = t
        BY <2>d, <3>1, <3>2, <3>4, <4>1, <4>2 DEF RequestSound, TabSound
      <4>3. CASE q.tab # t
        BY <2>d, <3>7, <4>1, <4>3 DEF RequestSound
      <4>. QED BY <4>2, <4>3
    <3>9. OneAtATime'
      BY <2>a, <2>d, <3>7 DEF OneAtATime
    <3>. QED BY <2>a, <2>d, <3>3, <3>6, <3>8, <3>9 DEF WorkspacesInv, NothingTypedIsLost
  <2>1. CASE UNCHANGED workspaceVars
    BY <2>1, <2>a DEF workspaceVars, WorkspacesInv, WorkspacesTypeOK, TabsSound, TabSound, RequestsSound,
       RequestSound, OneAtATime, Answerable, NothingTypedIsLost
  <2>2. ASSUME NEW t \in Tabs, NEW p \in Paths, edit(t, p) \/ addFile(t, p) \/ importFile(t, p)
        PROVE  WorkspacesInv'
    <3>1. write(t, p)
      BY <2>2 DEF edit, addFile, importFile
    <3>2. minted + 1 \in Nat \ {0}
      BY <2>a DEF WorkspacesTypeOK
    <3>3. tab' = [tab EXCEPT ![t] = drafted(tab[t], p, minted + 1)]
      BY <3>1 DEF write
    <3>. QED BY <2>d, <3>1, <3>2, <3>3 DEF write
  <2>3. ASSUME NEW t \in Tabs, NEW p \in Paths, removeFile(t, p) PROVE WorkspacesInv'
    <3>1. tab' = [tab EXCEPT ![t] = dropFile(tab[t], p)] /\ minted' \in Nat
      BY <2>a, <2>3 DEF removeFile, WorkspacesTypeOK
    <3>2. 1 \in Nat \ {0}
      OBVIOUS
    <3>. QED BY <2>d, <2>3, <3>1, <3>2 DEF removeFile
  <2>4. ASSUME NEW t \in Tabs, save(t) PROVE WorkspacesInv'
    <3>. DEFINE w == tab[t]
                v == [w EXCEPT !.doing = "saving", !.sent = w.pending, !.drafts = w.files]
                new == request(t, w, FALSE, saveOf(w, w.pending), w.pending.removed)
    <3>0. /\ tab' = [tab EXCEPT ![t] = v] /\ requests' = requests \cup {new} /\ w.doing = "idle"
          /\ UNCHANGED <<game, minted, lost>> /\ w \in Tab /\ TabSound(t)
      BY <2>a, <2>4 DEF save, mayBegin, TabsSound
    <3>1. bucket' \in [Assets -> Nat]
      BY <2>a, <2>4, <3>0 DEF save, WorkspacesTypeOK, Tab, Files, Paths
    <3>2. /\ v \in Tab /\ v.doing = "saving" /\ v.files = w.files /\ v.saved = w.saved
          /\ v.revision = w.revision /\ v.pending = w.pending /\ v.sent = w.pending /\ v.drafts = w.files
          /\ v.pardoned = w.pardoned /\ v.strays = w.strays
      BY <3>0 DEF Tab, Doings
    <3>3. PICK q \in Request :
          /\ requests' = requests \cup {q} /\ q.tab = t /\ q.exit = FALSE /\ q.base = w.revision
          /\ q.deletes = w.pending.removed /\ q.at = "received"
          /\ \A p \in Sources : q.upserts[p] = IF p \in w.pending.upserted THEN w.files[p] ELSE 0
      <4>1. saveOf(w, w.pending) \in Files /\ NoFiles \in Files
        BY <3>0 DEF saveOf, Tab, Files, NoFiles
      <4>2. w.revision \in Nat /\ w.pending.removed \in SUBSET Paths
        BY <3>0 DEF Tab, Owing
      <4>. HIDE DEF w
      <4>3. \A p \in Sources : saveOf(w, w.pending)[p] = IF p \in w.pending.upserted THEN w.files[p] ELSE 0
        BY DEF saveOf, Paths
      <4>4. new \in Request
        BY <4>1, <4>2 DEF request, Request
      <4>. QED BY <3>0, <4>3, <4>4 DEF request
    <3>. HIDE DEF v, new
    <3>4. tab'[t] = v /\ \A x \in Tabs : x # t => tab'[x] = tab[x]
      BY <2>a, <3>0
    <3>5. WorkspacesTypeOK'
      BY <2>a, <3>0, <3>1, <3>2, <3>3 DEF WorkspacesTypeOK
    <3>6. TabSound(t)'
      <4>1. OwesWhatItHolds(v)
        BY <3>0, <3>2 DEF TabSound, OwesWhatItHolds
      <4>2. SentIsOwed(v)
        BY <3>0, <3>2 DEF TabSound, OwesWhatItHolds, SentIsOwed, Reconciled
      <4>3. w.revision = game.revision => Shows(v, game.rows)
        BY <3>0, <3>2 DEF TabSound, Shows, Reconciled
      <4>. QED BY <3>0, <3>2, <3>4, <4>1, <4>2, <4>3 DEF TabSound
    <3>7. TabsSound'
      BY <2>a, <3>0, <3>4, <3>6 DEF TabsSound, TabSound
    <3>8. \A x \in requests : Answerable(x)' => x.tab # t /\ Answerable(x) /\ tab'[x.tab] = tab[x.tab]
      <4>1. \A x \in requests : Answerable(x) => x.tab # t
        BY <2>a, <3>0 DEF RequestsSound, RequestSound
      <4>. QED BY <2>b, <3>0, <3>4, <4>1 DEF Answerable
    <3>9. RequestSound(q)'
      BY <3>0, <3>2, <3>3, <3>4 DEF RequestSound, TabSound
    <3>10. RequestsSound'
      <4>1. ASSUME NEW x \in requests, Answerable(x)' PROVE RequestSound(x)'
        BY <2>a, <3>0, <3>8, <4>1 DEF RequestsSound, RequestSound
      <4>. QED BY <3>3, <3>9, <4>1 DEF RequestsSound
    <3>11. OneAtATime'
      BY <2>a, <3>0, <3>3, <3>8 DEF OneAtATime
    <3>. QED BY <2>a, <3>0, <3>5, <3>7, <3>10, <3>11 DEF WorkspacesInv, NothingTypedIsLost
  <2>5. ASSUME NEW t \in Tabs, openGame(t) PROVE WorkspacesInv'
    <3>. DEFINE w == tab[t]
    <3>0. /\ w \in Tab /\ TabSound(t) /\ w.doing = "off"
          /\ UNCHANGED <<requests, game, bucket, minted, troubles>> /\ lost' = {}
      BY <2>a, <2>5 DEF openGame, TabsSound, NothingTypedIsLost
    <3>1. CASE game.rows = NoFiles
      <4>. DEFINE first == [p \in Paths |-> IF p \in Sources THEN TEMPLATE ELSE 0]
                  all == [upserted |-> Sources, removed |-> {}]
                  v == [seeded(w) EXCEPT !.revision = game.revision]
      <4>1. tab' = [tab EXCEPT ![t] = v]
        BY <2>5, <3>1 DEF openGame
      <4>2. v = [w EXCEPT !.files = first, !.doing = "idle", !.pending = all, !.revision = game.revision]
        BY <3>0 DEF seeded, owing, Tab
      <4>3. first \in Files /\ all \in Owing /\ all.upserted = Sources /\ all.removed = {}
            /\ \A p \in Sources : first[p] # 0
        BY DEF Files, Owing, TEMPLATE, Paths
      <4>. HIDE DEF v, first, all
      <4>4. /\ v \in Tab /\ v.doing = "idle" /\ v.files = first /\ v.pending = all /\ v.saved = w.saved
            /\ v.revision = game.revision
        BY <2>a, <3>0, <4>2, <4>3 DEF Tab, Doings
      <4>5. tab'[t] = v
        BY <2>a, <4>1
      <4>6. OwesWhatItHolds(v)
        BY <4>3, <4>4 DEF OwesWhatItHolds
      <4>7. Shows(v, game.rows)
        BY <3>0, <3>1, <4>3, <4>4 DEF Shows, Reconciled, TabSound, NoFiles, Paths
      <4>8. TabSound(t)'
        BY <2>a, <3>0, <4>4, <4>5, <4>6, <4>7 DEF TabSound
      <4>. QED BY <2>c, <3>0, <4>1, <4>4, <4>8
    <3>2. CASE game.rows # NoFiles
      <4>. DEFINE v == [w EXCEPT !.doing = "opening", !.drafts = game.rows, !.target = game.revision]
      <4>1. tab' = [tab EXCEPT ![t] = v]
        BY <2>5, <3>2 DEF openGame
      <4>4. /\ v \in Tab /\ v.doing = "opening" /\ v.files = w.files /\ v.pending = w.pending
            /\ v.saved = w.saved /\ v.revision = w.revision /\ v.drafts = game.rows
            /\ v.target = game.revision
        BY <2>a, <3>0 DEF Tab, Doings
      <4>. HIDE DEF v
      <4>5. tab'[t] = v
        BY <2>a, <4>1
      <4>8. TabSound(t)'
        BY <2>a, <3>0, <4>4, <4>5 DEF TabSound, OwesWhatItHolds
      <4>. QED BY <2>c, <3>0, <4>1, <4>4, <4>8
    <3>. QED BY <3>1, <3>2
  <2>6. ASSUME NEW t \in Tabs, reload(t) PROVE WorkspacesInv'
    <3>. DEFINE w == tab[t]
                v == [w EXCEPT !.doing = "fetching", !.drafts = game.rows, !.target = game.revision]
    <3>0. /\ w \in Tab /\ TabSound(t) /\ w.doing = "reloading" /\ tab' = [tab EXCEPT ![t] = v]
          /\ UNCHANGED <<requests, game, bucket, minted, troubles>> /\ lost' = {}
      BY <2>a, <2>6 DEF reload, TabsSound, NothingTypedIsLost
    <3>1. /\ v \in Tab /\ v.doing = "fetching" /\ v.files = w.files /\ v.pending = w.pending
          /\ v.saved = w.saved /\ v.revision = w.revision /\ v.drafts = game.rows
          /\ v.target = game.revision /\ v.pardoned = w.pardoned
      BY <2>a, <3>0 DEF Tab, Doings
    <3>. HIDE DEF v
    <3>2. tab'[t] = v
      BY <2>a, <3>0
    <3>3. TabSound(t)'
      BY <2>a, <3>0, <3>1, <3>2 DEF TabSound, OwesWhatItHolds
    <3>. QED BY <2>c, <3>0, <3>1, <3>3
  <2>7. ASSUME NEW t \in Tabs, contentsOf(t) PROVE WorkspacesInv'
    <3>. DEFINE w == tab[t]
                gone == \E p \in Paths : w.drafts[p] # 0 /\ game.rows[p] = 0
                held == [p \in Paths |-> IF w.drafts[p] = 0 THEN 0 ELSE game.rows[p]]
    <3>0. /\ w \in Tab /\ TabSound(t) /\ w.doing \in {"opening", "fetching"}
          /\ UNCHANGED <<requests, game, bucket, minted, troubles>>
      BY <2>a, <2>7 DEF contentsOf, TabsSound
    <3>1. lost' = {}
      BY <2>a, <2>7, <3>0 DEF contentsOf, NothingTypedIsLost, TabSound
    <3>2. CASE gone
      <4>. DEFINE v == [w EXCEPT !.doing = IF w.doing = "opening" THEN "closed" ELSE "idle"]
      <4>1. tab' = [tab EXCEPT ![t] = v]
        BY <2>7, <3>2 DEF contentsOf
      <4>2. /\ v \in Tab /\ v.doing = (IF w.doing = "opening" THEN "closed" ELSE "idle")
            /\ v.files = w.files /\ v.pending = w.pending
            /\ v.saved = w.saved /\ v.revision = w.revision /\ v.pardoned = w.pardoned
        BY <3>0 DEF Tab, Doings
      <4>. HIDE DEF v
      <4>3. tab'[t] = v
        BY <2>a, <4>1
      <4>4. TabSound(t)'
        BY <2>a, <3>0, <4>2, <4>3 DEF TabSound, OwesWhatItHolds, Tab
      <4>. QED BY <2>c, <3>0, <3>1, <4>1, <4>2, <4>4
    <3>3. CASE ~gone
      <4>. DEFINE has == {p \in Paths : held[p] # 0}
                  v == [reloaded(w, w.target, held) EXCEPT !.doing = "idle"]
      <4>1. tab' = [tab EXCEPT ![t] = v]
        <5>. HIDE DEF held
        <5>. QED BY <2>7, <3>3 DEF contentsOf, held
      <4>2. held \in Files /\ NOTHING_PENDING \in Owing /\ has \in SUBSET Paths
        BY <2>a DEF Files, NOTHING_PENDING, Owing
      <4>3. v = [w EXCEPT !.files = held, !.saved = has, !.revision = w.target,
                          !.pardoned = game.revision > w.target, !.strays = {},
                          !.pending = NOTHING_PENDING, !.doing = "idle"]
        <5>. HIDE DEF held
        <5>. QED BY <3>0 DEF reloaded, owing, Tab
      <4>4. w.target = game.revision => held = game.rows
        <5>1. ASSUME w.target = game.revision PROVE held = game.rows
          <6>1. w.drafts = game.rows
            BY <3>0, <5>1 DEF TabSound
          <6>. QED BY <2>a, <6>1 DEF Files
        <5>. QED BY <5>1
      <4>5. \A p \in Sources : p \in has <=> held[p] # 0
        BY DEF Paths
      <4>. HIDE DEF v, held, has, gone
      <4>6. /\ v \in Tab /\ v.doing = "idle" /\ v.files = held /\ v.pending = NOTHING_PENDING
            /\ v.saved = has /\ v.revision = w.target /\ v.pardoned = (game.revision > w.target)
        <5>1. (game.revision > w.target) \in BOOLEAN /\ w.target \in Nat
          BY <3>0 DEF Tab
        <5>. QED BY <3>0, <4>2, <4>3, <5>1 DEF Tab, Doings
      <4>7. tab'[t] = v
        BY <2>a, <4>1
      <4>8. OwesWhatItHolds(v)
        BY <4>6 DEF OwesWhatItHolds, NOTHING_PENDING
      <4>9. w.target = game.revision => Shows(v, game.rows)
        BY <4>4, <4>5, <4>6 DEF Shows, Reconciled
      <4>10. w.target <= game.revision /\ w.target \in Nat
        BY <3>0 DEF TabSound, Tab
      <4>11. TabSound(t)'
        <5>1. v.pardoned \/ v.revision = game.revision
          <6>1. CASE game.revision > w.target
            BY <4>6, <6>1, Zenon
          <6>2. CASE ~(game.revision > w.target)
            <7>1. w.target = game.revision
              BY <2>a, <4>10, <6>2
            <7>. QED BY <4>6, <7>1
          <6>. QED BY <6>1, <6>2
        <5>. QED BY <3>0, <4>6, <4>7, <4>8, <4>9, <4>10, <5>1 DEF TabSound
      <4>. QED BY <2>c, <3>0, <3>1, <4>1, <4>6, <4>11
    <3>. QED BY <3>2, <3>3
  <2>8. ASSUME NEW t \in Tabs, NEW closes \in BOOLEAN, flush(t, closes) PROVE WorkspacesInv'
    <3>. DEFINE w == tab[t]
                q == request(t, w, TRUE, exitSaveOf(w), w.pending.removed)
                v == IF closes THEN [w EXCEPT !.doing = "closed"] ELSE w
    <3>0. /\ tab' = [tab EXCEPT ![t] = v] /\ requests' = requests \cup {q}
          /\ UNCHANGED <<game, bucket, minted, lost>> /\ w \in Tab /\ TabSound(t)
      BY <2>a, <2>8 DEF flush, TabsSound
    <3>1. v = w \/ (v \in Tab /\ v.doing = "closed" /\ v.files = w.files /\ v.pending = w.pending
                    /\ v.saved = w.saved)
      BY <3>0 DEF Tab, Doings
    <3>2. q \in Request /\ q.exit = TRUE
      <4>1. exitSaveOf(w) \in Files /\ NoFiles \in Files
        BY <3>0 DEF exitSaveOf, Tab, Files, NoFiles
      <4>2. w.revision \in Nat /\ w.pending.removed \in SUBSET Paths
        BY <3>0 DEF Tab, Owing
      <4>. HIDE DEF w
      <4>. QED BY <4>1, <4>2 DEF request, Request
    <3>. HIDE DEF v, q
    <3>3. tab'[t] = v /\ \A x \in Tabs : x # t => tab'[x] = tab[x]
      BY <2>a, <3>0
    <3>4. WorkspacesTypeOK'
      BY <2>a, <3>0, <3>1, <3>2 DEF WorkspacesTypeOK
    <3>5. TabSound(t)'
      BY <3>0, <3>1, <3>3 DEF TabSound, OwesWhatItHolds
    <3>6. TabsSound'
      BY <2>a, <3>0, <3>3, <3>5 DEF TabsSound, TabSound
    <3>7. \A x \in requests' : Answerable(x)' => /\ x \in requests /\ Answerable(x)
                                               /\ tab'[x.tab] = tab[x.tab]
      BY <2>b, <3>0, <3>1, <3>2, <3>3 DEF Answerable
    <3>8. RequestsSound' /\ OneAtATime'
      BY <2>a, <3>0, <3>7 DEF RequestsSound, RequestSound, OneAtATime
    <3>. QED BY <2>a, <3>0, <3>4, <3>6, <3>8 DEF WorkspacesInv, NothingTypedIsLost
  <2>9. ASSUME NEW r \in requests, storeBytes(r) PROVE WorkspacesInv'
    <3>0. /\ r.at = "received" /\ UNCHANGED <<game, bucket, minted, troubles, lost>> /\ r \in Request
          /\ bucket \in [Assets -> Nat] /\ minted \in Nat
      BY <2>a, <2>b, <2>9 DEF storeBytes, WorkspacesTypeOK
    <3>. DEFINE missing == \E a \in Assets : r.upserts[a] # 0 /\ bucket[a] = 0
    <3>1. CASE missing
      <4>1. requests' = requests \ {r} /\ answers(r, "refused")
        BY <2>9, <3>1 DEF storeBytes
      <4>. QED BY <3>0, <4>1, AnswerKeeps
    <3>2. CASE ~missing
      <4>. DEFINE landed == [p \in Paths |-> IF p \in Assets /\ r.upserts[p] # 0 THEN bucket[p]
                                           ELSE r.upserts[p]]
                  new == [r EXCEPT !.at = "stored", !.upserts = landed]
      <4>1. requests' = (requests \ {r}) \cup {new} /\ tab' = tab
        BY <2>9, <3>2 DEF storeBytes
      <4>2. landed \in Files /\ \A p \in Sources : landed[p] = r.upserts[p]
        <5>1. r.upserts \in Files
          BY <3>0 DEF Request
        <5>. QED BY <3>0, <5>1 DEF Files, Paths
      <4>. HIDE DEF landed
      <4>3. PICK q \in Request :
            /\ requests' = (requests \ {r}) \cup {q} /\ q.tab = r.tab /\ q.exit = r.exit /\ q.base = r.base
            /\ q.deletes = r.deletes /\ q.at = "stored" /\ q.upserts = landed
        <5>1. new \in Request
          BY <3>0, <4>2 DEF Request
        <5>. QED BY <3>0, <4>1, <5>1 DEF Request
      <4>. HIDE DEF new, missing
      <4>4. WorkspacesTypeOK'
        BY <2>a, <3>0, <4>1, <4>3 DEF WorkspacesTypeOK
      <4>5. TabsSound'
        BY <2>a, <3>0, <4>1 DEF TabsSound, TabSound
      <4>6. Answerable(q)' => Answerable(r) /\ RequestSound(q)'
        <5>1. ASSUME Answerable(q)' PROVE Answerable(r) /\ RequestSound(q)'
          <6>1. Answerable(r) /\ RequestSound(r)
            BY <2>a, <4>1, <4>3, <5>1 DEF Answerable, RequestsSound
          <6>. QED BY <3>0, <4>1, <4>2, <4>3, <6>1 DEF RequestSound
        <5>. QED BY <5>1
      <4>7. \A x \in requests : Answerable(x)' => Answerable(x) /\ RequestSound(x)'
        BY <2>a, <3>0, <4>1 DEF Answerable, RequestsSound, RequestSound
      <4>8. RequestsSound'
        BY <4>3, <4>6, <4>7 DEF RequestsSound
      <4>9. OneAtATime'
        BY <2>a, <4>3, <4>6, <4>7 DEF OneAtATime
      <4>. QED BY <2>a, <3>0, <4>4, <4>5, <4>8, <4>9 DEF WorkspacesInv, NothingTypedIsLost
    <3>. QED BY <3>1, <3>2
  <2>10. ASSUME NEW r \in requests, commit(r) PROVE WorkspacesInv'
    <3>0. /\ r.at = "stored" /\ UNCHANGED <<bucket, minted, troubles, lost>> /\ r \in Request
          /\ bucket \in [Assets -> Nat] /\ minted \in Nat
      BY <2>a, <2>b, <2>10 DEF commit, WorkspacesTypeOK
    <3>1. CASE ~claims(r)
      BY <2>10, <3>0, <3>1, AnswerKeeps DEF commit, claims
    <3>2. CASE claims(r)
      <4>. DEFINE rows == [p \in Paths |-> IF r.upserts[p] # 0 THEN r.upserts[p]
                                         ELSE IF p \in r.deletes THEN 0 ELSE game.rows[p]]
                  new == [r EXCEPT !.at = "committed", !.made = rows]
      <4>1. /\ game' = [revision |-> game.revision + 1, rows |-> rows]
            /\ tab' = [t \in Tabs |-> IF t # r.tab \/ r.exit THEN [tab[t] EXCEPT !.pardoned = TRUE]
                                     ELSE tab[t]]
        BY <2>10, <3>2 DEF commit
      <4>0. requests' = (requests \ {r}) \cup {new}
        <5>1. requests' = (requests \ {r}) \cup {[r EXCEPT !.at = "committed", !.made = game'.rows]}
          BY <2>10, <3>2 DEF commit
        <5>2. game'.rows = rows
          BY <4>1
        <5>. QED BY <5>1, <5>2
      <4>2. rows \in Files
        <5>1. r.upserts \in Files
          BY <3>0 DEF Request
        <5>. QED BY <2>a, <5>1 DEF Files
      <4>3. \A p \in Sources : rows[p] = IF r.upserts[p] # 0 THEN r.upserts[p]
                                        ELSE IF p \in r.deletes THEN 0 ELSE game.rows[p]
        BY DEF Paths
      <4>. HIDE DEF rows
      <4>4. PICK q \in Request :
            /\ requests' = (requests \ {r}) \cup {q} /\ q.tab = r.tab /\ q.exit = r.exit /\ q.base = r.base
            /\ q.deletes = r.deletes /\ q.at = "committed" /\ q.upserts = r.upserts /\ q.made = rows
        <5>1. new \in Request
          BY <3>0, <4>2 DEF Request
        <5>. QED BY <3>0, <4>0, <5>1 DEF Request
      <4>. HIDE DEF new
      <4>5. ASSUME NEW t \in Tabs
            PROVE  /\ tab'[t] \in Tab /\ tab'[t].files = tab[t].files /\ tab'[t].saved = tab[t].saved
                   /\ tab'[t].revision = tab[t].revision /\ tab'[t].pending = tab[t].pending
                   /\ tab'[t].doing = tab[t].doing /\ tab'[t].sent = tab[t].sent
                   /\ tab'[t].drafts = tab[t].drafts /\ tab'[t].target = tab[t].target
                   /\ tab'[t].strays = tab[t].strays
                   /\ tab[t].pardoned => tab'[t].pardoned
                   /\ ~tab'[t].pardoned => t = r.tab /\ ~r.exit
        <5>1. tab[t] \in Tab
          BY <2>a
        <5>2. CASE t # r.tab \/ r.exit
          <6>1. tab'[t] = [tab[t] EXCEPT !.pardoned = TRUE]
            BY <4>1, <5>2
          <6>. QED BY <5>1, <6>1 DEF Tab
        <5>3. CASE ~(t # r.tab \/ r.exit)
          <6>1. tab'[t] = tab[t]
            BY <4>1, <5>3
          <6>. QED BY <5>1, <5>3, <6>1
        <5>. QED BY <5>2, <5>3
      <4>7. game'.revision = game.revision + 1 /\ game'.rows = rows
        BY <4>1
      <4>8. WorkspacesTypeOK'
        <5>1. tab' \in [Tabs -> Tab]
          BY <4>1, <4>5
        <5>. QED BY <2>a, <3>0, <4>1, <4>2, <4>4, <5>1 DEF WorkspacesTypeOK
      <4>9. \A t \in Tabs : tab[t].revision \in Nat /\ tab[t].target \in Nat
        BY <2>a DEF Tab
      <4>10. TabsSound'
        <5>. SUFFICES ASSUME NEW t \in Tabs PROVE TabSound(t)'
          BY DEF TabsSound
        <5>1. TabSound(t)
          BY <2>a DEF TabsSound
        <5>2. OwesWhatItHolds(tab[t]) => OwesWhatItHolds(tab'[t])
          BY <4>5 DEF OwesWhatItHolds
        <5>3. SentIsOwed(tab[t]) => SentIsOwed(tab'[t])
          BY <4>5 DEF SentIsOwed, Reconciled
        <5>4. tab'[t].doing = "idle" /\ ~tab'[t].pardoned => FALSE
          BY <2>a, <4>5 DEF RequestsSound, RequestSound, Answerable
        <5>. QED BY <2>a, <4>5, <4>7, <4>9, <5>1, <5>2, <5>3, <5>4 DEF TabSound
      <4>11. \A x \in requests : Answerable(x)' <=> Answerable(x)
        BY <2>b, <4>5 DEF Answerable
      <4>12. Answerable(q)' <=> Answerable(r)
        BY <2>b, <4>4, <4>5 DEF Answerable
      <4>13. ASSUME NEW x \in requests, x # r, Answerable(x) PROVE RequestSound(x)'
        <5>1. RequestSound(x) /\ x.tab \in Tabs
          BY <2>a, <2>b, <4>13 DEF RequestsSound
        <5>2. tab'[x.tab].pardoned
          BY <2>a, <4>5, <4>13, <5>1 DEF OneAtATime, Answerable
        <5>3. \A m : MadeBy(tab[x.tab], m) => MadeBy(tab'[x.tab], m)
          BY <4>5, <5>1 DEF MadeBy, Reconciled
        <5>. QED BY <2>a, <4>5, <4>7, <4>9, <5>1, <5>2, <5>3 DEF RequestSound
      <4>14. ASSUME Answerable(r) PROVE RequestSound(q)'
        <5>. DEFINE w == tab[r.tab]
        <5>1. RequestSound(r) /\ r.tab \in Tabs /\ TabSound(r.tab)
          BY <2>a, <2>b, <4>14 DEF RequestsSound, TabsSound
        <5>2. /\ w.doing = "saving" /\ w.revision = game.revision /\ Shows(w, game.rows)
              /\ SentIsOwed(w) /\ r.deletes = w.sent.removed
              /\ \A p \in Sources : r.upserts[p] = IF p \in w.sent.upserted THEN w.drafts[p] ELSE 0
          BY <3>2, <5>1 DEF RequestSound, TabSound, claims
        <5>3. MadeBy(w, rows)
          <6>. HIDE DEF w
          <6>. QED BY <4>3, <5>2 DEF Shows, SentIsOwed, MadeBy
        <5>4. MadeBy(tab'[r.tab], rows)
          BY <4>5, <5>1, <5>3 DEF MadeBy, Reconciled
        <5>. QED BY <2>a, <4>4, <4>5, <4>7, <5>1, <5>2, <5>4 DEF RequestSound
      <4>15. RequestsSound'
        BY <4>4, <4>11, <4>12, <4>13, <4>14 DEF RequestsSound
      <4>16. OneAtATime'
        BY <2>a, <4>4, <4>11, <4>12 DEF OneAtATime
      <4>. QED BY <2>a, <3>0, <4>8, <4>10, <4>15, <4>16 DEF WorkspacesInv, NothingTypedIsLost
    <3>. QED BY <3>1, <3>2
  <2>11. ASSUME NEW r \in requests, unfrozen(r) PROVE WorkspacesInv'
    BY <2>a, <2>11, AnswerKeeps DEF unfrozen, WorkspacesTypeOK
  <2>12. ASSUME NEW r \in requests, saved(r) \/ unheard(r) PROVE WorkspacesInv'
    <3>1. PICK o \in {"saved", "unheard"} : finish(r, o)
      BY <2>12 DEF saved, unheard
    <3>2. bucket' \in [Assets -> Nat]
      BY <2>a, <3>1 DEF finish, WorkspacesTypeOK
    <3>. QED BY <2>a, <3>1, <3>2, AnswerKeeps DEF finish, WorkspacesTypeOK
  <2>. QED
    BY <2>1, <2>2, <2>3, <2>4, <2>5, <2>6, <2>7, <2>8, <2>9, <2>10, <2>11, <2>12 DEF WorkspacesNext
<1>. QED BY <1>1, <1>2, PTL DEF WorkspacesSpec

\* A tab that says it is saved is: with nothing pending, on the revision the service is at, it shows the
\* service's text, for any interleaving of typing with the stages of any number of saves.
THEOREM CleanIsSaved == WorkspacesSpec => []CleanMeansSaved
<1>1. WorkspacesInv => CleanMeansSaved
  <2>. SUFFICES ASSUME WorkspacesInv, NEW t \in Tabs, tab[t].doing = "idle", ~isPending(tab[t].pending),
                       tab[t].revision = game.revision, NEW p \in Sources \ tab[t].strays
                PROVE  tab[t].files[p] = game.rows[p]
    BY DEF CleanMeansSaved
  <2>1. Shows(tab[t], game.rows)
    BY DEF WorkspacesInv, TabsSound, TabSound
  <2>2. p \in Reconciled(tab[t])
    BY DEF Reconciled, isPending, NOTHING_PENDING
  <2>. QED BY <2>1, <2>2 DEF Shows
<1>. QED BY <1>1, WorkspacesInvariant, PTL

\* A tab's own saves never throw its text away: a 409 that makes it reload always has another cause.
THEOREM TypedIsKept == WorkspacesSpec => []NothingTypedIsLost
BY WorkspacesInvariant, PTL DEF WorkspacesInv

-----------------------------------------------------------------------------
(***************************************************************************)
(* Whoever waits inside a handler will be woken, for any hosts, any number *)
(* of lives and any creator code.                                          *)
(*                                                                         *)
(* NobodyWaitsForever is not inductive.  A callback that is due is taken   *)
(* out of the table as a sleep is, but wakes nobody, so a body must be     *)
(* known to wait on a sleep; and the end of a host cancels its sleeps      *)
(* without resolving them, so what a body waits on must be known to be of  *)
(* the host the body itself is of, which dies with it.                     *)
(***************************************************************************)

\* The records of the three tables.
RunShaped(rs) ==
    \A r \in rs : r \in [of : {r.of}, method : {r.method}, on : {r.on}, ready : BOOLEAN, live : BOOLEAN]
TimerShaped(ts) ==
    \A t \in ts : t \in [id : {t.id}, kind : {"every", "after", "sleep"}, of : {t.of}, left : {t.left},
                         bad : {t.bad}]
TweenShaped(ws) == \A w \in ws : w \in [id : {w.id}, of : {w.of}, left : {w.left}]

\* What wakes a run: a sleep or a tween of its own instance.
Woken(r, ts, ws) ==
    \/ \E t \in ts : t.kind = "sleep" /\ t.of = r.of /\ t.id = r.on
    \/ \E w \in ws : w.of = r.of /\ w.id = r.on
Waiters(rs, ts, ws) == \A r \in rs : r.live /\ ~r.ready => Woken(r, ts, ws)

\* The `ignore` lock: a handler of an instance has one invocation that counts.
Locked(rs) == \A q, r \in rs : q.live /\ r.live /\ q.of = r.of /\ q.method = r.method => q = r

ScriptsInv ==
    /\ RunShaped(runs) /\ TimerShaped(timers) /\ TweenShaped(tweens)
    /\ Waiters(runs, timers, tweens)
    /\ Locked(runs)

\* Bodies that resolve: they keep everything but `ready`, which only goes up, and those of `ids` are.
LEMMA Resolving ==
    ASSUME NEW rs, NEW ids, RunShaped(rs)
    PROVE  /\ RunShaped(resolved(rs, ids))
           /\ \A q \in resolved(rs, ids) : \E r \in rs :
                /\ q = [r EXCEPT !.ready = r.ready \/ r.on \in ids]
                /\ q.of = r.of /\ q.method = r.method /\ q.on = r.on /\ q.live = r.live
                /\ ~q.ready => ~r.ready /\ r.on \notin ids
           /\ Locked(rs) => Locked(resolved(rs, ids))
<1>1. ASSUME NEW r \in rs, NEW q, q = [r EXCEPT !.ready = r.ready \/ r.on \in ids]
      PROVE  /\ q.of = r.of /\ q.method = r.method /\ q.on = r.on /\ q.live = r.live
             /\ ~q.ready => ~r.ready /\ r.on \notin ids
             /\ q \in [of : {q.of}, method : {q.method}, on : {q.on}, ready : BOOLEAN, live : BOOLEAN]
    <2>1. r \in [of : {r.of}, method : {r.method}, on : {r.on}, ready : BOOLEAN, live : BOOLEAN]
          BY DEF RunShaped
    <2>2. QED  BY <1>1, <2>1
<1>2. \A q \in resolved(rs, ids) : \E r \in rs : q = [r EXCEPT !.ready = r.ready \/ r.on \in ids]
      BY DEF resolved
<1>3. RunShaped(resolved(rs, ids))
      BY <1>1, <1>2 DEF RunShaped
<1>4. ASSUME Locked(rs) PROVE Locked(resolved(rs, ids))
    <2>1. SUFFICES ASSUME NEW p \in resolved(rs, ids), NEW q \in resolved(rs, ids),
                          p.live /\ q.live /\ p.of = q.of /\ p.method = q.method
                   PROVE  p = q
          BY DEF Locked
    <2>2. PICK r \in rs : p = [r EXCEPT !.ready = r.ready \/ r.on \in ids]  BY <1>2
    <2>3. PICK u \in rs : q = [u EXCEPT !.ready = u.ready \/ u.on \in ids]  BY <1>2
    <2>4. r = u
          BY <1>1, <1>4, <2>1, <2>2, <2>3 DEF Locked
    <2>5. QED  BY <2>2, <2>3, <2>4
<1>5. QED  BY <1>1, <1>2, <1>3, <1>4

\* A segment of creator code, from the runs beside it: a glide wakes whomever it displaces, and what
\* the segment itself waits on is registered for its own instance.
LEMMA SegmentKeeps ==
    ASSUME ScriptsInv,
           NEW i, NEW m, NEW s \in Segments, NEW rs \in SUBSET runs, NEW live \in BOOLEAN,
           live => \A q \in rs : ~(q.live /\ q.of = i /\ q.method = m),
           segment(i, m, s, rs, live)
    PROVE  ScriptsInv'
<1> DEFINE old == Displaced(i, s)
           ids == {t.id : t \in old}
           kept == resolved(rs, ids)
           new == parks(i, m, s, live)
<1>1. /\ RunShaped(rs) /\ Waiters(rs, timers, tweens) /\ Locked(rs)
      /\ TimerShaped(timers) /\ TweenShaped(tweens)
      BY DEF ScriptsInv, RunShaped, Waiters, Locked
<1>2. /\ timers' = timers \cup registered(i, s)
      /\ tweens' = (tweens \ old) \cup
                   (IF s.end = "glide" THEN {[id |-> calls + Cost(s), of |-> i, left |-> 2]} ELSE {})
      /\ runs' = kept \cup new
      BY DEF segment
<1>3. /\ RunShaped(kept) /\ Locked(kept)
      /\ \A q \in kept : \E r \in rs :
           /\ q.of = r.of /\ q.method = r.method /\ q.on = r.on /\ q.live = r.live
           /\ ~q.ready => ~r.ready /\ r.on \notin ids
      BY <1>1, Resolving
<1> HIDE DEF ids, kept, new, old
<1>4. \A r \in new : /\ r = [of |-> i, method |-> m, on |-> calls + Cost(s), ready |-> FALSE, live |-> live]
                     /\ s.end \in {"sleep", "glide"}
      BY DEF new, parks
<1>5. \A q \in kept : ~(live /\ q.live /\ q.of = i /\ q.method = m)
      BY <1>3
<1>6. RunShaped(runs')
    <2>1. ASSUME NEW r \in new
          PROVE  r \in [of : {r.of}, method : {r.method}, on : {r.on}, ready : BOOLEAN, live : BOOLEAN]
        <3>1. r = [of |-> i, method |-> m, on |-> calls + Cost(s), ready |-> FALSE, live |-> live]
              BY <1>4
        <3>2. QED  BY <3>1
    <2>2. QED  BY <1>2, <1>3, <2>1 DEF RunShaped
<1>7. Locked(runs')
    <2>1. SUFFICES ASSUME NEW p \in kept \cup new, NEW q \in kept \cup new,
                          p.live /\ q.live /\ p.of = q.of /\ p.method = q.method
                   PROVE  p = q
          BY <1>2 DEF Locked
    <2>2. CASE p \in kept /\ q \in kept  BY <1>3, <2>1, <2>2 DEF Locked
    <2>3. CASE p \in new /\ q \in new    BY <1>4, <2>3
    <2>4. CASE p \in new /\ q \in kept
        <3>1. p.of = i /\ p.method = m /\ p.live = live  BY <1>4, <2>4
        <3>2. QED  BY <1>5, <2>1, <2>4, <3>1
    <2>5. CASE p \in kept /\ q \in new
        <3>1. q.of = i /\ q.method = m /\ q.live = live  BY <1>4, <2>5
        <3>2. QED  BY <1>5, <2>1, <2>5, <3>1
    <2>6. QED  BY <2>2, <2>3, <2>4, <2>5
<1>8. TimerShaped(timers')
    <2>1. TimerShaped(registered(i, s))
        <3>1. SUFFICES ASSUME NEW t \in registered(i, s)
                       PROVE  t \in [id : {t.id}, kind : {"every", "after", "sleep"}, of : {t.of},
                                     left : {t.left}, bad : {t.bad}]
              BY DEF TimerShaped
        <3>2. \E kind \in {"every", "after", "sleep"} : \E id \in {t.id} : t = Timer(i, kind, id)
              BY DEF registered, Timer
        <3>3. QED  BY <3>2 DEF Timer
    <2>2. QED  BY <1>1, <1>2, <2>1 DEF TimerShaped
<1>9. TweenShaped(tweens')
      BY <1>1, <1>2 DEF TweenShaped
<1>10. Waiters(runs', timers', tweens')
    <2>1. SUFFICES ASSUME NEW q \in kept \cup new, q.live, ~q.ready
                   PROVE  Woken(q, timers', tweens')
          BY <1>2 DEF Waiters
    <2>2. CASE q \in kept
        <3>1. PICK r \in rs : /\ q.of = r.of /\ q.on = r.on /\ q.live = r.live
                              /\ ~r.ready /\ r.on \notin ids
              BY <1>3, <2>1, <2>2
        <3>2. Woken(r, timers, tweens)
              BY <1>1, <2>1, <3>1 DEF Waiters
        <3>3. CASE \E t \in timers : t.kind = "sleep" /\ t.of = r.of /\ t.id = r.on
              BY <1>2, <3>1, <3>3 DEF Woken
        <3>4. CASE \E w \in tweens : w.of = r.of /\ w.id = r.on
            <4>1. PICK w \in tweens : w.of = r.of /\ w.id = r.on  BY <3>4
            <4>2. w \notin old  BY <3>1, <4>1 DEF ids
            <4>3. QED  BY <1>2, <3>1, <4>1, <4>2 DEF Woken
        <3>5. QED  BY <3>2, <3>3, <3>4 DEF Woken
    <2>3. CASE q \in new
        <3>1. q.of = i /\ q.on = calls + Cost(s)  BY <1>4, <2>3
        <3>2. CASE s.end = "sleep"
            <4>1. Timer(i, "sleep", calls + Cost(s)) \in timers'
                  BY <1>2, <3>2 DEF registered
            <4>2. QED  BY <3>1, <4>1 DEF Woken, Timer
        <3>3. CASE s.end = "glide"
            <4> DEFINE w == [id |-> calls + Cost(s), of |-> i, left |-> 2]
            <4>1. w \in tweens'  BY <1>2, <3>3
            <4>2. w.of = q.of /\ w.id = q.on  BY <3>1
            <4>3. QED  BY <4>1, <4>2 DEF Woken
        <3>4. QED  BY <1>4, <2>3, <3>2, <3>3
    <2>4. QED  BY <2>1, <2>2, <2>3
<1>11. QED  BY <1>6, <1>7, <1>8, <1>9, <1>10 DEF ScriptsInv, RunShaped, TimerShaped, TweenShaped, Locked,
               Waiters, Woken

\* The inductive invariant, for any hosts, lives, breaker threshold and amount of creator code.
THEOREM ScriptsInvariant == ScriptsSpec => []ScriptsInv
<1>1. ScriptsInit => ScriptsInv
      BY DEF ScriptsInit, ScriptsInv, RunShaped, TimerShaped, TweenShaped, Waiters, Locked
<1>2. ScriptsInv /\ [ScriptsNext]_scriptVars => ScriptsInv'
    <2> SUFFICES ASSUME ScriptsInv, [ScriptsNext]_scriptVars
                 PROVE  ScriptsInv'
        OBVIOUS
    <2>i. /\ RunShaped(runs) /\ TimerShaped(timers) /\ TweenShaped(tweens)
          /\ Waiters(runs, timers, tweens) /\ Locked(runs)
          BY DEF ScriptsInv
    \* From the pieces, when the tables are given anew.
    <2>f. ASSUME RunShaped(runs'), TimerShaped(timers'), TweenShaped(tweens'),
                 Waiters(runs', timers', tweens'), Locked(runs')
          PROVE  ScriptsInv'
          BY <2>f DEF ScriptsInv, RunShaped, TimerShaped, TweenShaped, Waiters, Locked, Woken
    <2>s. ASSUME UNCHANGED <<runs, timers, tweens>> PROVE ScriptsInv'
          BY <2>s DEF ScriptsInv
    \* The death of instances: only `live` goes down, and of the dead none is live.
    <2>d. ASSUME NEW rs, NEW gone, RunShaped(rs)
           PROVE  /\ RunShaped(dead(rs, gone))
                  /\ \A q \in dead(rs, gone) : \E r \in rs :
                       /\ q.of = r.of /\ q.method = r.method /\ q.on = r.on /\ q.ready = r.ready
                       /\ q.live => r.live /\ r.of \notin gone
                  /\ Locked(rs) => Locked(dead(rs, gone))
        <3> USE <2>d
        <3>1. ASSUME NEW r \in rs, NEW q, q = [r EXCEPT !.live = r.live /\ r.of \notin gone]
              PROVE  /\ q.of = r.of /\ q.method = r.method /\ q.on = r.on /\ q.ready = r.ready
                     /\ q.live => r.live /\ r.of \notin gone
                     /\ q \in [of : {q.of}, method : {q.method}, on : {q.on}, ready : BOOLEAN, live : BOOLEAN]
            <4>1. r \in [of : {r.of}, method : {r.method}, on : {r.on}, ready : BOOLEAN, live : BOOLEAN]
                  BY DEF RunShaped
            <4>2. QED  BY <3>1, <4>1
        <3>2. \A q \in dead(rs, gone) : \E r \in rs : q = [r EXCEPT !.live = r.live /\ r.of \notin gone]
              BY DEF dead
        <3>3. RunShaped(dead(rs, gone))
              BY <3>1, <3>2 DEF RunShaped
        <3>4. ASSUME Locked(rs) PROVE Locked(dead(rs, gone))
            <4>1. SUFFICES ASSUME NEW p \in dead(rs, gone), NEW q \in dead(rs, gone),
                                  p.live /\ q.live /\ p.of = q.of /\ p.method = q.method
                           PROVE  p = q
                  BY DEF Locked
            <4>2. PICK r \in rs : p = [r EXCEPT !.live = r.live /\ r.of \notin gone]  BY <3>2
            <4>3. PICK u \in rs : q = [u EXCEPT !.live = u.live /\ u.of \notin gone]  BY <3>2
            <4>4. r = u
                  BY <3>1, <3>4, <4>1, <4>2, <4>3 DEF Locked
            <4>5. QED  BY <4>2, <4>3, <4>4
        <3>5. QED  BY <3>1, <3>2, <3>3, <3>4
    \* What a host's handler does, or does not, keeps the invariant: dispatch runs it only when no
    \* invocation of it counts.
    <2>h. ASSUME NEW i, NEW m, dispatch(i, m)
           PROVE  ScriptsInv'
        <3> USE <2>h
        <3>1. CASE idle
              BY <3>1 DEF idle, ScriptsInv
        <3>2. CASE findRunning(i, m) = {} /\ \E s \in Segments : segment(i, m, s, runs, TRUE)
            <4>1. PICK s \in Segments : segment(i, m, s, runs, TRUE)  BY <3>2
            <4>2. \A q \in runs : ~(q.live /\ q.of = i /\ q.method = m)  BY <3>2 DEF findRunning
            <4>3. PICK yes \in BOOLEAN : yes = TRUE  OBVIOUS
            <4>4. segment(i, m, s, runs, yes)  BY <4>1, <4>3
            <4>5. QED  BY <4>2, <4>4, SegmentKeeps
        <3>3. QED  BY <3>1, <3>2 DEF dispatch
    <2>1. ASSUME NEW r \in runs, resume(r) PROVE ScriptsInv'
        <3>1. PICK s \in Segments : segment(r.of, r.method, s, runs \ {r}, r.live)
              BY <2>1 DEF resume
        <3>2. r.live \in BOOLEAN  BY <2>i DEF RunShaped
        <3>3. r.live => \A q \in runs \ {r} : ~(q.live /\ q.of = r.of /\ q.method = r.method)
              BY <2>i DEF Locked
        <3>4. QED  BY <3>1, <3>2, <3>3, SegmentKeeps
    <2>2. ASSUME NEW g \in Guests, joinPlayer(g) PROVE ScriptsInv'
          BY <2>2, <2>s DEF joinPlayer
    <2>3. ASSUME NEW g \in Guests, leavePlayer(g) PROVE ScriptsInv'
          BY <2>3, <2>h DEF leavePlayer
    <2>4. CASE playerRemoved
        <3>1. runs' = dead(runs, ToSet(work)) /\ UNCHANGED <<timers, tweens>>
              BY <2>4 DEF playerRemoved
        <3>2. /\ RunShaped(runs') /\ Locked(runs')
              /\ \A q \in runs' : \E r \in runs :
                   /\ q.of = r.of /\ q.on = r.on /\ q.ready = r.ready
                   /\ q.live => r.live
              BY <2>i, <3>1, <2>d
        <3>3. Waiters(runs', timers', tweens')
              BY <2>i, <3>1, <3>2 DEF Waiters, Woken
        <3>4. QED  BY <2>i, <2>f, <3>1, <3>2, <3>3
    <2>5. CASE step         BY <2>5, <2>s DEF step
    <2>6. CASE starts       BY <2>6, <2>h DEF starts
    <2>7. CASE startsOver   BY <2>7, <2>s DEF startsOver, idle
    <2>8. CASE inputPass
        <3>1. CASE idle  BY <2>s, <3>1 DEF idle
        <3>2. QED  BY <2>8, <3>1, <2>h DEF inputPass
    \* A timer that comes nearer is the same one.
    <2>9. CASE advance
        <3>1. timers' = {[t EXCEPT !.left = @ - 1] : t \in timers} /\ UNCHANGED <<runs, tweens>>
              BY <2>9 DEF advance
        <3>2. ASSUME NEW t \in timers, NEW u, u = [t EXCEPT !.left = @ - 1]
              PROVE  /\ u.id = t.id /\ u.kind = t.kind /\ u.of = t.of
                     /\ u \in [id : {u.id}, kind : {"every", "after", "sleep"}, of : {u.of},
                               left : {u.left}, bad : {u.bad}]
            <4>1. t \in [id : {t.id}, kind : {"every", "after", "sleep"}, of : {t.of}, left : {t.left},
                         bad : {t.bad}]
                  BY <2>i DEF TimerShaped
            <4>2. QED  BY <3>2, <4>1
        <3>3. TimerShaped(timers')
              BY <3>1, <3>2 DEF TimerShaped
        <3>4. \A t \in timers : \E u \in timers' : u.id = t.id /\ u.kind = t.kind /\ u.of = t.of
              BY <3>1, <3>2
        <3>5. Waiters(runs', timers', tweens')
            <4>1. SUFFICES ASSUME NEW q \in runs, q.live, ~q.ready PROVE Woken(q, timers', tweens')
                  BY <3>1 DEF Waiters
            <4>2. Woken(q, timers, tweens)  BY <2>i, <4>1 DEF Waiters
            <4>3. QED  BY <3>1, <3>4, <4>2 DEF Woken
        <3>6. QED  BY <2>i, <2>f, <3>1, <3>3, <3>5
    \* A sleep that is due wakes its body; a callback is nobody's wait, and keeps the other timers.
    <2>10. CASE fire
        <3>1. CASE idle  BY <2>s, <3>1 DEF idle
        <3>2. ASSUME NEW t \in timers, NEW rest,
                     rest = (timers \ {t}) \cup (IF t.kind = "every" THEN {[t EXCEPT !.left = 1]} ELSE {})
              PROVE  /\ TimerShaped(rest)
                     /\ \A u \in timers : u.kind = "sleep" => u = t \/ u \in rest
            <4>1. t \in [id : {t.id}, kind : {"every", "after", "sleep"}, of : {t.of}, left : {t.left},
                         bad : {t.bad}]
                  BY <2>i DEF TimerShaped
            <4> DEFINE v == [t EXCEPT !.left = 1]
            <4>2. v \in [id : {v.id}, kind : {"every", "after", "sleep"}, of : {v.of}, left : {v.left},
                         bad : {v.bad}]
                  BY <4>1
            <4>3. QED  BY <2>i, <3>2, <4>2 DEF TimerShaped
        <3>3. ASSUME NEW t \in timers, t.kind = "sleep",
                     timers' = (timers \ {t}) \cup
                               (IF t.kind = "every" THEN {[t EXCEPT !.left = 1]} ELSE {}),
                     runs' = resolved(runs, {t.id}), UNCHANGED tweens
              PROVE  ScriptsInv'
            <4>1. /\ TimerShaped(timers')
                  /\ \A u \in timers : u.kind = "sleep" => u = t \/ u \in timers'
                  BY <3>2, <3>3
            <4>2. /\ RunShaped(runs') /\ Locked(runs')
                  /\ \A q \in runs' : \E r \in runs :
                       /\ q.of = r.of /\ q.on = r.on /\ q.live = r.live
                       /\ ~q.ready => ~r.ready /\ r.on \notin {t.id}
                  BY <2>i, <3>3, Resolving
            <4>3. Waiters(runs', timers', tweens')
                <5>1. SUFFICES ASSUME NEW q \in runs', q.live, ~q.ready
                               PROVE  Woken(q, timers', tweens')
                      BY DEF Waiters
                <5>2. PICK r \in runs : /\ q.of = r.of /\ q.on = r.on /\ r.live
                                        /\ ~r.ready /\ r.on # t.id
                      BY <4>2, <5>1
                <5>3. Woken(r, timers, tweens)  BY <2>i, <5>2 DEF Waiters
                <5>4. QED  BY <3>3, <4>1, <5>2, <5>3 DEF Woken
            <4>4. QED  BY <2>i, <2>f, <3>3, <4>1, <4>2, <4>3
        <3>4. ASSUME NEW t \in timers, t.kind # "sleep",
                     timers' = (timers \ {t}) \cup
                               (IF t.kind = "every" THEN {[t EXCEPT !.left = 1]} ELSE {}),
                     UNCHANGED <<runs, tweens>>
              PROVE  ScriptsInv'
            <4>1. /\ TimerShaped(timers')
                  /\ \A u \in timers : u.kind = "sleep" => u \in timers'
                  BY <3>2, <3>4
            <4>2. Waiters(runs', timers', tweens')
                  BY <2>i, <3>4, <4>1 DEF Waiters, Woken
            <4>3. QED  BY <2>i, <2>f, <3>4, <4>1, <4>2
        <3>5. ASSUME NEW t \in timers, t.kind # "sleep", NEW s \in Segments, NEW rest,
                     rest = (timers \ {t}) \cup (IF t.kind = "every" THEN {[t EXCEPT !.left = 1]} ELSE {}),
                     timers' = registered(t.of, s) \cup
                                {IF u.id = t.id THEN [u EXCEPT !.bad = IF s.end = "throw" THEN @ + 1 ELSE 0]
                                 ELSE u : u \in rest},
                     UNCHANGED <<runs, tweens>>
              PROVE  ScriptsInv'
            <4> DEFINE charged(u) == IF u.id = t.id
                                     THEN [u EXCEPT !.bad = IF s.end = "throw" THEN @ + 1 ELSE 0] ELSE u
            <4>1. /\ TimerShaped(rest)
                  /\ \A u \in timers : u.kind = "sleep" => u \in rest
                  BY <3>2, <3>5
            <4>2. ASSUME NEW u \in rest, NEW v, v = charged(u)
                  PROVE  /\ v.id = u.id /\ v.kind = u.kind /\ v.of = u.of
                         /\ v \in [id : {v.id}, kind : {"every", "after", "sleep"}, of : {v.of},
                                   left : {v.left}, bad : {v.bad}]
                <5>1. u \in [id : {u.id}, kind : {"every", "after", "sleep"}, of : {u.of}, left : {u.left},
                             bad : {u.bad}]
                      BY <4>1 DEF TimerShaped
                <5>2. QED  BY <4>2, <5>1
            <4>3. TimerShaped(registered(t.of, s))
                <5>1. SUFFICES ASSUME NEW v \in registered(t.of, s)
                               PROVE  v \in [id : {v.id}, kind : {"every", "after", "sleep"}, of : {v.of},
                                             left : {v.left}, bad : {v.bad}]
                      BY DEF TimerShaped
                <5>2. \E kind \in {"every", "after", "sleep"} : \E id \in {v.id} : v = Timer(t.of, kind, id)
                      BY DEF registered, Timer
                <5>3. QED  BY <5>2 DEF Timer
            <4>4. timers' = registered(t.of, s) \cup {charged(u) : u \in rest}
                  BY <3>5
            <4> HIDE DEF charged
            <4>5. TimerShaped(timers')
                  BY <4>2, <4>3, <4>4 DEF TimerShaped
            <4>6. \A u \in timers : u.kind = "sleep" =>
                     \E v \in timers' : v.id = u.id /\ v.kind = u.kind /\ v.of = u.of
                  BY <4>1, <4>2, <4>4
            <4>7. Waiters(runs', timers', tweens')
                  BY <2>i, <3>5, <4>6 DEF Waiters, Woken
            <4>8. QED  BY <2>i, <2>f, <3>5, <4>5, <4>7
        <3>6. QED  BY <2>10, <3>1, <3>3, <3>4, <3>5 DEF fire
    <2>11. CASE tweensAdvance
        <3> DEFINE over == {t \in tweens : t.left = 1}
                   ids  == {t.id : t \in over}
        <3>1. /\ tweens' = {[t EXCEPT !.left = @ - 1] : t \in tweens \ over}
              /\ runs' = resolved(runs, ids) /\ UNCHANGED timers
              BY <2>11 DEF tweensAdvance
        <3>2. ASSUME NEW t \in tweens, NEW u, u = [t EXCEPT !.left = @ - 1]
              PROVE  u.id = t.id /\ u.of = t.of /\ u \in [id : {u.id}, of : {u.of}, left : {u.left}]
            <4>1. t \in [id : {t.id}, of : {t.of}, left : {t.left}]
                  BY <2>i DEF TweenShaped
            <4>2. QED  BY <3>2, <4>1
        <3>3. TweenShaped(tweens')
              BY <3>1, <3>2 DEF TweenShaped
        <3>4. \A t \in tweens \ over : \E u \in tweens' : u.id = t.id /\ u.of = t.of
              BY <3>1, <3>2
        <3>5. /\ RunShaped(runs') /\ Locked(runs')
              /\ \A q \in runs' : \E r \in runs :
                   /\ q.of = r.of /\ q.on = r.on /\ q.live = r.live
                   /\ ~q.ready => ~r.ready /\ r.on \notin ids
              BY <2>i, <3>1, Resolving
        <3>6. Waiters(runs', timers', tweens')
            <4>1. SUFFICES ASSUME NEW q \in runs', q.live, ~q.ready PROVE Woken(q, timers', tweens')
                  BY DEF Waiters
            <4>2. PICK r \in runs : /\ q.of = r.of /\ q.on = r.on /\ r.live
                                    /\ ~r.ready /\ r.on \notin ids
                  BY <3>5, <4>1
            <4>3. Woken(r, timers, tweens)  BY <2>i, <4>2 DEF Waiters
            <4>4. CASE \E w \in tweens : w.of = r.of /\ w.id = r.on
                <5>1. PICK w \in tweens : w.of = r.of /\ w.id = r.on  BY <4>4
                <5>2. w \notin over  BY <4>2, <5>1
                <5>3. QED  BY <3>4, <4>2, <5>1, <5>2 DEF Woken
            <4>5. QED  BY <3>1, <4>2, <4>3, <4>4 DEF Woken
        <3>7. QED  BY <2>i, <2>f, <3>1, <3>3, <3>5, <3>6
    <2>12. CASE update        BY <2>12, <2>h DEF update
    <2>13. CASE drainBegins   BY <2>13, <2>s DEF drainBegins, idle
    <2>14. CASE dispatchEnd   BY <2>14, <2>h DEF dispatchEnd
    \* The drain cancels what is of the gone: their tweens resolve, and whoever slept among them is dead.
    <2>15. CASE drainDestroyed
        <3> DEFINE gone == {i \in ended : Live(i) /\ i[1] \in Things}
                   cut  == tweens \ cancelScope(tweens, gone)
                   ids  == {t.id : t \in cut}
                   mid  == resolved(runs, ids)
        <3>1. /\ timers' = cancelScope(timers, gone)
              /\ tweens' = tweens \ cut
              /\ runs' = dead(mid, gone)
              BY <2>15 DEF drainDestroyed
        <3>2. /\ RunShaped(mid) /\ Locked(mid)
              /\ \A q \in mid : \E r \in runs :
                   /\ q.of = r.of /\ q.on = r.on /\ q.live = r.live
                   /\ ~q.ready => ~r.ready /\ r.on \notin ids
              BY <2>i, Resolving
        <3>3. /\ RunShaped(runs') /\ Locked(runs')
              /\ \A q \in runs' : \E r \in mid :
                   /\ q.of = r.of /\ q.on = r.on /\ q.ready = r.ready
                   /\ q.live => r.live /\ r.of \notin gone
            <4> HIDE DEF mid, gone
            <4>1. /\ RunShaped(dead(mid, gone)) /\ Locked(dead(mid, gone))
                  /\ \A q \in dead(mid, gone) : \E r \in mid :
                       /\ q.of = r.of /\ q.method = r.method /\ q.on = r.on /\ q.ready = r.ready
                       /\ q.live => r.live /\ r.of \notin gone
                  BY <3>2, <2>d
            <4>2. QED  BY <3>1, <4>1
        <3>4. TimerShaped(timers') /\ TweenShaped(tweens')
              BY <2>i, <3>1 DEF cancelScope, TimerShaped, TweenShaped
        <3>5. Waiters(runs', timers', tweens')
            <4>1. SUFFICES ASSUME NEW q \in runs', q.live, ~q.ready PROVE Woken(q, timers', tweens')
                  BY DEF Waiters
            <4> HIDE DEF mid, gone, ids
            <4>2. PICK r \in runs : /\ q.of = r.of /\ q.on = r.on /\ r.live /\ r.of \notin gone
                                    /\ ~r.ready /\ r.on \notin ids
                  BY <3>2, <3>3, <4>1
            <4>3. Woken(r, timers, tweens)  BY <2>i, <4>2 DEF Waiters
            <4>4. CASE \E w \in tweens : w.of = r.of /\ w.id = r.on
                  BY <3>1, <4>2, <4>4 DEF Woken, cancelScope
            <4>5. CASE \E t \in timers : t.kind = "sleep" /\ t.of = r.of /\ t.id = r.on
                  BY <3>1, <4>2, <4>5 DEF Woken, cancelScope
            <4>6. QED  BY <4>3, <4>4, <4>5 DEF Woken
        <3>6. QED  BY <2>f, <3>3, <3>4, <3>5
    <2>16. CASE UNCHANGED scriptVars
          BY <2>16, <2>s DEF scriptVars
    <2>17. QED
          BY <2>1, <2>2, <2>3, <2>4, <2>5, <2>6, <2>7, <2>8, <2>9, <2>10, <2>11, <2>12, <2>13, <2>14,
             <2>15, <2>16 DEF ScriptsNext
<1>3. QED  BY <1>1, <1>2, PTL DEF ScriptsSpec

\* Whatever a body of a live host waits for will come: no handler's lock is held for good.
THEOREM WaitersAreWoken == ScriptsSpec => []NobodyWaitsForever
<1>1. ScriptsInv => NobodyWaitsForever
      BY DEF ScriptsInv, Waiters, Woken, NobodyWaitsForever
<1>2. QED  BY <1>1, ScriptsInvariant, PTL

\* No handler of an instance is run a second time while an invocation of it that counts is parked.
THEOREM HandlersNeverOverlap == ScriptsSpec => []Locked(runs)
<1>1. ScriptsInv => Locked(runs)
      BY DEF ScriptsInv
<1>2. QED  BY <1>1, ScriptsInvariant, PTL

=============================================================================
