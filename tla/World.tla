------------------------------- MODULE World -------------------------------
(***************************************************************************)
(* The authority's world and the three channels that record what changes   *)
(* in it (packages/core/src/world, runtime/entity.ts, state/channels.ts):  *)
(* the entity table with its hierarchy, tags and scripts, the append-only  *)
(* structural journal, the marks of @serverState fields and the dirty set  *)
(* of transforms.                                                          *)
(*                                                                         *)
(* A script's calls are the actions; a tick ends with the drain of the     *)
(* entities destroyed during it.  One @serverState field, one transform    *)
(* cell and one tag stand for all of an entity's, since each is carried by *)
(* the same mark.  Ids are never reused: a slot's generation is part of    *)
(* its id.                                                                 *)
(***************************************************************************)
EXTENDS Trees

CONSTANTS
    MaxWork,        \* script calls in a behaviour that change what exists, or where
    MaxTouch,       \* script calls that write a field, a transform, a tag or a script
    Placed          \* entities placed before the first session, Placed <= MaxId

ASSUME WorldAssumption == MaxWork \in Nat /\ MaxTouch \in Nat /\ Placed \in 0..MaxId

VARIABLES
    ent,            \* stat, parent, tagged, scripts, owner of every id
    queue,          \* EntityManager.#pendingDestroy
    journal,        \* ReplicationChannels.#structural
    val, marks,     \* each entity's @serverState field, and the ids marked since the last drain
    pos, dirty,     \* each entity's transform cell, and the dirty set
    guest,          \* an anonymous player: "away", "here", then "left" for good
    roster,         \* Sim.#roster: joins and leaves since the last drain
    work, touch     \* calls so far

worldVars == <<ent, queue, journal, val, marks, pos, dirty, guest, roster, work, touch>>

Exists == {x \in Ids : ent.stat[x] \in {"live", "dying"}}
Alive == {x \in Ids : ent.stat[x] = "live"}
Minted == {x \in Ids : ent.stat[x] /= "none"}

SpawnOp(x) == [op |-> "spawn", id |-> x]
DestroyOp(x) == [op |-> "destroy", id |-> x]
ReparentOp(x, p) == [op |-> "reparent", id |-> x, parent |-> p]
TagOp(x, on) == [op |-> "tag", id |-> x, added |-> on]
AttachOp(x) == [op |-> "attach", id |-> x]
GroupOp(ops) == [op |-> "group", ops |-> ops]

WorldInit ==
    /\ ent = [stat |-> [x \in Ids |-> IF x <= Placed THEN "live" ELSE "none"],
              parent |-> Roots,
              tagged |-> {},
              scripts |-> [x \in Ids |-> 0],
              owner |-> [x \in Ids |-> FALSE]]
    /\ queue = <<>>
    /\ journal = <<>>
    /\ val = [x \in Ids |-> 0] /\ marks = {}
    /\ pos = [x \in Ids |-> 0] /\ dirty = {}
    /\ guest = "away"
    /\ roster = [joins |-> 0, leaves |-> 0]
    /\ work = 0 /\ touch = 0

Working == work < MaxWork /\ work' = work + 1 /\ UNCHANGED touch

Touching == touch < MaxTouch /\ touch' = touch + 1 /\ UNCHANGED work

markStructural(op) == journal' = Append(journal, op)

\* EntityManager.spawn: a fresh slot, owned by the guest or by no one, its position written (so its
\* transform is dirty), the op journaled.  The world's cap is MaxId.
spawn ==
    /\ Working
    /\ Minted /= Ids
    /\ LET x == Cardinality(Minted) + 1
       IN  /\ \E own \in {FALSE, guest = "here"} :
                ent' = [ent EXCEPT !.stat[x] = "live", !.owner[x] = own]
           /\ dirty' = dirty \cup {x}
           /\ markStructural(SpawnOp(x))
    /\ UNCHANGED <<queue, val, marks, pos, guest, roster>>

\* templates.instantiate: a root with a script and one child, journaled as one group.  Each node's
\* own attach op comes before the op that parents it.
instantiate ==
    /\ Working
    /\ Cardinality(Minted) + 2 <= MaxId
    /\ LET root == Cardinality(Minted) + 1
           child == root + 1
       IN  /\ ent' = [ent EXCEPT !.stat[root] = "live", !.stat[child] = "live",
                                 !.scripts[root] = 1, !.parent[child] = root]
           /\ dirty' = dirty \cup {root, child}
           /\ markStructural(GroupOp(<<SpawnOp(root), AttachOp(root), SpawnOp(child),
                                       ReparentOp(child, root)>>))
    /\ UNCHANGED <<queue, val, marks, pos, guest, roster>>

\* Entity.attachTo does nothing for a parent whose destroy has already cascaded, and throws for
\* one beneath the entity itself.
mayAttach(x, p) == x \in Exists /\ p \in Alive /\ ~WouldCycle(ent.parent, x, p)

attachTo(x, p) ==
    /\ Working
    /\ mayAttach(x, p)
    /\ ent' = [ent EXCEPT !.parent[x] = p]
    /\ markStructural(ReparentOp(x, p))
    /\ UNCHANGED <<queue, val, marks, pos, dirty, guest, roster>>

detach(x) ==
    /\ Working
    /\ x \in Exists
    /\ ent.parent[x] /= NoId
    /\ ent' = [ent EXCEPT !.parent[x] = NoId]
    /\ markStructural(ReparentOp(x, NoId))
    /\ UNCHANGED <<queue, val, marks, pos, dirty, guest, roster>>

\* Entity.tag and Entity.untag.
retag(x) ==
    /\ Touching
    /\ x \in Exists
    /\ LET on == x \notin ent.tagged
       IN  /\ ent' = [ent EXCEPT !.tagged = IF on THEN @ \cup {x} ELSE @ \ {x}]
           /\ markStructural(TagOp(x, on))
    /\ UNCHANGED <<queue, val, marks, pos, dirty, guest, roster>>

\* Wiring.attachToEntity, once per entity here.
attachScript(x) ==
    /\ Touching
    /\ x \in Exists
    /\ ent.scripts[x] = 0
    /\ ent' = [ent EXCEPT !.scripts[x] = 1]
    /\ markStructural(AttachOp(x))
    /\ UNCHANGED <<queue, val, marks, pos, dirty, guest, roster>>

\* A write of a @serverState field marks the host record.
write(x) ==
    /\ Touching
    /\ x \in Exists
    /\ val' = [val EXCEPT ![x] = 1 - @]
    /\ marks' = marks \cup {x}
    /\ UNCHANGED <<ent, queue, journal, pos, dirty, guest, roster>>

move(x) ==
    /\ Touching
    /\ x \in Exists
    /\ pos' = [pos EXCEPT ![x] = 1 - @]
    /\ dirty' = dirty \cup {x}
    /\ UNCHANGED <<ent, queue, journal, val, marks, guest, roster>>

\* EntityManager.destroy of each id of S: `alive` goes false now, for the subtree too, and the
\* teardown waits for the end of the tick.
doom(e, S) ==
    LET reached(x) == Subtree(e.parent, {y \in Ids : e.stat[y] = "live"}, x)
        one(acc, x) ==
            IF acc.e.stat[x] /= "live" THEN acc
            ELSE LET new == SelectSeq(reached(x), LAMBDA y : acc.e.stat[y] = "live")
                 IN  [e |-> [acc.e EXCEPT !.stat = [y \in Ids |-> IF y \in ToSet(new)
                                                                  THEN "dying" ELSE @[y]]],
                      q |-> acc.q \o new]
    IN  FoldLeft(one, [e |-> e, q |-> <<>>], SetToSortSeq(S, LAMBDA a, b : a < b))

destroy(x) ==
    /\ Working
    /\ x \in Alive
    /\ LET d == doom(ent, {x})
       IN  ent' = d.e /\ queue' = queue \o d.q
    /\ UNCHANGED <<journal, val, marks, pos, dirty, guest, roster>>

guestJoins ==
    /\ Working
    /\ guest = "away"
    /\ guest' = "here"
    /\ roster' = [roster EXCEPT !.joins = 1]
    /\ UNCHANGED <<ent, queue, journal, val, marks, pos, dirty>>

\* Sim.#release: everything the player owns is destroyed, then the leave is queued.
guestLeaves ==
    /\ Working
    /\ guest = "here"
    /\ guest' = "left"
    /\ LET d == doom(ent, {x \in Alive : ent.owner[x]})
       IN  ent' = d.e /\ queue' = queue \o d.q
    /\ roster' = [roster EXCEPT !.leaves = 1]
    /\ UNCHANGED <<journal, val, marks, pos, dirty>>

Script ==
    \/ spawn \/ instantiate \/ guestJoins \/ guestLeaves
    \/ \E x \in Ids : \/ detach(x) \/ retag(x) \/ attachScript(x)
                      \/ write(x) \/ move(x) \/ destroy(x)
    \/ \E x, p \in Ids : attachTo(x, p)

\* EntityManager.drainDestroyed: the entities queued before it began leave every index, each with
\* its op.  An @onEnd handler it runs first may destroy one more, which waits for the next tick.
drainDestroyed(victims) ==
    LET gone == ToSet(queue)
        late == doom(ent, victims)
    IN  [ent |-> [late.e EXCEPT !.stat = [x \in Ids |-> IF x \in gone THEN "gone" ELSE @[x]],
                                !.parent = [x \in Ids |-> IF x \in gone THEN NoId ELSE @[x]],
                                !.tagged = @ \ gone],
         queue |-> late.q,
         journal |-> journal \o [i \in DOMAIN queue |-> DestroyOp(queue[i])],
         dirty |-> dirty \ gone]

AtEnd == {{}} \cup (IF queue = <<>> \/ work = MaxWork THEN {} ELSE {{x} : x \in Alive})
=============================================================================
