------------------------------- MODULE Mirror -------------------------------
(***************************************************************************)
(* The client's copy of the world (packages/client/src/mirror.ts) and the  *)
(* render bridge that draws it (bridge.ts over the renderer's node store), *)
(* as operators on the two records they keep.  A local entity id is named  *)
(* by the network id it was spawned for; `ghosts` counts the ones a second *)
(* spawn of the same network id leaves behind, mapped by nothing.          *)
(*                                                                         *)
(* An envelope that throws is the end of the session, so `thrown` is all   *)
(* that is kept of the state it leaves.                                    *)
(***************************************************************************)
EXTENDS Trees

NoDelta == [added |-> <<>>, moved |-> <<>>, removed |-> <<>>]

\* known: netIds in the index; here: local records; dying: those whose `alive` is false; unmap: the
\* netIds to drop from the index when the envelope ends.
NewMirror ==
    [known |-> {}, here |-> {}, dying |-> {}, unmap |-> {}, parent |-> Roots, tagged |-> {},
     scripts |-> [x \in Ids |-> 0], owned |-> {}, val |-> [x \in Ids |-> 0],
     pos |-> [x \in Ids |-> 0], guest |-> FALSE, ghosts |-> 0, delta |-> NoDelta,
     thrown |-> FALSE]

\* Entity.attachTo on the mirror's own runtime, with the authority's guards.
linked(m, x, p) ==
    IF x \notin m.here \/ p \notin m.here \ m.dying THEN m
    ELSE IF WouldCycle(m.parent, x, p) THEN [m EXCEPT !.thrown = TRUE]
    ELSE [m EXCEPT !.parent[x] = p]

\* A spawn never looks for an entity already mapped.  Its snapshot names a parent, tags and scripts
\* only in a join's baseline; a parent not known leaves it a root.
spawned(m, s) ==
    LET x == s.id
        base == [m EXCEPT !.ghosts = IF x \in m.here THEN @ + 1 ELSE @,
                          !.known = @ \cup {x}, !.here = @ \cup {x}, !.dying = @ \ {x},
                          !.parent[x] = NoId,
                          !.tagged = IF s.tagged THEN @ \cup {x} ELSE @ \ {x},
                          !.scripts[x] = s.scripts,
                          !.owned = IF s.owner THEN @ \cup {x} ELSE @ \ {x},
                          !.val[x] = 0,
                          !.pos[x] = s.pos,
                          !.delta.added = Append(@, x)]
    IN  IF s.parent \in m.known THEN linked(base, x, s.parent) ELSE base

destroyed(m, x) ==
    IF x \notin m.known THEN m
    ELSE [m EXCEPT !.delta.removed = Append(@, x),
                   !.dying = @ \cup (IF x \in m.here \ m.dying
                                     THEN ToSet(Subtree(m.parent, m.here, x)) ELSE {}),
                   !.unmap = @ \cup {x}]

\* The op reaches the bridge whether or not the entity could be linked, but not when either end is
\* unknown.
reparented(m, x, p) ==
    LET noted(n) == [n EXCEPT !.delta.moved = Append(@, <<x, p>>)]
    IN  IF x \notin m.known THEN m
        ELSE IF p = NoId
             THEN noted(IF x \in m.here THEN [m EXCEPT !.parent[x] = NoId] ELSE m)
        ELSE IF p \notin m.known THEN m
        ELSE noted(linked(m, x, p))

tagged(m, x, on) ==
    IF x \notin m.known THEN m
    ELSE [m EXCEPT !.tagged = IF on THEN @ \cup {x} ELSE @ \ {x}]

attached(m, x) == IF x \notin m.known THEN m ELSE [m EXCEPT !.scripts[x] = @ + 1]

applySingle(m, o) ==
    CASE m.thrown -> m
      [] o.op = "spawn" -> spawned(m, o)
      [] o.op = "destroy" -> destroyed(m, o.id)
      [] o.op = "reparent" -> reparented(m, o.id, o.parent)
      [] o.op = "tag" -> tagged(m, o.id, o.added)
      [] o.op = "attach" -> attached(m, o.id)
      [] o.op = "join" -> [m EXCEPT !.guest = TRUE]
      [] o.op = "leave" -> [m EXCEPT !.guest = FALSE]

\* A group is applied verbatim and in order, as the journal around it is.
applyStructural(m, o) ==
    IF o.op = "group" THEN FoldLeft(applySingle, m, o.ops) ELSE applySingle(m, o)

\* Once per envelope: the doomed leave the mirror, and their netIds the index.
drained(m) ==
    [m EXCEPT !.here = @ \ m.dying, !.dying = {}, !.known = @ \ m.unmap, !.unmap = {},
              !.tagged = @ \ m.dying, !.owned = @ \ m.dying,
              !.parent = [x \in Ids |-> IF x \in m.dying THEN NoId ELSE @[x]]]

\* A field of an unknown entity is dropped; one of a released local mints a host nobody reads.
withState(m, vals) ==
    [m EXCEPT !.val = [x \in Ids |-> IF x \in DOMAIN vals /\ x \in m.known
                                     THEN vals[x] ELSE @[x]]]

\* Mutant: the state diffs go first, so a field of an entity spawned by the same envelope is lost.
applyState_StateFirst(m, ops, vals) ==
    drained(FoldLeft(applyStructural, [withState(m, vals) EXCEPT !.delta = NoDelta], ops))

\* The structural journal, then the @serverState diffs.
applyState(m, ops, vals) ==
    withState(drained(FoldLeft(applyStructural, [m EXCEPT !.delta = NoDelta], ops)), vals)

applyTransforms(m, poses) ==
    [m EXCEPT !.pos = [x \in Ids |-> IF x \in DOMAIN poses /\ x \in m.known
                                     THEN poses[x] ELSE @[x]]]

-----------------------------------------------------------------------------
\* node: RenderBridge.#nodeFor; parentOf: #parentOf, of which #childrenOf is the inverse; drawn and
\* under: the renderer's live nodes and its own parent links.
NewBridge == [node |-> {}, parentOf |-> Roots, drawn |-> {}, under |-> Roots, thrown |-> FALSE]

\* #attach does nothing until both nodes exist; the renderer throws on a node made its own ancestor.
attachNode(b, x, p) ==
    IF x \notin b.node \/ p \notin b.node THEN b
    ELSE IF x \in b.drawn /\ p \in b.drawn /\ WouldCycle(b.under, x, p)
         THEN [b EXCEPT !.thrown = TRUE]
    ELSE [b EXCEPT !.parentOf[x] = p,
                   !.under[x] = IF x \in b.drawn /\ p \in b.drawn THEN p ELSE @]

\* #create: the node is attached under the parent the entity ended the envelope with.
createNode(m, b, x) ==
    IF b.thrown \/ x \in b.node THEN b
    ELSE LET made == [b EXCEPT !.node = @ \cup {x}, !.drawn = @ \cup {x}, !.under[x] = NoId]
         IN  IF m.parent[x] = NoId THEN made ELSE attachNode(made, x, m.parent[x])

reparentNode(b, x, p) ==
    IF b.thrown \/ x \notin b.node THEN b
    ELSE LET cut == [b EXCEPT !.parentOf[x] = NoId]
         IN  IF p = NoId THEN [cut EXCEPT !.under[x] = NoId] ELSE attachNode(cut, x, p)

\* Mutant: the descendants keep their entries in the bridge's maps.
destroyNode_RootOnly(b, x) ==
    IF b.thrown \/ x \notin b.node THEN b
    ELSE LET shown == ToSet(Subtree(b.under, b.drawn, x))
         IN  [b EXCEPT !.node = @ \ {x}, !.parentOf[x] = NoId, !.drawn = @ \ shown,
                       !.under = [y \in Ids |-> IF y \in shown THEN NoId ELSE @[y]]]

\* #destroy: the entity and its descendants by the bridge's own links leave its maps; the renderer
\* cascades by its own.
destroyNode(b, x) ==
    IF b.thrown \/ x \notin b.node THEN b
    ELSE LET doomed == ToSet(Subtree(b.parentOf, b.node, x))
             shown == ToSet(Subtree(b.under, b.drawn, x))
         IN  [b EXCEPT !.node = @ \ doomed,
                       !.parentOf = [y \in Ids |-> IF y \in doomed THEN NoId ELSE @[y]],
                       !.drawn = @ \ shown,
                       !.under = [y \in Ids |-> IF y \in shown THEN NoId ELSE @[y]]]

\* All that an envelope added, then all it moved, then all it removed.
reconcile(m, b) ==
    LET create(c, x) == createNode(m, c, x)
        moved(c, xp) == reparentNode(c, xp[1], xp[2])
    IN  FoldLeft(destroyNode,
            FoldLeft(moved, FoldLeft(create, b, m.delta.added), m.delta.moved),
            m.delta.removed)
=============================================================================
