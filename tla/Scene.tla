------------------------------- MODULE Scene -------------------------------
(***************************************************************************)
(* The renderer's retained scene: a table of nodes with reused slots, the  *)
(* transform graph with its two kinds of dirt (a subtree whose resolved    *)
(* values may be stale, a node whose own values the backend has not been   *)
(* given), and the frame that resolves, pushes and culls only what is      *)
(* dirty.  `sink` is the backend's own tree of display objects, which the  *)
(* core writes and never reads.                                            *)
(*                                                                         *)
(* Of a node's values, `pos` stands for the two a child inherits (position *)
(* adds up, visibility is a conjunction along the same walk) and `size`    *)
(* for the ones that change its own extent (scale, rotation, anchor,       *)
(* texture, text).  Groups and neverCull nodes, which always draw, are     *)
(* left out.  The viewport is the numbers up to `edge`.                    *)
(*                                                                         *)
(* A call through a stale handle is a no-op in every method, and one that  *)
(* throws (a cycle, a parent on another surface) throws ahead of any       *)
(* change: neither is a step here.                                         *)
(*                                                                         *)
(* Source: packages/renderer/src/core/renderer-core.ts, transform-store.ts,*)
(* node-store.ts over packages/math/src/slot-table.ts, pixi/pixi-sink.ts   *)
(***************************************************************************)
EXTENDS Trees, Integers

CONSTANTS
    world, ui,          \* a surface the camera moves and culls, and one it does not
    MAX_GENERATION,     \* lives of a slot before it is retired
    Reach,              \* a kept position is followed no further than this from 0
    Standing,           \* nodes the scene begins with, roots of the world, drawn
    MaxEdits            \* calls of the game in one behaviour, frames and queries not counted

ASSUME SceneAssumption ==
    /\ {world, ui} \cap (Ids \cup {NoId}) = {} /\ world # ui
    /\ MAX_GENERATION \in Nat \ {0} /\ Reach \in Nat /\ MaxEdits \in Nat
    /\ Standing \in 0..MaxId

Surfaces == {world, ui}
Layers == {-1, 0}
Edges == {0, 1}

VARIABLES nodes, xf, cam, sink, edits

sceneVars == <<nodes, xf, cam, sink, edits>>

SceneInit ==
    LET standing == [i \in 1..Standing |-> i]
    IN  /\ nodes = [live |-> 1..Standing, surface |-> [s \in Ids |-> world],
                    layer |-> [s \in Ids |-> 0], size |-> [s \in Ids |-> 0],
                    gen |-> [s \in Ids |-> 1], free |-> <<>>, count |-> Standing]
        /\ xf = [pos |-> [s \in Ids |-> 0], res |-> [s \in Ids |-> 0], parent |-> Roots,
                 kids |-> [s \in Ids \cup {NoId} |-> IF s = NoId THEN standing ELSE <<>>],
                 count |-> Standing, resolveDirty |-> {}, flushDirty |-> {}, changed |-> {}]
        /\ cam = [edge |-> 0, culledEdge |-> 0, hidden |-> FALSE, cullAll |-> FALSE]
        /\ sink = [shown |-> 1..Standing, drawn |-> 1..Standing,
                   at |-> [c \in Ids \cup Surfaces |-> IF c = world THEN standing ELSE <<>>],
                   pos |-> [s \in Ids |-> 0], layer |-> [s \in Ids |-> 0]]
        /\ edits = 0

-----------------------------------------------------------------------------
(* NodeStore over SlotTable. *)

Room == nodes.free # <<>> \/ nodes.count < MaxId

\* The slot the next create takes: the most recently freed one, or a fresh one.
NextSlot == IF nodes.free # <<>> THEN Last(nodes.free) ELSE nodes.count + 1

create(n, s, surface) ==
    [n EXCEPT !.live = @ \cup {s}, !.surface[s] = surface,
              !.free = IF @ # <<>> THEN Front(@) ELSE @,
              !.count = IF n.free # <<>> THEN @ ELSE @ + 1]

\* A slot out of generations is retired (0) and never reused.
recycle(g) == IF g >= MAX_GENERATION THEN 0 ELSE g + 1

releaseAt(n, s) ==
    LET g == recycle(n.gen[s])
    IN  [n EXCEPT !.live = @ \ {s}, !.gen[s] = g,
                  !.surface[s] = world, !.layer[s] = 0, !.size[s] = 0,
                  !.free = IF g = 0 THEN @ ELSE Append(@, s)]

\* The free list is rebuilt so that it is popped in ascending order.
clearTable(n) ==
    LET gens == [s \in Ids |-> IF s \in n.live THEN recycle(n.gen[s]) ELSE n.gen[s]]
        usable == {s \in 1..n.count : gens[s] # 0}
    IN  [n EXCEPT !.live = {}, !.gen = gens,
                  !.surface = [s \in Ids |-> world], !.layer = [s \in Ids |-> 0],
                  !.size = [s \in Ids |-> 0],
                  !.free = SetToSortSeq(usable, LAMBDA a, b : a > b)]

-----------------------------------------------------------------------------
(* TransformStore, as operators on the graph t. *)

without(seq, s) == SelectSeq(seq, LAMBDA y : y # s)

\* kids[NoId] is the root order: a slot that leaves it leaves no trace there.
detachSlot(t, c) == [t EXCEPT !.kids[t.parent[c]] = without(@, c), !.parent[c] = NoId]

reset(t, s) == [t EXCEPT !.pos[s] = 0, !.res[s] = 0, !.parent[s] = NoId, !.kids[s] = <<>>]

initSlot(t, s) ==
    [reset(t, s) EXCEPT !.count = IF s > @ THEN s ELSE @, !.kids[NoId] = Append(without(@, s), s),
                        !.flushDirty = @ \cup {s}, !.resolveDirty = @ \cup {s}]

releaseSlot(t, s) ==
    LET d == [reset(detachSlot(t, s), s) EXCEPT !.kids[NoId] = without(@, s)]
    IN  [d EXCEPT !.flushDirty = @ \ {s}, !.resolveDirty = @ \ {s}, !.changed = @ \ {s}]

setPosition(t, s, x) ==
    [t EXCEPT !.pos[s] = x, !.flushDirty = @ \cup {s}, !.resolveDirty = @ \cup {s}]

\* setScale, setRotation, setAnchor and a texture swap: nothing beneath the node moves.
markFlushDirty(t, s) == [t EXCEPT !.flushDirty = @ \cup {s}]

link(t, c, p) ==
    IF c = p \/ WouldCycle(t.parent, c, p) THEN t
    ELSE LET d == detachSlot(t, c)
         IN  [d EXCEPT !.parent[c] = p, !.kids[p] = Append(@, c),
                       !.flushDirty = @ \cup {c}, !.resolveDirty = @ \cup {c}]

unlink(t, c) == IF t.parent[c] = NoId THEN t ELSE link(t, c, NoId)

\* What the walk reaches: it starts from each dirty node with no dirty node above it.
walked(t) == {s \in Ids : Chain(t.parent, s) \cap t.resolveDirty # {}}

\* The walk composes everything it reaches; the rest keeps the value it had.
resolveFrom(t) ==
    LET reached == walked(t)
        composed[s \in Ids] ==
            IF s \notin reached THEN t.res[s]
            ELSE t.pos[s] + (IF t.parent[s] = NoId THEN 0 ELSE composed[t.parent[s]])
    IN  composed

resolve(t) ==
    LET res == resolveFrom(t)
    IN  [t EXCEPT !.res = res, !.resolveDirty = {},
                  !.changed = @ \cup {s \in Ids : res[s] # t.res[s]}]

markAllDirty(t) ==
    [t EXCEPT !.flushDirty = @ \cup 1..t.count,
              !.resolveDirty = @ \cup {s \in 1..t.count : t.parent[s] = NoId}]

clearGraph(t) ==
    [t EXCEPT !.pos = [s \in Ids |-> 0], !.res = [s \in Ids |-> 0], !.parent = Roots, !.count = 0,
              !.kids = [s \in Ids \cup {NoId} |-> <<>>],
              !.resolveDirty = {}, !.flushDirty = {}, !.changed = {}]

-----------------------------------------------------------------------------
(* PixiSink: `at` is each container's display objects, in the order they   *)
(* were added to it.                                                       *)

container(n, s, p) == IF p = NoId THEN n.surface[s] ELSE p

lifted(k, s) == [k EXCEPT !.at = [c \in DOMAIN @ |-> without(@[c], s)]]

createObjects(k, n, s, p) ==
    [k EXCEPT !.shown = @ \cup {s}, !.at[container(n, s, p)] = Append(@, s),
              !.pos[s] = 0, !.layer[s] = n.layer[s], !.drawn = @ \cup {s}]

reparent(k, n, s, p) == [lifted(k, s) EXCEPT !.at[container(n, s, p)] = Append(@, s)]

\* Destroying the root's object destroys the ones beneath it.
destroyObjects(k, S, root) ==
    [lifted(k, root) EXCEPT
        !.shown = @ \ S, !.drawn = @ \ S,
        !.at = [c \in DOMAIN @ |-> IF c \in S THEN <<>> ELSE @[c]],
        !.pos = [s \in Ids |-> IF s \in S THEN 0 ELSE @[s]],
        !.layer = [s \in Ids |-> IF s \in S THEN 0 ELSE @[s]]]

clearAll(k) == destroyObjects([k EXCEPT !.at = [c \in DOMAIN @ |-> <<>>]], Ids, NoId)

-----------------------------------------------------------------------------
(* RendererCore. *)

Edit == edits < MaxEdits /\ edits' = edits + 1

\* The other fields of a desc are written as a patch writes them.
CreateNode(surface, x, p) ==
    LET s == NextSlot
        made == setPosition(initSlot(xf, s), s, x)
        n == create(nodes, s, surface)
    IN  /\ Edit /\ Room
        /\ p \in {NoId} \cup {q \in nodes.live : nodes.surface[q] = surface}
        /\ nodes' = n
        /\ xf' = IF p = NoId THEN made ELSE link(made, s, p)
        /\ sink' = createObjects(sink, n, s, p)
        /\ UNCHANGED cam

\* destroyNode, its cascade deepest first.
destroyed(w, s) ==
    LET doomed == Subtree(w.xf.parent, w.nodes.live, s)
        backwards == Reverse(doomed)
    IN  [nodes |-> FoldLeft(releaseAt, w.nodes, backwards),
         xf |-> FoldLeft(releaseSlot, w.xf, backwards),
         sink |-> destroyObjects(w.sink, ToSet(doomed), s)]

Becomes(w) == nodes' = w.nodes /\ xf' = w.xf /\ sink' = w.sink

DestroyNode(s) ==
    /\ Edit /\ s \in nodes.live
    /\ Becomes(destroyed([nodes |-> nodes, xf |-> xf, sink |-> sink], s))
    /\ UNCHANGED cam

\* clear() drops everything; clear(surface) destroys that surface's roots, in slot order.
Clear ==
    /\ Edit
    /\ nodes' = clearTable(nodes) /\ xf' = clearGraph(xf) /\ sink' = clearAll(sink)
    /\ UNCHANGED cam

ClearSurface(surface) ==
    LET roots == {s \in nodes.live : nodes.surface[s] = surface /\ xf.parent[s] = NoId}
    IN  /\ Edit /\ roots # {}
        /\ Becomes(FoldLeft(destroyed, [nodes |-> nodes, xf |-> xf, sink |-> sink],
                            SetToSortSeq(roots, <)))
        /\ UNCHANGED cam

\* updateNodes, its fields one at a time.
Move(s, x) ==
    /\ Edit /\ s \in nodes.live /\ x # xf.pos[s]
    /\ xf' = setPosition(xf, s, x)
    /\ UNCHANGED <<nodes, cam, sink>>

Resize(s) ==
    /\ Edit /\ s \in nodes.live
    /\ nodes' = [nodes EXCEPT !.size[s] = 1 - @]
    /\ xf' = markFlushDirty(xf, s)
    /\ UNCHANGED <<cam, sink>>

SetLayer(s, layer) ==
    /\ Edit /\ s \in nodes.live /\ layer # nodes.layer[s]
    /\ nodes' = [nodes EXCEPT !.layer[s] = layer]
    /\ sink' = [sink EXCEPT !.layer[s] = layer]
    /\ UNCHANGED <<xf, cam>>

\* updateSubtree: set on every node beneath, inherited by none.
MoveSubtree(s, x) ==
    /\ Edit /\ s \in nodes.live
    /\ xf' = FoldLeft(LAMBDA t, y : setPosition(t, y, x), xf,
                      Subtree(xf.parent, nodes.live, s))
    /\ UNCHANGED <<nodes, cam, sink>>

\* #relinkAt: with `keep`, the local position is rewritten so that the resolved one survives.
relinkAt(t, c, p, keep) ==
    IF ~keep THEN IF p = NoId THEN unlink(t, c) ELSE link(t, c, p)
    ELSE LET r == resolve(t)
             want == r.res[c]
             moved == resolve(link(r, c, p))
         IN  IF p = NoId THEN setPosition(unlink(r, c), c, want)
             ELSE setPosition(moved, c, want - moved.res[p])

Relink(c, p, keep) ==
    LET t == relinkAt(xf, c, p, keep)
    IN  /\ t.pos[c] \in -Reach..Reach
        /\ xf' = t
        /\ sink' = reparent(sink, nodes, c, p)
        /\ UNCHANGED <<nodes, cam>>

AttachNode(c, p, keep) ==
    /\ Edit /\ {c, p} \subseteq nodes.live
    /\ nodes.surface[c] = nodes.surface[p] /\ ~WouldCycle(xf.parent, c, p)
    /\ Relink(c, p, keep)

DetachNode(c, keep) ==
    /\ Edit /\ c \in nodes.live /\ xf.parent[c] # NoId
    /\ Relink(c, NoId, keep)

SetCamera(edge) ==
    /\ Edit /\ edge # cam.edge
    /\ cam' = [cam EXCEPT !.edge = edge]
    /\ UNCHANGED <<nodes, xf, sink>>

SetSurfaceVisible ==
    /\ Edit
    /\ cam' = [cam EXCEPT !.hidden = ~@, !.cullAll = TRUE]
    /\ UNCHANGED <<nodes, xf, sink>>

\* Every query of a resolved value, and a pick, resolves first.
Query ==
    /\ xf' = resolve(xf)
    /\ UNCHANGED <<nodes, cam, sink, edits>>

shouldDraw(n, c, res, s) ==
    n.surface[s] # world \/ c.hidden \/ res[s] - n.size[s] <= c.edge

\* Mutant: the cull pass looks at the nodes written, not at those that moved with an ancestor.
disturbed_OwnOnly(r) == r.flushDirty

\* What a frame has to judge again: nodes with values of their own to push, and nodes whose
\* resolved value changed.
disturbed(r) == r.flushDirty \cup r.changed

flush(t, k, cullAll) ==
    LET r == resolve(t)
        judged == IF cullAll \/ cam.edge # cam.culledEdge THEN nodes.live
                  ELSE disturbed(r) \cap nodes.live
        written == r.flushDirty \cap nodes.live
    IN  /\ xf' = [r EXCEPT !.flushDirty = {}, !.changed = {}]
        /\ sink' = [k EXCEPT
                       !.pos = [s \in Ids |-> IF s \in written THEN r.pos[s] ELSE @[s]],
                       !.layer = [s \in Ids |-> IF s \in written THEN nodes.layer[s] ELSE @[s]],
                       !.drawn = (@ \ judged)
                           \cup {s \in judged : shouldDraw(nodes, cam, r.res, s)}]
        /\ cam' = [cam EXCEPT !.culledEdge = cam.edge, !.cullAll = FALSE]

Flush ==
    /\ flush(xf, sink, cam.cullAll)
    /\ UNCHANGED <<nodes, edits>>

\* Mutant: the objects are made in slot order.
rebuilt_BySlot(k) ==
    LET cleared == clearAll(k)
        under(c) == {s \in nodes.live : c = container(nodes, s, xf.parent[s])}
    IN  [cleared EXCEPT !.shown = nodes.live, !.layer = nodes.layer, !.drawn = nodes.live,
                        !.at = [c \in DOMAIN @ |-> SetToSortSeq(under(c), <)]]

\* Parents ahead of children, so each container is filled in sibling order.
rebuilt(k) ==
    LET onSurface(c) == SelectSeq(xf.kids[NoId], LAMBDA s : nodes.surface[s] = c)
        cleared == clearAll(k)
    IN  [cleared EXCEPT !.shown = nodes.live, !.layer = nodes.layer, !.drawn = nodes.live,
                        !.at = [c \in DOMAIN @ |-> IF c \in Surfaces THEN onSurface(c)
                                                   ELSE xf.kids[c]]]

\* After a context loss.
RebuildScene ==
    /\ Edit
    /\ flush(markAllDirty(xf), rebuilt(sink), TRUE)
    /\ UNCHANGED nodes

SceneNext ==
    \/ \E surface \in Surfaces, x \in 0..1, p \in Ids \cup {NoId} : CreateNode(surface, x, p)
    \/ \E s \in Ids :
          \/ DestroyNode(s) \/ Resize(s)
          \/ \E x \in 0..1 : Move(s, x) \/ MoveSubtree(s, x)
          \/ \E layer \in Layers : SetLayer(s, layer)
          \/ \E keep \in BOOLEAN : DetachNode(s, keep) \/ \E p \in Ids : AttachNode(s, p, keep)
    \/ Clear \/ \E surface \in Surfaces : ClearSurface(surface)
    \/ \E edge \in Edges : SetCamera(edge)
    \/ SetSurfaceVisible \/ Query \/ Flush \/ RebuildScene

-----------------------------------------------------------------------------
(* What a pick answers. *)

\* The branch from the root down to s.
Branch(s) == LET up == Chain(xf.parent, s)
             IN  SetToSortSeq(up, LAMBDA a, b : a \in Chain(xf.parent, b) /\ a # b)

position(seq, s) == CHOOSE i \in DOMAIN seq : seq[i] = s

\* Where the branches part: against the art of an ancestor, or two siblings by layer and then by
\* the order they were linked in.
drawsAbove(a, b) ==
    LET x == Branch(a) y == Branch(b)
        k == CHOOSE i \in 0..MaxId :
                /\ i <= Len(x) /\ i <= Len(y) /\ SubSeq(x, 1, i) = SubSeq(y, 1, i)
                /\ i = Len(x) \/ i = Len(y) \/ x[i + 1] # y[i + 1]
        layer == nodes.layer
        siblings == xf.kids[IF k = 0 THEN NoId ELSE x[k]]
    IN  CASE k = Len(y) -> layer[x[k + 1]] >= 0
          [] k = Len(x) -> layer[y[k + 1]] < 0
          [] OTHER -> \/ layer[x[k + 1]] > layer[y[k + 1]]
                      \/ /\ layer[x[k + 1]] = layer[y[k + 1]]
                         /\ position(siblings, x[k + 1]) > position(siblings, y[k + 1])

-----------------------------------------------------------------------------
(* Properties. *)

\* What the backend paints beneath a container, in painter's order: its children by layer, ties as
\* they were added, its own art ahead of the children on layer 0.
Painted ==
    LET below(c) == SelectSeq(sink.at[c], LAMBDA s : sink.layer[s] < 0)
        above(c) == SelectSeq(sink.at[c], LAMBDA s : sink.layer[s] >= 0)
        paint[c \in Ids \cup Surfaces] ==
            LET all(ks) == FlattenSeq([i \in DOMAIN ks |-> paint[ks[i]]])
            IN  all(below(c)) \o (IF c \in Surfaces THEN <<>> ELSE <<c>>) \o all(above(c))
    IN  paint

\* Where the backend paints a node: its own offset and those of the containers it is in.
PaintedAt ==
    LET place[s \in Ids] ==
            LET c == CHOOSE d \in DOMAIN sink.at : s \in ToSet(sink.at[d])
            IN  sink.pos[s] + (IF c \in Surfaces THEN 0 ELSE place[c])
    IN  place

(***************************************************************************)
(* Once a frame has been flushed and nothing was touched since, the        *)
(* backend paints every node where the composition of its ancestors puts   *)
(* it, the core believes the same, and a node is left undrawn exactly when *)
(* it lies outside the viewport, however the dirt was gathered: moved with *)
(* an ancestor, relinked, resolved early by a query, or a reused slot      *)
(* (RendererCore.flush: "The cull pass is O(dirty), not O(scene)").        *)
(***************************************************************************)
PictureIsTrue ==
    xf.flushDirty = {} /\ ~cam.cullAll /\ cam.edge = cam.culledEdge
    => LET place == PaintedAt
       IN  /\ sink.shown = nodes.live
           /\ \A s \in nodes.live :
                /\ xf.res[s] = place[s]
                /\ s \in sink.drawn <=> shouldDraw(nodes, cam, place, s)

(***************************************************************************)
(* A pick names the node a person sees on top: for any two nodes of one    *)
(* surface the core's order is the backend's, through relinking, reused    *)
(* slots and a rebuilt scene (#drawsAbove: "the backend sorts each         *)
(* container's children by `layer`, ties by insertion").                   *)
(***************************************************************************)
PicksTheTopmost ==
    LET painted == Painted
    IN  \A a, b \in nodes.live :
            a # b /\ nodes.surface[a] = nodes.surface[b]
            => LET order == painted[nodes.surface[a]]
               IN  drawsAbove(a, b) <=> position(order, a) > position(order, b)
=============================================================================
