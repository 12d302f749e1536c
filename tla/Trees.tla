------------------------------- MODULE Trees -------------------------------
(***************************************************************************)
(* The parent links of an entity tree, as the authority's table, the       *)
(* client's mirror and the renderer's node store all keep them: a function *)
(* from each id to its parent, or to NoId for a root.                      *)
(***************************************************************************)
EXTENDS Naturals, SequencesExt

CONSTANTS
    MaxId,          \* entity ids are minted in order, 1..MaxId
    NoId            \* NO_ENTITY

ASSUME IdAssumption == MaxId \in Nat \ {0} /\ NoId \notin 1..MaxId

Ids == 1..MaxId

Roots == [x \in Ids |-> NoId]

\* x and everything above it: the walk of the cycle check.
Chain(par, x) ==
    LET up[k \in 0..MaxId] ==
          IF k = 0 THEN {x} ELSE up[k - 1] \cup {par[y] : y \in up[k - 1] \ {NoId}}
    IN  up[MaxId] \ {NoId}

\* x and everything beneath it, parents ahead of their children: the order in which a destroy
\* cascades.
Subtree(par, S, x) ==
    LET beneath == {y \in S : x \in Chain(par, y)}
        depth(y) == Cardinality(Chain(par, y))
    IN  SetToSortSeq(beneath, LAMBDA a, b : \/ depth(a) < depth(b)
                                            \/ depth(a) = depth(b) /\ a < b)

WouldCycle(par, x, p) == x \in Chain(par, p)
=============================================================================
