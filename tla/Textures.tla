------------------------------ MODULE Textures ------------------------------
(***************************************************************************)
(* The renderer's assets and the graphics context they live in: the        *)
(* registry of resident textures, the sprites that were given one, the map *)
(* of intents kept while the context is gone, and the guard that restores. *)
(*                                                                         *)
(* An entry is a name and a version of its art, which is also the texture  *)
(* it yields; 0 is the placeholder and Destroyed a texture released under  *)
(* a sprite that still holds it.  Images stand for all that is fetched,    *)
(* texts for what is rasterized.  A call that loads several entries loads  *)
(* them one after another; here each entry is a call.                      *)
(*                                                                         *)
(* Draining runs in one turn of the event loop: the game's own calls come  *)
(* between two drained operations, but no event and no fetch does.         *)
(*                                                                         *)
(* Source: packages/renderer/src/pixi/{pixi-renderer,context-guard,        *)
(* asset-registry}.ts, asset-queue.ts and core/renderer-shell.ts           *)
(***************************************************************************)
EXTENDS Integers, Sequences

CONSTANTS
    Images, Texts,      \* asset names, by kind
    Versions,           \* of the art behind a name
    Sprites,
    Calls,              \* loadAssets calls
    MAX_PENDING,        \* operations the guard queues
    MaxLosses           \* context losses in one behaviour

ASSUME TextureAssumption ==
    /\ Images \cap Texts = {} /\ Versions \subseteq Nat \ {0}
    /\ MAX_PENDING \in Nat /\ MaxLosses \in Nat

Names == Images \cup Texts
Entries == [name : Names, art : Versions]
Destroyed == -1
NoIntent == [op |-> "none"]

VARIABLES
    guard,      \* ContextGuard: state, pending calls in order, and what became of the renderer
    intents,    \* AssetQueue: the intent for each name
    resident,   \* AssetRegistry: the texture of each name, 0 when it has none
    sprite,     \* each sprite's texture name and the texture its art holds
    call,       \* each loadAssets call: where it is and its entry
    restore,    \* the running #restore calls, by the loss each answers
    losses

textureVars == <<guard, intents, resident, sprite, call, restore, losses>>

NoRestore == [at |-> "none", todo |-> {}]

TexturesInit ==
    /\ guard = [state |-> "ok", pending |-> <<>>, destroyed |-> FALSE, present |-> TRUE,
                terminal |-> FALSE]
    /\ intents = [n \in Names |-> NoIntent]
    /\ resident = [n \in Names |-> 0]
    /\ sprite \in [Sprites -> [name : Names, art : {0}]]
    /\ call = [c \in Calls |-> [at |-> "none", entry |-> NoIntent]]
    /\ restore = [k \in 1..MaxLosses |-> NoRestore]
    /\ losses = 0

\* ContextGuard.lost: also while it restores.
Gone == guard.state # "ok"
Running == {k \in 1..MaxLosses : restore[k].at # "none"}

\* An event or a fetch is the beginning of a turn.
Turn == \A k \in Running : restore[k].at # "draining"

\* The sprites that use n, repointed at a texture.
repointed(n, art) ==
    [s \in Sprites |-> IF sprite[s].name = n THEN [sprite[s] EXCEPT !.art = art] ELSE sprite[s]]

\* A texture the registry built is destroyed with the record that held it.
released(n) ==
    [s \in Sprites |-> IF sprite[s].name = n /\ sprite[s].art > 0 /\ n \in Texts
                       THEN [sprite[s] EXCEPT !.art = Destroyed] ELSE sprite[s]]

-----------------------------------------------------------------------------
(* The calls of the game. *)

Begins(c, e, at) ==
    /\ call[c].at = "none" /\ ~guard.destroyed
    /\ call' = [call EXCEPT ![c] = [at |-> at, entry |-> e]]

\* ContextGuard.run: past its limit an operation is cancelled at once.
Full == Len(guard.pending) >= MAX_PENDING

\* The restore is to upload it, so the queued operation only reports what landed.
LoadLater(c, e) ==
    /\ Gone
    /\ Begins(c, e, IF Full THEN "done" ELSE "queued")
    /\ intents' = [intents EXCEPT ![e.name] = [op |-> "load", entry |-> e]]
    /\ guard' = IF Full THEN guard ELSE [guard EXCEPT !.pending = Append(@, c)]
    /\ UNCHANGED <<resident, sprite, restore, losses>>

LoadImage(c, e) ==
    /\ ~Gone /\ e.name \in Images
    /\ Begins(c, e, "loading")
    /\ UNCHANGED <<guard, intents, resident, sprite, restore, losses>>

\* createTextAsset: rasterized and registered at once.
LoadText(c, e) ==
    /\ ~Gone /\ e.name \in Texts
    /\ Begins(c, e, "done")
    /\ resident' = [resident EXCEPT ![e.name] = e.art]
    /\ sprite' = released(e.name)
    /\ UNCHANGED <<guard, intents, restore, losses>>

\* Mutant: what became resident is not given to the sprites that were waiting for it.
Fetched_NotRepointed(c) ==
    /\ Turn /\ call[c].at = "loading"
    /\ call' = [call EXCEPT ![c].at = "done"]
    /\ \/ resident' = [resident EXCEPT ![call[c].entry.name] = call[c].entry.art]
       \/ UNCHANGED resident
    /\ UNCHANGED <<guard, intents, sprite, restore, losses>>

\* A fetch begun while the context was there ends, whatever became of the context.
Fetched(c) ==
    LET e == call[c].entry
    IN  /\ Turn /\ call[c].at = "loading"
        /\ call' = [call EXCEPT ![c].at = "done"]
        /\ \/ /\ resident' = [resident EXCEPT ![e.name] = e.art]
              /\ sprite' = IF guard.destroyed THEN sprite ELSE repointed(e.name, e.art)
           \/ UNCHANGED <<resident, sprite>>
        /\ UNCHANGED <<guard, intents, restore, losses>>

Unload(n) ==
    /\ ~guard.destroyed
    /\ IF Gone
       THEN /\ intents' = [intents EXCEPT ![n] = [op |-> "unload"]]
            /\ UNCHANGED <<resident, sprite>>
       ELSE /\ resident[n] # 0
            /\ resident' = [resident EXCEPT ![n] = 0]
            /\ sprite' = repointed(n, 0)
            /\ UNCHANGED intents
    /\ UNCHANGED <<guard, call, restore, losses>>

\* A node created, or patched to another texture: resolved once, here.
SetTexture(s, n) ==
    /\ ~guard.destroyed
    /\ sprite' = [sprite EXCEPT ![s] = [name |-> n, art |-> resident[n]]]
    /\ UNCHANGED <<guard, intents, resident, call, restore, losses>>

settled == [c \in Calls |-> IF call[c].at = "queued" THEN [call[c] EXCEPT !.at = "done"] ELSE call[c]]

Destroy ==
    /\ ~guard.destroyed
    /\ guard' = [guard EXCEPT !.destroyed = TRUE, !.pending = <<>>]
    /\ call' = settled
    /\ intents' = [n \in Names |-> NoIntent]
    /\ resident' = [n \in Names |-> 0]
    /\ sprite' = [s \in Sprites |-> [sprite[s] EXCEPT !.art = 0]]
    /\ UNCHANGED <<restore, losses>>

-----------------------------------------------------------------------------
(* The context. *)

Lose ==
    /\ Turn /\ guard.present /\ ~guard.destroyed /\ losses < MaxLosses
    /\ losses' = losses + 1
    /\ guard' = [guard EXCEPT !.present = FALSE, !.state = "lost"]
    /\ UNCHANGED <<intents, resident, sprite, call, restore>>

\* A lost WebGPU device: nothing restores it.
DeviceLost ==
    /\ Turn /\ guard.present /\ ~guard.destroyed /\ losses < MaxLosses
    /\ losses' = losses + 1
    /\ guard' = [guard EXCEPT !.present = FALSE, !.state = "lost", !.terminal = TRUE,
                              !.pending = <<>>]
    /\ call' = settled
    /\ UNCHANGED <<intents, resident, sprite, restore>>

\* AssetQueue.merge: what was resident, unless an intent says otherwise, and what was asked for.
merge ==
    LET kept == {n \in Names : resident[n] # 0 /\ intents[n] = NoIntent}
        asked == {n \in Names : intents[n].op = "load"}
    IN  [toLoad |-> {[name |-> n, art |-> resident[n]] : n \in kept}
                    \cup {intents[n].entry : n \in asked},
         toUnload |-> {n \in Names : intents[n].op = "unload"}]

\* The names to drop go before the first upload is waited for.
Restored ==
    /\ Turn /\ ~guard.present /\ ~guard.terminal
    /\ IF guard.destroyed \/ guard.state # "lost"
       THEN /\ guard' = [guard EXCEPT !.present = TRUE]
            /\ UNCHANGED <<intents, resident, restore>>
       ELSE /\ guard' = [guard EXCEPT !.present = TRUE, !.state = "restoring"]
            /\ intents' = [n \in Names |-> NoIntent]
            /\ resident' = [n \in Names |-> IF n \in merge.toUnload THEN 0 ELSE resident[n]]
            /\ restore' = [restore EXCEPT ![losses] = [at |-> "uploading", todo |-> merge.toLoad]]
    /\ UNCHANGED <<sprite, call, losses>>

\* One entry uploaded again, or not.  A text goes through createTextAsset, which finds the guard
\* still restoring and records an intent.
Reupload(k) ==
    /\ Turn /\ restore[k].at = "uploading"
    /\ \E e \in restore[k].todo :
         /\ restore' = [restore EXCEPT ![k].todo = @ \ {e}]
         /\ IF e.name \in Images
            THEN /\ resident' \in {resident, [resident EXCEPT ![e.name] = e.art]}
                 /\ UNCHANGED <<intents, sprite>>
            ELSE /\ sprite' = released(e.name)
                 /\ resident' = [resident EXCEPT ![e.name] =
                                    IF Gone \/ guard.destroyed THEN 0 ELSE e.art]
                 /\ intents' = IF Gone /\ ~guard.destroyed
                             THEN [intents EXCEPT ![e.name] = [op |-> "load", entry |-> e]]
                             ELSE intents
    /\ UNCHANGED <<guard, call, losses>>

\* rebuildScene: every sprite is made again from its record.
Rebuild(k) ==
    /\ Turn /\ restore[k].at = "uploading" /\ restore[k].todo = {}
    /\ IF guard.destroyed
       THEN restore' = [restore EXCEPT ![k] = NoRestore] /\ UNCHANGED sprite
       ELSE /\ restore' = [restore EXCEPT ![k].at = "draining"]
            /\ sprite' = [s \in Sprites |-> [sprite[s] EXCEPT !.art = resident[sprite[s].name]]]
    /\ UNCHANGED <<guard, intents, resident, call, losses>>

DrainOne(k) ==
    /\ restore[k].at = "draining" /\ guard.pending # <<>>
    /\ guard' = [guard EXCEPT !.pending = Tail(@)]
    /\ call' = [call EXCEPT ![Head(guard.pending)].at = "done"]
    /\ UNCHANGED <<intents, resident, sprite, restore, losses>>

\* Mutant: the pending queue is taken once, so what lands while it is drained stays behind.
Finish_TakesOnce(k) ==
    /\ restore[k].at = "draining"
    /\ restore' = [restore EXCEPT ![k] = NoRestore]
    /\ guard' = [guard EXCEPT !.state = IF @ = "restoring" /\ ~guard.destroyed THEN "ok" ELSE @]
    /\ UNCHANGED <<intents, resident, sprite, call, losses>>

\* The finally: a loss since then left the state alone, and so does this.
Finish(k) ==
    /\ restore[k].at = "draining" /\ guard.pending = <<>>
    /\ restore' = [restore EXCEPT ![k] = NoRestore]
    /\ guard' = [guard EXCEPT !.state = IF @ = "restoring" /\ ~guard.destroyed THEN "ok" ELSE @]
    /\ UNCHANGED <<intents, resident, sprite, call, losses>>

Works(k) == Reupload(k) \/ Rebuild(k) \/ DrainOne(k) \/ Finish(k)

TexturesNext ==
    \/ \E c \in Calls : \/ \E e \in Entries : LoadLater(c, e) \/ LoadImage(c, e) \/ LoadText(c, e)
                        \/ Fetched(c)
    \/ \E n \in Names : Unload(n) \/ \E s \in Sprites : SetTexture(s, n)
    \/ Destroy \/ Lose \/ DeviceLost \/ Restored
    \/ \E k \in 1..MaxLosses : Works(k)

TexturesSpec == TexturesInit /\ [][TexturesNext]_textureVars

-----------------------------------------------------------------------------
(* Properties. *)

(***************************************************************************)
(* With the context there and no restore under way, every sprite of a      *)
(* fetched asset holds the texture its name resolves to, the placeholder   *)
(* when it has none: through loads that end during a loss or a restore,    *)
(* unloads, swaps and restores that overlap (#repointToResident: "a client *)
(* spawns off a manifest it started but did not await").                   *)
(***************************************************************************)
ArtIsCurrent ==
    ~Gone /\ Running = {} /\ ~guard.destroyed =>
        \A s \in Sprites : sprite[s].name \in Images => sprite[s].art = resident[sprite[s].name]

(***************************************************************************)
(* A loadAssets call that waits is in the guard's queue, and a restore is  *)
(* to come or under way that will answer it: also a call queued while the  *)
(* restore is already draining, and one queued between two restores that   *)
(* overlap (ContextGuard.run: "the promise resolves either way").          *)
(***************************************************************************)
NoLoadStranded ==
    \A c \in Calls : call[c].at = "queued" =>
        /\ \E i \in DOMAIN guard.pending : guard.pending[i] = c
        /\ guard.state = "lost" \/ Running # {}

(***************************************************************************)
(* Once the context is back and no restore is under way, no intent is left *)
(* over: what was asked for while it was gone has been uploaded or dropped *)
(* (DESIGN.md: "The restore is the only thing that applies queued asset    *)
(* work. A mid-loss call records intent and reports it").                  *)
(***************************************************************************)
NoIntentLeftOver ==
    ~Gone /\ Running = {} => \A n \in Names : intents[n] = NoIntent
=============================================================================
