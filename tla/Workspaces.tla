----------------------------- MODULE Workspaces -----------------------------
(***************************************************************************)
(* Authoring a game: the editor's tabs (apps/grove/editor/src/workspace),  *)
(* the save route of the api (api/src/routes/workspace.ts), the rows it    *)
(* commits (store.ts) and the games bucket (storage.ts, external).         *)
(*                                                                         *)
(* A draft is a number: the reducer replaces a draft on every edit, and it *)
(* is by identity that it tells a draft that was sent from a newer one.    *)
(* The bytes a draft holds, and the version the bucket mints for them, are *)
(* named by the same number.  Nothing is 0: no draft, no row, no object.   *)
(***************************************************************************)
EXTENDS Naturals, FiniteSets

CONSTANTS
    Tabs,
    Sources, Assets,    \* the paths a creator may write, text and bytes
    MaxDrafts,          \* drafts that may be made
    MaxTroubles         \* exit saves, refused manifests, and answers lost on the way back

ASSUME WorkspacesAssumption ==
    /\ Sources \cap Assets = {}
    /\ {MaxDrafts, MaxTroubles} \subseteq Nat

Paths == Sources \cup Assets

VARIABLES
    tab,        \* WorkspaceState of each tab, and what it is doing
    requests,   \* saves the api is serving
    game,       \* the game's row, its files' rows and the manifests frozen
    bucket,     \* what is current at each asset's key
    minted, troubles,
    lost        \* drafts thrown away before the service saw them

workspaceVars == <<tab, requests, game, bucket, minted, troubles, lost>>

NoFiles == [p \in Paths |-> 0]
TEMPLATE == 1    \* the draft a template seeds
NOTHING_PENDING == [upserted |-> {}, removed |-> {}]

WorkspacesInit ==
    /\ tab = [t \in Tabs |-> [files |-> NoFiles, saved |-> {}, revision |-> 0,
                              pending |-> NOTHING_PENDING, doing |-> "off", sent |-> NOTHING_PENDING,
                              drafts |-> NoFiles, target |-> 0, pardoned |-> FALSE,
                              strays |-> {}]]
    /\ requests = {}
    /\ game = [revision |-> 0, rows |-> NoFiles]
    /\ bucket = [a \in Assets |-> 0]
    /\ minted = TEMPLATE /\ troubles = 0
    /\ lost = {}

-----------------------------------------------------------------------------
\* The workspace as a tab holds it: files.ts and the reducer of state.ts.

isPending(pending) == pending /= NOTHING_PENDING

touched(pending, p) == [upserted |-> pending.upserted \cup {p}, removed |-> pending.removed \ {p}]

dropped(pending, p, saved) ==
    [upserted |-> pending.upserted \ {p},
     removed  |-> IF saved THEN pending.removed \cup {p} ELSE pending.removed]

owing(w, pending) == [w EXCEPT !.pending = pending]
drafted(w, p, draft) == owing([w EXCEPT !.files[p] = draft], touched(w.pending, p))

\* A new file dropped while the save that creates it is on its way is in neither set, and the
\* service goes on holding it: one of the `strays`.
dropFile(w, p) ==
    LET stray == p \notin w.saved /\ w.doing = "saving" /\ p \in w.sent.upserted
    IN  owing([w EXCEPT !.files[p] = 0, !.strays = IF stray THEN @ \cup {p} ELSE @],
              dropped(w.pending, p, p \in w.saved))

\* Mutant: everything sent is settled, whatever was typed while it was on its way.
savedAs_Clears(w, revision, rows) ==
    owing([w EXCEPT !.revision = revision, !.saved = {p \in Paths : rows[p] /= 0}],
          [upserted |-> w.pending.upserted \ w.sent.upserted,
           removed  |-> w.pending.removed \ w.sent.removed])

\* Mutant: the revision the save landed as is not taken over.
savedAs_OldRevision(w, revision, rows) ==
    owing([w EXCEPT !.saved = {p \in Paths : rows[p] /= 0}],
          [upserted |-> {p \in w.pending.upserted :
                            p \notin w.sent.upserted \/ w.files[p] /= w.drafts[p]},
           removed  |-> w.pending.removed \ w.sent.removed])

\* 'saved': a path whose draft is not the one sent is still owed.
savedAs(w, revision, rows) ==
    owing([w EXCEPT !.revision = revision, !.saved = {p \in Paths : rows[p] /= 0}],
          [upserted |-> {p \in w.pending.upserted :
                            p \notin w.sent.upserted \/ w.files[p] /= w.drafts[p]},
           removed  |-> w.pending.removed \ w.sent.removed])

\* 'reloaded': everything on the screen is replaced.
reloaded(w, revision, rows) ==
    owing([w EXCEPT !.files = rows, !.saved = {p \in Paths : rows[p] /= 0},
                    !.revision = revision, !.pardoned = game.revision > revision, !.strays = {}],
          NOTHING_PENDING)

\* initialWorkspace, of a game with nothing saved: a template in memory, owed in full.
seeded(w) ==
    owing([w EXCEPT !.files = [p \in Paths |-> IF p \in Sources THEN TEMPLATE ELSE 0],
                    !.doing = "idle"],
          [upserted |-> Sources, removed |-> {}])

\* What of a tab's drafts the service has never been told.
Unsaved(w) == {w.files[p] : p \in w.pending.upserted} \ {0}

-----------------------------------------------------------------------------
\* The creator.

\* A tab is opened; what the set names is fetched file by file afterwards.
openGame(t) ==
    /\ tab[t].doing = "off"
    /\ tab' = [tab EXCEPT ![t] = IF game.rows = NoFiles THEN [seeded(@) EXCEPT !.revision = game.revision]
                                 ELSE [@ EXCEPT !.doing = "opening", !.drafts = game.rows,
                                                !.target = game.revision]]
    /\ UNCHANGED <<requests, game, bucket, minted, troubles, lost>>

Standing(t) == tab[t].doing \in {"idle", "saving", "reloading", "fetching"}

write(t, p) ==
    /\ Standing(t)
    /\ minted < MaxDrafts
    /\ minted' = minted + 1
    /\ tab' = [tab EXCEPT ![t] = drafted(@, p, minted + 1)]
    /\ UNCHANGED <<requests, game, bucket, troubles, lost>>

edit(t, p) == p \in Sources /\ tab[t].files[p] /= 0 /\ write(t, p)
addFile(t, p) == p \in Sources /\ tab[t].files[p] = 0 /\ write(t, p)
importFile(t, p) == p \in Assets /\ write(t, p)

removeFile(t, p) ==
    /\ Standing(t)
    /\ tab[t].files[p] /= 0
    /\ tab' = [tab EXCEPT ![t] = dropFile(@, p)]
    /\ UNCHANGED <<requests, game, bucket, minted, troubles, lost>>

-----------------------------------------------------------------------------
\* Saving, from the tab: useWorkspace.ts, session.ts and autosave.ts.

\* What one save names: the drafts that are owed, by path.
saveOf(w, pending) == [p \in Paths |-> IF p \in pending.upserted THEN w.files[p] ELSE 0]
exitSaveOf(w) == [p \in Paths |-> IF p \in w.pending.upserted \cap Sources THEN w.files[p] ELSE 0]

request(t, w, exit, upserts, deletes) ==
    [tab |-> t, exit |-> exit, base |-> w.revision, upserts |-> upserts, deletes |-> deletes,
     at |-> "received", made |-> NoFiles]

mayBegin(w) == isPending(w.pending) /\ w.doing = "idle"

\* A save is asked for by the button, by the debounce, by the ceiling, or by one asked for while
\* another was on its way: whenever anything is owed, and one at a time.  What is sent is captured
\* first, and the assets are put straight in the bucket ahead of the request.
save(t) ==
    LET w == tab[t]
    IN  /\ Standing(t)
        /\ mayBegin(w)
        /\ tab' = [tab EXCEPT ![t] = [w EXCEPT !.doing = "saving", !.sent = w.pending,
                                               !.drafts = w.files]]
        /\ requests' = requests \cup {request(t, w, FALSE, saveOf(w, w.pending), w.pending.removed)}
        /\ bucket' = [a \in Assets |-> IF a \in w.pending.upserted THEN w.files[a] ELSE bucket[a]]
        /\ UNCHANGED <<game, minted, troubles, lost>>

\* The one save a hidden or closing tab gets: no assets, and nobody hears the answer.
flush(t, closes) ==
    /\ troubles < MaxTroubles
    /\ Standing(t)
    /\ isPending(tab[t].pending)
    /\ troubles' = troubles + 1
    /\ requests' = requests \cup {request(t, tab[t], TRUE, exitSaveOf(tab[t]), tab[t].pending.removed)}
    /\ tab' = [tab EXCEPT ![t] = IF closes THEN [@ EXCEPT !.doing = "closed"]
                                 ELSE @]
    /\ UNCHANGED <<game, bucket, minted, lost>>

-----------------------------------------------------------------------------
\* Saving, at the api.

\* The tab's half of an answer: what save() does when its request settles.
hears(t, outcome, made) ==
    LET w == tab[t]
    IN  tab' = [tab EXCEPT ![t] =
                  IF ~Standing(t) THEN w
                  ELSE CASE outcome = "saved"    -> [savedAs(w, made.revision, made.rows) EXCEPT
                                                       !.doing = "idle"]
                         [] outcome = "conflict" -> [w EXCEPT !.doing = "reloading"]
                         [] outcome = "unheard"  -> [w EXCEPT !.doing = "idle", !.pardoned = TRUE]
                         [] OTHER                -> [w EXCEPT !.doing = "idle"]]

answers(r, outcome) ==
    IF r.exit THEN UNCHANGED tab
    ELSE hears(r.tab, outcome, [revision |-> r.base + 1, rows |-> r.made])

\* The bytes go first: sources are put, and what landed of each asset is read back.
storeBytes(r) ==
    /\ r.at = "received"
    /\ IF \E a \in Assets : r.upserts[a] /= 0 /\ bucket[a] = 0
       THEN requests' = requests \ {r} /\ answers(r, "refused")
       ELSE /\ requests' = (requests \ {r}) \cup
                 {[r EXCEPT !.at = "stored",
                            !.upserts = [p \in Paths |-> IF p \in Assets /\ @[p] /= 0
                                                         THEN bucket[p] ELSE @[p]]]}
            /\ UNCHANGED tab
    /\ UNCHANGED <<game, bucket, minted, troubles, lost>>

claims(r) == game.revision = r.base

\* saveWorkspace: the claim, the rows and the frozen manifest in one transaction.
commit(r) ==
    /\ r.at = "stored"
    /\ IF claims(r)
       THEN /\ game' = [revision |-> game.revision + 1,
                        rows |-> [p \in Paths |-> IF r.upserts[p] /= 0 THEN r.upserts[p]
                                                  ELSE IF p \in r.deletes THEN 0 ELSE game.rows[p]]]
            /\ requests' = (requests \ {r}) \cup {[r EXCEPT !.at = "committed", !.made = game'.rows]}
            /\ tab' = [t \in Tabs |-> IF t /= r.tab \/ r.exit THEN [tab[t] EXCEPT !.pardoned = TRUE]
                                      ELSE tab[t]]
       ELSE requests' = requests \ {r} /\ answers(r, "conflict") /\ UNCHANGED game
    /\ UNCHANGED <<bucket, minted, troubles, lost>>

\* The manifest could not be written, and the transaction is rolled back.
unfrozen(r) ==
    /\ r.at = "stored" /\ claims(r)
    /\ troubles < MaxTroubles
    /\ troubles' = troubles + 1
    /\ requests' = requests \ {r}
    /\ answers(r, "unfrozen")
    /\ UNCHANGED <<game, bucket, minted, lost>>

\* After the commit, the delete markers, then the answer, which may be lost.
finish(r, outcome) ==
    /\ r.at = "committed"
    /\ requests' = requests \ {r}
    /\ bucket' = [a \in Assets |-> IF a \in r.deletes THEN 0 ELSE bucket[a]]
    /\ UNCHANGED game
    /\ answers(r, outcome)
    /\ UNCHANGED <<minted, lost>>

saved(r) == finish(r, "saved") /\ UNCHANGED troubles

unheard(r) == troubles < MaxTroubles /\ troubles' = troubles + 1 /\ ~r.exit /\ finish(r, "unheard")

\* A conflict throws away what is on the screen and takes what the service holds: the set is read,
\* then each file it names at the version its row has by then.
reload(t) ==
    /\ tab[t].doing = "reloading"
    /\ tab' = [tab EXCEPT ![t] = [@ EXCEPT !.doing = "fetching", !.drafts = game.rows,
                                          !.target = game.revision]]
    /\ UNCHANGED <<requests, game, bucket, minted, troubles, lost>>

contentsOf(t) ==
    LET w == tab[t]
        gone == \E p \in Paths : w.drafts[p] /= 0 /\ game.rows[p] = 0
        held == [p \in Paths |-> IF w.drafts[p] = 0 THEN 0 ELSE game.rows[p]]
    IN  /\ w.doing \in {"opening", "fetching"}
        /\ tab' = [tab EXCEPT ![t] =
                     IF gone THEN [w EXCEPT !.doing = IF w.doing = "opening" THEN "closed" ELSE "idle"]
                     ELSE [reloaded(w, w.target, held) EXCEPT !.doing = "idle"]]
        /\ lost' = IF gone \/ w.pardoned \/ w.doing = "opening" THEN lost ELSE lost \cup Unsaved(w)
        /\ UNCHANGED <<requests, game, bucket, minted, troubles>>

WorkspacesNext ==
    \/ \E t \in Tabs, p \in Paths : edit(t, p) \/ addFile(t, p) \/ importFile(t, p) \/ removeFile(t, p)
    \/ \E t \in Tabs : save(t) \/ openGame(t) \/ reload(t) \/ contentsOf(t)
    \/ \E t \in Tabs, closes \in BOOLEAN : flush(t, closes)
    \/ \E r \in requests : storeBytes(r) \/ commit(r) \/ unfrozen(r) \/ saved(r) \/ unheard(r)

WorkspacesSpec == WorkspacesInit /\ [][WorkspacesNext]_workspaceVars

-----------------------------------------------------------------------------
\* A tab with nothing pending, on the revision the service is at, shows the text the service holds;
\* but for a new file removed while the save that created it was on its way.
CleanMeansSaved ==
    \A t \in Tabs :
        LET w == tab[t]
        IN  w.doing = "idle" /\ ~isPending(w.pending) /\ w.revision = game.revision =>
                \A p \in Sources \ w.strays : w.files[p] = game.rows[p]

\* Text the service has not seen is thrown away only when another tab, an exit save or a save whose
\* answer was lost took the revision: never by a tab's own ordinary saves.
NothingTypedIsLost == lost = {}
=============================================================================
