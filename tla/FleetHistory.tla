----------------------------- MODULE FleetHistory ----------------------------
(***************************************************************************)
(* What the fleet did, carried to the API: the liveness transitions the    *)
(* registry notes, the sweep that finds the boxes gone quiet, and the      *)
(* reporter that drains the list, snapshots the fleet, posts both in one   *)
(* report and puts the transitions back when the post fails.               *)
(*                                                                         *)
(* An event's id is its place in `log`, the history of everything noted.   *)
(*                                                                         *)
(* Source: apps/grove/server-manager/internal/fleet/{events,reporter}.go   *)
(* and apps/grove/api/src/store.ts (recordFleet)                           *)
(***************************************************************************)
EXTENDS FleetRegistry

CONSTANTS
  MaxLog,       \* no beat is heard and nothing is suspected once this much was noted
  MaxRestarted  \* boxes whose agent restarts in one behaviour

ASSUME IncarnationsAssumption == Incarnations \subseteq Nat /\ Incarnations # {}

VARIABLES
  life,      \* the incarnation each box's agent is in
  log,       \* history: every transition noted, in order
  reporter,  \* the reporter's step, the transitions it took and the snapshot it read
  landed,    \* whether the API committed the report being posted
  rows,      \* the API's host table: the liveness it last heard of each box
  told       \* the API's event table, by event id

historyVars == <<registryVars, life, log, reporter, landed, rows, told>>

ReporterIdle == [at |-> "idle", batch |-> {}, events |-> << >>, views |-> << >>]

HistoryTypeOK ==
  /\ RegistryTypeOK
  /\ Len(events) <= MaxPendingEvents
  /\ life \in [Hosts -> Incarnations]
  /\ log \in Seq(FleetEvent)
  /\ reporter.at \in {"idle", "swept", "drained", "posting"}
  /\ reporter.batch \subseteq DOMAIN log
  /\ reporter.events \in Seq(FleetEvent)
  /\ reporter.views \in [DOMAIN reporter.views -> HostLiveness]
  /\ landed \in BOOLEAN
  /\ DOMAIN rows \subseteq Hosts /\ rows \in [DOMAIN rows -> HostLiveness]
  /\ told \subseteq DOMAIN log

\* Incarnations are minted fresh, so a box never goes back to one; here they are numbers.
FirstLife == CHOOSE n \in Incarnations : \A m \in Incarnations : n <= m

HistoryInit ==
  /\ RegistryInit
  /\ life = [h \in Hosts |-> FirstLife]
  /\ log = << >>
  /\ reporter = ReporterIdle
  /\ landed = FALSE
  /\ rows = << >>
  /\ told = {}

\* The places in the log of the transitions still pending: its last Len(events).
Pending == Len(log) - Len(events) + 1 .. Len(log)

-----------------------------------------------------------------------------
(* The boxes, and the rollouts that fail against them. *)

BeatOf(h, leaving) ==
  [host |-> h, running |-> 0, instances |-> {}, leaving |-> leaving, incarnation |-> life[h]]

Hears(b) ==
  /\ Len(log) < MaxLog
  /\ Beat(b)
  /\ log' = log \o BeatEvents(b)

BeatHeard(h) ==
  /\ Hears(BeatOf(h, FALSE))
  /\ UNCHANGED <<life, reporter, landed, rows, told>>

\* An agent stops and the next one on its box is another life. A farewell may be lost, a killed
\* agent sends none, and the box may be silent for as long as it likes before it is heard again.
Restarts(h) ==
  /\ Cardinality({g \in Hosts \ {h} : life[g] # FirstLife}) < MaxRestarted
  /\ \E n \in Incarnations : n > life[h] /\ life' = [life EXCEPT ![h] = n]
  /\ \/ Hears(BeatOf(h, TRUE))
     \/ UNCHANGED <<registryVars, log>>
  /\ UNCHANGED <<reporter, landed, rows, told>>

Suspected(h) ==
  /\ h \in DOMAIN hosts /\ ~hosts[h].suspected /\ Len(log) < MaxLog
  /\ Suspect(h)
  /\ log' = log \o SuspectEvents(h)
  /\ UNCHANGED <<life, reporter, landed, rows, told>>

\* Views judges the rows by the clock Send read before it drained, so no time passes in between.
ClockPasses ==
  /\ reporter.at # "drained"
  /\ \E h \in DOMAIN hosts : hosts[h].age <= Retain
  /\ Tick
  /\ UNCHANGED <<life, log, reporter, landed, rows, told>>

-----------------------------------------------------------------------------
(* The reporter, one step per lock it takes or call it makes. *)

\* The boxes whose liveness has changed with nobody noticing.
Quiet == {id \in DOMAIN hosts : Liveness(hosts[id]) # hosts[id].reported}

\* Every order of a finite set: a Go map is ranged over in any of them.
Orders(S) == {f \in [1 .. Cardinality(S) -> S] : \A x \in S : \E i \in DOMAIN f : f[i] = x}

\* Mutant: the sweep passes over a box that had been suspected.
Sweep_SkipsSuspects ==
  LET some == {id \in Quiet : ~hosts[id].suspected}
  IN  /\ reporter.at = "idle"
      /\ \E order \in Orders(some) :
           LET new == [i \in DOMAIN order |->
                         Event(KindFor(Liveness(hosts[order[i]])), order[i], hosts[order[i]])]
           IN  Note(new) /\ log' = log \o new
      /\ hosts' = [id \in DOMAIN hosts |-> IF id \in some THEN Reported(hosts[id]) ELSE hosts[id]]
      /\ reporter' = [ReporterIdle EXCEPT !.at = "swept"]
      /\ UNCHANGED <<pending, life, landed, rows, told>>

Sweep ==
  /\ reporter.at = "idle"
  /\ \E order \in Orders(Quiet) :
       LET new == [i \in DOMAIN order |->
                     Event(KindFor(Liveness(hosts[order[i]])), order[i], hosts[order[i]])]
       IN  Note(new) /\ log' = log \o new
  /\ hosts' = [id \in DOMAIN hosts |-> Reported(hosts[id])]
  /\ reporter' = [ReporterIdle EXCEPT !.at = "swept"]
  /\ UNCHANGED <<pending, life, landed, rows, told>>

Drain ==
  /\ reporter.at = "swept"
  /\ reporter' = [reporter EXCEPT !.at = "drained", !.batch = Pending, !.events = events]
  /\ events' = << >>
  /\ UNCHANGED <<hosts, pending, life, log, landed, rows, told>>

Views ==
  /\ reporter.at = "drained"
  /\ reporter' = [reporter EXCEPT !.at = "posting",
                    !.views = [id \in DOMAIN hosts |-> Liveness(hosts[id])]]
  /\ UNCHANGED <<registryVars, life, log, landed, rows, told>>

\* recordFleet: one transaction upserts the rows and adds the events it does not have.
Lands ==
  /\ reporter.at = "posting" /\ ~landed
  /\ landed' = TRUE
  /\ rows' = [id \in DOMAIN rows \cup DOMAIN reporter.views |->
                IF id \in DOMAIN reporter.views THEN reporter.views[id] ELSE rows[id]]
  /\ told' = told \cup reporter.batch
  /\ UNCHANGED <<registryVars, life, log, reporter>>

Acknowledged ==
  /\ reporter.at = "posting" /\ landed
  /\ reporter' = ReporterIdle
  /\ landed' = FALSE
  /\ UNCHANGED <<registryVars, life, log, rows, told>>

\* Mutant: what was taken goes behind what was noted since.
Restore_Behind ==
  /\ reporter.at = "posting"
  /\ events' = Newest(events \o reporter.events, MaxPendingEvents)
  /\ reporter' = ReporterIdle
  /\ landed' = FALSE
  /\ UNCHANGED <<hosts, pending, life, log, rows, told>>

\* The post failed, as far as this side can tell: the report may have landed all the same.
Restore ==
  /\ reporter.at = "posting"
  /\ events' = Newest(reporter.events \o events, MaxPendingEvents)
  /\ reporter' = ReporterIdle
  /\ landed' = FALSE
  /\ UNCHANGED <<hosts, pending, life, log, rows, told>>

-----------------------------------------------------------------------------

HistoryNext ==
  \/ \E h \in Hosts : BeatHeard(h) \/ Restarts(h) \/ Suspected(h)
  \/ ClockPasses
  \/ Sweep \/ Drain \/ Views \/ Lands \/ Acknowledged \/ Restore

HistorySpec == HistoryInit /\ [][HistoryNext]_historyVars

(***************************************************************************)
(* The reporter is a ticker that runs as long as the process does and      *)
(* every post ends within its timeout. The API may fail any number of      *)
(* posts, but not every one of them for ever.                              *)
(***************************************************************************)
HistoryFairness ==
  /\ WF_historyVars(ClockPasses)
  /\ WF_historyVars(Sweep) /\ WF_historyVars(Drain) /\ WF_historyVars(Views)
  /\ WF_historyVars(Acknowledged \/ Restore)
  /\ SF_historyVars(Lands)

HistoryFairSpec == HistorySpec /\ HistoryFairness

-----------------------------------------------------------------------------
(* Properties. *)

(***************************************************************************)
(* No hole in the history: however often reports fail, land unacknowledged *)
(* or overlap new transitions, one is missing only under MaxPendingEvents  *)
(* newer ones, and what is pending is still in the order it was noted      *)
(* (Registry.Restore: "a history with a hole in it is worse").             *)
(***************************************************************************)
NoHole ==
  /\ Pending \subseteq DOMAIN log
  /\ events = SubSeq(log, Len(log) - Len(events) + 1, Len(log))
  /\ \A n \in DOMAIN log :
       n > Len(log) - MaxPendingEvents => n \in told \cup reporter.batch \cup Pending

(***************************************************************************)
(* A box that goes quiet and stays quiet reaches the API's history: its    *)
(* last row there becomes `failed`, unless it is heard again, dropped from *)
(* the registry, or pushed out of the list by MaxPendingEvents newer rows  *)
(* (Registry.Sweep: without it "no row anywhere says when it stopped").    *)
(***************************************************************************)
FailureTold(h) ==
  \E n \in DOMAIN log :
    /\ log[n].host = h /\ log[n].kind = "failed"
    /\ \A k \in n + 1 .. Len(log) : log[k].host # h
    /\ n \in told \/ Len(log) - n >= MaxPendingEvents

QuietIsTold ==
  \A h \in Hosts :
    h \in DOMAIN hosts /\ Liveness(hosts[h]) = "failed"
      ~> h \notin DOMAIN hosts \/ Liveness(hosts[h]) # "failed" \/ FailureTold(h)
=============================================================================
