----------------------------- MODULE HealthWait -----------------------------
(***************************************************************************)
(* The wait for an upgraded cluster: WaitForOCMProvisioning, one fetch of  *)
(* the cluster, then the polls of its health, which count clean runs and   *)
(* erring runs and write what they find into the cluster's Status tag.     *)
(*                                                                         *)
(* The wait works on a copy of the cluster.  The copy is taken once, so    *)
(* its state never changes again; its tag is changed by AddProperty before *)
(* OCM is asked, and stays changed when OCM refuses.                       *)
(*                                                                         *)
(* A tag is the set of strings it joins with commas: a status is a         *)
(* singleton and the empty string is {}.                                   *)
(***************************************************************************)
EXTENDS Naturals, Sequences, FiniteSets

CONSTANTS
  Checks,           \* the health checks PollClusterHealth runs
  CleanRunsNeeded,  \* config.Cluster.CleanCheckRuns
  ErrorWindow,      \* errorWindow
  Polls             \* bound: polls of the cluster's health before the timeout

ASSUME WaitAssumption ==
  /\ CleanRunsNeeded \in Nat \ {0}
  /\ ErrorWindow \in Nat /\ ErrorWindow > 1
  /\ Polls \in Nat

Provisioning == {"provisioning"}
WaitingForReady == {"waiting-for-ready"}
HealthCheck == {"upgrade-health-check"}
Healthy == {"upgrade-healthy"}
Unhealthy == {"upgrade-unhealthy"}
Statuses == {Provisioning, WaitingForReady, HealthCheck, Healthy, Unhealthy}

ASSUME ChecksAreNoStatus == \A s \in Statuses : s \cap Checks = {}

States == {"installing", "ready", "error"}
Tags == Statuses \cup SUBSET Checks

VARIABLES
  skip,    \* Tests.SkipClusterHealthChecks
  pc,      \* the step of the wait
  state,   \* the state of the cluster in OCM
  tag,     \* its Status tag in OCM
  view,    \* the wait's own copy of the cluster
  clean,   \* cleanRuns
  errs,    \* errRuns
  seen,    \* history: what each health check found, oldest first
  lost     \* history: OCM did not confirm the wait's latest change of the tag

vars == <<skip, pc, state, tag, view, clean, errs, seen, lost>>
history == <<seen, lost>>
counts == <<clean, errs>>

-----------------------------------------------------------------------------
(* What the polls are made of.                                             *)

\* One round of checks: each passes, finds something, or fails with an error.
\* Without a client for the cluster no check runs at all: unhealthy, but with
\* neither a failure nor an error to tell.
NoClient == [status |-> FALSE, failures |-> {}, err |-> FALSE]

PollClusterHealth(check) ==
  [status   |-> \A c \in Checks : check[c] = "ok",
   failures |-> {c \in Checks : check[c] # "ok"},
   err      |-> \E c \in Checks : check[c] = "error"]

Report == [status : BOOLEAN, failures : SUBSET Checks, err : BOOLEAN]

Reports ==
  {NoClient} \cup {PollClusterHealth(k) : k \in [Checks -> {"ok", "bad", "error"}]}

\* AddProperty: the copy has the new tag whatever OCM does, and an update that
\* is not confirmed may have been made or not.
AddProperty(copy, value, confirmed) ==
  /\ view' = [copy EXCEPT !.tag = value]
  /\ lost' = ~confirmed
  /\ IF confirmed THEN tag' = value ELSE tag' \in {tag, value}

Fetched == [state |-> state, tag |-> tag]

-----------------------------------------------------------------------------
(* WaitForOCMProvisioning: the cluster is fetched afresh at every poll.    *)

\* Health checks are not to be made: nothing is waited for.
Skip ==
  /\ pc = "start" /\ skip
  /\ pc' = "ready"
  /\ UNCHANGED <<skip, state, tag, view, counts, history>>

Start ==
  /\ pc = "start" /\ ~skip
  /\ pc' = "provisioning"
  /\ UNCHANGED <<skip, state, tag, view, counts, history>>

\* A poll that does not end the wait.  A failed fetch, or a cluster not ready
\* and past provisioning, changes nothing and is no step here.  The provisioning
\* tag is moved on at every poll that finds it, readinessSet never being set; the
\* update to health-check has gone unconfirmed, or the wait would be over.
Await ==
  /\ pc = "provisioning"
  /\ \/ tag = Provisioning /\ tag' = WaitingForReady
     \/ state = "ready" /\ tag # HealthCheck /\ tag' = HealthCheck
  /\ UNCHANGED <<skip, pc, state, view, counts, history>>

BecomesReady ==
  /\ pc = "provisioning" /\ state = "ready"
  /\ pc' = "fetch" /\ tag' = HealthCheck
  /\ UNCHANGED <<skip, state, view, counts, history>>

-----------------------------------------------------------------------------
(* The health polls, all of them on the copy fetched here.                 *)

Fetch ==
  /\ pc = "fetch"
  /\ \/ pc' = "polling" /\ view' = Fetched /\ lost' = FALSE
     \/ pc' = "failed" /\ UNCHANGED <<view, lost>>  \* the fetch failed
  /\ UNCHANGED <<skip, state, tag, counts, seen>>

\* The copy is of a cluster that was not ready: nothing is checked.
NotReady ==
  /\ pc = "polling" /\ view.state # "ready"
  /\ UNCHANGED vars

Checking(report) ==
  /\ pc = "polling" /\ view.state = "ready"
  /\ Len(seen) < Polls
  /\ seen' = Append(seen, report)
  /\ UNCHANGED <<skip, state>>

CleanRun ==
  \E report \in Reports :
    /\ Checking(report) /\ report.status
    /\ clean' = clean + 1 /\ errs' = 0
    /\ pc' = IF clean' = CleanRunsNeeded THEN "mark" ELSE "polling"
    /\ UNCHANGED <<tag, view, lost>>

\* Seeded fault: the window closes one error early.
ErrorOutOfWindowEarly ==
  \E report \in Reports, confirmed \in BOOLEAN :
    /\ Checking(report) /\ ~report.status /\ report.err
    /\ errs' = errs + 1 /\ errs' + 1 >= ErrorWindow
    /\ AddProperty(view, Unhealthy, confirmed)
    /\ UNCHANGED <<pc, clean>>

\* Errors keep counting until a clean run.  From the end of the window on, each
\* one marks the cluster unhealthy, and the poll ends there.
ErrorOutOfWindow ==
  \E report \in Reports, confirmed \in BOOLEAN :
    /\ Checking(report) /\ ~report.status /\ report.err
    /\ errs' = errs + 1 /\ errs' >= ErrorWindow
    /\ AddProperty(view, Unhealthy, confirmed)
    /\ UNCHANGED <<pc, clean>>

\* Seeded fault: once a failure is told, a different one is not.
TellOnce(failures, confirmed) ==
  IF view.tag \subseteq Checks
  THEN UNCHANGED <<tag, view, lost>>
  ELSE AddProperty(view, failures, confirmed)

\* What failed goes into the tag when the copy's tag differs.
Tell(failures, confirmed) ==
  IF view.tag = failures
  THEN UNCHANGED <<tag, view, lost>>
  ELSE AddProperty(view, failures, confirmed)

\* Seeded fault: an error leaves the clean runs before it standing.
FailedRunKeepsCount ==
  \E report \in Reports, confirmed \in BOOLEAN :
    /\ Checking(report) /\ ~report.status
    /\ errs' = IF report.err THEN errs + 1 ELSE errs
    /\ report.err => errs' < ErrorWindow
    /\ clean' = IF report.err THEN clean ELSE 0
    /\ Tell(report.failures, confirmed)
    /\ UNCHANGED pc

\* Any other round of failures starts the clean runs again.
FailedRun ==
  \E report \in Reports, confirmed \in BOOLEAN :
    /\ Checking(report) /\ ~report.status
    /\ errs' = IF report.err THEN errs + 1 ELSE errs
    /\ report.err => errs' < ErrorWindow
    /\ clean' = 0
    /\ Tell(report.failures, confirmed)
    /\ UNCHANGED pc

\* The time is up, 135 minutes by default.
TimeOut ==
  /\ pc \in {"provisioning", "polling"}
  /\ pc' = "failed"
  /\ UNCHANGED <<skip, state, tag, view, counts, history>>

Mark ==
  \E confirmed \in BOOLEAN :
    /\ pc = "mark"
    /\ AddProperty(view, Healthy, confirmed)
    /\ pc' = IF confirmed THEN "ready" ELSE "failed"
    /\ UNCHANGED <<skip, state, counts, seen>>

\* The state that OCM has for the cluster changes on its own.
ClusterChanges ==
  /\ state' \in States \ {state}
  /\ pc \notin {"ready", "failed"}
  /\ UNCHANGED <<skip, pc, tag, view, counts, history>>

-----------------------------------------------------------------------------

Init ==
  /\ skip \in BOOLEAN
  /\ pc = "start"
  /\ state \in States
  /\ tag \in Statuses \cup {{}}
  /\ view = [state |-> "unknown", tag |-> {}]
  /\ clean = 0 /\ errs = 0 /\ seen = <<>> /\ lost = FALSE

Next ==
  \/ Skip \/ Start \/ Await \/ BecomesReady \/ Fetch
  \/ NotReady \/ CleanRun \/ ErrorOutOfWindow \/ FailedRun
  \/ TimeOut \/ Mark \/ ClusterChanges

Spec == Init /\ [][Next]_vars

-----------------------------------------------------------------------------
(* What the wait promises, told from the checks it has made.               *)

\* The erring rounds since the last clean one, among the first n.
Erring(n) ==
  {i \in 1..n : seen[i].err /\ \A j \in i..n : ~seen[j].status}

Last == seen[Len(seen)]

\* What the latest round of failures should have made of the tag.
Verdict ==
  IF Last.err /\ Cardinality(Erring(Len(seen))) >= ErrorWindow
  THEN Unhealthy ELSE Last.failures

\* The variables hold what the wait can put in them.
TypeOK ==
  /\ skip \in BOOLEAN
  /\ pc \in {"start", "provisioning", "fetch", "polling", "mark", "ready", "failed"}
  /\ state \in States
  /\ tag \in Tags
  /\ view \in [state : States \cup {"unknown"}, tag : Tags]
  /\ clean \in Nat /\ errs \in Nat
  /\ seen \in Seq(Report)
  /\ lost \in BOOLEAN

\* The wait ends well, and the cluster is marked healthy by it, only after the
\* configured number of clean rounds in a row, the latest ones: no failing round
\* in between, on whichever path it left the poll.
SettledBeforeHealthy ==
  pc = "mark" \/ (pc = "ready" /\ ~skip) =>
    /\ Len(seen) >= CleanRunsNeeded
    /\ \A i \in (Len(seen) - CleanRunsNeeded + 1)..Len(seen) : seen[i].status

\* While the wait polls, OCM shows what the latest failing round found, unless
\* OCM left an update unconfirmed and the copy has hidden that since.
TagShowsLastFailure ==
  pc = "polling" /\ seen # <<>> /\ ~lost =>
    (~Last.status => tag = Verdict)

\* A cluster becomes marked unhealthy only when as many rounds as the window is
\* long have ended in an error since the last clean one.
UnhealthyIsDeserved ==
  [][tag' = Unhealthy /\ tag # Unhealthy =>
       Cardinality(Erring(Len(seen)))' >= ErrorWindow]_vars
=============================================================================
