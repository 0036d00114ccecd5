---------------------------- MODULE Orchestrator ----------------------------
(***************************************************************************)
(* What orchestrator.Orchestrator promises of a run, whichever orchestrator *)
(* drives it (E2EOrchestrator or KrknAI): a cluster is provisioned, the    *)
(* tests are executed and decide the exit code, the cluster is             *)
(* post-processed, the outcome is reported, and only then is the cluster   *)
(* destroyed, if it is destroyed at all.                                   *)
(***************************************************************************)

VARIABLES
  stage,   \* how far the run has come
  exit,    \* Result.ExitCode; "Killed" when the process is stopped from outside
  cluster  \* the cluster of the run, as OCM sees it

vars == <<stage, exit, cluster>>

Stages == {"new", "failed", "provisioned", "executed", "processed", "reported", "over"}
Exits == {"Success", "Failure", "Killed"}
ClusterStates == {"none", "live", "deleted", "expired"}

TypeOK ==
  /\ stage \in Stages
  /\ exit \in Exits
  /\ cluster \in ClusterStates

Init ==
  /\ stage = "new"
  /\ exit = "Success"
  /\ cluster \in {"none", "live"}

\* Provision: "prepares the test environment by provisioning or reusing a
\* cluster".  It may take several steps and fail with the cluster there.
Obtain ==
  /\ stage = "new"
  /\ cluster = "none"
  /\ cluster' = "live"
  /\ UNCHANGED <<stage, exit>>

Provision ==
  /\ stage = "new"
  /\ cluster # "none"
  /\ stage' = "provisioned"
  /\ UNCHANGED <<exit, cluster>>

ProvisionFails ==
  /\ stage = "new"
  /\ stage' = "failed"
  /\ exit' = "Failure"
  /\ cluster' \in {cluster, IF cluster = "none" THEN "live" ELSE cluster}

\* Execute decides the exit code, once and for all.
Execute ==
  /\ stage = "provisioned"
  /\ stage' = "executed"
  /\ exit' \in {"Success", "Failure"}
  /\ UNCHANGED cluster

PostProcessCluster ==
  /\ stage = "executed"
  /\ stage' = "processed"
  /\ UNCHANGED <<exit, cluster>>

Report ==
  /\ stage = "processed"
  /\ stage' = "reported"
  /\ UNCHANGED <<exit, cluster>>

\* Cleanup "optionally destroys the cluster based on configuration".
Cleanup ==
  /\ stage = "reported"
  /\ stage' = "over"
  /\ cluster' \in {cluster, IF cluster = "live" THEN "deleted" ELSE cluster}
  /\ UNCHANGED exit

\* A run whose provisioning failed ends there.
GiveUp ==
  /\ stage = "failed"
  /\ stage' = "over"
  /\ UNCHANGED <<exit, cluster>>

\* The environment: OCM deletes the cluster when it expires, CI stops the run.
Expiry ==
  /\ cluster = "live"
  /\ cluster' = "expired"
  /\ UNCHANGED <<stage, exit>>

Kill ==
  /\ stage # "over"
  /\ stage' = "over"
  /\ exit' = "Killed"
  /\ UNCHANGED cluster

Next ==
  \/ Obtain \/ Provision \/ ProvisionFails
  \/ Execute \/ PostProcessCluster \/ Report \/ Cleanup \/ GiveUp
  \/ Expiry \/ Kill

Spec == Init /\ [][Next]_vars

=============================================================================
