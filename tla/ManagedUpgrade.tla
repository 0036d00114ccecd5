--------------------------- MODULE ManagedUpgrade ---------------------------
(***************************************************************************)
(* RunUpgrade: a cluster upgrade through the managed-upgrade-operator.     *)
(*                                                                         *)
(* The run prepares the cluster (disruptive workloads, the operator's      *)
(* configuration), asks for the upgrade (a policy at OCM, or an            *)
(* UpgradeConfig on the cluster), bounces the operator so that it takes    *)
(* note, and watches the UpgradeConfig until the operator is done.  The    *)
(* operator, OCM and Hive act on the same objects meanwhile, and every     *)
(* request of the run may fail, or be served without an answer.            *)
(***************************************************************************)
EXTENDS Naturals

Workloads == {"pdb", "node-drain-test"}

Config == [
  source      : {"OCM", "LOCAL"},   \* getProviderSource: LOCAL with Upgrade.Image
  valid       : BOOLEAN,            \* Upgrade.ReleaseName and the versions parse
  supported   : BOOLEAN,            \* Upgrade.Type is OSD or ARO
  yStream     : BOOLEAN,            \* the upgrade is to another minor version
  rescheduled : BOOLEAN,            \* Upgrade.ManagedUpgradeRescheduled
  reused      : BOOLEAN,            \* the cluster has the UpgradeConfig of an earlier one
  wanted      : SUBSET Workloads]   \* the disruptive workloads to be tried

VARIABLES
  conf,      \* the configuration, fixed at the start
  pc,        \* the step of the run
  applied,   \* the workloads whose objects are on the cluster
  known,     \* those the helper has on record as installed
  opconfig,  \* whose configuration the operator has: Hive's or the tests'
  replicas,  \* of the operator's deployment
  gate,      \* the version gate: not agreed to, agreed to, or not found
  policy,    \* OCM's upgrade policy for the cluster, by when it is due
  uc,        \* the UpgradeConfig on the cluster
  outcome,   \* what RunUpgrade returns
  upgraded   \* history: the operator has completed the upgrade that was asked for

vars == <<conf, pc, applied, known, opconfig, replicas, gate, policy, uc, outcome,
          upgraded>>
cluster == <<opconfig, replicas, uc, upgraded>>
ocm == <<gate, policy>>

\* The history entry of the desired version has these phases; with no entry yet
\* the phase is "new".
Phases == {"new", "Pending", "Upgrading", "Upgraded", "Failed"}
Dues == {"soon", "later"}

UpgradeConfig == [phase : Phases, due : Dues, quick : BOOLEAN, ours : BOOLEAN]
NoConfig == [phase |-> "absent", due |-> "soon", quick |-> FALSE, ours |-> FALSE]
Requested(due, quick) == [phase |-> "new", due |-> due, quick |-> quick, ours |-> TRUE]

Fail == pc' = "done" /\ outcome' = "error"
Succeed == pc' = "done" /\ outcome' = "ok"
Goto(step) == pc' = step /\ UNCHANGED outcome

-----------------------------------------------------------------------------
(* TriggerManagedUpgrade.                                                  *)

\* createManagedUpgradeWorkload: the next workload's objects are created, one
\* by one; an error leaves those before it behind.
Awaited == (applied \ known) # {}

ApplyWorkload(w) ==
  /\ pc = "workloads" /\ ~Awaited
  /\ w \in conf.wanted \ known
  /\ w = "node-drain-test" => "pdb" \notin conf.wanted \ known
  /\ applied' = applied \cup {w}
  /\ \/ Goto(pc)
     \/ Fail
  /\ UNCHANGED <<conf, known, cluster, ocm>>

\* Seeded fault: one workload's success is recorded for all.
WorkloadUpForAll ==
  /\ pc = "workloads" /\ Awaited
  /\ known' = conf.wanted /\ Goto(pc)
  /\ UNCHANGED <<conf, applied, cluster, ocm>>

\* Its pods are healthy within two minutes, or they are not.
WorkloadUp ==
  /\ pc = "workloads" /\ Awaited
  /\ \/ known' = applied /\ Goto(pc)
     \/ Fail /\ UNCHANGED known
  /\ UNCHANGED <<conf, applied, cluster, ocm>>

\* overrideOperatorConfig: the tests' configuration is put in the place of a
\* different one.
Override == opconfig' = "e2e"

OverrideConfig ==
  /\ pc = "workloads" /\ conf.wanted \subseteq known
  /\ \/ Override /\ Goto("schedule")
     \/ opconfig' \in {opconfig, "e2e"} /\ Fail
  /\ UNCHANGED <<conf, applied, known, replicas, uc, ocm, upgraded>>

\* Seeded fault: the upgrade is asked for before the workloads are up.
GateAtOnce ==
  /\ pc \in {"workloads", "schedule"}
  /\ UNCHANGED gate /\ Goto("request")
  /\ UNCHANGED <<conf, applied, known, cluster, policy>>

\* scheduleUpgradeWithProvider up to the version gate: bad configuration, or a
\* gate whose agreement cannot be added, ends the run; a gate that cannot be
\* found does not.
Gate ==
  /\ pc = "schedule"
  /\ IF conf.valid /\ (conf.source = "LOCAL" => conf.supported)
     THEN IF conf.yStream
          THEN \/ gate' \in {"agreed", "not found"} /\ Goto("request")
               \/ gate' \in {gate, "agreed"} /\ Fail
          ELSE UNCHANGED gate /\ Goto("request")
     ELSE UNCHANGED gate /\ Fail
  /\ UNCHANGED <<conf, applied, known, cluster, policy>>

\* OCMProvider.Upgrade, due in seven minutes.
RequestFromOCM ==
  /\ pc = "request" /\ conf.source = "OCM"
  /\ \/ policy' = "soon" /\ Goto("restart")
     \/ policy' \in {policy, "soon"} /\ Fail
  /\ UNCHANGED <<conf, applied, known, cluster, gate>>

\* scheduleLocalUpgrade creates the UpgradeConfig, if there is none.
RequestLocally ==
  /\ pc = "request" /\ conf.source = "LOCAL"
  /\ \/ uc = NoConfig /\ uc' = Requested("soon", TRUE) /\ Goto("restart")
     \/ uc = NoConfig /\ uc' = Requested("soon", TRUE) /\ Fail
     \/ UNCHANGED uc /\ Fail
  /\ UNCHANGED <<conf, applied, known, opconfig, replicas, ocm, upgraded>>

\* restartOperator, tried again from the top for two minutes.
ScaleDown ==
  /\ pc = "restart"
  /\ \/ replicas' = 0 /\ Goto("scale up")
     \/ replicas' = 0 /\ Goto("restart")
  /\ UNCHANGED <<conf, applied, known, opconfig, uc, ocm, upgraded>>

\* Seeded fault: a failed scale-up ends the restart as if it were complete.
ScaleUpIgnored ==
  /\ pc = "scale up"
  /\ replicas' \in {replicas, 1}
  /\ Goto("await config")
  /\ UNCHANGED <<conf, applied, known, opconfig, uc, ocm, upgraded>>

ScaleUp ==
  /\ pc = "scale up"
  /\ \/ replicas' = 1 /\ Goto("await config")
     \/ replicas' \in {replicas, 1} /\ Goto("restart")
  /\ UNCHANGED <<conf, applied, known, opconfig, uc, ocm, upgraded>>

\* Seeded fault: the deadline is not heeded while the operator is scaled up.
RestartTimesOutBetween ==
  /\ pc = "restart"
  /\ Fail
  /\ UNCHANGED <<conf, applied, known, cluster, ocm>>

RestartTimesOut ==
  /\ pc \in {"restart", "scale up"}
  /\ Fail
  /\ UNCHANGED <<conf, applied, known, cluster, ocm>>

\* Six looks for an UpgradeConfig.  The run goes on without one, too.
AwaitConfig ==
  /\ pc = "await config"
  /\ IF conf.rescheduled
     THEN Goto(IF conf.source = "LOCAL" THEN "observe" ELSE "reschedule")
     ELSE Goto("poll")
  /\ UNCHANGED <<conf, applied, known, cluster, ocm>>

\* updateUpgradeWithProvider: the policy is put off for five hours.
Reschedule ==
  /\ pc = "reschedule"
  /\ \/ policy # "none" /\ policy' = "later" /\ Goto("observe")
     \/ policy # "none" /\ policy' = "later" /\ Fail
     \/ UNCHANGED policy /\ Fail
  /\ UNCHANGED <<conf, applied, known, cluster, gate>>

-----------------------------------------------------------------------------
(* After the trigger.                                                      *)

Commenced == {"Upgrading", "Upgraded", "Failed"}

\* Ten minutes after the rescheduling isUpgradeTriggered looks up the history
\* of the version that TriggerManagedUpgrade returned.  That version is always
\* empty, which is the desired version of a local upgrade only.  All that is no
\* proof of a triggered upgrade, errors included, passes.
Observe ==
  /\ pc = "observe"
  /\ \/ conf.source = "LOCAL" /\ uc.phase \in Commenced /\ Fail
     \/ Succeed          \* nothing found, or the look-up failed
  /\ UNCHANGED <<conf, applied, known, cluster, ocm>>

\* Seeded fault: an upgrade that is over, in whichever way, is done.
PollAnyEndIsDone ==
  /\ pc = "poll"
  /\ opconfig' \in {opconfig, "e2e"}
  /\ uc' = uc
  /\ IF uc.phase \in {"absent", "Failed", "Upgraded"} THEN Goto("ready") ELSE Goto("poll")
  /\ UNCHANGED <<conf, applied, known, replicas, ocm, upgraded>>

\* One poll of the upgrade: the operator's configuration is put back if Hive
\* has replaced it, then isManagedUpgradeDone reads the first UpgradeConfig and
\* shortens its drain timeout.  Neither update is insisted on.
Poll ==
  /\ pc = "poll"
  /\ opconfig' \in {opconfig, "e2e"}
  /\ \/ uc' = uc /\ Goto("poll")               \* the API is not available
     \/ uc = NoConfig /\ uc' = uc /\ Goto("policy")
     \/ /\ uc # NoConfig
        /\ \E quick \in {uc.quick, TRUE} : uc' = [uc EXCEPT !.quick = quick]
        /\ \/ uc.phase = "Failed" /\ Fail
           \/ uc.phase = "Upgraded" /\ Goto("ready")
           \/ uc.phase \in {"new", "Pending", "Upgrading"} /\ Goto("poll")
  /\ UNCHANGED <<conf, applied, known, replicas, ocm, upgraded>>

\* No UpgradeConfig: without a policy at OCM either, the upgrade is off.
CheckPolicy ==
  /\ pc = "policy"
  /\ \/ Goto("poll")                           \* OCM did not answer
     \/ policy # "none" /\ Goto("poll")
     \/ policy = "none" /\ Fail
  /\ UNCHANGED <<conf, applied, known, cluster, ocm>>

\* MaxDuration is up.
PollTimesOut ==
  /\ pc \in {"poll", "policy"}
  /\ Fail
  /\ UNCHANGED <<conf, applied, known, cluster, ocm>>

\* WaitForClusterReadyPostUpgrade (HealthWait), and then the drain test's pods
\* are freed of their finalizers and deleted, which their deployment replaces.
Ready ==
  /\ pc = "ready"
  /\ \/ Succeed
     \/ Fail
  /\ UNCHANGED <<conf, applied, known, cluster, ocm>>

-----------------------------------------------------------------------------
(* The others: the operator, OCM and Hive.                                 *)

\* The operator syncs its UpgradeConfig with OCM's policy, if its configuration
\* says so: Hive's does.
Sync ==
  /\ replicas = 1 /\ (conf.source = "OCM" \/ opconfig = "hive")
  /\ \/ /\ policy # "none" /\ ~uc.ours
        /\ uc' = Requested(policy, FALSE)
     \/ /\ policy # "none" /\ uc.phase \in {"new", "Pending"} /\ uc.due # policy
        /\ uc' = [uc EXCEPT !.due = policy]
     \/ /\ policy = "none" /\ uc # NoConfig /\ uc.phase # "Upgrading"
        /\ uc' = NoConfig
  /\ UNCHANGED <<conf, pc, applied, known, opconfig, replicas, ocm, outcome, upgraded>>

\* The operator takes an upgrade through its phases.  One that is due later does
\* not commence while the run watches.
Advance ==
  /\ replicas = 1
  /\ \E phase \in Phases :
       /\ \/ uc.phase = "new" /\ phase = "Pending"
          \/ uc.phase = "Pending" /\ uc.due = "soon" /\ phase \in {"Upgrading", "Failed"}
          \/ uc.phase = "Upgrading" /\ phase \in {"Upgraded", "Failed"}
       /\ uc' = [uc EXCEPT !.phase = phase]
       /\ upgraded' = (upgraded \/ (uc.ours /\ phase = "Upgraded"))
  /\ UNCHANGED <<conf, pc, applied, known, opconfig, replicas, ocm, outcome>>

\* The policy is fulfilled, or somebody cancels it.
PolicyEnds ==
  /\ policy # "none"
  /\ policy' = "none"
  /\ UNCHANGED <<conf, pc, applied, known, cluster, gate, outcome>>

Hive ==
  /\ opconfig = "e2e"
  /\ opconfig' = "hive"
  /\ UNCHANGED <<conf, pc, applied, known, replicas, uc, ocm, outcome, upgraded>>

-----------------------------------------------------------------------------

Init ==
  /\ conf \in Config
  /\ pc = "workloads"
  /\ applied = {} /\ known = {}
  /\ opconfig = "hive" /\ replicas = 1
  /\ gate = "none" /\ policy = "none"
  /\ uc = IF conf.reused
            THEN [Requested("soon", FALSE) EXCEPT !.phase = "Upgraded", !.ours = FALSE]
            ELSE NoConfig
  /\ outcome = "running" /\ upgraded = FALSE

Run ==
  \/ (\E w \in Workloads : ApplyWorkload(w)) \/ WorkloadUp \/ OverrideConfig
  \/ Gate \/ RequestFromOCM \/ RequestLocally \/ ScaleDown \/ ScaleUp
  \/ AwaitConfig \/ Reschedule \/ Observe \/ Poll \/ CheckPolicy \/ Ready

TimeOut == RestartTimesOut \/ PollTimesOut

Others == Sync \/ Advance \/ PolicyEnds \/ Hive

Next == Run \/ TimeOut \/ Others

Spec == Init /\ [][Next]_vars

\* Every request of the run returns, and its two polls have deadlines.  Nothing
\* is assumed of the operator, of OCM or of Hive.
FairSpec == Spec /\ WF_vars(Run) /\ WF_vars(TimeOut)

-----------------------------------------------------------------------------
(* Properties.                                                             *)

\* The variables hold what the run and the others put in them.
TypeOK ==
  /\ conf \in Config
  /\ pc \in {"workloads", "schedule", "request", "restart", "scale up",
             "await config", "reschedule", "observe", "poll", "policy", "ready", "done"}
  /\ applied \subseteq Workloads /\ known \subseteq applied
  /\ opconfig \in {"hive", "e2e"}
  /\ replicas \in {0, 1}
  /\ gate \in {"none", "agreed", "not found"}
  /\ policy \in Dues \cup {"none"}
  /\ uc \in UpgradeConfig \cup {NoConfig}
  /\ outcome \in {"running", "ok", "error"}
  /\ upgraded \in BOOLEAN

\* RunUpgrade succeeds only when the operator has completed the upgrade that the
\* run asked for, whatever OCM, Hive and the operator did to the policy and to
\* the UpgradeConfig in the meantime (isManagedUpgradeDone).  It does not hold of
\* a cluster that was upgraded before: the UpgradeConfig of the earlier upgrade,
\* which nobody tells from the new one, may be judged in its stead.
SuccessMeansUpgraded ==
  outcome = "ok" /\ ~conf.rescheduled => upgraded \/ conf.reused

\* No upgrade of the run's commences before the workloads that are to disturb it
\* are up and recorded, and before the version gate has been dealt with.
TestLoadInPlace ==
  uc.ours /\ uc.phase \in Commenced =>
    /\ conf.wanted \subseteq known
    /\ conf.yStream => gate # "none"

\* The run never waits for an operator that it has scaled down itself.
OperatorRunsWhileWatched ==
  pc \in {"await config", "reschedule", "observe", "poll", "policy", "ready"} =>
    replicas = 1

\* The run ends: neither the restart of the operator nor the watch goes on
\* forever, whatever the others do.
UpgradeEnds == <>(pc = "done")

\* An upgrade that fails under the eyes of the run ends it with an error, also
\* when the UpgradeConfig that says so is deleted or cannot be read.
FailureIsReported ==
  (pc = "poll" /\ uc.phase = "Failed" /\ ~upgraded) ~> (outcome = "error")

\* "When the upgrade being rescheduled, we should expect that the upgrade will
\* not be triggered" (upgrade.go): an upgrade that was put off at OCM does not
\* pass for rescheduled when it has been triggered all the same.
RescheduledIsNotTriggered ==
  [][conf.source = "OCM" /\ conf.rescheduled /\ outcome' = "ok" /\ outcome # "ok" =>
       uc.phase \notin Commenced]_vars
=============================================================================
