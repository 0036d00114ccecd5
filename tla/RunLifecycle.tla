---------------------------- MODULE RunLifecycle ----------------------------
(***************************************************************************)
(* One run of osde2e test: RunTests drives the E2E orchestrator through    *)
(* provisioning, the install phase, an upgrade and its phase, the          *)
(* post-processing of the cluster, the report and the cleanup.             *)
(*                                                                         *)
(* The verdict of a run is spread over several places that are written at  *)
(* different times: the exit code, TestsPassed and UpgradePassed of the    *)
(* Result, config.Cluster.Passing, the Status tag on the cluster, and the  *)
(* queue of notifications that the test images fill while ginkgo runs and  *)
(* that Report drains.  What matters is that they agree in the end.        *)
(***************************************************************************)
EXTENDS Naturals, Sequences, SequencesExt

CONSTANT Suites  \* the test images of the run (config.GetTestSuites)

Phases == {"install", "upgrade"}

\* What a run is configured to do.
Config == [
  given       : BOOLEAN,        \* CLUSTER_ID and a kubeconfig were provided
  dry         : BOOLEAN,        \* ginkgo's dry run
  upgrade     : BOOLEAN,        \* Upgrade.Image or Upgrade.ReleaseName is set
  pre         : BOOLEAN,        \* Upgrade.RunPreUpgradeTests
  post        : BOOLEAN,        \* Upgrade.RunPostUpgradeTests
  skipDestroy : BOOLEAN,        \* Cluster.SkipDestroyCluster
  slack       : BOOLEAN,        \* EnableSlackNotify and a webhook are set
  runChannel  : BOOLEAN,        \* Tests.SlackChannel is set
  owned       : SUBSET Suites]  \* the suites with a SlackChannel of their own

VARIABLES
  conf,     \* the configuration, fixed at the start
  pc,       \* the step RunTests is at
  id,       \* config.Cluster.ID is set
  cluster,  \* the cluster OCM holds for this run
  status,   \* its Status tag, as far as this run's outcome goes
  result,   \* orchestrator.Result
  passing,  \* config.Cluster.Passing
  todo,     \* suites the phase in progress has still to run
  pending,  \* pendingNotifications
  sending,  \* the notifications Report has drained and not dealt with yet
  attempts, \* the Slack messages posted, or tried to be
  ran,      \* history: how each phase, and the upgrade itself, came out
  failures  \* history: the images that failed, and in which phase

vars == <<conf, pc, id, cluster, status, result, passing, todo, pending,
          sending, attempts, ran, failures>>

queue == <<pending, sending, attempts>>
history == <<ran, failures>>

Outcome == {"not run", "passed", "failed"}
ErrorKinds == {"upgrade", "gather", "properties", "expiry", "delete"}
Notice == [suite : Suites, phase : Phases]
Everyone == [suite |-> "run", phase |-> "run"]  \* the alert to Tests.SlackChannel

-----------------------------------------------------------------------------
(* Provision.                                                              *)

\* A cluster is at hand: the given one, or the one just launched, whose id
\* ProvisionCluster stores at once.
Obtain ==
  /\ pc = "provision"
  /\ conf.given => cluster = "live"
  /\ cluster' = "live"
  /\ id' = TRUE
  /\ pc' = "prepare"
  /\ UNCHANGED <<conf, status, result, passing, todo, queue, history>>

\* No cluster: the context cannot be loaded, the given cluster is not found,
\* or the launch fails, perhaps after OCM has created the cluster.
ObtainFails ==
  /\ pc = "provision"
  /\ \/ UNCHANGED cluster
     \/ ~conf.given /\ cluster' = "live"
  /\ result' = [result EXCEPT !.exit = "Failure"]
  /\ pc' = "report"
  /\ UNCHANGED <<conf, id, status, passing, todo, queue, history>>

\* Seeded fault: a failed preparation is not recorded in the result.
PrepareFailsUnrecorded ==
  /\ pc = "prepare"
  /\ pc' = "report"
  /\ UNCHANGED <<conf, id, cluster, status, result, passing, todo, queue, history>>

\* The wait for readiness, the kubeconfig, the addons or the MC simulation
\* fails; RunTests reports and returns.
PrepareFails ==
  /\ pc = "prepare"
  /\ result' = [result EXCEPT !.exit = "Failure"]
  /\ pc' = "report"
  /\ UNCHANGED <<conf, id, cluster, status, passing, todo, queue, history>>

-----------------------------------------------------------------------------
(* Execute.                                                                *)

\* The cluster is ready.  Execute clears Passing and decides on the phases.
Execute ==
  /\ pc = "prepare"
  /\ passing' = FALSE
  /\ result' = [result EXCEPT !.upgradePassed = TRUE]
  /\ IF conf.upgrade /\ ~conf.pre
       THEN pc' = "upgrade" /\ UNCHANGED todo
       ELSE pc' = "install phase" /\ todo' = Suites
  /\ UNCHANGED <<conf, id, cluster, status, queue, history>>

Running == pc \in {"install phase", "upgrade phase"}
Phase == IF pc = "install phase" THEN "install" ELSE "upgrade"

\* One entry of the table of test images, ContinueOnFailure: a failing image
\* is queued for its owner and the next one runs.  A dry run executes nothing.
RunSuite(s) ==
  /\ Running
  /\ s \in todo
  /\ todo' = todo \ {s}
  /\ \/ UNCHANGED <<pending, history>>
     \/ /\ ~conf.dry
        /\ pending' = Append(pending, [suite |-> s, phase |-> Phase])
        /\ failures' = failures \cup {[suite |-> s, phase |-> Phase]}
        /\ ran' = [ran EXCEPT ![Phase] = "failed"]
  /\ UNCHANGED <<conf, pc, id, cluster, status, result, passing, sending, attempts>>

\* BeforeAll fails, or the phase's directory cannot be made: no image is run.
PhaseBreaks ==
  /\ Running
  /\ todo = Suites
  /\ ran' = [ran EXCEPT ![Phase] = "failed"]
  /\ todo' = {}
  /\ UNCHANGED <<conf, pc, id, cluster, status, result, passing, queue, failures>>

\* ginkgo.RunSpecs returns: the phase passed if no image failed and no other
\* spec did.
Passed == {v \in BOOLEAN : v => ran[Phase] # "failed"}
Verdict(v) == ran' = [ran EXCEPT ![Phase] = IF v THEN "passed" ELSE "failed"]

\* Seeded fault: the install phase's verdict is not copied to Passing.
InstallPhaseEndsUnnoticed ==
  /\ pc = "install phase"
  /\ todo = {}
  /\ \E v \in Passed :
       /\ Verdict(v)
       /\ result' = [result EXCEPT !.testsPassed = v]
  /\ pc' = IF conf.upgrade THEN "upgrade" ELSE "verdict"
  /\ UNCHANGED <<conf, id, cluster, status, passing, todo, queue, failures>>

InstallPhaseEnds ==
  /\ pc = "install phase"
  /\ todo = {}
  /\ \E v \in Passed :
       /\ Verdict(v)
       /\ result' = [result EXCEPT !.testsPassed = v]
       /\ passing' = v
  /\ pc' = IF conf.upgrade THEN "upgrade" ELSE "verdict"
  /\ UNCHANGED <<conf, id, cluster, status, todo, queue, failures>>

\* runUpgrade: the cluster was upgraded (or the upgrade was rescheduled).
Upgrade ==
  /\ pc = "upgrade"
  /\ ran' = [ran EXCEPT !.cluster = "passed"]
  /\ IF conf.post
       THEN pc' = "upgrade phase" /\ todo' = Suites /\ passing' = FALSE
       ELSE pc' = "verdict" /\ UNCHANGED <<todo, passing>>
  /\ UNCHANGED <<conf, id, cluster, status, result, queue, failures>>

\* There is no kubeconfig or helper, or RunUpgrade fails.
UpgradeFails ==
  /\ pc = "upgrade"
  /\ ran' = [ran EXCEPT !.cluster = "failed"]
  /\ result' = [result EXCEPT !.upgradePassed = FALSE, !.errors = @ \cup {"upgrade"}]
  /\ pc' = "verdict"
  /\ UNCHANGED <<conf, id, cluster, status, passing, todo, queue, failures>>

UpgradePhaseEnds ==
  /\ pc = "upgrade phase"
  /\ todo = {}
  /\ \E v \in Passed :
       /\ Verdict(v)
       /\ result' = [result EXCEPT !.upgradePassed = v]
       /\ passing' = v
  /\ pc' = "verdict"
  /\ UNCHANGED <<conf, id, cluster, status, todo, queue, failures>>

\* Seeded fault: either verdict will do.
SetVerdictEither ==
  /\ pc = "verdict"
  /\ result' = IF result.testsPassed \/ result.upgradePassed THEN result
               ELSE [result EXCEPT !.exit = "Failure"]
  /\ pc' = "post-process"
  /\ UNCHANGED <<conf, id, cluster, status, passing, todo, queue, history>>

\* The end of Execute.
SetVerdict ==
  /\ pc = "verdict"
  /\ result' = IF result.testsPassed /\ result.upgradePassed THEN result
               ELSE [result EXCEPT !.exit = "Failure"]
  /\ pc' = "post-process"
  /\ UNCHANGED <<conf, id, cluster, status, passing, todo, queue, history>>

-----------------------------------------------------------------------------
(* PostProcessCluster, Report, Cleanup.  They do nothing in a dry run, and  *)
(* none of their errors changes the exit code.                             *)

\* Must-gather, then UpdateClusterProperties with the status that leaves;
\* Passing overrides it.  The properties are written one at a time and the
\* first failure ends it, so the status may or may not have been written.
PostProcess ==
  /\ pc = "post-process"
  /\ ~conf.dry
  /\ \E gathered \in BOOLEAN, complete \in BOOLEAN :
       LET bad == IF gathered THEN "completed-failing" ELSE "completed-error" IN
       /\ result' = [result EXCEPT !.errors = @
            \cup (IF gathered THEN {} ELSE {"gather"})
            \cup (IF complete THEN {} ELSE {"properties"})]
       /\ \/ /\ cluster = "live"
             /\ status' = IF passing THEN "completed-passing" ELSE bad
          \/ ~complete /\ UNCHANGED status
  /\ pc' = "extend"
  /\ UNCHANGED <<conf, id, cluster, passing, todo, queue, history>>

\* HandleExpirationExtension.
Extend ==
  /\ pc = "extend"
  /\ \/ UNCHANGED result
     \/ /\ conf.skipDestroy
        /\ result' = [result EXCEPT !.errors = @ \cup {"expiry"}]
  /\ pc' = "report"
  /\ UNCHANGED <<conf, id, cluster, status, passing, todo, queue, history>>

\* Execute was reached: it always runs a phase or tries the upgrade.
Tested == \E p \in DOMAIN ran : ran[p] # "not run"
AfterReport == IF Tested THEN "cleanup" ELSE "done"

\* Seeded fault: with an empty queue every run is announced.
ReportAlways ==
  /\ pc = "report"
  /\ ~conf.dry
  /\ sending' = pending
  /\ pending' = <<>>
  /\ attempts' = IF pending = <<>> /\ conf.slack /\ conf.runChannel
                   THEN attempts \cup {Everyone} ELSE attempts
  /\ pc' = "notify"
  /\ UNCHANGED <<conf, id, cluster, status, result, passing, todo, history>>

\* Report drains the queue.  With the queue empty, a failed run is announced
\* on the run's own channel.
Report ==
  /\ pc = "report"
  /\ ~conf.dry
  /\ sending' = pending
  /\ pending' = <<>>
  /\ attempts' = IF pending = <<>> /\ result.exit # "Success" /\ conf.slack /\ conf.runChannel
                   THEN attempts \cup {Everyone} ELSE attempts
  /\ pc' = "notify"
  /\ UNCHANGED <<conf, id, cluster, status, result, passing, todo, history>>

\* Seeded fault: the first suite without a channel ends the loop.
DeliverUntilUnowned ==
  /\ pc = "notify"
  /\ sending # <<>>
  /\ IF conf.slack /\ Head(sending).suite \in conf.owned
       THEN attempts' = attempts \cup {Head(sending)} /\ sending' = Tail(sending)
       ELSE UNCHANGED attempts /\ sending' = <<>>
  /\ UNCHANGED <<conf, pc, id, cluster, status, result, passing, todo, pending, history>>

\* sendDeferredNotifications: a suite without a channel is passed over; a
\* message that Slack refuses is logged and not sent again.
Deliver ==
  /\ pc = "notify"
  /\ sending # <<>>
  /\ attempts' = IF conf.slack /\ Head(sending).suite \in conf.owned
                   THEN attempts \cup {Head(sending)} ELSE attempts
  /\ sending' = Tail(sending)
  /\ UNCHANGED <<conf, pc, id, cluster, status, result, passing, todo, pending, history>>

Reported ==
  /\ pc = "notify"
  /\ sending = <<>>
  /\ pc' = AfterReport
  /\ UNCHANGED <<conf, id, cluster, status, result, passing, todo, queue, history>>

\* Seeded fault: the cluster of a failed run is left for its owner to see.
CleanupOnSuccess ==
  /\ pc = "cleanup"
  /\ ~conf.dry
  /\ cluster' = IF conf.skipDestroy \/ result.exit # "Success" THEN cluster ELSE "deleted"
  /\ pc' = "done"
  /\ UNCHANGED <<conf, id, status, result, passing, todo, queue, history>>

\* DeleteCluster, unless SkipDestroyCluster: the cluster is deleted, or an
\* error is recorded, which OCM may still return after deleting it.
Cleanup ==
  /\ pc = "cleanup"
  /\ ~conf.dry
  /\ \/ /\ conf.skipDestroy \/ ~id
        /\ UNCHANGED <<cluster, result>>
     \/ /\ ~conf.skipDestroy /\ id /\ cluster = "live"
        /\ cluster' = "deleted"
        /\ UNCHANGED result
     \/ /\ ~conf.skipDestroy /\ id
        /\ cluster' \in {cluster, IF cluster = "live" THEN "deleted" ELSE cluster}
        /\ result' = [result EXCEPT !.errors = @ \cup {"delete"}]
  /\ pc' = "done"
  /\ UNCHANGED <<conf, id, status, passing, todo, queue, history>>

\* What these steps come to in a dry run.
DryStep ==
  /\ conf.dry
  /\ \/ pc = "post-process" /\ pc' = "report"
     \/ pc = "report" /\ pc' = AfterReport
     \/ pc = "cleanup" /\ pc' = "done"
  /\ UNCHANGED <<conf, id, cluster, status, result, passing, todo, queue, history>>

-----------------------------------------------------------------------------
(* The environment.                                                        *)

\* CI stops the process, or a library it runs in does.
Kill ==
  /\ pc \notin {"done", "killed"}
  /\ pc' = "killed"
  /\ UNCHANGED <<conf, id, cluster, status, result, passing, todo, queue, history>>

\* OCM deletes the cluster at its expiry.
Expiry ==
  /\ cluster = "live"
  /\ cluster' = "expired"
  /\ UNCHANGED <<conf, pc, id, status, result, passing, todo, queue, history>>

-----------------------------------------------------------------------------
Init ==
  /\ conf \in Config
  /\ pc = "provision"
  /\ id = conf.given
  /\ cluster = IF conf.given THEN "live" ELSE "none"
  /\ status = "other"
  /\ result = [exit |-> "Success", testsPassed |-> FALSE,
               upgradePassed |-> FALSE, errors |-> {}]
  /\ passing = FALSE
  /\ todo = {}
  /\ pending = <<>>
  /\ sending = <<>>
  /\ attempts = {}
  /\ ran = [p \in Phases \cup {"cluster"} |-> "not run"]
  /\ failures = {}

Step ==
  \/ Obtain \/ ObtainFails \/ PrepareFails \/ Execute
  \/ (\E s \in Suites : RunSuite(s)) \/ PhaseBreaks
  \/ InstallPhaseEnds \/ Upgrade \/ UpgradeFails \/ UpgradePhaseEnds \/ SetVerdict
  \/ PostProcess \/ Extend \/ Report \/ Deliver \/ Reported \/ Cleanup \/ DryStep

Next == Step \/ Kill \/ Expiry

Spec == Init /\ [][Next]_vars

-----------------------------------------------------------------------------
(* Properties.                                                             *)

PCs == {"provision", "prepare", "install phase", "upgrade phase", "upgrade",
        "verdict", "post-process", "extend", "report", "notify", "cleanup",
        "done", "killed"}

\* Type correctness of the run's variables and of its cluster's record.
TypeOK ==
  /\ conf \in Config
  /\ pc \in PCs
  /\ id \in BOOLEAN
  /\ cluster \in {"none", "live", "deleted", "expired"}
  /\ status \in {"other", "completed-passing", "completed-failing", "completed-error"}
  /\ result \in [exit : {"Success", "Failure"}, testsPassed : BOOLEAN,
                 upgradePassed : BOOLEAN, errors : SUBSET ErrorKinds]
  /\ passing \in BOOLEAN
  /\ todo \subseteq Suites
  /\ pending \in Seq(Notice)
  /\ sending \in Seq(Notice)
  /\ attempts \subseteq Notice \cup {Everyone}
  /\ ran \in [Phases \cup {"cluster"} -> Outcome]
  /\ failures \subseteq Notice

\* Exit code 0 is earned: the install phase ran and passed, and so did all that
\* an upgrade was asked to do (Execute, runUpgrade, RunTests).
SuccessIsEarned ==
  pc = "done" /\ result.exit = "Success" =>
    /\ ran["install"] = "passed"
    /\ conf.upgrade => /\ ran["cluster"] = "passed"
                       /\ conf.post => ran["upgrade"] = "passed"

\* The phase whose verdict the cluster's Status tag ought to carry.
LastPhase == IF ran["upgrade"] # "not run" THEN "upgrade" ELSE "install"

\* The tag left on the cluster is the verdict of the last test phase that ran:
\* UpdateClusterProperties sees Passing as that phase, and no other, set it.
TagFollowsLastPhase ==
  pc \in {"extend", "report", "notify", "cleanup", "done"} /\ status # "other" =>
    (status = "completed-passing" <=> ran[LastPhase] = "passed")

\* The owner of every image that failed is sent a message, if Slack is on and
\* the suite names a channel, whatever failed before or after it: between the
\* ginkgo run and Report no notification is lost.
OwnersTold ==
  pc \in {"cleanup", "done"} /\ ~conf.dry /\ conf.slack =>
    \A n \in Notice : n.suite \in conf.owned /\ n \in failures => n \in attempts

\* A run that exits with 0 alarms nobody, on whichever channel.
NoFalseAlarm ==
  pc = "done" /\ result.exit = "Success" => attempts = {}

\* What outlives the run: its cluster is live after the run only if it was to
\* be kept, was never made ready, or its deletion failed and that is on record.
NothingElseLeftBehind ==
  pc = "done" /\ cluster = "live" =>
    \/ conf.skipDestroy \/ conf.dry
    \/ ~Tested
    \/ "delete" \in result.errors

\* A run in which all that was run passed exits with 0 ("Toggle on/off running
\* pre upgrade tests", config.go).
NothingFailedMeansSuccess ==
  pc = "done" /\ ~conf.dry /\ Tested /\ (\A p \in DOMAIN ran : ran[p] # "failed")
    => result.exit = "Success"

\* The stage of orchestrator.Orchestrator that each step belongs to.
Stage ==
  CASE pc \in {"provision", "prepare"} -> "new"
    [] pc \in {"install phase", "upgrade phase", "upgrade", "verdict"} -> "provisioned"
    [] pc = "post-process" -> "executed"
    [] pc \in {"extend", "report", "notify"} -> IF Tested THEN "processed" ELSE "failed"
    [] pc = "cleanup" -> "reported"
    [] OTHER -> "over"

Abstract == INSTANCE Orchestrator WITH
  stage <- Stage, exit <- IF pc = "killed" THEN "Killed" ELSE result.exit,
  cluster <- cluster

\* RunTests keeps what the Orchestrator interface promises: the order of its
\* steps, an exit code that Execute alone decides, and no deletion of the
\* cluster before the report.
Implements == Abstract!Spec

=============================================================================
