------------------------------- MODULE KrknRun -------------------------------
(***************************************************************************)
(* A chaos run (osde2e krkn-ai): the KrknAI orchestrator and the command   *)
(* that drives it.  The cluster is given.  The run sees to it that the     *)
(* cluster lives long enough, lets a container look for targets, completes *)
(* the configuration the container wrote, lets the container disturb the   *)
(* cluster, gives back the lifetime it took, and then analyses, gathers,   *)
(* reports and cleans up.                                                  *)
(*                                                                         *)
(* OCM deletes the cluster at its expiry whatever the run is doing.  Time  *)
(* passes between any two steps; one unit of it is as good as another.     *)
(***************************************************************************)
EXTENDS Naturals

CONSTANTS
  Parameters,       \* values of KrknAI.Generations and KrknAI.Population
  PerScenario,      \* krknTimePerScenario
  DefaultDuration,  \* prometheus.DefaultPrometheusTokenDuration
  Buffer,           \* krknClusterExpiryBuffer
  Grace,            \* krknPostRunClusterGrace
  GatherLimit,      \* the 30 minutes of RunMustGather
  Expiries,         \* when the cluster expires as the run starts; 0: never
  Horizon           \* bound: the clock stops here

ASSUME ParametersAssumption == Parameters \subseteq Nat
ASSUME TimesAssumption ==
  /\ PerScenario \in Nat /\ DefaultDuration \in Nat
  /\ Buffer \in Nat \ {0} /\ Grace \in Nat \ {0}
  /\ GatherLimit \in Nat /\ Expiries \subseteq Nat /\ Horizon \in Nat

Config == [
  dry         : BOOLEAN,     \* DryRun
  prod        : BOOLEAN,     \* the provider's environment is production
  analyse     : BOOLEAN,     \* LogAnalysis.EnableAnalysis
  skipGather  : BOOLEAN,     \* SkipMustGather
  skipDestroy : BOOLEAN,     \* Cluster.SkipDestroyCluster
  generations : Parameters,
  population  : Parameters]

VARIABLES
  conf,     \* the configuration, fixed at the start
  pc,       \* the step of the run
  now,      \* the time
  cluster,  \* the cluster in OCM
  expiry,   \* its ExpirationTimestamp; the zero time if it does not expire
  wanted,   \* the expiration the request in progress asks for; 0 without one
  extended, \* krknExtendedClusterExpiry
  began,    \* when the must-gather in progress began; 0 without one
  exit,     \* Result.ExitCode
  passing,  \* config.Cluster.Passing
  errors,   \* Result.Errors
  complete, \* history: the steps of the chaos that were completed
  checked,  \* history: when the lifetime was checked
  ensured,  \* history: it was found, or made, long enough
  ended,    \* history: when the chaos ended
  returned, \* history: the lifetime was given back
  original, \* history: the expiry the run found
  unsure    \* history: OCM left a request unconfirmed

history == <<complete, checked, ensured, ended, returned, original, unsure>>
lifetime == <<expiry, wanted, extended, checked, ensured, ended, returned, unsure>>
verdict == <<exit, passing, errors>>
vars == <<conf, pc, now, cluster, expiry, wanted, extended, began, verdict, history>>

ErrorKinds == {"gather", "delete"}
ChaosSteps == {"discover", "update", "run"}

\* krknPrometheusTokenDuration.
Duration ==
  IF conf.generations = 0 \/ conf.population = 0 THEN DefaultDuration
  ELSE conf.generations * conf.population * PerScenario

\* Seeded fault: the buffer is left out.
BareRunTime == Duration

\* How long ensureClusterExpiryForKrknRun wants the cluster to live.
RunTime == Duration + Buffer

-----------------------------------------------------------------------------
(* Before the chaos.                                                       *)

PreProcess ==
  /\ pc = "preprocess" /\ pc' = "provision"
  /\ UNCHANGED <<conf, now, cluster, began, verdict, complete, original, lifetime>>

\* OCM knows the cluster, be it that it is being deleted by now.
Provision ==
  /\ pc = "provision" /\ pc' = "execute"
  /\ UNCHANGED <<conf, now, cluster, began, verdict, complete, original, lifetime>>

\* The command returns Failure and nothing of what follows is done.
Rejected ==
  /\ pc \in {"preprocess", "provision"}
  /\ pc' = "failed" /\ exit' = "Failure"
  /\ UNCHANGED <<conf, now, cluster, began, passing, errors, complete, original, lifetime>>

Return ==
  /\ pc = "failed" /\ pc' = "over"
  /\ UNCHANGED <<conf, now, cluster, began, verdict, complete, original, lifetime>>

\* What follows Execute.
AfterExecute == IF conf.analyse THEN "analyse" ELSE "gather"

\* Execute takes the run for passed until it fails.
Execute ==
  /\ pc = "execute"
  /\ passing' = TRUE
  /\ pc' = IF conf.dry THEN AfterExecute ELSE "check"
  /\ UNCHANGED <<conf, now, cluster, began, exit, errors, complete, original, lifetime>>

-----------------------------------------------------------------------------
(* The cluster's lifetime.                                                 *)

\* ensureClusterExpiryForKrknRun: a cluster that lives long enough is left
\* alone.  One without an expiry does not: the time until year 1 is negative.
CheckExpiry ==
  /\ pc = "check"
  /\ checked' = now
  /\ IF expiry >= now + RunTime
     THEN pc' = "discover" /\ ensured' = TRUE /\ UNCHANGED wanted
     ELSE pc' = "extend" /\ wanted' = now + RunTime /\ UNCHANGED ensured
  /\ UNCHANGED <<conf, now, cluster, began, verdict, complete, original, expiry,
                 extended, ended, returned, unsure>>

\* The cluster cannot be fetched; the run goes on with a warning.
CheckFails ==
  /\ pc = "check" /\ pc' = "discover"
  /\ UNCHANGED <<conf, now, cluster, began, verdict, complete, original, lifetime>>

\* OCMProvider.Expire is confirmed.  In production it does nothing.
Expire ==
  IF conf.prod THEN UNCHANGED expiry
  ELSE cluster = "live" /\ expiry' = wanted

\* It fails, or its answer is lost.
ExpireUnconfirmed ==
  /\ ~conf.prod
  /\ unsure' = TRUE
  /\ UNCHANGED expiry \/ (cluster = "live" /\ expiry' = wanted)

\* Only a confirmed extension will be given back.
Extend ==
  /\ pc = "extend" /\ pc' = "discover" /\ wanted' = 0
  /\ \/ Expire /\ extended' = TRUE /\ ensured' = TRUE /\ UNCHANGED unsure
     \/ ExpireUnconfirmed /\ UNCHANGED <<extended, ensured>>
  /\ UNCHANGED <<conf, now, cluster, began, verdict, complete, original, checked,
                 ended, returned>>

\* restoreClusterExpiryAfterKrknRun, which Execute defers: the cluster is left
\* its grace, counted from here.
GiveBack ==
  /\ pc = "give back"
  /\ ended' = now
  /\ IF extended THEN pc' = "restore" /\ wanted' = now + Grace
     ELSE pc' = AfterExecute /\ UNCHANGED wanted
  /\ UNCHANGED <<conf, now, cluster, began, verdict, complete, original, expiry,
                 extended, ensured, checked, returned, unsure>>

\* Seeded fault: the cluster is not left its grace.
RestoreWithoutGrace ==
  /\ pc = "restore" /\ pc' = AfterExecute /\ wanted' = 0
  /\ IF conf.prod THEN UNCHANGED expiry ELSE cluster = "live" /\ expiry' = now
  /\ returned' = TRUE
  /\ UNCHANGED <<conf, now, cluster, began, verdict, complete, original, extended,
                 ensured, checked, ended, unsure>>

Restore ==
  /\ pc = "restore" /\ pc' = AfterExecute /\ wanted' = 0
  /\ \/ Expire /\ returned' = TRUE /\ UNCHANGED unsure
     \/ ExpireUnconfirmed /\ UNCHANGED returned
  /\ UNCHANGED <<conf, now, cluster, began, verdict, complete, original, extended,
                 ensured, checked, ended>>

-----------------------------------------------------------------------------
(* The chaos.                                                              *)

\* runKrknContainer succeeds: the container looks for targets, or disturbs the
\* cluster, for as long as it takes.
Container ==
  /\ \/ pc = "discover" /\ pc' = "update"
     \/ pc = "run" /\ pc' = "give back"
  /\ complete' = complete \cup {pc}
  /\ UNCHANGED <<conf, now, cluster, began, verdict, original, lifetime>>

\* updateKrknConfig finds what the first container wrote and completes it.
UpdateConfig ==
  /\ pc = "update" /\ pc' = "run"
  /\ complete' = complete \cup {pc}
  /\ UNCHANGED <<conf, now, cluster, began, verdict, original, lifetime>>

\* Seeded fault: a failed step leaves the lifetime as it is.
ChaosFailsForGood ==
  /\ pc \in ChaosSteps
  /\ exit' = "Failure" /\ passing' = FALSE
  /\ pc' = AfterExecute
  /\ UNCHANGED <<conf, now, cluster, began, errors, complete, original, lifetime>>

\* Seeded fault: a failed step is not copied to Passing.
ChaosFailsUnnoticed ==
  /\ pc \in ChaosSteps
  /\ exit' = "Failure"
  /\ pc' = "give back"
  /\ UNCHANGED <<conf, now, cluster, began, passing, errors, complete, original, lifetime>>

\* handleExecutionError: the first error ends Execute.
ChaosFails ==
  /\ pc \in ChaosSteps
  /\ exit' = "Failure" /\ passing' = FALSE
  /\ pc' = "give back"
  /\ UNCHANGED <<conf, now, cluster, began, errors, complete, original, lifetime>>

-----------------------------------------------------------------------------
(* After the chaos.  No error of these changes the exit code.              *)

\* AnalyzeLogs, whether or not the run failed; the analysis may fail.
AnalyzeLogs ==
  /\ pc = "analyse" /\ pc' = "gather"
  /\ UNCHANGED <<conf, now, cluster, began, verdict, complete, original, lifetime>>

\* PostProcessCluster: must-gather, unless it is not to be made or there is no oc.
Gather ==
  /\ pc = "gather"
  /\ \/ pc' = "report" /\ UNCHANGED began
     \/ ~conf.dry /\ ~conf.skipGather /\ pc' = "gathering" /\ began' = now
  /\ UNCHANGED <<conf, now, cluster, verdict, complete, original, lifetime>>

Gathered ==
  /\ pc = "gathering" /\ pc' = "report"
  /\ errors' \in {errors, errors \cup {"gather"}}
  /\ began' = 0
  /\ UNCHANGED <<conf, now, cluster, exit, passing, complete, original, lifetime>>

Report ==
  /\ pc = "report" /\ pc' = "cleanup"
  /\ UNCHANGED <<conf, now, cluster, began, verdict, complete, original, lifetime>>

\* Seeded fault: a cluster that is not deleted fails the run.
CleanupJudges ==
  /\ pc = "cleanup" /\ pc' = "over"
  /\ ~conf.skipDestroy /\ exit' = "Failure" /\ errors' = errors \cup {"delete"}
  /\ UNCHANGED <<conf, now, cluster, began, passing, complete, original, lifetime>>

\* DeleteCluster, in a dry run, too.
Cleanup ==
  /\ pc = "cleanup" /\ pc' = "over"
  /\ \/ conf.skipDestroy /\ UNCHANGED <<cluster, errors>>
     \/ ~conf.skipDestroy /\ cluster = "live" /\ cluster' = "deleted" /\ UNCHANGED errors
     \/ /\ ~conf.skipDestroy
        /\ cluster' \in {cluster, IF cluster = "live" THEN "deleted" ELSE cluster}
        /\ errors' = errors \cup {"delete"}
  /\ UNCHANGED <<conf, now, began, exit, passing, complete, original, lifetime>>

-----------------------------------------------------------------------------
(* The environment.                                                        *)

\* Must-gather is cut off at its limit; no other step is.
Tick ==
  /\ pc \notin {"over", "killed"} /\ now < Horizon
  /\ pc = "gathering" => now < began + GatherLimit
  /\ now' = now + 1
  /\ UNCHANGED <<conf, pc, cluster, began, verdict, complete, original, lifetime>>

\* OCM deletes the cluster at its expiry, or some time after.
Expiry ==
  /\ cluster = "live" /\ expiry # 0 /\ now >= expiry
  /\ cluster' = "expired"
  /\ UNCHANGED <<conf, pc, now, began, verdict, complete, original, lifetime>>

Kill ==
  /\ pc \notin {"over", "killed"} /\ pc' = "killed"
  /\ UNCHANGED <<conf, now, cluster, began, verdict, complete, original, lifetime>>

-----------------------------------------------------------------------------
Init ==
  /\ conf \in Config
  /\ pc = "preprocess" /\ now = 0 /\ cluster = "live"
  /\ expiry \in Expiries /\ original = expiry
  /\ wanted = 0 /\ extended = FALSE /\ began = 0
  /\ exit = "Success" /\ passing = FALSE /\ errors = {}
  /\ complete = {} /\ checked = 0 /\ ensured = FALSE /\ ended = 0 /\ returned = FALSE
  /\ unsure = FALSE

Run ==
  \/ PreProcess \/ Provision \/ Rejected \/ Return \/ Execute
  \/ CheckExpiry \/ CheckFails \/ Extend \/ GiveBack \/ Restore
  \/ Container \/ UpdateConfig \/ ChaosFails
  \/ AnalyzeLogs \/ Gather \/ Gathered \/ Report \/ Cleanup

Next == Run \/ Tick \/ Expiry \/ Kill

Spec == Init /\ [][Next]_vars

-----------------------------------------------------------------------------
(* Properties.                                                             *)

PCs == {"preprocess", "provision", "failed", "execute", "check", "extend",
        "give back", "restore", "analyse", "gather", "gathering", "report",
        "cleanup", "over", "killed"} \cup ChaosSteps

\* The variables hold what the run and OCM put in them.
TypeOK ==
  /\ conf \in Config
  /\ pc \in PCs
  /\ now \in Nat /\ expiry \in Nat /\ wanted \in Nat /\ began \in Nat
  /\ cluster \in {"live", "deleted", "expired"}
  /\ extended \in BOOLEAN
  /\ exit \in {"Success", "Failure"} /\ passing \in BOOLEAN
  /\ errors \subseteq ErrorKinds
  /\ complete \subseteq ChaosSteps
  /\ checked \in Nat /\ ended \in Nat /\ original \in Nat
  /\ ensured \in BOOLEAN /\ returned \in BOOLEAN /\ unsure \in BOOLEAN

\* Once the lifetime has been found sufficient, or its extension was confirmed,
\* OCM does not take the cluster away from under the chaos for the time that the
\* parameters stand for and the buffer, whenever in between the time passed
\* (ensureClusterExpiryForKrknRun).  Production is left out: nothing is extended.
CoveredForBudget ==
  ensured /\ ~conf.prod /\ pc \in ChaosSteps \cup {"give back"}
    /\ now < checked + Duration + Buffer
  => cluster # "expired"

\* Where the lifetime was given back, must-gather finds the cluster alive to its
\* end, if the steps before it left as much of the grace as its limit: shortening
\* the lifetime does not cut off what the run itself has still to do.
GatherInTime ==
  returned /\ ~conf.prod /\ pc = "gathering"
    /\ began + GatherLimit < ended + Grace
  => cluster # "expired"

\* A chaos run that ends, on whichever path, leaves the cluster the expiry that
\* it found, or its grace from the end of the chaos; only a request that OCM did
\* not confirm may leave another (restoreClusterExpiryAfterKrknRun).
LifeReturned ==
  pc \in {"analyse", "gather", "gathering", "report", "cleanup", "over"} /\ ~unsure =>
    expiry = original \/ (returned /\ expiry = ended + Grace)

\* Exit code 0 means that every step of the chaos was completed, and the verdict
\* other code reads off config.Cluster.Passing is the same.
SuccessIsEarned ==
  pc \in {"give back", "restore", "analyse", "gather", "gathering", "report", "cleanup"} =>
    /\ exit = "Success" => conf.dry \/ complete = ChaosSteps
    /\ passing <=> exit = "Success"

\* The stage of orchestrator.Orchestrator that each step belongs to.
Stage ==
  CASE pc \in {"preprocess", "provision"} -> "new"
    [] pc = "failed" -> "failed"
    [] pc \in {"execute", "check", "extend", "give back", "restore"} \cup ChaosSteps -> "provisioned"
    [] pc \in {"analyse", "gather", "gathering"} -> "executed"
    [] pc = "report" -> "processed"
    [] pc = "cleanup" -> "reported"
    [] OTHER -> "over"

\* The exit code counts once Execute has returned.
ExitCode ==
  IF pc = "killed" THEN "Killed"
  ELSE IF Stage = "provisioned" THEN "Success" ELSE exit

Abstract == INSTANCE Orchestrator WITH
  stage <- Stage, exit <- ExitCode, cluster <- cluster

\* The command keeps what the Orchestrator interface promises, as RunTests does:
\* the order of its steps, an exit code that Execute alone decides, and no
\* deletion of the cluster before the report.
Implements == Abstract!Spec
=============================================================================
