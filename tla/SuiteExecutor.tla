---------------------------- MODULE SuiteExecutor ----------------------------
(* The ad hoc test images of one phase (pkg/e2e/adhoctestimages) and the       *)
(* executor that runs them (pkg/common/executor): for each image a namespace,  *)
(* a job of one pod with two containers, a wait for the suite's container, the *)
(* artifacts copied out of the pod through the other one, the verdict read off *)
(* the JUnit files on disk, and the namespace deleted.  Kubernetes runs beside *)
(* the executor: images fail to be pulled, suites hang, the job's own deadline *)
(* and the deletion of the namespace stop pods, requests fail.                 *)

CONSTANTS
  Images,   \* the test images of the phase
  NoImage,  \* none of them
  Dirs,     \* artifact directories
  Dir,      \* the directory named after an image's name and tag
  Names     \* the names of the files a suite may write

ASSUME ImagesAssumption == NoImage \notin Images
ASSUME DirAssumption == Dir \in [Images -> Dirs]

\* What a file ending in .xml is to the JUnit parser.
Kinds == {"none", "passing", "failing", "garbage"}
Files == [Names -> Kinds]

VARIABLES
  skipCleanup, \* Cluster.SkipDestroyCluster
  pc, at,      \* the executor's step, and the image it is at
  todo,        \* the table's entries still to run
  outcome,     \* the verdict on each image
  disk,        \* the artifact directories
  ns,          \* the namespace of each image
  halfMade,    \* namespaces whose service account or role binding failed
  refused,     \* namespaces whose deletion failed
  suite,       \* the e2e-suite container of each image's pod
  keeper,      \* the pause-for-artifacts container
  doomed,      \* pods that Kubernetes is stopping
  wrote, code  \* what the suite left in its volume, and its exit code

executor == <<pc, at, todo, outcome>>
pods == <<suite, keeper, doomed, wrote, code>>
leftovers == <<halfMade, refused>>
vars == <<skipCleanup, executor, disk, ns, leftovers, pods>>

Goto(step) == pc' = step /\ UNCHANGED <<at, todo, outcome>>

\* The current image is judged; the deferred deletion of its project is next,
\* or, before there is anything to delete, the next image.
Judge(verdict, step) ==
  /\ outcome' = [outcome EXCEPT ![at] = verdict]
  /\ pc' = step
  /\ UNCHANGED <<at, todo>>

OutputDirOfAll(i) == CHOOSE d \in Dirs : TRUE
OutputDir(i) == Dir[i]

-----------------------------------------------------------------------------
(* The executor.                                                           *)

\* The next entry of the table: Execute makes the output directory and the
\* project, or fails at that.
Begin(i) ==
  /\ pc = "next" /\ i \in todo
  /\ at' = i /\ todo' = todo \ {i}
  /\ \/ /\ ns' = [ns EXCEPT ![i] = "live"]
        /\ pc' = "set up" /\ UNCHANGED outcome
     \/ /\ outcome' = [outcome EXCEPT ![i] = "failed"]
        /\ UNCHANGED <<pc, ns>>
  /\ UNCHANGED <<skipCleanup, disk, leftovers, pods>>

\* The rest of setupProject.  A failure here returns before the deletion of the
\* project has been deferred.
SetUp ==
  /\ pc = "set up"
  /\ \/ Goto("create job") /\ UNCHANGED halfMade
     \/ Judge("failed", "next") /\ halfMade' = halfMade \cup {at}
  /\ UNCHANGED <<skipCleanup, disk, ns, refused, pods>>

CreateJobBeforeDefer ==
  /\ pc = "create job"
  /\ \/ Goto("wait") /\ suite' = [suite EXCEPT ![at] = "no pod"]
     \/ Judge("failed", "next") /\ UNCHANGED suite
  /\ UNCHANGED <<skipCleanup, disk, ns, leftovers, keeper, doomed, wrote, code>>

CreateJob ==
  /\ pc = "create job"
  /\ \/ Goto("wait") /\ suite' = [suite EXCEPT ![at] = "no pod"]
     \/ Judge("failed", "delete") /\ UNCHANGED suite
  /\ UNCHANGED <<skipCleanup, disk, ns, leftovers, keeper, doomed, wrote, code>>

\* A poll of waitForSuite that finds the suite's container terminated, however.
SuiteEnds ==
  /\ pc = "wait" /\ suite[at] = "ended"
  /\ Goto("logs")
  /\ UNCHANGED <<skipCleanup, disk, ns, leftovers, pods>>

\* A poll that finds the image cannot be pulled; the first such answer counts.
PullError ==
  /\ pc = "wait" /\ suite[at] = "unpullable"
  /\ Judge("failed", "delete")
  /\ UNCHANGED <<skipCleanup, disk, ns, leftovers, pods>>

\* The timeout of waitForSuite; until it, polls that find no pod, no status of
\* the container or the container at work change nothing.
WaitTimesOutWithPod ==
  /\ pc = "wait" /\ suite[at] \notin {"no pod", "gone"}
  /\ Judge("failed", "delete")
  /\ UNCHANGED <<skipCleanup, disk, ns, leftovers, pods>>
WaitTimesOut ==
  /\ pc = "wait"
  /\ Judge("failed", "delete")
  /\ UNCHANGED <<skipCleanup, disk, ns, leftovers, pods>>

\* fetchPodLogs: the pod is looked up again and must still be there.
FetchLogs ==
  /\ pc = "logs"
  /\ \/ suite[at] = "ended" /\ Goto("files")
     \/ Judge("failed", "delete")
  /\ UNCHANGED <<skipCleanup, disk, ns, leftovers, pods>>

\* What untarring all of the suite's files over a directory makes of it.
Untarred(old, new) == [n \in Names |-> IF new[n] = "none" THEN old[n] ELSE new[n]]

\* ... and what a stream that breaks off may: some files, the last one cut.
Partly(old, new) ==
  {f \in Files : \A n \in Names :
     f[n] \in IF new[n] = "none" THEN {old[n]} ELSE {old[n], new[n], "garbage"}}

\* fetchArtifactFiles: tar, run in the other container, which must be running.
FetchFilesAnyway ==
  /\ pc = "files"
  /\ \/ \E f \in Partly(disk[OutputDir(at)], wrote[at]) :
          disk' = [disk EXCEPT ![OutputDir(at)] = f]
     \/ UNCHANGED disk
  /\ Goto("results")
  /\ UNCHANGED <<skipCleanup, ns, leftovers, pods>>

FetchFiles ==
  /\ pc = "files"
  /\ \/ /\ suite[at] = "ended" /\ keeper[at] = "running"
        /\ disk' = [disk EXCEPT ![OutputDir(at)] = Untarred(@, wrote[at])]
        /\ Goto("results")
     \/ /\ \E f \in Partly(disk[OutputDir(at)], wrote[at]) :
             disk' = [disk EXCEPT ![OutputDir(at)] = f]
        /\ Judge("failed", "delete")
  /\ UNCHANGED <<skipCleanup, ns, leftovers, pods>>

\* processJUnitResults reads every .xml file under the directory and passes over
\* those it cannot parse; the table's entry fails if a test in them does.
Failing(i) == \E n \in Names : disk[OutputDir(i)][n] = "failing"
Results ==
  /\ pc = "results"
  /\ Judge(IF Failing(at) THEN "failed" ELSE "passed", "delete")
  /\ UNCHANGED <<skipCleanup, disk, ns, leftovers, pods>>

\* The deferred deletion of the project: an error is only logged, and the
\* namespace takes its time to go.
Delete ==
  /\ pc = "delete"
  /\ \/ skipCleanup /\ UNCHANGED <<ns, refused>>
     \/ ~skipCleanup /\ ns' = [ns EXCEPT ![at] = "terminating"] /\ UNCHANGED refused
     \/ ~skipCleanup /\ refused' = refused \cup {at} /\ UNCHANGED ns
  /\ Goto("next")
  /\ UNCHANGED <<skipCleanup, disk, halfMade, pods>>

\* The table is through.
AllRun ==
  /\ pc = "next" /\ todo = {}
  /\ pc' = "done" /\ at' = NoImage /\ UNCHANGED <<todo, outcome>>
  /\ UNCHANGED <<skipCleanup, disk, ns, leftovers, pods>>

-----------------------------------------------------------------------------
(* Kubernetes.                                                             *)

Others == UNCHANGED <<skipCleanup, executor, disk, leftovers>>
Pod(i) == suite[i] \notin {"none", "no pod", "gone"}

\* The job's pod appears, its images are pulled, its containers start.
PodAppears(i) ==
  /\ suite[i] = "no pod" /\ i \notin doomed
  /\ suite' = [suite EXCEPT ![i] = "waiting"]
  /\ UNCHANGED <<ns, keeper, doomed, wrote, code>> /\ Others

Pull(i) ==
  /\ i \notin doomed
  /\ \/ /\ suite[i] = "waiting"
        /\ \E s \in {"unpullable", "running"} : suite' = [suite EXCEPT ![i] = s]
     \/ suite[i] = "unpullable" /\ suite' = [suite EXCEPT ![i] = "waiting"]
  /\ UNCHANGED <<ns, keeper, doomed, wrote, code>> /\ Others

KeeperStarts(i) ==
  /\ Pod(i) /\ i \notin doomed /\ keeper[i] = "waiting"
  /\ keeper' = [keeper EXCEPT ![i] = "running"]
  /\ UNCHANGED <<ns, suite, doomed, wrote, code>> /\ Others

\* The suite comes to an end of its own, or is killed with its pod.
SuiteExits(i) ==
  /\ suite[i] = "running"
  /\ suite' = [suite EXCEPT ![i] = "ended"]
  /\ \E f \in Files : wrote' = [wrote EXCEPT ![i] = f]
  /\ \E c \in IF i \in doomed THEN {"zero", "nonzero", "killed"} ELSE {"zero", "nonzero"} :
       code' = [code EXCEPT ![i] = c]
  /\ UNCHANGED <<ns, keeper, doomed>> /\ Others

\* The job's ActiveDeadlineSeconds, as long as the executor's own timeout, are
\* over.  The clocks of the two start independently.
NoDeadline(i) == FALSE /\ UNCHANGED vars
Deadline(i) ==
  /\ suite[i] \notin {"none", "gone"} /\ i \notin doomed
  /\ doomed' = doomed \cup {i}
  /\ UNCHANGED <<ns, suite, keeper, wrote, code>> /\ Others

\* A namespace that is being deleted takes its pods with it.
Terminate(i) ==
  /\ ns[i] = "terminating"
  /\ \/ /\ suite[i] \notin {"none", "gone"} /\ i \notin doomed
        /\ doomed' = doomed \cup {i} /\ UNCHANGED ns
     \/ /\ suite[i] \in {"none", "gone"}
        /\ ns' = [ns EXCEPT ![i] = "gone"] /\ UNCHANGED doomed
  /\ UNCHANGED <<suite, keeper, wrote, code>> /\ Others

\* A doomed pod is removed once its suite has ended or was never started.
PodGoes(i) ==
  /\ i \in doomed /\ suite[i] \notin {"none", "running", "gone"}
  /\ suite' = [suite EXCEPT ![i] = "gone"]
  /\ keeper' = [keeper EXCEPT ![i] = "over"]
  /\ UNCHANGED <<ns, doomed, wrote, code>> /\ Others

-----------------------------------------------------------------------------

Init ==
  /\ skipCleanup \in BOOLEAN
  /\ pc = "next" /\ at = NoImage /\ todo = Images
  /\ outcome = [i \in Images |-> "pending"]
  /\ disk = [d \in Dirs |-> [n \in Names |-> "none"]]
  /\ ns = [i \in Images |-> "none"]
  /\ halfMade = {} /\ refused = {} /\ doomed = {}
  /\ suite = [i \in Images |-> "none"]
  /\ keeper = [i \in Images |-> "waiting"]
  /\ wrote = [i \in Images |-> [n \in Names |-> "none"]]
  /\ code = [i \in Images |-> "none"]

Execute ==
  \/ \E i \in Images : Begin(i)
  \/ SetUp \/ CreateJob \/ SuiteEnds \/ PullError \/ FetchLogs \/ FetchFiles
  \/ Results \/ Delete \/ AllRun

Stops(i) == Deadline(i) \/ Terminate(i) \/ PodGoes(i) \/ (i \in doomed /\ SuiteExits(i))

Kubernetes(i) == PodAppears(i) \/ Pull(i) \/ KeeperStarts(i) \/ SuiteExits(i) \/ Stops(i)

Next == Execute \/ WaitTimesOut \/ \E i \in Images : Kubernetes(i)

Spec == Init /\ [][Next]_vars

\* The executor's requests return and its poll has a timeout; of Kubernetes only
\* that it keeps deadlines and finishes deletions.
FairSpec ==
  /\ Spec /\ WF_vars(Execute) /\ WF_vars(WaitTimesOut)
  /\ \A i \in Images : WF_vars(Stops(i))

-----------------------------------------------------------------------------
(* Properties.                                                             *)

PCs == {"next", "set up", "create job", "wait", "logs", "files", "results",
        "delete", "done"}

\* The variables hold what the executor and Kubernetes put in them.
TypeOK ==
  /\ skipCleanup \in BOOLEAN
  /\ pc \in PCs
  /\ at \in Images \cup {NoImage}
  /\ todo \subseteq Images
  /\ outcome \in [Images -> {"pending", "passed", "failed"}]
  /\ disk \in [Dirs -> Files]
  /\ ns \in [Images -> {"none", "live", "terminating", "gone"}]
  /\ halfMade \subseteq Images /\ refused \subseteq Images /\ doomed \subseteq Images
  /\ suite \in [Images -> {"none", "no pod", "waiting", "unpullable", "running",
                           "ended", "gone"}]
  /\ keeper \in [Images -> {"waiting", "running", "over"}]
  /\ wrote \in [Images -> Files]
  /\ code \in [Images -> {"none", "zero", "nonzero", "killed"}]

\* An image passes only if its suite came to an end and nothing it reported
\* failed, whenever the deadline, the wait's timeout and the deletion of pods
\* strike.
PassIsEarned ==
  \A i \in Images : outcome[i] = "passed" =>
    /\ code[i] # "none"
    /\ \A n \in Names : wrote[i][n] # "failing"

\* An image is judged on its own reports: when it gets as far as its results, no
\* file of another image, run before it or beside it, is in its directory.
JudgedOnItsOwn ==
  pc = "results" => disk[OutputDir(at)] = wrote[at]

\* Unless the cluster is kept, a namespace outlives the phase only if it could
\* not be furnished or its deletion failed.
NamespacesAccountedFor ==
  pc = "done" /\ ~skipCleanup =>
    \A i \in Images : ns[i] = "live" => i \in halfMade \cup refused

\* Every image gets a verdict, be it that its pod never appears, hangs, or is
\* taken away under the executor's eyes.
EveryImageJudged == <>(pc = "done" /\ \A i \in Images : outcome[i] # "pending")

\* Nothing of a suite stays on the cluster for good, not even if the cluster and
\* the namespace are kept or the executor gave up on it.
PodsGo == \A i \in Images : <>[](suite[i] \in {"none", "gone"})

-----------------------------------------------------------------------------
(* What makes PassIsEarned and JudgedOnItsOwn inductive.                   *)

\* Images that have not got a job, and those without a file on disk.
Unstarted(i) == i \in todo \/ (i = at /\ pc \in {"set up", "create job"})
Unfetched(i) ==
  i \in todo \/ (i = at /\ pc \in {"set up", "create job", "wait", "logs", "files"})

Working == pc \notin {"next", "done"}
Over(i) == suite[i] \in {"ended", "gone"}

TypeInv == TypeOK /\ (Working => at \in Images /\ at \notin todo)

EarnedInv ==
  /\ TypeInv
  /\ \A i \in Images :
       /\ Unstarted(i) => suite[i] = "none"
       /\ code[i] # "none" => Over(i)
       /\ suite[i] = "ended" => code[i] # "none"
       /\ Unfetched(i) => outcome[i] = "pending"
  /\ pc = "results" =>
       /\ code[at] # "none"
       /\ \A n \in Names : wrote[at][n] = "failing" => disk[OutputDir(at)][n] = "failing"
  /\ PassIsEarned

OwnInv ==
  /\ EarnedInv
  /\ \A i \in Images :
       Unfetched(i) => disk[OutputDir(i)] = [n \in Names |-> "none"]
  /\ JudgedOnItsOwn
=============================================================================
