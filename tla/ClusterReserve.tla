--------------------------- MODULE ClusterReserve ---------------------------
(***************************************************************************)
(* The cluster reserve: how independent osde2e runs share the clusters     *)
(* that OCM holds.  Reserve jobs (osde2e provision --reserve) launch       *)
(* clusters marked Availability=reserved; test jobs claim one of them, or  *)
(* launch their own, provision it, test it, mark it used and delete it.    *)
(*                                                                         *)
(* Nothing synchronises the runs.  All they share is OCM's record of each  *)
(* cluster, and every write to that record is AddProperty: the property    *)
(* map of a snapshot the run took earlier, with one entry changed, sent    *)
(* back whole.                                                             *)
(*                                                                         *)
(* Of the properties the model keeps Availability and Status; an           *)
(* AddProperty of any other tag writes the snapshot back as it is.         *)
(***************************************************************************)
EXTENDS Naturals, FiniteSets

CONSTANTS
  Clusters,      \* the cluster ids OCM can hand out (bounds the launches)
  TestJobs,      \* CI slots whose runs have UseClusterReserve set
  StockJobs,     \* CI slots whose runs have Reserve set
  InitialStock,  \* clusters already waiting in the reserve
  ReserveCount,  \* const ReserveCount of clusterutil.go
  NumRetries,    \* ocm.numRetries: attempts per OCM call
  NoCluster      \* the empty cluster id

Jobs == TestJobs \cup StockJobs

ASSUME JobsAssumption == TestJobs \cap StockJobs = {}
ASSUME ClustersAssumption ==
  /\ NoCluster \notin Clusters
  /\ InitialStock \subseteq Clusters
ASSUME CountsAssumption ==
  /\ ReserveCount \in Nat \ {0}
  /\ NumRetries \in Nat \ {0}
ASSUME StockAssumption == IsFiniteSet(InitialStock) /\ IsFiniteSet(StockJobs)

VARIABLES
  ocm,     \* OCM's record of each cluster
  pc,      \* where each run is
  target,  \* the cluster the run works on: config.Cluster.ID
  snap,    \* the *spi.Cluster the next AddProperty is given
  first,   \* the *spi.Cluster that ProvisionCluster returned to Provision
  tries,   \* failed attempts of the OCM call in progress
  todo     \* tags UpdateClusterProperties has still to write

vars == <<ocm, pc, target, snap, first, tries, todo>>

-----------------------------------------------------------------------------
(* The data.                                                               *)

Availability == {"none", "reserved", "claimed", "used"}

\* Of the Status property the runs read only whether it is still the one the
\* cluster was launched with.
Status == {"provisioning", "later"}

\* "gone" stands for uninstalling and for deleted: a run can do nothing more
\* with either.
State == {"absent", "pending", "installing", "ready", "error", "gone"}

\* What AddProperty and its callers read of a *spi.Cluster.
Snapshot == [ready : BOOLEAN, avail : Availability, status : Status]
Record == [state : State, avail : Availability, status : Status,
           maker : {"nobody", "test", "stock"}]

Nothing == [ready |-> FALSE, avail |-> "none", status |-> "provisioning"]

FinalTags == {"Status", "Job", "Availability"}

\* What GetCluster returns for c.
View(c) == [ready |-> ocm[c].state = "ready", avail |-> ocm[c].avail,
            status |-> ocm[c].status]

Exists(c) == ocm[c].state \notin {"absent", "gone"}

\* Seeded fault: the search for the reserve forgets to exclude used clusters.
InReserveOrUsed == {c \in Clusters : /\ ocm[c].avail \in {"reserved", "used"}
                                     /\ ocm[c].state \in {"ready", "pending", "installing"}}

\* QueryReserve: what its search matches.
InReserve == {c \in Clusters : /\ ocm[c].avail = "reserved"
                               /\ ocm[c].state \in {"ready", "pending", "installing"}}

Reserved(s) == {c \in InReserve : ocm[c].state = s}

\* The cluster the loop over the query's answer settles on: the first ready
\* one, else the last one installing.  OCM's order is not known.
Candidates ==
  IF Reserved("ready") # {} THEN Reserved("ready") ELSE Reserved("installing")

\* Seeded fault: every launched cluster is put up for claiming.
NewClusterAlwaysReserved(j) ==
  [state |-> "pending", avail |-> "reserved", status |-> "provisioning",
   maker |-> IF j \in StockJobs THEN "stock" ELSE "test"]

\* GenerateProperties: what a cluster launched by run j starts with.
NewCluster(j) ==
  [state  |-> "pending",
   avail  |-> IF j \in StockJobs THEN "reserved" ELSE "none",
   status |-> "provisioning",
   maker  |-> IF j \in StockJobs THEN "stock" ELSE "test"]

-----------------------------------------------------------------------------
(* Control and the calls to OCM.                                           *)

Goto(j, l) == pc' = [pc EXCEPT ![j] = l]

\* Where a run still has the snapshot in scope.
SnapshotInScope == {"claim", "tag images", "tag account", "mark waiting",
                    "mark health-check", "mark upgrade", "checking", "post",
                    "mark uninstalling"}

\* OCM applies the PATCH of run j: the whole property map is replaced.
Applied(j, body) ==
  /\ Exists(target[j])
  /\ ocm' = [ocm EXCEPT ![target[j]] =
                [@ EXCEPT !.avail = body.avail, !.status = body.status]]

\* Seeded fault: the caller's snapshot keeps its old properties.
NotMutated(j, body) ==
  snap' = [snap EXCEPT ![j] = IF pc'[j] \in SnapshotInScope THEN @ ELSE Nothing]

\* AddProperty mutates the caller's map before it sends it, whatever happens
\* to the request.
Mutated(j, body) ==
  snap' = [snap EXCEPT ![j] = IF pc'[j] \in SnapshotInScope THEN body ELSE Nothing]

\* The PATCH succeeds.
PatchAcked(j, body) ==
  /\ Applied(j, body)
  /\ Mutated(j, body)
  /\ tries' = [tries EXCEPT ![j] = 0]

\* The PATCH fails, or its answer is lost, and is tried again.
PatchRetried(j, body) ==
  /\ tries[j] + 1 < NumRetries
  /\ tries' = [tries EXCEPT ![j] = @ + 1]
  /\ Mutated(j, body)
  /\ Applied(j, body) \/ UNCHANGED ocm

\* The last attempt fails, or its answer is lost.
PatchFailed(j, body) ==
  /\ tries[j] + 1 = NumRetries
  /\ tries' = [tries EXCEPT ![j] = 0]
  /\ Mutated(j, body)
  /\ Applied(j, body) \/ UNCHANGED ocm

\* AddProperty called at from, continuing at ok or at err.
AddProperty(j, from, body, ok, err) ==
  /\ pc[j] = from
  /\ \/ Goto(j, ok) /\ PatchAcked(j, body)
     \/ UNCHANGED pc /\ PatchRetried(j, body)
     \/ Goto(j, err) /\ PatchFailed(j, body)
  /\ UNCHANGED <<target, first, todo>>

-----------------------------------------------------------------------------
(* Obtaining a cluster.                                                    *)

\* ClaimClusterFromReserve, up to the choice of a candidate.  A failed query
\* and an empty answer both mean: launch a new cluster.
QueryForClaim(j) ==
  /\ pc[j] = "idle"
  /\ j \in TestJobs
  /\ \/ \E c \in Candidates :
          /\ target' = [target EXCEPT ![j] = c]
          /\ snap' = [snap EXCEPT ![j] = View(c)]
          /\ Goto(j, "claim")
     \/ Goto(j, "launch") /\ UNCHANGED <<target, snap>>
  /\ UNCHANGED <<ocm, first, tries, todo>>

\* The candidate is close to its expiry and Expire(2h) fails.
ExtensionFails(j) ==
  /\ pc[j] = "claim"
  /\ tries[j] = 0
  /\ Goto(j, "launch")
  /\ target' = [target EXCEPT ![j] = NoCluster]
  /\ snap' = [snap EXCEPT ![j] = Nothing]
  /\ UNCHANGED <<ocm, first, tries, todo>>

\* Seeded fault: the claim writes the property map without changing it.
ClaimUnmarked(j) ==
  /\ pc[j] = "claim"
  /\ \/ /\ Goto(j, "tag images") /\ UNCHANGED target
        /\ PatchAcked(j, snap[j])
     \/ /\ Goto(j, "launch")
        /\ PatchFailed(j, snap[j])
        /\ target' = [target EXCEPT ![j] = NoCluster]
  /\ UNCHANGED <<first, todo>>

\* ClaimClusterFromReserve marks its candidate.  If that fails it reports no
\* cluster, even when OCM applied the update and only the answer was lost.
Claim(j) ==
  LET body == [snap[j] EXCEPT !.avail = "claimed"] IN
  /\ pc[j] = "claim"
  /\ \/ /\ Goto(j, "tag images") /\ UNCHANGED target
        /\ PatchAcked(j, body)
     \/ /\ UNCHANGED <<pc, target>>
        /\ PatchRetried(j, body)
     \/ /\ Goto(j, "launch")
        /\ PatchFailed(j, body)
        /\ target' = [target EXCEPT ![j] = NoCluster]
  /\ UNCHANGED <<first, todo>>

\* The two bookkeeping tags of a claim; their errors are only logged.
TagClaim(j) ==
  \/ AddProperty(j, "tag images", snap[j], "tag account", "tag account")
  \/ AddProperty(j, "tag account", snap[j], "fetch", "fetch")

\* Seeded fault: a full reserve is still topped up.
CheckReserveOffByOne(j) ==
  /\ pc[j] = "idle"
  /\ j \in StockJobs
  /\ Cardinality(InReserve) <= ReserveCount
  /\ Goto(j, "launch")
  /\ UNCHANGED <<ocm, target, snap, first, tries, todo>>

\* ProvisionCluster with Reserve set: go on only while the reserve is short.
\* (A full reserve, ErrReserveFull, or a failed query end the run unchanged.)
CheckReserve(j) ==
  /\ pc[j] = "idle"
  /\ j \in StockJobs
  /\ Cardinality(InReserve) < ReserveCount
  /\ Goto(j, "launch")
  /\ UNCHANGED <<ocm, target, snap, first, tries, todo>>

\* LaunchCluster: the POST succeeds; or OCM created the cluster but the
\* answer is lost; or it was refused.  The request is repeated as it is.
Launch(j) ==
  /\ pc[j] = "launch"
  /\ \/ \E c \in Clusters :
          /\ ocm[c].state = "absent"
          /\ ocm' = [ocm EXCEPT ![c] = NewCluster(j)]
          /\ target' = [target EXCEPT ![j] = c]
          /\ tries' = [tries EXCEPT ![j] = 0]
          /\ Goto(j, "fetch")
     \/ /\ \/ UNCHANGED ocm
           \/ \E c \in Clusters :
                /\ ocm[c].state = "absent"
                /\ ocm' = [ocm EXCEPT ![c] = NewCluster(j)]
        /\ UNCHANGED target
        /\ IF tries[j] + 1 < NumRetries
             THEN tries' = [tries EXCEPT ![j] = @ + 1] /\ UNCHANGED pc
             ELSE tries' = [tries EXCEPT ![j] = 0] /\ Goto(j, "end")
  /\ UNCHANGED <<snap, first, todo>>

\* The GetCluster that ends ProvisionCluster.
Fetch(j) ==
  /\ pc[j] = "fetch"
  /\ \/ /\ Exists(target[j])
        /\ first' = [first EXCEPT ![j] = View(target[j])]
        /\ Goto(j, "wait")
     \/ Goto(j, "end") /\ UNCHANGED first
  /\ UNCHANGED <<ocm, target, snap, tries, todo>>

-----------------------------------------------------------------------------
(* Provision, after ProvisionCluster.                                      *)

\* One iteration of WaitForOCMProvisioning's poll that finds something to
\* write; any other leaves everything as it is.
Poll(j) ==
  LET c == target[j] IN
  /\ pc[j] = "wait"
  /\ Exists(c)
  /\ snap' = [snap EXCEPT ![j] = View(c)]
  /\ \/ ocm[c].status = "provisioning" /\ Goto(j, "mark waiting")
     \/ /\ ocm[c].status # "provisioning" /\ ocm[c].state = "ready"
        /\ Goto(j, "mark health-check")
  /\ UNCHANGED <<ocm, target, first, tries, todo>>

\* The same iteration goes on with the cluster it fetched.
MarkWaiting(j) ==
  AddProperty(j, "mark waiting",
              [snap[j] EXCEPT !.status = "later"],
              IF snap[j].ready THEN "mark health-check" ELSE "wait",
              "wait")

MarkHealthCheck(j) ==
  AddProperty(j, "mark health-check",
              [snap[j] EXCEPT !.status = "later"], "ready", "wait")

\* Seeded fault: the deadline is only looked at after a successful fetch.
WaitTimeoutAfterFetch(j) ==
  /\ pc[j] = "wait"
  /\ Exists(target[j])
  /\ Goto(j, "end")
  /\ UNCHANGED <<ocm, target, snap, first, tries, todo>>

\* The install timeout: the run ends and the cluster stays behind.
WaitTimeout(j) ==
  /\ pc[j] = "wait"
  /\ Goto(j, "end")
  /\ UNCHANGED <<ocm, target, snap, first, tries, todo>>

\* Provision turns to the cluster object it got from ProvisionCluster, which
\* it fetched before the wait, to record the upgrade version.
UseFirst(j) ==
  /\ pc[j] = "ready"
  /\ snap' = [snap EXCEPT ![j] = first[j]]
  /\ first' = [first EXCEPT ![j] = Nothing]
  /\ Goto(j, "mark upgrade")
  /\ UNCHANGED <<ocm, target, tries, todo>>

MarkUpgrade(j) == AddProperty(j, "mark upgrade", snap[j], "health", "health")

\* WaitForClusterReadyPostInstall fetches the cluster, then runs its checks;
\* or the checks are skipped, or the fetch fails.
HealthFetch(j) ==
  /\ pc[j] = "health"
  /\ \/ /\ Exists(target[j])
        /\ snap' = [snap EXCEPT ![j] = View(target[j])]
        /\ Goto(j, "checking")
     \/ Goto(j, "kubeconfig") /\ UNCHANGED snap
  /\ UNCHANGED <<ocm, target, first, tries, todo>>

\* The checks pass and the cluster fetched before them is marked healthy.
MarkHealthy(j) ==
  AddProperty(j, "checking", [snap[j] EXCEPT !.status = "later"],
              "kubeconfig", "kubeconfig")

\* The checks fail: Provision only logs it.
HealthFails(j) ==
  /\ pc[j] = "checking"
  /\ tries[j] = 0
  /\ Goto(j, "kubeconfig")
  /\ snap' = [snap EXCEPT ![j] = Nothing]
  /\ UNCHANGED <<ocm, target, first, tries, todo>>

\* The kubeconfig is fetched, or the run fails.  A reserve job is done then.
Kubeconfig(j) ==
  /\ pc[j] = "kubeconfig"
  /\ \/ j \in TestJobs /\ Goto(j, "testing")
     \/ Goto(j, "end")
  /\ UNCHANGED <<ocm, target, snap, first, tries, todo>>

-----------------------------------------------------------------------------
(* After the tests: PostProcessCluster and Cleanup.                        *)

\* UpdateClusterProperties fetches the cluster; on an error it gives up.
PostFetch(j) ==
  /\ pc[j] = "testing"
  /\ \/ /\ Exists(target[j])
        /\ snap' = [snap EXCEPT ![j] = View(target[j])]
        /\ todo' = [todo EXCEPT ![j] = FinalTags]
        /\ Goto(j, "post")
     \/ Goto(j, "cleanup") /\ UNCHANGED <<snap, todo>>
  /\ UNCHANGED <<ocm, target, first, tries>>

FinalBody(s, tag) ==
  CASE tag = "Status" -> [s EXCEPT !.status = "later"]
    [] tag = "Availability" -> [s EXCEPT !.avail = "used"]
    [] OTHER -> s

\* It ranges over a Go map: the tags are written in any order, and the first
\* failure ends the loop.  The tag Job stands for JobID and JobName.
PostMark(j) ==
  /\ pc[j] = "post"
  /\ \E tag \in todo[j] :
       LET body == FinalBody(snap[j], tag)
           rest == todo[j] \ {tag} IN
       \/ /\ IF rest = {} THEN Goto(j, "cleanup") ELSE UNCHANGED pc
          /\ PatchAcked(j, body)
          /\ todo' = [todo EXCEPT ![j] = rest]
       \/ /\ UNCHANGED <<pc, todo>>
          /\ PatchRetried(j, body)
       \/ /\ Goto(j, "cleanup")
          /\ PatchFailed(j, body)
          /\ todo' = [todo EXCEPT ![j] = {}]
  /\ UNCHANGED <<target, first>>

\* Cleanup keeps the cluster (SkipDestroyCluster, or DeleteCluster gives up),
\* or DeleteCluster has fetched it ready.
Cleanup(j) ==
  /\ pc[j] = "cleanup"
  /\ \/ Goto(j, "end") /\ UNCHANGED snap
     \/ /\ ocm[target[j]].state = "ready"
        /\ snap' = [snap EXCEPT ![j] = View(target[j])]
        /\ Goto(j, "mark uninstalling")
  /\ UNCHANGED <<ocm, target, first, tries, todo>>

MarkUninstalling(j) ==
  AddProperty(j, "mark uninstalling",
              [snap[j] EXCEPT !.status = "later"], "destroy", "end")

\* The DELETE of DeleteCluster, with its retries.
Destroy(j) ==
  /\ pc[j] = "destroy"
  /\ \/ Goto(j, "end") /\ UNCHANGED ocm
     \/ /\ ocm' = [ocm EXCEPT ![target[j]].state = "gone"]
        /\ Goto(j, "end")
  /\ UNCHANGED <<target, snap, first, tries, todo>>

\* The process is over and the slot is free for the next run.
Exited(j) ==
  /\ Goto(j, "idle")
  /\ target' = [target EXCEPT ![j] = NoCluster]
  /\ snap' = [snap EXCEPT ![j] = Nothing]
  /\ first' = [first EXCEPT ![j] = Nothing]
  /\ tries' = [tries EXCEPT ![j] = 0]
  /\ todo' = [todo EXCEPT ![j] = {}]
  /\ UNCHANGED ocm

Exit(j) == pc[j] = "end" /\ Exited(j)

\* CI kills the run wherever it is.
Kill(j) == pc[j] \notin {"idle", "end"} /\ Exited(j)

-----------------------------------------------------------------------------
(* OCM installs a cluster, fails to, or deletes it when it expires.        *)

Install(c) ==
  /\ \/ /\ ocm[c].state = "pending"
        /\ ocm' = [ocm EXCEPT ![c].state = "installing"]
     \/ /\ ocm[c].state = "installing"
        /\ ocm' = [ocm EXCEPT ![c].state = "ready"]
     \/ /\ ocm[c].state \in {"pending", "installing"}
        /\ ocm' = [ocm EXCEPT ![c].state = "error"]
  /\ UNCHANGED <<pc, target, snap, first, tries, todo>>

Expiry(c) ==
  /\ Exists(c)
  /\ ocm' = [ocm EXCEPT ![c].state = "gone"]
  /\ UNCHANGED <<pc, target, snap, first, tries, todo>>

-----------------------------------------------------------------------------
Init ==
  /\ ocm = [c \in Clusters |->
              IF c \in InitialStock
                THEN [state |-> "ready", avail |-> "reserved",
                      status |-> "later", maker |-> "stock"]
                ELSE [state |-> "absent", avail |-> "none",
                      status |-> "provisioning", maker |-> "nobody"]]
  /\ pc = [j \in Jobs |-> "idle"]
  /\ target = [j \in Jobs |-> NoCluster]
  /\ snap = [j \in Jobs |-> Nothing]
  /\ first = [j \in Jobs |-> Nothing]
  /\ tries = [j \in Jobs |-> 0]
  /\ todo = [j \in Jobs |-> {}]

Start(j) == QueryForClaim(j) \/ CheckReserve(j)

\* What run j does of its own accord once it has started.
Step(j) ==
  \/ ExtensionFails(j) \/ Claim(j) \/ TagClaim(j)
  \/ Launch(j) \/ Fetch(j)
  \/ Poll(j) \/ MarkWaiting(j) \/ MarkHealthCheck(j) \/ WaitTimeout(j)
  \/ UseFirst(j) \/ MarkUpgrade(j)
  \/ HealthFetch(j) \/ MarkHealthy(j) \/ HealthFails(j) \/ Kubeconfig(j)
  \/ PostFetch(j) \/ PostMark(j)
  \/ Cleanup(j) \/ MarkUninstalling(j) \/ Destroy(j) \/ Exit(j)

Next ==
  \/ \E j \in Jobs : Start(j) \/ Step(j) \/ Kill(j)
  \/ \E c \in Clusters : Install(c) \/ Expiry(c)

Spec == Init /\ [][Next]_vars

\* A run keeps taking its steps; the deadline of the wait does arrive however
\* often the poll goes round.  Nothing is assumed of OCM or of CI.
Fairness == \A j \in Jobs : WF_vars(Step(j)) /\ SF_vars(WaitTimeout(j))
FairSpec == Spec /\ Fairness

\* The discipline nothing in the code enforces: no run looks at a candidate
\* that another run is claiming, or whose reserve job is still at work on it.
Serialised ==
  \A j, k \in Jobs :
    (j # k /\ pc[j] = "claim" /\ target[j] = target[k])
      => pc[k] # "claim" /\ k \notin StockJobs
SerialSpec == Init /\ [][Next /\ Serialised']_vars

-----------------------------------------------------------------------------
(* Properties.                                                             *)

PCs == {"idle", "claim", "tag images", "tag account", "launch", "fetch", "wait",
        "mark waiting", "mark health-check", "ready", "mark upgrade", "health",
        "checking", "kubeconfig", "testing", "post", "cleanup",
        "mark uninstalling", "destroy", "end"}

\* Type correctness of OCM's records and of every run's variables.
TypeOK ==
  /\ ocm \in [Clusters -> Record]
  /\ pc \in [Jobs -> PCs]
  /\ target \in [Jobs -> Clusters \cup {NoCluster}]
  /\ snap \in [Jobs -> Snapshot]
  /\ first \in [Jobs -> Snapshot]
  /\ tries \in [Jobs -> 0 .. NumRetries - 1]
  /\ todo \in [Jobs -> SUBSET FinalTags]

\* A run that is past obtaining its cluster has one.
HasCluster ==
  \A j \in Jobs : pc[j] \notin {"idle", "launch", "end"} => target[j] \in Clusters
TypeInv == TypeOK /\ HasCluster

\* Test job j has obtained a cluster and its run is not over.
Using(j) == j \in TestJobs /\ pc[j] \notin {"idle", "claim", "launch", "end"}

\* No run but j is still at work on the cluster j works on.
Alone(j) == \A k \in Jobs \ {j} : target[k] = target[j] => pc[k] = "end"

\* What makes exclusive use inductive.  A run that has no cluster yet carries
\* nothing of an earlier one; whoever claims is alone on the candidate; and the
\* user of a cluster is alone on it and neither OCM nor any object that the
\* user may write back says reserved.
Unburdened == \A j \in Jobs :
  /\ pc[j] \in {"idle", "launch"} => target[j] = NoCluster /\ snap[j] = Nothing
  /\ pc[j] \in {"idle", "launch", "claim"} => first[j] = Nothing
Present == \A j \in Jobs :
  target[j] \in Clusters => ocm[target[j]].state # "absent"
ClaimsAlone == \A j \in Jobs : pc[j] = "claim" => Alone(j) /\ j \in TestJobs
UsersAlone == \A j \in Jobs : Using(j) =>
  /\ Alone(j)
  /\ ocm[target[j]].avail # "reserved"
  /\ snap[j].avail # "reserved"
  /\ first[j].avail # "reserved"
SerialInv == /\ TypeInv /\ Serialised
             /\ Unburdened /\ Present /\ ClaimsAlone /\ UsersAlone

\* A cluster that a test job launched for itself is never handed to anyone
\* else: no run but one ever works on it, and however stale the property maps
\* written back to it are, it never enters the reserve (ClaimClusterFromReserve,
\* GenerateProperties, AddProperty).
PrivateStaysPrivate ==
  \A c \in Clusters : ocm[c].maker = "test" =>
    /\ ocm[c].avail \in {"none", "used"}
    /\ \A j, k \in Jobs : target[j] = c /\ target[k] = c => j = k

\* No two test runs work on the same cluster.  This is what Availability is
\* for; the code guarantees it only when claims are serialised.
ExclusiveUse ==
  \A j, k \in TestJobs :
    Using(j) /\ Using(k) /\ target[j] = target[k] => j = k

\* A cluster advertised as reserved is free to be claimed: no test run is at
\* work on it.
ReservedMeansFree ==
  \A j \in TestJobs : Using(j) => target[j] \notin InReserve

\* Marked used, and no run still holds a snapshot of it.
Retired(c) == ocm[c].avail = "used" /\ \A j \in Jobs : target[j] # c

\* A cluster whose run is over and which no live run refers to is never handed
\* out again: nothing but a stale snapshot can put it back on the market.
RetiredForGood ==
  [][\A c \in Clusters : Retired(c) => Retired(c)']_vars

\* While no one claims, concurrent reserve jobs overshoot the reserve by at
\* most one launch (and its blind retries) each, less the one that was due.
ReserveBounded ==
  Cardinality(InReserve) <= ReserveCount - 1 + NumRetries * Cardinality(StockJobs)

\* Every run comes to an end, whatever OCM does: no poll and no retry loop of
\* claiming, provisioning or cleaning up holds a CI slot for ever.
RunsEnd == \A j \in Jobs : pc[j] # "idle" ~> pc[j] = "idle"

=============================================================================
