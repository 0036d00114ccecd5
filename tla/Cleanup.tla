------------------------------- MODULE Cleanup -------------------------------
(***************************************************************************)
(* osde2e cleanup: the names of the clusters that are in use are collected *)
(* from every OCM environment, once, and then kind after kind of AWS       *)
(* resource is listed and whatever no such name protects is removed;       *)
(* between them, clusters past their age and one given cluster are         *)
(* uninstalled.                                                            *)
(*                                                                         *)
(* Meanwhile other runs launch clusters, OCM installs and uninstalls them, *)
(* and clusters that are gone leave resources behind.  A resource knows    *)
(* which cluster uses it; the command only knows which cluster its name    *)
(* speaks of, if it speaks of one in the form the patterns expect.         *)
(***************************************************************************)
EXTENDS Naturals, Sequences, FiniteSets, Functions

CONSTANTS
  Envs,       \* the OCM environments collectActiveClusters asks
  Home,       \* the provider's own environment
  Order,      \* the clusters, in the order OCM lists them
  EnvOf,      \* the environment of each cluster
  Ours,       \* the clusters whose subscription the account created
  Resources,  \* the AWS resources
  About,      \* what there is to know of each
  Nobody,     \* no cluster
  PageSize,   \* clusters in a page of OCM's answer
  Polls,      \* bound: polls of DeleteCluster before its timeout
  Initially,  \* what OCM may have of the clusters as the command starts
  Configs     \* the flags a command may be given

Clusters == Range(Order)

\* Where OCM lists each of them.
Place == [c \in Clusters |-> CHOOSE i \in DOMAIN Order : Order[i] = c]

\* The steps of run, in their order; --iam asks for two of them.
Sweeps == {"sg", "vpc", "oidc", "role", "bucket", "instance", "address"}
Steps == <<"sg", "vpc", "clusters", "cluster", "oidc", "role", "bucket", "instance", "address">>
Words == {"osde2e", "managed-velero", "cloudfront", "osde2e-logs", "osde2e-proxy", "default"}

Resource == [
  kind  : Sweeps,
  user  : Clusters \cup {Nobody},  \* the cluster that uses it
  found : Clusters \cup {Nobody},  \* the one its name, or its network's name, yields
  words : SUBSET Words,            \* the substrings its name or URL contains
  vpc   : Resources \cup {Nobody}] \* the network a security group is in

Config == [
  steps  : SUBSET Range(Steps),
  dry    : BOOLEAN,
  old    : SUBSET Clusters,             \* created before the cutoff
  target : Clusters]                    \* --cluster-id

ASSUME CleanupAssumption ==
  /\ IsFiniteSet(Envs) /\ Home \in Envs
  /\ Order \in Seq(Range(Order)) /\ IsInjective(Order)
  /\ EnvOf \in [Clusters -> Envs] /\ Ours \subseteq Clusters
  /\ About \in [Resources -> Resource] /\ Nobody \notin Clusters \cup Resources
  /\ PageSize \in Nat \ {0} /\ Polls \in Nat /\ Configs \subseteq Config
  /\ Initially \subseteq [Clusters -> {"absent", "installing", "ready", "error", "uninstalling"}]

VARIABLES
  conf,      \* the configuration, fixed at the start
  pc,        \* what the command does next
  at,        \* the step of run it is in: a position in Steps
  ocm,       \* the state of each cluster in OCM
  aws,       \* the resources that exist
  bare,      \* those that were stripped or emptied and not deleted
  jammed,    \* networks whose stack is in DELETE_FAILED
  cached,    \* connectionCache: the environments with a connection
  toAsk,     \* environments whose clusters are still to be listed
  list,      \* the listing in progress
  active,    \* activeClusters
  doomed,    \* what the step in progress has still to remove
  failed,    \* what was counted as failed
  goal,      \* the cluster DeleteCluster deletes
  copy,      \* its copy of the cluster: a state, or "nil"
  polls,     \* polls of it so far
  picked,    \* history: what some step listed and set out to remove
  silent,    \* history: environments that were left out of activeClusters
  shaken,    \* history: environments that lost a cluster while they were listed
  late,      \* history: clusters launched since their environment was listed
  harmed     \* history: what was removed or stripped while its user was live

history == <<picked, silent, shaken, late, harmed>>
cloud == <<aws, bare, jammed>>
deletion == <<goal, copy, polls>>
vars == <<conf, pc, at, ocm, cloud, cached, toAsk, list, active, doomed, failed,
          deletion, history>>

Listed == {"installing", "ready", "error", "uninstalling"}
Live == {"installing", "ready"}
Over == {"ended", "failed", "panic"}
PCs == {"connect", "subscriptions", "clusters", "step", "sweep", "delete",
        "find", "poll", "mark", "request"} \cup Over
NoList == [env |-> Home, owned |-> {}, count |-> 0, total |-> 0, page |-> 1,
           items |-> {}, empty |-> FALSE]

\* No answer of OCM has a page beyond this one.
LastPage == Len(Order) + 1

NextPage == IF list.page < LastPage THEN list.page + 1 ELSE LastPage

-----------------------------------------------------------------------------
(* The clusters in use.                                                    *)

\* NewWithEnv: an environment without a connection is skipped, and a failure
\* to connect is remembered for the rest of the command.
Connect ==
  /\ pc = "connect"
  /\ \E up \in SUBSET Envs :
       /\ cached' = up /\ toAsk' = up /\ silent' = Envs \ up
       /\ pc' = IF up = {} THEN "failed" ELSE "subscriptions"
       /\ \/ up = {} /\ UNCHANGED list
          \/ \E e \in up : list' = [NoList EXCEPT !.env = e]
  /\ UNCHANGED <<conf, at, ocm, cloud, active, doomed, failed, deletion, picked,
                 shaken, late, harmed>>

\* The clusters OCM lists, and those among them the account has a subscription of.
Known(e) == {c \in Clusters : EnvOf[c] = e /\ ocm[c] \in Listed}
Subscribed(e) == Known(e) \cap Ours

\* The place that a cluster of S has among them in OCM's answer, and a page of it.
Rank(c, S) == Cardinality({d \in S : Place[d] <= Place[c]})

Page(S, p) == {c \in S : (p - 1) * PageSize < Rank(c, S) /\ Rank(c, S) <= p * PageSize}

\* ListOwnedClusters collects the subscriptions first: until it has as many as
\* OCM says there are, or a page is empty.
ListSubscriptions ==
  /\ pc = "subscriptions"
  /\ LET s == Subscribed(list.env)
         new == Page(s, list.page)
         done == list.count + Cardinality(new) >= Cardinality(s) \/ new = {}
     IN /\ list' = [list EXCEPT
             !.owned = @ \cup new,
             !.count = IF done THEN 0 ELSE @ + Cardinality(new),
             !.page = IF done THEN 1 ELSE NextPage]
        /\ pc' = IF done THEN "clusters" ELSE pc
  /\ UNCHANGED <<conf, at, ocm, cloud, cached, toAsk, active, doomed, failed,
                 deletion, history>>

Collecting == toAsk # {}

\* What ListClusters has, with the page it just got.  The total is OCM's first.
Got(new) == [list EXCEPT
  !.items = @ \cup new,
  !.count = @ + Cardinality(new),
  !.total = IF list.page = 1 /\ list.count = 0 /\ ~list.empty
            THEN Cardinality(Known(list.env)) ELSE @,
  !.empty = @ \/ new = {},
  !.page = NextPage]

\* ListClusters goes on while it has fewer than the total or saw no empty page.
Enough(l) == l.count >= l.total /\ l.empty

\* Seeded fault: only clusters that are ready count as active.
OwnedReady(l) == {c \in l.items \cap l.owned : ocm[c] = "ready"}

\* ListOwnedClusters leaves out the clusters of other accounts.
Owned(l) == l.items \cap l.owned

\* collectActiveClusters turns to another environment, or is done.
AskNext ==
  /\ toAsk' = toAsk \ {list.env}
  /\ \/ toAsk' = {} /\ pc' = "step" /\ list' = NoList
     \/ /\ pc' = "subscriptions"
        /\ \E e \in toAsk' : list' = [NoList EXCEPT !.env = e]

ListClusters ==
  /\ pc = "clusters"
  /\ LET l == Got(Page(Known(list.env), list.page)) IN
       \/ ~Enough(l) /\ list' = l /\ UNCHANGED <<pc, toAsk, active, doomed>>
       \/ /\ Enough(l) /\ Collecting
          /\ active' = active \cup Owned(l)
          /\ AskNext
          /\ UNCHANGED doomed
       \/ /\ Enough(l) /\ ~Collecting
          /\ doomed' = Owned(l) \cap conf.old
          /\ pc' = "delete" /\ list' = NoList
          /\ UNCHANGED <<toAsk, active>>
  /\ UNCHANGED <<conf, at, ocm, cloud, cached, failed, deletion, history>>

\* A request fails: the environment is left out, or the step's own listing ends
\* the command.
ListingFails ==
  /\ pc \in {"subscriptions", "clusters"}
  /\ \/ Collecting /\ AskNext /\ silent' = silent \cup {list.env}
     \/ ~Collecting /\ pc' = "failed" /\ list' = NoList /\ UNCHANGED <<toAsk, silent>>
  /\ UNCHANGED <<conf, at, ocm, cloud, cached, active, doomed, failed, deletion,
                 picked, shaken, late, harmed>>

-----------------------------------------------------------------------------
(* The sweeps of AWS.                                                      *)

Step == Steps[at]
NextStep == IF at = Len(Steps) THEN pc' = "ended" /\ UNCHANGED at
                               ELSE pc' = "step" /\ at' = at + 1

SkipStep ==
  /\ pc = "step" /\ Step \notin conf.steps
  /\ NextStep
  /\ UNCHANGED <<conf, ocm, cloud, cached, toAsk, list, active, doomed, failed,
                 deletion, history>>

\* A name protects its resource if it yields an active cluster.
FromActiveCluster(r) == About[r].found \in active

Has(r, word) == word \in About[r].words

\* What each sweep sets out to remove, of what AWS lists.
OrphanedBucket(r) ==
  /\ Has(r, "osde2e") \/ Has(r, "managed-velero")
  /\ ~FromActiveCluster(r) /\ ~Has(r, "osde2e-logs")

OrphanedProvider(r) ==
  (Has(r, "cloudfront") \/ Has(r, "osde2e")) /\ ~FromActiveCluster(r)

OrphanedRole(r) == Has(r, "osde2e") /\ ~FromActiveCluster(r)

OrphanedInstance(r) == ~Has(r, "osde2e-proxy") /\ ~FromActiveCluster(r)

OrphanedStack(r) == Has(r, "osde2e") /\ ~FromActiveCluster(r)

LeftoverGroup(r) ==
  About[r].vpc \in jammed /\ ~FromActiveCluster(r) /\ ~Has(r, "default")

LooseAddress(r) == About[r].user = Nobody

Orphaned(r) ==
  CASE About[r].kind = "bucket"   -> OrphanedBucket(r)
    [] About[r].kind = "oidc"     -> OrphanedProvider(r)
    [] About[r].kind = "role"     -> OrphanedRole(r)
    [] About[r].kind = "instance" -> OrphanedInstance(r)
    [] About[r].kind = "vpc"      -> OrphanedStack(r)
    [] About[r].kind = "sg"       -> LeftoverGroup(r)
    [] About[r].kind = "address"  -> LooseAddress(r)

\* GetAWSSessions builds the session once.  A session that could not be built is
\* used all the same, which ends the program.
SessionFails ==
  /\ pc = "step" /\ Step \in conf.steps \cap Sweeps
  /\ \A i \in 1..(at - 1) : Steps[i] \notin conf.steps \cap Sweeps
  /\ pc' = "panic"
  /\ UNCHANGED <<conf, at, ocm, cloud, cached, toAsk, list, active, doomed, failed,
                 deletion, history>>

SweepFails ==
  /\ pc = "step" /\ Step \in conf.steps \cap Sweeps
  /\ pc' = "failed"
  /\ UNCHANGED <<conf, at, ocm, cloud, cached, toAsk, list, active, doomed, failed,
                 deletion, history>>

\* The sweep lists its kind.  The look at a single one may fail: a network is
\* then passed over, an identity provider is counted as failed.
Sweep ==
  /\ pc = "step" /\ Step \in conf.steps \cap Sweeps
  /\ \E unread \in SUBSET {r \in aws : About[r].kind = Step /\ Step \in {"sg", "vpc", "oidc"}} :
       /\ doomed' = {r \in aws \ unread : About[r].kind = Step /\ Orphaned(r)}
       /\ failed' = IF Step = "oidc" THEN failed \cup unread ELSE failed
  /\ pc' = "sweep"
  /\ picked' = IF conf.dry THEN picked ELSE picked \cup doomed'
  /\ UNCHANGED <<conf, at, ocm, cloud, cached, toAsk, list, active, deletion,
                 silent, shaken, late, harmed>>

SweptAll ==
  /\ pc = "sweep" /\ doomed = {}
  /\ NextStep
  /\ UNCHANGED <<conf, ocm, cloud, cached, toAsk, list, active, doomed, failed,
                 deletion, history>>

\* A dry run says what it would do.  It asks AWS for what roles have, and to
\* release addresses without doing it; every answer to that is an error.
DrySweep ==
  /\ pc = "sweep" /\ conf.dry /\ doomed # {}
  /\ doomed' = {}
  /\ CASE Step = "address" -> failed' = failed \cup doomed
       [] Step = "role" -> \E f \in SUBSET doomed : failed' = failed \cup f
       [] OTHER -> UNCHANGED failed
  /\ UNCHANGED <<conf, pc, at, ocm, cloud, cached, toAsk, list, active, deletion,
                 history>>

Touched(r) ==
  IF About[r].user # Nobody /\ ocm[About[r].user] \in Live
  THEN harmed \cup {r} ELSE harmed

Remove(r) ==
  /\ r \in aws
  /\ aws' = aws \ {r} /\ bare' = bare \ {r} /\ jammed' = jammed \ {r}
  /\ harmed' = Touched(r)
  /\ UNCHANGED failed

\* Seeded fault: what was taken apart is counted only if nothing of it is left.
StripUncounted(r) ==
  /\ r \in aws
  /\ bare' = bare \cup {r} /\ harmed' = Touched(r)
  /\ UNCHANGED <<aws, jammed, failed>>

\* Objects, policies or rules are removed first; what follows fails.
Strip(r) ==
  /\ r \in aws
  /\ bare' = bare \cup {r} /\ failed' = failed \cup {r}
  /\ harmed' = Touched(r)
  /\ UNCHANGED <<aws, jammed>>

\* The first call fails, for one thing because the resource is gone by now.
NotRemoved(r) == failed' = failed \cup {r} /\ UNCHANGED <<cloud, harmed>>

CleanupS3Bucket(r) == About[r].kind = "bucket" /\ (Remove(r) \/ Strip(r) \/ NotRemoved(r))

CleanupOpenIDConnectProvider(r) == About[r].kind = "oidc" /\ (Remove(r) \/ NotRemoved(r))

\* cleanupOsde2eRole: out of its profiles, then its policies, then the role.  All
\* of one sort are tried before an error among them stops the rest.
CleanupRole(r) == About[r].kind = "role" /\ (Remove(r) \/ Strip(r) \/ NotRemoved(r))

TerminateEC2Instance(r) == About[r].kind = "instance" /\ (Remove(r) \/ NotRemoved(r))

ReleaseElasticIP(r) == About[r].kind = "address" /\ (Remove(r) \/ NotRemoved(r))

\* A group that lost its rules, or kept them for an error, is deleted.
CleanupSecurityGroup(r) == About[r].kind = "sg" /\ (Remove(r) \/ Strip(r) \/ NotRemoved(r))

\* A group that is left makes the deletion of its network's stack fail, and the
\* stack says so from then on.  The wait may also give up too soon.
CleanupVPC(r) ==
  /\ About[r].kind = "vpc"
  /\ \/ (\A g \in aws : About[g].vpc # r) /\ Remove(r)
     \/ NotRemoved(r)
     \/ /\ r \in aws
        /\ jammed' = jammed \cup {r} /\ failed' = failed \cup {r}
        /\ UNCHANGED <<aws, bare, harmed>>

SweepOne ==
  /\ pc = "sweep" /\ ~conf.dry
  /\ \E r \in doomed :
       /\ doomed' = doomed \ {r}
       /\ \/ CleanupSecurityGroup(r) \/ CleanupVPC(r) \/ CleanupOpenIDConnectProvider(r)
          \/ CleanupRole(r) \/ CleanupS3Bucket(r) \/ TerminateEC2Instance(r)
          \/ ReleaseElasticIP(r)
  /\ UNCHANGED <<conf, pc, at, ocm, cached, toAsk, list, active, deletion, picked,
                 silent, shaken, late>>

-----------------------------------------------------------------------------
(* The clusters: --clusters and --cluster-id.                              *)

\* Both need a connection to the provider's own environment.
ListOld ==
  /\ pc = "step" /\ Step = "clusters" /\ Step \in conf.steps
  /\ IF Home \in cached
     THEN pc' = "subscriptions" /\ list' = NoList
     ELSE pc' = "failed" /\ UNCHANGED list
  /\ UNCHANGED <<conf, at, ocm, cloud, cached, toAsk, active, doomed, failed,
                 deletion, history>>

PickOld ==
  /\ pc = "delete"
  /\ \/ /\ conf.dry \/ doomed = {}
        /\ doomed' = {} /\ NextStep /\ UNCHANGED goal
     \/ /\ ~conf.dry
        /\ \E c \in doomed : goal' = c /\ doomed' = doomed \ {c}
        /\ pc' = "find" /\ UNCHANGED at
  /\ UNCHANGED <<conf, ocm, cloud, cached, toAsk, list, active, failed, copy, polls,
                 history>>

Gettable(c) == EnvOf[c] = Home /\ ocm[c] \in Listed

PickTarget ==
  /\ pc = "step" /\ Step = "cluster" /\ Step \in conf.steps
  /\ \/ /\ Home \in cached /\ Gettable(conf.target)
        /\ IF conf.dry THEN NextStep /\ UNCHANGED goal
           ELSE pc' = "find" /\ goal' = conf.target /\ UNCHANGED at
     \/ pc' = "failed" /\ UNCHANGED <<at, goal>>
  /\ UNCHANGED <<conf, ocm, cloud, cached, toAsk, list, active, doomed, failed,
                 copy, polls, history>>

\* DeleteCluster returns.  Its error ends the command, but is only printed in the
\* loop over the old clusters.
Return(ok) ==
  /\ goal' = Nobody /\ copy' = "nil" /\ polls' = 0
  /\ CASE Step = "clusters" -> pc' = "delete" /\ UNCHANGED at
       [] Step = "cluster" /\ ok -> NextStep
       [] OTHER -> pc' = "failed" /\ UNCHANGED at

Find ==
  /\ pc = "find"
  /\ \/ Gettable(goal) /\ ocm[goal] # "uninstalling"
        /\ copy' = ocm[goal] /\ pc' = "poll" /\ UNCHANGED <<at, goal, polls>>
     \/ Return(FALSE)
  /\ UNCHANGED <<conf, ocm, cloud, cached, toAsk, list, active, doomed, failed,
                 history>>

\* One round with the copy as it is or as it was fetched again.
Judge(c) ==
  CASE c = "error" -> Return(FALSE)
    [] c = "ready" -> pc' = "mark" /\ copy' = c /\ UNCHANGED <<at, goal, polls>>
    [] OTHER -> copy' = c /\ polls' = polls + 1 /\ UNCHANGED <<pc, at, goal>>

\* Seeded fault: the polls go on for as long as the cluster is not ready.
PollForever ==
  /\ pc = "poll"
  /\ \/ copy # "ready" /\ UNCHANGED <<pc, at, deletion>>
     \/ copy = "ready" /\ pc' = "mark" /\ UNCHANGED <<at, deletion>>
  /\ UNCHANGED <<conf, ocm, cloud, cached, toAsk, list, active, doomed, failed,
                 history>>

\* The copy is fetched again only while it is ready.  A fetch that fails leaves
\* no copy, and the next round stumbles over that.
Poll ==
  /\ pc = "poll"
  /\ \/ polls = Polls /\ Return(FALSE)
     \/ polls < Polls /\ copy = "nil" /\ pc' = "panic" /\ UNCHANGED <<at, deletion>>
     \/ /\ polls < Polls /\ copy = "ready"
        /\ \/ Gettable(goal) /\ Judge(ocm[goal])
           \/ Judge("nil")
     \/ polls < Polls /\ copy \notin {"nil", "ready"} /\ Judge(copy)
  /\ UNCHANGED <<conf, ocm, cloud, cached, toAsk, list, active, doomed, failed,
                 history>>

\* AddProperty tags the cluster as uninstalling; if that fails it is not deleted.
Mark ==
  /\ pc = "mark"
  /\ \/ Gettable(goal) /\ pc' = "request" /\ UNCHANGED <<at, deletion>>
     \/ Return(FALSE)
  /\ UNCHANGED <<conf, ocm, cloud, cached, toAsk, list, active, doomed, failed,
                 history>>

\* The request is confirmed, or it fails and may have been carried out.
Request ==
  /\ pc = "request"
  /\ \/ /\ Gettable(goal) /\ ocm' = [ocm EXCEPT ![goal] = "uninstalling"]
        /\ \E ok \in BOOLEAN : Return(ok)
     \/ Return(FALSE) /\ UNCHANGED ocm
  /\ UNCHANGED <<conf, cloud, cached, toAsk, list, active, doomed, failed, history>>

-----------------------------------------------------------------------------
(* What else goes on: other runs, OCM and the clusters themselves.         *)

program == <<conf, pc, at, cached, toAsk, list, active, doomed, failed, deletion,
             picked, silent>>

\* Resources of kinds the flags leave alone are not followed.
UsedBy(c) == {r \in Resources : About[r].user = c /\ About[r].kind \in conf.steps}

\* A launched cluster has its resources at once.
Launch(c) ==
  /\ ocm[c] = "absent"
  /\ ocm' = [ocm EXCEPT ![c] = "installing"]
  /\ aws' = aws \cup UsedBy(c)
  /\ late' = IF pc # "connect" /\ (EnvOf[c] \notin toAsk \/ list.env = EnvOf[c])
             THEN late \cup {c} ELSE late
  /\ UNCHANGED <<program, bare, jammed, shaken, harmed>>

Change(c) ==
  /\ \/ ocm[c] = "installing" /\ \E s \in {"ready", "error"} : ocm' = [ocm EXCEPT ![c] = s]
     \/ ocm[c] \in {"ready", "error"} /\ ocm' = [ocm EXCEPT ![c] = "uninstalling"]
  /\ UNCHANGED <<program, cloud, shaken, late, harmed>>

\* An uninstalled cluster leaves some of its resources; a network is left when a
\* group in it is, with its stack in DELETE_FAILED.
Leave(c) ==
  /\ ocm[c] = "uninstalling"
  /\ ocm' = [ocm EXCEPT ![c] = "gone"]
  /\ \E left \in SUBSET (UsedBy(c) \cap aws) :
       /\ \A r \in left : About[r].vpc \in left \cup {Nobody}
       /\ aws' = (aws \ UsedBy(c)) \cup left
       /\ bare' = bare \cap aws'
       /\ jammed' = (jammed \cap aws') \cup ({About[r].vpc : r \in left} \ {Nobody})
  /\ shaken' = IF pc \in {"subscriptions", "clusters"} /\ Collecting /\ list.env = EnvOf[c]
               THEN shaken \cup {list.env} ELSE shaken
  /\ UNCHANGED <<program, late, harmed>>

-----------------------------------------------------------------------------
Init ==
  /\ conf \in Configs
  /\ pc = "connect" /\ at = 1
  /\ ocm \in Initially
  /\ aws = UNION {UsedBy(c) : c \in {k \in Clusters : ocm[k] # "absent"} \cup {Nobody}}
  /\ bare = {} /\ jammed = {r \in aws : About[r].kind = "vpc" /\ About[r].user = Nobody}
  /\ cached = {} /\ toAsk = {} /\ list = NoList
  /\ active = {} /\ doomed = {} /\ failed = {}
  /\ goal = Nobody /\ copy = "nil" /\ polls = 0
  /\ picked = {} /\ silent = {} /\ shaken = {} /\ late = {} /\ harmed = {}

Command ==
  \/ Connect \/ ListSubscriptions \/ ListClusters \/ ListingFails
  \/ SkipStep \/ SessionFails \/ SweepFails \/ Sweep \/ SweptAll \/ DrySweep \/ SweepOne
  \/ ListOld \/ PickOld \/ PickTarget \/ Find \/ Poll \/ Mark \/ Request

World == \E c \in Clusters : Launch(c) \/ Change(c) \/ Leave(c)

Next == Command \/ World

Spec == Init /\ [][Next]_vars

\* The command is one goroutine that waits only with timeouts.
FairSpec == Spec /\ WF_vars(Command)

-----------------------------------------------------------------------------
Listing == [
  env : Envs, owned : SUBSET Clusters, count : Nat, total : Nat,
  page : 1..LastPage, items : SUBSET Clusters, empty : BOOLEAN]

\* Type correctness of the command's variables, of OCM's and of AWS's.
TypeOK ==
  /\ conf \in Configs /\ pc \in PCs /\ at \in DOMAIN Steps
  /\ ocm \in [Clusters -> Listed \cup {"absent", "gone"}]
  /\ bare \subseteq aws /\ jammed \subseteq aws /\ aws \subseteq Resources
  /\ cached \subseteq Envs /\ toAsk \subseteq cached
  /\ list \in Listing
  /\ active \subseteq Ours
  /\ doomed \subseteq Clusters \cup Resources
  /\ failed \subseteq Resources /\ picked \subseteq Resources /\ harmed \subseteq Resources
  /\ goal \in Clusters \cup {Nobody} /\ copy \in Listed \cup {"nil"} /\ polls \in 0..Polls
  /\ silent \subseteq Envs /\ shaken \subseteq Envs /\ late \subseteq Clusters

\* The command's promise, that it spares what belongs to active clusters, and
\* where it ends: the user of a resource that was removed or taken apart all the
\* same is of another account, or is not the cluster the resource's name yields,
\* or its environment did not answer, or lost a cluster while its pages were read
\* and so let one slip through, or the cluster is younger than the listing.
OnlyOrphans ==
  \A r \in harmed :
    LET c == About[r].user IN
    \/ c \notin Ours \/ About[r].found # c \/ c \in late
    \/ EnvOf[c] \in silent \cup shaken

\* Whatever a sweep set out to remove is gone or counted as failed when the
\* command stops in good order, so the summary speaks of all that was left, and
\* nothing that it took apart half-way is left unmentioned.
Accounted ==
  pc \in {"ended", "failed"} => (picked \cup bare) \cap aws \subseteq failed

\* ListClusters is short of its first total and saw an empty page: nothing it
\* will be sent ends it.
Starved == pc = "clusters" /\ list.empty /\ list.count < list.total

\* The command comes to an end, unless clusters that go while OCM's pages are
\* read leave the listing short for ever.
CleanupEnds == <>(pc \in Over \/ Starved)
=============================================================================
