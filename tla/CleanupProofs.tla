---------------------------- MODULE CleanupProofs ----------------------------
(***************************************************************************)
(* The cleanup command for any clusters, environments and resources: what  *)
(* a sweep set out to remove, or took apart, is gone or counted as failed  *)
(* when the command stops, while other runs launch clusters, OCM removes   *)
(* them and every call to AWS may fail or stop half-way.                   *)
(***************************************************************************)
EXTENDS Cleanup, FiniteSetTheorems, TLAPS

States == Listed \cup {"absent", "gone"}

\* A resource comes with its cluster, so none exists before its cluster does; and
\* none comes back, because a cluster is launched once.
Launched(r) == About[r].user \in Clusters => ocm[About[r].user] # "absent"

\* The inductive invariant: what was set out to be removed and exists is counted
\* as failed or still waits for its turn, and so is what was taken apart.
CountedInv ==
  /\ ocm \in [Clusters -> States]
  /\ aws \subseteq Resources /\ picked \subseteq Resources
  /\ bare \subseteq aws /\ bare \subseteq failed
  /\ \A r \in aws \cup picked : Launched(r)
  /\ \A r \in picked \cap aws :
       r \in failed \/ (pc = "sweep" /\ ~conf.dry /\ r \in doomed)

-----------------------------------------------------------------------------

\* Before the command starts nothing was picked, and every resource there is
\* has a cluster or none at all.
LEMMA CountedInit == Init => CountedInv
<1> SUFFICES ASSUME Init PROVE CountedInv
  OBVIOUS
<1>1. ocm \in [Clusters -> States]
  BY CleanupAssumption DEF Init, States, Listed
<1>2. ASSUME NEW r \in aws PROVE r \in Resources /\ Launched(r)
  <2>1. PICK c \in {k \in Clusters : ocm[k] # "absent"} \cup {Nobody} : r \in UsedBy(c)
    BY <1>2 DEF Init
  <2> QED
    BY <2>1, CleanupAssumption DEF UsedBy, Launched
<1>3. bare = {} /\ picked = {}
  BY DEF Init
<1> QED
  BY <1>1, <1>2, <1>3 DEF CountedInv

\* Every step of the command that is not a sweep leaves AWS and the counts alone;
\* of OCM's clusters it uninstalls one at most.
LEMMA ElsewhereStep ==
  ASSUME CountedInv, pc # "sweep", UNCHANGED <<aws, bare, failed, picked>>,
         ocm' = ocm \/ ocm' = [ocm EXCEPT ![goal] = "uninstalling"]
  PROVE  CountedInv'
<1>1. \A c \in Clusters : ocm[c] # "absent" => ocm'[c] # "absent"
  BY DEF CountedInv
<1>2. ocm' \in [Clusters -> States]
  BY DEF CountedInv, States, Listed
<1>3. \A r \in aws \cup picked : Launched(r)'
  BY <1>1 DEF CountedInv, Launched
<1> QED
  BY <1>2, <1>3 DEF CountedInv

\* A sweep counts nothing twice and forgets nothing: what it picks waits in doomed.
LEMMA SweepStep ==
  ASSUME CountedInv, Sweep
  PROVE  CountedInv'
<1>1. /\ pc = "step" /\ pc' = "sweep" /\ UNCHANGED <<conf, ocm, aws, bare>>
      /\ picked' = IF conf.dry THEN picked ELSE picked \cup doomed'
  BY DEF Sweep, cloud
<1>2. doomed' \subseteq aws /\ failed \subseteq failed'
  BY DEF Sweep
<1>3. \A r \in picked \cap aws : r \in failed
  BY <1>1 DEF CountedInv
<1>4. \A r : Launched(r)' <=> Launched(r)
  BY <1>1 DEF Launched
<1> QED
  BY <1>1, <1>2, <1>3, <1>4 DEF CountedInv

\* One removal: the resource is gone, or it is counted, whatever of it is left.
LEMMA RemovalStep ==
  ASSUME CountedInv, SweepOne
  PROVE  CountedInv'
<1>1. PICK r \in doomed :
        /\ doomed' = doomed \ {r}
        /\ \/ CleanupSecurityGroup(r) \/ CleanupVPC(r) \/ CleanupOpenIDConnectProvider(r)
           \/ CleanupRole(r) \/ CleanupS3Bucket(r) \/ TerminateEC2Instance(r)
           \/ ReleaseElasticIP(r)
  BY DEF SweepOne
<1>2. UNCHANGED <<conf, pc, ocm, picked>>
  BY DEF SweepOne
<1>3. /\ aws' \subseteq aws /\ failed \subseteq failed'
      /\ bare' \subseteq aws' /\ bare' \subseteq failed'
      /\ r \notin aws' \/ r \in failed'
  <2>1. CASE Remove(r)
    BY <2>1 DEF Remove, CountedInv
  <2>2. CASE Strip(r)
    BY <2>2 DEF Strip, CountedInv
  <2>3. CASE NotRemoved(r)
    BY <2>3 DEF NotRemoved, cloud, CountedInv
  <2>4. CASE failed' = failed \cup {r} /\ UNCHANGED <<aws, bare>>
    BY <2>4 DEF CountedInv
  <2> QED
    BY <1>1, <2>1, <2>2, <2>3, <2>4 DEF CleanupSecurityGroup, CleanupVPC,
       CleanupOpenIDConnectProvider, CleanupRole, CleanupS3Bucket,
       TerminateEC2Instance, ReleaseElasticIP
<1>4. \A s : Launched(s)' <=> Launched(s)
  BY <1>2 DEF Launched
<1> QED
  BY <1>1, <1>2, <1>3, <1>4 DEF CountedInv

\* What a dry run counts is not picked.
LEMMA DryStep ==
  ASSUME CountedInv, DrySweep
  PROVE  CountedInv'
<1>1. UNCHANGED <<conf, pc, ocm, aws, bare, picked>> /\ conf.dry
  BY DEF DrySweep, cloud, history
<1>2. failed \subseteq failed'
  BY DEF DrySweep
<1>3. \A s : Launched(s)' <=> Launched(s)
  BY <1>1 DEF Launched
<1> QED
  BY <1>1, <1>2, <1>3 DEF CountedInv

\* Other runs and OCM bring no resource back that a sweep has picked.
LEMMA WorldStep ==
  ASSUME CountedInv, NEW c \in Clusters, Launch(c) \/ Change(c) \/ Leave(c)
  PROVE  CountedInv'
<1>1. UNCHANGED <<conf, pc, doomed, failed, picked>>
  BY DEF Launch, Change, Leave, program
<1>2. CASE Launch(c)
  <2>1. /\ ocm[c] = "absent" /\ ocm' = [ocm EXCEPT ![c] = "installing"]
        /\ aws' = aws \cup UsedBy(c) /\ bare' = bare
    BY <1>2 DEF Launch
  <2>2. \A r \in UsedBy(c) : r \in Resources /\ About[r].user = c
    BY DEF UsedBy
  <2>4. \A r \in aws \cup picked : r \notin UsedBy(c)
    BY <2>1, <2>2 DEF CountedInv, Launched
  <2>5. ocm' \in [Clusters -> States]
    BY <2>1 DEF CountedInv, States, Listed
  <2>6. \A d \in Clusters : ocm[d] # "absent" => ocm'[d] # "absent"
    BY <2>1 DEF CountedInv
  <2>7. ocm'[c] # "absent"
    BY <2>1 DEF CountedInv
  <2>8. \A r \in aws' \cup picked : Launched(r)'
    BY <2>1, <2>2, <2>6, <2>7 DEF CountedInv, Launched
  <2> QED
    BY <1>1, <2>1, <2>2, <2>4, <2>5, <2>8 DEF CountedInv
<1>3. CASE Change(c) \/ Leave(c)
  <2>1. PICK s \in {"ready", "error", "uninstalling", "gone"} : ocm' = [ocm EXCEPT ![c] = s]
    BY <1>3 DEF Change, Leave
  <2>2. aws' \subseteq aws /\ bare' \subseteq bare /\ bare' \subseteq aws'
    BY <1>3 DEF Change, Leave, cloud, CountedInv
  <2>3. ocm' \in [Clusters -> States]
    BY <2>1 DEF CountedInv, States, Listed
  <2>4. \A d \in Clusters : ocm[d] # "absent" => ocm'[d] # "absent"
    BY <2>1 DEF CountedInv
  <2>5. \A r \in aws' \cup picked : Launched(r)'
    BY <2>2, <2>4 DEF CountedInv, Launched
  <2> QED
    BY <1>1, <2>2, <2>3, <2>5 DEF CountedInv
<1> QED
  BY <1>2, <1>3

\* CountedInv is inductive.
LEMMA CountedStep ==
  ASSUME CountedInv, [Next]_vars
  PROVE  CountedInv'
<1>1. CASE Connect \/ ListSubscriptions \/ ListClusters \/ ListingFails
  <2>1. pc # "sweep" /\ UNCHANGED <<aws, bare, failed, picked, ocm>>
    BY <1>1 DEF Connect, ListSubscriptions, ListClusters, ListingFails, cloud, history
  <2> QED
    BY <2>1, ElsewhereStep
<1>2. CASE SkipStep \/ SessionFails \/ SweepFails
  <2>1. pc # "sweep" /\ UNCHANGED <<aws, bare, failed, picked, ocm>>
    BY <1>2 DEF SkipStep, SessionFails, SweepFails, cloud, history
  <2> QED
    BY <2>1, ElsewhereStep
<1>3. CASE SweptAll
  <2>1. /\ doomed = {} /\ UNCHANGED <<conf, aws, bare, failed, picked, ocm>>
    BY <1>3 DEF SweptAll, cloud, history
  <2>2. \A s : Launched(s)' <=> Launched(s)
    BY <2>1 DEF Launched
  <2> QED
    BY <2>1, <2>2 DEF CountedInv
<1>4. CASE ListOld \/ PickOld \/ PickTarget \/ Find \/ Poll \/ Mark \/ Request
  <2>1. pc # "sweep" /\ UNCHANGED <<aws, bare, failed, picked>>
    BY <1>4 DEF ListOld, PickOld, PickTarget, Find, Poll, Mark, Request, cloud, history
  <2>2. ocm' = ocm \/ ocm' = [ocm EXCEPT ![goal] = "uninstalling"]
    BY <1>4 DEF ListOld, PickOld, PickTarget, Find, Poll, Mark, Request
  <2> QED
    BY <2>1, <2>2, ElsewhereStep
<1>5. CASE UNCHANGED vars
  <2>1. UNCHANGED <<conf, pc, doomed, aws, bare, failed, picked, ocm>>
    BY <1>5 DEF vars, cloud, history
  <2>2. \A s : Launched(s)' <=> Launched(s)
    BY <2>1 DEF Launched
  <2> QED
    BY <2>1, <2>2 DEF CountedInv
<1> QED
  BY <1>1, <1>2, <1>3, <1>4, <1>5, SweepStep, RemovalStep, DryStep, WorldStep
  DEF Next, Command, World

\* When the command ends, in good order or with an error, all that it listed to
\* remove and that still exists, and all that it took apart half-way, is among
\* what it reports as failed: for any resources, launches and removals meanwhile
\* (run of cleanup/cmd.go and the sweeps of pkg/common/aws).
THEOREM AllAccounted == Spec => []Accounted
<1>1. CountedInv => Accounted
  BY DEF CountedInv, Accounted
<1> QED
  BY <1>1, CountedInit, CountedStep, PTL DEF Spec
-----------------------------------------------------------------------------
(* OCM's pages.  The rank numbers any set of clusters from 1 on, in OCM's  *)
(* order, so pages cut it without gaps.                                    *)

\* Every cluster has a place of its own in OCM's order.
LEMMA Places ==
  /\ Len(Order) \in Nat
  /\ Place \in [Clusters -> 1 .. Len(Order)]
  /\ \A c, d \in Clusters : Place[c] = Place[d] => c = d
<1>1. DOMAIN Order = 1 .. Len(Order) /\ Len(Order) \in Nat
  BY CleanupAssumption
<1>2. ASSUME NEW c \in Clusters
      PROVE  Place[c] \in DOMAIN Order /\ Order[Place[c]] = c
  <2>1. \E i \in DOMAIN Order : Order[i] = c
    BY DEF Clusters, Range
  <2>2. Place[c] = CHOOSE i \in DOMAIN Order : Order[i] = c
    BY DEF Place
  <2>3. QED BY <2>1, <2>2
<1>3. QED BY <1>1, <1>2 DEF Place

\* OCM has finitely many clusters.
LEMMA ClustersFinite ==
  /\ IsFiniteSet(Clusters)
  /\ \A S \in SUBSET Clusters :
       IsFiniteSet(S) /\ Cardinality(S) \in Nat /\ Cardinality(S) <= Len(Order)
<1>1. Place \in Injection(Clusters, 1 .. Len(Order))
  BY Places DEF Injection, IsInjective
<1>2. /\ IsFiniteSet(1 .. Len(Order)) /\ Cardinality(1 .. Len(Order)) = Len(Order)
  <2>1. PICK n \in Nat : n = Len(Order)
    BY Places
  <2>2. IsFiniteSet(1 .. n) /\ Cardinality(1 .. n) = IF 1 > n THEN 0 ELSE n - 1 + 1
    BY FS_Interval
  <2>3. Cardinality(1 .. n) = n
    BY <2>2
  <2>4. QED BY <2>1, <2>2, <2>3
<1>3. IsFiniteSet(Clusters) /\ Cardinality(Clusters) <= Len(Order)
  BY <1>1, <1>2, FS_Injection
<1>4. ASSUME NEW S \in SUBSET Clusters
      PROVE  IsFiniteSet(S) /\ Cardinality(S) \in Nat /\ Cardinality(S) <= Len(Order)
  <2>1. IsFiniteSet(S) /\ Cardinality(S) <= Cardinality(Clusters)
    BY <1>3, FS_Subset
  <2>2. Cardinality(S) \in Nat /\ Cardinality(Clusters) \in Nat
    BY <1>3, <2>1, FS_CardinalityType
  <2>3. QED BY <1>3, <2>1, <2>2, Places
<1>5. QED BY <1>3, <1>4

\* A cluster's rank in a set lies between one and the size of the set.
LEMMA RankType ==
  ASSUME NEW S \in SUBSET Clusters, NEW c \in S
  PROVE  Rank(c, S) \in 1 .. Cardinality(S)
<1> DEFINE A == {d \in S : Place[d] <= Place[c]}
<1>1. /\ IsFiniteSet(S) /\ Cardinality(S) \in Nat
      /\ IsFiniteSet(A) /\ Cardinality(A) \in Nat
  BY ClustersFinite
<1>2. Cardinality(A) <= Cardinality(S)
  BY <1>1, FS_Subset
<1>3. c \in A
  BY Places
<1>4. Cardinality(A) # 0
  BY <1>1, <1>3, FS_EmptySet
<1>5. Rank(c, S) = Cardinality(A)
  BY DEF Rank
<1> HIDE DEF A
<1>6. QED BY <1>1, <1>2, <1>4, <1>5

\* No two clusters of a set have the same rank in it.
LEMMA RankInjective ==
  ASSUME NEW S \in SUBSET Clusters, NEW c \in S, NEW d \in S, Rank(c, S) = Rank(d, S)
  PROVE  c = d
<1>1. ASSUME NEW a \in S, NEW b \in S, Rank(a, S) = Rank(b, S), Place[a] <= Place[b]
      PROVE  a = b
  <2> DEFINE A == {e \in S : Place[e] <= Place[a]}
             B == {e \in S : Place[e] <= Place[b]}
  <2>1. A \subseteq B
    BY <1>1, Places
  <2>2. IsFiniteSet(B) /\ Cardinality(A) = Cardinality(B)
    BY <1>1, ClustersFinite DEF Rank
  <2>3. A = B
    BY <2>1, <2>2, FS_Subset
  <2>4. Place[b] <= Place[a]
    BY <2>3, Places
  <2>5. QED BY <1>1, <2>4, Places
<1>2. Place[c] <= Place[d] \/ Place[d] <= Place[c]
  BY Places
<1>3. QED BY <1>1, <1>2

\* Every number up to the size of a set is the rank of one of its clusters.
LEMMA RankOnto ==
  ASSUME NEW S \in SUBSET Clusters, NEW k \in 1 .. Cardinality(S)
  PROVE  \E c \in S : Rank(c, S) = k
<1> DEFINE n == Cardinality(S)
           f == [c \in S |-> Rank(c, S)]
<1>1. n \in Nat /\ IsFiniteSet(S)
  BY ClustersFinite
<1>2. f \in Injection(S, 1 .. n)
  BY RankType, RankInjective DEF Injection, IsInjective
<1>3. IsFiniteSet(1 .. n) /\ Cardinality(1 .. n) = n
  BY <1>1, FS_Interval
<1>4. f \in Surjection(S, 1 .. n)
  <2> HIDE DEF f
  <2> QED BY <1>2, <1>3, FS_Injection
<1>5. QED BY <1>4 DEF Surjection

\* A cluster that joins the list moves others back, never forward.
LEMMA RankGrows ==
  ASSUME NEW T \in SUBSET Clusters, NEW S \in SUBSET T, NEW c \in S
  PROVE  Rank(c, S) <= Rank(c, T)
BY ClustersFinite, FS_Subset DEF Rank

\* The pages up to one, and the pages before it.
LEMMA NextMultiple ==
  ASSUME NEW p \in Nat \ {0}
  PROVE  (p - 1) * PageSize \in Nat /\ p * PageSize = (p - 1) * PageSize + PageSize
BY CleanupAssumption

\* A page holds clusters of the set, and no more than fit on it.
LEMMA PageBound ==
  ASSUME NEW S \in SUBSET Clusters, NEW p \in Nat \ {0}
  PROVE  /\ Page(S, p) \subseteq S /\ IsFiniteSet(Page(S, p))
         /\ Cardinality(Page(S, p)) \in Nat /\ Cardinality(Page(S, p)) <= PageSize
<1> DEFINE lo == (p - 1) * PageSize
           hi == lo + PageSize
           f == [c \in Page(S, p) |-> Rank(c, S)]
<1>1. lo \in Nat /\ p * PageSize = hi /\ PageSize \in Nat /\ PageSize # 0
  BY NextMultiple, CleanupAssumption
<1>2. Page(S, p) \subseteq S
  BY DEF Page
<1>3. f \in Injection(Page(S, p), lo + 1 .. hi)
  <2>1. ASSUME NEW c \in Page(S, p) PROVE Rank(c, S) \in lo + 1 .. hi
    <3>1. Rank(c, S) \in Nat
      <4>1. Rank(c, S) \in 1 .. Cardinality(S)
        BY <1>2, RankType
      <4>2. QED BY <4>1, ClustersFinite
    <3>2. lo < Rank(c, S) /\ Rank(c, S) <= hi
      BY <1>1 DEF Page
    <3> HIDE DEF lo
    <3>3. QED BY <1>1, <3>1, <3>2
  <2>2. QED BY <1>2, <2>1, RankInjective DEF Injection, IsInjective
<1>4. IsFiniteSet(lo + 1 .. hi) /\ Cardinality(lo + 1 .. hi) = PageSize
  <2> HIDE DEF lo
  <2> QED BY <1>1, FS_Interval
<1>5. Cardinality(Page(S, p)) <= PageSize
  <2> HIDE DEF f, lo, hi
  <2> QED BY <1>3, <1>4, FS_Injection
<1>6. QED BY <1>2, <1>5, ClustersFinite

\* No page is empty before the last cluster was listed.
LEMMA EmptyPage ==
  ASSUME NEW S \in SUBSET Clusters, NEW p \in Nat \ {0}, Page(S, p) = {}
  PROVE  Cardinality(S) <= (p - 1) * PageSize
<1> DEFINE lo == (p - 1) * PageSize
<1>1. lo \in Nat /\ p * PageSize = lo + PageSize /\ PageSize \in Nat /\ PageSize # 0
  BY NextMultiple, CleanupAssumption
<1>2. Cardinality(S) \in Nat
  BY ClustersFinite
<1>3. SUFFICES ASSUME Cardinality(S) > lo PROVE FALSE
  BY <1>1, <1>2
<1>4. lo + 1 \in 1 .. Cardinality(S)
  <2> HIDE DEF lo
  <2> QED BY <1>1, <1>2, <1>3
<1>5. PICK c \in S : Rank(c, S) = lo + 1
  BY <1>4, RankOnto
<1>6. c \in Page(S, p)
  <2>1. lo < lo + 1 /\ lo + 1 <= lo + PageSize
    <3> HIDE DEF lo
    <3> QED BY <1>1
  <2>2. QED BY <1>1, <1>5, <2>1 DEF Page
<1>7. QED BY <1>6
-----------------------------------------------------------------------------
(* Types.                                                                  *)

TypeInv ==
  /\ TypeOK
  /\ list.owned \subseteq Ours
  /\ doomed \subseteq IF pc = "sweep" THEN Resources ELSE Clusters

\* run has nine steps.
LEMMA StepsDomain == DOMAIN Steps = 1 .. 9 /\ Len(Steps) = 9
BY DEF Steps

\* The listing that has not begun is one, with nothing collected.
LEMMA NoListType == NoList \in Listing /\ NoList.owned = {}
BY CleanupAssumption, Places DEF NoList, Listing, LastPage

\* The listing in progress has the fields of one.
LEMMA ListType ==
  ASSUME TypeOK
  PROVE  /\ list \in Listing /\ list.env \in Envs
         /\ list.count \in Nat /\ list.total \in Nat
         /\ list.page \in Nat \ {0} /\ list.page \in 1 .. LastPage
         /\ list.owned \subseteq Clusters /\ list.items \subseteq Clusters
         /\ list.empty \in BOOLEAN
BY Places DEF TypeOK, Listing, LastPage

\* The page after this one is no page beyond the last.
LEMMA NextPageType == TypeOK => NextPage \in 1 .. LastPage
BY Places DEF TypeOK, Listing, NextPage, LastPage

\* The clusters of an environment.
LEMMA KnownType ==
  ASSUME NEW e
  PROVE  /\ Known(e) \subseteq Clusters /\ Subscribed(e) \subseteq Known(e) \cap Ours
         /\ Cardinality(Known(e)) \in Nat /\ Cardinality(Subscribed(e)) \in Nat
BY ClustersFinite DEF Known, Subscribed

\* Going on to the next step of run.
LEMMA NextStepType ==
  ASSUME TypeOK, NextStep
  PROVE  pc' \in PCs \ {"sweep"} /\ at' \in DOMAIN Steps
BY StepsDomain DEF TypeOK, NextStep, PCs, Over

\* Coming back from DeleteCluster.
LEMMA ReturnType ==
  ASSUME TypeOK, NEW ok, Return(ok)
  PROVE  /\ pc' \in PCs \ {"sweep"} /\ at' \in DOMAIN Steps
         /\ goal' \in Clusters \cup {Nobody} /\ copy' \in Listed \cup {"nil"}
         /\ polls' \in 0 .. Polls
<1>1. pc' \in PCs \ {"sweep"} /\ at' \in DOMAIN Steps
  BY NextStepType DEF Return, TypeOK, PCs, Over
<1>2. QED BY <1>1, CleanupAssumption DEF Return

\* The types hold before the command starts.
LEMMA TypeInit == Init => TypeInv
<1> SUFFICES ASSUME Init PROVE TypeInv
  OBVIOUS
<1>1. ocm \in [Clusters -> Listed \cup {"absent", "gone"}]
  BY CleanupAssumption DEF Init, Listed
<1>2. aws \subseteq Resources
  BY DEF Init, UsedBy
<1>3. at \in DOMAIN Steps /\ polls \in 0 .. Polls
  BY StepsDomain, CleanupAssumption DEF Init
<1>4. jammed \subseteq aws
  BY DEF Init
<1>5. QED BY <1>1, <1>2, <1>3, <1>4, NoListType DEF Init, TypeInv, TypeOK, PCs

\* What the steps that neither list, sweep nor delete have in common.
LEMMA ControlType ==
  ASSUME TypeInv, UNCHANGED <<conf, ocm, cloud, cached, toAsk, list, active, failed, history>>,
         pc' \in PCs, at' \in DOMAIN Steps,
         goal' \in Clusters \cup {Nobody}, copy' \in Listed \cup {"nil"}, polls' \in 0 .. Polls,
         doomed' \subseteq Clusters, pc' # "sweep"
  PROVE  TypeInv'
BY DEF TypeInv, TypeOK, cloud, history

\* The collection of the active clusters keeps the types.
LEMMA TypeListing ==
  ASSUME TypeInv, Connect \/ ListSubscriptions \/ ListClusters \/ ListingFails
  PROVE  TypeInv'
<1> USE DEF TypeInv
<1>1. /\ UNCHANGED <<conf, at, ocm, aws, bare, jammed, failed, goal, copy, polls, picked,
                     shaken, late, harmed>>
      /\ doomed \subseteq Clusters
  BY DEF Connect, ListSubscriptions, ListClusters, ListingFails, cloud, deletion, history
<1>2. ASSUME Connect PROVE TypeInv'
  <2>1. /\ list' \in Listing /\ list'.owned \subseteq Ours
    <3>1. ASSUME NEW e \in Envs PROVE LET l == [NoList EXCEPT !.env = e]
                                      IN  l \in Listing /\ l.owned = {}
      BY NoListType DEF Listing
    <3>2. list' = list \/ \E e \in Envs : list' = [NoList EXCEPT !.env = e]
      BY <1>2 DEF Connect
    <3>3. QED BY <3>1, <3>2 DEF TypeOK
  <2>2. /\ cached' \subseteq Envs /\ toAsk' = cached' /\ silent' \subseteq Envs
        /\ pc' \in {"failed", "subscriptions"} /\ UNCHANGED <<active, doomed>>
    BY <1>2 DEF Connect
  <2>3. QED BY <1>1, <2>1, <2>2 DEF TypeOK, PCs, Over
<1>3. ASSUME ListSubscriptions PROVE TypeInv'
  <2> DEFINE S == Subscribed(list.env)
             new == Page(S, list.page)
             done == list.count + Cardinality(new) >= Cardinality(S) \/ new = {}
             n == IF done THEN 0 ELSE list.count + Cardinality(new)
             q == IF done THEN 1 ELSE NextPage
  <2>1. S \in SUBSET Clusters /\ S \subseteq Ours
    BY KnownType
  <2>2. new \subseteq Clusters \cap Ours /\ Cardinality(new) \in Nat
    BY <2>1, PageBound, ListType
  <2>3. n \in Nat /\ q \in 1 .. LastPage
    BY <2>2, NextPageType, ListType, Places DEF LastPage
  <2>a. list' = [list EXCEPT !.owned = @ \cup new, !.count = n, !.page = q]
    BY <1>3, ListType DEF ListSubscriptions
  <2> HIDE DEF n, q, new
  <2>b. list' \in Listing /\ list'.owned \subseteq Ours
    BY <2>2, <2>3, <2>a, ListType DEF Listing
  <2>4. pc' \in {"clusters", "subscriptions"} /\ UNCHANGED <<cached, toAsk, active, doomed, silent>>
    BY <1>3 DEF ListSubscriptions, history
  <2>5. QED BY <1>1, <2>b, <2>4 DEF TypeOK, PCs
<1>4. ASSUME AskNext, UNCHANGED <<cached, doomed>>, active' \subseteq Ours, silent' \subseteq Envs
      PROVE TypeInv'
  <2>1. list' \in Listing /\ list'.owned \subseteq Ours
    <3>1. ASSUME NEW e \in Envs PROVE LET l == [NoList EXCEPT !.env = e]
                                      IN  l \in Listing /\ l.owned = {}
      BY NoListType DEF Listing
    <3>2. list' = NoList \/ \E e \in Envs : list' = [NoList EXCEPT !.env = e]
      BY <1>4 DEF AskNext, TypeOK
    <3>3. QED BY <3>1, <3>2, NoListType
  <2>2. toAsk' \subseteq cached /\ pc' \in {"step", "subscriptions"}
    BY <1>4 DEF AskNext, TypeOK
  <2>3. QED BY <1>1, <1>4, <2>1, <2>2 DEF TypeOK, PCs
<1>5. ASSUME ListClusters PROVE TypeInv'
  <2> DEFINE new == Page(Known(list.env), list.page)
             l == Got(new)
  <2>1. new \subseteq Clusters /\ Cardinality(new) \in Nat
    <3>1. Known(list.env) \in SUBSET Clusters
      BY KnownType
    <3>2. QED BY <3>1, PageBound, ListType
  <2>2. l \in Listing /\ l.owned = list.owned
    <3> DEFINE n == list.count + Cardinality(new)
               t == IF list.page = 1 /\ list.count = 0 /\ ~list.empty
                    THEN Cardinality(Known(list.env)) ELSE list.total
               b == list.empty \/ new = {}
    <3>1. n \in Nat /\ t \in Nat /\ b \in BOOLEAN
      BY <2>1, KnownType, ListType
    <3>2. l = [list EXCEPT !.items = @ \cup new, !.count = n, !.total = t,
                           !.empty = b, !.page = NextPage]
      BY ListType DEF Got
    <3> HIDE DEF n, t, b, new, l
    <3>3. QED BY <2>1, <3>1, <3>2, NextPageType, ListType DEF Listing
  <2>3. l.owned \subseteq Ours
    BY <2>2
  <2> HIDE DEF new
  <2>4. Owned(l) \subseteq Ours \cap Clusters
    BY <2>2, <2>3 DEF Owned, Listing
  <2>5. UNCHANGED <<cached, silent>>
    BY <1>5 DEF ListClusters, history
  <2> USE DEF new
  <2> HIDE DEF l
  <2>6. CASE list' = l /\ UNCHANGED <<pc, toAsk, active, doomed>>
    BY <1>1, <2>2, <2>3, <2>5, <2>6 DEF TypeOK
  <2>7. CASE active' = active \cup Owned(l) /\ AskNext /\ UNCHANGED doomed
    BY <1>4, <2>4, <2>5, <2>7 DEF TypeOK
  <2>8. CASE /\ doomed' = Owned(l) \cap conf.old
             /\ pc' = "delete" /\ list' = NoList
             /\ UNCHANGED <<toAsk, active>>
    BY <1>1, <2>4, <2>5, <2>8, NoListType DEF TypeOK, PCs
  <2>9. QED BY <1>5, <2>6, <2>7, <2>8 DEF ListClusters, l
<1>6. ASSUME ListingFails PROVE TypeInv'
  <2>1. UNCHANGED <<cached, active, doomed>>
    BY <1>6 DEF ListingFails
  <2>2. CASE AskNext /\ silent' = silent \cup {list.env}
    BY <1>4, <2>1, <2>2 DEF TypeOK, Listing
  <2>3. CASE pc' = "failed" /\ list' = NoList /\ UNCHANGED <<toAsk, silent>>
    BY <1>1, <2>1, <2>3, NoListType DEF TypeOK, PCs, Over
  <2>4. QED BY <1>6, <2>2, <2>3 DEF ListingFails
<1>7. QED BY <1>2, <1>3, <1>5, <1>6

\* A sweep keeps the types.
LEMMA TypeSweep ==
  ASSUME TypeInv, Sweep \/ DrySweep \/ SweepOne
  PROVE  TypeInv'
<1> USE DEF TypeInv
<1>1. /\ UNCHANGED <<conf, at, ocm, cached, toAsk, list, active, goal, copy, polls,
                     silent, shaken, late>>
      /\ pc' = "sweep"
  BY DEF Sweep, DrySweep, SweepOne, deletion, history
<1>2. ASSUME Sweep PROVE TypeInv'
  <2>1. doomed' \subseteq Resources /\ failed' \subseteq Resources
    BY <1>2 DEF Sweep, TypeOK
  <2>2. picked' \subseteq Resources /\ UNCHANGED <<aws, bare, jammed, harmed>>
    BY <1>2, <2>1 DEF Sweep, TypeOK, cloud
  <2>3. QED BY <1>1, <2>1, <2>2 DEF TypeOK, PCs
<1>3. ASSUME DrySweep PROVE TypeInv'
  <2>1. doomed' = {} /\ failed' \subseteq failed \cup doomed /\ doomed \subseteq Resources
    BY <1>3 DEF DrySweep
  <2>2. UNCHANGED <<aws, bare, jammed, picked, harmed>>
    BY <1>3 DEF DrySweep, cloud, history
  <2>3. QED BY <1>1, <2>1, <2>2 DEF TypeOK, PCs
<1>4. ASSUME SweepOne PROVE TypeInv'
  <2>1. PICK r \in doomed :
          /\ doomed' = doomed \ {r}
          /\ \/ CleanupSecurityGroup(r) \/ CleanupVPC(r) \/ CleanupOpenIDConnectProvider(r)
             \/ CleanupRole(r) \/ CleanupS3Bucket(r) \/ TerminateEC2Instance(r)
             \/ ReleaseElasticIP(r)
    BY <1>4 DEF SweepOne
  <2>2. r \in Resources /\ doomed' \subseteq Resources /\ UNCHANGED picked
    BY <1>4, <2>1 DEF SweepOne
  <2>3. /\ aws' \subseteq Resources /\ bare' \subseteq aws' /\ jammed' \subseteq aws'
        /\ failed' \subseteq Resources /\ harmed' \subseteq Resources
    <3>1. CASE Remove(r)
      BY <2>2, <3>1 DEF Remove, Touched, TypeOK
    <3>2. CASE Strip(r)
      BY <2>2, <3>2 DEF Strip, Touched, TypeOK
    <3>3. CASE NotRemoved(r)
      BY <2>2, <3>3 DEF NotRemoved, cloud, TypeOK
    <3>4. CASE /\ r \in aws /\ jammed' = jammed \cup {r} /\ failed' = failed \cup {r}
               /\ UNCHANGED <<aws, bare, harmed>>
      BY <2>2, <3>4 DEF TypeOK
    <3>5. QED
      BY <2>1, <3>1, <3>2, <3>3, <3>4 DEF CleanupSecurityGroup, CleanupVPC,
         CleanupOpenIDConnectProvider, CleanupRole, CleanupS3Bucket,
         TerminateEC2Instance, ReleaseElasticIP
  <2>4. QED BY <1>1, <2>2, <2>3 DEF TypeOK, PCs
<1>5. QED BY <1>2, <1>3, <1>4

\* The deletion of clusters, and the way from step to step, keep the types.
LEMMA TypeDeletion ==
  ASSUME TypeInv,
         SkipStep \/ SessionFails \/ SweepFails \/ SweptAll \/ ListOld \/ PickOld
           \/ PickTarget \/ Find \/ Poll \/ Mark \/ Request
  PROVE  TypeInv'
<1> USE DEF TypeInv
<1>1. pc \in PCs /\ at \in DOMAIN Steps /\ goal \in Clusters \cup {Nobody}
      /\ copy \in Listed \cup {"nil"} /\ polls \in 0 .. Polls
      /\ ocm \in [Clusters -> Listed \cup {"absent", "gone"}]
      /\ Home \in Envs
  BY CleanupAssumption DEF TypeOK
<1>2. CASE SkipStep \/ SessionFails \/ SweepFails \/ SweptAll
  <2>1. /\ pc' \in PCs \ {"sweep"} /\ at' \in DOMAIN Steps
        /\ UNCHANGED <<goal, copy, polls>> /\ doomed' \subseteq Clusters
    BY <1>1, <1>2, NextStepType
    DEF SkipStep, SessionFails, SweepFails, SweptAll, deletion, PCs, Over
  <2>2. UNCHANGED <<conf, ocm, cloud, cached, toAsk, list, active, failed, history>>
    BY <1>2 DEF SkipStep, SessionFails, SweepFails, SweptAll
  <2>3. QED BY <1>1, <2>1, <2>2, ControlType
<1>3. CASE ListOld
  <2>1. list' \in Listing /\ list'.owned \subseteq Ours
    BY <1>3, NoListType DEF ListOld, TypeOK
  <2>2. /\ pc' \in {"subscriptions", "failed"} /\ doomed \subseteq Clusters
        /\ UNCHANGED <<conf, at, ocm, cloud, cached, toAsk, active, doomed, failed,
                       deletion, history>>
    BY <1>3 DEF ListOld
  <2>3. QED BY <2>1, <2>2 DEF TypeOK, PCs, Over, cloud, deletion, history
<1>4. CASE PickOld
  <2>1. /\ doomed' \subseteq Clusters /\ UNCHANGED <<copy, polls>>
        /\ UNCHANGED <<conf, ocm, cloud, cached, toAsk, list, active, failed, history>>
    BY <1>4 DEF PickOld
  <2>2. CASE NextStep /\ UNCHANGED goal
    BY <1>1, <2>1, <2>2, NextStepType, ControlType
  <2>3. CASE /\ \E c \in doomed : goal' = c /\ doomed' = doomed \ {c}
             /\ pc' = "find" /\ UNCHANGED at
    <3>1. pc = "delete" /\ goal' \in doomed
      BY <1>4, <2>3 DEF PickOld
    <3>2. doomed \subseteq Clusters
      BY <3>1
    <3>3. QED BY <1>1, <2>1, <2>3, <3>1, <3>2, ControlType DEF PCs
  <2>4. QED BY <1>4, <2>2, <2>3 DEF PickOld
<1>5. CASE PickTarget
  <2>1. /\ UNCHANGED <<copy, polls, doomed>> /\ doomed \subseteq Clusters
        /\ UNCHANGED <<conf, ocm, cloud, cached, toAsk, list, active, failed, history>>
    BY <1>5 DEF PickTarget
  <2>2. CASE NextStep /\ UNCHANGED goal
    BY <1>1, <2>1, <2>2, NextStepType, ControlType
  <2>3. CASE pc' \in {"find", "failed"} /\ goal' \in {goal, conf.target} /\ UNCHANGED at
    <3>1. conf.target \in Clusters
      BY CleanupAssumption DEF TypeOK, Config
    <3>2. QED BY <1>1, <2>1, <2>3, <3>1, ControlType DEF PCs, Over
  <2>4. QED BY <1>5, <2>2, <2>3 DEF PickTarget
<1>6. CASE Find \/ Poll \/ Mark
  <2>1. /\ UNCHANGED <<conf, ocm, cloud, cached, toAsk, list, active, doomed, failed, history>>
        /\ doomed \subseteq Clusters
    BY <1>6 DEF Find, Poll, Mark
  <2>2. ASSUME NEW ok \in BOOLEAN, Return(ok) PROVE TypeInv'
    BY <2>1, <2>2, ReturnType, ControlType
  <2>3. ASSUME NEW c \in Listed \cup {"nil"}, Judge(c), polls < Polls, pc = "poll" PROVE TypeInv'
    <3>1. CASE Return(FALSE)
      BY <2>2, <3>1
    <3>2. CASE pc' = "mark" /\ copy' = c /\ UNCHANGED <<at, goal, polls>>
      BY <1>1, <2>1, <3>2, ControlType DEF PCs
    <3>3. CASE copy' = c /\ polls' = polls + 1 /\ UNCHANGED <<pc, at, goal>>
      <4>1. polls' \in 0 .. Polls
        BY <1>1, <2>3, <3>3, CleanupAssumption
      <4>2. QED BY <1>1, <2>1, <2>3, <3>3, <4>1, ControlType DEF PCs
    <3>4. QED BY <2>3, <3>1, <3>2, <3>3 DEF Judge
  <2>4. CASE /\ copy' = ocm[goal] /\ ocm[goal] \in Listed /\ pc' = "poll"
             /\ UNCHANGED <<at, goal, polls>>
    BY <1>1, <2>1, <2>4, ControlType DEF PCs
  <2>5. CASE pc' \in {"panic", "request"} /\ UNCHANGED <<at, deletion>>
    BY <1>1, <2>1, <2>5, ControlType DEF PCs, Over, deletion
  <2>6. CASE Find
    BY <2>2, <2>4, <2>6 DEF Find, Gettable
  <2>7. CASE Poll
    <3>1. polls = Polls \/ polls < Polls
      BY <1>1, CleanupAssumption
    <3>2. Gettable(goal) => ocm[goal] \in Listed
      BY DEF Gettable
    <3>3. QED BY <1>1, <2>2, <2>3, <2>5, <2>7, <3>2 DEF Poll
  <2>8. CASE Mark
    BY <2>2, <2>5, <2>8 DEF Mark
  <2>9. QED BY <1>6, <2>6, <2>7, <2>8
<1>7. CASE Request
  <2>1. /\ UNCHANGED <<conf, aws, bare, jammed, cached, toAsk, list, active, doomed, failed,
                       picked, silent, shaken, late, harmed>>
        /\ doomed \subseteq Clusters
    BY <1>7 DEF Request, cloud, history
  <2>2. \E ok \in BOOLEAN : Return(ok)
    BY <1>7 DEF Request
  <2>3. ocm' \in [Clusters -> Listed \cup {"absent", "gone"}]
    BY <1>1, <1>7 DEF Request, Listed
  <2>4. /\ pc' \in PCs \ {"sweep"} /\ at' \in DOMAIN Steps
        /\ goal' \in Clusters \cup {Nobody} /\ copy' \in Listed \cup {"nil"}
        /\ polls' \in 0 .. Polls
    BY <2>2, ReturnType
  <2>5. QED BY <2>1, <2>3, <2>4 DEF TypeOK
<1>8. QED BY <1>2, <1>3, <1>4, <1>5, <1>6, <1>7

\* Other runs and OCM keep the types.
LEMMA TypeWorld ==
  ASSUME TypeInv, NEW c \in Clusters, Launch(c) \/ Change(c) \/ Leave(c)
  PROVE  TypeInv'
<1> USE DEF TypeInv
<1>1. UNCHANGED <<conf, pc, at, cached, toAsk, list, active, doomed, failed, goal, copy,
                  polls, picked, silent, harmed>>
  BY DEF Launch, Change, Leave, program, deletion
<1>2. ocm' \in [Clusters -> Listed \cup {"absent", "gone"}]
  BY DEF Launch, Change, Leave, TypeOK, Listed
<1>3. aws' \subseteq Resources /\ bare' \subseteq aws'
  BY DEF Launch, Change, Leave, TypeOK, UsedBy, cloud
<1>4. jammed' \subseteq aws'
  BY DEF Launch, Change, Leave, TypeOK, cloud
<1>5. late' \subseteq Clusters /\ shaken' \subseteq Envs
  BY ListType DEF Launch, Change, Leave, TypeOK
<1>6. QED BY <1>1, <1>2, <1>3, <1>4, <1>5 DEF TypeOK

\* TypeInv is inductive.
LEMMA TypeNext ==
  ASSUME TypeInv, [Next]_vars
  PROVE  TypeInv'
<1>1. CASE UNCHANGED vars
  BY <1>1 DEF vars, cloud, deletion, history, TypeInv, TypeOK
<1>2. QED
  BY <1>1, TypeListing, TypeSweep, TypeDeletion, TypeWorld DEF Next, Command, World

\* The command's, OCM's and AWS's variables keep their types (TypeOK), for any
\* clusters, environments and resources.  Two more facts make it inductive: what
\* is collected of an environment is the account's own, and what waits in doomed
\* is of the sort that the step in progress removes.
THEOREM TypeCorrect == Spec => []TypeOK
<1>1. TypeInv => TypeOK
  BY DEF TypeInv
<1>2. QED BY <1>1, TypeInit, TypeNext, PTL DEF Spec

-----------------------------------------------------------------------------
(* What the sweeps may rely on: a cluster that OCM lists for its account   *)
(* throughout the listing of its environment is among the active ones.     *)

\* So many of the listed clusters are on the pages read so far.
Seen == (list.page - 1) * PageSize

\* Those of S that are older than the listing and were on a page already are
\* among got.
Taken(S, got) == \A c \in S \ late : Rank(c, S) <= Seen => c \in got

\* No cluster is gone since the listing in progress began.
Undisturbed == Collecting /\ list.env \notin shaken

ReadingSubscriptions == pc = "subscriptions" /\ Undisturbed =>
  /\ list.count <= Seen /\ ~list.empty
  /\ Taken(Subscribed(list.env), list.owned)

ReadingClusters == pc = "clusters" /\ Undisturbed =>
  /\ Subscribed(list.env) \ late \subseteq list.owned
  /\ Taken(Known(list.env), list.items)
  /\ list.empty => Known(list.env) \ late \subseteq list.items

\* Of an environment that answered and was undisturbed nothing is missing.
Covered == pc # "connect" => \A e \in Envs \ (toAsk \cup silent \cup shaken) :
  Subscribed(e) \ late \subseteq active

Phases ==
  /\ Collecting => pc \in {"subscriptions", "clusters"} /\ list.env \in toAsk
  /\ pc = "connect" => harmed = {} /\ toAsk = {}

\* Nothing that an active cluster's name protects waits to be removed.
Unprotected == pc = "sweep" => \A r \in doomed :
  About[r].found \notin active \/ About[r].user = Nobody

SparedInv ==
  /\ TypeInv /\ Phases /\ ReadingSubscriptions /\ ReadingClusters
  /\ Covered /\ Unprotected /\ OnlyOrphans

\* All that was seen once page p was read, and nothing more.
LEMMA SeenPage ==
  ASSUME NEW S \in SUBSET Clusters, NEW c \in S, NEW p \in Nat \ {0},
         Rank(c, S) <= p * PageSize
  PROVE  Rank(c, S) <= (p - 1) * PageSize \/ c \in Page(S, p)
<1>1. Rank(c, S) \in Nat /\ (p - 1) * PageSize \in Nat
  <2>1. Rank(c, S) \in 1 .. Cardinality(S) /\ Cardinality(S) \in Nat
    BY RankType, ClustersFinite
  <2>2. QED BY <2>1, NextMultiple
<1> DEFINE lo == (p - 1) * PageSize
           k == Rank(c, S)
<1>2. k <= lo \/ lo < k
  <2> HIDE DEF lo, k
  <2>1. k \in Nat /\ lo \in Nat
    BY <1>1 DEF k, lo
  <2>2. QED BY <2>1
<1>3. QED BY <1>2 DEF Page

\* Every cluster is on the pages up to the last one.
LEMMA AllSeen ==
  ASSUME NEW S \in SUBSET Clusters, NEW c \in S
  PROVE  Rank(c, S) <= (LastPage - 1) * PageSize
<1>1. Rank(c, S) \in 1 .. Cardinality(S) /\ Cardinality(S) \in Nat
      /\ Cardinality(S) <= Len(Order) /\ Len(Order) \in Nat
  BY RankType, ClustersFinite, Places
<1>2. ASSUME NEW n \in Nat PROVE n <= n * PageSize
  BY CleanupAssumption
<1>3. Len(Order) <= (LastPage - 1) * PageSize /\ (LastPage - 1) * PageSize \in Nat
  <2>1. LastPage - 1 = Len(Order)
    BY <1>1 DEF LastPage
  <2>2. Len(Order) * PageSize \in Nat
    BY <1>1, CleanupAssumption
  <2>3. QED BY <1>1, <1>2, <2>1, <2>2
<1> DEFINE hi == (LastPage - 1) * PageSize
<1> HIDE DEF hi
<1>4. Rank(c, S) <= hi
  BY <1>1, <1>3 DEF hi
<1>5. QED BY <1>4 DEF hi

\* Before the command starts nothing was listed and nothing removed.
LEMMA SparedInit == Init => SparedInv
<1> SUFFICES ASSUME Init PROVE SparedInv
  OBVIOUS
<1>1. TypeInv
  BY TypeInit
<1>2. QED
  BY <1>1 DEF Init, SparedInv, Phases, ReadingSubscriptions, ReadingClusters, Covered,
     Unprotected, OnlyOrphans, Collecting

\* A step that no listing and no sweep takes part in.
LEMMA SparedElsewhere ==
  ASSUME SparedInv, TypeInv', ~Collecting, pc # "connect", pc' \notin {"connect", "sweep"},
         UNCHANGED <<toAsk, active, silent, shaken, late, harmed>>,
         \A e \in Envs : Known(e)' \subseteq Known(e)
  PROVE  SparedInv'
<1> USE DEF SparedInv
<1>1. ~Collecting' /\ ~Undisturbed'
  BY DEF Collecting, Undisturbed
<1>2. Phases' /\ ReadingSubscriptions' /\ ReadingClusters' /\ Unprotected'
  BY <1>1 DEF Phases, ReadingSubscriptions, ReadingClusters, Unprotected
<1>3. Covered'
  BY DEF Covered, Subscribed
<1>4. OnlyOrphans'
  BY DEF OnlyOrphans
<1>5. QED BY <1>2, <1>3, <1>4

\* Nothing was seen of an environment whose listing has not begun.
LEMMA FreshListing ==
  ASSUME NEW e \in Envs, list' = [NoList EXCEPT !.env = e]
  PROVE  /\ list'.env = e /\ list'.count = 0 /\ list'.empty = FALSE /\ Seen' = 0
         /\ \A S \in SUBSET Clusters : \A c \in S : ~ (Rank(c, S) <= 0)
<1>1. list'.env = e /\ list'.count = 0 /\ list'.empty = FALSE /\ list'.page = 1
  BY DEF NoList
<1>2. (1 - 1) * PageSize = 0
  BY CleanupAssumption
<1>3. ASSUME NEW S \in SUBSET Clusters, NEW c \in S PROVE ~ (Rank(c, S) <= 0)
  <2>1. Rank(c, S) \in 1 .. Cardinality(S) /\ Cardinality(S) \in Nat
    BY RankType, ClustersFinite
  <2>2. QED BY <2>1
<1>4. QED BY <1>1, <1>2, <1>3 DEF Seen

\* The command connects: what does not answer is silent, and nothing was seen of the rest.
LEMMA SparedConnect ==
  ASSUME SparedInv, TypeInv', Connect
  PROVE  SparedInv'
<1> USE DEF SparedInv
<1>1. /\ pc = "connect" /\ harmed' = {} /\ toAsk' \subseteq Envs
      /\ silent' = Envs \ toAsk' /\ pc' \in {"failed", "subscriptions"}
  BY DEF Connect, Phases
<1>2. CASE toAsk' = {}
  BY <1>1, <1>2 DEF Phases, ReadingSubscriptions, ReadingClusters, Undisturbed, Covered,
     Unprotected, OnlyOrphans, Collecting
<1>3. CASE toAsk' # {}
  <2>1. PICK e \in toAsk' : list' = [NoList EXCEPT !.env = e]
    BY <1>3 DEF Connect
  <2>2. e \in Envs /\ pc' = "subscriptions"
    BY <1>1, <1>3, <2>1 DEF Connect
  <2>3. /\ list'.env = e /\ list'.count = 0 /\ list'.empty = FALSE /\ Seen' = 0
        /\ \A S \in SUBSET Clusters : \A c \in S : ~ (Rank(c, S) <= 0)
    BY <2>1, <2>2, FreshListing
  <2>4. Subscribed(list.env)' \in SUBSET Clusters
    BY DEF Subscribed, Known
  <2>5. ReadingSubscriptions'
    BY <2>3, <2>4 DEF ReadingSubscriptions, Taken
  <2>6. Phases' /\ ReadingClusters' /\ Covered' /\ Unprotected' /\ OnlyOrphans'
    BY <1>1, <2>2, <2>3 DEF Phases, ReadingClusters, Covered, Unprotected, OnlyOrphans, Collecting
  <2>7. QED BY <2>5, <2>6
<1>4. QED BY <1>2, <1>3

\* A page of the subscriptions is read: with the last of them none is missing.
LEMMA SparedSubscriptions ==
  ASSUME SparedInv, TypeInv', ListSubscriptions
  PROVE  SparedInv'
<1> DEFINE S == Subscribed(list.env)
           new == Page(S, list.page)
           n == list.count + Cardinality(new)
           done == n >= Cardinality(S) \/ new = {}
           hi == list.page * PageSize
<1>1. /\ list \in Listing /\ list.count \in Nat /\ list.page \in Nat \ {0}
      /\ list.page \in 1 .. LastPage /\ LastPage \in Nat
  BY ListType, Places DEF SparedInv, TypeInv, LastPage
<1>2. /\ pc = "subscriptions" /\ pc' = IF done THEN "clusters" ELSE pc
      /\ UNCHANGED <<ocm, toAsk, active, silent, shaken, late, harmed>>
  BY DEF ListSubscriptions, history
<1>3. /\ list'.env = list.env /\ list'.empty = list.empty /\ list'.items = list.items
      /\ list'.owned = list.owned \cup new
      /\ list'.count = IF done THEN 0 ELSE n
      /\ list'.page = IF done THEN 1 ELSE NextPage
  BY <1>1 DEF ListSubscriptions, Listing
<1>4. Phases' /\ Covered' /\ Unprotected' /\ OnlyOrphans'
  BY <1>2, <1>3 DEF SparedInv, Phases, Covered, Unprotected, OnlyOrphans, Collecting,
     Subscribed, Known
<1>5. (Undisturbed' <=> Undisturbed) /\ S' = S /\ Known(list.env)' = Known(list.env)
  BY <1>2, <1>3 DEF Undisturbed, Collecting, Subscribed, Known
<1>6. CASE ~Undisturbed
  BY <1>4, <1>5, <1>6 DEF SparedInv, ReadingSubscriptions, ReadingClusters
<1>7. CASE Undisturbed
  <2>1. list.count <= Seen /\ ~list.empty /\ Taken(S, list.owned)
    BY <1>2, <1>7 DEF SparedInv, ReadingSubscriptions
  <2>2. S \in SUBSET Clusters /\ Known(list.env) \in SUBSET Clusters
    BY DEF Subscribed, Known
  <2>3. Seen \in Nat /\ hi = Seen + PageSize /\ hi \in Nat /\ PageSize \in Nat
    BY <1>1, NextMultiple, CleanupAssumption DEF Seen
  <2>4. Cardinality(new) \in Nat /\ Cardinality(new) <= PageSize /\ new \subseteq S
    BY <1>1, <2>2, PageBound
  <2>5. Cardinality(S) \in Nat /\ \A c \in S : Rank(c, S) \in 1 .. Cardinality(S)
    BY <2>2, ClustersFinite, RankType
  <2>6. n \in Nat /\ n <= hi
    <3> HIDE DEF hi, new
    <3> QED BY <1>1, <2>1, <2>3, <2>4
  <2>7. \A c \in S \ late : Rank(c, S) <= hi => c \in list.owned \cup new
    BY <1>1, <2>1, <2>2, SeenPage DEF Taken, Seen
  <2>8. CASE done
    <3>1. ASSUME NEW c \in S \ late PROVE c \in list.owned \cup new
      <4> HIDE DEF n, hi
      <4>1. CASE new = {}
        <5>1. Cardinality(S) <= Seen
          BY <1>1, <2>2, <4>1, EmptyPage DEF Seen
        <5>2. Rank(c, S) <= Seen
          BY <2>3, <2>5, <3>1, <5>1
        <5>3. QED BY <2>1, <3>1, <5>2 DEF Taken
      <4>2. CASE n >= Cardinality(S)
        <5>1. Rank(c, S) <= hi
          BY <2>3, <2>5, <2>6, <3>1, <4>2
        <5>2. QED BY <2>7, <3>1, <5>1
      <4>3. QED BY <2>8, <4>1, <4>2
    <3>2. pc' = "clusters" /\ list'.page = 1 /\ ~list'.empty
      BY <1>2, <1>3, <2>1, <2>8
    <3>3. Seen' = 0
      BY <3>2, CleanupAssumption DEF Seen
    <3>4. \A c \in Known(list.env) : ~ (Rank(c, Known(list.env)) <= 0)
      <4>1. \A c \in Known(list.env) :
              Rank(c, Known(list.env)) \in 1 .. Cardinality(Known(list.env))
        BY <2>2, RankType
      <4>2. Cardinality(Known(list.env)) \in Nat
        BY <2>2, ClustersFinite
      <4>3. QED BY <4>1, <4>2
    <3>5. Taken(Known(list.env), list.items)'
      BY <1>5, <3>3, <3>4 DEF Taken
    <3>6. Subscribed(list.env)' \ late' \subseteq list'.owned
      BY <1>2, <1>3, <1>5, <3>1
    <3>7. QED BY <1>4, <3>2, <3>5, <3>6 DEF SparedInv, ReadingSubscriptions, ReadingClusters
  <2>9. CASE ~done
    <3>1. new # {}
      BY <2>9
    <3>2. PICK c \in new : TRUE
      BY <3>1
    <3>3. list.page # LastPage
      <4>1. Rank(c, S) <= (LastPage - 1) * PageSize
        BY <2>2, <2>4, <3>2, AllSeen
      <4>2. Rank(c, S) > Seen /\ Rank(c, S) \in Nat
        BY <2>4, <2>5, <3>2 DEF Page, Seen
      <4>3. CASE list.page = LastPage
        <5>1. Rank(c, S) <= Seen
          BY <4>1, <4>3 DEF Seen
        <5>2. QED BY <2>3, <4>2, <5>1
      <4>4. QED BY <4>3
    <3>4. list'.page - 1 = list.page
      BY <1>1, <1>3, <2>9, <3>3 DEF NextPage
    <3>5. Seen' = hi
      BY <3>4 DEF Seen
    <3>6. pc' = "subscriptions" /\ list'.count = n
      BY <1>2, <1>3, <2>9
    <3>7. Taken(S, list.owned)'
      BY <1>2, <1>3, <1>5, <2>7, <3>5 DEF Taken
    <3>8. QED
      BY <1>3, <1>4, <2>1, <2>6, <3>5, <3>6, <3>7 DEF SparedInv, ReadingSubscriptions, ReadingClusters
  <2>10. QED BY <2>8, <2>9
<1>8. QED BY <1>6, <1>7

\* The listing of an environment is over, and nothing was seen of the next one.
LEMMA SparedAsk ==
  ASSUME SparedInv, TypeInv', Collecting, AskNext, UNCHANGED <<ocm, shaken, late, harmed>>,
         active \subseteq active', silent \subseteq silent',
         list.env \in silent' \cup shaken \/ Subscribed(list.env) \ late \subseteq active'
  PROVE  SparedInv'
<1>1. /\ toAsk \subseteq Envs /\ toAsk' = toAsk \ {list.env} /\ pc # "connect"
      /\ pc' \in {"step", "subscriptions"}
  BY DEF AskNext, SparedInv, TypeInv, TypeOK, Phases, Collecting
<1>2. Covered'
  <2>1. ASSUME NEW e \in Envs \ (toAsk' \cup silent' \cup shaken')
        PROVE  Subscribed(e)' \ late' \subseteq active'
    <3>1. Subscribed(e)' \ late' = Subscribed(e) \ late
      BY DEF Subscribed, Known
    <3>2. CASE e = list.env
      BY <2>1, <3>1, <3>2
    <3>3. CASE e # list.env
      BY <1>1, <2>1, <3>1, <3>3 DEF SparedInv, Covered
    <3>4. QED BY <3>2, <3>3
  <2>2. QED BY <2>1 DEF Covered
<1>3. OnlyOrphans' /\ Unprotected' /\ ReadingClusters'
  BY <1>1 DEF SparedInv, OnlyOrphans, Unprotected, ReadingClusters
<1>4. CASE toAsk' = {}
  <2>1. pc' # "subscriptions" \/ ~Undisturbed'
    BY <1>4 DEF Undisturbed, Collecting
  <2>2. QED
    BY <1>1, <1>2, <1>3, <1>4, <2>1 DEF SparedInv, Phases, ReadingSubscriptions, Collecting
<1>5. CASE toAsk' # {}
  <2>1. PICK e \in toAsk' : list' = [NoList EXCEPT !.env = e] /\ pc' = "subscriptions"
    BY <1>5 DEF AskNext
  <2>2. e \in Envs
    BY <1>1, <2>1
  <2>3. /\ list'.env = e /\ list'.count = 0 /\ list'.empty = FALSE /\ Seen' = 0
        /\ \A S \in SUBSET Clusters : \A c \in S : ~ (Rank(c, S) <= 0)
    BY <2>1, <2>2, FreshListing
  <2>4. Subscribed(list.env)' \in SUBSET Clusters
    BY DEF Subscribed, Known
  <2>5. ReadingSubscriptions'
    BY <2>3, <2>4 DEF ReadingSubscriptions, Taken
  <2>6. Phases'
    BY <2>1, <2>3 DEF Phases
  <2>7. QED BY <1>2, <1>3, <2>5, <2>6 DEF SparedInv
<1>6. QED BY <1>4, <1>5

\* A page of the clusters is read: by an empty one all that were there are known.
LEMMA SparedClusters ==
  ASSUME SparedInv, TypeInv', ListClusters
  PROVE  SparedInv'
<1> DEFINE K == Known(list.env)
           new == Page(K, list.page)
           l == Got(new)
           hi == list.page * PageSize
<1>1. /\ list \in Listing /\ list.page \in Nat \ {0}
      /\ list.page \in 1 .. LastPage /\ LastPage \in Nat
  BY ListType, Places DEF SparedInv, TypeInv, LastPage
<1>2. pc = "clusters" /\ UNCHANGED <<ocm, silent, shaken, late, harmed>>
  BY DEF ListClusters, history
<1>3. /\ l.env = list.env /\ l.owned = list.owned /\ l.items = list.items \cup new
      /\ l.empty = (list.empty \/ new = {}) /\ l.page = NextPage
  BY <1>1 DEF Got, Listing
<1>4. K \in SUBSET Clusters /\ new \subseteq K /\ Subscribed(list.env) \subseteq K
  BY <1>1, PageBound DEF Known, Subscribed
<1>5. Seen \in Nat /\ hi = Seen + PageSize /\ hi \in Nat /\ PageSize \in Nat
  BY <1>1, NextMultiple, CleanupAssumption DEF Seen
<1>6. Cardinality(K) \in Nat /\ \A c \in K : Rank(c, K) \in 1 .. Cardinality(K)
  BY <1>4, ClustersFinite, RankType
<1>7. ASSUME Undisturbed
      PROVE  /\ Subscribed(list.env) \ late \subseteq l.owned
             /\ l.empty => K \ late \subseteq l.items
             /\ \A c \in K \ late : Rank(c, K) <= (l.page - 1) * PageSize => c \in l.items
  <2>1. /\ Subscribed(list.env) \ late \subseteq list.owned
        /\ list.empty => K \ late \subseteq list.items
        /\ \A c \in K \ late : Rank(c, K) <= Seen => c \in list.items
    BY <1>2, <1>7 DEF SparedInv, ReadingClusters, Taken
  <2>2. ASSUME new = {} PROVE K \ late \subseteq list.items
    <3>1. Cardinality(K) <= Seen
      BY <1>1, <1>4, <2>2, EmptyPage DEF Seen
    <3>2. \A c \in K \ late : Rank(c, K) <= Seen
      <4> HIDE DEF K
      <4> QED BY <1>5, <1>6, <3>1
    <3> HIDE DEF K
    <3>3. QED BY <2>1, <3>2
  <2>3. l.empty => K \ late \subseteq l.items
    <3> HIDE DEF K, l, new
    <3> QED BY <1>3, <2>1, <2>2
  <2>4. \A c \in K \ late : Rank(c, K) <= hi => c \in l.items
    <3>1. \A c \in K : Rank(c, K) <= hi => Rank(c, K) <= Seen \/ c \in new
      BY <1>1, <1>4, SeenPage DEF Seen
    <3> HIDE DEF K, l, new, hi
    <3>2. QED BY <1>3, <2>1, <3>1
  <2>5. CASE list.page = LastPage
    <3>1. \A c \in K : Rank(c, K) <= Seen
      BY <1>4, <2>5, AllSeen DEF Seen
    <3> HIDE DEF K, l, new
    <3>2. K \ late \subseteq list.items
      BY <2>1, <3>1
    <3>3. QED BY <1>3, <2>1, <3>2
  <2>6. CASE list.page # LastPage
    <3>1. l.page - 1 = list.page
      BY <1>1, <1>3, <2>6 DEF NextPage
    <3>2. (l.page - 1) * PageSize = hi
      BY <3>1
    <3> HIDE DEF K, l, new, hi
    <3>3. QED BY <1>3, <2>1, <2>3, <2>4, <3>2
  <2>7. QED BY <2>5, <2>6
<1>8. CASE list' = l /\ UNCHANGED <<pc, toAsk, active, doomed>>
  <2> HIDE DEF l
  <2>1. (Undisturbed' <=> Undisturbed) /\ list'.env = list.env
    BY <1>2, <1>3, <1>8 DEF Undisturbed, Collecting
  <2>2. Phases' /\ Covered' /\ Unprotected' /\ OnlyOrphans' /\ ReadingSubscriptions'
    BY <1>2, <1>8, <2>1 DEF SparedInv, Phases, Covered, Unprotected, OnlyOrphans, Collecting,
       ReadingSubscriptions, Subscribed, Known
  <2>3. Known(list.env)' = K /\ Subscribed(list.env)' = Subscribed(list.env)
    BY <1>2, <2>1 DEF Known, Subscribed
  <2>4. Seen' = (l.page - 1) * PageSize
    BY <1>8 DEF Seen
  <2>5. ReadingClusters'
    <3> SUFFICES ASSUME Undisturbed' PROVE
          /\ Subscribed(list.env)' \ late' \subseteq list'.owned
          /\ Taken(Known(list.env), list.items)'
          /\ list'.empty => Known(list.env)' \ late' \subseteq list'.items
      BY DEF ReadingClusters
    <3> HIDE DEF K
    <3>1. Undisturbed
      BY <2>1
    <3>2. Taken(Known(list.env), list.items)'
      BY <1>2, <1>7, <1>8, <2>3, <2>4, <3>1 DEF Taken
    <3>3. QED BY <1>2, <1>7, <1>8, <2>3, <3>1, <3>2
  <2>6. QED BY <2>2, <2>5 DEF SparedInv
<1>9. CASE Enough(l) /\ Collecting /\ active' = active \cup Owned(l) /\ AskNext
  <2> HIDE DEF l
  <2>1. list.env \in silent' \cup shaken \/ Subscribed(list.env) \ late \subseteq active'
    BY <1>4, <1>7, <1>9 DEF Undisturbed, Enough, Owned
  <2>2. QED BY <1>2, <1>9, <2>1, SparedAsk
<1>10. CASE /\ ~Collecting /\ pc' = "delete" /\ UNCHANGED <<toAsk, active>>
  <2>1. \A e \in Envs : Known(e)' \subseteq Known(e)
    BY <1>2 DEF Known
  <2>2. QED BY <1>2, <1>10, <2>1, SparedElsewhere
<1>11. QED BY <1>8, <1>9, <1>10 DEF ListClusters

\* A listing fails, and its environment counts as silent.
LEMMA SparedFailure ==
  ASSUME SparedInv, TypeInv', ListingFails
  PROVE  SparedInv'
<1>1. /\ pc # "connect" /\ UNCHANGED <<ocm, active, shaken, late, harmed>>
  BY DEF ListingFails
<1>2. CASE Collecting /\ AskNext /\ silent' = silent \cup {list.env}
  BY <1>1, <1>2, SparedAsk
<1>3. CASE ~Collecting /\ pc' = "failed" /\ UNCHANGED <<toAsk, silent>>
  <2>1. \A e \in Envs : Known(e)' \subseteq Known(e)
    BY <1>1 DEF Known
  <2>2. QED BY <1>1, <1>3, <2>1, SparedElsewhere
<1>4. QED BY <1>2, <1>3 DEF ListingFails

\* A step within a sweep: what waits to be removed is still unprotected, and what
\* it did harm to had no cluster the command knew of.
LEMMA SparedSweeping ==
  ASSUME SparedInv, TypeInv', ~Collecting, pc \in {"step", "sweep"}, pc' = "sweep",
         UNCHANGED <<ocm, toAsk, active, silent, shaken, late>>,
         Unprotected', OnlyOrphans'
  PROVE  SparedInv'
<1>1. ~Collecting' /\ Phases' /\ ReadingSubscriptions' /\ ReadingClusters'
  BY DEF SparedInv, Collecting, Phases, ReadingSubscriptions, ReadingClusters
<1>2. Covered'
  BY DEF SparedInv, Covered, Subscribed, Known
<1>3. QED BY <1>1, <1>2 DEF SparedInv

\* A sweep sets out to remove what no active cluster's name protects, or what
\* nobody uses.
LEMMA OrphanedUnprotected ==
  ASSUME NEW r \in Resources, Orphaned(r)
  PROVE  About[r].found \notin active \/ About[r].user = Nobody
<1>1. About[r].kind \in Sweeps
  BY CleanupAssumption DEF Resource
<1>2. QED
  BY <1>1 DEF Orphaned, Sweeps, FromActiveCluster, OrphanedBucket, OrphanedProvider,
     OrphanedRole, OrphanedInstance, OrphanedStack, LeftoverGroup, LooseAddress

\* What a sweep removes or takes apart although a live cluster uses it: that
\* cluster is not one that the command collected.
LEMMA TouchedOrphan ==
  ASSUME SparedInv, ~Collecting, pc = "sweep", NEW r \in doomed,
         About[r].user # Nobody, ocm[About[r].user] \in Live
  PROVE  LET c == About[r].user IN
         \/ c \notin Ours \/ About[r].found # c \/ c \in late
         \/ EnvOf[c] \in silent \cup shaken
<1> DEFINE c == About[r].user
<1>1. r \in Resources
  BY DEF SparedInv, TypeInv
<1>2. c \in Clusters /\ EnvOf[c] \in Envs
  BY <1>1, CleanupAssumption DEF Resource
<1>3. c \in Known(EnvOf[c])
  BY <1>2 DEF Known, Live, Listed
<1>4. SUFFICES ASSUME c \in Ours, About[r].found = c, c \notin late,
                      EnvOf[c] \notin silent \cup shaken
               PROVE  FALSE
  OBVIOUS
<1>5. c \in Subscribed(EnvOf[c]) \ late
  BY <1>3, <1>4 DEF Subscribed
<1>6. EnvOf[c] \in Envs \ (toAsk \cup silent \cup shaken)
  BY <1>2, <1>4 DEF Collecting
<1>7. c \in active
  BY <1>5, <1>6 DEF SparedInv, Covered
<1>8. QED BY <1>4, <1>7 DEF SparedInv, Unprotected

\* The sweeps spare what belongs to the clusters that were collected.
LEMMA SparedSweep ==
  ASSUME SparedInv, TypeInv', Sweep \/ DrySweep \/ SweepOne
  PROVE  SparedInv'
<1>1. /\ ~Collecting /\ pc \in {"step", "sweep"} /\ pc' = "sweep"
      /\ UNCHANGED <<ocm, toAsk, active, silent, shaken, late>>
  BY DEF Sweep, DrySweep, SweepOne, history, SparedInv, Phases
<1>2. CASE Sweep
  <2>1. UNCHANGED harmed /\ \A r \in doomed' : r \in Resources /\ Orphaned(r)
    BY <1>2 DEF Sweep, SparedInv, TypeInv, TypeOK
  <2>2. Unprotected'
    BY <1>1, <2>1, OrphanedUnprotected DEF Unprotected
  <2>3. OnlyOrphans'
    BY <1>1, <2>1 DEF SparedInv, OnlyOrphans
  <2>4. QED BY <1>1, <2>2, <2>3, SparedSweeping
<1>3. CASE DrySweep
  <2>1. UNCHANGED harmed /\ doomed' = {}
    BY <1>3 DEF DrySweep, history
  <2>2. Unprotected' /\ OnlyOrphans'
    BY <1>1, <2>1 DEF SparedInv, Unprotected, OnlyOrphans
  <2>3. QED BY <1>1, <2>2, SparedSweeping
<1>4. CASE SweepOne
  <2>1. PICK r \in doomed :
          /\ doomed' = doomed \ {r}
          /\ harmed' = harmed \/ harmed' = Touched(r)
    BY <1>4 DEF SweepOne, CleanupSecurityGroup, CleanupVPC, CleanupOpenIDConnectProvider,
       CleanupRole, CleanupS3Bucket, TerminateEC2Instance, ReleaseElasticIP,
       Remove, Strip, NotRemoved
  <2>2. pc = "sweep"
    BY <1>4 DEF SweepOne
  <2>3. Unprotected'
    BY <1>1, <2>1, <2>2 DEF SparedInv, Unprotected
  <2>4. ASSUME NEW s \in harmed' PROVE
          LET c == About[s].user IN
          \/ c \notin Ours \/ About[s].found # c \/ c \in late
          \/ EnvOf[c] \in silent \cup shaken
    <3>1. CASE s \in harmed
      BY <3>1 DEF SparedInv, OnlyOrphans
    <3>2. CASE s \notin harmed
      <4>1. s = r /\ About[r].user # Nobody /\ ocm[About[r].user] \in Live
        BY <2>1, <2>4, <3>2 DEF Touched
      <4>2. QED BY <1>1, <2>2, <4>1, TouchedOrphan
    <3>3. QED BY <3>1, <3>2
  <2>5. OnlyOrphans'
    BY <1>1, <2>4 DEF OnlyOrphans
  <2>6. QED BY <1>1, <2>3, <2>5, SparedSweeping
<1>5. QED BY <1>2, <1>3, <1>4

\* The other steps of the command collect nothing and remove no resource; a
\* cluster they uninstall stays listed.
LEMMA SparedDeletion ==
  ASSUME SparedInv, TypeInv',
         SkipStep \/ SessionFails \/ SweepFails \/ SweptAll \/ ListOld \/ PickOld
           \/ PickTarget \/ Find \/ Poll \/ Mark \/ Request
  PROVE  SparedInv'
<1>1. /\ pc \in {"step", "sweep", "delete", "find", "poll", "mark", "request"}
      /\ UNCHANGED <<toAsk, active, silent, shaken, late, harmed>>
  BY DEF SkipStep, SessionFails, SweepFails, SweptAll, ListOld, PickOld, PickTarget,
     Find, Poll, Mark, Request, history
<1>2. ~Collecting /\ pc # "connect"
  BY <1>1 DEF SparedInv, Phases
<1>3. pc' \notin {"connect", "sweep"}
  BY DEF SkipStep, SessionFails, SweepFails, SweptAll, ListOld, PickOld, PickTarget,
     Find, Poll, Judge, Mark, Request, NextStep, Return
<1>4. ASSUME NEW e \in Envs PROVE Known(e)' \subseteq Known(e)
  <2>1. CASE UNCHANGED ocm
    BY <2>1 DEF Known
  <2>2. CASE Gettable(goal) /\ ocm' = [ocm EXCEPT ![goal] = "uninstalling"]
    <3>1. ocm \in [Clusters -> Listed \cup {"absent", "gone"}]
      BY DEF SparedInv, TypeInv, TypeOK
    <3>2. \A c \in Clusters : ocm'[c] \in Listed => ocm[c] \in Listed
      BY <2>2, <3>1 DEF Gettable
    <3>3. QED BY <3>2 DEF Known
  <2>3. QED
    BY <2>1, <2>2 DEF SkipStep, SessionFails, SweepFails, SweptAll, ListOld, PickOld,
       PickTarget, Find, Poll, Mark, Request
<1>5. QED BY <1>1, <1>2, <1>3, <1>4, SparedElsewhere

\* A cluster that joins the list while it is read is late and moves the others
\* back; one that leaves it marks the environment as shaken.
LEMMA WorldKnown ==
  ASSUME SparedInv, NEW c \in Clusters, Launch(c) \/ Change(c) \/ Leave(c), pc # "connect"
  PROVE  /\ late \subseteq late' /\ shaken \subseteq shaken'
         /\ \A e \in Envs \ toAsk : Known(e)' \ late' \subseteq Known(e) \ late
         /\ Known(list.env)' \ late' \subseteq Known(list.env) \ late
         /\ Undisturbed' => Undisturbed /\ Known(list.env) \subseteq Known(list.env)'
<1>1. /\ ocm \in [Clusters -> Listed \cup {"absent", "gone"}]
      /\ UNCHANGED <<pc, list, toAsk>>
  BY DEF SparedInv, TypeInv, TypeOK, Launch, Change, Leave, program
<1>2. shaken \subseteq shaken' /\ late \subseteq late'
  BY DEF Launch, Change, Leave
<1>3. Undisturbed' => Undisturbed
  BY <1>1, <1>2 DEF Undisturbed, Collecting
<1>4. CASE Launch(c)
  <2>1. \A e : Known(e)' = Known(e) \cup (IF EnvOf[c] = e THEN {c} ELSE {})
    BY <1>1, <1>4 DEF Launch, Known, Listed
  <2>2. EnvOf[c] \notin toAsk \/ list.env = EnvOf[c] => c \in late'
    BY <1>4 DEF Launch
  <2>3. QED BY <1>1, <1>2, <1>3, <2>1, <2>2
<1>5. CASE Change(c)
  <2>1. \A e : Known(e)' = Known(e)
    BY <1>1, <1>5 DEF Change, Known, Listed
  <2>2. late' = late
    BY <1>5 DEF Change
  <2>3. QED BY <1>1, <1>2, <1>3, <2>1, <2>2
<1>6. CASE Leave(c)
  <2>1. \A e : Known(e)' = Known(e) \ (IF EnvOf[c] = e THEN {c} ELSE {})
    BY <1>1, <1>6 DEF Leave, Known, Listed
  <2>2. late' = late
    BY <1>6 DEF Leave
  <2>3. Undisturbed' => EnvOf[c] # list.env
    BY <1>1, <1>3, <1>6 DEF Leave, Undisturbed, SparedInv, Phases
  <2>4. QED BY <1>1, <1>2, <1>3, <2>1, <2>2, <2>3
<1>7. QED BY <1>4, <1>5, <1>6

\* What was on the pages read so far stays read when others join the list.
LEMMA TakenStays ==
  ASSUME TypeInv, NEW T \in SUBSET Clusters, NEW S \in SUBSET T, NEW got,
         T \ late' \subseteq S \ late, Taken(S, got), UNCHANGED list
  PROVE  \A x \in T \ late' : Rank(x, T) <= Seen' => x \in got
<1>1. Seen \in Nat /\ Seen' = Seen
  BY ListType, NextMultiple DEF Seen, TypeInv
<1>2. ASSUME NEW x \in T \ late', Rank(x, T) <= Seen PROVE x \in got
  <2>1. x \in S \ late
    BY <1>2
  <2>2. Rank(x, S) <= Rank(x, T)
    BY <2>1, RankGrows
  <2>3. /\ Rank(x, S) \in 1 .. Cardinality(S) /\ Cardinality(S) \in Nat
        /\ Rank(x, T) \in 1 .. Cardinality(T) /\ Cardinality(T) \in Nat
    BY <2>1, RankType, ClustersFinite
  <2>4. Rank(x, S) <= Seen
    BY <1>1, <1>2, <2>2, <2>3
  <2>5. QED BY <2>1, <2>4 DEF Taken
<1>3. QED BY <1>1, <1>2

\* Other runs and OCM do not make a sweep unsafe.
LEMMA SparedWorld ==
  ASSUME SparedInv, TypeInv', NEW c \in Clusters, Launch(c) \/ Change(c) \/ Leave(c)
  PROVE  SparedInv'
<1>1. UNCHANGED <<pc, list, toAsk, active, doomed, silent, harmed>>
  BY DEF Launch, Change, Leave, program
<1>2. CASE pc = "connect"
  BY <1>1, <1>2 DEF SparedInv, Phases, ReadingSubscriptions, ReadingClusters, Covered,
     Unprotected, OnlyOrphans, Collecting
<1>3. CASE pc # "connect"
  <2> DEFINE K == Known(list.env)
             S == Subscribed(list.env)
  <2>1. /\ late \subseteq late' /\ shaken \subseteq shaken'
        /\ \A e \in Envs \ toAsk : Known(e)' \ late' \subseteq Known(e) \ late
        /\ K' \ late' \subseteq K \ late
        /\ Undisturbed' => Undisturbed /\ K \subseteq K'
    BY <1>1, <1>3, WorldKnown
  <2>2. Phases' /\ Unprotected' /\ OnlyOrphans'
    BY <1>1, <2>1 DEF SparedInv, Phases, Unprotected, OnlyOrphans, Collecting
  <2>3. Covered'
    <3>1. ASSUME NEW e \in Envs \ (toAsk \cup silent \cup shaken')
          PROVE  Subscribed(e)' \ late' \subseteq active
      <4>1. Subscribed(e)' \ late' \subseteq Subscribed(e) \ late
        BY <2>1, <3>1 DEF Subscribed
      <4>2. QED BY <1>3, <2>1, <3>1, <4>1 DEF SparedInv, Covered
    <3>2. QED BY <1>1, <3>1 DEF Covered
  <2>4. K' \in SUBSET Clusters /\ S' \in SUBSET Clusters /\ S' \ late' \subseteq S \ late
    BY <2>1 DEF Subscribed, Known
  <2>5. Undisturbed' => S \subseteq S'
    BY <2>1 DEF Subscribed
  <2>6. TypeInv
    BY DEF SparedInv
  <2>7. ReadingSubscriptions'
    <3> SUFFICES ASSUME pc' = "subscriptions", Undisturbed'
                 PROVE  /\ list'.count <= Seen' /\ ~list'.empty
                        /\ Taken(S, list.owned)'
      BY DEF ReadingSubscriptions
    <3>1. list.count <= Seen /\ ~list.empty /\ Taken(S, list.owned)
      BY <1>1, <2>1 DEF SparedInv, ReadingSubscriptions
    <3>2. Seen' = Seen
      BY <1>1 DEF Seen
    <3>3. \A x \in S' \ late' : Rank(x, S') <= Seen' => x \in list.owned
      <4> HIDE DEF S
      <4> QED BY <1>1, <2>4, <2>5, <2>6, <3>1, TakenStays
    <3>4. Taken(S, list.owned)'
      BY <1>1, <3>3 DEF Taken
    <3>5. QED BY <1>1, <3>1, <3>2, <3>4
  <2>8. ReadingClusters'
    <3> SUFFICES ASSUME pc' = "clusters", Undisturbed'
                 PROVE  /\ S' \ late' \subseteq list'.owned
                        /\ Taken(K, list.items)'
                        /\ list'.empty => K' \ late' \subseteq list'.items
      BY DEF ReadingClusters
    <3>1. /\ S \ late \subseteq list.owned /\ Taken(K, list.items)
          /\ list.empty => K \ late \subseteq list.items
      BY <1>1, <2>1 DEF SparedInv, ReadingClusters
    <3>2. \A x \in K' \ late' : Rank(x, K') <= Seen' => x \in list.items
      <4> HIDE DEF K
      <4> QED BY <1>1, <2>1, <2>4, <2>6, <3>1, TakenStays
    <3>3. Taken(K, list.items)'
      BY <1>1, <3>2 DEF Taken
    <3> HIDE DEF K, S
    <3>4. QED BY <1>1, <2>1, <2>4, <3>1, <3>3
  <2>9. TypeInv'
    OBVIOUS
  <2>10. QED BY <2>2, <2>3, <2>7, <2>8, <2>9 DEF SparedInv
<1>4. QED BY <1>2, <1>3

\* SparedInv is inductive.
LEMMA SparedNext ==
  ASSUME SparedInv, [Next]_vars
  PROVE  SparedInv'
<1>1. TypeInv'
  BY TypeNext DEF SparedInv
<1>2. CASE UNCHANGED vars
  <2>1. UNCHANGED <<pc, ocm, toAsk, list, active, doomed, silent, shaken, late, harmed>>
    BY <1>2 DEF vars, history
  <2>2. QED
    BY <1>1, <2>1 DEF SparedInv, Phases, ReadingSubscriptions, ReadingClusters, Covered,
       Unprotected, OnlyOrphans, Collecting, Undisturbed, Taken, Seen, Subscribed, Known
<1>3. CASE Next
  BY <1>1, <1>3, SparedConnect, SparedSubscriptions, SparedClusters, SparedFailure,
     SparedSweep, SparedDeletion, SparedWorld DEF Next, Command, World
<1>4. QED BY <1>2, <1>3

\* A resource that a sweep removed or took apart while a live cluster used it was
\* not one its name could tell the command of: the cluster is of another account,
\* or not the one the name yields, or its environment did not answer or lost a
\* cluster while its pages were read, or the cluster was launched since
\* (OnlyOrphans).  It holds for any clusters, pages of any size and any AWS: the
\* pages of OCM's answer, cut by rank, leave out no cluster that was there all
\* the time, so what is missing of the active ones is missing for one of these
\* reasons (collectActiveClusters of cleanup/cmd.go, ListClusters of
\* ocmprovider/cluster.go, the sweeps of pkg/common/aws).
THEOREM SparesActive == Spec => []OnlyOrphans
<1>1. SparedInv => OnlyOrphans
  BY DEF SparedInv
<1>2. QED BY <1>1, SparedInit, SparedNext, PTL DEF Spec
=============================================================================
