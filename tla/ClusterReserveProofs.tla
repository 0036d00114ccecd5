------------------------ MODULE ClusterReserveProofs ------------------------
(* Proofs about ClusterReserve, for any number of runs and clusters.       *)
EXTENDS ClusterReserve, FiniteSetTheorems, TLAPS

-----------------------------------------------------------------------------
(* Types.                                                                  *)

\* A run with nothing in scope holds a well-typed snapshot all the same.
LEMMA NothingType == Nothing \in Snapshot
BY DEF Nothing, Snapshot, Availability, Status

\* What GetCluster returns is a snapshot.
LEMMA ViewType == ASSUME TypeOK, NEW c \in Clusters PROVE View(c) \in Snapshot
BY DEF TypeOK, View, Record, Snapshot

\* A PATCH that OCM applies leaves its records well-typed.
LEMMA AppliedType ==
  ASSUME TypeOK, NEW j \in Jobs, NEW body \in Snapshot, Applied(j, body)
  PROVE  ocm' \in [Clusters -> Record]
<1> DEFINE c == target[j]
           r == [ocm[c] EXCEPT !.avail = body.avail, !.status = body.status]
<1>1. ocm' = [ocm EXCEPT ![c] = r]
  BY DEF Applied
<1>2. body.avail \in Availability /\ body.status \in Status
  BY DEF Snapshot
<1>3. CASE c \in Clusters
  <2>1. r \in Record
    BY <1>2, <1>3 DEF TypeOK, Record
  <2>2. QED BY <1>1, <2>1 DEF TypeOK
<1>4. CASE c \notin Clusters
  BY <1>1, <1>4 DEF TypeOK
<1>5. QED BY <1>3, <1>4

\* Each outcome of a PATCH keeps OCM's records, the snapshots and the count of
\* attempts well-typed.
LEMMA PatchType ==
  ASSUME TypeOK, NEW j \in Jobs, NEW body \in Snapshot,
         PatchAcked(j, body) \/ PatchRetried(j, body) \/ PatchFailed(j, body)
  PROVE  /\ ocm' \in [Clusters -> Record]
         /\ snap' \in [Jobs -> Snapshot]
         /\ tries' \in [Jobs -> 0 .. NumRetries - 1]
<1>1. ocm' \in [Clusters -> Record]
  BY AppliedType DEF PatchAcked, PatchRetried, PatchFailed, TypeOK
<1>2. Mutated(j, body)
  BY DEF PatchAcked, PatchRetried, PatchFailed
<1>3. snap' \in [Jobs -> Snapshot]
  BY <1>2, NothingType DEF Mutated, TypeOK
<1>4. tries' \in [Jobs -> 0 .. NumRetries - 1]
  BY CountsAssumption DEF PatchAcked, PatchRetried, PatchFailed, TypeOK
<1>5. QED BY <1>1, <1>3, <1>4

\* What every AddProperty leaves intact, whichever of its outcomes happens.
LEMMA AddPropertyType ==
  ASSUME TypeInv, NEW j \in Jobs, NEW from \in PCs \ {"idle", "launch", "end"},
         NEW body \in Snapshot, NEW ok \in PCs, NEW err \in PCs,
         AddProperty(j, from, body, ok, err)
  PROVE  TypeInv'
<1> USE DEF TypeInv
<1>1. /\ ocm' \in [Clusters -> Record]
      /\ snap' \in [Jobs -> Snapshot]
      /\ tries' \in [Jobs -> 0 .. NumRetries - 1]
  BY PatchType DEF AddProperty
<1>2. pc' \in [Jobs -> PCs]
  BY DEF AddProperty, Goto, TypeOK
<1>3. TypeOK'
  BY <1>1, <1>2 DEF AddProperty, TypeOK
<1>4. HasCluster'
  <2>1. target[j] \in Clusters
    BY DEF AddProperty, HasCluster
  <2>2. \A k \in Jobs \ {j} : pc'[k] = pc[k]
    BY DEF AddProperty, Goto, TypeOK
  <2>3. QED BY <2>1, <2>2 DEF AddProperty, HasCluster
<1>5. QED BY <1>3, <1>4

\* What a launched cluster is recorded as.
LEMMA NewClusterType == ASSUME NEW j \in Jobs PROVE NewCluster(j) \in Record
BY DEF NewCluster, Record, State, Availability, Status

\* A launch keeps the types.
LEMMA LaunchType == ASSUME TypeInv, NEW j \in Jobs, Launch(j) PROVE TypeInv'
<1> USE DEF TypeInv
<1>1. ocm' \in [Clusters -> Record]
  BY NewClusterType DEF Launch, TypeOK
<1>2. /\ pc' \in [Jobs -> PCs]
      /\ target' \in [Jobs -> Clusters \cup {NoCluster}]
  <2>1. pc' \in [Jobs -> PCs]
    <3>1. Goto(j, "fetch") \/ Goto(j, "end") \/ UNCHANGED pc
      BY DEF Launch
    <3>2. "fetch" \in PCs /\ "end" \in PCs /\ pc \in [Jobs -> PCs]
      BY DEF PCs, TypeOK
    <3> QED
      BY <3>1, <3>2 DEF Goto
  <2>2. target' \in [Jobs -> Clusters \cup {NoCluster}]
    BY DEF Launch, TypeOK
  <2> QED
    BY <2>1, <2>2
<1>3. tries' \in [Jobs -> 0 .. NumRetries - 1]
  BY CountsAssumption DEF Launch, TypeOK
<1>4. HasCluster'
  BY DEF Launch, HasCluster, Goto, TypeOK
<1>5. QED BY <1>1, <1>2, <1>3, <1>4 DEF Launch, TypeOK

\* The end of a run's process keeps the types.
LEMMA ExitedType == ASSUME TypeInv, NEW j \in Jobs, Exited(j) PROVE TypeInv'
<1> USE DEF TypeInv
<1>1. /\ snap' \in [Jobs -> Snapshot]
      /\ first' \in [Jobs -> Snapshot]
  BY NothingType DEF Exited, TypeOK
<1>2. tries' \in [Jobs -> 0 .. NumRetries - 1]
  BY CountsAssumption DEF Exited, TypeOK
<1>3. todo' \in [Jobs -> SUBSET FinalTags]
  BY DEF Exited, TypeOK
<1>4. /\ pc' \in [Jobs -> PCs]
      /\ target' \in [Jobs -> Clusters \cup {NoCluster}]
      /\ ocm' \in [Clusters -> Record]
  BY DEF Exited, Goto, PCs, TypeOK
<1>5. HasCluster'
  BY DEF Exited, Goto, HasCluster, TypeOK
<1>6. QED BY <1>1, <1>2, <1>3, <1>4, <1>5 DEF TypeOK

\* A step of run j that moves it to pc l with the target it has, leaving
\* OCM's records alone.
LEMMA LocalType ==
  ASSUME TypeInv, NEW j \in Jobs, NEW l \in PCs, Goto(j, l),
         UNCHANGED <<ocm, target, tries, todo>>,
         pc[j] \notin {"idle", "launch", "end"} \/ l = "launch",
         snap' \in [Jobs -> Snapshot], first' \in [Jobs -> Snapshot]
  PROVE  TypeInv'
BY DEF TypeInv, TypeOK, HasCluster, Goto

\* The typing of a state in which every run past obtaining a cluster has one.
LEMMA TypeInit == Init => TypeInv
  BY NothingType, ClustersAssumption, CountsAssumption
  DEF Init, TypeInv, TypeOK, HasCluster, Record, State, Availability, Status, PCs

\* TypeInv is inductive.
LEMMA TypeNext == TypeInv /\ [Next]_vars => TypeInv'
<1> SUFFICES ASSUME TypeInv, [Next]_vars PROVE TypeInv'
  OBVIOUS
<1> USE NothingType
<1> TypeOK /\ HasCluster
  BY DEF TypeInv
<1>1. ASSUME NEW j \in Jobs, Start(j) PROVE TypeInv'
  <2>1. CASE QueryForClaim(j)
    <3>1. Candidates \subseteq Clusters
      BY DEF Candidates, Reserved, InReserve
    <3>2. CASE Goto(j, "launch") /\ UNCHANGED <<target, snap>>
      BY <2>1, <3>2 DEF QueryForClaim, Goto, PCs, TypeInv, TypeOK, HasCluster
    <3>3. ASSUME NEW c \in Candidates,
                 target' = [target EXCEPT ![j] = c],
                 snap' = [snap EXCEPT ![j] = View(c)],
                 Goto(j, "claim")
          PROVE  TypeInv'
      <4>1. View(c) \in Snapshot /\ c \in Clusters
        BY <3>1, <3>3, ViewType
      <4>2. QED
        BY <2>1, <3>3, <4>1
        DEF QueryForClaim, Goto, PCs, TypeInv, TypeOK, HasCluster
    <3>4. QED BY <2>1, <3>2, <3>3 DEF QueryForClaim
  <2>2. CASE CheckReserve(j)
    BY <2>2 DEF CheckReserve, Goto, PCs, TypeInv, TypeOK, HasCluster
  <2>3. QED BY <1>1, <2>1, <2>2 DEF Start
<1>2. ASSUME NEW j \in Jobs, Step(j) PROVE TypeInv'
  <2> snap[j] \in Snapshot /\ first[j] \in Snapshot
    BY DEF TypeOK
  <2> DEFINE later == [snap[j] EXCEPT !.status = "later"]
  <2> later \in Snapshot
    BY DEF Snapshot, Status
  <2> HIDE DEF later
  <2>a. pc[j] \notin {"idle", "launch", "end"} => View(target[j]) \in Snapshot
    BY ViewType DEF HasCluster
  <2>1. CASE ExtensionFails(j)
    BY <2>1 DEF ExtensionFails, Goto, PCs, TypeInv, TypeOK, HasCluster
  <2>2. CASE Claim(j)
    <3> DEFINE body == [snap[j] EXCEPT !.avail = "claimed"]
    <3>1. body \in Snapshot
      BY DEF Snapshot, Availability
    <3>2. \/ PatchAcked(j, body) \/ PatchRetried(j, body) \/ PatchFailed(j, body)
      BY <2>2 DEF Claim
    <3> HIDE DEF body
    <3>3. /\ ocm' \in [Clusters -> Record]
          /\ snap' \in [Jobs -> Snapshot]
          /\ tries' \in [Jobs -> 0 .. NumRetries - 1]
      BY <3>1, <3>2, PatchType
    <3>4. QED
      BY <2>2, <3>3 DEF Claim, Goto, PCs, TypeInv, TypeOK, HasCluster
  <2>3. CASE TagClaim(j)
    BY <2>3, AddPropertyType DEF TagClaim, PCs
  <2>4. CASE Launch(j)
    BY <2>4, LaunchType
  <2>5. CASE Fetch(j)
    BY <2>5, <2>a DEF Fetch, Goto, PCs, TypeInv, TypeOK, HasCluster
  <2>6. CASE Poll(j)
    BY <2>6, <2>a DEF Poll, Goto, PCs, TypeInv, TypeOK, HasCluster
  <2>7. CASE MarkWaiting(j)
    BY <2>7, AddPropertyType DEF MarkWaiting, PCs, later
  <2>8. CASE MarkHealthCheck(j)
    BY <2>8, AddPropertyType DEF MarkHealthCheck, PCs, later
  <2>9. CASE WaitTimeout(j)
    BY <2>9, LocalType DEF WaitTimeout, PCs, TypeOK
  <2>10. CASE UseFirst(j)
    BY <2>10 DEF UseFirst, Goto, PCs, TypeInv, TypeOK, HasCluster
  <2>11. CASE MarkUpgrade(j)
    BY <2>11, AddPropertyType DEF MarkUpgrade, PCs
  <2>12. CASE HealthFetch(j)
    BY <2>12, <2>a DEF HealthFetch, Goto, PCs, TypeInv, TypeOK, HasCluster
  <2>13. CASE MarkHealthy(j)
    BY <2>13, AddPropertyType DEF MarkHealthy, PCs, later
  <2>14. CASE HealthFails(j)
    BY <2>14 DEF HealthFails, Goto, PCs, TypeInv, TypeOK, HasCluster
  <2>15. CASE Kubeconfig(j)
    BY <2>15, LocalType DEF Kubeconfig, PCs, TypeOK
  <2>16. CASE PostFetch(j)
    <3>1. "post" \in PCs /\ "cleanup" \in PCs /\ TypeOK /\ HasCluster
      BY DEF PCs, TypeInv
    <3>2. /\ Goto(j, "post") \/ Goto(j, "cleanup")
          /\ \/ snap' = snap
             \/ snap' = [snap EXCEPT ![j] = View(target[j])]
          /\ \/ todo' = todo
             \/ todo' = [todo EXCEPT ![j] = FinalTags]
          /\ UNCHANGED <<ocm, target, first, tries>> /\ pc[j] = "testing"
      BY <2>16 DEF PostFetch
    <3>3. snap' \in [Jobs -> Snapshot] /\ todo' \in [Jobs -> SUBSET FinalTags]
      BY <2>a, <3>1, <3>2 DEF TypeOK
    <3>4. pc' \in [Jobs -> PCs] /\ HasCluster'
      BY <3>1, <3>2 DEF Goto, TypeOK, HasCluster
    <3> QED
      BY <3>1, <3>2, <3>3, <3>4 DEF TypeInv, TypeOK
  <2>17. CASE PostMark(j)
    <3> PICK tag \in todo[j] : PostMark(j)!2!(tag)
      BY <2>17 DEF PostMark
    <3> DEFINE body == FinalBody(snap[j], tag)
    <3>1. body \in Snapshot
      BY DEF FinalBody, Snapshot, Availability, Status
    <3>2. \/ PatchAcked(j, body) \/ PatchRetried(j, body) \/ PatchFailed(j, body)
      OBVIOUS
    <3> HIDE DEF body
    <3>3. /\ ocm' \in [Clusters -> Record]
          /\ snap' \in [Jobs -> Snapshot]
          /\ tries' \in [Jobs -> 0 .. NumRetries - 1]
      BY <3>1, <3>2, PatchType
    <3>4. /\ UNCHANGED pc \/ Goto(j, "cleanup")
          /\ \/ todo' = [todo EXCEPT ![j] = todo[j] \ {tag}]
             \/ todo' = [todo EXCEPT ![j] = {}]
             \/ UNCHANGED todo
          /\ UNCHANGED <<target, first>> /\ pc[j] = "post"
      BY <2>17 DEF PostMark
    <3>5. "cleanup" \in PCs /\ TypeOK /\ HasCluster
      BY DEF PCs, TypeInv
    <3>6. pc' \in [Jobs -> PCs] /\ HasCluster'
      BY <3>4, <3>5 DEF Goto, TypeOK, HasCluster
    <3>7. todo' \in [Jobs -> SUBSET FinalTags]
      BY <3>4, <3>5 DEF TypeOK
    <3>8. QED
      BY <3>3, <3>4, <3>5, <3>6, <3>7 DEF TypeInv, TypeOK
  <2>18. CASE Cleanup(j)
    BY <2>18, <2>a DEF Cleanup, Goto, PCs, TypeInv, TypeOK, HasCluster
  <2>19. CASE MarkUninstalling(j)
    BY <2>19, AddPropertyType DEF MarkUninstalling, PCs, later
  <2>20. CASE Destroy(j)
    <3>1. ocm' \in [Clusters -> Record]
      BY <2>20 DEF Destroy, TypeOK, Record, State
    <3>2. QED
      BY <2>20, <3>1 DEF Destroy, Goto, PCs, TypeInv, TypeOK, HasCluster
  <2>21. CASE Exit(j)
    BY <2>21, ExitedType DEF Exit
  <2>22. QED
    BY <1>2, <2>1, <2>2, <2>3, <2>4, <2>5, <2>6, <2>7, <2>8, <2>9, <2>10,
       <2>11, <2>12, <2>13, <2>14, <2>15, <2>16, <2>17, <2>18, <2>19, <2>20,
       <2>21 DEF Step
<1>3. ASSUME NEW j \in Jobs, Kill(j) PROVE TypeInv'
  BY <1>3, ExitedType DEF Kill
<1>4. ASSUME NEW c \in Clusters, Install(c) \/ Expiry(c) PROVE TypeInv'
  <2>1. PICK s \in State : ocm' = [ocm EXCEPT ![c].state = s]
    BY <1>4 DEF Install, Expiry, State
  <2>2. ocm' \in [Clusters -> Record]
    BY <2>1 DEF TypeOK, Record
  <2>3. QED
    BY <1>4, <2>2 DEF Install, Expiry, TypeInv, TypeOK, HasCluster
<1>5. CASE UNCHANGED vars
  BY <1>5 DEF vars, TypeInv, TypeOK, HasCluster
<1>6. QED BY <1>1, <1>2, <1>3, <1>4, <1>5 DEF Next

\* The records and every run's variables keep their types (TypeOK of
\* ClusterReserve), for any number of runs, clusters and retries.  A snapshot
\* is typed because the run that takes it has a cluster (HasCluster).
THEOREM TypeCorrect == Spec => []TypeOK
<1>1. TypeInv => TypeOK
  BY DEF TypeInv
<1>2. QED BY <1>1, TypeInit, TypeNext, PTL DEF Spec

-----------------------------------------------------------------------------
(* What a run at work can do to anything that exclusive use depends on.    *)

Working == PCs \ {"idle", "claim", "launch", "end"}

Work(j) ==
  /\ target' = target
  /\ pc[j] \in Working /\ pc'[j] \in Working \cup {"end"}
  /\ \A k \in Jobs \ {j} : /\ pc'[k] = pc[k]
                          /\ snap'[k] = snap[k]
                          /\ first'[k] = first[k]
                          /\ tries'[k] = tries[k]
  /\ \A c \in Clusters :
       /\ ocm'[c].state \in {ocm[c].state, "gone"}
       /\ ocm'[c].maker = ocm[c].maker
       /\ \/ ocm'[c].avail = ocm[c].avail
          \/ c = target[j] /\ ocm'[c].avail \in {snap[j].avail, "used"}
  /\ snap'[j].avail \in {"none", "used", snap[j].avail, first[j].avail,
                        ocm[target[j]].avail}
  /\ first'[j].avail \in {"none", first[j].avail, ocm[target[j]].avail}

\* A PATCH changes the Availability of one cluster, to what its body says.
LEMMA AppliedEffect ==
  ASSUME TypeOK, NEW j \in Jobs, NEW body \in Snapshot,
         Applied(j, body) \/ UNCHANGED ocm, NEW c \in Clusters
  PROVE  /\ ocm'[c].state = ocm[c].state
         /\ ocm'[c].maker = ocm[c].maker
         /\ \/ ocm'[c].avail = ocm[c].avail
            \/ c = target[j] /\ ocm'[c].avail = body.avail
<1>1. ASSUME Applied(j, body)
      PROVE  /\ ocm'[c].state = ocm[c].state /\ ocm'[c].maker = ocm[c].maker
             /\ ocm'[c].avail = IF c = target[j] THEN body.avail ELSE ocm[c].avail
  <2> DEFINE r == [ocm[target[j]] EXCEPT !.avail = body.avail, !.status = body.status]
  <2>1. ocm' = [ocm EXCEPT ![target[j]] = r]
    BY <1>1 DEF Applied
  <2>2. CASE c = target[j]
    <3>1. ocm'[c] = r
      BY <2>1, <2>2 DEF TypeOK
    <3>2. ocm[c] \in Record
      BY DEF TypeOK
    <3>3. r.state = ocm[c].state /\ r.maker = ocm[c].maker /\ r.avail = body.avail
      BY <2>2, <3>2 DEF Record
    <3>4. QED BY <2>2, <3>1, <3>3
  <2>3. CASE c # target[j]
    BY <2>1, <2>3 DEF TypeOK
  <2>4. QED BY <2>2, <2>3
<1>2. QED BY <1>1

\* So a PATCH whose body says what the snapshot said, or used, is work.
LEMMA PatchWork ==
  ASSUME TypeOK, NEW j \in Jobs, NEW body \in Snapshot,
         PatchAcked(j, body) \/ PatchRetried(j, body) \/ PatchFailed(j, body),
         body.avail \in {snap[j].avail, "used"}, UNCHANGED <<target, first>>,
         pc[j] \in Working, UNCHANGED pc \/ \E l \in Working \cup {"end"} : Goto(j, l)
  PROVE  Work(j)
<1>1. Applied(j, body) \/ UNCHANGED ocm
  BY DEF PatchAcked, PatchRetried, PatchFailed
<1>2. \A c \in Clusters :
        /\ ocm'[c].state = ocm[c].state
        /\ ocm'[c].maker = ocm[c].maker
        /\ \/ ocm'[c].avail = ocm[c].avail
           \/ c = target[j] /\ ocm'[c].avail = body.avail
  BY <1>1, AppliedEffect
<1>3. snap' = [snap EXCEPT ![j] = IF pc'[j] \in SnapshotInScope THEN body ELSE Nothing]
  BY DEF PatchAcked, PatchRetried, PatchFailed, Mutated
<1>4. snap'[j].avail \in {"none", body.avail}
  BY <1>3 DEF TypeOK, Nothing
<1>5. /\ pc'[j] \in Working \cup {"end"}
      /\ \A k \in Jobs \ {j} :
           pc'[k] = pc[k] /\ snap'[k] = snap[k] /\ tries'[k] = tries[k]
  BY <1>3 DEF TypeOK, Goto, PatchAcked, PatchRetried, PatchFailed
<1>6. QED BY <1>2, <1>4, <1>5 DEF Work

\* AddProperty of any tag but Availability.
LEMMA AddPropertyWork ==
  ASSUME TypeOK, NEW j \in Jobs, NEW from \in Working, NEW body \in Snapshot,
         NEW ok \in Working \cup {"end"}, NEW err \in Working \cup {"end"},
         AddProperty(j, from, body, ok, err), body.avail = snap[j].avail
  PROVE  Work(j)
BY PatchWork DEF AddProperty

\* A step that does not call OCM to change anything.
LEMMA LocalWork ==
  ASSUME TypeOK, NEW j \in Jobs, UNCHANGED <<ocm, target, tries>>,
         NEW l \in Working \cup {"end"}, Goto(j, l), pc[j] \in Working,
         NEW s \in Snapshot, snap' = [snap EXCEPT ![j] = s],
         NEW f \in Snapshot, first' = [first EXCEPT ![j] = f],
         s.avail \in {"none", snap[j].avail, first[j].avail, ocm[target[j]].avail},
         f.avail \in {"none", first[j].avail, ocm[target[j]].avail}
  PROVE  Work(j)
BY DEF Work, Goto, TypeOK

\* Every step from obtaining a cluster to the end of the run is work.
LEMMA StepWorks ==
  ASSUME TypeInv, NEW j \in Jobs, Step(j),
         ~ (ExtensionFails(j) \/ Claim(j) \/ Launch(j) \/ Exit(j))
  PROVE  Work(j)
<1> TypeOK /\ HasCluster
  BY DEF TypeInv
<1> snap[j] \in Snapshot /\ first[j] \in Snapshot
  BY DEF TypeOK
<1> snap = [snap EXCEPT ![j] = snap[j]] /\ first = [first EXCEPT ![j] = first[j]]
  BY DEF TypeOK
<1> Nothing \in Snapshot /\ Nothing.avail = "none"
  BY NothingType DEF Nothing
<1> View(target[j]).avail = ocm[target[j]].avail
  BY DEF View
<1>a. pc[j] \in Working => View(target[j]) \in Snapshot
  BY ViewType DEF HasCluster, Working
<1> DEFINE later == [snap[j] EXCEPT !.status = "later"]
<1> later \in Snapshot /\ later.avail = snap[j].avail
  BY DEF Snapshot, Status
<1> HIDE DEF later
<1>1. CASE TagClaim(j)
  BY <1>1, AddPropertyWork DEF TagClaim, PCs, Working
<1>2. CASE Fetch(j)
  BY <1>2, <1>a, LocalWork DEF Fetch, PCs, Working
<1>3. CASE Poll(j)
  BY <1>3, <1>a, LocalWork DEF Poll, PCs, Working
<1>4. CASE MarkWaiting(j)
  BY <1>4, AddPropertyWork DEF MarkWaiting, PCs, Working, later
<1>5. CASE MarkHealthCheck(j)
  BY <1>5, AddPropertyWork DEF MarkHealthCheck, PCs, Working, later
<1>6. CASE WaitTimeout(j)
  BY <1>6, LocalWork DEF WaitTimeout, PCs, Working
<1>7. CASE UseFirst(j)
  BY <1>7, LocalWork DEF UseFirst, PCs, Working
<1>8. CASE MarkUpgrade(j)
  BY <1>8, AddPropertyWork DEF MarkUpgrade, PCs, Working
<1>9. CASE HealthFetch(j)
  BY <1>9, <1>a, LocalWork DEF HealthFetch, PCs, Working
<1>10. CASE MarkHealthy(j)
  BY <1>10, AddPropertyWork DEF MarkHealthy, PCs, Working, later
<1>11. CASE HealthFails(j)
  BY <1>11, LocalWork DEF HealthFails, PCs, Working
<1>12. CASE Kubeconfig(j)
  BY <1>12, LocalWork DEF Kubeconfig, PCs, Working
<1>13. CASE PostFetch(j)
  BY <1>13, <1>a, LocalWork DEF PostFetch, PCs, Working
<1>14. CASE PostMark(j)
  <2> PICK tag \in todo[j] : PostMark(j)!2!(tag)
    BY <1>14 DEF PostMark
  <2> DEFINE body == FinalBody(snap[j], tag)
  <2>1. body \in Snapshot /\ body.avail \in {snap[j].avail, "used"}
    BY DEF FinalBody, Snapshot, Availability, Status
  <2>2. \/ PatchAcked(j, body) \/ PatchRetried(j, body) \/ PatchFailed(j, body)
    OBVIOUS
  <2> HIDE DEF body
  <2>3. /\ UNCHANGED pc \/ Goto(j, "cleanup")
        /\ UNCHANGED <<target, first>> /\ pc[j] = "post"
    BY <1>14 DEF PostMark
  <2>4. QED BY <2>1, <2>2, <2>3, PatchWork DEF PCs, Working
<1>15. CASE Cleanup(j)
  BY <1>15, <1>a, LocalWork DEF Cleanup, PCs, Working
<1>16. CASE MarkUninstalling(j)
  BY <1>16, AddPropertyWork DEF MarkUninstalling, PCs, Working, later
<1>17. CASE Destroy(j)
  <2>1. \A c \in Clusters :
          /\ ocm'[c].state \in {ocm[c].state, "gone"}
          /\ ocm'[c].avail = ocm[c].avail /\ ocm'[c].maker = ocm[c].maker
    BY <1>17 DEF Destroy, TypeOK, Record
  <2>2. QED BY <1>17, <2>1 DEF Destroy, Work, Goto, PCs, Working, TypeOK
<1>18. QED
  BY <1>1, <1>2, <1>3, <1>4, <1>5, <1>6, <1>7, <1>8, <1>9, <1>10, <1>11,
     <1>12, <1>13, <1>14, <1>15, <1>16, <1>17 DEF Step

-----------------------------------------------------------------------------
(* Exclusive use, when claims are serialised.                              *)

\* SerialInv holds before any run starts.
LEMMA SerialInit == Init => SerialInv
<1> SUFFICES ASSUME Init PROVE SerialInv
  OBVIOUS
<1>1. TypeInv
  BY TypeInit
<1>2. Serialised /\ Unburdened /\ ClaimsAlone /\ UsersAlone
  BY DEF Init, Serialised, Unburdened, ClaimsAlone, UsersAlone, Using
<1>3. Present
  BY ClustersAssumption DEF Init, Present
<1>4. QED BY <1>1, <1>2, <1>3 DEF SerialInv

\* A run at work on its cluster leaves every other run alone on theirs.
LEMMA SerialWork ==
  ASSUME SerialInv, NEW j \in Jobs, Work(j), TypeInv', Serialised'
  PROVE  SerialInv'
<1> USE DEF SerialInv, TypeInv
<1>0. target[j] \in Clusters /\ pc[j] \notin {"idle", "launch", "claim", "end"}
  BY DEF Work, Working, HasCluster
<1>1. Unburdened'
  BY DEF Work, Working, Unburdened
<1>2. Present'
  BY DEF Work, Present
<1>3. \A k \in Jobs : pc'[k] = "claim" => pc[k] = "claim" /\ k # j
  BY DEF Work, Working
<1>4. \A k \in Jobs : pc[k] = "end" => pc'[k] = "end"
  BY <1>0 DEF Work
<1>5. \A k \in Jobs : Alone(k) => Alone(k)'
  BY <1>4 DEF Work, Alone
<1>6. ClaimsAlone'
  BY <1>3, <1>5 DEF ClaimsAlone
<1>7. UsersAlone'
  <2> SUFFICES ASSUME NEW k \in Jobs, Using(k)'
               PROVE  /\ Alone(k)'
                      /\ ocm'[target'[k]].avail # "reserved"
                      /\ snap'[k].avail # "reserved"
                      /\ first'[k].avail # "reserved"
    BY DEF UsersAlone
  <2>1. Using(k)
    BY <1>0 DEF Using, Work, Working
  <2>2. /\ Alone(k) /\ ocm[target[k]].avail # "reserved"
        /\ snap[k].avail # "reserved" /\ first[k].avail # "reserved"
    BY <2>1 DEF UsersAlone
  <2>3. target[k] \in Clusters
    BY <2>1 DEF Using, HasCluster
  <2>4. CASE k = j
    BY <2>2, <2>3, <2>4, <1>5 DEF Work
  <2>5. CASE k # j
    <3>1. target[j] # target[k]
      BY <2>2, <2>5, <1>0 DEF Alone
    <3>2. QED BY <2>2, <2>3, <2>5, <3>1, <1>5 DEF Work
  <2>6. QED BY <2>4, <2>5
<1>8. QED BY <1>1, <1>2, <1>6, <1>7

\* A run that moves without touching OCM's records, to a point where it uses
\* no cluster and carries no snapshot of one.
LEMMA SerialLetGo ==
  ASSUME SerialInv, NEW j \in Jobs, TypeInv', Serialised',
         UNCHANGED ocm, NEW l \in {"idle", "launch"}, Goto(j, l),
         target' = [target EXCEPT ![j] = NoCluster],
         snap' = [snap EXCEPT ![j] = Nothing],
         first'[j] = Nothing,
         \A k \in Jobs \ {j} : first'[k] = first[k]
  PROVE  SerialInv'
<1> USE DEF SerialInv, TypeInv
<1>1. /\ pc'[j] = l /\ target'[j] = NoCluster /\ snap'[j] = Nothing
      /\ \A k \in Jobs \ {j} : /\ pc'[k] = pc[k] /\ target'[k] = target[k]
                              /\ snap'[k] = snap[k] /\ first'[k] = first[k]
  BY DEF Goto, TypeOK
<1>2. Unburdened'
  BY <1>1 DEF Unburdened
<1>3. Present'
  BY <1>1, ClustersAssumption DEF Present
<1>4. \A k \in Jobs \ {j} : target[k] \in Clusters /\ Alone(k) => Alone(k)'
  BY <1>1, ClustersAssumption DEF Alone
<1>5. \A k \in Jobs : pc[k] = "claim" \/ Using(k) => target[k] \in Clusters
  BY DEF Using, HasCluster
<1>6. ClaimsAlone'
  BY <1>1, <1>4, <1>5 DEF ClaimsAlone
<1>7. \A k \in Jobs : Using(k)' => k # j /\ Using(k)
  BY <1>1 DEF Using
<1>8. UsersAlone'
  BY <1>1, <1>4, <1>5, <1>7 DEF UsersAlone
<1>9. QED BY <1>2, <1>3, <1>6, <1>8

\* The candidate of a claim is reserved, so no test run is using it; that no
\* other run claims or provisions it is the assumption of SerialSpec.
LEMMA SerialQuery ==
  ASSUME SerialInv, NEW j \in Jobs, QueryForClaim(j), TypeInv', Serialised'
  PROVE  SerialInv'
<1> USE DEF SerialInv, TypeInv
<1>1. CASE Goto(j, "launch") /\ UNCHANGED <<target, snap>>
  <2>1. /\ target[j] = NoCluster /\ snap[j] = Nothing /\ first[j] = Nothing
        /\ pc[j] = "idle"
    BY DEF QueryForClaim, Unburdened
  <2>2. /\ target' = [target EXCEPT ![j] = NoCluster]
        /\ snap' = [snap EXCEPT ![j] = Nothing]
        /\ first' = first /\ ocm' = ocm
    BY <1>1, <2>1 DEF QueryForClaim, TypeOK
  <2>3. QED BY <1>1, <2>1, <2>2, SerialLetGo
<1>2. ASSUME NEW c \in Candidates, Goto(j, "claim"),
             target' = [target EXCEPT ![j] = c],
             snap' = [snap EXCEPT ![j] = View(c)]
      PROVE  SerialInv'
  <2>1. c \in Clusters /\ ocm[c].avail = "reserved" /\ ocm[c].state # "absent"
    BY <1>2 DEF Candidates, Reserved, InReserve
  <2>2. /\ pc'[j] = "claim" /\ target'[j] = c
        /\ \A k \in Jobs \ {j} : /\ pc'[k] = pc[k] /\ target'[k] = target[k]
                                /\ snap'[k] = snap[k]
        /\ first' = first /\ ocm' = ocm
    BY <1>2 DEF QueryForClaim, Goto, TypeOK
  <2>3. pc[j] = "idle" /\ j \in TestJobs /\ first[j] = Nothing
    BY DEF QueryForClaim, Unburdened
  <2>4. Unburdened'
    BY <2>2, <2>3 DEF Unburdened
  <2>5. Present'
    BY <2>1, <2>2 DEF Present
  <2>6. ASSUME NEW k \in Jobs \ {j}, target[k] = c PROVE pc[k] = "end"
    <3>1. pc[k] # "claim" /\ k \notin StockJobs
      BY <2>2, <2>6 DEF Serialised
    <3>2. pc[k] \notin {"idle", "launch"}
      BY <2>1, <2>6, ClustersAssumption DEF Unburdened
    <3>3. ~ Using(k)
      BY <2>1, <2>6 DEF UsersAlone
    <3>4. QED BY <3>1, <3>2, <3>3 DEF Using, Jobs
  <2>7. Alone(j)'
    BY <2>2, <2>6 DEF Alone
  <2>8. \A k \in Jobs \ {j} : pc[k] = "claim" \/ Using(k) => target[k] # c
    BY <2>6 DEF Using
  <2>9. \A k \in Jobs \ {j} : target[k] # c /\ Alone(k) => Alone(k)'
    BY <2>2 DEF Alone
  <2>10. ClaimsAlone'
    BY <2>2, <2>3, <2>7, <2>8, <2>9 DEF ClaimsAlone
  <2>11. \A k \in Jobs : Using(k)' => k # j /\ Using(k)
    BY <2>2 DEF Using
  <2>12. UsersAlone'
    BY <2>2, <2>8, <2>9, <2>11 DEF UsersAlone
  <2>13. QED BY <2>4, <2>5, <2>10, <2>12
<1>3. QED BY <1>1, <1>2 DEF QueryForClaim

\* A claim makes its run the user of a cluster nobody else works on.
LEMMA SerialClaim ==
  ASSUME SerialInv, NEW j \in Jobs, Claim(j), TypeInv', Serialised'
  PROVE  SerialInv'
<1> USE DEF SerialInv, TypeInv
<1> DEFINE c == target[j]
           body == [snap[j] EXCEPT !.avail = "claimed"]
<1>1. /\ c \in Clusters /\ pc[j] = "claim" /\ j \in TestJobs
      /\ Alone(j) /\ first[j] = Nothing
  BY DEF Claim, HasCluster, ClaimsAlone, Unburdened
<1>2. body \in Snapshot /\ body.avail = "claimed"
  <2>1. snap[j] \in Snapshot
    BY DEF TypeOK
  <2>2. QED BY <2>1 DEF Snapshot, Availability
<1>3. \/ PatchAcked(j, body) \/ PatchRetried(j, body) \/ PatchFailed(j, body)
  BY DEF Claim
<1> HIDE DEF body
<1>4. \A d \in Clusters :
        /\ ocm[d].state # "absent" => ocm'[d].state # "absent"
        /\ d # c => ocm'[d].avail = ocm[d].avail
  BY <1>2, <1>3, AppliedEffect DEF PatchAcked, PatchRetried, PatchFailed
<1>5. snap' = [snap EXCEPT ![j] = IF pc'[j] \in SnapshotInScope THEN body ELSE Nothing]
  BY <1>3 DEF PatchAcked, PatchRetried, PatchFailed, Mutated
<1>6. /\ \A k \in Jobs \ {j} : /\ pc'[k] = pc[k] /\ target'[k] = target[k]
                              /\ snap'[k] = snap[k]
      /\ first' = first
  BY <1>5 DEF Claim, Goto, TypeOK
<1>7. \/ pc'[j] = "tag images" /\ target'[j] = c /\ PatchAcked(j, body)
      \/ pc'[j] = "claim" /\ target'[j] = c
      \/ pc'[j] = "launch" /\ target'[j] = NoCluster
  BY <1>1 DEF Claim, Goto, TypeOK, body
<1>8. Unburdened'
  <2>1. pc'[j] = "launch" => snap'[j] = Nothing
    BY <1>5 DEF SnapshotInScope, TypeOK
  <2>2. QED BY <1>1, <1>6, <1>7, <2>1 DEF Unburdened
<1>9. Present'
  <2>1. ASSUME NEW k \in Jobs, target'[k] \in Clusters
        PROVE  ocm'[target'[k]].state # "absent"
    <3>1. target'[k] = target[k] \/ (k = j /\ target'[k] = c)
      BY <1>6, <1>7, <2>1, ClustersAssumption
    <3>2. target'[k] \in Clusters /\ ocm[target'[k]].state # "absent"
      BY <1>1, <2>1, <3>1 DEF Present
    <3> QED
      BY <1>4, <3>2
  <2> QED
    BY <2>1 DEF Present
<1>10. \A k \in Jobs \ {j} : target[k] \in Clusters /\ Alone(k) /\ pc[k] # "end"
                                => target[k] # c /\ Alone(k)'
  <2> SUFFICES ASSUME NEW k \in Jobs \ {j}, target[k] \in Clusters, Alone(k), pc[k] # "end"
               PROVE  target[k] # c /\ Alone(k)'
    OBVIOUS
  <2>1. target[k] # c
    BY <1>1 DEF Alone
  <2>2. target'[j] # target[k]
    BY <1>7, <2>1, ClustersAssumption
  <2>3. \A h \in Jobs \ {j} : pc'[h] = pc[h] /\ target'[h] = target[h]
    BY <1>6
  <2> QED
    BY <2>1, <2>2, <2>3 DEF Alone
<1>11. pc'[j] # "launch" => Alone(j)'
  BY <1>1, <1>6, <1>7 DEF Alone
<1>12. ClaimsAlone'
  BY <1>1, <1>6, <1>7, <1>10, <1>11 DEF ClaimsAlone, HasCluster
<1>13. UsersAlone'
  <2> SUFFICES ASSUME NEW k \in Jobs, Using(k)'
               PROVE  /\ Alone(k)'
                      /\ ocm'[target'[k]].avail # "reserved"
                      /\ snap'[k].avail # "reserved"
                      /\ first'[k].avail # "reserved"
    BY DEF UsersAlone
  <2>1. CASE k = j
    <3>1. pc'[j] = "tag images" /\ target'[j] = c /\ PatchAcked(j, body)
      BY <1>7, <2>1 DEF Using
    <3>2. ocm'[c].avail = "claimed"
      <4> DEFINE r == [ocm[c] EXCEPT !.avail = body.avail, !.status = body.status]
      <4>1. ocm' = [ocm EXCEPT ![c] = r]
        BY <3>1 DEF PatchAcked, Applied
      <4>2. ocm[c] \in Record
        BY <1>1 DEF TypeOK
      <4>3. r.avail = "claimed"
        BY <1>2, <4>2 DEF Record
      <4>4. QED BY <1>1, <4>1, <4>3 DEF TypeOK
    <3>3. snap'[j] = body
      BY <1>5, <3>1 DEF SnapshotInScope, TypeOK
    <3>4. first'[j].avail = "none"
      BY <1>1, <1>6 DEF Nothing
    <3>5. Alone(j)'
      BY <1>11, <3>1
    <3>6. QED
      BY <1>2, <2>1, <3>1, <3>2, <3>3, <3>4, <3>5
  <2>2. CASE k # j
    <3>1. Using(k)
      BY <1>6, <2>2 DEF Using
    <3>2. target[k] \in Clusters /\ pc[k] # "end"
      BY <3>1 DEF Using, HasCluster
    <3>3. QED BY <1>4, <1>6, <1>10, <2>2, <3>1, <3>2 DEF UsersAlone
  <2>3. QED BY <2>1, <2>2
<1>14. QED BY <1>8, <1>9, <1>12, <1>13

\* A launched cluster is new: nobody works on it yet.
LEMMA SerialLaunch ==
  ASSUME SerialInv, NEW j \in Jobs, Launch(j), TypeInv', Serialised'
  PROVE  SerialInv'
<1> USE DEF SerialInv, TypeInv
<1>1. /\ pc[j] = "launch" /\ target[j] = NoCluster
      /\ snap[j] = Nothing /\ first[j] = Nothing
  BY DEF Launch, Unburdened
<1>2. /\ snap' = snap /\ first' = first
      /\ \A k \in Jobs \ {j} : pc'[k] = pc[k] /\ target'[k] = target[k]
  BY DEF Launch, Goto, TypeOK
<1>3. \/ UNCHANGED ocm
      \/ \E c \in Clusters : /\ ocm[c].state = "absent"
                             /\ ocm' = [ocm EXCEPT ![c] = NewCluster(j)]
  BY DEF Launch
<1>4. \A d \in Clusters : ocm[d].state # "absent" => ocm'[d] = ocm[d]
  BY <1>3 DEF TypeOK
<1>5. \/ /\ pc'[j] = "fetch"
         /\ \E c \in Clusters : /\ ocm[c].state = "absent"
                                /\ ocm' = [ocm EXCEPT ![c] = NewCluster(j)]
                                /\ target'[j] = c
      \/ pc'[j] \in {"launch", "end"} /\ target'[j] = NoCluster
  BY <1>1 DEF Launch, Goto, TypeOK
<1>6. Unburdened'
  BY <1>1, <1>2, <1>5 DEF Unburdened
<1>7. Present'
  BY <1>2, <1>4, <1>5, ClustersAssumption DEF Present, NewCluster, TypeOK
<1>8. \A k \in Jobs \ {j} : target[k] \in Clusters =>
        target'[j] # target[k] /\ (Alone(k) => Alone(k)')
  BY <1>1, <1>2, <1>5, ClustersAssumption DEF Present, Alone
<1>9. ClaimsAlone'
  BY <1>2, <1>5, <1>8 DEF ClaimsAlone, HasCluster
<1>10. UsersAlone'
  <2> SUFFICES ASSUME NEW k \in Jobs, Using(k)'
               PROVE  /\ Alone(k)'
                      /\ ocm'[target'[k]].avail # "reserved"
                      /\ snap'[k].avail # "reserved"
                      /\ first'[k].avail # "reserved"
    BY DEF UsersAlone
  <2>1. CASE k = j
    <3>1. PICK c \in Clusters : /\ ocm[c].state = "absent"
                                /\ ocm' = [ocm EXCEPT ![c] = NewCluster(j)]
                                /\ target'[j] = c
      BY <1>5, <2>1 DEF Using
    <3>2. j \in TestJobs /\ j \notin StockJobs
      BY <2>1, JobsAssumption DEF Using
    <3>3. ocm'[c].avail = "none"
      BY <3>1, <3>2 DEF NewCluster, TypeOK
    <3>4. Alone(j)'
      BY <1>2, <3>1 DEF Alone, Present
    <3>5. QED BY <1>1, <1>2, <2>1, <3>1, <3>3, <3>4 DEF Nothing
  <2>2. CASE k # j
    <3>1. Using(k) /\ target[k] \in Clusters
      BY <1>2, <2>2 DEF Using, HasCluster
    <3>2. QED BY <1>2, <1>4, <1>8, <2>2, <3>1 DEF UsersAlone, Present
  <2>3. QED BY <2>1, <2>2
<1>11. QED BY <1>6, <1>7, <1>9, <1>10

\* A finished or killed run lets go of its cluster.
LEMMA SerialExit ==
  ASSUME SerialInv, NEW j \in Jobs, Exited(j), TypeInv', Serialised'
  PROVE  SerialInv'
BY SerialLetGo DEF Exited, SerialInv, TypeInv, TypeOK

\* OCM changes only the state of a cluster, and never to absent.
LEMMA SerialEnvironment ==
  ASSUME SerialInv, NEW c \in Clusters, Install(c) \/ Expiry(c),
         TypeInv', Serialised'
  PROVE  SerialInv'
<1> USE DEF SerialInv, TypeInv
<1>1. PICK s \in State \ {"absent"} : ocm' = [ocm EXCEPT ![c].state = s]
  BY DEF Install, Expiry, State
<1>2. \A d \in Clusters : /\ ocm'[d].avail = ocm[d].avail
                          /\ ocm[d].state # "absent" => ocm'[d].state # "absent"
  BY <1>1 DEF TypeOK, Record
<1>3. UNCHANGED <<pc, target, snap, first>>
  BY DEF Install, Expiry
<1>4. Unburdened' /\ Present' /\ ClaimsAlone'
  BY <1>2, <1>3 DEF Unburdened, Present, ClaimsAlone, Alone
<1>5. UsersAlone'
  BY <1>2, <1>3 DEF UsersAlone, Using, Alone, HasCluster
<1>6. QED BY <1>4, <1>5

\* SerialInv is inductive as long as claims are serialised.
LEMMA SerialNext == SerialInv /\ [Next /\ Serialised']_vars => SerialInv'
<1> SUFFICES ASSUME SerialInv, [Next /\ Serialised']_vars PROVE SerialInv'
  OBVIOUS
<1>1. TypeInv'
  BY TypeNext DEF SerialInv
<1>2. ASSUME UNCHANGED vars PROVE SerialInv'
  BY <1>1, <1>2
  DEF vars, SerialInv, Serialised, Unburdened, Present, ClaimsAlone, UsersAlone,
      Alone, Using
<1>3. ASSUME Next, Serialised' PROVE SerialInv'
  <2>1. ASSUME NEW j \in Jobs, Start(j) PROVE SerialInv'
    <3>1. CASE QueryForClaim(j)
      BY <1>1, <1>3, <3>1, SerialQuery
    <3>2. CASE CheckReserve(j)
      <4>1. target[j] = NoCluster /\ snap[j] = Nothing /\ first[j] = Nothing
        BY <3>2 DEF CheckReserve, SerialInv, Unburdened
      <4>2. /\ target' = [target EXCEPT ![j] = NoCluster]
            /\ snap' = [snap EXCEPT ![j] = Nothing]
        BY <3>2, <4>1 DEF CheckReserve, SerialInv, TypeInv, TypeOK
      <4>3. QED BY <1>1, <1>3, <3>2, <4>1, <4>2, SerialLetGo DEF CheckReserve
    <3>3. QED BY <2>1, <3>1, <3>2 DEF Start
  <2>2. ASSUME NEW j \in Jobs, Step(j) PROVE SerialInv'
    <3>1. CASE ExtensionFails(j)
      <4>1. first[j] = Nothing /\ pc[j] = "claim"
        BY <3>1 DEF ExtensionFails, SerialInv, Unburdened
      <4>2. QED BY <1>1, <1>3, <3>1, <4>1, SerialLetGo DEF ExtensionFails
    <3>2. CASE Claim(j)
      BY <1>1, <1>3, <3>2, SerialClaim
    <3>3. CASE Launch(j)
      BY <1>1, <1>3, <3>3, SerialLaunch
    <3>4. CASE Exit(j)
      BY <1>1, <1>3, <3>4, SerialExit DEF Exit
    <3>5. CASE ~ (ExtensionFails(j) \/ Claim(j) \/ Launch(j) \/ Exit(j))
      <4>1. Work(j)
        BY <2>2, <3>5, StepWorks DEF SerialInv
      <4>2. QED BY <1>1, <1>3, <4>1, SerialWork
    <3>6. QED BY <3>1, <3>2, <3>3, <3>4, <3>5
  <2>3. ASSUME NEW j \in Jobs, Kill(j) PROVE SerialInv'
    BY <1>1, <1>3, <2>3, SerialExit DEF Kill
  <2>4. ASSUME NEW c \in Clusters, Install(c) \/ Expiry(c) PROVE SerialInv'
    BY <1>1, <1>3, <2>4, SerialEnvironment
  <2>5. QED BY <1>3, <2>1, <2>2, <2>3, <2>4 DEF Next
<1>4. QED BY <1>2, <1>3

\* When no run looks at a candidate that another run is claiming or still
\* provisioning, no two test runs ever work on the same cluster (ExclusiveUse),
\* whatever is retried, lost or killed, and for any number of runs.
THEOREM SerialExclusiveUse == SerialSpec => []ExclusiveUse
<1>1. SerialInv => ExclusiveUse
  BY DEF SerialInv, UsersAlone, ExclusiveUse, Alone, Using, Jobs
<1>2. QED BY <1>1, SerialInit, SerialNext, PTL DEF SerialSpec

\* Under the same discipline a cluster advertised as reserved is in nobody's
\* use (ReservedMeansFree).
THEOREM SerialReservedMeansFree == SerialSpec => []ReservedMeansFree
<1>1. SerialInv => ReservedMeansFree
  BY DEF SerialInv, UsersAlone, ReservedMeansFree, InReserve, Using, Jobs
<1>2. QED BY <1>1, SerialInit, SerialNext, PTL DEF SerialSpec

-----------------------------------------------------------------------------
(* How full the reserve gets, when claims are serialised.  A reserve job   *)
(* that has looked at the reserve may still launch: each attempt it has    *)
(* left is a slot, and clusters and slots together stay within the limit.  *)

ReserveLimit == ReserveCount - 1 + NumRetries * Cardinality(StockJobs)

Slots == {s \in StockJobs \X (1 .. NumRetries) :
            pc[s[1]] = "launch" /\ s[2] > tries[s[1]]}

Provisioning == {"fetch", "wait", "mark waiting", "mark health-check", "ready",
                 "mark upgrade", "health", "checking", "kubeconfig"}

\* Reserve job j, at work: its cluster is on offer and so says every object it
\* may write back, so that none of its writes puts a cluster on the market.
Steady(j) ==
  /\ pc[j] \in Provisioning
  /\ ocm[target[j]].avail = "reserved"
  /\ pc[j] \in {"mark waiting", "mark health-check", "mark upgrade", "checking"}
       => snap[j].avail = "reserved"
  /\ pc[j] \in {"wait", "mark waiting", "mark health-check", "ready"}
       => first[j].avail = "reserved"

StockSteady == \A j \in StockJobs : pc[j] \in Working => Steady(j)

Counted == /\ IsFiniteSet(InReserve)
           /\ Cardinality(InReserve) + Cardinality(Slots) <= ReserveLimit

StockInv == SerialInv /\ StockSteady /\ Counted

\* All the slots there can be.
LEMMA AllSlots ==
  /\ Cardinality(StockJobs) \in Nat
  /\ IsFiniteSet(StockJobs \X (1 .. NumRetries))
  /\ Cardinality(StockJobs \X (1 .. NumRetries)) = NumRetries * Cardinality(StockJobs)
<1>1. IsFiniteSet(1 .. NumRetries) /\ Cardinality(1 .. NumRetries) = NumRetries
  BY FS_Interval, CountsAssumption
<1>2. IsFiniteSet(StockJobs) /\ Cardinality(StockJobs) \in Nat
  BY StockAssumption, FS_CardinalityType
<1>3. /\ IsFiniteSet(StockJobs \X (1 .. NumRetries))
      /\ Cardinality(StockJobs \X (1 .. NumRetries))
           = Cardinality(StockJobs) * Cardinality(1 .. NumRetries)
  BY <1>1, <1>2, FS_Product
<1>4. Cardinality(StockJobs) * NumRetries = NumRetries * Cardinality(StockJobs)
  BY <1>2, CountsAssumption
<1>5. QED BY <1>1, <1>2, <1>3, <1>4

\* So the open ones are finitely many.
LEMMA SlotsFinite ==
  /\ IsFiniteSet(Slots) /\ Cardinality(Slots) \in Nat
  /\ Cardinality(Slots) <= NumRetries * Cardinality(StockJobs)
BY AllSlots, FS_Subset, FS_CardinalityType DEF Slots

\* A step that neither puts a cluster on the market nor opens a slot.
LEMMA CountedCalm ==
  ASSUME Counted, InReserve' \subseteq InReserve, Slots' \subseteq Slots
  PROVE  Counted'
<1>1. /\ IsFiniteSet(InReserve') /\ Cardinality(InReserve') <= Cardinality(InReserve)
      /\ Cardinality(Slots') <= Cardinality(Slots)
  BY SlotsFinite, FS_Subset DEF Counted
<1>2. /\ Cardinality(InReserve') \in Nat /\ Cardinality(InReserve) \in Nat
      /\ Cardinality(Slots') \in Nat /\ Cardinality(Slots) \in Nat
      /\ ReserveLimit \in Int
  BY <1>1, SlotsFinite, AllSlots, FS_Subset, FS_CardinalityType, CountsAssumption
  DEF Counted, ReserveLimit
<1>3. ReserveLimit' = ReserveLimit
  BY DEF ReserveLimit
<1>4. QED BY <1>1, <1>2, <1>3 DEF Counted

\* A step that leaves every Availability alone, revives no cluster and takes no
\* reserve job to "launch".
LEMMA CountedQuiet ==
  ASSUME Counted,
         \A c \in Clusters : /\ ocm'[c].avail = "reserved" => ocm[c].avail = "reserved"
                            /\ \/ ocm'[c].state \in {ocm[c].state, "error", "gone"}
                               \/ ocm[c].state \in {"pending", "installing"},
         \A j \in StockJobs : pc'[j] = "launch" => pc[j] = "launch" /\ tries'[j] = tries[j]
  PROVE  Counted'
<1>1. InReserve' \subseteq InReserve
  BY DEF InReserve
<1>2. Slots' \subseteq Slots
  BY DEF Slots
<1>3. QED BY <1>1, <1>2, CountedCalm

\* Run j leaves the other reserve jobs steady: it writes to no cluster of theirs.
LEMMA OthersSteady ==
  ASSUME StockSteady, TypeInv, NEW k \in StockJobs, pc'[k] = pc[k],
         target'[k] = target[k], snap'[k] = snap[k], first'[k] = first[k],
         pc[k] \in Working => ocm'[target[k]].avail = ocm[target[k]].avail,
         pc'[k] \in Working
  PROVE  Steady(k)'
BY DEF StockSteady, Steady

\* A test run at work takes no part: its cluster is not on offer, nor does any
\* object it writes back say so.
LEMMA StockTestWork ==
  ASSUME StockInv, NEW j \in TestJobs, Work(j)
  PROVE  StockSteady' /\ Counted'
<1> USE DEF StockInv, SerialInv, TypeInv
<1>1. j \in Jobs /\ Using(j) /\ target[j] \in Clusters
  BY DEF Jobs, Using, Work, Working, HasCluster
<1>2. /\ Alone(j) /\ ocm[target[j]].avail # "reserved"
      /\ snap[j].avail # "reserved"
  BY <1>1 DEF UsersAlone
<1>3. \A c \in Clusters : /\ ocm'[c].avail = "reserved" => ocm[c].avail = "reserved"
                          /\ ocm'[c].state \in {ocm[c].state, "gone"}
  BY <1>2 DEF Work
<1>4. \A k \in StockJobs : k # j /\ pc'[k] = pc[k] /\ tries'[k] = tries[k]
  BY JobsAssumption DEF Work, Jobs
<1>5. Counted'
  BY <1>3, <1>4, CountedQuiet
<1>6. ASSUME NEW k \in StockJobs, pc'[k] \in Working PROVE Steady(k)'
  <2>1. k \in Jobs \ {j} /\ pc[k] \in Working /\ pc[k] # "end"
    BY <1>4, <1>6 DEF Jobs, Working
  <2>2. target[k] # target[j] /\ target[k] \in Clusters
    BY <1>2, <2>1 DEF Alone, HasCluster, Working
  <2>3. ocm'[target[k]].avail = ocm[target[k]].avail
    BY <2>2 DEF Work
  <2>4. /\ pc'[k] = pc[k] /\ target'[k] = target[k]
        /\ snap'[k] = snap[k] /\ first'[k] = first[k]
    BY <2>1 DEF Work
  <2>5. QED BY <1>6, <2>3, <2>4, OthersSteady
<1>7. QED BY <1>5, <1>6 DEF StockSteady

\* What a PATCH that repeats the Availability on record does to the records.
LEMMA PatchRepeats ==
  ASSUME TypeOK, NEW j \in Jobs, NEW body \in Snapshot, target[j] \in Clusters,
         PatchAcked(j, body) \/ PatchRetried(j, body) \/ PatchFailed(j, body),
         body.avail = ocm[target[j]].avail
  PROVE  /\ \A c \in Clusters : /\ ocm'[c].avail = ocm[c].avail
                               /\ ocm'[c].state = ocm[c].state
         /\ pc'[j] \in SnapshotInScope => snap'[j].avail = body.avail
<1>1. Applied(j, body) \/ UNCHANGED ocm
  BY DEF PatchAcked, PatchRetried, PatchFailed
<1>2. \A c \in Clusters : /\ ocm'[c].avail = ocm[c].avail
                          /\ ocm'[c].state = ocm[c].state
  BY <1>1, AppliedEffect
<1>3. snap' = [snap EXCEPT ![j] = IF pc'[j] \in SnapshotInScope THEN body ELSE Nothing]
  BY DEF PatchAcked, PatchRetried, PatchFailed, Mutated
<1>4. QED BY <1>2, <1>3 DEF TypeOK

\* An AddProperty of a reserve job finds its cluster on offer and leaves it so.
LEMMA StockAddProperty ==
  ASSUME TypeInv, NEW j \in StockJobs, Steady(j),
         NEW from \in {"mark waiting", "mark health-check", "mark upgrade", "checking"},
         NEW ok \in Provisioning, NEW err \in Provisioning,
         NEW body \in Snapshot, body.avail = snap[j].avail,
         AddProperty(j, from, body, ok, err),
         from \in {"mark waiting", "mark health-check"}
           \/ (ok \in {"health", "kubeconfig"} /\ err \in {"health", "kubeconfig"})
  PROVE  /\ \A c \in Clusters : /\ ocm'[c].avail = ocm[c].avail
                               /\ ocm'[c].state = ocm[c].state
         /\ Steady(j)'
<1> USE DEF TypeInv
<1>1. /\ pc[j] = from /\ j \in Jobs /\ target[j] \in Clusters
      /\ ocm[target[j]].avail = "reserved" /\ snap[j].avail = "reserved"
      /\ from \in {"mark waiting", "mark health-check"} => first[j].avail = "reserved"
  BY DEF AddProperty, Steady, Jobs, HasCluster
<1>2. /\ PatchAcked(j, body) \/ PatchRetried(j, body) \/ PatchFailed(j, body)
      /\ UNCHANGED <<target, first>>
  BY DEF AddProperty
<1>3. pc'[j] \in {from, ok, err}
  BY <1>1 DEF AddProperty, Goto, TypeOK
<1>4. \A c \in Clusters : /\ ocm'[c].avail = ocm[c].avail
                          /\ ocm'[c].state = ocm[c].state
  BY <1>1, <1>2, PatchRepeats DEF TypeInv
<1>5. pc'[j] \in SnapshotInScope => snap'[j].avail = "reserved"
  BY <1>1, <1>2, PatchRepeats DEF TypeInv
<1>6. Steady(j)'
  BY <1>1, <1>2, <1>3, <1>4, <1>5 DEF Steady, SnapshotInScope, Provisioning
<1>7. QED BY <1>4, <1>6

\* A reserve job at work reads that its cluster is on offer and writes no more
\* than that.
LEMMA StockStepWorks ==
  ASSUME TypeInv, NEW j \in StockJobs, Steady(j), Step(j)
  PROVE  /\ \A c \in Clusters : /\ ocm'[c].avail = ocm[c].avail
                               /\ ocm'[c].state = ocm[c].state
         /\ pc'[j] = "end" \/ Steady(j)'
<1> USE DEF TypeInv
<1>0. /\ j \in Jobs /\ j \notin TestJobs /\ target[j] \in Clusters
      /\ pc[j] \in Provisioning /\ ocm[target[j]].avail = "reserved"
  BY JobsAssumption DEF Steady, Jobs, HasCluster, Provisioning
<1> snap[j] \in Snapshot /\ first[j] \in Snapshot
  BY <1>0 DEF TypeOK
<1> DEFINE later == [snap[j] EXCEPT !.status = "later"]
<1> later \in Snapshot /\ later.avail = snap[j].avail
  BY DEF Snapshot, Status
<1> HIDE DEF later
<1>a. View(target[j]).avail = "reserved"
  BY <1>0 DEF View
<1>1. CASE Fetch(j)
  BY <1>0, <1>a, <1>1 DEF Fetch, Goto, Steady, Provisioning, TypeOK
<1>2. CASE Poll(j)
  BY <1>0, <1>a, <1>2 DEF Poll, Goto, Steady, Provisioning, TypeOK
<1>3. CASE MarkWaiting(j)
  BY <1>3, StockAddProperty DEF MarkWaiting, Provisioning, later
<1>4. CASE MarkHealthCheck(j)
  BY <1>4, StockAddProperty DEF MarkHealthCheck, Provisioning, later
<1>5. CASE WaitTimeout(j)
  BY <1>0, <1>5 DEF WaitTimeout, Goto, TypeOK
<1>6. CASE UseFirst(j)
  BY <1>0, <1>6 DEF UseFirst, Goto, Steady, Provisioning, TypeOK
<1>7. CASE MarkUpgrade(j)
  BY <1>7, StockAddProperty DEF MarkUpgrade, Provisioning
<1>8. CASE HealthFetch(j)
  BY <1>0, <1>a, <1>8 DEF HealthFetch, Goto, Steady, Provisioning, TypeOK
<1>9. CASE MarkHealthy(j)
  BY <1>9, StockAddProperty DEF MarkHealthy, Provisioning, later
<1>10. CASE HealthFails(j)
  BY <1>0, <1>10 DEF HealthFails, Goto, Steady, Provisioning, TypeOK
<1>11. CASE Kubeconfig(j)
  BY <1>0, <1>11 DEF Kubeconfig, Goto, TypeOK
<1>12. ~ (\/ ExtensionFails(j) \/ Claim(j) \/ TagClaim(j) \/ Launch(j)
          \/ PostFetch(j) \/ PostMark(j) \/ Cleanup(j)
          \/ MarkUninstalling(j) \/ Destroy(j) \/ Exit(j))
  BY <1>0 DEF ExtensionFails, Claim, TagClaim, Launch, PostFetch, PostMark, Cleanup,
     MarkUninstalling, Destroy, Exit, AddProperty, Provisioning
<1>13. QED
  BY <1>1, <1>2, <1>3, <1>4, <1>5, <1>6, <1>7, <1>8, <1>9, <1>10, <1>11, <1>12
  DEF Step

\* So a reserve job at work changes nothing that counts.
LEMMA StockWork ==
  ASSUME StockInv, NEW j \in StockJobs, Step(j), Work(j)
  PROVE  StockSteady' /\ Counted'
<1> USE DEF StockInv, SerialInv, TypeInv
<1>1. j \in Jobs /\ Steady(j)
  BY DEF Jobs, Work, StockSteady
<1>2. /\ \A c \in Clusters : /\ ocm'[c].avail = ocm[c].avail
                             /\ ocm'[c].state = ocm[c].state
      /\ pc'[j] = "end" \/ Steady(j)'
  BY <1>1, StockStepWorks
<1>3. \A k \in Jobs \ {j} : /\ pc'[k] = pc[k] /\ target'[k] = target[k]
                            /\ snap'[k] = snap[k] /\ first'[k] = first[k]
                            /\ tries'[k] = tries[k]
  BY DEF Work
<1>4. pc'[j] # "launch"
  BY <1>2 DEF Steady, Provisioning
<1>5. Counted'
  BY <1>2, <1>3, <1>4, CountedQuiet DEF Jobs
<1>6. ASSUME NEW k \in StockJobs \ {j}, pc'[k] \in Working PROVE Steady(k)'
  <2>1. k \in Jobs \ {j} /\ (pc[k] \in Working => target[k] \in Clusters)
    BY DEF Jobs, HasCluster, Working
  <2>2. QED BY <1>2, <1>3, <1>6, <2>1, OthersSteady
<1>7. QED BY <1>2, <1>5, <1>6 DEF StockSteady, Working

\* A step that leaves OCM and the other runs alone, and after which run j works
\* on no cluster and no reserve job starts to launch.
LEMMA StockAside ==
  ASSUME StockInv, NEW j \in Jobs, UNCHANGED ocm,
         \A k \in Jobs \ {j} : /\ pc'[k] = pc[k] /\ target'[k] = target[k]
                               /\ snap'[k] = snap[k] /\ first'[k] = first[k]
                               /\ tries'[k] = tries[k],
         j \in TestJobs \/ pc'[j] \notin Working \cup {"launch"}
  PROVE  StockSteady' /\ Counted'
<1> USE DEF StockInv, SerialInv, TypeInv
<1>1. \A k \in StockJobs : k \in Jobs /\ (k = j => pc'[j] \notin Working \cup {"launch"})
  BY JobsAssumption DEF Jobs
<1>2. Counted'
  BY <1>1, CountedQuiet
<1>3. ASSUME NEW k \in StockJobs, pc'[k] \in Working PROVE Steady(k)'
  BY <1>1, <1>3, OthersSteady
<1>4. QED BY <1>2, <1>3 DEF StockSteady

\* A reserve job goes on to launch only while the reserve is short, and then
\* even all the slots there are stay within the limit.
LEMMA StockCheck ==
  ASSUME StockInv, NEW j \in Jobs, CheckReserve(j)
  PROVE  StockSteady' /\ Counted'
<1> USE DEF StockInv, SerialInv, TypeInv
<1>1. /\ UNCHANGED <<ocm, target, snap, first, tries>> /\ InReserve' = InReserve
      /\ Cardinality(InReserve) < ReserveCount
      /\ pc'[j] = "launch" /\ \A k \in Jobs \ {j} : pc'[k] = pc[k]
  BY DEF CheckReserve, Goto, InReserve, TypeOK
<1>2. Slots' \subseteq StockJobs \X (1 .. NumRetries)
  BY DEF Slots
<1>3. /\ Cardinality(Slots') \in Nat
      /\ Cardinality(Slots') <= NumRetries * Cardinality(StockJobs)
  BY <1>2, AllSlots, FS_Subset, FS_CardinalityType
<1>4. Cardinality(InReserve) \in Nat /\ NumRetries * Cardinality(StockJobs) \in Nat
  BY AllSlots, FS_CardinalityType, CountsAssumption DEF Counted
<1>5. Counted'
  <2> DEFINE all == NumRetries * Cardinality(StockJobs)
  <2>1. /\ Cardinality(InReserve') + Cardinality(Slots') <= ReserveCount - 1 + all
    <3>1. all \in Nat /\ Cardinality(Slots') <= all
      BY <1>3, <1>4
    <3> HIDE DEF all
    <3>2. QED BY <1>1, <1>3, <1>4, <3>1, CountsAssumption
  <2>2. QED BY <1>1, <2>1 DEF Counted, ReserveLimit
<1>6. ASSUME NEW k \in StockJobs, pc'[k] \in Working PROVE Steady(k)'
  <2>1. k \in Jobs \ {j}
    BY <1>1, <1>6 DEF Jobs, Working
  <2>2. QED BY <1>1, <1>6, <2>1, OthersSteady
<1>7. QED BY <1>5, <1>6 DEF StockSteady

\* A claim writes to a cluster that no reserve job is at work on, and takes it
\* off the market if it does anything.
LEMMA StockClaim ==
  ASSUME StockInv, NEW j \in Jobs, Claim(j)
  PROVE  StockSteady' /\ Counted'
<1> USE DEF StockInv, SerialInv, TypeInv
<1> DEFINE body == [snap[j] EXCEPT !.avail = "claimed"]
<1>1. /\ target[j] \in Clusters /\ pc[j] = "claim" /\ j \in TestJobs /\ j \notin StockJobs
  BY JobsAssumption DEF Claim, HasCluster, ClaimsAlone
<1>2. body \in Snapshot /\ body.avail = "claimed"
  <2>1. snap[j] \in Snapshot
    BY DEF TypeOK
  <2>2. QED BY <2>1 DEF Snapshot, Availability
<1>3. \/ PatchAcked(j, body) \/ PatchRetried(j, body) \/ PatchFailed(j, body)
  BY DEF Claim
<1> HIDE DEF body
<1>4. \A d \in Clusters : /\ ocm'[d].state = ocm[d].state
                          /\ \/ ocm'[d].avail = ocm[d].avail
                             \/ d = target[j] /\ ocm'[d].avail = "claimed"
  BY <1>2, <1>3, AppliedEffect DEF PatchAcked, PatchRetried, PatchFailed
<1>5. \A k \in Jobs \ {j} : /\ pc'[k] = pc[k] /\ target'[k] = target[k]
                            /\ snap'[k] = snap[k] /\ first'[k] = first[k]
                            /\ tries'[k] = tries[k]
  <2>1. snap' = [snap EXCEPT ![j] = IF pc'[j] \in SnapshotInScope THEN body ELSE Nothing]
    BY <1>3 DEF PatchAcked, PatchRetried, PatchFailed, Mutated
  <2>2. /\ first' = first
        /\ UNCHANGED target \/ target' = [target EXCEPT ![j] = NoCluster]
        /\ UNCHANGED pc \/ Goto(j, "tag images") \/ Goto(j, "launch")
    BY DEF Claim
  <2>3. \E n \in Nat : tries' = [tries EXCEPT ![j] = n]
    BY <1>3, CountsAssumption DEF PatchAcked, PatchRetried, PatchFailed, TypeOK
  <2>4. \A k \in Jobs \ {j} : snap'[k] = snap[k]
    BY <2>1 DEF TypeOK
  <2>5. \A k \in Jobs \ {j} : pc'[k] = pc[k] /\ target'[k] = target[k]
    BY <2>2 DEF Goto, TypeOK
  <2>6. \A k \in Jobs \ {j} : tries'[k] = tries[k]
    BY <2>3 DEF TypeOK
  <2>7. QED BY <2>2, <2>4, <2>5, <2>6
<1>6. Counted'
  BY <1>1, <1>4, <1>5, CountedQuiet DEF Jobs
<1>7. ASSUME NEW k \in StockJobs, pc'[k] \in Working PROVE Steady(k)'
  <2>1. k \in Jobs \ {j} /\ pc[k] \in Working
    BY <1>1, <1>5, <1>7 DEF Jobs
  <2>2. target[k] # target[j] /\ target[k] \in Clusters
    BY <1>1, <2>1 DEF Serialised, HasCluster, Working
  <2>3. ocm'[target[k]].avail = ocm[target[k]].avail
    BY <1>4, <2>2
  <2>4. QED BY <1>5, <1>7, <2>1, <2>3, OthersSteady
<1>8. QED BY <1>6, <1>7 DEF StockSteady

\* Each attempt of a launch uses up a slot, and adds at most one cluster.
LEMMA LaunchUsesSlot ==
  ASSUME TypeOK, NEW j \in StockJobs, Launch(j)
  PROVE  /\ <<j, tries[j] + 1>> \in Slots
         /\ Slots' \subseteq Slots \ {<<j, tries[j] + 1>>}
<1>1. /\ j \in Jobs /\ tries[j] \in 0 .. NumRetries - 1 /\ pc[j] = "launch"
  BY DEF Launch, TypeOK, Jobs
<1>2. <<j, tries[j] + 1>> \in Slots
  BY <1>1, CountsAssumption DEF Slots
<1>3. \/ pc'[j] # "launch"
      \/ tries'[j] = tries[j] + 1
  BY <1>1 DEF Launch, Goto, TypeOK
<1>4. \A k \in StockJobs \ {j} : pc'[k] = pc[k] /\ tries'[k] = tries[k]
  BY <1>1 DEF Launch, Goto, TypeOK, Jobs
<1>5. ASSUME NEW k \in StockJobs, NEW n \in 1 .. NumRetries, <<k, n>> \in Slots'
      PROVE  <<k, n>> \in Slots \ {<<j, tries[j] + 1>>}
  <2>1. pc'[k] = "launch" /\ n > tries'[k]
    BY <1>5 DEF Slots
  <2>2. CASE k = j
    <3>1. n > tries[j] + 1
      BY <1>3, <2>1, <2>2
    <3>2. n > tries[j] /\ n # tries[j] + 1
      BY <1>1, <3>1, CountsAssumption
    <3>3. QED BY <1>1, <2>2, <3>2 DEF Slots
  <2>3. CASE k # j
    BY <1>4, <2>1, <2>3 DEF Slots
  <2>4. QED BY <2>2, <2>3
<1>6. Slots' \subseteq StockJobs \X (1 .. NumRetries)
  BY DEF Slots
<1>7. QED BY <1>2, <1>5, <1>6

\* A launch takes one of the slots that the job has left.
LEMMA StockLaunch ==
  ASSUME StockInv, NEW j \in Jobs, Launch(j)
  PROVE  StockSteady' /\ Counted'
<1> USE DEF StockInv, SerialInv, TypeInv
<1>1. \A k \in Jobs \ {j} : /\ pc'[k] = pc[k] /\ target'[k] = target[k]
                            /\ snap'[k] = snap[k] /\ first'[k] = first[k]
                            /\ tries'[k] = tries[k]
  BY DEF Launch, Goto, TypeOK
<1>2. \A d \in Clusters : ocm[d].state # "absent" => ocm'[d] = ocm[d]
  BY DEF Launch, TypeOK
<1>3. ASSUME NEW k \in StockJobs, pc'[k] \in Working PROVE Steady(k)'
  <2>1. CASE k # j
    <3>1. k \in Jobs \ {j} /\ pc[k] \in Working
      BY <1>1, <1>3, <2>1 DEF Jobs
    <3>2. target[k] \in Clusters /\ ocm[target[k]].state # "absent"
      BY <3>1 DEF HasCluster, Present, Working
    <3>3. ocm'[target[k]].avail = ocm[target[k]].avail
      BY <1>2, <3>2
    <3>4. QED BY <1>1, <1>3, <3>1, <3>3, OthersSteady
  <2>2. CASE k = j
    <3>1. pc'[j] = "fetch"
      BY <1>3, <2>2 DEF Launch, Goto, TypeOK, Working
    <3>2. PICK c \in Clusters : /\ ocm' = [ocm EXCEPT ![c] = NewCluster(j)]
                                /\ target' = [target EXCEPT ![j] = c]
      BY <3>1 DEF Launch, Goto, TypeOK
    <3>3. target'[j] = c /\ ocm'[c].avail = "reserved"
      BY <2>2, <3>2 DEF NewCluster, TypeOK
    <3>4. QED BY <2>2, <3>1, <3>3 DEF Steady, Provisioning
  <2>3. QED BY <2>1, <2>2
<1>4. \/ UNCHANGED ocm
      \/ \E c \in Clusters : /\ ocm[c].state = "absent"
                             /\ ocm' = [ocm EXCEPT ![c] = NewCluster(j)]
  BY DEF Launch
<1>5. Counted'
  <2>1. CASE j \in StockJobs
    <3> DEFINE slot == <<j, tries[j] + 1>>
    <3>1. slot \in Slots /\ Slots' \subseteq Slots \ {slot}
      BY <2>1, LaunchUsesSlot
    <3>2. /\ IsFiniteSet(Slots') /\ Cardinality(Slots) \in Nat
          /\ Cardinality(Slots') <= Cardinality(Slots) - 1 /\ Cardinality(Slots') \in Nat
      <4>1. IsFiniteSet(Slots) /\ Cardinality(Slots) \in Nat
        BY SlotsFinite
      <4>2. /\ IsFiniteSet(Slots \ {slot})
            /\ Cardinality(Slots \ {slot}) = Cardinality(Slots) - 1
        BY <3>1, <4>1, FS_RemoveElement
      <4>3. /\ IsFiniteSet(Slots')
            /\ Cardinality(Slots') <= Cardinality(Slots \ {slot})
        BY <3>1, <4>2, FS_Subset
      <4>4. QED BY <4>1, <4>2, <4>3, FS_CardinalityType
    <3>3. \E c : InReserve' \subseteq InReserve \cup {c}
      BY <1>4 DEF InReserve, TypeOK
    <3>4. /\ IsFiniteSet(InReserve') /\ Cardinality(InReserve) \in Nat
          /\ Cardinality(InReserve') <= Cardinality(InReserve) + 1
          /\ Cardinality(InReserve') \in Nat
      <4>1. PICK c : InReserve' \subseteq InReserve \cup {c}
        BY <3>3
      <4>2. IsFiniteSet(InReserve) /\ Cardinality(InReserve) \in Nat
        BY FS_CardinalityType DEF Counted
      <4>3. /\ IsFiniteSet(InReserve \cup {c})
            /\ Cardinality(InReserve \cup {c}) \in {Cardinality(InReserve),
                                                 Cardinality(InReserve) + 1}
        <5> HIDE DEF StockInv, SerialInv, TypeInv
        <5> QED BY <4>2, FS_AddElement
      <4>4. /\ IsFiniteSet(InReserve')
            /\ Cardinality(InReserve') <= Cardinality(InReserve \cup {c})
        BY <4>1, <4>3, FS_Subset
      <4>5. QED BY <4>2, <4>3, <4>4, FS_CardinalityType
    <3>5. ReserveLimit \in Int /\ ReserveLimit' = ReserveLimit
      BY AllSlots, CountsAssumption DEF ReserveLimit
    <3>6. QED BY <3>2, <3>4, <3>5 DEF Counted
  <2>2. CASE j \notin StockJobs
    <3>1. \A c \in Clusters : /\ ocm'[c].avail = "reserved" => ocm[c].avail = "reserved"
                             /\ \/ ocm'[c].state = ocm[c].state
                                \/ ocm'[c].avail = "none"
      BY <1>4, <2>2 DEF NewCluster, TypeOK
    <3>2. InReserve' \subseteq InReserve
      BY <3>1 DEF InReserve
    <3>3. Slots' \subseteq Slots
      BY <1>1, <2>2 DEF Slots, Jobs
    <3>4. QED BY <3>2, <3>3, CountedCalm
  <2>3. QED BY <2>1, <2>2
<1>6. QED BY <1>3, <1>5 DEF StockSteady

\* OCM changes only states: a cluster it installs was in the reserve already.
LEMMA StockEnvironment ==
  ASSUME StockInv, NEW c \in Clusters, Install(c) \/ Expiry(c)
  PROVE  StockSteady' /\ Counted'
<1> USE DEF StockInv, SerialInv, TypeInv
<1>1. UNCHANGED <<pc, target, snap, first, tries>>
  BY DEF Install, Expiry
<1>2. PICK s \in State : /\ ocm' = [ocm EXCEPT ![c].state = s]
                         /\ \/ s \in {"error", "gone"}
                            \/ ocm[c].state \in {"pending", "installing"}
  BY DEF Install, Expiry, State
<1>3. \A d \in Clusters : /\ ocm'[d].avail = ocm[d].avail
                          /\ \/ ocm'[d].state \in {ocm[d].state, "error", "gone"}
                             \/ ocm[d].state \in {"pending", "installing"}
  BY <1>2 DEF TypeOK, Record
<1>4. Counted'
  BY <1>1, <1>3, CountedQuiet
<1>5. ASSUME NEW k \in StockJobs, pc'[k] \in Working PROVE Steady(k)'
  <2>1. target[k] \in Clusters
    BY <1>1, <1>5 DEF HasCluster, Working, Jobs
  <2>2. QED BY <1>1, <1>3, <1>5, <2>1, OthersSteady
<1>6. QED BY <1>4, <1>5 DEF StockSteady

\* At first the reserve holds the initial stock and no job has a slot.
LEMMA StockInit ==
  ASSUME Init, Cardinality(InitialStock) <= ReserveLimit
  PROVE  StockInv
<1>1. SerialInv
  BY SerialInit
<1>2. StockSteady
  BY DEF Init, StockSteady, Working, Jobs
<1>3. InReserve \subseteq InitialStock /\ Slots = {}
  BY DEF Init, InReserve, Slots, Jobs
<1>4. /\ IsFiniteSet(InReserve) /\ Cardinality(InReserve) \in Nat
      /\ Cardinality(InReserve) <= Cardinality(InitialStock)
      /\ Cardinality(InitialStock) \in Nat /\ Cardinality(Slots) = 0
  BY <1>3, StockAssumption, FS_Subset, FS_CardinalityType, FS_EmptySet
<1>5. ReserveLimit \in Int
  BY AllSlots, CountsAssumption DEF ReserveLimit
<1>6. QED BY <1>1, <1>2, <1>4, <1>5 DEF StockInv, Counted

\* StockInv is inductive as long as claims are serialised.
LEMMA StockNext == StockInv /\ [Next /\ Serialised']_vars => StockInv'
<1> SUFFICES ASSUME StockInv, [Next /\ Serialised']_vars PROVE StockInv'
  OBVIOUS
<1>1. SerialInv'
  BY SerialNext DEF StockInv
<1>2. CASE UNCHANGED vars
  <2>1. StockSteady'
    BY <1>2 DEF vars, StockInv, StockSteady, Steady
  <2>2. InReserve' = InReserve /\ Slots' = Slots /\ ReserveLimit' = ReserveLimit
    BY <1>2 DEF vars, InReserve, Slots, ReserveLimit
  <2>3. QED BY <1>1, <2>1, <2>2 DEF StockInv, Counted
<1>3. TypeInv /\ TypeOK
  BY DEF StockInv, SerialInv, TypeInv
<1>4. ASSUME NEW j \in Jobs, Exited(j) PROVE StockSteady' /\ Counted'
  <2>1. /\ pc'[j] = "idle" /\ UNCHANGED ocm
        /\ \A k \in Jobs \ {j} : /\ pc'[k] = pc[k] /\ target'[k] = target[k]
                                 /\ snap'[k] = snap[k] /\ first'[k] = first[k]
                                 /\ tries'[k] = tries[k]
    BY <1>3, <1>4 DEF Exited, Goto, TypeOK
  <2>2. QED BY <2>1, StockAside DEF Working
<1>5. ASSUME NEW j \in Jobs, Start(j) PROVE StockSteady' /\ Counted'
  <2>1. CASE QueryForClaim(j)
    <3>1. /\ j \in TestJobs /\ UNCHANGED ocm
          /\ \A k \in Jobs \ {j} : /\ pc'[k] = pc[k] /\ target'[k] = target[k]
                                   /\ snap'[k] = snap[k] /\ first'[k] = first[k]
                                   /\ tries'[k] = tries[k]
      BY <1>3, <2>1 DEF QueryForClaim, Goto, TypeOK
    <3>2. QED BY <3>1, StockAside
  <2>2. CASE CheckReserve(j)
    BY <2>2, StockCheck
  <2>3. QED BY <1>5, <2>1, <2>2 DEF Start
<1>6. ASSUME NEW j \in Jobs, Step(j) PROVE StockSteady' /\ Counted'
  <2>1. CASE ExtensionFails(j)
    <3>1. /\ j \in TestJobs /\ UNCHANGED ocm
          /\ \A k \in Jobs \ {j} : /\ pc'[k] = pc[k] /\ target'[k] = target[k]
                                   /\ snap'[k] = snap[k] /\ first'[k] = first[k]
                                   /\ tries'[k] = tries[k]
      BY <1>3, <2>1 DEF ExtensionFails, Goto, TypeOK, StockInv, SerialInv, ClaimsAlone
    <3>2. QED BY <3>1, StockAside
  <2>2. CASE Claim(j)
    BY <2>2, StockClaim
  <2>3. CASE Launch(j)
    BY <2>3, StockLaunch
  <2>4. CASE Exit(j)
    BY <1>4, <2>4 DEF Exit
  <2>5. CASE ~ (ExtensionFails(j) \/ Claim(j) \/ Launch(j) \/ Exit(j))
    <3>1. Work(j)
      BY <1>3, <1>6, <2>5, StepWorks
    <3>2. QED BY <1>6, <3>1, StockWork, StockTestWork DEF Jobs
  <2>6. QED BY <2>1, <2>2, <2>3, <2>4, <2>5
<1>7. ASSUME NEW j \in Jobs, Kill(j) PROVE StockSteady' /\ Counted'
  BY <1>4, <1>7 DEF Kill
<1>8. ASSUME NEW c \in Clusters, Install(c) \/ Expiry(c) PROVE StockSteady' /\ Counted'
  BY <1>8, StockEnvironment
<1>9. QED BY <1>1, <1>2, <1>5, <1>6, <1>7, <1>8 DEF Next, StockInv

\* As long as claims are serialised, concurrent reserve jobs overshoot the
\* reserve by at most their launches and blind retries (ReserveBounded), for any
\* number of jobs, runs and retries, if the stock is within that limit at first.
THEOREM SerialReserveBounded ==
  ASSUME Cardinality(InitialStock) <= ReserveLimit
  PROVE  SerialSpec => []ReserveBounded
<1>1. ASSUME StockInv PROVE ReserveBounded
  <2>1. /\ Cardinality(InReserve) \in Nat /\ Cardinality(Slots) \in Nat
        /\ ReserveLimit \in Int
    BY <1>1, FS_CardinalityType, SlotsFinite, AllSlots, CountsAssumption
    DEF StockInv, Counted, ReserveLimit
  <2>2. Cardinality(InReserve) <= ReserveLimit
    BY <1>1, <2>1 DEF StockInv, Counted
  <2>3. QED BY <2>2 DEF ReserveBounded, ReserveLimit
<1>2. Init => StockInv
  BY StockInit
<1>3. QED BY <1>1, <1>2, StockNext, PTL DEF SerialSpec

-----------------------------------------------------------------------------
(* What holds without any discipline: a test job's own cluster stays its   *)
(* own, and a used cluster that nobody refers to stays used.               *)

Harmless == {"none", "used"}

\* What is true of a cluster that a test job launched for itself: it is not on
\* offer, at most one run refers to it and did not claim it, and nothing that
\* run may write back puts it on offer.
Kept(c) ==
  /\ ocm[c].avail \in Harmless
  /\ \A j, k \in Jobs : target[j] = c /\ target[k] = c => j = k
  /\ \A j \in Jobs : target[j] = c =>
       pc[j] # "claim" /\ snap[j].avail \in Harmless /\ first[j].avail \in Harmless

\* A cluster id that OCM has not handed out yet says nothing.
Fresh == \A c \in Clusters : ocm[c].state = "absent" => ocm[c].avail = "none"

FreeInv ==
  /\ TypeInv /\ Unburdened /\ Present /\ Fresh
  /\ \A c \in Clusters : ocm[c].maker = "test" => Kept(c)

\* FreeInv holds before any run starts.
LEMMA FreeInit == Init => FreeInv
<1> SUFFICES ASSUME Init PROVE FreeInv
  OBVIOUS
<1>1. TypeInv
  BY TypeInit
<1>2. Unburdened /\ Present
  BY ClustersAssumption DEF Init, Unburdened, Present
<1>3. Fresh /\ \A c \in Clusters : ocm[c].maker # "test"
  BY DEF Init, Fresh
<1>4. QED BY <1>1, <1>2, <1>3 DEF FreeInv

\* A run at work writes back only what it has read of its own cluster, or used.
LEMMA FreeWork ==
  ASSUME FreeInv, NEW j \in Jobs, Work(j), TypeInv'
  PROVE  FreeInv'
<1> USE DEF FreeInv, TypeInv
<1>1. target[j] \in Clusters /\ ocm[target[j]].state # "absent"
  BY DEF Work, Working, HasCluster, Present
<1>2. Unburdened' /\ Present'
  BY DEF Work, Working, Unburdened, Present
<1>3. Fresh'
  BY <1>1 DEF Work, Fresh
<1>4. ASSUME NEW c \in Clusters, ocm'[c].maker = "test" PROVE Kept(c)'
  <2>1. Kept(c) /\ target' = target
    BY <1>4 DEF Work
  <2>2. ocm'[c].avail \in Harmless
    BY <2>1 DEF Work, Kept, Harmless
  <2>3. ASSUME NEW k \in Jobs, target[k] = c
        PROVE  pc'[k] # "claim" /\ snap'[k].avail \in Harmless /\ first'[k].avail \in Harmless
    <3>1. CASE k = j
      BY <2>1, <2>3, <3>1 DEF Work, Working, Kept, Harmless
    <3>2. CASE k # j
      BY <2>1, <2>3, <3>2 DEF Work, Kept
    <3>3. QED BY <3>1, <3>2
  <2>4. QED BY <2>1, <2>2, <2>3 DEF Kept
<1>5. QED BY <1>2, <1>3, <1>4

\* A run that lets go of its cluster carries nothing of it any more.
LEMMA FreeLetGo ==
  ASSUME FreeInv, NEW j \in Jobs, TypeInv',
         UNCHANGED ocm, NEW l \in {"idle", "launch"}, Goto(j, l),
         target' = [target EXCEPT ![j] = NoCluster],
         snap' = [snap EXCEPT ![j] = Nothing],
         first'[j] = Nothing,
         \A k \in Jobs \ {j} : first'[k] = first[k]
  PROVE  FreeInv'
<1> USE DEF FreeInv, TypeInv
<1>1. /\ pc'[j] = l /\ target'[j] = NoCluster /\ snap'[j] = Nothing
      /\ \A k \in Jobs \ {j} : /\ pc'[k] = pc[k] /\ target'[k] = target[k]
                              /\ snap'[k] = snap[k] /\ first'[k] = first[k]
  BY DEF Goto, TypeOK
<1>2. Unburdened'
  BY <1>1 DEF Unburdened
<1>3. Present' /\ Fresh'
  BY <1>1, ClustersAssumption DEF Present, Fresh
<1>4. \A c \in Clusters : Kept(c) => Kept(c)'
  BY <1>1, ClustersAssumption DEF Kept
<1>5. QED BY <1>2, <1>3, <1>4

\* The candidate of a claim is reserved, so no test job has launched it.
LEMMA FreeQuery ==
  ASSUME FreeInv, NEW j \in Jobs, QueryForClaim(j), TypeInv'
  PROVE  FreeInv'
<1> USE DEF FreeInv, TypeInv
<1>0. /\ target[j] = NoCluster /\ snap[j] = Nothing /\ first[j] = Nothing
      /\ pc[j] = "idle"
  BY DEF QueryForClaim, Unburdened
<1>1. CASE Goto(j, "launch") /\ UNCHANGED <<target, snap>>
  <2>1. /\ target' = [target EXCEPT ![j] = NoCluster]
        /\ snap' = [snap EXCEPT ![j] = Nothing]
        /\ first' = first /\ ocm' = ocm
    BY <1>0, <1>1 DEF QueryForClaim, TypeOK
  <2>2. QED BY <1>0, <1>1, <2>1, FreeLetGo
<1>2. ASSUME NEW c \in Candidates, Goto(j, "claim"),
             target' = [target EXCEPT ![j] = c],
             snap' = [snap EXCEPT ![j] = View(c)]
      PROVE  FreeInv'
  <2>1. c \in Clusters /\ ocm[c].avail = "reserved" /\ ocm[c].state # "absent"
    BY <1>2 DEF Candidates, Reserved, InReserve
  <2>2. /\ pc'[j] = "claim" /\ target'[j] = c
        /\ \A k \in Jobs \ {j} : /\ pc'[k] = pc[k] /\ target'[k] = target[k]
                                /\ snap'[k] = snap[k]
        /\ first' = first /\ ocm' = ocm
    BY <1>2 DEF QueryForClaim, Goto, TypeOK
  <2>3. Unburdened'
    BY <1>0, <2>2 DEF Unburdened
  <2>4. Present' /\ Fresh'
    BY <2>1, <2>2 DEF Present, Fresh
  <2>5. \A d \in Clusters : Kept(d) => d # c
    BY <2>1 DEF Kept, Harmless
  <2>6. \A d \in Clusters : Kept(d) => Kept(d)'
    BY <2>2, <2>5 DEF Kept
  <2>7. QED BY <2>2, <2>3, <2>4, <2>6
<1>3. QED BY <1>1, <1>2 DEF QueryForClaim

\* A claim writes to its candidate alone, which no test job has launched.
LEMMA FreeClaim ==
  ASSUME FreeInv, NEW j \in Jobs, Claim(j), TypeInv'
  PROVE  FreeInv'
<1> USE DEF FreeInv, TypeInv
<1> DEFINE c == target[j]
           body == [snap[j] EXCEPT !.avail = "claimed"]
<1>1. /\ c \in Clusters /\ ocm[c].state # "absent"
      /\ pc[j] = "claim" /\ first[j] = Nothing
  BY DEF Claim, HasCluster, Unburdened, Present
<1>2. body \in Snapshot
  <2>1. snap[j] \in Snapshot
    BY DEF TypeOK
  <2>2. QED BY <2>1 DEF Snapshot, Availability
<1>3. \/ PatchAcked(j, body) \/ PatchRetried(j, body) \/ PatchFailed(j, body)
  BY DEF Claim
<1>4. \/ pc'[j] = "tag images" /\ target'[j] = c
      \/ pc'[j] = "claim" /\ target'[j] = c
      \/ pc'[j] = "launch" /\ target'[j] = NoCluster
  BY <1>1 DEF Claim, Goto, TypeOK
<1> HIDE DEF body
<1>5. \A d \in Clusters :
        /\ ocm[d].state # "absent" => ocm'[d].state # "absent"
        /\ ocm'[d].maker = ocm[d].maker
        /\ d # c => ocm'[d].avail = ocm[d].avail
  BY <1>2, <1>3, AppliedEffect DEF PatchAcked, PatchRetried, PatchFailed
<1>6. snap' = [snap EXCEPT ![j] = IF pc'[j] \in SnapshotInScope THEN body ELSE Nothing]
  BY <1>3 DEF PatchAcked, PatchRetried, PatchFailed, Mutated
<1>7. /\ \A k \in Jobs \ {j} : /\ pc'[k] = pc[k] /\ target'[k] = target[k]
                              /\ snap'[k] = snap[k]
      /\ first' = first
  BY <1>6 DEF Claim, Goto, TypeOK
<1>8. Unburdened'
  <2>1. pc'[j] = "launch" => snap'[j] = Nothing
    BY <1>6 DEF SnapshotInScope, TypeOK
  <2>2. QED BY <1>1, <1>4, <1>7, <2>1 DEF Unburdened
<1>9. Present'
  <2>1. ASSUME NEW k \in Jobs, target'[k] \in Clusters
        PROVE  ocm'[target'[k]].state # "absent"
    <3>1. target'[k] = target[k] \/ (k = j /\ target'[k] = c)
      BY <1>4, <1>7, <2>1, ClustersAssumption
    <3>2. target'[k] \in Clusters /\ ocm[target'[k]].state # "absent"
      BY <1>1, <2>1, <3>1 DEF Present
    <3> QED
      BY <1>5, <3>2
  <2> QED
    BY <2>1 DEF Present
<1>10. Fresh'
  BY <1>1, <1>5 DEF Fresh
<1>11. ASSUME NEW d \in Clusters, Kept(d) PROVE Kept(d)'
  <2>1. d # c
    BY <1>1, <1>11 DEF Kept
  <2>2. target'[j] # d /\ ocm'[d].avail = ocm[d].avail
    BY <1>4, <1>5, <2>1, ClustersAssumption
  <2>3. QED BY <1>7, <1>11, <2>2 DEF Kept
<1>12. QED BY <1>5, <1>8, <1>9, <1>10, <1>11

\* A launched cluster is new: nobody refers to it but the run that launched it,
\* and not even that one if the answer was lost.
LEMMA FreeLaunch ==
  ASSUME FreeInv, NEW j \in Jobs, Launch(j), TypeInv'
  PROVE  FreeInv'
<1> USE DEF FreeInv, TypeInv
<1>1. /\ pc[j] = "launch" /\ target[j] = NoCluster
      /\ snap[j] = Nothing /\ first[j] = Nothing
  BY DEF Launch, Unburdened
<1>2. /\ snap' = snap /\ first' = first
      /\ \A k \in Jobs \ {j} : pc'[k] = pc[k] /\ target'[k] = target[k]
  BY DEF Launch, Goto, TypeOK
<1>3. ASSUME NEW c \in Clusters, ocm[c].state = "absent",
             ocm' = [ocm EXCEPT ![c] = NewCluster(j)],
             \/ pc'[j] = "fetch" /\ target'[j] = c
             \/ pc'[j] \in {"launch", "end"} /\ target'[j] = NoCluster
      PROVE  FreeInv'
  <2>1. /\ \A d \in Clusters \ {c} : ocm'[d] = ocm[d]
        /\ ocm'[c].state = "pending"
        /\ ocm'[c].maker = "test" => ocm'[c].avail = "none"
    BY <1>3 DEF NewCluster, TypeOK
  <2>2. \A k \in Jobs \ {j} : target[k] # c
    BY <1>3 DEF Present
  <2>3. Unburdened'
    BY <1>1, <1>2, <1>3 DEF Unburdened
  <2>4. Present'
    BY <1>2, <1>3, <2>1, <2>2, ClustersAssumption DEF Present
  <2>5. Fresh'
    BY <2>1 DEF Fresh
  <2>6. \A d \in Clusters \ {c} : Kept(d) => Kept(d)'
    BY <1>2, <1>3, <2>1, ClustersAssumption DEF Kept
  <2>7. ocm'[c].avail = "none" => Kept(c)'
    BY <1>1, <1>2, <1>3, <2>2 DEF Kept, Harmless, Nothing
  <2>8. QED BY <2>1, <2>3, <2>4, <2>5, <2>6, <2>7
<1>4. ASSUME UNCHANGED ocm, UNCHANGED target, pc'[j] \in {"launch", "end"}
      PROVE  FreeInv'
  <2>1. Unburdened' /\ Present' /\ Fresh'
    BY <1>1, <1>2, <1>4 DEF Unburdened, Present, Fresh
  <2>2. \A d \in Clusters : Kept(d) => Kept(d)'
    BY <1>2, <1>4 DEF Kept
  <2>3. QED BY <1>4, <2>1, <2>2
<1>5. \/ \E c \in Clusters :
           /\ ocm[c].state = "absent" /\ ocm' = [ocm EXCEPT ![c] = NewCluster(j)]
           /\ \/ pc'[j] = "fetch" /\ target'[j] = c
              \/ pc'[j] \in {"launch", "end"} /\ target'[j] = NoCluster
      \/ UNCHANGED ocm /\ UNCHANGED target /\ pc'[j] \in {"launch", "end"}
  BY <1>1 DEF Launch, Goto, TypeOK
<1>6. QED BY <1>3, <1>4, <1>5

\* OCM changes only the state of a cluster, and never to absent.
LEMMA FreeEnvironment ==
  ASSUME FreeInv, NEW c \in Clusters, Install(c) \/ Expiry(c), TypeInv'
  PROVE  FreeInv'
<1> USE DEF FreeInv, TypeInv
<1>1. PICK s \in State \ {"absent"} : ocm' = [ocm EXCEPT ![c].state = s]
  BY DEF Install, Expiry, State
<1>2. \A d \in Clusters : /\ ocm'[d].avail = ocm[d].avail
                          /\ ocm'[d].maker = ocm[d].maker
                          /\ ocm[d].state # "absent" => ocm'[d].state # "absent"
  BY <1>1 DEF TypeOK, Record
<1>3. UNCHANGED <<pc, target, snap, first>>
  BY DEF Install, Expiry
<1>4. Unburdened' /\ Present' /\ Fresh'
  BY <1>2, <1>3 DEF Unburdened, Present, Fresh
<1>5. \A d \in Clusters : Kept(d) => Kept(d)'
  BY <1>2, <1>3 DEF Kept
<1>6. QED BY <1>2, <1>4, <1>5

\* Every step keeps the invariant, whoever overlaps with whom.
LEMMA FreeNext == FreeInv /\ [Next]_vars => FreeInv'
<1> SUFFICES ASSUME FreeInv, [Next]_vars PROVE FreeInv'
  OBVIOUS
<1>1. TypeInv /\ TypeInv'
  BY TypeNext DEF FreeInv
<1>2. CASE UNCHANGED vars
  BY <1>1, <1>2 DEF vars, FreeInv, Unburdened, Present, Fresh, Kept
<1>3. ASSUME NEW j \in Jobs, Start(j) PROVE FreeInv'
  <2>1. CASE QueryForClaim(j)
    BY <1>1, <2>1, FreeQuery
  <2>2. CASE CheckReserve(j)
    <3>1. target[j] = NoCluster /\ snap[j] = Nothing /\ first[j] = Nothing
      BY <2>2 DEF CheckReserve, FreeInv, Unburdened
    <3>2. /\ target' = [target EXCEPT ![j] = NoCluster]
          /\ snap' = [snap EXCEPT ![j] = Nothing]
      BY <1>1, <2>2, <3>1 DEF CheckReserve, TypeInv, TypeOK
    <3>3. QED BY <1>1, <2>2, <3>1, <3>2, FreeLetGo DEF CheckReserve
  <2>3. QED BY <1>3, <2>1, <2>2 DEF Start
<1>4. ASSUME NEW j \in Jobs, Step(j) PROVE FreeInv'
  <2>1. CASE ExtensionFails(j)
    <3>1. first[j] = Nothing
      BY <2>1 DEF ExtensionFails, FreeInv, Unburdened
    <3>2. QED BY <1>1, <2>1, <3>1, FreeLetGo DEF ExtensionFails
  <2>2. CASE Claim(j)
    BY <1>1, <2>2, FreeClaim
  <2>3. CASE Launch(j)
    BY <1>1, <2>3, FreeLaunch
  <2>4. CASE Exit(j)
    BY <1>1, <2>4, FreeLetGo DEF Exit, Exited, TypeInv, TypeOK
  <2>5. CASE ~ (ExtensionFails(j) \/ Claim(j) \/ Launch(j) \/ Exit(j))
    <3>1. Work(j)
      BY <1>1, <1>4, <2>5, StepWorks
    <3>2. QED BY <1>1, <3>1, FreeWork
  <2>6. QED BY <2>1, <2>2, <2>3, <2>4, <2>5
<1>5. ASSUME NEW j \in Jobs, Kill(j) PROVE FreeInv'
  BY <1>1, <1>5, FreeLetGo DEF Kill, Exited, TypeInv, TypeOK
<1>6. ASSUME NEW c \in Clusters, Install(c) \/ Expiry(c) PROVE FreeInv'
  BY <1>1, <1>6, FreeEnvironment
<1>7. QED BY <1>2, <1>3, <1>4, <1>5, <1>6 DEF Next

\* A cluster that a test job launched for itself is never handed to anyone else
\* (PrivateStaysPrivate), for any number of runs, in any order, and whatever is
\* retried, lost or killed.
THEOREM PrivateKept == Spec => []PrivateStaysPrivate
<1>1. FreeInv => PrivateStaysPrivate
  BY DEF FreeInv, PrivateStaysPrivate, Kept, Harmless
<1>2. QED BY <1>1, FreeInit, FreeNext, PTL DEF Spec

\* No step finds a used cluster that nobody refers to: a PATCH goes to the
\* cluster of the run that sends it, a claim to one on offer, a launch to a new id.
LEMMA RetiredStays ==
  ASSUME FreeInv, [Next]_vars, NEW c \in Clusters, Retired(c)
  PROVE  Retired(c)'
<1> USE DEF FreeInv, TypeInv, Retired
<1>1. \A j \in Jobs : target[j] # c
  OBVIOUS
<1>2. ocm[c].avail = "used" /\ ocm[c].state # "absent"
  BY DEF Fresh
<1>3. CASE UNCHANGED vars
  BY <1>3 DEF vars
<1>4. ASSUME NEW j \in Jobs, QueryForClaim(j) PROVE Retired(c)'
  <2>1. c \notin Candidates
    BY <1>2 DEF Candidates, Reserved, InReserve
  <2>2. /\ UNCHANGED ocm
        /\ \/ UNCHANGED target
           \/ \E d \in Candidates : target' = [target EXCEPT ![j] = d]
    BY <1>4 DEF QueryForClaim
  <2>3. QED BY <1>1, <1>2, <2>1, <2>2 DEF TypeOK
<1>5. ASSUME NEW j \in Jobs,
             CheckReserve(j) \/ ExtensionFails(j) \/ Exit(j) \/ Kill(j)
      PROVE  Retired(c)'
  <2>1. /\ UNCHANGED ocm
        /\ (UNCHANGED target) \/ target' = [target EXCEPT ![j] = NoCluster]
    BY <1>5 DEF CheckReserve, ExtensionFails, Exit, Kill, Exited
  <2>2. QED BY <1>1, <1>2, <2>1, ClustersAssumption DEF TypeOK
<1>6. ASSUME NEW j \in Jobs, Claim(j) PROVE Retired(c)'
  <2> DEFINE body == [snap[j] EXCEPT !.avail = "claimed"]
  <2>1. body \in Snapshot
    <3>1. snap[j] \in Snapshot
      BY DEF TypeOK
    <3>2. QED BY <3>1 DEF Snapshot, Availability
  <2>2. \/ PatchAcked(j, body) \/ PatchRetried(j, body) \/ PatchFailed(j, body)
    BY <1>6 DEF Claim
  <2>3. (UNCHANGED target) \/ target' = [target EXCEPT ![j] = NoCluster]
    BY <1>6 DEF Claim
  <2> HIDE DEF body
  <2>4. Applied(j, body) \/ UNCHANGED ocm
    BY <2>2 DEF PatchAcked, PatchRetried, PatchFailed
  <2>5. ocm'[c].avail = ocm[c].avail
    BY <1>1, <2>1, <2>4, AppliedEffect
  <2>6. QED BY <1>1, <1>2, <2>3, <2>5, ClustersAssumption DEF TypeOK
<1>7. ASSUME NEW j \in Jobs, Launch(j) PROVE Retired(c)'
  <2>1. ocm'[c] = ocm[c]
    BY <1>2, <1>7 DEF Launch, TypeOK
  <2>2. \A k \in Jobs : target'[k] # c
    BY <1>1, <1>2, <1>7 DEF Launch, TypeOK
  <2>3. QED BY <1>2, <2>1, <2>2
<1>8. ASSUME NEW j \in Jobs, Work(j) PROVE Retired(c)'
  BY <1>1, <1>2, <1>8 DEF Work
<1>9. ASSUME NEW d \in Clusters, Install(d) \/ Expiry(d) PROVE Retired(c)'
  <2>1. ocm'[c].avail = ocm[c].avail /\ target' = target
    BY <1>9 DEF Install, Expiry, TypeOK, Record
  <2>2. QED BY <1>1, <1>2, <2>1
<1>10. QED
  BY <1>3, <1>4, <1>5, <1>6, <1>7, <1>8, <1>9, StepWorks DEF Next, Start

\* A cluster whose run is over and which no run refers to is never handed out
\* again (RetiredForGood), for any number of runs and retries.
THEOREM UsedForGood == Spec => RetiredForGood
<1>1. FreeInv /\ [Next]_vars => [\A c \in Clusters : Retired(c) => Retired(c)']_vars
  BY RetiredStays
<1>2. QED BY <1>1, FreeInit, FreeNext, PTL DEF Spec, RetiredForGood

=============================================================================
