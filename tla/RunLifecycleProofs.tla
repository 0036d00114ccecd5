------------------------- MODULE RunLifecycleProofs -------------------------
(***************************************************************************)
(* What a run of osde2e test guarantees for any set of test images: its    *)
(* types, the meaning of exit code 0, the meaning of the tag it leaves on  *)
(* the cluster, and that it is an Orchestrator.                            *)
(***************************************************************************)
EXTENDS RunLifecycle, SequenceTheorems, TLAPS

-----------------------------------------------------------------------------
(* Types.                                                                  *)

\* The empty queue is a queue of notices.
LEMMA NoNotices == <<>> \in Seq(Notice)
  BY EmptySeq

\* So is a queue with one notice more.
LEMMA OneMoreNotice ==
  ASSUME NEW s \in Seq(Notice), NEW n \in Notice
  PROVE  Append(s, n) \in Seq(Notice)
  BY AppendProperties

\* The variables of a run keep their types through every step of RunTests, and
\* through kills and expiries.
THEOREM TypeCorrect == Spec => []TypeOK
<1> USE DEF history, queue, PCs, Phases, Outcome
<1>1. Init => TypeOK
  <2> SUFFICES ASSUME Init PROVE TypeOK
    OBVIOUS
  <2>1. /\ conf \in Config /\ id \in BOOLEAN /\ passing \in BOOLEAN
        /\ cluster \in {"none", "live", "deleted", "expired"}
    BY DEF Init, Config
  <2>2. ran \in [Phases \cup {"cluster"} -> Outcome]
    BY DEF Init
  <2>3. result \in [exit : {"Success", "Failure"}, testsPassed : BOOLEAN,
                    upgradePassed : BOOLEAN, errors : SUBSET ErrorKinds]
    BY DEF Init
  <2>4. pending \in Seq(Notice) /\ sending \in Seq(Notice)
    BY NoNotices DEF Init
  <2> QED
    BY <2>1, <2>2, <2>3, <2>4 DEF Init, TypeOK
<1>2. TypeOK /\ [Next]_vars => TypeOK'
  <2> SUFFICES ASSUME TypeOK, [Next]_vars PROVE TypeOK'
    OBVIOUS
  <2> USE DEF TypeOK
  <2>1. CASE Obtain
    BY <2>1 DEF Obtain
  <2>2. CASE ObtainFails
    BY <2>2 DEF ObtainFails
  <2>3. CASE PrepareFails
    BY <2>3 DEF PrepareFails
  <2>4. CASE Execute
    BY <2>4 DEF Execute
  <2>5. ASSUME NEW s \in Suites, RunSuite(s) PROVE TypeOK'
    <3>1. [suite |-> s, phase |-> Phase] \in Notice
      BY DEF Notice, Phase
    <3>2. pending' \in Seq(Notice)
      <4>1. pending' = pending \/ pending' = Append(pending, [suite |-> s, phase |-> Phase])
        BY <2>5 DEF RunSuite
      <4>2. Append(pending, [suite |-> s, phase |-> Phase]) \in Seq(Notice)
        BY <3>1, OneMoreNotice
      <4> HIDE DEF TypeOK
      <4>3. pending \in Seq(Notice)
        BY DEF TypeOK
      <4> QED
        BY <4>1, <4>2, <4>3
    <3>3. failures' \subseteq Notice
      BY <2>5, <3>1 DEF RunSuite
    <3>4. ran' \in [Phases \cup {"cluster"} -> Outcome]
      BY <2>5 DEF RunSuite, Phase
    <3>5. todo' \subseteq Suites
      BY <2>5 DEF RunSuite
    <3>6. UNCHANGED <<conf, pc, id, cluster, status, result, passing, sending, attempts>>
      BY <2>5 DEF RunSuite
    <3> HIDE DEF PCs, Phases, Outcome, history, queue
    <3> QED
      BY <3>2, <3>3, <3>4, <3>5, <3>6
  <2>6. CASE PhaseBreaks
    <3>1. ran' \in [Phases \cup {"cluster"} -> Outcome]
      BY <2>6 DEF PhaseBreaks, Phase
    <3>2. /\ todo' \subseteq Suites
          /\ UNCHANGED <<conf, pc, id, cluster, status, result, passing, pending, sending,
                         attempts, failures>>
      BY <2>6 DEF PhaseBreaks
    <3> HIDE DEF PCs, Phases, Outcome, history, queue
    <3> QED
      BY <3>1, <3>2
  <2>7. CASE InstallPhaseEnds
    BY <2>7 DEF InstallPhaseEnds, Passed, Verdict, Phase
  <2>8. CASE Upgrade
    BY <2>8 DEF Upgrade
  <2>9. CASE UpgradeFails
    BY <2>9 DEF UpgradeFails, ErrorKinds
  <2>10. CASE UpgradePhaseEnds
    BY <2>10 DEF UpgradePhaseEnds, Passed, Verdict, Phase
  <2>11. CASE SetVerdict
    BY <2>11 DEF SetVerdict
  <2>12. CASE PostProcess
    <3>1. PICK gathered \in BOOLEAN, complete \in BOOLEAN :
            result' = [result EXCEPT !.errors = @
              \cup (IF gathered THEN {} ELSE {"gather"})
              \cup (IF complete THEN {} ELSE {"properties"})]
      BY <2>12 DEF PostProcess
    <3>2. {"gather", "properties"} \subseteq ErrorKinds
      BY DEF ErrorKinds
    <3>3. result' \in [exit : {"Success", "Failure"}, testsPassed : BOOLEAN,
                       upgradePassed : BOOLEAN, errors : SUBSET ErrorKinds]
      BY <3>1, <3>2
    <3>4. status' \in {"other", "completed-passing", "completed-failing",
                       "completed-error"}
      BY <2>12 DEF PostProcess
    <3> QED
      BY <2>12, <3>3, <3>4 DEF PostProcess
  <2>13. CASE Extend
    BY <2>13 DEF Extend, ErrorKinds
  <2>14. CASE Report
    <3>1. pending' \in Seq(Notice) /\ sending' \in Seq(Notice)
      BY <2>14, NoNotices DEF Report
    <3>2. attempts' \subseteq Notice \cup {Everyone}
      BY <2>14 DEF Report
    <3> QED
      BY <2>14, <3>1, <3>2 DEF Report
  <2>15. CASE Deliver
    <3>1. Head(sending) \in Notice /\ Tail(sending) \in Seq(Notice)
      BY <2>15, HeadTailProperties DEF Deliver
    <3> QED
      BY <2>15, <3>1 DEF Deliver
  <2>16. CASE Reported
    BY <2>16 DEF Reported, AfterReport
  <2>17. CASE Cleanup
    <3>1. cluster' \in {"none", "live", "deleted", "expired"}
      BY <2>17 DEF Cleanup
    <3>2. result' \in [exit : {"Success", "Failure"}, testsPassed : BOOLEAN,
                       upgradePassed : BOOLEAN, errors : SUBSET ErrorKinds]
      <4>1. \/ result' = result
            \/ result' = [result EXCEPT !.errors = @ \cup {"delete"}]
        BY <2>17 DEF Cleanup
      <4>2. {"delete"} \subseteq ErrorKinds
        BY DEF ErrorKinds
      <4> HIDE DEF ErrorKinds, PCs, Phases, Outcome, history, queue
      <4> QED
        BY <4>1, <4>2
    <3>3. /\ pc' \in PCs
          /\ UNCHANGED <<conf, id, status, passing, todo, pending, sending, attempts,
                         ran, failures>>
      BY <2>17 DEF Cleanup
    <3> QED
      BY <3>1, <3>2, <3>3
  <2>18. CASE DryStep
    <3>1. pc' \in PCs
      BY <2>18 DEF DryStep, AfterReport
    <3>2. UNCHANGED <<conf, id, cluster, status, result, passing, todo, pending, sending,
                      attempts, ran, failures>>
      BY <2>18 DEF DryStep
    <3> QED
      BY <3>1, <3>2
  <2>19. CASE Kill \/ Expiry
    BY <2>19 DEF Kill, Expiry
  <2>20. CASE UNCHANGED vars
    <3>1. /\ conf' = conf /\ pc' = pc /\ id' = id /\ cluster' = cluster
          /\ status' = status /\ result' = result /\ passing' = passing
          /\ todo' = todo /\ pending' = pending /\ sending' = sending
          /\ attempts' = attempts /\ ran' = ran /\ failures' = failures
      BY <2>20 DEF vars
    <3> HIDE DEF PCs, Phases, Outcome, history, queue
    <3> QED
      BY <3>1
  <2> QED
    BY <2>1, <2>2, <2>3, <2>4, <2>5, <2>6, <2>7, <2>8, <2>9, <2>10, <2>11,
       <2>12, <2>13, <2>14, <2>15, <2>16, <2>17, <2>18, <2>19, <2>20
    DEF Next, Step
<1> QED
  BY <1>1, <1>2, PTL DEF Spec

-----------------------------------------------------------------------------
(* Exit code 0.                                                            *)

Upgraded ==
  ran["cluster"] = "passed" /\ (conf.post => ran["upgrade"] = "passed")

Over == {"post-process", "extend", "report", "notify", "cleanup", "done"}

\* The inductive invariant: how each verdict is backed by what ran, at every
\* step at which it may be read.
Backed ==
  /\ result.testsPassed => ran["install"] = "passed"
  /\ pc \in {"provision", "prepare", "install phase"} => ~result.testsPassed
  /\ pc \in {"upgrade", "upgrade phase"} => conf.upgrade
  /\ pc = "upgrade phase" => ran["cluster"] = "passed"
  /\ pc = "verdict" /\ result.upgradePassed /\ conf.upgrade => Upgraded
  /\ pc \in Over /\ result.exit = "Success" =>
       ran["install"] = "passed" /\ (conf.upgrade => Upgraded)

\* Backed holds throughout a run.
LEMMA BackedHolds == Spec => []Backed
<1> USE DEF history, queue, Phases, Outcome, Upgraded, Over
<1>1. Init => Backed
  <2> SUFFICES ASSUME Init PROVE Backed
    OBVIOUS
  <2>1. pc = "provision" /\ result.testsPassed = FALSE
    BY DEF Init
  <2> QED
    BY <2>1 DEF Backed
<1>2. TypeOK /\ Backed /\ [Next]_vars => Backed'
  <2> SUFFICES ASSUME TypeOK, Backed, [Next]_vars PROVE Backed'
    OBVIOUS
  <2>a. /\ ran \in [Phases \cup {"cluster"} -> Outcome]
        /\ result \in [exit : {"Success", "Failure"}, testsPassed : BOOLEAN,
                       upgradePassed : BOOLEAN, errors : SUBSET ErrorKinds]
        /\ pc \in PCs
    BY DEF TypeOK
  <2> USE <2>a DEF Backed
  <2>1. CASE Obtain
    BY <2>1 DEF Obtain
  <2>2. CASE ObtainFails
    BY <2>2 DEF ObtainFails
  <2>3. CASE PrepareFails
    BY <2>3 DEF PrepareFails
  <2>4. CASE Execute
    BY <2>4 DEF Execute
  <2>5. ASSUME NEW s \in Suites, RunSuite(s) PROVE Backed'
    <3>1. CASE pc = "install phase"
      BY <2>5, <3>1 DEF RunSuite, Phase
    <3>2. CASE pc = "upgrade phase"
      BY <2>5, <3>2 DEF RunSuite, Phase
    <3> QED
      BY <2>5, <3>1, <3>2 DEF RunSuite, Running
  <2>6. CASE PhaseBreaks
    BY <2>6 DEF PhaseBreaks, Phase, Running
  <2>7. CASE InstallPhaseEnds
    BY <2>7 DEF InstallPhaseEnds, Passed, Verdict, Phase
  <2>8. CASE Upgrade
    BY <2>8 DEF Upgrade
  <2>9. CASE UpgradeFails
    BY <2>9 DEF UpgradeFails
  <2>10. CASE UpgradePhaseEnds
    BY <2>10 DEF UpgradePhaseEnds, Passed, Verdict, Phase
  <2>11. CASE SetVerdict
    BY <2>11 DEF SetVerdict
  <2>12. CASE PostProcess
    BY <2>12 DEF PostProcess
  <2>13. CASE Extend
    BY <2>13 DEF Extend
  <2>14. CASE Report \/ Deliver \/ Reported
    BY <2>14 DEF Report, Deliver, Reported, AfterReport
  <2>15. CASE Cleanup
    BY <2>15 DEF Cleanup
  <2>16. CASE DryStep
    BY <2>16 DEF DryStep, AfterReport
  <2>17. CASE Kill \/ Expiry
    BY <2>17 DEF Kill, Expiry
  <2>18. CASE UNCHANGED vars
    BY <2>18 DEF vars
  <2> QED
    BY <2>1, <2>2, <2>3, <2>4, <2>5, <2>6, <2>7, <2>8, <2>9, <2>10, <2>11,
       <2>12, <2>13, <2>14, <2>15, <2>16, <2>17, <2>18
    DEF Next, Step
<1> QED
  BY <1>1, <1>2, TypeCorrect, PTL DEF Spec

\* Exit code 0 means that the install phase ran and passed, that the upgrade
\* succeeded if there was one, and that its phase passed if it was to run: for
\* any test images, failing in any order, with any step of the run failing.
THEOREM SuccessEarned == Spec => []SuccessIsEarned
<1>1. Backed => SuccessIsEarned
  BY DEF Backed, SuccessIsEarned, Upgraded, Over
<1> QED
  BY <1>1, BackedHolds, PTL

-----------------------------------------------------------------------------
(* The tag on the cluster.                                                 *)

Tagged == {"extend", "report", "notify", "cleanup", "done"}

\* The last test phase that ran passed.
LastPassed ==
  IF ran["upgrade"] # "not run" THEN ran["upgrade"] = "passed"
                                ELSE ran["install"] = "passed"

\* The inductive invariant: Passing is the verdict of the last phase whenever
\* no phase is running, and nothing has touched the tag before PostProcess.
PassingFollows ==
  /\ pc \in {"provision", "prepare"} => ran["install"] = "not run"
  /\ pc \in {"provision", "prepare", "install phase", "upgrade"} =>
       ran["upgrade"] = "not run"
  /\ pc \in {"upgrade", "verdict", "post-process"} =>
       (passing <=> LastPassed)
  /\ pc \notin Tagged \cup {"killed"} => status = "other"
  /\ pc \in Tagged /\ status # "other" =>
       (status = "completed-passing" <=> LastPassed)

\* The tag says completed-passing exactly when the last test phase that ran
\* passed.  An upgrade that fails runs no phase: that is how a cluster whose
\* upgrade failed can be left tagged as passing.
THEOREM TagFollows == Spec => []TagFollowsLastPhase
<1> USE DEF history, queue, Phases, Outcome, Tagged, LastPassed
<1>1. Init => PassingFollows
  BY DEF Init, PassingFollows
<1>2. TypeOK /\ PassingFollows /\ [Next]_vars => PassingFollows'
  <2> SUFFICES ASSUME TypeOK, PassingFollows, [Next]_vars PROVE PassingFollows'
    OBVIOUS
  <2>a. /\ ran \in [Phases \cup {"cluster"} -> Outcome]
        /\ passing \in BOOLEAN
        /\ pc \in PCs
    BY DEF TypeOK
  <2> USE <2>a DEF PassingFollows
  <2>1. CASE Obtain \/ ObtainFails \/ PrepareFails \/ Execute
    BY <2>1 DEF Obtain, ObtainFails, PrepareFails, Execute
  <2>2. ASSUME NEW s \in Suites, RunSuite(s) PROVE PassingFollows'
    <3>1. CASE pc = "install phase"
      BY <2>2, <3>1 DEF RunSuite, Phase
    <3>2. CASE pc = "upgrade phase"
      BY <2>2, <3>2 DEF RunSuite, Phase
    <3> QED
      BY <2>2, <3>1, <3>2 DEF RunSuite, Running
  <2>3. CASE PhaseBreaks
    BY <2>3 DEF PhaseBreaks, Phase, Running
  <2>4. CASE InstallPhaseEnds
    <3>1. PICK v \in BOOLEAN :
            /\ ran' = [ran EXCEPT !["install"] = IF v THEN "passed" ELSE "failed"]
            /\ passing' = v
      BY <2>4 DEF InstallPhaseEnds, Passed, Verdict, Phase
    <3>2. /\ status' = status /\ pc = "install phase"
          /\ pc' \in {"upgrade", "verdict"}
      BY <2>4 DEF InstallPhaseEnds
    <3>3. CASE v = TRUE
      BY <3>1, <3>2, <3>3
    <3>4. CASE v = FALSE
      BY <3>1, <3>2, <3>4
    <3> QED
      BY <3>3, <3>4
  <2>5. CASE Upgrade
    BY <2>5 DEF Upgrade
  <2>6. CASE UpgradeFails
    BY <2>6 DEF UpgradeFails
  <2>7. CASE UpgradePhaseEnds
    <3>1. PICK v \in BOOLEAN :
            /\ ran' = [ran EXCEPT !["upgrade"] = IF v THEN "passed" ELSE "failed"]
            /\ passing' = v
      BY <2>7 DEF UpgradePhaseEnds, Passed, Verdict, Phase
    <3>2. /\ status' = status /\ pc = "upgrade phase"
          /\ pc' \in {"verdict"}
      BY <2>7 DEF UpgradePhaseEnds
    <3>3. CASE v = TRUE
      BY <3>1, <3>2, <3>3
    <3>4. CASE v = FALSE
      BY <3>1, <3>2, <3>4
    <3> QED
      BY <3>3, <3>4
  <2>8. CASE SetVerdict
    BY <2>8 DEF SetVerdict
  <2>9. CASE PostProcess
    BY <2>9 DEF PostProcess
  <2>10. CASE Extend \/ Report \/ Deliver \/ Reported
    BY <2>10 DEF Extend, Report, Deliver, Reported, AfterReport
  <2>11. CASE Cleanup
    BY <2>11 DEF Cleanup
  <2>12. CASE DryStep
    BY <2>12 DEF DryStep, AfterReport
  <2>13. CASE Kill \/ Expiry
    <3>1. CASE Kill
      <4>1. pc' = "killed"
        BY <3>1 DEF Kill
      <4> QED
        BY <4>1
    <3>2. CASE Expiry
      <4>1. UNCHANGED <<pc, ran, passing, status>>
        BY <3>2 DEF Expiry
      <4> QED
        BY <4>1
    <3> QED
      BY <2>13, <3>1, <3>2
  <2>14. CASE UNCHANGED vars
    BY <2>14 DEF vars
  <2> QED
    BY <2>1, <2>2, <2>3, <2>4, <2>5, <2>6, <2>7, <2>8, <2>9, <2>10, <2>11,
       <2>12, <2>13, <2>14
    DEF Next, Step
<1>3. PassingFollows => TagFollowsLastPhase
  BY DEF PassingFollows, TagFollowsLastPhase, LastPhase
<1> QED
  BY <1>1, <1>2, <1>3, TypeCorrect, PTL DEF Spec

-----------------------------------------------------------------------------
(* RunTests is an Orchestrator.                                            *)

\* The inductive invariant: that Execute was reached shows in what ran, and
\* there is a cluster from the moment it is said to be provisioned.
Staged ==
  /\ pc \in {"provision", "prepare"} => ~Tested
  /\ pc \in {"verdict", "post-process", "extend", "cleanup"} => Tested
  /\ pc = "provision" => (cluster = "none" <=> ~conf.given)
  /\ pc = "prepare" => cluster # "none"

\* Staged holds throughout a run.
LEMMA StagedHolds == Spec => []Staged
<1> USE DEF history, queue, Tested, Phases, Outcome
<1>1. Init => Staged
  <2> SUFFICES ASSUME Init PROVE Staged
    OBVIOUS
  <2>1. /\ \A p \in DOMAIN ran : ran[p] = "not run"
        /\ pc = "provision"
        /\ conf.given \in BOOLEAN
        /\ cluster = IF conf.given THEN "live" ELSE "none"
    BY DEF Init, Config
  <2> QED
    BY <2>1 DEF Staged
<1>2. TypeOK /\ Staged /\ [Next]_vars => Staged'
  <2> SUFFICES ASSUME TypeOK, Staged, [Next]_vars PROVE Staged'
    OBVIOUS
  <2>a. ran \in [Phases \cup {"cluster"} -> Outcome]
    BY DEF TypeOK
  <2> USE <2>a DEF Staged
  <2>1. CASE Obtain \/ ObtainFails \/ PrepareFails \/ Execute
    BY <2>1 DEF Obtain, ObtainFails, PrepareFails, Execute
  <2>2. ASSUME NEW s \in Suites, RunSuite(s) PROVE Staged'
    BY <2>2 DEF RunSuite, Running
  <2>3. CASE PhaseBreaks
    BY <2>3 DEF PhaseBreaks, Running
  <2>4. CASE InstallPhaseEnds
    <3>1. ran'["install"] # "not run" /\ DOMAIN ran' = DOMAIN ran
      BY <2>4 DEF InstallPhaseEnds, Verdict, Phase
    <3>2. "install" \in DOMAIN ran'
      BY <3>1
    <3>3. pc' \in {"upgrade", "verdict"}
      BY <2>4 DEF InstallPhaseEnds
    <3> QED
      BY <3>1, <3>2, <3>3
  <2>5. CASE Upgrade \/ UpgradeFails
    <3>1. ran'["cluster"] # "not run" /\ "cluster" \in DOMAIN ran'
      BY <2>5 DEF Upgrade, UpgradeFails
    <3>2. pc' \in {"upgrade phase", "verdict"}
      BY <2>5 DEF Upgrade, UpgradeFails
    <3> QED
      BY <3>1, <3>2
  <2>6. CASE UpgradePhaseEnds
    <3>1. ran'["upgrade"] # "not run" /\ "upgrade" \in DOMAIN ran'
      BY <2>6 DEF UpgradePhaseEnds, Verdict, Phase
    <3>2. pc' = "verdict"
      BY <2>6 DEF UpgradePhaseEnds
    <3> QED
      BY <3>1, <3>2
  <2>7. CASE SetVerdict \/ PostProcess \/ Extend
    BY <2>7 DEF SetVerdict, PostProcess, Extend
  <2>8. CASE Report \/ Deliver \/ Reported
    BY <2>8 DEF Report, Deliver, Reported, AfterReport
  <2>9. CASE Cleanup \/ DryStep
    BY <2>9 DEF Cleanup, DryStep, AfterReport
  <2>10. CASE Kill \/ Expiry
    BY <2>10 DEF Kill, Expiry
  <2>11. CASE UNCHANGED vars
    BY <2>11 DEF vars
  <2> QED
    BY <2>1, <2>2, <2>3, <2>4, <2>5, <2>6, <2>7, <2>8, <2>9, <2>10, <2>11
    DEF Next, Step
<1> QED
  BY <1>1, <1>2, TypeCorrect, PTL DEF Spec

\* The exit code as the caller of the process sees it.
Exit == IF pc = "killed" THEN "Killed" ELSE result.exit

\* A run of osde2e test implements orchestrator.Orchestrator, for any test
\* images: whatever fails, its steps come in the promised order, only Execute
\* and a failed provisioning decide the exit code, and nothing deletes the
\* cluster before the report.
THEOREM RunIsOrchestrator == Spec => Implements
<1> USE DEF history, queue
<1>1. Init => Abstract!Init
  <2> SUFFICES ASSUME Init PROVE Abstract!Init
    OBVIOUS
  <2>1. pc = "provision" /\ result.exit = "Success"
    BY DEF Init
  <2>2. cluster \in {"none", "live"}
    BY DEF Init
  <2> QED
    BY <2>1, <2>2 DEF Abstract!Init, Stage
<1>2. TypeOK /\ Staged /\ Staged' /\ [Next]_vars => [Abstract!Next]_(Abstract!vars)
  <2> SUFFICES ASSUME TypeOK, Staged, Staged', [Next]_vars
               PROVE  Abstract!Next \/ UNCHANGED <<Stage, Exit, cluster>>
    BY DEF Abstract!vars, Exit
  <2>a. /\ result \in [exit : {"Success", "Failure"}, testsPassed : BOOLEAN,
                       upgradePassed : BOOLEAN, errors : SUBSET ErrorKinds]
        /\ cluster \in {"none", "live", "deleted", "expired"}
    BY DEF TypeOK
  <2> USE <2>a DEF Stage, Exit
  <2>1. CASE Obtain
    <3>1. CASE conf.given
      BY <2>1, <3>1 DEF Obtain
    <3>2. CASE ~conf.given
      <4>1. Abstract!Obtain
        BY <2>1, <3>2 DEF Obtain, Staged, Abstract!Obtain
      <4> QED
        BY <4>1 DEF Abstract!Next
    <3> QED
      BY <3>1, <3>2
  <2>2. CASE ObtainFails
    <3>1. ~Tested'
      BY <2>2 DEF ObtainFails, Staged, Tested
    <3>2. Abstract!ProvisionFails
      BY <2>2, <3>1 DEF ObtainFails, Staged, Abstract!ProvisionFails
    <3> QED
      BY <3>2 DEF Abstract!Next
  <2>3. CASE PrepareFails
    <3>1. ~Tested'
      BY <2>3 DEF PrepareFails, Staged, Tested
    <3>2. Abstract!ProvisionFails
      BY <2>3, <3>1 DEF PrepareFails, Abstract!ProvisionFails
    <3> QED
      BY <3>2 DEF Abstract!Next
  <2>4. CASE Execute
    <3>1. Abstract!Provision
      BY <2>4 DEF Execute, Staged, Abstract!Provision
    <3> QED
      BY <3>1 DEF Abstract!Next
  <2>5. ASSUME NEW s \in Suites, RunSuite(s)
        PROVE  UNCHANGED <<Stage, Exit, cluster>>
    BY <2>5 DEF RunSuite, Running
  <2>6. CASE PhaseBreaks
    BY <2>6 DEF PhaseBreaks, Running
  <2>7. CASE InstallPhaseEnds \/ Upgrade \/ UpgradeFails \/ UpgradePhaseEnds
    BY <2>7 DEF InstallPhaseEnds, Upgrade, UpgradeFails, UpgradePhaseEnds
  <2>8. CASE SetVerdict
    <3>1. Abstract!Execute
      BY <2>8 DEF SetVerdict, Abstract!Execute
    <3> QED
      BY <3>1 DEF Abstract!Next
  <2>9. CASE PostProcess
    <3>1. result'.exit = result.exit
      BY <2>9 DEF PostProcess
    <3>2. Abstract!PostProcessCluster
      BY <2>9, <3>1 DEF PostProcess, Staged, Abstract!PostProcessCluster
    <3> QED
      BY <3>2 DEF Abstract!Next
  <2>10. CASE Extend
    <3>1. result'.exit = result.exit /\ Tested' = Tested
      BY <2>10 DEF Extend, Tested
    <3> QED
      BY <2>10, <3>1 DEF Extend
  <2>11. CASE Report
    <3>1. Tested' = Tested
      BY <2>11 DEF Report, Tested
    <3> QED
      BY <2>11, <3>1 DEF Report
  <2>12. CASE Deliver
    <3>1. Tested' = Tested
      BY <2>12 DEF Deliver, Tested
    <3> QED
      BY <2>12, <3>1 DEF Deliver
  <2>13. CASE Reported
    <3>1. CASE Tested
      <4>1. Abstract!Report
        BY <2>13, <3>1 DEF Reported, AfterReport, Abstract!Report
      <4> QED
        BY <4>1 DEF Abstract!Next
    <3>2. CASE ~Tested
      <4>1. Abstract!GiveUp
        BY <2>13, <3>2 DEF Reported, AfterReport, Abstract!GiveUp
      <4> QED
        BY <4>1 DEF Abstract!Next
    <3> QED
      BY <3>1, <3>2
  <2>14. CASE Cleanup
    <3>1. result'.exit = result.exit
      BY <2>14 DEF Cleanup
    <3>2. Abstract!Cleanup
      BY <2>14, <3>1 DEF Cleanup, Abstract!Cleanup
    <3> QED
      BY <3>2 DEF Abstract!Next
  <2>15. CASE DryStep
    <3>1. CASE pc = "post-process"
      <4>1. Tested' = Tested /\ Tested
        BY <2>15, <3>1 DEF DryStep, Staged, Tested
      <4>2. Abstract!PostProcessCluster
        BY <2>15, <3>1, <4>1 DEF DryStep, Abstract!PostProcessCluster
      <4> QED
        BY <4>2 DEF Abstract!Next
    <3>2. CASE pc = "report" /\ Tested
      <4>1. Abstract!Report
        BY <2>15, <3>2 DEF DryStep, AfterReport, Abstract!Report
      <4> QED
        BY <4>1 DEF Abstract!Next
    <3>3. CASE pc = "report" /\ ~Tested
      <4>1. Abstract!GiveUp
        BY <2>15, <3>3 DEF DryStep, AfterReport, Abstract!GiveUp
      <4> QED
        BY <4>1 DEF Abstract!Next
    <3>4. CASE pc = "cleanup"
      <4>1. Abstract!Cleanup
        BY <2>15, <3>4 DEF DryStep, Abstract!Cleanup
      <4> QED
        BY <4>1 DEF Abstract!Next
    <3> QED
      BY <2>15, <3>1, <3>2, <3>3, <3>4 DEF DryStep
  <2>16. CASE Kill
    <3>1. Stage # "over"
      BY <2>16 DEF Kill, TypeOK, PCs
    <3>2. Abstract!Kill
      BY <2>16, <3>1 DEF Kill, Abstract!Kill
    <3> QED
      BY <3>2 DEF Abstract!Next
  <2>17. CASE Expiry
    <3>1. Tested' = Tested
      BY <2>17 DEF Expiry, Tested
    <3>2. Abstract!Expiry
      BY <2>17, <3>1 DEF Expiry, Abstract!Expiry
    <3> QED
      BY <3>2 DEF Abstract!Next
  <2>18. CASE UNCHANGED vars
    <3>1. Tested' = Tested
      BY <2>18 DEF vars, Tested
    <3> QED
      BY <2>18, <3>1 DEF vars
  <2> QED
    BY <2>1, <2>2, <2>3, <2>4, <2>5, <2>6, <2>7, <2>8, <2>9, <2>10, <2>11,
       <2>12, <2>13, <2>14, <2>15, <2>16, <2>17, <2>18
    DEF Next, Step
<1> QED
  BY <1>1, <1>2, TypeCorrect, StagedHolds, PTL DEF Spec, Implements, Abstract!Spec

-----------------------------------------------------------------------------
(* Who is told.                                                            *)

\* A queue of notices holds a notice.
Holds(s, n) == \E i \in 1 .. Len(s) : s[i] = n

\* The inductive invariant: the notice of a failed image is in the queue, then
\* among those being sent, then posted if somebody is to be told.
Noted ==
  \A n \in failures :
    /\ pc \notin {"notify", "cleanup", "done", "killed"} => Holds(pending, n)
    /\ pc = "notify" =>
         \/ Holds(sending, n)
         \/ conf.slack /\ n.suite \in conf.owned => n \in attempts
    /\ pc \in {"cleanup", "done"} /\ ~conf.dry /\ conf.slack /\ n.suite \in conf.owned =>
         n \in attempts

\* A queue keeps what it held when a notice is appended, and holds that one, too.
LEMMA AppendHolds ==
  ASSUME NEW s \in Seq(Notice), NEW m \in Notice
  PROVE  /\ Holds(Append(s, m), m)
         /\ \A n : Holds(s, n) => Holds(Append(s, m), n)
  BY AppendProperties DEF Holds

\* What is not the head of a queue is in its tail.
LEMMA TailHolds ==
  ASSUME NEW s \in Seq(Notice), s # <<>>, NEW n, Holds(s, n), n # Head(s)
  PROVE  Holds(Tail(s), n)
<1>1. PICK i \in 1 .. Len(s) : s[i] = n
  BY DEF Holds
<1>2. Head(s) = s[1] /\ Len(s) \in Nat
  OBVIOUS
<1>3. i \in Nat /\ i # 1 /\ i - 1 \in 1 .. Len(s) - 1
  BY <1>1, <1>2
<1>4. Len(Tail(s)) = Len(s) - 1 /\ Tail(s)[i - 1] = s[(i - 1) + 1]
  BY <1>2, <1>3, HeadTailProperties
<1>5. (i - 1) + 1 = i /\ i - 1 \in 1 .. Len(Tail(s))
  BY <1>3, <1>4
<1>6. Tail(s)[i - 1] = n
  BY <1>1, <1>4, <1>5
<1> QED
  BY <1>5, <1>6 DEF Holds

\* No step of a run loses a notice.
LEMMA NotedStep ==
  ASSUME TypeOK, Noted, [Next]_vars
  PROVE  Noted'
<1> USE DEF history, queue, Noted
<1>a. pending \in Seq(Notice) /\ sending \in Seq(Notice) /\ failures \subseteq Notice
  BY DEF TypeOK
<1>1. CASE Obtain \/ ObtainFails \/ PrepareFails
  BY <1>1 DEF Obtain, ObtainFails, PrepareFails
<1>2. CASE Execute
  BY <1>2 DEF Execute
<1>3. ASSUME NEW s \in Suites, RunSuite(s) PROVE Noted'
  <2> DEFINE m == [suite |-> s, phase |-> Phase]
  <2>1. pc' = pc /\ pc \in {"install phase", "upgrade phase"} /\ m \in Notice
    BY <1>3 DEF RunSuite, Running, Phase, Phases, Notice
  <2>2. \/ pending' = pending /\ failures' = failures
        \/ pending' = Append(pending, m) /\ failures' = failures \cup {m}
    BY <1>3 DEF RunSuite
  <2> HIDE DEF m
  <2>3. \A n \in failures : Holds(pending, n)
    BY <2>1
  <2>4. Holds(Append(pending, m), m) /\ \A n : Holds(pending, n) => Holds(Append(pending, m), n)
    BY <1>a, <2>1, AppendHolds
  <2>5. \A n \in failures' : Holds(pending', n)
    BY <2>2, <2>3, <2>4
  <2> QED
    BY <2>1, <2>5
<1>4. CASE PhaseBreaks
  BY <1>4 DEF PhaseBreaks, Running
<1>5. CASE InstallPhaseEnds \/ UpgradePhaseEnds
  <2>1. /\ UNCHANGED <<conf, pending, failures>>
        /\ pc \in {"install phase", "upgrade phase"} /\ pc' \in {"upgrade", "verdict"}
    BY <1>5 DEF InstallPhaseEnds, UpgradePhaseEnds
  <2> QED
    BY <2>1
<1>6. CASE Upgrade \/ UpgradeFails \/ SetVerdict
  <2>1. /\ UNCHANGED <<conf, pending, failures>>
        /\ pc \in {"upgrade", "verdict"} /\ pc' \in {"upgrade phase", "verdict", "post-process"}
    BY <1>6 DEF Upgrade, UpgradeFails, SetVerdict
  <2> QED
    BY <2>1
<1>7. CASE PostProcess \/ Extend
  <2>1. /\ UNCHANGED <<conf, pending, failures>>
        /\ pc \in {"post-process", "extend"} /\ pc' \in {"extend", "report"}
    BY <1>7 DEF PostProcess, Extend
  <2> QED
    BY <2>1
<1>8. CASE Report
  BY <1>8 DEF Report
<1>9. CASE Deliver
  <2>1. /\ UNCHANGED <<conf, pc, failures>> /\ pc = "notify" /\ sending # <<>>
        /\ sending' = Tail(sending)
        /\ attempts' = IF conf.slack /\ Head(sending).suite \in conf.owned
                         THEN attempts \cup {Head(sending)} ELSE attempts
    BY <1>9 DEF Deliver
  <2>2. ASSUME NEW n \in failures
        PROVE  \/ Holds(sending', n)
               \/ conf.slack /\ n.suite \in conf.owned => n \in attempts'
    <3>1. CASE Holds(sending, n) /\ n # Head(sending)
      BY <1>a, <2>1, <3>1, TailHolds
    <3>2. CASE n = Head(sending)
      BY <2>1, <3>2
    <3>3. CASE conf.slack /\ n.suite \in conf.owned => n \in attempts
      BY <2>1, <3>3
    <3> QED
      BY <2>1, <3>1, <3>2, <3>3
  <2> QED
    BY <2>1, <2>2
<1>10. CASE Reported
  <2>1. /\ UNCHANGED <<conf, attempts, failures>> /\ pc = "notify" /\ sending = <<>>
        /\ pc' \in {"cleanup", "done"}
    BY <1>10 DEF Reported, AfterReport
  <2>2. \A n : ~Holds(sending, n)
    BY <2>1 DEF Holds
  <2> QED
    BY <2>1, <2>2
<1>11. CASE Cleanup
  BY <1>11 DEF Cleanup
<1>12. CASE DryStep
  BY <1>12 DEF DryStep, AfterReport
<1>13. CASE Kill \/ Expiry
  BY <1>13 DEF Kill, Expiry
<1>14. CASE UNCHANGED vars
  BY <1>14 DEF vars
<1> QED
  BY <1>1, <1>2, <1>3, <1>4, <1>5, <1>6, <1>7, <1>8, <1>9, <1>10, <1>11, <1>12,
     <1>13, <1>14 DEF Next, Step

\* Every owner of a failed image is sent a message (RunAdHocTestImages queues it,
\* Report drains the queue), whatever failed before or after it.
THEOREM OwnersAreTold == Spec => []OwnersTold
<1>1. Init => Noted
  BY DEF Init, Noted
<1>2. TypeOK /\ Noted /\ [Next]_vars => Noted'
  BY NotedStep
<1>3. TypeOK /\ Noted => OwnersTold
  BY DEF TypeOK, Noted, OwnersTold
<1> QED
  BY <1>1, <1>2, <1>3, TypeCorrect, PTL DEF Spec

\* The inductive invariant: nothing is posted before the report, a queue that is
\* not empty has a failed phase behind it, and a run that reports success has
\* nothing to send.
Quiet ==
  /\ ran["upgrade"] # "not run" => conf.upgrade /\ conf.post
  /\ pc = "upgrade phase" => conf.upgrade /\ conf.post
  /\ pending # <<>> => "failed" \in {ran["install"], ran["upgrade"]}
  /\ pc \notin {"notify", "cleanup", "done", "killed"} => sending = <<>> /\ attempts = {}
  /\ pc \in {"notify", "cleanup", "done"} /\ result.exit = "Success" =>
       sending = <<>> /\ attempts = {}

\* No step makes a run that is to succeed post anything.
LEMMA QuietStep ==
  ASSUME TypeOK, Backed, Quiet, [Next]_vars
  PROVE  Quiet'
<1> USE DEF history, queue, Quiet
<1>a. /\ ran \in [{"install", "upgrade", "cluster"} -> {"not run", "passed", "failed"}]
      /\ result \in [exit : {"Success", "Failure"}, testsPassed : BOOLEAN,
                     upgradePassed : BOOLEAN, errors : SUBSET ErrorKinds]
  BY DEF TypeOK, Phases, Outcome
<1>1. CASE Obtain \/ ObtainFails \/ PrepareFails
  BY <1>1 DEF Obtain, ObtainFails, PrepareFails
<1>2. CASE Execute
  BY <1>2 DEF Execute
<1>3. ASSUME NEW s \in Suites, RunSuite(s) PROVE Quiet'
  <2>1. /\ UNCHANGED <<conf, pc, sending, attempts, result>>
        /\ pc \in {"install phase", "upgrade phase"}
        /\ \/ UNCHANGED <<pending, ran>>
           \/ ran' = [ran EXCEPT ![Phase] = "failed"]
    BY <1>3 DEF RunSuite, Running
  <2>2. CASE pc = "install phase"
    BY <1>a, <2>1, <2>2 DEF Phase
  <2>3. CASE pc = "upgrade phase"
    BY <1>a, <2>1, <2>3 DEF Phase
  <2> QED
    BY <2>1, <2>2, <2>3
<1>4. CASE PhaseBreaks
  <2>1. /\ UNCHANGED <<conf, pc, queue, result>>
        /\ pc \in {"install phase", "upgrade phase"}
        /\ ran' = [ran EXCEPT ![Phase] = "failed"]
    BY <1>4 DEF PhaseBreaks, Running
  <2>2. CASE pc = "install phase"
    BY <1>a, <2>1, <2>2 DEF Phase
  <2>3. CASE pc = "upgrade phase"
    BY <1>a, <2>1, <2>3 DEF Phase
  <2> QED
    BY <2>1, <2>2, <2>3
<1>5. CASE InstallPhaseEnds
  <2>1. PICK v \in BOOLEAN :
          /\ v => ran["install"] # "failed"
          /\ ran' = [ran EXCEPT !["install"] = IF v THEN "passed" ELSE "failed"]
    BY <1>5 DEF InstallPhaseEnds, Passed, Verdict, Phase
  <2>2. /\ UNCHANGED <<conf, queue>> /\ pc = "install phase" /\ pc' \in {"upgrade", "verdict"}
    BY <1>5 DEF InstallPhaseEnds
  <2> QED
    BY <1>a, <2>1, <2>2
<1>6. CASE UpgradePhaseEnds
  <2>1. PICK v \in BOOLEAN :
          /\ v => ran["upgrade"] # "failed"
          /\ ran' = [ran EXCEPT !["upgrade"] = IF v THEN "passed" ELSE "failed"]
    BY <1>6 DEF UpgradePhaseEnds, Passed, Verdict, Phase
  <2>2. /\ UNCHANGED <<conf, queue>> /\ pc = "upgrade phase" /\ pc' = "verdict"
    BY <1>6 DEF UpgradePhaseEnds
  <2> QED
    BY <1>a, <2>1, <2>2
<1>7. CASE Upgrade \/ UpgradeFails
  <2>1. /\ UNCHANGED <<conf, queue>> /\ pc = "upgrade" /\ pc' \in {"upgrade phase", "verdict"}
        /\ pc' = "upgrade phase" => conf.post
        /\ ran'["install"] = ran["install"] /\ ran'["upgrade"] = ran["upgrade"]
    BY <1>a, <1>7 DEF Upgrade, UpgradeFails
  <2>2. conf.upgrade
    BY <2>1 DEF Backed
  <2> QED
    BY <2>1, <2>2
<1>8. CASE SetVerdict \/ PostProcess \/ Extend
  <2>1. /\ UNCHANGED <<conf, queue, ran>> /\ pc \in {"verdict", "post-process", "extend"}
        /\ pc' \in {"post-process", "extend", "report"}
    BY <1>8 DEF SetVerdict, PostProcess, Extend
  <2> QED
    BY <2>1
<1>9. CASE Report
  <2>1. ASSUME result.exit = "Success" PROVE pending = <<>>
    BY <1>9, <1>a, <2>1 DEF Report, Backed, Over, Upgraded
  <2> QED
    BY <1>9, <2>1 DEF Report
<1>10. CASE Deliver
  BY <1>10 DEF Deliver
<1>11. CASE Reported
  BY <1>11 DEF Reported, AfterReport
<1>12. CASE Cleanup
  BY <1>12, <1>a DEF Cleanup
<1>13. CASE DryStep
  BY <1>13 DEF DryStep, AfterReport
<1>14. CASE Kill \/ Expiry
  BY <1>14 DEF Kill, Expiry
<1>15. CASE UNCHANGED vars
  BY <1>15 DEF vars
<1> QED
  BY <1>1, <1>2, <1>3, <1>4, <1>5, <1>6, <1>7, <1>8, <1>9, <1>10, <1>11, <1>12,
     <1>13, <1>14, <1>15 DEF Next, Step

\* A run that exits with 0 has posted nothing, to an owner or to the run's own
\* channel: whatever queues a notice also fails the phase, and with it the run
\* (RunAdHocTestImages, Execute, Report).
THEOREM NobodyAlarmed == Spec => []NoFalseAlarm
<1>1. Init => Quiet
  BY DEF Init, Quiet, Phases
<1>2. TypeOK /\ Backed /\ Quiet /\ [Next]_vars => Quiet'
  BY QuietStep
<1>3. Quiet => NoFalseAlarm
  BY DEF Quiet, NoFalseAlarm
<1> QED
  BY <1>1, <1>2, <1>3, TypeCorrect, BackedHolds, PTL DEF Spec

-----------------------------------------------------------------------------
(* What stays behind.                                                      *)

\* The inductive invariant: whoever executes has the cluster's id, and needs it
\* to delete the cluster.
Known ==
  /\ pc \notin {"provision", "report", "notify", "done", "killed"} => id
  /\ Tested => id
  /\ NothingElseLeftBehind

\* No step forgets the cluster's id, and the last one deletes the cluster or says
\* why not.
LEMMA KnownStep ==
  ASSUME TypeOK, Staged, Known, [Next]_vars
  PROVE  Known'
<1> USE DEF history, queue, Known, NothingElseLeftBehind
<1>a. /\ id \in BOOLEAN
      /\ result \in [exit : {"Success", "Failure"}, testsPassed : BOOLEAN,
                     upgradePassed : BOOLEAN, errors : SUBSET ErrorKinds]
  BY DEF TypeOK
<1>1. CASE Obtain
  BY <1>1 DEF Obtain, Tested
<1>2. CASE ObtainFails \/ PrepareFails \/ Execute
  BY <1>2 DEF ObtainFails, PrepareFails, Execute, Tested
<1>3. ASSUME NEW s \in Suites, RunSuite(s) PROVE Known'
  BY <1>3 DEF RunSuite, Running
<1>4. CASE PhaseBreaks
  BY <1>4 DEF PhaseBreaks, Running
<1>5. CASE InstallPhaseEnds \/ UpgradePhaseEnds \/ Upgrade \/ UpgradeFails
  <2>1. UNCHANGED id /\ pc \in {"install phase", "upgrade phase", "upgrade"} /\ pc' # "done"
    BY <1>5 DEF InstallPhaseEnds, UpgradePhaseEnds, Upgrade, UpgradeFails
  <2> QED
    BY <2>1
<1>6. CASE SetVerdict \/ PostProcess \/ Extend
  <2>1. UNCHANGED id /\ pc \in {"verdict", "post-process", "extend"} /\ pc' # "done"
    BY <1>6 DEF SetVerdict, PostProcess, Extend
  <2> QED
    BY <2>1
<1>7. CASE Report \/ Deliver
  BY <1>7 DEF Report, Deliver, Tested
<1>8. CASE Reported
  <2>1. (Tested' <=> Tested) /\ UNCHANGED id /\ pc' = AfterReport
    BY <1>8 DEF Reported, Tested
  <2> QED
    BY <2>1 DEF AfterReport
<1>9. CASE Cleanup
  <2>1. id /\ id' = id /\ pc' = "done" /\ UNCHANGED conf
    BY <1>9 DEF Cleanup
  <2>2. cluster' = "live" => conf.skipDestroy \/ "delete" \in result'.errors
    BY <1>9, <1>a, <2>1 DEF Cleanup
  <2> QED
    BY <2>1, <2>2
<1>10. CASE DryStep
  <2>1. /\ conf'.dry /\ (Tested' <=> Tested) /\ id' = id
        /\ pc' \in {"report", "done"} \/ pc' = AfterReport
    BY <1>10 DEF DryStep, Tested
  <2>2. CASE pc' \in {"report", "done"}
    BY <2>1, <2>2
  <2>3. CASE pc' = AfterReport
    BY <2>1, <2>3 DEF AfterReport
  <2> QED
    BY <2>1, <2>2, <2>3
<1>11. CASE Kill
  BY <1>11 DEF Kill, Tested
<1>12. CASE Expiry
  <2>1. cluster' = "expired" /\ UNCHANGED <<pc, id, ran>>
    BY <1>12 DEF Expiry
  <2> QED
    BY <2>1 DEF Tested
<1>13. CASE UNCHANGED vars
  BY <1>13 DEF vars, Tested
<1> QED
  BY <1>1, <1>2, <1>3, <1>4, <1>5, <1>6, <1>7, <1>8, <1>9, <1>10, <1>11, <1>12,
     <1>13 DEF Next, Step

\* A cluster outlives its run only if it was to be kept, never got as far as the
\* tests, or could not be deleted, and then the result says so (RunTests, Cleanup).
THEOREM NothingElseStays == Spec => []NothingElseLeftBehind
<1>1. Init => Known
  BY DEF Init, Known, NothingElseLeftBehind, Tested
<1>2. TypeOK /\ Staged /\ Known /\ [Next]_vars => Known'
  BY KnownStep
<1>3. Known => NothingElseLeftBehind
  BY DEF Known
<1> QED
  BY <1>1, <1>2, <1>3, TypeCorrect, StagedHolds, PTL DEF Spec
=============================================================================
