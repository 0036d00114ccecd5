---------------------------- MODULE KrknRunProofs ----------------------------
(***************************************************************************)
(* The chaos run for any parameters, durations and clock: its types, what  *)
(* it does to the cluster's lifetime, its verdict, and that it implements  *)
(* the Orchestrator interface.                                             *)
(***************************************************************************)
EXTENDS KrknRun, TLAPS

USE DEF history, lifetime, verdict

\* The budget of a run is a span of time, and stays what it is.
LEMMA DurationIsTime ==
  ASSUME conf \in Config
  PROVE  Duration \in Nat /\ RunTime \in Nat /\ RunTime > 0 /\ RunTime = Duration + Buffer
<1>1. conf.generations \in Nat /\ conf.population \in Nat
  BY ParametersAssumption DEF Config
<1>2. conf.generations * conf.population \in Nat
  BY <1>1
<1>3. Duration \in Nat
  BY <1>2, TimesAssumption DEF Duration
<1> QED
  BY <1>3, TimesAssumption DEF RunTime

\* The configuration alone decides the budget.
LEMMA DurationIsFixed ==
  ASSUME UNCHANGED conf
  PROVE  Duration' = Duration /\ RunTime' = RunTime
BY DEF Duration, RunTime

\* The clock moves on by one, and what is past stays past.
LEMMA ClockTicks ==
  ASSUME now \in Nat, expiry \in Nat, Tick
  PROVE  now' \in Nat /\ (now >= expiry => now' >= expiry)
<1>1. now' = now + 1
  BY DEF Tick
<1> QED
  BY <1>1

\* A grace from now on ends at some time.
LEMMA GraceIsTime ==
  ASSUME now \in Nat
  PROVE  now + Grace \in Nat
BY TimesAssumption

\* What is before the end of a budget is before an expiry that covers it.
LEMMA WithinBudget ==
  ASSUME NEW n \in Nat, NEW e \in Nat, NEW c \in Nat, NEW d \in Nat, NEW b \in Nat,
         n < c + d + b, e >= c + (d + b)
  PROVE  ~(n >= e)
OBVIOUS

-----------------------------------------------------------------------------
(* Types.                                                                  *)

\* No step disturbs the types.
LEMMA TypeStep == TypeOK /\ [Next]_vars => TypeOK'
<1> SUFFICES ASSUME TypeOK, [Next]_vars PROVE TypeOK'
  OBVIOUS
<1> USE DEF TypeOK, PCs, ChaosSteps, ErrorKinds, AfterExecute
<1>0. RunTime \in Nat
  BY DurationIsTime
<1>1. CASE PreProcess \/ Provision \/ Rejected \/ Return \/ Execute
  <2>1. CASE PreProcess
    BY <2>1 DEF PreProcess
  <2>2. CASE Provision
    BY <2>2 DEF Provision
  <2>3. CASE Rejected
    BY <2>3 DEF Rejected
  <2>4. CASE Return
    BY <2>4 DEF Return
  <2>5. CASE Execute
    BY <2>5 DEF Execute
  <2> QED
    BY <1>1, <2>1, <2>2, <2>3, <2>4, <2>5
<1>2. CASE CheckExpiry
  <2>1. CASE expiry >= now + RunTime
    BY <1>0, <1>2, <2>1 DEF CheckExpiry
  <2>2. CASE ~(expiry >= now + RunTime)
    <3>1. wanted' = now + RunTime /\ wanted' \in Nat
      BY <1>0, <1>2, <2>2 DEF CheckExpiry
    <3> QED
      BY <1>2, <2>2, <3>1 DEF CheckExpiry
  <2> QED
    BY <2>1, <2>2
<1>3. CASE CheckFails \/ GiveBack
  <2>1. CASE CheckFails
    BY <2>1 DEF CheckFails
  <2>2. CASE GiveBack
    <3>1. CASE extended
      <4>1. wanted' = now + Grace /\ ended' = now
        BY <2>2, <3>1 DEF GiveBack
      <4>2. wanted' \in Nat /\ ended' \in Nat
        BY <4>1, GraceIsTime
      <4> QED
        BY <2>2, <3>1, <4>2 DEF GiveBack
    <3>2. CASE ~extended
      BY <2>2, <3>2 DEF GiveBack
    <3> QED
      BY <3>1, <3>2
  <2> QED
    BY <1>3, <2>1, <2>2
<1>4. CASE Extend
  BY <1>4 DEF Extend, Expire, ExpireUnconfirmed
<1>5. CASE Restore
  BY <1>5 DEF Restore, Expire, ExpireUnconfirmed
<1>6. CASE Container \/ UpdateConfig \/ ChaosFails
  <2>1. CASE Container
    BY <2>1 DEF Container
  <2>2. CASE UpdateConfig
    BY <2>2 DEF UpdateConfig
  <2>3. CASE ChaosFails
    BY <2>3 DEF ChaosFails
  <2> QED
    BY <1>6, <2>1, <2>2, <2>3
<1>7. CASE AnalyzeLogs \/ Gather \/ Gathered \/ Report
  <2>1. CASE AnalyzeLogs
    BY <2>1 DEF AnalyzeLogs
  <2>2. CASE Gather
    BY <2>2 DEF Gather
  <2>3. CASE Gathered
    BY <2>3 DEF Gathered
  <2>4. CASE Report
    BY <2>4 DEF Report
  <2> QED
    BY <1>7, <2>1, <2>2, <2>3, <2>4
<1>8. CASE Cleanup
  BY <1>8 DEF Cleanup
<1>9. CASE Tick \/ Expiry \/ Kill
  <2>1. CASE Tick
    <3>1. now' \in Nat
      BY <2>1, ClockTicks
    <3> QED
      <4>1. UNCHANGED <<conf, pc, cluster, began, verdict, complete, original, lifetime>>
        BY <2>1 DEF Tick
      <4>2. /\ UNCHANGED <<conf, pc, cluster, expiry, wanted, extended, began, exit, passing>>
            /\ UNCHANGED <<errors, complete, checked, ensured, ended, returned, original, unsure>>
        BY <4>1 DEF verdict, lifetime
      <4> HIDE DEF PCs, ChaosSteps, ErrorKinds, AfterExecute
      <4> QED
        BY <3>1, <4>2
  <2>2. CASE Expiry
    BY <2>2 DEF Expiry
  <2>3. CASE Kill
    BY <2>3 DEF Kill
  <2> QED
    BY <1>9, <2>1, <2>2, <2>3
<1>10. CASE UNCHANGED vars
  <2>1. /\ UNCHANGED <<conf, pc, now, cluster, expiry, wanted, extended, began, exit, passing>>
        /\ UNCHANGED <<errors, complete, checked, ensured, ended, returned, original, unsure>>
    BY <1>10 DEF vars, verdict, history
  <2> HIDE DEF PCs, ChaosSteps, ErrorKinds, AfterExecute
  <2> QED
    BY <2>1
<1> QED
  BY <1>1, <1>2, <1>3, <1>4, <1>5, <1>6, <1>7, <1>8, <1>9, <1>10 DEF Next, Run

\* The run starts well typed.
LEMMA TypeInit == Init => TypeOK
<1> SUFFICES ASSUME Init PROVE TypeOK
  OBVIOUS
<1>1. expiry \in Nat /\ original \in Nat
  BY TimesAssumption DEF Init
<1> QED
  BY <1>1 DEF Init, TypeOK, PCs, ChaosSteps, ErrorKinds

\* The types of the run and of its cluster, for any parameters and times.
THEOREM TypeCorrect == Spec => []TypeOK
BY TypeInit, TypeStep, PTL DEF Spec

-----------------------------------------------------------------------------
(* The cluster's lifetime.                                                 *)

Before == {"preprocess", "provision", "failed", "execute", "check", "extend"}
During == ChaosSteps \cup {"give back", "restore"}
Afterwards == {"analyse", "gather", "gathering", "report", "cleanup", "over"}

\* The expiry before, during and after the chaos.
Untouched == pc \in Before =>
  /\ ~extended /\ ~ensured /\ ~returned /\ ~unsure
  /\ expiry = original
  /\ pc = "extend" => wanted = checked + RunTime
Ensured == pc \in During =>
  /\ ~returned
  /\ ensured /\ ~conf.prod => expiry >= checked + RunTime
  /\ conf.prod \/ (~extended /\ ~unsure) => expiry = original
  /\ pc = "restore" => wanted = ended + Grace
Settled == pc \in Afterwards =>
  /\ returned /\ ~conf.prod => expiry = ended + Grace
  /\ ~unsure => expiry = original \/ (returned /\ expiry = ended + Grace)

\* OCM deletes nothing early, and must-gather takes no longer than its limit.
Punctual ==
  /\ cluster = "expired" => expiry # 0 /\ now >= expiry
  /\ pc = "gathering" => now <= began + GatherLimit

LifeInv == TypeOK /\ Untouched /\ Ensured /\ Settled /\ Punctual

\* The run starts with the expiry it finds.
LEMMA LifeInit == Init => LifeInv
<1> SUFFICES ASSUME Init PROVE LifeInv
  OBVIOUS
<1>1. TypeOK
  BY TypeInit
<1>2. /\ pc = "preprocess" /\ cluster = "live" /\ expiry = original
      /\ ~extended /\ ~ensured /\ ~returned /\ ~unsure
  BY DEF Init
<1> QED
  BY <1>1, <1>2 DEF LifeInv, Untouched, Ensured, Settled, Punctual, Before, During,
     Afterwards, ChaosSteps

\* Every step keeps account of the expiry.
LEMMA LifeStep == LifeInv /\ [Next]_vars => LifeInv'
<1> SUFFICES ASSUME LifeInv, [Next]_vars PROVE LifeInv'
  OBVIOUS
<1> USE DEF LifeInv, Untouched, Ensured, Settled, Punctual, Before, During,
            Afterwards, ChaosSteps, AfterExecute
<1>a. TypeOK /\ TypeOK'
  BY TypeStep
<1>b. RunTime \in Nat /\ RunTime > 0 /\ conf \in Config
  BY <1>a, DurationIsTime DEF TypeOK
<1>c. /\ now \in Nat /\ expiry \in Nat /\ wanted \in Nat /\ began \in Nat
      /\ checked \in Nat /\ ended \in Nat /\ original \in Nat
      /\ extended \in BOOLEAN /\ ensured \in BOOLEAN /\ returned \in BOOLEAN
      /\ unsure \in BOOLEAN
  BY <1>a DEF TypeOK
<1>d. UNCHANGED conf
  BY DEF Next, Run, PreProcess, Provision, Rejected, Return, Execute, CheckExpiry,
     CheckFails, Extend, GiveBack, Restore, Container, UpdateConfig, ChaosFails,
     AnalyzeLogs, Gather, Gathered, Report, Cleanup, Tick, Expiry, Kill, vars
<1>e. RunTime' = RunTime
  BY <1>d, DurationIsFixed
<1>1. CASE PreProcess \/ Provision \/ Rejected \/ Return
  <2>1. CASE PreProcess
    BY <2>1, <1>a, <1>e DEF PreProcess
  <2>2. CASE Provision
    BY <2>2, <1>a, <1>e DEF Provision
  <2>3. CASE Rejected
    BY <2>3, <1>a, <1>e DEF Rejected
  <2>4. CASE Return
    BY <2>4, <1>a, <1>e DEF Return
  <2> QED
    BY <1>1, <2>1, <2>2, <2>3, <2>4
<1>2. CASE Execute
  BY <1>2, <1>a, <1>e DEF Execute
<1>3. CASE CheckExpiry
  BY <1>3, <1>a, <1>b, <1>c, <1>e DEF CheckExpiry
<1>4. CASE CheckFails
  BY <1>4, <1>a, <1>e DEF CheckFails
<1>5. CASE Extend
  <2>1. CASE Expire /\ extended' = TRUE /\ ensured' = TRUE /\ UNCHANGED unsure
    BY <1>5, <2>1, <1>a, <1>b, <1>c, <1>e DEF Extend, Expire
  <2>2. CASE ExpireUnconfirmed /\ UNCHANGED <<extended, ensured>>
    BY <1>5, <2>2, <1>a, <1>b, <1>c, <1>e DEF Extend, ExpireUnconfirmed
  <2> QED
    BY <1>5, <2>1, <2>2 DEF Extend
<1>6. CASE GiveBack
  BY <1>6, <1>a, <1>c, <1>d, <1>e DEF GiveBack
<1>7. CASE Restore
  <2>1. CASE Expire /\ returned' = TRUE /\ UNCHANGED unsure
    BY <1>7, <2>1, <1>a, <1>c, <1>d, <1>e DEF Restore, Expire
  <2>2. CASE ExpireUnconfirmed /\ UNCHANGED returned
    BY <1>7, <2>2, <1>a, <1>c, <1>d, <1>e DEF Restore, ExpireUnconfirmed
  <2> QED
    BY <1>7, <2>1, <2>2 DEF Restore
<1>8. CASE Container \/ UpdateConfig \/ ChaosFails
  <2>1. CASE Container
    BY <2>1, <1>a, <1>d, <1>e DEF Container
  <2>2. CASE UpdateConfig
    BY <2>2, <1>a, <1>d, <1>e DEF UpdateConfig
  <2>3. CASE ChaosFails
    BY <2>3, <1>a, <1>d, <1>e DEF ChaosFails
  <2> QED
    BY <1>8, <2>1, <2>2, <2>3
<1>9. CASE AnalyzeLogs \/ Gathered \/ Report
  <2>1. CASE AnalyzeLogs
    BY <2>1, <1>a, <1>d, <1>e DEF AnalyzeLogs
  <2>2. CASE Gathered
    BY <2>2, <1>a, <1>d, <1>e DEF Gathered
  <2>3. CASE Report
    BY <2>3, <1>a, <1>d, <1>e DEF Report
  <2> QED
    BY <1>9, <2>1, <2>2, <2>3
<1>10. CASE Gather
  <2>1. began' = now => now' <= began' + GatherLimit
    BY <1>10, <1>c, TimesAssumption DEF Gather
  <2> QED
    BY <1>10, <1>a, <1>d, <1>e, <2>1 DEF Gather
<1>11. CASE Cleanup
  BY <1>11, <1>a, <1>d, <1>e DEF Cleanup
<1>12. CASE Tick
  <2>1. pc = "gathering" => now' <= began + GatherLimit
    BY <1>12, <1>c, TimesAssumption DEF Tick
  <2>2. now >= expiry => now' >= expiry
    BY <1>12, <1>c, ClockTicks
  <2> QED
    BY <1>12, <1>a, <1>d, <1>e, <2>1, <2>2 DEF Tick
<1>13. CASE Expiry
  BY <1>13, <1>a, <1>d, <1>e DEF Expiry
<1>14. CASE Kill
  BY <1>14, <1>a, <1>d, <1>e DEF Kill
<1>15. CASE UNCHANGED vars
  BY <1>15, <1>a, <1>e DEF vars
<1> QED
  BY <1>1, <1>2, <1>3, <1>4, <1>5, <1>6, <1>7, <1>8, <1>9, <1>10, <1>11, <1>12,
     <1>13, <1>14, <1>15 DEF Next, Run

\* The account is kept throughout a run.
LEMMA LifeHolds == Spec => []LifeInv
BY LifeInit, LifeStep, PTL DEF Spec

\* For any parameters and times: once the lifetime was ensured the cluster is not
\* taken away from under the chaos within the budget and the buffer.
THEOREM Covered == Spec => []CoveredForBudget
<1>1. LifeInv => CoveredForBudget
  <2> SUFFICES ASSUME LifeInv, ensured, ~conf.prod, pc \in ChaosSteps \cup {"give back"},
                      now < checked + Duration + Buffer
               PROVE  cluster # "expired"
    BY DEF CoveredForBudget
  <2>1. RunTime = Duration + Buffer /\ Duration \in Nat /\ RunTime \in Nat
    BY DurationIsTime DEF LifeInv, TypeOK
  <2>2. expiry >= checked + RunTime
    BY DEF LifeInv, Ensured, During
  <2>3. now \in Nat /\ expiry \in Nat /\ checked \in Nat
    BY DEF LifeInv, TypeOK
  <2>4. expiry >= checked + (Duration + Buffer)
    BY <2>1, <2>2
  <2>5. Buffer \in Nat
    BY TimesAssumption
  <2>6. ~(now >= expiry)
    BY <2>1, <2>3, <2>4, <2>5, WithinBudget
  <2> QED
    BY <2>6 DEF LifeInv, Punctual
<1> QED
  BY <1>1, LifeHolds, PTL

\* For any grace and limit: where the lifetime was given back, must-gather finds
\* the cluster alive to its end, if it begins early enough in the grace.
THEOREM GatheredInTime == Spec => []GatherInTime
<1>1. LifeInv => GatherInTime
  <2> SUFFICES ASSUME LifeInv, returned, ~conf.prod, pc = "gathering",
                      began + GatherLimit < ended + Grace
               PROVE  cluster # "expired"
    BY DEF GatherInTime
  <2>1. expiry = ended + Grace
    BY DEF LifeInv, Settled, Afterwards
  <2>2. now <= began + GatherLimit
    BY DEF LifeInv, Punctual
  <2>3. now \in Nat /\ began \in Nat /\ ended \in Nat
    BY DEF LifeInv, TypeOK
  <2> QED
    BY <2>1, <2>2, <2>3, TimesAssumption DEF LifeInv, Punctual
<1> QED
  BY <1>1, LifeHolds, PTL

\* For any times: a run that ends leaves the expiry it found or the grace.
THEOREM LifetimeReturned == Spec => []LifeReturned
<1>1. LifeInv => LifeReturned
  BY DEF LifeInv, Settled, Afterwards, LifeReturned
<1> QED
  BY <1>1, LifeHolds, PTL

-----------------------------------------------------------------------------
(* The verdict, and the Orchestrator interface.                            *)

\* How much of the chaos is complete, and what the exit code is until it ends.
Progress ==
  /\ pc \in {"preprocess", "provision", "execute", "check", "extend", "discover"}
       => complete = {}
  /\ pc = "update" => complete = {"discover"}
  /\ pc = "run" => complete = {"discover", "update"}
  /\ pc \in {"preprocess", "provision", "execute", "check", "extend"} \cup ChaosSteps
       => exit = "Success"
  /\ pc \in {"check", "extend"} \cup ChaosSteps => passing
  /\ pc = "failed" => exit = "Failure"

VerdictInv == TypeOK /\ Progress /\ SuccessIsEarned

\* The verdict is right at every step of a run.
LEMMA VerdictHolds == Spec => []VerdictInv
<1> USE DEF Progress, SuccessIsEarned, ChaosSteps, AfterExecute
<1>1. Init => VerdictInv
  <2> SUFFICES ASSUME Init PROVE VerdictInv
    OBVIOUS
  <2>1. TypeOK
    BY TypeInit
  <2>2. pc = "preprocess" /\ exit = "Success" /\ complete = {}
    BY DEF Init
  <2> QED
    BY <2>1, <2>2 DEF VerdictInv
<1>2. VerdictInv /\ [Next]_vars => VerdictInv'
  <2> SUFFICES ASSUME VerdictInv, [Next]_vars PROVE VerdictInv'
    OBVIOUS
  <2> USE DEF VerdictInv
  <2>a. TypeOK'
    BY TypeStep
  <2>b. exit \in {"Success", "Failure"} /\ passing \in BOOLEAN
    BY DEF TypeOK
  <2>1. CASE PreProcess \/ Provision \/ Rejected \/ Return
    <3>1. CASE PreProcess
      BY <3>1, <2>a DEF PreProcess
    <3>2. CASE Provision
      BY <3>2, <2>a DEF Provision
    <3>3. CASE Rejected
      BY <3>3, <2>a DEF Rejected
    <3>4. CASE Return
      BY <3>4, <2>a DEF Return
    <3> QED
      BY <2>1, <3>1, <3>2, <3>3, <3>4
  <2>2. CASE Execute
    BY <2>2, <2>a DEF Execute
  <2>3. CASE CheckExpiry \/ CheckFails \/ Extend
    <3>1. CASE CheckExpiry
      BY <3>1, <2>a DEF CheckExpiry
    <3>2. CASE CheckFails
      BY <3>2, <2>a DEF CheckFails
    <3>3. CASE Extend
      BY <3>3, <2>a DEF Extend
    <3> QED
      BY <2>3, <3>1, <3>2, <3>3
  <2>4. CASE GiveBack \/ Restore
    <3>1. CASE GiveBack
      BY <3>1, <2>a DEF GiveBack
    <3>2. CASE Restore
      BY <3>2, <2>a DEF Restore
    <3> QED
      BY <2>4, <3>1, <3>2
  <2>5. CASE Container
    BY <2>5, <2>a DEF Container
  <2>6. CASE UpdateConfig
    BY <2>6, <2>a DEF UpdateConfig
  <2>7. CASE ChaosFails
    BY <2>7, <2>a DEF ChaosFails
  <2>8. CASE AnalyzeLogs \/ Gather \/ Gathered \/ Report
    <3>1. CASE AnalyzeLogs
      BY <3>1, <2>a DEF AnalyzeLogs
    <3>2. CASE Gather
      BY <3>2, <2>a DEF Gather
    <3>3. CASE Gathered
      BY <3>3, <2>a DEF Gathered
    <3>4. CASE Report
      BY <3>4, <2>a DEF Report
    <3> QED
      BY <2>8, <3>1, <3>2, <3>3, <3>4
  <2>9. CASE Cleanup \/ Tick \/ Expiry \/ Kill
    <3>1. CASE Cleanup
      BY <3>1, <2>a DEF Cleanup
    <3>2. CASE Tick
      BY <3>2, <2>a DEF Tick
    <3>3. CASE Expiry
      BY <3>3, <2>a DEF Expiry
    <3>4. CASE Kill
      BY <3>4, <2>a DEF Kill
    <3> QED
      BY <2>9, <3>1, <3>2, <3>3, <3>4
  <2>10. CASE UNCHANGED vars
    BY <2>10, <2>a DEF vars
  <2> QED
    BY <2>1, <2>2, <2>3, <2>4, <2>5, <2>6, <2>7, <2>8, <2>9, <2>10 DEF Next, Run
<1> QED
  BY <1>1, <1>2, PTL DEF Spec

\* For any parameters: exit code 0 means that the whole of the chaos was
\* completed, and Passing agrees with the exit code.
THEOREM SuccessEarned == Spec => []SuccessIsEarned
<1>1. VerdictInv => SuccessIsEarned
  BY DEF VerdictInv
<1> QED
  BY <1>1, VerdictHolds, PTL

\* The command and the KrknAI orchestrator implement orchestrator.Orchestrator,
\* whatever the chaos, OCM and the clock do.
THEOREM KrknIsOrchestrator == Spec => Implements
<1> USE DEF ChaosSteps, AfterExecute
<1>1. Init => Abstract!Init
  <2> SUFFICES ASSUME Init PROVE Abstract!Init
    OBVIOUS
  <2>1. pc = "preprocess" /\ exit = "Success" /\ cluster = "live"
    BY DEF Init
  <2> QED
    BY <2>1 DEF Abstract!Init, Stage, ExitCode
<1>2. VerdictInv /\ [Next]_vars => [Abstract!Next]_(Abstract!vars)
  <2> SUFFICES ASSUME VerdictInv, [Next]_vars
               PROVE  Abstract!Next \/ UNCHANGED <<Stage, ExitCode, cluster>>
    BY DEF Abstract!vars
  <2>a. Progress /\ exit \in {"Success", "Failure"} /\ pc \in PCs
        /\ cluster \in {"live", "deleted", "expired"}
    BY DEF VerdictInv, TypeOK
  <2> USE <2>a DEF Stage, ExitCode, Progress
  <2>1. CASE PreProcess
    BY <2>1 DEF PreProcess
  <2>2. CASE Provision
    <3>1. Abstract!Provision
      BY <2>2 DEF Provision, Abstract!Provision
    <3> QED
      BY <3>1 DEF Abstract!Next
  <2>3. CASE Rejected
    <3>1. Abstract!ProvisionFails
      BY <2>3 DEF Rejected, Abstract!ProvisionFails
    <3> QED
      BY <3>1 DEF Abstract!Next
  <2>4. CASE Return
    <3>1. Abstract!GiveUp
      BY <2>4 DEF Return, Abstract!GiveUp
    <3> QED
      BY <3>1 DEF Abstract!Next
  <2>5. CASE Execute
    <3>1. CASE conf.dry
      <4>1. Abstract!Execute
        BY <2>5, <3>1 DEF Execute, Abstract!Execute
      <4> QED
        BY <4>1 DEF Abstract!Next
    <3>2. CASE ~conf.dry
      BY <2>5, <3>2 DEF Execute
    <3> QED
      BY <3>1, <3>2
  <2>6. CASE CheckExpiry \/ CheckFails \/ Extend
    <3>1. CASE CheckExpiry
      BY <3>1 DEF CheckExpiry
    <3>2. CASE CheckFails
      BY <3>2 DEF CheckFails
    <3>3. CASE Extend
      BY <3>3 DEF Extend
    <3> QED
      BY <2>6, <3>1, <3>2, <3>3
  <2>7. CASE GiveBack
    <3>1. CASE extended
      BY <2>7, <3>1 DEF GiveBack
    <3>2. CASE ~extended
      <4>1. Abstract!Execute
        BY <2>7, <3>2 DEF GiveBack, Abstract!Execute
      <4> QED
        BY <4>1 DEF Abstract!Next
    <3> QED
      BY <3>1, <3>2
  <2>8. CASE Restore
    <3>1. Abstract!Execute
      BY <2>8 DEF Restore, Abstract!Execute
    <3> QED
      BY <3>1 DEF Abstract!Next
  <2>9. CASE Container \/ UpdateConfig
    <3>1. CASE Container
      BY <3>1 DEF Container
    <3>2. CASE UpdateConfig
      BY <3>2 DEF UpdateConfig
    <3> QED
      BY <2>9, <3>1, <3>2
  <2>10. CASE ChaosFails
    BY <2>10 DEF ChaosFails
  <2>11. CASE AnalyzeLogs
    BY <2>11 DEF AnalyzeLogs
  <2>12. CASE Gather
    <3>1. CASE pc' = "report"
      <4>1. Abstract!PostProcessCluster
        BY <2>12, <3>1 DEF Gather, Abstract!PostProcessCluster
      <4> QED
        BY <4>1 DEF Abstract!Next
    <3>2. CASE pc' = "gathering"
      BY <2>12, <3>2 DEF Gather
    <3> QED
      BY <2>12, <3>1, <3>2 DEF Gather
  <2>13. CASE Gathered
    <3>1. Abstract!PostProcessCluster
      BY <2>13 DEF Gathered, Abstract!PostProcessCluster
    <3> QED
      BY <3>1 DEF Abstract!Next
  <2>14. CASE Report
    <3>1. Abstract!Report
      BY <2>14 DEF Report, Abstract!Report
    <3> QED
      BY <3>1 DEF Abstract!Next
  <2>15. CASE Cleanup
    <3>1. Abstract!Cleanup
      BY <2>15 DEF Cleanup, Abstract!Cleanup
    <3> QED
      BY <3>1 DEF Abstract!Next
  <2>16. CASE Tick
    BY <2>16 DEF Tick
  <2>17. CASE Expiry
    <3>1. Abstract!Expiry
      BY <2>17 DEF Expiry, Abstract!Expiry
    <3> QED
      BY <3>1 DEF Abstract!Next
  <2>18. CASE Kill
    <3>1. Stage # "over"
      BY <2>18 DEF Kill, PCs
    <3>2. Abstract!Kill
      BY <2>18, <3>1 DEF Kill, Abstract!Kill
    <3> QED
      BY <3>2 DEF Abstract!Next
  <2>19. CASE UNCHANGED vars
    BY <2>19 DEF vars
  <2> QED
    BY <2>1, <2>2, <2>3, <2>4, <2>5, <2>6, <2>7, <2>8, <2>9, <2>10, <2>11, <2>12,
       <2>13, <2>14, <2>15, <2>16, <2>17, <2>18, <2>19 DEF Next, Run
<1> QED
  BY <1>1, <1>2, VerdictHolds, PTL DEF Spec, Implements, Abstract!Spec
=============================================================================
