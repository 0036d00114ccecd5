-------------------------- MODULE HealthWaitProofs --------------------------
(***************************************************************************)
(* The health wait for every set of checks, streak, window and timeout:    *)
(* its types, that it never settles for less than the clean runs that were *)
(* asked for, that only a full window of errors marks a cluster unhealthy, *)
(* and that the tag tells what the latest failing round has found.         *)
(***************************************************************************)
EXTENDS HealthWait, SequenceTheorems, FiniteSetTheorems, TLAPS

USE WaitAssumption

-----------------------------------------------------------------------------
(* Types.                                                                  *)

\* Every round of checks that PollClusterHealth can report is a Report.
LEMMA ReportsTyped == Reports \subseteq Report
<1>1. NoClient \in Report
  BY DEF NoClient, Report
<1>2. ASSUME NEW check \in [Checks -> {"ok", "bad", "error"}]
      PROVE  PollClusterHealth(check) \in Report
  <2>1. (\A c \in Checks : check[c] = "ok") \in BOOLEAN
    OBVIOUS
  <2>2. (\E c \in Checks : check[c] = "error") \in BOOLEAN
    OBVIOUS
  <2>3. {c \in Checks : check[c] # "ok"} \in SUBSET Checks
    OBVIOUS
  <2> QED
    BY <2>1, <2>2, <2>3, Zenon DEF PollClusterHealth, Report
<1> QED
  BY <1>1, <1>2 DEF Reports

\* Telling OCM anything that a tag can hold keeps the tag and the copy typed.
LEMMA AddPropertyTyped ==
  ASSUME TypeOK, NEW value \in Tags, NEW confirmed \in BOOLEAN,
         AddProperty(view, value, confirmed)
  PROVE  /\ tag' \in Tags
         /\ view' \in [state : States \cup {"unknown"}, tag : Tags]
         /\ lost' \in BOOLEAN
  BY DEF AddProperty, TypeOK

\* The variables of the wait keep their types on every path through the polls,
\* unconfirmed updates included.
THEOREM TypeCorrect == Spec => []TypeOK
<1>1. Init => TypeOK
  <2> SUFFICES ASSUME Init PROVE TypeOK
    OBVIOUS
  <2>1. tag \in Tags /\ {} \in Tags
    BY DEF Init, Tags
  <2>2. view \in [state : States \cup {"unknown"}, tag : Tags]
    BY <2>1 DEF Init
  <2>3. seen \in Seq(Report)
    BY DEF Init
  <2> QED
    BY <2>1, <2>2, <2>3 DEF Init, TypeOK
<1>2. TypeOK /\ [Next]_vars => TypeOK'
  <2> SUFFICES ASSUME TypeOK, [Next]_vars PROVE TypeOK'
    OBVIOUS
  <2> USE ReportsTyped
  <2>1. CASE Skip
    BY <2>1 DEF Skip, TypeOK, counts, history
  <2>2. CASE Start
    BY <2>2 DEF Start, TypeOK, counts, history
  <2>3. CASE Await
    BY <2>3 DEF Await, TypeOK, counts, history, Tags, Statuses
  <2>4. CASE BecomesReady
    BY <2>4 DEF BecomesReady, TypeOK, counts, history, Tags, Statuses
  <2>5. CASE Fetch
    <3>1. Fetched \in [state : States \cup {"unknown"}, tag : Tags]
      BY DEF Fetched, TypeOK
    <3>2. /\ view' \in [state : States \cup {"unknown"}, tag : Tags]
          /\ lost' \in BOOLEAN
          /\ pc' \in {"polling", "failed"}
      BY <2>5, <3>1 DEF Fetch, TypeOK
    <3> QED
      BY <2>5, <3>2 DEF Fetch, TypeOK, counts
  <2>6. CASE NotReady
    BY <2>6 DEF NotReady, vars, TypeOK, counts, history
  <2>7. CASE CleanRun
    BY <2>7 DEF CleanRun, Checking, TypeOK
  <2>8. CASE ErrorOutOfWindow
    <3>1. PICK report \in Reports, confirmed \in BOOLEAN :
            /\ Checking(report) /\ errs' = errs + 1
            /\ AddProperty(view, Unhealthy, confirmed)
            /\ UNCHANGED <<pc, clean>>
      BY <2>8 DEF ErrorOutOfWindow
    <3>2. Unhealthy \in Tags
      BY DEF Tags, Statuses
    <3> QED
      BY <3>1, <3>2, AddPropertyTyped DEF Checking, TypeOK
  <2>9. CASE FailedRun
    <3>1. PICK report \in Reports, confirmed \in BOOLEAN :
            /\ Checking(report)
            /\ errs' = IF report.err THEN errs + 1 ELSE errs
            /\ clean' = 0
            /\ Tell(report.failures, confirmed)
            /\ UNCHANGED pc
      BY <2>9 DEF FailedRun
    <3>2. report.failures \in Tags
      BY DEF Report, Tags
    <3>3. /\ tag' \in Tags
          /\ view' \in [state : States \cup {"unknown"}, tag : Tags]
          /\ lost' \in BOOLEAN
      <4>1. CASE view.tag = report.failures
        BY <3>1, <4>1 DEF Tell, TypeOK
      <4>2. CASE view.tag # report.failures
        BY <3>1, <3>2, <4>2, AddPropertyTyped DEF Tell
      <4> QED BY <4>1, <4>2
    <3> QED
      BY <3>1, <3>3 DEF Checking, TypeOK
  <2>10. CASE TimeOut
    BY <2>10 DEF TimeOut, TypeOK, counts, history
  <2>11. CASE Mark
    <3>1. Healthy \in Tags
      BY DEF Tags, Statuses
    <3> QED
      BY <2>11, <3>1, AddPropertyTyped DEF Mark, TypeOK, counts
  <2>12. CASE ClusterChanges
    BY <2>12 DEF ClusterChanges, TypeOK, counts, history
  <2>13. CASE UNCHANGED vars
    BY <2>13 DEF vars, TypeOK
  <2> QED
    BY <2>1, <2>2, <2>3, <2>4, <2>5, <2>6, <2>7, <2>8, <2>9, <2>10, <2>11,
       <2>12, <2>13 DEF Next
<1> QED
  BY <1>1, <1>2, PTL DEF Spec

-----------------------------------------------------------------------------
(* The streak.                                                             *)

\* The latest n rounds were clean.
CleanTail(n) ==
  /\ n <= Len(seen)
  /\ \A i \in (Len(seen) - n + 1)..Len(seen) : seen[i].status

\* The inductive invariant.  The poll that ends with the error window does not
\* reset cleanRuns; it need not, because errors are counted only from a round
\* that has reset it.
Streak ==
  /\ CleanTail(clean)
  /\ errs > 0 => clean = 0
  /\ pc = "mark" \/ (pc = "ready" /\ ~skip) => clean = CleanRunsNeeded

\* A clean round makes the streak one longer.
LEMMA CleanTailGrows ==
  ASSUME TypeOK, Streak, NEW report \in Report, report.status,
         seen' = Append(seen, report), clean' = clean + 1
  PROVE  CleanTail(clean)'
<1>1. /\ seen \in Seq(Report) /\ clean \in Nat
  BY DEF TypeOK
<1>2. /\ Len(seen') = Len(seen) + 1
      /\ \A i \in 1..Len(seen) : seen'[i] = seen[i]
      /\ seen'[Len(seen) + 1] = report
  BY <1>1, AppendProperties
<1>3. clean <= Len(seen) /\ Len(seen) \in Nat
  BY <1>1, LenProperties DEF Streak, CleanTail
<1>4. ASSUME NEW i \in (Len(seen') - clean' + 1)..Len(seen')
      PROVE  seen'[i].status
  <2>1. CASE i = Len(seen) + 1
    BY <1>2, <2>1
  <2>2. CASE i # Len(seen) + 1
    <3>1. i \in (Len(seen) - clean + 1)..Len(seen) /\ i \in 1..Len(seen)
      BY <1>1, <1>2, <1>3, <2>2
    <3> QED
      BY <1>2, <3>1 DEF Streak, CleanTail
  <2> QED BY <2>1, <2>2
<1> QED
  BY <1>1, <1>2, <1>3, <1>4 DEF CleanTail

\* With no clean runs to its credit the streak says nothing of the rounds.
LEMMA CleanTailEmpty ==
  ASSUME NEW s \in Seq(Report)
  PROVE  0 <= Len(s) /\ \A i \in (Len(s) - 0 + 1)..Len(s) : s[i].status
  BY LenProperties

\* The wait settles only after the clean runs that config.Cluster.CleanCheckRuns
\* asks for, one after the other and none since: whatever the window, whatever
\* the timeout, and on every path out of a poll.
THEOREM SettledIsClean == Spec => []SettledBeforeHealthy
<1>1. Init => Streak
  BY CleanTailEmpty DEF Init, Streak, CleanTail
<1>2. TypeOK /\ TypeOK' /\ Streak /\ [Next]_vars => Streak'
  <2> SUFFICES ASSUME TypeOK, TypeOK', Streak, [Next]_vars PROVE Streak'
    OBVIOUS
  <2> USE ReportsTyped
  <2>1. CASE CleanRun
    <3>1. PICK report \in Reports :
            /\ Checking(report) /\ report.status
            /\ clean' = clean + 1 /\ errs' = 0
            /\ pc' = IF clean' = CleanRunsNeeded THEN "mark" ELSE "polling"
      BY <2>1 DEF CleanRun
    <3>2. CleanTail(clean)'
      BY <3>1, CleanTailGrows DEF Checking
    <3> QED
      BY <3>1, <3>2 DEF Streak, Checking
  <2>2. CASE ErrorOutOfWindow
    <3>1. PICK report \in Reports : Checking(report)
      BY <2>2 DEF ErrorOutOfWindow
    <3>2. errs' = errs + 1 /\ errs' >= ErrorWindow /\ UNCHANGED <<pc, clean>>
      BY <2>2 DEF ErrorOutOfWindow
    <3>3. clean = 0 /\ clean' = 0
      BY <3>2 DEF Streak, TypeOK
    <3>4. CleanTail(clean)'
      BY <3>3, CleanTailEmpty DEF CleanTail, TypeOK
    <3> QED
      BY <3>1, <3>2, <3>3, <3>4 DEF Streak, Checking
  <2>3. CASE FailedRun
    <3>1. clean' = 0 /\ pc' = "polling"
      BY <2>3 DEF FailedRun, Checking
    <3>2. CleanTail(clean)'
      BY <3>1, CleanTailEmpty DEF CleanTail, TypeOK
    <3> QED
      BY <3>1, <3>2 DEF Streak
  <2>4. CASE Mark
    BY <2>4 DEF Mark, Streak, CleanTail, counts
  <2>5. CASE Skip \/ Start \/ Await \/ BecomesReady \/ Fetch \/ NotReady
             \/ TimeOut \/ ClusterChanges
    <3>1. UNCHANGED <<clean, errs, seen, skip>>
      BY <2>5 DEF Skip, Start, Await, BecomesReady, Fetch, NotReady, TimeOut,
                  ClusterChanges, vars, counts, history
    <3>2. pc' = "mark" \/ (pc' = "ready" /\ ~skip) => pc' = pc
      BY <2>5 DEF Skip, Start, Await, BecomesReady, Fetch, NotReady, TimeOut,
                  ClusterChanges, vars
    <3> QED
      BY <3>1, <3>2 DEF Streak, CleanTail
  <2>6. CASE UNCHANGED vars
    BY <2>6 DEF vars, Streak, CleanTail
  <2> QED
    BY <2>1, <2>2, <2>3, <2>4, <2>5, <2>6 DEF Next
<1>3. TypeOK /\ Streak => SettledBeforeHealthy
  BY DEF TypeOK, Streak, CleanTail, SettledBeforeHealthy
<1> QED
  BY <1>1, <1>2, <1>3, TypeCorrect, PTL DEF Spec

-----------------------------------------------------------------------------
(* The window and the tag.                                                 *)

\* The erring rounds since the last clean one are finitely many.
LEMMA ErringFinite ==
  ASSUME TypeOK
  PROVE  /\ IsFiniteSet(Erring(Len(seen)))
         /\ Cardinality(Erring(Len(seen))) \in Nat
<1>1. Erring(Len(seen)) \subseteq 1..Len(seen) /\ Len(seen) \in Nat
  BY LenProperties DEF Erring, TypeOK
<1>2. IsFiniteSet(1..Len(seen))
  BY <1>1, FS_Interval
<1> QED
  BY <1>1, <1>2, FS_Subset, FS_CardinalityType

\* A failing round adds itself to the erring ones if it erred.
LEMMA ErringGrows ==
  ASSUME TypeOK, NEW report \in Report, ~report.status, seen' = Append(seen, report)
  PROVE  Cardinality(Erring(Len(seen)))' =
           Cardinality(Erring(Len(seen))) + IF report.err THEN 1 ELSE 0
<1> DEFINE n == Len(seen)
<1>1. seen \in Seq(Report) /\ n \in Nat
  BY LenProperties DEF TypeOK
<1>2. /\ Len(seen') = n + 1
      /\ \A i \in 1..n : seen'[i] = seen[i]
      /\ seen'[n + 1] = report
  BY <1>1, AppendProperties
<1>3. Erring(Len(seen))' = {i \in 1..(n + 1) :
                              seen'[i].err /\ \A j \in i..(n + 1) : ~seen'[j].status}
  BY <1>2 DEF Erring
<1>4. ASSUME NEW i \in 1..n
      PROVE  (i \in Erring(Len(seen))') <=> i \in Erring(n)
  <2>1. seen'[i] = seen[i] /\ i \in 1..(n + 1)
    BY <1>1, <1>2
  <2>2. (\A j \in i..(n + 1) : ~seen'[j].status) <=> \A j \in i..n : ~seen[j].status
    <3>1. \A j \in i..n : j \in 1..n /\ j \in i..(n + 1)
      BY <1>1
    <3>2. \A j \in i..(n + 1) : j \in i..n \/ j = n + 1
      BY <1>1
    <3>3. n + 1 \in i..(n + 1)
      BY <1>1
    <3> QED
      BY <1>2, <3>1, <3>2
  <2> QED
    BY <1>3, <2>1, <2>2 DEF Erring
<1>5. (n + 1 \in Erring(Len(seen))') <=> report.err
  <2>1. n + 1 \in 1..(n + 1) /\ \A j \in (n + 1)..(n + 1) : j = n + 1
    BY <1>1
  <2> QED
    BY <1>2, <1>3, <2>1
<1>6. /\ Erring(n) \subseteq 1..n /\ n + 1 \notin Erring(n)
      /\ Erring(Len(seen))' \subseteq 1..(n + 1)
      /\ \A i \in 1..(n + 1) : i \in 1..n \/ i = n + 1
  BY <1>1, <1>3 DEF Erring
<1>7. CASE report.err
  <2>1. Erring(Len(seen))' = Erring(n) \cup {n + 1}
    BY <1>4, <1>5, <1>6, <1>7
  <2>2. Cardinality(Erring(n) \cup {n + 1}) = Cardinality(Erring(n)) + 1
    BY <1>6, ErringFinite, FS_AddElement
  <2> QED
    BY <1>7, <2>1, <2>2
<1>8. CASE ~report.err
  <2>1. Erring(Len(seen))' = Erring(n)
    BY <1>4, <1>5, <1>6, <1>8
  <2> QED
    BY <1>8, <2>1, ErringFinite
<1> QED
  BY <1>7, <1>8

\* A clean round ends the count.
LEMMA ErringEnds ==
  ASSUME TypeOK, NEW report \in Report, report.status, seen' = Append(seen, report)
  PROVE  Cardinality(Erring(Len(seen)))' = 0
<1>1. /\ Len(seen) \in Nat /\ Len(seen') = Len(seen) + 1
      /\ seen'[Len(seen) + 1] = report
  BY LenProperties, AppendProperties DEF TypeOK
<1>2. \A i \in 1..Len(seen') : Len(seen') \in i..Len(seen')
  BY <1>1
<1>3. Erring(Len(seen))' = {}
  BY <1>1, <1>2 DEF Erring
<1> QED
  BY <1>3, FS_EmptySet

\* The inductive invariant: errRuns counts the erring rounds since the last clean
\* one, and the copy's tag is OCM's as long as OCM has confirmed it.
Told ==
  /\ errs = Cardinality(Erring(Len(seen)))
  /\ pc \in {"start", "provisioning", "fetch"} => seen = <<>>
  /\ pc = "polling" /\ ~lost => view.tag = tag
  /\ TagShowsLastFailure

\* Telling OCM a value makes the copy, and OCM if it confirms, show it.
LEMMA AddPropertyShows ==
  ASSUME TypeOK, NEW value \in Tags, NEW confirmed \in BOOLEAN,
         AddProperty(view, value, confirmed)
  PROVE  ~lost' => view'.tag = value /\ tag' = value
  BY DEF AddProperty, TypeOK

\* Every step keeps the count, and the tag to what the latest failing round found.
LEMMA ToldStep == TypeOK /\ TypeOK' /\ Told /\ [Next]_vars => Told'
<1> SUFFICES ASSUME TypeOK, TypeOK', Told, [Next]_vars PROVE Told'
  OBVIOUS
<1> USE ReportsTyped
<1>1. CASE CleanRun
  <2>1. PICK report \in Report :
          /\ report.status /\ seen' = Append(seen, report) /\ errs' = 0
          /\ pc = "polling" /\ pc' \in {"mark", "polling"}
          /\ UNCHANGED <<tag, view, lost>>
    BY <1>1 DEF CleanRun, Checking
  <2>2. Last'.status
    BY <2>1, AppendProperties DEF Last, TypeOK
  <2>3. errs' = Cardinality(Erring(Len(seen)))'
    BY <2>1, ErringEnds
  <2> QED
    BY <2>1, <2>2, <2>3 DEF Told, TagShowsLastFailure
<1>2. CASE ErrorOutOfWindow
  <2>1. PICK report \in Report, confirmed \in BOOLEAN :
          /\ ~report.status /\ report.err /\ seen' = Append(seen, report)
          /\ errs' = errs + 1 /\ errs' >= ErrorWindow
          /\ AddProperty(view, Unhealthy, confirmed)
          /\ pc = "polling" /\ pc' = pc
    BY <1>2 DEF ErrorOutOfWindow, Checking
  <2>2. Last' = report
    BY <2>1, AppendProperties DEF Last, TypeOK
  <2>3. errs' = Cardinality(Erring(Len(seen)))'
    BY <2>1, ErringGrows DEF Told
  <2>4. Unhealthy \in Tags
    BY DEF Tags, Statuses
  <2>5. ~lost' => view'.tag = Unhealthy /\ tag' = Unhealthy
    BY <2>1, <2>4, AddPropertyShows
  <2>6. Verdict' = Unhealthy
    BY <2>1, <2>2, <2>3 DEF Verdict
  <2> QED
    BY <2>1, <2>3, <2>5, <2>6 DEF Told, TagShowsLastFailure
<1>3. CASE FailedRun
  <2>1. PICK report \in Report, confirmed \in BOOLEAN :
          /\ ~report.status /\ seen' = Append(seen, report)
          /\ errs' = IF report.err THEN errs + 1 ELSE errs
          /\ report.err => errs' < ErrorWindow
          /\ Tell(report.failures, confirmed)
          /\ pc = "polling" /\ pc' = pc
    BY <1>3 DEF FailedRun, Checking
  <2>2. Last' = report
    BY <2>1, AppendProperties DEF Last, TypeOK
  <2>3. errs' = Cardinality(Erring(Len(seen)))'
    <3>1. errs \in Nat
      BY DEF TypeOK
    <3> QED
      BY <2>1, <3>1, ErringGrows DEF Told
  <2>4. ~lost' => view'.tag = report.failures /\ tag' = report.failures
    <3>1. CASE view.tag = report.failures
      BY <2>1, <3>1 DEF Tell, Told
    <3>2. CASE view.tag # report.failures
      <4>1. report.failures \in Tags
        BY DEF Report, Tags
      <4> QED
        BY <2>1, <3>2, <4>1, AddPropertyShows DEF Tell
    <3> QED
      BY <3>1, <3>2
  <2>5. Verdict' = report.failures
    <3>1. errs' \in Nat /\ ErrorWindow \in Nat
      BY DEF TypeOK
    <3>2. ~(report.err /\ Cardinality(Erring(Len(seen)))' >= ErrorWindow)
      BY <2>1, <2>3, <3>1
    <3> QED
      BY <2>2, <3>2 DEF Verdict
  <2> QED
    BY <2>1, <2>3, <2>4, <2>5 DEF Told, TagShowsLastFailure
<1>4. CASE Fetch
  <2>1. seen' = seen /\ errs' = errs /\ seen = <<>> /\ pc' \in {"polling", "failed"}
    BY <1>4 DEF Fetch, counts, Told
  <2>2. pc' = "polling" => view'.tag = tag'
    BY <1>4 DEF Fetch, Fetched
  <2> QED
    BY <2>1, <2>2 DEF Told, TagShowsLastFailure, Erring
<1>5. CASE Skip \/ Start \/ Await \/ BecomesReady \/ TimeOut \/ Mark
  <2>1. seen' = seen /\ errs' = errs
    BY <1>5 DEF Skip, Start, Await, BecomesReady, TimeOut, Mark, counts, history
  <2>2. /\ pc' # "polling"
        /\ pc' \in {"start", "provisioning", "fetch"} =>
             pc \in {"start", "provisioning", "fetch"}
    BY <1>5 DEF Skip, Start, Await, BecomesReady, TimeOut, Mark
  <2> QED
    BY <2>1, <2>2 DEF Told, TagShowsLastFailure, Erring
<1>6. CASE NotReady \/ ClusterChanges \/ UNCHANGED vars
  <2>1. UNCHANGED <<pc, tag, view, seen, errs, lost>>
    BY <1>6 DEF NotReady, ClusterChanges, vars, counts, history
  <2> QED
    BY <2>1 DEF Told, TagShowsLastFailure, Erring, Last, Verdict
<1> QED
  BY <1>1, <1>2, <1>3, <1>4, <1>5, <1>6 DEF Next

\* Nothing has erred before the first round.
LEMMA ToldInit == Init => Told
<1> SUFFICES ASSUME Init PROVE Told
  OBVIOUS
<1>1. Erring(Len(seen)) = {}
  BY DEF Init, Erring
<1> QED
  BY <1>1, FS_EmptySet DEF Init, Told, TagShowsLastFailure

\* What OCM shows of a cluster whose health is being polled is what the latest
\* failing round found, whatever the window and however often the failures change,
\* unless OCM left an update unconfirmed.
THEOREM TagShows == Spec => []TagShowsLastFailure
<1>1. Told => TagShowsLastFailure
  BY DEF Told
<1> QED
  BY <1>1, ToldInit, ToldStep, TypeCorrect, PTL DEF Spec

\* A cluster is marked unhealthy only by a window full of errors since the last
\* clean round, for every length of the window.
THEOREM UnhealthyDeserved == Spec => UnhealthyIsDeserved
<1> DEFINE Deserved ==
      tag' = Unhealthy /\ tag # Unhealthy =>
        Cardinality(Erring(Len(seen)))' >= ErrorWindow
<1>1. TypeOK /\ TypeOK' /\ Told /\ Told' /\ [Next]_vars => [Deserved]_vars
  <2> SUFFICES ASSUME TypeOK, TypeOK', Told, Told', [Next]_vars,
                      tag' = Unhealthy, tag # Unhealthy
               PROVE  errs' >= ErrorWindow
    BY DEF Told
  <2>1. CASE ErrorOutOfWindow
    BY <2>1 DEF ErrorOutOfWindow
  <2>2. CASE FailedRun
    <3>1. PICK report \in Report, confirmed \in BOOLEAN :
            Tell(report.failures, confirmed)
      BY <2>2, ReportsTyped DEF FailedRun
    <3>2. tag' \in {tag, report.failures}
      BY <3>1 DEF Tell, AddProperty
    <3>3. report.failures # Unhealthy
      <4>1. Unhealthy \in Statuses /\ "upgrade-unhealthy" \in Unhealthy
        BY DEF Statuses, Unhealthy
      <4>2. "upgrade-unhealthy" \notin Checks
        BY <4>1, ChecksAreNoStatus
      <4>3. report.failures \subseteq Checks
        BY <3>1 DEF Report
      <4> QED
        BY <4>1, <4>2, <4>3
    <3> QED
      BY <3>2, <3>3
  <2>3. CASE Mark
    BY <2>3 DEF Mark, AddProperty, Healthy, Unhealthy
  <2>4. CASE Await \/ BecomesReady
    BY <2>4 DEF Await, BecomesReady, WaitingForReady, HealthCheck, Unhealthy
  <2>5. CASE Skip \/ Start \/ Fetch \/ NotReady \/ CleanRun \/ TimeOut \/ ClusterChanges
             \/ UNCHANGED vars
    BY <2>5 DEF Skip, Start, Fetch, NotReady, CleanRun, TimeOut, ClusterChanges, vars
  <2> QED
    BY <2>1, <2>2, <2>3, <2>4, <2>5 DEF Next
<1> QED
  BY <1>1, ToldInit, ToldStep, TypeCorrect, PTL DEF Spec, UnhealthyIsDeserved
=============================================================================
