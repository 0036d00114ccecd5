------------------------- MODULE SuiteExecutorProofs -------------------------
(***************************************************************************)
(* The executor for any set of test images, artifact directories and file  *)
(* names: its types, that a pass is earned, and, when every image has a    *)
(* directory of its own, that it is judged on its own reports.             *)
(***************************************************************************)
EXTENDS SuiteExecutor, TLAPS

USE ImagesAssumption, DirAssumption

-----------------------------------------------------------------------------
(* Types.                                                                  *)

\* What fetchArtifactFiles leaves of a directory, whole or cut off, is a
\* directory.
LEMMA FetchTyped ==
  ASSUME TypeInv, FetchFiles
  PROVE  disk' \in [Dirs -> Files]
<1>1. at \in Images /\ OutputDir(at) \in Dirs /\ wrote[at] \in Files
      /\ disk[OutputDir(at)] \in Files
  BY DEF FetchFiles, TypeInv, TypeOK, Working, OutputDir
<1>2. Untarred(disk[OutputDir(at)], wrote[at]) \in Files
  BY <1>1 DEF Untarred, Files, Kinds
<1>3. Partly(disk[OutputDir(at)], wrote[at]) \subseteq Files
  BY DEF Partly
<1>4. disk \in [Dirs -> Files]
  BY DEF TypeInv, TypeOK
<1>5. CASE disk' = [disk EXCEPT ![OutputDir(at)] = Untarred(@, wrote[at])]
  BY <1>1, <1>2, <1>4, <1>5
<1>6. CASE \E f \in Partly(disk[OutputDir(at)], wrote[at]) :
             disk' = [disk EXCEPT ![OutputDir(at)] = f]
  BY <1>1, <1>3, <1>4, <1>6
<1> QED
  BY <1>5, <1>6 DEF FetchFiles

\* No step of the executor or of Kubernetes disturbs the types, nor leaves the
\* executor at work without an image.
LEMMA TypeStep == TypeInv /\ [Next]_vars => TypeInv'
<1> SUFFICES ASSUME TypeInv, [Next]_vars PROVE TypeInv'
  OBVIOUS
<1> USE DEF TypeInv, TypeOK, Working, executor, pods, leftovers, Goto, Judge, PCs
<1>1. ASSUME NEW i \in Images, Begin(i) PROVE TypeInv'
  BY <1>1 DEF Begin
<1>2. CASE SetUp
  BY <1>2 DEF SetUp
<1>3. CASE CreateJob
  BY <1>3 DEF CreateJob
<1>4. CASE SuiteEnds
  BY <1>4 DEF SuiteEnds
<1>5. CASE PullError
  BY <1>5 DEF PullError
<1>6. CASE WaitTimesOut
  BY <1>6 DEF WaitTimesOut
<1>7. CASE FetchLogs
  BY <1>7 DEF FetchLogs
<1>8. CASE FetchFiles
  <2>1. disk' \in [Dirs -> Files]
    BY <1>8, FetchTyped
  <2> QED
    BY <1>8, <2>1 DEF FetchFiles
<1>9. CASE Results
  BY <1>9 DEF Results
<1>10. CASE Delete
  BY <1>10 DEF Delete
<1>11. CASE AllRun
  BY <1>11 DEF AllRun
<1>12. ASSUME NEW i \in Images, Kubernetes(i) PROVE TypeInv'
  <2> USE DEF Others
  <2>1. CASE PodAppears(i)
    BY <2>1 DEF PodAppears
  <2>2. CASE Pull(i)
    <3>1. PICK s \in {"waiting", "unpullable", "running"} :
                 suite' = [suite EXCEPT ![i] = s]
      BY <2>2 DEF Pull
    <3> QED
      BY <2>2, <3>1 DEF Pull
  <2>3. CASE KeeperStarts(i)
    BY <2>3 DEF KeeperStarts
  <2>4. CASE SuiteExits(i)
    <3>1. PICK f \in Files, c \in {"zero", "nonzero", "killed"} :
                 /\ wrote' = [wrote EXCEPT ![i] = f]
                 /\ code' = [code EXCEPT ![i] = c]
      BY <2>4 DEF SuiteExits
    <3> QED
      BY <2>4, <3>1 DEF SuiteExits
  <2>5. CASE Deadline(i)
    BY <2>5 DEF Deadline
  <2>6. CASE Terminate(i)
    BY <2>6 DEF Terminate
  <2>7. CASE PodGoes(i)
    BY <2>7 DEF PodGoes
  <2> QED
    BY <1>12, <2>1, <2>2, <2>3, <2>4, <2>5, <2>6, <2>7 DEF Kubernetes, Stops
<1>13. CASE UNCHANGED vars
  BY <1>13 DEF vars
<1> QED
  BY <1>1, <1>2, <1>3, <1>4, <1>5, <1>6, <1>7, <1>8, <1>9, <1>10, <1>11, <1>12,
     <1>13 DEF Next, Execute

\* The executor starts well typed.
LEMMA TypeInit == Init => TypeInv
  BY DEF Init, TypeInv, TypeOK, Working, PCs, Files, Kinds

\* The variables of the executor and of the pods keep their types.
THEOREM TypeCorrect == Spec => []TypeOK
<1>1. TypeInv => TypeOK
  BY DEF TypeInv
<1> QED
  BY <1>1, TypeInit, TypeStep, PTL DEF Spec

-----------------------------------------------------------------------------
(* A pass is earned.                                                       *)

\* The invariant of a single image, and that of the image at its results.
ImageInv(i) ==
  /\ Unstarted(i) => suite[i] = "none"
  /\ code[i] # "none" => Over(i)
  /\ suite[i] = "ended" => code[i] # "none"
  /\ Unfetched(i) => outcome[i] = "pending"
  /\ outcome[i] = "passed" =>
       code[i] # "none" /\ \A n \in Names : wrote[i][n] # "failing"
ResultsInv ==
  pc = "results" =>
    /\ code[at] # "none"
    /\ \A n \in Names : wrote[at][n] = "failing" => disk[OutputDir(at)][n] = "failing"

\* EarnedInv, image by image.
LEMMA EarnedByImage ==
  EarnedInv <=> TypeInv /\ ResultsInv /\ \A i \in Images : ImageInv(i)
  BY DEF EarnedInv, TypeInv, ImageInv, ResultsInv, PassIsEarned

\* What is known of an image stays true when its pod is left alone and it is
\* not put back: its outcome is kept, or it has just failed.
LEMMA Kept ==
  ASSUME NEW i \in Images, ImageInv(i),
         suite'[i] = suite[i], code'[i] = code[i], wrote'[i] = wrote[i],
         Unstarted(i)' => Unstarted(i),
         \/ outcome'[i] = outcome[i] /\ (Unfetched(i)' => Unfetched(i))
         \/ outcome'[i] = "failed" /\ ~Unfetched(i)'
  PROVE  ImageInv(i)'
BY DEF ImageInv, Over

\* A step of Kubernetes leaves the executor, and its records of the images, alone.
LEMMA PodFrame ==
  ASSUME NEW k \in Images, Kubernetes(k)
  PROVE  UNCHANGED <<pc, at, todo, outcome, disk>>
<1>1. Others
  BY DEF Kubernetes, Stops, PodAppears, Pull, KeeperStarts, SuiteExits, Deadline,
         Terminate, PodGoes
<1> QED
  BY <1>1 DEF Others, executor

\* What a step of Kubernetes does to the pod of an image: nothing, an end with
\* an exit code, or a move that neither ends it nor undoes an end.
LEMMA PodMoves ==
  ASSUME TypeOK, NEW k \in Images, Kubernetes(k), NEW i \in Images
  PROVE  \/ suite'[i] = suite[i] /\ code'[i] = code[i] /\ wrote'[i] = wrote[i]
         \/ suite[i] = "running" /\ suite'[i] = "ended" /\ code'[i] # "none"
         \/ /\ suite[i] \notin {"none", "gone"} /\ suite'[i] # "ended"
            /\ suite[i] = "ended" => suite'[i] = "gone"
            /\ code'[i] = code[i] /\ wrote'[i] = wrote[i]
<1>1. CASE SuiteExits(k)
  <2>1. PICK f \in Files, c \in {"zero", "nonzero", "killed"} :
               /\ wrote' = [wrote EXCEPT ![k] = f]
               /\ code' = [code EXCEPT ![k] = c]
               /\ suite' = [suite EXCEPT ![k] = "ended"]
               /\ suite[k] = "running"
    BY <1>1 DEF SuiteExits
  <2>2. code \in [Images -> {"none", "zero", "nonzero", "killed"}] /\ DOMAIN suite = Images
        /\ DOMAIN wrote = Images
    BY DEF TypeOK
  <2> QED
    BY <2>1, <2>2
<1>2. CASE PodAppears(k) \/ Pull(k) \/ PodGoes(k)
  <2>1. UNCHANGED <<wrote, code>>
    BY <1>2 DEF PodAppears, Pull, PodGoes
  <2>2. DOMAIN suite = Images
    BY DEF TypeOK
  <2>3. CASE PodAppears(k)
    BY <2>1, <2>2, <2>3 DEF PodAppears
  <2>4. CASE Pull(k)
    <3>1. PICK s \in {"unpullable", "running", "waiting"} :
                 suite' = [suite EXCEPT ![k] = s] /\ suite[k] \in {"waiting", "unpullable"}
      BY <2>4 DEF Pull
    <3> QED
      BY <2>1, <2>2, <3>1
  <2>5. CASE PodGoes(k)
    BY <2>1, <2>2, <2>5 DEF PodGoes
  <2> QED
    BY <1>2, <2>3, <2>4, <2>5
<1>3. CASE KeeperStarts(k) \/ Deadline(k) \/ Terminate(k)
  BY <1>3 DEF KeeperStarts, Deadline, Terminate
<1> QED
  BY <1>1, <1>2, <1>3 DEF Kubernetes, Stops

\* A step of Kubernetes on the pod of one image keeps what is known of every
\* image: an end is final, and what a suite wrote is not rewritten.
LEMMA PodStep ==
  ASSUME EarnedInv, NEW k \in Images, Kubernetes(k), NEW i \in Images
  PROVE  ImageInv(i)'
<1>0. TypeOK /\ ImageInv(i)
  BY EarnedByImage DEF TypeInv
<1>1. UNCHANGED <<pc, at, todo, outcome>>
  BY PodFrame
<1>2. (Unstarted(i)' <=> Unstarted(i)) /\ (Unfetched(i)' <=> Unfetched(i))
  BY <1>1 DEF Unstarted, Unfetched
<1>3. CASE suite'[i] = suite[i] /\ code'[i] = code[i] /\ wrote'[i] = wrote[i]
  BY <1>0, <1>1, <1>2, <1>3, Kept
<1>4. CASE suite[i] = "running" /\ suite'[i] = "ended" /\ code'[i] # "none"
  <2>1. code[i] = "none" /\ outcome[i] # "passed" /\ ~Unstarted(i)
    BY <1>0, <1>4 DEF ImageInv, Over
  <2> QED
    BY <1>0, <1>1, <1>2, <1>4, <2>1 DEF ImageInv, Over
<1>5. CASE /\ suite[i] \notin {"none", "gone"} /\ suite'[i] # "ended"
           /\ suite[i] = "ended" => suite'[i] = "gone"
           /\ code'[i] = code[i] /\ wrote'[i] = wrote[i]
  <2>1. ~Unstarted(i) /\ (code[i] # "none" => suite'[i] = "gone")
    BY <1>0, <1>5 DEF ImageInv, Over
  <2> QED
    BY <1>0, <1>1, <1>2, <1>5, <2>1 DEF ImageInv, Over
<1> QED
  BY <1>0, <1>3, <1>4, <1>5, PodMoves

\* A step of the executor other than reading results keeps what is known of
\* every image: it moves on, or fails the current one.
LEMMA MoveStep ==
  ASSUME EarnedInv, NEW i \in Images,
         SetUp \/ SuiteEnds \/ PullError \/ WaitTimesOut \/ FetchLogs \/ FetchFiles
           \/ Delete \/ AllRun
  PROVE  ImageInv(i)'
<1>0. ImageInv(i) /\ TypeInv
  BY EarnedByImage
<1>1. suite'[i] = suite[i] /\ code'[i] = code[i] /\ wrote'[i] = wrote[i]
  BY DEF pods, SetUp, SuiteEnds, PullError, WaitTimesOut, FetchLogs, FetchFiles, Delete, AllRun
<1>2. /\ todo' = todo /\ (at' = at \/ pc' = "done")
      /\ pc' = "create job" => pc = "set up"
      /\ pc' \in {"logs", "files"} => pc \in {"wait", "logs"}
      /\ pc' \notin {"set up", "wait"}
  BY DEF Goto, Judge, SetUp, SuiteEnds, PullError, WaitTimesOut, FetchLogs, FetchFiles,
         Delete, AllRun
<1>3. (Unstarted(i)' => Unstarted(i)) /\ (Unfetched(i)' => Unfetched(i))
  BY <1>2 DEF Unstarted, Unfetched
<1>4. \/ outcome' = outcome
      \/ /\ outcome' = [outcome EXCEPT ![at] = "failed"]
         /\ pc' \in {"next", "delete"} /\ at' = at /\ pc # "next" /\ pc # "done"
  BY DEF Goto, Judge, SetUp, SuiteEnds, PullError, WaitTimesOut, FetchLogs, FetchFiles,
         Delete, AllRun
<1>5. \/ outcome'[i] = outcome[i]
      \/ outcome'[i] = "failed" /\ i = at /\ at \notin todo /\ pc' \in {"next", "delete"}
  BY <1>0, <1>4 DEF TypeInv, TypeOK, Working
<1>6. \/ outcome'[i] = outcome[i]
      \/ outcome'[i] = "failed" /\ ~Unfetched(i)'
  BY <1>2, <1>5 DEF Unfetched
<1> QED
  BY <1>0, <1>1, <1>3, <1>6, Kept

\* A step of the executor keeps what is known of every image: only the current
\* one is judged, and only its results let it pass.
LEMMA ExecutorStep ==
  ASSUME EarnedInv, Execute \/ WaitTimesOut, NEW i \in Images
  PROVE  ImageInv(i)'
<1>0. ImageInv(i) /\ TypeInv /\ ResultsInv
  BY EarnedByImage
<1>a. DOMAIN outcome = Images /\ DOMAIN suite = Images
  BY <1>0 DEF TypeInv, TypeOK
<1>1. ASSUME NEW k \in Images, Begin(k) PROVE ImageInv(i)'
  <2>1. suite'[i] = suite[i] /\ code'[i] = code[i] /\ wrote'[i] = wrote[i]
    BY <1>1 DEF Begin, pods
  <2>2. pc = "next" /\ k \in todo /\ at' = k /\ todo' = todo \ {k}
    BY <1>1 DEF Begin
  <2>3. (Unstarted(i)' => Unstarted(i)) /\ (Unfetched(i)' => Unfetched(i))
    BY <2>2 DEF Unstarted, Unfetched
  <2>4. outcome' = outcome \/ (outcome' = [outcome EXCEPT ![k] = "failed"] /\ pc' = "next")
    BY <1>1, <2>2 DEF Begin
  <2>5. outcome'[i] = outcome[i] \/ (outcome'[i] = "failed" /\ i = k /\ pc' = "next")
    BY <1>a, <2>4
  <2>6. outcome'[i] = outcome[i] \/ (outcome'[i] = "failed" /\ ~Unfetched(i)')
    BY <2>2, <2>5 DEF Unfetched
  <2> QED
    BY <1>0, <2>1, <2>3, <2>6, Kept
<1>2. CASE CreateJob
  <2>1. code'[i] = code[i] /\ wrote'[i] = wrote[i]
    BY <1>2 DEF CreateJob
  <2>2. /\ pc = "create job" /\ at' = at /\ todo' = todo /\ pc' \in {"wait", "delete"}
        /\ at \notin todo
    BY <1>0, <1>2 DEF CreateJob, Goto, Judge, TypeInv, Working
  <2>3. ~Unstarted(at)'
    BY <2>2 DEF Unstarted
  <2>4. (Unstarted(i)' => Unstarted(i)) /\ (Unfetched(i)' => Unfetched(i))
    BY <2>2 DEF Unstarted, Unfetched
  <2>5. CASE suite' = suite
    <3>1. outcome' = outcome \/ (outcome' = [outcome EXCEPT ![at] = "failed"] /\ pc' = "delete")
      BY <1>2 DEF CreateJob, Goto, Judge
    <3>2. outcome'[i] = outcome[i] \/ (outcome'[i] = "failed" /\ i = at /\ pc' = "delete")
      BY <1>a, <3>1
    <3>3. outcome'[i] = outcome[i] \/ (outcome'[i] = "failed" /\ ~Unfetched(i)')
      BY <2>2, <3>2 DEF Unfetched
    <3>4. suite'[i] = suite[i]
      BY <2>5
    <3> QED
      BY <1>0, <2>1, <2>4, <3>3, <3>4, Kept
  <2>6. CASE suite' = [suite EXCEPT ![at] = "no pod"] /\ outcome' = outcome
    <3>1. CASE i # at
      <4>1. suite'[i] = suite[i] /\ outcome'[i] = outcome[i]
        BY <1>a, <2>6, <3>1
      <4> QED
        BY <1>0, <2>1, <2>4, <4>1, Kept
    <3>2. CASE i = at
      <4>1. suite'[i] = "no pod" /\ suite[i] = "none" /\ ~Unstarted(i)'
        BY <1>0, <1>a, <2>2, <2>3, <2>6, <3>2 DEF ImageInv, Unstarted
      <4>2. code[i] = "none"
        BY <1>0, <4>1 DEF ImageInv, Over
      <4> QED
        BY <1>0, <2>1, <2>4, <2>6, <4>1, <4>2 DEF ImageInv, Over
    <3> QED
      BY <3>1, <3>2
  <2> QED
    BY <1>2, <2>5, <2>6 DEF CreateJob, Goto
<1>3. CASE Results
  <2>1. /\ at \in Images /\ code[at] # "none" /\ at \notin todo /\ pc = "results"
        /\ \A n \in Names : wrote[at][n] = "failing" => disk[OutputDir(at)][n] = "failing"
    BY <1>0, <1>3 DEF Results, ResultsInv, TypeInv, TypeOK, Working
  <2>2. /\ suite'[i] = suite[i] /\ code'[i] = code[i] /\ wrote'[i] = wrote[i]
        /\ at' = at /\ todo' = todo /\ pc' = "delete"
        /\ outcome' = [outcome EXCEPT ![at] = IF Failing(at) THEN "failed" ELSE "passed"]
    BY <1>3 DEF Results, Judge, Goto, pods
  <2>3. (Unstarted(i)' => Unstarted(i)) /\ (Unfetched(i)' => Unfetched(i)) /\ ~Unfetched(at)'
    BY <2>1, <2>2 DEF Unstarted, Unfetched
  <2>4. CASE i # at
    <3>1. outcome'[i] = outcome[i]
      BY <1>a, <2>2, <2>4
    <3> QED
      BY <1>0, <2>2, <2>3, <3>1, Kept
  <2>5. CASE i = at /\ Failing(at)
    <3>1. outcome'[i] = "failed"
      BY <1>a, <2>2, <2>5
    <3> QED
      BY <1>0, <2>2, <2>3, <2>5, <3>1, Kept
  <2>6. CASE i = at /\ ~Failing(at)
    <3>1. \A n \in Names : wrote[at][n] # "failing"
      BY <2>1, <2>6 DEF Failing
    <3>2. ~Unfetched(i)' /\ wrote'[i] = wrote[at] /\ code'[i] = code[at]
      BY <2>2, <2>3, <2>6
    <3> QED
      BY <1>0, <2>1, <2>2, <2>3, <3>1, <3>2 DEF ImageInv, Over
  <2> QED
    BY <2>4, <2>5, <2>6
<1> QED
  BY <1>1, <1>2, <1>3, MoveStep DEF Execute

\* The results are read only after every file of the suite has been copied, and
\* nothing that Kubernetes does then changes what they say.
LEMMA ResultsStep ==
  ASSUME EarnedInv, [Next]_vars
  PROVE  ResultsInv'
<1> SUFFICES ASSUME pc' = "results"
             PROVE  /\ code'[at'] # "none"
                    /\ \A n \in Names : wrote'[at'][n] = "failing"
                                          => disk'[OutputDir(at')][n] = "failing"
  BY DEF ResultsInv, OutputDir
<1> USE EarnedByImage DEF TypeInv, TypeOK, Working, OutputDir
<1>1. CASE FetchFiles
  <2>1. /\ at \in Images /\ at' = at /\ UNCHANGED <<code, wrote>>
        /\ suite[at] = "ended"
        /\ disk' = [disk EXCEPT ![Dir[at]] = Untarred(@, wrote[at])]
    BY <1>1 DEF FetchFiles, Judge, Goto, pods
  <2>2. code[at] # "none"
    BY <2>1 DEF ImageInv
  <2>3. Dir[at] \in Dirs /\ disk'[Dir[at]] = Untarred(disk[Dir[at]], wrote[at])
    BY <2>1
  <2>4. \A n \in Names : wrote[at][n] = "failing" => disk'[Dir[at]][n] = "failing"
    BY <2>3 DEF Untarred
  <2> QED
    BY <2>1, <2>2, <2>4
<1>2. ASSUME NEW k \in Images, Kubernetes(k)
      PROVE  /\ code'[at'] # "none"
             /\ \A n \in Names : wrote'[at'][n] = "failing"
                                   => disk'[OutputDir(at')][n] = "failing"
  <2>1. UNCHANGED <<pc, at, disk>>
    BY <1>2, PodFrame
  <2>2. /\ at \in Images /\ TypeOK /\ ResultsInv /\ pc = "results"
        /\ suite[at] # "running" /\ code[at] # "none"
    BY <2>1 DEF ResultsInv, ImageInv, Over
  <2>3. code'[at] = code[at] /\ wrote'[at] = wrote[at]
    <3> HIDE DEF TypeInv, TypeOK, Working
    <3> QED
      BY <1>2, <2>2, PodMoves
  <2> HIDE DEF TypeInv, TypeOK, Working
  <2> QED
    BY <2>1, <2>2, <2>3 DEF ResultsInv
<1>3. CASE UNCHANGED vars
  BY <1>3 DEF vars, executor, pods, ResultsInv
<1> QED
  BY <1>1, <1>2, <1>3 DEF Next, Execute, Begin, SetUp, CreateJob, SuiteEnds, PullError,
     WaitTimesOut, FetchLogs, Results, Delete, AllRun, Goto, Judge

\* The inductive invariant holds at first and is kept.
LEMMA EarnedHolds == Spec => []EarnedInv
<1>1. Init => EarnedInv
  BY TypeInit DEF Init, EarnedInv, PassIsEarned, Unstarted, Unfetched, Over
<1>2. EarnedInv /\ [Next]_vars => EarnedInv'
  <2> SUFFICES ASSUME EarnedInv, [Next]_vars PROVE EarnedInv'
    OBVIOUS
  <2>1. TypeInv'
    BY TypeStep DEF EarnedInv
  <2>2. ASSUME NEW i \in Images PROVE ImageInv(i)'
    <3>1. CASE UNCHANGED vars
      BY <3>1, EarnedByImage DEF vars, executor, pods, ImageInv, Unstarted, Unfetched, Over
    <3> QED
      BY <3>1, PodStep, ExecutorStep DEF Next
  <2>3. ResultsInv'
    BY ResultsStep
  <2> QED
    BY <2>1, <2>2, <2>3 DEF EarnedInv, TypeInv, ImageInv, ResultsInv, PassIsEarned
<1> QED
  BY <1>1, <1>2, PTL DEF Spec

\* No image passes whose suite is still at work, was never started, or reported
\* a failure: not by the deadline, the timeout, the loss of the pod or a copy that
\* breaks off (waitForSuite, fetchArtifacts, processJUnitResults).
THEOREM PassEarned == Spec => []PassIsEarned
<1>1. EarnedInv => PassIsEarned
  BY DEF EarnedInv
<1> QED
  BY <1>1, EarnedHolds, PTL

-----------------------------------------------------------------------------
(* An image is judged on its own reports.                                  *)

\* Two images never share a directory.
DirsDistinct == \A i, j \in Images : Dir[i] = Dir[j] => i = j

Blank == [n \in Names |-> "none"]

\* While directories are distinct, the files of an image that has not been
\* fetched are none, and at its results they are those its suite wrote.
LEMMA OwnStep ==
  ASSUME DirsDistinct, OwnInv, [Next]_vars, EarnedInv'
  PROVE  OwnInv'
<1> USE EarnedByImage DEF TypeInv, TypeOK, Working, OutputDir
<1>0. /\ EarnedInv /\ JudgedOnItsOwn
      /\ \A i \in Images : Unfetched(i) => disk[Dir[i]] = Blank
  BY DEF OwnInv, Blank
<1> SUFFICES /\ JudgedOnItsOwn'
             /\ \A i \in Images : Unfetched(i)' => disk'[Dir[i]] = Blank
  BY DEF OwnInv, Blank
<1>1. CASE FetchFiles
  <2>1. at \in Images /\ at \notin todo /\ Unfetched(at) /\ Dir[at] \in Dirs
    BY <1>0, <1>1 DEF FetchFiles, Unfetched
  <2>2. UNCHANGED <<at, todo, wrote>> /\ pc' \in {"results", "delete"}
    BY <1>1 DEF FetchFiles, Goto, Judge, pods
  <2>3. ASSUME NEW i \in Images, Unfetched(i)' PROVE disk'[Dir[i]] = Blank
    <3>1. i \in todo /\ i # at
      BY <2>1, <2>2, <2>3 DEF Unfetched
    <3>2. Dir[i] # Dir[at] /\ Dir[i] \in Dirs
      BY <2>1, <3>1 DEF DirsDistinct
    <3>3. disk'[Dir[i]] = disk[Dir[i]]
      BY <1>0, <1>1, <3>2 DEF FetchFiles
    <3> QED
      BY <1>0, <3>1, <3>3 DEF Unfetched
  <2>4. ASSUME pc' = "results" PROVE disk'[Dir[at]] = wrote[at]
    <3>1. disk' = [disk EXCEPT ![Dir[at]] = Untarred(@, wrote[at])]
      BY <1>1, <2>4 DEF FetchFiles, Judge
    <3>2. disk'[Dir[at]] = Untarred(Blank, wrote[at])
      BY <1>0, <2>1, <3>1
    <3>3. wrote[at] \in [Names -> Kinds]
      BY <1>0, <2>1 DEF Files
    <3> QED
      BY <3>2, <3>3 DEF Untarred, Blank
  <2> QED
    BY <2>2, <2>3, <2>4 DEF JudgedOnItsOwn
<1>2. CASE UNCHANGED disk /\ UNCHANGED wrote /\ ~FetchFiles
  <2>1. Execute \/ WaitTimesOut \/ UNCHANGED executor
    BY DEF Next, Kubernetes, Stops, PodAppears, Pull, KeeperStarts, SuiteExits,
       Deadline, Terminate, PodGoes, Others, vars
  <2>2. ASSUME NEW i \in Images, Unfetched(i)' PROVE Unfetched(i)
    <3>1. CASE UNCHANGED executor
      BY <2>2, <3>1 DEF executor, Unfetched
    <3>2. ASSUME NEW k \in Images, Begin(k) PROVE Unfetched(i)
      BY <2>2, <3>2 DEF Begin, Unfetched
    <3>3. CASE SetUp \/ CreateJob \/ SuiteEnds \/ PullError \/ WaitTimesOut \/ FetchLogs
      BY <2>2, <3>3 DEF SetUp, CreateJob, SuiteEnds, PullError, WaitTimesOut,
         FetchLogs, Goto, Judge, Unfetched
    <3>4. CASE Results \/ Delete \/ AllRun
      BY <2>2, <3>4 DEF Results, Delete, AllRun, Goto, Judge, Unfetched
    <3> QED
      BY <1>2, <2>1, <3>1, <3>2, <3>3, <3>4 DEF Execute
  <2>3. pc' = "results" => pc = "results" /\ at' = at
    BY <1>2, <2>1 DEF Execute, Begin, SetUp, CreateJob, SuiteEnds, PullError,
       WaitTimesOut, FetchLogs, Results, Delete, AllRun, Goto, Judge, executor
  <2> QED
    BY <1>0, <1>2, <2>2, <2>3 DEF JudgedOnItsOwn
<1>3. ASSUME NEW k \in Images, SuiteExits(k) PROVE OwnInv'
  <2>1. UNCHANGED <<pc, at, todo, disk>>
    BY <1>3 DEF SuiteExits, Others, executor
  <2>2. pc = "results" => at \in Images /\ suite[at] # "running"
    BY <1>0 DEF ResultsInv, ImageInv, Over
  <2>3. pc = "results" => wrote'[at] = wrote[at]
    BY <1>0, <1>3, <2>2 DEF SuiteExits
  <2>4. JudgedOnItsOwn'
    BY <1>0, <2>1, <2>3 DEF JudgedOnItsOwn
  <2>5. \A i \in Images : Unfetched(i)' => disk'[Dir[i]] = Blank
    BY <1>0, <2>1 DEF Unfetched
  <2> QED
    BY <2>4, <2>5 DEF OwnInv, Blank
<1> QED
  BY <1>1, <1>2, <1>3 DEF OwnInv, Blank, Next, Execute, Begin, SetUp, CreateJob, SuiteEnds,
     PullError, WaitTimesOut, FetchLogs, Results, Delete, AllRun, pods,
     Kubernetes, Stops, PodAppears, Pull, KeeperStarts, Deadline, Terminate,
     PodGoes, Others, vars

\* If no two images share name and tag, and with them the directory, the verdict
\* on each comes from its own reports alone.
THEOREM OwnJudgement == DirsDistinct => (Spec => []JudgedOnItsOwn)
<1> SUFFICES ASSUME DirsDistinct PROVE Spec => []JudgedOnItsOwn
  OBVIOUS
<1>1. Init => OwnInv
  <2> SUFFICES ASSUME Init PROVE OwnInv
    OBVIOUS
  <2>1. EarnedInv
    BY TypeInit DEF Init, EarnedInv, PassIsEarned, Unstarted, Unfetched, Over
  <2> QED
    BY <2>1 DEF Init, OwnInv, JudgedOnItsOwn, OutputDir
<1>2. EarnedInv' /\ OwnInv /\ [Next]_vars => OwnInv'
  BY OwnStep
<1>3. OwnInv => JudgedOnItsOwn
  BY DEF OwnInv
<1> QED
  BY <1>1, <1>2, <1>3, EarnedHolds, PTL DEF Spec

-----------------------------------------------------------------------------
(* Namespaces.                                                             *)

\* The inductive invariant: a live namespace is kept, is on record as half made
\* or not deleted, or is the one the executor is at work in.
SpaceInv ==
  \A i \in Images : ns[i] = "live" =>
    skipCleanup \/ i \in halfMade \cup refused \/ (i = at /\ Working)

\* Kubernetes makes no namespace, and the executor accounts for the current one
\* before it leaves it.
LEMMA SpaceStep ==
  ASSUME TypeInv, SpaceInv, [Next]_vars
  PROVE  SpaceInv'
<1> USE DEF SpaceInv, Working, leftovers
<1>0. ns \in [Images -> {"none", "live", "terminating", "gone"}]
  BY DEF TypeInv, TypeOK
<1>1. ASSUME NEW k \in Images, Begin(k) PROVE SpaceInv'
  <2>1. pc = "next" /\ at' = k /\ UNCHANGED <<skipCleanup, halfMade, refused>>
    BY <1>1 DEF Begin
  <2>2. \/ ns' = [ns EXCEPT ![k] = "live"] /\ pc' = "set up"
        \/ ns' = ns
    BY <1>1 DEF Begin
  <2> QED
    BY <1>0, <2>1, <2>2
<1>2. CASE SetUp
  BY <1>2 DEF SetUp, Goto, Judge
<1>3. CASE CreateJob \/ SuiteEnds \/ PullError \/ WaitTimesOut \/ FetchLogs
  <2>1. /\ at' = at /\ UNCHANGED <<skipCleanup, halfMade, refused, ns>>
        /\ pc' \in {"wait", "logs", "files", "delete"}
    BY <1>3 DEF CreateJob, SuiteEnds, PullError, WaitTimesOut, FetchLogs, Goto, Judge
  <2> QED
    BY <2>1
<1>4. CASE FetchFiles \/ Results
  BY <1>4 DEF FetchFiles, Results, Goto, Judge
<1>5. CASE Delete
  <2>1. /\ at' = at /\ UNCHANGED <<skipCleanup, halfMade>>
        /\ \/ skipCleanup /\ UNCHANGED <<ns, refused>>
           \/ ns' = [ns EXCEPT ![at] = "terminating"] /\ UNCHANGED refused
           \/ refused' = refused \cup {at} /\ UNCHANGED ns
    BY <1>5 DEF Delete, Goto
  <2> QED
    BY <1>0, <2>1
<1>6. CASE AllRun
  BY <1>6 DEF AllRun
<1>7. ASSUME NEW k \in Images, Kubernetes(k) PROVE SpaceInv'
  <2>1. UNCHANGED <<pc, at, todo, outcome>>
    BY <1>7, PodFrame
  <2>2. UNCHANGED <<skipCleanup, halfMade, refused>>
    BY <1>7 DEF Kubernetes, Stops, PodAppears, Pull, KeeperStarts, SuiteExits,
       Deadline, Terminate, PodGoes, Others
  <2>3. ns' = ns \/ ns' = [ns EXCEPT ![k] = "gone"]
    BY <1>7 DEF Kubernetes, Stops, PodAppears, Pull, KeeperStarts, SuiteExits,
       Deadline, Terminate, PodGoes
  <2> QED
    BY <1>0, <2>1, <2>2, <2>3
<1>8. CASE UNCHANGED vars
  BY <1>8 DEF vars, executor
<1> QED
  BY <1>1, <1>2, <1>3, <1>4, <1>5, <1>6, <1>7, <1>8 DEF Next, Execute

\* A namespace stays behind only where the code lets it: its service account or
\* role binding could not be made, or its deletion failed (Execute, setupProject,
\* deleteProject), whatever the image, its pod and the timeouts do.
THEOREM NamespacesAccounted == Spec => []NamespacesAccountedFor
<1>1. Init => TypeInv /\ SpaceInv
  <2>1. Init => SpaceInv
    BY DEF Init, SpaceInv
  <2> QED
    BY <2>1, TypeInit
<1>2. TypeInv /\ SpaceInv /\ [Next]_vars => (TypeInv /\ SpaceInv)'
  BY TypeStep, SpaceStep
<1>3. SpaceInv => NamespacesAccountedFor
  BY DEF SpaceInv, NamespacesAccountedFor, Working
<1> QED
  BY <1>1, <1>2, <1>3, PTL DEF Spec
=============================================================================
