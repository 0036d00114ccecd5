------------------------------ MODULE LogTools ------------------------------
(***************************************************************************)
(* The one tool the language model may call while it analyses a run:       *)
(* read_file, src/internal/llm/tools/read_file.go, behind the registry of  *)
(* src/internal/llm/tools/tools.go.                                        *)
(*                                                                         *)
(* A call names files and, optionally, a range of lines of each.  All      *)
(* files are validated before any is read; then each is read, and its      *)
(* lines are redacted, in batches, unless the call says otherwise.  An     *)
(* answer is one page, or, when the call names several files, a page for   *)
(* each path: of two ranges of one file only the last is answered.         *)
(***************************************************************************)
EXTENDS Integers, Sequences, SequencesExt, FiniteSetsExt, Functions

CONSTANTS
  Paths,      \* paths the artifacts may have, or the model may invent
  Unset,      \* a parameter the call leaves out
  ScanLimit,  \* bufio.Scanner's limit on the length of a line
  BatchSize   \* lines redacted at a time

ASSUME ToolsAssumption ==
  /\ ScanLimit \in Nat \ {0} /\ BatchSize \in Nat \ {0}
  /\ Unset \notin Int /\ Unset \notin BOOLEAN

\* One element of the parameter "files".
FileSpec == [path : Paths, start : Int \cup {Unset}, stop : Int \cup {Unset}]

\* A call: the tool's name, the files and the parameter "sanitize".
Call == [tool : {"read_file", "other"}, files : Seq(FileSpec),
         sanitize : BOOLEAN \cup {Unset}]

Refused == [refused |-> TRUE]

----------------------------------------------------------------------------
(* validateAllFiles *)

IsValidLogFile(path, artifacts) == path \in ToSet(artifacts)

ValidRange(spec) ==
  /\ spec.start # Unset => spec.start >= 1
  /\ spec.stop # Unset => spec.stop >= 1
  /\ (spec.start # Unset /\ spec.stop # Unset) => spec.start <= spec.stop

ValidateAllFiles(files, artifacts) ==
  \A i \in DOMAIN files :
    IsValidLogFile(files[i].path, artifacts) /\ ValidRange(files[i])

----------------------------------------------------------------------------
(* readLinesInRange: the scanner reads one line beyond the stop line       *)
(* before it breaks off, and gives up at a line it has no room for, even   *)
(* if that line lies outside the range.                                    *)

Scanned(lines, spec) ==
  IF spec.stop = Unset THEN Len(lines) ELSE Min({Len(lines), spec.stop + 1})

TooLong(lines, spec) ==
  \E n \in 1 .. Scanned(lines, spec) : lines[n].size >= ScanLimit

\* The numbers of the lines in the range, in the order they are read.
ReadLinesInRange(lines, spec) ==
  LET start == IF spec.start = Unset THEN 1 ELSE spec.start
      scan[n \in 1 .. Len(lines) + 1] ==
        IF n > Len(lines) \/ (spec.stop # Unset /\ n > spec.stop) THEN << >>
        ELSE (IF n < start THEN << >> ELSE << n >>) \o scan[n + 1]
  IN  scan[1]

----------------------------------------------------------------------------
(* processLines and sanitizeAndFormatLines.  Redaction does not fail: a    *)
(* line the scanner accepts is far shorter than the sanitizer's limit.     *)

Redact(n) == [line |-> n, raw |-> FALSE]
Bare(n) == [line |-> n, raw |-> TRUE]

SanitizeAndFormatLines(numbers) ==
  LET count == (Len(numbers) + BatchSize - 1) \div BatchSize
  IN  FlattenSeq([b \in 1 .. count |->
        LET batch == SubSeq(numbers, (b - 1) * BatchSize + 1,
                                     Min({b * BatchSize, Len(numbers)}))
        IN  [i \in DOMAIN batch |-> Redact(batch[i])]])

ProcessLines(numbers, shouldSanitize) ==
  IF shouldSanitize THEN SanitizeAndFormatLines(numbers)
  ELSE [i \in DOMAIN numbers |-> Bare(numbers[i])]

----------------------------------------------------------------------------
(* processSingleFile: a page, or an error *)

Page(lines) == [lines |-> lines, error |-> FALSE]
ErrorPage == [lines |-> << >>, error |-> TRUE]

ProcessSingleFile(spec, disk, shouldSanitize) ==
  IF ~disk[spec.path].readable \/ TooLong(disk[spec.path].lines, spec)
    THEN ErrorPage
    ELSE Page(ProcessLines(ReadLinesInRange(disk[spec.path].lines, spec),
                           shouldSanitize))

(* processFiles: the error of a single file is the tool's error; with      *)
(* several files it becomes the page of its file.                          *)
ProcessFiles(files, disk, shouldSanitize) ==
  LET page(i) == ProcessSingleFile(files[i], disk, shouldSanitize)
      last(path) == Max({i \in DOMAIN files : files[i].path = path})
  IN  IF Len(files) = 1 /\ page(1).error
        THEN Refused
        ELSE [refused |-> FALSE,
              pages |-> [path \in {files[i].path : i \in DOMAIN files} |->
                           page(last(path))]]

(* Registry.Execute and readFileTool.Execute.  A run without any artifact  *)
(* refuses every call; so does a tool the registry does not have.          *)
Execute(call, artifacts, disk) ==
  IF \/ call.tool # "read_file"
     \/ artifacts = << >>
     \/ call.files = << >>
     \/ ~ValidateAllFiles(call.files, artifacts)
    THEN Refused
    ELSE ProcessFiles(call.files, disk, call.sanitize # FALSE)
=============================================================================
