---------------------------- MODULE SlackReport ----------------------------
(***************************************************************************)
(* What the Slack reporter puts into a failure notice:                     *)
(* src/pkg/common/slack/reporter.go.                                       *)
(*                                                                         *)
(* The reporter reads test_output.log of the report directory.  A short    *)
(* log is sent whole; of a long one it sends the blocks of lines around    *)
(* the first markers of a failure, or the final lines if there is none.    *)
(* Whatever it built is then cut to the length Slack accepts.              *)
(*                                                                         *)
(* A log is a sequence of lines, of which the report tells apart whether   *)
(* they carry a marker and how long they are.  A text is a sequence of     *)
(* pieces: a line of the log, by its number, or (number 0) the reporter's  *)
(* own wording.                                                            *)
(***************************************************************************)
EXTENDS Integers, Sequences, SequencesExt, FiniteSetsExt

CONSTANTS
  Threshold,     \* fullOutputThreshold: logs up to this many lines are sent whole
  FinalLines,    \* finalSummaryLines
  MaxBlocks,     \* maxFailureBlocks
  ContextLines,  \* failureContextLines: lines shown before a marked one
  BlockLines,    \* failureBlockLines: lines shown from a marked one on
  Limit,         \* commonconfig.SlackMessageLength, in characters
  Reserve,       \* what enforceFieldLimit keeps free for its notice
  WordingSize    \* the length of each of the reporter's own phrases

ASSUME ReportAssumption ==
  /\ {Threshold, FinalLines, MaxBlocks, BlockLines, Limit, WordingSize} \subseteq Nat \ {0}
  /\ {ContextLines, Reserve} \subseteq Nat
  /\ WordingSize <= Reserve /\ Reserve < Limit

Line == [marked : BOOLEAN, size : Nat]

Marked(log) == {n \in DOMAIN log : log[n].marked}

Wording == [line |-> 0, size |-> WordingSize]

\* A line with, when another follows in its block, the newline after it.
Piece(log, n, newline) ==
  [line |-> n, size |-> log[n].size + IF newline THEN 1 ELSE 0]

\* The length of a text: that of all its pieces.
Size(text) ==
  LET upTo[k \in 0 .. Len(text)] == IF k = 0 THEN 0 ELSE upTo[k - 1] + text[k].size
  IN  upTo[Len(text)]

----------------------------------------------------------------------------
(* extractFailureBlocks *)

\* The block around the marked line n.
Block(log, n) == [first |-> Max({1, n - ContextLines}),
                  last  |-> Min({Len(log), n + BlockLines - 1})]

\* Where the search goes on after a block.  Seeded fault: it skips a line.
ResumeTooFar(block) == block.last + 2
Resume(block) == block.last + 1

FailureBlocks(log) ==
  LET blocks[i \in 1 .. Len(log) + 2] ==
        LET ahead == {n \in Marked(log) : n >= i}
        IN  IF ahead = {}
              THEN << >>
              ELSE LET block == Block(log, Min(ahead))
                   IN  << block >> \o blocks[Resume(block)]
      all == blocks[1]
  IN  SubSeq(all, 1, Min({MaxBlocks, Len(all)}))

----------------------------------------------------------------------------
(* readTestOutput *)

Whole(log) == [n \in DOMAIN log |-> Piece(log, n, TRUE)]

BlockText(log, block) ==
  [i \in 1 .. block.last - block.first + 1 |->
     LET n == block.first + i - 1 IN Piece(log, n, n < block.last)]

\* The title, then the blocks with a separator between them.
Extract(log, blocks) ==
  << Wording >> \o FlattenSeq(
    [b \in DOMAIN blocks |-> (IF b = 1 THEN << >> ELSE << Wording >>)
                               \o BlockText(log, blocks[b])])

FinalOutput(log) ==
  << Wording >> \o SubSeq(Whole(log), Max({1, Len(log) - FinalLines + 1}), Len(log))

TestOutput(log) ==
  IF Len(log) <= Threshold
    THEN Whole(log)
    ELSE LET blocks == FailureBlocks(log)
         IN  IF blocks # << >> THEN Extract(log, blocks) ELSE FinalOutput(log)

----------------------------------------------------------------------------
(* enforceFieldLimit: the pieces that survive whole, and the length *)

EnforceFieldLimit(text) ==
  IF Size(text) <= Limit
    THEN [text |-> text, cut |-> FALSE, size |-> Size(text)]
    ELSE LET kept == {k \in 0 .. Len(text) :
                        Size(SubSeq(text, 1, k)) <= Limit - Reserve}
         IN  [text |-> SubSeq(text, 1, Max(kept)), cut |-> TRUE,
              size |-> Limit - Reserve + WordingSize]

----------------------------------------------------------------------------
(* formatAnalysisContent and buildAnalysisField: of an analysis that holds *)
(* a JSON block with a cause or recommendations only those are sent; any   *)
(* other content is sent as it is, which may be nothing.                   *)

FormatAnalysisContent(content) == IF content = "json" THEN "formatted" ELSE "none"

BuildAnalysisField(content) ==
  IF FormatAnalysisContent(content) # "none" THEN FormatAnalysisContent(content)
  ELSE content
=============================================================================
