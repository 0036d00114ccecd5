---------------------------- MODULE LogAnalysis ----------------------------
(***************************************************************************)
(* The analysis of a failed run by a language model, from the artifacts in *)
(* the report directory to the notice in Slack:                            *)
(*                                                                         *)
(*   src/internal/analysisengine, src/internal/aggregator: a test run,     *)
(*   src/pkg/krknai/analysisengine, src/pkg/krknai/aggregator: Kraken,     *)
(*   src/internal/llm: the conversation with the model and its tool,       *)
(*   src/pkg/common/slack: the notice (module SlackReport).                *)
(*                                                                         *)
(* The engine collects the artifacts; for a test run it parses the JUnit   *)
(* files, a goroutine for each, and gathers what they send over a channel  *)
(* in whatever order it comes.  It renders the prompt and then talks to    *)
(* the model for at most MaxIterations rounds: the model answers with text *)
(* or with tool calls, the calls are executed one by one, each call and    *)
(* its answer are appended to the conversation, and the whole is sent      *)
(* again.  The analysis is written to llm-analysis/summary.yaml and, for a *)
(* test run, told in Slack.                                                *)
(***************************************************************************)
EXTENDS SlackReport, KrknResults, LogTools, TLC

CONSTANTS
  Configs,        \* the runs analysed: see Config below
  MaxIterations   \* rounds of the conversation

(***************************************************************************)
(* A run to analyse:                                                       *)
(*   engine    "tests" or "krkn"                                           *)
(*   key       whether there is an API key and a client for it             *)
(*   sanitizer what the engine was given to redact the prompt with: none;  *)
(*             one that cannot be set up; one, and the text it takes       *)
(*   dir       the report directory: absent, hidden (its name starts with  *)
(*             a dot, as "." itself does) or plain                         *)
(*   listing   the paths below it, in the order filepath.Walk visits them  *)
(*   disk      what each path holds                                        *)
(*   rows      the rows of the table of scenarios, if it can be read       *)
(*   links     the links to uploaded artifacts                             *)
(*   replies   what the model may reply                                    *)
(***************************************************************************)
Statuses == {"passed", "failed", "skipped", "error"}
Sanitizers == {"none", "broken", "small", "large"}

\* What there is at a path.
Entry == [kind : {"test output", "junit", "png", "csv", "other"},
          hidden : {"no", "file", "directory"}, readable : BOOLEAN,
          lines : Seq(Line), tests : Seq(Statuses)]

\* A reply: what the request comes to, its text and its calls.
Reply == [came : {"error", "empty", "answer"},
          content : {"json", "broken json", "prose", "none"}, calls : Seq(Call)]

Config == [
  engine : {"tests", "krkn"}, key : BOOLEAN, sanitizer : Sanitizers,
  dir : {"absent", "hidden", "plain"}, listing : Seq(Paths), disk : [Paths -> Entry],
  rows : Seq(Row), links : BOOLEAN, replies : SUBSET Reply]

\* The walk visits a path once, and there is one test_output.log.
ASSUME AnalysisAssumption ==
  /\ Configs \subseteq Config
  /\ \A c \in Configs :
       /\ IsInjective(c.listing)
       /\ \A p, q \in Paths :
            c.disk[p].kind = "test output" /\ c.disk[q].kind = "test output" => p = q
  /\ MaxIterations \in Nat \ {0}

VARIABLES
  config,    \* the run being analysed
  pc,        \* where the engine is
  artifacts, \* the paths the walk has listed
  anomalies, \* the lines of test_output.log with an error marker, bare or redacted
  parsing,   \* JUnit files whose goroutine has not sent yet
  waiting,   \* JUnit files whose goroutine is not done yet (wg)
  channel,   \* what the goroutines have sent and the engine has not received
  suites,    \* the files whose suites were received, in that order
  krkn,      \* the summary of a Kraken run
  conv,      \* the conversation: prompt, calls and answers
  rounds,    \* requests sent
  queue,     \* calls of the last reply, not yet executed
  calls,     \* all calls the model made
  content,   \* the text of the last reply
  summary,   \* what llm-analysis/summary.yaml holds of this run
  message    \* the notice that was posted

vars == << config, pc, artifacts, anomalies, parsing, waiting, channel, suites,
           krkn, conv, rounds, queue, calls, content, summary, message >>
collected == << artifacts, anomalies, parsing, waiting, channel, suites, krkn >>
talk == << conv, rounds, queue, calls, content >>

Nothing == [of |-> "nothing"]

Init ==
  /\ config \in Configs
  /\ pc = "new"
  /\ artifacts = << >> /\ anomalies = Nothing
  /\ parsing = {} /\ waiting = {} /\ channel = << >> /\ suites = << >> /\ krkn = NoSummary
  /\ conv = << >> /\ rounds = 0 /\ queue = << >> /\ calls = << >> /\ content = "none"
  /\ summary = Nothing /\ message = Nothing

Tests == config.engine = "tests"

----------------------------------------------------------------------------
(* The engine gives up: Run returns an error.  For a test run the failure  *)
(* notice is posted all the same, and speaks of no analysis; the Kraken    *)
(* command just logs the error.                                            *)
Fail ==
  /\ pc' = IF Tests THEN "report" ELSE "over"
  /\ content' = "skipped"

\* New: the aggregator with its sanitizer, if it is given one, and the client;
\* of the Kraken engine only the client.
TestEngineBuilt == config.sanitizer # "broken" /\ config.key
KrknEngineBuilt == config.key

NewEngine ==
  /\ pc = "new"
  /\ IF IF Tests THEN TestEngineBuilt ELSE KrknEngineBuilt
       THEN pc' = "collect" /\ UNCHANGED content
       ELSE Fail
  /\ UNCHANGED << config, collected, conv, rounds, queue, calls, summary, message >>

----------------------------------------------------------------------------
(* Aggregator.Collect *)

File(path) == config.disk[path]

\* collectLogArtifacts.  A test run leaves out hidden directories, and with a
\* hidden report directory everything.
ListedByTests(path) == config.dir = "plain" /\ File(path).hidden # "directory"

\* A Kraken run leaves out hidden files, pictures and tables.
ListedByKrkn(path) == File(path).hidden # "file" /\ File(path).kind \notin {"png", "csv"}

CollectLogArtifacts ==
  Kept(config.listing,
       {i \in DOMAIN config.listing : IF Tests THEN ListedByTests(config.listing[i])
                                      ELSE ListedByKrkn(config.listing[i])})

\* extractErrorsFromLogFile and the sanitizer the engine may have.  A text
\* that is too large for it goes into the prompt as it is.
TestOutputLog ==
  {path \in ToSet(config.listing) : File(path).kind = "test output" /\ File(path).readable}

CollectLogAnomalies ==
  IF TestOutputLog = {} THEN Nothing
  ELSE LET lines == File(CHOOSE path \in TestOutputLog : TRUE).lines
           marked == Kept([n \in DOMAIN lines |-> n], Marked(lines))
       IN  [of |-> "test output", lines |-> marked, raw |-> config.sanitizer # "large"]

JUnitFiles == {path \in ToSet(CollectLogArtifacts) : File(path).kind = "junit"}

CollectTests ==
  /\ pc = "collect" /\ Tests /\ config.dir # "absent"
  /\ artifacts' = CollectLogArtifacts
  /\ anomalies' = CollectLogAnomalies
  /\ parsing' = JUnitFiles /\ waiting' = JUnitFiles
  /\ pc' = "junit"
  /\ UNCHANGED << config, channel, suites, krkn, talk, summary, message >>

\* The tables first, then the artifacts.  A table that cannot be read is
\* noted in the log and leaves its part of the summary empty.
CollectKrkn ==
  /\ pc = "collect" /\ ~Tests /\ config.dir # "absent"
  /\ artifacts' = CollectLogArtifacts
  /\ LET scenarios == Scenarios(config.rows)
     IN  \E rank \in Rankings(scenarios) :
           krkn' = ProcessScenarios(scenarios, rank)
  /\ pc' = "prompt"
  /\ UNCHANGED << config, anomalies, parsing, waiting, channel, suites, talk, summary, message >>

NoDirectory ==
  /\ pc = "collect" /\ config.dir = "absent"
  /\ Fail
  /\ UNCHANGED << config, collected, conv, rounds, queue, calls, summary, message >>

----------------------------------------------------------------------------
(* collectTestResults *)

\* A goroutine parses its file and sends what it found, be it an error.
ParseJUnit(path) ==
  /\ pc = "junit" /\ path \in parsing
  /\ parsing' = parsing \ {path}
  /\ channel' = Append(channel, path)
  /\ UNCHANGED << config, pc, artifacts, anomalies, waiting, suites, krkn,
                  talk, summary, message >>

\* Then it is done (wg.Done).  Seeded fault: only if the file could be parsed.
DoneIfParsed(path) == IF File(path).readable THEN waiting \ {path} ELSE waiting
Done(path) == waiting \ {path}

Finish(path) ==
  /\ pc = "junit" /\ path \in waiting \ parsing
  /\ waiting' = Done(path)
  /\ UNCHANGED << config, pc, artifacts, anomalies, parsing, channel, suites, krkn,
                  talk, summary, message >>

\* The engine receives; a file that could not be parsed is skipped.
Receive ==
  /\ pc = "junit" /\ channel # << >>
  /\ channel' = Tail(channel)
  /\ LET path == Head(channel)
     IN  suites' = IF File(path).readable THEN Append(suites, path) ELSE suites
  /\ UNCHANGED << config, pc, artifacts, anomalies, parsing, waiting, krkn,
                  talk, summary, message >>

\* The channel is closed once all goroutines are done (wg.Wait), and the
\* engine leaves its loop when the channel is closed and empty.
\* Seeded fault: the channel is closed as soon as it is empty.
ClosedEarly == TRUE
Closed == waiting = {}

AllReceived ==
  /\ pc = "junit" /\ channel = << >> /\ Closed
  /\ pc' = "prompt"
  /\ UNCHANGED << config, collected, talk, summary, message >>

\* The tests received with this status: the suite's place and the test's in it.
TestsOf(status) ==
  UNION {{k} \X {i \in DOMAIN File(suites[k]).tests : File(suites[k]).tests[i] = status} :
         k \in DOMAIN suites}

Tally == [status \in Statuses |-> Cardinality(TestsOf(status))]

----------------------------------------------------------------------------
(* Run: the prompt *)

\* The template names the failed tests only if some test failed outright:
\* tests that ended in an error alone are counted but not named.
FailedTests ==
  IF TestsOf("failed") = {} THEN {}
  ELSE {<< suites[t[1]], t[2] >> : t \in TestsOf("failed") \cup TestsOf("error")}

TestPrompt == [role |-> "prompt", artifacts |-> artifacts, anomalies |-> anomalies,
               tally |-> Tally, failed |-> FailedTests]
KrknPrompt == [role |-> "prompt", artifacts |-> artifacts, krkn |-> krkn]

\* The rendered prompt is the first content of the conversation.
Analyze ==
  /\ pc = "prompt"
  /\ conv' = << IF Tests THEN TestPrompt ELSE KrknPrompt >>
  /\ pc' = "ask"
  /\ UNCHANGED << config, collected, rounds, queue, calls, content, summary, message >>

----------------------------------------------------------------------------
(* handleConversationWithTools *)

\* GenerateContent, extractCandidate and processCandidateParts.
GenerateContent(reply) ==
  /\ pc = "ask"
  /\ rounds' = rounds + 1
  /\ IF reply.came # "answer"
       THEN Fail /\ UNCHANGED << queue, calls >>
       ELSE /\ content' = reply.content
            /\ queue' = reply.calls
            /\ calls' = calls \o reply.calls
            /\ pc' = IF reply.calls = << >> THEN "write" ELSE "tools"
  /\ UNCHANGED << config, collected, conv, summary, message >>

\* Seeded fault: an answer that is an error is left out of the conversation.
TurnWithoutErrors(call, answer) ==
  IF \E path \in DOMAIN answer.pages : answer.pages[path].error
    THEN << [role |-> "call", call |-> call] >>
    ELSE << [role |-> "call", call |-> call], [role |-> "answer", pages |-> answer.pages] >>
Turn(call, answer) ==
  << [role |-> "call", call |-> call], [role |-> "answer", pages |-> answer.pages] >>

\* One call of processFunctionCalls.  A refused call ends the analysis.
HandleToolCall ==
  /\ pc = "tools" /\ queue # << >>
  /\ LET answer == Execute(Head(queue), artifacts, config.disk)
     IN  IF answer.refused
           THEN Fail /\ UNCHANGED << conv, queue >>
           ELSE /\ conv' = conv \o Turn(Head(queue), answer)
                /\ queue' = Tail(queue)
                /\ UNCHANGED << pc, content >>
  /\ UNCHANGED << config, collected, rounds, calls, summary, message >>

\* After the last round the text that came with the calls is the result, and
\* their answers are never sent.
NextRound == IF rounds = MaxIterations THEN "write" ELSE "ask"

CallsHandled ==
  /\ pc = "tools" /\ queue = << >>
  /\ pc' = NextRound
  /\ UNCHANGED << config, collected, talk, summary, message >>

----------------------------------------------------------------------------
(* WriteSummary, and the end of Run *)

TestSummary == [of |-> "tests", content |-> content, calls |-> calls]
KrknSummary == [of |-> "krkn", content |-> content, scenarios |-> krkn]

\* The file is written, or cannot be: then the analysis is lost.
WriteSummary ==
  /\ pc = "write"
  /\ \/ /\ summary' = IF Tests THEN TestSummary ELSE KrknSummary
        /\ pc' = IF Tests THEN "report" ELSE "over"
        /\ UNCHANGED content
     \/ Fail /\ UNCHANGED summary
  /\ UNCHANGED << config, collected, conv, rounds, queue, calls, message >>

----------------------------------------------------------------------------
(* SlackReporter.Report *)

\* buildWorkflowPayload: links to the uploaded artifacts if there are any,
\* else the log itself.
Logs ==
  IF config.links THEN "links"
  ELSE IF config.dir = "absent" \/ TestOutputLog = {} THEN "no logs"
  ELSE "log"

\* The text of the log in a notice that carries it.
LogField ==
  EnforceFieldLimit(TestOutput(File(CHOOSE path \in TestOutputLog : TRUE).lines))

BuildWorkflowPayload ==
  [of |-> "notice", analysis |-> BuildAnalysisField(content), logs |-> Logs]

\* The notice is posted, or the webhook refuses it or does not answer in time.
Report ==
  /\ pc = "report"
  /\ \/ message' = BuildWorkflowPayload
     \/ UNCHANGED message
  /\ pc' = "over"
  /\ UNCHANGED << config, collected, talk, summary >>

----------------------------------------------------------------------------
Next ==
  \/ NewEngine
  \/ CollectTests \/ CollectKrkn \/ NoDirectory
  \/ \E path \in Paths : ParseJUnit(path) \/ Finish(path)
  \/ Receive \/ AllReceived
  \/ Analyze
  \/ \E reply \in config.replies : GenerateContent(reply)
  \/ HandleToolCall \/ CallsHandled
  \/ WriteSummary
  \/ Report

\* The engine and its goroutines go on; a request comes to an end, if only in
\* an error.
Spec == Init /\ [][Next]_vars /\ WF_vars(Next)

(***************************************************************************)
(* Properties                                                              *)
(***************************************************************************)

\* What the tool owes for one file of a call: an error, or all lines in the
\* range and no other, in order, redacted unless the call asked otherwise.
Owed(spec, sanitize) ==
  LET lines == File(spec.path).lines
      wanted == {n \in DOMAIN lines : /\ spec.start # Unset => n >= spec.start
                                      /\ spec.stop # Unset => n <= spec.stop}
  IN  IF \/ ~File(spec.path).readable
         \/ \E n \in DOMAIN lines : /\ lines[n].size >= ScanLimit
                                    /\ spec.stop # Unset => n <= spec.stop + 1
        THEN ErrorPage
        ELSE Page([k \in 1 .. Cardinality(wanted) |->
               [line |-> CHOOSE n \in wanted : Cardinality({m \in wanted : m <= n}) = k,
                raw |-> sanitize = FALSE]])

\* Whenever the model is asked again it sees, after the prompt, every call it
\* made so far, each followed at once by its answer; and the answer gives each
\* file of the call in full, unless the call names that file again further on.
AnsweredInFull ==
  (pc = "ask" /\ conv # << >>) =>
    /\ Len(conv) = 1 + 2 * Len(calls)
    /\ \A i \in DOMAIN calls :
         LET call == calls[i] IN
         /\ conv[2 * i] = [role |-> "call", call |-> call]
         /\ conv[2 * i + 1].role = "answer"
         /\ \A k \in DOMAIN call.files :
              \/ conv[2 * i + 1].pages[call.files[k].path] = Owed(call.files[k], call.sanitize)
              \/ \E later \in DOMAIN call.files :
                   later > k /\ call.files[later].path = call.files[k].path

\* The prompt tells the model all that the artifacts tell: every test of every
\* JUnit file that could be parsed is in the tally, in whatever order the
\* goroutines sent; if a test failed all failed tests are named; and every line
\* of the log with an error marker is there.
TestsTold(prompt) ==
  LET parsed == {path \in ToSet(prompt.artifacts) :
                   File(path).kind = "junit" /\ File(path).readable}
      ended(path, status) == {i \in DOMAIN File(path).tests : File(path).tests[i] = status}
  IN  /\ \A status \in Statuses :
           prompt.tally[status] =
             MapThenSumSet(LAMBDA path : Cardinality(ended(path, status)), parsed)
      /\ prompt.tally["failed"] > 0 =>
           prompt.failed = UNION {{path} \X (ended(path, "failed") \cup ended(path, "error")) :
                                  path \in parsed}
      /\ \A path \in TestOutputLog :
           ToSet(prompt.anomalies.lines) = Marked(File(path).lines)

\* Of a Kraken run every row that could be read is counted once; the best are
\* scenarios that did not fail, with none fitter left out, and the first of
\* them has the fitness the summary calls the highest.
ScenariosTold(k) ==
  LET rows == {i \in DOMAIN config.rows : config.rows[i].read = "well"}
      succeeded == {i \in rows : ~config.rows[i].scenario.failed}
      fitness(i) == config.rows[i].scenario.fitness
  IN  /\ k.total = Cardinality(rows) /\ k.succeeded = Cardinality(succeeded)
      /\ Len(k.failed) = Cardinality(rows \ succeeded)
      /\ Len(k.top) = Min({TopCount, Cardinality(succeeded)})
      /\ \A t \in DOMAIN k.top :
           /\ ~k.top[t].failed
           /\ Cardinality({i \in succeeded : fitness(i) > k.top[t].fitness}) < t
           /\ Cardinality({u \in DOMAIN k.top : k.top[u] = k.top[t]})
                <= Cardinality({i \in succeeded : config.rows[i].scenario = k.top[t]})
      /\ k.top # << >> => \A i \in succeeded : fitness(i) <= k.best
      /\ \A i \in rows : config.rows[i].scenario.gen < k.generations

\* The two together: what the first message of the conversation says.
PromptTells ==
  conv # << >> => IF Tests THEN TestsTold(conv[1]) ELSE ScenariosTold(conv[1].krkn)

\* A notice that carries the log shows where it failed.  It fits the field.
\* Of a log that was not cut a marked line is missing only behind MaxBlocks
\* others, each at least BlockLines before the next.  The first marked line of
\* a long log is there even in a cut one, if it and its context fit at all.
FailuresShown ==
  (message.of = "notice" /\ message.logs = "log") =>
    LET field == LogField
        log == File(CHOOSE path \in TestOutputLog : TRUE).lines
        shown == {p.line : p \in ToSet(field.text)}
        lines == Min({ContextLines + 1, Min(Marked(log))})
        before == [n \in 1 .. lines |-> Piece(log, Min(Marked(log)) - lines + n, TRUE)]
    IN  /\ field.size <= Limit
        /\ ~field.cut => \A n \in Marked(log) \ shown :
             \E others \in kSubset(MaxBlocks, {m \in Marked(log) : m + BlockLines <= n}) :
               \A l, m \in others : l < m => l + BlockLines <= m
        /\ (Marked(log) # {} /\ Len(log) > Threshold
              /\ WordingSize + Size(before) <= Limit - Reserve)
             => Min(Marked(log)) \in shown

\* The analysis ends, whatever the model replies.
AnalysisEnds == <>(pc = "over")
=============================================================================
