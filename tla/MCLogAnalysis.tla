--------------------------- MODULE MCLogAnalysis ---------------------------
\* Four sets of runs, each varying one part of the analysis while the others
\* stay simple: the log that goes into the notice, the JUnit files, the rows of
\* a Kraken run, and the conversation.
EXTENDS LogAnalysis

Normal == [marked |-> FALSE, size |-> 2]
Bad == [marked |-> TRUE, size |-> 2]
Lines(pattern) == [n \in DOMAIN pattern |-> IF pattern[n] THEN Bad ELSE Normal]
Stretch(log, n) == [log EXCEPT ![n].size = 12]

OnDisk(kind, hidden, readable, lines, tests) ==
  [kind |-> kind, hidden |-> hidden, readable |-> readable, lines |-> lines, tests |-> tests]
TheLog(lines) == OnDisk("test output", "no", TRUE, lines, << >>)
JUnit(readable, tests) == OnDisk("junit", "no", readable, << >>, tests)

ShortLog == << Normal, Bad, Normal, Bad, Normal >>
Ghost == OnDisk("other", "directory", TRUE, << Normal >>, << >>)
Disk == [path \in Paths |->
  CASE path = "log"    -> TheLog(ShortLog)
    [] path = "notes"  -> OnDisk("other", "no", TRUE,
                            << Normal, Normal, [marked |-> FALSE, size |-> 20], Normal >>, << >>)
    [] path = "locked" -> OnDisk("other", "no", FALSE, << >>, << >>)
    [] path = "table"  -> OnDisk("csv", "no", TRUE, << Normal >>, << >>)
    [] path = "ghost"  -> Ghost
    [] path = "a.xml"  -> JUnit(TRUE, << "passed", "failed" >>)
    [] path = "b.xml"  -> JUnit(TRUE, << "error", "skipped", "passed" >>)
    [] path = "c.xml"  -> JUnit(FALSE, << "failed" >>)]

Answer(text, asked) == [came |-> "answer", content |-> text, calls |-> asked]
NoReply(came) == [came |-> came, content |-> "none", calls |-> << >>]
Brief == {Answer("json", << >>), NoReply("error")}

Simple == [engine |-> "tests", key |-> TRUE, sanitizer |-> "none", dir |-> "plain",
           listing |-> << "log" >>, disk |-> Disk, rows |-> << >>, links |-> FALSE,
           replies |-> Brief]

\* Logs of up to nine lines, marked anywhere, with one long line or none.
LogRuns ==
  LET logs == UNION {{Lines(p) : p \in [1 .. n -> BOOLEAN]} : n \in {3, 4, 5, 9}}
  IN  {[Simple EXCEPT !.key = FALSE, !.disk["log"] = TheLog(log)] :
         log \in logs \cup {Stretch(log, n) : log \in {l \in logs : Len(l) >= 5}, n \in {1, 3, 5}}}

JUnitRuns ==
  {[Simple EXCEPT !.listing = << "a.xml", "b.xml", "c.xml", "ghost", "log" >>,
                  !.disk["a.xml"] = JUnit(TRUE, << "passed", s >>),
                  !.disk["b.xml"] = JUnit(r, << "error", t, "passed" >>),
                  !.sanitizer = z, !.dir = d] :
     s \in Statuses, t \in Statuses, r \in BOOLEAN, z \in Sanitizers,
     d \in {"plain", "hidden", "absent"}}

Well(s) == [read |-> "well", scenario |-> s]
KrknRuns ==
  LET rows == {Well(s) : s \in Scenario} \cup {[read |-> "short"]}
  IN  {[Simple EXCEPT !.engine = "krkn", !.rows = r] :
         r \in UNION {[1 .. n -> rows] : n \in 0 .. 2} \cup
               {<< Well([gen |-> 0, kind |-> "pod", failed |-> f, fitness |-> a]),
                   Well([gen |-> 1, kind |-> "cpu", failed |-> FALSE, fitness |-> b]),
                   Well([gen |-> 0, kind |-> "cpu", failed |-> g, fitness |-> c]) >> :
                  a \in Fitness, b \in Fitness, c \in Fitness, f \in BOOLEAN, g \in BOOLEAN}}

Spec1(path, start, stop) == [path |-> path, start |-> start, stop |-> stop]
Read(files, sanitize) == [tool |-> "read_file", files |-> files, sanitize |-> sanitize]
Calls == {
  Read(<< Spec1("log", Unset, Unset) >>, Unset),
  Read(<< Spec1("log", 2, 4), Spec1("notes", Unset, 1) >>, TRUE),
  Read(<< Spec1("notes", 2, 2) >>, FALSE),
  Read(<< Spec1("log", 1, 2), Spec1("locked", Unset, Unset), Spec1("log", 4, 9) >>, FALSE),
  Read(<< Spec1("ghost", 1, 1) >>, Unset),
  Read(<< Spec1("log", 0, 1) >>, Unset),
  [tool |-> "other", files |-> << >>, sanitize |-> Unset]}
Fine == {c \in Calls : c.files # << >> /\ \A k \in DOMAIN c.files : c.files[k].path # "ghost"}

TalkRuns ==
  LET replies == {NoReply("error"), NoReply("empty")} \cup
        {Answer(c, asked) : c \in {"json", "none"},
           asked \in {<< >>} \cup {<< c1 >> : c1 \in Calls} \cup {<< c1, c2 >> : c1 \in Fine, c2 \in Fine}}
        \cup {Answer(c, << >>) : c \in {"prose", "broken json"}}
  IN  {[Simple EXCEPT !.listing = << "ghost", "locked", "log", "notes", "table" >>,
                      !.replies = replies, !.links = TRUE, !.engine = e] : e \in {"tests", "krkn"}}

MCConfigs == LogRuns \cup JUnitRuns \cup KrknRuns \cup TalkRuns
=============================================================================
