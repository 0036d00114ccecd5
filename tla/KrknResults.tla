---------------------------- MODULE KrknResults ----------------------------
(***************************************************************************)
(* The tables of a Kraken run as the analysis reads them:                  *)
(* src/pkg/krknai/aggregator/aggregator.go.                                *)
(*                                                                         *)
(* A row of reports/all.csv is a scenario that ran: its generation, the    *)
(* kind of chaos, whether Kraken itself failed in it (a negative failure   *)
(* score) and its fitness.  A row may be short, or its ids no numbers; a   *)
(* score that is no number reads as zero, so that such a row counts as a   *)
(* success.                                                                *)
(***************************************************************************)
EXTENDS Integers, Sequences, SequencesExt, FiniteSetsExt

CONSTANTS
  Kinds,        \* kinds of chaos
  Generations,  \* generation ids, counted from 0
  Fitness,      \* fitness scores
  TopCount      \* topScenariosCount

ASSUME ResultsAssumption ==
  /\ Generations \subseteq Nat
  /\ Fitness \subseteq Int
  /\ TopCount \in Nat \ {0}

Scenario == [gen : Generations, kind : Kinds, failed : BOOLEAN, fitness : Fitness]

Row == [read : {"short", "not a number"}] \cup [read : {"well"}, scenario : Scenario]

\* What is at some of the places of a sequence, in the same order.
Kept(seq, places) ==
  LET upTo[n \in 0 .. Len(seq)] ==
        IF n = 0 THEN << >>
        ELSE IF n \in places THEN Append(upTo[n - 1], seq[n]) ELSE upTo[n - 1]
  IN  upTo[Len(seq)]

(* collectScenarioResults and parseScenarioRecord: the rows that can be read *)
Scenarios(rows) ==
  LET readable == Kept(rows, {i \in DOMAIN rows : rows[i].read = "well"})
  IN  [i \in DOMAIN readable |-> readable[i].scenario]

(* sort.Slice by descending fitness: not stable, so any order of equals *)
Rankings(scenarios) ==
  {rank \in [DOMAIN scenarios -> DOMAIN scenarios] :
     /\ \A i, j \in DOMAIN scenarios : i # j => rank[i] # rank[j]
     /\ \A i, j \in DOMAIN scenarios :
          i < j => scenarios[rank[i]].fitness >= scenarios[rank[j]].fitness}

NoSummary == [total |-> 0, succeeded |-> 0, failed |-> << >>, generations |-> 0,
              kinds |-> {}, top |-> << >>, best |-> 0, sum |-> 0]

ProcessScenarios(scenarios, rank) ==
  IF scenarios = << >> THEN NoSummary
  ELSE LET bad == {i \in DOMAIN scenarios : scenarios[i].failed}
           failed == Kept(scenarios, bad)
           succeeded == Kept(scenarios, DOMAIN scenarios \ bad)
           ranked == Kept([i \in DOMAIN rank |-> scenarios[rank[i]]],
                          {i \in DOMAIN rank : rank[i] \notin bad})
           top == SubSeq(ranked, 1, Min({TopCount, Len(ranked)}))
       IN  [total |-> Len(scenarios), succeeded |-> Len(scenarios) - Len(failed),
            failed |-> failed,
            generations |-> Max({s.gen : s \in ToSet(scenarios)}) + 1,
            kinds |-> {s.kind : s \in ToSet(scenarios)},
            top |-> top,
            best |-> IF succeeded # << >> /\ top # << >> THEN top[1].fitness ELSE 0,
            sum |-> FoldSeq(LAMBDA s, sum : s.fitness + sum, 0, succeeded)]
=============================================================================
