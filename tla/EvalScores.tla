----------------------------- MODULE EvalScores -----------------------------
(****************************************************************************)
(* The arithmetic of eval/run_eval.py, check_threshold.py and cost_eval.py. *)
(*                                                                          *)
(* A score of 1.0 is Whole, which 1, 2 and 3 criteria divide; sums are      *)
(* exact where Python adds floats.  The floats matter only when the exact   *)
(* values are equal, where the rounding of the sum decides the comparison:  *)
(* AtLeast and Rounded give every outcome that may have.                    *)
(****************************************************************************)
EXTENDS Integers, Sequences, FiniteSets, Functions

Whole == 60

\* THRESHOLDS of the categories and overall.
Thresholds == [faq |-> 42, tool_calling |-> 42, edge_case |-> 36, adversarial |-> 36]
OverallThreshold == 42

\* The outcomes of x >= y for a computed x.
AtLeast(x, y) == {b \in BOOLEAN : (b => x >= y) /\ (~b => x <= y)}

\* The outcomes of round(num / den).
Rounded(num, den) ==
    {k \in {num \div den, num \div den + 1} :
        2 * k * den <= 2 * num + den /\ 2 * num - den <= 2 * k * den}

----------------------------------------------------------------------------
(* One test case *)

\* Mutated form of ToolAccuracy: an expected tool that was not called is forgiven
\* if no other was called either.
ToolAccuracyLenient(expected, tools) == tools \ {"search_faq"} \subseteq expected

\* Where no tool is expected, looking into the FAQ is no mistake.
ToolAccuracy(expected, tools) ==
    IF expected = {} THEN tools \subseteq {"search_faq"} ELSE expected \subseteq tools

\* What the judge gives the criteria it knows.  Nothing keeps a mark between 0 and 1; a
\* criterion it leaves out gets 0, and all do if its answer is no JSON.
JudgeScores(criteria, marks) ==
    [criteria \cap {"faithfulness", "relevance"} -> marks \cup {0}]

\* Mutated form of Average: the sum is divided by the number of criteria the judge
\* knows.
AverageOfJudged(f) ==
    LET judged == DOMAIN f \ {"tool_accuracy"}
    IN  IF judged = {} THEN 0 ELSE SumFunction(f) \div Cardinality(judged)

\* A case without any score gets 0.
Average(f) == IF f = << >> THEN 0 ELSE SumFunction(f) \div Cardinality(DOMAIN f)

\* The possible scores of a case: their average, and whether the judge stayed in its
\* range.  It is asked only where there is a reference answer.
CaseScores(case, tools, marks) ==
    LET accuracy == IF ToolAccuracy(case.expected, tools) THEN Whole ELSE 0
        judgements == IF case.reference THEN JudgeScores(case.criteria, marks) ELSE {<< >>}
    IN  {[score |-> Average([c \in (case.criteria \cap {"tool_accuracy"}) \cup DOMAIN llm |->
                                 IF c = "tool_accuracy" THEN accuracy ELSE llm[c]]),
          inRange |-> Range(llm) \subseteq 0..Whole] : llm \in judgements}

----------------------------------------------------------------------------
(* All cases of a run; r is the sequence of their results *)

Of(r, category) == {i \in DOMAIN r : r[i].category = category}

SumOf(r, cases) == SumFunctionOnSet([i \in DOMAIN r |-> r[i].score], cases)

\* Mutated form of Overalls: rounded to one digit.
OverallsCoarse(r) ==
    {100 * k : k \in Rounded(10 * SumOf(r, DOMAIN r), Whole * Len(r))}

\* quality.overall of the summary, in thousandths.
Overalls(r) == Rounded(1000 * SumOf(r, DOMAIN r), Whole * Len(r))

\* The exit code of run_eval.py.
ExitCodes(r) == AtLeast(SumOf(r, DOMAIN r), OverallThreshold * Len(r))

\* check_threshold: a category without a case has the average 0.0.
CategoryPasses(r, category) ==
    LET cases == Of(r, category)
    IN  IF cases = {} THEN {FALSE}
        ELSE AtLeast(SumOf(r, cases), Thresholds[category] * Cardinality(cases))

GateMayPass(r) ==
    /\ \A category \in DOMAIN Thresholds : TRUE \in CategoryPasses(r, category)
    /\ TRUE \in ExitCodes(r)

GateMayFail(r) ==
    \/ \E category \in DOMAIN Thresholds : FALSE \in CategoryPasses(r, category)
    \/ FALSE \in ExitCodes(r)

\* Mutated form of Percentile: the list is taken as it comes.
PercentileUnsorted(values, percent) ==
    LET k == (Len(values) - 1) * percent
        f == 1 + k \div 100
        c == IF f < Len(values) THEN f + 1 ELSE f
    IN  IF values = << >> THEN 0
        ELSE 100 * values[f] + (values[c] - values[f]) * (k % 100)

\* The k-th of the values in ascending order.
Ranked(values, k) ==
    CHOOSE v \in Range(values) :
        /\ Cardinality({i \in DOMAIN values : values[i] < v}) < k
        /\ k <= Cardinality({i \in DOMAIN values : values[i] <= v})

\* The percentile of the latencies by linear interpolation, in hundredths.
Percentile(values, percent) ==
    LET k == (Len(values) - 1) * percent
        f == 1 + k \div 100
        c == IF f < Len(values) THEN f + 1 ELSE f
        low == Ranked(values, f)
    IN  IF values = << >> THEN 0
        ELSE 100 * low + (Ranked(values, c) - low) * (k % 100)

\* Whether the quality of a summary may count as no worse than before.
RegressionOk(before, after) == AtLeast(after.quality + 50, before.quality)

=============================================================================
