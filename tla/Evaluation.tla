----------------------------- MODULE Evaluation -----------------------------
(****************************************************************************)
(* The evaluation commands of eval/: run_eval.py measures the agent and     *)
(* writes results.json and baseline-summary.json, check_threshold.py judges *)
(* results.json, and cost_eval.py compares a new run with the baseline,     *)
(* which run_evaluation overwrites under it and which it has to restore.    *)
(*                                                                          *)
(* One command runs at a time.  It may die at every step, and the file it   *)
(* is then writing is left truncated.                                       *)
(****************************************************************************)
EXTENDS EvalScores

CONSTANTS
    Golden,                 \* the cases: category, criteria, expected, reference
    Tools,
    Marks, Latencies,       \* what each case may get from the judge, and the times it may take
    MaxCommands,            \* bound on the commands started
    Earlier,                \* a baseline measured before
    Missing, Torn, Legacy   \* no file, a truncated one, one without the sections

\* A summary: quality.overall in thousandths, and the exact total of the scores, which
\* stands for by_category.  The quality is that total divided by the number of cases.
Measured ==
    {m \in [quality : Int, sum : Int] :
        m.quality \in Rounded(1000 * m.sum, Whole * Len(Golden))}

ASSUME EvaluationAssumption ==
    /\ Golden \in Seq([category : DOMAIN Thresholds, criteria : SUBSET STRING,
                       expected : SUBSET Tools, reference : BOOLEAN])
    /\ Len(Golden) > 0
    \* The tool_calling cases of eval/golden_qa.json name a tool and are scored for it.
    /\ \A i \in 1..Len(Golden) :
           Golden[i].category = "tool_calling" =>
               "tool_accuracy" \in Golden[i].criteria /\ Golden[i].expected # {}
    \* The judge may write any number.
    /\ Marks \in [1..Len(Golden) -> SUBSET Int]
    /\ Latencies \in [1..Len(Golden) -> SUBSET Nat]
    /\ Earlier \in Measured
    /\ MaxCommands \in Nat

VARIABLES
    file,       \* what is on disk
    cmd, pc,    \* the command that runs, and the file it wrote last
    agent,      \* whether initialize_rag built an agent
    scored,     \* the results so far
    kept,       \* the baseline in the memory of cost_eval
    exit,       \* how the last command ended
    original,   \* the baseline that the last complete run_eval measured
    lost,       \* whether a crash since then caught a command that was replacing it
    commands

vars == <<file, cmd, pc, agent, scored, kept, exit, original, lost, commands>>

Summaries(r) ==
    {[quality |-> q, sum |-> SumOf(r, DOMAIN r)] : q \in Overalls(r)}

Init ==
    /\ original \in {Missing, Legacy, Earlier}
    /\ file = [results |-> Missing, baseline |-> original, after |-> Missing,
               comparison |-> Missing]
    /\ cmd = "none" /\ pc = "idle" /\ exit = "none"
    /\ agent = FALSE
    /\ scored = << >>
    /\ kept = Missing
    /\ lost = FALSE
    /\ commands = 0

\* The process is gone, and with it what it had in memory.
End ==
    /\ cmd' = "none" /\ pc' = "idle"
    /\ agent' = FALSE
    /\ scored' = << >>
    /\ kept' = Missing
    /\ UNCHANGED commands

Write(name, content) == file' = [file EXCEPT ![name] = content]

Baseline == <<original, lost>>

----------------------------------------------------------------------------
(* The commands start *)

StartCommand(c) ==
    /\ pc = "idle"
    /\ commands < MaxCommands
    /\ commands' = commands + 1
    /\ cmd' = c /\ pc' = "scoring"
    /\ exit' = "none"
    /\ agent' \in BOOLEAN
    /\ UNCHANGED <<file, scored, Baseline>>

RunEval == StartCommand("run_eval") /\ UNCHANGED kept

\* _load_baseline raises when there is no baseline or it is no JSON.
CostEval ==
    /\ file.baseline \notin {Missing, Torn}
    /\ StartCommand("cost_eval")
    /\ kept' = file.baseline

CostEvalRaises ==
    /\ pc = "idle"
    /\ file.baseline \in {Missing, Torn}
    /\ exit' = "error"
    /\ UNCHANGED <<file, cmd, pc, agent, scored, kept, Baseline, commands>>

CheckThreshold ==
    /\ pc = "idle"
    /\ \/ file.results = Missing /\ exit' = "1"
       \/ file.results = Torn /\ exit' = "error"
       \/ /\ file.results \notin {Missing, Torn}
          /\ \/ GateMayPass(file.results.cases) /\ exit' = "0"
             \/ GateMayFail(file.results.cases) /\ exit' = "1"
    /\ UNCHANGED <<file, cmd, pc, agent, scored, kept, Baseline, commands>>

----------------------------------------------------------------------------
(* run_evaluation *)

AllScored == Len(scored) = Len(Golden)

\* Without an agent every answer is the same, no tool is called and nothing is timed.
EvaluateTestCase ==
    /\ pc = "scoring"
    /\ ~AllScored
    /\ LET i == Len(scored) + 1
           case == Golden[i]
       IN  \E tools \in IF agent THEN SUBSET Tools ELSE {{}},
              latency \in IF agent THEN Latencies[i] ELSE {0} :
              \E result \in CaseScores(case, tools, Marks[i]) :
                  scored' = Append(scored, [category |-> case.category,
                                            score |-> result.score,
                                            inRange |-> result.inRange,
                                            latency |-> latency])
    /\ UNCHANGED <<file, cmd, pc, agent, kept, exit, Baseline, commands>>

\* initialize_rag, the agent, the judge or an invalid case raises.
EvaluationRaises ==
    /\ pc = "scoring"
    /\ ~AllScored
    /\ End
    /\ exit' = "error"
    /\ UNCHANGED <<file, Baseline>>

WriteResults ==
    /\ pc = "scoring"
    /\ AllScored
    /\ Write("results", [cases |-> [i \in DOMAIN scored |-> [category |-> scored[i].category,
                                                             score |-> scored[i].score,
                                                             inRange |-> scored[i].inRange]],
                         agent |-> agent])
    /\ pc' = "results"
    /\ UNCHANGED <<cmd, agent, scored, kept, exit, Baseline, commands>>

\* run_eval.py ends with the new baseline.
WriteBaseline ==
    /\ pc = "results"
    /\ cmd = "run_eval"
    /\ \E s \in Summaries(scored) : Write("baseline", s) /\ original' = s
    /\ lost' = FALSE
    /\ \E passed \in ExitCodes(scored) : exit' = IF passed THEN "0" ELSE "1"
    /\ End

----------------------------------------------------------------------------
(* The rest of cost_eval.py *)

OverwriteBaseline ==
    /\ pc = "results"
    /\ cmd = "cost_eval"
    /\ \E s \in Summaries(scored) : Write("baseline", s)
    /\ pc' = "baseline"
    /\ UNCHANGED <<cmd, agent, scored, kept, exit, Baseline, commands>>

\* Mutated form of WriteAfter: the baseline was restored before it is read as the
\* new result.
WriteAfterRestored ==
    /\ pc = "baseline"
    /\ Write("after", IF kept = Legacy THEN file.baseline ELSE kept)
    /\ pc' = "after"
    /\ UNCHANGED <<cmd, agent, scored, kept, exit, Baseline, commands>>

WriteAfter ==
    /\ pc = "baseline"
    /\ Write("after", file.baseline)
    /\ pc' = "after"
    /\ UNCHANGED <<cmd, agent, scored, kept, exit, Baseline, commands>>

\* Mutated form of Restore: the comparison, which refuses a legacy baseline, comes
\* before the restoration.
RestoreComparable ==
    /\ pc = "after"
    /\ IF kept = Legacy THEN UNCHANGED file ELSE Write("baseline", kept)
    /\ pc' = "restored"
    /\ UNCHANGED <<cmd, agent, scored, kept, exit, Baseline, commands>>

Restore ==
    /\ pc = "after"
    /\ Write("baseline", kept)
    /\ pc' = "restored"
    /\ UNCHANGED <<cmd, agent, scored, kept, exit, Baseline, commands>>

\* The after of the comparison is the object that WriteAfter wrote.
Compare ==
    /\ pc = "restored"
    /\ kept # Legacy
    /\ \E ok \in RegressionOk(kept, file.after) :
           /\ Write("comparison", [before |-> kept.quality, after |-> file.after.quality, ok |-> ok])
           /\ exit' = IF ok THEN "0" ELSE "1"
    /\ End
    /\ UNCHANGED Baseline

CompareRaises ==
    /\ pc = "restored"
    /\ kept = Legacy
    /\ exit' = "error"
    /\ End
    /\ UNCHANGED <<file, Baseline>>

----------------------------------------------------------------------------
(* The process dies *)

Crash ==
    /\ pc # "idle"
    /\ End
    /\ exit' = "none"
    /\ lost' = (lost \/ pc \in {"baseline", "after"})
    /\ UNCHANGED <<file, original>>

\* What each step is about to write.
Target == [scoring |-> "results", results |-> "baseline", baseline |-> "after",
           after |-> "baseline", restored |-> "comparison"]

CrashWriting ==
    /\ pc # "idle"
    /\ pc = "scoring" => AllScored
    /\ pc = "restored" => kept # Legacy
    /\ Write(Target[pc], Torn)
    /\ End
    /\ exit' = "none"
    /\ lost' = (lost \/ pc \in {"results", "baseline", "after"})
    /\ UNCHANGED original

----------------------------------------------------------------------------

Next ==
    \/ RunEval
    \/ CostEval
    \/ CostEvalRaises
    \/ CheckThreshold
    \/ EvaluateTestCase
    \/ EvaluationRaises
    \/ WriteResults
    \/ WriteBaseline
    \/ OverwriteBaseline
    \/ WriteAfter
    \/ Restore
    \/ Compare
    \/ CompareRaises
    \/ Crash
    \/ CrashWriting

Spec == Init /\ [][Next]_vars

----------------------------------------------------------------------------
(* Properties *)

\* The average of a case is between 0.0 and 1.0 if the marks of the judge were.
StaysInRange(results) ==
    \A i \in DOMAIN results : results[i].inRange => results[i].score \in 0..Whole

\* The types of the files and of the memory, and that the average of a case leaves the
\* range 0.0 to 1.0 only after the judge did.
TypeOK ==
    /\ file.results \in {Missing, Torn} \cup
           [cases : Seq([category : DOMAIN Thresholds, score : Int, inRange : BOOLEAN]),
            agent : BOOLEAN]
    /\ file.results \notin {Missing, Torn} => StaysInRange(file.results.cases)
    /\ {file.baseline, file.after, kept, original} \subseteq {Missing, Torn, Legacy} \cup Measured
    /\ file.comparison \in {Missing, Torn} \cup
           [before : Int, after : Int, ok : BOOLEAN]
    /\ cmd \in {"none", "run_eval", "cost_eval"}
    /\ pc \in {"idle"} \cup DOMAIN Target
    /\ scored \in Seq([category : DOMAIN Thresholds, score : Int, inRange : BOOLEAN,
                       latency : Nat])
    /\ StaysInRange(scored)
    /\ agent \in BOOLEAN
    /\ exit \in {"none", "0", "1", "error"}
    /\ lost \in BOOLEAN
    /\ commands \in 0..MaxCommands

\* The docstring of cost_eval.py (line 11) has the original baseline restored, not
\* overwritten.  So it is unless a command died between the write of the new baseline and
\* the end of the restoring one: no exception, refusal or other crash loses it.
BaselineLostOnlyWhileReplaced == pc = "idle" /\ ~lost => file.baseline = original

\* What cost-eval-result.json compares: the baseline of the last run_eval.py (unless it
\* was lost) with the very results this run wrote to results.json, however many runs,
\* failures and crashes came before.
ComparisonIsHonest ==
    [][file'.comparison # file.comparison /\ file'.comparison # Torn =>
           /\ file.after.sum = SumOf(file.results.cases, DOMAIN file.results.cases)
           /\ file'.comparison.after \in Overalls(file.results.cases)
           /\ ~lost => file'.comparison.before = original.quality]_vars

\* regression_ok works on rounded numbers; it never lets a real drop of more than 0.051
\* pass, and never refuses one of less than 0.049.
RegressionToleranceHolds ==
    [][file'.comparison # file.comparison /\ file'.comparison # Torn =>
           LET drop == 1000 * (kept.sum - file.after.sum)
               unit == Whole * Len(Golden)
           IN  IF file'.comparison.ok THEN drop <= 51 * unit ELSE drop >= 49 * unit]_vars

\* In the latency section half of the cases took no longer than p50 and half no less,
\* and p50 <= p95 <= max, in whatever order the cases took their times.
PercentilesAreOrdered ==
    pc = "results" =>
        LET took == [i \in DOMAIN scored |-> 100 * scored[i].latency]
            p50 == Percentile([i \in DOMAIN scored |-> scored[i].latency], 50)
            p95 == Percentile([i \in DOMAIN scored |-> scored[i].latency], 95)
            Half(cases) == 2 * Cardinality(cases) >= Len(scored)
        IN  /\ Half({i \in DOMAIN took : took[i] <= p50})
            /\ Half({i \in DOMAIN took : took[i] >= p50})
            /\ p50 <= p95
            /\ \E i \in DOMAIN took : p95 <= took[i]

\* When initialize_rag returned without an agent the run goes on and writes results, but
\* they do not pass check_threshold.py whatever the judge thinks of the answers, as long
\* as it keeps to 0.0 to 1.0 in the cases that expect a tool.  The prompt asks it to;
\* run_eval.py does not see to it, and with marks beyond 1.0 such results may pass.
NoAgentNeverPasses ==
    LET Kept(results) ==
            \A i \in Of(results, "tool_calling") : results[i].inRange
    IN  file.results \notin {Missing, Torn} /\ ~file.results.agent
            /\ Kept(file.results.cases)
        => ~GateMayPass(file.results.cases)
=============================================================================
