---------------------------- MODULE MCEvaluation ----------------------------
(* One case of each category, like those of eval/golden_qa.json. *)
EXTENDS Evaluation

MCGolden ==
    LET Case(category, criteria, expected) ==
            [category |-> category, criteria |-> criteria, expected |-> expected,
             reference |-> TRUE]
    IN  << Case("faq", {"faithfulness", "relevance"}, {"search_faq"}),
           Case("tool_calling", {"tool_accuracy", "relevance"}, {"refund_calculator"}),
           Case("edge_case", {"relevance"}, {}),
           Case("adversarial", {"relevance"}, {}) >>

MCTools == {"search_faq", "refund_calculator"}
\* The threshold of faq and tool_calling; twice the range where the tool counts as well.
MCMarks == <<{42}, {42, 120}, {42}, {42}>>
\* The second case is faster or slower than the two that take the same time.
MCLatencies == <<{4}, {1, 3}, {2}, {2}>>
MCEarlier == [quality |-> 700, sum |-> 168]
=============================================================================
