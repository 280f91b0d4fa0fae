-------------------------- MODULE MCOrderAssistant --------------------------
(* Two tabs of one customer on the delivered and the prepared order of seed.sql. *)
EXTENDS OrderAssistant

CONSTANTS s1, s2, A101, C303

Text(ask, id) == [ask |-> ask, order |-> id]

MCSays == [s \in Sessions |->
    IF s = s1 THEN {Text("status", C303), Text("refund", A101), Text("cancel", None)}
    ELSE {Text("cancel", C303)}]

MCTexts == UNION {MCSays[s] : s \in Sessions}

MCFirstStatus == [o \in Orders |-> IF o = A101 THEN "delivered" ELSE "preparing"]

MCPrice == [o \in Orders |-> 15]

\* Redis loses messages of the first tab only, and of no tab in the run with the cache alone.
MCPushed == [s \in Sessions |-> IF s = s1 THEN {0, 1, 2} ELSE {2}]

MCPushedWhole == [s \in Sessions |-> {2}]

MCMaxTurns == [s \in Sessions |-> IF s = s1 THEN 2 ELSE 1]

\* The days about the first change of the refund, one more for an entry to lapse, and the
\* last day of the second week.
MCDays == {7, 8, 9, 14}
=============================================================================
