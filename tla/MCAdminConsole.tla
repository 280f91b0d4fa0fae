--------------------------- MODULE MCAdminConsole ---------------------------
(* Two admins; the polls of t1 overlap. *)
EXTENDS AdminConsole

CONSTANTS t1, t2

MCFetches == [t \in Tabs |-> IF t = t1 THEN {1, 2} ELSE {1}]
=============================================================================
