----------------------------- MODULE MCOrderDesk -----------------------------
(* Three conversations on two order ids. *)
EXTENDS OrderDesk

CONSTANTS v1, v2, v3, A101, C303
==============================================================================
