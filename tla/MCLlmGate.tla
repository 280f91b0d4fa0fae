----------------------------- MODULE MCLlmGate -----------------------------
(* LlmGate on four handlers and two permits. *)
EXTENDS LlmGate
============================================================================
