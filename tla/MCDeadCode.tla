----------------------------- MODULE MCDeadCode -----------------------------
(* Instruction kinds for TLC.                                              *)
EXTENDS DeadCode

\* One kind that is never deleted and nobody's operand, and the calls and
\* values that may be deleted or kept for their users.
SomeKinds == {"store", "call_pure", "call_impure"}
=============================================================================
