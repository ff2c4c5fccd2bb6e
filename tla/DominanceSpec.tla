--------------------------- MODULE DominanceSpec ---------------------------
(***************************************************************************)
(* What the dominator computation promises, whatever representation and    *)
(* order it uses: an approximation from above of the dominators of every   *)
(* block, which starts with "every block dominates", loses members in any  *)
(* order, never loses a true dominator, and is settled only when exact.    *)
(***************************************************************************)
EXTENDS FlowGraph

CONSTANT Graphs

VARIABLES succ, approx, settled

vars == <<succ, approx, settled>>

Init ==
  /\ succ \in Graphs
  /\ approx = [b \in Blocks |-> Blocks]
  /\ settled = FALSE

\* Some sets lose members that do not dominate.
Shrink ==
  /\ ~settled /\ ~settled'
  /\ \A b \in Blocks : Doms(succ, b) \subseteq approx'[b] /\ approx'[b] \subseteq approx[b]
  /\ UNCHANGED succ

Settle ==
  /\ \A b \in Blocks : approx[b] = Doms(succ, b)
  /\ settled' = TRUE
  /\ UNCHANGED <<succ, approx>>

Next == Shrink \/ Settle

Spec == Init /\ [][Next]_vars
=============================================================================
