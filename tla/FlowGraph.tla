----------------------------- MODULE FlowGraph -----------------------------
(***************************************************************************)
(* The control-flow graph of one LightIR function, and what dominance      *)
(* means on it.                                                            *)
(*                                                                         *)
(* A graph is its successor function succ \in [Blocks -> SUBSET Blocks].   *)
(* The branch constructors record every edge at both ends, so the          *)
(* predecessor lists are the inverse of the successor lists; the order of  *)
(* either list is left open.                                               *)
(*                                                                         *)
(* Dominance is defined here from the paths of the graph alone, without    *)
(* any iteration, as the reference the passes are compared with.  Sets     *)
(* closed under the edges take the place of a transitive closure, so that  *)
(* no recursive definition is needed.                                      *)
(***************************************************************************)
EXTENDS FiniteSets

CONSTANTS Blocks,   \* the basic blocks of the function
          Entry     \* its entry block

ASSUME EntryAssumption == Entry \in Blocks

\* A function keeps its blocks in a list.
ASSUME BlocksAssumption == IsFiniteSet(Blocks)

Graph == [Blocks -> SUBSET Blocks]

Preds(succ, b) == {p \in Blocks : b \in succ[p]}

(***************************************************************************)
(* Some path from the entry reaches b without passing through d.           *)
(***************************************************************************)
ClosedAvoiding(succ, S, d) ==
  /\ Entry # d => Entry \in S
  /\ \A a \in S : succ[a] \ {d} \subseteq S

ReachedAvoiding(succ, d, b) ==
  \A S \in SUBSET Blocks : ClosedAvoiding(succ, S, d) => b \in S

Reachable(succ) ==
  {b \in Blocks : \A S \in SUBSET Blocks :
      (Entry \in S /\ \A a \in S : succ[a] \subseteq S) => b \in S}

\* d dominates b: no path from the entry to b avoids d.
Doms(succ, b) == {d \in Blocks : ~ReachedAvoiding(succ, d, b)}

StrictDoms(succ, b) == Doms(succ, b) \ {b}

\* The strict dominator of b that all its other strict dominators dominate.
IDom(succ, b) ==
  CHOOSE d \in StrictDoms(succ, b) :
    \A e \in StrictDoms(succ, b) : e \in Doms(succ, d)

\* a dominates a predecessor of b but does not strictly dominate b.
Frontier(succ, a) ==
  {b \in Reachable(succ) :
      /\ \E p \in Preds(succ, b) \cap Reachable(succ) : a \in Doms(succ, p)
      /\ a \notin StrictDoms(succ, b)}

(***************************************************************************)
(* Preconditions on graphs.  The builder never branches to the entry       *)
(* block.  A dead edge is one from an unreachable block to a reachable     *)
(* one: the builder makes one when both arms of an if inside a loop return,*)
(* since the block after the if then has no predecessor but still branches *)
(* back to the loop test.                                                  *)
(***************************************************************************)
EntryHasNoPreds(succ) == \A b \in Blocks : Entry \notin succ[b]

NoDeadEdge(succ) ==
  \A b \in Reachable(succ) : Preds(succ, b) \subseteq Reachable(succ)
=============================================================================
