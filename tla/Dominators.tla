----------------------------- MODULE Dominators -----------------------------
(***************************************************************************)
(* Dominators::run on one function: a depth-first search numbers the       *)
(* blocks in post order, create_idom iterates over the reversed post order *)
(* until the immediate dominators no longer change, then the dominance     *)
(* frontiers and the dominator tree are read off the result.               *)
(*                                                                         *)
(* Every loop iteration that touches state is a step, the walks of         *)
(* intersect and of create_dominance_frontier included, so that a loop     *)
(* that does not end is a behaviour that does not end.  Successors and     *)
(* predecessors are taken in any order, joins in one fixed order.  An      *)
(* assert is modelled by the program stopping where it fails; AssertsHold  *)
(* says that it never does.                                                *)
(***************************************************************************)
EXTENDS FlowGraph, Integers, Sequences, FiniteSets, SequencesExt

CONSTANTS NoBlock,   \* nullptr
          Graphs     \* the graphs the pass may be given

ASSUME NoBlockAssumption == NoBlock \notin Blocks
ASSUME GraphsAssumption ==
         \A g \in Graphs : g \in Graph /\ EntryHasNoPreds(g)

VARIABLES
  succ,                \* the graph; the pass does not change it
  phase,               \* where run() is
  visited,             \* post_order_visit's visited set
  stack,               \* its call stack, innermost call last
  reverse_post_order,  \* blocks numbered so far, last numbered first
  post_order_id,       \* absent keys of the map read as 0
  pos,                 \* index in reverse_post_order of the block in hand
  changed,             \* the flag of create_idom's outer loop
  new_idom,            \* candidate for the block in hand
  left,                \* its predecessors with an idom not yet intersected
  b1, b2,              \* the two arguments walked up by intersect
  idom,                \* idom_
  walks,               \* <<predecessor, join>> pairs not yet walked
  join, runner,        \* the walk in hand of create_dominance_frontier
  dom_frontier,        \* dom_frontier_, nullptr key included
  dom_tree_succ        \* dom_tree_succ_blocks_, nullptr key included

visitVars == <<visited, stack, reverse_post_order, post_order_id>>
idomVars  == <<pos, changed, new_idom, left, b1, b2, idom>>
outVars   == <<walks, join, runner, dom_frontier, dom_tree_succ>>
vars == <<succ, phase, visitVars, idomVars, outVars>>

BlockOrNull == Blocks \cup {NoBlock}

Phases == {"visit", "scan", "merge", "climb", "frontier", "walk", "done"}

Init ==
  /\ succ \in Graphs
  /\ phase = "visit"
  /\ visited = {Entry} /\ stack = <<Entry>>
  /\ reverse_post_order = <<>>
  /\ post_order_id = [b \in Blocks |-> 0]
  /\ pos = 1 /\ changed = FALSE
  /\ new_idom = NoBlock /\ left = {} /\ b1 = NoBlock /\ b2 = NoBlock
  /\ idom = [b \in BlockOrNull |-> NoBlock]
  /\ walks = {} /\ join = NoBlock /\ runner = NoBlock
  /\ dom_frontier = [b \in BlockOrNull |-> {}]
  /\ dom_tree_succ = [b \in BlockOrNull |-> {}]

-----------------------------------------------------------------------------
(* create_reverse_post_order, post_order_visit *)

\* The recursive call for a successor that has not been visited.
Descend(b) ==
  /\ phase = "visit" /\ stack # <<>>
  /\ b \in succ[Last(stack)] \ visited
  /\ visited' = visited \cup {b}
  /\ stack' = Append(stack, b)
  /\ UNCHANGED <<succ, phase, reverse_post_order, post_order_id, idomVars, outVars>>

\* Faulty variant: numbers that fall as the search returns.
NumberDown ==
  /\ phase = "visit" /\ stack # <<>>
  /\ LET bb == Last(stack) IN
       /\ succ[bb] \subseteq visited
       /\ post_order_id' =
            [post_order_id EXCEPT ![bb] = Cardinality(Blocks) - Len(reverse_post_order)]
       /\ reverse_post_order' = <<bb>> \o reverse_post_order
  /\ stack' = Front(stack)
  /\ UNCHANGED <<succ, phase, visited, idomVars, outVars>>

\* All successors seen: the block gets the next number and the call returns.
Number ==
  /\ phase = "visit" /\ stack # <<>>
  /\ LET bb == Last(stack) IN
       /\ succ[bb] \subseteq visited
       /\ post_order_id' = [post_order_id EXCEPT ![bb] = Len(reverse_post_order)]
       /\ reverse_post_order' = <<bb>> \o reverse_post_order
  /\ stack' = Front(stack)
  /\ UNCHANGED <<succ, phase, visited, idomVars, outVars>>

-----------------------------------------------------------------------------
(* create_idom, intersect *)

\* Faulty variant: the root is not made its own idom.
StartIdomRootless ==
  /\ phase = "visit" /\ stack = <<>>
  /\ phase' = "scan"
  /\ idom' = [b \in BlockOrNull |-> NoBlock]
  /\ pos' = 1 /\ changed' = FALSE
  /\ UNCHANGED <<succ, visitVars, new_idom, left, b1, b2, outVars>>

StartIdom ==
  /\ phase = "visit" /\ stack = <<>>
  /\ phase' = "scan"
  /\ idom' = [b \in BlockOrNull |-> IF b = Entry THEN Entry ELSE NoBlock]
  /\ pos' = 1 /\ changed' = FALSE
  /\ UNCHANGED <<succ, visitVars, new_idom, left, b1, b2, outVars>>

Scanning == phase = "scan" /\ pos <= Len(reverse_post_order)

Ready(b) == {p \in Preds(succ, b) : idom[p] # NoBlock}

SkipRoot ==
  /\ Scanning /\ reverse_post_order[pos] = Entry
  /\ pos' = pos + 1
  /\ UNCHANGED <<succ, phase, visitVars, changed, new_idom, left, b1, b2, idom, outVars>>

\* The first predecessor with an idom; assert(pred) stops the pass without one.
PickPred ==
  /\ Scanning /\ reverse_post_order[pos] # Entry
  /\ \E p \in Ready(reverse_post_order[pos]) :
       /\ new_idom' = p
       /\ left' = Ready(reverse_post_order[pos]) \ {p}
  /\ phase' = "merge"
  /\ UNCHANGED <<succ, visitVars, pos, changed, b1, b2, idom, outVars>>

\* Call intersect(p, new_idom) for another predecessor with an idom.
CallIntersect ==
  /\ phase = "merge"
  /\ \E p \in left :
       /\ left' = left \ {p}
       /\ b1' = p
  /\ b2' = new_idom
  /\ phase' = "climb"
  /\ UNCHANGED <<succ, visitVars, pos, changed, new_idom, idom, outVars>>

\* The argument with the lower number moves to its idom, which must be set.
Climb1 ==
  /\ phase = "climb" /\ post_order_id[b1] < post_order_id[b2]
  /\ idom[b1] # NoBlock
  /\ b1' = idom[b1]
  /\ UNCHANGED <<succ, phase, visitVars, pos, changed, new_idom, left, b2, idom, outVars>>

Climb2 ==
  /\ phase = "climb" /\ post_order_id[b2] < post_order_id[b1]
  /\ idom[b2] # NoBlock
  /\ b2' = idom[b2]
  /\ UNCHANGED <<succ, phase, visitVars, pos, changed, new_idom, left, b1, idom, outVars>>

ReturnIntersect ==
  /\ phase = "climb" /\ b1 = b2
  /\ new_idom' = b1
  /\ phase' = "merge"
  /\ UNCHANGED <<succ, visitVars, pos, changed, left, b1, b2, idom, outVars>>

\* Faulty variants: the change is not noted, or noted always.
SetIdomUnnoticed ==
  /\ phase = "merge" /\ left = {}
  /\ idom' = [idom EXCEPT ![reverse_post_order[pos]] = new_idom]
  /\ pos' = pos + 1
  /\ phase' = "scan"
  /\ UNCHANGED <<succ, visitVars, changed, new_idom, left, b1, b2, outVars>>

SetIdomAlwaysChanged ==
  /\ phase = "merge" /\ left = {}
  /\ idom' = [idom EXCEPT ![reverse_post_order[pos]] = new_idom]
  /\ changed' = TRUE
  /\ pos' = pos + 1
  /\ phase' = "scan"
  /\ UNCHANGED <<succ, visitVars, new_idom, left, b1, b2, outVars>>

SetIdom ==
  /\ phase = "merge" /\ left = {}
  /\ LET bb == reverse_post_order[pos] IN
       /\ idom' = [idom EXCEPT ![bb] = new_idom]
       /\ changed' = (changed \/ idom[bb] # new_idom)
  /\ pos' = pos + 1
  /\ phase' = "scan"
  /\ UNCHANGED <<succ, visitVars, new_idom, left, b1, b2, outVars>>

NextPass ==
  /\ phase = "scan" /\ pos > Len(reverse_post_order) /\ changed
  /\ pos' = 1 /\ changed' = FALSE
  /\ UNCHANGED <<succ, phase, visitVars, new_idom, left, b1, b2, idom, outVars>>

-----------------------------------------------------------------------------
(* create_dominance_frontier, create_dom_tree_succ *)

\* Faulty variant: a block needs more than two predecessors to be a join.
JoinsOfThree == {b \in Blocks : Cardinality(Preds(succ, b)) > 2}

Joins == {b \in Blocks : Cardinality(Preds(succ, b)) >= 2}

StartFrontier ==
  /\ phase = "scan" /\ pos > Len(reverse_post_order) /\ ~changed
  /\ walks' = {w \in Blocks \X Joins : w[1] \in Preds(succ, w[2])}
  /\ phase' = "frontier"
  /\ UNCHANGED <<succ, visitVars, idomVars, join, runner, dom_frontier, dom_tree_succ>>

StartWalk ==
  /\ phase = "frontier"
  /\ walks # {}
  /\ LET w == CHOOSE w \in walks : TRUE IN
       /\ runner' = w[1] /\ join' = w[2]
       /\ walks' = walks \ {w}
  /\ phase' = "walk"
  /\ UNCHANGED <<succ, visitVars, idomVars, dom_frontier, dom_tree_succ>>

\* Faulty variant: the two arguments of add_dominance_frontier change places.
WalkSwapped ==
  /\ phase = "walk" /\ runner # idom[join]
  /\ dom_frontier' = [dom_frontier EXCEPT ![join] = @ \cup {runner}]
  /\ runner' = idom[runner]
  /\ UNCHANGED <<succ, phase, visitVars, idomVars, walks, join, dom_tree_succ>>

\* get_idom(nullptr) is a null entry of the map, so a runner that leaves the
\* tree stays at nullptr.
Walk ==
  /\ phase = "walk" /\ runner # idom[join]
  /\ dom_frontier' = [dom_frontier EXCEPT ![runner] = @ \cup {join}]
  /\ runner' = idom[runner]
  /\ UNCHANGED <<succ, phase, visitVars, idomVars, walks, join, dom_tree_succ>>

EndWalk ==
  /\ phase = "walk" /\ runner = idom[join]
  /\ phase' = "frontier"
  /\ UNCHANGED <<succ, visitVars, idomVars, outVars>>

\* Faulty variant: the root, its own idom, becomes its own child.
CreateDomTreeSuccRoot ==
  /\ phase = "frontier" /\ walks = {}
  /\ dom_tree_succ' = [p \in BlockOrNull |-> {b \in Blocks : idom[b] = p}]
  /\ phase' = "done"
  /\ UNCHANGED <<succ, visitVars, idomVars, walks, join, runner, dom_frontier>>

CreateDomTreeSucc ==
  /\ phase = "frontier" /\ walks = {}
  /\ dom_tree_succ' = [p \in BlockOrNull |-> {b \in Blocks : idom[b] = p /\ b # p}]
  /\ phase' = "done"
  /\ UNCHANGED <<succ, visitVars, idomVars, walks, join, runner, dom_frontier>>

\* run() has returned.
Done == phase = "done" /\ UNCHANGED vars

-----------------------------------------------------------------------------
Next ==
  \/ \E b \in Blocks : Descend(b)
  \/ Number
  \/ StartIdom \/ SkipRoot \/ PickPred
  \/ CallIntersect \/ Climb1 \/ Climb2 \/ ReturnIntersect
  \/ SetIdom \/ NextPass
  \/ StartFrontier \/ StartWalk \/ Walk \/ EndWalk
  \/ CreateDomTreeSucc
  \/ Done

\* The pass is one thread that runs until it returns.
Spec == Init /\ [][Next]_vars /\ WF_vars(Next)

-----------------------------------------------------------------------------
(***************************************************************************)
(* Properties                                                              *)
(***************************************************************************)

\* nullptr may be a key of the maps and the value of a pointer, never a member:
\* the numbered blocks, the frontiers and the sets of the tree hold blocks only,
\* dead edges or not, which is what lets Mem2Reg dereference each of them.
TypeOK ==
  /\ succ \in Graphs
  /\ phase \in Phases
  /\ visited \subseteq Blocks
  /\ stack \in Seq(Blocks) /\ reverse_post_order \in Seq(Blocks)
  /\ post_order_id \in [Blocks -> Nat]
  /\ pos \in Nat \ {0} /\ changed \in BOOLEAN
  /\ {new_idom, b1, b2, join, runner} \subseteq BlockOrNull
  /\ left \subseteq Blocks
  /\ walks \subseteq Blocks \X Blocks
  /\ phase = "walk" => join \in Blocks
  /\ idom \in [BlockOrNull -> BlockOrNull]
  /\ dom_frontier \in [BlockOrNull -> SUBSET Blocks]
  /\ dom_tree_succ \in [BlockOrNull -> SUBSET Blocks]

\* The three asserts of create_idom and intersect never fail, and intersect
\* never spins on two blocks with one number: whichever predecessors have
\* been processed, the two walks meet.
AssertsHold ==
  /\ Scanning /\ reverse_post_order[pos] # Entry =>
       Ready(reverse_post_order[pos]) # {}
  /\ phase = "climb" =>
       /\ post_order_id[b1] < post_order_id[b2] => idom[b1] # NoBlock
       /\ post_order_id[b2] < post_order_id[b1] => idom[b2] # NoBlock
       /\ post_order_id[b1] = post_order_id[b2] => b1 = b2

\* The comment on post_order_id_: the root has the highest number.
RootHighest ==
  phase # "visit" =>
    \A b \in visited \ {Entry} : post_order_id[b] < post_order_id[Entry]

\* In every state of the iteration, settled or not, an idom link leads to a
\* block with a higher number; this is what makes intersect's climb end.
IdomClimbs ==
  \A b \in Blocks \ {Entry} :
    idom[b] # NoBlock => post_order_id[b] < post_order_id[idom[b]]

\* When create_idom returns, idom_ holds the immediate dominator of every
\* reachable block, and null for the unreachable ones.
IdomExact ==
  phase \in {"frontier", "walk", "done"} =>
    \A b \in Blocks \ {Entry} :
      idom[b] = IF b \in Reachable(succ) THEN IDom(succ, b) ELSE NoBlock

\* The frontiers of reachable blocks are those of the definition, and no
\* walk has left the dominator tree: nothing is filed under nullptr.
FrontierExact ==
  phase = "done" =>
    /\ \A a \in Reachable(succ) : dom_frontier[a] = Frontier(succ, a)
    /\ dom_frontier[NoBlock] \cap Reachable(succ) = {}

\* Following dom_tree_succ_blocks_ from the entry, as re_name does, visits
\* every reachable block once and no other block.
TreeSpans ==
  phase = "done" =>
    /\ \A b \in Reachable(succ) \ {Entry} :
          Cardinality({p \in Reachable(succ) : b \in dom_tree_succ[p]}) = 1
    /\ \A p \in Reachable(succ) :
          dom_tree_succ[p] \subseteq Reachable(succ) \ {Entry}
    /\ \A S \in SUBSET Reachable(succ) :
          (Entry \in S /\ \A p \in S : dom_tree_succ[p] \subseteq S) => S = Reachable(succ)

\* The pass returns, unless a branch leads from an unreachable block into the
\* rest of the graph.
Terminates == NoDeadEdge(succ) ~> phase = "done"

\* The pass returns on every graph it is given.
AlwaysTerminates == <>(phase = "done")

\* The iteration of create_idom reaches its fixpoint, dead edges or not.
IdomSettles == <>(phase = "frontier")

(***************************************************************************)
(* The dominators that the idom links stand for: the block itself, its     *)
(* idom, the idom of that, and so on; every block while there is no link.  *)
(***************************************************************************)
Chain(b) ==
  IF idom[b] = NoBlock THEN Blocks
  ELSE {d \in Blocks : \A S \in SUBSET Blocks :
          (b \in S /\ \A a \in S : idom[a] \in S \cup {NoBlock}) => d \in S}

Dominance == INSTANCE DominanceSpec WITH
  approx <- [b \in Blocks |-> Chain(b)],
  settled <- phase \in {"frontier", "walk", "done"}

\* create_idom is a refinement of the set-based definition of dominance: the
\* links always stand for supersets of the true dominators, these only
\* shrink, and they are exact when the iteration stops.
RefinesDominance == Dominance!Spec
=============================================================================
