---------------------------- MODULE MCDominators ----------------------------
(***************************************************************************)
(* Flow graphs for TLC.                                                    *)
(***************************************************************************)
EXTENDS Dominators

CONSTANTS e, a, b, c, d, f, h, null

(***************************************************************************)
(* Every graph on four blocks, up to the names of a, b and c, whose blocks *)
(* have at most two successors, as the branch instructions allow; two more *)
(* blocks are left alone.                                                  *)
(***************************************************************************)
MCBlocks == {e, a, b, c, d, f}

MCSmallGraphs ==
  {g \in [MCBlocks -> {s \in SUBSET {a, b, c} : Cardinality(s) <= 2}] :
     /\ g[d] = {} /\ g[f] = {}
     /\ \/ g[e] = {a} /\ (c \in g[a] => b \in g[a])
        \/ g[e] = {a, b} /\ Cardinality(g[a]) >= Cardinality(g[b])}

(***************************************************************************)
(* Six-block graphs in which links are several blocks long and passes after*)
(* the first change some of them: an if inside a while, two nested whiles, *)
(* and two irreducible graphs, in which a cycle is entered at two or three *)
(* blocks.                                                                 *)
(***************************************************************************)
IfInWhile == e :> {a} @@ a :> {b, f} @@ b :> {c, d} @@ c :> {d} @@ d :> {a} @@ f :> {}
NestedWhiles == e :> {a} @@ a :> {b, f} @@ b :> {c, d} @@ c :> {b} @@ d :> {a} @@ f :> {}
TwoEntries == e :> {a, d} @@ a :> {b} @@ b :> {c} @@ c :> {d} @@ d :> {b, f} @@ f :> {c}
ThreeEntries == e :> {a, b} @@ a :> {c} @@ b :> {d, f} @@ c :> {d} @@ d :> {c, f} @@ f :> {d}

MCDeepGraphs == {IfInWhile, NestedWhiles, TwoEntries, ThreeEntries}

MCGraphs == MCSmallGraphs \cup MCDeepGraphs

(***************************************************************************)
(* The graph the builder makes of                                          *)
(*   while (..) { if (..) return 1; else return 2; } return 0;             *)
(* a is the loop test, b the body, c and d the arms, f the empty block     *)
(* after the if, which branches back to a, and h the exit.                 *)
(***************************************************************************)
MCReturnBlocks == {e, a, b, c, d, f, h}

MCReturnGraphs ==
  {e :> {a} @@ a :> {b, h} @@ b :> {c, d} @@ c :> {} @@ d :> {} @@ f :> {a} @@ h :> {}}
=============================================================================
