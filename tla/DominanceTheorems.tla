-------------------------- MODULE DominanceTheorems --------------------------
(***************************************************************************)
(* What follows from the definitions of FlowGraph for every graph: how     *)
(* reachability and dominance pass along an edge.  These are the facts     *)
(* about paths that the proofs of the passes use; each is proved by giving *)
(* the set of blocks that is closed, or fails to be closed, under edges.   *)
(*                                                                         *)
(* The second part makes dominance an order and a tree: every block but    *)
(* the entry hangs below its immediate dominator.                          *)
(*                                                                         *)
(* The third part is about links such as those of idom_: a function that  *)
(* leads from a linked block to a linked block with a higher number, up to *)
(* the entry.                                                              *)
(***************************************************************************)
EXTENDS FlowGraph, Integers, FiniteSetTheorems, WellFoundedInduction, TLAPS

\* A set of numbers that is not empty has a least element.  The library has
\* the principle for an operator; this is the form for a set.
LEMMA LeastNumber ==
  ASSUME NEW T \in SUBSET Nat, T # {}
  PROVE  \E x \in T : \A y \in T : x <= y
<1> DEFINE R == OpToRel(<, Nat)
<1>1. IsWellFoundedOn(R, Nat)
  BY NatLessThanWellFounded
<1>2. \A x, y \in Nat : y < x => <<y, x>> \in R
  BY DEF OpToRel
<1> HIDE DEF R
<1>3. PICK x \in T : \A y \in T : ~(<<y, x>> \in R)
  BY <1>1, WFMin
<1>4. ASSUME NEW y \in T PROVE x <= y
  <2>1. x \in Nat /\ y \in Nat
    OBVIOUS
  <2>2. ~(y < x)
    BY <1>2, <1>3, <2>1
  <2> QED
    BY <2>1, <2>2
<1> QED
  BY <1>4

\* Of the blocks of a set, one has the highest number, if the numbers are
\* bounded: the end of a climb.
LEMMA HighestBlock ==
  ASSUME NEW T, T # {}, NEW num, NEW n \in Nat,
         \A x \in T : num[x] \in Nat /\ num[x] <= n
  PROVE  \E x \in T : \A y \in T : num[y] <= num[x]
<1> DEFINE D == {n - num[x] : x \in T}
<1>1. D \in SUBSET Nat /\ D # {}
  OBVIOUS
<1>2. PICK k \in D : \A l \in D : k <= l
  BY <1>1, LeastNumber
<1>3. PICK x \in T : k = n - num[x]
  BY <1>2
<1>4. ASSUME NEW y \in T PROVE num[y] <= num[x]
  <2>1. n - num[x] <= n - num[y]
    BY <1>2, <1>3
  <2>2. num[x] \in Nat /\ num[y] \in Nat
    OBVIOUS
  <2> QED
    BY <2>1, <2>2
<1> QED
  BY <1>4

-----------------------------------------------------------------------------
\* The entry is reachable and a successor of a reachable block is.
LEMMA ReachableClosed ==
  ASSUME NEW g \in Graph
  PROVE  /\ Reachable(g) \subseteq Blocks
         /\ Entry \in Reachable(g)
         /\ \A a \in Reachable(g) : g[a] \subseteq Reachable(g)
<1>1. ASSUME NEW a \in Reachable(g), NEW b \in g[a] PROVE b \in Reachable(g)
  <2>1. b \in Blocks
    BY DEF Graph, Reachable
  <2>2. ASSUME NEW S \in SUBSET Blocks, Entry \in S, \A c \in S : g[c] \subseteq S
        PROVE  b \in S
    <3>1. a \in S
      BY <2>2 DEF Reachable
    <3> QED
      BY <2>2, <3>1
  <2> QED
    BY <2>1, <2>2 DEF Reachable
<1> QED
  BY <1>1, EntryAssumption DEF Reachable

\* The set of reachable blocks is the least closed one.
LEMMA ReachableLeast ==
  ASSUME NEW g, NEW S \in SUBSET Blocks, Entry \in S, \A a \in S : g[a] \subseteq S
  PROVE  Reachable(g) \subseteq S
BY DEF Reachable

\* A block dominates itself; only the entry dominates the entry.
LEMMA DomsReflexive ==
  ASSUME NEW g \in Graph, NEW b \in Blocks
  PROVE  b \in Doms(g, b) /\ Doms(g, b) \subseteq Blocks
<1>1. ~ReachedAvoiding(g, b, b)
  <2> DEFINE S == Blocks \ {b}
  <2>1. ClosedAvoiding(g, S, b)
    BY EntryAssumption DEF ClosedAvoiding, Graph
  <2> QED
    BY <2>1 DEF ReachedAvoiding
<1> QED
  BY <1>1 DEF Doms

LEMMA DomsEntry == \A g : Doms(g, Entry) \subseteq {Entry}
<1> SUFFICES ASSUME NEW g, NEW d \in Doms(g, Entry), d # Entry PROVE FALSE
  OBVIOUS
<1>1. ReachedAvoiding(g, d, Entry)
  BY DEF ReachedAvoiding, ClosedAvoiding
<1> QED
  BY <1>1 DEF Doms

\* Every block dominates an unreachable one.
LEMMA DomsUnreachable ==
  ASSUME NEW g \in Graph, NEW b \in Blocks \ Reachable(g)
  PROVE  Doms(g, b) = Blocks
<1>1. ASSUME NEW d \in Blocks PROVE ~ReachedAvoiding(g, d, b)
  <2>1. PICK S \in SUBSET Blocks : Entry \in S /\ (\A a \in S : g[a] \subseteq S) /\ b \notin S
    BY DEF Reachable
  <2>2. ClosedAvoiding(g, S, d)
    BY <2>1 DEF ClosedAvoiding
  <2> QED
    BY <2>1, <2>2 DEF ReachedAvoiding
<1> QED
  BY <1>1 DEF Doms

\* What dominates a block other than itself dominates its predecessors.
LEMMA DomsAlongEdge ==
  ASSUME NEW g \in Graph, NEW p \in Blocks, NEW b \in g[p]
  PROVE  StrictDoms(g, b) \subseteq Doms(g, p)
<1> SUFFICES ASSUME NEW d \in StrictDoms(g, b), d \notin Doms(g, p) PROVE FALSE
  OBVIOUS
<1>1. d \in Blocks /\ d # b /\ ~ReachedAvoiding(g, d, b) /\ ReachedAvoiding(g, d, p)
  BY DEF StrictDoms, Doms
<1>2. PICK S \in SUBSET Blocks : ClosedAvoiding(g, S, d) /\ b \notin S
  BY <1>1 DEF ReachedAvoiding
<1>3. p \in S
  BY <1>1, <1>2 DEF ReachedAvoiding
<1> QED
  BY <1>1, <1>2, <1>3 DEF ClosedAvoiding

-----------------------------------------------------------------------------
(* Dominance as an order, and the tree it makes. *)

\* To dominate is to be passed by every path: some set that is closed but for
\* the edges to the dominator leaves the block out.
LEMMA DomsBySet ==
  ASSUME NEW g, NEW b, NEW d \in Blocks
  PROVE  d \in Doms(g, b) <=> \E S \in SUBSET Blocks : ClosedAvoiding(g, S, d) /\ b \notin S
BY DEF Doms, ReachedAvoiding

\* The dominators of a reachable block are reachable, and the entry is one.
LEMMA DomsOfReachable ==
  ASSUME NEW g \in Graph, NEW b \in Reachable(g)
  PROVE  Doms(g, b) \subseteq Reachable(g) /\ Entry \in Doms(g, b)
<1>1. ASSUME NEW d \in Doms(g, b), d \notin Reachable(g) PROVE FALSE
  <2>1. d \in Blocks
    BY DEF Doms
  <2>2. PICK S \in SUBSET Blocks : ClosedAvoiding(g, S, d) /\ b \notin S
    BY <2>1, DomsBySet
  <2> DEFINE T == S \cap Reachable(g)
  <2>3. T \in SUBSET Blocks /\ Entry \in T
    BY <1>1, <2>2, ReachableClosed DEF ClosedAvoiding
  <2>4. \A a \in T : g[a] \subseteq T
    BY <1>1, <2>2, ReachableClosed DEF ClosedAvoiding
  <2>5. b \notin T
    BY <2>2
  <2> HIDE DEF T
  <2>6. Reachable(g) \subseteq T
    BY <2>3, <2>4, ReachableLeast
  <2> QED
    BY <2>5, <2>6
<1>2. Entry \in Doms(g, b)
  <2>1. ClosedAvoiding(g, {}, Entry)
    BY DEF ClosedAvoiding
  <2> QED
    BY <2>1, EntryAssumption, DomsBySet
<1> QED
  BY <1>1, <1>2

\* Dominance is transitive.
LEMMA DomsTransitive ==
  ASSUME NEW g, NEW b, NEW e \in Doms(g, b)
  PROVE  Doms(g, e) \subseteq Doms(g, b)
<1> SUFFICES ASSUME NEW d \in Doms(g, e) PROVE d \in Doms(g, b)
  OBVIOUS
<1>1. d \in Blocks /\ e \in Blocks
  BY DEF Doms
<1>2. PICK S \in SUBSET Blocks : ClosedAvoiding(g, S, d) /\ e \notin S
  BY <1>1, DomsBySet
<1>3. PICK T \in SUBSET Blocks : ClosedAvoiding(g, T, e) /\ b \notin T
  BY <1>1, DomsBySet
<1>4. ClosedAvoiding(g, S \cap T, d)
  BY <1>2, <1>3 DEF ClosedAvoiding
<1> QED
  BY <1>1, <1>3, <1>4, DomsBySet

\* Two reachable blocks do not dominate each other.
LEMMA DomsAntisymmetric ==
  ASSUME NEW g, NEW d, NEW e \in Reachable(g), d \in Doms(g, e), e \in Doms(g, d)
  PROVE  d = e
<1> SUFFICES ASSUME d # e PROVE FALSE
  OBVIOUS
<1>1. d \in Blocks /\ e \in Blocks
  BY DEF Doms
<1>2. PICK S \in SUBSET Blocks : ClosedAvoiding(g, S, d) /\ e \notin S
  BY <1>1, DomsBySet
<1>3. PICK T \in SUBSET Blocks : ClosedAvoiding(g, T, e) /\ d \notin T
  BY <1>1, DomsBySet
<1>4. Entry \in S \cap T /\ \A a \in S \cap T : g[a] \subseteq S \cap T
  BY <1>2, <1>3 DEF ClosedAvoiding
<1>5. Reachable(g) \subseteq S \cap T
  <2> DEFINE U == S \cap T
  <2>1. U \in SUBSET Blocks /\ Entry \in U /\ \A a \in U : g[a] \subseteq U
    BY <1>4
  <2> HIDE DEF U
  <2>2. Reachable(g) \subseteq U
    BY <2>1, ReachableLeast
  <2> QED
    BY <2>2 DEF U
<1> QED
  BY <1>2, <1>5

\* The dominators of a reachable block form a line.
LEMMA DomsLinear ==
  ASSUME NEW g, NEW b \in Reachable(g), NEW d \in Doms(g, b), NEW e \in Doms(g, b)
  PROVE  d \in Doms(g, e) \/ e \in Doms(g, d)
<1> SUFFICES ASSUME d \notin Doms(g, e), e \notin Doms(g, d) PROVE FALSE
  OBVIOUS
<1>1. d \in Blocks /\ e \in Blocks
  BY DEF Doms
<1>2. PICK S \in SUBSET Blocks : ClosedAvoiding(g, S, d) /\ b \notin S
  BY <1>1, DomsBySet
<1>3. PICK T \in SUBSET Blocks : ClosedAvoiding(g, T, e) /\ b \notin T
  BY <1>1, DomsBySet
<1>4. e \in S /\ d \in T
  BY <1>1, <1>2, <1>3, DomsBySet
<1> DEFINE U == S \cup T
<1>5. U \in SUBSET Blocks /\ Entry \in U /\ \A a \in U : g[a] \subseteq U
  BY <1>2, <1>3, <1>4 DEF ClosedAvoiding
<1>6. b \notin U
  BY <1>2, <1>3
<1> HIDE DEF U
<1>7. Reachable(g) \subseteq U
  BY <1>5, ReachableLeast
<1> QED
  BY <1>6, <1>7

\* A reachable block has fewer dominators than those it dominates.
LEMMA DomsCount ==
  ASSUME NEW g \in Graph, NEW b \in Reachable(g), NEW d \in StrictDoms(g, b)
  PROVE  /\ Cardinality(Doms(g, b)) \in Nat /\ Cardinality(Doms(g, d)) \in Nat
         /\ Cardinality(Doms(g, d)) < Cardinality(Doms(g, b))
<1>1. d \in Doms(g, b) /\ d # b /\ b \in Blocks
  BY DEF StrictDoms, Reachable
<1>2. Doms(g, d) \subseteq Doms(g, b)
  BY <1>1, DomsTransitive
<1>3. b \in Doms(g, b)
  BY <1>1, DomsReflexive
<1>4. b \notin Doms(g, d)
  BY <1>1, DomsAntisymmetric
<1>5. IsFiniteSet(Doms(g, b))
  <2>1. Doms(g, b) \subseteq Blocks
    BY DEF Doms
  <2> QED
    BY <2>1, BlocksAssumption, FS_Subset
<1> QED
  BY <1>2, <1>3, <1>4, <1>5, FS_Subset, FS_CardinalityType

\* A reachable block other than the entry has an immediate dominator.
LEMMA IDomExists ==
  ASSUME NEW g \in Graph, NEW b \in Reachable(g), b # Entry
  PROVE  /\ IDom(g, b) \in StrictDoms(g, b)
         /\ \A e \in StrictDoms(g, b) : e \in Doms(g, IDom(g, b))
<1> DEFINE T == StrictDoms(g, b)
           num == [d \in T |-> Cardinality(Doms(g, d))]
           n == Cardinality(Doms(g, b))
<1>1. T # {}
  BY DomsOfReachable DEF StrictDoms
<1>2. \A d \in T : num[d] \in Nat /\ n \in Nat /\ num[d] <= n
  BY DomsCount
<1>3. PICK d \in T : \A e \in T : num[e] <= num[d]
  <2> HIDE DEF T, num, n
  <2> QED
    BY <1>1, <1>2, HighestBlock
<1>4. ASSUME NEW e \in T, e \notin Doms(g, d) PROVE FALSE
  <2>1. d \in Doms(g, b) /\ e \in Doms(g, b)
    BY DEF StrictDoms
  <2>2. d \in Doms(g, e)
    BY <1>4, <2>1, DomsLinear
  <2>3. d # e /\ e \in Reachable(g)
    <3>1. e \in Blocks /\ e \in Reachable(g)
      BY <2>1, DomsOfReachable DEF Reachable
    <3> QED
      BY <1>4, <3>1, DomsReflexive
  <2>4. num[d] < num[e]
    BY <2>2, <2>3, DomsCount DEF StrictDoms
  <2> QED
    BY <1>2, <1>3, <1>4, <2>4
<1> QED
  BY <1>3, <1>4 DEF IDom

\* The tree: the blocks that b dominates, and those it is the immediate
\* dominator of.
Below(g, b) == {x \in Reachable(g) : b \in Doms(g, x)}
Children(g, b) == {c \in Reachable(g) \ {Entry} : IDom(g, c) = b}

\* A reachable block is the root of what is below it.
LEMMA BelowRoot ==
  ASSUME NEW g \in Graph
  PROVE  /\ \A b \in Reachable(g) : b \in Below(g, b)
         /\ \A b : \A x \in Below(g, b) :
              /\ b \in Reachable(g) /\ x \in Reachable(g)
              /\ Below(g, x) \subseteq Below(g, b)
              /\ b \in Below(g, x) => b = x
<1>1. \A b \in Reachable(g) : b \in Below(g, b)
  BY DomsReflexive DEF Below, Reachable
<1>2. ASSUME NEW b, NEW x \in Below(g, b)
      PROVE  /\ b \in Reachable(g) /\ x \in Reachable(g)
             /\ Below(g, x) \subseteq Below(g, b)
             /\ b \in Below(g, x) => b = x
  <2>1. x \in Reachable(g) /\ b \in Doms(g, x) /\ b \in Reachable(g)
    BY DomsOfReachable DEF Below
  <2>2. Below(g, x) \subseteq Below(g, b)
    BY <2>1, DomsTransitive DEF Below
  <2>3. b \in Below(g, x) => b = x
    BY <2>1, DomsAntisymmetric DEF Below
  <2> QED
    BY <2>1, <2>2, <2>3
<1> QED
  BY <1>1, <1>2

\* A child is below its parent and not above it, and what is below one child
\* is not below another.
LEMMA ChildrenApart ==
  ASSUME NEW g \in Graph
  PROVE  \A b : \A c \in Children(g, b) :
           /\ b \in Reachable(g) /\ c \in Reachable(g) /\ c # b
           /\ c \in Below(g, b) /\ b \notin Below(g, c)
           /\ \A d \in Children(g, b) : \A x \in Below(g, c) : x \in Below(g, d) => c = d
<1> SUFFICES ASSUME NEW b, NEW c \in Children(g, b)
             PROVE  /\ b \in Reachable(g) /\ c \in Reachable(g) /\ c # b
                    /\ c \in Below(g, b) /\ b \notin Below(g, c)
                    /\ \A d \in Children(g, b) : \A x \in Below(g, c) :
                         x \in Below(g, d) => c = d
  OBVIOUS
<1>1. \A d \in Children(g, b) :
        /\ d \in Reachable(g) /\ b \in StrictDoms(g, d)
        /\ \A e \in StrictDoms(g, d) : e \in Doms(g, b)
  BY IDomExists DEF Children
<1>2. c \in Reachable(g) /\ c # b /\ c \in Below(g, b) /\ b \in Reachable(g) /\ b \notin Below(g, c)
  BY <1>1, BelowRoot DEF Below, StrictDoms
<1>3. \A d \in Children(g, b) : \A e \in Children(g, b) :
        d \in Doms(g, e) => d = e
  BY <1>1, DomsAntisymmetric DEF StrictDoms
<1>4. ASSUME NEW d \in Children(g, b), NEW x \in Below(g, c), x \in Below(g, d) PROVE c = d
  <2>1. c \in Doms(g, d) \/ d \in Doms(g, c)
    BY <1>4, DomsLinear DEF Below
  <2> QED
    BY <2>1, <1>3
<1> QED
  BY <1>2, <1>4

\* Everything below a block, itself left out, is below one of its children.
LEMMA BelowChildren ==
  ASSUME NEW g \in Graph, NEW b, NEW x \in Below(g, b), x # b
  PROVE  \E c \in Children(g, b) : x \in Below(g, c)
<1> DEFINE C == {c \in Doms(g, x) : b \in StrictDoms(g, c)}
           D == {Cardinality(Doms(g, c)) : c \in C}
<1>1. x \in Reachable(g) /\ x \in Blocks /\ b \in Doms(g, x)
  BY DEF Below, Reachable
<1>2. x \in C
  BY <1>1, DomsReflexive DEF StrictDoms
<1>3. \A c \in C : c \in Reachable(g) /\ b \in StrictDoms(g, c)
  BY <1>1, DomsOfReachable
<1>4. D \in SUBSET Nat /\ D # {}
  BY <1>2, <1>3, DomsCount
<1>5. PICK k \in D : \A l \in D : k <= l
  BY <1>4, LeastNumber
<1>6. PICK c \in C : k = Cardinality(Doms(g, c))
  BY <1>5
<1> DEFINE i == IDom(g, c)
<1>7. c # Entry
  BY <1>3, DomsEntry DEF StrictDoms
<1>8. i \in StrictDoms(g, c) /\ b \in Doms(g, i)
  BY <1>3, <1>7, IDomExists
<1>9. Cardinality(Doms(g, i)) < k /\ Cardinality(Doms(g, i)) \in Nat /\ k \in Nat
  BY <1>3, <1>6, <1>8, DomsCount
<1>10. i = b
  <2> SUFFICES ASSUME i # b PROVE FALSE
    OBVIOUS
  <2>1. i \in Doms(g, x)
    BY <1>6, <1>8, DomsTransitive DEF StrictDoms
  <2>2. i \in C
    BY <1>8, <2>1 DEF StrictDoms
  <2> QED
    BY <1>5, <1>9, <2>2
<1> QED
  BY <1>1, <1>3, <1>6, <1>7, <1>10 DEF Children, Below

-----------------------------------------------------------------------------
(* Links. *)

\* What the links of f lead to from b, and b.
Ancestors(f, b) ==
  {d \in Blocks : \A S \in SUBSET Blocks :
      (b \in S /\ \A a \in S : f[a] \in Blocks => f[a] \in S) => d \in S}

LinkTree(f, num, n) ==
  /\ n \in Nat
  /\ f[Entry] = Entry
  /\ \A x \in Blocks : f[x] \in Blocks =>
       /\ f[f[x]] \in Blocks
       /\ num[x] \in Nat /\ num[x] <= n
       /\ x # Entry => num[x] < num[f[x]]

\* The ancestors are the least set that holds b and is closed under f.
LEMMA AncestorsClosed ==
  ASSUME NEW f, NEW b \in Blocks
  PROVE  /\ Ancestors(f, b) \subseteq Blocks
         /\ b \in Ancestors(f, b)
         /\ \A a \in Ancestors(f, b) : f[a] \in Blocks => f[a] \in Ancestors(f, b)
<1>1. ASSUME NEW a \in Ancestors(f, b), f[a] \in Blocks PROVE f[a] \in Ancestors(f, b)
  BY <1>1 DEF Ancestors
<1> QED
  BY <1>1 DEF Ancestors

LEMMA AncestorsLeast ==
  ASSUME NEW f, NEW b, NEW S \in SUBSET Blocks,
         b \in S, \A a \in S : f[a] \in Blocks => f[a] \in S
  PROVE  Ancestors(f, b) \subseteq S
BY DEF Ancestors

LEMMA AncestorsTrans ==
  ASSUME NEW f, NEW b \in Blocks, NEW c \in Ancestors(f, b)
  PROVE  Ancestors(f, c) \subseteq Ancestors(f, b)
<1>1. Ancestors(f, b) \in SUBSET Blocks
  BY AncestorsClosed
<1> QED
  BY <1>1, AncestorsClosed, AncestorsLeast

\* All ancestors of a linked block are linked, and all but itself are higher.
LEMMA AncestorsHigher ==
  ASSUME NEW f, NEW num, NEW n, LinkTree(f, num, n)
  PROVE  \A b \in Blocks : f[b] \in Blocks => \A a \in Ancestors(f, b) :
           /\ a \in Blocks /\ f[a] \in Blocks /\ f[a] \in Ancestors(f, b)
           /\ num[b] \in Nat /\ num[a] \in Nat /\ num[b] <= num[a]
           /\ a # b => num[b] < num[a]
<1> SUFFICES ASSUME NEW b \in Blocks, f[b] \in Blocks, NEW a \in Ancestors(f, b)
             PROVE  /\ a \in Blocks /\ f[a] \in Blocks /\ f[a] \in Ancestors(f, b)
                    /\ num[b] \in Nat /\ num[a] \in Nat /\ num[b] <= num[a]
                    /\ a # b => num[b] < num[a]
  OBVIOUS
<1> DEFINE S == {c \in Blocks : f[c] \in Blocks /\ num[c] \in Nat /\ (c = b \/ num[b] < num[c])}
<1>1. num[b] \in Nat /\ b \in S
  BY DEF LinkTree
<1>2. ASSUME NEW c \in S PROVE f[c] \in S
  <2>1. c \in Blocks /\ f[c] \in Blocks /\ f[f[c]] \in Blocks /\ num[f[c]] \in Nat /\ num[c] \in Nat
    BY DEF LinkTree
  <2>2. CASE c = Entry
    BY <2>2 DEF LinkTree
  <2>3. CASE c # Entry
    <3>1. num[c] < num[f[c]]
      BY <2>1, <2>3 DEF LinkTree
    <3>2. num[b] < num[f[c]]
      BY <1>1, <2>1, <3>1
    <3> QED
      BY <2>1, <3>2
  <2> QED
    BY <2>2, <2>3
<1>3. a \in S
  <2>1. S \in SUBSET Blocks /\ \A c \in S : f[c] \in Blocks => f[c] \in S
    BY <1>2
  <2> HIDE DEF S
  <2>2. Ancestors(f, b) \subseteq S
    BY <1>1, <2>1, AncestorsLeast
  <2> QED
    BY <2>2
<1>4. f[a] \in Ancestors(f, b)
  BY <1>3, AncestorsClosed
<1> QED
  BY <1>1, <1>3, <1>4

LEMMA AncestorsUnfold ==
  ASSUME NEW f, NEW b \in Blocks, f[b] \in Blocks
  PROVE  Ancestors(f, b) = {b} \cup Ancestors(f, f[b])
<1> DEFINE S == {b} \cup Ancestors(f, f[b])
<1>1. S \in SUBSET Blocks /\ b \in S /\ \A a \in S : f[a] \in Blocks => f[a] \in S
  BY AncestorsClosed
<1>2. Ancestors(f, b) \subseteq S
  <2> HIDE DEF S
  <2> QED
    BY <1>1, AncestorsLeast
<1>3. f[b] \in Ancestors(f, b)
  BY AncestorsClosed
<1> QED
  BY <1>2, <1>3, AncestorsTrans, AncestorsClosed

\* The climb from a linked block ends at the entry.
LEMMA AncestorsEntry ==
  ASSUME NEW f, NEW num, NEW n, LinkTree(f, num, n)
  PROVE  /\ Ancestors(f, Entry) = {Entry}
         /\ \A b \in Blocks : f[b] \in Blocks => Entry \in Ancestors(f, b)
<1>1. Ancestors(f, Entry) = {Entry}
  <2>1. Ancestors(f, Entry) \subseteq {Entry}
    BY EntryAssumption, AncestorsLeast DEF LinkTree
  <2> QED
    BY <2>1, EntryAssumption, AncestorsClosed
<1>h. \A b \in Blocks : f[b] \in Blocks => \A a \in Ancestors(f, b) :
        a \in Blocks /\ f[a] \in Blocks /\ f[a] \in Ancestors(f, b) /\ num[a] \in Nat
  BY AncestorsHigher
<1>2. ASSUME NEW b \in Blocks, f[b] \in Blocks PROVE Entry \in Ancestors(f, b)
  <2> DEFINE T == Ancestors(f, b)
  <2>1. T # {} /\ n \in Nat /\ \A x \in T : num[x] \in Nat /\ num[x] <= n
    BY <1>2, <1>h, AncestorsClosed DEF LinkTree
  <2>2. PICK x \in T : \A y \in T : num[y] <= num[x]
    <3> HIDE DEF T
    <3> QED
      BY <2>1, HighestBlock
  <2>3. x \in Blocks /\ f[x] \in Blocks /\ f[x] \in T
    BY <1>2, <1>h
  <2>4. num[f[x]] <= num[x] /\ num[x] \in Nat /\ num[f[x]] \in Nat
    BY <2>1, <2>2, <2>3
  <2>5. x = Entry
    BY <2>3, <2>4 DEF LinkTree
  <2> QED
    BY <2>5
<1> QED
  BY <1>1, <1>2

\* The ancestors of a block form a line.
LEMMA AncestorsLinear ==
  ASSUME NEW f, NEW b \in Blocks, NEW c \in Ancestors(f, b), NEW d \in Ancestors(f, b)
  PROVE  c \in Ancestors(f, d) \/ d \in Ancestors(f, c)
<1> DEFINE S == {a \in Ancestors(f, b) : a \in Ancestors(f, d) \/ d \in Ancestors(f, a)}
<1>1. Ancestors(f, b) \subseteq Blocks /\ d \in Blocks
  BY AncestorsClosed
<1>2. b \in S
  BY AncestorsClosed
<1>3. ASSUME NEW a \in S, f[a] \in Blocks PROVE f[a] \in S
  <2>1. f[a] \in Ancestors(f, b)
    BY <1>3, AncestorsClosed
  <2>2. CASE a \in Ancestors(f, d)
    BY <1>1, <1>3, <2>1, <2>2, AncestorsClosed
  <2>3. CASE d \in Ancestors(f, a)
    <3>1. d = a \/ d \in Ancestors(f, f[a])
      BY <1>1, <1>3, <2>3, AncestorsUnfold
    <3>2. d = a => f[a] \in Ancestors(f, d)
      BY <1>1, <1>3, AncestorsClosed
    <3> QED
      BY <2>1, <3>1, <3>2
  <2> QED
    BY <2>2, <2>3
<1>4. Ancestors(f, b) \subseteq S
  <2>1. S \in SUBSET Blocks /\ \A a \in S : f[a] \in Blocks => f[a] \in S
    BY <1>1, <1>3
  <2> HIDE DEF S
  <2> QED
    BY <1>2, <2>1, AncestorsLeast
<1> QED
  BY <1>4

\* The link of v is set to w: a block that v is no ancestor of keeps its
\* ancestors; under a block that it is one of, those of v are replaced.
LEMMA AncestorsRelink ==
  ASSUME NEW f, NEW h, NEW num, NEW n, LinkTree(f, num, n), LinkTree(h, num, n),
         NEW v \in Blocks, h[v] \in Blocks, f[h[v]] \in Blocks, v # Entry,
         \A x \in Blocks \ {v} : h[x] = f[x]
  PROVE  /\ Ancestors(h, v) = {v} \cup Ancestors(f, h[v])
         /\ \A x \in Blocks : f[x] \in Blocks /\ v \notin Ancestors(f, x) =>
              Ancestors(h, x) = Ancestors(f, x)
         /\ \A x \in Blocks : f[x] \in Blocks /\ v \in Ancestors(f, x) =>
              Ancestors(h, x) = (Ancestors(f, x) \ Ancestors(f, v)) \cup Ancestors(h, v)
<1>h. \A b \in Blocks : f[b] \in Blocks => \A a \in Ancestors(f, b) :
        /\ a \in Blocks /\ f[a] \in Blocks
        /\ num[b] \in Nat /\ num[a] \in Nat /\ num[b] <= num[a]
        /\ a # b => num[b] < num[a]
  BY AncestorsHigher
<1>1. ASSUME NEW x \in Blocks, v \notin Ancestors(f, x)
      PROVE  Ancestors(h, x) = Ancestors(f, x)
  <2>1. Ancestors(f, x) \in SUBSET Blocks /\ \A a \in Ancestors(f, x) : h[a] = f[a]
    BY <1>1, AncestorsClosed
  <2>2. Ancestors(h, x) \subseteq Ancestors(f, x)
    BY <2>1, AncestorsClosed, AncestorsLeast
  <2>3. Ancestors(h, x) \in SUBSET Blocks /\ \A a \in Ancestors(h, x) : h[a] = f[a]
    BY <2>1, <2>2
  <2>4. Ancestors(f, x) \subseteq Ancestors(h, x)
    BY <2>3, AncestorsClosed, AncestorsLeast
  <2> QED
    BY <2>2, <2>4
<1>2. v \notin Ancestors(f, h[v])
  <2> SUFFICES ASSUME v \in Ancestors(f, h[v]) PROVE FALSE
    OBVIOUS
  <2>1. num[h[v]] <= num[v] /\ num[v] \in Nat /\ num[h[v]] \in Nat
    BY <1>h
  <2>2. num[v] < num[h[v]]
    BY DEF LinkTree
  <2> QED
    BY <2>1, <2>2
<1>3. Ancestors(h, v) = {v} \cup Ancestors(f, h[v])
  BY <1>1, <1>2, AncestorsUnfold
<1>4. ASSUME NEW x \in Blocks, f[x] \in Blocks, v \in Ancestors(f, x)
      PROVE  Ancestors(h, x) = (Ancestors(f, x) \ Ancestors(f, v)) \cup Ancestors(h, v)
  <2> DEFINE S == (Ancestors(f, x) \ Ancestors(f, v)) \cup Ancestors(h, v)
             T == Ancestors(h, x) \cup Ancestors(f, v)
  <2>0. f[v] \in Blocks
    BY <1>4, <1>h
  <2>1. Ancestors(h, x) \subseteq S
    <3>1. S \in SUBSET Blocks
      BY AncestorsClosed
    <3>2. x \in S
      <4>1. CASE x = v
        BY <4>1, AncestorsClosed
      <4>2. CASE x # v
        <5>1. num[x] < num[v] /\ num[x] \in Nat /\ num[v] \in Nat
          BY <1>4, <4>2, <1>h
        <5>2. x \in Ancestors(f, v) => num[v] <= num[x]
          BY <2>0, <1>h
        <5> QED
          BY <5>1, <5>2, AncestorsClosed
      <4> QED
        BY <4>1, <4>2
    <3>3. ASSUME NEW a \in S, h[a] \in Blocks PROVE h[a] \in S
      <4>1. CASE a \in Ancestors(h, v)
        BY <4>1, <3>3, AncestorsClosed
      <4>2. CASE a \in Ancestors(f, x) \ Ancestors(f, v)
        <5>1. a \in Blocks /\ a # v /\ h[a] = f[a] /\ f[a] \in Ancestors(f, x)
          BY <4>2, <3>3, AncestorsClosed
        <5>2. v \in Ancestors(f, a)
          BY <1>4, <4>2, AncestorsLinear
        <5>3. v \in Ancestors(f, f[a])
          BY <5>1, <5>2, <3>3, AncestorsUnfold
        <5>4. ASSUME f[a] \in Ancestors(f, v) PROVE f[a] = v
          <6>1. f[f[a]] \in Blocks
            BY <2>0, <5>4, <1>h
          <6>2. num[v] <= num[f[a]] /\ (f[a] # v => num[v] < num[f[a]])
            BY <2>0, <5>4, <1>h
          <6>3. num[f[a]] <= num[v] /\ num[v] \in Nat /\ num[f[a]] \in Nat
            BY <5>3, <6>1, <3>3, <5>1, <1>h
          <6> QED
            BY <6>2, <6>3
        <5> QED
          BY <5>1, <5>4, AncestorsClosed
      <4> QED
        BY <4>1, <4>2
    <3> HIDE DEF S
    <3> QED
      BY <3>1, <3>2, <3>3, AncestorsLeast
  <2>2. v \in Ancestors(h, x)
    <3> SUFFICES ASSUME v \notin Ancestors(h, x) PROVE FALSE
      OBVIOUS
    <3>1. Ancestors(h, x) \in SUBSET Blocks /\ x \in Ancestors(h, x)
          /\ \A a \in Ancestors(h, x) : f[a] \in Blocks => f[a] \in Ancestors(h, x)
      BY AncestorsClosed
    <3> QED
      BY <1>4, <3>1, AncestorsLeast
  <2>3. Ancestors(h, v) \subseteq Ancestors(h, x)
    BY <2>2, AncestorsTrans
  <2>4. Ancestors(f, x) \subseteq T
    <3>1. T \in SUBSET Blocks /\ x \in T
      BY AncestorsClosed
    <3>2. ASSUME NEW a \in T, f[a] \in Blocks PROVE f[a] \in T
      <4>1. CASE a \in Ancestors(f, v)
        BY <4>1, <3>2, AncestorsClosed
      <4>2. CASE a \in Ancestors(h, x) /\ a # v
        <5>1. h[a] = f[a]
          BY <4>2, AncestorsClosed
        <5> QED
          BY <4>2, <5>1, <3>2, AncestorsClosed
      <4>3. CASE a = v
        BY <4>3, <3>2, AncestorsClosed
      <4> QED
        BY <4>1, <4>2, <4>3
    <3> HIDE DEF T
    <3> QED
      BY <3>1, <3>2, AncestorsLeast
  <2> QED
    BY <2>1, <2>3, <2>4
<1> QED
  BY <1>1, <1>3, <1>4
=============================================================================
