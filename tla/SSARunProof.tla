---------------------------- MODULE SSARunProof ----------------------------
(***************************************************************************)
(* Mem2Reg keeps the meaning of the program: LoadsAgree for every function *)
(* on which the pass returns, every path through it and all data.          *)
(*                                                                         *)
(* The argument goes through the name that a variable has at each point of *)
(* the program: the value that its nearest definition leaves, be it a      *)
(* store or a phi.  The pass is shown to replace every load with the name  *)
(* of its variable and to give every phi, for each edge, the name at the   *)
(* end of the predecessor.  The run of the program is then shown to keep   *)
(* in the register of that name what memory has for the variable.          *)
(***************************************************************************)
EXTENDS SSARun, Mem2RegProof

-----------------------------------------------------------------------------
(***************************************************************************)
(* Names.  Of the definitions in the dominators of a point the nearest     *)
(* counts, and of the stores of a block the latest.                        *)
(***************************************************************************)
Definers(v) == Defs(v) \cup PhiBlocks(v)

Latest(S) == CHOOSE k \in S : \A j \in S : j <= k
Nearest(S) == CHOOSE d \in S : \A e \in S : e \in Doms(succ, d)

Leaves(d, v) ==
  IF StoresIn(d, v) = {} THEN PhiValue(d, v) ELSE get_rval(<<d, Latest(StoresIn(d, v))>>)

NameFrom(S, v) ==
  IF S \cap Definers(v) = {} THEN Garbage ELSE Leaves(Nearest(S \cap Definers(v)), v)

NameAtEnd(b, v) == NameFrom(Doms(succ, b), v)

NameAtStart(b, v) ==
  IF v \in phis[b] THEN PhiValue(b, v) ELSE NameFrom(StrictDoms(succ, b), v)

\* Before the k-th access of b.
Name(b, v, k) ==
  IF StoresBefore(b, v, k) = {} THEN NameAtStart(b, v)
  ELSE get_rval(<<b, Latest(StoresBefore(b, v, k))>>)

\* Of a set of positions there is a latest.
LEMMA LatestOf ==
  ASSUME NEW n \in Nat, NEW S \in SUBSET (1..n), S # {}
  PROVE  Latest(S) \in S /\ \A j \in S : j <= Latest(S)
<1> DEFINE num == [k \in S |-> k]
<1>1. \A k \in S : num[k] = k /\ num[k] \in Nat /\ num[k] <= n
  OBVIOUS
<1> HIDE DEF num
<1>2. \E k \in S : \A j \in S : num[j] <= num[k]
  BY <1>1, HighestBlock
<1>3. \E k \in S : \A j \in S : j <= k
  BY <1>1, <1>2
<1> QED
  BY <1>3 DEF Latest

LEMMA LatestIs ==
  ASSUME NEW S \in SUBSET Nat, NEW k \in S, \A j \in S : j <= k
  PROVE  Latest(S) = k
<1>1. Latest(S) \in S /\ \A j \in S : j <= Latest(S)
  BY DEF Latest
<1>2. k <= Latest(S) /\ Latest(S) <= k /\ Latest(S) \in Nat
  BY <1>1
<1> QED
  BY <1>2

\* Of a set of blocks that dominate one, the nearest is below all the others.
LEMMA NearestOf ==
  ASSUME succ \in Graph, NEW b \in Reachable(succ), NEW S \in SUBSET Doms(succ, b), S # {}
  PROVE  Nearest(S) \in S /\ \A e \in S : e \in Doms(succ, Nearest(S))
<1> DEFINE num == [x \in S |-> Cardinality(Doms(succ, x))]
<1>1. S \subseteq Reachable(succ) /\ Reachable(succ) \subseteq Blocks
  BY DomsOfReachable, ReachableClosed
<1>2. \A x \in S : num[x] \in Nat /\ num[x] <= Cardinality(Blocks)
  <2> SUFFICES ASSUME NEW x \in S PROVE num[x] \in Nat /\ num[x] <= Cardinality(Blocks)
    OBVIOUS
  <2>1. Doms(succ, x) \subseteq Blocks
    BY DEF Doms
  <2>2. IsFiniteSet(Doms(succ, x)) /\ Cardinality(Doms(succ, x)) <= Cardinality(Blocks)
    BY <2>1, BlocksAssumption, FS_Subset
  <2> QED
    BY <2>2, FS_CardinalityType
<1>3. Cardinality(Blocks) \in Nat
  BY BlocksAssumption, FS_CardinalityType
<1> HIDE DEF num
<1>4. PICK d \in S : \A e \in S : num[e] <= num[d]
  BY <1>2, <1>3, HighestBlock
<1>5. ASSUME NEW e \in S PROVE e \in Doms(succ, d)
  <2> SUFFICES ASSUME e \notin Doms(succ, d) PROVE FALSE
    OBVIOUS
  <2>1. d \in Doms(succ, e)
    BY DomsLinear
  <2>2. d \in StrictDoms(succ, e)
    BY <2>1 DEF StrictDoms
  <2>3. Cardinality(Doms(succ, d)) < Cardinality(Doms(succ, e))
    BY <1>1, <2>2, DomsCount
  <2>4. num[d] < num[e]
    BY <2>3 DEF num
  <2> QED
    BY <1>2, <1>4, <2>4
<1> QED
  BY <1>5 DEF Nearest

LEMMA NearestIs ==
  ASSUME NEW S \in SUBSET Reachable(succ), NEW d \in S, \A e \in S : e \in Doms(succ, d)
  PROVE  Nearest(S) = d
<1>1. Nearest(S) \in S /\ \A e \in S : e \in Doms(succ, Nearest(S))
  BY DEF Nearest
<1> QED
  BY <1>1, DomsAntisymmetric

\* The positions of stores.
LEMMA StorePositions ==
  ASSUME TypeInv, NEW b \in Blocks, NEW v
  PROVE  /\ Len(code[b]) \in Nat /\ StoresIn(b, v) \in SUBSET (1..Len(code[b]))
         /\ \A k : StoresBefore(b, v, k) \subseteq StoresIn(b, v)
         /\ \A k \in Nat : k > Len(code[b]) => StoresBefore(b, v, k) = StoresIn(b, v)
         /\ StoresBefore(b, v, 1) = {}
<1>1. Len(code[b]) \in Nat
  BY DEF TypeInv, TypeOK
<1>2. StoresIn(b, v) \in SUBSET (1..Len(code[b]))
  BY DEF StoresIn
<1> QED
  BY <1>1, <1>2 DEF StoresBefore

LEMMA NameFirst ==
  ASSUME TypeInv, NEW b \in Blocks, NEW v
  PROVE  Name(b, v, 1) = NameAtStart(b, v)
BY StorePositions DEF Name

\* A name at the end is that of the latest store, if there is one.
LEMMA NameLast ==
  ASSUME TypeInv, NEW b \in Reachable(succ), NEW v, NEW k \in Nat, k > Len(code[b])
  PROVE  Name(b, v, k) = NameAtEnd(b, v)
<1>0. succ \in Graph /\ b \in Blocks /\ b \in Doms(succ, b) /\ Doms(succ, b) \subseteq Reachable(succ)
  BY TreeChildren, ReachableClosed, DomsReflexive, DomsOfReachable
<1>1. StoresBefore(b, v, k) = StoresIn(b, v)
  BY <1>0, StorePositions
<1>2. CASE b \in Definers(v)
  <2>1. Nearest(Doms(succ, b) \cap Definers(v)) = b
    BY <1>0, <1>2, NearestIs
  <2>2. NameAtEnd(b, v) = Leaves(b, v)
    BY <1>0, <1>2, <2>1 DEF NameAtEnd, NameFrom
  <2>3. StoresIn(b, v) = {} => v \in phis[b]
    BY <1>2 DEF Definers, Defs, PhiBlocks
  <2> QED
    BY <1>1, <2>2, <2>3 DEF Name, Leaves, NameAtStart
<1>3. CASE b \notin Definers(v)
  <2>1. StoresIn(b, v) = {} /\ v \notin phis[b]
    BY <1>0, <1>3 DEF Definers, Defs, PhiBlocks
  <2>2. Doms(succ, b) \cap Definers(v) = StrictDoms(succ, b) \cap Definers(v)
    BY <1>3 DEF StrictDoms
  <2> QED
    BY <1>1, <2>1, <2>2 DEF Name, NameAtStart, NameAtEnd, NameFrom
<1> QED
  BY <1>2, <1>3

\* A store gives its variable a new name; nothing else does.
LEMMA NameStep ==
  ASSUME TypeInv, NEW b \in Blocks, NEW v, NEW k \in 1..Len(code[b])
  PROVE  Name(b, v, k + 1) = IF k \in StoresIn(b, v) THEN get_rval(<<b, k>>) ELSE Name(b, v, k)
<1>0. Len(code[b]) \in Nat /\ StoresIn(b, v) \in SUBSET (1..Len(code[b])) /\ k \in Nat
  BY StorePositions
<1>1. CASE k \in StoresIn(b, v)
  <2>1. k \in StoresBefore(b, v, k + 1)
    BY <1>0, <1>1 DEF StoresBefore
  <2>2. StoresBefore(b, v, k + 1) \in SUBSET Nat /\ \A j \in StoresBefore(b, v, k + 1) : j <= k
    BY <1>0 DEF StoresBefore
  <2>3. Latest(StoresBefore(b, v, k + 1)) = k
    BY <2>1, <2>2, LatestIs
  <2> QED
    BY <1>1, <2>1, <2>3 DEF Name
<1>2. CASE k \notin StoresIn(b, v)
  <2>1. StoresBefore(b, v, k + 1) = StoresBefore(b, v, k)
    BY <1>0, <1>2 DEF StoresBefore
  <2> QED
    BY <1>2, <2>1 DEF Name
<1> QED
  BY <1>1, <1>2

\* Down the dominator tree names are handed on, but for those of phis.
LEMMA NameOfChild ==
  ASSUME TypeInv, NEW b, NEW c \in Children(succ, b), NEW v, v \notin phis[c]
  PROVE  NameAtStart(c, v) = NameAtEnd(b, v)
<1>1. succ \in Graph /\ c \in Reachable(succ) /\ c # Entry /\ IDom(succ, c) = b
  BY TreeChildren DEF Children
<1>2. b \in StrictDoms(succ, c) /\ \A e \in StrictDoms(succ, c) : e \in Doms(succ, b)
  BY <1>1, IDomExists
<1>3. c \notin Doms(succ, b)
  BY <1>1, <1>2, DomsAntisymmetric DEF StrictDoms
<1>4. Doms(succ, b) \subseteq Doms(succ, c)
  BY <1>2, DomsTransitive DEF StrictDoms
<1>5. StrictDoms(succ, c) = Doms(succ, b)
  BY <1>2, <1>3, <1>4 DEF StrictDoms
<1> QED
  BY <1>5 DEF NameAtStart, NameAtEnd

\* Where an edge needs no phi, both its ends have one name for the variable:
\* the definitions that the predecessor is below of are those that the
\* successor is below of, or one would have the successor in its frontier.
LEMMA NameAlongEdge ==
  ASSUME TypeInv, PhiInv, phase # "phi", NEW p \in Reachable(succ), NEW s \in succ[p],
         NEW v \in Vars, v \notin phis[s]
  PROVE  NameAtStart(s, v) = NameAtEnd(p, v)
<1>0. succ \in Graph /\ p \in Blocks /\ s \in Reachable(succ) /\ s \in Blocks
      /\ Doms(succ, p) \subseteq Reachable(succ)
  BY TreeChildren, ReachableClosed, DomsOfReachable
<1>1. StrictDoms(succ, s) \subseteq Doms(succ, p)
  BY <1>0, DomsAlongEdge
<1>2. ASSUME NEW d \in Doms(succ, p) \cap Definers(v) PROVE d \in StrictDoms(succ, s)
  <2> SUFFICES ASSUME d \notin StrictDoms(succ, s) PROVE FALSE
    OBVIOUS
  <2>1. s \in Frontier(succ, d)
    BY <1>0 DEF Frontier, Preds
  <2>2. s \in dom_frontier[d]
    BY <1>0, <2>1 DEF TypeInv, ProgramOK, get_dominance_frontier, Reachable
  <2>3. dom_frontier[d] \subseteq PhiBlocks(v)
    BY DEF PhiInv, PhisPlaced, Worklist, Definers
  <2> QED
    BY <2>2, <2>3 DEF PhiBlocks
<1>3. Doms(succ, p) \cap Definers(v) = StrictDoms(succ, s) \cap Definers(v)
  BY <1>1, <1>2
<1> QED
  BY <1>3 DEF NameAtStart, NameAtEnd, NameFrom

-----------------------------------------------------------------------------
(***************************************************************************)
(* Which names there can be.  A load is visible at a point if it has been  *)
(* executed on every path there; a name that is not a load's own comes     *)
(* from a block further up, from a phi of the block or from an access      *)
(* before the point.                                                       *)
(***************************************************************************)
Visible(x, b, k) == x[2] \in StrictDoms(succ, b) \/ (x[2] = b /\ x[3] < k)

Earlier(u, b, k) ==
  u = Garbage \/ u[2] \in StrictDoms(succ, b) \/ (u[2] = b /\ (u[1] = "phi" \/ u[3] < k))

LoadsEarlier == \A x \in LoadValues : repl[x] = x \/ Earlier(repl[x], x[2], x[3])

\* The operand of a store.
LEMMA StoredValue ==
  ASSUME TypeInv, NEW b \in Blocks, NEW k \in 1..Len(code[b]), code[b][k].op = "store"
  PROVE  /\ Instr(<<b, k>>) = code[b][k]
         /\ code[b][k].src = 0 => get_rval(<<b, k>>) = DefValue(<<b, k>>)
         /\ code[b][k].src # 0 =>
              /\ code[b][k].src \in 1..(k-1)
              /\ LoadValue(<<b, code[b][k].src>>) \in LoadValues
              /\ get_rval(<<b, k>>) = repl[LoadValue(<<b, code[b][k].src>>)]
<1>1. code[b] \in Seq(Access) /\ WellFormedBlock(code[b]) /\ DOMAIN repl = LoadValues
  BY DEF TypeInv, TypeOK, ProgramOK
<1>2. Len(code[b]) \in Nat /\ code[b][k] \in Access /\ k \in Nat
  BY <1>1
<1>3. Instr(<<b, k>>) = code[b][k]
  BY DEF Instr
<1>4. code[b][k].src \in Nat
  BY <1>2 DEF Access
<1>5. ASSUME code[b][k].src # 0
      PROVE  /\ code[b][k].src \in 1..(k-1)
             /\ LoadValue(<<b, code[b][k].src>>) \in LoadValues
  <2>1. code[b][k].src > 0
    BY <1>4, <1>5
  <2>2. code[b][k].src < k /\ code[b][code[b][k].src].op = "load"
    BY <1>1, <2>1 DEF WellFormedBlock
  <2>3. code[b][k].src \in 1..(k-1) /\ code[b][k].src \in 1..Len(code[b])
    BY <1>2, <1>4, <2>1, <2>2
  <2>4. <<b, code[b][k].src>> \in Accesses
    BY <2>3 DEF Accesses
  <2>5. Instr(<<b, code[b][k].src>>).op = "load"
    BY <2>2 DEF Instr
  <2> QED
    BY <2>3, <2>4, <2>5 DEF LoadValues
<1>6. code[b][k].src # 0 => get_rval(<<b, k>>) = repl[LoadValue(<<b, code[b][k].src>>)]
  BY <1>1, <1>3, <1>5 DEF get_rval, Current
<1> QED
  BY <1>3, <1>5, <1>6 DEF get_rval

\* The place in a value.
LEMMA ValueIndex ==
  ASSUME TypeInv, NEW u \in Values, u # Garbage
  PROVE  /\ u \in LoadValues \/ u[1] \in {"def", "phi"}
         /\ u[1] # "phi" => u[3] \in Nat
<1>1. CASE u \in LoadValues
  BY <1>1, LoadIndex
<1>2. CASE \E a \in Accesses : u = DefValue(a)
  <2>1. PICK a \in Accesses : u = <<"def", a[1], a[2]>>
    BY <1>2 DEF DefValue
  <2> QED
    BY <2>1, AccessIndex
<1>3. CASE \E b \in Blocks, v \in Vars : u = PhiValue(b, v)
  BY <1>3 DEF PhiValue
<1> QED
  BY <1>1, <1>2, <1>3 DEF Values

LEMMA StoredEarlier ==
  ASSUME TypeInv, LoadsEarlier, NEW b \in Blocks, NEW k \in 1..Len(code[b]),
         code[b][k].op = "store", NEW n \in Nat, k < n
  PROVE  Earlier(get_rval(<<b, k>>), b, n)
<1>1. CASE code[b][k].src = 0
  <2>1. get_rval(<<b, k>>) = <<"def", b, k>>
    BY <1>1, StoredValue DEF DefValue
  <2> QED
    BY <2>1 DEF Earlier
<1>2. CASE code[b][k].src # 0
  <2> DEFINE j == code[b][k].src
             x == LoadValue(<<b, j>>)
  <2>1. j \in 1..(k-1) /\ x \in LoadValues /\ get_rval(<<b, k>>) = repl[x]
    BY <1>2, StoredValue
  <2>2. x[2] = b /\ x[3] = j
    BY DEF LoadValue
  <2>3. j < n /\ j \in Nat
    BY <2>1
  <2> HIDE DEF j, x
  <2>4. CASE repl[x] = x
    BY <2>1, <2>2, <2>3, <2>4 DEF Earlier
  <2>5. CASE Earlier(repl[x], b, j)
    <3>1. CASE repl[x][2] = b /\ repl[x][1] # "phi" /\ repl[x][3] < j /\ repl[x] # Garbage
      <4>1. repl[x] \in Values
        BY <2>1 DEF TypeInv, TypeOK
      <4>2. repl[x][3] \in Nat
        BY <3>1, <4>1, ValueIndex
      <4>3. repl[x][3] < n
        BY <2>3, <3>1, <4>2
      <4> QED
        BY <2>1, <3>1, <4>3 DEF Earlier
    <3> QED
      BY <2>1, <2>5, <3>1 DEF Earlier
  <2> QED
    BY <2>1, <2>2, <2>4, <2>5 DEF LoadsEarlier
<1> QED
  BY <1>1, <1>2

LEMMA StoredIsValue ==
  ASSUME TypeInv, NEW b \in Blocks, NEW k \in 1..Len(code[b]), code[b][k].op = "store"
  PROVE  get_rval(<<b, k>>) \in Values
<1>1. repl \in [LoadValues -> Values] /\ <<b, k>> \in Accesses
  BY DEF TypeInv, TypeOK, Accesses
<1>2. CASE code[b][k].src = 0
  <2>1. get_rval(<<b, k>>) = DefValue(<<b, k>>)
    BY <1>2, StoredValue
  <2> QED
    BY <1>1, <2>1 DEF Values
<1>3. CASE code[b][k].src # 0
  <2>1. PICK x \in LoadValues : get_rval(<<b, k>>) = repl[x]
    BY <1>3, StoredValue
  <2> QED
    BY <1>1, <2>1
<1> QED
  BY <1>2, <1>3

\* What a definition leaves comes from its block or from further up.
LEMMA LeftEarlier ==
  ASSUME TypeInv, LoadsEarlier, NEW v \in Vars, NEW d \in Blocks, d \in Definers(v)
  PROVE  /\ Leaves(d, v) \in Values
         /\ Leaves(d, v) = Garbage \/ Leaves(d, v)[2] \in Doms(succ, d)
<1>1. CASE StoresIn(d, v) = {}
  <2>1. Leaves(d, v) = <<"phi", d, v>>
    BY <1>1 DEF Leaves, PhiValue
  <2>2. d \in Doms(succ, d)
    BY TreeChildren, DomsReflexive
  <2>3. Leaves(d, v) \in Values
    BY <2>1 DEF Values, PhiValue
  <2> QED
    BY <2>1, <2>2, <2>3
<1>2. CASE StoresIn(d, v) # {}
  <2> DEFINE k == Latest(StoresIn(d, v))
  <2>1. k \in StoresIn(d, v) /\ Len(code[d]) \in Nat
    BY <1>2, StorePositions, LatestOf
  <2>2. Leaves(d, v) = get_rval(<<d, k>>)
    BY <1>2 DEF Leaves
  <2> HIDE DEF k
  <2>3. k \in 1..Len(code[d]) /\ code[d][k].op = "store" /\ k \in Nat /\ k + 1 \in Nat /\ k < k + 1
    BY <2>1 DEF StoresIn
  <2>4. Earlier(get_rval(<<d, k>>), d, k + 1)
    BY <2>3, StoredEarlier
  <2>5. d \in Doms(succ, d)
    BY TreeChildren, DomsReflexive
  <2>6. get_rval(<<d, k>>) \in Values
    BY <2>3, StoredIsValue
  <2> QED
    BY <2>2, <2>4, <2>5, <2>6 DEF Earlier, StrictDoms
<1> QED
  BY <1>1, <1>2

LEMMA FromEarlier ==
  ASSUME TypeInv, LoadsEarlier, NEW v \in Vars, NEW b \in Reachable(succ),
         NEW S \in SUBSET Doms(succ, b)
  PROVE  /\ NameFrom(S, v) \in Values
         /\ \/ NameFrom(S, v) = Garbage
            \/ \E d \in S : NameFrom(S, v)[2] \in Doms(succ, d)
<1>1. CASE S \cap Definers(v) = {}
  BY <1>1 DEF NameFrom, Values
<1>2. CASE S \cap Definers(v) # {}
  <2> DEFINE d == Nearest(S \cap Definers(v))
  <2>1. succ \in Graph /\ S \cap Definers(v) \in SUBSET Doms(succ, b)
    BY TreeChildren
  <2>2. d \in S \cap Definers(v)
    BY <1>2, <2>1, NearestOf
  <2>3. NameFrom(S, v) = Leaves(d, v)
    BY <1>2 DEF NameFrom
  <2>4. d \in Blocks
    BY <2>2 DEF Doms
  <2> HIDE DEF d
  <2> QED
    BY <2>2, <2>3, <2>4, LeftEarlier
<1> QED
  BY <1>1, <1>2

LEMMA StartEarlier ==
  ASSUME TypeInv, LoadsEarlier, NEW v \in Vars, NEW b \in Reachable(succ)
  PROVE  /\ NameAtStart(b, v) \in Values
         /\ v \notin phis[b] => NameAtStart(b, v) = Garbage \/ NameAtStart(b, v)[2] \in StrictDoms(succ, b)
<1>0. succ \in Graph /\ b \in Blocks
  BY TreeChildren, ReachableClosed
<1>1. CASE v \in phis[b]
  BY <1>0, <1>1 DEF NameAtStart, Values
<1>2. CASE v \notin phis[b]
  <2>1. NameAtStart(b, v) = NameFrom(StrictDoms(succ, b), v)
    BY <1>2 DEF NameAtStart
  <2>2. StrictDoms(succ, b) \in SUBSET Doms(succ, b)
    BY DEF StrictDoms
  <2>3. \A d \in StrictDoms(succ, b) : Doms(succ, d) \subseteq StrictDoms(succ, b)
    <3> SUFFICES ASSUME NEW d \in StrictDoms(succ, b), NEW e \in Doms(succ, d)
                 PROVE  e \in StrictDoms(succ, b)
      OBVIOUS
    <3>1. e \in Doms(succ, b)
      BY DomsTransitive DEF StrictDoms
    <3>2. e # b
      BY DomsAntisymmetric DEF StrictDoms
    <3> QED
      BY <3>1, <3>2 DEF StrictDoms
  <2> QED
    BY <2>1, <2>2, <2>3, FromEarlier
<1> QED
  BY <1>1, <1>2

LEMMA NameEarlier ==
  ASSUME TypeInv, LoadsEarlier, NEW v \in Vars, NEW b \in Reachable(succ), NEW k \in Nat
  PROVE  Name(b, v, k) \in Values /\ Earlier(Name(b, v, k), b, k)
<1>0. b \in Blocks
  BY TreeChildren, ReachableClosed
<1>1. CASE StoresBefore(b, v, k) = {}
  <2>1. Name(b, v, k) = NameAtStart(b, v)
    BY <1>1 DEF Name
  <2>2. v \in phis[b] => NameAtStart(b, v) = <<"phi", b, v>>
    BY DEF NameAtStart, PhiValue
  <2> QED
    BY <2>1, <2>2, StartEarlier DEF Earlier
<1>2. CASE StoresBefore(b, v, k) # {}
  <2> DEFINE j == Latest(StoresBefore(b, v, k))
  <2>1. Len(code[b]) \in Nat /\ StoresBefore(b, v, k) \in SUBSET (1..Len(code[b]))
    BY <1>0, StorePositions
  <2>2. j \in StoresBefore(b, v, k)
    BY <1>2, <2>1, LatestOf
  <2>3. Name(b, v, k) = get_rval(<<b, j>>)
    BY <1>2 DEF Name
  <2> HIDE DEF j
  <2>4. j \in 1..Len(code[b]) /\ j < k /\ code[b][j].op = "store"
    BY <2>2 DEF StoresBefore, StoresIn
  <2> QED
    BY <1>0, <2>3, <2>4, StoredEarlier, StoredIsValue
<1> QED
  BY <1>1, <1>2

-----------------------------------------------------------------------------
(***************************************************************************)
(* A name stands when the loads visible at its point do.                   *)
(***************************************************************************)
SameLoad(x) == repl'[x] = repl[x]

LEMMA StoredStands ==
  ASSUME TypeInv, UNCHANGED progVars, DOMAIN repl' = DOMAIN repl,
         NEW b \in Blocks, NEW k \in 1..Len(code[b]), code[b][k].op = "store",
         NEW n \in Nat, k < n,
         \A x \in LoadValues : x[2] = b /\ x[3] < n => SameLoad(x)
  PROVE  get_rval(<<b, k>>)' = get_rval(<<b, k>>)
<1>1. code' = code /\ Instr(<<b, k>>) = code[b][k] /\ DOMAIN repl = LoadValues
  BY StoredValue DEF progVars, TypeInv, TypeOK
<1>2. CASE code[b][k].src = 0
  BY <1>1, <1>2 DEF get_rval, Instr, DefValue
<1>3. CASE code[b][k].src # 0
  <2> DEFINE j == code[b][k].src
             x == LoadValue(<<b, j>>)
  <2>1. j \in 1..(k-1) /\ x \in LoadValues /\ get_rval(<<b, k>>) = repl[x]
    BY <1>3, StoredValue
  <2>2. x[2] = b /\ x[3] = j
    BY DEF LoadValue
  <2>3. j < n
    BY <2>1
  <2>4. repl'[x] = repl[x]
    BY <2>1, <2>2, <2>3 DEF SameLoad
  <2>5. get_rval(<<b, k>>)' = repl'[x]
    BY <1>1, <1>3, <2>1 DEF get_rval, Instr, Current, LoadValue
  <2> QED
    BY <2>1, <2>4, <2>5
<1> QED
  BY <1>2, <1>3

LEMMA LeftStands ==
  ASSUME TypeInv, UNCHANGED progVars, DOMAIN repl' = DOMAIN repl, NEW d \in Blocks, NEW v,
         \A x \in LoadValues : x[2] = d => SameLoad(x)
  PROVE  Leaves(d, v)' = Leaves(d, v)
<1>0. StoresIn(d, v)' = StoresIn(d, v)
  BY SameProgram
<1>1. CASE StoresIn(d, v) = {}
  BY <1>0, <1>1 DEF Leaves, PhiValue
<1>2. CASE StoresIn(d, v) # {}
  <2>1. PICK k : k = Latest(StoresIn(d, v))
    OBVIOUS
  <2>2. k \in StoresIn(d, v) /\ Len(code[d]) \in Nat
    BY <1>2, <2>1, StorePositions, LatestOf
  <2>3. k \in 1..Len(code[d]) /\ code[d][k].op = "store" /\ k + 1 \in Nat /\ k < k + 1
    BY <2>2 DEF StoresIn
  <2>4. get_rval(<<d, k>>)' = get_rval(<<d, k>>)
    BY <2>3, StoredStands
  <2>5. k = Latest(StoresIn(d, v)')
    BY <1>0, <2>1 DEF Latest
  <2>6. Leaves(d, v)' = get_rval(<<d, k>>)'
    BY <1>0, <1>2, <2>5 DEF Leaves, Latest
  <2> QED
    BY <1>2, <2>1, <2>4, <2>6 DEF Leaves
<1> QED
  BY <1>1, <1>2

LEMMA FromStands ==
  ASSUME TypeInv, UNCHANGED progVars, phis' = phis, DOMAIN repl' = DOMAIN repl,
         NEW b \in Reachable(succ), NEW S \in SUBSET Doms(succ, b), NEW v,
         \A x \in LoadValues : x[2] \in S => SameLoad(x)
  PROVE  NameFrom(S, v)' = NameFrom(S, v)
<1>1. Definers(v)' = Definers(v)
  <2>1. \A c : StoresIn(c, v)' = StoresIn(c, v)
    BY SameProgram
  <2> QED
    BY <2>1 DEF Definers, Defs, PhiBlocks
<1>2. CASE S \cap Definers(v) = {}
  BY <1>1, <1>2 DEF NameFrom
<1>3. CASE S \cap Definers(v) # {}
  <2>1. PICK d : d = Nearest(S \cap Definers(v))
    OBVIOUS
  <2>2. d \in S \cap Definers(v)
    BY <1>3, <2>1, TreeChildren, NearestOf
  <2>3. d = Nearest(S \cap Definers(v))'
    BY <1>1, <2>1 DEF Nearest, progVars
  <2>4. Leaves(d, v)' = Leaves(d, v)
    BY <2>2, LeftStands DEF Doms
  <2>5. NameFrom(S, v)' = Leaves(d, v)'
    BY <1>1, <1>3, <2>3 DEF NameFrom
  <2> QED
    BY <1>3, <2>1, <2>4, <2>5 DEF NameFrom
<1> QED
  BY <1>2, <1>3

LEMMA StartStands ==
  ASSUME TypeInv, UNCHANGED progVars, phis' = phis, DOMAIN repl' = DOMAIN repl,
         NEW b \in Reachable(succ), NEW v,
         \A x \in LoadValues : x[2] \in StrictDoms(succ, b) => SameLoad(x)
  PROVE  NameAtStart(b, v)' = NameAtStart(b, v)
<1>1. CASE v \in phis[b]
  BY <1>1 DEF NameAtStart, PhiValue
<1>2. CASE v \notin phis[b]
  <2>1. PICK S : S = StrictDoms(succ, b)
    OBVIOUS
  <2>2. S \in SUBSET Doms(succ, b) /\ S = StrictDoms(succ, b)'
    BY <2>1 DEF StrictDoms, progVars
  <2>3. NameFrom(S, v)' = NameFrom(S, v)
    BY <2>1, <2>2, FromStands
  <2> QED
    BY <1>2, <2>1, <2>2, <2>3 DEF NameAtStart
<1> QED
  BY <1>1, <1>2

LEMMA EndStands ==
  ASSUME TypeInv, UNCHANGED progVars, phis' = phis, DOMAIN repl' = DOMAIN repl,
         NEW b \in Reachable(succ), NEW v,
         \A x \in LoadValues : x[2] \in Doms(succ, b) => SameLoad(x)
  PROVE  NameAtEnd(b, v)' = NameAtEnd(b, v)
<1>1. PICK S : S = Doms(succ, b)
  OBVIOUS
<1>2. S \in SUBSET Doms(succ, b) /\ S = Doms(succ, b)'
  BY <1>1 DEF progVars
<1>3. NameFrom(S, v)' = NameFrom(S, v)
  BY <1>1, <1>2, FromStands
<1> QED
  BY <1>1, <1>2, <1>3 DEF NameAtEnd

LEMMA NameStands ==
  ASSUME TypeInv, UNCHANGED progVars, phis' = phis, DOMAIN repl' = DOMAIN repl,
         NEW b \in Reachable(succ), NEW v, NEW k \in Nat,
         \A x \in LoadValues : Visible(x, b, k) => SameLoad(x)
  PROVE  Name(b, v, k)' = Name(b, v, k)
<1>0. b \in Blocks /\ StoresBefore(b, v, k)' = StoresBefore(b, v, k)
  BY TreeChildren, ReachableClosed, SameProgram DEF StoresBefore
<1>1. CASE StoresBefore(b, v, k) = {}
  <2>1. NameAtStart(b, v)' = NameAtStart(b, v)
    BY StartStands DEF Visible
  <2> QED
    BY <1>0, <1>1, <2>1 DEF Name
<1>2. CASE StoresBefore(b, v, k) # {}
  <2>1. PICK j : j = Latest(StoresBefore(b, v, k))
    OBVIOUS
  <2>2. Len(code[b]) \in Nat /\ StoresBefore(b, v, k) \in SUBSET (1..Len(code[b]))
    BY <1>0, StorePositions
  <2>3. j \in StoresBefore(b, v, k)
    BY <1>2, <2>1, <2>2, LatestOf
  <2>4. j \in 1..Len(code[b]) /\ j < k /\ code[b][j].op = "store"
    BY <2>3 DEF StoresBefore, StoresIn
  <2>5. get_rval(<<b, j>>)' = get_rval(<<b, j>>)
    BY <1>0, <2>4, StoredStands DEF Visible
  <2>6. j = Latest(StoresBefore(b, v, k))'
    BY <1>0, <2>1 DEF Latest
  <2>7. Name(b, v, k)' = get_rval(<<b, j>>)'
    BY <1>0, <1>2, <2>6 DEF Name
  <2> QED
    BY <1>2, <2>1, <2>5, <2>7 DEF Name
<1> QED
  BY <1>1, <1>2

-----------------------------------------------------------------------------
(***************************************************************************)
(* The stacks, once more: when the calls further in have returned, the top *)
(* is the name at the end of the block of the call.  w[b] is that name.    *)
(***************************************************************************)
TopOf(s, m) == IF m = 0 THEN Garbage ELSE s[m]

Ends(h, bbs, n, s, w) == \A i \in 1..n : i # n => TopOf(s, h[i+1]) = w[bbs[i]]

NamedStack(s, m, bbs, n, p, t, w) ==
  IF n = 0 THEN m = 0
  ELSE \E h \in [Nat -> Nat] : Heights(h, bbs, n, p) /\ Ends(h, bbs, n, s, w) /\ m = h[n] + t

LEMMA NamedStart ==
  ASSUME NEW s, NEW m \in Nat, NEW bbs, NEW p, NEW w
  PROVE  NamedStack(s, m, bbs, 1, p, m, w)
<1> DEFINE h == [i \in Nat |-> 0]
<1>1. h \in [Nat -> Nat] /\ \A i \in Nat : h[i] = 0
  OBVIOUS
<1> HIDE DEF h
<1>2. \A i \in 1..1 : i = 1
  OBVIOUS
<1>3. Heights(h, bbs, 1, p) /\ Ends(h, bbs, 1, s, w)
  BY <1>1, <1>2 DEF Heights, Ends
<1> QED
  BY <1>1, <1>3 DEF NamedStack

LEMMA NamedSame ==
  ASSUME NEW s, NEW m, NEW bbs, NEW n, NEW p, NEW t, NEW w, NEW u,
         NamedStack(s, m, bbs, n, p, t, w), \A i \in 1..n : i # n => u[bbs[i]] = w[bbs[i]]
  PROVE  NamedStack(s, m, bbs, n, p, t, u)
BY DEF NamedStack, Ends

\* The heights of the calls further out.
LEMMA LowerHeights ==
  ASSUME NEW n \in Nat \ {0}, NEW h \in [Nat -> Nat], NEW bbs, NEW p, Heights(h, bbs, n, p),
         NEW i \in 1..n, i # n
  PROVE  h[i+1] \in Nat /\ h[i+1] <= h[n]
<1>1. i + 1 \in 1..n /\ n \in 1..n /\ i + 1 <= n
  BY NextIndex
<1> QED
  BY <1>1 DEF Heights

\* What is below the top does not notice what is pushed.
LEMMA LowerTop ==
  ASSUME NEW s, NEW r, NEW m \in Nat, \A k \in 1..m : r[k] = s[k], NEW j \in Nat, j <= m
  PROVE  TopOf(r, j) = TopOf(s, j)
BY DEF TopOf

LEMMA NamedCall ==
  ASSUME NEW bbs, NEW d, NEW s, NEW r, NEW p, NEW w, NEW n \in Nat \ {0}, NEW m \in Nat, NEW l \in Nat,
         \A i \in 1..n : d[i] = bbs[i], \A k \in 1..m : r[k] = s[k], p[bbs[n]] \in Nat,
         TopOf(s, m) = w[bbs[n]], NamedStack(s, m, bbs, n, p, p[bbs[n]], w)
  PROVE  NamedStack(r, l, d, n + 1, p, l - m, w)
<1>1. PICK h \in [Nat -> Nat] : /\ Heights(h, bbs, n, p) /\ Ends(h, bbs, n, s, w)
                                /\ m = h[n] + p[bbs[n]]
  BY DEF NamedStack
<1>2. PICK g \in [Nat -> Nat] : g[n+1] = m /\ \A i \in 1..n : g[i] = h[i]
  BY Extension
<1>3. \A i \in 1..n : d[i] = bbs[i] /\ g[i] = h[i]
  BY <1>2
<1>4. Heights(g, d, n + 1, p)
  BY <1>1, <1>2, <1>3, HeightsMore
<1>5. ASSUME NEW i \in 1..(n+1), i # n + 1 PROVE TopOf(r, g[i+1]) = w[d[i]]
  <2>1. CASE i = n
    <3>1. TopOf(r, m) = TopOf(s, m)
      BY DEF TopOf
    <3> QED
      BY <1>2, <1>3, <2>1, <3>1
  <2>2. CASE i # n
    <3>1. i \in 1..n /\ i + 1 \in 1..n
      BY <1>5, <2>2, NextIndex
    <3>2. h[i+1] \in Nat /\ h[i+1] <= h[n]
      BY <1>1, <2>2, <3>1, LowerHeights
    <3>3. h[i+1] <= m
      BY <1>1, <3>2
    <3>4. TopOf(r, h[i+1]) = TopOf(s, h[i+1])
      BY <3>2, <3>3, LowerTop
    <3>5. TopOf(s, h[i+1]) = w[bbs[i]]
      BY <1>1, <2>2, <3>1 DEF Ends
    <3> QED
      BY <1>3, <3>1, <3>4, <3>5
  <2> QED
    BY <2>1, <2>2
<1>6. l = g[n+1] + (l - m) /\ n + 1 # 0
  BY <1>2
<1>7. Ends(g, d, n + 1, r, w)
  BY <1>5 DEF Ends
<1> QED
  BY <1>4, <1>6, <1>7 DEF NamedStack

LEMMA NamedPush ==
  ASSUME NEW bbs, NEW s, NEW r, NEW p, NEW w, NEW n \in Nat \ {0}, NEW m \in Nat, NEW t \in Nat,
         \A k \in 1..m : r[k] = s[k], NamedStack(s, m, bbs, n, p, t, w)
  PROVE  NamedStack(r, m + 1, bbs, n, p, t + 1, w)
<1>1. PICK h \in [Nat -> Nat] : Heights(h, bbs, n, p) /\ Ends(h, bbs, n, s, w) /\ m = h[n] + t
  BY DEF NamedStack
<1>2. h[n] <= m /\ m + 1 = h[n] + (t + 1) /\ h[n] \in Nat
  BY <1>1
<1>3. ASSUME NEW i \in 1..n, i # n PROVE TopOf(r, h[i+1]) = w[bbs[i]]
  <2>1. h[i+1] \in Nat /\ h[i+1] <= h[n]
    BY <1>1, <1>3, LowerHeights
  <2>2. h[i+1] <= m
    BY <1>2, <2>1
  <2>3. TopOf(r, h[i+1]) = TopOf(s, h[i+1])
    BY <2>1, <2>2, LowerTop
  <2> QED
    BY <1>1, <1>3, <2>3 DEF Ends
<1>4. Ends(h, bbs, n, r, w)
  BY <1>3 DEF Ends
<1> QED
  BY <1>1, <1>2, <1>4 DEF NamedStack

LEMMA NamedReturn ==
  ASSUME NEW bbs, NEW d, NEW s, NEW r, NEW p, NEW w, NEW q, NEW m, NEW n \in Nat, NEW l \in Nat, NEW t \in Nat,
         Cut(d, n, bbs, q, 1), Cut(r, l, s, m, t), NamedStack(s, m, bbs, q, p, t, w)
  PROVE  /\ NamedStack(r, l, d, n, p, p[d[n]], w)
         /\ n # 0 => TopOf(r, l) = w[d[n]]
<1>1. /\ q = n + 1 /\ m = l + t /\ m \in Nat /\ q # 0
      /\ \A i \in 1..n : d[i] = bbs[i] /\ \A k \in 1..l : r[k] = s[k]
  BY DEF Cut
<1>2. PICK h \in [Nat -> Nat] : Heights(h, bbs, q, p) /\ Ends(h, bbs, q, s, w) /\ m = h[q] + t
  BY <1>1 DEF NamedStack
<1>3. l = h[q] /\ l <= m
  BY <1>1, <1>2
<1>4. CASE n = 0
  BY <1>1, <1>2, <1>3, <1>4 DEF Heights, NamedStack
<1>5. CASE n # 0
  <2>0. n \in 1..n /\ \A i \in 1..n : i \in 1..q /\ i # q /\ i + 1 \in 1..q /\ i + 1 <= q
    BY <1>1, <1>5
  <2>1. Heights(h, d, n, p)
    BY <1>1, <1>2, <2>0 DEF Heights
  <2>2. h[q] = h[n] + p[d[n]]
    BY <1>1, <1>2, <2>0 DEF Heights
  <2>3. ASSUME NEW i \in 1..n PROVE TopOf(r, h[i+1]) = w[d[i]]
    <3>1. h[i+1] \in Nat /\ h[i+1] <= h[q]
      BY <1>1, <1>2, <2>0, LowerHeights
    <3>2. TopOf(r, h[i+1]) = TopOf(s, h[i+1])
      <4>1. \A k \in 1..l : r[k] = s[k]
        BY <1>1, <1>5 DEF Cut
      <4> QED
        BY <1>3, <3>1, <4>1 DEF TopOf
    <3>3. TopOf(s, h[i+1]) = w[bbs[i]]
      BY <1>2, <2>0 DEF Ends
    <3> QED
      BY <1>1, <3>2, <3>3
  <2>4. Ends(h, d, n, r, w)
    BY <2>3 DEF Ends
  <2>5. TopOf(r, l) = w[d[n]]
    BY <1>1, <1>3, <2>0, <2>3
  <2>6. NamedStack(r, l, d, n, p, p[d[n]], w)
    BY <1>1, <1>3, <1>5, <2>1, <2>2, <2>4 DEF NamedStack
  <2> QED
    BY <2>5, <2>6
<1> QED
  BY <1>4, <1>5

-----------------------------------------------------------------------------
(***************************************************************************)
(* The pass.  Until a block is done with its accesses no successor of it   *)
(* has been filled, and until it is done with these no child of it has     *)
(* been called, so that no block that has been visited is below it.        *)
(***************************************************************************)
Fresh ==
  /\ Renaming /\ (InCode \/ fill # {}) => Top.left = Children(succ, Top.bb)
  /\ InCode => fill = succ[Top.bb]

LEMMA ReturnTop ==
  ASSUME TypeInv, Return
  PROVE  /\ fill' = {} /\ Recursing /\ Renaming
         /\ Renaming' => \E n \in Nat \ {0} :
              /\ n + 1 = Len(frames) /\ Len(frames') = n /\ n \in 1..Len(frames)
              /\ Top' = frames[n] /\ Top'.bb = Open[n] /\ Open'[n] = Open[n] /\ Open[n] \in Blocks
              /\ Len(code[Open[n]]) \in Nat /\ pc' = Len(code[Open[n]]) + 1
<1>1. UNCHANGED progVars /\ Recursing /\ Renaming /\ fill' = {}
  BY DEF Return, Recursing
<1> SUFFICES ASSUME Renaming'
             PROVE  \E n \in Nat \ {0} :
               /\ n + 1 = Len(frames) /\ Len(frames') = n /\ n \in 1..Len(frames)
               /\ Top' = frames[n] /\ Top'.bb = Open[n] /\ Open'[n] = Open[n] /\ Open[n] \in Blocks
               /\ Len(code[Open[n]]) \in Nat /\ pc' = Len(code[Open[n]]) + 1
  BY <1>1
<1>2. PICK n \in Nat : n + 1 = Len(frames)
  <2>1. Len(frames) \in Nat \ {0}
    BY <1>1, TopOK
  <2>2. Len(frames) - 1 \in Nat /\ (Len(frames) - 1) + 1 = Len(frames)
    BY <2>1
  <2> QED
    BY <2>2
<1>3. frames' \in Seq(Calls) /\ Len(frames') = n /\ \A i \in 1..n : frames'[i] = frames[i]
  BY <1>2, ReturnOK
<1>4. n # 0
  BY <1>3 DEF Renaming
<1>5. n \in 1..n /\ n \in 1..(n+1) /\ n \in 1..Len(frames) /\ Len(frames) > 1 /\ Len(frames) - 1 = n
  BY <1>2, <1>4
<1>6. Top' = frames[n]
  BY <1>3, <1>5 DEF Top, Last
<1>7. Open[n] = frames[n].bb /\ Open[n] \in Blocks
  BY <1>5, OpenOK
<1>8. Open'[n] = Open[n]
  BY <1>3, <1>5, <1>7 DEF Open
<1>9. pc' = Len(code[Open[n]]) + 1
  BY <1>5, <1>7, ReturnOK
<1>10. Len(code[Open[n]]) \in Nat
  BY <1>7 DEF TypeInv, TypeOK
<1> QED
  BY <1>2, <1>3, <1>4, <1>5, <1>6, <1>7, <1>8, <1>9, <1>10

LEMMA FreshNext == TypeInv /\ OpenPath /\ Fresh /\ [Next]_vars => Fresh'
<1> SUFFICES ASSUME TypeInv, OpenPath, Fresh, [Next]_vars PROVE Fresh'
  OBVIOUS
<1>0. succ' = succ /\ code' = code
  BY NextSameProgram DEF progVars
<1>1. CASE (\E v \in Vars : PickVar(v)) \/ (\E b \in Blocks : PlacePhis(b)) \/ remove_alloca
  BY <1>1 DEF PickVar, PlacePhis, remove_alloca, Fresh, Renaming, InCode
<1>2. CASE StartRename \/ \E c \in Blocks : Recurse(c)
  <2>1. \E c \in Blocks : Top'.bb = c /\ Top'.left = Children(succ, c) /\ fill' = succ[c]
    BY <1>2, EntryAssumption, CallTop
  <2> QED
    BY <1>0, <2>1 DEF Fresh
<1>3. CASE RenameLoad \/ RenameStore
  <2>1. Top'.bb = Top.bb /\ Renaming /\ InCode
    BY <1>3, AccessFrames
  <2>2. Top'.left = Top.left
    <3>1. Here \in Accesses /\ Len(frames) \in Nat \ {0} /\ Len(frames) \in 1..Len(frames)
      BY <2>1, HereOK, OpenOK
    <3>2. frames' = Delete(Here) \/ frames' = frames
      BY <1>3 DEF RenameLoad, RenameStore
    <3>3. Len(frames') = Len(frames) /\ frames'[Len(frames)].left = frames[Len(frames)].left
      BY <2>1, <3>1, <3>2, DeleteOK
    <3> QED
      BY <3>3 DEF Top, Last
  <2>3. fill' = fill
    BY <1>3 DEF RenameLoad, RenameStore
  <2> QED
    BY <1>0, <2>1, <2>2, <2>3 DEF Fresh
<1>4. CASE \E b \in Blocks : FillPhis(b)
  <2>1. UNCHANGED <<phase, frames, pc>> /\ fill # {} /\ Renaming /\ ~InCode
    BY <1>4 DEF FillPhis
  <2>2. Top' = Top /\ ~InCode'
    BY <1>0, <2>1 DEF Top, InCode, Renaming
  <2> QED
    BY <1>0, <2>1, <2>2 DEF Fresh
<1>5. CASE Return
  <2> SUFFICES ASSUME Renaming' PROVE ~InCode'
    BY <1>5, ReturnTop DEF Fresh, InCode
  <2>1. Len(code[Top'.bb]) \in Nat /\ pc' = Len(code[Top'.bb]) + 1
    BY <1>5, ReturnTop
  <2> QED
    BY <1>0, <2>1 DEF InCode
<1>6. CASE UNCHANGED vars
  BY <1>6 DEF vars, nameVars, Fresh, Renaming, InCode, Top, progVars
<1> QED
  BY <1>1, <1>2, <1>3, <1>4, <1>5, <1>6 DEF Next

\* What dominates a block that has been visited has been visited.
LEMMA VisitedAbove ==
  ASSUME TypeInv, OpenPath, NEW b \in Reachable(succ) \ Pending
  PROVE  Doms(succ, b) \subseteq Reachable(succ) \ Pending
<1> SUFFICES ASSUME NEW d \in Doms(succ, b), d \in Pending PROVE FALSE
  BY TreeChildren, DomsOfReachable
<1>1. succ \in Graph /\ phase # "phi"
  BY TreeChildren DEF Pending
<1>2. PICK c \in Waiting : d \in Below(succ, c)
  BY <1>1 DEF Pending
<1>3. b \in Below(succ, d)
  BY DEF Below
<1>4. b \in Below(succ, c)
  BY <1>1, <1>2, <1>3, BelowRoot
<1> QED
  BY <1>1, <1>2, <1>4 DEF Pending

\* A load that is visible at a point re_name has reached is settled.
LEMMA VisibleSettled ==
  ASSUME TypeInv, OpenPath, Fresh, NEW b \in Reachable(succ) \ Pending, NEW k \in Nat,
         Renaming /\ b = Top.bb => k <= pc,
         NEW x \in LoadValues, Visible(x, b, k)
  PROVE  x \in Settled
<1>0. succ \in Graph /\ b \in Doms(succ, b) /\ pc \in Nat /\ x[3] \in Nat
  <2>1. succ \in Graph /\ b \in Blocks
    BY TreeChildren, ReachableClosed
  <2> QED
    BY <2>1, DomsReflexive, LoadIndex DEF TypeInv, TypeOK
<1>1. x[2] \in Doms(succ, b)
  BY <1>0 DEF Visible, StrictDoms
<1>2. x[2] \in Reachable(succ) \ Pending
  BY <1>1, VisitedAbove
<1>3. ASSUME Renaming, x[2] = Top.bb PROVE x[3] < pc
  <2>1. CASE b = Top.bb
    BY <1>0, <1>3, <2>1 DEF Visible, StrictDoms
  <2>2. CASE b # Top.bb
    <3>1. ~InCode
      <4> SUFFICES ASSUME InCode PROVE FALSE
        OBVIOUS
      <4>1. Top.left = Children(succ, Top.bb)
        BY <1>3 DEF Fresh
      <4>2. b \in Below(succ, Top.bb)
        BY <1>1, <1>3 DEF Below
      <4>3. PICK c \in Children(succ, Top.bb) : b \in Below(succ, c)
        BY <1>0, <2>2, <4>2, BelowChildren
      <4>4. Len(frames) \in 1..Len(frames) /\ Top = frames[Len(frames)] /\ phase # "phi"
        BY <1>3, TopOK DEF Renaming
      <4>5. c \in Waiting
        BY <4>1, <4>4 DEF Waiting
      <4> QED
        BY <4>3, <4>4, <4>5 DEF Pending
    <3>2. Len(code[x[2]]) \in Nat /\ x[3] <= Len(code[x[2]])
      BY LoadIndex
    <3> QED
      BY <1>0, <1>3, <3>1, <3>2 DEF InCode
  <2> QED
    BY <2>1, <2>2
<1> QED
  BY <1>2, <1>3 DEF Settled

VarOf(x) == code[x[2]][x[3]].var

LoadNamed(x) ==
  \E v \in Vars :
    /\ v = VarOf(x)
    /\ repl[x] = Name(x[2], v, x[3]) \/ (Name(x[2], v, x[3]) = Garbage /\ repl[x] = x)

\* A load has become the name of its variable, or is still itself where the
\* variable has none.
LoadsNamed == \A x \in Settled : LoadNamed(x)

TopsNamed ==
  Renaming => \A v \in Vars :
    TopOf(var_val_stack[v], Len(var_val_stack[v])) = Name(Top.bb, v, pc)

EndNames(v) == [b \in Blocks |-> NameAtEnd(b, v)]

EndsNamed ==
  \A v \in Vars :
    NamedStack(var_val_stack[v], Len(var_val_stack[v]), Open, Len(frames), Pushes(v), Depth(v),
               EndNames(v))

\* A phi has, for each edge that has been dealt with, the name at its start.
PairNamed(b, v, p) ==
  IF v \in phis[b] /\ Passed(p, b)
  THEN \/ PairsFrom(b, v, p) = {<<NameAtEnd(p, v), p>>}
       \/ PairsFrom(b, v, p) = {} /\ NameAtEnd(p, v) = Garbage
  ELSE PairsFrom(b, v, p) = {}

PairsNamed == \A b \in Blocks : \A v \in Vars : \A p \in Preds(succ, b) : PairNamed(b, v, p)

NameInv == LoadsEarlier /\ LoadsNamed /\ Fresh /\ TopsNamed /\ EndsNamed /\ PairsNamed

WalkInv == TypeInv /\ PhiInv /\ OpenPath /\ ReplInv /\ StackInv /\ Found

\* What a step of re_name leaves as it was.
Standing ==
  /\ UNCHANGED progVars /\ phis' = phis /\ DOMAIN repl' = DOMAIN repl
  /\ \A x \in Settled : SameLoad(x)

LEMMA ReachedStands ==
  ASSUME TypeInv, OpenPath, Fresh, Standing, NEW b \in Reachable(succ) \ Pending, NEW v,
         NEW k \in Nat, Renaming /\ b = Top.bb => k <= pc
  PROVE  Name(b, v, k)' = Name(b, v, k)
<1>1. \A x \in LoadValues : Visible(x, b, k) => SameLoad(x)
  BY VisibleSettled DEF Standing
<1> QED
  BY <1>1, NameStands DEF Standing

LEMMA ReachedEnd ==
  ASSUME TypeInv, OpenPath, Fresh, Standing, NEW b \in Reachable(succ) \ Pending, NEW v,
         InCode => b # Top.bb
  PROVE  NameAtEnd(b, v)' = NameAtEnd(b, v)
<1>0. b \in Blocks /\ Len(code[b]) \in Nat /\ pc \in Nat
  BY TreeChildren, ReachableClosed DEF TypeInv, TypeOK
<1>1. PICK k \in Nat : k = Len(code[b]) + 1
  BY <1>0
<1>2. Renaming /\ b = Top.bb => k <= pc
  BY <1>0, <1>1 DEF InCode
<1>3. ASSUME NEW x \in LoadValues, x[2] \in Doms(succ, b) PROVE SameLoad(x)
  <2>0. x[3] \in Nat /\ x[3] <= Len(code[x[2]])
    BY LoadIndex
  <2>1. x[2] = b => x[3] < k
    BY <1>0, <1>1, <2>0
  <2>2. Visible(x, b, k)
    BY <1>3, <2>1 DEF Visible, StrictDoms
  <2> QED
    BY <1>2, <2>2, VisibleSettled DEF Standing
<1> QED
  BY <1>3, EndStands DEF Standing

\* A load that is settled keeps the name it got.
LEMMA LoadsStand ==
  ASSUME TypeInv, OpenPath, Fresh, LoadsNamed, Standing, NEW x \in Settled
  PROVE  LoadNamed(x)'
<1>1. PICK v \in Vars : /\ v = VarOf(x)
                        /\ \/ repl[x] = Name(x[2], v, x[3])
                           \/ Name(x[2], v, x[3]) = Garbage /\ repl[x] = x
  BY DEF LoadsNamed, LoadNamed
<1>2. /\ x[2] \in Reachable(succ) \ Pending /\ x[3] \in Nat
      /\ Renaming /\ x[2] = Top.bb => x[3] <= pc
  <2>1. /\ x \in LoadValues /\ x[2] \in Reachable(succ) \ Pending
        /\ Renaming /\ x[2] = Top.bb => x[3] < pc
    BY DEF Settled
  <2>2. x[3] \in Nat
    BY <2>1, LoadIndex
  <2>3. pc \in Nat
    BY DEF TypeInv, TypeOK
  <2> QED
    BY <2>1, <2>2, <2>3
<1>3. Name(x[2], v, x[3])' = Name(x[2], v, x[3])
  BY <1>2, ReachedStands
<1>4. v = VarOf(x)' /\ repl'[x] = repl[x]
  BY <1>1 DEF VarOf, Standing, progVars, SameLoad
<1> QED
  BY <1>1, <1>3, <1>4 DEF LoadNamed

\* Steps that go past no load.
LEMMA LoadsKept ==
  ASSUME TypeInv, OpenPath, Fresh, LoadsNamed, LoadsEarlier, UNCHANGED progVars, phis' = phis,
         repl' = repl, Settled' = Settled
  PROVE  LoadsNamed' /\ LoadsEarlier' /\ Standing
<1>0. Standing /\ LoadValues' = LoadValues /\ succ' = succ
  BY SameProgram DEF Standing, SameLoad, progVars
<1>1. LoadsEarlier'
  BY <1>0 DEF LoadsEarlier, Earlier
<1>2. \A x \in Settled : LoadNamed(x)'
  BY <1>0, LoadsStand
<1> QED
  BY <1>0, <1>1, <1>2 DEF LoadsNamed

\* Steps that deal with no edge.
LEMMA PairsKept ==
  ASSUME TypeInv, OpenPath, Fresh, PairsNamed, Standing, UNCHANGED phi_pairs,
         \A b \in Blocks : \A p \in Preds(succ, b) : Passed(p, b)' <=> Passed(p, b)
  PROVE  PairsNamed'
<1>1. \A b, v, p : PairsFrom(b, v, p)' = PairsFrom(b, v, p)
  BY DEF PairsFrom
<1>2. phis' = phis /\ \A b : Preds(succ, b)' = Preds(succ, b)
  BY DEF Preds, progVars, Standing
<1>3. ASSUME NEW b \in Blocks, NEW v \in Vars, NEW p \in Preds(succ, b), Passed(p, b)
      PROVE  NameAtEnd(p, v)' = NameAtEnd(p, v)
  <2>1. p \in Reachable(succ) \ Pending /\ (InCode => p # Top.bb)
    BY <1>3 DEF Passed, Fresh, InCode, Preds
  <2> QED
    BY <2>1, ReachedEnd
<1>4. ASSUME NEW b \in Blocks, NEW v \in Vars, NEW p \in Preds(succ, b) PROVE PairNamed(b, v, p)'
  <2>1. PairNamed(b, v, p)
    BY DEF PairsNamed
  <2> QED
    BY <1>1, <1>2, <1>3, <2>1 DEF PairNamed
<1> QED
  BY <1>2, <1>4 DEF PairsNamed

\* The calls further out are of other blocks.
LEMMA OpenApart ==
  ASSUME TypeInv, OpenPath, Renaming, NEW i \in 1..Len(frames), i # Len(frames)
  PROVE  Open[i] # Top.bb /\ Open[i] \in Reachable(succ) \ Pending
<1>0. succ \in Graph /\ Len(frames) \in Nat \ {0} /\ phase # "phi"
  BY TreeChildren, TopOK DEF Renaming
<1>1. i + 1 \in 1..Len(frames) /\ Len(frames) \in 1..Len(frames) /\ i < Len(frames) /\ i + 1 <= Len(frames)
  BY <1>0
<1>2. frames[i+1].bb \in Children(succ, frames[i].bb)
  BY <1>1 DEF OpenPath
<1>3. Top.bb \in Below(succ, frames[i+1].bb) /\ Open[i] = frames[i].bb /\ Top = frames[Len(frames)]
  BY <1>1, TopOK DEF OpenPath, Open
<1>4. frames[i].bb \in Reachable(succ) \ Pending
  BY <1>0, OpenNotPending
<1>5. frames[i].bb \notin Below(succ, frames[i+1].bb)
  BY <1>0, <1>2, <1>4, ChildrenApart
<1> QED
  BY <1>3, <1>4, <1>5

\* Steps that neither push nor pop.
LEMMA EndsKept ==
  ASSUME TypeInv, OpenPath, Fresh, Standing, EndsNamed, frames = <<>> \/ Renaming,
         Open' = Open, Len(frames') = Len(frames), var_val_stack' = var_val_stack,
         \A v \in Vars : Depth(v)' = Depth(v)
  PROVE  EndsNamed'
<1> SUFFICES ASSUME NEW v \in Vars
             PROVE  NamedStack(var_val_stack[v], Len(var_val_stack[v]), Open, Len(frames), Pushes(v),
                               Depth(v), EndNames(v)')
  BY SamePushesOf DEF EndsNamed, Standing
<1>1. ASSUME NEW i \in 1..Len(frames), i # Len(frames)
      PROVE  EndNames(v)'[Open[i]] = EndNames(v)[Open[i]]
  <2>1. Renaming
    BY <1>1
  <2>2. Open[i] # Top.bb /\ Open[i] \in Reachable(succ) \ Pending /\ Open[i] \in Blocks
    BY <1>1, <2>1, OpenApart, OpenOK
  <2>3. PICK b \in Blocks : b = Open[i]
    BY <2>2
  <2>4. NameAtEnd(b, v)' = NameAtEnd(b, v)
    BY <2>2, <2>3, ReachedEnd
  <2> QED
    BY <2>3, <2>4 DEF EndNames
<1>2. PICK u : u = EndNames(v)'
  OBVIOUS
<1> QED
  BY <1>1, <1>2, NamedSame DEF EndsNamed

\* The load in hand becomes the newest value of its variable.
LEMMA LoadHere ==
  ASSUME WalkInv, NameInv, RenameLoad
  PROVE  /\ Standing /\ DOMAIN repl = LoadValues
         /\ \A x \in LoadValues : x # LoadValue(Here) => repl'[x] = repl[x]
         /\ Instr(Here).var \in Vars
         /\ \/ repl'[LoadValue(Here)] = Name(Top.bb, Instr(Here).var, pc)
            \/ /\ Name(Top.bb, Instr(Here).var, pc) = Garbage
               /\ repl'[LoadValue(Here)] = LoadValue(Here)
<1> DEFINE x == LoadValue(Here)
           v == Instr(Here).var
           s == var_val_stack[v]
<1>1. x \in LoadValues \ Settled
  BY SettledAccess DEF WalkInv
<1>2. repl \in [LoadValues -> Values] /\ repl[x] = x
  BY <1>1 DEF WalkInv, TypeInv, TypeOK, ReplInv
<1>3. Renaming /\ InCode /\ UNCHANGED progVars /\ phis' = phis /\ v \in Vars
  <2>1. Renaming /\ InCode /\ UNCHANGED progVars /\ phis' = phis
    BY AccessFrames DEF WalkInv
  <2> QED
    BY <2>1, HereOK DEF WalkInv, Access
<1>4. s \in Seq(Values) /\ Len(s) \in Nat
  BY <1>3, OpenOK DEF WalkInv
<1>5. repl' = IF v \in found
              THEN [repl EXCEPT ![x] = IF s = <<>> THEN Garbage ELSE Last(s)]
              ELSE repl
  BY DEF RenameLoad
<1>6. DOMAIN repl' = DOMAIN repl /\ \A y \in LoadValues : y # x => repl'[y] = repl[y]
  BY <1>2, <1>5
<1>7. Standing
  BY <1>1, <1>3, <1>6 DEF Standing, SameLoad, Settled
<1>8. Name(Top.bb, v, pc) = TopOf(s, Len(s))
  BY <1>3 DEF NameInv, TopsNamed
<1>9. TopOf(s, Len(s)) = IF s = <<>> THEN Garbage ELSE Last(s)
  BY <1>4 DEF TopOf, Last
<1>10. repl'[x] = Name(Top.bb, v, pc) \/ (Name(Top.bb, v, pc) = Garbage /\ repl'[x] = x)
  <2>1. CASE v \in found
    <3>1. repl'[x] = IF s = <<>> THEN Garbage ELSE Last(s)
      BY <1>1, <1>2, <1>5, <2>1
    <3> QED
      BY <1>8, <1>9, <3>1
  <2>2. CASE v \notin found
    <3>1. s = <<>>
      BY <1>3, <2>2 DEF WalkInv, Found
    <3>2. repl'[x] = x
      BY <1>2, <1>5, <2>2
    <3> QED
      BY <1>8, <1>9, <3>1, <3>2
  <2> QED
    BY <2>1, <2>2
<1>11. DOMAIN repl = LoadValues
  BY <1>2
<1> QED
  BY <1>3, <1>6, <1>7, <1>10, <1>11

\* Where the block in hand is left, names change with its stores only.
LEMMA NameOver ==
  ASSUME TypeInv, UNCHANGED progVars, NEW b \in Blocks, NEW v, NEW k \in 1..Len(code[b]),
         k \notin StoresIn(b, v)
  PROVE  Name(b, v, k + 1)' = Name(b, v, k)'
<1>1. StoresIn(b, v) \in SUBSET (1..Len(code[b])) /\ Len(code[b]) \in Nat
  BY StorePositions
<1>2. StoresBefore(b, v, k + 1) = StoresBefore(b, v, k)
  BY <1>1 DEF StoresBefore
<1>3. StoresBefore(b, v, k + 1)' = StoresBefore(b, v, k)'
  BY <1>2, SameProgram DEF StoresBefore
<1> QED
  BY <1>3 DEF Name

LEMMA TopReached ==
  ASSUME TypeInv, OpenPath, Renaming
  PROVE  Top.bb \in Reachable(succ) \ Pending /\ Top.bb \in Blocks /\ pc \in Nat
<1>1. phase # "phi" /\ Len(frames) \in 1..Len(frames) /\ Top = frames[Len(frames)] /\ Top.bb \in Blocks
  BY TopOK DEF Renaming
<1> QED
  BY <1>1, OpenNotPending DEF TypeInv, TypeOK

LEMMA NamesLoad ==
  ASSUME WalkInv, NameInv, RenameLoad
  PROVE  LoadsNamed' /\ LoadsEarlier'
<1>0. TypeInv /\ OpenPath /\ Fresh /\ LoadsEarlier /\ LoadsNamed /\ UNCHANGED progVars
  BY NextSameProgram DEF WalkInv, NameInv, Next
<1>1. PICK x, b, v, k : x = LoadValue(Here) /\ b = Top.bb /\ v = Instr(Here).var /\ k = pc
  OBVIOUS
<1>2. /\ Standing /\ \A y \in LoadValues : y # x => repl'[y] = repl[y]
      /\ v \in Vars
      /\ repl'[x] = Name(b, v, k) \/ (Name(b, v, k) = Garbage /\ repl'[x] = x)
  BY <1>1, LoadHere
<1>3. Settled' = Settled \cup {x} /\ LoadValues' = LoadValues /\ succ' = succ /\ x \in LoadValues
  BY <1>0, <1>1, SettledAccess, SameProgram DEF progVars
<1>4. x = <<"load", b, k>> /\ v = code[b][k].var /\ Renaming
  <2>1. Renaming /\ Instr(Here) = code[Top.bb][pc]
    BY <1>0, AccessFrames
  <2> QED
    BY <1>1, <2>1 DEF LoadValue, Here
<1>5. b \in Reachable(succ) \ Pending /\ k \in Nat
  BY <1>0, <1>1, <1>4, TopReached
<1>6. Name(b, v, k)' = Name(b, v, k)
  BY <1>0, <1>1, <1>2, <1>5, ReachedStands
<1>7. LoadNamed(x)'
  <2>1. v = VarOf(x)' /\ x[2] = b /\ x[3] = k
    BY <1>0, <1>4 DEF VarOf, progVars
  <2> QED
    BY <1>2, <1>6, <2>1 DEF LoadNamed
<1>8. LoadsNamed'
  BY <1>0, <1>2, <1>3, <1>7, LoadsStand DEF LoadsNamed
<1>9. LoadsEarlier'
  <2> SUFFICES ASSUME NEW y \in LoadValues
               PROVE  repl'[y] = y \/ Earlier(repl'[y], y[2], y[3])
    BY <1>3 DEF LoadsEarlier, Earlier
  <2>1. CASE y # x
    BY <1>0, <1>2, <2>1 DEF LoadsEarlier
  <2>2. CASE y = x
    <3>1. Earlier(Name(b, v, k), b, k)
      BY <1>0, <1>2, <1>5, NameEarlier
    <3>2. y[2] = b /\ y[3] = k
      BY <1>4, <2>2
    <3> QED
      BY <1>2, <2>2, <3>1, <3>2
  <2> QED
    BY <2>1, <2>2
<1> QED
  BY <1>8, <1>9

LEMMA TopsLoad ==
  ASSUME WalkInv, NameInv, RenameLoad
  PROVE  TopsNamed' /\ EndsNamed' /\ PairsNamed'
<1>0. /\ TypeInv /\ OpenPath /\ Fresh /\ TopsNamed /\ EndsNamed /\ PairsNamed /\ Standing
      /\ UNCHANGED progVars
  BY LoadHere DEF WalkInv, NameInv, Standing
<1>1. PICK b, k : b = Top.bb /\ k = pc
  OBVIOUS
<1>2. /\ Len(frames') = Len(frames) /\ Open' = Open /\ frames' # <<>> /\ Top'.bb = b /\ Renaming
      /\ phis' = phis /\ pc' = k + 1 /\ k \in 1..Len(code[b]) /\ b \in Blocks
      /\ Instr(Here) = code[b][k]
  BY <1>0, <1>1, AccessFrames
<1>3. var_val_stack' = var_val_stack /\ code[b][k].op = "load"
  BY <1>2 DEF RenameLoad
<1>4. \A v : k \notin StoresIn(b, v)
  BY <1>3 DEF StoresIn
<1>5. b \in Reachable(succ) \ Pending /\ k \in Nat
  BY <1>0, <1>1, <1>2, TopReached
<1>6. ASSUME NEW v \in Vars
      PROVE  TopOf(var_val_stack[v], Len(var_val_stack[v])) = Name(b, v, k + 1)'
  <2>1. TopOf(var_val_stack[v], Len(var_val_stack[v])) = Name(b, v, k)
    BY <1>0, <1>1, <1>2 DEF TopsNamed
  <2>2. Name(b, v, k + 1)' = Name(b, v, k)'
    BY <1>0, <1>2, <1>4, NameOver
  <2>3. Name(b, v, k)' = Name(b, v, k)
    BY <1>0, <1>1, <1>5, ReachedStands
  <2> QED
    BY <2>1, <2>2, <2>3
<1>7. TopsNamed'
  <2>1. \A v : Name(Top.bb, v, pc)' = Name(b, v, k + 1)'
    BY <1>2
  <2> QED
    BY <1>3, <1>6, <2>1 DEF TopsNamed
<1>8. ASSUME NEW v \in Vars PROVE Depth(v)' = Depth(v)
  <2>1. Depth(v)' = PhiCount(b, v) + StoredBefore(b, v, k + 1)
    BY <1>0, <1>2, DepthNext
  <2>2. Depth(v) = PhiCount(b, v) + StoredBefore(b, v, k)
    BY <1>0, <1>1, <1>2, DepthOK
  <2>3. \A j \in 1..Len(code[b]) :
          StoredBefore(b, v, j + 1) =
            IF code[b][j].op = "store" /\ code[b][j].var = v
            THEN StoredBefore(b, v, j) + 1 ELSE StoredBefore(b, v, j)
    BY <1>0, <1>2, StoredCounts
  <2>4. code[b][k].op # "store"
    BY <1>3
  <2>5. StoredBefore(b, v, k + 1) = StoredBefore(b, v, k)
    BY <1>2, <2>3, <2>4
  <2> QED
    BY <2>1, <2>2, <2>5
<1>9. EndsNamed'
  BY <1>0, <1>2, <1>3, <1>8, EndsKept
<1>10. PairsNamed'
  BY <1>0, PassedAccess, PairsKept
<1> QED
  BY <1>7, <1>9, <1>10

\* A store pushes the new name of its variable.
LEMMA NamesStore ==
  ASSUME WalkInv, NameInv, RenameStore
  PROVE  NameInv'
<1>0. /\ TypeInv /\ OpenPath /\ Fresh /\ LoadsEarlier /\ LoadsNamed
      /\ TopsNamed /\ EndsNamed /\ PairsNamed
  BY DEF WalkInv, NameInv
<1>1. PICK b, k, w : b = Top.bb /\ k = pc /\ w = Instr(Here).var
  OBVIOUS
<1>2. /\ Len(frames') = Len(frames) /\ Open' = Open /\ frames' # <<>> /\ Top'.bb = b /\ Renaming
      /\ phis' = phis /\ pc' = k + 1 /\ k \in 1..Len(code[b]) /\ b \in Blocks
      /\ Instr(Here) = code[b][k] /\ InCode /\ UNCHANGED progVars
  BY <1>0, <1>1, AccessFrames
<1>3. /\ var_val_stack' = [var_val_stack EXCEPT ![w] = Append(@, get_rval(<<b, k>>))]
      /\ repl' = repl /\ code[b][k].op = "store" /\ w = code[b][k].var
  BY <1>1, <1>2 DEF RenameStore, Here
<1>4. LoadsNamed' /\ LoadsEarlier' /\ Standing /\ Settled' = Settled
  BY <1>0, <1>2, <1>3, LoadsKept, SettledAccess
<1>5. Fresh'
  BY <1>0, FreshNext DEF Next
<1>6. PairsNamed'
  BY <1>0, <1>4, PassedAccess, PairsKept
<1>7. b \in Reachable(succ) /\ k \in Nat
  BY <1>0, <1>1, <1>2, TopReached
<1>8. w \in Vars /\ get_rval(<<b, k>>) \in Values
  BY <1>0, <1>1, <1>2, <1>3, HereOK, StoredIsValue DEF Access
<1>9. \A v : \A j \in Nat : Name(b, v, j)' = Name(b, v, j)
  BY <1>0, <1>2, <1>3, <1>4, <1>7, NameStands DEF SameLoad, Standing
<1>10. ASSUME NEW v \in Vars
       PROVE  /\ TopOf(var_val_stack'[v], Len(var_val_stack'[v])) = Name(b, v, k + 1)
              /\ NamedStack(var_val_stack'[v], Len(var_val_stack'[v]), Open, Len(frames), Pushes(v),
                            Depth(v)', EndNames(v))
  <2> DEFINE s == var_val_stack[v]
             r == var_val_stack'[v]
             n == Len(frames)
             p == Pushes(v)
             t == Depth(v)
             u == EndNames(v)
  <2>1. s \in Seq(Values) /\ Len(s) \in Nat /\ n \in Nat \ {0}
    BY <1>0, <1>2, OpenOK
  <2>2. Depth(v)' = PhiCount(b, v) + StoredBefore(b, v, k + 1)
    BY <1>2, DepthNext
  <2>3. t = PhiCount(b, v) + StoredBefore(b, v, k) /\ t \in Nat
    BY <1>0, <1>1, <1>2, DepthOK
  <2>4. TopOf(s, Len(s)) = Name(b, v, k)
    BY <1>0, <1>1, <1>2 DEF TopsNamed
  <2>5. NamedStack(s, Len(s), Open, n, p, t, u)
    BY <1>0 DEF EndsNamed
  <2>6. Name(b, v, k + 1) = IF k \in StoresIn(b, v) THEN get_rval(<<b, k>>) ELSE Name(b, v, k)
    BY <1>0, <1>2, NameStep
  <2>7. k \in StoresIn(b, v) <=> v = w
    BY <1>2, <1>3 DEF StoresIn
  <2>8. StoredBefore(b, v, k + 1) = IF v = w THEN StoredBefore(b, v, k) + 1 ELSE StoredBefore(b, v, k)
    <3>1. \A j \in 1..Len(code[b]) :
            StoredBefore(b, v, j + 1) =
              IF code[b][j].op = "store" /\ code[b][j].var = v
              THEN StoredBefore(b, v, j) + 1 ELSE StoredBefore(b, v, j)
      BY <1>0, <1>2, StoredCounts
    <3>2. code[b][k].op = "store" /\ code[b][k].var = w
      BY <1>3
    <3> QED
      BY <1>2, <3>1, <3>2
  <2>9. PhiCount(b, v) \in Nat /\ StoredBefore(b, v, k) \in Nat
    BY <1>0, <1>2, <1>7, StoredCounts, StoresFinite
  <2>10. CASE v = w
    <3>1. r = Append(s, get_rval(<<b, k>>))
      BY <1>0, <1>3, <2>10 DEF TypeInv, TypeOK
    <3>2. /\ Len(r) = Len(s) + 1 /\ r[Len(s) + 1] = get_rval(<<b, k>>) /\ Len(r) # 0
          /\ \A i \in 1..Len(s) : r[i] = s[i]
      BY <1>8, <2>1, <3>1
    <3>3. TopOf(r, Len(r)) = Name(b, v, k + 1)
      BY <2>6, <2>7, <2>10, <3>2 DEF TopOf
    <3>4. Depth(v)' = t + 1
      BY <2>2, <2>3, <2>8, <2>9, <2>10
    <3> HIDE DEF s, r, p, t, n, u
    <3>5. NamedStack(r, Len(s) + 1, Open, n, p, t + 1, u)
      BY <2>1, <2>3, <2>5, <3>2, NamedPush
    <3> QED
      BY <3>2, <3>3, <3>4, <3>5 DEF r, n, p, u
  <2>11. CASE v # w
    <3>1. r = s
      BY <1>0, <1>3, <2>11 DEF TypeInv, TypeOK
    <3>2. Depth(v)' = t
      BY <2>2, <2>3, <2>8, <2>9, <2>11
    <3> QED
      BY <2>4, <2>5, <2>6, <2>7, <2>11, <3>1, <3>2
  <2> QED
    BY <2>10, <2>11
<1>11. TopsNamed'
  <2>1. \A v : Name(Top.bb, v, pc)' = Name(b, v, k + 1)'
    BY <1>2
  <2>2. k + 1 \in Nat
    BY <1>7
  <2> QED
    BY <1>9, <1>10, <2>1, <2>2 DEF TopsNamed
<1>12. EndsNamed'
  <2>1. ASSUME NEW v \in Vars, NEW i \in 1..Len(frames)
        PROVE  EndNames(v)'[Open[i]] = EndNames(v)[Open[i]]
    <3>1. PICK c \in Blocks : c = Open[i] /\ c \in Reachable(succ)
      BY <1>0, <2>1, OpenOK DEF OpenPath
    <3>2. NameAtEnd(c, v)' = NameAtEnd(c, v)
      BY <1>0, <1>2, <1>3, <1>4, <3>1, EndStands DEF SameLoad, Standing
    <3> QED
      BY <3>1, <3>2 DEF EndNames
  <2>2. ASSUME NEW v \in Vars
        PROVE  NamedStack(var_val_stack'[v], Len(var_val_stack'[v]), Open, Len(frames), Pushes(v),
                          Depth(v)', EndNames(v)')
    <3>1. PICK u : u = EndNames(v)'
      OBVIOUS
    <3> QED
      BY <1>10, <2>1, <3>1, NamedSame
  <2> QED
    BY <1>2, <2>2, SamePushesOf DEF EndsNamed
<1> QED
  BY <1>4, <1>5, <1>6, <1>11, <1>12 DEF NameInv

\* A call: the phis of its block are the newest values, and where there is
\* none the name is that at the end of the caller's block.
LEMMA TopsCall ==
  ASSUME WalkInv, NameInv, NEW c \in Blocks, (StartRename /\ c = Entry) \/ Recurse(c),
         NEW v \in Vars
  PROVE  TopOf(var_val_stack'[v], Len(var_val_stack'[v])) = NameAtStart(c, v)
<1> DEFINE s == var_val_stack[v]
           r == var_val_stack'[v]
<1>0. TypeInv /\ OpenPath /\ TopsNamed
  BY DEF WalkInv, NameInv
<1>1. r = IF v \in phis[c] THEN Append(s, PhiValue(c, v)) ELSE s
  BY DEF StartRename, Recurse, Call
<1>2. s \in Seq(Values) /\ Len(s) \in Nat
  BY <1>0, OpenOK
<1>3. CASE v \in phis[c]
  <2>1. PhiValue(c, v) \in Values
    BY DEF Values
  <2>2. Len(r) = Len(s) + 1 /\ r[Len(s) + 1] = PhiValue(c, v)
    BY <1>1, <1>2, <1>3, <2>1
  <2>3. Len(r) # 0
    BY <1>2, <2>2
  <2> QED
    BY <1>3, <2>2, <2>3 DEF TopOf, NameAtStart
<1>4. CASE v \notin phis[c]
  <2>1. CASE StartRename /\ c = Entry
    <3>1. s = <<>>
      <4>1. frames = <<>>
        BY <2>1 DEF StartRename, WalkInv, OpenPath
      <4> QED
        BY <4>1, StacksIdle DEF WalkInv
    <3>2. StrictDoms(succ, Entry) = {}
      BY DomsEntry DEF StrictDoms
    <3>3. NameAtStart(c, v) = Garbage
      BY <1>4, <2>1, <3>2 DEF NameAtStart, NameFrom
    <3> QED
      BY <1>1, <1>4, <3>1, <3>3 DEF TopOf
  <2>2. CASE Recurse(c)
    <3>1. Renaming /\ ~InCode /\ c \in Top.left
      BY <2>2 DEF Recurse, Recursing
    <3>2. Top.bb \in Reachable(succ) /\ Top.bb \in Blocks /\ pc \in Nat
      BY <1>0, <3>1, TopReached
    <3>3. c \in Children(succ, Top.bb)
      <4>1. Len(frames) \in 1..Len(frames) /\ Top = frames[Len(frames)]
        BY <1>0, <3>1, TopOK
      <4> QED
        BY <1>0, <3>1, <4>1 DEF OpenPath
    <3>4. pc > Len(code[Top.bb])
      <4>1. Len(code[Top.bb]) \in Nat
        BY <1>0, <3>2, StorePositions
      <4> QED
        BY <3>1, <3>2, <4>1 DEF InCode
    <3>5. Name(Top.bb, v, pc) = NameAtEnd(Top.bb, v)
      BY <1>0, <3>2, <3>4, NameLast
    <3>6. NameAtStart(c, v) = NameAtEnd(Top.bb, v)
      BY <1>0, <1>4, <3>3, NameOfChild
    <3> QED
      BY <1>0, <1>1, <1>4, <3>1, <3>5, <3>6 DEF TopsNamed
  <2> QED
    BY <2>1, <2>2
<1> QED
  BY <1>3, <1>4

\* Where no load is replaced every name stands.
LEMMA AllStand ==
  ASSUME TypeInv, UNCHANGED progVars, phis' = phis, repl' = repl, NEW v
  PROVE  /\ \A b \in Reachable(succ) : /\ \A k \in Nat : Name(b, v, k)' = Name(b, v, k)
                                        /\ NameAtEnd(b, v)' = NameAtEnd(b, v)
         /\ \A n : \A i \in 1..Len(frames) : i # n /\ OpenPath =>
              EndNames(v)'[Open[i]] = EndNames(v)[Open[i]]
<1>1. \A x \in LoadValues : SameLoad(x)
  BY DEF SameLoad
<1>2. ASSUME NEW b \in Reachable(succ), NEW k \in Nat PROVE Name(b, v, k)' = Name(b, v, k)
  BY <1>1, NameStands
<1>3. ASSUME NEW b \in Reachable(succ) PROVE NameAtEnd(b, v)' = NameAtEnd(b, v)
  BY <1>1, EndStands
<1>4. ASSUME OpenPath, NEW i \in 1..Len(frames)
      PROVE  EndNames(v)'[Open[i]] = EndNames(v)[Open[i]]
  <2>1. PICK b \in Blocks : b = Open[i] /\ b \in Reachable(succ)
    BY <1>4, OpenOK DEF OpenPath
  <2>2. NameAtEnd(b, v)' = NameAtEnd(b, v)
    BY <1>3, <2>1
  <2> QED
    BY <2>1, <2>2 DEF EndNames
<1> QED
  BY <1>2, <1>3, <1>4

LEMMA EndsStart ==
  ASSUME WalkInv, NameInv, StartRename
  PROVE  EndsNamed'
<1>1. UNCHANGED progVars /\ phis' = phis /\ Call(Entry, <<>>) /\ Entry \in Blocks /\ frames = <<>>
      /\ TypeInv
  BY EntryAssumption DEF StartRename, phiVars, WalkInv, OpenPath
<1>2. Len(frames') = 1 /\ frames'[1].bb = Entry /\ pc' = 1
  BY <1>1, StartOK
<1>3. frames' # <<>> /\ Top'.bb = Entry
  BY <1>2 DEF Top, Last
<1>4. ASSUME NEW v \in Vars
      PROVE  NamedStack(var_val_stack'[v], Len(var_val_stack'[v]), Open', 1, Pushes(v)', Depth(v)',
                        EndNames(v)')
  <2>1. Len(var_val_stack[v]) = 0
    BY <1>1, StacksIdle DEF WalkInv
  <2>2. PhiCount(Entry, v) \in Nat /\ StoredBefore(Entry, v, 1) = 0
    BY <1>1, StoredCounts
  <2>3. Len(var_val_stack'[v]) = PhiCount(Entry, v)
    BY <1>1, <2>1, <2>2, CallPushes
  <2>4. Depth(v)' = Len(var_val_stack'[v])
    BY <1>1, <1>2, <1>3, <2>2, <2>3, DepthNext
  <2>5. PICK m, w : m = Len(var_val_stack'[v]) /\ m \in Nat /\ w = EndNames(v)'
    BY <2>2, <2>3
  <2> QED
    BY <2>4, <2>5, NamedStart
<1> QED
  BY <1>2, <1>4 DEF EndsNamed

LEMMA EndsCall ==
  ASSUME WalkInv, NameInv, NEW c \in Blocks, Recurse(c)
  PROVE  EndsNamed'
<1> DEFINE n == Len(frames)
<1>0. TypeInv /\ OpenPath /\ TopsNamed /\ EndsNamed
  BY DEF WalkInv, NameInv
<1>1. UNCHANGED progVars /\ phis' = phis /\ repl' = repl /\ Recursing /\ Renaming /\ Call(c, Taken(c))
  BY DEF Recurse, Recursing, phiVars, Taken
<1>2. /\ n \in Nat \ {0} /\ Open[n] = Top.bb /\ Top.bb \in Blocks
      /\ \A i \in 1..n : Open[i] = frames[i].bb
  BY <1>0, <1>1, OpenOK, TopOK
<1>3. /\ Taken(c) \in Seq(Calls) /\ Len(Taken(c)) = n
      /\ \A i \in 1..n : Taken(c)[i].bb = frames[i].bb
  BY <1>0, <1>1, TakenOK
<1>4. /\ Len(frames') = n + 1 /\ frames'[n+1].bb = c /\ pc' = 1
      /\ \A i \in 1..n : frames'[i].bb = frames[i].bb
  BY <1>0, <1>1, <1>3, CallOK
<1>5. frames' # <<>> /\ Top'.bb = c
  BY <1>2, <1>4 DEF Top, Last
<1>6. \A i \in 1..n : Open'[i] = Open[i]
  <2>1. \A i \in 1..n : i \in 1..(n+1)
    BY <1>2
  <2>2. \A i \in 1..(n+1) : Open'[i] = frames'[i].bb
    BY <1>4 DEF Open
  <2> QED
    BY <1>2, <1>4, <2>1, <2>2
<1>7. Top.bb \in Reachable(succ) /\ pc \in Nat /\ pc > Len(code[Top.bb])
  <2>1. Top.bb \in Reachable(succ) /\ pc \in Nat
    BY <1>0, <1>1, TopReached
  <2>2. Len(code[Top.bb]) \in Nat
    BY <1>0, <1>2, StorePositions
  <2> QED
    BY <1>1, <2>1, <2>2 DEF Recursing, InCode
<1>8. ASSUME NEW v \in Vars
      PROVE  NamedStack(var_val_stack'[v], Len(var_val_stack'[v]), Open', n + 1, Pushes(v)', Depth(v)',
                        EndNames(v)')
  <2> DEFINE s == var_val_stack[v]
             r == var_val_stack'[v]
             p == Pushes(v)
             w == EndNames(v)
  <2>1. Len(r) = Len(s) + PhiCount(c, v) /\ \A k \in 1..Len(s) : r[k] = s[k]
    BY <1>0, <1>1, CallPushes
  <2>2. PhiCount(c, v) \in Nat /\ StoredBefore(c, v, 1) = 0 /\ Len(s) \in Nat
    <3>1. PhiCount(c, v) \in Nat
      BY <1>0, StoresFinite
    <3>2. StoredBefore(c, v, 1) = 0
      BY <1>0, StoredCounts
    <3>3. Len(s) \in Nat
      BY <1>0, OpenOK
    <3> QED
      BY <3>1, <3>2, <3>3
  <2>3. Depth(v)' = PhiCount(c, v)
    BY <1>1, <1>4, <1>5, <2>2, DepthNext
  <2>4. Pushes(v)' = p
    BY <1>1, SamePushesOf
  <2>5. p[Open[n]] \in Nat /\ NamedStack(s, Len(s), Open, n, p, p[Open[n]], w)
    BY <1>0, <1>1, <1>2, DepthOK DEF EndsNamed
  <2>6. Len(r) \in Nat /\ Len(r) - Len(s) = PhiCount(c, v)
    BY <2>1, <2>2
  <2>7. TopOf(s, Len(s)) = w[Open[n]]
    <3>1. TopOf(s, Len(s)) = Name(Top.bb, v, pc)
      BY <1>0, <1>1 DEF TopsNamed
    <3>2. Name(Top.bb, v, pc) = NameAtEnd(Top.bb, v)
      BY <1>0, <1>7, NameLast
    <3> QED
      BY <1>2, <3>1, <3>2 DEF EndNames
  <2>8. PICK u : u = EndNames(v)'
    OBVIOUS
  <2>9. ASSUME NEW i \in 1..(n+1), i # n + 1 PROVE u[Open'[i]] = w[Open'[i]]
    <3>1. i \in 1..n
      BY <1>2, <2>9
    <3>2. EndNames(v)'[Open[i]] = EndNames(v)[Open[i]]
      BY <1>0, <1>1, <1>2, <2>9, <3>1, AllStand
    <3> QED
      BY <1>6, <2>8, <3>1, <3>2
  <2> HIDE DEF n, p, s, r, w
  <2>10. NamedStack(r, Len(r), Open', n + 1, p, Len(r) - Len(s), w)
    <3>1. PICK m \in Nat, l \in Nat : m = Len(s) /\ l = Len(r)
      BY <2>2, <2>6
    <3>2. PICK d : d = Open'
      OBVIOUS
    <3>3. n \in Nat \ {0} /\ \A i \in 1..n : d[i] = Open[i]
      BY <1>2, <1>6, <3>2
    <3>4. \A k \in 1..m : r[k] = s[k]
      BY <2>1, <3>1
    <3>5. p[Open[n]] \in Nat /\ NamedStack(s, m, Open, n, p, p[Open[n]], w)
      BY <2>5, <3>1
    <3>6. TopOf(s, m) = w[Open[n]]
      BY <2>7, <3>1
    <3>7. NamedStack(r, l, d, n + 1, p, l - m, w)
      BY <3>3, <3>4, <3>5, <3>6, NamedCall
    <3> QED
      BY <3>1, <3>2, <3>7
  <2>11. NamedStack(r, Len(r), Open', n + 1, p, Len(r) - Len(s), u)
    BY <2>9, <2>10, NamedSame
  <2> QED
    BY <2>3, <2>4, <2>6, <2>8, <2>11 DEF r
<1> QED
  BY <1>4, <1>8 DEF EndsNamed

LEMMA NamesCall ==
  ASSUME WalkInv, NameInv, NEW c \in Blocks, (StartRename /\ c = Entry) \/ Recurse(c)
  PROVE  NameInv'
<1>0. /\ TypeInv /\ OpenPath /\ Fresh /\ LoadsEarlier /\ LoadsNamed /\ PairsNamed
      /\ UNCHANGED <<progVars, phis, repl, phi_pairs>>
  BY CallTop DEF WalkInv, NameInv
<1>1. Renaming' /\ Top'.bb = c /\ pc' = 1
  BY <1>0, CallTop
<1>2. LoadsNamed' /\ LoadsEarlier' /\ Standing
  BY <1>0, LoadsKept, SettledCall
<1>3. Fresh'
  BY <1>0, FreshNext DEF Next
<1>4. PairsNamed'
  BY <1>0, <1>2, PassedCall, PairsKept
<1>5. c \in Reachable(succ)
  BY <1>0, StartPath, RecursePath DEF Pending
<1>6. TopsNamed'
  <2>1. ASSUME NEW v \in Vars
        PROVE  TopOf(var_val_stack'[v], Len(var_val_stack'[v])) = Name(c, v, 1)'
    <3>1. Name(c, v, 1)' = Name(c, v, 1)
      BY <1>0, <1>5, AllStand
    <3>2. Name(c, v, 1) = NameAtStart(c, v)
      BY <1>0, NameFirst
    <3> QED
      BY <3>1, <3>2, TopsCall
  <2>2. \A v : Name(Top.bb, v, pc)' = Name(c, v, 1)'
    BY <1>1
  <2> QED
    BY <2>1, <2>2 DEF TopsNamed
<1> QED
  BY <1>2, <1>3, <1>4, <1>6, EndsStart, EndsCall DEF NameInv

\* One edge is dealt with: the value a phi gets for it is the name at the end
\* of the block in hand, and it gets none where the variable has no name.
LEMMA PairsNamedFill ==
  ASSUME WalkInv, NameInv, NEW s \in Blocks, FillPhis(s)
  PROVE  PairsNamed'
<1>0. TypeInv /\ OpenPath /\ Found /\ TopsNamed /\ PairsNamed
  BY DEF WalkInv, NameInv
<1>1. /\ UNCHANGED <<progVars, phis, phase, frames, repl>> /\ succ' = succ /\ fill' = fill \ {s}
      /\ s \in fill /\ Renaming /\ ~InCode
      /\ \A v \in phis[s] \cap found : var_val_stack[v] # <<>>
  BY DEF FillPhis, phiVars, progVars
<1>2. Top' = Top /\ Renaming' /\ Pending' = Pending
  BY <1>0, <1>1, OtherPath DEF Top, Renaming
<1>3. Top.bb \in Reachable(succ) \ Pending /\ Top.bb \in Blocks /\ pc \in Nat
  BY <1>0, <1>1, TopReached
<1>4. pc > Len(code[Top.bb])
  <2>1. Len(code[Top.bb]) \in Nat
    BY <1>0, <1>3, StorePositions
  <2> QED
    BY <1>1, <1>3, <2>1 DEF InCode
<1>5. ASSUME NEW b \in Blocks, NEW v \in Vars, NEW p \in Preds(succ, b)
      PROVE  PairNamed(b, v, p)'
  <2>1. PairNamed(b, v, p)
    BY <1>0 DEF PairsNamed
  <2>2. phi_pairs'[<<b, v>>] = IF b = s /\ v \in phis[s] \cap found
                               THEN phi_pairs[<<b, v>>] \cup {<<Last(var_val_stack[v]), Top.bb>>}
                               ELSE phi_pairs[<<b, v>>]
    BY DEF FillPhis
  <2>3. Passed(p, b)' => p \in Reachable(succ)
    BY <1>1 DEF Passed
  <2>4. p \in Reachable(succ) => NameAtEnd(p, v)' = NameAtEnd(p, v)
    BY <1>0, <1>1, AllStand
  <2>5. CASE b = s /\ v \in phis[s] /\ p = Top.bb
    <3>1. ~Passed(p, b) /\ Passed(p, b)'
      BY <1>1, <1>2, <1>3, <2>5 DEF Passed
    <3>2. PairsFrom(b, v, p) = {}
      BY <2>1, <3>1 DEF PairNamed
    <3>3. NameAtEnd(p, v) = TopOf(var_val_stack[v], Len(var_val_stack[v]))
      <4>1. Name(Top.bb, v, pc) = NameAtEnd(Top.bb, v)
        BY <1>0, <1>3, <1>4, NameLast
      <4> QED
        BY <1>0, <1>1, <2>5, <4>1 DEF TopsNamed
    <3>4. CASE v \in found
      <4>1. var_val_stack[v] # <<>> /\ var_val_stack[v] \in Seq(Values)
        BY <1>0, <1>1, <2>5, <3>4, OpenOK
      <4>2. Last(var_val_stack[v]) = NameAtEnd(p, v)
        BY <3>3, <4>1 DEF TopOf, Last
      <4>3. PairsFrom(b, v, p)' = {<<NameAtEnd(p, v), p>>}
        BY <2>2, <2>5, <3>2, <3>4, <4>2 DEF PairsFrom
      <4>4. PairsFrom(b, v, p)' = {<<NameAtEnd(p, v)', p>>}
        BY <2>3, <2>4, <3>1, <4>3
      <4> QED
        BY <1>1, <2>5, <3>1, <4>4 DEF PairNamed
    <3>5. CASE v \notin found
      <4>1. var_val_stack[v] = <<>>
        BY <1>0, <3>5 DEF Found
      <4>2. NameAtEnd(p, v) = Garbage
        BY <3>3, <4>1 DEF TopOf
      <4>3. PairsFrom(b, v, p)' = {}
        BY <2>2, <3>2, <3>5 DEF PairsFrom
      <4>4. NameAtEnd(p, v)' = Garbage
        BY <2>3, <2>4, <3>1, <4>2
      <4> QED
        BY <1>1, <2>5, <3>1, <4>3, <4>4 DEF PairNamed
    <3> QED
      BY <3>4, <3>5
  <2>6. CASE ~(b = s /\ v \in phis[s] /\ p = Top.bb)
    <3>1. PairsFrom(b, v, p)' = PairsFrom(b, v, p)
      <4>1. CASE b = s /\ v \in phis[s]
        BY <2>2, <2>6, <4>1 DEF PairsFrom
      <4>2. CASE ~(b = s /\ v \in phis[s])
        BY <2>2, <4>2 DEF PairsFrom
      <4> QED
        BY <4>1, <4>2
    <3>2. v \in phis[b] => (Passed(p, b)' <=> Passed(p, b))
      BY <1>1, <1>2, <2>6 DEF Passed
    <3>3. v \in phis[b] /\ Passed(p, b)' => NameAtEnd(p, v)' = NameAtEnd(p, v)
      BY <2>3, <2>4
    <3> QED
      BY <1>1, <2>1, <3>1, <3>2, <3>3 DEF PairNamed
  <2> QED
    BY <2>5, <2>6
<1> QED
  BY <1>1, <1>5 DEF PairsNamed, Preds

LEMMA NamesFill ==
  ASSUME WalkInv, NameInv, NEW s \in Blocks, FillPhis(s)
  PROVE  NameInv'
<1>0. /\ TypeInv /\ OpenPath /\ Fresh /\ LoadsEarlier /\ LoadsNamed /\ TopsNamed /\ EndsNamed
      /\ UNCHANGED <<progVars, phis, repl, phase, frames, pc, var_val_stack>> /\ Renaming
  BY DEF WalkInv, NameInv, FillPhis, phiVars
<1>1. Top' = Top /\ Open' = Open /\ Settled' = Settled
  BY <1>0, SettledRest DEF Top, Open
<1>2. LoadsNamed' /\ LoadsEarlier' /\ Standing
  BY <1>0, <1>1, LoadsKept
<1>3. Fresh'
  BY <1>0, FreshNext DEF Next
<1>4. Top.bb \in Reachable(succ) /\ pc \in Nat
  BY <1>0, TopReached
<1>5. TopsNamed'
  <2>1. PICK b, k : b = Top.bb /\ k = pc
    OBVIOUS
  <2>2. \A v \in Vars : Name(b, v, k)' = Name(b, v, k)
    BY <1>0, <1>4, <2>1, AllStand
  <2>3. \A v : Name(Top.bb, v, pc)' = Name(b, v, k)'
    BY <1>0, <1>1, <2>1
  <2> QED
    BY <1>0, <2>1, <2>2, <2>3 DEF TopsNamed
<1>6. \A v \in Vars : Depth(v)' = Depth(v)
  <2> SUFFICES ASSUME NEW v \in Vars PROVE Depth(v)' = Depth(v)
    OBVIOUS
  <2>1. PICK b : b = Top.bb
    OBVIOUS
  <2>2. frames # <<>>
    BY <1>0 DEF Renaming
  <2>3. Depth(v)' = PhiCount(b, v) + StoredBefore(b, v, pc)
    BY <1>0, <1>1, <2>1, <2>2, DepthNext
  <2> QED
    BY <2>1, <2>2, <2>3 DEF Depth
<1>7. EndsNamed'
  BY <1>0, <1>1, <1>2, <1>6, EndsKept
<1> QED
  BY <1>2, <1>3, <1>5, <1>7, PairsNamedFill DEF NameInv

\* A return: what the call has pushed is gone, and the name at the end of the
\* caller's block is on top again.
LEMMA NamesReturn ==
  ASSUME WalkInv, NameInv, Return
  PROVE  NameInv'
<1>0. /\ TypeInv /\ OpenPath /\ Fresh /\ LoadsEarlier /\ LoadsNamed /\ EndsNamed /\ PairsNamed
      /\ StackInv /\ Recursing /\ Renaming /\ UNCHANGED <<progVars, phis, repl, phi_pairs>>
  BY DEF WalkInv, NameInv, Return, Recursing, phiVars
<1>1. LoadsNamed' /\ LoadsEarlier' /\ Standing
  BY <1>0, LoadsKept, SettledCall
<1>2. Fresh'
  BY <1>0, FreshNext DEF Next
<1>3. PairsNamed'
  BY <1>0, <1>1, PassedReturn, PairsKept
<1>4. PICK n \in Nat : n + 1 = Len(frames)
  <2>1. Len(frames) \in Nat \ {0}
    BY <1>0, TopOK
  <2>2. Len(frames) - 1 \in Nat /\ (Len(frames) - 1) + 1 = Len(frames)
    BY <2>1
  <2> QED
    BY <2>2
<1>5. /\ Open[n+1] = Top.bb /\ Top.bb \in Blocks
      /\ \A i \in 1..(n+1) : Open[i] = frames[i].bb /\ Open[i] \in Blocks
  BY <1>0, <1>4, OpenOK, TopOK
<1>6. frames' \in Seq(Calls) /\ Len(frames') = n /\ \A i \in 1..n : frames'[i] = frames[i]
  BY <1>0, <1>4, ReturnOK
<1>7. \A i \in 1..n : i \in 1..(n+1) /\ Open'[i] = Open[i]
  <2>1. \A i \in 1..n : Open'[i] = frames'[i].bb
    BY <1>6 DEF Open
  <2>2. \A i \in 1..n : i \in 1..(n+1)
    BY <1>4
  <2> QED
    BY <1>5, <1>6, <2>1, <2>2
<1>8. ASSUME NEW v \in Vars
      PROVE  /\ NamedStack(var_val_stack'[v], Len(var_val_stack'[v]), Open', n, Pushes(v),
                           Pushes(v)[Open'[n]], EndNames(v))
             /\ n # 0 => TopOf(var_val_stack'[v], Len(var_val_stack'[v])) = EndNames(v)[Open'[n]]
  <2> DEFINE s == var_val_stack[v]
             r == var_val_stack'[v]
             p == Pushes(v)
             t == Depth(v)
             d == Open'
             q == Len(frames)
             m == Len(s)
             w == EndNames(v)
  <2>1. s \in Seq(Values) /\ Len(s) \in Nat /\ r \in Seq(Values) /\ Len(r) \in Nat
    BY <1>0, OpenOK, ReturnOK
  <2>2. t \in Nat /\ t = p[Top.bb] /\ p[Top.bb] = Cardinality(StoresIn(Top.bb, v)) + PhiCount(Top.bb, v)
    BY <1>0, <1>5, DepthOK DEF Pushed
  <2>3. t <= m
    <3>1. p[Open[1]] \in Nat /\ Len(frames) \in Nat \ {0}
      BY <1>0, <1>4, <1>5, DepthOK
    <3>2. Stacked(s, m, Open, q, p, t)
      BY <1>0 DEF StackInv, Stacks
    <3> HIDE DEF s, p, t, m
    <3> QED
      BY <2>1, <2>2, <3>1, <3>2, StackBottom
  <2>4. Len(r) = m - t /\ \A k \in 1..Len(r) : r[k] = s[k]
    BY <1>0, <2>2, <2>3, ReturnOK
  <2>5. PICK l \in Nat : l = Len(r) /\ m = l + t
    BY <2>1, <2>2, <2>4
  <2>6. Cut(d, n, Open, q, 1)
    BY <1>4, <1>7 DEF Cut
  <2>7. Cut(r, l, s, m, t) /\ t \in Nat
    BY <2>2, <2>4, <2>5 DEF Cut
  <2>8. NamedStack(s, m, Open, q, p, t, w)
    BY <1>0 DEF EndsNamed
  <2> HIDE DEF s, r, p, t, d, q, m, w
  <2>9. /\ NamedStack(r, l, d, n, p, p[d[n]], w)
        /\ n # 0 => TopOf(r, l) = w[d[n]]
    BY <2>6, <2>7, <2>8, NamedReturn
  <2> QED
    BY <2>5, <2>9 DEF r, p, d, w
<1>9. TopsNamed'
  <2> SUFFICES ASSUME Renaming', NEW v \in Vars
               PROVE  TopOf(var_val_stack'[v], Len(var_val_stack'[v])) = Name(Top.bb, v, pc)'
    BY DEF TopsNamed
  <2>1. PICK b \in Blocks : b = Open'[n] /\ b = Open[n] /\ Top'.bb = b /\ n # 0 /\ b \in Reachable(succ)
    <3>1. \E k \in Nat \ {0} :
            k + 1 = Len(frames) /\ k \in 1..Len(frames) /\ Top'.bb = Open[k] /\ Open'[k] = Open[k]
      BY <1>0, ReturnTop
    <3>2. n # 0 /\ n \in 1..Len(frames) /\ Top'.bb = Open[n] /\ Open'[n] = Open[n]
      BY <1>4, <3>1
    <3> QED
      BY <1>0, <1>5, <1>4, <3>2 DEF OpenPath
  <2>2. PICK k \in Nat : k = pc' /\ k > Len(code[b])
    <3>1. Len(code[b]) \in Nat
      BY <1>0, StorePositions
    <3>2. pc' = Len(code[b]) + 1
      BY <1>0, <2>1, ReturnTop
    <3> QED
      BY <3>1, <3>2
  <2>3. Name(Top.bb, v, pc)' = Name(b, v, k)'
    BY <2>1, <2>2
  <2>4. Name(b, v, k)' = Name(b, v, k)
    BY <1>0, <2>1, AllStand
  <2>5. Name(b, v, k) = NameAtEnd(b, v)
    BY <1>0, <2>1, <2>2, NameLast
  <2>6. TopOf(var_val_stack'[v], Len(var_val_stack'[v])) = EndNames(v)[b]
    BY <1>8, <2>1
  <2> QED
    BY <2>3, <2>4, <2>5, <2>6 DEF EndNames
<1>10. EndsNamed'
  <2>1. ASSUME NEW v \in Vars
        PROVE  NamedStack(var_val_stack'[v], Len(var_val_stack'[v]), Open', n, Pushes(v)', Depth(v)',
                          EndNames(v)')
    <3>1. Pushes(v)' = Pushes(v)
      BY <1>0, SamePushesOf
    <3>2. PICK u : u = EndNames(v)'
      OBVIOUS
    <3>3. \A i \in 1..n : u[Open'[i]] = EndNames(v)[Open'[i]]
      <4>1. \A i \in 1..Len(frames) : i # n + 2 => EndNames(v)'[Open[i]] = EndNames(v)[Open[i]]
        BY <1>0, AllStand
      <4>2. \A i \in 1..n : i \in 1..Len(frames) /\ i # n + 2
        BY <1>4
      <4> QED
        BY <1>7, <3>2, <4>1, <4>2
    <3>4. NamedStack(var_val_stack'[v], Len(var_val_stack'[v]), Open', n, Pushes(v),
                     Pushes(v)[Open'[n]], u)
      BY <1>8, <3>3, NamedSame
    <3>5. CASE n = 0
      BY <3>1, <3>2, <3>4, <3>5 DEF NamedStack
    <3>6. CASE n # 0
      <4>1. frames' # <<>> /\ Renaming'
        <5>1. frames' # <<>>
          BY <1>6, <3>6
        <5>2. phase' = "rename"
          BY <1>0 DEF Return, Renaming
        <5> QED
          BY <5>1, <5>2 DEF Renaming
      <4>2. PICK b \in Blocks : /\ b = Open'[n] /\ Top'.bb = b
                                /\ Len(code[b]) \in Nat /\ pc' = Len(code[b]) + 1
        BY <1>0, <1>4, <4>1, ReturnTop
      <4>3. Depth(v)' = PhiCount(b, v) + StoredBefore(b, v, pc')
        BY <1>0, <4>1, <4>2, DepthNext
      <4>4. PhiCount(b, v) + StoredBefore(b, v, pc') = Pushed(b, v)
        <5>1. pc' \in Nat /\ pc' > Len(code[b])
          BY <4>2
        <5> QED
          BY <1>0, <5>1, StoredCounts
      <4>5. Pushes(v)[Open'[n]] = Depth(v)'
        BY <4>2, <4>3, <4>4 DEF Pushes
      <4> QED
        BY <3>1, <3>2, <3>4, <4>5
    <3> QED
      BY <3>5, <3>6
  <2> QED
    BY <1>6, <2>1 DEF EndsNamed
<1> QED
  BY <1>1, <1>2, <1>3, <1>9, <1>10 DEF NameInv

\* While phis are placed nothing is reached.
LEMMA NamesPhi ==
  ASSUME WalkInv, NameInv, phase = "phi", UNCHANGED <<progVars, phase, nameVars>>
  PROVE  NameInv'
<1>0. /\ TypeInv /\ OpenPath /\ LoadsEarlier /\ EndsNamed /\ PairsNamed
      /\ UNCHANGED <<frames, pc, fill, var_val_stack, repl, phi_pairs>>
      /\ frames = <<>> /\ ~Renaming /\ ~Renaming'
  BY DEF WalkInv, NameInv, nameVars, OpenPath, Renaming
<1>1. Pending = Reachable(succ) /\ Pending' = Reachable(succ) /\ succ' = succ
  BY DEF Pending, progVars
<1>2. Settled' = {} /\ LoadValues' = LoadValues
  BY <1>1, SameProgram DEF Settled
<1>3. LoadsNamed' /\ LoadsEarlier'
  BY <1>0, <1>1, <1>2 DEF LoadsNamed, LoadsEarlier, Earlier
<1>4. Fresh' /\ TopsNamed'
  BY <1>0 DEF Fresh, TopsNamed, InCode
<1>5. EndsNamed'
  <2>1. Len(frames) = 0
    BY <1>0
  <2>2. \A v \in Vars : Len(var_val_stack[v]) = 0
    BY <1>0, <2>1 DEF EndsNamed, NamedStack
  <2> QED
    BY <1>0, <2>1, <2>2 DEF EndsNamed, NamedStack
<1>6. PairsNamed'
  <2>1. \A b, p : ~Passed(p, b) /\ ~Passed(p, b)'
    BY <1>1 DEF Passed
  <2>2. \A b, v, p : PairsFrom(b, v, p)' = PairsFrom(b, v, p)
    BY <1>0 DEF PairsFrom
  <2> QED
    BY <1>0, <1>1, <2>1, <2>2 DEF PairsNamed, PairNamed, Preds
<1> QED
  BY <1>3, <1>4, <1>5, <1>6 DEF NameInv

LEMMA NamesEnd ==
  ASSUME WalkInv, NameInv, remove_alloca
  PROVE  NameInv'
<1>0. /\ TypeInv /\ OpenPath /\ Fresh /\ LoadsEarlier /\ LoadsNamed /\ EndsNamed /\ PairsNamed
      /\ UNCHANGED <<progVars, phis, repl, phi_pairs, frames, var_val_stack>>
      /\ frames = <<>> /\ ~Renaming /\ ~Renaming'
  BY DEF WalkInv, NameInv, remove_alloca, phiVars, nameVars, Renaming
<1>1. Pending' = Pending /\ succ' = succ /\ LoadValues' = LoadValues
  BY <1>0, RemovePath, SameProgram DEF progVars
<1>2. Settled' = Settled
  BY <1>0, <1>1 DEF Settled
<1>3. LoadsNamed' /\ LoadsEarlier' /\ Standing
  BY <1>0, <1>2, LoadsKept
<1>4. Fresh' /\ TopsNamed'
  BY <1>0 DEF Fresh, TopsNamed, InCode
<1>5. PairsNamed'
  BY <1>0, <1>3, PassedReturn, PairsKept
<1>6. Open' = Open /\ \A v \in Vars : Depth(v)' = Depth(v)
  BY <1>0 DEF Open, Depth
<1>7. EndsNamed'
  BY <1>0, <1>3, <1>6, EndsKept
<1> QED
  BY <1>3, <1>4, <1>5, <1>7 DEF NameInv

LEMMA NamesStutter ==
  ASSUME WalkInv, NameInv, UNCHANGED vars
  PROVE  NameInv'
<1>0. /\ TypeInv /\ OpenPath /\ Fresh /\ LoadsEarlier /\ LoadsNamed /\ TopsNamed /\ EndsNamed
      /\ PairsNamed
      /\ UNCHANGED <<progVars, phase, phis, repl, phi_pairs, frames, pc, fill, var_val_stack>>
  BY DEF WalkInv, NameInv, vars, phiVars, nameVars
<1>1. Top' = Top /\ Open' = Open /\ Settled' = Settled /\ Renaming' = Renaming /\ succ' = succ
      /\ Pending' = Pending
  BY <1>0, SettledRest, OtherPath DEF Top, Open, Renaming, progVars
<1>2. LoadsNamed' /\ LoadsEarlier' /\ Standing
  BY <1>0, <1>1, LoadsKept
<1>3. Fresh'
  BY <1>0, FreshNext
<1>4. TopsNamed'
  <2>1. PICK b, k : b = Top.bb /\ k = pc
    OBVIOUS
  <2>2. Renaming => \A v \in Vars : Name(b, v, k)' = Name(b, v, k)
    BY <1>0, <2>1, TopReached, AllStand
  <2>3. \A v : Name(Top.bb, v, pc)' = Name(b, v, k)'
    BY <1>0, <1>1, <2>1
  <2> QED
    BY <1>0, <1>1, <2>1, <2>2, <2>3 DEF TopsNamed
<1>5. \A v \in Vars : Depth(v)' = Depth(v)
  <2> SUFFICES ASSUME NEW v \in Vars PROVE Depth(v)' = Depth(v)
    OBVIOUS
  <2>1. CASE frames = <<>>
    BY <1>0, <2>1 DEF Depth
  <2>2. CASE frames # <<>>
    <3>1. PICK b : b = Top.bb
      OBVIOUS
    <3>2. Depth(v)' = PhiCount(b, v) + StoredBefore(b, v, pc)
      BY <1>0, <1>1, <2>2, <3>1, DepthNext
    <3> QED
      BY <2>2, <3>1, <3>2 DEF Depth
  <2> QED
    BY <2>1, <2>2
<1>6. EndsNamed'
  <2>1. frames = <<>> \/ Renaming
    BY <1>0 DEF OpenPath, Renaming
  <2> QED
    BY <1>0, <1>1, <1>2, <1>5, <2>1, EndsKept
<1>7. PairsNamed'
  <2>1. \A b, p : Passed(p, b)' <=> Passed(p, b)
    BY <1>0, <1>1 DEF Passed
  <2> QED
    BY <1>0, <1>2, <2>1, PairsKept
<1> QED
  BY <1>2, <1>3, <1>4, <1>6, <1>7 DEF NameInv

LEMMA NameInit == Init => NameInv
<1> SUFFICES ASSUME Init PROVE NameInv
  OBVIOUS
<1>1. TypeInv /\ phase = "phi" /\ frames = <<>> /\ ~Renaming
  BY InitTypes DEF Init, Renaming
<1>2. LoadsEarlier
  BY DEF Init, LoadsEarlier
<1>3. Pending = Reachable(succ)
  BY <1>1 DEF Pending
<1>4. LoadsNamed /\ Fresh /\ TopsNamed
  BY <1>1, <1>3 DEF LoadsNamed, Settled, Fresh, TopsNamed, InCode
<1>5. EndsNamed
  <2>1. Len(frames) = 0 /\ \A v \in Vars : Len(var_val_stack[v]) = 0
    BY <1>1 DEF Init
  <2> QED
    BY <2>1 DEF EndsNamed, NamedStack
<1>6. PairsNamed
  <2>1. \A b, p : ~Passed(p, b)
    BY <1>3 DEF Passed
  <2>2. \A bv \in Blocks \X Vars : phi_pairs[bv] = {}
    BY DEF Init
  <2>3. \A b \in Blocks : \A v \in Vars : \A p : PairsFrom(b, v, p) = {}
    BY <2>2 DEF PairsFrom
  <2> QED
    BY <2>1, <2>3 DEF PairsNamed, PairNamed
<1> QED
  BY <1>2, <1>4, <1>5, <1>6 DEF NameInv

LEMMA NameNext == WalkInv /\ NameInv /\ [Next]_vars => NameInv'
<1> SUFFICES ASSUME WalkInv, NameInv, [Next]_vars PROVE NameInv'
  OBVIOUS
<1>1. CASE (\E v \in Vars : PickVar(v)) \/ (\E b \in Blocks : PlacePhis(b))
  <2>1. phase = "phi" /\ UNCHANGED <<progVars, phase, nameVars>>
    BY <1>1 DEF PickVar, PlacePhis
  <2> QED
    BY <2>1, NamesPhi
<1>2. CASE StartRename \/ \E c \in Blocks : Recurse(c)
  BY <1>2, NamesCall, EntryAssumption
<1>3. CASE RenameLoad
  <2>1. Fresh'
    BY FreshNext DEF WalkInv, NameInv
  <2> QED
    BY <1>3, <2>1, NamesLoad, TopsLoad DEF NameInv
<1>4. CASE RenameStore
  BY <1>4, NamesStore
<1>5. CASE \E s \in Blocks : FillPhis(s)
  BY <1>5, NamesFill
<1>6. CASE Return
  BY <1>6, NamesReturn
<1>7. CASE remove_alloca
  BY <1>7, NamesEnd
<1>8. CASE UNCHANGED vars
  BY <1>8, NamesStutter
<1> QED
  BY <1>1, <1>2, <1>3, <1>4, <1>5, <1>6, <1>7, <1>8 DEF Next

LEMMA WalkInit == Init => WalkInv
BY InitTypes, PhiInit, PathInit, ReplInit, StacksInit, FoundInit DEF WalkInv

LEMMA WalkNext == WalkInv /\ [Next]_vars => WalkInv'
BY NextTypes, PhiNext, PathNext, ReplNext, StacksNext, FoundNext DEF WalkInv

-----------------------------------------------------------------------------
(***************************************************************************)
(* The run.  The register of the name of a variable has what memory has    *)
(* for it; while the pass is on its way nothing is set.                    *)
(***************************************************************************)
Content == Data \cup {Undef}

RunTypes ==
  /\ at \in Reachable(succ) /\ ip \in Nat \ {0}
  /\ mem \in [Vars -> Content] /\ old \in [LoadValues -> Content] /\ new \in [Values -> Content]

\* No register is ever set for a load or for garbage.
NeverSet == new[Garbage] = Undef /\ \A x \in LoadValues : new[x] = Undef

NotStarted ==
  phase # "done" =>
    /\ at = Entry /\ ip = 1
    /\ \A v \in Vars : mem[v] = Undef
    /\ \A x \in LoadValues : old[x] = Undef
    /\ \A u \in Values : new[u] = Undef

MemNamed == \A v \in Vars : mem[v] = new[Name(at, v, ip)]

LoadsMatch == \A x \in LoadValues : Visible(x, at, ip) => new[repl[x]] = old[x]

RunInv == RunTypes /\ NeverSet /\ NotStarted /\ MemNamed /\ LoadsMatch

\* What replaces a load that is visible at a point is set before the point.
LEMMA VisibleEarlier ==
  ASSUME TypeInv, LoadsEarlier, NEW b \in Reachable(succ), NEW x \in LoadValues
  PROVE  /\ repl[x] \in Values
         /\ x[2] \in StrictDoms(succ, b) =>
              repl[x] = x \/ repl[x] = Garbage \/ repl[x][2] \in StrictDoms(succ, b)
         /\ \A k \in Nat : Visible(x, b, k) => repl[x] = x \/ Earlier(repl[x], b, k)
<1>0. repl[x] \in Values /\ (repl[x] = x \/ Earlier(repl[x], x[2], x[3])) /\ x[3] \in Nat
  BY LoadIndex DEF TypeInv, TypeOK, LoadsEarlier
<1>1. ASSUME x[2] \in StrictDoms(succ, b), repl[x] # x, repl[x] # Garbage
      PROVE  repl[x][2] \in StrictDoms(succ, b)
  <2>1. x[2] \in Doms(succ, b) /\ x[2] # b
    BY <1>1 DEF StrictDoms
  <2>2. repl[x][2] \in Doms(succ, x[2]) \/ repl[x][2] = x[2]
    BY <1>0, <1>1 DEF Earlier, StrictDoms
  <2>3. repl[x][2] \in Doms(succ, b)
    BY <2>1, <2>2, DomsTransitive
  <2>4. repl[x][2] # b
    BY <2>1, <2>2, DomsAntisymmetric
  <2> QED
    BY <2>3, <2>4 DEF StrictDoms
<1>2. ASSUME NEW k \in Nat, Visible(x, b, k), repl[x] # x PROVE Earlier(repl[x], b, k)
  <2>1. CASE x[2] \in StrictDoms(succ, b)
    BY <1>1, <1>2, <2>1 DEF Earlier
  <2>2. CASE x[2] = b /\ x[3] < k
    <3>1. Earlier(repl[x], b, x[3])
      BY <1>0, <1>2, <2>2
    <3>2. CASE repl[x] # Garbage /\ repl[x][2] = b /\ repl[x][1] # "phi" /\ repl[x][3] < x[3]
      <4>1. repl[x][3] \in Nat
        BY <1>0, <3>2, ValueIndex
      <4>2. repl[x][3] < k
        BY <1>0, <2>2, <3>2, <4>1
      <4> QED
        BY <3>2, <4>2 DEF Earlier
    <3> QED
      BY <3>1, <3>2 DEF Earlier
  <2> QED
    BY <1>2, <2>1, <2>2 DEF Visible
<1> QED
  BY <1>0, <1>1, <1>2

\* What the pass leaves.
LEMMA DoneNamed ==
  ASSUME WalkInv, NameInv, phase = "done"
  PROVE  /\ \A x \in LoadValues : x[2] \in Reachable(succ) => LoadNamed(x)
         /\ \A b \in Blocks : \A v \in phis[b] : \A p \in Preds(succ, b) :
              p \in Reachable(succ) =>
                \/ PairsFrom(b, v, p) = {<<NameAtEnd(p, v), p>>}
                \/ PairsFrom(b, v, p) = {} /\ NameAtEnd(p, v) = Garbage
<1>0. TypeInv /\ OpenPath /\ LoadsNamed /\ PairsNamed
  BY DEF WalkInv, NameInv
<1>1. Pending = {} /\ ~Renaming
  BY <1>0, NothingPending
<1>2. \A x \in LoadValues : x[2] \in Reachable(succ) => x \in Settled
  BY <1>1 DEF Settled
<1>3. \A b \in Blocks : \A p : p \in Reachable(succ) => Passed(p, b)
  BY <1>1 DEF Passed
<1>4. \A b \in Blocks : phis[b] \subseteq Vars
  BY <1>0 DEF TypeInv, TypeOK
<1> QED
  BY <1>0, <1>2, <1>3, <1>4 DEF LoadsNamed, PairsNamed, PairNamed

\* The point of the run: the access in hand, and the names after it.
LEMMA ExecPoint ==
  ASSUME WalkInv, NameInv, RunInv, Executing
  PROVE  /\ TypeInv /\ LoadsEarlier /\ at \in Blocks /\ at \in Reachable(succ)
         /\ ip \in 1..Len(code[at]) /\ ip \in Nat /\ ip + 1 \in Nat \ {0}
         /\ <<at, ip>> \in Accesses /\ code[at][ip].var \in Vars
         /\ \A v : Name(at, v, ip + 1) =
                    IF ip \in StoresIn(at, v) THEN get_rval(<<at, ip>>) ELSE Name(at, v, ip)
<1>1. TypeInv /\ LoadsEarlier /\ at \in Reachable(succ) /\ ip \in Nat \ {0}
  BY DEF WalkInv, NameInv, RunInv, RunTypes
<1>2. at \in Blocks
  BY <1>1, TreeChildren, ReachableClosed
<1>3. Len(code[at]) \in Nat /\ code[at] \in Seq(Access)
  BY <1>1, <1>2 DEF TypeInv, TypeOK
<1>4. ip \in 1..Len(code[at]) /\ ip \in Nat /\ ip + 1 \in Nat \ {0}
  BY <1>1, <1>3 DEF Executing
<1>5. <<at, ip>> \in Accesses
  BY <1>2, <1>4 DEF Accesses
<1>6. code[at][ip].var \in Vars
  <2>1. code[at][ip] \in Access
    BY <1>3, <1>4
  <2> QED
    BY <2>1 DEF Access
<1>7. \A v : Name(at, v, ip + 1) =
             IF ip \in StoresIn(at, v) THEN get_rval(<<at, ip>>) ELSE Name(at, v, ip)
  BY <1>1, <1>2, <1>4, NameStep
<1> QED
  BY <1>1, <1>2, <1>4, <1>5, <1>6, <1>7

\* Names and the pass do not change any more.
LEMMA RunStands ==
  ASSUME UNCHANGED vars
  PROVE  /\ UNCHANGED <<succ, code, repl, phase, phis, phi_pairs>>
         /\ LoadValues' = LoadValues /\ Values' = Values
         /\ \A b, v, k : Name(b, v, k)' = Name(b, v, k)
         /\ \A x, b, k : Visible(x, b, k)' <=> Visible(x, b, k)
<1>1. UNCHANGED <<succ, code, repl, phase, phis, phi_pairs>> /\ UNCHANGED progVars
  BY DEF vars, progVars, phiVars, nameVars
<1>2. LoadValues' = LoadValues /\ Values' = Values /\ \A b, v : StoresIn(b, v)' = StoresIn(b, v)
  BY <1>1, SameProgram
<1>3. \A a : get_rval(a)' = get_rval(a)
  BY <1>1 DEF get_rval, Instr, Current
<1>4. ASSUME NEW d, NEW v PROVE Leaves(d, v)' = Leaves(d, v)
  <2>1. PICK j : j = Latest(StoresIn(d, v))
    OBVIOUS
  <2>2. j = Latest(StoresIn(d, v))'
    BY <1>2, <2>1 DEF Latest
  <2>3. Leaves(d, v) = IF StoresIn(d, v) = {} THEN PhiValue(d, v) ELSE get_rval(<<d, j>>)
    BY <2>1 DEF Leaves
  <2>4. Leaves(d, v)' = IF StoresIn(d, v) = {} THEN PhiValue(d, v) ELSE get_rval(<<d, j>>)'
    BY <1>2, <2>2 DEF Leaves, PhiValue
  <2> QED
    BY <1>3, <2>3, <2>4
<1>5. \A S, v : NameFrom(S, v)' = NameFrom(S, v)
  <2>1. \A v : Definers(v)' = Definers(v)
    BY <1>1, <1>2 DEF Definers, Defs, PhiBlocks
  <2>2. \A S : Nearest(S)' = Nearest(S)
    BY <1>1 DEF Nearest
  <2> QED
    BY <1>4, <2>1, <2>2 DEF NameFrom
<1>6. ASSUME NEW b, NEW v, NEW k PROVE Name(b, v, k)' = Name(b, v, k)
  <2>1. StoresBefore(b, v, k)' = StoresBefore(b, v, k)
    BY <1>2 DEF StoresBefore
  <2>2. PICK j : j = Latest(StoresBefore(b, v, k))
    OBVIOUS
  <2>3. j = Latest(StoresBefore(b, v, k))'
    BY <2>1, <2>2 DEF Latest
  <2>4. PICK S : S = StrictDoms(succ, b) /\ S = StrictDoms(succ, b)'
    BY <1>1
  <2>5. NameAtStart(b, v) = IF v \in phis[b] THEN PhiValue(b, v) ELSE NameFrom(S, v)
    BY <2>4 DEF NameAtStart
  <2>6. NameAtStart(b, v)' = IF v \in phis[b] THEN PhiValue(b, v) ELSE NameFrom(S, v)'
    BY <1>1, <2>4 DEF NameAtStart, PhiValue
  <2>7. NameAtStart(b, v)' = NameAtStart(b, v)
    BY <1>5, <2>5, <2>6
  <2>8. Name(b, v, k) = IF StoresBefore(b, v, k) = {} THEN NameAtStart(b, v) ELSE get_rval(<<b, j>>)
    BY <2>2 DEF Name
  <2>9. Name(b, v, k)' = IF StoresBefore(b, v, k) = {} THEN NameAtStart(b, v)'
                         ELSE get_rval(<<b, j>>)'
    BY <2>1, <2>3 DEF Name
  <2> QED
    BY <1>3, <2>7, <2>8, <2>9
<1> QED
  BY <1>1, <1>2, <1>6 DEF Visible

\* What is visible after an access was visible before, but for the access.
LEMMA VisibleStep ==
  ASSUME TypeInv, NEW b, NEW k \in Nat, NEW x \in LoadValues, Visible(x, b, k + 1)
  PROVE  Visible(x, b, k) \/ (x[2] = b /\ x[3] = k)
<1>1. x[3] \in Nat
  BY LoadIndex
<1> QED
  BY <1>1 DEF Visible

LEMMA RunLoad ==
  ASSUME WalkInv, NameInv, RunInv, ExecLoad
  PROVE  RunInv'
<1> DEFINE w == code[at][ip].var
           y == LoadValue(<<at, ip>>)
<1>0. /\ Executing /\ code[at][ip].op = "load" /\ old' = [old EXCEPT ![y] = mem[w]]
      /\ ip' = ip + 1 /\ UNCHANGED <<vars, at, mem, new>>
  BY DEF ExecLoad
<1>1. /\ UNCHANGED <<succ, code, repl, phase>> /\ LoadValues' = LoadValues /\ Values' = Values
      /\ \A b, v, k : Name(b, v, k)' = Name(b, v, k)
      /\ \A x, b, k : Visible(x, b, k)' <=> Visible(x, b, k)
  BY <1>0, RunStands
<1>2. /\ TypeInv /\ at \in Reachable(succ) /\ ip \in Nat /\ ip + 1 \in Nat \ {0}
      /\ <<at, ip>> \in Accesses /\ w \in Vars
      /\ \A v : Name(at, v, ip + 1) =
                 IF ip \in StoresIn(at, v) THEN get_rval(<<at, ip>>) ELSE Name(at, v, ip)
  BY <1>0, ExecPoint
<1>3. RunTypes /\ NeverSet /\ MemNamed /\ LoadsMatch /\ phase = "done"
  BY <1>0 DEF RunInv, Executing
<1>4. y \in LoadValues /\ y[2] = at /\ y[3] = ip /\ VarOf(y) = w
  BY <1>0, <1>2 DEF LoadValues, Instr, LoadValue, VarOf
<1>5. RunTypes'
  <2>1. mem[w] \in Content
    BY <1>2, <1>3 DEF RunTypes
  <2>2. old' \in [LoadValues -> Content]
    BY <1>0, <1>3, <1>4, <2>1 DEF RunTypes
  <2> QED
    BY <1>0, <1>1, <1>2, <1>3, <2>2 DEF RunTypes, Content
<1>6. NeverSet' /\ NotStarted'
  BY <1>0, <1>1, <1>3 DEF NeverSet, NotStarted
<1>7. MemNamed'
  <2>1. \A v : ip \notin StoresIn(at, v)
    BY <1>0 DEF StoresIn
  <2>2. \A v : Name(at, v, ip)' = Name(at, v, ip)
    <3>1. PICK b, k : b = at /\ k = ip + 1
      OBVIOUS
    <3>2. \A v : Name(b, v, k)' = Name(b, v, k)
      BY <1>1
    <3>3. \A v : Name(at, v, ip)' = Name(b, v, k)'
      BY <1>0, <3>1
    <3> QED
      BY <1>2, <2>1, <3>1, <3>2, <3>3
  <2> QED
    BY <1>0, <1>3, <2>2 DEF MemNamed
<1>8. new[repl[y]] = mem[w]
  <2>1. LoadNamed(y)
    BY <1>2, <1>3, <1>4, DoneNamed
  <2>2. repl[y] = Name(at, w, ip) \/ (Name(at, w, ip) = Garbage /\ repl[y] = y)
    BY <1>4, <2>1 DEF LoadNamed
  <2> QED
    BY <1>2, <1>3, <1>4, <2>2 DEF MemNamed, NeverSet
<1>9. ASSUME NEW x \in LoadValues, Visible(x, at, ip + 1)
      PROVE  new[repl[x]] = old'[x]
  <2>1. CASE x = y
    BY <1>0, <1>3, <1>4, <1>8, <2>1 DEF RunTypes
  <2>2. CASE x # y
    <3>1. ~(x[2] = at /\ x[3] = ip)
      BY <1>2, <2>2, LoadIndex DEF LoadValue
    <3>2. Visible(x, at, ip)
      BY <1>2, <1>9, <3>1, VisibleStep
    <3>3. old'[x] = old[x]
      BY <1>0, <1>3, <2>2 DEF RunTypes
    <3> QED
      BY <1>3, <3>2, <3>3 DEF LoadsMatch
  <2> QED
    BY <2>1, <2>2
<1>10. LoadsMatch'
  <2>1. \A x : Visible(x, at, ip)' <=> Visible(x, at, ip + 1)
    BY <1>0, <1>1 DEF Visible
  <2> QED
    BY <1>0, <1>1, <1>9, <2>1 DEF LoadsMatch
<1> QED
  BY <1>5, <1>6, <1>7, <1>10 DEF RunInv

LEMMA RunCopy ==
  ASSUME WalkInv, NameInv, RunInv, ExecCopy
  PROVE  RunInv'
<1> DEFINE w == code[at][ip].var
           y == LoadValue(<<at, code[at][ip].src>>)
<1>0. /\ Executing /\ code[at][ip].op = "store" /\ code[at][ip].src > 0
      /\ mem' = [mem EXCEPT ![w] = old[y]]
      /\ ip' = ip + 1 /\ UNCHANGED <<vars, at, old, new>>
  BY DEF ExecCopy
<1>1. /\ UNCHANGED <<succ, code, repl, phase>> /\ LoadValues' = LoadValues /\ Values' = Values
      /\ \A b, v, k : Name(b, v, k)' = Name(b, v, k)
      /\ \A x, b, k : Visible(x, b, k)' <=> Visible(x, b, k)
  BY <1>0, RunStands
<1>2. /\ TypeInv /\ at \in Reachable(succ) /\ ip \in Nat /\ ip + 1 \in Nat \ {0}
      /\ <<at, ip>> \in Accesses /\ w \in Vars /\ at \in Blocks /\ ip \in 1..Len(code[at])
      /\ \A v : Name(at, v, ip + 1) =
                 IF ip \in StoresIn(at, v) THEN get_rval(<<at, ip>>) ELSE Name(at, v, ip)
  BY <1>0, ExecPoint
<1>3. RunTypes /\ NeverSet /\ MemNamed /\ LoadsMatch /\ phase = "done"
  BY <1>0 DEF RunInv, Executing
<1>4. /\ code[at][ip].src \in 1..(ip-1) /\ y \in LoadValues /\ y[2] = at /\ y[3] < ip
      /\ get_rval(<<at, ip>>) = repl[y]
  <2>1. code[at][ip].src # 0
    BY <1>0
  <2>2. code[at][ip].src \in 1..(ip-1) /\ y \in LoadValues /\ get_rval(<<at, ip>>) = repl[y]
    BY <1>0, <1>2, <2>1, StoredValue
  <2>3. y[2] = at /\ y[3] = code[at][ip].src
    BY DEF LoadValue
  <2> QED
    BY <1>2, <2>2, <2>3
<1>5. RunTypes'
  <2>1. old[y] \in Content
    BY <1>3, <1>4 DEF RunTypes
  <2>2. mem' \in [Vars -> Content]
    BY <1>0, <1>2, <1>3, <2>1 DEF RunTypes
  <2> QED
    BY <1>0, <1>1, <1>2, <1>3, <2>2 DEF RunTypes, Content
<1>6. NeverSet' /\ NotStarted'
  BY <1>0, <1>1, <1>3 DEF NeverSet, NotStarted
<1>7. ASSUME NEW v \in Vars PROVE mem'[v] = new[Name(at, v, ip + 1)]
  <2>1. ip \in StoresIn(at, v) <=> v = w
    BY <1>0, <1>2 DEF StoresIn
  <2>2. CASE v = w
    <3>1. mem'[v] = old[y]
      BY <1>0, <1>2, <1>3, <2>2 DEF RunTypes
    <3>2. new[repl[y]] = old[y]
      BY <1>3, <1>4 DEF LoadsMatch, Visible
    <3> QED
      BY <1>2, <1>4, <2>1, <2>2, <3>1, <3>2
  <2>3. CASE v # w
    <3>1. mem'[v] = mem[v]
      BY <1>0, <1>3, <2>3 DEF RunTypes
    <3> QED
      BY <1>2, <1>3, <2>1, <2>3, <3>1 DEF MemNamed
  <2> QED
    BY <2>2, <2>3
<1>8. MemNamed'
  <2>1. PICK b, k : b = at /\ k = ip + 1
    OBVIOUS
  <2>2. \A v : Name(b, v, k)' = Name(b, v, k)
    BY <1>1
  <2>3. \A v : Name(at, v, ip)' = Name(b, v, k)'
    BY <1>0, <2>1
  <2> QED
    BY <1>0, <1>7, <2>1, <2>2, <2>3 DEF MemNamed
<1>9. ASSUME NEW x \in LoadValues, Visible(x, at, ip + 1) PROVE new[repl[x]] = old[x]
  <2>1. ~(x[2] = at /\ x[3] = ip)
    BY <1>0, <1>2, LoadIndex DEF Instr
  <2>2. Visible(x, at, ip)
    BY <1>2, <1>9, <2>1, VisibleStep
  <2> QED
    BY <1>3, <2>2 DEF LoadsMatch
<1>10. LoadsMatch'
  <2>1. \A x : Visible(x, at, ip)' <=> Visible(x, at, ip + 1)
    BY <1>0, <1>1 DEF Visible
  <2> QED
    BY <1>0, <1>1, <1>9, <2>1 DEF LoadsMatch
<1> QED
  BY <1>5, <1>6, <1>8, <1>10 DEF RunInv

LEMMA RunStore ==
  ASSUME WalkInv, NameInv, RunInv, NEW d \in Data, ExecStore(d)
  PROVE  RunInv'
<1> DEFINE w == code[at][ip].var
           y == DefValue(<<at, ip>>)
<1>0. /\ Executing /\ code[at][ip].op = "store" /\ code[at][ip].src = 0
      /\ mem' = [mem EXCEPT ![w] = d] /\ new' = [new EXCEPT ![y] = d]
      /\ ip' = ip + 1 /\ UNCHANGED <<vars, at, old>>
  BY DEF ExecStore
<1>1. /\ UNCHANGED <<succ, code, repl, phase>> /\ LoadValues' = LoadValues /\ Values' = Values
      /\ \A b, v, k : Name(b, v, k)' = Name(b, v, k)
      /\ \A x, b, k : Visible(x, b, k)' <=> Visible(x, b, k)
  BY <1>0, RunStands
<1>2. /\ TypeInv /\ LoadsEarlier /\ at \in Reachable(succ) /\ ip \in Nat /\ ip + 1 \in Nat \ {0}
      /\ <<at, ip>> \in Accesses /\ w \in Vars /\ at \in Blocks /\ ip \in 1..Len(code[at])
      /\ \A v : Name(at, v, ip + 1) =
                 IF ip \in StoresIn(at, v) THEN get_rval(<<at, ip>>) ELSE Name(at, v, ip)
  BY <1>0, ExecPoint
<1>3. RunTypes /\ NeverSet /\ MemNamed /\ LoadsMatch /\ phase = "done"
  BY <1>0 DEF RunInv, Executing
<1>4. /\ y \in Values /\ y[1] = "def" /\ y[2] = at /\ y[3] = ip /\ y # Garbage /\ y \notin LoadValues
      /\ get_rval(<<at, ip>>) = y
  <2>1. y \in Values
    BY <1>2 DEF Values
  <2>2. y[1] = "def" /\ y[2] = at /\ y[3] = ip
    BY DEF DefValue
  <2>3. y # Garbage
    BY DEF DefValue, Garbage
  <2>4. y \notin LoadValues
    BY ValueKinds
  <2>5. get_rval(<<at, ip>>) = y
    BY <1>0, <1>2, StoredValue
  <2> QED
    BY <2>1, <2>2, <2>3, <2>4, <2>5
<1>5. \A u \in Values : u # y => new'[u] = new[u]
  BY <1>0, <1>3 DEF RunTypes
<1>6. new'[y] = d
  BY <1>0, <1>3, <1>4 DEF RunTypes
\* What is set before the access is not set by it.
<1>7. \A u : Earlier(u, at, ip) => u # y
  <2>1. at \notin StrictDoms(succ, at) /\ ~(ip < ip)
    BY <1>2 DEF StrictDoms
  <2> QED
    BY <1>4, <2>1 DEF Earlier
<1>8. RunTypes'
  <2>1. d \in Content
    BY DEF Content
  <2>2. mem' \in [Vars -> Content] /\ new' \in [Values -> Content]
    BY <1>0, <1>2, <1>3, <1>4, <2>1 DEF RunTypes
  <2> QED
    BY <1>0, <1>1, <1>2, <1>3, <2>2 DEF RunTypes, Content
<1>9. NeverSet'
  <2>1. Garbage \in Values /\ LoadValues \subseteq Values
    BY DEF Values
  <2> QED
    BY <1>1, <1>3, <1>4, <1>5, <2>1 DEF NeverSet
<1>10. NotStarted'
  BY <1>1, <1>3 DEF NotStarted
<1>11. ASSUME NEW v \in Vars PROVE mem'[v] = new'[Name(at, v, ip + 1)]
  <2>1. ip \in StoresIn(at, v) <=> v = w
    BY <1>0, <1>2 DEF StoresIn
  <2>2. CASE v = w
    <3>1. mem'[v] = d
      BY <1>0, <1>2, <1>3, <2>2 DEF RunTypes
    <3> QED
      BY <1>2, <1>4, <1>6, <2>1, <2>2, <3>1
  <2>3. CASE v # w
    <3>1. mem'[v] = mem[v]
      BY <1>0, <1>3, <2>3 DEF RunTypes
    <3>2. Name(at, v, ip) \in Values /\ Earlier(Name(at, v, ip), at, ip)
      BY <1>2, NameEarlier
    <3>3. new'[Name(at, v, ip)] = new[Name(at, v, ip)]
      BY <1>5, <1>7, <3>2
    <3> QED
      BY <1>2, <1>3, <2>1, <2>3, <3>1, <3>3 DEF MemNamed
  <2> QED
    BY <2>2, <2>3
<1>12. MemNamed'
  <2>1. PICK b, k : b = at /\ k = ip + 1
    OBVIOUS
  <2>2. \A v : Name(b, v, k)' = Name(b, v, k)
    BY <1>1
  <2>3. \A v : Name(at, v, ip)' = Name(b, v, k)'
    BY <1>0, <2>1
  <2> QED
    BY <1>11, <2>1, <2>2, <2>3 DEF MemNamed
<1>13. ASSUME NEW x \in LoadValues, Visible(x, at, ip + 1) PROVE new'[repl[x]] = old[x]
  <2>1. ~(x[2] = at /\ x[3] = ip)
    BY <1>0, <1>2, LoadIndex DEF Instr
  <2>2. Visible(x, at, ip)
    BY <1>2, <1>13, <2>1, VisibleStep
  <2>3. repl[x] \in Values /\ repl[x] # y
    BY <1>2, <1>4, <1>7, <2>2, VisibleEarlier
  <2> QED
    BY <1>3, <1>5, <2>2, <2>3 DEF LoadsMatch
<1>14. LoadsMatch'
  <2>1. \A x : Visible(x, at, ip)' <=> Visible(x, at, ip + 1)
    BY <1>0, <1>1 DEF Visible
  <2> QED
    BY <1>0, <1>1, <1>13, <2>1 DEF LoadsMatch
<1> QED
  BY <1>8, <1>9, <1>10, <1>12, <1>14 DEF RunInv

\* The phis of the block that is branched to take the names at the end of the
\* block that is left.
LEMMA BranchNames ==
  ASSUME WalkInv, NameInv, RunInv, NEW s \in Blocks, Branch(s), NEW v \in Vars
  PROVE  mem[v] = new'[NameAtStart(s, v)]
<1>0. /\ phase = "done" /\ ~Executing /\ s \in succ[at]
      /\ new' = [x \in Values |->
                   IF \E z \in phis[s] : x = PhiValue(s, z)
                   THEN IF PhiArgs(s, x[3]) = {} THEN Undef
                        ELSE new[CHOOSE y \in PhiArgs(s, x[3]) : TRUE]
                   ELSE new[x]]
  BY DEF Branch
<1>1. TypeInv /\ PhiInv /\ LoadsEarlier /\ RunTypes /\ NeverSet /\ MemNamed
  BY DEF WalkInv, NameInv, RunInv
<1>2. /\ at \in Reachable(succ) /\ at \in Blocks /\ ip \in Nat /\ s \in Reachable(succ)
      /\ at \in Preds(succ, s)
  BY <1>0, <1>1, TreeChildren, ReachableClosed DEF RunTypes, Preds
<1>3. ip > Len(code[at])
  <2>1. Len(code[at]) \in Nat
    BY <1>1, <1>2, StorePositions
  <2> QED
    BY <1>0, <1>2, <2>1 DEF Executing
<1>4. mem[v] = new[NameAtEnd(at, v)]
  BY <1>1, <1>2, <1>3, NameLast DEF MemNamed
<1>5. CASE v \in phis[s]
  <2>1. NameAtStart(s, v) = PhiValue(s, v) /\ PhiValue(s, v)[3] = v
    BY <1>5 DEF NameAtStart, PhiValue
  <2>2. PhiValue(s, v) \in Values
    BY DEF Values
  <2>3. new'[PhiValue(s, v)] = IF PhiArgs(s, v) = {} THEN Undef
                               ELSE new[CHOOSE y \in PhiArgs(s, v) : TRUE]
    <3>1. PICK u \in Values : /\ u = PhiValue(s, v) /\ u[3] = v
                              /\ \E z \in phis[s] : u = PhiValue(s, z)
      BY <1>5, <2>1, <2>2
    <3>2. new'[u] = IF PhiArgs(s, u[3]) = {} THEN Undef
                    ELSE new[CHOOSE y \in PhiArgs(s, u[3]) : TRUE]
      BY <1>0, <3>1
    <3> QED
      BY <3>1, <3>2
  <2>4. PhiArgs(s, v) = {x[1] : x \in PairsFrom(s, v, at)}
    BY DEF PhiArgs, PairsFrom
  <2>5. \/ PairsFrom(s, v, at) = {<<NameAtEnd(at, v), at>>}
        \/ PairsFrom(s, v, at) = {} /\ NameAtEnd(at, v) = Garbage
    BY <1>0, <1>2, <1>5, DoneNamed
  <2>6. CASE PairsFrom(s, v, at) = {<<NameAtEnd(at, v), at>>}
    <3>1. PhiArgs(s, v) = {NameAtEnd(at, v)}
      BY <2>4, <2>6
    <3> QED
      BY <1>4, <2>1, <2>3, <3>1
  <2>7. CASE PairsFrom(s, v, at) = {} /\ NameAtEnd(at, v) = Garbage
    <3>1. PhiArgs(s, v) = {}
      BY <2>4, <2>7
    <3> QED
      BY <1>1, <1>4, <2>1, <2>3, <2>7, <3>1 DEF NeverSet
  <2> QED
    BY <2>5, <2>6, <2>7
<1>6. CASE v \notin phis[s]
  <2>1. NameAtStart(s, v) = NameAtEnd(at, v)
    BY <1>0, <1>1, <1>2, <1>6, NameAlongEdge
  <2>2. /\ NameAtStart(s, v) \in Values
        /\ NameAtStart(s, v) = Garbage \/ NameAtStart(s, v)[2] # s
    BY <1>1, <1>2, <1>6, StartEarlier DEF StrictDoms
  <2>3. \A z : NameAtStart(s, v) # PhiValue(s, z)
    BY <2>2 DEF PhiValue, Garbage
  <2>4. new'[NameAtStart(s, v)] = new[NameAtStart(s, v)]
    BY <1>0, <2>2, <2>3
  <2> QED
    BY <1>4, <2>1, <2>4
<1> QED
  BY <1>5, <1>6

LEMMA RunBranch ==
  ASSUME WalkInv, NameInv, RunInv, NEW s \in Blocks, Branch(s)
  PROVE  RunInv'
<1>0. /\ phase = "done" /\ ~Executing /\ s \in succ[at] /\ at' = s /\ ip' = 1
      /\ UNCHANGED <<vars, mem, old>>
      /\ new' = [x \in Values |->
                   IF \E z \in phis[s] : x = PhiValue(s, z)
                   THEN IF PhiArgs(s, x[3]) = {} THEN Undef
                        ELSE new[CHOOSE y \in PhiArgs(s, x[3]) : TRUE]
                   ELSE new[x]]
  BY DEF Branch
<1>1. /\ UNCHANGED <<succ, code, repl, phase>> /\ LoadValues' = LoadValues /\ Values' = Values
      /\ \A b, v, k : Name(b, v, k)' = Name(b, v, k)
      /\ \A x, b, k : Visible(x, b, k)' <=> Visible(x, b, k)
  BY <1>0, RunStands
<1>2. TypeInv /\ LoadsEarlier /\ RunTypes /\ NeverSet /\ LoadsMatch
  BY DEF WalkInv, NameInv, RunInv
<1>3. /\ succ \in Graph /\ at \in Reachable(succ) /\ at \in Blocks /\ ip \in Nat
      /\ s \in Reachable(succ)
  BY <1>0, <1>2, TreeChildren, ReachableClosed DEF RunTypes
<1>4. Len(code[at]) \in Nat /\ ip > Len(code[at])
  <2>1. Len(code[at]) \in Nat
    BY <1>2, <1>3, StorePositions
  <2> QED
    BY <1>0, <1>3, <2>1 DEF Executing
<1>5. \A u \in Values : (\A z : u # PhiValue(s, z)) => new'[u] = new[u]
  BY <1>0
<1>6. RunTypes'
  <2>1. ASSUME NEW z \in phis[s], NEW y \in PhiArgs(s, z) PROVE y \in Values
    <3>1. <<s, z>> \in Blocks \X Vars /\ phi_pairs[<<s, z>>] \subseteq Values \X Blocks
      BY <1>2 DEF TypeInv, TypeOK
    <3> QED
      BY <3>1 DEF PhiArgs
  <2>2. ASSUME NEW x \in Values PROVE new'[x] \in Content
    <3>1. CASE \E z \in phis[s] : x = PhiValue(s, z)
      <4>1. PICK z \in phis[s] : x = PhiValue(s, z) /\ x[3] = z
        BY <3>1 DEF PhiValue
      <4>2. CASE PhiArgs(s, z) = {}
        BY <1>0, <4>1, <4>2 DEF Content
      <4>3. CASE PhiArgs(s, z) # {}
        <5>1. PICK y : y = (CHOOSE q \in PhiArgs(s, z) : TRUE)
          OBVIOUS
        <5>2. y \in Values
          BY <2>1, <4>3, <5>1
        <5>3. new'[x] = new[y]
          BY <1>0, <4>1, <4>3, <5>1
        <5> QED
          BY <1>2, <5>2, <5>3 DEF RunTypes
      <4> QED
        BY <4>2, <4>3
    <3>2. CASE ~\E z \in phis[s] : x = PhiValue(s, z)
      BY <1>0, <1>2, <3>2 DEF RunTypes
    <3> QED
      BY <3>1, <3>2
  <2>3. new' \in [Values -> Content]
    BY <1>0, <2>2
  <2> QED
    BY <1>0, <1>1, <1>2, <1>3, <2>3 DEF RunTypes, Content
<1>7. NeverSet'
  <2>1. Garbage \in Values /\ LoadValues \subseteq Values
    BY DEF Values
  <2>2. \A z : Garbage # PhiValue(s, z) /\ PhiValue(s, z) \notin LoadValues
    BY ValueKinds DEF PhiValue, Garbage
  <2> QED
    BY <1>1, <1>2, <1>5, <2>1, <2>2 DEF NeverSet
<1>8. NotStarted'
  BY <1>0, <1>1 DEF NotStarted
<1>9. MemNamed'
  <2>1. \A v \in Vars : mem[v] = new'[Name(s, v, 1)]
    BY <1>2, BranchNames, NameFirst
  <2>2. \A v : Name(s, v, 1)' = Name(s, v, 1)
    BY <1>1
  <2>3. \A v : Name(at, v, ip)' = Name(s, v, 1)'
    BY <1>0
  <2> QED
    BY <1>0, <2>1, <2>2, <2>3 DEF MemNamed
<1>10. ASSUME NEW x \in LoadValues, Visible(x, s, 1) PROVE new'[repl[x]] = old[x]
  <2>1. x[3] \in Nat \ {0} /\ x[3] <= Len(code[x[2]])
    BY <1>2, LoadIndex
  <2>2. x[2] \in StrictDoms(succ, s)
    BY <1>10, <2>1 DEF Visible
  <2>3. x[2] \in Doms(succ, at)
    BY <1>0, <1>3, <2>2, DomsAlongEdge
  <2>4. x[2] = at => x[3] < ip
    BY <1>3, <1>4, <2>1
  <2>5. Visible(x, at, ip)
    BY <2>3, <2>4 DEF Visible, StrictDoms
  <2>6. repl[x] \in Values /\ (repl[x] = x \/ repl[x] = Garbage \/ repl[x][2] \in StrictDoms(succ, s))
    BY <1>2, <1>3, <2>2, VisibleEarlier
  <2>7. \A z : repl[x] # PhiValue(s, z)
    <3>1. \A z : Garbage # PhiValue(s, z) /\ PhiValue(s, z) \notin LoadValues /\ PhiValue(s, z)[2] = s
      BY ValueKinds DEF PhiValue, Garbage
    <3> QED
      BY <2>6, <3>1 DEF StrictDoms
  <2> QED
    BY <1>2, <1>5, <2>5, <2>6, <2>7 DEF LoadsMatch
<1>11. LoadsMatch'
  <2>1. \A x : Visible(x, at, ip)' <=> Visible(x, s, 1)
    BY <1>0, <1>1 DEF Visible
  <2> QED
    BY <1>0, <1>1, <1>10, <2>1 DEF LoadsMatch
<1> QED
  BY <1>6, <1>7, <1>8, <1>9, <1>11 DEF RunInv

\* While the pass is on its way, nothing is set.
NamesKnown ==
  /\ \A b \in Reachable(succ) : \A v \in Vars : \A k \in Nat : Name(b, v, k) \in Values
  /\ \A x \in LoadValues : repl[x] \in Values

LEMMA NamesAreValues == WalkInv /\ NameInv => NamesKnown
BY NameEarlier DEF WalkInv, NameInv, NamesKnown, TypeInv, TypeOK

LEMMA RunPass ==
  ASSUME RunInv, Pass, NamesKnown'
  PROVE  RunInv'
<1>0. phase # "done" /\ UNCHANGED <<at, ip, mem, old, new>> /\ UNCHANGED progVars
  BY NextSameProgram DEF Pass, runVars
<1>1. LoadValues' = LoadValues /\ Values' = Values /\ succ' = succ
  BY <1>0, SameProgram DEF progVars
<1>2. RunTypes /\ NeverSet /\ NotStarted
  BY DEF RunInv
<1>3. /\ at = Entry /\ ip = 1
      /\ \A v \in Vars : mem[v] = Undef
      /\ \A x \in LoadValues : old[x] = Undef
      /\ \A u \in Values : new[u] = Undef
  BY <1>0, <1>2 DEF NotStarted
<1>4. RunTypes' /\ NeverSet' /\ NotStarted'
  BY <1>0, <1>1, <1>2, <1>3 DEF RunTypes, NeverSet, NotStarted, Content
<1>5. MemNamed'
  <2>1. PICK b \in Reachable(succ), k \in Nat : b = at /\ k = ip
    BY <1>2 DEF RunTypes
  <2>2. \A v \in Vars : Name(b, v, k)' \in Values
    BY <1>1 DEF NamesKnown
  <2>3. ASSUME NEW v \in Vars PROVE mem'[v] = (new[Name(at, v, ip)])'
    <3>1. Name(at, v, ip)' = Name(b, v, k)'
      BY <1>0, <2>1
    <3>2. PICK u \in Values : u = Name(at, v, ip)'
      BY <2>2, <3>1
    <3>3. (new[Name(at, v, ip)])' = new[u]
      BY <1>0, <3>2
    <3>4. new[u] = Undef
      BY <1>3, <3>2
    <3>5. mem'[v] = Undef
      BY <1>0, <1>3
    <3> QED
      BY <3>3, <3>4, <3>5
  <2> QED
    BY <2>3 DEF MemNamed
<1>6. LoadsMatch'
  BY <1>0, <1>1, <1>3 DEF LoadsMatch, NamesKnown
<1> QED
  BY <1>4, <1>5, <1>6 DEF RunInv

LEMMA RunStutter ==
  ASSUME RunInv, UNCHANGED allVars
  PROVE  RunInv'
<1>1. UNCHANGED vars /\ UNCHANGED <<at, ip, mem, old, new>>
  BY DEF allVars, runVars
<1>2. /\ UNCHANGED <<succ, repl, phase>> /\ LoadValues' = LoadValues /\ Values' = Values
      /\ \A b, v, k : Name(b, v, k)' = Name(b, v, k)
      /\ \A x, b, k : Visible(x, b, k)' <=> Visible(x, b, k)
  BY <1>1, RunStands
<1>3. \A v : Name(at, v, ip)' = Name(at, v, ip)
  <2>1. PICK b, k : b = at /\ k = ip
    OBVIOUS
  <2>2. \A v : Name(at, v, ip)' = Name(b, v, k)'
    BY <1>1, <2>1
  <2> QED
    BY <1>2, <2>1, <2>2
<1>4. \A x : Visible(x, at, ip)' <=> Visible(x, at, ip)
  BY <1>1, <1>2 DEF Visible
<1> QED
  BY <1>1, <1>2, <1>3, <1>4
     DEF RunInv, RunTypes, Content, NeverSet, NotStarted, MemNamed, LoadsMatch

LEMMA RunStart == RunInit => Init /\ (WalkInv /\ NameInv => RunInv)
<1> SUFFICES ASSUME RunInit, WalkInv, NameInv PROVE RunInv
  BY DEF RunInit
<1>1. /\ at = Entry /\ ip = 1 /\ mem = [v \in Vars |-> Undef] /\ new = [u \in Values |-> Undef]
      /\ old = [x \in LoadValues |-> Undef] /\ phase = "phi" /\ TypeInv
  <2>1. DOMAIN repl = LoadValues /\ TypeInv
    BY DEF WalkInv, TypeInv, TypeOK
  <2> QED
    BY <2>1 DEF RunInit, Init
<1>2. Entry \in Reachable(succ)
  BY <1>1, TreeChildren, ReachableClosed
<1>3. RunTypes /\ NotStarted
  BY <1>1, <1>2 DEF RunTypes, NotStarted, Content
<1>4. NamesKnown
  BY NamesAreValues
<1>5. NeverSet
  <2>1. Garbage \in Values /\ LoadValues \subseteq Values
    BY DEF Values
  <2> QED
    BY <1>1, <2>1 DEF NeverSet
<1>6. MemNamed /\ LoadsMatch
  BY <1>1, <1>2, <1>4 DEF MemNamed, LoadsMatch, NamesKnown
<1> QED
  BY <1>3, <1>5, <1>6 DEF RunInv

\* A step of the run is a step of the pass or leaves all of it alone.
LEMMA RunIsPass == [RunNext]_allVars => [Next]_vars
BY DEF RunNext, Pass, ExecStore, Branch, ExecLoad, ExecCopy, Ret, allVars

LEMMA RunStep ==
  WalkInv /\ NameInv /\ RunInv /\ NamesKnown' /\ [RunNext]_allVars => RunInv'
<1> SUFFICES ASSUME WalkInv, NameInv, RunInv, NamesKnown', [RunNext]_allVars PROVE RunInv'
  OBVIOUS
<1>1. CASE Pass
  BY <1>1, RunPass
<1>2. CASE \E d \in Data : ExecStore(d)
  BY <1>2, RunStore
<1>3. CASE \E s \in Blocks : Branch(s)
  BY <1>3, RunBranch
<1>4. CASE ExecLoad
  BY <1>4, RunLoad
<1>5. CASE ExecCopy
  BY <1>5, RunCopy
<1>6. CASE Ret \/ UNCHANGED allVars
  BY <1>6, RunStutter DEF Ret
<1> QED
  BY <1>1, <1>2, <1>3, <1>4, <1>5, <1>6 DEF RunNext

\* Mem2Reg keeps the meaning of a function: wherever the result of a load may
\* be used, on every path, in every iteration of a loop and for all data, the
\* value that stands for it is what the load would have read.  Nothing is asked
\* of the function: a variable that is read before it is written is undefined
\* before and after, unless it makes an assert fail, when the pass does not
\* return.
THEOREM LoadsCorrect == RunSpec => []LoadsAgree
<1>1. RunInit => WalkInv /\ NameInv /\ RunInv
  BY RunStart, WalkInit, NameInit
<1>2. WalkInv /\ NameInv /\ [RunNext]_allVars => (WalkInv /\ NameInv)'
  BY RunIsPass, WalkNext, NameNext
<1>3. RunSpec => [](WalkInv /\ NameInv)
  BY <1>1, <1>2, PTL DEF RunSpec
<1>4. RunSpec => []NamesKnown
  BY <1>3, NamesAreValues, PTL
<1>5. RunSpec => []RunInv
  BY <1>1, <1>3, <1>4, RunStep, PTL DEF RunSpec
<1>6. WalkInv /\ RunInv => LoadsAgree
  BY DEF WalkInv, TypeInv, TypeOK, RunInv, RunTypes, LoadsMatch, LoadsAgree, Visible, Current
<1> QED
  BY <1>3, <1>5, <1>6, PTL
=============================================================================
