------------------------------ MODULE GVNProof ------------------------------
(***************************************************************************)
(* Theorems about GVN for every function, however it is nested.            *)
(*                                                                         *)
(* PartitionsWellFormed is not inductive: copy_stmt adds a phi to every    *)
(* class whose expression is the constant it copies.  Good adds that no    *)
(* two classes have one constant as their expression; each operation on    *)
(* partitions keeps it, joins and classes dropped by emplace included.     *)
(* The use lists follow the operands whatever the partitions are.          *)
(***************************************************************************)
EXTENDS GVN, FiniteSetTheorems, SequenceTheorems, WellFoundedInduction, TLAPS

-----------------------------------------------------------------------------
(* Loops: induction, and the states a loop goes through.                   *)

\* Induction in terms of the set of the numbers it has reached.
LEMMA SetInduction ==
  ASSUME NEW T, 0 \in T, \A n \in Nat : n \in T => n + 1 \in T
  PROVE  \A n \in Nat : n \in T
<1> SUFFICES ASSUME Nat \ T # {} PROVE FALSE
  OBVIOUS
<1> DEFINE R == OpToRel(<, Nat)
<1>1. IsWellFoundedOn(R, Nat)
  BY NatLessThanWellFounded
<1>2. \A x, y \in Nat : y < x => <<y, x>> \in R
  BY DEF OpToRel
<1> HIDE DEF R
<1>3. Nat \ T \in SUBSET Nat
  OBVIOUS
<1>4. PICK x \in Nat \ T : \A y \in Nat \ T : ~(<<y, x>> \in R)
  BY <1>1, <1>3, WFMin
<1>5. x # 0 /\ x - 1 \in Nat /\ x - 1 < x
  OBVIOUS
<1>6. x - 1 \in T
  BY <1>2, <1>4, <1>5
<1>7. (x - 1) + 1 \in T
  BY <1>5, <1>6
<1> QED
  BY <1>7

\* transferFunction goes from state to state, one for each instruction.
LEMMA TransferLoop ==
  ASSUME NEW b, NEW st, Len(code[b]) \in Nat
  PROVE  \E f : /\ f[0] = st
                /\ \A k \in 1..Len(code[b]) : f[k] = TransferInstr(b, f[k-1], Op(b, k))
                /\ transferFunction(b, st) = f[Len(code[b])]
<1> DEFINE Upto(g, n) == [k \in 0..n |-> IF k = 0 THEN st ELSE TransferInstr(b, g[k-1], Op(b, k))]
           T == {n \in Nat : \E g : g = Upto(g, n)}
           N == Len(code[b])
           after == CHOOSE g : g = Upto(g, N)
<1>1. 0 \in T
  <2>1. [k \in 0..0 |-> st] = Upto([k \in 0..0 |-> st], 0)
    OBVIOUS
  <2> QED
    BY <2>1
<1>2. ASSUME NEW n \in Nat, n \in T PROVE n + 1 \in T
  <2>1. PICK g : g = Upto(g, n)
    BY <1>2
  <2> DEFINE h == [k \in 0..(n+1) |-> IF k <= n THEN g[k] ELSE TransferInstr(b, g[n], Op(b, n+1))]
  <2>2. ASSUME NEW k \in 0..(n+1)
        PROVE  h[k] = IF k = 0 THEN st ELSE TransferInstr(b, h[k-1], Op(b, k))
    <3>1. CASE k <= n
      <4>1. g[k] = IF k = 0 THEN st ELSE TransferInstr(b, g[k-1], Op(b, k))
        BY <2>1, <3>1
      <4>2. k # 0 => h[k-1] = g[k-1]
        BY <3>1
      <4> QED
        BY <3>1, <4>1, <4>2
    <3>2. CASE k = n + 1
      <4>1. h[n] = g[n] /\ k # 0 /\ k - 1 = n /\ ~(k <= n)
        BY <3>2
      <4> QED
        BY <3>2, <4>1
    <3> QED
      BY <3>1, <3>2
  <2>3. h = Upto(h, n+1)
    BY <2>2
  <2> HIDE DEF h
  <2> QED
    BY <2>3
<1>3. N \in T
  BY <1>1, <1>2, SetInduction
<1>4. after = Upto(after, N)
  BY <1>3
<1>5. transferFunction(b, st) = after[N]
  BY DEF transferFunction
<1> HIDE DEF after
<1>6. after[0] = st
  BY <1>4
<1>7. ASSUME NEW k \in 1..N PROVE after[k] = TransferInstr(b, after[k-1], Op(b, k))
  BY <1>4
<1> QED
  BY <1>5, <1>6, <1>7

LEMMA CopiesLoop ==
  ASSUME NEW b, NEW s, NEW st, Len(code[s]) \in Nat
  PROVE  \E f : /\ f[0] = st
                /\ \A k \in 1..Len(code[s]) : f[k] = CopyPhi(b, f[k-1], Op(s, k))
                /\ CopiesOf(b, s, st) = f[Len(code[s])]
<1> DEFINE Upto(g, n) == [k \in 0..n |-> IF k = 0 THEN st ELSE CopyPhi(b, g[k-1], Op(s, k))]
           T == {n \in Nat : \E g : g = Upto(g, n)}
           N == Len(code[s])
           after == CHOOSE g : g = Upto(g, N)
<1>1. 0 \in T
  <2>1. [k \in 0..0 |-> st] = Upto([k \in 0..0 |-> st], 0)
    OBVIOUS
  <2> QED
    BY <2>1
<1>2. ASSUME NEW n \in Nat, n \in T PROVE n + 1 \in T
  <2>1. PICK g : g = Upto(g, n)
    BY <1>2
  <2> DEFINE h == [k \in 0..(n+1) |-> IF k <= n THEN g[k] ELSE CopyPhi(b, g[n], Op(s, n+1))]
  <2>2. ASSUME NEW k \in 0..(n+1)
        PROVE  h[k] = IF k = 0 THEN st ELSE CopyPhi(b, h[k-1], Op(s, k))
    <3>1. CASE k <= n
      <4>1. g[k] = IF k = 0 THEN st ELSE CopyPhi(b, g[k-1], Op(s, k))
        BY <2>1, <3>1
      <4>2. k # 0 => h[k-1] = g[k-1]
        BY <3>1
      <4> QED
        BY <3>1, <4>1, <4>2
    <3>2. CASE k = n + 1
      <4>1. h[n] = g[n] /\ k # 0 /\ k - 1 = n /\ ~(k <= n)
        BY <3>2
      <4> QED
        BY <3>2, <4>1
    <3> QED
      BY <3>1, <3>2
  <2>3. h = Upto(h, n+1)
    BY <2>2
  <2> HIDE DEF h
  <2> QED
    BY <2>3
<1>3. N \in T
  BY <1>1, <1>2, SetInduction
<1>4. after = Upto(after, N)
  BY <1>3
<1>5. CopiesOf(b, s, st) = after[N]
  BY DEF CopiesOf
<1> HIDE DEF after
<1>6. after[0] = st
  BY <1>4
<1>7. ASSUME NEW k \in 1..N PROVE after[k] = CopyPhi(b, after[k-1], Op(s, k))
  BY <1>4
<1> QED
  BY <1>5, <1>6, <1>7

LEMMA CopyLoop ==
  ASSUME NEW b, NEW st, Len(Succs(b)) \in Nat
  PROVE  \E f : /\ f[0] = st
                /\ \A k \in 1..Len(Succs(b)) : f[k] = CopiesOf(b, Succs(b)[k], f[k-1])
                /\ copy_stmt(b, st) = f[Len(Succs(b))]
<1> DEFINE Upto(g, n) == [k \in 0..n |-> IF k = 0 THEN st ELSE CopiesOf(b, Succs(b)[k], g[k-1])]
           T == {n \in Nat : \E g : g = Upto(g, n)}
           N == Len(Succs(b))
           after == CHOOSE g : g = Upto(g, N)
<1>1. 0 \in T
  <2>1. [k \in 0..0 |-> st] = Upto([k \in 0..0 |-> st], 0)
    OBVIOUS
  <2> QED
    BY <2>1
<1>2. ASSUME NEW n \in Nat, n \in T PROVE n + 1 \in T
  <2>1. PICK g : g = Upto(g, n)
    BY <1>2
  <2> DEFINE h == [k \in 0..(n+1) |-> IF k <= n THEN g[k] ELSE CopiesOf(b, Succs(b)[n+1], g[n])]
  <2>2. ASSUME NEW k \in 0..(n+1)
        PROVE  h[k] = IF k = 0 THEN st ELSE CopiesOf(b, Succs(b)[k], h[k-1])
    <3>1. CASE k <= n
      <4>1. g[k] = IF k = 0 THEN st ELSE CopiesOf(b, Succs(b)[k], g[k-1])
        BY <2>1, <3>1
      <4>2. k # 0 => h[k-1] = g[k-1]
        BY <3>1
      <4> QED
        BY <3>1, <4>1, <4>2
    <3>2. CASE k = n + 1
      <4>1. h[n] = g[n] /\ k # 0 /\ k - 1 = n /\ ~(k <= n)
        BY <3>2
      <4> QED
        BY <3>2, <4>1
    <3> QED
      BY <3>1, <3>2
  <2>3. h = Upto(h, n+1)
    BY <2>2
  <2> HIDE DEF h
  <2> QED
    BY <2>3
<1>3. N \in T
  BY <1>1, <1>2, SetInduction
<1>4. after = Upto(after, N)
  BY <1>3
<1>5. copy_stmt(b, st) = after[N]
  BY DEF copy_stmt
<1> HIDE DEF after
<1>6. after[0] = st
  BY <1>4
<1>7. ASSUME NEW k \in 1..N PROVE after[k] = CopiesOf(b, Succs(b)[k], after[k-1])
  BY <1>4
<1> QED
  BY <1>5, <1>6, <1>7

LEMMA JoinLoop ==
  ASSUME NEW P1, NEW P2, NEW n, NEW pairs, pairs = InOrderOf(Meeting(P1, P2), PairBefore),
         Len(pairs) \in Nat
  PROVE  \E f : /\ f[0] = [P |-> {}, n |-> n, ok |-> TRUE]
                /\ \A k \in 1..Len(pairs) : f[k] = JoinPair(f[k-1], pairs[k])
                /\ JoinAll(P1, P2, n) = f[Len(pairs)]
<1>0. PICK st : st = [P |-> {}, n |-> n, ok |-> TRUE]
  OBVIOUS
<1> DEFINE Upto(g, m) == [k \in 0..m |-> IF k = 0 THEN st ELSE JoinPair(g[k-1], pairs[k])]
           T == {m \in Nat : \E g : g = Upto(g, m)}
           N == Len(pairs)
           after == CHOOSE g : g = Upto(g, N)
<1>1. 0 \in T
  <2>1. [k \in 0..0 |-> st] = Upto([k \in 0..0 |-> st], 0)
    OBVIOUS
  <2> QED
    BY <2>1
<1>2. ASSUME NEW m \in Nat, m \in T PROVE m + 1 \in T
  <2>1. PICK g : g = Upto(g, m)
    BY <1>2
  <2> DEFINE h == [k \in 0..(m+1) |-> IF k <= m THEN g[k] ELSE JoinPair(g[m], pairs[m+1])]
  <2>2. ASSUME NEW k \in 0..(m+1)
        PROVE  h[k] = IF k = 0 THEN st ELSE JoinPair(h[k-1], pairs[k])
    <3>1. CASE k <= m
      <4>1. g[k] = IF k = 0 THEN st ELSE JoinPair(g[k-1], pairs[k])
        BY <2>1, <3>1
      <4>2. k # 0 => h[k-1] = g[k-1]
        BY <3>1
      <4> QED
        BY <3>1, <4>1, <4>2
    <3>2. CASE k = m + 1
      <4>1. h[m] = g[m] /\ k # 0 /\ k - 1 = m /\ ~(k <= m)
        BY <3>2
      <4> QED
        BY <3>2, <4>1
    <3> QED
      BY <3>1, <3>2
  <2>3. h = Upto(h, m+1)
    BY <2>2
  <2> HIDE DEF h
  <2> QED
    BY <2>3
<1>3. N \in T
  BY <1>1, <1>2, SetInduction
<1>4. after = Upto(after, N)
  BY <1>3
<1>5. JoinAll(P1, P2, n) = after[N]
  BY <1>0 DEF JoinAll
<1> HIDE DEF after
<1>6. after[0] = st
  BY <1>4
<1>7. ASSUME NEW k \in 1..N PROVE after[k] = JoinPair(after[k-1], pairs[k])
  BY <1>4
<1> QED
  BY <1>0, <1>5, <1>6, <1>7

-----------------------------------------------------------------------------
(* Orders.                                                                 *)

\* A set of numbered things has a first.
LEMMA Earliest ==
  ASSUME NEW S, S # {}, \A c \in S : c.index \in Nat
  PROVE  First(S) \in S
<1> DEFINE R == OpToRel(<, Nat)
           T == {c.index : c \in S}
<1>1. IsWellFoundedOn(R, Nat)
  BY NatLessThanWellFounded
<1>2. \A x, y \in Nat : y < x => <<y, x>> \in R
  BY DEF OpToRel
<1> HIDE DEF R
<1>3. T \subseteq Nat /\ T # {}
  OBVIOUS
<1>4. PICK x \in T : \A y \in T : ~(<<y, x>> \in R)
  BY <1>1, <1>3, WFMin
<1>5. PICK c \in S : c.index = x
  BY <1>4
<1>6. ASSUME NEW d \in S PROVE c.index <= d.index
  <2>1. d.index \in T /\ d.index \in Nat /\ c.index \in Nat
    OBVIOUS
  <2>2. ~(d.index < c.index)
    BY <1>2, <1>4, <1>5, <2>1
  <2> QED
    BY <2>1, <2>2
<1> QED
  BY <1>5, <1>6 DEF First

\* How many elements of S come before v in the order R.
Place(S, R, v) == Cardinality({w \in S : <<w, v>> \in R})

\* The places of a finite set's elements in a strict total order are
\* different, and there is one for every number below its size.
LEMMA Ranks ==
  ASSUME NEW S, IsFiniteSet(S), NEW R,
         \A v, w \in S : v # w => <<v, w>> \in R \/ <<w, v>> \in R,
         \A v \in S : <<v, v>> \notin R,
         \A u, v, w \in S : <<u, v>> \in R /\ <<v, w>> \in R => <<u, w>> \in R
  PROVE  /\ Cardinality(S) \in Nat
         /\ \A k \in 1..Cardinality(S) : \E v \in S : Place(S, R, v) = k - 1
<1> DEFINE Below(v) == {w \in S : <<w, v>> \in R}
           N == Cardinality(S)
<1>1. N \in Nat
  BY FS_CardinalityType
<1>2. ASSUME NEW v \in S PROVE IsFiniteSet(Below(v)) /\ Cardinality(Below(v)) \in Nat
  <2>1. Below(v) \in SUBSET S
    OBVIOUS
  <2>2. IsFiniteSet(Below(v))
    BY <2>1, FS_Subset
  <2> QED
    BY <2>2, FS_CardinalityType
<1>3. ASSUME NEW v \in S, NEW w \in S, <<v, w>> \in R
      PROVE  Cardinality(Below(v)) < Cardinality(Below(w))
  <2>1. Below(v) \in SUBSET Below(w) /\ Below(v) # Below(w)
    BY <1>3
  <2>2. Cardinality(Below(v)) <= Cardinality(Below(w)) /\ Cardinality(Below(v)) # Cardinality(Below(w))
    BY <1>2, <2>1, FS_Subset
  <2> QED
    BY <1>2, <2>2
<1>4. ASSUME NEW v \in S PROVE Cardinality(Below(v)) < N
  <2>1. Below(v) \in SUBSET S /\ Below(v) # S
    OBVIOUS
  <2>2. Cardinality(Below(v)) <= N /\ Cardinality(Below(v)) # N
    BY <2>1, FS_Subset
  <2> QED
    BY <1>1, <1>2, <2>2
<1> DEFINE f == [v \in S |-> Cardinality(Below(v))]
           M == {f[v] : v \in S}
<1>5. M \in SUBSET (0..(N-1))
  <2>1. ASSUME NEW v \in S PROVE f[v] \in 0..(N-1)
    BY <1>1, <1>2, <1>4
  <2> QED
    BY <2>1
<1>6. \A v, w \in S : f[v] = f[w] => v = w
  <2>1. ASSUME NEW v \in S, NEW w \in S, f[v] = f[w], v # w PROVE FALSE
    <3>1. f[v] < f[w] \/ f[w] < f[v]
      BY <1>3, <2>1
    <3> QED
      BY <1>2, <2>1, <3>1
  <2> QED
    BY <2>1
<1> HIDE DEF f
<1>7. f \in Surjection(S, M) /\ f \in Injection(S, M)
  BY <1>6 DEF f, Surjection, Injection, IsInjective
<1> HIDE DEF M
<1>8. Cardinality(M) = N
  BY <1>7, FS_Surjection
<1>9. IsFiniteSet(0..(N-1)) /\ Cardinality(0..(N-1)) = N
  <2>1. 0 \in Int /\ N - 1 \in Int /\ (IF 0 > N - 1 THEN 0 ELSE (N - 1) - 0 + 1) = N
    BY <1>1
  <2> QED
    BY <2>1, FS_Interval
<1>10. M = 0..(N-1)
  BY <1>5, <1>8, <1>9, FS_Subset
<1>11. ASSUME NEW k \in 1..N PROVE \E v \in S : Cardinality(Below(v)) = k - 1
  <2>1. k - 1 \in M
    BY <1>1, <1>10
  <2> QED
    BY <2>1 DEF M, f
<1> QED
  BY <1>1, <1>11 DEF Place

-----------------------------------------------------------------------------
(* What makes a set of classes a partition.                                *)

Here == Computed \cup ToSet(Given)

IsClass(c) ==
  /\ c = Class(c.index, c.leader_, c.value_expr, c.value_phi, c.members)
  /\ c.index \in Nat
  /\ c.members \subseteq Here
  /\ c.members = {} => c.index = TopIndex

\* The expression of a constant, by which copies find its class.
OfConstant(e) == e.t = "constant" /\ IsConstant(e.c)

Apart(c, d) ==
  /\ c.index # d.index
  /\ c.members \cap d.members = {}
  /\ c.value_expr = d.value_expr => ~OfConstant(c.value_expr)

Good(P) ==
  /\ IsFiniteSet(P)
  /\ \A c \in P : IsClass(c)
  /\ \A c, d \in P : c # d => Apart(c, d)

GoodState(st) == st = [P |-> st.P, n |-> st.n, ok |-> st.ok] /\ st.n \in Nat /\ Good(st.P)

LEMMA GoodEmpty == Good({})
  BY FS_EmptySet DEF Good

LEMMA GoodTop == Good(Top)
<1>1. IsFiniteSet(Top)
  BY FS_Singleton DEF Top
<1>2. ASSUME NEW c \in Top PROVE IsClass(c)
  BY DEF Top, Class, IsClass, TopIndex
<1>3. \A c, d \in Top : c = d
  BY DEF Top
<1> QED
  BY <1>1, <1>2, <1>3 DEF Good

LEMMA FiniteImage ==
  ASSUME NEW S, IsFiniteSet(S), NEW f, DOMAIN f = S, f = [x \in S |-> f[x]]
  PROVE  IsFiniteSet({f[x] : x \in S})
<1> DEFINE T == {f[x] : x \in S}
<1>1. f \in Surjection(S, T)
  BY DEF Surjection
<1> QED
  BY <1>1, FS_Surjection

\* Classes that have lost members, or are gone, are still a partition.
LEMMA GoodLess ==
  ASSUME NEW P, Good(P), NEW Q, IsFiniteSet(Q),
         \A c \in Q : IsClass(c) /\ \E d \in P :
           c.index = d.index /\ c.value_expr = d.value_expr /\ c.members \subseteq d.members,
         \A c, d \in Q : c.index = d.index => c = d
  PROVE  Good(Q)
<1>1. ASSUME NEW c \in Q, NEW d \in Q, c # d PROVE Apart(c, d)
  <2>1. PICK c0 \in P : c.index = c0.index /\ c.value_expr = c0.value_expr /\ c.members \subseteq c0.members
    OBVIOUS
  <2>2. PICK d0 \in P : d.index = d0.index /\ d.value_expr = d0.value_expr /\ d.members \subseteq d0.members
    OBVIOUS
  <2>3. c.index # d.index
    BY <1>1
  <2>4. Apart(c0, d0)
    BY <2>1, <2>2, <2>3 DEF Good
  <2> QED
    BY <2>1, <2>2, <2>3, <2>4 DEF Apart
<1> QED
  BY <1>1 DEF Good

LEMMA GoodEmplace ==
  ASSUME NEW P, Good(P), NEW c, IsClass(c),
         \A d \in P : c.members \cap d.members = {} /\ (c.value_expr = d.value_expr => ~OfConstant(c.value_expr))
  PROVE  Good(Emplace(P, c))
<1>1. CASE \E d \in P : d.index = c.index
  BY <1>1 DEF Emplace
<1>2. CASE ~\E d \in P : d.index = c.index
  <2>1. Emplace(P, c) = P \cup {c}
    BY <1>2 DEF Emplace
  <2>2. IsFiniteSet(P \cup {c})
    BY FS_AddElement DEF Good
  <2>3. ASSUME NEW d \in P PROVE Apart(c, d) /\ Apart(d, c)
    BY <1>2 DEF Apart
  <2>4. ASSUME NEW d \in P \cup {c}, NEW e \in P \cup {c}, d # e PROVE Apart(d, e)
    BY <2>3, <2>4 DEF Good
  <2> QED
    BY <2>1, <2>2, <2>4 DEF Good
<1> QED
  BY <1>1, <1>2

\* At most one class has a value.
LEMMA OneClass ==
  ASSUME NEW P, Good(P), NEW v, NEW c \in With(P, v), NEW d \in With(P, v)
  PROVE  c = d
BY DEF With, Good, Apart

LEMMA GoodRemove ==
  ASSUME NEW P, Good(P), NEW v
  PROVE  /\ Good(RemoveMember(P, v))
         /\ \A c \in RemoveMember(P, v) : v \notin c.members
<1> DEFINE W == {d \in With(P, v) : d.members # {v}}
           Less(c) == [c EXCEPT !.members = @ \ {v}]
           f == [c \in W |-> Less(c)]
           Q == RemoveMember(P, v)
<1>1. Q = (P \ With(P, v)) \cup {f[c] : c \in W}
  BY DEF RemoveMember
<1>2. ASSUME NEW c \in W
      PROVE  /\ c \in P /\ v \in c.members
             /\ IsClass(f[c]) /\ f[c].index = c.index /\ f[c].value_expr = c.value_expr
             /\ f[c].members = c.members \ {v}
  <2>1. c \in P /\ v \in c.members /\ c.members # {v} /\ IsClass(c)
    BY DEF Good, With
  <2>2. f[c] = Class(c.index, c.leader_, c.value_expr, c.value_phi, c.members \ {v})
    BY <2>1 DEF IsClass, Class
  <2>3. c.members \ {v} # {}
    BY <2>1
  <2> HIDE DEF f
  <2>4. IsClass(f[c])
    BY <2>1, <2>2, <2>3 DEF IsClass, Class
  <2> QED
    BY <2>1, <2>2, <2>4 DEF Class
<1>3. IsFiniteSet(Q)
  <2>1. P \ With(P, v) \in SUBSET P /\ W \in SUBSET P
    BY DEF With
  <2>2. IsFiniteSet(P \ With(P, v)) /\ IsFiniteSet(W)
    BY <2>1, FS_Subset DEF Good
  <2>3. DOMAIN f = W /\ f = [c \in W |-> f[c]]
    OBVIOUS
  <2> HIDE DEF f, W, Q
  <2>4. IsFiniteSet({f[c] : c \in W})
    BY <2>2, <2>3, FiniteImage
  <2> QED
    BY <1>1, <2>2, <2>4, FS_Union
<1> HIDE DEF f, Q
<1>4. ASSUME NEW c \in Q
      PROVE  /\ IsClass(c) /\ v \notin c.members
             /\ \E d \in P : c.index = d.index /\ c.value_expr = d.value_expr /\ c.members \subseteq d.members
  <2>1. CASE c \in P \ With(P, v)
    BY <2>1 DEF With, Good
  <2>2. CASE c \in {f[d] : d \in W}
    BY <1>2, <2>2
  <2> QED
    BY <1>1, <2>1, <2>2
<1>5. ASSUME NEW c \in Q, NEW d \in Q, c.index = d.index PROVE c = d
  <2>1. \A a, e \in P : a.index = e.index => a = e
    BY DEF Good, Apart
  <2>2. CASE c \in P \ With(P, v) /\ d \in P \ With(P, v)
    BY <1>5, <2>1, <2>2
  <2>3. CASE c \in P \ With(P, v) /\ d \in {f[e] : e \in W}
    <3>1. PICK e \in W : d = f[e]
      BY <2>3
    <3>2. e = c /\ e \in With(P, v)
      BY <1>2, <1>5, <2>1, <2>3, <3>1
    <3> QED
      BY <2>3, <3>2
  <2>4. CASE d \in P \ With(P, v) /\ c \in {f[e] : e \in W}
    <3>1. PICK e \in W : c = f[e]
      BY <2>4
    <3>2. e = d /\ e \in With(P, v)
      BY <1>2, <1>5, <2>1, <2>4, <3>1
    <3> QED
      BY <2>4, <3>2
  <2>5. CASE c \in {f[e] : e \in W} /\ d \in {f[e] : e \in W}
    <3>1. PICK e \in W : c = f[e]
      BY <2>5
    <3>2. PICK a \in W : d = f[a]
      BY <2>5
    <3> QED
      BY <1>2, <1>5, <2>1, <3>1, <3>2
  <2> QED
    BY <1>1, <2>2, <2>3, <2>4, <2>5
<1>6. Good(Q)
  BY <1>3, <1>4, <1>5, GoodLess
<1> QED
  BY <1>4, <1>6 DEF Q

LEMMA GoodAddTo ==
  ASSUME NEW P, Good(P), NEW S, S \subseteq P, \A c, d \in S : c = d, NEW v \in Here,
         \A c \in P : v \notin c.members
  PROVE  Good(AddTo(P, S, v))
<1>1. CASE S = {}
  <2>1. AddTo(P, S, v) = P
    BY <1>1 DEF AddTo
  <2> QED
    BY <2>1
<1>2. CASE S # {}
  <2>1. PICK c \in S : S = {c}
    BY <1>2
  <2>2. PICK d : d = [c EXCEPT !.members = @ \cup {v}]
    OBVIOUS
  <2>3. AddTo(P, S, v) = (P \ {c}) \cup {d}
    BY <2>1, <2>2 DEF AddTo
  <2>4. c \in P /\ IsClass(c)
    BY DEF Good
  <2>5. d = Class(c.index, c.leader_, c.value_expr, c.value_phi, c.members \cup {v})
    BY <2>2, <2>4 DEF IsClass, Class
  <2>6. IsClass(d)
    BY <2>4, <2>5 DEF IsClass, Class
  <2>7. d.index = c.index /\ d.value_expr = c.value_expr /\ d.members = c.members \cup {v}
    BY <2>5 DEF Class
  <2>8. ASSUME NEW e \in P \ {c} PROVE Apart(d, e) /\ Apart(e, d)
    <3>1. Apart(c, e) /\ v \notin e.members
      BY <2>4 DEF Good
    <3> QED
      BY <2>7, <3>1 DEF Apart
  <2>9. IsFiniteSet((P \ {c}) \cup {d})
    BY FS_AddElement, FS_RemoveElement DEF Good
  <2> QED
    BY <2>3, <2>6, <2>8, <2>9 DEF Good
<1> QED
  BY <1>1, <1>2

-----------------------------------------------------------------------------
(* The steps on partitions.                                                *)

LEMMA CodeType ==
  ASSUME fn \in Functions
  PROVE  /\ fn.args \in Nat /\ fn.globals \in Nat
         /\ Len(fn.code) \in Nat
         /\ \A b \in Blocks : /\ Len(fn.code[b]) \in Nat /\ Len(fn.code[b]) > 0
                              /\ Len(Succs(b)) \in Nat
                              /\ \A k \in 1..Len(Succs(b)) : Succs(b)[k] \in Blocks
                              /\ Len(Preds(b)) \in Nat
                              /\ \A k \in 1..Len(Preds(b)) : Preds(b)[k] \in Blocks
         /\ \A b \in Blocks : \A k \in 1..Len(fn.code[b]) :
              fn.code[b][k] \in Instruction /\ Len(fn.code[b][k].opnd) \in Nat
         /\ \A v \in OpsOf(fn.code) : ReadsAddress(InstrOf(fn.code, v))
<1> DEFINE B == 1..Len(fn.code)
<1>1. /\ fn.args \in Nat /\ fn.globals \in Nat
      /\ fn.code \in Seq(Seq(Instruction))
      /\ fn.preds \in Seq(Seq(B)) /\ Len(fn.preds) = Len(fn.code)
      /\ \A b \in B : fn.code[b] # <<>> /\ Succs(b) \in Seq(B)
      /\ \A v \in OpsOf(fn.code) : ReadsAddress(InstrOf(fn.code, v))
  BY FunctionsAssumption DEF Succs
<1>2. Len(fn.code) \in Nat
  BY <1>1
<1>3. ASSUME NEW b \in B
      PROVE  /\ fn.code[b] \in Seq(Instruction) /\ Len(fn.code[b]) \in Nat /\ Len(fn.code[b]) > 0
             /\ Preds(b) \in Seq(B) /\ Len(Preds(b)) \in Nat
             /\ Succs(b) \in Seq(B) /\ Len(Succs(b)) \in Nat
  <2>1. fn.code[b] \in Seq(Instruction)
    BY <1>1
  <2>2. Len(fn.code[b]) \in Nat /\ Len(fn.code[b]) # 0
    BY <1>1, <2>1
  <2>3. Preds(b) \in Seq(B)
    BY <1>1 DEF Preds
  <2>4. Succs(b) \in Seq(B)
    BY <1>1
  <2> QED
    BY <2>1, <2>2, <2>3, <2>4
<1>4. ASSUME NEW b \in B, NEW k \in 1..Len(Succs(b)) PROVE Succs(b)[k] \in B
  BY <1>3
<1>5. ASSUME NEW b \in B, NEW k \in 1..Len(Preds(b)) PROVE Preds(b)[k] \in B
  BY <1>3
<1>6. ASSUME NEW b \in B, NEW k \in 1..Len(fn.code[b])
      PROVE  fn.code[b][k] \in Instruction /\ Len(fn.code[b][k].opnd) \in Nat
  <2>1. fn.code[b][k] \in Instruction
    BY <1>3
  <2>2. fn.code[b][k].opnd \in Seq(Operand)
    BY <2>1 DEF Instruction
  <2> QED
    BY <2>1, <2>2
<1> QED
  BY <1>1, <1>2, <1>3, <1>4, <1>5, <1>6 DEF Blocks

\* No instruction's expression is that of a constant.
LEMMA NoConstants ==
  ASSUME fn \in Functions, NEW v \in Computed, NEW P
  PROVE  ~OfConstant(valueExpr(P, InstrOf(fn.code, v)))
<1>1. PICK i : i = InstrOf(fn.code, v)
  OBVIOUS
<1>2. v \in OpsOf(fn.code) /\ ~IsVoid(i)
  BY <1>1 DEF Computed
<1>3. ReadsAddress(i)
  BY <1>1, <1>2, CodeType
<1>4. Len(i.opnd) \in Nat
  <2>1. PICK b \in Blocks : \E k \in 1..Len(fn.code[b]) : v = Op(b, k)
    BY <1>2 DEF OpsOf, Blocks
  <2>2. PICK k \in 1..Len(fn.code[b]) : v = Op(b, k)
    BY <2>1
  <2>3. i = fn.code[b][k]
    BY <1>1, <2>2 DEF InstrOf, Op
  <2> QED
    BY <2>3, CodeType
<1>5. CASE Len(i.opnd) > 2 \/ i.op \in {"call", "getelementptr", "alloca"} \cup Casts
  <2>1. valueExpr(P, i).t = "var"
    BY <1>5 DEF valueExpr, VariableExpression
  <2> QED
    BY <1>1, <2>1 DEF OfConstant
<1>6. CASE ~(Len(i.opnd) > 2 \/ i.op \in {"call", "getelementptr", "alloca"} \cup Casts) /\ Len(i.opnd) = 2
  <2>1. valueExpr(P, i).t = "bin"
    BY <1>6 DEF valueExpr, BinaryExpression
  <2> QED
    BY <1>1, <2>1 DEF OfConstant
<1>7. CASE ~(Len(i.opnd) > 2 \/ i.op \in {"call", "getelementptr", "alloca"} \cup Casts) /\ Len(i.opnd) # 2
  <2>1. valueExpr(P, i) = ConstantExpression(i.opnd[1])
    BY <1>7 DEF valueExpr
  <2>2. ~IsConstant(i.opnd[1])
    <3>0. ~(Len(i.opnd) > 2) /\ Len(i.opnd) # 2
      BY <1>7, Zenon
    <3>1. Len(i.opnd) < 2
      <4>1. \A n \in Nat : ~(n > 2) /\ n # 2 => n < 2
        OBVIOUS
      <4> QED
        BY <1>4, <3>0, <4>1, Zenon
    <3>2. i.op \notin Casts \cup {"call", "alloca", "getelementptr"}
      BY <1>7
    <3> QED
      BY <1>2, <1>3, <3>1, <3>2 DEF ReadsAddress
  <2> QED
    BY <1>1, <2>1, <2>2 DEF OfConstant, ConstantExpression
<1> QED
  BY <1>5, <1>6, <1>7

LEMMA GoodTransferInstr ==
  ASSUME fn \in Functions, code = fn.code, NEW st, GoodState(st), NEW v \in OpsOf(fn.code), NEW b
  PROVE  GoodState(TransferInstr(b, st, v))
<1>1. PICK i : i = InstrOf(code, v)
  OBVIOUS
<1>2. PICK P : P = RemoveMember(st.P, v)
  OBVIOUS
<1>3. PICK ve : ve = valueExpr(P, i)
  OBVIOUS
<1>4. PICK vpf : vpf = valuePhiFunc(b, ve, P)
  OBVIOUS
<1>5. PICK found : found = {cc \in P : SameIfAny(cc.value_expr, ve) \/ SameIfAny(cc.value_phi, vpf)}
  OBVIOUS
<1>6. PICK good : good = (st.ok /\ ~ErasesLast(st.P, v))
  OBVIOUS
<1>7. PICK new : new = Class(st.n, NewLeader(P, v, i), ve, NoExpr, {v})
  OBVIOUS
<1>8. TransferInstr(b, st, v) =
        IF i.op = "phi" \/ IsVoid(i) THEN st
        ELSE IF i.op # "load" /\ found # {}
        THEN [st EXCEPT !.P = AddTo(P, {First(found)}, v), !.ok = good]
        ELSE IF ~good \/ FoldTraps(P, i) THEN [st EXCEPT !.ok = FALSE]
        ELSE [P |-> Emplace(P, new), n |-> st.n + 1, ok |-> TRUE]
  BY <1>1, <1>2, <1>3, <1>4, <1>5, <1>6, <1>7 DEF TransferInstr
<1>9. st = [P |-> st.P, n |-> st.n, ok |-> st.ok] /\ st.n \in Nat /\ Good(st.P)
  BY DEF GoodState
<1>10. Good(P) /\ \A c \in P : v \notin c.members
  BY <1>2, <1>9, GoodRemove
<1>11. CASE i.op = "phi" \/ IsVoid(i)
  BY <1>8, <1>11
<1>12. CASE ~(i.op = "phi" \/ IsVoid(i))
  <2>1. v \in Computed /\ v \in Here
    BY <1>1, <1>12 DEF Computed, Here
  <2>2. CASE i.op # "load" /\ found # {}
    <3>1. First(found) \in found
      BY <1>5, <1>10, <2>2, Earliest DEF Good, IsClass
    <3>2. {First(found)} \subseteq P
      BY <1>5, <3>1
    <3>3. PICK Q : Q = AddTo(P, {First(found)}, v)
      OBVIOUS
    <3>4. Good(Q)
      BY <1>10, <2>1, <3>2, <3>3, GoodAddTo
    <3>5. TransferInstr(b, st, v) = [P |-> Q, n |-> st.n, ok |-> good]
      BY <1>8, <1>9, <1>12, <2>2, <3>3
    <3> QED
      BY <1>9, <3>4, <3>5 DEF GoodState
  <2>3. CASE ~(i.op # "load" /\ found # {}) /\ (~good \/ FoldTraps(P, i))
    <3>1. TransferInstr(b, st, v) = [P |-> st.P, n |-> st.n, ok |-> FALSE]
      BY <1>8, <1>9, <1>12, <2>3
    <3> QED
      BY <1>9, <3>1 DEF GoodState
  <2>4. CASE ~(i.op # "load" /\ found # {}) /\ ~(~good \/ FoldTraps(P, i))
    <3>1. TransferInstr(b, st, v) = [P |-> Emplace(P, new), n |-> st.n + 1, ok |-> TRUE]
      BY <1>8, <1>12, <2>4
    <3>2. IsClass(new) /\ new.members = {v} /\ new.value_expr = ve
      BY <1>7, <1>9, <2>1 DEF IsClass, Class
    <3>3. ~OfConstant(ve)
      BY <1>1, <1>3, <2>1, NoConstants
    <3>4. \A d \in P : new.members \cap d.members = {} /\ (new.value_expr = d.value_expr => ~OfConstant(new.value_expr))
      BY <1>10, <3>2, <3>3
    <3>5. Good(Emplace(P, new))
      BY <1>10, <3>2, <3>4, GoodEmplace
    <3> QED
      BY <1>9, <3>1, <3>5 DEF GoodState
  <2> QED
    BY <2>2, <2>3, <2>4
<1> QED
  BY <1>11, <1>12

\* The values a function is given are arguments and globals, all different.
LEMMA GivenType ==
  ASSUME fn \in Functions
  PROVE  /\ Len(Given) \in Nat
         /\ DOMAIN Given = 1..Len(Given)
         /\ \A k \in 1..Len(Given) : Given[k][1] \in {"arg", "global"} /\ Given[k] \in Here
         /\ \A j, k \in 1..Len(Given) : Given[j] = Given[k] => j = k
         /\ \A v \in Here : ~IsConstant(v)
<1>1. fn.args \in Nat /\ fn.globals \in Nat
  BY CodeType
<1>2. PICK a : a = [n \in 1..fn.args |-> Arg(n)]
  OBVIOUS
<1>3. PICK g : g = [n \in 1..fn.globals |-> Global(n)]
  OBVIOUS
<1>4. PICK A : A = {Arg(n) : n \in 1..fn.args} \cup {Global(n) : n \in 1..fn.globals}
  OBVIOUS
<1>5. a \in Seq(A) /\ g \in Seq(A) /\ Len(a) = fn.args /\ Len(g) = fn.globals
  BY <1>1, <1>2, <1>3, <1>4
<1>6. Given = a \o g
  BY <1>2, <1>3 DEF Given
<1>7. /\ Given \in Seq(A) /\ Len(Given) = fn.args + fn.globals
      /\ \A k \in 1..Len(Given) : Given[k] = IF k <= fn.args THEN a[k] ELSE g[k - fn.args]
  <2>1. Given \in Seq(A) /\ Len(Given) = Len(a) + Len(g)
    BY <1>5, <1>6, ConcatProperties
  <2>2. \A k \in 1..(Len(a) + Len(g)) : Given[k] = IF k <= Len(a) THEN a[k] ELSE g[k - Len(a)]
    BY <1>5, <1>6, ConcatProperties
  <2> QED
    BY <1>5, <2>1, <2>2
<1>8. Len(Given) \in Nat /\ DOMAIN Given = 1..Len(Given)
  BY <1>7
<1>9. ASSUME NEW k \in 1..Len(Given)
      PROVE  Given[k] = IF k <= fn.args THEN Arg(k) ELSE Global(k - fn.args)
  BY <1>1, <1>2, <1>3, <1>7
<1>10. ASSUME NEW k \in 1..Len(Given) PROVE Given[k][1] \in {"arg", "global"} /\ Given[k] \in Here
  <2>1. Given[k][1] \in {"arg", "global"}
    <3>1. CASE k <= fn.args
      <4>1. Given[k] = <<"arg", k, 0>>
        BY <1>9, <3>1 DEF Arg
      <4> QED
        BY <4>1
    <3>2. CASE ~(k <= fn.args)
      <4>1. PICK m : m = k - fn.args
        OBVIOUS
      <4>2. Given[k] = <<"global", m, 0>>
        BY <1>9, <3>2, <4>1 DEF Global
      <4> QED
        BY <4>2
    <3> QED
      BY <3>1, <3>2
  <2>2. Given[k] \in ToSet(Given)
    BY <1>8 DEF ToSet
  <2> QED
    BY <2>1, <2>2 DEF Here
<1>11. ASSUME NEW j \in 1..Len(Given), NEW k \in 1..Len(Given), Given[j] = Given[k] PROVE j = k
  BY <1>1, <1>8, <1>9, <1>11 DEF Arg, Global
<1>12. ASSUME NEW v \in Here PROVE ~IsConstant(v)
  <2>1. CASE v \in Computed
    <3>1. v[1] = "op"
      BY <2>1 DEF Computed, OpsOf, Op
    <3> QED
      BY <3>1 DEF IsConstant
  <2>2. CASE v \in ToSet(Given)
    <3>1. v[1] \in {"arg", "global"}
      BY <1>8, <1>10, <2>2 DEF ToSet
    <3> QED
      BY <3>1 DEF IsConstant
  <2> QED
    BY <2>1, <2>2 DEF Here
<1> QED
  BY <1>8, <1>10, <1>11, <1>12

LEMMA GoodCopy ==
  ASSUME fn \in Functions, NEW st, GoodState(st), NEW phi \in Computed, NEW v
  PROVE  GoodState(Copy(st, phi, v))
<1>1. PICK P : P = RemoveMember(st.P, phi)
  OBVIOUS
<1>2. PICK into : into = {cc \in P : \/ v \in cc.members
                                     \/ IsConstant(v) /\ cc.value_expr = ConstantExpression(v)}
  OBVIOUS
<1>3. PICK new : new = Class(st.n, v, ConstantExpression(v), NoExpr, {phi})
  OBVIOUS
<1>4. Copy(st, phi, v) =
        IF ErasesLast(st.P, phi) THEN [st EXCEPT !.ok = FALSE]
        ELSE IF into # {} THEN [st EXCEPT !.P = AddTo(P, into, phi)]
        ELSE [st EXCEPT !.n = @ + 1, !.P = Emplace(P, new)]
  BY <1>1, <1>2, <1>3 DEF Copy
<1>5. st = [P |-> st.P, n |-> st.n, ok |-> st.ok] /\ st.n \in Nat /\ Good(st.P)
  BY DEF GoodState
<1>6. Good(P) /\ \A c \in P : phi \notin c.members
  BY <1>1, <1>5, GoodRemove
<1>7. phi \in Here
  BY DEF Here
<1>8. CASE ErasesLast(st.P, phi)
  <2>1. Copy(st, phi, v) = [P |-> st.P, n |-> st.n, ok |-> FALSE]
    BY <1>4, <1>5, <1>8
  <2> QED
    BY <1>5, <2>1 DEF GoodState
<1>9. CASE ~ErasesLast(st.P, phi) /\ into # {}
  <2>1. ASSUME NEW c \in into, NEW d \in into PROVE c = d
    <3>1. c \in P /\ d \in P /\ IsClass(c) /\ IsClass(d)
      BY <1>2, <1>6 DEF Good
    <3>2. CASE IsConstant(v)
      <4>1. v \notin c.members /\ v \notin d.members
        BY <3>1, <3>2, GivenType DEF IsClass
      <4>2. c.value_expr = ConstantExpression(v) /\ d.value_expr = ConstantExpression(v)
        BY <1>2, <4>1
      <4>3. OfConstant(c.value_expr)
        BY <3>2, <4>2 DEF OfConstant, ConstantExpression
      <4> QED
        BY <1>6, <3>1, <4>2, <4>3 DEF Good, Apart
    <3>3. CASE ~IsConstant(v)
      <4>1. v \in c.members /\ v \in d.members
        BY <1>2, <3>3
      <4> QED
        BY <1>6, <3>1, <4>1 DEF Good, Apart
    <3> QED
      BY <3>2, <3>3
  <2>2. PICK Q : Q = AddTo(P, into, phi)
    OBVIOUS
  <2>3. into \subseteq P
    BY <1>2
  <2>4. Good(Q)
    BY <1>6, <1>7, <2>1, <2>2, <2>3, GoodAddTo
  <2>5. Copy(st, phi, v) = [P |-> Q, n |-> st.n, ok |-> st.ok]
    BY <1>4, <1>5, <1>9, <2>2
  <2> QED
    BY <1>5, <2>4, <2>5 DEF GoodState
<1>10. CASE ~ErasesLast(st.P, phi) /\ into = {}
  <2>1. IsClass(new) /\ new.members = {phi} /\ new.value_expr = ConstantExpression(v)
    BY <1>3, <1>5, <1>7 DEF IsClass, Class
  <2>2. \A d \in P : new.members \cap d.members = {} /\ (new.value_expr = d.value_expr => ~OfConstant(new.value_expr))
    <3>1. OfConstant(ConstantExpression(v)) => IsConstant(v)
      BY DEF OfConstant, ConstantExpression
    <3> QED
      BY <1>2, <1>6, <1>10, <2>1, <3>1
  <2>3. PICK Q : Q = Emplace(P, new)
    OBVIOUS
  <2>4. Good(Q)
    BY <1>6, <2>1, <2>2, <2>3, GoodEmplace
  <2>5. Copy(st, phi, v) = [P |-> Q, n |-> st.n + 1, ok |-> st.ok]
    BY <1>4, <1>5, <1>10, <2>3
  <2> QED
    BY <1>5, <2>4, <2>5 DEF GoodState
<1> QED
  BY <1>8, <1>9, <1>10

LEMMA GoodCopyPhi ==
  ASSUME fn \in Functions, code = fn.code, NEW st, GoodState(st), NEW v \in OpsOf(fn.code), NEW b
  PROVE  GoodState(CopyPhi(b, st, v))
<1>1. PICK o : o = InstrOf(code, v).opnd
  OBVIOUS
<1>2. PICK first : first = IF o[2] = Label(b) THEN Copy(st, v, o[1]) ELSE st
  OBVIOUS
<1>3. CopyPhi(b, st, v) = IF InstrOf(code, v).op # "phi" THEN st
                          ELSE IF o[4] = Label(b) THEN Copy(first, v, o[3]) ELSE first
  BY <1>1, <1>2 DEF CopyPhi
<1>4. CASE InstrOf(code, v).op = "phi"
  <2>1. v \in Computed
    BY <1>4 DEF Computed, IsVoid
  <2>2. GoodState(first)
    BY <1>2, <2>1, GoodCopy
  <2> QED
    BY <1>3, <1>4, <2>1, <2>2, GoodCopy
<1> QED
  BY <1>3, <1>4

\* What holds of the first state of a loop and is kept by each step holds of
\* the last.
LEMMA Along ==
  ASSUME NEW f, NEW N \in Nat, GoodState(f[0]),
         \A k \in 1..N : GoodState(f[k-1]) => GoodState(f[k])
  PROVE  GoodState(f[N])
<1> DEFINE T == {n \in Nat : n <= N => GoodState(f[n])}
<1>1. 0 \in T
  OBVIOUS
<1>2. ASSUME NEW n \in Nat, n \in T PROVE n + 1 \in T
  <2>1. PICK m : m = n + 1
    OBVIOUS
  <2>2. CASE m <= N
    <3>1. m \in 1..N /\ m - 1 = n /\ n <= N
      BY <2>1, <2>2
    <3>2. GoodState(f[n])
      BY <1>2, <3>1
    <3>3. GoodState(f[m])
      BY <3>1, <3>2
    <3> QED
      BY <2>1, <3>3
  <2>3. CASE ~(m <= N)
    BY <2>1, <2>3
  <2> QED
    BY <2>2, <2>3
<1>3. \A n \in Nat : n \in T
  <2> HIDE DEF T
  <2> QED
    BY <1>1, <1>2, SetInduction
<1> QED
  BY <1>3

LEMMA GoodTransfer ==
  ASSUME fn \in Functions, code = fn.code, NEW st, GoodState(st), NEW b \in Blocks
  PROVE  GoodState(transferFunction(b, st))
<1>1. Len(code[b]) \in Nat
  BY CodeType
<1>2. PICK f : /\ f[0] = st
               /\ \A k \in 1..Len(code[b]) : f[k] = TransferInstr(b, f[k-1], Op(b, k))
               /\ transferFunction(b, st) = f[Len(code[b])]
  BY <1>1, TransferLoop
<1>3. ASSUME NEW k \in 1..Len(code[b]), GoodState(f[k-1]) PROVE GoodState(f[k])
  <2>1. Op(b, k) \in OpsOf(fn.code)
    BY DEF OpsOf, Blocks
  <2> QED
    BY <1>2, <1>3, <2>1, GoodTransferInstr
<1> QED
  BY <1>1, <1>2, <1>3, Along

LEMMA GoodCopies ==
  ASSUME fn \in Functions, code = fn.code, NEW st, GoodState(st), NEW b, NEW s \in Blocks
  PROVE  GoodState(CopiesOf(b, s, st))
<1>1. Len(code[s]) \in Nat
  BY CodeType
<1>2. PICK f : /\ f[0] = st
               /\ \A k \in 1..Len(code[s]) : f[k] = CopyPhi(b, f[k-1], Op(s, k))
               /\ CopiesOf(b, s, st) = f[Len(code[s])]
  BY <1>1, CopiesLoop
<1>3. ASSUME NEW k \in 1..Len(code[s]), GoodState(f[k-1]) PROVE GoodState(f[k])
  <2>1. Op(s, k) \in OpsOf(fn.code)
    BY DEF OpsOf, Blocks
  <2> QED
    BY <1>2, <1>3, <2>1, GoodCopyPhi
<1> QED
  BY <1>1, <1>2, <1>3, Along

LEMMA GoodProcess ==
  ASSUME fn \in Functions, code = fn.code, NEW st, GoodState(st), NEW b \in Blocks
  PROVE  GoodState(Process(b, st))
<1>1. PICK t : t = transferFunction(b, st)
  OBVIOUS
<1>2. GoodState(t)
  BY <1>1, GoodTransfer
<1>3. Len(Succs(b)) \in Nat /\ \A k \in 1..Len(Succs(b)) : Succs(b)[k] \in Blocks
  BY CodeType
<1>4. PICK f : /\ f[0] = t
               /\ \A k \in 1..Len(Succs(b)) : f[k] = CopiesOf(b, Succs(b)[k], f[k-1])
               /\ copy_stmt(b, t) = f[Len(Succs(b))]
  BY <1>3, CopyLoop
<1>5. ASSUME NEW k \in 1..Len(Succs(b)), GoodState(f[k-1]) PROVE GoodState(f[k])
  BY <1>3, <1>4, <1>5, GoodCopies
<1>6. GoodState(f[Len(Succs(b))])
  BY <1>2, <1>3, <1>4, <1>5, Along
<1> QED
  BY <1>1, <1>4, <1>6 DEF Process

-----------------------------------------------------------------------------
(* Joins.                                                                  *)

\* The order of the pairs of classes is total and strict.
LEMMA PairOrder ==
  ASSUME NEW P1, NEW P2, Good(P1), Good(P2), NEW S, S = Meeting(P1, P2)
  PROVE  /\ IsFiniteSet(S)
         /\ \A v, w \in S : v # w => PairBefore(v, w) \/ PairBefore(w, v)
         /\ \A v \in S : ~PairBefore(v, v)
         /\ \A u, v, w \in S : PairBefore(u, v) /\ PairBefore(v, w) => PairBefore(u, w)
<1>1. IsFiniteSet(S)
  <2>1. IsFiniteSet(P1 \X P2)
    BY FS_Product DEF Good
  <2>2. S \in SUBSET (P1 \X P2)
    BY DEF Meeting
  <2> QED
    BY <2>1, <2>2, FS_Subset
<1>2. ASSUME NEW v \in S
      PROVE  /\ v = <<v[1], v[2]>> /\ v[1] \in P1 /\ v[2] \in P2
             /\ v[1].index \in Nat /\ v[2].index \in Nat
  BY DEF Meeting, Good, IsClass
<1>3. \A m, n \in Nat : m < n \/ n < m \/ m = n
  OBVIOUS
<1>4. \A m \in Nat : ~(m < m)
  OBVIOUS
<1>5. \A l, m, n \in Nat : l < m /\ m < n => l < n
  OBVIOUS
<1>6. ASSUME NEW v \in S, NEW w \in S, v # w PROVE PairBefore(v, w) \/ PairBefore(w, v)
  <2>1. v[1] # w[1] \/ v[2] # w[2]
    BY <1>2, <1>6
  <2>2. v[1] # w[1] => v[1].index # w[1].index
    BY <1>2 DEF Good, Apart
  <2>3. v[2] # w[2] => v[2].index # w[2].index
    BY <1>2 DEF Good, Apart
  <2>4. v[1].index < w[1].index \/ w[1].index < v[1].index \/ v[1].index = w[1].index
    BY <1>2, <1>3, Zenon
  <2>5. v[2].index < w[2].index \/ w[2].index < v[2].index \/ v[2].index = w[2].index
    BY <1>2, <1>3, Zenon
  <2> QED
    BY <2>1, <2>2, <2>3, <2>4, <2>5, Zenon DEF PairBefore
<1>7. ASSUME NEW v \in S PROVE ~PairBefore(v, v)
  BY <1>2, <1>4, Zenon DEF PairBefore
<1>8. ASSUME NEW u \in S, NEW v \in S, NEW w \in S, PairBefore(u, v), PairBefore(v, w)
      PROVE  PairBefore(u, w)
  <2>1. u[1].index < v[1].index /\ v[1].index < w[1].index => u[1].index < w[1].index
    BY <1>2, <1>5, Zenon
  <2>2. u[2].index < v[2].index /\ v[2].index < w[2].index => u[2].index < w[2].index
    BY <1>2, <1>5, Zenon
  <2> QED
    BY <1>8, <2>1, <2>2, Zenon DEF PairBefore
<1> QED
  BY <1>1, <1>6, <1>7, <1>8

\* The pairs of classes that share a member are taken one after the other.
LEMMA PairsInOrder ==
  ASSUME NEW P1, NEW P2, Good(P1), Good(P2)
  PROVE  \E pairs :
           /\ pairs = InOrderOf(Meeting(P1, P2), PairBefore)
           /\ Len(pairs) \in Nat
           /\ \A k \in 1..Len(pairs) : pairs[k] \in Meeting(P1, P2)
           /\ \A j, k \in 1..Len(pairs) : pairs[j] = pairs[k] => j = k
<1> DEFINE S == Meeting(P1, P2)
           Below(v) == {w \in S : PairBefore(w, v)}
           pairs == [k \in 1..Cardinality(S) |-> CHOOSE v \in S : Cardinality(Below(v)) = k - 1]
<1>1. pairs = InOrderOf(Meeting(P1, P2), PairBefore)
  BY DEF InOrderOf
<1> HIDE DEF S, Below, pairs
<1>2. PICK R : R = {x \in S \X S : PairBefore(x[1], x[2])}
  OBVIOUS
<1>3. \A v, w \in S : <<v, w>> \in R <=> PairBefore(v, w)
  BY <1>2
<1>4. /\ IsFiniteSet(S)
      /\ \A v, w \in S : v # w => <<v, w>> \in R \/ <<w, v>> \in R
      /\ \A v \in S : <<v, v>> \notin R
      /\ \A u, v, w \in S : <<u, v>> \in R /\ <<v, w>> \in R => <<u, w>> \in R
  <2>1. /\ IsFiniteSet(S)
        /\ \A v, w \in S : v # w => PairBefore(v, w) \/ PairBefore(w, v)
        /\ \A v \in S : ~PairBefore(v, v)
        /\ \A u, v, w \in S : PairBefore(u, v) /\ PairBefore(v, w) => PairBefore(u, w)
    BY PairOrder DEF S
  <2> QED
    BY <1>3, <2>1, Zenon
<1>5. /\ Cardinality(S) \in Nat
      /\ \A k \in 1..Cardinality(S) : \E v \in S : Place(S, R, v) = k - 1
  BY <1>4, Ranks
<1>6. ASSUME NEW v \in S PROVE Place(S, R, v) = Cardinality(Below(v))
  <2>1. {w \in S : <<w, v>> \in R} = Below(v)
    BY <1>3 DEF Below
  <2> QED
    BY <2>1 DEF Place
<1>8. Len(pairs) = Cardinality(S)
  BY <1>5 DEF pairs
<1>9. ASSUME NEW k \in 1..Cardinality(S) PROVE pairs[k] \in S /\ Cardinality(Below(pairs[k])) = k - 1
  <2>1. \E v \in S : Cardinality(Below(v)) = k - 1
    BY <1>5, <1>6
  <2>2. pairs[k] = CHOOSE v \in S : Cardinality(Below(v)) = k - 1
    BY DEF pairs
  <2> QED
    BY <2>1, <2>2
<1>10. ASSUME NEW j \in 1..Cardinality(S), NEW k \in 1..Cardinality(S), pairs[j] = pairs[k] PROVE j = k
  <2>1. j - 1 = k - 1
    BY <1>9, <1>10
  <2> QED
    BY <1>5, <2>1
<1> QED
  BY <1>1, <1>5, <1>8, <1>9, <1>10 DEF S

\* What is known of the class that comes of a pair.
Comes(c, w) ==
  /\ c.members = w[1].members \cap w[2].members
  /\ OfConstant(c.value_expr) => c.value_expr = w[1].value_expr /\ c.value_expr = w[2].value_expr

LEMMA GoodIntersect ==
  ASSUME NEW P1, NEW P2, Good(P1), Good(P2), NEW w \in Meeting(P1, P2), NEW n \in Nat
  PROVE  IsClass(intersect(n, w[1], w[2])) /\ Comes(intersect(n, w[1], w[2]), w)
<1>1. PICK Ci, Cj : Ci = w[1] /\ Cj = w[2]
  OBVIOUS
<1>2. PICK I : I = IF Ci.index = Cj.index THEN Ci.index ELSE n
  OBVIOUS
<1>3. PICK M : M = Ci.members \cap Cj.members
  OBVIOUS
<1>4. PICK e : e = IF Ci.value_expr = Cj.value_expr THEN Ci.value_expr ELSE NoExpr
  OBVIOUS
<1>5. PICK c : c = intersect(n, Ci, Cj)
  OBVIOUS
<1>6. c = Class(I, c.leader_, e, c.value_phi, M)
  BY <1>2, <1>3, <1>4, <1>5 DEF intersect, Class
<1>7. c.index = I /\ c.members = M /\ c.value_expr = e
  BY <1>6 DEF Class
<1>8. Ci.index \in Nat /\ Ci.members \subseteq Here /\ M # {}
  BY <1>1, <1>3 DEF Meeting, Good, IsClass
<1>9. IsClass(c)
  BY <1>2, <1>3, <1>6, <1>7, <1>8 DEF IsClass
<1>10. OfConstant(e) => e = Ci.value_expr /\ e = Cj.value_expr
  BY <1>4 DEF OfConstant, NoExpr
<1> QED
  BY <1>1, <1>3, <1>5, <1>7, <1>9, <1>10 DEF Comes

\* Classes that come of different pairs are apart, but for their indexes.
LEMMA PairsApart ==
  ASSUME NEW P1, NEW P2, Good(P1), Good(P2), NEW w \in Meeting(P1, P2), NEW z \in Meeting(P1, P2), w # z,
         NEW c, Comes(c, w), NEW d, Comes(d, z)
  PROVE  /\ c.members \cap d.members = {}
         /\ c.value_expr = d.value_expr => ~OfConstant(c.value_expr)
<1>1. /\ w = <<w[1], w[2]>> /\ z = <<z[1], z[2]>>
      /\ w[1] \in P1 /\ w[2] \in P2 /\ z[1] \in P1 /\ z[2] \in P2
  BY DEF Meeting
<1>2. CASE w[1] # z[1]
  <2>1. Apart(w[1], z[1])
    BY <1>1, <1>2 DEF Good
  <2> QED
    BY <2>1 DEF Apart, Comes
<1>3. CASE w[2] # z[2]
  <2>1. Apart(w[2], z[2])
    BY <1>1, <1>3 DEF Good
  <2> QED
    BY <2>1 DEF Apart, Comes
<1> QED
  BY <1>1, <1>2, <1>3

LEMMA GoodJoinAll ==
  ASSUME NEW P1, NEW P2, Good(P1), Good(P2), NEW n \in Nat
  PROVE  GoodState(JoinAll(P1, P2, n))
<1>1. PICK pairs : /\ pairs = InOrderOf(Meeting(P1, P2), PairBefore)
                   /\ Len(pairs) \in Nat
                   /\ \A k \in 1..Len(pairs) : pairs[k] \in Meeting(P1, P2)
                   /\ \A j, k \in 1..Len(pairs) : pairs[j] = pairs[k] => j = k
  BY PairsInOrder
<1>2. /\ Len(pairs) \in Nat
      /\ \A k \in 1..Len(pairs) : pairs[k] \in Meeting(P1, P2)
      /\ \A j, k \in 1..Len(pairs) : pairs[j] = pairs[k] => j = k
  BY <1>1
<1>3. PICK f : /\ f[0] = [P |-> {}, n |-> n, ok |-> TRUE]
               /\ \A k \in 1..Len(pairs) : f[k] = JoinPair(f[k-1], pairs[k])
               /\ JoinAll(P1, P2, n) = f[Len(pairs)]
  BY <1>1, <1>2, JoinLoop
<1> DEFINE Holds(k) == GoodState(f[k]) /\ \A c \in f[k].P : \E j \in 1..k : Comes(c, pairs[j])
           T == {k \in Nat : k <= Len(pairs) => Holds(k)}
<1>4. 0 \in T
  <2>1. PICK st : st = [P |-> {}, n |-> n, ok |-> TRUE]
    OBVIOUS
  <2>2. GoodState(st) /\ st.P = {}
    BY <2>1, GoodEmpty DEF GoodState
  <2>3. Holds(0)
    BY <1>3, <2>1, <2>2
  <2> QED
    BY <2>3
<1>5. ASSUME NEW l \in Nat, l \in T PROVE l + 1 \in T
  <2>1. PICK k \in Nat : k = l + 1
    OBVIOUS
  <2> SUFFICES ASSUME k <= Len(pairs) PROVE Holds(k)
    BY <2>1
  <2>2. k \in 1..Len(pairs) /\ k - 1 = l /\ l <= Len(pairs)
    BY <1>2, <2>1
  <2>3. PICK st : st = f[l]
    OBVIOUS
  <2>4. GoodState(st) /\ \A c \in st.P : \E j \in 1..l : Comes(c, pairs[j])
    BY <1>5, <2>2, <2>3
  <2>5. PICK w : w = pairs[k]
    OBVIOUS
  <2>6. w \in Meeting(P1, P2) /\ f[k] = JoinPair(st, w)
    BY <1>2, <1>3, <2>2, <2>3, <2>5
  <2>7. st = [P |-> st.P, n |-> st.n, ok |-> st.ok] /\ st.n \in Nat /\ Good(st.P)
    BY <2>4 DEF GoodState
  <2>8. PICK new : new = intersect(st.n, w[1], w[2])
    OBVIOUS
  <2>9. IsClass(new) /\ Comes(new, w)
    BY <2>6, <2>7, <2>8, GoodIntersect
  <2>10. PICK m : m = IF w[1].index = w[2].index THEN st.n ELSE st.n + 1
    OBVIOUS
  <2>11. f[k] = [P |-> Emplace(st.P, new), n |-> m, ok |-> st.ok]
    <3>1. JoinPair(st, w) = [st EXCEPT !.P = Emplace(st.P, new),
                                       !.n = IF w[1].index = w[2].index THEN st.n ELSE st.n + 1]
      BY <2>8 DEF JoinPair
    <3> QED
      BY <2>6, <2>7, <2>10, <3>1
  <2>12. ASSUME NEW d \in st.P
         PROVE  new.members \cap d.members = {} /\ (new.value_expr = d.value_expr => ~OfConstant(new.value_expr))
    <3>1. PICK j \in 1..l : Comes(d, pairs[j])
      BY <2>4
    <3>2. j \in 1..Len(pairs) /\ j # k
      BY <1>2, <2>1, <2>2
    <3>3. pairs[j] \in Meeting(P1, P2) /\ pairs[j] # w
      BY <1>2, <2>2, <2>5, <3>2
    <3> QED
      BY <2>6, <2>9, <3>1, <3>3, PairsApart
  <2>13. Good(Emplace(st.P, new))
    BY <2>7, <2>9, <2>12, GoodEmplace
  <2>14. GoodState(f[k])
    BY <2>7, <2>10, <2>11, <2>13 DEF GoodState
  <2>15. ASSUME NEW c \in f[k].P PROVE \E j \in 1..k : Comes(c, pairs[j])
    <3>1. c \in st.P \/ c = new
      BY <2>11 DEF Emplace
    <3>2. CASE c \in st.P
      <4>1. PICK j \in 1..l : Comes(c, pairs[j])
        BY <2>4, <3>2
      <4>2. j \in 1..k
        BY <2>1
      <4> QED
        BY <4>1, <4>2
    <3>3. CASE c = new
      <4>1. k \in 1..k
        BY <2>2
      <4> QED
        BY <2>5, <2>9, <3>3, <4>1
    <3> QED
      BY <3>1, <3>2, <3>3
  <2> QED
    BY <2>14, <2>15
<1>6. \A k \in Nat : k \in T
  <2> HIDE DEF T
  <2> QED
    BY <1>4, <1>5, SetInduction
<1> QED
  BY <1>2, <1>3, <1>6

LEMMA GoodJoin ==
  ASSUME NEW P1, NEW P2, Good(P1), Good(P2), NEW n \in Nat
  PROVE  GoodState(join(P1, P2, n))
<1>1. GoodState([P |-> {}, n |-> n, ok |-> FALSE])
  BY GoodEmpty DEF GoodState
<1>2. GoodState([P |-> P1, n |-> n, ok |-> TRUE]) /\ GoodState([P |-> P2, n |-> n, ok |-> TRUE])
  BY DEF GoodState
<1>3. GoodState(JoinAll(P1, P2, n))
  BY GoodJoinAll
<1>4. CASE P1 = {}
  <2>1. join(P1, P2, n) = [P |-> {}, n |-> n, ok |-> FALSE]
    BY <1>4 DEF join
  <2> QED
    BY <1>1, <2>1
<1>5. CASE P1 # {} /\ First(P1).index = TopIndex
  <2>1. join(P1, P2, n) = [P |-> P2, n |-> n, ok |-> TRUE]
    BY <1>5 DEF join
  <2> QED
    BY <1>2, <2>1
<1>6. CASE P1 # {} /\ First(P1).index # TopIndex /\ P2 = {}
  <2>1. join(P1, P2, n) = [P |-> {}, n |-> n, ok |-> FALSE]
    BY <1>6 DEF join
  <2> QED
    BY <1>1, <2>1
<1>7. CASE P1 # {} /\ First(P1).index # TopIndex /\ P2 # {}
  <2>1. join(P1, P2, n) = IF First(P2).index = TopIndex THEN [P |-> P1, n |-> n, ok |-> TRUE]
                          ELSE JoinAll(P1, P2, n)
    BY <1>7 DEF join
  <2> QED
    BY <1>2, <1>3, <2>1
<1> QED
  BY <1>4, <1>5, <1>6, <1>7

\* Arguments and globals start in classes of their own.
LEMMA GoodGiven ==
  ASSUME fn \in Functions, NEW n \in Nat
  PROVE  Good(GivenClasses(n))
<1>1. /\ Len(Given) \in Nat
      /\ \A k \in 1..Len(Given) : Given[k] \in Here
      /\ \A j, k \in 1..Len(Given) : Given[j] = Given[k] => j = k
  BY GivenType
<1>2. PICK f : f = [k \in 1..Len(Given) |-> Class(n + k - 1, Given[k], NoExpr, NoExpr, {Given[k]})]
  OBVIOUS
<1>3. GivenClasses(n) = {f[k] : k \in 1..Len(Given)}
  BY <1>2 DEF GivenClasses
<1>4. IsFiniteSet(GivenClasses(n))
  <2>1. IsFiniteSet(1..Len(Given))
    BY <1>1, FS_Interval
  <2>2. DOMAIN f = 1..Len(Given) /\ f = [k \in 1..Len(Given) |-> f[k]]
    BY <1>2
  <2> QED
    BY <1>3, <2>1, <2>2, FiniteImage
<1>5. ASSUME NEW k \in 1..Len(Given)
      PROVE  /\ IsClass(f[k]) /\ f[k].index = n + k - 1 /\ f[k].members = {Given[k]}
             /\ f[k].value_expr = NoExpr
  <2>1. f[k] = Class(n + k - 1, Given[k], NoExpr, NoExpr, {Given[k]})
    BY <1>2
  <2>2. n + k - 1 \in Nat
    BY <1>1
  <2>3. Given[k] \in Here
    BY <1>1
  <2> QED
    BY <2>1, <2>2, <2>3 DEF IsClass, Class
<1>6. ASSUME NEW j \in 1..Len(Given), NEW k \in 1..Len(Given), f[j] # f[k] PROVE Apart(f[j], f[k])
  <2>1. j # k /\ j \in Nat /\ k \in Nat
    BY <1>1, <1>6
  <2>2. f[j].index # f[k].index
    BY <1>5, <2>1
  <2>3. Given[j] # Given[k]
    BY <1>1, <2>1
  <2>4. ~OfConstant(NoExpr)
    BY DEF OfConstant, NoExpr
  <2> QED
    BY <1>5, <2>2, <2>3, <2>4 DEF Apart
<1> QED
  BY <1>3, <1>4, <1>5, <1>6 DEF Good

-----------------------------------------------------------------------------
(* The inductive invariant.                                                *)

Tracked == OpsOf(fn.code) \cup ToSet(Given)

\* Only operands differ from what the function was.
SameShape(c) ==
  /\ c = [b \in Blocks |-> c[b]]
  /\ \A b \in Blocks :
       /\ c[b] = [k \in 1..Len(fn.code[b]) |-> c[b][k]]
       /\ \A k \in 1..Len(fn.code[b]) :
            /\ c[b][k] = Instr(fn.code[b][k].op, fn.code[b][k].cmp, c[b][k].opnd)
            /\ c[b][k].opnd = [n \in 1..Len(fn.code[b][k].opnd) |-> c[b][k].opnd[n]]

IInv ==
  /\ fn \in Functions
  /\ SameShape(code)
  /\ phase \in {"init", "iterate"} => code = fn.code
  /\ next_value_number \in Nat /\ cur_next_value_number \in Nat /\ bb \in Nat \ {0}
  /\ pout = [b \in Blocks |-> pout[b]]
  /\ \A b \in Blocks : Good(pout[b])
  /\ \A r \in todo : r.member \in Tracked /\ r.member # r.leader_
  /\ use_list = [v \in Tracked |-> SetToBag(UsesOf(code, v))]

LEMMA SequenceIs ==
  ASSUME NEW S, NEW s \in Seq(S)
  PROVE  Len(s) \in Nat /\ s = [k \in 1..Len(s) |-> s[k]]
OBVIOUS

LEMMA ShapeGiven ==
  ASSUME fn \in Functions
  PROVE  SameShape(fn.code)
<1>1. fn.code \in Seq(Seq(Instruction))
  BY FunctionsAssumption
<1>2. fn.code = [b \in Blocks |-> fn.code[b]]
  BY <1>1, SequenceIs, Zenon DEF Blocks
<1>3. ASSUME NEW b \in Blocks PROVE fn.code[b] \in Seq(Instruction)
  BY <1>1 DEF Blocks
<1>4. ASSUME NEW b \in Blocks PROVE fn.code[b] = [k \in 1..Len(fn.code[b]) |-> fn.code[b][k]]
  BY <1>3
<1>5. ASSUME NEW b \in Blocks, NEW k \in 1..Len(fn.code[b])
      PROVE  /\ fn.code[b][k] = Instr(fn.code[b][k].op, fn.code[b][k].cmp, fn.code[b][k].opnd)
             /\ fn.code[b][k].opnd = [n \in 1..Len(fn.code[b][k].opnd) |-> fn.code[b][k].opnd[n]]
  <2>1. PICK i \in Instruction : i = fn.code[b][k]
    BY CodeType
  <2>2. i = Instr(i.op, i.cmp, i.opnd)
    BY DEF Instruction, Instr
  <2>3. i.opnd \in Seq(Operand)
    BY DEF Instruction
  <2>4. i.opnd = [n \in 1..Len(i.opnd) |-> i.opnd[n]]
    BY <2>3
  <2> QED
    BY <2>1, <2>2, <2>4
<1> QED
  BY <1>2, <1>4, <1>5 DEF SameShape

LEMMA LenOf ==
  ASSUME NEW n \in Nat, NEW f, f = [k \in 1..n |-> f[k]]
  PROVE  Len(f) = n
OBVIOUS

LEMMA ShapeLengths ==
  ASSUME fn \in Functions, NEW c, SameShape(c)
  PROVE  /\ Len(c) = Len(fn.code)
         /\ \A b \in Blocks : Len(c[b]) = Len(fn.code[b])
         /\ \A b \in Blocks : \A k \in 1..Len(fn.code[b]) :
              Len(c[b][k].opnd) = Len(fn.code[b][k].opnd) /\ c[b][k].op = fn.code[b][k].op
         /\ OpsOf(c) = OpsOf(fn.code)
<1>1. Len(c) = Len(fn.code)
  BY CodeType, LenOf DEF SameShape, Blocks
<1>2. ASSUME NEW b \in Blocks PROVE Len(c[b]) = Len(fn.code[b])
  BY CodeType, LenOf DEF SameShape
<1>3. ASSUME NEW b \in Blocks, NEW k \in 1..Len(fn.code[b])
      PROVE  Len(c[b][k].opnd) = Len(fn.code[b][k].opnd) /\ c[b][k].op = fn.code[b][k].op
  <2>1. c[b][k] = Instr(fn.code[b][k].op, fn.code[b][k].cmp, c[b][k].opnd)
    BY DEF SameShape
  <2>2. c[b][k].op = fn.code[b][k].op
    BY <2>1 DEF Instr
  <2>3. c[b][k].opnd = [n \in 1..Len(fn.code[b][k].opnd) |-> c[b][k].opnd[n]]
    BY DEF SameShape
  <2>4. Len(fn.code[b][k].opnd) \in Nat
    BY CodeType
  <2> QED
    BY <2>2, <2>3, <2>4, LenOf
<1>4. OpsOf(c) = OpsOf(fn.code)
  BY <1>1, <1>2 DEF OpsOf, Blocks
<1> QED
  BY <1>1, <1>2, <1>3, <1>4

\* A use is a place in the program where the value stands.
LEMMA UsesAre ==
  ASSUME fn \in Functions, NEW c, SameShape(c), NEW v, NEW u
  PROVE  u \in UsesOf(c, v) <=>
           \E b \in Blocks : \E k \in 1..Len(fn.code[b]) : \E n \in 1..Len(fn.code[b][k].opnd) :
             u = <<Op(b, k), n>> /\ c[b][k].opnd[n] = v
<1>1. \A b, k : InstrOf(c, Op(b, k)) = c[b][k]
  BY DEF InstrOf, Op
<1>2. ASSUME u \in UsesOf(c, v)
      PROVE  \E b \in Blocks : \E k \in 1..Len(fn.code[b]) : \E n \in 1..Len(fn.code[b][k].opnd) :
               u = <<Op(b, k), n>> /\ c[b][k].opnd[n] = v
  <2>1. PICK o \in OpsOf(c) : u \in {<<o, n>> : n \in {m \in 1..Len(InstrOf(c, o).opnd) : InstrOf(c, o).opnd[m] = v}}
    BY <1>2 DEF UsesOf
  <2>2. PICK n \in 1..Len(InstrOf(c, o).opnd) : u = <<o, n>> /\ InstrOf(c, o).opnd[n] = v
    BY <2>1
  <2>3. o \in OpsOf(fn.code)
    BY ShapeLengths
  <2>4. PICK b \in Blocks : \E k \in 1..Len(fn.code[b]) : o = Op(b, k)
    BY <2>3 DEF OpsOf, Blocks
  <2>5. PICK k \in 1..Len(fn.code[b]) : o = Op(b, k)
    BY <2>4
  <2>6. Len(InstrOf(c, o).opnd) = Len(fn.code[b][k].opnd)
    <3>1. InstrOf(c, o) = c[b][k]
      BY <1>1, <2>5
    <3>2. Len(c[b][k].opnd) = Len(fn.code[b][k].opnd)
      BY ShapeLengths
    <3> QED
      BY <3>1, <3>2
  <2> QED
    BY <1>1, <2>2, <2>5, <2>6
<1>3. ASSUME NEW b \in Blocks, NEW k \in 1..Len(fn.code[b]), NEW n \in 1..Len(fn.code[b][k].opnd),
             u = <<Op(b, k), n>>, c[b][k].opnd[n] = v
      PROVE  u \in UsesOf(c, v)
  <2>1. PICK o : o = Op(b, k)
    OBVIOUS
  <2>2. o \in OpsOf(c)
    <3>1. o \in OpsOf(fn.code)
      BY <2>1 DEF OpsOf, Blocks
    <3> QED
      BY <3>1, ShapeLengths
  <2>3. n \in {m \in 1..Len(InstrOf(c, o).opnd) : InstrOf(c, o).opnd[m] = v}
    <3>1. InstrOf(c, o) = c[b][k]
      BY <1>1, <2>1
    <3>2. Len(c[b][k].opnd) = Len(fn.code[b][k].opnd)
      BY ShapeLengths
    <3> QED
      BY <1>3, <3>1, <3>2
  <2>4. u \in {<<o, m>> : m \in {m \in 1..Len(InstrOf(c, o).opnd) : InstrOf(c, o).opnd[m] = v}}
    BY <1>3, <2>1, <2>3
  <2> QED
    BY <2>2, <2>4 DEF UsesOf
<1> QED
  BY <1>2, <1>3

\* WithOperand puts the new operand where the uses are, and nowhere else.
LEMMA WithOperandIs ==
  ASSUME fn \in Functions, SameShape(code), NEW uses, NEW new, NEW c, c = WithOperand(uses, new)
  PROVE  /\ SameShape(c)
         /\ \A b \in Blocks : \A k \in 1..Len(fn.code[b]) : \A n \in 1..Len(fn.code[b][k].opnd) :
              c[b][k].opnd[n] = IF <<Op(b, k), n>> \in uses THEN new ELSE code[b][k].opnd[n]
<1>1. ASSUME NEW b \in Blocks PROVE Len(code[b]) = Len(fn.code[b])
  BY ShapeLengths
<1> DEFINE N(b, k) ==
      [code[b][k] EXCEPT !.opnd = [n \in DOMAIN @ |-> IF <<Op(b, k), n>> \in uses THEN new ELSE @[n]]]
<1>2. c = [b \in Blocks |-> c[b]]
  BY DEF WithOperand
<1>3. ASSUME NEW b \in Blocks
      PROVE  c[b] = [k \in 1..Len(fn.code[b]) |-> N(b, k)]
  BY <1>1 DEF WithOperand
<1>4. ASSUME NEW b \in Blocks, NEW k \in 1..Len(fn.code[b])
      PROVE  /\ c[b][k] = Instr(fn.code[b][k].op, fn.code[b][k].cmp, c[b][k].opnd)
             /\ c[b][k].opnd = [n \in 1..Len(fn.code[b][k].opnd) |->
                                  IF <<Op(b, k), n>> \in uses THEN new ELSE code[b][k].opnd[n]]
             /\ \A n \in 1..Len(fn.code[b][k].opnd) :
                  c[b][k].opnd[n] = IF <<Op(b, k), n>> \in uses THEN new ELSE code[b][k].opnd[n]
  <2>1. PICK i : i = code[b][k]
    OBVIOUS
  <2>2. i = Instr(fn.code[b][k].op, fn.code[b][k].cmp, i.opnd)
    BY <2>1 DEF SameShape
  <2>3. i.opnd = [n \in 1..Len(fn.code[b][k].opnd) |-> i.opnd[n]]
    BY <2>1 DEF SameShape
  <2>4. DOMAIN i.opnd = 1..Len(fn.code[b][k].opnd)
    BY <2>3
  <2>5. PICK o : o = [n \in 1..Len(fn.code[b][k].opnd) |-> IF <<Op(b, k), n>> \in uses THEN new ELSE i.opnd[n]]
    OBVIOUS
  <2>6. c[b][k] = [i EXCEPT !.opnd = o]
    <3>1. N(b, k) = [i EXCEPT !.opnd = o]
      BY <2>1, <2>4, <2>5
    <3> HIDE DEF N
    <3>2. c[b][k] = N(b, k)
      BY <1>3
    <3> QED
      BY <3>1, <3>2
  <2>7. c[b][k] = Instr(fn.code[b][k].op, fn.code[b][k].cmp, o)
    BY <2>2, <2>6 DEF Instr
  <2>8. c[b][k].opnd = o
    BY <2>7 DEF Instr
  <2> QED
    BY <2>1, <2>5, <2>7, <2>8
<1>5. ASSUME NEW b \in Blocks, NEW k \in 1..Len(fn.code[b])
      PROVE  c[b][k].opnd = [n \in 1..Len(fn.code[b][k].opnd) |-> c[b][k].opnd[n]]
  BY <1>4
<1>6. ASSUME NEW b \in Blocks PROVE c[b] = [k \in 1..Len(fn.code[b]) |-> c[b][k]]
  BY <1>3
<1>7. SameShape(c)
  BY <1>2, <1>4, <1>5, <1>6 DEF SameShape
<1>8. ASSUME NEW b \in Blocks, NEW k \in 1..Len(fn.code[b]), NEW n \in 1..Len(fn.code[b][k].opnd)
      PROVE  c[b][k].opnd[n] = IF <<Op(b, k), n>> \in uses THEN new ELSE code[b][k].opnd[n]
  BY <1>4
<1> QED
  BY <1>7, <1>8

\* The bag of a set and what is taken out of it, or put into it.
LEMMA BagsOfSets ==
  ASSUME NEW A, NEW M
  PROVE  /\ M \subseteq A => SetToBag(A) (-) SetToBag(M) = SetToBag(A \ M)
         /\ A \cap M = {} => SetToBag(A) (+) SetToBag(M) = SetToBag(A \cup M)
<1>1. ASSUME M \subseteq A PROVE SetToBag(A) (-) SetToBag(M) = SetToBag(A \ M)
  <2> DEFINE B == [e \in A |-> IF e \in M THEN 1 - 1 ELSE 1]
  <2>1. SetToBag(A) (-) SetToBag(M) = [e \in {d \in A : B[d] > 0} |-> B[e]]
    BY DEF SetToBag, (-)
  <2>2. {d \in A : B[d] > 0} = A \ M
    OBVIOUS
  <2>3. \A e \in A \ M : B[e] = 1
    OBVIOUS
  <2> HIDE DEF B
  <2> QED
    BY <2>1, <2>2, <2>3 DEF SetToBag
<1>2. ASSUME A \cap M = {} PROVE SetToBag(A) (+) SetToBag(M) = SetToBag(A \cup M)
  BY <1>2 DEF SetToBag, (+)
<1> QED
  BY <1>1, <1>2

\* A replacement keeps the use lists exact.
LEMMA ReplaceKeeps ==
  ASSUME fn \in Functions, SameShape(code),
         use_list = [w \in Tracked |-> SetToBag(UsesOf(code, w))],
         NEW v \in Tracked, NEW new, v # new, NEW b, replace_use_with_when(v, new, b)
  PROVE  SameShape(code') /\ use_list' = [w \in Tracked |-> SetToBag(UsesOf(code', w))]
<1>1. PICK M : M = {u \in UsesOf(code, v) : UserIn(b, u[1])}
  OBVIOUS
<1>2. use_list[v] = SetToBag(UsesOf(code, v))
  OBVIOUS
<1>3. UsesFrom(v, b) = SetToBag(M)
  BY <1>1, <1>2 DEF UsesFrom, SetToBag
<1>4. DOMAIN UsesFrom(v, b) = M
  BY <1>3 DEF SetToBag
<1>5. CASE M # {} /\ new = Null
  <2>1. code' = code /\ use_list' = use_list
    BY <1>4, <1>5 DEF replace_use_with_when, irVars
  <2> QED
    BY <2>1
<1>6. CASE ~(M # {} /\ new = Null)
  <2>1. /\ code' = WithOperand(M, new)
        /\ use_list' = [w \in DOMAIN use_list |->
                          IF w = v THEN use_list[w] (-) SetToBag(M)
                          ELSE IF w = new THEN use_list[w] (+) SetToBag(M) ELSE use_list[w]]
    BY <1>3, <1>4, <1>6 DEF replace_use_with_when
  <2>2. PICK c : c = WithOperand(M, new)
    OBVIOUS
  <2>3. /\ SameShape(c)
        /\ \A bb1 \in Blocks : \A k \in 1..Len(fn.code[bb1]) : \A n \in 1..Len(fn.code[bb1][k].opnd) :
             c[bb1][k].opnd[n] = IF <<Op(bb1, k), n>> \in M THEN new ELSE code[bb1][k].opnd[n]
    BY <2>2, WithOperandIs
  <2>4. ASSUME NEW w, NEW u
        PROVE  u \in UsesOf(c, w) <=>
                 IF u \in M THEN w = new ELSE u \in UsesOf(code, w)
    <3>1. ASSUME u \in UsesOf(c, w)
          PROVE  IF u \in M THEN w = new ELSE u \in UsesOf(code, w)
      <4>1. PICK d \in Blocks : \E k \in 1..Len(fn.code[d]) : \E n \in 1..Len(fn.code[d][k].opnd) :
              u = <<Op(d, k), n>> /\ c[d][k].opnd[n] = w
        BY <2>3, <3>1, UsesAre
      <4>2. PICK k \in 1..Len(fn.code[d]) : \E n \in 1..Len(fn.code[d][k].opnd) :
              u = <<Op(d, k), n>> /\ c[d][k].opnd[n] = w
        BY <4>1
      <4>3. PICK n \in 1..Len(fn.code[d][k].opnd) : u = <<Op(d, k), n>> /\ c[d][k].opnd[n] = w
        BY <4>2
      <4>4. w = IF u \in M THEN new ELSE code[d][k].opnd[n]
        BY <2>3, <4>3
      <4>5. code[d][k].opnd[n] = w => u \in UsesOf(code, w)
        BY <4>3, UsesAre
      <4> QED
        BY <4>4, <4>5
    <3>2. ASSUME IF u \in M THEN w = new ELSE u \in UsesOf(code, w)
          PROVE  u \in UsesOf(c, w)
      <4>1. PICK x : u \in UsesOf(code, x) /\ (u \notin M => x = w)
        BY <1>1, <3>2
      <4>2. PICK d \in Blocks : \E k \in 1..Len(fn.code[d]) : \E n \in 1..Len(fn.code[d][k].opnd) :
              u = <<Op(d, k), n>> /\ code[d][k].opnd[n] = x
        BY <4>1, UsesAre
      <4>3. PICK k \in 1..Len(fn.code[d]) : \E n \in 1..Len(fn.code[d][k].opnd) :
              u = <<Op(d, k), n>> /\ code[d][k].opnd[n] = x
        BY <4>2
      <4>4. PICK n \in 1..Len(fn.code[d][k].opnd) : u = <<Op(d, k), n>> /\ code[d][k].opnd[n] = x
        BY <4>3
      <4>5. c[d][k].opnd[n] = IF u \in M THEN new ELSE x
        BY <2>3, <4>4
      <4>6. c[d][k].opnd[n] = w
        BY <3>2, <4>1, <4>5
      <4> QED
        BY <2>3, <4>4, <4>6, UsesAre
    <3> QED
      BY <3>1, <3>2
  <2>5. M \subseteq UsesOf(code, v)
    BY <1>1
  <2>6. UsesOf(code, new) \cap M = {}
    <3>1. ASSUME NEW u \in UsesOf(code, new), u \in M PROVE FALSE
      <4>1. u \in UsesOf(code, v)
        BY <2>5, <3>1
      <4>2. PICK d \in Blocks : \E k \in 1..Len(fn.code[d]) : \E n \in 1..Len(fn.code[d][k].opnd) :
              u = <<Op(d, k), n>> /\ code[d][k].opnd[n] = new
        BY UsesAre
      <4>3. PICK k, n : u = <<Op(d, k), n>> /\ code[d][k].opnd[n] = new
        BY <4>2
      <4>4. PICK d1 \in Blocks : \E k1 \in 1..Len(fn.code[d1]) : \E n1 \in 1..Len(fn.code[d1][k1].opnd) :
              u = <<Op(d1, k1), n1>> /\ code[d1][k1].opnd[n1] = v
        BY <4>1, UsesAre
      <4>5. PICK k1, n1 : u = <<Op(d1, k1), n1>> /\ code[d1][k1].opnd[n1] = v
        BY <4>4
      <4>6. d = d1 /\ k = k1 /\ n = n1
        BY <4>3, <4>5 DEF Op
      <4> QED
        BY <4>3, <4>5, <4>6
    <3> QED
      BY <3>1
  <2>7. UsesOf(c, v) = UsesOf(code, v) \ M
    BY <2>4
  <2>8. UsesOf(c, new) = UsesOf(code, new) \cup M
    BY <2>4
  <2>9. ASSUME NEW w, w # v, w # new PROVE UsesOf(c, w) = UsesOf(code, w)
    <3>1. ASSUME NEW u \in UsesOf(code, w) PROVE u \notin M
      <4>1. SUFFICES ASSUME u \in UsesOf(code, v) PROVE FALSE
        BY <2>5
      <4>2. PICK d \in Blocks : \E k \in 1..Len(fn.code[d]) : \E n \in 1..Len(fn.code[d][k].opnd) :
              u = <<Op(d, k), n>> /\ code[d][k].opnd[n] = w
        BY UsesAre
      <4>3. PICK k, n : u = <<Op(d, k), n>> /\ code[d][k].opnd[n] = w
        BY <4>2
      <4>4. PICK d1 \in Blocks : \E k1 \in 1..Len(fn.code[d1]) : \E n1 \in 1..Len(fn.code[d1][k1].opnd) :
              u = <<Op(d1, k1), n1>> /\ code[d1][k1].opnd[n1] = v
        BY <4>1, UsesAre
      <4>5. PICK k1, n1 : u = <<Op(d1, k1), n1>> /\ code[d1][k1].opnd[n1] = v
        BY <4>4
      <4>6. d = d1 /\ k = k1 /\ n = n1
        BY <4>3, <4>5 DEF Op
      <4> QED
        BY <2>9, <4>3, <4>5, <4>6
    <3>2. ASSUME NEW u PROVE u \in UsesOf(c, w) <=> u \in UsesOf(code, w)
      <4>1. u \in UsesOf(c, w) <=> IF u \in M THEN w = new ELSE u \in UsesOf(code, w)
        BY <2>4
      <4> QED
        BY <2>9, <3>1, <4>1
    <3> QED
      BY <3>2
  <2>10. ASSUME NEW w \in Tracked PROVE use_list'[w] = SetToBag(UsesOf(c, w))
    <3>1. use_list[w] = SetToBag(UsesOf(code, w))
      OBVIOUS
    <3>2. CASE w = v
      <4>1. use_list'[w] = SetToBag(UsesOf(code, v)) (-) SetToBag(M)
        BY <2>1, <3>1, <3>2
      <4> QED
        BY <2>5, <2>7, <3>2, <4>1, BagsOfSets
    <3>3. CASE w = new
      <4>1. use_list'[w] = SetToBag(UsesOf(code, new)) (+) SetToBag(M)
        BY <2>1, <3>1, <3>3
      <4>2. SetToBag(UsesOf(code, new)) (+) SetToBag(M) = SetToBag(UsesOf(code, new) \cup M)
        BY <2>6, BagsOfSets
      <4> QED
        BY <2>8, <3>3, <4>1, <4>2, Zenon
    <3>4. CASE w # v /\ w # new
      <4>1. use_list'[w] = use_list[w]
        BY <2>1, <3>4
      <4> QED
        BY <2>9, <3>1, <3>4, <4>1
    <3> QED
      BY <3>2, <3>3, <3>4
  <2>11. DOMAIN use_list = Tracked
    OBVIOUS
  <2>12. use_list' = [w \in Tracked |-> use_list'[w]]
    BY <2>1, <2>11
  <2>13. use_list' = [w \in Tracked |-> SetToBag(UsesOf(c, w))]
    BY <2>10, <2>12
  <2> QED
    BY <2>1, <2>2, <2>3, <2>13
<1> QED
  BY <1>5, <1>6

LEMMA InitEstablishes ==
  ASSUME Init
  PROVE  IInv
<1>1. fn \in Functions /\ code = fn.code
  BY DEF Init
<1>2. SameShape(code)
  BY <1>1, ShapeGiven
<1>3. use_list = [v \in Tracked |-> SetToBag(UsesOf(code, v))]
  BY DEF Init, Tracked
<1>4. pout = [b \in Blocks |-> pout[b]] /\ \A b \in Blocks : Good(pout[b])
  BY GoodEmpty DEF Init
<1>5. next_value_number \in Nat /\ cur_next_value_number \in Nat /\ bb \in Nat \ {0} /\ todo = {}
  BY DEF Init
<1> QED
  BY <1>1, <1>2, <1>3, <1>4, <1>5 DEF IInv

\* What depends on the function only stays as it is.
LEMMA FunctionStays ==
  ASSUME fn' = fn
  PROVE  Blocks' = Blocks /\ Here' = Here /\ Tracked' = Tracked
BY DEF Blocks, Here, Tracked, Computed, Given, OpsOf, Arg, Global, Op, InstrOf, IsVoid, ToSet

\* The partition at the end of one block changes, into a good one.
LEMMA PoutStep ==
  ASSUME IInv, fn' = fn, NEW b \in Blocks, NEW Q, Good(Q), pout' = [pout EXCEPT ![b] = Q]
  PROVE  (pout = [c \in Blocks |-> pout[c]])' /\ (\A c \in Blocks : Good(pout[c]))'
<1>1. pout = [c \in Blocks |-> pout[c]] /\ \A c \in Blocks : Good(pout[c])
  BY DEF IInv
<1>2. Blocks' = Blocks /\ Here' = Here
  BY FunctionStays
<1>3. pout' = [c \in Blocks |-> IF c = b THEN Q ELSE pout[c]]
  BY <1>1
<1>4. ASSUME NEW c \in Blocks PROVE (Good(pout[c]))'
  <2>1. PICK P : P = pout'[c]
    OBVIOUS
  <2>2. Good(P)
    BY <1>1, <1>3, <2>1
  <2>3. Good(P)'
    BY <1>2, <2>2 DEF Good, IsClass
  <2> QED
    BY <2>1, <2>3 DEF Good, IsClass
<1>5. pout' = [c \in Blocks |-> pout'[c]]
  BY <1>3
<1> QED
  BY <1>2, <1>4, <1>5

\* Nothing changes what the partitions are.
LEMMA PoutSame ==
  ASSUME IInv, fn' = fn, pout' = pout
  PROVE  (pout = [c \in Blocks |-> pout[c]])' /\ (\A c \in Blocks : Good(pout[c]))'
<1>1. pout = [c \in Blocks |-> pout[c]] /\ \A c \in Blocks : Good(pout[c])
  BY DEF IInv
<1>2. Blocks' = Blocks /\ Here' = Here
  BY FunctionStays
<1> QED
  BY <1>1, <1>2 DEF Good, IsClass

LEMMA IrSame ==
  ASSUME IInv, fn' = fn, code' = code, use_list' = use_list
  PROVE  SameShape(code)' /\ (use_list = [v \in Tracked |-> SetToBag(UsesOf(code, v))])'
<1>1. SameShape(code) /\ use_list = [v \in Tracked |-> SetToBag(UsesOf(code, v))]
  BY DEF IInv
<1>2. Blocks' = Blocks /\ Tracked' = Tracked
  BY FunctionStays
<1> QED
  BY <1>1, <1>2 DEF SameShape

LEMMA InitBlockKeeps ==
  ASSUME IInv, InitBlock
  PROVE  IInv'
<1>1. /\ phase = "init" /\ bb \in Blocks /\ code = fn.code /\ fn \in Functions
      /\ next_value_number \in Nat
  BY DEF IInv, InitBlock, Blocks
<1>2. /\ fn' = fn /\ code' = code /\ use_list' = use_list /\ phase' = phase /\ todo' = todo
      /\ bb' = bb + 1 /\ cur_next_value_number' = cur_next_value_number
  BY DEF InitBlock, ssaVars, irVars
<1>3. PICK s0 : s0 = [P |-> GivenClasses(next_value_number), n |-> next_value_number + Len(Given), ok |-> TRUE]
  OBVIOUS
<1>4. PICK st : st = Process(bb, s0)
  OBVIOUS
<1>5. GoodState(s0)
  <2>1. Good(GivenClasses(next_value_number))
    BY <1>1, GoodGiven
  <2>2. next_value_number + Len(Given) \in Nat
    BY <1>1, GivenType
  <2> QED
    BY <1>3, <2>1, <2>2 DEF GoodState
<1>6. GoodState(st)
  BY <1>1, <1>4, <1>5, GoodProcess
<1>7. PICK Q : Good(Q) /\ pout' = [pout EXCEPT ![bb] = Q] /\ next_value_number' \in Nat
  <2>1. CASE Preds(bb) = <<>>
    <3>1. pout' = [pout EXCEPT ![bb] = st.P] /\ next_value_number' = st.n
      BY <1>3, <1>4, <2>1 DEF InitBlock
    <3> QED
      BY <1>6, <3>1 DEF GoodState
  <2>2. CASE Preds(bb) # <<>>
    <3>1. pout' = [pout EXCEPT ![bb] = Top] /\ next_value_number' = next_value_number
      BY <2>2 DEF InitBlock
    <3> QED
      BY <1>1, <3>1, GoodTop
  <2> QED
    BY <2>1, <2>2
<1>8. (pout = [c \in Blocks |-> pout[c]])' /\ (\A c \in Blocks : Good(pout[c]))'
  BY <1>1, <1>2, <1>7, PoutStep
<1>9. SameShape(code)' /\ (use_list = [v \in Tracked |-> SetToBag(UsesOf(code, v))])'
  BY <1>2, IrSame
<1>10. bb' \in Nat \ {0} /\ cur_next_value_number' \in Nat
  BY <1>2 DEF IInv
<1>11. \A r \in todo' : r.member \in Tracked' /\ r.member # r.leader_
  BY <1>2, FunctionStays DEF IInv
<1> QED
  BY <1>1, <1>2, <1>7, <1>8, <1>9, <1>10, <1>11 DEF IInv

LEMMA StartPassKeeps ==
  ASSUME IInv, StartPass
  PROVE  IInv'
<1>1. phase \in {"init", "iterate"} /\ code = fn.code /\ fn \in Functions
  BY DEF IInv, StartPass
<1>2. /\ fn' = fn /\ code' = code /\ use_list' = use_list /\ pout' = pout /\ phase' = "iterate"
      /\ todo' = todo /\ bb' = 1 /\ next_value_number' = cur_next_value_number'
      /\ cur_next_value_number' \in {next_value_number, cur_next_value_number}
  BY DEF StartPass, ssaVars, irVars
<1>3. (pout = [c \in Blocks |-> pout[c]])' /\ (\A c \in Blocks : Good(pout[c]))'
  BY <1>2, PoutSame
<1>4. SameShape(code)' /\ (use_list = [v \in Tracked |-> SetToBag(UsesOf(code, v))])'
  BY <1>2, IrSame
<1>5. bb' \in Nat \ {0} /\ cur_next_value_number' \in Nat /\ next_value_number' \in Nat
  BY <1>2 DEF IInv
<1>6. \A r \in todo' : r.member \in Tracked' /\ r.member # r.leader_
  BY <1>2, FunctionStays DEF IInv
<1> QED
  BY <1>1, <1>2, <1>3, <1>4, <1>5, <1>6 DEF IInv

LEMMA GoodPartitionIn ==
  ASSUME fn \in Functions, \A c \in Blocks : Good(pout[c]), NEW b \in Blocks, Len(Preds(b)) \in {1, 2},
         NEW n \in Nat
  PROVE  GoodState(PartitionIn(b, n))
<1>1. \A k \in 1..Len(Preds(b)) : Preds(b)[k] \in Blocks
  BY CodeType
<1>2. CASE Len(Preds(b)) = 2
  <2>1. PICK p, q : p = Preds(b)[1] /\ q = Preds(b)[2]
    OBVIOUS
  <2>2. 1 \in 1..Len(Preds(b)) /\ 2 \in 1..Len(Preds(b))
    BY <1>2
  <2>3. p \in Blocks /\ q \in Blocks
    BY <1>1, <2>1, <2>2
  <2>4. PartitionIn(b, n) = join(pout[p], pout[q], n)
    BY <1>2, <2>1 DEF PartitionIn
  <2> QED
    BY <2>3, <2>4, GoodJoin
<1>3. CASE Len(Preds(b)) = 1
  <2>1. PICK p : p = Preds(b)[1]
    OBVIOUS
  <2>2. p \in Blocks
    BY <1>1, <1>3, <2>1
  <2>3. PartitionIn(b, n) = [P |-> pout[p], n |-> n, ok |-> TRUE]
    BY <1>3, <2>1 DEF PartitionIn
  <2> QED
    BY <2>2, <2>3 DEF GoodState
<1> QED
  BY <1>2, <1>3

LEMMA VisitKeeps ==
  ASSUME IInv, Visit
  PROVE  IInv'
<1>1. /\ phase = "iterate" /\ bb \in Blocks /\ code = fn.code /\ fn \in Functions
      /\ next_value_number \in Nat /\ \A b \in Blocks : Good(pout[b])
  <2>1. phase = "iterate" /\ bb <= Len(fn.code)
    BY DEF Visit
  <2>2. bb \in Nat \ {0} /\ fn \in Functions
    BY DEF IInv
  <2>3. bb \in Blocks
    BY <2>1, <2>2, CodeType DEF Blocks
  <2> QED
    BY <2>1, <2>2, <2>3 DEF IInv
<1>2. /\ fn' = fn /\ code' = code /\ use_list' = use_list /\ phase' = phase /\ todo' = todo
      /\ bb' = bb + 1 /\ cur_next_value_number' = cur_next_value_number
  BY DEF Visit, ssaVars, irVars
<1>3. /\ next_value_number' \in Nat
      /\ (pout = [c \in Blocks |-> pout[c]])' /\ (\A c \in Blocks : Good(pout[c]))'
  <2>1. CASE Len(Preds(bb)) \in {1, 2}
    <3>1. PICK s0 : s0 = PartitionIn(bb, next_value_number)
      OBVIOUS
    <3>2. PICK st : st = Process(bb, s0)
      OBVIOUS
    <3>3. pout' = [pout EXCEPT ![bb] = st.P] /\ next_value_number' = st.n
      BY <2>1, <3>1, <3>2 DEF Visit
    <3>4. GoodState(s0)
      BY <1>1, <2>1, <3>1, GoodPartitionIn
    <3>5. GoodState(st)
      BY <1>1, <3>2, <3>4, GoodProcess
    <3>6. PICK Q : Q = st.P
      OBVIOUS
    <3>7. Good(Q) /\ st.n \in Nat
      BY <3>5, <3>6 DEF GoodState
    <3>8. pout' = [pout EXCEPT ![bb] = Q]
      BY <3>3, <3>6
    <3>9. (pout = [c \in Blocks |-> pout[c]])' /\ (\A c \in Blocks : Good(pout[c]))'
      BY <1>1, <1>2, <3>7, <3>8, PoutStep
    <3> QED
      BY <3>3, <3>7, <3>9
  <2>2. CASE Len(Preds(bb)) \notin {1, 2}
    <3>1. pout' = pout /\ next_value_number' = next_value_number
      BY <2>2 DEF Visit
    <3>2. (pout = [c \in Blocks |-> pout[c]])' /\ (\A c \in Blocks : Good(pout[c]))'
      BY <1>2, <3>1, PoutSame
    <3> QED
      BY <1>1, <3>1, <3>2
  <2> QED
    BY <2>1, <2>2
<1>4. SameShape(code)' /\ (use_list = [v \in Tracked |-> SetToBag(UsesOf(code, v))])'
  BY <1>2, IrSame
<1>5. bb' \in Nat \ {0} /\ cur_next_value_number' \in Nat
  BY <1>2 DEF IInv
<1>6. \A r \in todo' : r.member \in Tracked' /\ r.member # r.leader_
  BY <1>2, FunctionStays DEF IInv
<1> QED
  BY <1>1, <1>2, <1>3, <1>4, <1>5, <1>6 DEF IInv

LEMMA StartReplaceKeeps ==
  ASSUME IInv, StartReplace
  PROVE  IInv'
<1>1. /\ fn' = fn /\ code' = code /\ use_list' = use_list /\ pout' = pout /\ phase' = "replace"
      /\ todo' = Replacements /\ bb' = bb
      /\ next_value_number' = next_value_number /\ cur_next_value_number' = cur_next_value_number
  BY DEF StartReplace, ssaVars, irVars, partVars
<1>2. (pout = [c \in Blocks |-> pout[c]])' /\ (\A c \in Blocks : Good(pout[c]))'
  BY <1>1, PoutSame
<1>3. SameShape(code)' /\ (use_list = [v \in Tracked |-> SetToBag(UsesOf(code, v))])'
  BY <1>1, IrSame
<1>4. ASSUME NEW r \in Replacements PROVE r.member \in Tracked /\ r.member # r.leader_
  <2>1. PICK b \in Blocks : r \in UNION {{Replacement(b, cc, v) : v \in Replaced(cc)} : cc \in pout[b]}
    BY DEF Replacements
  <2>2. PICK cc \in pout[b] : r \in {Replacement(b, cc, v) : v \in Replaced(cc)}
    BY <2>1
  <2>3. PICK v \in Replaced(cc) : r = Replacement(b, cc, v)
    BY <2>2
  <2>4. v \in cc.members /\ v # cc.leader_
    BY DEF Replaced
  <2>5. v \in Here
    BY <2>4 DEF IInv, Good, IsClass
  <2>6. r.member = v /\ r.leader_ = cc.leader_
    BY <2>3 DEF Replacement
  <2> QED
    BY <2>4, <2>5, <2>6 DEF Here, Computed, Tracked
<1>5. \A r \in todo' : r.member \in Tracked' /\ r.member # r.leader_
  BY <1>1, <1>4, FunctionStays
<1> QED
  BY <1>1, <1>2, <1>3, <1>5 DEF IInv

LEMMA ReplaceStepKeeps ==
  ASSUME IInv, Replace
  PROVE  IInv'
<1>1. /\ fn' = fn /\ pout' = pout /\ phase = "replace" /\ phase' = phase /\ bb' = bb
      /\ next_value_number' = next_value_number /\ cur_next_value_number' = cur_next_value_number
  BY DEF Replace, ssaVars, partVars
<1>2. PICK r \in todo : replace_use_with_when(r.member, r.leader_, r.bb) /\ todo' = todo \ {r}
  BY DEF Replace
<1>3. (pout = [c \in Blocks |-> pout[c]])' /\ (\A c \in Blocks : Good(pout[c]))'
  BY <1>1, PoutSame
<1>4. SameShape(code') /\ use_list' = [v \in Tracked |-> SetToBag(UsesOf(code', v))]
  <2>1. PICK v, new, b : v = r.member /\ new = r.leader_ /\ b = r.bb
    OBVIOUS
  <2>2. v \in Tracked /\ v # new /\ replace_use_with_when(v, new, b)
    BY <1>2, <2>1 DEF IInv
  <2> QED
    BY <2>2, ReplaceKeeps DEF IInv
<1>5. SameShape(code)' /\ (use_list = [v \in Tracked |-> SetToBag(UsesOf(code, v))])'
  BY <1>1, <1>4, FunctionStays DEF SameShape
<1>6. \A s \in todo' : s.member \in Tracked' /\ s.member # s.leader_
  BY <1>1, <1>2, FunctionStays DEF IInv
<1> QED
  BY <1>1, <1>3, <1>5, <1>6 DEF IInv

LEMMA OtherStepKeeps ==
  ASSUME IInv, Finish \/ Done \/ UNCHANGED vars
  PROVE  IInv'
<1>1. /\ fn' = fn /\ code' = code /\ use_list' = use_list /\ pout' = pout
      /\ (phase' = phase \/ phase' = "done") /\ todo' = todo /\ bb' = bb
      /\ next_value_number' = next_value_number /\ cur_next_value_number' = cur_next_value_number
  BY DEF Finish, Done, vars, ssaVars, irVars, partVars, ctlVars
<1>2. (pout = [c \in Blocks |-> pout[c]])' /\ (\A c \in Blocks : Good(pout[c]))'
  BY <1>1, PoutSame
<1>3. SameShape(code)' /\ (use_list = [v \in Tracked |-> SetToBag(UsesOf(code, v))])'
  BY <1>1, IrSame
<1>4. \A s \in todo' : s.member \in Tracked' /\ s.member # s.leader_
  BY <1>1, FunctionStays DEF IInv
<1> QED
  BY <1>1, <1>2, <1>3, <1>4 DEF IInv

\* The inductive invariant holds in every state of every function's run.
THEOREM GVNInvariant == Spec => []IInv
<1>1. Init => IInv
  BY InitEstablishes
<1>2. IInv /\ [Next \/ Done]_vars => IInv'
  BY InitBlockKeeps, StartPassKeeps, VisitKeeps, StartReplaceKeeps, ReplaceStepKeeps, OtherStepKeeps DEF Next
<1> QED
  BY <1>1, <1>2, PTL DEF Spec

\* For every function, however it is nested: the partitions of GVN::run stay
\* partitions through transfer functions, copies for phis and joins, although
\* value numbers are used again in every pass.
THEOREM PartitionsStayWellFormed == Spec => []PartitionsWellFormed
<1>1. IInv => PartitionsWellFormed
  BY DEF IInv, Good, IsClass, Apart, PartitionsWellFormed, Here
<1> QED
  BY <1>1, GVNInvariant, PTL

\* For every function, every replacement of a member by its leader leaves the
\* use lists of all instructions, arguments and globals exact.
THEOREM UseListsStayExact == Spec => []UseListsExact
<1>1. IInv => UseListsExact
  BY DEF IInv, UseListsExact
<1> QED
  BY <1>1, GVNInvariant, PTL
=============================================================================
