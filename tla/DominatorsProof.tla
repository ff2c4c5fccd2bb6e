-------------------------- MODULE DominatorsProof --------------------------
(***************************************************************************)
(* Proofs about Dominators, for any number of blocks, any graph and any    *)
(* order in which successors and predecessors are listed.                  *)
(*                                                                         *)
(* AssertsHold and IdomClimbs are not inductive.  They rest on what the    *)
(* depth-first search leaves behind (VisitInv): numbers are positions, and *)
(* every numbered block other than the entry has a predecessor with a      *)
(* higher number or one that is still on the stack.  So when create_idom   *)
(* reaches a block, a predecessor earlier in the reversed post order       *)
(* already has an idom, and of the blocks intersect has been or will be    *)
(* given, one has a higher number than the block in hand (IdomInv).        *)
(***************************************************************************)
EXTENDS Dominators, DominanceTheorems, SequenceTheorems

VisitInv ==
  /\ phase # "visit" => stack = <<>>
  /\ Entry \in visited
  /\ \A i \in 1..Len(stack) : stack[i] \in visited
  /\ \A i \in 1..Len(reverse_post_order) :
       /\ reverse_post_order[i] \in visited
       /\ post_order_id[reverse_post_order[i]] = Len(reverse_post_order) - i
  /\ \A b \in visited :
       \/ \E i \in 1..Len(reverse_post_order) : reverse_post_order[i] = b
       \/ \E i \in 1..Len(stack) : stack[i] = b
  /\ \A i \in 1..Len(stack), j \in 1..Len(reverse_post_order) :
       stack[i] # reverse_post_order[j]
  /\ \A i, j \in 1..Len(stack) : stack[i] = stack[j] => i = j
  /\ \A i \in 1..Len(stack)-1 : stack[i+1] \in succ[stack[i]]
  /\ stack # <<>> => stack[1] = Entry
  /\ stack = <<>> => Len(reverse_post_order) >= 1 /\ reverse_post_order[1] = Entry
  /\ \A i \in 1..Len(reverse_post_order) :
       \/ reverse_post_order[i] = Entry
       \/ \E j \in 1..i-1 : reverse_post_order[i] \in succ[reverse_post_order[j]]
       \/ \E k \in 1..Len(stack) : reverse_post_order[i] \in succ[stack[k]]

\* b has a number and an idom.
Linked(b) ==
  /\ b \in Blocks
  /\ \E i \in 1..Len(reverse_post_order) : reverse_post_order[i] = b
  /\ idom[b] # NoBlock

\* b lies above the block in hand.
Above(b) == post_order_id[reverse_post_order[pos]] < post_order_id[b]

IdomInv ==
  /\ idom[NoBlock] = NoBlock
  /\ phase = "visit" => \A b \in Blocks : idom[b] = NoBlock
  /\ phase # "visit" => idom[Entry] = Entry
  /\ \A b \in Blocks : idom[b] # NoBlock => Linked(b) /\ Linked(idom[b])
  /\ IdomClimbs
  /\ phase \in {"scan", "merge", "climb"} =>
       \A i \in 1..Len(reverse_post_order) :
         i < pos => idom[reverse_post_order[i]] # NoBlock
  /\ phase \in {"merge", "climb"} =>
       /\ pos <= Len(reverse_post_order)
       /\ reverse_post_order[pos] # Entry
       /\ Linked(new_idom)
       /\ \A p \in left : Linked(p)
  /\ phase = "merge" => Above(new_idom) \/ \E p \in left : Above(p)
  /\ phase = "climb" =>
       /\ Linked(b1) /\ Linked(b2)
       /\ Above(b1) \/ Above(b2) \/ \E p \in left : Above(p)

IInv == TypeOK /\ VisitInv /\ IdomInv

-----------------------------------------------------------------------------
\* Returning from the innermost call of post_order_visit: what is left of the
\* call stack.
LEMMA PopProperties ==
  ASSUME NEW S, NEW s \in Seq(S), s # <<>>
  PROVE  /\ Len(s) \in Nat \ {0}
         /\ Last(s) \in S /\ Last(s) = s[Len(s)]
         /\ Front(s) \in Seq(S)
         /\ Len(Front(s)) = Len(s) - 1
         /\ \A i \in 1..Len(s)-1 : Front(s)[i] = s[i]
<1>1. Len(s) \in Nat \ {0} /\ \A i \in 1..Len(s) : s[i] \in S
  BY EmptySeq, LenProperties, ElementOfSeq
<1>2. \A i \in 1..Len(s)-1 : s[i] \in S
  BY <1>1
<1>3. /\ Front(s) \in Seq(S)
      /\ Len(Front(s)) = Len(s) - 1
      /\ \A i \in 1..Len(s)-1 : Front(s)[i] = s[i]
  <2>1. /\ SubSeq(s, 1, Len(s)-1) \in Seq(S)
        /\ Len(SubSeq(s, 1, Len(s)-1)) = IF 1 <= Len(s)-1 THEN (Len(s)-1)-1+1 ELSE 0
        /\ \A i \in 1..(Len(s)-1)-1+1 : SubSeq(s, 1, Len(s)-1)[i] = s[1+i-1]
    BY <1>1, <1>2, SubSeqProperties
  <2>2. /\ (IF 1 <= Len(s)-1 THEN (Len(s)-1)-1+1 ELSE 0) = Len(s) - 1
        /\ (Len(s)-1)-1+1 = Len(s) - 1
        /\ \A i \in 1..Len(s)-1 : 1+i-1 = i
    <3> DEFINE n == Len(s)
    <3>1. n \in Nat \ {0}
      BY <1>1
    <3> HIDE DEF n
    <3>2. /\ (IF 1 <= n-1 THEN (n-1)-1+1 ELSE 0) = n - 1
          /\ (n-1)-1+1 = n - 1
          /\ \A i \in 1..n-1 : 1+i-1 = i
      BY <3>1
    <3> QED
      BY <3>2 DEF n
  <2> QED
    BY <2>1, <2>2, Zenon DEF Front
<1> QED
  BY <1>1, <1>3 DEF Last

\* Putting a newly numbered block in front of the blocks numbered before.
LEMMA PushFrontProperties ==
  ASSUME NEW S, NEW s \in Seq(S), NEW x \in S
  PROVE  /\ <<x>> \o s \in Seq(S)
         /\ Len(s) \in Nat
         /\ Len(<<x>> \o s) = Len(s) + 1
         /\ (<<x>> \o s)[1] = x
         /\ \A i \in 2..Len(s)+1 : (<<x>> \o s)[i] = s[i-1]
<1>1. <<x>> \in Seq(S) /\ Len(<<x>>) = 1 /\ <<x>>[1] = x
  OBVIOUS
<1>2. Len(s) \in Nat
  BY LenProperties
<1>3. /\ <<x>> \o s \in Seq(S)
      /\ Len(<<x>> \o s) = 1 + Len(s)
      /\ \A i \in 1..1+Len(s) :
           (<<x>> \o s)[i] = IF i <= 1 THEN <<x>>[i] ELSE s[i-1]
  BY <1>1, ConcatProperties
<1> QED
  BY <1>1, <1>2, <1>3

-----------------------------------------------------------------------------
LEMMA InitType == Init => TypeOK
<1> SUFFICES ASSUME Init PROVE TypeOK
  OBVIOUS
<1> USE EntryAssumption DEF Init
<1>1. stack \in Seq(Blocks) /\ reverse_post_order \in Seq(Blocks) /\ visited \subseteq Blocks
  OBVIOUS
<1>2. /\ post_order_id \in [Blocks -> Nat]
      /\ idom \in [BlockOrNull -> BlockOrNull]
      /\ dom_frontier \in [BlockOrNull -> SUBSET Blocks]
      /\ dom_tree_succ \in [BlockOrNull -> SUBSET Blocks]
  BY DEF BlockOrNull
<1>3. changed \in BOOLEAN
  BY Zenon
<1>4. phase \in Phases /\ {new_idom, b1, b2, join, runner} \subseteq BlockOrNull
      /\ (phase = "walk" => join \in Blocks)
  BY DEF Phases, BlockOrNull
<1> QED
  BY <1>1, <1>2, <1>3, <1>4 DEF TypeOK

LEMMA NextType == TypeOK /\ [Next]_vars => TypeOK'
<1> SUFFICES ASSUME TypeOK, [Next]_vars
             PROVE  TypeOK'
  OBVIOUS
<1> USE EntryAssumption, NoBlockAssumption
<1>g. succ \in [Blocks -> SUBSET Blocks]
  BY GraphsAssumption DEF TypeOK, Graph
<1>1. ASSUME NEW b \in Blocks, Descend(b) PROVE TypeOK'
  <2>1. stack' \in Seq(Blocks)
    BY <1>1, AppendProperties DEF Descend, TypeOK
  <2> QED
    BY <1>1, <2>1 DEF Descend, TypeOK, idomVars, outVars
<1>2. CASE Number
  <2>1. Last(stack) \in Blocks /\ stack' \in Seq(Blocks)
    BY <1>2, PopProperties DEF Number, TypeOK
  <2>2. reverse_post_order' \in Seq(Blocks) /\ Len(reverse_post_order) \in Nat
    BY <1>2, <2>1, PushFrontProperties DEF Number, TypeOK
  <2>3. post_order_id' \in [Blocks -> Nat]
    BY <1>2, <2>1, <2>2 DEF Number, TypeOK
  <2> QED
    BY <1>2, <2>1, <2>2, <2>3 DEF Number, TypeOK, idomVars, outVars
<1>3. CASE StartIdom
  <2>1. idom' \in [BlockOrNull -> BlockOrNull]
    BY <1>3 DEF StartIdom, BlockOrNull
  <2>2. changed' \in BOOLEAN
    BY <1>3, Zenon DEF StartIdom
  <2> QED
    BY <1>3, <2>1, <2>2 DEF StartIdom, TypeOK, Phases, BlockOrNull, visitVars, outVars
<1>4. CASE SkipRoot
  BY <1>4 DEF SkipRoot, TypeOK, visitVars, outVars
<1>5. CASE PickPred
  BY <1>5 DEF PickPred, TypeOK, Phases, BlockOrNull, Ready, Preds, visitVars, outVars
<1>6. CASE CallIntersect
  BY <1>6 DEF CallIntersect, TypeOK, Phases, BlockOrNull, visitVars, outVars
<1>7. CASE Climb1
  BY <1>7 DEF Climb1, TypeOK, visitVars, outVars
<1>8. CASE Climb2
  BY <1>8 DEF Climb2, TypeOK, visitVars, outVars
<1>9. CASE ReturnIntersect
  BY <1>9 DEF ReturnIntersect, TypeOK, Phases, visitVars, outVars
<1>10. CASE SetIdom
  <2>1. idom' \in [BlockOrNull -> BlockOrNull]
    BY <1>10 DEF SetIdom, TypeOK
  <2> QED
    BY <1>10, <2>1 DEF SetIdom, TypeOK, Phases, visitVars, outVars
<1>11. CASE NextPass
  <2>1. changed' \in BOOLEAN /\ UNCHANGED <<succ, phase, visitVars, new_idom, left, b1, b2, idom, outVars>>
    BY <1>11, Zenon DEF NextPass
  <2>2. pos' \in Nat \ {0}
    BY <1>11 DEF NextPass
  <2> QED
    BY <2>1, <2>2 DEF TypeOK, visitVars, outVars
<1>12. CASE StartFrontier
  BY <1>12 DEF StartFrontier, TypeOK, Phases, Joins, visitVars, idomVars
<1>13. CASE StartWalk
  <2>1. (CHOOSE w \in walks : TRUE) \in walks
    BY <1>13 DEF StartWalk
  <2>2. runner' \in Blocks /\ join' \in Blocks
    BY <1>13, <2>1 DEF StartWalk, TypeOK
  <2> QED
    BY <1>13, <2>2 DEF StartWalk, TypeOK, Phases, BlockOrNull, visitVars, idomVars
<1>14. CASE Walk
  BY <1>14 DEF Walk, TypeOK, BlockOrNull, visitVars, idomVars
<1>15. CASE EndWalk
  BY <1>15 DEF EndWalk, TypeOK, Phases, visitVars, idomVars, outVars
<1>16. CASE CreateDomTreeSucc
  BY <1>16 DEF CreateDomTreeSucc, TypeOK, Phases, visitVars, idomVars
<1>17. CASE UNCHANGED vars
  BY <1>17 DEF vars, TypeOK, visitVars, idomVars, outVars, Scanning
<1> QED
  BY <1>1, <1>2, <1>3, <1>4, <1>5, <1>6, <1>7, <1>8, <1>9, <1>10, <1>11,
     <1>12, <1>13, <1>14, <1>15, <1>16, <1>17 DEF Next, Done

\* Types: every variable keeps its shape in every reachable state.
THEOREM TypeCorrect == Spec => []TypeOK
<1>1. Init => TypeOK
  BY InitType
<1>2. TypeOK /\ [Next]_vars => TypeOK'
  BY NextType
<1> QED
  BY <1>1, <1>2, PTL DEF Spec

-----------------------------------------------------------------------------
(* What the depth-first search establishes. *)

LEMMA InitVisit == Init => VisitInv
<1> SUFFICES ASSUME Init PROVE VisitInv
  OBVIOUS
<1>1. /\ phase = "visit" /\ visited = {Entry}
      /\ stack = <<Entry>> /\ Len(stack) = 1 /\ stack[1] = Entry /\ stack # <<>>
      /\ reverse_post_order = <<>> /\ Len(reverse_post_order) = 0
  BY DEF Init
<1> QED
  BY <1>1 DEF VisitInv

\* The search calls itself for b: the stack grows by an edge.
LEMMA DescendVisit ==
  ASSUME TypeOK, VisitInv, NEW b \in Blocks, Descend(b)
  PROVE  VisitInv'
<1>1. /\ b \notin visited /\ phase = "visit" /\ stack # <<>> /\ b \in succ[stack[Len(stack)]]
      /\ visited' = visited \cup {b}
      /\ UNCHANGED <<succ, phase, reverse_post_order, post_order_id>>
  BY DEF Descend, Last
<1>2. /\ Len(stack) \in Nat \ {0}
      /\ stack' # <<>> /\ Len(stack') = Len(stack) + 1
      /\ \A i \in 1..Len(stack) : stack'[i] = stack[i]
      /\ stack'[Len(stack)+1] = b
  <2>1. stack \in Seq(Blocks) /\ stack' = Append(stack, b) /\ stack # <<>>
    BY <1>1 DEF Descend, TypeOK
  <2>2. /\ Append(stack, b) # <<>>
        /\ Len(Append(stack, b)) = Len(stack) + 1
        /\ \A i \in 1..Len(stack) : Append(stack, b)[i] = stack[i]
        /\ Append(stack, b)[Len(stack)+1] = b
    BY <2>1, AppendProperties
  <2>3. Len(stack) \in Nat \ {0}
    BY <2>1, EmptySeq, LenProperties
  <2> QED
    BY <2>1, <2>2, <2>3
<1>3. Len(reverse_post_order) \in Nat
  BY LenProperties DEF TypeOK
<1>4. \A i \in 1..Len(stack') : i \in 1..Len(stack) \/ i = Len(stack) + 1
  BY <1>2
<1>5. /\ phase' # "visit" => stack' = <<>>
      /\ Entry \in visited'
      /\ stack' # <<>> => stack'[1] = Entry
      /\ stack' = <<>> => Len(reverse_post_order') >= 1 /\ reverse_post_order'[1] = Entry
  BY <1>1, <1>2 DEF VisitInv
<1>6. \A i \in 1..Len(stack') : stack'[i] \in visited'
  BY <1>1, <1>2, <1>4 DEF VisitInv
<1>7. \A i \in 1..Len(reverse_post_order') :
         /\ reverse_post_order'[i] \in visited'
         /\ post_order_id'[reverse_post_order'[i]] = Len(reverse_post_order') - i
  BY <1>1 DEF VisitInv
<1>8. \A x \in visited' :
         \/ \E i \in 1..Len(reverse_post_order') : reverse_post_order'[i] = x
         \/ \E i \in 1..Len(stack') : stack'[i] = x
  <2> SUFFICES ASSUME NEW x \in visited'
               PROVE  \/ \E i \in 1..Len(reverse_post_order') : reverse_post_order'[i] = x
                      \/ \E i \in 1..Len(stack') : stack'[i] = x
    OBVIOUS
  <2>1. CASE x = b
    BY <2>1, <1>2
  <2>2. CASE x \in visited
    BY <2>2, <1>1, <1>2 DEF VisitInv
  <2> QED
    BY <2>1, <2>2, <1>1
<1>9. \A i \in 1..Len(stack'), j \in 1..Len(reverse_post_order') :
         stack'[i] # reverse_post_order'[j]
  BY <1>1, <1>2, <1>4 DEF VisitInv
<1>10. \A i, j \in 1..Len(stack') : stack'[i] = stack'[j] => i = j
  BY <1>1, <1>2, <1>4 DEF VisitInv
<1>11. \A i \in 1..Len(stack')-1 : stack'[i+1] \in succ'[stack'[i]]
  <2> SUFFICES ASSUME NEW i \in 1..Len(stack')-1 PROVE stack'[i+1] \in succ'[stack'[i]]
    OBVIOUS
  <2>1. CASE i = Len(stack)
    BY <2>1, <1>1, <1>2
  <2>2. CASE i \in 1..Len(stack)-1
    BY <2>2, <1>1, <1>2 DEF VisitInv
  <2> QED
    BY <2>1, <2>2, <1>2
<1>12. \A i \in 1..Len(reverse_post_order') :
         \/ reverse_post_order'[i] = Entry
         \/ \E j \in 1..i-1 : reverse_post_order'[i] \in succ'[reverse_post_order'[j]]
         \/ \E k \in 1..Len(stack') : reverse_post_order'[i] \in succ'[stack'[k]]
  <2>1. \A k \in 1..Len(stack) : k \in 1..Len(stack') /\ stack'[k] = stack[k]
    BY <1>2
  <2> QED
    BY <1>1, <2>1 DEF VisitInv
<1> QED
  BY <1>5, <1>6, <1>7, <1>8, <1>9, <1>10, <1>11, <1>12 DEF VisitInv

\* The search returns from bb: bb leaves the stack and becomes the first of
\* the reversed post order, so its stack predecessor still covers it.
LEMMA NumberVisit ==
  ASSUME TypeOK, VisitInv, Number
  PROVE  VisitInv'
<1> DEFINE bb == Last(stack)
           m == Len(stack)
           n == Len(reverse_post_order)
<1>1. /\ m \in Nat \ {0} /\ bb \in Blocks /\ bb = stack[m]
      /\ Len(stack') = m - 1
      /\ \A i \in 1..m-1 : stack'[i] = stack[i]
      /\ stack' \in Seq(Blocks)
  BY PopProperties DEF Number, TypeOK
<1>2. /\ n \in Nat /\ Len(reverse_post_order') = n + 1
      /\ reverse_post_order'[1] = bb
      /\ \A i \in 2..n+1 : reverse_post_order'[i] = reverse_post_order[i-1]
  BY <1>1, PushFrontProperties DEF Number, TypeOK
<1>3. /\ phase = "visit" /\ stack # <<>>
      /\ post_order_id' = [post_order_id EXCEPT ![bb] = n]
      /\ UNCHANGED <<succ, phase, visited>>
  BY DEF Number
<1>4. post_order_id \in [Blocks -> Nat]
  BY DEF TypeOK
<1>5. \A i \in 1..n : reverse_post_order[i] \in Blocks /\ reverse_post_order[i] # bb
  <2>1. \A i \in 1..n : reverse_post_order[i] \in Blocks
    BY ElementOfSeq DEF TypeOK
  <2>2. m \in 1..m
    BY <1>1
  <2>3. \A i \in 1..n : stack[m] # reverse_post_order[i]
    BY <2>2 DEF VisitInv
  <2> QED
    BY <2>1, <2>3, <1>1
<1>6. \A i \in 1..n+1 : i = 1 \/ (i \in 2..n+1 /\ i-1 \in 1..n)
  BY <1>2
<1>7. \A i \in 1..m-1 : i \in 1..m
  BY <1>1
<1>8. stack' # <<>> => m-1 \in Nat \ {0}
  BY <1>1, EmptySeq
<1>9. stack' = <<>> => m = 1
  BY <1>1
<1> HIDE DEF bb, m, n
<1>10. /\ phase' # "visit" => stack' = <<>>
       /\ Entry \in visited'
       /\ \A i \in 1..Len(stack') : stack'[i] \in visited'
  BY <1>1, <1>3, <1>7 DEF VisitInv, m
<1>11. \A i \in 1..Len(reverse_post_order') :
         /\ reverse_post_order'[i] \in visited'
         /\ post_order_id'[reverse_post_order'[i]] = Len(reverse_post_order') - i
  <2> SUFFICES ASSUME NEW i \in 1..n+1
               PROVE  /\ reverse_post_order'[i] \in visited'
                      /\ post_order_id'[reverse_post_order'[i]] = n + 1 - i
    BY <1>2
  <2>1. CASE i = 1
    BY <2>1, <1>1, <1>2, <1>3, <1>4 DEF VisitInv, m
  <2>2. CASE i \in 2..n+1 /\ i-1 \in 1..n
    <3>1. /\ reverse_post_order[i-1] \in visited
          /\ post_order_id[reverse_post_order[i-1]] = n - (i-1)
      BY <2>2 DEF VisitInv, n
    <3>2. post_order_id'[reverse_post_order[i-1]] = post_order_id[reverse_post_order[i-1]]
      BY <2>2, <1>3, <1>4, <1>5
    <3>3. n - (i-1) = n + 1 - i
      BY <1>2, <2>2
    <3> QED
      BY <2>2, <1>2, <1>3, <3>1, <3>2, <3>3
  <2> QED
    BY <2>1, <2>2, <1>6
<1>12. \A x \in visited' :
         \/ \E i \in 1..Len(reverse_post_order') : reverse_post_order'[i] = x
         \/ \E i \in 1..Len(stack') : stack'[i] = x
  <2> SUFFICES ASSUME NEW x \in visited
               PROVE  \/ \E i \in 1..n+1 : reverse_post_order'[i] = x
                      \/ \E i \in 1..m-1 : stack'[i] = x
    BY <1>1, <1>2, <1>3
  <2>1. CASE \E i \in 1..n : reverse_post_order[i] = x
    <3>1. PICK i \in 1..n : reverse_post_order[i] = x
      BY <2>1
    <3>2. i+1 \in 2..n+1 /\ i+1 \in 1..n+1 /\ (i+1)-1 = i
      BY <1>2
    <3> QED
      BY <3>1, <3>2, <1>2
  <2>2. CASE \E i \in 1..m : stack[i] = x
    <3>1. PICK i \in 1..m : stack[i] = x
      BY <2>2
    <3>2. CASE i = m
      BY <3>1, <3>2, <1>1, <1>2
    <3>3. CASE i \in 1..m-1
      BY <3>1, <3>3, <1>1
    <3> QED
      BY <3>1, <3>2, <3>3, <1>1
  <2> QED
    BY <2>1, <2>2 DEF VisitInv, m, n
<1>13. \A i \in 1..Len(stack'), j \in 1..Len(reverse_post_order') :
         stack'[i] # reverse_post_order'[j]
  <2> SUFFICES ASSUME NEW i \in 1..m-1, NEW j \in 1..n+1
               PROVE  stack[i] # reverse_post_order'[j]
    BY <1>1, <1>2
  <2>1. CASE j = 1
    <3>1. i \in 1..m /\ m \in 1..m /\ i # m
      BY <1>1
    <3> QED
      BY <2>1, <3>1, <1>1, <1>2 DEF VisitInv, m
  <2>2. CASE j \in 2..n+1 /\ j-1 \in 1..n
    BY <2>2, <1>2, <1>7 DEF VisitInv, m, n
  <2> QED
    BY <2>1, <2>2, <1>6
<1>14. \A i, j \in 1..Len(stack') : stack'[i] = stack'[j] => i = j
  <2> SUFFICES ASSUME NEW i \in 1..m-1, NEW j \in 1..m-1, stack[i] = stack[j]
               PROVE  i = j
    BY <1>1
  <2>1. i \in 1..m /\ j \in 1..m
    BY <1>7
  <2> QED
    BY <2>1 DEF VisitInv, m
<1>15. \A i \in 1..Len(stack')-1 : stack'[i+1] \in succ'[stack'[i]]
  <2> SUFFICES ASSUME NEW i \in 1..m-1-1 PROVE stack[i+1] \in succ[stack[i]]
    BY <1>1, <1>3
  <2>1. i \in 1..m-1
    BY <1>1
  <2> QED
    BY <2>1 DEF VisitInv, m
<1>16. /\ stack' # <<>> => stack'[1] = Entry
       /\ stack' = <<>> => Len(reverse_post_order') >= 1 /\ reverse_post_order'[1] = Entry
  <2>1. stack[1] = Entry
    BY <1>3 DEF VisitInv
  <2> QED
    BY <2>1, <1>1, <1>2, <1>8, <1>9
<1>17. \A i \in 1..Len(reverse_post_order') :
         \/ reverse_post_order'[i] = Entry
         \/ \E j \in 1..i-1 : reverse_post_order'[i] \in succ'[reverse_post_order'[j]]
         \/ \E k \in 1..Len(stack') : reverse_post_order'[i] \in succ'[stack'[k]]
  <2> SUFFICES ASSUME NEW i \in 1..n+1, reverse_post_order'[i] # Entry
               PROVE  \/ \E j \in 1..i-1 : reverse_post_order'[i] \in succ[reverse_post_order'[j]]
                      \/ \E k \in 1..m-1 : reverse_post_order'[i] \in succ[stack[k]]
    BY <1>1, <1>2, <1>3
  <2>1. CASE i = 1
    <3>1. m # 1
      BY <2>1, <1>1, <1>2, <1>3 DEF VisitInv
    <3>2. m-1 \in 1..m-1 /\ (m-1)+1 = m
      BY <3>1, <1>1
    <3>3. stack[(m-1)+1] \in succ[stack[m-1]]
      BY <3>2 DEF VisitInv, m
    <3> QED
      BY <2>1, <3>2, <3>3, <1>1, <1>2
  <2>2. CASE i \in 2..n+1 /\ i-1 \in 1..n
    <3>1. reverse_post_order'[i] = reverse_post_order[i-1]
      BY <2>2, <1>2
    <3>2. \/ \E j \in 1..(i-1)-1 : reverse_post_order[i-1] \in succ[reverse_post_order[j]]
          \/ \E k \in 1..m : reverse_post_order[i-1] \in succ[stack[k]]
      BY <2>2, <3>1 DEF VisitInv, m, n
    <3>3. CASE \E j \in 1..(i-1)-1 : reverse_post_order[i-1] \in succ[reverse_post_order[j]]
      <4>1. PICK j \in 1..(i-1)-1 : reverse_post_order[i-1] \in succ[reverse_post_order[j]]
        BY <3>3
      <4>2. j+1 \in 1..i-1 /\ j+1 \in 2..n+1 /\ (j+1)-1 = j
        BY <1>2, <2>2
      <4> QED
        BY <4>1, <4>2, <3>1, <1>2
    <3>4. CASE \E k \in 1..m : reverse_post_order[i-1] \in succ[stack[k]]
      <4>1. PICK k \in 1..m : reverse_post_order[i-1] \in succ[stack[k]]
        BY <3>4
      <4>2. CASE k = m
        <5>1. 1 \in 1..i-1
          BY <2>2, <1>2
        <5> QED
          BY <4>1, <4>2, <5>1, <3>1, <1>1, <1>2
      <4>3. CASE k \in 1..m-1
        BY <4>1, <4>3, <3>1
      <4> QED
        BY <4>1, <4>2, <4>3, <1>1
    <3> QED
      BY <3>2, <3>3, <3>4
  <2> QED
    BY <2>1, <2>2, <1>6
<1> QED
  BY <1>10, <1>11, <1>12, <1>13, <1>14, <1>15, <1>16, <1>17 DEF VisitInv

\* No other action touches what the search has built.
LEMMA NextVisit ==
  ASSUME TypeOK, VisitInv, [Next]_vars
  PROVE  VisitInv'
<1>1. CASE \E b \in Blocks : Descend(b)
  BY <1>1, DescendVisit
<1>2. CASE Number
  BY <1>2, NumberVisit
<1>3. CASE /\ UNCHANGED <<succ, visited, stack, reverse_post_order, post_order_id>>
           /\ phase' # "visit" => phase # "visit" \/ stack = <<>>
  BY <1>3 DEF VisitInv
<1>4. CASE StartIdom
  BY <1>3, <1>4 DEF StartIdom, visitVars
<1>5. CASE SkipRoot \/ PickPred \/ CallIntersect \/ SetIdom
  BY <1>3, <1>5 DEF SkipRoot, PickPred, CallIntersect, SetIdom, Scanning, visitVars
<1>6. CASE Climb1 \/ Climb2 \/ ReturnIntersect \/ NextPass
  BY <1>3, <1>6 DEF Climb1, Climb2, ReturnIntersect, NextPass, visitVars
<1>7. CASE StartFrontier \/ StartWalk \/ Walk \/ EndWalk \/ CreateDomTreeSucc
  BY <1>3, <1>7 DEF StartFrontier, StartWalk, Walk, EndWalk, CreateDomTreeSucc, visitVars
<1>8. CASE UNCHANGED vars
  BY <1>3, <1>8 DEF vars, visitVars
<1> QED
  BY <1>1, <1>2, <1>4, <1>5, <1>6, <1>7, <1>8 DEF Next, Done

-----------------------------------------------------------------------------
(* What create_idom may rely on once the search has returned. *)

Numbered == {b \in Blocks : \E i \in 1..Len(reverse_post_order) : reverse_post_order[i] = b}

\* No two numbered blocks share a number, and the root's is the highest.
LEMMA NumbersOrder ==
  ASSUME TypeOK, VisitInv
  PROVE  /\ \A x, y \in Numbered : post_order_id[x] = post_order_id[y] => x = y
         /\ \A x \in Numbered : post_order_id[x] \in Nat
         /\ phase # "visit" =>
              \A x \in Numbered \ {Entry} : post_order_id[x] < post_order_id[Entry]
<1>1. Len(reverse_post_order) \in Nat
  BY LenProperties DEF TypeOK
<1>2. ASSUME NEW x \in Numbered, NEW y \in Numbered, post_order_id[x] = post_order_id[y]
      PROVE  x = y
  <2>1. PICK i \in 1..Len(reverse_post_order) : reverse_post_order[i] = x
    BY DEF Numbered
  <2>2. PICK j \in 1..Len(reverse_post_order) : reverse_post_order[j] = y
    BY DEF Numbered
  <2>3. /\ post_order_id[x] = Len(reverse_post_order) - i
        /\ post_order_id[y] = Len(reverse_post_order) - j
    BY <2>1, <2>2 DEF VisitInv
  <2>4. Len(reverse_post_order) - i = Len(reverse_post_order) - j
    BY <1>2, <2>3
  <2>5. i = j
    BY <1>1, <2>4
  <2> QED
    BY <2>1, <2>2, <2>5
<1>3. \A x \in Numbered : post_order_id[x] \in Nat
  BY DEF Numbered, TypeOK
<1>4. ASSUME phase # "visit", NEW x \in Numbered \ {Entry}
      PROVE  post_order_id[x] < post_order_id[Entry]
  <2>1. PICK i \in 1..Len(reverse_post_order) : reverse_post_order[i] = x
    BY DEF Numbered
  <2>2. Len(reverse_post_order) >= 1 /\ reverse_post_order[1] = Entry
    BY <1>4 DEF VisitInv
  <2>3. /\ post_order_id[x] = Len(reverse_post_order) - i
        /\ post_order_id[Entry] = Len(reverse_post_order) - 1
    BY <2>1, <2>2, <1>1 DEF VisitInv
  <2>4. i # 1
    BY <2>1, <2>2
  <2> QED
    BY <1>1, <2>1, <2>3, <2>4
<1> QED
  BY <1>2, <1>3, <1>4

\* A numbered block other than the root has a predecessor earlier in the
\* reversed post order, which has a higher number.
LEMMA EarlierPred ==
  ASSUME TypeOK, VisitInv, phase # "visit",
         NEW i \in 1..Len(reverse_post_order), reverse_post_order[i] # Entry
  PROVE  \E j \in 1..Len(reverse_post_order) :
           /\ j < i
           /\ reverse_post_order[i] \in succ[reverse_post_order[j]]
           /\ reverse_post_order[j] \in Numbered
           /\ post_order_id[reverse_post_order[i]] < post_order_id[reverse_post_order[j]]
<1>1. Len(reverse_post_order) \in Nat
  BY LenProperties DEF TypeOK
<1>2. stack = <<>> /\ Len(stack) = 0
  BY DEF VisitInv
<1>3. PICK j \in 1..i-1 : reverse_post_order[i] \in succ[reverse_post_order[j]]
  BY <1>2 DEF VisitInv
<1>4. j \in 1..Len(reverse_post_order) /\ j < i
  BY <1>1
<1>5. /\ post_order_id[reverse_post_order[i]] = Len(reverse_post_order) - i
      /\ post_order_id[reverse_post_order[j]] = Len(reverse_post_order) - j
  BY <1>4 DEF VisitInv
<1>6. reverse_post_order[j] \in Numbered
  BY <1>4, ElementOfSeq DEF Numbered, TypeOK
<1> QED
  BY <1>1, <1>3, <1>4, <1>5, <1>6

\* A linked block below another one is not the root, so its idom is linked
\* and strictly higher: the step of intersect.
LEMMA ClimbStep ==
  ASSUME TypeOK, VisitInv, IdomInv, phase # "visit",
         NEW x, NEW y, Linked(x), Linked(y), post_order_id[x] < post_order_id[y]
  PROVE  /\ Linked(idom[x])
         /\ post_order_id[x] \in Nat /\ post_order_id[idom[x]] \in Nat
         /\ post_order_id[x] < post_order_id[idom[x]]
<1>1. x \in Numbered /\ y \in Numbered
  BY DEF Linked, Numbered
<1>2. x # Entry
  <2>1. SUFFICES ASSUME x = Entry PROVE FALSE
    OBVIOUS
  <2>2. y # x
    BY <1>1, NumbersOrder
  <2>3. post_order_id[y] < post_order_id[x]
    BY <1>1, <2>1, <2>2, NumbersOrder
  <2> QED
    BY <1>1, <2>3, NumbersOrder
<1>3. Linked(idom[x])
  BY DEF Linked, IdomInv
<1>4. post_order_id[x] < post_order_id[idom[x]]
  BY <1>2 DEF Linked, IdomInv, IdomClimbs
<1> QED
  BY <1>1, <1>3, <1>4, NumbersOrder DEF Linked, Numbered

-----------------------------------------------------------------------------
(* The iteration itself, one lemma per group of actions. *)

LEMMA InitIdom == Init => IdomInv
<1> SUFFICES ASSUME Init PROVE IdomInv
  OBVIOUS
<1>1. phase = "visit" /\ \A b \in BlockOrNull : idom[b] = NoBlock
  BY DEF Init
<1>2. NoBlock \in BlockOrNull /\ Blocks \subseteq BlockOrNull
  BY DEF BlockOrNull
<1> QED
  BY <1>1, <1>2 DEF IdomInv, IdomClimbs

LEMMA VisitIdom ==
  ASSUME TypeOK, VisitInv, IdomInv, Number \/ \E b \in Blocks : Descend(b)
  PROVE  IdomInv'
<1>1. phase = "visit" /\ phase' = "visit" /\ idom' = idom
  BY DEF Number, Descend, idomVars
<1>2. idom[NoBlock] = NoBlock /\ \A b \in Blocks : idom[b] = NoBlock
  BY <1>1 DEF IdomInv
<1> QED
  BY <1>1, <1>2 DEF IdomInv, IdomClimbs

LEMMA StartIdomIdom ==
  ASSUME TypeOK, VisitInv, IdomInv, StartIdom
  PROVE  IdomInv'
<1>1. /\ phase' = "scan" /\ pos' = 1
      /\ \A b \in BlockOrNull : idom'[b] = IF b = Entry THEN Entry ELSE NoBlock
      /\ reverse_post_order' = reverse_post_order
  BY DEF StartIdom, visitVars
<1>2. 1 \in 1..Len(reverse_post_order) /\ reverse_post_order[1] = Entry
  <2>1. Len(reverse_post_order) \in Nat
    BY LenProperties DEF TypeOK
  <2> QED
    BY <2>1 DEF StartIdom, VisitInv
<1>3. NoBlock \in BlockOrNull /\ Blocks \subseteq BlockOrNull /\ NoBlock # Entry /\ Entry \in Blocks
  BY EntryAssumption, NoBlockAssumption DEF BlockOrNull
<1>4. Linked(Entry)'
  BY <1>1, <1>2, <1>3 DEF Linked
<1>5. \A b \in Blocks : idom'[b] # NoBlock => b = Entry /\ idom'[b] = Entry
  BY <1>1, <1>3
<1>6. \A i \in 1..Len(reverse_post_order') : ~(i < pos')
  BY <1>1
<1> QED
  BY <1>1, <1>3, <1>4, <1>5, <1>6 DEF IdomInv, IdomClimbs

\* What no action after StartIdom but SetIdom disturbs.
IdomKept ==
  /\ phase # "visit" /\ phase' # "visit"
  /\ UNCHANGED <<succ, reverse_post_order, post_order_id, idom>>

LEMMA KeptIdom ==
  ASSUME IdomInv, IdomKept
  PROVE  /\ idom'[NoBlock] = NoBlock
         /\ phase' = "visit" => \A b \in Blocks : idom'[b] = NoBlock
         /\ phase' # "visit" => idom'[Entry] = Entry
         /\ \A b \in Blocks : idom'[b] # NoBlock => Linked(b)' /\ Linked(idom[b])'
         /\ IdomClimbs'
         /\ \A x : Linked(x)' <=> Linked(x)
  BY DEF IdomInv, IdomKept, IdomClimbs, Linked

LEMMA ScanIdom ==
  ASSUME TypeOK, VisitInv, IdomInv, SkipRoot \/ NextPass
  PROVE  IdomInv'
<1>1. IdomKept /\ phase = "scan" /\ phase' = "scan"
  BY DEF IdomKept, SkipRoot, NextPass, Scanning, visitVars
<1>2. pos \in Nat /\ Len(reverse_post_order) \in Nat
  BY LenProperties DEF TypeOK
<1>3. ASSUME NEW i \in 1..Len(reverse_post_order), i < pos'
      PROVE  idom[reverse_post_order[i]] # NoBlock
  <2>1. CASE SkipRoot
    <3>1. pos' = pos + 1 /\ reverse_post_order[pos] = Entry
      BY <2>1 DEF SkipRoot
    <3>2. i < pos \/ i = pos
      BY <1>2, <1>3, <3>1
    <3>3. idom[Entry] # NoBlock
      BY <1>1, EntryAssumption, NoBlockAssumption DEF IdomInv
    <3> QED
      BY <1>1, <3>1, <3>2, <3>3 DEF IdomInv
  <2>2. CASE NextPass
    BY <1>3, <2>2 DEF NextPass
  <2> QED
    BY <2>1, <2>2
<1> QED
  BY <1>1, <1>3, KeptIdom DEF IdomInv, IdomKept

LEMMA PickPredIdom ==
  ASSUME TypeOK, VisitInv, IdomInv, PickPred
  PROVE  IdomInv'
<1> DEFINE bb == reverse_post_order[pos]
<1>1. /\ IdomKept /\ phase = "scan" /\ phase' = "merge"
      /\ UNCHANGED pos /\ pos <= Len(reverse_post_order) /\ bb # Entry
  BY DEF IdomKept, PickPred, Scanning, visitVars
<1>2. pos \in 1..Len(reverse_post_order)
  BY <1>1, LenProperties DEF TypeOK
<1>3. PICK p \in Ready(bb) : new_idom' = p /\ left' = Ready(bb) \ {p}
  BY DEF PickPred
<1>4. \A q \in Ready(bb) : Linked(q)
  BY DEF Ready, Preds, IdomInv
<1>5. PICK j \in 1..Len(reverse_post_order) :
        /\ j < pos
        /\ bb \in succ[reverse_post_order[j]]
        /\ reverse_post_order[j] \in Numbered
        /\ post_order_id[bb] < post_order_id[reverse_post_order[j]]
  BY <1>1, <1>2, EarlierPred
<1>6. PICK higher \in Ready(bb) : post_order_id[bb] < post_order_id[higher]
  BY <1>1, <1>5 DEF Ready, Preds, IdomInv, Numbered
<1>7. Above(higher)'
  BY <1>1, <1>6 DEF Above, IdomKept
<1>8. Above(new_idom)' \/ \E q \in left' : Above(q)'
  <2>1. CASE higher = p
    BY <1>1, <1>3, <1>6, <2>1 DEF Above, IdomKept
  <2>2. CASE higher # p
    BY <1>3, <1>6, <1>7, <2>2
  <2> QED
    BY <2>1, <2>2
<1>9. Linked(new_idom') /\ \A q \in left' : Linked(q)
  BY <1>3, <1>4
<1>10. Linked(new_idom)' /\ \A q \in left' : Linked(q)'
  BY <1>1, <1>9 DEF Linked, IdomKept
<1>11. \A i \in 1..Len(reverse_post_order') :
         i < pos' => idom'[reverse_post_order'[i]] # NoBlock
  BY <1>1 DEF IdomInv, IdomKept
<1>12. pos' <= Len(reverse_post_order') /\ reverse_post_order'[pos'] # Entry
  BY <1>1 DEF IdomKept
<1> QED
  BY <1>1, <1>8, <1>10, <1>11, <1>12, KeptIdom DEF IdomInv

\* intersect: the blocks in hand stay linked, and none moves down.
LEMMA IntersectIdom ==
  ASSUME TypeOK, VisitInv, IdomInv,
         CallIntersect \/ Climb1 \/ Climb2 \/ ReturnIntersect
  PROVE  IdomInv'
<1> DEFINE bb == reverse_post_order[pos]
<1>1. /\ IdomKept /\ phase \in {"merge", "climb"} /\ phase' \in {"merge", "climb"}
      /\ UNCHANGED pos /\ bb # Entry
      /\ pos <= Len(reverse_post_order)
  BY DEF IdomKept, CallIntersect, Climb1, Climb2, ReturnIntersect, visitVars, IdomInv
<1>2. /\ \A i \in 1..Len(reverse_post_order') :
            i < pos' => idom'[reverse_post_order'[i]] # NoBlock
      /\ pos' <= Len(reverse_post_order') /\ reverse_post_order'[pos'] # Entry
  BY <1>1 DEF IdomInv, IdomKept
<1>3. Linked(new_idom) /\ \A q \in left : Linked(q)
  BY <1>1 DEF IdomInv
<1>4. \A x : (Linked(x)' <=> Linked(x)) /\ (Above(x)' <=> Above(x))
  BY <1>1 DEF Linked, Above, IdomKept
<1>5. SUFFICES /\ Linked(new_idom') /\ \A q \in left' : Linked(q)
               /\ phase' = "merge" => Above(new_idom') \/ \E q \in left' : Above(q)
               /\ phase' = "climb" =>
                    /\ Linked(b1') /\ Linked(b2')
                    /\ Above(b1') \/ Above(b2') \/ \E q \in left' : Above(q)
  <2>1. /\ Linked(new_idom)' /\ \A q \in left' : Linked(q)'
        /\ phase' = "merge" => Above(new_idom)' \/ \E q \in left' : Above(q)'
        /\ phase' = "climb" =>
             /\ Linked(b1)' /\ Linked(b2)'
             /\ Above(b1)' \/ Above(b2)' \/ \E q \in left' : Above(q)'
    BY <1>1, <1>5 DEF Linked, Above, IdomKept
  <2> QED
    BY <1>1, <1>2, <2>1, KeptIdom DEF IdomInv
<1>6. CASE CallIntersect
  <2>1. PICK p \in left : left' = left \ {p} /\ b1' = p
    BY <1>6 DEF CallIntersect
  <2>2. b2' = new_idom /\ new_idom' = new_idom /\ phase = "merge" /\ phase' = "climb"
    BY <1>6 DEF CallIntersect
  <2> QED
    BY <1>3, <2>1, <2>2 DEF IdomInv
<1>7. CASE ReturnIntersect
  <2>1. /\ b1 = b2 /\ new_idom' = b1 /\ left' = left
        /\ phase = "climb" /\ phase' = "merge"
    BY <1>7 DEF ReturnIntersect
  <2> QED
    BY <1>3, <2>1 DEF IdomInv
<1>8. bb \in Blocks /\ post_order_id[bb] \in Nat
  <2>1. pos \in 1..Len(reverse_post_order)
    BY <1>1, LenProperties DEF TypeOK
  <2> QED
    BY <2>1, ElementOfSeq DEF TypeOK
<1>9. CASE Climb1
  <2>1. /\ b1' = idom[b1] /\ b2' = b2 /\ new_idom' = new_idom /\ left' = left
        /\ phase = "climb" /\ phase' = "climb"
        /\ post_order_id[b1] < post_order_id[b2]
    BY <1>9 DEF Climb1
  <2>2. Linked(b1) /\ Linked(b2)
    BY <2>1 DEF IdomInv
  <2>3. /\ Linked(idom[b1])
        /\ post_order_id[b1] \in Nat /\ post_order_id[idom[b1]] \in Nat
        /\ post_order_id[b1] < post_order_id[idom[b1]]
    BY <2>1, <2>2, ClimbStep
  <2>4. Above(b1) => Above(b1')
    BY <1>8, <2>1, <2>3 DEF Above
  <2> QED
    BY <1>3, <2>1, <2>2, <2>3, <2>4 DEF IdomInv
<1>10. CASE Climb2
  <2>1. /\ b2' = idom[b2] /\ b1' = b1 /\ new_idom' = new_idom /\ left' = left
        /\ phase = "climb" /\ phase' = "climb"
        /\ post_order_id[b2] < post_order_id[b1]
    BY <1>10 DEF Climb2
  <2>2. Linked(b1) /\ Linked(b2)
    BY <2>1 DEF IdomInv
  <2>3. /\ Linked(idom[b2])
        /\ post_order_id[b2] \in Nat /\ post_order_id[idom[b2]] \in Nat
        /\ post_order_id[b2] < post_order_id[idom[b2]]
    BY <2>1, <2>2, ClimbStep
  <2>4. Above(b2) => Above(b2')
    BY <1>8, <2>1, <2>3 DEF Above
  <2> QED
    BY <1>3, <2>1, <2>2, <2>3, <2>4 DEF IdomInv
<1> QED
  BY <1>6, <1>7, <1>9, <1>10

\* The link that SetIdom writes leads up, because no predecessor is left that
\* could be the one above the block in hand.
LEMMA SetIdomIdom ==
  ASSUME TypeOK, VisitInv, IdomInv, SetIdom
  PROVE  IdomInv'
<1> DEFINE bb == reverse_post_order[pos]
<1>1. /\ phase = "merge" /\ phase' = "scan" /\ left = {} /\ pos' = pos + 1
      /\ idom' = [idom EXCEPT ![bb] = new_idom]
      /\ UNCHANGED <<succ, reverse_post_order, post_order_id>>
  BY DEF SetIdom, visitVars
<1>2. /\ pos \in 1..Len(reverse_post_order) /\ bb \in Blocks /\ bb # Entry
      /\ Len(reverse_post_order) \in Nat
  <2>1. pos \in 1..Len(reverse_post_order) /\ Len(reverse_post_order) \in Nat
    BY <1>1, LenProperties DEF TypeOK, IdomInv
  <2> QED
    BY <1>1, <2>1, ElementOfSeq DEF TypeOK, IdomInv
<1>3. Linked(new_idom) /\ post_order_id[bb] < post_order_id[new_idom]
  BY <1>1 DEF IdomInv, Above
<1>4. bb \in Numbered /\ new_idom \in Numbered
  BY <1>2, <1>3 DEF Numbered, Linked
<1>5. new_idom # bb /\ new_idom # NoBlock
  <2>1. ~(post_order_id[bb] < post_order_id[bb])
    BY <1>4, NumbersOrder
  <2> QED
    BY <1>3, <2>1, NoBlockAssumption DEF Linked
<1>6. idom \in [BlockOrNull -> BlockOrNull] /\ bb \in BlockOrNull /\ bb # NoBlock
      /\ NoBlock \in BlockOrNull /\ Entry \in BlockOrNull
  BY <1>2, NoBlockAssumption, EntryAssumption DEF TypeOK, BlockOrNull
<1>7. \A x \in BlockOrNull : idom'[x] = IF x = bb THEN new_idom ELSE idom[x]
  BY <1>1, <1>6
<1>8. \A x : Linked(x) => Linked(x)'
  <2> SUFFICES ASSUME NEW x, Linked(x) PROVE Linked(x)'
    OBVIOUS
  <2>1. x \in BlockOrNull
    BY DEF Linked, BlockOrNull
  <2> QED
    BY <1>1, <1>5, <1>7, <2>1 DEF Linked
<1>9. idom'[bb] = new_idom /\ reverse_post_order'[pos] = bb
  BY <1>1, <1>6, <1>7
<1>10. \A x \in Blocks : idom'[x] # NoBlock => Linked(x)' /\ Linked(idom[x])'
  <2> SUFFICES ASSUME NEW x \in Blocks, idom'[x] # NoBlock
               PROVE  Linked(x)' /\ Linked(idom[x])'
    OBVIOUS
  <2>1. CASE x = bb
    <3>1. idom'[x] = new_idom
      BY <2>1, <1>6, <1>7
    <3>2. Linked(new_idom) => Linked(idom[x])'
      BY <1>1, <1>5, <1>7, <3>1 DEF Linked, BlockOrNull
    <3>3. Linked(x)'
      BY <2>1, <1>1, <1>2, <1>5, <1>9 DEF Linked
    <3> QED
      BY <1>3, <3>2, <3>3
  <2>2. CASE x # bb
    <3>1. idom'[x] = idom[x] /\ idom[x] # NoBlock
      BY <2>2, <1>7 DEF BlockOrNull
    <3>2. Linked(x) /\ Linked(idom[x])
      BY <3>1 DEF IdomInv
    <3>3. Linked(idom[x])'
      BY <1>1, <1>5, <1>7, <3>1, <3>2 DEF Linked, BlockOrNull
    <3> QED
      BY <1>8, <3>2, <3>3
  <2> QED
    BY <2>1, <2>2
<1>11. IdomClimbs'
  <2> SUFFICES ASSUME NEW x \in Blocks \ {Entry}, idom'[x] # NoBlock
               PROVE  post_order_id[x] < post_order_id[idom'[x]]
    BY <1>1 DEF IdomClimbs
  <2>1. x \in BlockOrNull
    BY DEF BlockOrNull
  <2>2. CASE x = bb
    BY <2>1, <2>2, <1>3, <1>7
  <2>3. CASE x # bb
    BY <2>1, <2>3, <1>7 DEF IdomInv, IdomClimbs
  <2> QED
    BY <2>2, <2>3
<1>12. \A i \in 1..Len(reverse_post_order') :
         i < pos' => idom'[reverse_post_order'[i]] # NoBlock
  <2> SUFFICES ASSUME NEW i \in 1..Len(reverse_post_order), i < pos + 1
               PROVE  idom'[reverse_post_order[i]] # NoBlock
    BY <1>1
  <2>1. reverse_post_order[i] \in BlockOrNull
    BY ElementOfSeq DEF TypeOK, BlockOrNull
  <2>2. i = pos \/ i < pos
    BY <1>2
  <2>3. i < pos => idom[reverse_post_order[i]] # NoBlock
    BY <1>1 DEF IdomInv
  <2> QED
    BY <1>5, <1>7, <2>1, <2>2, <2>3
<1>13. idom'[NoBlock] = NoBlock /\ idom'[Entry] = Entry
  BY <1>1, <1>2, <1>6, <1>7 DEF IdomInv
<1> QED
  BY <1>1, <1>10, <1>11, <1>12, <1>13 DEF IdomInv

LEMMA NextIdom ==
  ASSUME TypeOK, VisitInv, IdomInv, [Next]_vars
  PROVE  IdomInv'
<1>1. CASE Number \/ \E b \in Blocks : Descend(b)
  BY <1>1, VisitIdom
<1>2. CASE StartIdom
  BY <1>2, StartIdomIdom
<1>3. CASE SkipRoot \/ NextPass
  BY <1>3, ScanIdom
<1>4. CASE PickPred
  BY <1>4, PickPredIdom
<1>5. CASE CallIntersect \/ Climb1 \/ Climb2 \/ ReturnIntersect
  BY <1>5, IntersectIdom
<1>6. CASE SetIdom
  BY <1>6, SetIdomIdom
<1>7. CASE StartFrontier \/ StartWalk \/ Walk \/ EndWalk \/ CreateDomTreeSucc
  <2>1. IdomKept /\ phase' \notin {"scan", "merge", "climb"}
    BY <1>7 DEF IdomKept, StartFrontier, StartWalk, Walk, EndWalk, CreateDomTreeSucc,
                visitVars, idomVars
  <2> QED
    BY <2>1, KeptIdom DEF IdomInv, IdomKept
<1>8. CASE UNCHANGED vars
  BY <1>8 DEF vars, visitVars, idomVars, IdomInv, IdomClimbs, Linked, Above
<1> QED
  BY <1>1, <1>2, <1>3, <1>4, <1>5, <1>6, <1>7, <1>8 DEF Next, Done

-----------------------------------------------------------------------------
LEMMA Inductive == Spec => []IInv
<1>1. Init => IInv
  BY InitType, InitVisit, InitIdom DEF IInv
<1>2. IInv /\ [Next]_vars => IInv'
  BY NextType, NextVisit, NextIdom DEF IInv
<1> QED
  BY <1>1, <1>2, PTL DEF Spec

\* In every reachable state of the iteration, on every graph, a link of
\* idom_ leads from a block to one with a higher post-order number.
THEOREM LinksClimb == Spec => []IdomClimbs
<1>1. IInv => IdomClimbs
  BY DEF IInv, IdomInv
<1> QED
  BY <1>1, Inductive, PTL

\* The comment "the root has highest ID" is true of every graph.
THEOREM RootIsHighest == Spec => []RootHighest
<1>1. ASSUME IInv, phase # "visit", NEW b \in visited \ {Entry}
      PROVE  post_order_id[b] < post_order_id[Entry]
  <2>1. stack = <<>> /\ Len(stack) = 0
    BY <1>1 DEF IInv, VisitInv
  <2>2. b \in Numbered
    BY <1>1, <2>1 DEF IInv, VisitInv, Numbered, TypeOK
  <2> QED
    BY <1>1, <2>2, NumbersOrder DEF IInv
<1>2. IInv => RootHighest
  BY <1>1 DEF RootHighest
<1> QED
  BY <1>2, Inductive, PTL

\* assert(pred), assert(get_idom(b1)) and assert(get_idom(b2)) hold whenever
\* they are evaluated, and intersect never stands still, on every graph.
THEOREM AssertsNeverFail == Spec => []AssertsHold
<1>1. ASSUME IInv PROVE AssertsHold
  <2> USE <1>1 DEF IInv
  <2>1. ASSUME Scanning, reverse_post_order[pos] # Entry
        PROVE  Ready(reverse_post_order[pos]) # {}
    <3>1. phase = "scan" /\ pos \in 1..Len(reverse_post_order)
      BY <2>1, LenProperties DEF Scanning, TypeOK
    <3>2. PICK j \in 1..Len(reverse_post_order) :
            /\ j < pos
            /\ reverse_post_order[pos] \in succ[reverse_post_order[j]]
            /\ reverse_post_order[j] \in Numbered
      BY <2>1, <3>1, EarlierPred
    <3> QED
      BY <3>1, <3>2 DEF Ready, Preds, IdomInv, Numbered
  <2>2. ASSUME phase = "climb"
        PROVE  /\ idom[b1] # NoBlock /\ idom[b2] # NoBlock
               /\ post_order_id[b1] = post_order_id[b2] => b1 = b2
    <3>1. Linked(b1) /\ Linked(b2)
      BY <2>2 DEF IdomInv
    <3>2. b1 \in Numbered /\ b2 \in Numbered
      BY <3>1 DEF Linked, Numbered
    <3> QED
      BY <3>1, <3>2, NumbersOrder DEF Linked
  <2> QED
    BY <2>1, <2>2 DEF AssertsHold
<1> QED
  BY <1>1, Inductive, PTL

-----------------------------------------------------------------------------
(***************************************************************************)
(* Proofs that the links create_idom leaves behind are the immediate       *)
(* dominators, for every graph and every order of successors and           *)
(* predecessors, and that each step of the pass refines DominanceSpec.     *)
(*                                                                         *)
(* Two things are shown of the links in every state of the iteration.      *)
(* From below, no link passes over a dominator (Bounded).  From above, the *)
(* blocks a link stands for only ever get fewer: the new link of a block   *)
(* lies among the ancestors of its old one.  That needs more than the      *)
(* links: whatever is an ancestor of every ready predecessor of x is an    *)
(* ancestor of the link of x (Meets), and this survives a change below x   *)
(* because the ancestors of the link of x were, when it was set, ancestors *)
(* of a predecessor of x that comes earlier in the order (Backed).  When a *)
(* pass over all blocks changes nothing, the links satisfy the equations   *)
(* of dominance (Current) and bounded from below they are exact.           *)
(***************************************************************************)

\* The predecessors of x that have a link in f: Ready for links f.
ReadyIn(g, f, x) == {p \in Preds(g, x) : f[p] \in Blocks}

\* The dominators of a block are itself and dominators of its link.
Bounded(g, f) ==
  \A x \in Blocks \ {Entry} :
    f[x] \in Blocks => StrictDoms(g, x) \subseteq Doms(g, f[x])

\* What lies above all ready predecessors of x lies above its link.
Meets(g, f) ==
  \A x \in Blocks \ {Entry} : f[x] \in Blocks =>
    \A u \in Blocks :
      (\A p \in ReadyIn(g, f, x) : u \in Ancestors(f, p)) => u \in Ancestors(f, f[x])

\* What lies above the link of x lies above an earlier predecessor of x, or
\* was above one until this pass, in which x has still to be visited.  The
\* pass has visited the blocks with numbers higher than k.
Backed(g, f, num, k) ==
  \A x \in Blocks \ {Entry} : f[x] \in Blocks =>
    \A y \in Ancestors(f, f[x]) :
      \/ \E p \in ReadyIn(g, f, x) : num[x] < num[p] /\ y \in Ancestors(f, p)
      \/ k < num[y] /\ ~(k < num[x])

\* The visited blocks satisfy the equations of dominance.
Current(g, f, num, k) ==
  \A x \in Blocks \ {Entry} : f[x] \in Blocks /\ k < num[x] =>
    \A p \in ReadyIn(g, f, x) : Ancestors(f, f[x]) \subseteq Ancestors(f, p)

-----------------------------------------------------------------------------
(* Links that are bounded stand for supersets of the dominators, and links *)
(* that also satisfy the equations stand for the dominators.               *)

LEMMA DominatorsAbove ==
  ASSUME NEW g \in Graph, NEW f, NEW num, NEW n, LinkTree(f, num, n), Bounded(g, f),
         NEW x \in Blocks, f[x] \in Blocks
  PROVE  Doms(g, x) \subseteq Ancestors(f, x)
<1> SUFFICES ASSUME NEW d \in Doms(g, x), d \notin Ancestors(f, x) PROVE FALSE
  OBVIOUS
<1> DEFINE T == {c \in Ancestors(f, x) : d \in Doms(g, c)}
<1>h. \A a \in Ancestors(f, x) :
        a \in Blocks /\ f[a] \in Blocks /\ f[a] \in Ancestors(f, x) /\ num[a] \in Nat
  BY AncestorsHigher
<1>1. T # {} /\ n \in Nat /\ \A c \in T : num[c] \in Nat /\ num[c] <= n
  BY <1>h, AncestorsClosed DEF LinkTree
<1>2. PICK c \in T : \A y \in T : num[y] <= num[c]
  <2> HIDE DEF T
  <2> QED
    BY <1>1, HighestBlock
<1>3. c \in Blocks /\ f[c] \in Blocks /\ f[c] \in Ancestors(f, x) /\ d # c /\ d \in Doms(g, c)
  BY <1>h
<1>4. c # Entry
  BY <1>3, DomsEntry
<1>5. d \in Doms(g, f[c])
  BY <1>3, <1>4 DEF Bounded, StrictDoms
<1>6. num[f[c]] <= num[c] /\ num[c] \in Nat /\ num[f[c]] \in Nat
  BY <1>1, <1>2, <1>3, <1>5
<1> QED
  BY <1>3, <1>4, <1>6 DEF LinkTree

LEMMA LinksExact ==
  ASSUME NEW g \in Graph, EntryHasNoPreds(g),
         NEW f, NEW num, NEW n, LinkTree(f, num, n), Bounded(g, f),
         \A x \in Reachable(g) : f[x] \in Blocks,
         \A x \in Reachable(g) \ {Entry}, p \in Reachable(g) :
           x \in g[p] => Ancestors(f, f[x]) \subseteq Ancestors(f, p)
  PROVE  \A b \in Reachable(g) : Ancestors(f, b) = Doms(g, b)
<1> SUFFICES ASSUME NEW b \in Reachable(g), NEW d \in Ancestors(f, b), ReachedAvoiding(g, d, b)
             PROVE  FALSE
  <2>1. ASSUME NEW b \in Reachable(g) PROVE b \in Blocks /\ f[b] \in Blocks
    BY ReachableClosed
  <2> QED
    BY <2>1, DominatorsAbove, AncestorsClosed DEF Doms
<1> DEFINE S == {a \in Reachable(g) : d \notin Ancestors(f, a)}
<1>1. Reachable(g) \subseteq Blocks /\ Entry \in Reachable(g)
      /\ \A a \in Reachable(g) : g[a] \subseteq Reachable(g)
  BY ReachableClosed
<1>2. Entry # d => Entry \in S
  BY <1>1, AncestorsEntry
<1>3. ASSUME NEW a \in S, NEW c \in g[a], c # d PROVE c \in S
  <2>1. c \in Reachable(g) /\ c \in Blocks /\ f[c] \in Blocks /\ c # Entry
    BY <1>1 DEF EntryHasNoPreds
  <2>2. Ancestors(f, f[c]) \subseteq Ancestors(f, a)
    BY <2>1
  <2>3. d \notin Ancestors(f, c)
    BY <1>3, <2>1, <2>2, AncestorsUnfold
  <2> QED
    BY <2>1, <2>3
<1>4. ClosedAvoiding(g, S, d)
  BY <1>2, <1>3 DEF ClosedAvoiding
<1>5. b \in S
  BY <1>1, <1>4 DEF ReachedAvoiding
<1> QED
  BY <1>5

-----------------------------------------------------------------------------
(* Setting the link of v, the step of SetIdom, on links and numbers alone. *)

\* The link of v becomes h[v], a block higher than v that has exactly those
\* ancestors that all ready predecessors of v have.
Relink(g, f, h, num, n, v) ==
  /\ LinkTree(f, num, n)
  /\ \A x \in Blocks \ {v} : h[x] = f[x]
  /\ v # Entry /\ num[v] \in Nat /\ num[v] <= n
  /\ h[v] \in Blocks /\ f[h[v]] \in Blocks /\ num[v] < num[h[v]]
  /\ \A u \in Blocks :
       u \in Ancestors(f, h[v]) <=> \A p \in ReadyIn(g, f, v) : u \in Ancestors(f, p)

LEMMA RelinkTree ==
  ASSUME NEW g, NEW f, NEW h, NEW num, NEW n, NEW v \in Blocks, Relink(g, f, h, num, n, v)
  PROVE  LinkTree(h, num, n) /\ f[Entry] = Entry /\ h[h[v]] = f[h[v]]
<1>1. num[h[v]] \in Nat /\ h[v] # v
  BY DEF Relink, LinkTree
<1>2. ASSUME NEW x \in Blocks, h[x] \in Blocks
      PROVE  /\ h[h[x]] \in Blocks
             /\ num[x] \in Nat /\ num[x] <= n
             /\ x # Entry => num[x] < num[h[x]]
  BY <1>1, <1>2 DEF Relink, LinkTree
<1> QED
  BY <1>1, <1>2, EntryAssumption DEF Relink, LinkTree

\* Under v exactly the ancestors of v change, and they only get fewer.
LEMMA RelinkShrinks ==
  ASSUME NEW g, NEW f, NEW h, NEW num, NEW n, NEW v \in Blocks,
         Relink(g, f, h, num, n, v), Meets(g, f)
  PROVE  /\ Ancestors(h, v) = {v} \cup Ancestors(f, h[v])
         /\ Ancestors(h, h[v]) = Ancestors(f, h[v])
         /\ f[v] \in Blocks => Ancestors(h, v) \subseteq Ancestors(f, v)
         /\ \A x \in Blocks : f[x] \in Blocks =>
              /\ Ancestors(h, x) \subseteq Ancestors(f, x)
              /\ v \notin Ancestors(f, x) => Ancestors(h, x) = Ancestors(f, x)
              /\ v \in Ancestors(f, x) =>
                   /\ f[v] \in Blocks /\ v \in Ancestors(h, x)
                   /\ Ancestors(h, x) \cap Ancestors(f, v) \subseteq Ancestors(h, v)
                   /\ Ancestors(f, x) \subseteq Ancestors(h, x) \cup Ancestors(f, v)
                   /\ Ancestors(h, v) \subseteq Ancestors(h, x)
<1>1. /\ Ancestors(h, v) = {v} \cup Ancestors(f, h[v])
      /\ \A x \in Blocks : f[x] \in Blocks /\ v \notin Ancestors(f, x) =>
           Ancestors(h, x) = Ancestors(f, x)
      /\ \A x \in Blocks : f[x] \in Blocks /\ v \in Ancestors(f, x) =>
           Ancestors(h, x) = (Ancestors(f, x) \ Ancestors(f, v)) \cup Ancestors(h, v)
  <2>1. /\ LinkTree(f, num, n) /\ LinkTree(h, num, n)
        /\ h[v] \in Blocks /\ f[h[v]] \in Blocks /\ v # Entry
        /\ \A x \in Blocks \ {v} : h[x] = f[x]
    BY RelinkTree DEF Relink
  <2> QED
    BY <2>1, AncestorsRelink
<1>2. v \notin Ancestors(f, h[v])
  <2>1. v \in Ancestors(f, h[v]) => num[h[v]] <= num[v] /\ num[h[v]] \in Nat
    BY AncestorsHigher DEF Relink
  <2> QED
    BY <2>1 DEF Relink
<1>3. ASSUME f[v] \in Blocks
      PROVE  Ancestors(h, v) \subseteq Ancestors(f, v)
  <2>1. h[v] \in Blocks /\ h[v] \in Ancestors(f, h[v])
    BY AncestorsClosed DEF Relink
  <2>2. \A p \in ReadyIn(g, f, v) : h[v] \in Ancestors(f, p)
    BY <2>1 DEF Relink
  <2>3. h[v] \in Ancestors(f, f[v])
    BY <1>3, <2>1, <2>2 DEF Meets, Relink
  <2>4. h[v] \in Ancestors(f, v)
    BY <1>3, <2>3, AncestorsUnfold
  <2>5. Ancestors(f, h[v]) \subseteq Ancestors(f, v)
    BY <2>4, AncestorsTrans
  <2> QED
    BY <1>1, <2>5, AncestorsClosed
<1>4. ASSUME NEW x \in Blocks, f[x] \in Blocks, v \in Ancestors(f, x)
      PROVE  f[v] \in Blocks /\ Ancestors(f, v) \subseteq Ancestors(f, x)
  <2>1. f[v] \in Blocks
    BY <1>4, AncestorsHigher DEF Relink
  <2> QED
    BY <1>4, <2>1, AncestorsTrans
<1>5. Ancestors(h, h[v]) = Ancestors(f, h[v])
  BY <1>1, <1>2 DEF Relink
<1>6. v \in Ancestors(h, v)
  BY AncestorsClosed
<1>7. ASSUME NEW x \in Blocks, f[x] \in Blocks
      PROVE  /\ Ancestors(h, x) \subseteq Ancestors(f, x)
             /\ v \notin Ancestors(f, x) => Ancestors(h, x) = Ancestors(f, x)
             /\ v \in Ancestors(f, x) =>
                  /\ f[v] \in Blocks /\ v \in Ancestors(h, x)
                  /\ Ancestors(h, x) \cap Ancestors(f, v) \subseteq Ancestors(h, v)
                  /\ Ancestors(f, x) \subseteq Ancestors(h, x) \cup Ancestors(f, v)
                  /\ Ancestors(h, v) \subseteq Ancestors(h, x)
  <2>1. CASE v \notin Ancestors(f, x)
    BY <1>1, <1>7, <2>1
  <2>2. CASE v \in Ancestors(f, x)
    <3>1. /\ Ancestors(h, x) = (Ancestors(f, x) \ Ancestors(f, v)) \cup Ancestors(h, v)
          /\ f[v] \in Blocks /\ Ancestors(f, v) \subseteq Ancestors(f, x)
          /\ Ancestors(h, v) \subseteq Ancestors(f, v)
      BY <1>1, <1>3, <1>4, <1>7, <2>2
    <3> QED
      BY <1>6, <2>2, <3>1
  <2> QED
    BY <2>1, <2>2
<1> QED
  BY <1>1, <1>3, <1>5, <1>7

LEMMA RelinkBounded ==
  ASSUME NEW g, NEW f, NEW h, NEW num, NEW n, NEW v \in Blocks,
         Relink(g, f, h, num, n, v), Bounded(g, f), StrictDoms(g, v) \subseteq Doms(g, h[v])
  PROVE  Bounded(g, h)
BY DEF Bounded, Relink

\* A block lost above x is one lost above v, and so not above an earlier
\* predecessor of x either, since v was above that.
LEMMA RelinkMeets ==
  ASSUME NEW g, NEW f, NEW h, NEW num, NEW n, NEW v \in Blocks,
         Relink(g, f, h, num, n, v), Meets(g, f), Backed(g, f, num, num[v])
  PROVE  Meets(g, h)
<1> USE RelinkShrinks
<1>r. LinkTree(f, num, n) /\ v # Entry /\ num[v] \in Nat /\ h[v] \in Blocks /\ f[h[v]] \in Blocks
      /\ \A x \in Blocks \ {v} : h[x] = f[x]
  BY DEF Relink
<1>p. \A x : ReadyIn(g, f, x) \subseteq ReadyIn(g, h, x)
  BY <1>r DEF ReadyIn, Preds
<1> SUFFICES ASSUME NEW x \in Blocks \ {Entry}, h[x] \in Blocks, NEW u \in Blocks,
                    \A p \in ReadyIn(g, h, x) : u \in Ancestors(h, p)
             PROVE  u \in Ancestors(h, h[x])
  BY DEF Meets
<1>q. \A p \in ReadyIn(g, f, x) : p \in Blocks /\ f[p] \in Blocks /\ u \in Ancestors(h, p)
  BY <1>p DEF ReadyIn, Preds
<1>1. \A p \in ReadyIn(g, f, x) : /\ p \in Blocks /\ f[p] \in Blocks
                                  /\ u \in Ancestors(h, p) /\ u \in Ancestors(f, p)
  BY <1>q
<1>2. CASE x = v
  <2>1. u \in Ancestors(f, h[v])
    BY <1>1, <1>2 DEF Relink
  <2> QED
    BY <1>2, <2>1
<1>3. CASE x # v
  <2>1. h[x] = f[x] /\ f[f[x]] \in Blocks
    BY <1>3, <1>r DEF LinkTree
  <2>2. u \in Ancestors(f, f[x])
    BY <1>1, <2>1 DEF Meets
  <2> SUFFICES ASSUME u \notin Ancestors(h, f[x]) PROVE FALSE
    BY <2>1
  <2>3. v \in Ancestors(f, f[x]) /\ u \in Ancestors(f, v) /\ u \notin Ancestors(h, v)
    BY <2>1, <2>2
  <2>4. PICK p \in ReadyIn(g, f, x) : v \in Ancestors(f, p)
    BY <2>1, <2>3, <1>r DEF Backed
  <2>5. Ancestors(h, p) \cap Ancestors(f, v) \subseteq Ancestors(h, v)
    BY <1>1, <2>4
  <2> QED
    BY <1>1, <2>3, <2>5
<1> QED
  BY <1>2, <1>3

\* The link of v is now backed by its earlier predecessor; a block lost
\* above an earlier predecessor of x leaves x the second disjunct.
LEMMA RelinkBacked ==
  ASSUME NEW g, NEW f, NEW h, NEW num, NEW n, NEW v \in Blocks,
         Relink(g, f, h, num, n, v), Meets(g, f), Backed(g, f, num, num[v]),
         \E p \in ReadyIn(g, f, v) : num[v] < num[p],
         \A x \in Blocks \ {v} : f[x] \in Blocks => num[x] # num[v]
  PROVE  Backed(g, h, num, num[v] - 1)
<1> USE RelinkShrinks
<1>r. LinkTree(f, num, n) /\ v # Entry /\ num[v] \in Nat /\ h[v] \in Blocks /\ f[h[v]] \in Blocks
      /\ \A x \in Blocks \ {v} : h[x] = f[x]
  BY DEF Relink
<1>n. \A x \in Blocks : f[x] \in Blocks => num[x] \in Nat
  BY <1>r DEF LinkTree
<1>p. \A x : ReadyIn(g, f, x) \subseteq ReadyIn(g, h, x)
  BY <1>r DEF ReadyIn, Preds
<1>q. \A x : \A p \in ReadyIn(g, f, x) : p \in Blocks /\ f[p] \in Blocks
  BY DEF ReadyIn, Preds
<1> SUFFICES ASSUME NEW x \in Blocks \ {Entry}, h[x] \in Blocks, NEW y \in Ancestors(h, h[x])
             PROVE  \/ \E p \in ReadyIn(g, h, x) : num[x] < num[p] /\ y \in Ancestors(h, p)
                    \/ num[v] - 1 < num[y] /\ ~(num[v] - 1 < num[x])
  BY DEF Backed
<1>2. CASE x = v
  <2>1. PICK p \in ReadyIn(g, f, v) : num[v] < num[p]
    OBVIOUS
  <2>2. y \in Ancestors(f, h[v]) /\ y \in Blocks
    BY <1>2, AncestorsClosed, <1>r
  <2>3. y \in Ancestors(f, p) /\ y \in Ancestors(h, v)
    BY <2>2 DEF Relink
  <2>4. y \in Ancestors(h, p)
    BY <1>q, <2>3
  <2> QED
    BY <1>2, <1>p, <2>1, <2>4
<1>3. CASE x # v
  <2>1. h[x] = f[x] /\ f[x] \in Blocks /\ f[f[x]] \in Blocks
    BY <1>3, <1>r DEF LinkTree
  <2>2. y \in Ancestors(f, f[x]) /\ y \in Blocks
    BY <2>1, AncestorsClosed
  <2>3. num[x] \in Nat /\ num[x] # num[v]
    BY <1>3, <1>n, <2>1
  <2>4. CASE \E p \in ReadyIn(g, f, x) : num[x] < num[p] /\ y \in Ancestors(f, p)
    <3>1. PICK p \in ReadyIn(g, f, x) : num[x] < num[p] /\ y \in Ancestors(f, p)
      BY <2>4
    <3>2. CASE y \in Ancestors(h, p)
      BY <1>p, <3>1, <3>2
    <3>3. CASE y \notin Ancestors(h, p)
      <4>1. /\ v \in Ancestors(f, p) /\ f[v] \in Blocks
            /\ y \in Ancestors(f, v) /\ y \notin Ancestors(h, v)
        BY <1>q, <3>1, <3>3
      <4>2. y # v
        BY <4>1, AncestorsClosed
      <4>3. num[v] < num[y] /\ num[y] \in Nat
        BY <1>r, <4>1, <4>2, AncestorsHigher
      <4>4. num[p] <= num[v] /\ num[p] \in Nat
        BY <1>q, <1>r, <4>1, AncestorsHigher
      <4> QED
        BY <1>r, <2>3, <3>1, <4>3, <4>4
    <3> QED
      BY <3>2, <3>3
  <2>5. CASE num[v] < num[y] /\ ~(num[v] < num[x])
    <3>1. num[y] \in Nat
      BY <1>n, <2>1, <2>2, <1>r, AncestorsHigher
    <3> QED
      BY <1>r, <2>3, <2>5, <3>1
  <2> QED
    BY <2>1, <2>2, <2>4, <2>5 DEF Backed
<1> QED
  BY <1>2, <1>3

\* A pass that keeps the link of v has checked the equation of v.
LEMMA KeptCurrent ==
  ASSUME NEW g, NEW f, NEW num, NEW n, NEW v \in Blocks,
         Relink(g, f, f, num, n, v), Current(g, f, num, num[v]),
         \A x \in Blocks \ {v} : f[x] \in Blocks => num[x] # num[v]
  PROVE  Current(g, f, num, num[v] - 1)
<1> SUFFICES ASSUME NEW x \in Blocks \ {Entry}, f[x] \in Blocks, num[v] - 1 < num[x],
                    NEW p \in ReadyIn(g, f, x), NEW u \in Ancestors(f, f[x])
             PROVE  u \in Ancestors(f, p)
  BY DEF Current
<1>1. num[x] \in Nat /\ num[v] \in Nat /\ u \in Blocks
  BY AncestorsClosed DEF Relink, LinkTree
<1>2. CASE x = v
  BY <1>1, <1>2 DEF Relink
<1>3. CASE x # v
  <2>1. num[v] < num[x]
    BY <1>1, <1>3
  <2> QED
    BY <2>1 DEF Current
<1> QED
  BY <1>2, <1>3

\* A step over the entry, which Backed and Current do not speak of.
LEMMA SkipCut ==
  ASSUME NEW g, NEW f, NEW num, NEW n, NEW k \in Int, LinkTree(f, num, n),
         Backed(g, f, num, k),
         \A x \in Blocks \ {Entry} : f[x] \in Blocks => num[x] # k
  PROVE  /\ Backed(g, f, num, k - 1)
         /\ Current(g, f, num, k) => Current(g, f, num, k - 1)
<1>1. \A x \in Blocks : f[x] \in Blocks => num[x] \in Nat /\ f[f[x]] \in Blocks
  BY DEF LinkTree
<1>2. \A x \in Blocks \ {Entry} : f[x] \in Blocks => (k - 1 < num[x] <=> k < num[x])
  BY <1>1
<1>3. ASSUME NEW x \in Blocks \ {Entry}, f[x] \in Blocks, NEW y \in Ancestors(f, f[x])
      PROVE  k < num[y] => k - 1 < num[y]
  <2>1. num[y] \in Nat
    BY <1>1, <1>3, AncestorsHigher
  <2> QED
    BY <2>1
<1> QED
  BY <1>2, <1>3 DEF Backed, Current

\* When all blocks have been visited, everything is backed by a predecessor,
\* whatever the next pass has visited.
LEMMA PassBacked ==
  ASSUME NEW g, NEW f, NEW num, NEW n, NEW k \in Int, LinkTree(f, num, n), k < 0,
         Backed(g, f, num, k), NEW l
  PROVE  Backed(g, f, num, l)
<1>1. \A x \in Blocks : f[x] \in Blocks => k < num[x]
  BY DEF LinkTree
<1> QED
  BY <1>1 DEF Backed

-----------------------------------------------------------------------------
(* The invariant. *)

\* The number of the block in hand: those above it have been visited.
Cut == Len(reverse_post_order) - pos

BlockInHand == reverse_post_order[pos]

\* Predecessors of the block in hand that new_idom accounts for.
Met == ReadyIn(succ, idom, BlockInHand) \ left

SearchInv ==
  /\ visited \subseteq Reachable(succ)
  /\ \A i \in 1..Len(reverse_post_order) : succ[reverse_post_order[i]] \subseteq visited

LinksInv ==
  /\ Bounded(succ, idom)
  /\ Meets(succ, idom)
  /\ Backed(succ, idom, post_order_id, Cut)
  /\ ~changed => Current(succ, idom, post_order_id, Cut)

MeetInv ==
  /\ phase \in {"merge", "climb"} => left \subseteq ReadyIn(succ, idom, BlockInHand)
  /\ phase = "merge" =>
       /\ \A u \in Blocks :
            u \in Ancestors(idom, new_idom) <=> \A p \in Met : u \in Ancestors(idom, p)
       /\ StrictDoms(succ, BlockInHand) \subseteq Doms(succ, new_idom)
  /\ phase = "climb" =>
       /\ \A u \in Blocks :
            (u \in Ancestors(idom, b1) /\ u \in Ancestors(idom, b2))
              <=> \A p \in Met : u \in Ancestors(idom, p)
       /\ StrictDoms(succ, BlockInHand) \subseteq Doms(succ, b1) \cap Doms(succ, b2)

\* Once the iteration has stopped.
SettledInv ==
  phase \in {"frontier", "walk", "done"} =>
    \A b \in Reachable(succ) : idom[b] \in Blocks /\ Ancestors(idom, b) = Doms(succ, b)

PathInv == SearchInv /\ LinksInv /\ MeetInv /\ SettledInv

-----------------------------------------------------------------------------
\* The links and numbers of a state of the iteration form a tree.
LEMMA TreeHolds ==
  ASSUME IInv
  PROVE  /\ succ \in Graph /\ EntryHasNoPreds(succ)
         /\ \A x \in Blocks : idom[x] # NoBlock <=> idom[x] \in Blocks
         /\ \A x \in Blocks : idom[x] \in Blocks => x \in Numbered
         /\ phase # "visit" => LinkTree(idom, post_order_id, Len(reverse_post_order))
         /\ phase = "visit" => \A x \in Blocks : idom[x] \notin Blocks
<1> USE DEF IInv
<1>1. succ \in Graph /\ EntryHasNoPreds(succ)
  BY GraphsAssumption DEF TypeOK
<1>2. \A x \in Blocks : idom[x] # NoBlock <=> idom[x] \in Blocks
  BY NoBlockAssumption DEF TypeOK, BlockOrNull
<1>3. \A x \in Blocks : idom[x] \in Blocks => x \in Numbered
  BY <1>2 DEF IdomInv, Linked, Numbered
<1>4. ASSUME phase # "visit" PROVE LinkTree(idom, post_order_id, Len(reverse_post_order))
  <2>1. Len(reverse_post_order) \in Nat
    BY LenProperties DEF TypeOK
  <2>2. ASSUME NEW x \in Numbered
        PROVE  post_order_id[x] \in Nat /\ post_order_id[x] <= Len(reverse_post_order)
    <3>1. PICK i \in 1..Len(reverse_post_order) : reverse_post_order[i] = x
      BY DEF Numbered
    <3>2. post_order_id[x] = Len(reverse_post_order) - i
      BY <3>1 DEF VisitInv
    <3> QED
      BY <2>1, <3>1, <3>2
  <2>3. idom[Entry] = Entry
    BY <1>4 DEF IdomInv
  <2>4. \A x \in Blocks : idom[x] \in Blocks => idom[idom[x]] \in Blocks
    BY <1>2 DEF IdomInv, Linked
  <2>5. \A x \in Blocks : idom[x] \in Blocks /\ x # Entry =>
           post_order_id[x] < post_order_id[idom[x]]
    BY <1>2 DEF IdomInv, IdomClimbs
  <2> QED
    BY <1>3, <2>1, <2>2, <2>3, <2>4, <2>5 DEF LinkTree
<1>5. phase = "visit" => \A x \in Blocks : idom[x] \notin Blocks
  BY <1>2 DEF IdomInv
<1> QED
  BY <1>1, <1>2, <1>3, <1>4, <1>5

\* The search numbers exactly the reachable blocks.
LEMMA NumberedReachable ==
  ASSUME IInv, SearchInv
  PROVE  /\ Numbered \subseteq Reachable(succ)
         /\ phase # "visit" => Numbered = Reachable(succ)
<1> USE DEF IInv
<1>1. Numbered \subseteq visited
  BY DEF Numbered, VisitInv
<1>2. ASSUME phase # "visit" PROVE Reachable(succ) \subseteq Numbered
  <2>1. stack = <<>> /\ Len(stack) = 0
    BY <1>2 DEF VisitInv
  <2>2. visited \subseteq Numbered
    BY <2>1 DEF VisitInv, Numbered, TypeOK
  <2>3. Entry \in Numbered /\ \A a \in Numbered : succ[a] \subseteq Numbered
    BY <2>2 DEF VisitInv, SearchInv, Numbered
  <2>4. Numbered \in SUBSET Blocks
    BY DEF Numbered
  <2> QED
    BY <2>3, <2>4, ReachableLeast
<1> QED
  BY <1>1, <1>2 DEF SearchInv

\* The block in hand has the number Cut.
LEMMA CutNumber ==
  ASSUME IInv, pos <= Len(reverse_post_order)
  PROVE  /\ Len(reverse_post_order) \in Nat /\ pos \in 1..Len(reverse_post_order)
         /\ BlockInHand \in Numbered /\ BlockInHand \in Blocks
         /\ Cut \in Nat /\ post_order_id[BlockInHand] = Cut
         /\ \A x \in Numbered \ {BlockInHand} : post_order_id[x] # Cut
<1> USE DEF IInv
<1>1. Len(reverse_post_order) \in Nat /\ pos \in 1..Len(reverse_post_order)
  BY LenProperties DEF TypeOK
<1>2. BlockInHand \in Blocks /\ BlockInHand \in Numbered
  BY <1>1, ElementOfSeq DEF TypeOK, BlockInHand, Numbered
<1>3. post_order_id[BlockInHand] = Cut
  BY <1>1 DEF VisitInv, BlockInHand, Cut
<1>4. Cut \in Nat
  BY <1>1 DEF Cut
<1>5. \A x \in Numbered \ {BlockInHand} : post_order_id[x] # Cut
  BY <1>2, <1>3, NumbersOrder
<1> QED
  BY <1>1, <1>2, <1>3, <1>4, <1>5

\* Ready speaks of the same predecessors.
LEMMA ReadySame ==
  ASSUME IInv, NEW x
  PROVE  Ready(x) = ReadyIn(succ, idom, x)
BY TreeHolds DEF Ready, ReadyIn, Preds

-----------------------------------------------------------------------------
(* One lemma per group of actions. *)

LEMMA InitPaths == Init => PathInv
<1> SUFFICES ASSUME Init PROVE PathInv
  OBVIOUS
<1>1. succ \in Graph /\ visited = {Entry} /\ Len(reverse_post_order) = 0 /\ phase = "visit"
  BY GraphsAssumption DEF Init
<1>2. \A x \in Blocks : idom[x] \notin Blocks
  BY NoBlockAssumption DEF Init, BlockOrNull
<1>3. SearchInv
  BY <1>1, ReachableClosed DEF SearchInv
<1> QED
  BY <1>1, <1>2, <1>3 DEF PathInv, LinksInv, MeetInv, SettledInv, Bounded, Meets, Backed, Current

LEMMA VisitPaths ==
  ASSUME IInv, PathInv, Number \/ \E b \in Blocks : Descend(b)
  PROVE  PathInv'
<1>1. phase = "visit" /\ phase' = "visit" /\ idom' = idom /\ succ' = succ /\ stack # <<>>
  BY DEF Number, Descend, idomVars
<1>2. \A x \in Blocks : idom'[x] \notin Blocks
  BY <1>1, TreeHolds
<1>3. LinksInv'
  BY <1>2 DEF LinksInv, Bounded, Meets, Backed, Current
<1>4. /\ Len(stack) \in Nat \ {0} /\ Last(stack) \in Blocks /\ Last(stack) = stack[Len(stack)]
      /\ Last(stack) \in Reachable(succ)
  <2>1. stack \in Seq(Blocks)
    BY DEF IInv, TypeOK
  <2>2. Len(stack) \in Nat \ {0} /\ Last(stack) \in Blocks /\ Last(stack) = stack[Len(stack)]
    BY <1>1, <2>1, PopProperties
  <2> QED
    BY <2>2 DEF IInv, VisitInv, PathInv, SearchInv
<1>5. CASE \E b \in Blocks : Descend(b)
  <2>1. PICK b \in Blocks : Descend(b)
    BY <1>5
  <2>2. b \in Reachable(succ)
    BY <1>4, <2>1, ReachableClosed, TreeHolds DEF Descend
  <2>3. SearchInv'
    BY <1>1, <2>1, <2>2 DEF Descend, PathInv, SearchInv
  <2> QED
    BY <1>1, <1>3, <2>3 DEF PathInv, MeetInv, SettledInv
<1>6. CASE Number
  <2>1. /\ Len(reverse_post_order) \in Nat
        /\ Len(reverse_post_order') = Len(reverse_post_order) + 1
        /\ reverse_post_order'[1] = Last(stack)
        /\ \A i \in 2..Len(reverse_post_order)+1 : reverse_post_order'[i] = reverse_post_order[i-1]
    BY <1>4, <1>6, PushFrontProperties DEF Number, IInv, TypeOK
  <2>2. succ[Last(stack)] \subseteq visited /\ visited' = visited
    BY <1>6 DEF Number
  <2>3. ASSUME NEW i \in 1..Len(reverse_post_order') PROVE succ[reverse_post_order'[i]] \subseteq visited
    <3>1. CASE i = 1
      BY <2>1, <2>2, <3>1
    <3>2. CASE i # 1
      <4>1. i \in 2..Len(reverse_post_order)+1 /\ i-1 \in 1..Len(reverse_post_order)
        BY <2>1, <3>2
      <4> QED
        BY <2>1, <4>1 DEF PathInv, SearchInv
    <3> QED
      BY <3>1, <3>2
  <2>4. SearchInv'
    BY <1>1, <2>2, <2>3 DEF PathInv, SearchInv
  <2> QED
    BY <1>1, <1>3, <2>4 DEF PathInv, MeetInv, SettledInv
<1> QED
  BY <1>5, <1>6

LEMMA StartIdomPaths ==
  ASSUME IInv, PathInv, StartIdom
  PROVE  PathInv'
<1>1. /\ phase' = "scan" /\ UNCHANGED <<succ, visited, reverse_post_order>>
      /\ \A x \in Blocks \ {Entry} : idom'[x] \notin Blocks
  BY NoBlockAssumption DEF StartIdom, visitVars, BlockOrNull
<1>2. LinksInv'
  BY <1>1 DEF LinksInv, Bounded, Meets, Backed, Current
<1> QED
  BY <1>1, <1>2 DEF PathInv, SearchInv, MeetInv, SettledInv

\* What no action after StartIdom but SetIdom disturbs.
LEMMA KeptPaths ==
  ASSUME PathInv, IdomKept, visited' = visited
  PROVE  /\ SearchInv'
         /\ pos' = pos /\ changed' = changed => LinksInv'
BY DEF IdomKept, PathInv, SearchInv, LinksInv, Cut

LEMMA ScanPaths ==
  ASSUME IInv, PathInv, SkipRoot \/ NextPass
  PROVE  PathInv'
<1>1. IdomKept /\ phase = "scan" /\ phase' = "scan" /\ visited' = visited
  BY DEF IdomKept, SkipRoot, NextPass, Scanning, visitVars
<1>2. LinkTree(idom, post_order_id, Len(reverse_post_order))
  BY <1>1, TreeHolds
<1>3. Len(reverse_post_order) \in Nat /\ pos \in Nat /\ Cut \in Int
  BY LenProperties DEF IInv, TypeOK, Cut
<1>4. LinksInv'
  <2>1. CASE SkipRoot
    <3>1. pos <= Len(reverse_post_order) /\ BlockInHand = Entry
          /\ pos' = pos + 1 /\ changed' = changed
      BY <2>1 DEF SkipRoot, Scanning, BlockInHand
    <3>2. \A x \in Blocks \ {Entry} : idom[x] \in Blocks => post_order_id[x] # Cut
      BY <3>1, CutNumber, TreeHolds
    <3>3. /\ Backed(succ, idom, post_order_id, Cut - 1)
          /\ ~changed => Current(succ, idom, post_order_id, Cut - 1)
      BY <1>2, <1>3, <3>2, SkipCut DEF PathInv, LinksInv
    <3>4. Cut' = Cut - 1
      BY <1>1, <1>3, <3>1 DEF Cut, IdomKept
    <3> QED
      BY <1>1, <3>1, <3>3, <3>4 DEF PathInv, LinksInv, IdomKept
  <2>2. CASE NextPass
    <3>1. pos > Len(reverse_post_order) /\ pos' = 1
      BY <2>2 DEF NextPass
    <3>2. Cut < 0
      BY <1>3, <3>1 DEF Cut
    <3>3. Backed(succ, idom, post_order_id, Cut')
      BY <1>2, <1>3, <3>2, PassBacked DEF PathInv, LinksInv
    <3>4. ASSUME NEW x \in Blocks, idom[x] \in Blocks PROVE ~(Cut' < post_order_id[x])
      <4>1. PICK i \in 1..Len(reverse_post_order) : reverse_post_order[i] = x
        BY <3>4, TreeHolds DEF Numbered
      <4>2. post_order_id[x] = Len(reverse_post_order) - i
        BY <4>1 DEF IInv, VisitInv
      <4>3. Cut' = Len(reverse_post_order) - 1
        BY <1>1, <3>1 DEF Cut, IdomKept
      <4> QED
        BY <1>3, <4>1, <4>2, <4>3
    <3>5. Current(succ, idom, post_order_id, Cut')
      BY <3>4 DEF Current
    <3> QED
      BY <1>1, <3>3, <3>5 DEF PathInv, LinksInv, IdomKept
  <2> QED
    BY <2>1, <2>2
<1> QED
  BY <1>1, <1>4, KeptPaths DEF PathInv, MeetInv, SettledInv

\* The dominators of a block lie above those of its predecessors with a link.
LEMMA PredBounded ==
  ASSUME IInv, NEW b \in Blocks, NEW p \in ReadyIn(succ, idom, b)
  PROVE  p \in Blocks /\ idom[p] \in Blocks /\ StrictDoms(succ, b) \subseteq Doms(succ, p)
<1>1. p \in Blocks /\ idom[p] \in Blocks /\ b \in succ[p]
  BY DEF ReadyIn, Preds
<1> QED
  BY <1>1, DomsAlongEdge, TreeHolds

LEMMA PickPredPaths ==
  ASSUME IInv, PathInv, PickPred
  PROVE  PathInv'
<1>1. /\ IdomKept /\ phase = "scan" /\ phase' = "merge" /\ visited' = visited
      /\ UNCHANGED <<pos, changed>> /\ pos <= Len(reverse_post_order)
  BY DEF IdomKept, PickPred, Scanning, visitVars
<1>2. BlockInHand \in Blocks
  BY <1>1, CutNumber
<1>3. PICK p \in ReadyIn(succ, idom, BlockInHand) :
        new_idom' = p /\ left' = ReadyIn(succ, idom, BlockInHand) \ {p}
  BY <1>2, ReadySame DEF PickPred, BlockInHand
<1>4. StrictDoms(succ, BlockInHand) \subseteq Doms(succ, p)
  BY <1>2, PredBounded
<1>5. /\ BlockInHand' = BlockInHand
      /\ Met' = {p}
  BY <1>1, <1>3 DEF BlockInHand, Met, IdomKept
<1>6. MeetInv'
  BY <1>1, <1>3, <1>4, <1>5 DEF MeetInv, IdomKept
<1> QED
  BY <1>1, <1>6, KeptPaths DEF PathInv, SettledInv

LEMMA CallIntersectPaths ==
  ASSUME IInv, PathInv, CallIntersect
  PROVE  MeetInv'
<1>1. /\ phase = "merge" /\ phase' = "climb" /\ b2' = new_idom
      /\ UNCHANGED <<succ, pos, reverse_post_order, idom>>
  BY DEF CallIntersect, visitVars
<1>2. PICK p \in left : left' = left \ {p} /\ b1' = p
  BY DEF CallIntersect
<1>3. pos <= Len(reverse_post_order)
  BY <1>1 DEF IInv, IdomInv
<1>4. BlockInHand \in Blocks /\ BlockInHand' = BlockInHand
  BY <1>1, <1>3, CutNumber DEF BlockInHand
<1>5. left \subseteq ReadyIn(succ, idom, BlockInHand)
  BY <1>1 DEF PathInv, MeetInv
<1>6. StrictDoms(succ, BlockInHand) \subseteq Doms(succ, p)
  BY <1>2, <1>4, <1>5, PredBounded
<1>7. Met' = Met \cup {p}
  BY <1>1, <1>2, <1>4, <1>5 DEF Met
<1>8. \A u \in Blocks :
        (u \in Ancestors(idom, p) /\ u \in Ancestors(idom, new_idom))
          <=> \A q \in Met' : u \in Ancestors(idom, q)
  BY <1>1, <1>7 DEF PathInv, MeetInv
<1>9. StrictDoms(succ, BlockInHand) \subseteq Doms(succ, p) \cap Doms(succ, new_idom)
  BY <1>1, <1>6 DEF PathInv, MeetInv
<1> QED
  BY <1>1, <1>2, <1>4, <1>5, <1>8, <1>9 DEF MeetInv

\* Of two blocks the lower one moves up: it is no ancestor of the other, so
\* the ancestors they share stay the same.
LEMMA Climb ==
  ASSUME IInv, PathInv, phase # "visit",
         NEW x, NEW y, Linked(x), Linked(y), post_order_id[x] < post_order_id[y],
         NEW b \in Blocks, StrictDoms(succ, b) \subseteq Doms(succ, x) \cap Doms(succ, y)
  PROVE  /\ \A u : u \in Ancestors(idom, x) /\ u \in Ancestors(idom, y)
                 <=> u \in Ancestors(idom, idom[x]) /\ u \in Ancestors(idom, y)
         /\ StrictDoms(succ, b) \subseteq Doms(succ, idom[x])
<1>1. /\ x \in Blocks /\ y \in Blocks /\ idom[x] \in Blocks /\ idom[y] \in Blocks
      /\ LinkTree(idom, post_order_id, Len(reverse_post_order)) /\ succ \in Graph
  BY TreeHolds DEF Linked
<1>2. x \in Numbered /\ y \in Numbered
  BY DEF Linked, Numbered
<1>3. post_order_id[x] \in Nat /\ post_order_id[y] \in Nat
  BY <1>2, NumbersOrder DEF IInv
<1>4. x # Entry
  <2> SUFFICES ASSUME x = Entry PROVE FALSE
    OBVIOUS
  <2>1. y # x
    BY <1>3
  <2>2. post_order_id[y] < post_order_id[x]
    BY <1>2, <2>1, NumbersOrder DEF IInv
  <2> QED
    BY <1>3, <2>2
<1>5. x \notin Ancestors(idom, y)
  <2> SUFFICES ASSUME x \in Ancestors(idom, y) PROVE FALSE
    OBVIOUS
  <2>1. post_order_id[y] <= post_order_id[x]
    BY <1>1, AncestorsHigher
  <2> QED
    BY <1>3, <2>1
<1>6. Ancestors(idom, x) = {x} \cup Ancestors(idom, idom[x])
  BY <1>1, AncestorsUnfold
<1>7. Doms(succ, y) \subseteq Ancestors(idom, y)
  BY <1>1, DominatorsAbove DEF PathInv, LinksInv
<1>8. StrictDoms(succ, b) \subseteq StrictDoms(succ, x)
  BY <1>5, <1>7 DEF StrictDoms
<1>9. StrictDoms(succ, x) \subseteq Doms(succ, idom[x])
  BY <1>1, <1>4 DEF PathInv, LinksInv, Bounded
<1> QED
  BY <1>5, <1>6, <1>8, <1>9

LEMMA ClimbPaths ==
  ASSUME IInv, PathInv, Climb1 \/ Climb2
  PROVE  MeetInv'
<1>1. /\ phase = "climb" /\ phase' = "climb"
      /\ UNCHANGED <<succ, pos, reverse_post_order, idom, left>>
  BY DEF Climb1, Climb2, visitVars
<1>2. pos <= Len(reverse_post_order) /\ Linked(b1) /\ Linked(b2)
  BY <1>1 DEF IInv, IdomInv
<1>3. BlockInHand \in Blocks /\ BlockInHand' = BlockInHand /\ Met' = Met
  BY <1>1, <1>2, CutNumber DEF BlockInHand, Met
<1>4. /\ left \subseteq ReadyIn(succ, idom, BlockInHand)
      /\ \A u \in Blocks :
            (u \in Ancestors(idom, b1) /\ u \in Ancestors(idom, b2))
              <=> \A p \in Met : u \in Ancestors(idom, p)
      /\ StrictDoms(succ, BlockInHand) \subseteq Doms(succ, b1) \cap Doms(succ, b2)
  BY <1>1 DEF PathInv, MeetInv
<1>5. /\ \A u : (u \in Ancestors(idom, b1) /\ u \in Ancestors(idom, b2))
                 <=> (u \in Ancestors(idom, b1') /\ u \in Ancestors(idom, b2'))
      /\ StrictDoms(succ, BlockInHand) \subseteq Doms(succ, b1') \cap Doms(succ, b2')
  <2>1. CASE Climb1
    <3>1. b1' = idom[b1] /\ b2' = b2 /\ post_order_id[b1] < post_order_id[b2]
      BY <2>1 DEF Climb1
    <3> QED
      BY <1>1, <1>2, <1>3, <1>4, <3>1, Climb
  <2>2. CASE Climb2
    <3>1. b2' = idom[b2] /\ b1' = b1 /\ post_order_id[b2] < post_order_id[b1]
      BY <2>2 DEF Climb2
    <3>2. StrictDoms(succ, BlockInHand) \subseteq Doms(succ, b2) \cap Doms(succ, b1)
      BY <1>4
    <3> QED
      BY <1>1, <1>2, <1>3, <1>4, <3>1, <3>2, Climb
  <2> QED
    BY <2>1, <2>2
<1> QED
  BY <1>1, <1>3, <1>4, <1>5 DEF MeetInv

LEMMA IntersectPaths ==
  ASSUME IInv, PathInv, CallIntersect \/ Climb1 \/ Climb2 \/ ReturnIntersect
  PROVE  PathInv'
<1>1. /\ IdomKept /\ visited' = visited /\ UNCHANGED <<pos, changed>>
      /\ phase' \in {"merge", "climb"}
  BY DEF IdomKept, CallIntersect, Climb1, Climb2, ReturnIntersect, visitVars
<1>2. MeetInv'
  <2>1. CASE ReturnIntersect
    <3>1. /\ phase = "climb" /\ phase' = "merge" /\ b1 = b2 /\ new_idom' = b1
          /\ UNCHANGED <<succ, pos, reverse_post_order, idom, left>>
      BY <2>1 DEF ReturnIntersect, visitVars
    <3>2. BlockInHand' = BlockInHand /\ Met' = Met
      BY <3>1 DEF BlockInHand, Met
    <3> QED
      BY <3>1, <3>2 DEF PathInv, MeetInv
  <2> QED
    BY <2>1, CallIntersectPaths, ClimbPaths
<1> QED
  BY <1>1, <1>2, KeptPaths DEF PathInv, SettledInv

\* SetIdom is a relink: the facts its effect on the links rests on.
LEMMA SetIdomRelinks ==
  ASSUME IInv, PathInv, SetIdom
  PROVE  /\ BlockInHand \in Blocks /\ post_order_id[BlockInHand] = Cut /\ Cut \in Nat
         /\ Relink(succ, idom, idom', post_order_id, Len(reverse_post_order), BlockInHand)
         /\ idom'[BlockInHand] = new_idom
         /\ StrictDoms(succ, BlockInHand) \subseteq Doms(succ, new_idom)
         /\ \A x \in Blocks \ {BlockInHand} : idom[x] \in Blocks => post_order_id[x] # Cut
         /\ \E p \in ReadyIn(succ, idom, BlockInHand) : post_order_id[BlockInHand] < post_order_id[p]
<1>1. /\ phase = "merge" /\ left = {}
      /\ idom' = [idom EXCEPT ![BlockInHand] = new_idom]
  BY DEF SetIdom, BlockInHand
<1>2. /\ pos <= Len(reverse_post_order) /\ BlockInHand # Entry
      /\ Linked(new_idom) /\ post_order_id[BlockInHand] < post_order_id[new_idom]
  BY <1>1 DEF IInv, IdomInv, Above, BlockInHand
<1>3. /\ BlockInHand \in Blocks /\ BlockInHand \in Numbered
      /\ post_order_id[BlockInHand] = Cut /\ Cut \in Nat
      /\ pos \in 1..Len(reverse_post_order) /\ Len(reverse_post_order) \in Nat
      /\ \A x \in Numbered \ {BlockInHand} : post_order_id[x] # Cut
  BY <1>2, CutNumber
<1>4. /\ idom'[BlockInHand] = new_idom
      /\ \A x \in Blocks \ {BlockInHand} : idom'[x] = idom[x]
  BY <1>1, <1>3 DEF IInv, TypeOK, BlockOrNull
<1>5. new_idom \in Blocks /\ idom[new_idom] \in Blocks
  BY <1>2, TreeHolds DEF Linked
<1>6. /\ \A u \in Blocks : u \in Ancestors(idom, new_idom)
             <=> \A p \in ReadyIn(succ, idom, BlockInHand) : u \in Ancestors(idom, p)
      /\ StrictDoms(succ, BlockInHand) \subseteq Doms(succ, new_idom)
  BY <1>1 DEF PathInv, MeetInv, Met
<1>7. LinkTree(idom, post_order_id, Len(reverse_post_order))
  BY <1>1, TreeHolds
<1>8. Cut <= Len(reverse_post_order)
  BY <1>3 DEF Cut
<1>9. Relink(succ, idom, idom', post_order_id, Len(reverse_post_order), BlockInHand)
  BY <1>2, <1>3, <1>4, <1>5, <1>6, <1>7, <1>8 DEF Relink
<1>10. \A x \in Blocks \ {BlockInHand} : idom[x] \in Blocks => post_order_id[x] # Cut
  BY <1>3, TreeHolds
<1>11. \E p \in ReadyIn(succ, idom, BlockInHand) : post_order_id[BlockInHand] < post_order_id[p]
  <2>1. PICK j \in 1..Len(reverse_post_order) :
          /\ j < pos
          /\ BlockInHand \in succ[reverse_post_order[j]]
          /\ reverse_post_order[j] \in Numbered
          /\ post_order_id[BlockInHand] < post_order_id[reverse_post_order[j]]
    BY <1>1, <1>2, <1>3, EarlierPred DEF IInv, BlockInHand
  <2>2. reverse_post_order[j] \in Blocks /\ idom[reverse_post_order[j]] \in Blocks
    BY <1>1, <2>1, TreeHolds DEF IInv, IdomInv, Numbered
  <2> QED
    BY <2>1, <2>2 DEF ReadyIn, Preds
<1> QED
  BY <1>3, <1>4, <1>6, <1>9, <1>10, <1>11

LEMMA SetIdomPaths ==
  ASSUME IInv, PathInv, SetIdom
  PROVE  PathInv'
<1>1. /\ phase' = "scan" /\ pos' = pos + 1
      /\ UNCHANGED <<succ, visited, reverse_post_order, post_order_id>>
      /\ changed' = (changed \/ idom[BlockInHand] # new_idom)
  BY DEF SetIdom, BlockInHand, visitVars
<1>2. Cut' = Cut - 1 /\ Cut \in Nat
  <2>1. Len(reverse_post_order) \in Nat /\ pos \in Nat
    BY LenProperties DEF IInv, TypeOK
  <2> QED
    BY <1>1, <2>1, SetIdomRelinks DEF Cut
<1>3. /\ BlockInHand \in Blocks /\ post_order_id[BlockInHand] = Cut
      /\ Relink(succ, idom, idom', post_order_id, Len(reverse_post_order), BlockInHand)
      /\ idom'[BlockInHand] = new_idom
      /\ StrictDoms(succ, BlockInHand) \subseteq Doms(succ, new_idom)
      /\ \A x \in Blocks \ {BlockInHand} : idom[x] \in Blocks => post_order_id[x] # Cut
      /\ \E p \in ReadyIn(succ, idom, BlockInHand) : post_order_id[BlockInHand] < post_order_id[p]
  BY SetIdomRelinks
<1>4. Bounded(succ, idom) /\ Meets(succ, idom) /\ Backed(succ, idom, post_order_id, Cut)
  BY DEF PathInv, LinksInv
<1>5. Bounded(succ, idom')
  BY <1>3, <1>4, RelinkBounded
<1>6. Meets(succ, idom')
  BY <1>3, <1>4, RelinkMeets
<1>7. Backed(succ, idom', post_order_id, Cut - 1)
  BY <1>3, <1>4, RelinkBacked
<1>8. ASSUME ~changed' PROVE Current(succ, idom', post_order_id, Cut - 1)
  <2>1. ~changed /\ idom[BlockInHand] = new_idom
    BY <1>1, <1>8
  <2>2. idom' = idom
    BY <1>3, <2>1 DEF SetIdom, BlockInHand, IInv, TypeOK
  <2>3. Current(succ, idom, post_order_id, Cut)
    BY <2>1 DEF PathInv, LinksInv
  <2> QED
    BY <1>3, <2>2, <2>3, KeptCurrent
<1>9. LinksInv'
  BY <1>1, <1>2, <1>5, <1>6, <1>7, <1>8 DEF LinksInv
<1> QED
  BY <1>1, <1>9 DEF PathInv, SearchInv, MeetInv, SettledInv

\* A pass that changed nothing: the links are the dominators.
LEMMA Settles ==
  ASSUME IInv, PathInv, phase = "scan", pos > Len(reverse_post_order), ~changed
  PROVE  \A b \in Reachable(succ) : idom[b] \in Blocks /\ Ancestors(idom, b) = Doms(succ, b)
<1>1. /\ LinkTree(idom, post_order_id, Len(reverse_post_order))
      /\ succ \in Graph /\ EntryHasNoPreds(succ) /\ Bounded(succ, idom)
  BY TreeHolds DEF PathInv, LinksInv
<1>2. Len(reverse_post_order) \in Nat /\ pos \in Nat /\ Cut \in Int /\ Cut < 0
  BY LenProperties DEF IInv, TypeOK, Cut
<1>3. \A x \in Reachable(succ) : idom[x] \in Blocks
  <2>1. ASSUME NEW x \in Numbered PROVE idom[x] # NoBlock
    <3>1. PICK i \in 1..Len(reverse_post_order) : reverse_post_order[i] = x
      BY DEF Numbered
    <3>2. i < pos
      BY <1>2, <3>1
    <3> QED
      BY <3>1, <3>2 DEF IInv, IdomInv
  <2> QED
    BY <2>1, NumberedReachable, TreeHolds DEF PathInv, Numbered
<1>4. \A x \in Reachable(succ) \ {Entry}, p \in Reachable(succ) :
        x \in succ[p] => Ancestors(idom, idom[x]) \subseteq Ancestors(idom, p)
  <2> SUFFICES ASSUME NEW x \in Reachable(succ) \ {Entry}, NEW p \in Reachable(succ), x \in succ[p]
               PROVE  Ancestors(idom, idom[x]) \subseteq Ancestors(idom, p)
    OBVIOUS
  <2>1. /\ x \in Blocks /\ p \in Blocks /\ idom[x] \in Blocks /\ idom[p] \in Blocks
    BY <1>1, <1>3, ReachableClosed
  <2>2. p \in ReadyIn(succ, idom, x)
    BY <2>1 DEF ReadyIn, Preds
  <2>3. Cut < post_order_id[x]
    <3>1. post_order_id[x] \in Nat
      BY <1>1, <2>1 DEF LinkTree
    <3> QED
      BY <1>2, <3>1
  <2> QED
    BY <2>1, <2>2, <2>3 DEF PathInv, LinksInv, Current
<1> QED
  BY <1>1, <1>3, <1>4, LinksExact

LEMMA OutputPaths ==
  ASSUME IInv, PathInv, StartFrontier \/ StartWalk \/ Walk \/ EndWalk \/ CreateDomTreeSucc
  PROVE  PathInv'
<1>1. /\ IdomKept /\ visited' = visited /\ UNCHANGED <<pos, changed>>
      /\ phase' \notin {"merge", "climb"}
  BY DEF IdomKept, StartFrontier, StartWalk, Walk, EndWalk, CreateDomTreeSucc, visitVars, idomVars
<1>2. SettledInv'
  <2>1. CASE StartFrontier
    <3>1. phase = "scan" /\ pos > Len(reverse_post_order) /\ ~changed
      BY <2>1 DEF StartFrontier
    <3> QED
      BY <1>1, <3>1, Settles DEF SettledInv, IdomKept
  <2>2. CASE StartWalk \/ Walk \/ EndWalk \/ CreateDomTreeSucc
    <3>1. phase \in {"frontier", "walk"}
      BY <2>2 DEF StartWalk, Walk, EndWalk, CreateDomTreeSucc
    <3> QED
      BY <1>1, <3>1 DEF PathInv, SettledInv, IdomKept
  <2> QED
    BY <2>1, <2>2
<1> QED
  BY <1>1, <1>2, KeptPaths DEF PathInv, MeetInv

LEMMA NextPaths == IInv /\ PathInv /\ [Next]_vars => PathInv'
<1> SUFFICES ASSUME IInv, PathInv, [Next]_vars PROVE PathInv'
  OBVIOUS
<1>1. CASE UNCHANGED vars
  BY <1>1 DEF vars, visitVars, idomVars, PathInv, SearchInv, LinksInv, MeetInv, SettledInv,
              Cut, BlockInHand, Met
<1> QED
  BY <1>1, VisitPaths, StartIdomPaths, ScanPaths, PickPredPaths, IntersectPaths, SetIdomPaths,
     OutputPaths DEF Next, Done

LEMMA PathsInductive == Spec => [](IInv /\ PathInv)
<1>1. Spec => []IInv
  BY Inductive
<1>2. Init => PathInv
  BY InitPaths
<1>3. IInv /\ PathInv /\ [Next]_vars => PathInv'
  BY NextPaths
<1> QED
  BY <1>1, <1>2, <1>3, PTL DEF Spec

-----------------------------------------------------------------------------
\* When create_idom returns, idom_ holds the immediate dominator of every
\* reachable block and null for the others, on every graph.
THEOREM IdomCorrect == Spec => []IdomExact
<1>1. ASSUME IInv, PathInv, phase \in {"frontier", "walk", "done"}, NEW b \in Blocks \ {Entry}
      PROVE  idom[b] = IF b \in Reachable(succ) THEN IDom(succ, b) ELSE NoBlock
  <2>1. /\ LinkTree(idom, post_order_id, Len(reverse_post_order))
        /\ \A x \in Reachable(succ) : idom[x] \in Blocks /\ Ancestors(idom, x) = Doms(succ, x)
    BY <1>1, TreeHolds DEF PathInv, SettledInv
  <2>2. CASE b \notin Reachable(succ)
    BY <1>1, <2>2, TreeHolds, NumberedReachable DEF PathInv
  <2>3. CASE b \in Reachable(succ)
    <3> DEFINE i == idom[b]
    <3>1. i \in Blocks /\ idom[i] \in Blocks
      BY <2>1, <2>3 DEF LinkTree
    <3>2. i \in Reachable(succ)
      BY <1>1, <3>1, TreeHolds, NumberedReachable DEF PathInv
    <3>3. post_order_id[b] < post_order_id[i] /\ post_order_id[b] \in Nat /\ post_order_id[i] \in Nat
      BY <1>1, <2>1, <3>1 DEF LinkTree
    <3>4. b \notin Ancestors(idom, i)
      <4>1. b \in Ancestors(idom, i) => post_order_id[i] <= post_order_id[b]
        BY <2>1, <3>1, AncestorsHigher
      <4> QED
        BY <3>3, <4>1
    <3>5. StrictDoms(succ, b) = Ancestors(idom, i)
      BY <2>1, <2>3, <3>1, <3>4, AncestorsUnfold DEF StrictDoms
    <3>6. i \in StrictDoms(succ, b) /\ \A e \in StrictDoms(succ, b) : e \in Doms(succ, i)
      BY <2>1, <3>1, <3>2, <3>5, AncestorsClosed
    <3>7. ASSUME NEW d \in StrictDoms(succ, b), \A e \in StrictDoms(succ, b) : e \in Doms(succ, d)
          PROVE  d = i
      <4>1. d \in Ancestors(idom, i) /\ d \in Blocks /\ idom[d] \in Blocks
        BY <2>1, <3>1, <3>5, <3>7, AncestorsHigher
      <4>2. d \in Reachable(succ)
        BY <1>1, <4>1, TreeHolds, NumberedReachable DEF PathInv
      <4>3. i \in Ancestors(idom, d)
        BY <2>1, <3>6, <3>7, <4>2
      <4>4. d # i => post_order_id[i] < post_order_id[d] /\ post_order_id[d] \in Nat
        BY <2>1, <3>1, <4>1, AncestorsHigher
      <4>5. post_order_id[d] <= post_order_id[i]
        BY <2>1, <4>1, <4>3, AncestorsHigher
      <4> QED
        BY <3>3, <4>4, <4>5
    <3> HIDE DEF i
    <3>8. IDom(succ, b) = i
      BY <3>6, <3>7 DEF IDom
    <3> QED
      BY <2>3, <3>8 DEF i
  <2> QED
    BY <2>2, <2>3
<1>2. IInv /\ PathInv => IdomExact
  BY <1>1 DEF IdomExact
<1> QED
  BY <1>2, PathsInductive, PTL

-----------------------------------------------------------------------------
(* The refinement: what the links stand for is an approximation of the     *)
(* dominators from above that only shrinks.                                *)

\* Chain is Ancestors for a block with a link, and everything without one.
LEMMA ChainIs ==
  ASSUME NEW f \in [BlockOrNull -> BlockOrNull], NEW b
  PROVE  {d \in Blocks : \A S \in SUBSET Blocks :
            (b \in S /\ \A a \in S : f[a] \in S \cup {NoBlock}) => d \in S}
         = Ancestors(f, b)
<1>1. \A S \in SUBSET Blocks : \A a \in S :
        f[a] \in S \cup {NoBlock} <=> (f[a] \in Blocks => f[a] \in S)
  BY NoBlockAssumption DEF BlockOrNull
<1> QED
  BY <1>1 DEF Ancestors

LEMMA ChainNow ==
  ASSUME TypeOK
  PROVE  \A b \in Blocks : Chain(b) = IF idom[b] \in Blocks THEN Ancestors(idom, b) ELSE Blocks
<1>1. \A b \in Blocks : idom[b] # NoBlock <=> idom[b] \in Blocks
  BY NoBlockAssumption DEF TypeOK, BlockOrNull
<1>2. idom \in [BlockOrNull -> BlockOrNull]
  BY DEF TypeOK
<1> QED
  BY <1>1, <1>2, ChainIs DEF Chain

LEMMA ChainNext ==
  ASSUME TypeOK'
  PROVE  \A b \in Blocks :
           Chain(b)' = IF idom'[b] \in Blocks THEN Ancestors(idom', b) ELSE Blocks
<1>1. \A b \in Blocks : idom'[b] # NoBlock <=> idom'[b] \in Blocks
  BY NoBlockAssumption DEF TypeOK, BlockOrNull
<1>2. idom' \in [BlockOrNull -> BlockOrNull]
  BY DEF TypeOK
<1> QED
  BY <1>1, <1>2, ChainIs DEF Chain

\* No state of the pass is below the dominators.
LEMMA ChainBounds ==
  ASSUME IInv, PathInv
  PROVE  \A b \in Blocks : Doms(succ, b) \subseteq Chain(b)
<1>1. \A b \in Blocks : Chain(b) = IF idom[b] \in Blocks THEN Ancestors(idom, b) ELSE Blocks
  BY ChainNow DEF IInv
<1>2. ASSUME NEW b \in Blocks, idom[b] \in Blocks PROVE Doms(succ, b) \subseteq Ancestors(idom, b)
  <2>1. LinkTree(idom, post_order_id, Len(reverse_post_order)) /\ succ \in Graph
    BY <1>2, TreeHolds
  <2> QED
    BY <1>2, <2>1, DominatorsAbove DEF PathInv, LinksInv
<1> QED
  BY <1>1, <1>2 DEF Doms

LEMMA BoundsNext == (IInv /\ PathInv)' => \A b \in Blocks : Doms(succ', b) \subseteq Chain(b)'
<1>1. IInv /\ PathInv => \A b \in Blocks : Doms(succ, b) \subseteq Chain(b)
  BY ChainBounds
<1>2. (IInv /\ PathInv)' => (\A b \in Blocks : Doms(succ, b) \subseteq Chain(b))'
  BY <1>1, PTL
<1> QED
  BY <1>2

\* SetIdom takes members away from Chain and adds none.
LEMMA ChainShrinks ==
  ASSUME IInv, PathInv, TypeOK', SetIdom
  PROVE  \A b \in Blocks : Chain(b)' \subseteq Chain(b)
<1>1. /\ \A b \in Blocks : Chain(b) = IF idom[b] \in Blocks THEN Ancestors(idom, b) ELSE Blocks
      /\ \A b \in Blocks :
           Chain(b)' = IF idom'[b] \in Blocks THEN Ancestors(idom', b) ELSE Blocks
  BY ChainNow, ChainNext DEF IInv
<1>2. /\ BlockInHand \in Blocks
      /\ Relink(succ, idom, idom', post_order_id, Len(reverse_post_order), BlockInHand)
  BY SetIdomRelinks
<1>3. \A b \in Blocks : idom[b] \in Blocks => Ancestors(idom', b) \subseteq Ancestors(idom, b)
  BY <1>2, RelinkShrinks DEF PathInv, LinksInv
<1>4. \A b \in Blocks : idom[b] \in Blocks => idom'[b] \in Blocks
  BY <1>2 DEF Relink
<1>5. \A b \in Blocks : Ancestors(idom', b) \subseteq Blocks
  BY AncestorsClosed
<1> QED
  BY <1>1, <1>3, <1>4, <1>5

\* The instance has the same dominators.
LEMMA SameDoms == \A g, b : Dominance!Doms(g, b) = Doms(g, b)
  BY DEF Dominance!Doms, Dominance!ReachedAvoiding, Dominance!ClosedAvoiding,
         Doms, ReachedAvoiding, ClosedAvoiding

\* Every step of the pass, the end of the iteration included, is a step of
\* the abstract specification or leaves its variables alone.
LEMMA StepRefines ==
  ASSUME IInv, PathInv, [Next]_vars, (IInv /\ PathInv)'
  PROVE  [Dominance!Next]_(Dominance!vars)
<1> DEFINE A == [b \in Blocks |-> Chain(b)]
           D == phase \in {"frontier", "walk", "done"}
<1>0. TypeOK' /\ succ' = succ
  BY DEF IInv, Next, Done, vars, visitVars, Descend, Number, StartIdom, SkipRoot, PickPred,
     CallIntersect, Climb1, Climb2, ReturnIntersect, SetIdom, NextPass, StartFrontier,
     StartWalk, Walk, EndWalk, CreateDomTreeSucc
<1>1. \A b \in Blocks : Doms(succ, b) \subseteq Chain(b)'
  BY <1>0, BoundsNext
<1>2. /\ \A b \in Blocks : Chain(b) = IF idom[b] \in Blocks THEN Ancestors(idom, b) ELSE Blocks
      /\ \A b \in Blocks :
           Chain(b)' = IF idom'[b] \in Blocks THEN Ancestors(idom', b) ELSE Blocks
  BY <1>0, ChainNow, ChainNext DEF IInv
<1>3. ASSUME ~D, ~D', \A b \in Blocks : Chain(b)' \subseteq Chain(b)
      PROVE  Dominance!Shrink
  BY <1>0, <1>1, <1>3, SameDoms DEF Dominance!Shrink
<1>4. CASE StartIdom
  <2>1. phase = "visit" /\ phase' = "scan"
    BY <1>4 DEF StartIdom
  <2>2. \A b \in Blocks : idom[b] \notin Blocks
    BY <2>1, TreeHolds
  <2>3. \A b \in Blocks : Chain(b)' \subseteq Chain(b)
    BY <1>2, <2>2, AncestorsClosed
  <2> QED
    BY <1>3, <2>1, <2>3 DEF Dominance!Next
<1>5. CASE SetIdom
  <2>1. phase = "merge" /\ phase' = "scan"
    BY <1>5 DEF SetIdom
  <2>2. \A b \in Blocks : Chain(b)' \subseteq Chain(b)
    BY <1>0, <1>5, ChainShrinks
  <2> QED
    BY <1>3, <2>1, <2>2 DEF Dominance!Next
<1>6. CASE StartFrontier
  <2>1. phase = "scan" /\ D' /\ idom' = idom /\ pos > Len(reverse_post_order) /\ ~changed
    BY <1>6 DEF StartFrontier, idomVars
  <2>2. \A b \in Blocks : Chain(b) = Doms(succ, b)
    <3>1. ASSUME NEW b \in Reachable(succ) PROVE Chain(b) = Doms(succ, b)
      BY <1>2, <2>1, <3>1, Settles, ReachableClosed, TreeHolds
    <3>2. ASSUME NEW b \in Blocks \ Reachable(succ) PROVE Chain(b) = Doms(succ, b)
      <4>1. idom[b] \notin Blocks
        BY TreeHolds, NumberedReachable DEF PathInv
      <4> QED
        BY <1>2, <4>1, DomsUnreachable, TreeHolds
    <3> QED
      BY <3>1, <3>2
  <2>3. \A b \in Blocks : Chain(b)' = Chain(b)
    BY <1>2, <2>1
  <2>4. A' = A
    BY <2>3
  <2> QED
    BY <1>0, <2>1, <2>2, <2>4, SameDoms DEF Dominance!Next, Dominance!Settle
<1>7. CASE UNCHANGED <<succ, idom>> /\ (D' <=> D)
  <2>1. \A b \in Blocks : Chain(b)' = Chain(b)
    BY <1>2, <1>7
  <2> QED
    BY <1>7, <2>1 DEF Dominance!vars
<1>8. ~(StartIdom \/ SetIdom \/ StartFrontier) => idom' = idom /\ (D' <=> D)
  BY DEF Next, Done, vars, idomVars, Descend, Number, SkipRoot, PickPred, Scanning,
     CallIntersect, Climb1, Climb2, ReturnIntersect, NextPass,
     StartWalk, Walk, EndWalk, CreateDomTreeSucc
<1> QED
  BY <1>0, <1>4, <1>5, <1>6, <1>7, <1>8

\* create_idom implements the set-based definition of dominance: the links
\* always stand for supersets of the true dominators, these only shrink, and
\* the iteration stops only when they are exact.
THEOREM IdomRefines == Spec => RefinesDominance
<1>1. Init => Dominance!Init
  <2> SUFFICES ASSUME Init PROVE Dominance!Init
    OBVIOUS
  <2>1. TypeOK /\ \A b \in Blocks : idom[b] \notin Blocks
    BY InitType, NoBlockAssumption DEF Init, BlockOrNull
  <2>2. \A b \in Blocks : Chain(b) = Blocks
    BY <2>1, ChainNow
  <2> QED
    BY <2>2 DEF Init, Dominance!Init
<1>2. IInv /\ PathInv /\ [Next]_vars /\ (IInv /\ PathInv)' => [Dominance!Next]_(Dominance!vars)
  BY StepRefines
<1> QED
  BY <1>1, <1>2, PathsInductive, PTL DEF Spec, RefinesDominance, Dominance!Spec

-----------------------------------------------------------------------------
(***************************************************************************)
(* Proofs about what create_dominance_frontier and create_dom_tree_succ    *)
(* read off the links: on every graph on which the pass returns, the       *)
(* frontiers of the reachable blocks are those of the definition, and the  *)
(* tree leads from the entry to every reachable block once.                *)
(*                                                                         *)
(* The walk from a predecessor of a join files the join at every block it  *)
(* passes.  The invariant relates the files to the walks: a walk that is   *)
(* over has filed its join wherever the definition asks for it (WalkInv),  *)
(* and nothing else is ever filed at a reachable block (FiledInv).  A walk *)
(* over a dead edge leaves the tree and does not end, so a pass that has   *)
(* returned has filed nothing under nullptr (StuckInv).                    *)
(***************************************************************************)

Live == Reachable(succ)

\* The walks create_dominance_frontier makes.
Pairs == {w \in Blocks \X Joins : w[1] \in Preds(succ, w[2])}

\* The frontier of a contains j, in terms of the links.
Wanted(a, p, j) == a \in Ancestors(idom, p) /\ a \notin Ancestors(idom, idom[j])

\* The walk from p is over: j is filed wherever it is wanted on account of p.
Filed(p, j) == \A a \in Live : Wanted(a, p, j) => j \in dom_frontier[a]

\* The walk from p is on: join is filed at what lies below the runner.
InHand(p) ==
  /\ runner \in Live /\ runner \in Ancestors(idom, p)
  /\ \A a \in Live :
       Wanted(a, p, join) /\ a \notin Ancestors(idom, runner) => join \in dom_frontier[a]

WalkInv ==
  /\ phase \in {"frontier", "walk"} => walks \subseteq Pairs
  /\ phase \in {"frontier", "walk"} => \A w \in Pairs \ walks : w[1] \in Live =>
       Filed(w[1], w[2]) \/ (phase = "walk" /\ w[2] = join /\ InHand(w[1]))
  /\ phase = "done" => \A w \in Pairs : w[1] \in Live => Filed(w[1], w[2])

FiledInv ==
  /\ \A a \in Live : \A j \in dom_frontier[a] :
       j \in Live /\ \E p \in Preds(succ, j) \cap Live : Wanted(a, p, j)
  /\ phase = "walk" /\ runner \in Live =>
       /\ join \in Live \ {Entry} /\ idom[join] \in Ancestors(idom, runner)
       /\ \E p \in Preds(succ, join) \cap Live : runner \in Ancestors(idom, p)

StuckInv ==
  \/ dom_frontier[NoBlock] = {}
  \/ phase = "walk" /\ runner = NoBlock /\ idom[join] # NoBlock

TreeInv ==
  phase = "done" =>
    dom_tree_succ = [p \in BlockOrNull |-> {b \in Blocks : idom[b] = p /\ b # p}]

\* Nothing is filed before the frontier phase.
StartInv ==
  phase \notin {"frontier", "walk", "done"} => dom_frontier = [b \in BlockOrNull |-> {}]

OutInv == WalkInv /\ FiledInv /\ StuckInv /\ TreeInv /\ StartInv

Settled == phase \in {"frontier", "walk", "done"}

-----------------------------------------------------------------------------
\* The settled links: the link of a reachable block other than the entry is
\* reachable and higher, and stands for the strict dominators.
LEMMA SettledLinks ==
  ASSUME IInv, PathInv, Settled
  PROVE  /\ LinkTree(idom, post_order_id, Len(reverse_post_order))
         /\ succ \in Graph /\ EntryHasNoPreds(succ)
         /\ Live \subseteq Blocks /\ Entry \in Live
         /\ \A a \in Live : succ[a] \subseteq Live
         /\ \A b \in Live : idom[b] \in Live /\ Ancestors(idom, b) = Doms(succ, b)
         /\ \A b \in Blocks : idom[b] \in Blocks => b \in Live
         /\ \A b \in Blocks \ Live : idom[b] = NoBlock
         /\ \A b \in Live \ {Entry} :
              /\ idom[b] # b /\ post_order_id[b] < post_order_id[idom[b]]
              /\ Ancestors(idom, idom[b]) = StrictDoms(succ, b)
<1>1. /\ LinkTree(idom, post_order_id, Len(reverse_post_order))
      /\ succ \in Graph /\ EntryHasNoPreds(succ)
      /\ \A b \in Blocks : idom[b] # NoBlock <=> idom[b] \in Blocks
  BY TreeHolds DEF Settled
<1>2. /\ Live \subseteq Blocks /\ Entry \in Live
      /\ \A a \in Live : succ[a] \subseteq Live
  BY <1>1, ReachableClosed DEF Live
<1>3. \A b \in Live : idom[b] \in Blocks /\ Ancestors(idom, b) = Doms(succ, b)
  BY DEF PathInv, SettledInv, Settled, Live
<1>4. \A b \in Blocks : idom[b] \in Blocks => b \in Live
  BY TreeHolds, NumberedReachable DEF PathInv, Live
<1>5. \A b \in Live : idom[b] \in Live
  BY <1>1, <1>2, <1>3, <1>4 DEF LinkTree
<1>6. \A b \in Blocks \ Live : idom[b] = NoBlock
  BY <1>1, <1>4
<1>7. ASSUME NEW b \in Live \ {Entry}
      PROVE  /\ idom[b] # b /\ post_order_id[b] < post_order_id[idom[b]]
             /\ Ancestors(idom, idom[b]) = StrictDoms(succ, b)
  <2>1. b \in Blocks /\ idom[b] \in Blocks /\ idom[idom[b]] \in Blocks
    BY <1>2, <1>3, <1>5
  <2>2. /\ post_order_id[b] < post_order_id[idom[b]]
        /\ post_order_id[b] \in Nat /\ post_order_id[idom[b]] \in Nat
    BY <1>1, <2>1 DEF LinkTree
  <2>3. b \notin Ancestors(idom, idom[b])
    <3>1. b \in Ancestors(idom, idom[b]) => post_order_id[idom[b]] <= post_order_id[b]
      BY <1>1, <2>1, AncestorsHigher
    <3> QED
      BY <2>2, <3>1
  <2>4. Ancestors(idom, b) = {b} \cup Ancestors(idom, idom[b])
    BY <2>1, AncestorsUnfold
  <2> QED
    BY <1>3, <2>2, <2>3, <2>4 DEF StrictDoms
<1> QED
  BY <1>1, <1>2, <1>3, <1>4, <1>5, <1>6, <1>7

\* The walk of a reachable predecessor starts below the link of its join.
LEMMA WalkStarts ==
  ASSUME IInv, PathInv, Settled, NEW p \in Live, NEW j \in Blocks, p \in Preds(succ, j)
  PROVE  /\ j \in Live \ {Entry} /\ idom[j] \in Ancestors(idom, p)
         /\ p \in Ancestors(idom, p)
<1>1. p \in Blocks /\ j \in succ[p]
  BY DEF Preds
<1>2. j \in Live \ {Entry}
  BY <1>1, SettledLinks DEF EntryHasNoPreds
<1>3. Ancestors(idom, idom[j]) \subseteq Ancestors(idom, p)
  BY <1>1, <1>2, SettledLinks, DomsAlongEdge
<1>4. idom[j] \in Blocks
  BY <1>2, SettledLinks
<1> QED
  BY <1>1, <1>2, <1>3, <1>4, AncestorsClosed

\* The runner moves up one link.
LEMMA RunnerUp ==
  ASSUME IInv, PathInv, phase = "walk", FiledInv, runner \in Live, runner # idom[join]
  PROVE  /\ idom[runner] \in Live
         /\ Ancestors(idom, runner) = {runner} \cup Ancestors(idom, idom[runner])
         /\ idom[join] \in Ancestors(idom, idom[runner])
         /\ runner \notin Ancestors(idom, idom[join])
         /\ \A p \in Blocks : runner \in Ancestors(idom, p) => idom[runner] \in Ancestors(idom, p)
<1>1. /\ join \in Live \ {Entry} /\ idom[join] \in Ancestors(idom, runner)
      /\ runner \in Blocks /\ idom[runner] \in Live /\ idom[runner] \in Blocks
      /\ idom[join] \in Blocks /\ idom[idom[join]] \in Blocks
      /\ LinkTree(idom, post_order_id, Len(reverse_post_order))
  BY SettledLinks DEF FiledInv, Settled
<1>2. Ancestors(idom, runner) = {runner} \cup Ancestors(idom, idom[runner])
  BY <1>1, AncestorsUnfold
<1>3. runner \notin Ancestors(idom, idom[join])
  <2> SUFFICES ASSUME runner \in Ancestors(idom, idom[join]) PROVE FALSE
    OBVIOUS
  <2>1. /\ post_order_id[idom[join]] <= post_order_id[runner]
        /\ post_order_id[idom[join]] \in Nat /\ post_order_id[runner] \in Nat
    BY <1>1, AncestorsHigher
  <2>2. post_order_id[runner] < post_order_id[idom[join]]
    BY <1>1, AncestorsHigher
  <2> QED
    BY <2>1, <2>2
<1>4. \A p \in Blocks : runner \in Ancestors(idom, p) => idom[runner] \in Ancestors(idom, p)
  BY <1>1, AncestorsClosed
<1> QED
  BY <1>1, <1>2, <1>3, <1>4

-----------------------------------------------------------------------------
(* One lemma per action that moves a walk or files a block. *)

LEMMA InitOut == Init => OutInv
<1> SUFFICES ASSUME Init PROVE OutInv
  OBVIOUS
<1>1. phase = "visit" /\ dom_frontier = [b \in BlockOrNull |-> {}]
  BY DEF Init
<1>2. \A b \in BlockOrNull : dom_frontier[b] = {}
  BY <1>1
<1>3. NoBlock \in BlockOrNull /\ Live \subseteq BlockOrNull
  BY DEF BlockOrNull, Live, Reachable
<1> QED
  BY <1>1, <1>2, <1>3 DEF OutInv, WalkInv, FiledInv, StuckInv, TreeInv, StartInv

\* Before the frontier phase nothing has been filed.
LEMMA EarlyOut ==
  ASSUME OutInv, ~Settled, phase' \notin {"walk", "done"}, dom_frontier' = dom_frontier,
         phase' = "frontier" => walks' = Pairs', succ' = succ
  PROVE  OutInv'
<1>1. \A b \in BlockOrNull : dom_frontier'[b] = {}
  BY DEF OutInv, StartInv, Settled
<1>2. NoBlock \in BlockOrNull /\ Live' \subseteq BlockOrNull
  BY DEF BlockOrNull, Live, Reachable
<1>3. StartInv'
  BY DEF OutInv, StartInv, Settled
<1>4. WalkInv'
  BY DEF WalkInv
<1> QED
  BY <1>1, <1>2, <1>3, <1>4 DEF OutInv, FiledInv, StuckInv, TreeInv

LEMMA StartWalkOut ==
  ASSUME IInv, PathInv, OutInv, StartWalk
  PROVE  OutInv'
<1>1. /\ phase = "frontier" /\ phase' = "walk" /\ walks # {}
      /\ UNCHANGED <<succ, idom, dom_frontier>>
  BY DEF StartWalk, visitVars, idomVars
<1>2. PICK w \in walks : runner' = w[1] /\ join' = w[2] /\ walks' = walks \ {w}
  BY <1>1 DEF StartWalk
<1>3. walks \subseteq Pairs /\ Pairs' = Pairs /\ Live' = Live
  BY <1>1 DEF OutInv, WalkInv, Pairs, Joins, Live
<1>4. /\ runner' \in Blocks /\ join' \in Blocks /\ runner' \in Preds(succ, join')
      /\ \A x \in Pairs : x[1] = w[1] /\ x[2] = w[2] => x = w
  BY <1>2, <1>3 DEF Pairs, Joins
<1>5. runner' \in Live => /\ join' \in Live \ {Entry} /\ idom[join'] \in Ancestors(idom, runner')
                          /\ runner' \in Ancestors(idom, runner')
  BY <1>1, <1>4, WalkStarts DEF Settled
<1>6. FiledInv'
  <2>1. \A a \in Live : \A j \in dom_frontier[a] :
          j \in Live /\ \E p \in Preds(succ, j) \cap Live : Wanted(a, p, j)
    BY DEF OutInv, FiledInv
  <2>2. \A a, p, j : Wanted(a, p, j)' <=> Wanted(a, p, j)
    BY <1>1 DEF Wanted
  <2> QED
    BY <1>1, <1>3, <1>4, <1>5, <2>1, <2>2 DEF FiledInv
<1>7. WalkInv'
  <2>1. ASSUME NEW x \in Pairs \ walks, x[1] \in Live PROVE Filed(x[1], x[2])'
    <3>1. Filed(x[1], x[2])
      BY <1>1, <2>1 DEF OutInv, WalkInv
    <3> QED
      BY <1>1, <3>1 DEF Filed, Wanted, Live
  <2>2. w[1] \in Live => InHand(w[1])'
    BY <1>1, <1>2, <1>3, <1>5 DEF InHand, Wanted
  <2> QED
    BY <1>1, <1>2, <1>3, <2>1, <2>2 DEF WalkInv
<1>8. StuckInv'
  BY <1>1 DEF OutInv, StuckInv
<1> QED
  BY <1>1, <1>6, <1>7, <1>8 DEF OutInv, TreeInv, StartInv

LEMMA WalkOut ==
  ASSUME IInv, PathInv, OutInv, Walk
  PROVE  OutInv'
<1>1. /\ phase = "walk" /\ phase' = "walk" /\ runner # idom[join]
      /\ runner' = idom[runner]
      /\ UNCHANGED <<succ, idom, walks, join>>
      /\ dom_frontier' = [dom_frontier EXCEPT ![runner] = @ \cup {join}]
  BY DEF Walk, visitVars, idomVars
<1>2. /\ dom_frontier \in [BlockOrNull -> SUBSET Blocks] /\ runner \in BlockOrNull
      /\ idom \in [BlockOrNull -> BlockOrNull] /\ idom[NoBlock] = NoBlock /\ join \in Blocks
  BY <1>1 DEF IInv, TypeOK, IdomInv
<1>3. \A b \in BlockOrNull :
        dom_frontier'[b] = IF b = runner THEN dom_frontier[b] \cup {join} ELSE dom_frontier[b]
  BY <1>1, <1>2
<1>4. /\ Live' = Live /\ Pairs' = Pairs /\ Live \subseteq Blocks /\ Live \subseteq BlockOrNull
      /\ NoBlock \in BlockOrNull /\ NoBlock \notin Live
      /\ \A a, p, j : Wanted(a, p, j)' <=> Wanted(a, p, j)
  BY <1>1, NoBlockAssumption DEF Live, Pairs, Joins, BlockOrNull, Reachable, Wanted
<1>5. runner \notin Live => runner' = NoBlock
  BY <1>1, <1>2, SettledLinks DEF Settled, BlockOrNull
<1>6. runner \in Live => /\ runner' \in Live /\ idom[join] \in Ancestors(idom, runner')
                         /\ Ancestors(idom, runner) = {runner} \cup Ancestors(idom, runner')
                         /\ runner \notin Ancestors(idom, idom[join])
                         /\ \A p \in Blocks : runner \in Ancestors(idom, p) => runner' \in Ancestors(idom, p)
  BY <1>1, RunnerUp DEF OutInv
<1>7. FiledInv'
  <2>1. ASSUME NEW a \in Live, NEW j \in dom_frontier'[a]
        PROVE  j \in Live /\ \E p \in Preds(succ, j) \cap Live : Wanted(a, p, j)
    <3>1. CASE j \in dom_frontier[a]
      BY <3>1 DEF OutInv, FiledInv
    <3>2. CASE a = runner /\ j = join
      BY <1>1, <1>6, <3>2 DEF OutInv, FiledInv, Wanted
    <3> QED
      BY <1>3, <1>4, <2>1, <3>1, <3>2
  <2>2. ASSUME runner' \in Live
        PROVE  /\ join \in Live \ {Entry} /\ idom[join] \in Ancestors(idom, runner')
               /\ \E p \in Preds(succ, join) \cap Live : runner' \in Ancestors(idom, p)
    <3>1. runner \in Live
      BY <1>4, <1>5, <2>2
    <3> QED
      BY <1>1, <1>6, <3>1 DEF OutInv, FiledInv, Preds
  <2> QED
    BY <1>1, <1>4, <2>1, <2>2 DEF FiledInv
<1>8. WalkInv'
  <2>1. ASSUME NEW w \in Pairs \ walks, w[1] \in Live
        PROVE  Filed(w[1], w[2])' \/ (w[2] = join /\ InHand(w[1])')
    <3>1. w[1] \in Blocks
      BY DEF Pairs
    <3>2. CASE Filed(w[1], w[2])
      BY <1>3, <1>4, <3>2 DEF Filed
    <3>3. CASE w[2] = join /\ InHand(w[1])
      <4>1. runner \in Live /\ runner' \in Live /\ runner' \in Ancestors(idom, w[1])
        BY <1>6, <3>1, <3>3 DEF InHand
      <4>2. ASSUME NEW a \in Live, Wanted(a, w[1], join), a \notin Ancestors(idom, runner')
            PROVE  join \in dom_frontier'[a]
        <5>1. CASE a = runner
          BY <1>3, <1>4, <5>1
        <5>2. CASE a # runner
          BY <1>3, <1>4, <1>6, <3>3, <4>1, <4>2, <5>2 DEF InHand
        <5> QED
          BY <5>1, <5>2
      <4> QED
        BY <1>1, <1>4, <3>3, <4>1, <4>2 DEF InHand
    <3> QED
      BY <1>1, <2>1, <3>2, <3>3 DEF OutInv, WalkInv
  <2> QED
    BY <1>1, <1>4, <2>1 DEF OutInv, WalkInv
<1>9. StuckInv'
  <2>1. CASE runner = NoBlock
    BY <1>1, <1>2, <2>1 DEF StuckInv
  <2>2. CASE runner # NoBlock
    BY <1>1, <1>3, <1>4, <2>2 DEF OutInv, StuckInv
  <2> QED
    BY <2>1, <2>2
<1> QED
  BY <1>1, <1>7, <1>8, <1>9 DEF OutInv, TreeInv, StartInv

LEMMA EndWalkOut ==
  ASSUME OutInv, EndWalk
  PROVE  OutInv'
<1>1. /\ phase = "walk" /\ phase' = "frontier" /\ runner = idom[join]
      /\ UNCHANGED <<succ, idom, walks, join, runner, dom_frontier>>
  BY DEF EndWalk, visitVars, idomVars, outVars
<1>2. Live' = Live /\ Pairs' = Pairs /\ \A a, p, j : Wanted(a, p, j)' <=> Wanted(a, p, j)
  BY <1>1 DEF Live, Pairs, Joins, Wanted
<1>3. ASSUME NEW w \in Pairs \ walks, w[1] \in Live PROVE Filed(w[1], w[2])'
  <2>1. Filed(w[1], w[2])
    BY <1>1, <1>3 DEF OutInv, WalkInv, InHand, Filed, Wanted
  <2> QED
    BY <1>1, <1>2, <2>1 DEF Filed
<1>4. WalkInv'
  BY <1>1, <1>2, <1>3 DEF OutInv, WalkInv
<1>5. FiledInv'
  BY <1>1, <1>2 DEF OutInv, FiledInv
<1> QED
  BY <1>1, <1>4, <1>5 DEF OutInv, StuckInv, TreeInv, StartInv

LEMMA CreateDomTreeSuccOut ==
  ASSUME OutInv, CreateDomTreeSucc
  PROVE  OutInv'
<1>1. /\ phase = "frontier" /\ phase' = "done" /\ walks = {}
      /\ dom_tree_succ' = [p \in BlockOrNull |-> {b \in Blocks : idom[b] = p /\ b # p}]
      /\ UNCHANGED <<succ, idom, dom_frontier>>
  BY DEF CreateDomTreeSucc, visitVars, idomVars
<1>2. Live' = Live /\ Pairs' = Pairs /\ \A a, p, j : Wanted(a, p, j)' <=> Wanted(a, p, j)
  BY <1>1 DEF Live, Pairs, Joins, Wanted
<1>3. ASSUME NEW w \in Pairs, w[1] \in Live PROVE Filed(w[1], w[2])'
  <2>1. Filed(w[1], w[2])
    BY <1>1, <1>3 DEF OutInv, WalkInv
  <2> QED
    BY <1>1, <1>2, <2>1 DEF Filed
<1>4. FiledInv' /\ WalkInv'
  BY <1>1, <1>2, <1>3 DEF OutInv, FiledInv, WalkInv
<1> QED
  BY <1>1, <1>4 DEF OutInv, StuckInv, TreeInv, StartInv

LEMMA NextOut == IInv /\ PathInv /\ OutInv /\ [Next]_vars => OutInv'
<1> SUFFICES ASSUME IInv, PathInv, OutInv, [Next]_vars PROVE OutInv'
  OBVIOUS
<1>1. CASE StartFrontier
  <2>1. /\ phase = "scan" /\ phase' = "frontier" /\ walks' = Pairs
        /\ UNCHANGED <<succ, dom_frontier>>
    BY <1>1 DEF StartFrontier, Pairs
  <2>2. Pairs' = Pairs
    BY <2>1 DEF Pairs, Joins
  <2> QED
    BY <2>1, <2>2, EarlyOut DEF Settled
<1>2. CASE UNCHANGED vars
  BY <1>2 DEF vars, visitVars, idomVars, outVars, OutInv, WalkInv, FiledInv, StuckInv, TreeInv,
              StartInv, Filed, InHand, Wanted, Pairs, Joins, Live
<1>3. CASE \/ \E b \in Blocks : Descend(b)
           \/ Number \/ StartIdom \/ SkipRoot \/ PickPred
           \/ CallIntersect \/ Climb1 \/ Climb2 \/ ReturnIntersect \/ SetIdom \/ NextPass
  <2>1. ~Settled /\ phase' \notin {"frontier", "walk", "done"} /\ succ' = succ
        /\ dom_frontier' = dom_frontier
    BY <1>3 DEF Settled, Descend, Number, StartIdom, SkipRoot, PickPred, Scanning, CallIntersect,
                Climb1, Climb2, ReturnIntersect, SetIdom, NextPass, outVars
  <2> QED
    BY <2>1, EarlyOut
<1> QED
  BY <1>1, <1>2, <1>3, StartWalkOut, WalkOut, EndWalkOut, CreateDomTreeSuccOut DEF Next, Done

LEMMA OutInductive == Spec => [](IInv /\ PathInv /\ OutInv)
<1>1. Spec => [](IInv /\ PathInv)
  BY PathsInductive
<1>2. Init => OutInv
  BY InitOut
<1>3. IInv /\ PathInv /\ OutInv /\ [Next]_vars => OutInv'
  BY NextOut
<1> QED
  BY <1>1, <1>2, <1>3, PTL DEF Spec

-----------------------------------------------------------------------------
\* A block with one predecessor is in no frontier: everything above the
\* predecessor is above the block.
LEMMA OnlyPred ==
  ASSUME IInv, PathInv, Settled, NEW j \in Blocks \ Joins, NEW p \in Preds(succ, j) \cap Live,
         NEW a, Wanted(a, p, j)
  PROVE  FALSE
<1>1. j \in Live \ {Entry} /\ idom[j] \in Blocks /\ p \in Blocks
  BY WalkStarts, SettledLinks
<1>2. \A q \in Preds(succ, j) : q = p
  <2> SUFFICES ASSUME NEW q \in Preds(succ, j), q # p PROVE FALSE
    OBVIOUS
  <2>1. IsFiniteSet(Preds(succ, j))
    BY BlocksAssumption, FS_Subset DEF Preds
  <2>2. IsFiniteSet({p}) /\ Cardinality({p}) = 1
    BY FS_Singleton
  <2>3. Cardinality({p} \cup {q}) = 2
    <3>1. Cardinality({p} \cup {q}) = Cardinality({p}) + 1
      <4>1. q \notin {p}
        OBVIOUS
      <4> QED
        BY <2>2, <4>1, FS_AddElement
    <3> QED
      BY <2>2, <3>1
  <2>4. 2 <= Cardinality(Preds(succ, j))
    <3>1. {p} \cup {q} \in SUBSET Preds(succ, j)
      OBVIOUS
    <3> QED
      BY <2>1, <2>3, <3>1, FS_Subset
  <2>5. Cardinality(Preds(succ, j)) \in Nat
    BY <2>1, FS_CardinalityType
  <2> QED
    BY <2>4, <2>5 DEF Joins
<1>3. a \in Blocks /\ \A q \in ReadyIn(succ, idom, j) : a \in Ancestors(idom, q)
  BY <1>1, <1>2, AncestorsClosed DEF ReadyIn, Wanted
<1>4. a \in Ancestors(idom, idom[j])
  BY <1>1, <1>3 DEF PathInv, LinksInv, Meets
<1> QED
  BY <1>4 DEF Wanted

\* When the pass returns, the frontier of every reachable block is that of
\* the definition and nothing has been filed under nullptr.
THEOREM FrontierCorrect == Spec => []FrontierExact
<1>1. ASSUME IInv, PathInv, OutInv, phase = "done", NEW a \in Live
      PROVE  dom_frontier[a] = Frontier(succ, a)
  <2>1. Settled
    BY <1>1 DEF Settled
  <2>2. \A p \in Live, j \in Live \ {Entry} :
          Wanted(a, p, j) <=> a \in Doms(succ, p) /\ a \notin StrictDoms(succ, j)
    BY <1>1, <2>1, SettledLinks DEF Wanted
  <2>3. ASSUME NEW j \in dom_frontier[a] PROVE j \in Frontier(succ, a)
    <3>1. PICK p \in Preds(succ, j) \cap Live : j \in Live /\ Wanted(a, p, j)
      BY <1>1, <2>3 DEF OutInv, FiledInv
    <3>2. j \in Live \ {Entry}
      BY <1>1, <2>1, <3>1, WalkStarts, SettledLinks
    <3> QED
      BY <2>2, <3>1, <3>2 DEF Frontier, Live
  <2>4. ASSUME NEW j \in Frontier(succ, a) PROVE j \in dom_frontier[a]
    <3>1. PICK p \in Preds(succ, j) \cap Live :
            j \in Live /\ a \in Doms(succ, p) /\ a \notin StrictDoms(succ, j)
      BY <2>4 DEF Frontier, Live
    <3>2. j \in Blocks /\ j \in Live \ {Entry} /\ p \in Blocks
      BY <1>1, <2>1, <3>1, WalkStarts, SettledLinks
    <3>3. Wanted(a, p, j)
      BY <2>2, <3>1, <3>2
    <3>4. j \in Joins
      BY <1>1, <2>1, <3>1, <3>2, <3>3, OnlyPred
    <3>5. <<p, j>> \in Pairs
      BY <3>1, <3>2, <3>4 DEF Pairs
    <3> QED
      BY <1>1, <3>1, <3>3, <3>5 DEF OutInv, WalkInv, Filed
  <2> QED
    BY <2>3, <2>4
<1>2. ASSUME IInv, OutInv, phase = "done" PROVE dom_frontier[NoBlock] = {}
  BY <1>2 DEF OutInv, StuckInv
<1>3. IInv /\ PathInv /\ OutInv => FrontierExact
  BY <1>1, <1>2 DEF FrontierExact, Live
<1> QED
  BY <1>3, OutInductive, PTL

\* When the pass returns, every reachable block but the entry has one parent
\* in the tree, and the tree leads from the entry to all reachable blocks and
\* to no other.
THEOREM TreeCorrect == Spec => []TreeSpans
<1>1. ASSUME IInv, PathInv, OutInv, phase = "done"
      PROVE  /\ \A b \in Live \ {Entry} : Cardinality({p \in Live : b \in dom_tree_succ[p]}) = 1
             /\ \A p \in Live : dom_tree_succ[p] \subseteq Live \ {Entry}
             /\ \A S \in SUBSET Live :
                  (Entry \in S /\ \A p \in S : dom_tree_succ[p] \subseteq S) => S = Live
  <2>1. Settled
    BY <1>1 DEF Settled
  <2>2. /\ LinkTree(idom, post_order_id, Len(reverse_post_order))
        /\ Live \subseteq Blocks /\ Live \subseteq BlockOrNull /\ Entry \in Live
        /\ \A b \in Live : idom[b] \in Live
        /\ \A b \in Blocks : idom[b] \in Blocks => b \in Live
        /\ \A b \in Live \ {Entry} : idom[b] # b /\ post_order_id[b] < post_order_id[idom[b]]
    BY <1>1, <2>1, SettledLinks DEF BlockOrNull
  <2>3. \A p \in Live : dom_tree_succ[p] = {b \in Blocks : idom[b] = p /\ b # p}
    BY <1>1, <2>2 DEF OutInv, TreeInv
  <2>4. ASSUME NEW b \in Live \ {Entry} PROVE Cardinality({p \in Live : b \in dom_tree_succ[p]}) = 1
    <3>1. {p \in Live : b \in dom_tree_succ[p]} = {idom[b]}
      BY <2>2, <2>3
    <3> QED
      BY <3>1, FS_Singleton
  <2>5. \A p \in Live : dom_tree_succ[p] \subseteq Live \ {Entry}
    BY <2>2, <2>3 DEF LinkTree
  <2>6. ASSUME NEW S \in SUBSET Live, Entry \in S, \A p \in S : dom_tree_succ[p] \subseteq S
        PROVE  S = Live
    <3> DEFINE T == Live \ S
    <3> SUFFICES ASSUME T # {} PROVE FALSE
      OBVIOUS
    <3>1. /\ Len(reverse_post_order) \in Nat
          /\ \A c \in T : post_order_id[c] \in Nat /\ post_order_id[c] <= Len(reverse_post_order)
      BY <2>2 DEF LinkTree
    <3>2. PICK c \in T : \A d \in T : post_order_id[d] <= post_order_id[c]
      <4> HIDE DEF T
      <4> QED
        BY <3>1, HighestBlock
    <3>3. c \in Live \ {Entry} /\ idom[c] \in Live /\ c \notin S
      BY <2>2, <2>6
    <3>4. idom[c] \notin T
      <4> SUFFICES ASSUME idom[c] \in T PROVE FALSE
        OBVIOUS
      <4>1. post_order_id[idom[c]] <= post_order_id[c]
        BY <3>2
      <4> QED
        BY <2>2, <3>1, <3>2, <3>3, <4>1
    <3>5. c \in dom_tree_succ[idom[c]]
      BY <2>2, <2>3, <3>3
    <3> QED
      BY <2>6, <3>3, <3>4, <3>5
  <2> QED
    BY <2>4, <2>5, <2>6
<1>2. IInv /\ PathInv /\ OutInv => TreeSpans
  BY <1>1 DEF TreeSpans, Live
<1> QED
  BY <1>2, OutInductive, PTL
=============================================================================
