--------------------------- MODULE DeadCodeProof ---------------------------
(***************************************************************************)
(* Proofs about DeadCode, for any number of functions and instructions and *)
(* any operand graph, cycles included.                                     *)
(*                                                                         *)
(* MarkInv is the classical argument for marking: everything marked is     *)
(* needed, and an operand of a marked instruction is marked unless the     *)
(* instruction is still queued or its operands are being walked.  So when  *)
(* the queue is empty the marked set is closed, and what sweep deletes is  *)
(* disjoint from what is needed (SweepInv).  SweptInv carries exactness    *)
(* from function to function and shows the second round to be idle.        *)
(***************************************************************************)
EXTENDS DeadCode, SequenceTheorems, TLAPS

Queued(i) == \E k \in 1..Len(work_list) : work_list[k] = i

UseInv ==
  /\ \A v \in Instrs : \A u \in use_list[v] : v \in operands[u]
  /\ \A v \in instructions : use_list[v] = Users(v) \ wait_del

MarkInv ==
  /\ phase \in {"scan", "mark", "erase"} =>
       /\ func \in Funcs \ todo
       /\ marked \subseteq InFunc(func) \cap Needed
       /\ unseen \subseteq InFunc(func)
       /\ \A i \in InFunc(func) : is_critical(i) => i \in marked \cup unseen
  /\ phase = "scan" => marked \cap unseen = {} /\ \A i \in marked : Queued(i)
  /\ phase = "mark" =>
       /\ \A i \in marked :
            \/ Queued(i)
            \/ operands[i] \subseteq marked
            \/ i = now /\ operands[i] \subseteq marked \cup ops
       /\ ops # {} => now \in marked /\ ops \subseteq operands[now]
  /\ phase # "mark" => ops = {}
  /\ phase # "scan" => unseen = {}

SweepInv ==
  /\ phase # "erase" => wait_del = {}
  /\ phase = "erase" =>
       /\ wait_del = InFunc(func) \ marked
       /\ \A i \in marked : operands[i] \subseteq marked

SweptInv ==
  /\ phase \in {"next", "done"} => func = NoFunc
  /\ phase = "done" => todo = {}
  /\ \A f \in Funcs \ todo : f # func => InFunc(f) \subseteq Needed
  /\ round \in 1..2
  /\ round = 2 => ~changed /\ instructions \subseteq Needed

IInv ==
  TypeOK /\ NoDangling /\ UseInv /\ MarkInv /\ SweepInv /\ SweptInv /\ QueuedOnce

-----------------------------------------------------------------------------
(* The least closed set. *)

LEMMA NeededClosed ==
  ASSUME TypeOK
  PROVE  Needed \subseteq Instrs /\ ClosedUnderOperands(Needed)
<1>1. \A i \in Instrs : operands[i] \subseteq Instrs
  BY DEF TypeOK, WellFormed
<1> QED
  BY <1>1 DEF Needed, ClosedUnderOperands

LEMMA NeededLeast ==
  ASSUME NEW S \in SUBSET Instrs, ClosedUnderOperands(S)
  PROVE  Needed \subseteq S
  BY DEF Needed

LEMMA SameProgram ==
  ASSUME UNCHANGED progVars
  PROVE  /\ Needed' = Needed
         /\ \A i : is_critical(i)' <=> is_critical(i)
  BY DEF progVars, Needed, ClosedUnderOperands, is_critical

LEMMA SameInstructions ==
  ASSUME UNCHANGED <<progVars, instructions>>
  PROVE  \A x : Users(x)' = Users(x) /\ InFunc(x)' = InFunc(x)
  BY DEF progVars, Users, InFunc

(* The queue. *)

LEMMA AppendQueue ==
  ASSUME NEW s \in Seq(Instrs), NEW x \in Instrs
  PROVE  /\ Append(s, x) \in Seq(Instrs)
         /\ Len(s) \in Nat /\ Len(Append(s, x)) = Len(s) + 1
         /\ \A i \in 1..Len(s) : Append(s, x)[i] = s[i]
         /\ Append(s, x)[Len(s)+1] = x
         /\ \A i \in 1..Len(s)+1 : i \in 1..Len(s) \/ i = Len(s) + 1
         /\ \A y : (\E i \in 1..Len(Append(s, x)) : Append(s, x)[i] = y)
                    <=> y = x \/ \E i \in 1..Len(s) : s[i] = y
<1>1. /\ Append(s, x) \in Seq(Instrs)
      /\ Len(s) \in Nat /\ Len(Append(s, x)) = Len(s) + 1
      /\ \A i \in 1..Len(s) : Append(s, x)[i] = s[i]
      /\ Append(s, x)[Len(s)+1] = x
  BY AppendProperties, LenProperties
<1>2. \A i \in 1..Len(s)+1 : i \in 1..Len(s) \/ i = Len(s) + 1
  BY <1>1
<1>3. /\ Len(s) + 1 \in 1..Len(s)+1
      /\ \A i \in 1..Len(s) : i \in 1..Len(s)+1
  BY <1>1
<1> QED
  BY <1>1, <1>2, <1>3

LEMMA TailQueue ==
  ASSUME NEW s \in Seq(Instrs), s # <<>>
  PROVE  /\ Head(s) \in Instrs /\ Head(s) = s[1] /\ Tail(s) \in Seq(Instrs)
         /\ Len(s) \in Nat \ {0} /\ Len(Tail(s)) = Len(s) - 1
         /\ \A i \in 1..Len(Tail(s)) : i+1 \in 1..Len(s) /\ Tail(s)[i] = s[i+1]
         /\ \A y : (\E i \in 1..Len(s) : s[i] = y)
                    => y = Head(s) \/ \E i \in 1..Len(Tail(s)) : Tail(s)[i] = y
<1>1. /\ Head(s) \in Instrs /\ Head(s) = s[1] /\ Tail(s) \in Seq(Instrs)
      /\ Len(s) \in Nat \ {0} /\ Len(Tail(s)) = Len(s) - 1
      /\ \A i \in 1..Len(Tail(s)) : Tail(s)[i] = s[i+1]
  BY HeadTailProperties, EmptySeq
<1>2. \A i \in 1..Len(Tail(s)) : i+1 \in 1..Len(s)
  BY <1>1
<1>3. \A i \in 1..Len(s) : i = 1 \/ (i-1 \in 1..Len(Tail(s)) /\ (i-1)+1 = i)
  BY <1>1
<1> QED
  BY <1>1, <1>2, <1>3

\* Queueing an instruction that is being marked now keeps the queue injective.
LEMMA QueueMarked ==
  ASSUME TypeOK, QueuedOnce, NEW x \in Instrs, x \notin marked,
         marked' = marked \cup {x}, work_list' = Append(work_list, x)
  PROVE  /\ QueuedOnce'
         /\ \A y : Queued(y)' <=> y = x \/ Queued(y)
<1>1. work_list \in Seq(Instrs)
  BY DEF TypeOK
<1>2. \A y : Queued(y)' <=> y = x \/ Queued(y)
  BY <1>1, AppendQueue DEF Queued
<1>3. /\ Len(work_list) \in Nat /\ Len(work_list') = Len(work_list) + 1
      /\ \A i \in 1..Len(work_list) : work_list'[i] = work_list[i]
      /\ work_list'[Len(work_list)+1] = x
      /\ \A i \in 1..Len(work_list') : i \in 1..Len(work_list) \/ i = Len(work_list) + 1
  BY <1>1, AppendQueue
<1>4. \A i \in 1..Len(work_list) : work_list[i] # x
  BY DEF QueuedOnce
<1>5. QueuedOnce'
  BY <1>3, <1>4 DEF QueuedOnce
<1> QED
  BY <1>2, <1>5

-----------------------------------------------------------------------------
LEMMA InitInv == Init => IInv
<1> SUFFICES ASSUME Init PROVE IInv
  OBVIOUS
<1>1. TypeOK
  BY DEF Init, TypeOK, Users
<1>2. NoDangling
  BY <1>1, NeededClosed DEF Init, NoDangling, WellFormed
<1>3. UseInv
  BY DEF Init, UseInv, Users
<1>4. Len(work_list) = 0
  BY DEF Init
<1>5. SweptInv
  <2>1. round \in 1..2 /\ round # 2 /\ func = NoFunc /\ phase = "next" /\ todo = Funcs
    BY DEF Init
  <2> QED
    BY <2>1 DEF SweptInv
<1>6. MarkInv /\ SweepInv /\ QueuedOnce
  BY <1>4 DEF Init, MarkInv, SweepInv, QueuedOnce
<1> QED
  BY <1>1, <1>2, <1>3, <1>5, <1>6 DEF IInv

LEMMA NextType == TypeOK /\ [Next]_vars => TypeOK'
<1> SUFFICES ASSUME TypeOK, [Next]_vars PROVE TypeOK'
  OBVIOUS
<1> USE DEF TypeOK, progVars, markVars
<1>1. CASE StartFunc
  BY <1>1 DEF StartFunc, InFunc
<1>2. CASE Scan
  BY <1>2, AppendQueue DEF Scan
<1>3. CASE EndScan
  BY <1>3 DEF EndScan
<1>4. CASE Pop
  <2>1. now' \in Instrs /\ work_list' \in Seq(Instrs)
    BY <1>4, TailQueue DEF Pop
  <2> QED
    BY <1>4, <2>1 DEF Pop, WellFormed
<1>5. CASE MarkOperand
  BY <1>5, AppendQueue DEF MarkOperand
<1>6. CASE SweepUses
  BY <1>6 DEF SweepUses, InFunc
<1>7. CASE SweepErase
  BY <1>7 DEF SweepErase
<1>8. CASE NextRound
  BY <1>8 DEF NextRound
<1>9. CASE Finish
  BY <1>9 DEF Finish
<1>10. CASE UNCHANGED vars
  BY <1>10 DEF vars
<1> QED
  BY <1>1, <1>2, <1>3, <1>4, <1>5, <1>6, <1>7, <1>8, <1>9, <1>10 DEF Next, Done

\* Types: every variable keeps its shape in every reachable state.
THEOREM TypeCorrect == Spec => []TypeOK
<1>1. Init => TypeOK
  BY InitInv DEF IInv
<1> QED
  BY <1>1, NextType, PTL DEF Spec

-----------------------------------------------------------------------------
(* Marking. *)

\* While nothing is deleted, instructions and use lists stay as they are.
LEMMA MarkingKeeps ==
  ASSUME NoDangling, UseInv, UNCHANGED <<progVars, instructions, use_list, wait_del>>
  PROVE  NoDangling' /\ UseInv'
<1>1. /\ Needed' = Needed
      /\ \A v : Users(v)' = Users(v)
      /\ UNCHANGED <<operands, instructions, use_list, wait_del>>
  BY SameProgram, SameInstructions DEF progVars
<1> QED
  BY <1>1 DEF NoDangling, UseInv

LEMMA StartFuncInv ==
  ASSUME IInv, TypeOK', StartFunc
  PROVE  IInv'
<1>1. /\ phase = "next" /\ phase' = "scan" /\ func' \in todo /\ todo' = todo \ {func'}
      /\ unseen' = InFunc(func') /\ marked' = {} /\ work_list' = <<>> /\ Len(work_list') = 0
      /\ UNCHANGED <<progVars, instructions, use_list, now, ops, wait_del, changed, round>>
  BY DEF StartFunc
<1>2. NoDangling' /\ UseInv'
  BY <1>1, MarkingKeeps DEF IInv
<1>3. Needed' = Needed /\ \A x : InFunc(x)' = InFunc(x)
  BY <1>1, SameProgram, SameInstructions
<1>4. InFunc(func)' = InFunc(func')
  BY <1>1 DEF InFunc, progVars
<1>5. MarkInv'
  <2>1. ops' = {}
    BY <1>1 DEF IInv, MarkInv
  <2>2. func' \in Funcs \ todo'
    BY <1>1 DEF IInv, TypeOK
  <2> QED
    BY <1>1, <1>4, <2>1, <2>2 DEF MarkInv
<1>6. SweptInv'
  <2>1. \A f \in Funcs \ todo' : f # func' => InFunc(f)' \subseteq Needed'
    BY <1>1, <1>3, NoFuncAssumption DEF IInv, SweptInv
  <2> QED
    BY <1>1, <1>3, <2>1 DEF IInv, SweptInv
<1>7. SweepInv' /\ QueuedOnce'
  BY <1>1 DEF IInv, SweepInv, QueuedOnce
<1> QED
  BY <1>2, <1>5, <1>6, <1>7 DEF IInv

LEMMA ScanInv ==
  ASSUME IInv, TypeOK', Scan
  PROVE  IInv'
<1> DEFINE i == CHOOSE x \in unseen : TRUE
<1>1. /\ phase = "scan" /\ phase' = "scan" /\ i \in unseen /\ unseen' = unseen \ {i}
      /\ UNCHANGED <<progVars, instructions, use_list, todo, func, now, ops, wait_del, changed, round>>
  BY DEF Scan
<1>2. /\ is_critical(i) => marked' = marked \cup {i} /\ work_list' = Append(work_list, i)
      /\ ~is_critical(i) => UNCHANGED <<marked, work_list>>
  BY DEF Scan
<1> HIDE DEF i
<1>3. NoDangling' /\ UseInv'
  BY <1>1, MarkingKeeps DEF IInv
<1>4. /\ Needed' = Needed /\ \A x : is_critical(x)' <=> is_critical(x)
      /\ \A x : InFunc(x)' = InFunc(x)
  BY <1>1, SameProgram, SameInstructions
<1>5. InFunc(func)' = InFunc(func)
  BY <1>1 DEF InFunc, progVars
<1>6. i \in Instrs /\ i \in InFunc(func)
  BY <1>1 DEF IInv, MarkInv, TypeOK
<1>7. is_critical(i) => i \in Needed
  BY <1>6, NeededClosed DEF IInv, ClosedUnderOperands
<1>8. /\ marked \subseteq marked' /\ marked' \subseteq InFunc(func) \cap Needed
      /\ \A x \in InFunc(func) : is_critical(x) => x \in marked' \cup unseen'
  BY <1>1, <1>2, <1>6, <1>7 DEF IInv, MarkInv
<1>9. QueuedOnce' /\ \A x \in marked' : Queued(x)'
  <2>1. CASE is_critical(i)
    <3>1. i \notin marked
      BY <1>1 DEF IInv, MarkInv
    <3> QED
      BY <2>1, <3>1, <1>1, <1>2, <1>6, QueueMarked DEF IInv, MarkInv
  <2>2. CASE ~is_critical(i)
    BY <2>2, <1>1, <1>2 DEF IInv, MarkInv, QueuedOnce, Queued
  <2> QED
    BY <2>1, <2>2
<1>10. MarkInv'
  <2>1. marked' \cap unseen' = {}
    BY <1>1, <1>2 DEF IInv, MarkInv
  <2>2. func' \in Funcs \ todo' /\ unseen' \subseteq InFunc(func) /\ ops' = {}
    BY <1>1 DEF IInv, MarkInv
  <2> QED
    BY <1>1, <1>4, <1>5, <1>8, <1>9, <2>1, <2>2 DEF MarkInv
<1>11. SweepInv' /\ SweptInv'
  BY <1>1, <1>4 DEF IInv, SweepInv, SweptInv
<1> QED
  BY <1>3, <1>9, <1>10, <1>11 DEF IInv

LEMMA EndScanInv ==
  ASSUME IInv, TypeOK', EndScan
  PROVE  IInv'
<1>1. /\ phase = "scan" /\ phase' = "mark" /\ unseen = {}
      /\ UNCHANGED <<progVars, instructions, use_list, todo, func, unseen,
                      marked, work_list, now, ops, wait_del, changed, round>>
  BY DEF EndScan, markVars
<1>2. NoDangling' /\ UseInv'
  BY <1>1, MarkingKeeps DEF IInv
<1>3. /\ Needed' = Needed /\ \A x : is_critical(x)' <=> is_critical(x)
      /\ \A x : InFunc(x)' = InFunc(x)
  BY <1>1, SameProgram, SameInstructions
<1>4. InFunc(func)' = InFunc(func)
  BY <1>1 DEF InFunc, progVars
<1>5. \A x : Queued(x)' <=> Queued(x)
  BY <1>1 DEF Queued
<1>6. MarkInv'
  BY <1>1, <1>3, <1>4, <1>5 DEF IInv, MarkInv
<1>7. SweepInv' /\ SweptInv' /\ QueuedOnce'
  BY <1>1, <1>3 DEF IInv, SweepInv, SweptInv, QueuedOnce
<1> QED
  BY <1>2, <1>6, <1>7 DEF IInv

LEMMA PopInv ==
  ASSUME IInv, TypeOK', Pop
  PROVE  IInv'
<1>1. /\ phase = "mark" /\ phase' = "mark" /\ ops = {} /\ work_list # <<>>
      /\ now' = Head(work_list) /\ work_list' = Tail(work_list) /\ ops' = operands[now']
      /\ UNCHANGED <<progVars, instructions, use_list, todo, func, unseen, marked,
                      wait_del, changed, round>>
  BY DEF Pop
<1>2. NoDangling' /\ UseInv'
  BY <1>1, MarkingKeeps DEF IInv
<1>3. /\ Needed' = Needed /\ \A x : is_critical(x)' <=> is_critical(x)
      /\ \A x : InFunc(x)' = InFunc(x)
      /\ operands' = operands
  BY <1>1, SameProgram, SameInstructions DEF progVars
<1>4. InFunc(func)' = InFunc(func)
  BY <1>1 DEF InFunc, progVars
<1>5. /\ Len(work_list) \in Nat \ {0} /\ Len(work_list') = Len(work_list) - 1
      /\ now' = work_list[1] /\ 1 \in 1..Len(work_list)
      /\ \A i \in 1..Len(work_list') : i+1 \in 1..Len(work_list) /\ work_list'[i] = work_list[i+1]
      /\ \A y : Queued(y) => y = now' \/ Queued(y)'
  <2>1. work_list \in Seq(Instrs)
    BY DEF IInv, TypeOK
  <2>2. /\ Len(work_list) \in Nat \ {0} /\ Len(work_list') = Len(work_list) - 1
        /\ now' = work_list[1]
        /\ \A i \in 1..Len(work_list') : i+1 \in 1..Len(work_list) /\ work_list'[i] = work_list[i+1]
    BY <1>1, <2>1, TailQueue
  <2>3. \A y : Queued(y) => y = now' \/ Queued(y)'
    BY <1>1, <2>1, TailQueue DEF Queued
  <2> QED
    BY <2>2, <2>3
<1>6. now' \in marked
  BY <1>5 DEF IInv, QueuedOnce
<1>7. \A i \in marked :
        Queued(i)' \/ operands[i] \subseteq marked \/ (i = now' /\ operands[i] \subseteq marked \cup ops')
  BY <1>1, <1>5 DEF IInv, MarkInv
<1>8. MarkInv'
  BY <1>1, <1>3, <1>4, <1>6, <1>7 DEF IInv, MarkInv
<1>9. QueuedOnce'
  <2>1. \A i \in 1..Len(work_list') : work_list'[i] \in marked'
    BY <1>1, <1>5 DEF IInv, QueuedOnce
  <2>2. ASSUME NEW i \in 1..Len(work_list'), NEW j \in 1..Len(work_list'),
               work_list'[i] = work_list'[j]
        PROVE  i = j
    <3>1. i+1 = j+1
      BY <1>5, <2>2 DEF IInv, QueuedOnce
    <3> QED
      BY <3>1
  <2> QED
    BY <2>1, <2>2 DEF QueuedOnce
<1>10. SweepInv' /\ SweptInv'
  BY <1>1, <1>3 DEF IInv, SweepInv, SweptInv
<1> QED
  BY <1>2, <1>8, <1>9, <1>10 DEF IInv

\* An operand of a needed instruction is needed, and in the same function.
LEMMA MarkOperandInv ==
  ASSUME IInv, TypeOK', MarkOperand
  PROVE  IInv'
<1> DEFINE d == CHOOSE x \in ops : TRUE
<1>1. /\ phase = "mark" /\ phase' = "mark" /\ d \in ops /\ ops' = ops \ {d}
      /\ UNCHANGED <<progVars, instructions, use_list, todo, func, unseen, now,
                      wait_del, changed, round>>
  BY DEF MarkOperand
<1>2. \/ d \notin marked /\ marked' = marked \cup {d} /\ work_list' = Append(work_list, d)
      \/ (d \in marked \/ function[d] # function[now]) /\ UNCHANGED <<marked, work_list>>
  BY DEF MarkOperand
<1> HIDE DEF d
<1>3. NoDangling' /\ UseInv'
  BY <1>1, MarkingKeeps DEF IInv
<1>4. /\ Needed' = Needed /\ \A x : is_critical(x)' <=> is_critical(x)
      /\ \A x : InFunc(x)' = InFunc(x)
      /\ operands' = operands
  BY <1>1, SameProgram, SameInstructions DEF progVars
<1>5. InFunc(func)' = InFunc(func)
  BY <1>1 DEF InFunc, progVars
<1>6. now \in marked /\ d \in operands[now] /\ now \in Instrs /\ d \in Instrs
  BY <1>1 DEF IInv, MarkInv, TypeOK
<1>7. function[d] = function[now]
  BY <1>6 DEF IInv, TypeOK, WellFormed
<1>8. now \in InFunc(func) /\ now \in Needed
  BY <1>1, <1>6 DEF IInv, MarkInv
<1>9. d \in Needed
  BY <1>6, <1>8, NeededClosed DEF IInv, ClosedUnderOperands
<1>10. d \in InFunc(func)
  BY <1>6, <1>7, <1>8 DEF InFunc, IInv, NoDangling
<1>11. marked' = marked \cup {d}
  BY <1>2, <1>7
<1>12. QueuedOnce' /\ \A y : Queued(y)' <=> Queued(y) \/ (y = d /\ d \notin marked)
  <2>1. CASE d \notin marked
    BY <2>1, <1>2, <1>6, <1>7, QueueMarked DEF IInv
  <2>2. CASE d \in marked
    BY <2>2, <1>2 DEF IInv, QueuedOnce, Queued
  <2> QED
    BY <2>1, <2>2
<1>13. \A i \in marked' :
         Queued(i)' \/ operands[i] \subseteq marked' \/ (i = now /\ operands[i] \subseteq marked' \cup ops')
  BY <1>1, <1>11, <1>12 DEF IInv, MarkInv
<1>14. MarkInv'
  <2>1. /\ func' \in Funcs \ todo' /\ marked' \subseteq InFunc(func) \cap Needed
        /\ unseen' = {}
        /\ \A i \in InFunc(func) : is_critical(i) => i \in marked'
    BY <1>1, <1>9, <1>10, <1>11 DEF IInv, MarkInv
  <2>2. ops' # {} => now' \in marked' /\ ops' \subseteq operands'[now']
    BY <1>1, <1>4, <1>6, <1>11 DEF IInv, MarkInv
  <2> QED
    BY <1>1, <1>4, <1>5, <1>13, <2>1, <2>2 DEF MarkInv
<1>15. SweepInv' /\ SweptInv'
  BY <1>1, <1>4 DEF IInv, SweepInv, SweptInv
<1> QED
  BY <1>3, <1>12, <1>14, <1>15 DEF IInv

-----------------------------------------------------------------------------
(* Sweeping. *)

\* With an empty queue the marked set is closed.
LEMMA SweepUsesInv ==
  ASSUME IInv, TypeOK', SweepUses
  PROVE  IInv'
<1>1. /\ phase = "mark" /\ phase' = "erase" /\ ops = {} /\ work_list = <<>>
      /\ Len(work_list) = 0
      /\ wait_del' = InFunc(func) \ marked
      /\ UNCHANGED <<progVars, instructions, todo, func, unseen, marked, work_list,
                      now, ops, changed, round>>
  BY DEF SweepUses, markVars
<1>2. \A v \in Instrs :
        use_list'[v] = {u \in use_list[v] : ~(u \in wait_del' /\ v \in operands[u])}
  BY DEF SweepUses
<1>3. /\ Needed' = Needed /\ \A x : is_critical(x)' <=> is_critical(x)
      /\ \A x : InFunc(x)' = InFunc(x) /\ Users(x)' = Users(x)
      /\ operands' = operands
  BY <1>1, SameProgram, SameInstructions DEF progVars
<1>4. InFunc(func)' = InFunc(func)
  BY <1>1 DEF InFunc, progVars
<1>5. wait_del = {}
  BY <1>1 DEF IInv, SweepInv
<1>6. \A i \in marked : operands[i] \subseteq marked
  BY <1>1 DEF IInv, MarkInv, Queued
<1>7. NoDangling'
  BY <1>1, <1>3 DEF IInv, NoDangling
<1>8. UseInv'
  <2>1. \A v \in Instrs : \A u \in use_list'[v] : v \in operands'[u]
    BY <1>2, <1>3 DEF IInv, UseInv
  <2>2. ASSUME NEW v \in instructions
        PROVE  use_list'[v] = Users(v)' \ wait_del'
    <3>1. v \in Instrs /\ use_list[v] = Users(v)
      BY <1>5 DEF IInv, UseInv, TypeOK
    <3> QED
      BY <1>2, <1>3, <3>1 DEF Users
  <2> QED
    BY <1>1, <2>1, <2>2 DEF UseInv
<1>9. MarkInv' /\ SweepInv'
  BY <1>1, <1>3, <1>4, <1>6 DEF IInv, MarkInv, SweepInv
<1>10. SweptInv' /\ QueuedOnce'
  BY <1>1, <1>3 DEF IInv, SweptInv, QueuedOnce
<1> QED
  BY <1>7, <1>8, <1>9, <1>10 DEF IInv

\* What is deleted is not needed, and nothing kept refers to it: the needed
\* instructions of this function are marked, those of others are elsewhere.
LEMMA DoomedNotNeeded ==
  ASSUME IInv, phase = "erase"
  PROVE  /\ wait_del \cap Needed = {}
         /\ \A i \in instructions \ wait_del : operands[i] \cap wait_del = {}
<1>1. /\ wait_del = InFunc(func) \ marked
      /\ \A i \in marked : operands[i] \subseteq marked
      /\ \A i \in InFunc(func) : is_critical(i) => i \in marked
      /\ marked \subseteq InFunc(func)
  BY DEF IInv, SweepInv, MarkInv
<1>2. ASSUME NEW i \in Instrs, i \notin wait_del, i \in instructions
      PROVE  operands[i] \cap wait_del = {}
  <2>1. CASE function[i] = func
    BY <1>1, <1>2, <2>1 DEF InFunc
  <2>2. CASE function[i] # func
    <3>1. \A x \in operands[i] : function[x] # func
      BY <2>2 DEF IInv, TypeOK, WellFormed
    <3> QED
      BY <1>1, <3>1 DEF InFunc
  <2> QED
    BY <2>1, <2>2
<1>3. ClosedUnderOperands(instructions \ wait_del)
  <2>1. ASSUME NEW i \in Instrs, is_critical(i) PROVE i \in instructions \ wait_del
    <3>1. i \in instructions
      BY <2>1, NeededClosed DEF IInv, NoDangling, ClosedUnderOperands
    <3> QED
      BY <1>1, <2>1, <3>1
  <2>2. ASSUME NEW i \in instructions \ wait_del PROVE operands[i] \subseteq instructions \ wait_del
    BY <1>2, <2>2 DEF IInv, NoDangling, TypeOK
  <2> QED
    BY <2>1, <2>2 DEF ClosedUnderOperands
<1>4. Needed \subseteq instructions \ wait_del
  BY <1>3, NeededLeast DEF IInv, TypeOK
<1> QED
  BY <1>2, <1>4 DEF IInv, TypeOK

LEMMA SweepEraseInv ==
  ASSUME IInv, TypeOK', SweepErase
  PROVE  IInv'
<1>1. /\ phase = "erase" /\ phase' = "next"
      /\ instructions' = instructions \ wait_del
      /\ wait_del' = {} /\ func' = NoFunc
      /\ UNCHANGED <<progVars, use_list, todo, unseen, marked, work_list, now, ops, round>>
  BY DEF SweepErase, markVars
<1>2. Needed' = Needed /\ operands' = operands /\ function' = function
  BY <1>1, SameProgram DEF progVars
<1>3. /\ wait_del \cap Needed = {}
      /\ \A i \in instructions \ wait_del : operands[i] \cap wait_del = {}
  BY <1>1, DoomedNotNeeded
<1>4. NoDangling'
  BY <1>1, <1>2, <1>3 DEF IInv, NoDangling
<1>5. UseInv'
  BY <1>1, <1>2 DEF IInv, UseInv, Users
<1>6. SweptInv'
  <2>1. ASSUME NEW i \in instructions', function[i] = func
        PROVE  i \in Needed
    <3>1. i \in InFunc(func) \ wait_del
      BY <1>1, <2>1 DEF InFunc
    <3> QED
      BY <1>1, <3>1 DEF IInv, SweepInv, MarkInv
  <2>2. ASSUME NEW f \in Funcs \ todo, NEW i \in instructions', function[i] = f
        PROVE  i \in Needed
    <3>1. CASE f = func
      BY <2>1, <2>2, <3>1
    <3>2. CASE f # func
      <4>1. i \in InFunc(f)
        BY <1>1, <2>2 DEF InFunc
      <4> QED
        BY <3>2, <4>1 DEF IInv, SweptInv
    <3> QED
      BY <3>1, <3>2
  <2>3. \A f \in Funcs \ todo : InFunc(f)' \subseteq Needed'
    BY <1>2, <2>2 DEF InFunc
  <2>4. round = 2 => wait_del = {} /\ instructions' \subseteq Needed'
    <3>1. round = 2 => instructions \subseteq Needed
      BY DEF IInv, SweptInv
    <3>2. wait_del \subseteq instructions
      BY <1>1 DEF IInv, SweepInv, InFunc
    <3> QED
      BY <1>1, <1>2, <1>3, <3>1, <3>2
  <2>5. round' = 2 => ~changed'
    <3>1. round' = 2 => ~changed /\ wait_del = {}
      BY <1>1, <2>4 DEF IInv, SweptInv
    <3>2. changed' <=> changed \/ wait_del # {}
      BY Zenon DEF SweepErase
    <3> QED
      BY <3>1, <3>2, Zenon
  <2>6. round' \in 1..2 /\ func' = NoFunc /\ phase' = "next" /\ todo' = todo
    BY <1>1 DEF IInv, SweptInv
  <2> QED
    BY <1>1, <2>3, <2>4, <2>5, <2>6 DEF SweptInv
<1>7. MarkInv' /\ SweepInv' /\ QueuedOnce'
  BY <1>1 DEF IInv, MarkInv, SweepInv, QueuedOnce
<1> QED
  BY <1>4, <1>5, <1>6, <1>7 DEF IInv

-----------------------------------------------------------------------------
(* Rounds. *)

\* A round that is over has left only needed instructions.
LEMMA RoundOver ==
  ASSUME IInv, phase = "next", todo = {}
  PROVE  instructions \subseteq Needed
<1>1. \A i \in instructions : function[i] \in Funcs /\ i \in InFunc(function[i])
  BY DEF IInv, TypeOK, WellFormed, InFunc
<1>2. func \notin Funcs
  BY NoFuncAssumption DEF IInv, SweptInv
<1> QED
  BY <1>1, <1>2 DEF IInv, SweptInv

LEMMA NextRoundInv ==
  ASSUME IInv, TypeOK', NextRound
  PROVE  IInv'
<1>1. /\ phase = "next" /\ todo = {} /\ phase' = phase
      /\ todo' = Funcs /\ round' = round + 1
      /\ UNCHANGED <<progVars, instructions, use_list, func, unseen,
                      marked, work_list, now, ops, wait_del>>
  BY DEF NextRound, markVars
<1>2. changed /\ ~changed'
  BY Zenon DEF NextRound
<1>3. NoDangling' /\ UseInv'
  BY <1>1, MarkingKeeps DEF IInv
<1>4. Needed' = Needed
  BY <1>1, SameProgram
<1>5. round = 1
  <2>1. round # 2 /\ round \in 1..2
    BY <1>2 DEF IInv, SweptInv
  <2> QED
    BY <2>1
<1>6. SweptInv'
  <2>1. round' = 2 /\ round' \in 1..2
    BY <1>1, <1>5
  <2>2. instructions' \subseteq Needed'
    BY <1>1, <1>4, RoundOver
  <2>3. func' = NoFunc /\ phase' = "next" /\ Funcs \ todo' = {}
    BY <1>1 DEF IInv, SweptInv
  <2> QED
    BY <1>2, <2>1, <2>2, <2>3 DEF SweptInv
<1>7. MarkInv' /\ SweepInv' /\ QueuedOnce'
  BY <1>1 DEF IInv, MarkInv, SweepInv, QueuedOnce
<1> QED
  BY <1>3, <1>6, <1>7 DEF IInv

LEMMA FinishInv ==
  ASSUME IInv, TypeOK', Finish
  PROVE  IInv'
<1>1. /\ phase = "next" /\ phase' = "done" /\ todo = {}
      /\ UNCHANGED <<progVars, instructions, use_list, todo, func, unseen, marked,
                      work_list, now, ops, wait_del, changed, round>>
  BY DEF Finish, markVars
<1>2. NoDangling' /\ UseInv'
  BY <1>1, MarkingKeeps DEF IInv
<1>3. Needed' = Needed /\ \A x : InFunc(x)' = InFunc(x)
  BY <1>1, SameProgram, SameInstructions
<1>4. MarkInv' /\ SweepInv' /\ SweptInv' /\ QueuedOnce'
  BY <1>1, <1>3 DEF IInv, MarkInv, SweepInv, SweptInv, QueuedOnce
<1> QED
  BY <1>2, <1>4 DEF IInv

LEMMA StutterInv ==
  ASSUME IInv, TypeOK', UNCHANGED vars
  PROVE  IInv'
<1>1. UNCHANGED <<progVars, instructions, use_list, phase, todo, func, unseen, marked,
                  work_list, now, ops, wait_del, changed, round>>
  BY DEF vars, markVars
<1>2. NoDangling' /\ UseInv'
  BY <1>1, MarkingKeeps DEF IInv
<1>3. /\ Needed' = Needed /\ \A x : is_critical(x)' <=> is_critical(x)
      /\ \A x : InFunc(x)' = InFunc(x)
  BY <1>1, SameProgram, SameInstructions
<1>4. \A x : Queued(x)' <=> Queued(x)
  BY <1>1 DEF Queued
<1>5. InFunc(func)' = InFunc(func)
  BY <1>1 DEF InFunc, progVars
<1>6. MarkInv'
  BY <1>1, <1>3, <1>4, <1>5 DEF IInv, MarkInv, progVars
<1>7. SweepInv' /\ SweptInv' /\ QueuedOnce'
  BY <1>1, <1>3, <1>5 DEF IInv, SweepInv, SweptInv, QueuedOnce, progVars
<1> QED
  BY <1>2, <1>6, <1>7 DEF IInv

LEMMA Inductive == IInv /\ [Next]_vars => IInv'
<1> SUFFICES ASSUME IInv, [Next]_vars PROVE IInv'
  OBVIOUS
<1>1. TypeOK'
  BY NextType DEF IInv
<1> QED
  BY <1>1, StartFuncInv, ScanInv, EndScanInv, PopInv, MarkOperandInv, SweepUsesInv,
     SweepEraseInv, NextRoundInv, FinishInv, StutterInv DEF Next, Done

LEMMA Invariance == Spec => []IInv
  BY InitInv, Inductive, PTL DEF Spec

-----------------------------------------------------------------------------
\* Safety: a needed instruction is never deleted and none that is left refers
\* to a deleted one.
THEOREM SweepIsSafe == Spec => []NoDangling
<1>1. IInv => NoDangling
  BY DEF IInv
<1> QED
  BY <1>1, Invariance, PTL

\* Use lists: exact in every state, but for what sweep is about to erase.
THEOREM UseListsStayExact == Spec => []UseListsExact
<1>1. IInv => UseListsExact
  BY DEF IInv, UseInv, UseListsExact
<1> QED
  BY <1>1, Invariance, PTL

\* Exactness: when the pass is done, only what is needed is left.
THEOREM OnlyNeededIsLeft == Spec => []LeavesNeeded
<1>1. ASSUME IInv, phase = "done" PROVE instructions \subseteq Needed
  <2>1. \A i \in instructions : function[i] \in Funcs /\ i \in InFunc(function[i])
    BY <1>1 DEF IInv, TypeOK, WellFormed, InFunc
  <2>2. func \notin Funcs /\ todo = {}
    BY <1>1, NoFuncAssumption DEF IInv, SweptInv
  <2> QED
    BY <2>1, <2>2, <1>1 DEF IInv, SweptInv
<1>2. IInv => LeavesNeeded
  BY <1>1 DEF IInv, NoDangling, LeavesNeeded
<1> QED
  BY <1>2, Invariance, PTL

\* Bounds: the queue never repeats an instruction ...
THEOREM QueueBounded == Spec => []QueuedOnce
<1>1. IInv => QueuedOnce
  BY DEF IInv
<1> QED
  BY <1>1, Invariance, PTL

\* ... and there are at most two rounds, the second of which deletes nothing.
THEOREM AtMostTwoRounds == Spec => []SecondRoundIdle
<1>1. ASSUME IInv, round = 2 PROVE wait_del = {}
  <2>1. CASE phase = "erase"
    <3>1. wait_del \cap Needed = {} /\ wait_del \subseteq instructions
      BY <1>1, <2>1, DoomedNotNeeded DEF IInv, SweepInv, InFunc
    <3> QED
      BY <1>1, <3>1 DEF IInv, SweptInv
  <2>2. CASE phase # "erase"
    BY <1>1, <2>2 DEF IInv, SweepInv
  <2> QED
    BY <2>1, <2>2
<1>2. ASSUME IInv PROVE round <= 2
  <2>1. round \in 1..2
    BY <1>2 DEF IInv, SweptInv
  <2> QED
    BY <2>1
<1>3. ASSUME IInv, round = 2 PROVE ~changed
  BY <1>3, Zenon DEF IInv, SweptInv
<1>4. IInv => SecondRoundIdle
  BY <1>1, <1>2, <1>3, Zenon DEF SecondRoundIdle
<1> QED
  BY <1>4, Invariance, PTL
=============================================================================
