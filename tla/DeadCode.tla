------------------------------ MODULE DeadCode ------------------------------
(***************************************************************************)
(* DeadCode::run: rounds over the functions of the module, each marking    *)
(* the critical instructions of a function and whatever they use, and      *)
(* sweeping the rest, until a round deletes nothing.                       *)
(*                                                                         *)
(* The module is abstracted to the kind of every instruction, the          *)
(* instructions among its operands (possibly in a cycle, through phis) and *)
(* the function it is in.  Use lists are kept because sweep must leave     *)
(* them right for the next FuncInfo and GVN.  Lists are walked in one      *)
(* fixed order.                                                            *)
(***************************************************************************)
EXTENDS Integers, Sequences

CONSTANTS Instrs, Funcs,
          Kinds,    \* the kinds of instructions in the modules considered
          NoFunc, NoInstr

AllKinds == {"br", "ret", "store", "call_impure", "call_pure", "other"}

Void == {"br", "ret", "store"}   \* kinds that are nobody's operand

ASSUME KindsAssumption == Kinds \subseteq AllKinds
ASSUME NoFuncAssumption == NoFunc \notin Funcs
ASSUME NoInstrAssumption == NoInstr \notin Instrs

VARIABLES
  kind, operands, function,  \* the module; the pass changes none of them
  instructions,   \* the instructions still in their blocks
  use_list,       \* use_list[v]: the users in the use list of v
  phase,          \* "next", "scan", "mark", "erase" or "done"
  todo, func,     \* functions left in this round, the one in hand
  unseen,         \* its instructions not yet tested by is_critical
  marked, work_list,
  now, ops,       \* instruction being marked from, its operands left
  wait_del,       \* what sweep deletes
  changed, round

progVars == <<kind, operands, function>>
markVars == <<marked, work_list, now, ops>>
vars == <<progVars, instructions, use_list, phase, todo, func, unseen,
          markVars, wait_del, changed, round>>

\* Operands are values computed in the same function.
WellFormed(kd, od, fn) ==
  /\ kd \in [Instrs -> Kinds]
  /\ od \in [Instrs -> SUBSET Instrs]
  /\ fn \in [Instrs -> Funcs]
  /\ \A i \in Instrs : \A d \in od[i] : fn[d] = fn[i] /\ kd[d] \notin Void

Users(v) == {i \in instructions : v \in operands[i]}

Init ==
  /\ kind \in [Instrs -> Kinds]
  /\ function \in [Instrs -> Funcs]
  /\ operands \in [Instrs -> SUBSET Instrs]
  /\ WellFormed(kind, operands, function)
  /\ instructions = Instrs
  /\ use_list = [v \in Instrs |-> Users(v)]
  /\ phase = "next" /\ todo = Funcs /\ func = NoFunc /\ unseen = {}
  /\ marked = {} /\ work_list = <<>> /\ now = NoInstr /\ ops = {}
  /\ wait_del = {} /\ changed = FALSE /\ round = 1

\* A call to a pure function may go; a branch, return, store or other call not.
is_critical(i) == kind[i] \in {"call_impure", "br", "ret", "store"}

InFunc(f) == {i \in instructions : function[i] = f}

-----------------------------------------------------------------------------
(* mark(Function) and mark(Instruction) *)

StartFunc ==
  /\ phase = "next" /\ todo # {}
  /\ func' = CHOOSE f \in todo : TRUE
  /\ todo' = todo \ {func'}
  /\ unseen' = InFunc(func')
  /\ marked' = {} /\ work_list' = <<>>
  /\ phase' = "scan"
  /\ UNCHANGED <<progVars, instructions, use_list, now, ops, wait_del, changed, round>>

\* Faulty variant: whatever has a use is kept.
ScanUsed ==
  /\ phase = "scan" /\ unseen # {}
  /\ LET i == CHOOSE i \in unseen : TRUE IN
       /\ unseen' = unseen \ {i}
       /\ IF is_critical(i) \/ use_list[i] # {}
          THEN marked' = marked \cup {i} /\ work_list' = Append(work_list, i)
          ELSE UNCHANGED <<marked, work_list>>
  /\ UNCHANGED <<progVars, instructions, use_list, phase, todo, func, now, ops,
                 wait_del, changed, round>>

Scan ==
  /\ phase = "scan" /\ unseen # {}
  /\ LET i == CHOOSE i \in unseen : TRUE IN
       /\ unseen' = unseen \ {i}
       /\ IF is_critical(i)
          THEN marked' = marked \cup {i} /\ work_list' = Append(work_list, i)
          ELSE UNCHANGED <<marked, work_list>>
  /\ UNCHANGED <<progVars, instructions, use_list, phase, todo, func, now, ops,
                 wait_del, changed, round>>

EndScan ==
  /\ phase = "scan" /\ unseen = {}
  /\ phase' = "mark"
  /\ UNCHANGED <<progVars, instructions, use_list, todo, func, unseen, markVars,
                 wait_del, changed, round>>

\* Faulty variants: the instruction stays in the queue; an operand that is no
\* instruction is not skipped.
PopKeeps ==
  /\ phase = "mark" /\ ops = {} /\ work_list # <<>>
  /\ now' = Head(work_list)
  /\ ops' = operands[now']
  /\ UNCHANGED <<progVars, instructions, use_list, phase, todo, func, unseen, marked,
                 work_list, wait_del, changed, round>>

PopConstant ==
  /\ phase = "mark" /\ ops = {} /\ work_list # <<>>
  /\ now' = Head(work_list)
  /\ work_list' = Tail(work_list)
  /\ ops' = operands[now'] \cup {NoInstr}
  /\ UNCHANGED <<progVars, instructions, use_list, phase, todo, func, unseen, marked,
                 wait_del, changed, round>>

Pop ==
  /\ phase = "mark" /\ ops = {} /\ work_list # <<>>
  /\ now' = Head(work_list)
  /\ work_list' = Tail(work_list)
  /\ ops' = operands[now']
  /\ UNCHANGED <<progVars, instructions, use_list, phase, todo, func, unseen, marked,
                 wait_del, changed, round>>

\* Faulty variant: an operand is marked but not queued.
MarkOperandUnqueued ==
  /\ phase = "mark" /\ ops # {}
  /\ LET d == CHOOSE d \in ops : TRUE IN
       ops' = ops \ {d} /\ marked' = marked \cup {d}
  /\ UNCHANGED <<progVars, instructions, use_list, phase, todo, func, unseen, now,
                 work_list, wait_del, changed, round>>

MarkOperand ==
  /\ phase = "mark" /\ ops # {}
  /\ LET d == CHOOSE d \in ops : TRUE IN
       /\ ops' = ops \ {d}
       /\ IF d \notin marked /\ function[d] = function[now]
          THEN marked' = marked \cup {d} /\ work_list' = Append(work_list, d)
          ELSE UNCHANGED <<marked, work_list>>
  /\ UNCHANGED <<progVars, instructions, use_list, phase, todo, func, unseen, now,
                 wait_del, changed, round>>

-----------------------------------------------------------------------------
(* sweep: first every use of a doomed instruction goes, then the instructions *)

\* Faulty variant: the uses of deleted instructions stay.
SweepUsesKept ==
  /\ phase = "mark" /\ ops = {} /\ work_list = <<>>
  /\ wait_del' = InFunc(func) \ marked
  /\ phase' = "erase"
  /\ UNCHANGED <<progVars, instructions, use_list, todo, func, unseen, markVars, changed, round>>

SweepUses ==
  /\ phase = "mark" /\ ops = {} /\ work_list = <<>>
  /\ wait_del' = InFunc(func) \ marked
  /\ use_list' = [v \in Instrs |->
                    {u \in use_list[v] : ~(u \in wait_del' /\ v \in operands[u])}]
  /\ phase' = "erase"
  /\ UNCHANGED <<progVars, instructions, todo, func, unseen, markVars, changed, round>>

SweepErase ==
  /\ phase = "erase"
  /\ instructions' = instructions \ wait_del
  /\ changed' = (changed \/ wait_del # {})
  /\ wait_del' = {} /\ func' = NoFunc
  /\ phase' = "next"
  /\ UNCHANGED <<progVars, use_list, todo, unseen, markVars, round>>

NextRound ==
  /\ phase = "next" /\ todo = {} /\ changed
  /\ todo' = Funcs /\ changed' = FALSE
  /\ round' = round + 1
  /\ UNCHANGED <<progVars, instructions, use_list, phase, func, unseen, markVars, wait_del>>

Finish ==
  /\ phase = "next" /\ todo = {} /\ ~changed
  /\ phase' = "done"
  /\ UNCHANGED <<progVars, instructions, use_list, todo, func, unseen, markVars,
                 wait_del, changed, round>>

Done == phase = "done" /\ UNCHANGED vars

Next ==
  \/ StartFunc \/ Scan \/ EndScan \/ Pop \/ MarkOperand
  \/ SweepUses \/ SweepErase \/ NextRound \/ Finish \/ Done

\* One thread, which runs until it returns.
Spec == Init /\ [][Next]_vars /\ WF_vars(Next)

-----------------------------------------------------------------------------
(***************************************************************************)
(* Properties                                                              *)
(***************************************************************************)

\* Every variable has the shape the code gives it.
TypeOK ==
  /\ WellFormed(kind, operands, function)
  /\ instructions \subseteq Instrs
  /\ use_list \in [Instrs -> SUBSET Instrs]
  /\ phase \in {"next", "scan", "mark", "erase", "done"}
  /\ todo \subseteq Funcs /\ func \in Funcs \cup {NoFunc}
  /\ unseen \subseteq Instrs /\ marked \subseteq Instrs
  /\ work_list \in Seq(Instrs)
  /\ now \in Instrs \cup {NoInstr} /\ ops \subseteq Instrs
  /\ wait_del \subseteq Instrs
  /\ round \in Nat \ {0}

\* What the program needs: the critical instructions and, directly or through
\* others, their operands.
ClosedUnderOperands(S) ==
  /\ \A i \in Instrs : is_critical(i) => i \in S
  /\ \A i \in S : operands[i] \subseteq S

Needed == {i \in Instrs : \A S \in SUBSET Instrs : ClosedUnderOperands(S) => i \in S}

\* In every state, nothing needed has been deleted, and no instruction that
\* is left refers to a deleted one.
NoDangling ==
  /\ Needed \subseteq instructions
  /\ \A i \in instructions : operands[i] \subseteq instructions

\* The use list of an instruction names the users that are left, all of them
\* and no other, and while sweep erases, none that is about to be freed;
\* FuncInfo and GVN walk these lists.
UseListsExact == \A v \in instructions : use_list[v] = Users(v) \ wait_del

\* What the pass leaves is what is needed: dead cycles of phis go as well.
LeavesNeeded == phase = "done" => instructions = Needed

\* No instruction is queued twice, and only marked ones are queued.
QueuedOnce ==
  /\ \A i, j \in 1..Len(work_list) : work_list[i] = work_list[j] => i = j
  /\ \A i \in 1..Len(work_list) : work_list[i] \in marked

\* Deleting uncovers nothing: one round finds all dead code, and the second,
\* if there is one, deletes nothing.
SecondRoundIdle == round <= 2 /\ (round = 2 => ~changed /\ wait_del = {})

\* The do-while loop ends.
Terminates == <>(phase = "done")
=============================================================================
