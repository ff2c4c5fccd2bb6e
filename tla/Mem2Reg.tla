------------------------------ MODULE Mem2Reg ------------------------------
(***************************************************************************)
(* Mem2Reg::run on one function: phis are placed at the dominance          *)
(* frontiers of the stores, re_name walks the dominator tree with a stack  *)
(* of values per variable, and remove_alloca deletes the variables.        *)
(*                                                                         *)
(* A program is a flow graph and, for each block, the loads and stores of  *)
(* local scalars in it; other instructions matter only as the values that  *)
(* are stored.  Dominators are used through what Dominators is checked to  *)
(* compute (IDom and Frontier of FlowGraph).  The keys of var_val_stack    *)
(* are allocas, so the functions of a module do not meet in it.            *)
(***************************************************************************)
EXTENDS FlowGraph, Integers, Sequences, FiniteSets, SequencesExt

CONSTANTS Vars,       \* the scalar allocas of the function
          Programs    \* the programs the pass may be given

\* The value that .back() of an empty vector yields.
Garbage == <<"garbage">>

(***************************************************************************)
(* code[b][k] is the k-th access in block b.  A store stores the value of  *)
(* an earlier load in its block (src > 0), or one computed otherwise.      *)
(***************************************************************************)
Load(v) == [op |-> "load", var |-> v, src |-> 0]
Store(v) == [op |-> "store", var |-> v, src |-> 0]
StoreLoaded(v, k) == [op |-> "store", var |-> v, src |-> k]

Access == [op : {"load", "store"}, var : Vars, src : Nat]

WellFormedBlock(instrs) ==
  \A k \in 1..Len(instrs) :
    /\ instrs[k].src < k
    /\ instrs[k].src > 0 => /\ instrs[k].op = "store"
                            /\ instrs[instrs[k].src].op = "load"

ASSUME ProgramsAssumption ==
  \A p \in Programs :
    /\ p.succ \in Graph /\ EntryHasNoPreds(p.succ) /\ NoDeadEdge(p.succ)
    /\ p.code \in [Blocks -> Seq(Access)]
    /\ \A b \in Blocks : WellFormedBlock(p.code[b])

VARIABLES
  succ, code,      \* the program; changes are recorded in what follows
  dom_frontier, dom_tree_succ,  \* dominators_, when its run() has returned
  phase,           \* "phi", "rename" or "done"
  vars_left, var,  \* variables without phis yet, the one in hand
  work_list,       \* blocks whose frontier is to get phis for it
  phis,            \* phis[b]: the variables with a phi in b
  phi_pairs,       \* phi_pairs[<<b, v>>]: <<value, predecessor>> of that phi
  frames,          \* the calls of re_name, innermost last
  pc, fill,        \* next access of its block, successors not yet filled
  var_val_stack, found,  \* the stacks, and the variables that have a key
  repl,            \* what each load has been replaced with; itself at first
  erased,          \* the accesses <<block, k>> erased
  allocas          \* the variables whose alloca is there

progVars == <<succ, code, dom_frontier, dom_tree_succ>>
phiVars  == <<vars_left, var, work_list, phis>>
nameVars == <<phi_pairs, frames, pc, fill, var_val_stack, found, repl, erased>>
vars == <<progVars, phase, phiVars, nameVars, allocas>>

Accesses == UNION {{<<b, k>> : k \in 1..Len(code[b])} : b \in Blocks}
Instr(a) == code[a[1]][a[2]]
LoadValue(a) == <<"load", a[1], a[2]>>
DefValue(a) == <<"def", a[1], a[2]>>
PhiValue(b, v) == <<"phi", b, v>>
LoadValues == {LoadValue(a) : a \in {c \in Accesses : Instr(c).op = "load"}}

\* The value operand of a store, load results replaced as far as they are.
Current(x) == IF x \in DOMAIN repl THEN repl[x] ELSE x
\* Faulty variant: the operand as it was before loads were replaced.
get_rval_stale(a) ==
  IF Instr(a).src = 0 THEN DefValue(a) ELSE LoadValue(<<a[1], Instr(a).src>>)

get_rval(a) ==
  IF Instr(a).src = 0 THEN DefValue(a)
  ELSE Current(LoadValue(<<a[1], Instr(a).src>>))

StoresIn(b, v) ==
  {k \in 1..Len(code[b]) : code[b][k].op = "store" /\ code[b][k].var = v}

(***************************************************************************)
(* dominators_->run().  In an unreachable block the walks that fill the    *)
(* frontiers end at once, both idoms being null; such a block is in no one *)
(* else's frontier and not below the entry in the tree.                    *)
(***************************************************************************)
get_dominance_frontier(b) ==
  IF b \in Reachable(succ) THEN Frontier(succ, b)
  ELSE {j \in succ[b] : Cardinality(Preds(succ, j)) >= 2}

get_dom_tree_succ_blocks(b) ==
  {c \in Reachable(succ) \ {Entry} : IDom(succ, c) = b}

Init ==
  /\ \E p \in Programs : succ = p.succ /\ code = p.code
  /\ dom_frontier = [b \in Blocks |-> get_dominance_frontier(b)]
  /\ dom_tree_succ = [b \in Blocks |-> get_dom_tree_succ_blocks(b)]
  /\ phase = "phi"
  /\ vars_left = {v \in Vars : \E b \in Blocks : StoresIn(b, v) # {}}
  /\ var = CHOOSE v \in Vars : TRUE
  /\ work_list = {}
  /\ phis = [b \in Blocks |-> {}]
  /\ phi_pairs = [bv \in Blocks \X Vars |-> {}]
  /\ frames = <<>> /\ pc = 1 /\ fill = {}
  /\ var_val_stack = [v \in Vars |-> <<>>] /\ found = {}
  /\ repl = [x \in LoadValues |-> x]
  /\ erased = {}
  /\ allocas = Vars

-----------------------------------------------------------------------------
(* generate_phi *)

PickVar(v) ==
  /\ phase = "phi" /\ work_list = {} /\ v \in vars_left
  /\ vars_left' = vars_left \ {v}
  /\ var' = v
  /\ work_list' = {b \in Blocks : StoresIn(b, v) # {}}
  /\ UNCHANGED <<progVars, phase, phis, nameVars, allocas>>

\* Faulty variant: a block that gets a phi does not join the worklist.
PlacePhisOnce(b) ==
  /\ phase = "phi" /\ b \in work_list
  /\ phis' = [j \in Blocks |-> IF j \in dom_frontier[b] THEN phis[j] \cup {var} ELSE phis[j]]
  /\ work_list' = work_list \ {b}
  /\ UNCHANGED <<progVars, phase, vars_left, var, nameVars, allocas>>

\* One block of the worklist: every block of its frontier that has no phi for
\* the variable gets one and joins the worklist.
PlacePhis(b) ==
  /\ phase = "phi" /\ b \in work_list
  /\ LET new == {j \in dom_frontier[b] : var \notin phis[j]} IN
       /\ phis' = [j \in Blocks |-> IF j \in new THEN phis[j] \cup {var} ELSE phis[j]]
       /\ work_list' = (work_list \ {b}) \cup new
  /\ UNCHANGED <<progVars, phase, vars_left, var, nameVars, allocas>>

-----------------------------------------------------------------------------
(* re_name *)

\* Faulty variant: only the children in the dominator tree are filled.
CallFillTree(b, callers) ==
  /\ frames' = Append(callers, [bb |-> b, left |-> dom_tree_succ[b], wait_delete |-> {}])
  /\ pc' = 1 /\ fill' = dom_tree_succ[b]
  /\ var_val_stack' = [v \in Vars |-> IF v \in phis[b]
                                      THEN Append(var_val_stack[v], PhiValue(b, v))
                                      ELSE var_val_stack[v]]
  /\ found' = found \cup phis[b]

\* The call of re_name(b): the phis of b are the newest values.
Call(b, callers) ==
  /\ frames' = Append(callers, [bb |-> b, left |-> dom_tree_succ[b], wait_delete |-> {}])
  /\ pc' = 1 /\ fill' = succ[b]
  /\ var_val_stack' = [v \in Vars |-> IF v \in phis[b]
                                      THEN Append(var_val_stack[v], PhiValue(b, v))
                                      ELSE var_val_stack[v]]
  /\ found' = found \cup phis[b]

StartRename ==
  /\ phase = "phi" /\ work_list = {} /\ vars_left = {}
  /\ phase' = "rename"
  /\ Call(Entry, <<>>)
  /\ UNCHANGED <<progVars, phiVars, phi_pairs, repl, erased, allocas>>

Renaming == phase = "rename" /\ frames # <<>>
Top == Last(frames)
Here == <<Top.bb, pc>>
InCode == Renaming /\ pc <= Len(code[Top.bb])

Delete(a) == [frames EXCEPT ![Len(frames)].wait_delete = @ \cup {a}]

\* Faulty variant: the load is replaced but stays.
RenameLoadKept ==
  /\ InCode /\ Instr(Here).op = "load"
  /\ IF Instr(Here).var \in found
     THEN repl' = [repl EXCEPT ![LoadValue(Here)] = Last(var_val_stack[Instr(Here).var])]
     ELSE UNCHANGED repl
  /\ pc' = pc + 1
  /\ UNCHANGED <<progVars, phase, phiVars, phi_pairs, frames, fill, var_val_stack, found,
                 erased, allocas>>

\* A load becomes the newest value of its variable; the key must exist, the
\* vector behind it is not looked at.
RenameLoad ==
  /\ InCode /\ Instr(Here).op = "load"
  /\ IF Instr(Here).var \in found
     THEN LET s == var_val_stack[Instr(Here).var] IN
            /\ repl' = [repl EXCEPT ![LoadValue(Here)] = IF s = <<>> THEN Garbage ELSE Last(s)]
            /\ frames' = Delete(Here)
     ELSE UNCHANGED <<repl, frames>>
  /\ pc' = pc + 1
  /\ UNCHANGED <<progVars, phase, phiVars, phi_pairs, fill, var_val_stack, found, erased, allocas>>

\* Faulty variant: the address is taken for the value.
RenameStoreAddress ==
  /\ InCode /\ Instr(Here).op = "store"
  /\ LET v == Instr(Here).var IN
       /\ var_val_stack' = [var_val_stack EXCEPT ![v] = Append(@, v)]
       /\ found' = found \cup {v}
  /\ frames' = Delete(Here)
  /\ pc' = pc + 1
  /\ UNCHANGED <<progVars, phase, phiVars, phi_pairs, fill, repl, erased, allocas>>

RenameStore ==
  /\ InCode /\ Instr(Here).op = "store"
  /\ LET v == Instr(Here).var IN
       /\ var_val_stack' = [var_val_stack EXCEPT ![v] = Append(@, get_rval(Here))]
       /\ found' = found \cup {v}
  /\ frames' = Delete(Here)
  /\ pc' = pc + 1
  /\ UNCHANGED <<progVars, phase, phiVars, phi_pairs, fill, repl, erased, allocas>>

\* Faulty variant: the oldest value instead of the newest.
FillPhisOldest(s) ==
  /\ Renaming /\ ~InCode /\ s \in fill
  /\ \A v \in phis[s] \cap found : var_val_stack[v] # <<>>
  /\ phi_pairs' = [bv \in Blocks \X Vars |->
                     IF bv[1] = s /\ bv[2] \in phis[s] \cap found
                     THEN phi_pairs[bv] \cup {<<Head(var_val_stack[bv[2]]), Top.bb>>}
                     ELSE phi_pairs[bv]]
  /\ fill' = fill \ {s}
  /\ UNCHANGED <<progVars, phase, phiVars, frames, pc, var_val_stack, found, repl, erased, allocas>>

\* The phis of one successor get their pair for this block, those of variables
\* without a key do not; the assert stops the pass on an empty stack.
FillPhis(s) ==
  /\ Renaming /\ ~InCode /\ s \in fill
  /\ \A v \in phis[s] \cap found : var_val_stack[v] # <<>>
  /\ phi_pairs' = [bv \in Blocks \X Vars |->
                     IF bv[1] = s /\ bv[2] \in phis[s] \cap found
                     THEN phi_pairs[bv] \cup {<<Last(var_val_stack[bv[2]]), Top.bb>>}
                     ELSE phi_pairs[bv]]
  /\ fill' = fill \ {s}
  /\ UNCHANGED <<progVars, phase, phiVars, frames, pc, var_val_stack, found, repl, erased, allocas>>

Recursing == Renaming /\ ~InCode /\ fill = {}

\* Faulty variant: a child is visited again and again.
RecurseAgain(c) ==
  /\ Recursing /\ c \in Top.left
  /\ Call(c, frames)
  /\ UNCHANGED <<progVars, phase, phiVars, phi_pairs, repl, erased, allocas>>

\* Children in the dominator tree, in the order of their addresses.
Recurse(c) ==
  /\ Recursing /\ c \in Top.left
  /\ Call(c, [frames EXCEPT ![Len(frames)].left = @ \ {c}])
  /\ UNCHANGED <<progVars, phase, phiVars, phi_pairs, repl, erased, allocas>>

\* Faulty variants: the values of phis stay on the stacks; a load pops a value
\* as a store does.
ReturnKeepPhis ==
  /\ Recursing /\ Top.left = {}
  /\ var_val_stack' =
       [v \in Vars |-> SubSeq(var_val_stack[v], 1,
                              Len(var_val_stack[v]) - Cardinality(StoresIn(Top.bb, v)))]
  /\ erased' = erased \cup Top.wait_delete
  /\ frames' = Front(frames)
  /\ pc' = IF Len(frames) = 1 THEN 1 ELSE Len(code[frames[Len(frames)-1].bb]) + 1
  /\ UNCHANGED <<progVars, phase, phiVars, phi_pairs, fill, found, repl, allocas>>

ReturnPopLoads ==
  /\ Recursing /\ Top.left = {}
  /\ var_val_stack' =
       [v \in Vars |->
          LET pushed == Cardinality({k \in 1..Len(code[Top.bb]) : code[Top.bb][k].var = v})
                          + (IF v \in phis[Top.bb] THEN 1 ELSE 0)
          IN  SubSeq(var_val_stack[v], 1, Len(var_val_stack[v]) - pushed)]
  /\ erased' = erased \cup Top.wait_delete
  /\ frames' = Front(frames)
  /\ pc' = IF Len(frames) = 1 THEN 1 ELSE Len(code[frames[Len(frames)-1].bb]) + 1
  /\ UNCHANGED <<progVars, phase, phiVars, phi_pairs, fill, found, repl, allocas>>

\* Definitions of this block are popped, and its accesses erased.
Return ==
  /\ Recursing /\ Top.left = {}
  /\ var_val_stack' =
       [v \in Vars |->
          LET pushed == Cardinality(StoresIn(Top.bb, v)) + (IF v \in phis[Top.bb] THEN 1 ELSE 0)
          IN  SubSeq(var_val_stack[v], 1, Len(var_val_stack[v]) - pushed)]
  /\ erased' = erased \cup Top.wait_delete
  /\ frames' = Front(frames)
  \* The caller has dealt with its accesses and its successors.
  /\ pc' = IF Len(frames) = 1 THEN 1 ELSE Len(code[frames[Len(frames)-1].bb]) + 1
  /\ UNCHANGED <<progVars, phase, phiVars, phi_pairs, fill, found, repl, allocas>>

remove_alloca ==
  /\ phase = "rename" /\ frames = <<>>
  /\ allocas' = {}
  /\ phase' = "done"
  /\ UNCHANGED <<progVars, phiVars, nameVars>>

Next ==
  \/ \E v \in Vars : PickVar(v)
  \/ \E b \in Blocks : PlacePhis(b) \/ FillPhis(b) \/ Recurse(b)
  \/ StartRename \/ RenameLoad \/ RenameStore \/ Return
  \/ remove_alloca

\* One thread, which runs until it returns.
Spec == Init /\ [][Next]_vars /\ WF_vars(Next)

-----------------------------------------------------------------------------
(***************************************************************************)
(* Properties                                                              *)
(***************************************************************************)

Values ==
  {Garbage} \cup LoadValues \cup {DefValue(a) : a \in Accesses}
            \cup {PhiValue(b, v) : b \in Blocks, v \in Vars}

\* A call of re_name that has not returned.
Calls == [bb : Blocks, left : SUBSET Blocks, wait_delete : SUBSET Accesses]

\* Every variable has the shape the code gives it.
TypeOK ==
  /\ succ \in Graph /\ code \in [Blocks -> Seq(Access)]
  /\ dom_frontier \in [Blocks -> SUBSET Blocks] /\ dom_tree_succ \in [Blocks -> SUBSET Blocks]
  /\ phase \in {"phi", "rename", "done"}
  /\ vars_left \subseteq Vars /\ work_list \subseteq Blocks /\ (work_list # {} => var \in Vars)
  /\ phis \in [Blocks -> SUBSET Vars]
  /\ phi_pairs \in [Blocks \X Vars -> SUBSET (Values \X Blocks)]
  /\ frames \in Seq(Calls)
  /\ pc \in Nat \ {0} /\ fill \subseteq Blocks
  /\ var_val_stack \in [Vars -> Seq(Values)]
  /\ found \subseteq Vars /\ allocas \subseteq Vars
  /\ repl \in [LoadValues -> Values]
  /\ erased \subseteq Accesses

\* Phis are placed in the iterated dominance frontier of the stores, all of it
\* and nothing else, whatever the order of the worklist.
IteratedFrontier(v) ==
  {j \in Blocks : \A S \in SUBSET Blocks :
     (\A b \in Blocks : StoresIn(b, v) # {} \/ b \in S => dom_frontier[b] \subseteq S) => j \in S}

PhisExact ==
  phase = "rename" /\ Len(frames) = 1 =>
    \A v \in Vars : {b \in Blocks : v \in phis[b]} = IteratedFrontier(v)

\* A value on a stack, unless it is garbage, was computed in a block whose call
\* is open, that is, in one that dominates the block in hand; when all calls
\* have returned, every push has had its pop.
StackedValuesDominate ==
  /\ phase = "rename" =>
       \A v \in Vars : \A i \in 1..Len(var_val_stack[v]) :
         \/ var_val_stack[v][i] = Garbage
         \/ \E j \in 1..Len(frames) : frames[j].bb = var_val_stack[v][i][2]
  /\ phase = "done" => \A v \in Vars : var_val_stack[v] = <<>>

(***************************************************************************)
(* What the next properties need of a program.  The entry block stores to  *)
(* each variable, before its own loads of it, as it does to parameters and *)
(* to what is initialised at the head of a function; a block that is not   *)
(* reachable has no access, as after a return at the end of a function.    *)
(***************************************************************************)
SetsFirst(p) ==
  \A b \in Blocks : \A k \in 1..Len(p.code[b]) :
    \E j \in 1..Len(p.code[Entry]) :
      /\ p.code[Entry][j].op = "store" /\ p.code[Entry][j].var = p.code[b][k].var
      /\ b = Entry /\ p.code[b][k].op = "load" => j < k

NoDeadAccess(p) == \A b \in Blocks \ Reachable(p.succ) : p.code[b] = <<>>

\* The assert of re_name: a variable that has a key and a phi in a successor
\* has a value.  Comment at the assert: a phi with a value from one
\* predecessor only is printed with undef for the other.
AssertHolds ==
  Renaming /\ ~InCode =>
    \A s \in fill : \A v \in phis[s] \cap found : var_val_stack[v] # <<>>

\* re_name never takes back() of an empty vector: not where the assert stands,
\* and not where a load is replaced, which only asks whether the key exists.
BackExists ==
  /\ AssertHolds
  /\ InCode /\ Instr(Here).op = "load" /\ Instr(Here).var \in found =>
       var_val_stack[Instr(Here).var] # <<>>

\* Every phi of a reachable block ends with one pair for each predecessor.
PhisFilled ==
  phase = "done" =>
    \A b \in Reachable(succ) : \A v \in phis[b] : \A p \in Preds(succ, b) :
      Cardinality({x \in phi_pairs[<<b, v>>] : x[2] = p}) = 1

\* Nothing that is kept refers to a load that has been replaced: copies from
\* variable to variable are followed to the end before they are recorded.
NoReplacedOperand ==
  LET replaced == {x \in DOMAIN repl : repl[x] # x} IN
    /\ \A x \in replaced : repl[x] \notin replaced
    /\ \A bv \in Blocks \X Vars : \A p \in phi_pairs[bv] : p[1] \notin replaced

\* Comment in run(): remove_alloca removes redundant allocations.  An alloca
\* that goes has no load or store left.
AllocasRedundant ==
  \A a \in Accesses : Instr(a).var \notin allocas => a \in erased

\* The pass returns.
Terminates == <>(phase = "done")
=============================================================================
