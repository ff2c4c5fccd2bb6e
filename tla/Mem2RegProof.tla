---------------------------- MODULE Mem2RegProof ----------------------------
(***************************************************************************)
(* Theorems about Mem2Reg for every function, every set of variables and   *)
(* every placement of loads, stores and copies.                            *)
(***************************************************************************)
EXTENDS Mem2Reg, DominanceTheorems

-----------------------------------------------------------------------------
(* Types. *)

ProgramOK ==
  /\ succ \in Graph /\ EntryHasNoPreds(succ) /\ NoDeadEdge(succ)
  /\ code \in [Blocks -> Seq(Access)] /\ \A b \in Blocks : WellFormedBlock(code[b])
  /\ dom_frontier = [b \in Blocks |-> get_dominance_frontier(b)]
  /\ dom_tree_succ = [b \in Blocks |-> get_dom_tree_succ_blocks(b)]

TypeInv == TypeOK /\ ProgramOK

\* The program does not change, nor what is defined from it alone.
LEMMA SameProgram ==
  ASSUME UNCHANGED progVars
  PROVE  /\ Accesses' = Accesses /\ LoadValues' = LoadValues /\ Values' = Values
         /\ Calls' = Calls /\ ProgramOK' = ProgramOK
         /\ \A b, v : StoresIn(b, v)' = StoresIn(b, v)
         /\ \A a : Instr(a)' = Instr(a)
<1> USE DEF progVars
<1>1. Accesses' = Accesses
  BY DEF Accesses
<1>2. \A a : Instr(a)' = Instr(a)
  BY DEF Instr
<1>3. LoadValues' = LoadValues
  BY <1>1, <1>2 DEF LoadValues
<1>4. Values' = Values
  BY <1>1, <1>3 DEF Values
<1>5. Calls' = Calls
  BY <1>1 DEF Calls
<1>6. \A b, v : StoresIn(b, v)' = StoresIn(b, v)
  BY DEF StoresIn
<1>7. ProgramOK' = ProgramOK
  BY DEF ProgramOK, get_dominance_frontier, get_dom_tree_succ_blocks
<1> QED
  BY <1>1, <1>2, <1>3, <1>4, <1>5, <1>6, <1>7

\* Every action but the stuttering one leaves the program as it is.
LEMMA NextSameProgram == [Next]_vars => UNCHANGED progVars
BY DEF Next, vars, PickVar, PlacePhis, FillPhis, Recurse, StartRename, RenameLoad, RenameStore,
       Return, remove_alloca

\* The innermost call, and the access it has come to.
LEMMA TopOK ==
  ASSUME TypeInv, Renaming
  PROVE  /\ Len(frames) \in Nat \ {0} /\ Top = frames[Len(frames)] /\ Top \in Calls
         /\ Top.bb \in Blocks /\ code[Top.bb] \in Seq(Access)
<1>1. frames \in Seq(Calls) /\ frames # <<>>
  BY DEF TypeInv, TypeOK, Renaming
<1>2. Len(frames) \in Nat \ {0} /\ Top = frames[Len(frames)]
  BY <1>1 DEF Top, Last
<1>3. Top \in Calls
  BY <1>1, <1>2
<1> QED
  BY <1>2, <1>3 DEF Calls, TypeInv, TypeOK

LEMMA HereOK ==
  ASSUME TypeInv, InCode
  PROVE  /\ pc \in 1..Len(code[Top.bb])
         /\ Here \in Accesses /\ Instr(Here) = code[Top.bb][pc] /\ Instr(Here) \in Access
         /\ Instr(Here).op = "load" => LoadValue(Here) \in LoadValues
<1>1. Renaming /\ pc \in Nat \ {0} /\ pc <= Len(code[Top.bb])
  BY DEF InCode, TypeInv, TypeOK
<1>2. Top.bb \in Blocks /\ code[Top.bb] \in Seq(Access)
  BY <1>1, TopOK
<1>3. pc \in 1..Len(code[Top.bb])
  BY <1>1, <1>2
<1>4. Here \in Accesses
  BY <1>2, <1>3 DEF Accesses, Here
<1>5. Instr(Here) = code[Top.bb][pc]
  BY DEF Instr, Here
<1> QED
  BY <1>2, <1>3, <1>4, <1>5 DEF LoadValues

\* The operand of a store: a value computed here, or what has become of a load
\* further up in the block.
LEMMA OperandOK ==
  ASSUME TypeInv, InCode, Instr(Here).op = "store"
  PROVE  /\ get_rval(Here) \in Values
         /\ \/ get_rval(Here) = DefValue(Here)
            \/ \E k \in 1..(pc-1) : /\ <<Top.bb, k>> \in Accesses
                                    /\ LoadValue(<<Top.bb, k>>) \in LoadValues
                                    /\ get_rval(Here) = repl[LoadValue(<<Top.bb, k>>)]
<1> DEFINE k == Instr(Here).src
<1>1. /\ pc \in 1..Len(code[Top.bb]) /\ Here \in Accesses /\ Instr(Here) = code[Top.bb][pc]
      /\ k \in Nat /\ Top.bb \in Blocks /\ code[Top.bb] \in Seq(Access)
  BY HereOK, TopOK DEF InCode, Access
<1>2. repl \in [LoadValues -> Values]
  BY DEF TypeInv, TypeOK
<1>3. CASE k = 0
  <2>1. get_rval(Here) = DefValue(Here)
    BY <1>3 DEF get_rval
  <2> QED
    BY <1>1, <2>1 DEF Values
<1>4. CASE k # 0
  <2>1. k < pc /\ code[Top.bb][k].op = "load"
    BY <1>1, <1>4 DEF TypeInv, ProgramOK, WellFormedBlock
  <2>2. k \in 1..(pc-1) /\ k \in 1..Len(code[Top.bb])
    BY <1>1, <1>4, <2>1
  <2>3. <<Top.bb, k>> \in Accesses
    BY <1>1, <2>2 DEF Accesses
  <2>4. LoadValue(<<Top.bb, k>>) \in LoadValues
    BY <2>1, <2>3 DEF LoadValues, Instr
  <2>5. get_rval(Here) = repl[LoadValue(<<Top.bb, k>>)]
    BY <1>2, <1>4, <2>4 DEF get_rval, Current, Here
  <2> QED
    BY <1>2, <2>2, <2>3, <2>4, <2>5
<1> QED
  BY <1>3, <1>4

\* Popping some values off a stack leaves a stack.
LEMMA Popped ==
  ASSUME NEW S, NEW s \in Seq(S), NEW n \in Nat
  PROVE  /\ SubSeq(s, 1, Len(s) - n) \in Seq(S)
         /\ n <= Len(s) => Len(SubSeq(s, 1, Len(s) - n)) = Len(s) - n
         /\ \A i \in 1..Len(SubSeq(s, 1, Len(s) - n)) :
              i \in 1..Len(s) /\ SubSeq(s, 1, Len(s) - n)[i] = s[i]
<1>1. CASE n <= Len(s)
  BY <1>1
<1>2. CASE n > Len(s)
  <2>1. SubSeq(s, 1, Len(s) - n) = <<>>
    BY <1>2
  <2> QED
    BY <1>2, <2>1
<1> QED
  BY <1>1, <1>2

\* What a call of re_name pushes for v: the phi at first, then the stores.
StoresBefore(b, v, n) == {k \in StoresIn(b, v) : k < n}
PhiCount(b, v) == IF v \in phis[b] THEN 1 ELSE 0

LEMMA StoresFinite ==
  ASSUME TypeInv, NEW b \in Blocks, NEW v
  PROVE  /\ IsFiniteSet(StoresIn(b, v)) /\ Cardinality(StoresIn(b, v)) \in Nat
         /\ PhiCount(b, v) \in Nat
<1>1. code[b] \in Seq(Access)
  BY DEF TypeInv, TypeOK
<1>2. StoresIn(b, v) \subseteq 1..Len(code[b]) /\ IsFiniteSet(1..Len(code[b]))
  BY <1>1, FS_Interval DEF StoresIn
<1> QED
  BY <1>2, FS_Subset, FS_CardinalityType DEF PhiCount

LEMMA FrontierOK ==
  ASSUME succ \in Graph, NEW b \in Blocks
  PROVE  get_dominance_frontier(b) \subseteq Blocks /\ get_dom_tree_succ_blocks(b) \subseteq Blocks
BY DEF get_dominance_frontier, get_dom_tree_succ_blocks, Frontier, Reachable, Graph

LEMMA InitTypes == Init => TypeInv
<1> SUFFICES ASSUME Init PROVE TypeInv
  OBVIOUS
<1> USE DEF Init
<1>1. /\ succ \in Graph /\ EntryHasNoPreds(succ) /\ NoDeadEdge(succ)
      /\ code \in [Blocks -> Seq(Access)] /\ \A b \in Blocks : WellFormedBlock(code[b])
  BY ProgramsAssumption
<1>2. ProgramOK
  BY <1>1 DEF ProgramOK
<1>3. /\ dom_frontier \in [Blocks -> SUBSET Blocks] /\ dom_tree_succ \in [Blocks -> SUBSET Blocks]
  BY <1>1, FrontierOK
<1>4. repl \in [LoadValues -> Values]
  BY DEF Values
<1>5. phi_pairs \in [Blocks \X Vars -> SUBSET (Values \X Blocks)]
  OBVIOUS
<1>6. frames \in Seq(Calls) /\ var_val_stack \in [Vars -> Seq(Values)]
  OBVIOUS
<1>7. /\ vars_left \subseteq Vars /\ work_list \subseteq Blocks /\ (work_list # {} => var \in Vars)
      /\ phis \in [Blocks -> SUBSET Vars]
      /\ pc \in Nat \ {0} /\ fill \subseteq Blocks /\ found \subseteq Vars /\ allocas \subseteq Vars
      /\ erased \subseteq Accesses /\ phase \in {"phi", "rename", "done"}
  OBVIOUS
<1> QED
  BY <1>1, <1>2, <1>3, <1>4, <1>5, <1>6, <1>7 DEF TypeInv, TypeOK

LEMMA ReplaceElement ==
  ASSUME NEW S, NEW s \in Seq(S), NEW n \in 1..Len(s), NEW t \in S
  PROVE  /\ [s EXCEPT ![n] = t] \in Seq(S) /\ Len([s EXCEPT ![n] = t]) = Len(s)
         /\ \A i \in 1..Len(s) : [s EXCEPT ![n] = t][i] = IF i = n THEN t ELSE s[i]
OBVIOUS

\* The shape of the calls after the innermost one has changed its record.
LEMMA DeleteOK ==
  ASSUME TypeInv, Renaming, NEW a \in Accesses
  PROVE  /\ Delete(a) \in Seq(Calls) /\ Len(Delete(a)) = Len(frames)
         /\ \A i \in 1..Len(frames) :
              /\ Delete(a)[i].bb = frames[i].bb /\ Delete(a)[i].left = frames[i].left
              /\ Delete(a)[i].wait_delete =
                   IF i = Len(frames) THEN frames[i].wait_delete \cup {a}
                   ELSE frames[i].wait_delete
<1> DEFINE n == Len(frames)
           t == [frames[n] EXCEPT !.wait_delete = @ \cup {a}]
<1>1. n \in Nat \ {0} /\ frames[n] \in Calls /\ frames \in Seq(Calls)
  BY TopOK DEF TypeInv, TypeOK
<1>2. /\ t \in Calls /\ t.bb = frames[n].bb /\ t.left = frames[n].left
      /\ t.wait_delete = frames[n].wait_delete \cup {a}
  BY <1>1 DEF Calls
<1>3. Delete(a) = [frames EXCEPT ![n] = t]
  BY DEF Delete
<1> HIDE DEF t
<1>4. /\ Delete(a) \in Seq(Calls) /\ Len(Delete(a)) = n
      /\ \A i \in 1..n : Delete(a)[i] = IF i = n THEN t ELSE frames[i]
  BY <1>1, <1>2, <1>3, ReplaceElement
<1> QED
  BY <1>2, <1>4

\* The calls after a child of the innermost block has been taken.
Taken(c) == [frames EXCEPT ![Len(frames)].left = @ \ {c}]

LEMMA TakenOK ==
  ASSUME TypeInv, Renaming, NEW c
  PROVE  /\ Taken(c) \in Seq(Calls) /\ Len(Taken(c)) = Len(frames)
         /\ \A i \in 1..Len(frames) :
              /\ Taken(c)[i].bb = frames[i].bb /\ Taken(c)[i].wait_delete = frames[i].wait_delete
              /\ Taken(c)[i].left =
                   IF i = Len(frames) THEN frames[i].left \ {c} ELSE frames[i].left
<1> DEFINE n == Len(frames)
           t == [frames[n] EXCEPT !.left = @ \ {c}]
<1>1. n \in Nat \ {0} /\ frames[n] \in Calls /\ frames \in Seq(Calls)
  BY TopOK DEF TypeInv, TypeOK
<1>2. /\ t \in Calls /\ t.bb = frames[n].bb /\ t.wait_delete = frames[n].wait_delete
      /\ t.left = frames[n].left \ {c}
  BY <1>1 DEF Calls
<1>3. Taken(c) = [frames EXCEPT ![n] = t]
  BY DEF Taken
<1> HIDE DEF t
<1>4. /\ Taken(c) \in Seq(Calls) /\ Len(Taken(c)) = n
      /\ \A i \in 1..n : Taken(c)[i] = IF i = n THEN t ELSE frames[i]
  BY <1>1, <1>2, <1>3, ReplaceElement
<1> QED
  BY <1>2, <1>4

LEMMA CallOK ==
  ASSUME TypeInv, NEW b \in Blocks, NEW callers \in Seq(Calls), Call(b, callers)
  PROVE  /\ frames' \in Seq(Calls) /\ Len(frames') = Len(callers) + 1
         /\ \A i \in 1..Len(callers) : frames'[i] = callers[i]
         /\ frames'[Len(frames')].bb = b /\ frames'[Len(frames')].left = dom_tree_succ[b]
         /\ frames'[Len(frames')].wait_delete = {}
         /\ pc' = 1 /\ fill' = succ[b] /\ fill' \subseteq Blocks
         /\ var_val_stack' \in [Vars -> Seq(Values)]
         /\ found' = found \cup phis[b] /\ found' \subseteq Vars
<1> DEFINE t == [bb |-> b, left |-> dom_tree_succ[b], wait_delete |-> {}]
<1>1. t \in Calls /\ t.bb = b /\ t.left = dom_tree_succ[b] /\ t.wait_delete = {}
  BY DEF Calls, TypeInv, TypeOK
<1>2. frames' = Append(callers, t)
  BY DEF Call
<1>3. var_val_stack' \in [Vars -> Seq(Values)]
  <2>1. \A v \in Vars : PhiValue(b, v) \in Values
    BY DEF Values
  <2>2. \A v \in Vars : var_val_stack[v] \in Seq(Values)
    BY DEF TypeInv, TypeOK
  <2> QED
    BY <2>1, <2>2 DEF Call
<1>4. pc' = 1 /\ fill' = succ[b] /\ fill' \subseteq Blocks /\ found' = found \cup phis[b]
      /\ found' \subseteq Vars
  BY DEF Call, TypeInv, TypeOK, Graph
<1> HIDE DEF t
<1> QED
  BY <1>1, <1>2, <1>3, <1>4

LEMMA StartOK ==
  ASSUME TypeInv, StartRename
  PROVE  /\ Len(frames') = 1 /\ frames'[1].bb = Entry /\ frames'[1].left = dom_tree_succ[Entry]
         /\ frames'[1].wait_delete = {} /\ pc' = 1 /\ fill' = succ[Entry]
         /\ found' = found \cup phis[Entry]
<1> DEFINE none == <<>>
<1>1. Call(Entry, none)
  BY DEF StartRename
<1>2. none \in Seq(Calls) /\ Len(none) = 0
  OBVIOUS
<1> HIDE DEF none
<1>3. /\ Len(frames') = Len(none) + 1 /\ frames'[Len(frames')].bb = Entry
      /\ frames'[Len(frames')].left = dom_tree_succ[Entry]
      /\ frames'[Len(frames')].wait_delete = {} /\ pc' = 1 /\ fill' = succ[Entry]
      /\ found' = found \cup phis[Entry]
  BY <1>1, <1>2, CallOK, EntryAssumption
<1> QED
  BY <1>2, <1>3

\* What Return leaves: the callers, and the stacks without what was pushed.
LEMMA ReturnOK ==
  ASSUME TypeInv, Return
  PROVE  /\ frames' \in Seq(Calls) /\ Len(frames') = Len(frames) - 1
         /\ \A i \in 1..Len(frames') : frames'[i] = frames[i]
         /\ pc' \in Nat \ {0} /\ erased' = erased \cup Top.wait_delete
         /\ (Len(frames) > 1 => pc' = Len(code[frames[Len(frames) - 1].bb]) + 1)
         /\ var_val_stack' \in [Vars -> Seq(Values)]
         /\ \A v \in Vars :
              LET n == Cardinality(StoresIn(Top.bb, v)) + PhiCount(Top.bb, v) IN
              /\ n <= Len(var_val_stack[v]) =>
                   Len(var_val_stack'[v]) = Len(var_val_stack[v]) - n
              /\ \A i \in 1..Len(var_val_stack'[v]) :
                   i \in 1..Len(var_val_stack[v]) /\ var_val_stack'[v][i] = var_val_stack[v][i]
<1>1. /\ Len(frames) \in Nat \ {0} /\ Top = frames[Len(frames)] /\ Top \in Calls
      /\ Top.bb \in Blocks /\ frames \in Seq(Calls)
  BY TopOK DEF Return, Recursing, TypeInv, TypeOK
<1>2. frames' = [i \in 1..(Len(frames) - 1) |-> frames[i]]
  BY DEF Return, Front
<1>3. frames' \in Seq(Calls) /\ Len(frames') = Len(frames) - 1
      /\ \A i \in 1..Len(frames') : frames'[i] = frames[i]
  BY <1>1, <1>2
<1>4. Len(frames) > 1 => frames[Len(frames) - 1].bb \in Blocks
  <2>1. Len(frames) > 1 => frames[Len(frames) - 1] \in Calls
    BY <1>1
  <2> QED
    BY <2>1 DEF Calls
<1>5. pc' \in Nat \ {0} /\ (Len(frames) > 1 => pc' = Len(code[frames[Len(frames) - 1].bb]) + 1)
  <2>1. \A b \in Blocks : Len(code[b]) \in Nat
    BY DEF TypeInv, TypeOK
  <2>2. pc' = IF Len(frames) = 1 THEN 1 ELSE Len(code[frames[Len(frames)-1].bb]) + 1
    BY DEF Return
  <2> QED
    BY <1>1, <1>4, <2>1, <2>2
<1> DEFINE n(v) == Cardinality(StoresIn(Top.bb, v)) + PhiCount(Top.bb, v)
<1>6. var_val_stack' = [v \in Vars |-> SubSeq(var_val_stack[v], 1, Len(var_val_stack[v]) - n(v))]
  BY DEF Return, PhiCount
<1>7. \A v \in Vars : n(v) \in Nat /\ var_val_stack[v] \in Seq(Values)
  BY <1>1, StoresFinite DEF TypeInv, TypeOK
<1> HIDE DEF n
<1>8. \A v \in Vars :
        LET t == SubSeq(var_val_stack[v], 1, Len(var_val_stack[v]) - n(v)) IN
        /\ t \in Seq(Values)
        /\ n(v) <= Len(var_val_stack[v]) => Len(t) = Len(var_val_stack[v]) - n(v)
        /\ \A i \in 1..Len(t) : i \in 1..Len(var_val_stack[v]) /\ t[i] = var_val_stack[v][i]
  BY <1>7, Popped
<1>9. /\ var_val_stack' \in [Vars -> Seq(Values)]
      /\ \A v \in Vars :
           /\ n(v) <= Len(var_val_stack[v]) =>
                Len(var_val_stack'[v]) = Len(var_val_stack[v]) - n(v)
           /\ \A i \in 1..Len(var_val_stack'[v]) :
                i \in 1..Len(var_val_stack[v]) /\ var_val_stack'[v][i] = var_val_stack[v][i]
  BY <1>6, <1>8
<1>10. erased' = erased \cup Top.wait_delete
  BY DEF Return
<1> QED
  BY <1>3, <1>5, <1>9, <1>10 DEF n

LEMMA PhiStepTypes ==
  ASSUME TypeInv, (\E v \in Vars : PickVar(v)) \/ (\E b \in Blocks : PlacePhis(b))
  PROVE  TypeOK'
<1>0. UNCHANGED progVars
  BY DEF PickVar, PlacePhis
<1>1. Values' = Values /\ Accesses' = Accesses /\ LoadValues' = LoadValues /\ Calls' = Calls
  BY <1>0, SameProgram
<1>2. CASE \E v \in Vars : PickVar(v)
  BY <1>1, <1>2 DEF PickVar, TypeInv, TypeOK, progVars, nameVars
<1>3. CASE \E b \in Blocks : PlacePhis(b)
  BY <1>1, <1>3 DEF PlacePhis, TypeInv, TypeOK, progVars, nameVars
<1> QED
  BY <1>2, <1>3

LEMMA CallTypes ==
  ASSUME TypeInv, StartRename \/ \E c \in Blocks : Recurse(c)
  PROVE  TypeOK'
<1>0. UNCHANGED progVars
  BY DEF StartRename, Recurse
<1>1. Values' = Values /\ Accesses' = Accesses /\ LoadValues' = LoadValues /\ Calls' = Calls
  BY <1>0, SameProgram
<1>2. CASE StartRename
  <2>1. Call(Entry, <<>>) /\ <<>> \in Seq(Calls)
    BY <1>2 DEF StartRename
  <2>2. /\ frames' \in Seq(Calls) /\ pc' = 1 /\ fill' \subseteq Blocks
        /\ var_val_stack' \in [Vars -> Seq(Values)] /\ found' \subseteq Vars
    BY <2>1, CallOK, EntryAssumption
  <2> QED
    BY <1>1, <1>2, <2>2 DEF StartRename, TypeInv, TypeOK, progVars, phiVars
<1>3. CASE \E c \in Blocks : Recurse(c)
  <2>1. PICK c \in Blocks : Recurse(c)
    BY <1>3
  <2>2. Call(c, Taken(c)) /\ Taken(c) \in Seq(Calls)
    BY <2>1, TakenOK DEF Recurse, Recursing, Taken
  <2>3. /\ frames' \in Seq(Calls) /\ pc' = 1 /\ fill' \subseteq Blocks
        /\ var_val_stack' \in [Vars -> Seq(Values)] /\ found' \subseteq Vars
    BY <2>2, CallOK
  <2> QED
    BY <1>1, <2>1, <2>3 DEF Recurse, TypeInv, TypeOK, progVars, phiVars
<1> QED
  BY <1>2, <1>3

\* An access gets its value, or gives it.
LEMMA AccessTypes ==
  ASSUME TypeInv, RenameLoad \/ RenameStore
  PROVE  TypeOK'
<1>0. UNCHANGED progVars
  BY DEF RenameLoad, RenameStore
<1>1. Values' = Values /\ Accesses' = Accesses /\ LoadValues' = LoadValues /\ Calls' = Calls
  BY <1>0, SameProgram
<1>2. /\ InCode /\ Renaming /\ Here \in Accesses /\ Instr(Here) \in Access
      /\ Delete(Here) \in Seq(Calls)
  BY HereOK, DeleteOK DEF RenameLoad, RenameStore, InCode
<1>3. Instr(Here).var \in Vars
  BY <1>2 DEF Access
<1>4. var_val_stack[Instr(Here).var] \in Seq(Values)
  BY <1>3 DEF TypeInv, TypeOK
<1>5. CASE RenameLoad
  <2>1. LoadValue(Here) \in LoadValues
    BY <1>2, <1>5, HereOK DEF RenameLoad
  <2> DEFINE s == var_val_stack[Instr(Here).var]
  <2>2. (IF s = <<>> THEN Garbage ELSE Last(s)) \in Values
    BY <1>4 DEF Last, Values
  <2>3. repl' \in [LoadValues -> Values] /\ frames' \in Seq(Calls)
    BY <1>2, <1>5, <2>2 DEF RenameLoad, TypeInv, TypeOK
  <2> QED
    BY <1>1, <1>5, <2>3 DEF RenameLoad, TypeInv, TypeOK, progVars, phiVars
<1>6. CASE RenameStore
  <2>1. get_rval(Here) \in Values
    BY <1>2, <1>6, OperandOK DEF RenameStore
  <2>2. var_val_stack' \in [Vars -> Seq(Values)] /\ frames' \in Seq(Calls) /\ found' \subseteq Vars
    BY <1>2, <1>3, <1>4, <1>6, <2>1 DEF RenameStore, TypeInv, TypeOK
  <2> QED
    BY <1>1, <1>6, <2>2 DEF RenameStore, TypeInv, TypeOK, progVars, phiVars
<1> QED
  BY <1>5, <1>6

LEMMA FillTypes ==
  ASSUME TypeInv, NEW s \in Blocks, FillPhis(s)
  PROVE  TypeOK'
<1>0. UNCHANGED progVars
  BY DEF FillPhis
<1>1. Values' = Values /\ Accesses' = Accesses /\ LoadValues' = LoadValues /\ Calls' = Calls
  BY <1>0, SameProgram
<1>2. Top.bb \in Blocks
  BY TopOK DEF FillPhis
<1>3. \A v \in phis[s] \cap found : v \in Vars /\ Last(var_val_stack[v]) \in Values
  BY DEF FillPhis, TypeInv, TypeOK, Last
<1>4. ASSUME NEW bv \in Blocks \X Vars
      PROVE  (IF bv[1] = s /\ bv[2] \in phis[s] \cap found
              THEN phi_pairs[bv] \cup {<<Last(var_val_stack[bv[2]]), Top.bb>>}
              ELSE phi_pairs[bv]) \in SUBSET (Values \X Blocks)
  <2>1. phi_pairs[bv] \in SUBSET (Values \X Blocks)
    BY DEF TypeInv, TypeOK
  <2>2. bv[2] \in phis[s] \cap found => <<Last(var_val_stack[bv[2]]), Top.bb>> \in Values \X Blocks
    BY <1>2, <1>3
  <2> QED
    BY <2>1, <2>2
<1>5. phi_pairs' \in [Blocks \X Vars -> SUBSET (Values \X Blocks)]
  BY <1>4 DEF FillPhis
<1>6. /\ fill' = fill \ {s}
      /\ UNCHANGED <<progVars, phase, phiVars, frames, pc, var_val_stack, found, repl, erased, allocas>>
  BY DEF FillPhis
<1> QED
  BY <1>1, <1>5, <1>6 DEF TypeInv, TypeOK, progVars, phiVars

LEMMA ReturnTypes ==
  ASSUME TypeInv, Return \/ remove_alloca
  PROVE  TypeOK'
<1>0. UNCHANGED progVars
  BY DEF Return, remove_alloca
<1>1. Values' = Values /\ Accesses' = Accesses /\ LoadValues' = LoadValues /\ Calls' = Calls
  BY <1>0, SameProgram
<1>2. CASE Return
  <2>1. /\ frames' \in Seq(Calls) /\ pc' \in Nat \ {0} /\ erased' = erased \cup Top.wait_delete
        /\ var_val_stack' \in [Vars -> Seq(Values)]
    BY <1>2, ReturnOK
  <2>2. Top.wait_delete \subseteq Accesses
    BY <1>2, TopOK DEF Return, Recursing, Calls
  <2>3. UNCHANGED <<progVars, phase, phiVars, phi_pairs, fill, found, repl, allocas>>
    BY <1>2 DEF Return
  <2> QED
    BY <1>1, <2>1, <2>2, <2>3 DEF TypeInv, TypeOK, progVars, phiVars
<1>3. CASE remove_alloca
  BY <1>1, <1>3 DEF remove_alloca, TypeInv, TypeOK, progVars, phiVars, nameVars
<1> QED
  BY <1>2, <1>3

LEMMA NextTypes == TypeInv /\ [Next]_vars => TypeInv'
<1> SUFFICES ASSUME TypeInv, [Next]_vars PROVE TypeInv'
  OBVIOUS
<1>0. UNCHANGED progVars
  BY NextSameProgram
<1>1. ProgramOK'
  BY <1>0, SameProgram DEF TypeInv
<1>2. TypeOK'
  <2>1. CASE UNCHANGED vars
    <3>1. Values' = Values /\ Accesses' = Accesses /\ LoadValues' = LoadValues /\ Calls' = Calls
      BY <1>0, SameProgram
    <3> QED
      BY <2>1, <3>1 DEF TypeInv, TypeOK, vars, progVars, phiVars, nameVars
  <2>2. CASE Next
    BY <2>2, PhiStepTypes, CallTypes, AccessTypes, FillTypes, ReturnTypes DEF Next
  <2> QED
    BY <2>1, <2>2
<1> QED
  BY <1>1, <1>2 DEF TypeInv

\* Every variable keeps the shape the code gives it, and the program stays
\* what it was at first.
LEMMA TypesInductive == Spec => []TypeInv
BY InitTypes, NextTypes, PTL DEF Spec

\* TypeOK of every run of the pass: in particular every value on a stack, in a
\* phi and in place of a load is one that the function has, and the index and
\* the sequences are never used out of their bounds to make another.
THEOREM TypeCorrect == Spec => []TypeOK
<1>1. TypeInv => TypeOK
  BY DEF TypeInv
<1> QED
  BY <1>1, TypesInductive, PTL

-----------------------------------------------------------------------------
(***************************************************************************)
(* generate_phi.  The phis of a variable stay inside the iterated frontier *)
(* of its stores.  For a variable that has been dealt with, the frontier   *)
(* of every block that defines it, by a store or a phi, has phis, but for  *)
(* the blocks that are still on the worklist.                              *)
(***************************************************************************)
Defs(v) == {b \in Blocks : StoresIn(b, v) # {}}
PhiBlocks(v) == {b \in Blocks : v \in phis[b]}

PhisNeeded == \A v \in Vars : PhiBlocks(v) \subseteq IteratedFrontier(v)

PhisPlaced ==
  \A v \in Vars \ vars_left : \A b \in Defs(v) \cup PhiBlocks(v) :
    dom_frontier[b] \subseteq PhiBlocks(v) \/ (v = var /\ b \in work_list)

Worklist ==
  /\ \A v \in vars_left : PhiBlocks(v) = {} /\ (work_list # {} => v # var)
  /\ work_list \subseteq Defs(var) \cup PhiBlocks(var)
  /\ phase # "phi" => vars_left = {} /\ work_list = {}

PhiInv == PhisNeeded /\ PhisPlaced /\ Worklist

\* The iterated frontier holds the frontier of every store, and of every block
\* it holds; it is the least set that does.
LEMMA IteratedClosed ==
  ASSUME TypeInv, NEW v, NEW b \in Defs(v) \cup IteratedFrontier(v)
  PROVE  dom_frontier[b] \subseteq IteratedFrontier(v)
<1>1. b \in Blocks /\ dom_frontier[b] \subseteq Blocks
  BY DEF Defs, IteratedFrontier, TypeInv, TypeOK
<1> QED
  BY <1>1 DEF Defs, IteratedFrontier

LEMMA IteratedLeast ==
  ASSUME NEW v, NEW S \in SUBSET Blocks, \A b \in Defs(v) \cup S : dom_frontier[b] \subseteq S
  PROVE  IteratedFrontier(v) \subseteq S
BY DEF IteratedFrontier, Defs

LEMMA PhiInit == Init => PhiInv
<1> SUFFICES ASSUME Init PROVE PhiInv
  OBVIOUS
<1>1. \A v \in Vars : PhiBlocks(v) = {}
  BY DEF Init, PhiBlocks
<1>2. \A v \in Vars \ vars_left : Defs(v) = {}
  BY DEF Init, Defs
<1>3. vars_left \subseteq Vars /\ work_list = {} /\ phase = "phi"
  BY DEF Init
<1> QED
  BY <1>1, <1>2, <1>3 DEF PhiInv, PhisNeeded, PhisPlaced, Worklist

LEMMA PhiNext == TypeInv /\ PhiInv /\ [Next]_vars => PhiInv'
<1> SUFFICES ASSUME TypeInv, PhiInv, [Next]_vars PROVE PhiInv'
  OBVIOUS
<1>0. UNCHANGED progVars
  BY NextSameProgram
<1>1. dom_frontier' = dom_frontier
  BY <1>0 DEF progVars
<1>2. \A v : Defs(v)' = Defs(v) /\ IteratedFrontier(v)' = IteratedFrontier(v)
  <2>1. \A b, v : StoresIn(b, v)' = StoresIn(b, v)
    BY <1>0, SameProgram
  <2> QED
    BY <1>1, <2>1 DEF Defs, IteratedFrontier
<1>3. vars_left \subseteq Vars /\ phis \in [Blocks -> SUBSET Vars] /\ work_list \subseteq Blocks
      /\ (work_list # {} => var \in Vars)
  BY DEF TypeInv, TypeOK
<1>4. CASE UNCHANGED phiVars /\ UNCHANGED phase
  <2>1. \A v : PhiBlocks(v)' = PhiBlocks(v)
    BY <1>4 DEF phiVars, PhiBlocks
  <2> QED
    BY <1>1, <1>2, <1>4, <2>1 DEF PhiInv, PhisNeeded, PhisPlaced, Worklist, phiVars
<1>5. ASSUME NEW v \in Vars, PickVar(v) PROVE PhiInv'
  <2>1. /\ phase = "phi" /\ phase' = phase /\ work_list = {} /\ v \in vars_left
        /\ vars_left' = vars_left \ {v} /\ var' = v /\ work_list' = Defs(v) /\ phis' = phis
    BY <1>5 DEF PickVar, Defs
  <2>2. \A w : PhiBlocks(w)' = PhiBlocks(w)
    BY <2>1 DEF PhiBlocks
  <2>3. PhisNeeded'
    BY <1>2, <2>2 DEF PhisNeeded, PhiInv
  <2>4. PhisPlaced'
    BY <1>1, <1>2, <2>1, <2>2 DEF PhisPlaced, Worklist, PhiInv
  <2>5. Worklist'
    BY <1>2, <2>1, <2>2 DEF Worklist, PhiInv
  <2> QED
    BY <2>3, <2>4, <2>5 DEF PhiInv
<1>6. ASSUME NEW b \in Blocks, PlacePhis(b) PROVE PhiInv'
  <2> DEFINE new == {j \in dom_frontier[b] : var \notin phis[j]}
  <2>1. /\ b \in work_list /\ var \in Vars /\ phase' = phase /\ phase = "phi"
        /\ vars_left' = vars_left /\ var' = var /\ work_list' = (work_list \ {b}) \cup new
        /\ phis' = [j \in Blocks |-> IF j \in new THEN phis[j] \cup {var} ELSE phis[j]]
    BY <1>3, <1>6 DEF PlacePhis
  <2>2. dom_frontier[b] \subseteq Blocks
    BY DEF TypeInv, TypeOK
  <2>3. /\ PhiBlocks(var)' = PhiBlocks(var) \cup dom_frontier[b]
        /\ \A w : w # var => PhiBlocks(w)' = PhiBlocks(w)
    BY <1>3, <2>1, <2>2 DEF PhiBlocks
  <2>4. new = dom_frontier[b] \ PhiBlocks(var)
    BY <2>2 DEF PhiBlocks
  <2> HIDE DEF new
  <2>5. b \in Defs(var) \cup PhiBlocks(var) /\ var \notin vars_left
    BY <2>1 DEF PhiInv, Worklist
  <2>6. dom_frontier[b] \subseteq IteratedFrontier(var)
    BY <2>1, <2>5, IteratedClosed DEF PhiInv, PhisNeeded
  <2>7. PhisNeeded'
    BY <1>2, <2>1, <2>3, <2>6 DEF PhiInv, PhisNeeded
  <2>8. PhisPlaced'
    BY <1>1, <1>2, <2>1, <2>3, <2>4 DEF PhiInv, PhisPlaced
  <2>9. Worklist'
    BY <1>2, <2>1, <2>3, <2>4, <2>5 DEF PhiInv, Worklist
  <2> QED
    BY <2>7, <2>8, <2>9 DEF PhiInv
<1>7. CASE StartRename
  <2>1. /\ work_list = {} /\ vars_left = {} /\ phase' = "rename" /\ UNCHANGED phiVars
    BY <1>7 DEF StartRename
  <2>2. \A v : PhiBlocks(v)' = PhiBlocks(v)
    BY <2>1 DEF phiVars, PhiBlocks
  <2> QED
    BY <1>1, <1>2, <2>1, <2>2 DEF PhiInv, PhisNeeded, PhisPlaced, Worklist, phiVars
<1>8. CASE remove_alloca
  <2>1. phase = "rename" /\ phase' = "done" /\ UNCHANGED phiVars
    BY <1>8 DEF remove_alloca
  <2>2. \A v : PhiBlocks(v)' = PhiBlocks(v)
    BY <2>1 DEF phiVars, PhiBlocks
  <2> QED
    BY <1>1, <1>2, <2>1, <2>2 DEF PhiInv, PhisNeeded, PhisPlaced, Worklist, phiVars
<1>9. CASE RenameLoad \/ RenameStore \/ Return \/ \E b \in Blocks : FillPhis(b) \/ Recurse(b)
  BY <1>4, <1>9 DEF RenameLoad, RenameStore, Return, FillPhis, Recurse
<1>10. CASE UNCHANGED vars
  BY <1>4, <1>10 DEF vars
<1> QED
  BY <1>5, <1>6, <1>7, <1>8, <1>9, <1>10 DEF Next

LEMMA PhiInductive == Spec => []PhiInv
BY InitTypes, NextTypes, PhiInit, PhiNext, PTL DEF Spec

\* Once the worklist is empty for good, the phis of a variable are closed.
LEMMA PhisComplete ==
  TypeInv /\ PhiInv => \A v \in Vars : phase # "phi" => PhiBlocks(v) = IteratedFrontier(v)
<1> SUFFICES ASSUME TypeInv, PhiInv, NEW v \in Vars, phase # "phi"
             PROVE  PhiBlocks(v) = IteratedFrontier(v)
  OBVIOUS
<1>1. \A b \in Defs(v) \cup PhiBlocks(v) : dom_frontier[b] \subseteq PhiBlocks(v)
  BY DEF PhiInv, PhisPlaced, Worklist
<1>2. PhiBlocks(v) \in SUBSET Blocks
  BY DEF PhiBlocks
<1>3. IteratedFrontier(v) \subseteq PhiBlocks(v)
  BY <1>1, <1>2, IteratedLeast
<1> QED
  BY <1>3 DEF PhiInv, PhisNeeded

\* When generate_phi is done, the phis are those of the iterated dominance
\* frontier of the stores, all of it and nothing else, in whatever order the
\* worklist was taken.
THEOREM PhisCorrect == Spec => []PhisExact
<1>1. TypeInv /\ PhiInv => PhisExact
  BY PhisComplete DEF PhisExact, PhiBlocks
<1> QED
  BY <1>1, TypesInductive, PhiInductive, PTL

-----------------------------------------------------------------------------
(***************************************************************************)
(* The walk of re_name.  The open calls are a path down the dominator tree *)
(* from the entry; each holds children of its block that have not been     *)
(* called.  What is below one of those is pending, and all else that is    *)
(* reachable has been visited.                                             *)
(***************************************************************************)
OpenPath ==
  /\ phase # "rename" => frames = <<>>
  /\ Len(frames) > 0 => frames[1].bb = Entry
  /\ \A i \in 1..Len(frames) : /\ frames[i].bb \in Reachable(succ)
                               /\ frames[i].left \subseteq Children(succ, frames[i].bb)
  /\ \A i \in 1..Len(frames) : i < Len(frames) =>
       frames[i+1].bb \in Children(succ, frames[i].bb) \ frames[i].left
  /\ \A i, j \in 1..Len(frames) : i <= j => frames[j].bb \in Below(succ, frames[i].bb)

Waiting == UNION {frames[i].left : i \in 1..Len(frames)}

Pending ==
  IF phase = "phi" THEN Reachable(succ)
  ELSE {x \in Reachable(succ) : \E c \in Waiting : x \in Below(succ, c)}

\* dominators_ holds the tree of FlowGraph.
LEMMA TreeChildren ==
  ASSUME TypeInv
  PROVE  succ \in Graph /\ \A b \in Blocks : dom_tree_succ[b] = Children(succ, b)
BY DEF TypeInv, TypeOK, ProgramOK, get_dom_tree_succ_blocks, Children

\* No block whose call is open is below a child that waits.
LEMMA OpenNotPending ==
  ASSUME TypeInv, OpenPath, phase # "phi"
  PROVE  \A j \in 1..Len(frames) : frames[j].bb \in Reachable(succ) \ Pending
<1> SUFFICES ASSUME NEW j \in 1..Len(frames), NEW i \in 1..Len(frames),
                    NEW c \in frames[i].left, frames[j].bb \in Below(succ, c)
             PROVE  FALSE
  BY DEF Pending, Waiting, OpenPath
<1>0. succ \in Graph /\ Len(frames) \in Nat
  BY TreeChildren DEF TypeInv, TypeOK
<1>1. c \in Children(succ, frames[i].bb)
  BY DEF OpenPath
<1>2. CASE i < j
  <2>1. i + 1 \in 1..Len(frames) /\ i + 1 <= j
    BY <1>0, <1>2
  <2>2. frames[i+1].bb \in Children(succ, frames[i].bb) \ frames[i].left
        /\ frames[j].bb \in Below(succ, frames[i+1].bb)
    BY <1>0, <1>2, <2>1 DEF OpenPath
  <2> QED
    BY <1>0, <1>1, <2>2, ChildrenApart
<1>3. CASE j <= i
  <2>1. frames[i].bb \in Below(succ, frames[j].bb)
    BY <1>3 DEF OpenPath
  <2>2. frames[i].bb \in Below(succ, c)
    BY <1>0, <2>1, BelowRoot
  <2> QED
    BY <1>0, <1>1, <2>2, ChildrenApart
<1> QED
  BY <1>0, <1>2, <1>3

\* The first call leaves everything but the entry pending.
LEMMA StartPath ==
  ASSUME TypeInv, OpenPath, StartRename
  PROVE  OpenPath' /\ Pending' = Pending \ {Entry} /\ Entry \in Pending
<1>0. succ \in Graph /\ succ' = succ /\ Entry \in Reachable(succ) /\ Entry \in Blocks
  BY TreeChildren, ReachableClosed, EntryAssumption DEF StartRename, progVars
<1>1. /\ Len(frames') = 1 /\ frames'[1].bb = Entry
      /\ frames'[1].left = Children(succ, Entry)
  <2>1. dom_tree_succ[Entry] = Children(succ, Entry)
    BY <1>0, TreeChildren
  <2> QED
    BY <2>1, StartOK
<1>2. phase = "phi" /\ phase' = "rename"
  BY DEF StartRename
<1>3. Entry \in Below(succ, Entry) /\ \A x \in Reachable(succ) : x \in Below(succ, Entry)
  BY <1>0, DomsOfReachable DEF Below
<1>4. OpenPath'
  BY <1>0, <1>1, <1>2, <1>3 DEF OpenPath
<1>5. Waiting' = Children(succ, Entry)
  BY <1>1 DEF Waiting
<1>6. \A c \in Children(succ, Entry) : Entry \notin Below(succ, c)
  BY <1>0, ChildrenApart
<1>7. \A x \in Reachable(succ) \ {Entry} : \E c \in Children(succ, Entry) : x \in Below(succ, c)
  BY <1>0, <1>3, BelowChildren
<1>8. Pending' = Reachable(succ) \ {Entry}
  BY <1>0, <1>2, <1>5, <1>6, <1>7 DEF Pending
<1> QED
  BY <1>0, <1>2, <1>4, <1>8 DEF Pending

\* A call for a child: what was pending and is not the child still is.
LEMMA RecursePath ==
  ASSUME TypeInv, OpenPath, NEW c \in Blocks, Recurse(c)
  PROVE  OpenPath' /\ Pending' = Pending \ {c} /\ c \in Pending
<1> DEFINE n == Len(frames)
<1>0. /\ succ \in Graph /\ succ' = succ /\ phase = "rename" /\ phase' = phase
      /\ n \in Nat \ {0} /\ Top = frames[n] /\ c \in frames[n].left
  BY TreeChildren, TopOK DEF Recurse, Recursing, Renaming, progVars
<1>1. Call(c, Taken(c)) /\ Taken(c) \in Seq(Calls) /\ Len(Taken(c)) = n
  BY TakenOK DEF Recurse, Recursing, Taken
<1>2. /\ Len(frames') = n + 1 /\ frames'[n+1].bb = c
      /\ frames'[n+1].left = Children(succ, c)
      /\ \A i \in 1..n : /\ frames'[i].bb = frames[i].bb
                         /\ frames'[i].left = IF i = n THEN frames[n].left \ {c} ELSE frames[i].left
  <2>1. /\ Len(frames') = n + 1 /\ frames'[n+1].bb = c /\ frames'[n+1].left = dom_tree_succ[c]
        /\ \A i \in 1..n : frames'[i] = Taken(c)[i]
    BY <1>1, CallOK
  <2>2. dom_tree_succ[c] = Children(succ, c)
    BY TreeChildren
  <2>3. \A i \in 1..n : /\ Taken(c)[i].bb = frames[i].bb
                        /\ Taken(c)[i].left = IF i = n THEN frames[i].left \ {c} ELSE frames[i].left
    BY TakenOK DEF Recurse, Recursing
  <2> QED
    BY <2>1, <2>2, <2>3
<1>3. /\ c \in Children(succ, frames[n].bb) /\ c \in Reachable(succ)
      /\ c \in Below(succ, frames[n].bb) /\ c \in Below(succ, c)
  BY <1>0, ChildrenApart, BelowRoot DEF OpenPath
<1>4. \A i \in 1..n : c \in Below(succ, frames[i].bb)
  BY <1>0, <1>3, BelowRoot DEF OpenPath
<1>5. OpenPath'
  <2>1. \A i \in 1..(n+1) : /\ frames'[i].bb \in Reachable(succ)
                            /\ frames'[i].left \subseteq Children(succ, frames'[i].bb)
    BY <1>0, <1>2, <1>3 DEF OpenPath
  <2>2. \A i \in 1..(n+1) : i < n + 1 =>
          frames'[i+1].bb \in Children(succ, frames'[i].bb) \ frames'[i].left
    <3> SUFFICES ASSUME NEW i \in 1..n
                 PROVE  frames'[i+1].bb \in Children(succ, frames'[i].bb) \ frames'[i].left
      BY <1>0
    <3>1. CASE i = n
      BY <1>0, <1>2, <1>3, <3>1
    <3>2. CASE i < n
      <4>1. i + 1 \in 1..n
        BY <1>0, <3>2
      <4> QED
        BY <1>0, <1>2, <3>2, <4>1 DEF OpenPath
    <3> QED
      BY <1>0, <3>1, <3>2
  <2>3. \A i, j \in 1..(n+1) : i <= j => frames'[j].bb \in Below(succ, frames'[i].bb)
    <3> SUFFICES ASSUME NEW i \in 1..(n+1), NEW j \in 1..(n+1), i <= j
                 PROVE  frames'[j].bb \in Below(succ, frames'[i].bb)
      OBVIOUS
    <3>1. CASE j \in 1..n
      BY <1>0, <1>2, <3>1 DEF OpenPath
    <3>2. CASE j = n + 1
      BY <1>0, <1>2, <1>3, <1>4, <3>2
    <3> QED
      BY <1>0, <3>1, <3>2
  <2>4. frames'[1].bb = Entry
    BY <1>0, <1>2 DEF OpenPath
  <2> QED
    BY <1>0, <1>2, <2>1, <2>2, <2>3, <2>4 DEF OpenPath
<1>6. ASSUME NEW i \in 1..n, NEW d \in frames'[i].left PROVE d \in frames[i].left /\ c \notin Below(succ, d)
  <2>1. d \in frames[i].left /\ d \in Children(succ, frames[i].bb)
    BY <1>2, <1>6 DEF OpenPath
  <2>2. CASE i = n
    BY <1>0, <1>2, <1>3, <1>6, <2>1, <2>2, ChildrenApart
  <2>3. CASE i < n
    <3>1. i + 1 \in 1..n /\ c \in Below(succ, frames[i+1].bb)
      BY <1>0, <1>4, <2>3
    <3>2. frames[i+1].bb \in Children(succ, frames[i].bb) \ frames[i].left
      BY <1>0, <2>3 DEF OpenPath
    <3> QED
      BY <1>0, <2>1, <3>1, <3>2, ChildrenApart
  <2> QED
    BY <1>0, <2>1, <2>2, <2>3
<1>7. \A d : d \in Waiting' <=> d \in Children(succ, c) \/ \E i \in 1..n : d \in frames'[i].left
  <2>1. \A d : d \in Waiting' <=> \E i \in 1..(n+1) : d \in frames'[i].left
    BY <1>2 DEF Waiting
  <2> QED
    BY <1>0, <1>2, <2>1
<1>8. ASSUME NEW x \in Reachable(succ) PROVE x \in Pending' <=> x \in Pending /\ x # c
  <2>1. ASSUME NEW d \in Waiting', x \in Below(succ, d) PROVE x \in Pending /\ x # c
    <3>1. CASE d \in Children(succ, c)
      BY <1>0, <1>3, <2>1, <3>1, ChildrenApart, BelowRoot DEF Pending, Waiting
    <3>2. CASE \E i \in 1..n : d \in frames'[i].left
      BY <1>0, <1>6, <2>1, <3>2 DEF Pending, Waiting
    <3> QED
      BY <1>7, <3>1, <3>2
  <2>2. ASSUME NEW i \in 1..n, NEW d \in frames[i].left, x \in Below(succ, d), x # c
        PROVE  \E e \in Waiting' : x \in Below(succ, e)
    <3>1. CASE i = n /\ d = c
      BY <1>0, <1>7, <2>2, <3>1, BelowChildren
    <3>2. CASE ~(i = n /\ d = c)
      BY <1>2, <1>7, <2>2, <3>2
    <3> QED
      BY <3>1, <3>2
  <2> QED
    BY <1>0, <2>1, <2>2 DEF Pending, Waiting
<1>9. c \in Pending
  BY <1>0, <1>3 DEF Pending, Waiting
<1> QED
  BY <1>0, <1>5, <1>8, <1>9 DEF Pending

\* A return, when no child of the innermost block is left.
LEMMA ReturnPath ==
  ASSUME TypeInv, OpenPath, Return
  PROVE  OpenPath' /\ Pending' = Pending
<1> DEFINE n == Len(frames)
<1>0. /\ succ' = succ /\ phase = "rename" /\ phase' = phase
      /\ n \in Nat \ {0} /\ Top = frames[n] /\ frames[n].left = {}
  BY TopOK DEF Return, Recursing, Renaming, progVars
<1>1. Len(frames') = n - 1 /\ \A i \in 1..(n-1) : frames'[i] = frames[i]
  BY ReturnOK
<1>2. OpenPath'
  BY <1>0, <1>1 DEF OpenPath
<1>3. Waiting' = Waiting
  <2>1. \A d : d \in Waiting' <=> \E i \in 1..(n-1) : d \in frames[i].left
    BY <1>1 DEF Waiting
  <2>2. \A d : d \in Waiting <=> \E i \in 1..n : d \in frames[i].left
    BY DEF Waiting
  <2>3. \A i \in 1..n : i \in 1..(n-1) \/ frames[i].left = {}
    BY <1>0
  <2>4. \A i \in 1..(n-1) : i \in 1..n
    BY <1>0
  <2>5. \A d : d \in Waiting' <=> d \in Waiting
    BY <2>1, <2>2, <2>3, <2>4
  <2> QED
    BY <2>5
<1> QED
  BY <1>0, <1>2, <1>3 DEF Pending

\* Within a block the walk does not move.
LEMMA SamePath ==
  ASSUME TypeInv, OpenPath, UNCHANGED progVars, UNCHANGED phase, Len(frames') = Len(frames),
         \A i \in 1..Len(frames) : frames'[i].bb = frames[i].bb /\ frames'[i].left = frames[i].left
  PROVE  OpenPath' /\ Pending' = Pending
<1>1. succ' = succ /\ Len(frames) \in Nat
  BY DEF progVars, TypeInv, TypeOK
<1>2. Waiting' = Waiting
  BY DEF Waiting
<1> QED
  BY <1>1, <1>2 DEF OpenPath, Pending

LEMMA PathInit == Init => OpenPath
BY DEF Init, OpenPath

\* In the phi phase and at the end no call is open.
LEMMA AccessPath ==
  ASSUME TypeInv, OpenPath, RenameLoad \/ RenameStore
  PROVE  OpenPath' /\ Pending' = Pending /\ Top'.bb = Top.bb /\ Renaming /\ Renaming'
<1>1. /\ UNCHANGED progVars /\ UNCHANGED phase /\ InCode /\ Renaming
      /\ frames' = Delete(Here) \/ frames' = frames
  BY DEF RenameLoad, RenameStore, InCode
<1>2. Here \in Accesses
  BY <1>1, HereOK
<1>3. /\ Len(frames') = Len(frames)
      /\ \A i \in 1..Len(frames) : frames'[i].bb = frames[i].bb /\ frames'[i].left = frames[i].left
  BY <1>1, <1>2, DeleteOK
<1>4. OpenPath' /\ Pending' = Pending
  BY <1>1, <1>3, SamePath
<1>5. Len(frames) \in Nat \ {0} /\ Top = frames[Len(frames)]
  BY <1>1, TopOK
<1>6. Top' = frames'[Len(frames')]
  BY DEF Top, Last
<1>7. Renaming'
  BY <1>1, <1>3, <1>5 DEF Renaming
<1> QED
  BY <1>1, <1>3, <1>4, <1>5, <1>6, <1>7

LEMMA OtherPath ==
  ASSUME TypeInv, OpenPath, UNCHANGED <<progVars, phase, frames>>
  PROVE  OpenPath' /\ Pending' = Pending
BY SamePath

LEMMA RemovePath ==
  ASSUME TypeInv, OpenPath, remove_alloca
  PROVE  OpenPath' /\ Pending' = Pending /\ Pending = {} /\ frames = <<>>
<1>1. succ' = succ /\ frames = <<>> /\ frames' = frames /\ phase = "rename" /\ phase' = "done"
  BY DEF remove_alloca, progVars, nameVars
<1>2. Waiting = {} /\ Waiting' = {}
  BY <1>1 DEF Waiting
<1> QED
  BY <1>1, <1>2 DEF OpenPath, Pending

LEMMA PathNext == TypeInv /\ OpenPath /\ [Next]_vars => OpenPath'
<1> SUFFICES ASSUME TypeInv, OpenPath, [Next]_vars PROVE OpenPath'
  OBVIOUS
<1>1. CASE (\E v \in Vars : PickVar(v)) \/ (\E b \in Blocks : PlacePhis(b) \/ FillPhis(b)) \/ UNCHANGED vars
  <2>1. UNCHANGED <<progVars, phase, frames>>
    BY <1>1 DEF PickVar, PlacePhis, FillPhis, vars, nameVars
  <2> QED
    BY <2>1, OtherPath
<1>2. CASE \E b \in Blocks : Recurse(b)
  BY <1>2, RecursePath
<1>3. CASE StartRename \/ RenameLoad \/ RenameStore \/ Return \/ remove_alloca
  BY <1>3, StartPath, AccessPath, ReturnPath, RemovePath
<1> QED
  BY <1>1, <1>2, <1>3 DEF Next

LEMMA PathInductive == Spec => []OpenPath
BY InitTypes, NextTypes, PathInit, PathNext, PTL DEF Spec

-----------------------------------------------------------------------------
(***************************************************************************)
(* Replaced loads.  A load is settled when re_name has gone past it.       *)
(***************************************************************************)
Settled ==
  {x \in LoadValues : /\ x[2] \in Reachable(succ) \ Pending
                      /\ Renaming /\ x[2] = Top.bb => x[3] < pc}

\* A value that may be referred to: a load only if it has been settled and kept.
Final(u) == u \in LoadValues => u \in Settled /\ repl[u] = u

ReplInv ==
  /\ \A x \in LoadValues \ Settled : repl[x] = x
  /\ \A x \in Settled : Final(repl[x])
  /\ \A v \in Vars : \A i \in 1..Len(var_val_stack[v]) : Final(var_val_stack[v][i])
  /\ \A bv \in Blocks \X Vars : \A p \in phi_pairs[bv] : Final(p[1])

LEMMA LoadIndex ==
  ASSUME TypeInv
  PROVE  \A x \in LoadValues :
           /\ x[1] = "load" /\ <<x[2], x[3]>> \in Accesses /\ x = LoadValue(<<x[2], x[3]>>)
           /\ Instr(<<x[2], x[3]>>).op = "load"
           /\ x[2] \in Blocks /\ x[3] \in Nat \ {0} /\ Len(code[x[2]]) \in Nat
           /\ x[3] <= Len(code[x[2]])
<1> SUFFICES ASSUME NEW x \in LoadValues
             PROVE  /\ x[1] = "load" /\ <<x[2], x[3]>> \in Accesses
                    /\ x = LoadValue(<<x[2], x[3]>>)
                    /\ Instr(<<x[2], x[3]>>).op = "load"
                    /\ x[2] \in Blocks /\ x[3] \in Nat \ {0} /\ Len(code[x[2]]) \in Nat
                    /\ x[3] <= Len(code[x[2]])
  OBVIOUS
<1>1. PICK a \in Accesses : x = LoadValue(a) /\ Instr(a).op = "load"
  BY DEF LoadValues
<1>2. PICK b \in Blocks : \E k \in 1..Len(code[b]) : a = <<b, k>>
  BY <1>1 DEF Accesses
<1>3. PICK k \in 1..Len(code[b]) : a = <<b, k>>
  BY <1>2
<1>4. x = <<"load", b, k>>
  BY <1>1, <1>3 DEF LoadValue
<1>5. x[1] = "load" /\ x[2] = b /\ x[3] = k
  BY <1>4
<1>6. Len(code[b]) \in Nat
  BY DEF TypeInv, TypeOK
<1> QED
  BY <1>1, <1>3, <1>5, <1>6

LEMMA ValueKinds ==
  /\ \A x \in LoadValues : x[1] = "load"
  /\ \A a : DefValue(a) \notin LoadValues
  /\ \A b, v : PhiValue(b, v) \notin LoadValues
  /\ Garbage \notin LoadValues
<1>1. \A x \in LoadValues : x[1] = "load"
  BY DEF LoadValues, LoadValue
<1>2. \A a : DefValue(a)[1] = "def"
  BY DEF DefValue
<1>3. \A b, v : PhiValue(b, v)[1] = "phi"
  BY DEF PhiValue
<1>4. Garbage[1] = "garbage"
  BY DEF Garbage
<1> QED
  BY <1>1, <1>2, <1>3, <1>4

LEMMA SettledRest ==
  ASSUME UNCHANGED <<progVars, phase, frames, pc>>
  PROVE  Settled' = Settled
<1>1. LoadValues' = LoadValues
  BY SameProgram
<1>2. Top' = Top /\ Renaming' = Renaming
  BY DEF Top, Renaming
<1>3. Pending' = Pending /\ Reachable(succ)' = Reachable(succ)
  BY DEF Pending, Waiting, progVars
<1> QED
  BY <1>1, <1>2, <1>3 DEF Settled

\* A block's last access has been dealt with when its call goes further.
LEMMA RecursingOK ==
  ASSUME TypeInv, Recursing
  PROVE  Renaming /\ \A x \in LoadValues : x[2] = Top.bb => x[3] < pc
<1>1. Renaming /\ ~(pc <= Len(code[Top.bb])) /\ pc \in Nat
  BY DEF Recursing, InCode, TypeInv, TypeOK
<1>2. ASSUME NEW x \in LoadValues, x[2] = Top.bb PROVE x[3] < pc
  <2>1. x[3] \in Nat /\ Len(code[Top.bb]) \in Nat /\ x[3] <= Len(code[Top.bb])
    BY <1>2, LoadIndex
  <2> QED
    BY <1>1, <2>1
<1> QED
  BY <1>1, <1>2

LEMMA SettledCall ==
  ASSUME TypeInv, OpenPath, StartRename \/ (\E c \in Blocks : Recurse(c)) \/ Return
  PROVE  Settled' = Settled
<1>0. UNCHANGED progVars
  BY DEF StartRename, Recurse, Return
<1>1. LoadValues' = LoadValues /\ Reachable(succ)' = Reachable(succ)
  BY <1>0, SameProgram DEF progVars
<1>2. Top' = frames'[Len(frames')]
  BY DEF Top, Last
<1>3. CASE StartRename
  <2>1. Pending = Reachable(succ) /\ Pending' = Reachable(succ) \ {Entry}
    BY <1>3, StartPath DEF Pending, StartRename
  <2>3. Len(frames') = 1 /\ frames'[Len(frames')].bb = Entry /\ pc' = 1
    BY <1>3, StartOK
  <2>4. Renaming' /\ Top'.bb = Entry
    BY <1>2, <1>3, <2>3 DEF StartRename, Renaming
  <2>5. Settled = {}
    BY <2>1 DEF Settled
  <2>6. Settled' = {}
    <3>1. \A x \in LoadValues : x[3] \in Nat \ {0}
      BY LoadIndex
    <3> QED
      BY <1>1, <2>1, <2>3, <2>4, <3>1 DEF Settled
  <2> QED
    BY <2>5, <2>6
<1>4. ASSUME NEW c \in Blocks, Recurse(c) PROVE Settled' = Settled
  <2>1. Pending' = Pending \ {c} /\ c \in Pending
    BY <1>4, RecursePath
  <2>2. Renaming /\ \A x \in LoadValues : x[2] = Top.bb => x[3] < pc
    BY <1>4, RecursingOK DEF Recurse
  <2>3. Top.bb \in Reachable(succ) \ Pending
    <3>1. phase # "phi" /\ Len(frames) \in 1..Len(frames) /\ Top = frames[Len(frames)]
      BY <2>2, TopOK DEF Renaming
    <3> QED
      BY <3>1, OpenNotPending
  <2>4. Call(c, Taken(c)) /\ Taken(c) \in Seq(Calls)
    BY <1>4, TakenOK DEF Recurse, Recursing, Taken
  <2>5. Len(frames') \in Nat \ {0} /\ frames'[Len(frames')].bb = c /\ pc' = 1 /\ phase' = "rename"
    BY <1>4, <2>2, <2>4, CallOK DEF Recurse, Renaming
  <2>6. Renaming' /\ Top'.bb = c
    BY <1>2, <2>5 DEF Renaming
  <2>7. \A x \in LoadValues : x[3] \in Nat \ {0}
    BY LoadIndex
  <2>8. \A x \in LoadValues : x \in Settled <=> x[2] \in Reachable(succ) \ Pending
    BY <2>2 DEF Settled
  <2>9. \A x \in LoadValues : x \in Settled' <=> x[2] \in Reachable(succ) \ Pending
    BY <1>1, <2>1, <2>5, <2>6, <2>7 DEF Settled
  <2>10. Settled \subseteq LoadValues /\ Settled' \subseteq LoadValues
    BY <1>1 DEF Settled
  <2> QED
    BY <2>8, <2>9, <2>10
<1>5. CASE Return
  <2>1. Pending' = Pending
    BY <1>5, ReturnPath
  <2>2. Renaming /\ \A x \in LoadValues : x[2] = Top.bb => x[3] < pc
    BY <1>5, RecursingOK DEF Return
  <2>3. Renaming' => \A x \in LoadValues : x[2] = Top'.bb => x[3] < pc'
    <3> SUFFICES ASSUME Renaming', NEW x \in LoadValues, x[2] = Top'.bb PROVE x[3] < pc'
      OBVIOUS
    <3>1. /\ Len(frames') = Len(frames) - 1 /\ \A i \in 1..Len(frames') : frames'[i] = frames[i]
          /\ Len(frames) > 1 => pc' = Len(code[frames[Len(frames) - 1].bb]) + 1
          /\ Len(frames) \in Nat \ {0} /\ frames' \in Seq(Calls)
      BY <1>5, <2>2, ReturnOK, TopOK
    <3>2. Len(frames') # 0
      BY <3>1 DEF Renaming
    <3>3. Len(frames) > 1 /\ Top' = frames[Len(frames) - 1]
      BY <1>2, <3>1, <3>2
    <3>4. pc' = Len(code[x[2]]) + 1
      BY <3>1, <3>3
    <3>5. x[3] \in Nat /\ Len(code[x[2]]) \in Nat /\ x[3] <= Len(code[x[2]])
      BY LoadIndex
    <3> QED
      BY <3>4, <3>5
  <2> QED
    BY <1>1, <2>1, <2>2, <2>3 DEF Settled
<1> QED
  BY <1>3, <1>4, <1>5

LEMMA SettledAccess ==
  ASSUME TypeInv, OpenPath, RenameLoad \/ RenameStore
  PROVE  /\ RenameStore => Settled' = Settled
         /\ RenameLoad => /\ LoadValue(Here) \in LoadValues \ Settled
                          /\ Settled' = Settled \cup {LoadValue(Here)}
<1>0. UNCHANGED progVars /\ pc' = pc + 1 /\ InCode
  BY DEF RenameLoad, RenameStore
<1>1. LoadValues' = LoadValues /\ Reachable(succ)' = Reachable(succ)
  BY <1>0, SameProgram DEF progVars
<1>2. Pending' = Pending /\ Renaming /\ Renaming' /\ Top'.bb = Top.bb
  BY AccessPath
<1>3. Top.bb \in Reachable(succ) \ Pending
  <2>1. phase # "phi" /\ Len(frames) \in 1..Len(frames) /\ Top = frames[Len(frames)]
    BY <1>2, TopOK DEF Renaming
  <2> QED
    BY <2>1, OpenNotPending
<1>4. pc \in Nat /\ Instr(Here).op = "load" => LoadValue(Here) \in LoadValues
  BY <1>0, HereOK
<1>5. pc \in Nat /\ \A x \in LoadValues : x[3] \in Nat
  BY LoadIndex DEF TypeInv, TypeOK
<1>6. LoadValue(Here)[2] = Top.bb /\ LoadValue(Here)[3] = pc
  BY DEF LoadValue, Here
<1>7. \A x \in LoadValues : x[2] = Top.bb /\ x[3] = pc => x = LoadValue(Here) /\ Instr(Here).op = "load"
  BY LoadIndex DEF Here
<1>8. \A x \in LoadValues : x \in Settled' <=> x \in Settled \/ (x[2] = Top.bb /\ x[3] = pc)
  BY <1>0, <1>1, <1>2, <1>3, <1>5 DEF Settled
<1>9. Settled \subseteq LoadValues /\ Settled' \subseteq LoadValues
  BY <1>1 DEF Settled
<1>10. CASE RenameStore
  <2>1. Instr(Here).op = "store"
    BY <1>10 DEF RenameStore
  <2>2. Settled' = Settled
    BY <1>7, <1>8, <1>9, <2>1
  <2>3. ~RenameLoad
    BY <2>1 DEF RenameLoad
  <2> QED
    BY <2>2, <2>3
<1>11. CASE RenameLoad
  <2>1. Instr(Here).op = "load"
    BY <1>11 DEF RenameLoad
  <2>2. LoadValue(Here) \in LoadValues
    BY <1>0, <2>1, HereOK
  <2>3. LoadValue(Here) \notin Settled
    BY <1>2, <1>5, <1>6 DEF Settled
  <2>4. Settled' = Settled \cup {LoadValue(Here)}
    BY <1>6, <1>7, <1>8, <1>9, <2>2
  <2>5. ~RenameStore
    BY <2>1 DEF RenameStore
  <2> QED
    BY <2>2, <2>3, <2>4, <2>5
<1> QED
  BY <1>10, <1>11

LEMMA ReplInit == Init => ReplInv
<1> SUFFICES ASSUME Init PROVE ReplInv
  OBVIOUS
<1>1. Settled = {}
  BY DEF Init, Settled, Pending
<1>2. \A x \in LoadValues : repl[x] = x
  BY DEF Init
<1>3. (\A v \in Vars : var_val_stack[v] = <<>>) /\ \A bv \in Blocks \X Vars : phi_pairs[bv] = {}
  BY DEF Init
<1> QED
  BY <1>1, <1>2, <1>3 DEF ReplInv

\* Steps that settle nothing and replace nothing.
LEMMA FinalSame ==
  ASSUME Settled' = Settled, LoadValues' = LoadValues, repl' = repl
  PROVE  \A u : Final(u)' <=> Final(u)
BY DEF Final

LEMMA ReplRest ==
  ASSUME TypeInv, ReplInv,
         UNCHANGED <<progVars, phase, frames, pc, repl, var_val_stack, phi_pairs>>
  PROVE  ReplInv'
<1>1. LoadValues' = LoadValues /\ Settled' = Settled
  BY SameProgram, SettledRest
<1>2. \A u : Final(u)' <=> Final(u)
  BY <1>1, FinalSame
<1> QED
  BY <1>1, <1>2 DEF ReplInv

LEMMA ReplCall ==
  ASSUME TypeInv, ReplInv, OpenPath, StartRename \/ (\E c \in Blocks : Recurse(c)) \/ Return
  PROVE  ReplInv'
<1>1. Settled' = Settled /\ repl' = repl /\ phi_pairs' = phi_pairs /\ UNCHANGED progVars
  BY SettledCall DEF StartRename, Recurse, Return
<1>2. LoadValues' = LoadValues
  BY <1>1, SameProgram
<1>3. \A u : Final(u)' <=> Final(u)
  BY <1>1, <1>2, FinalSame
<1>4. ASSUME NEW v \in Vars, NEW i \in 1..Len(var_val_stack'[v]) PROVE Final(var_val_stack'[v][i])
  <2>1. CASE StartRename \/ \E c \in Blocks : Recurse(c)
    <3>1. PICK b : var_val_stack' = [w \in Vars |-> IF w \in phis[b]
                                     THEN Append(var_val_stack[w], PhiValue(b, w))
                                     ELSE var_val_stack[w]]
      BY <2>1 DEF StartRename, Recurse, Call
    <3>2. var_val_stack[v] \in Seq(Values)
      BY DEF TypeInv, TypeOK
    <3>3. \A j \in 1..Len(var_val_stack[v]) : Final(var_val_stack[v][j])
      BY DEF ReplInv
    <3>4. Final(PhiValue(b, v))
      BY ValueKinds DEF Final
    <3>5. CASE v \in phis[b]
      BY <1>4, <3>1, <3>2, <3>3, <3>4, <3>5
    <3>6. CASE v \notin phis[b]
      BY <1>4, <3>1, <3>2, <3>3, <3>6
    <3> QED
      BY <3>5, <3>6
  <2>2. CASE Return
    <3>1. i \in 1..Len(var_val_stack[v]) /\ var_val_stack'[v][i] = var_val_stack[v][i]
      BY <1>4, <2>2, ReturnOK
    <3> QED
      BY <3>1 DEF ReplInv
  <2> QED
    BY <2>1, <2>2
<1> QED
  BY <1>1, <1>2, <1>3, <1>4 DEF ReplInv

LEMMA ReplLoad ==
  ASSUME TypeInv, ReplInv, OpenPath, RenameLoad
  PROVE  ReplInv'
<1> DEFINE x == LoadValue(Here)
           s == var_val_stack[Instr(Here).var]
           r == IF s = <<>> THEN Garbage ELSE Last(s)
           F(u) == u \in LoadValues => u \in Settled' /\ repl'[u] = u
<1>0. UNCHANGED progVars /\ var_val_stack' = var_val_stack /\ phi_pairs' = phi_pairs
  BY DEF RenameLoad
<1>1. LoadValues' = LoadValues /\ x \in LoadValues \ Settled /\ Settled' = Settled \cup {x}
  BY <1>0, SameProgram, SettledAccess
<1>2. repl \in [LoadValues -> Values]
  BY DEF TypeInv, TypeOK
<1>3. (repl' = [repl EXCEPT ![x] = r] /\ Final(r)) \/ repl' = repl
  <2>1. CASE Instr(Here).var \in found
    <3>1. repl' = [repl EXCEPT ![x] = r]
      BY <2>1 DEF RenameLoad
    <3>2. Instr(Here).var \in Vars /\ s \in Seq(Values)
      <4>1. Instr(Here).var \in Vars
        BY <2>1 DEF TypeInv, TypeOK
      <4> QED
        BY <4>1 DEF TypeInv, TypeOK
    <3>3. CASE s = <<>>
      BY <3>1, <3>3, ValueKinds DEF Final
    <3>4. CASE s # <<>>
      <4>1. Len(s) \in 1..Len(s) /\ Last(s) = s[Len(s)]
        BY <3>2, <3>4 DEF Last
      <4>2. Final(Last(s))
        BY <3>2, <4>1 DEF ReplInv
      <4> QED
        BY <3>1, <3>4, <4>2
    <3> QED
      BY <3>3, <3>4
  <2>2. CASE Instr(Here).var \notin found
    BY <2>2 DEF RenameLoad
  <2> QED
    BY <2>1, <2>2
<1> HIDE DEF x, r
<1>4. repl[x] = x
  BY <1>1 DEF ReplInv
<1>5. \A u : Final(u) => F(u)
  <2> SUFFICES ASSUME NEW u, Final(u), u \in LoadValues PROVE u \in Settled' /\ repl'[u] = u
    BY <1>1 DEF Final
  <2>1. u \in Settled /\ repl[u] = u /\ u # x
    BY <1>1 DEF Final
  <2> QED
    BY <1>1, <1>2, <1>3, <2>1
<1>6. F(repl'[x])
  <2>1. CASE repl' = [repl EXCEPT ![x] = r] /\ Final(r)
    BY <1>1, <1>2, <1>5, <2>1
  <2>2. CASE repl' = repl
    BY <1>1, <1>4, <2>2 DEF Final
  <2> QED
    BY <1>3, <2>1, <2>2
<1>7. \A y \in LoadValues : y # x => repl'[y] = repl[y]
  BY <1>1, <1>2, <1>3
<1>8. \A y \in LoadValues' \ Settled' : repl'[y] = y
  BY <1>1, <1>7 DEF ReplInv
<1>9. \A y \in Settled' : F(repl'[y])
  <2> SUFFICES ASSUME NEW y \in Settled' PROVE F(repl'[y])
    OBVIOUS
  <2>1. CASE y = x
    BY <1>6, <2>1
  <2>2. CASE y # x
    <3>1. y \in Settled /\ y \in LoadValues
      BY <1>1, <2>2 DEF Settled
    <3> QED
      BY <1>5, <1>7, <2>2, <3>1 DEF ReplInv
  <2> QED
    BY <2>1, <2>2
<1> QED
  BY <1>0, <1>1, <1>5, <1>8, <1>9 DEF ReplInv, Final

\* What is stored is no load, or one that was settled further up the block.
LEMMA OperandFinal ==
  ASSUME TypeInv, ReplInv, OpenPath, RenameStore
  PROVE  Final(get_rval(Here))
<1>1. InCode /\ Renaming /\ Instr(Here).op = "store"
  BY DEF RenameStore, InCode
<1>2. CASE get_rval(Here) = DefValue(Here)
  BY <1>2, ValueKinds DEF Final
<1>3. ASSUME NEW k \in 1..(pc-1), LoadValue(<<Top.bb, k>>) \in LoadValues,
             get_rval(Here) = repl[LoadValue(<<Top.bb, k>>)]
      PROVE  Final(get_rval(Here))
  <2>1. phase # "phi" /\ Len(frames) \in 1..Len(frames) /\ Top = frames[Len(frames)]
    BY <1>1, TopOK DEF Renaming
  <2>2. Top.bb \in Reachable(succ) \ Pending
    BY <2>1, OpenNotPending
  <2>3. LoadValue(<<Top.bb, k>>)[2] = Top.bb /\ LoadValue(<<Top.bb, k>>)[3] = k
    BY DEF LoadValue
  <2>4. pc \in Nat /\ k < pc
    BY DEF TypeInv, TypeOK
  <2>5. LoadValue(<<Top.bb, k>>) \in Settled
    BY <1>3, <2>2, <2>3, <2>4 DEF Settled
  <2> QED
    BY <1>3, <2>5 DEF ReplInv
<1> QED
  BY <1>1, <1>2, <1>3, OperandOK

LEMMA ReplStore ==
  ASSUME TypeInv, ReplInv, OpenPath, RenameStore
  PROVE  ReplInv'
<1>1. Settled' = Settled /\ repl' = repl /\ phi_pairs' = phi_pairs /\ UNCHANGED progVars
  BY SettledAccess DEF RenameStore
<1>2. LoadValues' = LoadValues
  BY <1>1, SameProgram
<1>3. \A u : Final(u)' <=> Final(u)
  BY <1>1, <1>2, FinalSame
<1>4. ASSUME NEW v \in Vars, NEW i \in 1..Len(var_val_stack'[v]) PROVE Final(var_val_stack'[v][i])
  <2>1. /\ var_val_stack \in [Vars -> Seq(Values)]
        /\ var_val_stack' = [var_val_stack EXCEPT ![Instr(Here).var] = Append(@, get_rval(Here))]
    BY DEF RenameStore, TypeInv, TypeOK
  <2>2. \A j \in 1..Len(var_val_stack[v]) : Final(var_val_stack[v][j])
    BY DEF ReplInv
  <2>3. Final(get_rval(Here))
    BY OperandFinal
  <2>4. CASE v = Instr(Here).var
    BY <1>4, <2>1, <2>2, <2>3, <2>4
  <2>5. CASE v # Instr(Here).var
    BY <1>4, <2>1, <2>2, <2>5
  <2> QED
    BY <2>4, <2>5
<1> QED
  BY <1>1, <1>2, <1>3, <1>4 DEF ReplInv

LEMMA ReplFill ==
  ASSUME TypeInv, ReplInv, OpenPath, NEW s \in Blocks, FillPhis(s)
  PROVE  ReplInv'
<1>1. UNCHANGED <<progVars, phase, frames, pc, repl, var_val_stack>>
  BY DEF FillPhis
<1>2. LoadValues' = LoadValues /\ Settled' = Settled
  BY <1>1, SameProgram, SettledRest
<1>3. \A u : Final(u)' <=> Final(u)
  BY <1>1, <1>2, FinalSame
<1>4. \A v \in phis[s] \cap found : Final(Last(var_val_stack[v]))
  <2> SUFFICES ASSUME NEW v \in phis[s] \cap found PROVE Final(Last(var_val_stack[v]))
    OBVIOUS
  <2>1. v \in Vars /\ var_val_stack[v] # <<>>
    BY DEF FillPhis, TypeInv, TypeOK
  <2>2. var_val_stack[v] \in Seq(Values)
    BY <2>1 DEF TypeInv, TypeOK
  <2>3. Len(var_val_stack[v]) \in 1..Len(var_val_stack[v])
    BY <2>1, <2>2
  <2> QED
    BY <2>1, <2>3 DEF ReplInv, Last
<1>5. ASSUME NEW bv \in Blocks \X Vars, NEW p \in phi_pairs'[bv] PROVE Final(p[1])
  <2>1. p \in phi_pairs[bv] \/ \E v \in phis[s] \cap found : p = <<Last(var_val_stack[v]), Top.bb>>
    BY <1>5 DEF FillPhis
  <2>2. \A v : <<Last(var_val_stack[v]), Top.bb>>[1] = Last(var_val_stack[v])
    OBVIOUS
  <2> QED
    BY <1>4, <2>1, <2>2 DEF ReplInv
<1> QED
  BY <1>1, <1>2, <1>3, <1>5 DEF ReplInv

LEMMA ReplRemove ==
  ASSUME TypeInv, ReplInv, OpenPath, remove_alloca
  PROVE  ReplInv'
<1>1. UNCHANGED <<progVars, frames, pc, repl, var_val_stack, phi_pairs>>
  BY DEF remove_alloca, nameVars
<1>2. Pending' = Pending /\ frames = <<>>
  BY RemovePath
<1>3. LoadValues' = LoadValues /\ Reachable(succ)' = Reachable(succ)
  BY <1>1, SameProgram DEF progVars
<1>4. ~Renaming /\ ~Renaming'
  BY <1>1, <1>2 DEF Renaming
<1>5. Settled' = Settled
  BY <1>2, <1>3, <1>4 DEF Settled
<1>6. \A u : Final(u)' <=> Final(u)
  BY <1>1, <1>3, <1>5, FinalSame
<1> QED
  BY <1>1, <1>3, <1>5, <1>6 DEF ReplInv

LEMMA ReplNext == TypeInv /\ OpenPath /\ ReplInv /\ [Next]_vars => ReplInv'
<1> SUFFICES ASSUME TypeInv, OpenPath, ReplInv, [Next]_vars PROVE ReplInv'
  OBVIOUS
<1>1. CASE (\E v \in Vars : PickVar(v)) \/ (\E b \in Blocks : PlacePhis(b)) \/ UNCHANGED vars
  <2>1. UNCHANGED <<progVars, phase, frames, pc, repl, var_val_stack, phi_pairs>>
    BY <1>1 DEF PickVar, PlacePhis, vars, nameVars
  <2> QED
    BY <2>1, ReplRest
<1>2. CASE StartRename \/ (\E c \in Blocks : Recurse(c)) \/ Return
  BY <1>2, ReplCall
<1>3. CASE RenameLoad \/ RenameStore \/ (\E b \in Blocks : FillPhis(b)) \/ remove_alloca
  BY <1>3, ReplLoad, ReplStore, ReplFill, ReplRemove
<1> QED
  BY <1>1, <1>2, <1>3 DEF Next

LEMMA ReplInductive == Spec => []ReplInv
BY InitTypes, NextTypes, PathInit, PathNext, ReplInit, ReplNext, PTL DEF Spec

\* No value that is kept, in a phi or in place of a load, is a load that has
\* itself been replaced: a copy of a copy is followed to its end, in whatever
\* order the blocks of the dominator tree are visited.
THEOREM OperandsCorrect == Spec => []NoReplacedOperand
<1>1. TypeInv /\ ReplInv => NoReplacedOperand
  <2> SUFFICES ASSUME TypeInv, ReplInv PROVE NoReplacedOperand
    OBVIOUS
  <2>1. DOMAIN repl = LoadValues
    BY DEF TypeInv, TypeOK
  <2>2. \A x \in LoadValues : repl[x] # x => x \in Settled
    BY DEF ReplInv
  <2>3. \A u : Final(u) => u \notin {x \in DOMAIN repl : repl[x] # x}
    BY <2>1 DEF Final
  <2>4. \A x \in {x \in DOMAIN repl : repl[x] # x} : Final(repl[x])
    BY <2>1, <2>2 DEF ReplInv
  <2>5. \A bv \in Blocks \X Vars : \A p \in phi_pairs[bv] : Final(p[1])
    BY DEF ReplInv
  <2> QED
    BY <2>3, <2>4, <2>5 DEF NoReplacedOperand
<1> QED
  BY <1>1, TypesInductive, ReplInductive, PTL

-----------------------------------------------------------------------------
(***************************************************************************)
(* The stacks.  A stack s is cut into one segment for each open call; h[i] *)
(* is how high it was when the i-th call began.  bbs are the blocks of the *)
(* calls, p[b] is how much a call for b pushes in all, and t how much the  *)
(* innermost one has pushed so far.  A value in the segment of a call      *)
(* comes from its block or from that of a call further out.                *)
(***************************************************************************)
Owned(bbs, u, n) == u = Garbage \/ \E j \in 1..n : bbs[j] = u[2]

Heights(h, bbs, n, p) ==
  /\ h[1] = 0
  /\ \A i \in 1..n : i # n => h[i+1] = h[i] + p[bbs[i]]
  /\ \A i, j \in 1..n : i <= j => h[i] <= h[j]

Segments(h, bbs, n, s, m) ==
  \A i \in 1..n : \A k \in 1..m : i = n \/ k <= h[i+1] => Owned(bbs, s[k], i)

Stacked(s, m, bbs, n, p, t) ==
  IF n = 0 THEN m = 0
  ELSE \E h \in [Nat -> Nat] :
         Heights(h, bbs, n, p) /\ Segments(h, bbs, n, s, m) /\ m = h[n] + t

\* One height more.
LEMMA Extension ==
  ASSUME NEW h \in [Nat -> Nat], NEW n \in Nat, NEW m \in Nat
  PROVE  \E g \in [Nat -> Nat] : g[n+1] = m /\ \A i \in 1..n : g[i] = h[i]
<1> DEFINE g == [h EXCEPT ![n+1] = m]
<1>1. g \in [Nat -> Nat] /\ g[n+1] = m /\ \A i \in 1..n : g[i] = h[i]
  OBVIOUS
<1> HIDE DEF g
<1> QED
  BY <1>1

LEMMA NextIndex ==
  ASSUME NEW n \in Nat, NEW i \in 1..n, i # n
  PROVE  i + 1 \in 1..n /\ i + 1 \in 1..(n+1)
OBVIOUS

LEMMA HeightsMore ==
  ASSUME NEW n \in Nat \ {0}, NEW h \in [Nat -> Nat], NEW g \in [Nat -> Nat], NEW p, NEW bbs, NEW d,
         \A i \in 1..n : d[i] = bbs[i] /\ g[i] = h[i], p[bbs[n]] \in Nat,
         g[n+1] = h[n] + p[bbs[n]],
         Heights(h, bbs, n, p)
  PROVE  Heights(g, d, n + 1, p)
<1>1. g[1] = 0 /\ n \in 1..n
  BY DEF Heights
<1>2. ASSUME NEW i \in 1..n PROVE g[i+1] = g[i] + p[d[i]]
  <2>1. CASE i = n
    BY <2>1
  <2>2. CASE i # n
    <3>1. i + 1 \in 1..n
      BY <2>2
    <3>2. h[i+1] = h[i] + p[bbs[i]]
      BY <2>2 DEF Heights
    <3> QED
      BY <3>1, <3>2
  <2> QED
    BY <2>1, <2>2
<1>3. ASSUME NEW i \in 1..(n+1), NEW j \in 1..(n+1), i <= j PROVE g[i] <= g[j]
  <2>1. CASE j \in 1..n
    <3>1. i \in 1..n
      BY <1>3, <2>1
    <3>2. h[i] <= h[j]
      BY <1>3, <2>1, <3>1 DEF Heights
    <3> QED
      BY <2>1, <3>1, <3>2
  <2>2. CASE j = n + 1 /\ i \in 1..n
    <3>1. h[i] <= h[n] /\ h[i] \in Nat /\ h[n] \in Nat
      BY <1>1, <2>2 DEF Heights
    <3> QED
      BY <2>2, <3>1
  <2>3. CASE j = n + 1 /\ i = n + 1
    <3>1. g[j] \in Nat
      BY <2>3
    <3> QED
      BY <2>3, <3>1
  <2> QED
    BY <1>3, <2>1, <2>2, <2>3
<1>4. \A i \in 1..(n+1) : i # n + 1 => i \in 1..n
  OBVIOUS
<1> QED
  BY <1>1, <1>2, <1>3, <1>4 DEF Heights

LEMMA SegmentsMore ==
  ASSUME NEW n \in Nat \ {0}, NEW h \in [Nat -> Nat], NEW g \in [Nat -> Nat], NEW p, NEW bbs, NEW d,
         NEW s, NEW r, NEW m \in Nat, NEW l \in Nat,
         \A i \in 1..n : d[i] = bbs[i] /\ g[i] = h[i],
         Heights(g, d, n + 1, p), Segments(h, bbs, n, s, m), g[n+1] = m,
         \A k \in 1..m : r[k] = s[k],
         \A k \in 1..l : k \in 1..m \/ Owned(d, r[k], n + 1)
  PROVE  Segments(g, d, n + 1, r, l)
<1> SUFFICES ASSUME NEW i \in 1..(n+1), NEW k \in 1..l, i = n + 1 \/ k <= g[i+1]
             PROVE  Owned(d, r[k], i)
  BY DEF Segments
<1>1. n \in 1..n /\ \A j \in 1..n : \A x \in 1..j : x \in 1..n /\ x \in 1..(n+1)
  OBVIOUS
<1>2. \A w : \A j \in 1..n : Owned(bbs, w, j) => Owned(d, w, j) /\ Owned(d, w, n + 1)
  BY <1>1 DEF Owned
<1>3. CASE i \in 1..n
  <2>1. i + 1 \in 1..(n+1) /\ n + 1 \in 1..(n+1) /\ i + 1 <= n + 1 /\ i # n + 1
    BY <1>3
  <2>2. k <= g[i+1] /\ g[i+1] <= m /\ g[i+1] \in Nat
    BY <2>1 DEF Heights
  <2>3. k \in 1..m
    BY <2>2
  <2>4. i = n \/ k <= h[i+1]
    <3>1. CASE i # n
      <4>1. i + 1 \in 1..n
        BY <1>3, <3>1, NextIndex
      <4> QED
        BY <2>2, <4>1
    <3> QED
      BY <3>1
  <2>5. Owned(bbs, s[k], i)
    BY <1>3, <2>3, <2>4 DEF Segments
  <2> QED
    BY <1>2, <1>3, <2>3, <2>5
<1>4. CASE i = n + 1
  <2>1. CASE k \in 1..m
    <3>1. Owned(bbs, s[k], n)
      BY <1>1, <2>1 DEF Segments
    <3> QED
      BY <1>1, <1>2, <1>4, <2>1, <3>1
  <2> QED
    BY <1>4, <2>1
<1> QED
  BY <1>3, <1>4

\* The first call begins on an empty stack.
LEMMA StackStart ==
  ASSUME NEW s, NEW m \in Nat, NEW bbs, NEW p, \A k \in 1..m : Owned(bbs, s[k], 1)
  PROVE  Stacked(s, m, bbs, 1, p, m)
<1> DEFINE h == [i \in Nat |-> 0]
<1>1. h \in [Nat -> Nat] /\ h[1] = 0 /\ \A i \in 1..1 : i = 1
  OBVIOUS
<1> HIDE DEF h
<1>2. Heights(h, bbs, 1, p)
  BY <1>1 DEF Heights
<1>3. Segments(h, bbs, 1, s, m)
  BY <1>1 DEF Segments
<1> QED
  BY <1>1, <1>2, <1>3 DEF Stacked

\* A call begins a segment, with the phi of its block if there is one.
LEMMA StackCall ==
  ASSUME NEW bbs, NEW d, NEW s, NEW r, NEW p, NEW n \in Nat \ {0}, NEW m \in Nat, NEW l \in Nat,
         \A i \in 1..n : d[i] = bbs[i], \A k \in 1..m : r[k] = s[k],
         \A k \in 1..l : k \in 1..m \/ Owned(d, r[k], n + 1),
         p[bbs[n]] \in Nat, Stacked(s, m, bbs, n, p, p[bbs[n]])
  PROVE  Stacked(r, l, d, n + 1, p, l - m)
<1>1. PICK h \in [Nat -> Nat] : /\ Heights(h, bbs, n, p) /\ Segments(h, bbs, n, s, m)
                                /\ m = h[n] + p[bbs[n]]
  BY DEF Stacked
<1>2. PICK g \in [Nat -> Nat] : g[n+1] = m /\ \A i \in 1..n : g[i] = h[i]
  BY Extension
<1>3. \A i \in 1..n : d[i] = bbs[i] /\ g[i] = h[i]
  BY <1>2
<1>4. Heights(g, d, n + 1, p)
  BY <1>1, <1>2, <1>3, HeightsMore
<1>5. Segments(g, d, n + 1, r, l)
  BY <1>1, <1>2, <1>3, <1>4, SegmentsMore
<1>6. l = g[n+1] + (l - m) /\ n + 1 # 0
  BY <1>2
<1> QED
  BY <1>4, <1>5, <1>6 DEF Stacked

LEMMA EarlierIndices ==
  ASSUME NEW n \in Nat \ {0}
  PROVE  /\ n \in 1..n /\ 1 \in 1..n
         /\ \A i \in 1..n : /\ i \in 1..(n+1) /\ i # n + 1 /\ i + 1 \in 1..(n+1) /\ i + 1 <= n + 1
                            /\ \A j \in 1..i : j \in 1..n
OBVIOUS

LEMMA SegmentsPush ==
  ASSUME NEW n \in Nat \ {0}, NEW h \in [Nat -> Nat], NEW p, NEW bbs, NEW s, NEW r,
         NEW m \in Nat, \A k \in 1..m : r[k] = s[k], Owned(bbs, r[m+1], n),
         Heights(h, bbs, n, p), Segments(h, bbs, n, s, m), h[n] <= m
  PROVE  Segments(h, bbs, n, r, m + 1)
<1> SUFFICES ASSUME NEW i \in 1..n, NEW k \in 1..(m+1), i = n \/ k <= h[i+1]
             PROVE  Owned(bbs, r[k], i)
  BY DEF Segments
<1>1. CASE k \in 1..m
  BY <1>1 DEF Segments
<1>2. CASE k = m + 1 /\ i # n
  <2>1. i + 1 \in 1..n /\ n \in 1..n /\ i + 1 <= n
    BY <1>2, NextIndex
  <2>2. h[i+1] <= h[n]
    BY <2>1 DEF Heights
  <2>3. h[n] \in Nat /\ h[i+1] \in Nat
    BY <2>1
  <2> QED
    BY <1>2, <2>2, <2>3
<1>3. CASE k = m + 1 /\ i = n
  BY <1>3
<1>4. k \in 1..m \/ k = m + 1
  OBVIOUS
<1> QED
  BY <1>1, <1>2, <1>3, <1>4

\* r is s, of length m, without its last t elements.
Cut(r, l, s, m, t) == m = l + t /\ \A k \in 1..l : r[k] = s[k]

\* A store adds a value that comes from an open call.
LEMMA StackPush ==
  ASSUME NEW bbs, NEW s, NEW r, NEW p, NEW n \in Nat \ {0}, NEW m \in Nat, NEW t \in Nat,
         \A k \in 1..m : r[k] = s[k], Owned(bbs, r[m+1], n), Stacked(s, m, bbs, n, p, t)
  PROVE  Stacked(r, m + 1, bbs, n, p, t + 1)
<1>1. PICK h \in [Nat -> Nat] : Heights(h, bbs, n, p) /\ Segments(h, bbs, n, s, m) /\ m = h[n] + t
  BY DEF Stacked
<1>2. h[n] <= m /\ m + 1 = h[n] + (t + 1)
  BY <1>1
<1>3. Segments(h, bbs, n, r, m + 1)
  BY <1>1, <1>2, SegmentsPush
<1> QED
  BY <1>1, <1>2, <1>3 DEF Stacked

\* What the last call has pushed is popped when it returns.
LEMMA StackReturn ==
  ASSUME NEW bbs, NEW d, NEW s, NEW r, NEW p, NEW q, NEW m, NEW n \in Nat, NEW l \in Nat, NEW t \in Nat,
         Cut(d, n, bbs, q, 1), Cut(r, l, s, m, t), Stacked(s, m, bbs, q, p, t)
  PROVE  Stacked(r, l, d, n, p, p[d[n]])
<1>1. /\ q = n + 1 /\ m = l + t /\ m \in Nat /\ q # 0
      /\ \A i \in 1..n : d[i] = bbs[i] /\ \A k \in 1..l : r[k] = s[k]
  BY DEF Cut
<1>2. PICK h \in [Nat -> Nat] : Heights(h, bbs, q, p) /\ Segments(h, bbs, q, s, m) /\ m = h[q] + t
  BY <1>1 DEF Stacked
<1>3. l = h[q] /\ l <= m
  BY <1>1, <1>2
<1>4. CASE n = 0
  BY <1>1, <1>2, <1>3, <1>4 DEF Heights, Stacked
<1>5. CASE n # 0
  <2>1. Heights(h, d, n, p) /\ h[q] = h[n] + p[d[n]]
    <3>1. n \in 1..n /\ \A i \in 1..n : i \in 1..q /\ i # q /\ i + 1 \in 1..q
      BY <1>1, <1>5
    <3>2. Heights(h, d, n, p)
      BY <1>1, <1>2, <3>1 DEF Heights
    <3>3. h[q] = h[n] + p[d[n]]
      BY <1>1, <1>2, <3>1 DEF Heights
    <3> QED
      BY <3>2, <3>3
  <2>2. ASSUME NEW i \in 1..n, NEW k \in 1..l, i = n \/ k <= h[i+1] PROVE Owned(d, r[k], i)
    <3>1. k <= h[i+1] /\ k \in 1..m
      BY <1>1, <1>3, <2>2
    <3>2. i \in 1..q /\ \A j \in 1..i : j \in 1..n
      BY <1>1
    <3>3. Owned(bbs, s[k], i)
      BY <1>2, <3>1, <3>2 DEF Segments
    <3> QED
      BY <1>1, <3>2, <3>3 DEF Owned
  <2>3. Segments(h, d, n, r, l)
    BY <2>2 DEF Segments
  <2> QED
    BY <1>1, <1>3, <1>5, <2>1, <2>3 DEF Stacked
<1> QED
  BY <1>4, <1>5

\* Every value comes from an open call; the first call's values are there
\* for all the calls it makes.
LEMMA StackValues ==
  ASSUME NEW bbs, NEW s, NEW p, NEW t, NEW n \in Nat \ {0}, NEW m, Stacked(s, m, bbs, n, p, t)
  PROVE  \A k \in 1..m : Owned(bbs, s[k], n)
<1>1. n \in 1..n
  BY EarlierIndices
<1> QED
  BY <1>1 DEF Stacked, Segments

LEMMA StackBottom ==
  ASSUME NEW bbs, NEW s, NEW p, NEW t \in Nat, NEW n \in Nat \ {0}, NEW m,
         p[bbs[1]] \in Nat, Stacked(s, m, bbs, n, p, t)
  PROVE  m \in Nat /\ t <= m /\ (n # 1 => p[bbs[1]] <= m)
<1>1. PICK h \in [Nat -> Nat] : Heights(h, bbs, n, p) /\ m = h[n] + t
  BY DEF Stacked
<1>2. h[n] \in Nat
  OBVIOUS
<1>3. CASE n # 1
  <2>1. 1 \in 1..n /\ 1 + 1 \in 1..n /\ n \in 1..n /\ 1 + 1 <= n
    BY <1>3
  <2>2. h[1+1] = h[1] + p[bbs[1]] /\ h[1] = 0 /\ h[1+1] <= h[n]
    BY <1>1, <1>3, <2>1 DEF Heights
  <2> QED
    BY <1>1, <1>2, <2>2
<1> QED
  BY <1>1, <1>2, <1>3

-----------------------------------------------------------------------------
(* What the calls push. *)

Pushed(b, v) == Cardinality(StoresIn(b, v)) + PhiCount(b, v)
StoredBefore(b, v, n) == Cardinality(StoresBefore(b, v, n))

LEMMA StoredCounts ==
  ASSUME TypeInv, NEW b \in Blocks, NEW v
  PROVE  /\ Pushed(b, v) \in Nat /\ PhiCount(b, v) \in {0, 1}
         /\ \A n \in Nat : StoredBefore(b, v, n) \in Nat
         /\ StoredBefore(b, v, 1) = 0
         /\ \A n \in Nat : n > Len(code[b]) =>
              PhiCount(b, v) + StoredBefore(b, v, n) = Pushed(b, v)
         /\ \A n \in 1..Len(code[b]) :
              StoredBefore(b, v, n + 1) =
                IF code[b][n].op = "store" /\ code[b][n].var = v
                THEN StoredBefore(b, v, n) + 1 ELSE StoredBefore(b, v, n)
<1>1. /\ IsFiniteSet(StoresIn(b, v)) /\ Cardinality(StoresIn(b, v)) \in Nat
      /\ PhiCount(b, v) \in {0, 1} /\ Len(code[b]) \in Nat
  BY StoresFinite DEF PhiCount, TypeInv, TypeOK
<1>2. StoresIn(b, v) \subseteq 1..Len(code[b])
  BY DEF StoresIn
<1>3. \A n \in Nat : IsFiniteSet(StoresBefore(b, v, n)) /\ StoredBefore(b, v, n) \in Nat
  <2> SUFFICES ASSUME NEW n \in Nat
               PROVE  IsFiniteSet(StoresBefore(b, v, n)) /\ StoredBefore(b, v, n) \in Nat
    OBVIOUS
  <2>1. StoresBefore(b, v, n) \subseteq StoresIn(b, v)
    BY DEF StoresBefore
  <2> QED
    BY <1>1, <2>1, FS_Subset, FS_CardinalityType DEF StoredBefore
<1>4. StoredBefore(b, v, 1) = 0
  <2>1. StoresBefore(b, v, 1) = {}
    BY <1>2 DEF StoresBefore
  <2> QED
    BY <2>1, FS_EmptySet DEF StoredBefore
<1>5. ASSUME NEW n \in Nat, n > Len(code[b])
      PROVE  PhiCount(b, v) + StoredBefore(b, v, n) = Pushed(b, v)
  <2>1. \A k \in StoresIn(b, v) : k < n
    BY <1>1, <1>2, <1>5
  <2>2. StoresBefore(b, v, n) = StoresIn(b, v)
    BY <2>1 DEF StoresBefore
  <2> QED
    BY <1>1, <2>2 DEF StoredBefore, Pushed
<1>6. ASSUME NEW n \in 1..Len(code[b])
      PROVE  StoredBefore(b, v, n + 1) =
               IF code[b][n].op = "store" /\ code[b][n].var = v
               THEN StoredBefore(b, v, n) + 1 ELSE StoredBefore(b, v, n)
  <2>0. n \in Nat /\ \A k \in StoresIn(b, v) : k \in Nat
    BY <1>1, <1>2
  <2>1. CASE n \in StoresIn(b, v)
    <3>0. (\A k \in StoresIn(b, v) : k < n + 1 <=> k < n \/ k = n) /\ ~(n < n)
      BY <2>0
    <3>1. StoresBefore(b, v, n + 1) = StoresBefore(b, v, n) \cup {n} /\ n \notin StoresBefore(b, v, n)
      BY <2>1, <3>0 DEF StoresBefore
    <3>2. StoredBefore(b, v, n + 1) = StoredBefore(b, v, n) + 1
      BY <1>3, <2>0, <3>1, FS_AddElement DEF StoredBefore
    <3> QED
      BY <2>1, <3>2 DEF StoresIn
  <2>2. CASE n \notin StoresIn(b, v)
    <3>1. \A k \in StoresIn(b, v) : k < n + 1 <=> k < n
      BY <2>0, <2>2
    <3>2. StoresBefore(b, v, n + 1) = StoresBefore(b, v, n)
      BY <3>1 DEF StoresBefore
    <3> QED
      BY <2>2, <3>2 DEF StoresIn, StoredBefore
  <2> QED
    BY <2>1, <2>2
<1>7. Pushed(b, v) \in Nat
  BY <1>1 DEF Pushed
<1> QED
  BY <1>1, <1>3, <1>4, <1>5, <1>6, <1>7

\* How much is pushed depends on the program and the phis.
LEMMA SamePushes ==
  ASSUME UNCHANGED progVars, phis' = phis
  PROVE  /\ \A b, v : Pushed(b, v)' = Pushed(b, v) /\ PhiCount(b, v)' = PhiCount(b, v)
         /\ \A b, v, n : StoredBefore(b, v, n)' = StoredBefore(b, v, n)
<1>1. \A b, v : StoresIn(b, v)' = StoresIn(b, v)
  BY SameProgram
<1>2. \A b, v : PhiCount(b, v)' = PhiCount(b, v)
  BY DEF PhiCount
<1> QED
  BY <1>1, <1>2 DEF Pushed, StoredBefore, StoresBefore

-----------------------------------------------------------------------------
(***************************************************************************)
(* The stacks of re_name: what is on each is what the open calls have      *)
(* pushed, and a load that has been passed in the block in hand has become *)
(* a value from an open call.                                              *)
(***************************************************************************)
Open == [i \in 1..Len(frames) |-> frames[i].bb]
Pushes(v) == [b \in Blocks |-> Pushed(b, v)]
Depth(v) == IF frames = <<>> THEN 0 ELSE PhiCount(Top.bb, v) + StoredBefore(Top.bb, v, pc)

Stacks ==
  \A v \in Vars :
    Stacked(var_val_stack[v], Len(var_val_stack[v]), Open, Len(frames), Pushes(v), Depth(v))

LoadsOwned ==
  InCode => \A k \in 1..(pc-1) :
    LoadValue(<<Top.bb, k>>) \in LoadValues =>
      Owned(Open, repl[LoadValue(<<Top.bb, k>>)], Len(frames))

StackInv == Stacks /\ LoadsOwned

LEMMA OpenOK ==
  ASSUME TypeInv
  PROVE  /\ Len(frames) \in Nat /\ (frames = <<>> <=> Len(frames) = 0)
         /\ \A i \in 1..Len(frames) : Open[i] = frames[i].bb /\ Open[i] \in Blocks
         /\ Renaming => Len(frames) \in Nat \ {0} /\ Len(frames) \in 1..Len(frames)
                        /\ Open[Len(frames)] = Top.bb
         /\ \A v \in Vars : var_val_stack[v] \in Seq(Values) /\ Len(var_val_stack[v]) \in Nat
<1>1. frames \in Seq(Calls) /\ \A v \in Vars : var_val_stack[v] \in Seq(Values)
  BY DEF TypeInv, TypeOK
<1>2. Len(frames) \in Nat /\ (frames = <<>> <=> Len(frames) = 0)
  BY <1>1
<1>3. \A v \in Vars : Len(var_val_stack[v]) \in Nat
  BY <1>1
<1>4. \A i \in 1..Len(frames) : frames[i] \in Calls /\ Open[i] = frames[i].bb
  BY <1>1 DEF Open
<1>5. Renaming => Len(frames) \in Nat \ {0} /\ Len(frames) \in 1..Len(frames)
                  /\ Open[Len(frames)] = Top.bb
  <2> SUFFICES ASSUME Renaming
               PROVE  Len(frames) \in Nat \ {0} /\ Len(frames) \in 1..Len(frames)
                      /\ Open[Len(frames)] = Top.bb
    OBVIOUS
  <2>1. Len(frames) \in Nat \ {0} /\ Top = frames[Len(frames)]
    BY TopOK
  <2>2. Len(frames) \in 1..Len(frames)
    BY <2>1
  <2> QED
    BY <1>4, <2>1, <2>2
<1> QED
  BY <1>1, <1>2, <1>3, <1>4, <1>5 DEF Calls

LEMMA DepthOK ==
  ASSUME TypeInv, Renaming, NEW v \in Vars
  PROVE  /\ Depth(v) = PhiCount(Top.bb, v) + StoredBefore(Top.bb, v, pc) /\ Depth(v) \in Nat
         /\ \A b \in Blocks : Pushes(v)[b] = Pushed(b, v) /\ Pushes(v)[b] \in Nat
         /\ Recursing => Depth(v) = Pushes(v)[Top.bb]
<1>1. Top.bb \in Blocks /\ frames # <<>> /\ code[Top.bb] \in Seq(Access)
  BY TopOK DEF Renaming
<1>2. \A b \in Blocks : Pushes(v)[b] = Pushed(b, v) /\ Pushes(v)[b] \in Nat
  BY StoredCounts DEF Pushes
<1>3. pc \in Nat /\ PhiCount(Top.bb, v) \in Nat /\ StoredBefore(Top.bb, v, pc) \in Nat
  <2>1. pc \in Nat
    BY DEF TypeInv, TypeOK
  <2>2. PhiCount(Top.bb, v) \in Nat
    BY <1>1, StoresFinite
  <2> QED
    BY <1>1, <2>1, <2>2, StoredCounts
<1>4. Depth(v) = PhiCount(Top.bb, v) + StoredBefore(Top.bb, v, pc)
  BY <1>1 DEF Depth
<1>5. Depth(v) \in Nat
  BY <1>3, <1>4
<1>6. Recursing => Depth(v) = Pushes(v)[Top.bb]
  <2> SUFFICES ASSUME Recursing PROVE Depth(v) = Pushes(v)[Top.bb]
    OBVIOUS
  <2>1. Len(code[Top.bb]) \in Nat
    BY <1>1
  <2>2. pc > Len(code[Top.bb])
    BY <1>3, <2>1 DEF Recursing, InCode
  <2>3. PhiCount(Top.bb, v) + StoredBefore(Top.bb, v, pc) = Pushed(Top.bb, v)
    BY <1>1, <1>3, <2>2, StoredCounts
  <2> QED
    BY <1>1, <1>2, <1>4, <2>3
<1> QED
  BY <1>2, <1>4, <1>5, <1>6

LEMMA StacksInit == Init => StackInv
<1> SUFFICES ASSUME Init PROVE StackInv
  OBVIOUS
<1>1. frames = <<>> /\ Len(frames) = 0 /\ \A v \in Vars : Len(var_val_stack[v]) = 0
  BY DEF Init
<1>2. Stacks
  BY <1>1 DEF Stacks, Stacked
<1>3. ~InCode
  BY <1>1 DEF InCode, Renaming
<1> QED
  BY <1>2, <1>3 DEF StackInv, LoadsOwned

\* When no call is open the stacks are empty.
LEMMA StacksIdle ==
  ASSUME TypeInv, StackInv, frames = <<>>
  PROVE  \A v \in Vars : var_val_stack[v] = <<>> /\ Len(var_val_stack[v]) = 0
<1>1. Len(frames) = 0
  OBVIOUS
<1>2. \A v \in Vars : Len(var_val_stack[v]) = 0
  BY <1>1 DEF StackInv, Stacks, Stacked
<1> QED
  BY <1>2, OpenOK

LEMMA StacksOutside ==
  ASSUME TypeInv, StackInv, frames = <<>>, frames' = <<>>, var_val_stack' = var_val_stack
  PROVE  StackInv'
<1>1. Len(frames') = 0 /\ \A v \in Vars : Len(var_val_stack'[v]) = 0
  BY StacksIdle
<1>2. Stacks'
  BY <1>1 DEF Stacks, Stacked
<1>3. ~InCode'
  BY DEF InCode, Renaming
<1> QED
  BY <1>2, <1>3 DEF StackInv, LoadsOwned

\* Steps within the block in hand keep the path of open calls.
LEMMA SameOpen ==
  ASSUME Len(frames') = Len(frames), \A i \in 1..Len(frames) : frames'[i].bb = frames[i].bb
  PROVE  Open' = Open
BY DEF Open

LEMMA SamePushesOf ==
  ASSUME UNCHANGED progVars, phis' = phis
  PROVE  \A v : Pushes(v)' = Pushes(v)
BY SamePushes DEF Pushes

LEMMA DepthNext ==
  ASSUME UNCHANGED progVars, phis' = phis, frames' # <<>>, NEW b, Top'.bb = b, NEW v
  PROVE  Depth(v)' = PhiCount(b, v) + StoredBefore(b, v, pc')
<1>1. Depth(v)' = PhiCount(Top.bb, v)' + StoredBefore(Top.bb, v, pc)'
  BY DEF Depth
<1>2. PhiCount(Top.bb, v)' = PhiCount(b, v)
  BY DEF PhiCount
<1>3. StoresBefore(Top.bb, v, pc)' = StoresBefore(b, v, pc')
  BY DEF StoresBefore, StoresIn, progVars
<1> QED
  BY <1>1, <1>2, <1>3 DEF StoredBefore

\* What a call adds to a stack.
LEMMA CallPushes ==
  ASSUME TypeInv, NEW b \in Blocks, NEW callers, Call(b, callers), NEW v \in Vars
  PROVE  /\ Len(var_val_stack'[v]) = Len(var_val_stack[v]) + PhiCount(b, v)
         /\ \A k \in 1..Len(var_val_stack[v]) : var_val_stack'[v][k] = var_val_stack[v][k]
         /\ \A k \in 1..Len(var_val_stack'[v]) :
              k \in 1..Len(var_val_stack[v]) \/ var_val_stack'[v][k] = PhiValue(b, v)
<1>1. var_val_stack'[v] = IF v \in phis[b] THEN Append(var_val_stack[v], PhiValue(b, v))
                          ELSE var_val_stack[v]
  BY DEF Call
<1>2. var_val_stack[v] \in Seq(Values) /\ PhiValue(b, v) \in Values
  <2>1. PhiValue(b, v) \in Values
    BY DEF Values
  <2> QED
    BY <2>1, OpenOK
<1>3. CASE v \in phis[b]
  BY <1>1, <1>2, <1>3 DEF PhiCount
<1>4. CASE v \notin phis[b]
  BY <1>1, <1>2, <1>4 DEF PhiCount
<1> QED
  BY <1>3, <1>4

\* The first call pushes the phis of the entry.
LEMMA StacksStart ==
  ASSUME TypeInv, OpenPath, StackInv, StartRename
  PROVE  StackInv'
<1>1. UNCHANGED progVars /\ phis' = phis /\ Call(Entry, <<>>) /\ Entry \in Blocks /\ frames = <<>>
  BY EntryAssumption DEF StartRename, phiVars, OpenPath
<1>2. Len(frames') = 1 /\ frames'[1].bb = Entry /\ pc' = 1
  BY StartOK
<1>3. frames' # <<>> /\ Top'.bb = Entry
  BY <1>2 DEF Top, Last
<1>4. Open'[1] = Entry
  BY <1>2 DEF Open
<1>5. ASSUME NEW v \in Vars
      PROVE  Stacked(var_val_stack'[v], Len(var_val_stack'[v]), Open', 1, Pushes(v)', Depth(v)')
  <2>1. Len(var_val_stack[v]) = 0
    BY <1>1, StacksIdle
  <2>2. PhiCount(Entry, v) \in Nat /\ StoredBefore(Entry, v, 1) = 0
    BY <1>1, StoredCounts
  <2>3. /\ Len(var_val_stack'[v]) = PhiCount(Entry, v)
        /\ \A k \in 1..Len(var_val_stack'[v]) : var_val_stack'[v][k] = PhiValue(Entry, v)
    BY <1>1, <2>1, <2>2, CallPushes
  <2>4. Depth(v)' = Len(var_val_stack'[v])
    BY <1>1, <1>2, <1>3, <2>2, <2>3, DepthNext
  <2>5. PhiValue(Entry, v)[2] = Entry /\ 1 \in 1..1
    BY DEF PhiValue
  <2>6. \A k \in 1..Len(var_val_stack'[v]) : Owned(Open', var_val_stack'[v][k], 1)
    BY <1>4, <2>3, <2>5 DEF Owned
  <2> QED
    BY <2>2, <2>3, <2>4, <2>6, StackStart
<1>6. Stacks'
  BY <1>2, <1>5 DEF Stacks
<1>7. LoadsOwned'
  BY <1>2 DEF LoadsOwned
<1> QED
  BY <1>6, <1>7 DEF StackInv

\* A call further down adds its block to the path and its phis to the stacks.
LEMMA StacksCall ==
  ASSUME TypeInv, OpenPath, StackInv, NEW c \in Blocks, Recurse(c)
  PROVE  StackInv'
<1> DEFINE n == Len(frames)
<1>1. UNCHANGED progVars /\ phis' = phis /\ Recursing /\ Renaming /\ Call(c, Taken(c))
  BY DEF Recurse, Recursing, phiVars, Taken
<1>2. /\ n \in Nat \ {0} /\ Open[n] = Top.bb /\ Top.bb \in Blocks
      /\ \A i \in 1..n : Open[i] = frames[i].bb
  BY <1>1, OpenOK, TopOK
<1>3. /\ Taken(c) \in Seq(Calls) /\ Len(Taken(c)) = n
      /\ \A i \in 1..n : Taken(c)[i].bb = frames[i].bb
  BY <1>1, TakenOK
<1>4. /\ Len(frames') = n + 1 /\ frames'[n+1].bb = c /\ pc' = 1
      /\ \A i \in 1..n : frames'[i].bb = frames[i].bb
  BY <1>1, <1>3, CallOK
<1>5. frames' # <<>> /\ Top'.bb = c
  BY <1>2, <1>4 DEF Top, Last
<1>6. Open'[n+1] = c /\ \A i \in 1..n : Open'[i] = Open[i]
  <2>1. n + 1 \in 1..(n+1) /\ \A i \in 1..n : i \in 1..(n+1)
    BY <1>2
  <2>2. \A i \in 1..(n+1) : Open'[i] = frames'[i].bb
    BY <1>4 DEF Open
  <2> QED
    BY <1>2, <1>4, <2>1, <2>2
<1>7. ASSUME NEW v \in Vars
      PROVE  Stacked(var_val_stack'[v], Len(var_val_stack'[v]), Open', n + 1, Pushes(v)', Depth(v)')
  <2> DEFINE s == var_val_stack[v]
             r == var_val_stack'[v]
             p == Pushes(v)
  <2>1. /\ Len(r) = Len(s) + PhiCount(c, v) /\ \A k \in 1..Len(s) : r[k] = s[k]
        /\ \A k \in 1..Len(r) : k \in 1..Len(s) \/ r[k] = PhiValue(c, v)
    BY <1>1, CallPushes
  <2>2. PhiCount(c, v) \in Nat /\ StoredBefore(c, v, 1) = 0 /\ Len(s) \in Nat
    <3>1. PhiCount(c, v) \in Nat
      BY StoresFinite
    <3>2. StoredBefore(c, v, 1) = 0
      BY StoredCounts
    <3>3. Len(s) \in Nat
      BY OpenOK
    <3> QED
      BY <3>1, <3>2, <3>3
  <2>3. PhiValue(c, v)[2] = c /\ n + 1 \in 1..(n+1)
    BY <1>2 DEF PhiValue
  <2>4. \A k \in 1..Len(r) : k \in 1..Len(s) \/ Owned(Open', r[k], n + 1)
    BY <1>6, <2>1, <2>3 DEF Owned
  <2>5. Depth(v)' = PhiCount(c, v)
    BY <1>1, <1>4, <1>5, <2>2, DepthNext
  <2>6. Pushes(v)' = p
    BY <1>1, SamePushesOf
  <2>7. p[Open[n]] \in Nat /\ Stacked(s, Len(s), Open, n, p, p[Open[n]])
    BY <1>1, <1>2, DepthOK DEF StackInv, Stacks
  <2>8. Len(r) \in Nat /\ Len(r) - Len(s) = PhiCount(c, v)
    BY <2>1, <2>2
  <2> HIDE DEF n, p, s, r
  <2>9. Stacked(r, Len(r), Open', n + 1, p, Len(r) - Len(s))
    BY <1>2, <1>6, <2>1, <2>2, <2>4, <2>7, <2>8, StackCall
  <2> QED
    BY <2>5, <2>6, <2>8, <2>9 DEF r
<1>8. Stacks'
  BY <1>4, <1>7 DEF Stacks
<1>9. LoadsOwned'
  BY <1>4 DEF LoadsOwned
<1> QED
  BY <1>8, <1>9 DEF StackInv

\* Within the block in hand, when nothing is pushed.
LEMMA StacksKept ==
  ASSUME TypeInv, OpenPath, StackInv, Renaming, UNCHANGED progVars, phis' = phis,
         var_val_stack' = var_val_stack, Len(frames') = Len(frames),
         \A i \in 1..Len(frames) : frames'[i].bb = frames[i].bb,
         Top'.bb = Top.bb, frames' # <<>>,
         \A v \in Vars : StoredBefore(Top.bb, v, pc') = StoredBefore(Top.bb, v, pc)
  PROVE  Stacks'
<1>1. Open' = Open
  BY SameOpen
<1>2. \A v \in Vars : Pushes(v)' = Pushes(v)
  BY SamePushesOf
<1>3. \A v \in Vars : Depth(v)' = Depth(v)
  BY DepthNext, DepthOK
<1> QED
  BY <1>1, <1>2, <1>3 DEF StackInv, Stacks

LEMMA AccessFrames ==
  ASSUME TypeInv, OpenPath, RenameLoad \/ RenameStore
  PROVE  /\ Len(frames') = Len(frames) /\ \A i \in 1..Len(frames) : frames'[i].bb = frames[i].bb
         /\ Open' = Open /\ frames' # <<>> /\ Top'.bb = Top.bb /\ Renaming /\ Renaming'
         /\ UNCHANGED progVars /\ phis' = phis /\ pc' = pc + 1 /\ InCode
         /\ pc \in 1..Len(code[Top.bb]) /\ Top.bb \in Blocks /\ Instr(Here) = code[Top.bb][pc]
<1>1. /\ InCode /\ Renaming /\ UNCHANGED progVars /\ phis' = phis /\ pc' = pc + 1
      /\ frames' = Delete(Here) \/ frames' = frames
  BY DEF RenameLoad, RenameStore, InCode, phiVars
<1>2. Here \in Accesses /\ pc \in 1..Len(code[Top.bb]) /\ Top.bb \in Blocks /\ Instr(Here) = code[Top.bb][pc]
  BY <1>1, HereOK, TopOK
<1>3. Len(frames') = Len(frames) /\ \A i \in 1..Len(frames) : frames'[i].bb = frames[i].bb
  BY <1>1, <1>2, DeleteOK
<1>4. Top'.bb = Top.bb /\ Renaming' /\ frames' # <<>>
  BY AccessPath DEF Renaming
<1> QED
  BY <1>1, <1>2, <1>3, <1>4, SameOpen

\* A load becomes a value from an open call, or stays and is one itself.
LEMMA LoadOwned ==
  ASSUME TypeInv, OpenPath, ReplInv, StackInv, RenameLoad
  PROVE  Owned(Open, repl'[LoadValue(Here)], Len(frames))
<1> DEFINE x == LoadValue(Here)
           s == var_val_stack[Instr(Here).var]
           n == Len(frames)
<1>1. x \in LoadValues \ Settled
  BY SettledAccess
<1>2. repl \in [LoadValues -> Values] /\ repl[x] = x
  BY <1>1 DEF TypeInv, TypeOK, ReplInv
<1>3. Renaming /\ n \in Nat \ {0} /\ n \in 1..n /\ Open[n] = Top.bb
  BY AccessFrames, OpenOK
<1>4. CASE Instr(Here).var \in found
  <2>1. Instr(Here).var \in Vars
    BY <1>4 DEF TypeInv, TypeOK
  <2>2. s \in Seq(Values) /\ Len(s) \in Nat
    BY <2>1, OpenOK
  <2>3. repl'[x] = IF s = <<>> THEN Garbage ELSE Last(s)
    BY <1>1, <1>2, <1>4 DEF RenameLoad
  <2>4. CASE s = <<>>
    BY <2>3, <2>4 DEF Owned
  <2>5. CASE s # <<>>
    <3>1. Len(s) \in 1..Len(s) /\ Last(s) = s[Len(s)]
      BY <2>2, <2>5 DEF Last
    <3>2. \A k \in 1..Len(s) : Owned(Open, s[k], n)
      BY <1>3, <2>1, StackValues DEF StackInv, Stacks
    <3> QED
      BY <2>3, <2>5, <3>1, <3>2
  <2> QED
    BY <2>4, <2>5
<1>5. CASE Instr(Here).var \notin found
  <2>1. repl'[x] = x
    BY <1>2, <1>5 DEF RenameLoad
  <2>2. x[2] = Top.bb
    BY DEF LoadValue, Here
  <2> QED
    BY <1>3, <2>1, <2>2 DEF Owned
<1> QED
  BY <1>4, <1>5

LEMMA StacksLoad ==
  ASSUME TypeInv, OpenPath, ReplInv, StackInv, RenameLoad
  PROVE  StackInv'
<1>1. /\ Len(frames') = Len(frames) /\ \A i \in 1..Len(frames) : frames'[i].bb = frames[i].bb
      /\ Open' = Open /\ frames' # <<>> /\ Top'.bb = Top.bb /\ Renaming
      /\ UNCHANGED progVars /\ phis' = phis /\ pc' = pc + 1 /\ InCode
      /\ pc \in 1..Len(code[Top.bb]) /\ Top.bb \in Blocks /\ Instr(Here) = code[Top.bb][pc]
  BY AccessFrames
<1>2. Instr(Here).op = "load" /\ var_val_stack' = var_val_stack
  BY DEF RenameLoad
<1>3. \A v \in Vars : StoredBefore(Top.bb, v, pc') = StoredBefore(Top.bb, v, pc)
  <2> SUFFICES ASSUME NEW v \in Vars
               PROVE  StoredBefore(Top.bb, v, pc + 1) = StoredBefore(Top.bb, v, pc)
    BY <1>1
  <2>1. code[Top.bb][pc].op # "store"
    BY <1>1, <1>2
  <2>2. \A k \in 1..Len(code[Top.bb]) :
          StoredBefore(Top.bb, v, k + 1) =
            IF code[Top.bb][k].op = "store" /\ code[Top.bb][k].var = v
            THEN StoredBefore(Top.bb, v, k) + 1 ELSE StoredBefore(Top.bb, v, k)
    BY <1>1, StoredCounts
  <2> QED
    BY <1>1, <2>1, <2>2
<1>4. Stacks'
  BY <1>1, <1>2, <1>3, StacksKept
<1>5. LoadsOwned'
  <2> SUFFICES ASSUME NEW k \in 1..(pc'-1), LoadValue(<<Top.bb, k>>) \in LoadValues
               PROVE  Owned(Open, repl'[LoadValue(<<Top.bb, k>>)], Len(frames))
    <3>1. LoadValues' = LoadValues /\ LoadValue(<<Top'.bb, 0>>)[2] = Top.bb
      BY <1>1, SameProgram DEF LoadValue
    <3> QED
      BY <1>1, <3>1 DEF LoadsOwned, LoadValue
  <2>1. CASE k = pc
    BY <2>1, LoadOwned DEF Here
  <2>2. CASE k # pc
    <3>1. pc \in Nat \ {0} /\ k \in 1..(pc-1)
      BY <1>1, <2>2 DEF TypeInv, TypeOK
    <3>2. Owned(Open, repl[LoadValue(<<Top.bb, k>>)], Len(frames))
      BY <1>1, <3>1 DEF StackInv, LoadsOwned
    <3>3. LoadValue(<<Top.bb, k>>) # LoadValue(Here)
      BY <2>2 DEF LoadValue, Here
    <3>4. repl'[LoadValue(<<Top.bb, k>>)] = repl[LoadValue(<<Top.bb, k>>)]
      BY <3>3 DEF RenameLoad, TypeInv, TypeOK
    <3> QED
      BY <3>2, <3>4
  <2> QED
    BY <2>1, <2>2
<1> QED
  BY <1>4, <1>5 DEF StackInv

\* A store pushes a value of the block in hand, or what has become of a load
\* further up in it.
LEMMA OperandOwned ==
  ASSUME TypeInv, OpenPath, StackInv, RenameStore
  PROVE  Owned(Open, get_rval(Here), Len(frames))
<1>1. InCode /\ Instr(Here).op = "store"
  BY DEF RenameStore
<1>2. Len(frames) \in 1..Len(frames) /\ Open[Len(frames)] = Top.bb
  BY <1>1, OpenOK DEF InCode
<1>3. CASE get_rval(Here) = DefValue(Here)
  <2>1. get_rval(Here)[2] = Top.bb
    BY <1>3 DEF DefValue, Here
  <2> QED
    BY <1>2, <2>1 DEF Owned
<1>4. CASE \E k \in 1..(pc-1) : /\ LoadValue(<<Top.bb, k>>) \in LoadValues
                                /\ get_rval(Here) = repl[LoadValue(<<Top.bb, k>>)]
  BY <1>1, <1>4 DEF StackInv, LoadsOwned
<1> QED
  BY <1>1, <1>3, <1>4, OperandOK

LEMMA StacksStore ==
  ASSUME TypeInv, OpenPath, StackInv, RenameStore
  PROVE  StackInv'
<1> DEFINE n == Len(frames)
           w == Instr(Here).var
<1>1. /\ Len(frames') = n /\ Open' = Open /\ frames' # <<>> /\ Top'.bb = Top.bb /\ Renaming
      /\ UNCHANGED progVars /\ phis' = phis /\ pc' = pc + 1 /\ InCode
      /\ pc \in 1..Len(code[Top.bb]) /\ Top.bb \in Blocks /\ Instr(Here) = code[Top.bb][pc]
  BY AccessFrames
<1>2. /\ Instr(Here).op = "store" /\ repl' = repl
      /\ var_val_stack' = [var_val_stack EXCEPT ![w] = Append(@, get_rval(Here))]
  BY DEF RenameStore
<1>3. w \in Vars /\ get_rval(Here) \in Values /\ n \in Nat \ {0} /\ pc \in Nat \ {0}
  <2>1. w \in Vars /\ get_rval(Here) \in Values
    BY <1>1, <1>2, HereOK, OperandOK DEF Access
  <2> QED
    BY <1>1, <2>1, OpenOK DEF TypeInv, TypeOK
<1>4. ASSUME NEW v \in Vars
      PROVE  Stacked(var_val_stack'[v], Len(var_val_stack'[v]), Open', n, Pushes(v)', Depth(v)')
  <2> DEFINE s == var_val_stack[v]
             r == var_val_stack'[v]
             p == Pushes(v)
             t == Depth(v)
  <2>1. s \in Seq(Values) /\ Len(s) \in Nat
    BY OpenOK
  <2>2. t = PhiCount(Top.bb, v) + StoredBefore(Top.bb, v, pc) /\ t \in Nat
    BY <1>1, DepthOK
  <2>3. Depth(v)' = PhiCount(Top.bb, v) + StoredBefore(Top.bb, v, pc + 1)
    BY <1>1, DepthNext
  <2>4. Pushes(v)' = p
    BY <1>1, SamePushesOf
  <2>5. Stacked(s, Len(s), Open, n, p, t)
    BY DEF StackInv, Stacks
  <2>6. /\ PhiCount(Top.bb, v) \in Nat /\ StoredBefore(Top.bb, v, pc) \in Nat
        /\ StoredBefore(Top.bb, v, pc + 1) =
             IF v = w THEN StoredBefore(Top.bb, v, pc) + 1 ELSE StoredBefore(Top.bb, v, pc)
    <3>1. PhiCount(Top.bb, v) \in Nat
      BY <1>1, StoresFinite
    <3>2. code[Top.bb][pc].op = "store" /\ code[Top.bb][pc].var = w
      BY <1>1, <1>2
    <3>3. /\ \A k \in Nat : StoredBefore(Top.bb, v, k) \in Nat
          /\ \A k \in 1..Len(code[Top.bb]) :
               StoredBefore(Top.bb, v, k + 1) =
                 IF code[Top.bb][k].op = "store" /\ code[Top.bb][k].var = v
                 THEN StoredBefore(Top.bb, v, k) + 1 ELSE StoredBefore(Top.bb, v, k)
      BY <1>1, StoredCounts
    <3> QED
      BY <1>1, <1>3, <3>1, <3>2, <3>3
  <2>7. CASE v = w
    <3>1. r = Append(s, get_rval(Here))
      BY <1>2, <2>7 DEF TypeInv, TypeOK
    <3>2. Len(r) = Len(s) + 1 /\ r[Len(s) + 1] = get_rval(Here) /\ \A k \in 1..Len(s) : r[k] = s[k]
      BY <1>3, <2>1, <3>1
    <3>3. Owned(Open, r[Len(s) + 1], n)
      BY <3>2, OperandOwned
    <3>4. Depth(v)' = t + 1
      BY <2>2, <2>3, <2>6, <2>7
    <3> HIDE DEF s, r, p, t, n
    <3>5. Stacked(r, Len(s) + 1, Open, n, p, t + 1)
      BY <1>3, <2>1, <2>2, <2>5, <3>2, <3>3, StackPush
    <3> QED
      BY <1>1, <2>4, <3>2, <3>4, <3>5 DEF r
  <2>8. CASE v # w
    <3>1. r = s
      BY <1>2, <2>8 DEF TypeInv, TypeOK
    <3>2. Depth(v)' = t
      BY <2>2, <2>3, <2>6, <2>8
    <3> QED
      BY <1>1, <2>4, <2>5, <3>1, <3>2
  <2> QED
    BY <2>7, <2>8
<1>5. Stacks'
  BY <1>1, <1>4 DEF Stacks
<1>6. LoadsOwned'
  <2> SUFFICES ASSUME NEW k \in 1..(pc'-1), LoadValue(<<Top.bb, k>>) \in LoadValues
               PROVE  Owned(Open, repl[LoadValue(<<Top.bb, k>>)], n)
    <3>1. LoadValues' = LoadValues
      BY <1>1, SameProgram
    <3> QED
      BY <1>1, <1>2, <3>1 DEF LoadsOwned, LoadValue
  <2>1. k # pc
    <3>1. LoadValue(<<Top.bb, k>>)[2] = Top.bb /\ LoadValue(<<Top.bb, k>>)[3] = k
      BY DEF LoadValue
    <3>2. Instr(<<Top.bb, k>>).op = "load"
      BY <3>1, LoadIndex
    <3> QED
      BY <1>2, <3>2 DEF Here
  <2>2. k \in 1..(pc-1)
    BY <1>1, <1>3, <2>1
  <2> QED
    BY <1>1, <2>2 DEF StackInv, LoadsOwned
<1> QED
  BY <1>5, <1>6 DEF StackInv

LEMMA StacksFill ==
  ASSUME TypeInv, OpenPath, StackInv, NEW b \in Blocks, FillPhis(b)
  PROVE  StackInv'
<1>1. /\ UNCHANGED <<progVars, phis, frames, pc, var_val_stack>>
      /\ Renaming /\ ~InCode /\ frames # <<>>
  BY DEF FillPhis, phiVars, Renaming
<1>2. Top' = Top
  BY <1>1 DEF Top
<1>3. Stacks'
  BY <1>1, <1>2, StacksKept
<1>4. ~InCode'
  BY <1>1, <1>2 DEF InCode, FillPhis, Renaming, progVars
<1> QED
  BY <1>3, <1>4 DEF StackInv, LoadsOwned

\* A return pops what its call has pushed, phi and stores.
LEMMA StacksReturn ==
  ASSUME TypeInv, OpenPath, StackInv, Return
  PROVE  StackInv'
<1>1. /\ UNCHANGED progVars /\ phis' = phis /\ Recursing /\ Renaming /\ phase' = phase
  BY DEF Return, Recursing, phiVars
<1>2. PICK n \in Nat : n + 1 = Len(frames)
  <2>1. Len(frames) \in Nat \ {0}
    BY <1>1, TopOK
  <2>2. Len(frames) - 1 \in Nat /\ (Len(frames) - 1) + 1 = Len(frames)
    BY <2>1
  <2> QED
    BY <2>2
<1>3. /\ Open[n+1] = Top.bb /\ Top.bb \in Blocks
      /\ \A i \in 1..(n+1) : Open[i] = frames[i].bb /\ Open[i] \in Blocks
  BY <1>1, <1>2, OpenOK, TopOK
<1>4. frames' \in Seq(Calls) /\ Len(frames') = n /\ \A i \in 1..n : frames'[i] = frames[i]
  BY <1>2, ReturnOK
<1>5. \A i \in 1..n : i \in 1..(n+1) /\ Open'[i] = Open[i]
  <2>1. \A i \in 1..n : Open'[i] = frames'[i].bb
    BY <1>4 DEF Open
  <2>2. \A i \in 1..n : i \in 1..(n+1)
    BY <1>2
  <2> QED
    BY <1>3, <1>4, <2>1, <2>2
<1>6. ASSUME NEW v \in Vars
      PROVE  Stacked(var_val_stack'[v], Len(var_val_stack'[v]), Open', n, Pushes(v)', Depth(v)')
  <2> DEFINE s == var_val_stack[v]
             r == var_val_stack'[v]
             p == Pushes(v)
             t == Depth(v)
  <2>1. s \in Seq(Values) /\ Len(s) \in Nat /\ r \in Seq(Values) /\ Len(r) \in Nat
    BY OpenOK, ReturnOK
  <2>2. t \in Nat /\ t = p[Top.bb] /\ p[Top.bb] = Cardinality(StoresIn(Top.bb, v)) + PhiCount(Top.bb, v)
    BY <1>1, <1>3, DepthOK DEF Pushed
  <2>3. Stacked(s, Len(s), Open, Len(frames), p, t)
    BY DEF StackInv, Stacks
  <2>4. t <= Len(s)
    <3>1. p[Open[1]] \in Nat /\ Len(frames) \in Nat \ {0}
      BY <1>1, <1>2, <1>3, DepthOK
    <3> HIDE DEF s, p, t
    <3> QED
      BY <2>1, <2>2, <2>3, <3>1, StackBottom
  <2>5. Len(r) = Len(s) - t /\ \A k \in 1..Len(r) : r[k] = s[k]
    BY <2>2, <2>4, ReturnOK
  <2>6. PICK l \in Nat : l = Len(r) /\ Len(s) = l + t
    BY <2>1, <2>2, <2>5
  <2>7. Pushes(v)' = p
    BY <1>1, SamePushesOf
  <2>8. Stacked(r, l, Open', n, p, p[Open'[n]])
    <3> DEFINE d == Open'
               q == Len(frames)
               m == Len(s)
    <3>1. Cut(d, n, Open, q, 1)
      BY <1>2, <1>5 DEF Cut
    <3>2. Cut(r, l, s, m, t) /\ t \in Nat
      BY <2>2, <2>5, <2>6 DEF Cut
    <3>3. Stacked(s, m, Open, q, p, t)
      BY <2>3
    <3> HIDE DEF s, r, p, t, d, q, m
    <3>4. Stacked(r, l, d, n, p, p[d[n]])
      BY <3>1, <3>2, <3>3, StackReturn
    <3> QED
      BY <3>4 DEF d
  <2>9. CASE n = 0
    <3>1. Stacked(r, l, Open', n, p, Depth(v)')
      BY <2>8, <2>9 DEF Stacked
    <3> QED
      BY <2>6, <2>7, <3>1
  <2>10. CASE n # 0
    <3>1. n \in 1..n /\ frames' # <<>> /\ Top' = frames'[n] /\ Top'.bb = Open'[n] /\ Open'[n] \in Blocks
      BY <1>3, <1>4, <1>5, <2>10 DEF Top, Last
    <3>2. pc' = Len(code[Top'.bb]) + 1
      <4>1. Len(frames) > 1 /\ Len(frames) - 1 = n
        BY <1>2, <2>10
      <4> QED
        BY <1>4, <3>1, <4>1, ReturnOK
    <3>3. Len(code[Open'[n]]) \in Nat
      BY <3>1 DEF TypeInv, TypeOK
    <3>4. Depth(v)' = PhiCount(Open'[n], v) + StoredBefore(Open'[n], v, pc')
      BY <1>1, <3>1, DepthNext
    <3>5. PhiCount(Open'[n], v) + StoredBefore(Open'[n], v, pc') = Pushed(Open'[n], v)
      <4>1. pc' \in Nat /\ pc' > Len(code[Open'[n]])
        BY <3>1, <3>2, <3>3
      <4> QED
        BY <3>1, <4>1, StoredCounts
    <3>6. p[Open'[n]] = Pushed(Open'[n], v)
      BY <3>1 DEF Pushes
    <3> QED
      BY <2>6, <2>7, <2>8, <3>4, <3>5, <3>6
  <2> QED
    BY <2>9, <2>10
<1>7. Stacks'
  BY <1>4, <1>6 DEF Stacks
<1>8. ~InCode'
  <2> SUFFICES ASSUME Renaming' PROVE ~(pc' <= Len(code'[Top'.bb]))
    BY DEF InCode
  <2>1. n # 0 /\ n \in 1..n
    BY <1>2, <1>4 DEF Renaming
  <2>2. Top' = frames[n] /\ Top'.bb = Open[n]
    BY <1>3, <1>4, <1>5, <2>1 DEF Top, Last
  <2>3. pc' = Len(code[Open[n]]) + 1
    <3>1. Len(frames) > 1 /\ Len(frames) - 1 = n
      BY <1>2, <2>1
    <3> QED
      BY <2>2, <3>1, ReturnOK
  <2>4. Len(code[Open[n]]) \in Nat
    BY <1>3, <1>5, <2>1 DEF TypeInv, TypeOK
  <2>5. code' = code
    BY <1>1 DEF progVars
  <2> QED
    BY <2>2, <2>3, <2>4, <2>5
<1> QED
  BY <1>7, <1>8 DEF StackInv, LoadsOwned

LEMMA StacksNext == TypeInv /\ OpenPath /\ ReplInv /\ StackInv /\ [Next]_vars => StackInv'
<1> SUFFICES ASSUME TypeInv, OpenPath, ReplInv, StackInv, [Next]_vars PROVE StackInv'
  OBVIOUS
<1>1. CASE (\E v \in Vars : PickVar(v)) \/ (\E b \in Blocks : PlacePhis(b)) \/ remove_alloca
  <2>1. frames = <<>> /\ frames' = frames /\ var_val_stack' = var_val_stack
    BY <1>1 DEF PickVar, PlacePhis, remove_alloca, nameVars, OpenPath
  <2> QED
    BY <2>1, StacksOutside
<1>2. CASE \E b \in Blocks : FillPhis(b) \/ Recurse(b)
  BY <1>2, StacksFill, StacksCall
<1>3. CASE StartRename
  BY <1>3, StacksStart
<1>4. CASE RenameLoad
  BY <1>4, StacksLoad
<1>5. CASE RenameStore
  BY <1>5, StacksStore
<1>6. CASE Return
  BY <1>6, StacksReturn
<1>7. CASE UNCHANGED vars
  <2>1. UNCHANGED progVars /\ UNCHANGED <<phase, phis, frames, pc, var_val_stack, repl>>
    BY <1>7 DEF vars, phiVars, nameVars
  <2>2. Top' = Top /\ LoadValues' = LoadValues /\ Open' = Open
    BY <2>1, SameProgram DEF Top, Open
  <2>3. InCode' <=> InCode
    BY <2>1, <2>2 DEF InCode, Renaming, progVars
  <2>4. LoadsOwned'
    BY <2>1, <2>2, <2>3 DEF StackInv, LoadsOwned, LoadValue
  <2>5. \A v : Pushes(v)' = Pushes(v)
    BY <2>1, SamePushesOf
  <2>6. \A v : Depth(v)' = Depth(v)
    BY <2>1, <2>2, DepthNext DEF Depth
  <2>7. Stacks'
    BY <2>1, <2>2, <2>5, <2>6 DEF StackInv, Stacks
  <2> QED
    BY <2>4, <2>7 DEF StackInv
<1> QED
  BY <1>1, <1>2, <1>3, <1>4, <1>5, <1>6, <1>7 DEF Next

LEMMA StacksInductive == Spec => []StackInv
BY TypesInductive, PathInductive, ReplInductive, StacksInit, StacksNext, PTL DEF Spec

\* Every value on a stack was computed in a block whose call is open, so in one
\* that dominates the block in hand, and every push has its pop: what a return
\* takes off is what its own call has put there, however the stores, the phis
\* and the copies of a block mix.
THEOREM StacksCorrect == Spec => []StackedValuesDominate
<1>1. TypeInv /\ OpenPath /\ StackInv => StackedValuesDominate
  <2> SUFFICES ASSUME TypeInv, OpenPath, StackInv PROVE StackedValuesDominate
    OBVIOUS
  <2>1. CASE frames = <<>>
    BY <2>1, StacksIdle DEF StackedValuesDominate
  <2>2. CASE frames # <<>>
    <3>1. Len(frames) \in Nat \ {0} /\ \A i \in 1..Len(frames) : Open[i] = frames[i].bb
      BY <2>2, OpenOK
    <3>2. ASSUME NEW v \in Vars, NEW i \in 1..Len(var_val_stack[v])
          PROVE  Owned(Open, var_val_stack[v][i], Len(frames))
      BY <3>1, StackValues DEF StackInv, Stacks
    <3>3. phase = "rename"
      BY <2>2 DEF OpenPath
    <3> QED
      BY <3>1, <3>2, <3>3 DEF StackedValuesDominate, Owned
  <2> QED
    BY <2>1, <2>2
<1> QED
  BY <1>1, TypesInductive, PathInductive, StacksInductive, PTL

-----------------------------------------------------------------------------
(***************************************************************************)
(* Programs whose entry block sets their variables first.                  *)
(***************************************************************************)
Program == [succ |-> succ, code |-> code]

Found == \A v \in Vars : var_val_stack[v] # <<>> => v \in found

LEMMA FoundInit == Init => Found
BY DEF Init, Found

LEMMA FoundNext == TypeInv /\ Found /\ [Next]_vars => Found'
<1> SUFFICES ASSUME TypeInv, Found, [Next]_vars, NEW v \in Vars, var_val_stack'[v] # <<>>
             PROVE  v \in found'
  BY DEF Found
<1>1. CASE (\E w \in Vars : PickVar(w)) \/ (\E b \in Blocks : PlacePhis(b) \/ FillPhis(b))
           \/ RenameLoad \/ remove_alloca \/ UNCHANGED vars
  <2>1. var_val_stack' = var_val_stack /\ found' = found
    BY <1>1 DEF PickVar, PlacePhis, FillPhis, RenameLoad, remove_alloca, vars, nameVars
  <2> QED
    BY <2>1 DEF Found
<1>2. CASE StartRename \/ \E b \in Blocks : Recurse(b)
  <2>1. PICK b : /\ var_val_stack' = [w \in Vars |-> IF w \in phis[b]
                                        THEN Append(var_val_stack[w], PhiValue(b, w))
                                        ELSE var_val_stack[w]]
                 /\ found' = found \cup phis[b]
    BY <1>2 DEF StartRename, Recurse, Call
  <2>2. v \in phis[b] \/ var_val_stack'[v] = var_val_stack[v]
    BY <2>1
  <2> QED
    BY <2>1, <2>2 DEF Found
<1>3. CASE RenameStore
  <2>1. /\ var_val_stack' = [var_val_stack EXCEPT ![Instr(Here).var] = Append(@, get_rval(Here))]
        /\ found' = found \cup {Instr(Here).var}
    BY <1>3 DEF RenameStore
  <2>2. v = Instr(Here).var \/ var_val_stack'[v] = var_val_stack[v]
    BY <2>1 DEF TypeInv, TypeOK
  <2> QED
    BY <2>1, <2>2 DEF Found
<1>4. CASE Return
  <2>1. var_val_stack[v] # <<>>
    <3>1. /\ var_val_stack'[v] \in Seq(Values) /\ var_val_stack[v] \in Seq(Values)
          /\ \A i \in 1..Len(var_val_stack'[v]) : i \in 1..Len(var_val_stack[v])
      BY <1>4, ReturnOK, OpenOK
    <3>2. 1 \in 1..Len(var_val_stack'[v])
      BY <3>1
    <3>3. 1 \in 1..Len(var_val_stack[v])
      BY <3>1, <3>2
    <3> QED
      BY <3>1, <3>3
  <2>2. found' = found
    BY <1>4 DEF Return
  <2> QED
    BY <2>1, <2>2 DEF Found
<1> QED
  BY <1>1, <1>2, <1>3, <1>4 DEF Next

LEMMA FoundInductive == Spec => []Found
BY TypesInductive, FoundInit, FoundNext, PTL DEF Spec

\* Once the entry block has stored to a variable it has a value, in every call
\* that is made from there on.
LEMMA SetOnce ==
  ASSUME TypeInv, OpenPath, StackInv, Found, Renaming,
         NEW v \in Vars, NEW j \in StoresIn(Entry, v), Top.bb = Entry => j < pc
  PROVE  var_val_stack[v] # <<>> /\ v \in found
<1> DEFINE n == Len(frames)
           s == var_val_stack[v]
           p == Pushes(v)
           t == Depth(v)
<1>1. /\ n \in Nat \ {0} /\ Open[n] = Top.bb /\ Open[1] = Entry /\ Entry \in Blocks
      /\ s \in Seq(Values) /\ Len(s) \in Nat
  <2>1. n \in Nat \ {0} /\ Open[n] = Top.bb /\ s \in Seq(Values) /\ Len(s) \in Nat
    BY OpenOK
  <2>2. 1 \in 1..n /\ n > 0
    BY <2>1
  <2>3. Open[1] = frames[1].bb
    BY <2>2, OpenOK
  <2> QED
    BY <2>1, <2>2, <2>3, EntryAssumption DEF OpenPath
<1>2. t \in Nat /\ p[Open[1]] \in Nat /\ Stacked(s, Len(s), Open, n, p, t)
  BY <1>1, DepthOK DEF StackInv, Stacks
<1>3. t <= Len(s) /\ (n # 1 => p[Open[1]] <= Len(s))
  <2> HIDE DEF n, s, p, t
  <2> QED
    BY <1>1, <1>2, StackBottom
<1>4. CASE n # 1
  <2>1. p[Open[1]] = Cardinality(StoresIn(Entry, v)) + PhiCount(Entry, v)
    BY <1>1, DepthOK DEF Pushed
  <2>2. /\ Cardinality(StoresIn(Entry, v)) \in Nat /\ Cardinality(StoresIn(Entry, v)) # 0
        /\ PhiCount(Entry, v) \in Nat
    <3>1. /\ IsFiniteSet(StoresIn(Entry, v)) /\ Cardinality(StoresIn(Entry, v)) \in Nat
          /\ PhiCount(Entry, v) \in Nat
      BY <1>1, StoresFinite
    <3> QED
      BY <3>1, FS_EmptySet
  <2>3. Len(s) # 0
    BY <1>1, <1>3, <1>4, <2>1, <2>2
  <2> QED
    BY <1>1, <2>3 DEF Found
<1>5. CASE n = 1
  <2>1. Top.bb = Entry /\ j < pc
    BY <1>1, <1>5
  <2>2. t = PhiCount(Entry, v) + StoredBefore(Entry, v, pc)
    BY <2>1, DepthOK
  <2>3. /\ PhiCount(Entry, v) \in Nat /\ StoredBefore(Entry, v, pc) \in Nat
        /\ StoredBefore(Entry, v, pc) # 0
    <3>1. j \in StoresBefore(Entry, v, pc) /\ StoresBefore(Entry, v, pc) \subseteq StoresIn(Entry, v)
      BY <2>1 DEF StoresBefore
    <3>2. IsFiniteSet(StoresIn(Entry, v)) /\ PhiCount(Entry, v) \in Nat
      BY <1>1, StoresFinite
    <3>3. IsFiniteSet(StoresBefore(Entry, v, pc))
      BY <3>1, <3>2, FS_Subset
    <3> QED
      BY <3>1, <3>2, <3>3, FS_EmptySet, FS_CardinalityType DEF StoredBefore
  <2>4. Len(s) # 0
    BY <1>1, <1>2, <1>3, <2>2, <2>3
  <2> QED
    BY <1>1, <2>4 DEF Found
<1> QED
  BY <1>4, <1>5

\* Only variables that are stored to get phis.
LEMMA PhiStored ==
  ASSUME PhiInv, NEW b \in Blocks, NEW v \in Vars, v \in phis[b]
  PROVE  \E d \in Blocks : StoresIn(d, v) # {}
<1> SUFFICES ASSUME \A d \in Blocks : StoresIn(d, v) = {} PROVE FALSE
  OBVIOUS
<1>1. b \in IteratedFrontier(v)
  BY DEF PhiInv, PhisNeeded, PhiBlocks
<1>2. \A S \in SUBSET Blocks :
        (\A d \in Blocks : StoresIn(d, v) # {} \/ d \in S => dom_frontier[d] \subseteq S) => b \in S
  BY <1>1 DEF IteratedFrontier
<1>3. b \in {}
  BY <1>2
<1> QED
  BY <1>3

\* When a block's accesses are done, what has a phi has a value.
LEMMA PhiHasValue ==
  ASSUME TypeInv, PhiInv, OpenPath, StackInv, Found, SetsFirst(Program), Renaming, ~InCode,
         NEW b \in Blocks, NEW v \in phis[b]
  PROVE  v \in Vars /\ var_val_stack[v] # <<>> /\ v \in found
<1>1. v \in Vars
  BY DEF TypeInv, TypeOK
<1>2. PICK d \in Blocks : StoresIn(d, v) # {}
  BY <1>1, PhiStored
<1>3. PICK k \in 1..Len(code[d]) : code[d][k].var = v
  BY <1>2 DEF StoresIn
<1>4. PICK j \in 1..Len(code[Entry]) : code[Entry][j].op = "store" /\ code[Entry][j].var = code[d][k].var
  BY DEF SetsFirst, Program
<1>5. j \in StoresIn(Entry, v)
  BY <1>3, <1>4 DEF StoresIn
<1>6. Top.bb = Entry => j < pc
  <2>1. pc \in Nat /\ Len(code[Entry]) \in Nat
    BY EntryAssumption DEF TypeInv, TypeOK
  <2> QED
    BY <1>4, <2>1 DEF InCode
<1> QED
  BY <1>1, <1>5, <1>6, SetOnce

\* The program in hand sets its variables first.
SetProgram == SetsFirst(Program)

LEMMA SetInit ==
  ASSUME \A p \in Programs : SetsFirst(p)
  PROVE  Init => SetProgram
<1> SUFFICES ASSUME Init PROVE SetProgram
  OBVIOUS
<1>1. PICK p \in Programs : succ = p.succ /\ code = p.code
  BY DEF Init
<1>2. SetsFirst(p)
  OBVIOUS
<1> QED
  BY <1>1, <1>2 DEF SetProgram, SetsFirst, Program

LEMMA SetNext == SetProgram /\ [Next]_vars => SetProgram'
BY NextSameProgram DEF SetProgram, SetsFirst, Program, progVars

\* A load that is about to be replaced finds a value on the stack.
LEMMA LoadHasValue ==
  ASSUME TypeInv, OpenPath, StackInv, Found, SetsFirst(Program), InCode, Instr(Here).op = "load"
  PROVE  var_val_stack[Instr(Here).var] # <<>>
<1> DEFINE v == Instr(Here).var
<1>1. Renaming /\ Top.bb \in Blocks /\ pc \in 1..Len(code[Top.bb]) /\ Instr(Here) = code[Top.bb][pc]
  <2>1. Renaming /\ Top.bb \in Blocks /\ pc \in Nat \ {0} /\ pc <= Len(code[Top.bb])
    BY OpenOK DEF InCode, TypeInv, TypeOK
  <2>2. Len(code[Top.bb]) \in Nat
    BY <2>1 DEF TypeInv, TypeOK
  <2> QED
    BY <2>1, <2>2 DEF Here, Instr
<1>2. v \in Vars
  <2>1. code[Top.bb] \in Seq(Access)
    BY <1>1 DEF TypeInv, TypeOK
  <2>2. code[Top.bb][pc] \in Access
    BY <1>1, <2>1
  <2> QED
    BY <1>1, <2>2 DEF Access
<1>3. PICK j \in 1..Len(code[Entry]) :
        /\ code[Entry][j].op = "store" /\ code[Entry][j].var = v
        /\ Top.bb = Entry => j < pc
  BY <1>1 DEF SetsFirst, Program
<1>4. j \in StoresIn(Entry, v)
  BY <1>3 DEF StoresIn
<1> QED
  BY <1>1, <1>2, <1>3, <1>4, SetOnce

\* re_name never takes back() of an empty vector on a function whose entry block
\* sets its variables first, whatever the shape of the rest: a variable with a
\* phi in a successor that is about to be filled has a value on its stack, so
\* the assert holds, and so has a variable that is about to be read by a load.
THEOREM BackCorrect ==
  ASSUME \A p \in Programs : SetsFirst(p)
  PROVE  Spec => []BackExists
<1>1. TypeInv /\ PhiInv /\ OpenPath /\ StackInv /\ Found /\ SetProgram => AssertHolds
  BY PhiHasValue DEF AssertHolds, SetProgram, TypeInv, TypeOK
<1>2. TypeInv /\ OpenPath /\ StackInv /\ Found /\ SetProgram =>
        (InCode /\ Instr(Here).op = "load" => var_val_stack[Instr(Here).var] # <<>>)
  BY LoadHasValue DEF SetProgram
<1>3. TypeInv /\ PhiInv /\ OpenPath /\ StackInv /\ Found /\ SetProgram => BackExists
  BY <1>1, <1>2 DEF BackExists
<1>4. Spec => []SetProgram
  BY SetInit, SetNext, PTL DEF Spec
<1> QED
  BY <1>3, <1>4, TypesInductive, PhiInductive, PathInductive, StacksInductive, FoundInductive, PTL

-----------------------------------------------------------------------------
(***************************************************************************)
(* The pairs of the phis.  The edge from p to b has been dealt with when   *)
(* p has been visited and is not about to fill b.                          *)
(***************************************************************************)
Passed(p, b) == p \in Reachable(succ) \ Pending /\ (Renaming /\ p = Top.bb => b \notin fill)

PairsFrom(b, v, p) == {x \in phi_pairs[<<b, v>>] : x[2] = p}

PairsInv ==
  \A b \in Blocks : \A v \in Vars : \A p \in Preds(succ, b) :
    IF v \in phis[b] /\ Passed(p, b) THEN \E u : PairsFrom(b, v, p) = {u}
    ELSE PairsFrom(b, v, p) = {}

LEMMA PairsInit == Init => PairsInv
<1> SUFFICES ASSUME Init PROVE PairsInv
  OBVIOUS
<1>1. \A b \in Blocks : phis[b] = {}
  BY DEF Init
<1>2. \A bv \in Blocks \X Vars : phi_pairs[bv] = {}
  BY DEF Init
<1>3. \A b \in Blocks : \A v \in Vars : \A p : PairsFrom(b, v, p) = {}
  BY <1>2 DEF PairsFrom
<1> QED
  BY <1>1, <1>3 DEF PairsInv

\* Placing phis, when no block has been visited.
LEMMA PairsPhi ==
  ASSUME TypeInv, PairsInv, UNCHANGED <<progVars, phase, phi_pairs>>, phase = "phi"
  PROVE  PairsInv'
<1>1. Pending = Reachable(succ) /\ Pending' = Reachable(succ) /\ succ' = succ
  BY DEF Pending, progVars
<1>2. \A b \in Blocks : \A p : ~Passed(p, b) /\ ~Passed(p, b)'
  BY <1>1 DEF Passed
<1>3. \A b, v, p : PairsFrom(b, v, p)' = PairsFrom(b, v, p)
  BY DEF PairsFrom
<1> QED
  BY <1>1, <1>2, <1>3 DEF PairsInv, Preds

\* Steps that deal with no edge.
LEMMA PairsRest ==
  ASSUME PairsInv, UNCHANGED <<progVars, phis, phi_pairs>>,
         \A b \in Blocks : \A p \in Preds(succ, b) : Passed(p, b)' <=> Passed(p, b)
  PROVE  PairsInv'
<1>1. \A b, v, p : PairsFrom(b, v, p)' = PairsFrom(b, v, p)
  BY DEF PairsFrom
<1>2. \A b : Preds(succ, b)' = Preds(succ, b)
  BY DEF Preds, progVars
<1> QED
  BY <1>1, <1>2 DEF PairsInv

LEMMA PassedAccess ==
  ASSUME TypeInv, OpenPath, RenameLoad \/ RenameStore
  PROVE  UNCHANGED phi_pairs /\ \A b, p : Passed(p, b)' <=> Passed(p, b)
<1>1. UNCHANGED <<progVars, phi_pairs, fill>> /\ succ' = succ
  BY DEF RenameLoad, RenameStore, progVars
<1>2. Pending' = Pending /\ Top'.bb = Top.bb /\ Renaming /\ Renaming'
  BY AccessPath
<1> QED
  BY <1>1, <1>2 DEF Passed

LEMMA PairsAccess ==
  ASSUME TypeInv, OpenPath, PairsInv, RenameLoad \/ RenameStore
  PROVE  PairsInv'
<1>1. UNCHANGED <<progVars, phis>>
  BY DEF RenameLoad, RenameStore, phiVars
<1> QED
  BY <1>1, PassedAccess, PairsRest

LEMMA CallTop ==
  ASSUME TypeInv, NEW c \in Blocks, (StartRename /\ c = Entry) \/ Recurse(c)
  PROVE  /\ Renaming' /\ Top'.bb = c /\ Top'.left = Children(succ, c) /\ pc' = 1
         /\ fill' = succ[c] /\ UNCHANGED <<progVars, phis, repl, phi_pairs>>
<1>1. UNCHANGED <<progVars, phis, repl, phi_pairs>> /\ pc' = 1 /\ fill' = succ[c]
  BY DEF StartRename, Recurse, Call, phiVars
<1>2. dom_tree_succ[c] = Children(succ, c)
  BY TreeChildren
<1>3. CASE StartRename /\ c = Entry
  <2>1. /\ Len(frames') = 1 /\ frames'[1].bb = c /\ frames'[1].left = dom_tree_succ[c]
        /\ phase' = "rename"
    BY <1>3, StartOK DEF StartRename
  <2> QED
    BY <1>1, <1>2, <2>1 DEF Renaming, Top, Last
<1>4. CASE Recurse(c)
  <2>1. Renaming /\ Call(c, Taken(c)) /\ phase' = phase
    BY <1>4 DEF Recurse, Recursing, Taken
  <2>2. Taken(c) \in Seq(Calls)
    BY <2>1, TakenOK
  <2>3. /\ frames' \in Seq(Calls) /\ Len(frames') = Len(Taken(c)) + 1
        /\ frames'[Len(frames')].bb = c /\ frames'[Len(frames')].left = dom_tree_succ[c]
    BY <2>1, <2>2, CallOK
  <2>4. frames' # <<>>
    BY <2>2, <2>3
  <2> QED
    BY <1>1, <1>2, <2>1, <2>3, <2>4 DEF Renaming, Top, Last
<1> QED
  BY <1>3, <1>4

\* A call: its own edges are still to be dealt with, its caller's have been.
LEMMA PassedCall ==
  ASSUME TypeInv, OpenPath, NEW c \in Blocks, (StartRename /\ c = Entry) \/ Recurse(c),
         NEW b \in Blocks, NEW p \in Preds(succ, b)
  PROVE  Passed(p, b)' <=> Passed(p, b)
<1>1. succ' = succ /\ fill' = succ[c] /\ Renaming' /\ Top'.bb = c
  BY CallTop DEF progVars
<1>2. Pending' = Pending \ {c} /\ c \in Pending
  BY StartPath, RecursePath
<1>3. CASE p = c
  <2>1. b \in fill'
    BY <1>1, <1>3 DEF Preds
  <2> QED
    BY <1>1, <1>2, <1>3, <2>1 DEF Passed
<1>4. CASE p # c
  <2>1. Renaming => fill = {}
    <3>1. CASE StartRename
      BY <3>1 DEF StartRename, Renaming
    <3>2. CASE Recurse(c)
      BY <3>2 DEF Recurse, Recursing
    <3> QED
      BY <3>1, <3>2
  <2> QED
    BY <1>1, <1>2, <1>4, <2>1 DEF Passed
<1> QED
  BY <1>3, <1>4

LEMMA PairsCall ==
  ASSUME TypeInv, OpenPath, PairsInv, NEW c \in Blocks, (StartRename /\ c = Entry) \/ Recurse(c)
  PROVE  PairsInv'
BY CallTop, PassedCall, PairsRest

LEMMA PassedReturn ==
  ASSUME TypeInv, OpenPath, Return \/ remove_alloca
  PROVE  UNCHANGED <<progVars, phis, phi_pairs>> /\ \A b, p : Passed(p, b)' <=> Passed(p, b)
<1>1. UNCHANGED <<progVars, phis, phi_pairs, fill>> /\ succ' = succ
  BY DEF Return, remove_alloca, phiVars, nameVars, progVars
<1>2. Pending' = Pending
  BY ReturnPath, RemovePath
<1>3. CASE Return
  <2>1. fill = {} /\ fill' = {}
    BY <1>1, <1>3 DEF Return, Recursing
  <2> QED
    BY <1>1, <1>2, <2>1 DEF Passed
<1>4. CASE remove_alloca
  <2>1. ~Renaming /\ ~Renaming'
    BY <1>4 DEF remove_alloca, Renaming
  <2> QED
    BY <1>1, <1>2, <2>1 DEF Passed
<1> QED
  BY <1>3, <1>4

LEMMA PairsReturn ==
  ASSUME TypeInv, OpenPath, PairsInv, Return \/ remove_alloca
  PROVE  PairsInv'
BY PassedReturn, PairsRest

\* One edge is dealt with: each phi at its end gets one pair from its start.
LEMMA PairsFill ==
  ASSUME TypeInv, PhiInv, OpenPath, StackInv, Found, SetProgram, PairsInv,
         NEW s \in Blocks, FillPhis(s)
  PROVE  PairsInv'
<1>1. /\ UNCHANGED <<progVars, phis, phase, frames>> /\ succ' = succ /\ fill' = fill \ {s} /\ s \in fill
      /\ Renaming /\ ~InCode
  BY DEF FillPhis, phiVars, progVars
<1>2. Top' = Top /\ Renaming' /\ Pending' = Pending
  BY <1>1, OtherPath DEF Top, Renaming
<1>3. Top.bb \in Reachable(succ) \ Pending
  <2>1. phase # "phi" /\ Len(frames) \in 1..Len(frames) /\ Top = frames[Len(frames)]
    BY <1>1, TopOK DEF Renaming
  <2> QED
    BY <2>1, OpenNotPending
<1> SUFFICES ASSUME NEW b \in Blocks, NEW v \in Vars, NEW p \in Preds(succ, b)
             PROVE  IF v \in phis[b] /\ Passed(p, b)' THEN \E u : PairsFrom(b, v, p)' = {u}
                    ELSE PairsFrom(b, v, p)' = {}
  BY <1>1 DEF PairsInv, Preds
<1>4. IF v \in phis[b] /\ Passed(p, b) THEN \E u : PairsFrom(b, v, p) = {u}
      ELSE PairsFrom(b, v, p) = {}
  BY DEF PairsInv
<1>5. phi_pairs'[<<b, v>>] = IF b = s /\ v \in phis[s] \cap found
                             THEN phi_pairs[<<b, v>>] \cup {<<Last(var_val_stack[v]), Top.bb>>}
                             ELSE phi_pairs[<<b, v>>]
  BY DEF FillPhis
<1>6. CASE b = s /\ v \in phis[s] /\ p = Top.bb
  <2>1. v \in found
    BY <1>1, <1>6, PhiHasValue DEF SetProgram
  <2>2. ~Passed(p, b) /\ Passed(p, b)'
    BY <1>1, <1>2, <1>3, <1>6 DEF Passed
  <2>3. PairsFrom(b, v, p) = {}
    BY <1>4, <2>2
  <2>4. PairsFrom(b, v, p)' = {<<Last(var_val_stack[v]), Top.bb>>}
    BY <1>5, <1>6, <2>1, <2>3 DEF PairsFrom
  <2> QED
    BY <1>6, <2>2, <2>4
<1>7. CASE ~(b = s /\ v \in phis[s] /\ p = Top.bb)
  <2>1. PairsFrom(b, v, p)' = PairsFrom(b, v, p)
    <3>1. CASE b = s /\ v \in phis[s]
      BY <1>5, <1>7, <3>1 DEF PairsFrom
    <3>2. CASE ~(b = s /\ v \in phis[s])
      BY <1>5, <3>2 DEF PairsFrom
    <3> QED
      BY <3>1, <3>2
  <2>2. v \in phis[b] => (Passed(p, b)' <=> Passed(p, b))
    BY <1>1, <1>2, <1>7 DEF Passed
  <2> QED
    BY <1>4, <2>1, <2>2
<1> QED
  BY <1>6, <1>7

LEMMA PairsNext ==
  TypeInv /\ PhiInv /\ OpenPath /\ StackInv /\ Found /\ SetProgram /\ PairsInv /\ [Next]_vars => PairsInv'
<1> SUFFICES ASSUME TypeInv, PhiInv, OpenPath, StackInv, Found, SetProgram, PairsInv, [Next]_vars
             PROVE  PairsInv'
  OBVIOUS
<1>1. CASE (\E v \in Vars : PickVar(v)) \/ \E b \in Blocks : PlacePhis(b)
  <2>1. UNCHANGED <<progVars, phase, phi_pairs>> /\ phase = "phi"
    BY <1>1 DEF PickVar, PlacePhis, nameVars
  <2> QED
    BY <2>1, PairsPhi
<1>2. CASE \E b \in Blocks : FillPhis(b)
  BY <1>2, PairsFill
<1>3. CASE StartRename \/ \E b \in Blocks : Recurse(b)
  BY <1>3, PairsCall, EntryAssumption
<1>4. CASE RenameLoad \/ RenameStore
  BY <1>4, PairsAccess
<1>5. CASE Return \/ remove_alloca
  BY <1>5, PairsReturn
<1>6. CASE UNCHANGED vars
  <2>1. UNCHANGED <<progVars, phase, phis, phi_pairs, frames, fill>>
    BY <1>6 DEF vars, phiVars, nameVars
  <2>2. Pending' = Pending /\ Top' = Top /\ Renaming' = Renaming /\ succ' = succ
    BY <2>1, OtherPath DEF Top, Renaming, progVars
  <2>3. \A b, p : Passed(p, b)' <=> Passed(p, b)
    BY <2>1, <2>2 DEF Passed
  <2> QED
    BY <2>1, <2>3, PairsRest
<1> QED
  BY <1>1, <1>2, <1>3, <1>4, <1>5, <1>6 DEF Next

\* What is pending at the end: nothing.
LEMMA NothingPending ==
  ASSUME TypeInv, OpenPath, phase = "done"
  PROVE  Pending = {} /\ ~Renaming
<1>1. frames = <<>>
  BY DEF OpenPath
<1>2. Waiting = {}
  BY <1>1 DEF Waiting
<1> QED
  BY <1>2 DEF Pending, Renaming

\* On a function whose entry block sets its variables first every phi of a
\* reachable block ends with exactly one pair for each predecessor, whatever
\* the order of the walk.
THEOREM PhisFilledCorrect ==
  ASSUME \A p \in Programs : SetsFirst(p)
  PROVE  Spec => []PhisFilled
<1>1. TypeInv /\ OpenPath /\ PairsInv => PhisFilled
  <2> SUFFICES ASSUME TypeInv, OpenPath, PairsInv, phase = "done",
                      NEW b \in Reachable(succ), NEW v \in phis[b], NEW p \in Preds(succ, b)
               PROVE  Cardinality({x \in phi_pairs[<<b, v>>] : x[2] = p}) = 1
    BY DEF PhisFilled
  <2>1. b \in Blocks /\ v \in Vars /\ p \in Reachable(succ)
    BY DEF Reachable, TypeInv, TypeOK, ProgramOK, NoDeadEdge
  <2>2. Passed(p, b)
    BY <2>1, NothingPending DEF Passed
  <2>3. PICK u : PairsFrom(b, v, p) = {u}
    BY <2>1, <2>2 DEF PairsInv
  <2> QED
    BY <2>3, FS_Singleton DEF PairsFrom
<1>2. Spec => []SetProgram
  BY SetInit, SetNext, PTL DEF Spec
<1>3. Spec => []PairsInv
  BY <1>2, PairsInit, PairsNext, TypesInductive, PhiInductive, PathInductive, StacksInductive,
     FoundInductive, PTL DEF Spec
<1> QED
  BY <1>1, <1>3, TypesInductive, PathInductive, PTL

-----------------------------------------------------------------------------
(***************************************************************************)
(* What is erased.  An access that re_name has gone past waits in its call *)
(* to be deleted, or has been.                                             *)
(***************************************************************************)
GonePast(a) == a[1] \in Reachable(succ) \ Pending /\ (Renaming /\ a[1] = Top.bb => a[2] < pc)

ToGo(a) == a \in erased \/ \E i \in 1..Len(frames) : a \in frames[i].wait_delete

Deleted == \A a \in Accesses : GonePast(a) => ToGo(a)

Alive == /\ phase # "done" => allocas = Vars
         /\ phase = "done" => frames = <<>>

LEMMA AccessIndex ==
  ASSUME TypeInv, NEW a \in Accesses
  PROVE  /\ a = <<a[1], a[2]>> /\ a[1] \in Blocks /\ a[2] \in 1..Len(code[a[1]])
         /\ a[2] \in Nat \ {0} /\ Len(code[a[1]]) \in Nat /\ Instr(a) \in Access
<1>1. PICK b \in Blocks : \E k \in 1..Len(code[b]) : a = <<b, k>>
  BY DEF Accesses
<1>2. PICK k \in 1..Len(code[b]) : a = <<b, k>>
  BY <1>1
<1>3. code[b] \in Seq(Access)
  BY DEF TypeInv, TypeOK
<1>4. a[1] = b /\ a[2] = k
  BY <1>2
<1> QED
  BY <1>2, <1>3, <1>4 DEF Instr

LEMMA DeletedInit == Init => Deleted
<1> SUFFICES ASSUME Init PROVE Deleted
  OBVIOUS
<1>1. Pending = Reachable(succ)
  BY DEF Init, Pending
<1> QED
  BY <1>1 DEF Deleted, GonePast

LEMMA DeletedSame ==
  ASSUME Deleted, UNCHANGED progVars, \A a \in Accesses : GonePast(a)' => GonePast(a),
         \A a \in Accesses : ToGo(a) => ToGo(a)'
  PROVE  Deleted'
<1>1. Accesses' = Accesses
  BY SameProgram
<1> QED
  BY <1>1 DEF Deleted

LEMMA DeletedOther ==
  ASSUME TypeInv, OpenPath, Deleted, UNCHANGED <<progVars, phase, frames, pc, erased>>
  PROVE  Deleted'
<1>1. Pending' = Pending /\ Top' = Top /\ Renaming' = Renaming /\ succ' = succ
  BY OtherPath DEF Top, Renaming, progVars
<1>2. \A a : GonePast(a)' <=> GonePast(a)
  BY <1>1 DEF GonePast
<1>3. \A a : ToGo(a)' <=> ToGo(a)
  BY DEF ToGo
<1> QED
  BY <1>2, <1>3, DeletedSame

\* The variable of an access that is reached has been set by the entry block.
LEMMA LoadFound ==
  ASSUME TypeInv, OpenPath, StackInv, Found, SetProgram, RenameLoad
  PROVE  Instr(Here).var \in found
<1>1. /\ InCode /\ Renaming /\ pc \in 1..Len(code[Top.bb]) /\ Top.bb \in Blocks
      /\ Instr(Here) = code[Top.bb][pc] /\ Instr(Here).op = "load" /\ Instr(Here).var \in Vars
  BY AccessFrames, HereOK DEF RenameLoad, Access
<1>2. PICK j \in 1..Len(code[Entry]) :
        /\ code[Entry][j].op = "store" /\ code[Entry][j].var = Instr(Here).var
        /\ Top.bb = Entry => j < pc
  BY <1>1 DEF SetProgram, SetsFirst, Program
<1>3. j \in StoresIn(Entry, Instr(Here).var)
  BY <1>2 DEF StoresIn
<1> QED
  BY <1>1, <1>2, <1>3, SetOnce

LEMMA DeletedAccess ==
  ASSUME TypeInv, OpenPath, StackInv, Found, SetProgram, Deleted, RenameLoad \/ RenameStore
  PROVE  Deleted'
<1>1. /\ UNCHANGED progVars /\ erased' = erased /\ pc' = pc + 1 /\ frames' = Delete(Here) /\ InCode
      /\ succ' = succ
  BY LoadFound DEF RenameLoad, RenameStore, progVars
<1>2. Here \in Accesses /\ Renaming /\ Len(frames) \in Nat \ {0}
  BY <1>1, HereOK, TopOK DEF InCode
<1>3. /\ Len(frames') = Len(frames)
      /\ \A i \in 1..Len(frames) : frames[i].wait_delete \subseteq frames'[i].wait_delete
      /\ Here \in frames'[Len(frames)].wait_delete
  <2>1. Len(frames) \in 1..Len(frames)
    BY <1>2
  <2>2. /\ Len(Delete(Here)) = Len(frames)
        /\ \A i \in 1..Len(frames) : Delete(Here)[i].wait_delete =
             IF i = Len(frames) THEN frames[i].wait_delete \cup {Here} ELSE frames[i].wait_delete
    BY <1>2, DeleteOK
  <2> QED
    BY <1>1, <2>1, <2>2
<1>4. Pending' = Pending /\ Top'.bb = Top.bb /\ Renaming'
  BY AccessPath
<1>5. \A a : ToGo(a) => ToGo(a)'
  BY <1>1, <1>3 DEF ToGo
<1>6. ASSUME NEW a, a = Here PROVE ToGo(a)'
  <2>1. Len(frames) \in 1..Len(frames)
    BY <1>2
  <2>2. a \in frames'[Len(frames)].wait_delete
    BY <1>3, <1>6
  <2> QED
    BY <1>3, <2>1, <2>2 DEF ToGo
<1>7. ASSUME NEW a \in Accesses, GonePast(a)' PROVE GonePast(a) \/ a = Here
  <2>1. a = <<a[1], a[2]>> /\ a[2] \in Nat /\ pc \in Nat
    BY AccessIndex DEF TypeInv, TypeOK
  <2>2. a[1] = Top.bb => a[2] < pc \/ a[2] = pc
    BY <1>1, <1>4, <1>7, <2>1 DEF GonePast
  <2>3. a[1] \in Reachable(succ) \ Pending
    BY <1>1, <1>4, <1>7 DEF GonePast
  <2> QED
    BY <2>1, <2>2, <2>3 DEF GonePast, Here
<1>8. Accesses' = Accesses
  BY <1>1, SameProgram
<1> QED
  BY <1>5, <1>6, <1>7, <1>8 DEF Deleted

LEMMA DoneWithCode ==
  ASSUME TypeInv, Recursing
  PROVE  \A a \in Accesses : a[1] = Top.bb => a[2] < pc
<1> SUFFICES ASSUME NEW a \in Accesses, a[1] = Top.bb PROVE a[2] < pc
  OBVIOUS
<1>1. a[2] \in Nat /\ Len(code[Top.bb]) \in Nat /\ a[2] <= Len(code[Top.bb]) /\ pc \in Nat
  BY AccessIndex DEF TypeInv, TypeOK
<1> QED
  BY <1>1 DEF Recursing, InCode

LEMMA DeletedCall ==
  ASSUME TypeInv, OpenPath, Deleted, NEW c \in Blocks, (StartRename /\ c = Entry) \/ Recurse(c)
  PROVE  Deleted'
<1>1. UNCHANGED progVars /\ erased' = erased /\ succ' = succ /\ pc' = 1
  BY StartOK DEF StartRename, Recurse, Call, progVars
<1>2. Pending' = Pending \ {c} /\ c \in Pending
  BY StartPath, RecursePath
<1>3. /\ Renaming' /\ Top'.bb = c
      /\ \A i \in 1..Len(frames) : i \in 1..Len(frames') /\ frames'[i].wait_delete = frames[i].wait_delete
  <2>1. CASE StartRename /\ c = Entry
    <3>1. Len(frames') = 1 /\ frames'[1].bb = c /\ phase' = "rename"
      BY <2>1, StartOK DEF StartRename
    <3>2. Len(frames) = 0
      BY <2>1 DEF StartRename, OpenPath
    <3> QED
      BY <3>1, <3>2 DEF Renaming, Top, Last
  <2>2. CASE Recurse(c)
    <3>1. Renaming /\ Call(c, Taken(c)) /\ phase' = phase
      BY <2>2 DEF Recurse, Recursing, Taken
    <3>2. /\ Taken(c) \in Seq(Calls) /\ Len(Taken(c)) = Len(frames) /\ Len(frames) \in Nat
          /\ \A i \in 1..Len(frames) : Taken(c)[i].wait_delete = frames[i].wait_delete
      BY <3>1, TakenOK, TopOK
    <3>3. /\ frames' \in Seq(Calls) /\ Len(frames') = Len(frames) + 1 /\ frames'[Len(frames')].bb = c
          /\ \A i \in 1..Len(frames) : frames'[i] = Taken(c)[i]
      BY <3>1, <3>2, CallOK
    <3>4. frames' # <<>> /\ \A i \in 1..Len(frames) : i \in 1..Len(frames')
      BY <3>2, <3>3
    <3> QED
      BY <3>1, <3>2, <3>3, <3>4 DEF Renaming, Top, Last
  <2> QED
    BY <2>1, <2>2
<1>4. ASSUME NEW a \in Accesses, GonePast(a)' PROVE GonePast(a)
  <2>1. a[1] \in Reachable(succ) \ (Pending \ {c})
    BY <1>1, <1>2, <1>4 DEF GonePast
  <2>2. a[1] # c
    <3>1. a[1] = c => a[2] < 1
      BY <1>1, <1>3, <1>4 DEF GonePast
    <3>2. a[2] \in Nat \ {0}
      BY AccessIndex
    <3> QED
      BY <3>1, <3>2
  <2>3. Renaming /\ a[1] = Top.bb => a[2] < pc
    <3>1. CASE StartRename
      BY <3>1 DEF StartRename, Renaming
    <3>2. CASE Recurse(c)
      BY <3>2, DoneWithCode DEF Recurse
    <3> QED
      BY <3>1, <3>2
  <2> QED
    BY <2>1, <2>2, <2>3 DEF GonePast
<1>5. \A a : ToGo(a) => ToGo(a)'
  BY <1>1, <1>3 DEF ToGo
<1> QED
  BY <1>1, <1>4, <1>5, DeletedSame

LEMMA DeletedReturn ==
  ASSUME TypeInv, OpenPath, Deleted, Return
  PROVE  Deleted'
<1>1. UNCHANGED progVars /\ erased' = erased \cup Top.wait_delete /\ succ' = succ /\ Recursing /\ Renaming
  BY DEF Return, Recursing, progVars
<1>2. /\ Len(frames) \in Nat \ {0} /\ Top = frames[Len(frames)]
      /\ Len(frames') = Len(frames) - 1 /\ \A i \in 1..Len(frames') : frames'[i] = frames[i]
  BY <1>1, TopOK, ReturnOK
<1>3. Pending' = Pending
  BY ReturnPath
<1>4. ASSUME NEW a \in Accesses, ToGo(a) PROVE ToGo(a)'
  <2>1. CASE a \in erased
    BY <1>1, <2>1 DEF ToGo
  <2>2. CASE \E i \in 1..Len(frames) : a \in frames[i].wait_delete
    <3>1. PICK i \in 1..Len(frames) : a \in frames[i].wait_delete
      BY <2>2
    <3>2. i \in 1..Len(frames') \/ i = Len(frames)
      BY <1>2
    <3>3. CASE i = Len(frames)
      BY <1>1, <1>2, <3>1, <3>3 DEF ToGo
    <3>4. CASE i \in 1..Len(frames')
      BY <1>2, <3>1, <3>4 DEF ToGo
    <3> QED
      BY <3>2, <3>3, <3>4
  <2> QED
    BY <1>4, <2>1, <2>2 DEF ToGo
<1>5. ASSUME NEW a \in Accesses, GonePast(a)' PROVE GonePast(a)
  <2>1. a[1] \in Reachable(succ) \ Pending
    BY <1>1, <1>3, <1>5 DEF GonePast
  <2> QED
    BY <1>1, <2>1, DoneWithCode DEF GonePast
<1> QED
  BY <1>1, <1>4, <1>5, DeletedSame

LEMMA DeletedRemove ==
  ASSUME TypeInv, OpenPath, Deleted, remove_alloca
  PROVE  Deleted'
<1>1. /\ UNCHANGED <<progVars, frames, erased>> /\ succ' = succ /\ ~Renaming
  BY DEF remove_alloca, nameVars, progVars, Renaming
<1>2. Pending' = Pending
  BY RemovePath
<1>3. \A a : GonePast(a)' => GonePast(a)
  BY <1>1, <1>2 DEF GonePast
<1>4. \A a : ToGo(a) => ToGo(a)'
  BY <1>1 DEF ToGo
<1> QED
  BY <1>1, <1>3, <1>4, DeletedSame

LEMMA DeletedNext ==
  TypeInv /\ OpenPath /\ StackInv /\ Found /\ SetProgram /\ Deleted /\ [Next]_vars => Deleted'
<1> SUFFICES ASSUME TypeInv, OpenPath, StackInv, Found, SetProgram, Deleted, [Next]_vars
             PROVE  Deleted'
  OBVIOUS
<1>1. CASE \/ \E v \in Vars : PickVar(v)
           \/ \E b \in Blocks : PlacePhis(b) \/ FillPhis(b)
           \/ UNCHANGED vars
  <2>1. UNCHANGED <<progVars, phase, frames, pc, erased>>
    BY <1>1 DEF PickVar, PlacePhis, FillPhis, vars, nameVars
  <2> QED
    BY <2>1, DeletedOther
<1>2. CASE StartRename \/ \E b \in Blocks : Recurse(b)
  BY <1>2, DeletedCall, EntryAssumption
<1>3. CASE RenameLoad \/ RenameStore
  BY <1>3, DeletedAccess
<1>4. CASE Return \/ remove_alloca
  BY <1>4, DeletedReturn, DeletedRemove
<1> QED
  BY <1>1, <1>2, <1>3, <1>4 DEF Next

LEMMA AliveInit == Init => Alive
BY DEF Init, Alive

LEMMA AliveNext == Alive /\ [Next]_vars => Alive'
BY DEF Alive, Next, PickVar, PlacePhis, FillPhis, Recurse, StartRename, RenameLoad, RenameStore,
       Return, remove_alloca, vars, nameVars, Recursing, InCode, Renaming

LEMMA NoDeadInit ==
  ASSUME \A p \in Programs : NoDeadAccess(p)
  PROVE  Init => NoDeadAccess(Program)
<1> SUFFICES ASSUME Init PROVE NoDeadAccess(Program)
  OBVIOUS
<1>1. PICK p \in Programs : succ = p.succ /\ code = p.code
  BY DEF Init
<1>2. NoDeadAccess(p)
  OBVIOUS
<1> QED
  BY <1>1, <1>2 DEF NoDeadAccess, Program

LEMMA NoDeadNext == NoDeadAccess(Program) /\ [Next]_vars => NoDeadAccess(Program)'
BY NextSameProgram DEF NoDeadAccess, Program, progVars

\* When the allocas go, no load or store of them is left, if the entry block
\* sets the variables first and unreachable code does not use them.
THEOREM AllocasCorrect ==
  ASSUME \A p \in Programs : SetsFirst(p) /\ NoDeadAccess(p)
  PROVE  Spec => []AllocasRedundant
<1>1. TypeInv /\ OpenPath /\ Deleted /\ Alive /\ NoDeadAccess(Program) => AllocasRedundant
  <2> SUFFICES ASSUME TypeInv, OpenPath, Deleted, Alive, NoDeadAccess(Program),
                      NEW a \in Accesses, Instr(a).var \notin allocas
               PROVE  a \in erased
    BY DEF AllocasRedundant
  <2>1. a[1] \in Blocks /\ a[2] \in 1..Len(code[a[1]]) /\ Instr(a).var \in Vars
    BY AccessIndex DEF Access
  <2>2. phase = "done" /\ frames = <<>>
    BY <2>1 DEF Alive
  <2>3. Pending = {} /\ ~Renaming
    BY <2>2, NothingPending
  <2>4. a[1] \in Reachable(succ)
    <3> SUFFICES ASSUME a[1] \notin Reachable(succ) PROVE FALSE
      OBVIOUS
    <3>1. code[a[1]] = <<>>
      BY <2>1 DEF NoDeadAccess, Program
    <3>2. Len(code[a[1]]) = 0
      BY <3>1
    <3> QED
      BY <2>1, <3>2
  <2>5. GonePast(a)
    BY <2>3, <2>4 DEF GonePast
  <2>6. Len(frames) = 0
    BY <2>2
  <2> QED
    BY <2>5, <2>6 DEF Deleted, ToGo
<1>2. Init => SetProgram
  BY SetInit
<1>3. Init => NoDeadAccess(Program)
  BY NoDeadInit
<1>4. Spec => []SetProgram
  BY <1>2, SetNext, PTL DEF Spec
<1>5. Spec => []Deleted
  BY <1>4, DeletedInit, DeletedNext, TypesInductive, PathInductive, StacksInductive,
     FoundInductive, PTL DEF Spec
<1>6. Spec => []Alive
  BY AliveInit, AliveNext, PTL DEF Spec
<1>7. Spec => []NoDeadAccess(Program)
  BY <1>3, NoDeadNext, PTL DEF Spec
<1> QED
  BY <1>1, <1>5, <1>6, <1>7, TypesInductive, PathInductive, PTL

=============================================================================
