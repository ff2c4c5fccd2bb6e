-------------------------------- MODULE GVN --------------------------------
(***************************************************************************)
(* GVN::run on one function: partitions of the values into congruence      *)
(* classes are computed by iteration, then members of a class are replaced *)
(* by its leader.  FuncInfo and DeadCode, which run around it, have their  *)
(* own modules; what FuncInfo found is the constant Pure here.             *)
(*                                                                         *)
(* Blocks are numbered in the order of the function's list.  A value is a  *)
(* triple of a tag and two numbers; an instruction is named by its place,  *)
(* which no step of the pass changes.                                      *)
(***************************************************************************)
EXTENDS ConstFolder, Sequences, FiniteSets, SequencesExt

CONSTANTS Functions,  \* the functions the pass may be given
          Pure,       \* the callees that FuncInfo calls pure
          Void        \* the callees that return nothing

Arg(n) == <<"arg", n, 0>>
Global(n) == <<"global", n, 0>>
Callee(n) == <<"func", n, 0>>
Label(b) == <<"label", b, 0>>
Op(b, k) == <<"op", b, k>>        \* the k-th instruction of block b
Null == <<"null", 0, 0>>

Instr(op, cmp, opnd) == [op |-> op, cmp |-> cmp, opnd |-> opnd]

VARIABLES
  fn,        \* the function as it was given
  layout,    \* how the addresses of values and blocks are ordered
  code,      \* code[b][k]: its instructions as they are now
  use_list,  \* use_list[v]: the bag of the uses <<user, operand number>> of v
  pout,      \* pout[b]: the partition at the end of b; pin is not read again
  next_value_number,
  cur_next_value_number,  \* what next_value_number is reset to
  phase,     \* "init", "iterate", "replace" or "done"
  bb,        \* the block in hand
  changed,
  todo,      \* the replacements still to be made
  ok         \* FALSE: an iterator past the end or a null pointer was followed

ssaVars == <<fn, layout>>
irVars == <<code, use_list>>
partVars == <<pout, next_value_number, cur_next_value_number>>
ctlVars == <<phase, bb, changed, todo, ok>>
vars == <<ssaVars, irVars, partVars, ctlVars>>

Blocks == 1..Len(fn.code)
Preds(b) == fn.preds[b]
InstrOf(c, v) == c[v[2]][v[3]]
OpsOf(c) == UNION {{Op(b, k) : k \in 1..Len(c[b])} : b \in 1..Len(c)}

\* The branch constructors record the false target first.
Targets(i) ==
  IF i.op # "br" THEN <<>>
  ELSE IF Len(i.opnd) = 1 THEN <<i.opnd[1][2]>>
  ELSE <<i.opnd[3][2], i.opnd[2][2]>>

Succs(b) == Targets(Last(fn.code[b]))

IsVoid(i) ==
  i.op \in {"br", "ret", "store"} \/ (i.op = "call" /\ i.opnd[1] \in Void)

Casts == {"sitofp", "fptosi", "zext"}
IsBinaryOp(i) == i.op \in {"add", "sub", "mul", "sdiv", "fadd", "fsub", "fmul", "fdiv"}
IsCompare(i) == i.op \in {"cmp", "fcmp"}

(***************************************************************************)
(* The functions are made of blocks of instructions and have lists of      *)
(* predecessors; a block ends with a branch to blocks or a return.  What   *)
(* yields a value from a single operand is a conversion, a call or a load, *)
(* and a load reads an address, which is never a constant.                 *)
(***************************************************************************)
Operand == {"arg", "global", "func", "label", "op", "int", "bool", "fp"} \X Int \X Int
Instruction == [op : STRING, cmp : STRING, opnd : Seq(Operand)]

ReadsAddress(i) ==
  Len(i.opnd) < 2 /\ ~IsVoid(i) /\ i.op \notin Casts \cup {"call", "alloca", "getelementptr"} =>
    i.op = "load" /\ Len(i.opnd) = 1 /\ ~IsConstant(i.opnd[1])

ASSUME FunctionsAssumption ==
  \A f \in Functions :
    /\ f.args \in Nat /\ f.globals \in Nat
    /\ f.code \in Seq(Seq(Instruction))
    /\ f.preds \in Seq(Seq(1..Len(f.code))) /\ Len(f.preds) = Len(f.code)
    /\ \A b \in 1..Len(f.code) :
         f.code[b] # <<>> /\ Targets(Last(f.code[b])) \in Seq(1..Len(f.code))
    /\ \A v \in OpsOf(f.code) : ReadsAddress(InstrOf(f.code, v))

(***************************************************************************)
(* The order of addresses, which is that of members_ and pout_, is up to   *)
(* the allocator.  Addresses rise or fall with the order of allocation,    *)
(* which is that of the code, except that Mem2Reg allocates the phis after *)
(* everything else.  They may also take the place of what was freed.       *)
(***************************************************************************)
Layouts == [ascending : BOOLEAN, phis_last : BOOLEAN]

Phis == {v \in OpsOf(fn.code) : InstrOf(fn.code, v).op = "phi"}
Rank(v) == CASE v[1] = "global" -> v[2]
             [] v[1] = "arg" -> 100 + v[2]
             [] v[1] = "op" -> 1000 * v[2] + v[3] + (IF layout.phis_last /\ v \in Phis THEN 1000000 ELSE 0)

Before(v, w) == IF layout.ascending THEN Rank(v) < Rank(w) ELSE Rank(v) > Rank(w)

FirstMember(S) == CHOOSE v \in S : \A w \in S : ~Before(w, v)

\* A set in the order of less, which has to be total on it.
InOrderOf(S, less(_, _)) ==
  [k \in 1..Cardinality(S) |-> CHOOSE v \in S : Cardinality({w \in S : less(w, v)}) = k - 1]

-----------------------------------------------------------------------------
(* Expressions.  The operands of a binary or variable expression are       *)
(* values: the code wraps each in a ConstantExpression, whatever it is.    *)

NoExpr == [t |-> "none"]
ConstantExpression(v) == [t |-> "constant", c |-> v]
BinaryExpression(op, cmp, l, r) == [t |-> "bin", op |-> op, cmp |-> cmp, lhs |-> l, rhs |-> r]
PhiExpression(l, r) == [t |-> "phi", lhs |-> l, rhs |-> r]
VariableExpression(type, ops) == [t |-> "var", type |-> type, ops |-> ops]

\* Two calls of an impure function are never equal, nor are two allocas: the
\* code compares the expression objects themselves.  An object does equal
\* itself, which intersect sees, but valueExpr makes a new object every time,
\* so that no later search can find the expression it has kept.
Equal(e1, e2) ==
  /\ e1 = e2
  /\ e1.t = "var" => e1.type \notin {"impure", "alloca"}

SameIfAny(e1, e2) == e1 # NoExpr /\ e2 # NoExpr /\ Equal(e1, e2)

-----------------------------------------------------------------------------
(* Congruence classes.  A partition is a set of classes with different     *)
(* indexes, as the order of the std::set makes it; it is walked in the     *)
(* order of the indexes.                                                   *)

Class(index, leader, expr, phi, members) ==
  [index |-> index, leader_ |-> leader, value_expr |-> expr, value_phi |-> phi,
   members |-> members]

\* (size_t)-1, above every value number.
TopIndex == 1000000000
Top == {Class(TopIndex, Null, NoExpr, NoExpr, {})}

First(P) == CHOOSE cc \in P : \A d \in P : cc.index <= d.index
Highest(P) == CHOOSE cc \in P : \A d \in P : cc.index >= d.index

\* emplace: a class whose index is taken is not inserted.
Emplace(P, cc) == IF \E d \in P : d.index = cc.index THEN P ELSE P \cup {cc}

With(P, v) == {cc \in P : v \in cc.members}

\* Faulty variant: expressions over the operands, not over what leads their classes.
LeaderOfItself(P, v) == v

\* The value that stands for v in expressions.
LeaderOf(P, v) ==
  IF With(P, v) = {} \/ Highest(With(P, v)).leader_ = Null THEN v
  ELSE Highest(With(P, v)).leader_

AddTo(P, S, v) ==
  (P \ S) \cup {[cc EXCEPT !.members = @ \cup {v}] : cc \in S}

\* erase v, and its class when nothing else is in it.
RemoveMember(P, v) ==
  (P \ With(P, v)) \cup
     {[cc EXCEPT !.members = @ \ {v}] : cc \in {d \in With(P, v) : d.members # {v}}}

\* The class erased for v is the last one, so that erase returns end().
ErasesLast(P, v) == With(P, v) # {} /\ Highest(P).members = {v}

-----------------------------------------------------------------------------
(* valueExpr, getVN, valuePhiFunc *)

TypeOf(i) == IF i.op # "call" THEN i.op
             ELSE IF i.opnd[1] \in Pure THEN "pure" ELSE "impure"

valueExpr(P, i) ==
  LET lead(k) == LeaderOf(P, i.opnd[k])
  IN  IF Len(i.opnd) > 2 \/ i.op \in {"call", "getelementptr", "alloca"} \cup Casts
      THEN VariableExpression(TypeOf(i), [k \in 1..Len(i.opnd) |-> lead(k)])
      ELSE IF Len(i.opnd) = 2
      THEN BinaryExpression(i.op, IF IsCompare(i) THEN i.cmp ELSE "EQ", lead(1), lead(2))
      ELSE ConstantExpression(i.opnd[1])

getVN(P, ve) ==
  LET found == {cc \in P : SameIfAny(cc.value_expr, ve)}
  IN  IF found = {} THEN NoExpr ELSE ConstantExpression(First(found).leader_)

\* The value phi of the class that v leads.
PhiOf(P, v) ==
  LET led == {cc \in P : cc.value_phi # NoExpr /\ cc.leader_ = v}
  IN  IF led = {} THEN NoExpr ELSE Highest(led).value_phi

\* Both operands of ve are value phis of the two predecessors of b.
JoinsPhis(b, ve, P) ==
  /\ ve.t = "bin" /\ ve.op \notin {"cmp", "fcmp"}
  /\ ~IsConstant(ve.lhs) /\ ~IsConstant(ve.rhs)
  /\ Len(Preds(b)) = 2
  /\ PhiOf(P, ve.lhs) # NoExpr /\ PhiOf(P, ve.rhs) # NoExpr

\* ve as the first and the second predecessor computes it.
FromFirst(ve, P) == BinaryExpression(ve.op, "EQ", PhiOf(P, ve.lhs).lhs.c, PhiOf(P, ve.rhs).lhs.c)
FromSecond(ve, P) == BinaryExpression(ve.op, "EQ", PhiOf(P, ve.lhs).rhs.c, PhiOf(P, ve.rhs).rhs.c)

PhiUnlessNone(vi, vj) == IF vi = NoExpr \/ vj = NoExpr THEN NoExpr ELSE PhiExpression(vi, vj)

Values == {"arg", "global", "op", "int", "bool", "fp", "null"} \X Int \X Int
BinaryExpressions ==
  [t : {"bin"}, op : {"add", "sub", "mul", "sdiv", "fadd", "fsub", "fmul", "fdiv"}, cmp : {"EQ"},
   lhs : Values, rhs : Values]

\* ve at the end of a predecessor p: a value there, or the value of a class
\* with the same value phi, or a value phi that no class has.
ValueAt[p \in Blocks, ve \in BinaryExpressions] ==
  LET vn == getVN(pout[p], ve)
      phi == IF JoinsPhis(p, ve, pout[p])
             THEN PhiUnlessNone(ValueAt[Preds(p)[1], FromFirst(ve, pout[p])],
                                ValueAt[Preds(p)[2], FromSecond(ve, pout[p])])
             ELSE NoExpr
      same == {cc \in pout[p] : SameIfAny(cc.value_phi, phi)}
  IN  IF vn # NoExpr THEN vn
      ELSE IF phi # NoExpr /\ same # {} THEN ConstantExpression(First(same).leader_)
      ELSE phi

valuePhiFunc(b, ve, P) ==
  IF JoinsPhis(b, ve, P)
  THEN PhiUnlessNone(ValueAt[Preds(b)[1], FromFirst(ve, P)], ValueAt[Preds(b)[2], FromSecond(ve, P)])
  ELSE NoExpr

-----------------------------------------------------------------------------
(* transferFunction.  st: the partition, the next value number, and whether*)
(* all iterators and pointers followed so far were good.                   *)

ConstOf(P, v) ==
  LET const == {cc \in With(P, v) : IsConstant(cc.leader_)}
  IN  IF IsConstant(v) THEN v ELSE IF const = {} THEN Null ELSE First(const).leader_

ConstOperands(P, i) == [k \in 1..Len(i.opnd) |-> ConstOf(P, i.opnd[k])]
Folds2(i, c) == (IsBinaryOp(i) \/ IsCompare(i)) /\ c[1] # Null /\ c[2] # Null

\* The leader of a new class: a constant if the operands are.
NewLeader(P, v, i) ==
  LET c == ConstOperands(P, i)
  IN  IF Folds2(i, c) THEN compute(i.op, i.cmp, c[1], c[2])
      ELSE IF i.op \in Casts /\ c[1] # Null THEN computeCast(i.op, c[1])
      ELSE v

FoldTraps(P, i) ==
  LET c == ConstOperands(P, i) IN Folds2(i, c) /\ Traps(i.op, c[1], c[2])

TransferInstr(b, st, v) ==
  LET i == InstrOf(code, v)
      P == RemoveMember(st.P, v)
      ve == valueExpr(P, i)
      vpf == valuePhiFunc(b, ve, P)
      found == {cc \in P : SameIfAny(cc.value_expr, ve) \/ SameIfAny(cc.value_phi, vpf)}
      good == st.ok /\ ~ErasesLast(st.P, v)
  IN  IF i.op = "phi" \/ IsVoid(i) THEN st
      ELSE IF i.op # "load" /\ found # {}
      THEN [st EXCEPT !.P = AddTo(P, {First(found)}, v), !.ok = good]
      ELSE IF ~good \/ FoldTraps(P, i) THEN [st EXCEPT !.ok = FALSE]
      ELSE [P |-> Emplace(P, Class(st.n, NewLeader(P, v, i), ve, NoExpr, {v})),
            n |-> st.n + 1, ok |-> TRUE]

transferFunction(b, st) ==
  LET after[k \in 0..Len(code[b])] ==
        IF k = 0 THEN st ELSE TransferInstr(b, after[k-1], Op(b, k))
  IN  after[Len(code[b])]

\* Faulty variant: the phi stays in the class it was in.
CopyKept(st, phi, v) ==
  LET into == {cc \in st.P : \/ v \in cc.members
                             \/ IsConstant(v) /\ cc.value_expr = ConstantExpression(v)}
  IN  IF into # {} THEN [st EXCEPT !.P = AddTo(@, into, phi)]
      ELSE [st EXCEPT !.n = @ + 1,
                      !.P = Emplace(@, Class(st.n, v, ConstantExpression(v), NoExpr, {phi}))]

(***************************************************************************)
(* copy_stmt: each phi of a successor as an assignment at the end of b.    *)
(***************************************************************************)
Copy(st, phi, v) ==
  LET P == RemoveMember(st.P, phi)
      into == {cc \in P : \/ v \in cc.members
                          \/ IsConstant(v) /\ cc.value_expr = ConstantExpression(v)}
  IN  IF ErasesLast(st.P, phi) THEN [st EXCEPT !.ok = FALSE]
      ELSE IF into # {} THEN [st EXCEPT !.P = AddTo(P, into, phi)]
      ELSE [st EXCEPT !.n = @ + 1,
                      !.P = Emplace(P, Class(st.n, v, ConstantExpression(v), NoExpr, {phi}))]

CopyPhi(b, st, phi) ==
  LET o == InstrOf(code, phi).opnd
      first == IF o[2] = Label(b) THEN Copy(st, phi, o[1]) ELSE st
  IN  IF InstrOf(code, phi).op # "phi" THEN st
      ELSE IF o[4] = Label(b) THEN Copy(first, phi, o[3]) ELSE first

CopiesOf(b, s, st) ==
  LET after[k \in 0..Len(code[s])] ==
        IF k = 0 THEN st ELSE CopyPhi(b, after[k-1], Op(s, k))
  IN  after[Len(code[s])]

copy_stmt(b, st) ==
  LET after[k \in 0..Len(Succs(b))] ==
        IF k = 0 THEN st ELSE CopiesOf(b, Succs(b)[k], after[k-1])
  IN  after[Len(Succs(b))]

-----------------------------------------------------------------------------
(* intersect and join *)

intersect(n, Ci, Cj) ==
  LET members == Ci.members \cap Cj.members
      same == Ci.index = Cj.index
      leader == IF Ci.leader_ = Cj.leader_ THEN Ci.leader_ ELSE Null
  IN  Class(IF same THEN Ci.index ELSE n,
            IF same \/ leader # Null THEN leader ELSE FirstMember(members),
            IF Ci.value_expr = Cj.value_expr THEN Ci.value_expr ELSE NoExpr,
            IF ~same THEN PhiExpression(ConstantExpression(Ci.leader_), ConstantExpression(Cj.leader_))
            ELSE IF Ci.value_phi = Cj.value_phi THEN Ci.value_phi ELSE NoExpr,
            members)

\* The pairs of classes that share a member, in the order in which join takes
\* them; for the others intersect returns nullptr.
Meeting(P1, P2) == {w \in P1 \X P2 : w[1].members \cap w[2].members # {}}
PairBefore(w, z) ==
  \/ w[1].index < z[1].index
  \/ w[1].index = z[1].index /\ w[2].index < z[2].index

JoinPair(st, w) ==
  [st EXCEPT !.P = Emplace(@, intersect(st.n, w[1], w[2])),
             !.n = IF w[1].index = w[2].index THEN @ ELSE @ + 1]

JoinAll(P1, P2, n) ==
  LET pairs == InOrderOf(Meeting(P1, P2), PairBefore)
      after[k \in 0..Len(pairs)] ==
        IF k = 0 THEN [P |-> {}, n |-> n, ok |-> TRUE] ELSE JoinPair(after[k-1], pairs[k])
  IN  after[Len(pairs)]

\* The first class of an empty partition is not there to be read.
join(P1, P2, n) ==
  CASE P1 = {} -> [P |-> {}, n |-> n, ok |-> FALSE]
    [] P1 # {} /\ First(P1).index = TopIndex -> [P |-> P2, n |-> n, ok |-> TRUE]
    [] P1 # {} /\ First(P1).index # TopIndex /\ P2 = {} -> [P |-> {}, n |-> n, ok |-> FALSE]
    [] P1 # {} /\ First(P1).index # TopIndex /\ P2 # {} ->
         IF First(P2).index = TopIndex THEN [P |-> P1, n |-> n, ok |-> TRUE]
         ELSE JoinAll(P1, P2, n)

-----------------------------------------------------------------------------
(* run *)

\* The instructions that yield a value.
Computed == {v \in OpsOf(fn.code) : ~IsVoid(InstrOf(fn.code, v))}

\* One class for each argument and global variable.
Given == [n \in 1..fn.args |-> Arg(n)] \o [n \in 1..fn.globals |-> Global(n)]
GivenClasses(n) ==
  {Class(n + k - 1, Given[k], NoExpr, NoExpr, {Given[k]}) : k \in 1..Len(Given)}

UsesOf(c, v) ==
  UNION {{<<o, n>> : n \in {m \in 1..Len(InstrOf(c, o).opnd) : InstrOf(c, o).opnd[m] = v}} : o \in OpsOf(c)}

Init ==
  /\ fn \in Functions
  /\ layout \in Layouts /\ (layout.phis_last => Phis # {})
  /\ code = fn.code
  /\ use_list = [v \in OpsOf(fn.code) \cup ToSet(Given) |-> SetToBag(UsesOf(fn.code, v))]
  /\ pout = [b \in Blocks |-> {}]
  /\ next_value_number = 1 /\ cur_next_value_number = 1
  /\ phase = "init" /\ bb = 1 /\ changed = FALSE /\ todo = {} /\ ok = TRUE

\* Run the instructions of b on a partition, then the copies at its end.
Process(b, st) == copy_stmt(b, transferFunction(b, st))

InitBlock ==
  /\ phase = "init" /\ ok /\ bb <= Len(fn.code)
  /\ LET st == Process(bb, [P |-> GivenClasses(next_value_number),
                            n |-> next_value_number + Len(Given), ok |-> TRUE])
     IN  IF Preds(bb) = <<>>
         THEN pout' = [pout EXCEPT ![bb] = st.P] /\ next_value_number' = st.n /\ ok' = st.ok
         ELSE pout' = [pout EXCEPT ![bb] = Top] /\ UNCHANGED <<next_value_number, ok>>
  /\ bb' = bb + 1
  /\ UNCHANGED <<ssaVars, irVars, cur_next_value_number, phase, changed, todo>>

StartPass ==
  /\ ok /\ bb > Len(fn.code)
  /\ phase = "init" \/ (phase = "iterate" /\ changed)
  /\ cur_next_value_number' = IF phase = "init" THEN next_value_number ELSE cur_next_value_number
  /\ next_value_number' = cur_next_value_number'
  /\ phase' = "iterate" /\ bb' = 1 /\ changed' = FALSE
  /\ UNCHANGED <<ssaVars, irVars, pout, todo, ok>>

\* The partition at the start of b; only blocks with one or two predecessors
\* are visited.
PartitionIn(b, n) ==
  IF Len(Preds(b)) = 2 THEN join(pout[Preds(b)[1]], pout[Preds(b)[2]], n)
  ELSE [P |-> pout[Preds(b)[1]], n |-> n, ok |-> TRUE]

\* Faulty variant: the leaders of the old partition only have to be in the new one.
SameLeaders(P1, P2) == {cc.leader_ : cc \in P1} \subseteq {cc.leader_ : cc \in P2}

\* Faulty variant: the pointers are compared, as the operator== of std::set would.
SamePointers(P1, P2) == P1 = {} /\ P2 = {}

\* operator==: as many classes, and every leader leads a class on both sides.
Leaders(P) == {cc.leader_ : cc \in P}
Same(P1, P2) == Cardinality(P1) = Cardinality(P2) /\ Leaders(P1) \subseteq Leaders(P2)

Visit ==
  /\ phase = "iterate" /\ ok /\ bb <= Len(fn.code)
  /\ IF Len(Preds(bb)) \in {1, 2}
     THEN LET st == Process(bb, PartitionIn(bb, next_value_number))
          IN  /\ pout' = [pout EXCEPT ![bb] = st.P]
              /\ next_value_number' = st.n
              /\ changed' = (changed \/ ~Same(pout[bb], st.P))
              /\ ok' = st.ok
     ELSE UNCHANGED <<pout, next_value_number, changed, ok>>
  /\ bb' = bb + 1
  /\ UNCHANGED <<ssaVars, irVars, cur_next_value_number, phase, todo>>

\* A member that is a phi is replaced only in a class with a value phi.
IsPhi(v) == v[1] = "op" /\ InstrOf(code, v).op = "phi"
Replaced(cc) == {v \in cc.members : v # cc.leader_ /\ (cc.value_phi # NoExpr \/ ~IsPhi(v))}

\* Blocks go by their addresses, the classes of a block by their indexes, and
\* the members of a class by their addresses.
Replacement(b, cc, v) == [bb |-> b, index |-> cc.index, member |-> v, leader_ |-> cc.leader_]
Replacements == UNION {UNION {{Replacement(b, cc, v) : v \in Replaced(cc)} : cc \in pout[b]} : b \in Blocks}

Sooner(r, s) ==
  \/ r.bb # s.bb /\ ((r.bb < s.bb) <=> layout.ascending)
  \/ r.bb = s.bb /\ r.index < s.index
  \/ r.bb = s.bb /\ r.index = s.index /\ Before(r.member, s.member)

StartReplace ==
  /\ phase = "iterate" /\ ok /\ bb > Len(fn.code) /\ ~changed
  /\ phase' = "replace"
  /\ todo' = Replacements
  /\ UNCHANGED <<ssaVars, irVars, partVars, bb, changed, ok>>

\* Faulty variant: every user is taken to be in the block.
UserAnywhere(b, user) == TRUE

\* The users in block b; a phi belongs to all predecessors of its block.
UserIn(b, user) ==
  IF InstrOf(code, user).op = "phi" THEN b \in ToSet(Preds(user[2])) ELSE user[2] = b

\* The uses of v by users in b.
UsesFrom(v, b) ==
  LET uses == {u \in DOMAIN use_list[v] : UserIn(b, u[1])}
  IN  [u \in uses |-> use_list[v][u]]

\* The program with new as the operand of these uses.
WithOperand(uses, new) ==
  [c \in Blocks |-> [k \in 1..Len(code[c]) |->
     [code[c][k] EXCEPT !.opnd = [n \in DOMAIN @ |-> IF <<Op(c, k), n>> \in uses THEN new ELSE @[n]]]]]

\* Faulty variant: the uses that were moved stay in the old list, too.
replace_use_kept(v, new, b) ==
  /\ new # Null
  /\ code' = WithOperand(DOMAIN UsesFrom(v, b), new)
  /\ use_list' = [w \in DOMAIN use_list |->
                    IF w = new THEN use_list[w] (+) UsesFrom(v, b) ELSE use_list[w]]
  /\ UNCHANGED ok

replace_use_with_when(v, new, b) ==
  LET moved == UsesFrom(v, b)
  IN  IF DOMAIN moved # {} /\ new = Null THEN ok' = FALSE /\ UNCHANGED irVars
      ELSE /\ code' = WithOperand(DOMAIN moved, new)
           /\ use_list' = [w \in DOMAIN use_list |->
                             IF w = v THEN use_list[w] (-) moved
                             ELSE IF w = new THEN use_list[w] (+) moved ELSE use_list[w]]
           /\ UNCHANGED ok

Replace ==
  /\ phase = "replace" /\ ok
  /\ \E r \in todo :
       /\ \A s \in todo \ {r} : Sooner(r, s)
       /\ replace_use_with_when(r.member, r.leader_, r.bb)
       /\ todo' = todo \ {r}
  /\ UNCHANGED <<ssaVars, partVars, phase, bb, changed>>

Finish ==
  /\ phase = "replace" /\ ok /\ todo = {}
  /\ phase' = "done"
  /\ UNCHANGED <<ssaVars, irVars, partVars, bb, changed, todo, ok>>

Next == InitBlock \/ StartPass \/ Visit \/ StartReplace \/ Replace \/ Finish

Done == phase = "done" /\ UNCHANGED vars

\* What the steps of Next do to the place the pass is at.  One of the two is
\* enabled exactly when Next is, which is seen without computing a transfer
\* function: that is why fairness is stated for them.
Iterating ==
  /\ ok /\ phase \in {"init", "iterate"}
  /\ \/ phase' \in {phase, "iterate"} /\ bb' \in {1, bb + 1}
     \/ phase' = "replace" /\ bb' = bb

Replacing ==
  /\ ok /\ phase = "replace"
  /\ \/ phase' = phase /\ \E r \in todo : todo' = todo \ {r}
     \/ phase' = "done" /\ todo' = todo

Fairness == WF_<<phase, bb>>(Iterating) /\ WF_<<phase, todo>>(Replacing)

Spec == Init /\ [][Next \/ Done]_vars /\ Fairness

-----------------------------------------------------------------------------
(***************************************************************************)
(* Properties                                                              *)
(***************************************************************************)

AllMembers(P) == UNION {cc.members : cc \in P}

\* Partitions are partitions, at every step and for every function: no value is
\* in two classes, though copies move phis between them and a constant finds its
\* class by its expression; no two classes have one index, though value numbers
\* are used again in every pass; no class is left empty but that of Top, which
\* stays where a block is visited before its predecessor; and all that is in a
\* class is a value of the function.
PartitionsWellFormed ==
  \A b \in Blocks : \A c \in pout[b] :
    /\ \A d \in pout[b] : c # d => c.index # d.index /\ c.members \cap d.members = {}
    /\ c.members = {} => c.index = TopIndex
    /\ c.members \subseteq Computed \cup ToSet(Given)

\* The passes end at a fixpoint although only leaders are compared: one more
\* visit of any block would put the same values together.  By then every value
\* that a block computes is in a class, and every class has a leader: a class
\* whose number is taken is lost on the way, and two classes of different passes
\* that have the same number meet as if they were one and leave a class without
\* leader.  No iterator past the end is followed, ever.
AtFixpoint ==
  /\ ok
  /\ phase \in {"replace", "done"} =>
       \A b \in Blocks :
         pout[b] # Top =>
           /\ \A c \in pout[b] : c.index # TopIndex => c.leader_ # Null
           /\ {v \in OpsOf(code) : v[2] = b /\ ~IsVoid(InstrOf(code, v)) /\ InstrOf(code, v).op # "phi"}
                \subseteq AllMembers(pout[b])
  /\ phase = "replace" /\ code = fn.code =>
       \A b \in Blocks :
         Len(Preds(b)) \in {1, 2} =>
           {cc.members : cc \in Process(b, PartitionIn(b, next_value_number)).P}
             = {cc.members : cc \in pout[b]}

\* Between two replacements the use lists tell exactly who uses what, each use
\* once: the dead code pass that follows trusts them.
UseListsExact ==
  \A v \in DOMAIN use_list : use_list[v] = SetToBag(UsesOf(code, v))

\* What a block computes again, from the same operands as a value it already
\* has, is used by nothing any more, and dead code removal will take it.
RedundancyGone ==
  phase = "done" =>
    \A v, w \in OpsOf(code) :
      /\ v # w /\ InstrOf(code, v) = InstrOf(code, w)
      /\ ~IsVoid(InstrOf(code, v)) /\ TypeOf(InstrOf(code, v)) \notin {"phi", "load", "alloca", "impure"}
      /\ v \in AllMembers(pout[w[2]]) /\ (v[2] = w[2] => v[3] < w[3])
      => use_list[w] = EmptyBag

\* The iteration ends, though every pass makes new classes.
Terminates == <>(phase = "done")
=============================================================================
