------------------------------ MODULE Builder ------------------------------
(***************************************************************************)
(* CminusfBuilder: the visitor that turns the AST of a cminus program into *)
(* LightIR.                                                                *)
(*                                                                         *)
(* A visit changes the state of the builder and returns nothing, so every  *)
(* visit(Node &) is an operator from a node and a state to a state.  The   *)
(* state has the insertion point and the blocks of the module, the two     *)
(* globals cur_value and cur_lvalue, the function that is being built and  *)
(* the scopes.                                                             *)
(*                                                                         *)
(* A type is a sequence of constructors, the outermost first: <<"i32">>,   *)
(* <<"ptr", "array", "i32">>.  A value is a constant, an argument, a       *)
(* global, a function, a block or an instruction, which is known by its    *)
(* block and its place in it.  Names of sizes and texts of literals are    *)
(* left out where nothing depends on them.                                 *)
(***************************************************************************)
EXTENDS Naturals, Sequences, SequencesExt, TLC, Ast

INT1 == <<"i1">>
INT32 == <<"i32">>
FLOAT == <<"float">>
VOID == <<"void">>
PointerTo(type) == <<"ptr">> \o type
IsInteger(type) == type \in {INT1, INT32}
IsFloat(type) == type = FLOAT

(* get_pointer_element_type *)
Pointee(value) == Tail(value.type)

Value(kind, type, ref) == [kind |-> kind, type |-> type, ref |-> ref]
ConstInt(text) == Value("const", INT32, <<text>>)
ConstFP(text) == Value("const", FLOAT, <<text>>)
Label(block) == Value("block", <<"label">>, <<block, 0>>)
NoValue == Value("none", <<"none">>, <<"none">>)

-----------------------------------------------------------------------------
(* Scope *)
Enter(st) == [st EXCEPT !.scope = Append(@, <<>>)]
Exit(st) == [st EXCEPT !.scope = Front(@)]
InGlobal(st) == Len(st.scope) = 1

(* std::map::insert keeps what is there *)
Push(st, id, value) == [st EXCEPT !.scope[Len(st.scope)] = @ @@ (id :> value)]

\* Faulty variant: looks from the outermost scope inwards.
FindOutermost(st, id) ==
    LET holds == {i \in DOMAIN st.scope : id \in DOMAIN st.scope[i]}
    IN  IF holds = {} THEN NoValue
        ELSE LET i == CHOOSE i \in holds : \A j \in holds : i <= j
             IN  st.scope[i][id]

Find(st, id) ==
    LET holds == {i \in DOMAIN st.scope : id \in DOMAIN st.scope[i]}
    IN  IF holds = {} THEN NoValue
        ELSE LET i == CHOOSE i \in holds : \A j \in holds : j <= i
             IN  st.scope[i][id]

-----------------------------------------------------------------------------
(* IRBuilder and the creation of blocks and instructions *)
NewBlocks(st, n) ==
    [st EXCEPT !.blocks = @ \o [i \in 1..n |-> [fn |-> st.fn, code |-> <<>>,
                                                pre |-> <<>>, succ |-> <<>>]]]

SetInsertPoint(st, block) == [st EXCEPT !.at = block]

(* an instruction goes to the end of the block at the insertion point; the *)
(* value that the create call returns is st.new                            *)
Emit(st, op, type, args) ==
    LET code == st.blocks[st.at].code
        instr == [op |-> op, type |-> type, args |-> args]
    IN  [st EXCEPT !.blocks[st.at].code = Append(@, instr),
                   !.new = Value("instr", type, <<st.at, Len(code) + 1>>)]

(* cur_value = builder->create_...() *)
EmitCurrent(st, op, type, args) ==
    LET s == Emit(st, op, type, args) IN [s EXCEPT !.value = s.new]

Br(st, target) ==
    LET s == [st EXCEPT !.blocks[target].pre = Append(@, st.at),
                        !.blocks[st.at].succ = Append(@, target)]
    IN  Emit(s, <<"br">>, VOID, <<Label(target)>>)

CondBr(st, cond, ifTrue, ifFalse) ==
    LET s1 == [st EXCEPT !.blocks[ifTrue].pre = Append(@, st.at)]
        s2 == [s1 EXCEPT !.blocks[ifFalse].pre = Append(@, st.at)]
        s3 == [s2 EXCEPT !.blocks[st.at].succ = @ \o <<ifFalse, ifTrue>>]
    IN  Emit(s3, <<"br">>, VOID, <<cond, Label(ifTrue), Label(ifFalse)>>)

(* create_load: the type is what the pointer points to *)
Load(st, pointer) == EmitCurrent(st, <<"load">>, Pointee(pointer), <<pointer>>)

(* create_gep: indexing into an array gives a pointer to its element *)
Gep(st, pointer, indices) ==
    LET indexed == Pointee(pointer)
        element == IF Head(indexed) = "array" /\ Len(indices) > 1
                   THEN Tail(indexed) ELSE indexed
    IN  EmitCurrent(st, <<"gep">>, PointerTo(element), <<pointer>> \o indices)

(* get_terminator() != nullptr for the insertion block *)
Terminated(st) ==
    LET code == st.blocks[st.at].code
    IN  code # <<>> /\ Last(code).op[1] \in {"ret", "br"}

BrUnlessTerminated(st, target) == IF Terminated(st) THEN st ELSE Br(st, target)

(* the conversion of cur_value when its type is not the wanted one *)
Convert(st, asFloat, asInt) ==
    IF IsInteger(st.value.type)
    THEN EmitCurrent(st, <<"sitofp">>, asFloat, <<st.value>>)
    ELSE EmitCurrent(st, <<"fptosi">>, asInt, <<st.value>>)

(* an integer operand is promoted, a float stays; the result is st.new *)
Promote(st, value) ==
    IF IsInteger(value.type) THEN Emit(st, <<"sitofp">>, FLOAT, <<value>>)
    ELSE [st EXCEPT !.new = value]

-----------------------------------------------------------------------------
(* accept: calls the visit of the node's class *)
RECURSIVE Visit(_, _)

VisitInScope(node, st) == Exit(Visit(node, Enter(st)))

VisitNum(node, st) ==
    [st EXCEPT !.value = IF node.type = "int" THEN ConstInt(node.text)
                         ELSE ConstFP(node.text)]

BaseType(node) == CASE node.type = "int" -> INT32
                    [] node.type = "float" -> FLOAT
                    [] OTHER -> VOID

VisitVarDeclaration(node, st) ==
    LET type == (IF node.array THEN <<"array">> ELSE <<>>) \o BaseType(node)
        local == Emit(st, <<"alloca">>, PointerTo(type), <<>>)
    IN  IF InGlobal(st)
        THEN Push(st, node.id, Value("global", PointerTo(type), <<node.id>>))
        ELSE Push(local, node.id, local.new)

ParamType(param) == IF param.array THEN PointerTo(BaseType(param)) ELSE BaseType(param)

(* a parameter lives in an alloca of its own *)
StoreParam(st, param) ==
    LET type == ParamType(param)
        s == Emit(st, <<"alloca">>, PointerTo(type), <<>>)
        arg == Value("arg", type, <<param.id>>)
    IN  Push(Emit(s, <<"store">>, VOID, <<arg, s.new>>), param.id, s.new)

(* what falls off the end of a function returns zero *)
ReturnDefault(st) ==
    LET ret == st.sigs[st.fn].ret
    IN  CASE ret = VOID -> Emit(st, <<"ret">>, VOID, <<>>)
          [] ret = FLOAT -> Emit(st, <<"ret">>, VOID, <<ConstFP("0.0")>>)
          [] OTHER -> Emit(st, <<"ret">>, VOID, <<ConstInt("0")>>)

VisitFunDeclaration(node, st) ==
    LET sig == [ret |-> BaseType(node),
                params |-> [i \in DOMAIN node.params |-> ParamType(node.params[i])]]
        s1 == [Push(st, node.id, Value("fun", <<"fun">>, <<node.id>>))
                 EXCEPT !.sigs = (node.id :> sig) @@ @, !.fn = node.id]
        s2 == Enter(SetInsertPoint(NewBlocks(s1, 1), Len(st.blocks) + 1))
        s3 == Visit(node.body, FoldLeft(StoreParam, s2, node.params))
    IN  Exit(IF Terminated(s3) THEN s3 ELSE ReturnDefault(s3))

\* Faulty variant: goes on after a return.
VisitAllStatements(nodes, st) == FoldLeft(LAMBDA s, node : Visit(node, s), st, nodes)

(* the rest of a statement list is dropped once the block has ended *)
RECURSIVE VisitStatements(_, _)
VisitStatements(nodes, st) ==
    IF nodes = <<>> THEN st
    ELSE LET s == Visit(Head(nodes), st)
         IN  IF Terminated(s) THEN s ELSE VisitStatements(Tail(nodes), s)

\* Faulty variant: leaves at a terminator without leaving the scope.
VisitCompoundReturning(node, st) ==
    LET decls == FoldLeft(LAMBDA s, decl : Visit(decl, s), Enter(st), node.decls)
        s1 == VisitStatements(node.stmts, decls)
    IN  IF Terminated(s1) THEN s1 ELSE Exit(s1)

VisitCompoundStmt(node, st) ==
    LET decls == FoldLeft(LAMBDA s, decl : Visit(decl, s), Enter(st), node.decls)
    IN  Exit(VisitStatements(node.stmts, decls))

VisitExpressionStmt(node, st) ==
    IF node.expr = NoNode THEN st ELSE Visit(node.expr, st)

VisitSelectionStmt(node, st) ==
    LET trueBB == Len(st.blocks) + 1
        falseBB == trueBB + 1
        endBB == trueBB + 2
        s1 == Visit(node.cond, NewBlocks(st, 3))
        s2 == IF IsInteger(s1.value.type)
              THEN EmitCurrent(s1, <<"icmp", "ne">>, INT1, <<s1.value, ConstInt("0")>>)
              ELSE EmitCurrent(s1, <<"fcmp", "ne">>, INT1, <<s1.value, ConstFP("0.0")>>)
        s3 == SetInsertPoint(CondBr(s2, s2.value, trueBB, falseBB), trueBB)
        s4 == BrUnlessTerminated(VisitInScope(node.then, s3), endBB)
        s5 == SetInsertPoint(s4, falseBB)
        s6 == IF node.else = NoNode THEN Br(s5, endBB)
              ELSE BrUnlessTerminated(VisitInScope(node.else, s5), endBB)
    IN  SetInsertPoint(s6, endBB)

VisitIterationStmt(node, st) ==
    LET testBB == Len(st.blocks) + 1
        trueBB == testBB + 1
        falseBB == testBB + 2
        s1 == SetInsertPoint(Br(NewBlocks(st, 3), testBB), testBB)
        s2 == Visit(node.cond, s1)
        s3 == EmitCurrent(s2, <<"icmp", "ne">>, INT1, <<s2.value, ConstInt("0")>>)
        s4 == SetInsertPoint(CondBr(s3, s3.value, trueBB, falseBB), trueBB)
        s5 == BrUnlessTerminated(VisitInScope(node.body, s4), testBB)
    IN  SetInsertPoint(s5, falseBB)

VisitReturnStmt(node, st) ==
    IF node.expr = NoNode THEN Emit(st, <<"ret">>, VOID, <<>>)
    ELSE LET s1 == Visit(node.expr, st)
             s2 == IF st.sigs[st.fn].ret # s1.value.type
                   THEN Convert(s1, FLOAT, INT32) ELSE s1
         IN  Emit(s2, <<"ret">>, VOID, <<s2.value>>)

(* the address of an element: an array parameter is loaded first *)
ElementAddress(st, var, index) ==
    CASE Pointee(var)[1] \in {"i1", "i32", "float"} -> Gep(st, var, <<index>>)
      [] Pointee(var)[1] = "ptr" ->
            LET s == Load(st, var) IN Gep(s, s.value, <<index>>)
      [] OTHER -> Gep(st, var, <<ConstInt("0"), index>>)

\* Faulty variant: the index is visited as what the whole is wanted as.
VisitIndexUnreset(node, st) == Visit(node.index, st)

(* the index is an rvalue, whatever the whole is; cur_lvalue is restored *)
VisitIndex(node, st) ==
    [Visit(node.index, [st EXCEPT !.lval = FALSE]) EXCEPT !.lval = st.lval]

(* a subscript: a negative index goes through a block that calls           *)
(* neg_idx_except; the element is reached in a block of its own            *)
VisitElement(node, var, st) ==
    LET s1 == VisitIndex(node, st)
        s2 == IF IsFloat(s1.value.type)
              THEN Emit(s1, <<"fptosi">>, INT32, <<s1.value>>)
              ELSE [s1 EXCEPT !.new = s1.value]
        trueBB == Len(s2.blocks) + 1
        falseBB == trueBB + 1
        endBB == trueBB + 2
        s3 == Emit(NewBlocks(s2, 3), <<"icmp", "ge">>, INT1, <<s2.new, ConstInt("0")>>)
        s4 == SetInsertPoint(CondBr(s3, s3.new, trueBB, falseBB), trueBB)
        s5 == ElementAddress(s4, var, s2.new)
        s6 == IF s5.lval THEN s5 ELSE Load(s5, s5.value)
        s7 == SetInsertPoint(Br(s6, endBB), falseBB)
        s8 == Emit(s7, <<"call">>, VOID, <<Find(s7, "neg_idx_except")>>)
    IN  SetInsertPoint(Br(s8, endBB), endBB)

VisitVar(node, st) ==
    LET var == Find(st, node.id)
        s == [st EXCEPT !.value = var]
    IN  CASE node.index # NoNode -> VisitElement(node, var, s)
          [] node.index = NoNode /\ st.lval -> s
          [] OTHER -> IF Pointee(var)[1] = "array"
                      THEN Gep(s, var, <<ConstInt("0"), ConstInt("0")>>)
                      ELSE Load(s, var)

VisitAssignExpression(node, st) ==
    LET s1 == [Visit(node.var, [st EXCEPT !.lval = TRUE]) EXCEPT !.lval = FALSE]
        s2 == Visit(node.expr, s1)
        s3 == IF Pointee(s1.value) # s2.value.type
              THEN Convert(s2, FLOAT, INT32) ELSE s2
    IN  Emit(s3, <<"store">>, VOID, <<s3.value, s1.value>>)

(* the common part of the relational, the additive and the multiplicative  *)
(* expression: both operands, then promotion, left first                   *)
Operands(node, st) ==
    LET s1 == Visit(node.left, st)
        s2 == Visit(node.right, s1)
        float == IsFloat(s1.value.type) \/ IsFloat(s2.value.type)
        s3 == Promote(s2, s1.value)
        s4 == Promote(s3, s2.value)
    IN  IF float THEN [st |-> s4, left |-> s3.new, right |-> s4.new, float |-> TRUE]
        ELSE [st |-> s2, left |-> s1.value, right |-> s2.value, float |-> FALSE]

VisitRelational(node, st) ==
    LET o == Operands(node, st)
        s == EmitCurrent(o.st, <<IF o.float THEN "fcmp" ELSE "icmp", node.op>>, INT1,
                         <<o.left, o.right>>)
    IN  EmitCurrent(s, <<"zext">>, INT32, <<s.value>>)

VisitArithmetic(node, st) ==
    LET o == Operands(node, st)
    IN  EmitCurrent(o.st, <<IF o.float THEN "farith" ELSE "iarith", node.op>>,
                    IF o.float THEN FLOAT ELSE INT32, <<o.left, o.right>>)

VisitCall(node, st) ==
    LET fun == Find(st, node.id)
        sig == st.sigs[fun.ref[1]]
        VisitArg(acc, i) ==
            LET s1 == Visit(node.args[i], acc.st)
                s2 == IF s1.value.type # sig.params[i]
                      THEN Convert(s1, sig.params[i], sig.params[i]) ELSE s1
            IN  [st |-> s2, args |-> Append(acc.args, s2.value)]
        all == FoldLeft(VisitArg, [st |-> st, args |-> <<>>],
                        [i \in DOMAIN node.args |-> i])
    IN  EmitCurrent(all.st, <<"call">>, sig.ret, <<fun>> \o all.args)

Visit(node, st) ==
    CASE node.is = "num" -> VisitNum(node, st)
      [] node.is = "vardecl" -> VisitVarDeclaration(node, st)
      [] node.is = "fundecl" -> VisitFunDeclaration(node, st)
      [] node.is = "compound" -> VisitCompoundStmt(node, st)
      [] node.is = "exprstmt" -> VisitExpressionStmt(node, st)
      [] node.is = "if" -> VisitSelectionStmt(node, st)
      [] node.is = "while" -> VisitIterationStmt(node, st)
      [] node.is = "return" -> VisitReturnStmt(node, st)
      [] node.is = "var" -> VisitVar(node, st)
      [] node.is = "assign" -> VisitAssignExpression(node, st)
      [] node.is = "relop" -> VisitRelational(node, st)
      [] node.is = "arith" -> VisitArithmetic(node, st)
      [] node.is = "call" -> VisitCall(node, st)

(* the constructor: the library functions are in the outermost scope *)
Library == "input" :> [ret |-> INT32, params |-> <<>>]
        @@ "output" :> [ret |-> VOID, params |-> <<INT32>>]
        @@ "outputFloat" :> [ret |-> VOID, params |-> <<FLOAT>>]
        @@ "neg_idx_except" :> [ret |-> VOID, params |-> <<>>]

NewBuilder ==
    [blocks |-> <<>>, at |-> 0, value |-> NoValue, new |-> NoValue, lval |-> FALSE,
     fn |-> "none", sigs |-> Library,
     scope |-> <<[f \in DOMAIN Library |-> Value("fun", <<"fun">>, <<f>>)]>>]

VisitProgram(decls) == FoldLeft(LAMBDA s, decl : Visit(decl, s), NewBuilder, decls)

=============================================================================
