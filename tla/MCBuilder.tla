----------------------------- MODULE MCBuilder -----------------------------
(***************************************************************************)
(* Programs for TLC: one function around every expression, every nest of   *)
(* statements, and every way to redeclare a name, of a small size.         *)
(***************************************************************************)
EXTENDS BuilderRun

Num(text, type) == ASTNum(text, type)
Elem(id, index) == ASTVar(id, index)
Var(id) == ASTVar(id, NoNode)
Assign(var, expr) == ASTAssignExpression(var, expr)
Less(l, r) == ASTSimpleExpression("lt", l, r)
Minus(l, r) == ASTArithmetic("sub", l, r)
CallOf(id, args) == ASTCall(id, args)

ExprStmt(e) == ASTExpressionStmt(e)
Return(e) == ASTReturnStmt(e)
While(c, s) == ASTIterationStmt(c, s)
Block(decls, stmts) == ASTCompoundStmt(decls, stmts)

\* An else belongs to the nearest if: one that is to have none needs braces.
RECURSIVE TakesElse(_)
TakesElse(s) ==
    CASE s.is = "if" -> s.else = NoNode \/ TakesElse(s.else)
      [] s.is = "while" -> TakesElse(s.body)
      [] OTHER -> FALSE
If(c, s, t) ==
    ASTSelectionStmt(c, IF t # NoNode /\ TakesElse(s) THEN Block(<<>>, <<s>>) ELSE s, t)

Declaration(id, type, array) == ASTVarDeclaration(id, type, array)
Param(id, type, array) == ASTParam(id, type, array)
Function(id, type, params, body) == ASTFunDeclaration(id, type, params, body)

-----------------------------------------------------------------------------
(* int g; float f(float u, int v[]) { }  void k(void) { return; }           *)
(* ... main(int x, float y, int p[]) { float a[..]; ... }                  *)
Before == <<Declaration("g", "int", FALSE),
            Function("f", "float", <<Param("u", "float", FALSE), Param("v", "int", TRUE)>>,
                     Block(<<>>, <<>>)),
            Function("k", "void", <<>>, Block(<<>>, <<Return(NoNode)>>))>>

Program(type, decls, stmts) ==
    Append(Before, Function("main", type,
                            <<Param("x", "int", FALSE), Param("y", "float", FALSE),
                              Param("p", "int", TRUE)>>,
                            Block(<<Declaration("a", "float", TRUE)>> \o decls, stmts)))

(***************************************************************************)
(* Expressions: the atoms; one operation on atoms; one more around that.   *)
(***************************************************************************)
Atoms == {Num("1", "int"), Num("1.5", "float"), Var("x"), Var("y")}
Targeted == {Var("x"), Var("y"), Elem("p", Var("x")), Elem("a", Var("y"))}

OneOp == Atoms
    \cup {Elem(id, i) : id \in {"a", "p"}, i \in Atoms}
    \cup {Assign(Var(id), i) : id \in {"g", "y"}, i \in Atoms}
    \cup {Less(i, j) : i \in Atoms, j \in Atoms}
    \cup {Minus(i, j) : i \in Atoms, j \in Atoms}
    \cup {CallOf("f", <<i, Var("p")>>) : i \in Atoms}
    \cup {CallOf("input", <<>>)}

TwoOps ==
    {Elem(id, i) : id \in {"a", "p"}, i \in OneOp}
    \cup {Assign(t, i) : t \in Targeted, i \in OneOp}
    \cup {Minus(i, j) : i \in OneOp, j \in {Var("y"), Elem("a", Var("x"))}}
    \cup {Less(j, i) : i \in OneOp, j \in {Var("x"), Elem("p", Var("x"))}}
    \cup {CallOf("f", <<i, Var("p")>>) : i \in OneOp}
    \cup {Assign(Elem("p", Assign(Elem("a", Var("x")), i)), Var("y")) : i \in Atoms}

\* Every operator, and every nest of two that needs parentheses or does not.
Sum(op, l, r) == ASTArithmetic(op, l, r)
AllOps ==
    {ASTSimpleExpression(op, Var("x"), Sum("add", Var("y"), Var("x"))) : op \in DOMAIN RelOps}
    \cup {Sum(op1, Sum(op2, Var("x"), Var("y")), Num("1", "int")) :
             op1, op2 \in {"add", "sub", "mul", "div"}}
    \cup {Sum(op1, Var("x"), Sum(op2, Var("y"), Num("1", "int"))) :
             op1, op2 \in {"add", "sub", "mul", "div"}}
    \cup {Sum("mul", Less(Var("x"), Var("y")), Assign(Var("x"), Less(Var("y"), Var("x"))))}

ExprPrograms ==
    {Program("void", <<>>, <<ExprStmt(e)>>) : e \in OneOp \cup TwoOps \cup AllOps}
    \cup {Program(type, <<>>, <<Return(e)>>) : type \in {"int", "float"}, e \in OneOp}
    \cup {Program("int", <<>>, <<If(e, Return(Var("x")), NoNode)>>) : e \in OneOp}
    \cup {Program("void", <<>>, <<ExprStmt(CallOf(id, <<e>>))>>) :
             id \in {"output", "outputFloat"}, e \in Atoms}
    \cup {Program("void", <<>>, <<ExprStmt(CallOf("k", <<>>))>>)}

(***************************************************************************)
(* Statements: every nest of two, and nests of three and four around them. *)
(***************************************************************************)
Simple == {ExprStmt(NoNode), ExprStmt(Assign(Var("x"), Elem("p", Var("x")))), Return(Var("x"))}
Index == Elem("p", Var("x"))

Nest(S) ==
    {If(Index, s, NoNode) : s \in S} \cup {If(Var("x"), s, t) : s \in S, t \in S}
    \cup {While(Index, s) : s \in S} \cup {Block(<<>>, <<s, t>>) : s \in S, t \in S}

Short(S) == {If(Var("y"), s, Return(Var("y"))) : s \in S}
    \cup {If(Var("x"), s, NoNode) : s \in S} \cup {While(Var("x"), s) : s \in S}
    \cup {Block(<<>>, <<s, Return(Var("x"))>>) : s \in S}

StmtPrograms ==
    {Program("int", <<>>, <<s, ExprStmt(Assign(Var("x"), Num("1", "int")))>>) :
        s \in Simple \cup Nest(Simple) \cup Short(Nest(Simple))
               \cup Short(Short(Simple \cup Nest(Simple)))}

(***************************************************************************)
(* Scopes: x is a parameter, g a global; both are redeclared inside.       *)
(***************************************************************************)
Uses == ExprStmt(Assign(Var("x"), Var("g")))
Redeclared == {<<>>, <<Declaration("x", "float", FALSE)>>, <<Declaration("g", "float", FALSE)>>,
               <<Declaration("g", "int", FALSE), Declaration("x", "int", FALSE)>>}
Inner(d) == Block(d, <<Uses>>)

ScopePrograms ==
    {Program("int", <<>>, <<s, Uses, Return(Var("x"))>>) :
        s \in {Block(d1, <<Uses, Inner(d2), Uses>>) : d1 \in Redeclared, d2 \in Redeclared}
         \cup {If(Var("x"), Inner(d1), Inner(d2)) : d1 \in Redeclared, d2 \in Redeclared}
         \cup {While(Var("x"), Block(d1, <<Inner(d2), Uses>>)) :
                  d1 \in Redeclared, d2 \in Redeclared}
         \cup {Block(d1, <<Inner(d2), Return(Var("x")), Uses>>) :
                  d1 \in Redeclared, d2 \in Redeclared}}

MCPrograms == ExprPrograms \cup StmtPrograms \cup ScopePrograms

\* void main(..) { .. while (y) y = 1.5; }
MCFloatLoops ==
    {Program("void", <<>>, <<While(Var("y"), ExprStmt(Assign(Var("y"), Num("1.5", "float"))))>>)}
=============================================================================
