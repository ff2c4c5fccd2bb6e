-------------------------------- MODULE Ast --------------------------------
(***************************************************************************)
(* The AST and its conversion from the syntax tree.  A simple or additive  *)
(* expression or a term with one operand only is that operand here; the    *)
(* size of an array is left out.                                           *)
(***************************************************************************)
EXTENDS SyntaxTree

NoNode == [is |-> "none"]

ASTNum(text, type) == [is |-> "num", text |-> text, type |-> type]
ASTVar(id, index) == [is |-> "var", id |-> id, index |-> index]
ASTAssignExpression(var, expr) == [is |-> "assign", var |-> var, expr |-> expr]
ASTSimpleExpression(op, l, r) == [is |-> "relop", op |-> op, left |-> l, right |-> r]
ASTArithmetic(op, l, r) == [is |-> "arith", op |-> op, left |-> l, right |-> r]
ASTCall(id, args) == [is |-> "call", id |-> id, args |-> args]

ASTExpressionStmt(e) == [is |-> "exprstmt", expr |-> e]
ASTReturnStmt(e) == [is |-> "return", expr |-> e]
ASTSelectionStmt(c, s, t) == [is |-> "if", cond |-> c, then |-> s, else |-> t]
ASTIterationStmt(c, s) == [is |-> "while", cond |-> c, body |-> s]
ASTCompoundStmt(decls, stmts) == [is |-> "compound", decls |-> decls, stmts |-> stmts]

ASTVarDeclaration(id, type, array) == [is |-> "vardecl", id |-> id, type |-> type, array |-> array]
ASTParam(id, type, array) == [id |-> id, type |-> type, array |-> array]
ASTFunDeclaration(id, type, params, body) ==
    [is |-> "fundecl", id |-> id, type |-> type, params |-> params, body |-> body]

-----------------------------------------------------------------------------
(* transform_node_iter *)

Children(n) == Len(n.children)

\* The elements of a list whose longer form has n children.  The code walks it
\* from the last to the first and turns it around with a stack.
RECURSIVE Elements(_, _)
Elements(list, n) ==
    IF Children(list) # n THEN <<list.children[1]>>
    ELSE Append(Elements(list.children[1], n), list.children[n])

\* Faulty variant: the list as it was walked.
LaterElementsWalked(list) == IF Children(list) = 2 THEN Reverse(Tail(Elements(list, 2))) ELSE <<>>

\* Of a list that may be empty, the first node holds no element.
LaterElements(list) == IF Children(list) = 2 THEN Tail(Elements(list, 2)) ELSE <<>>

\* Whatever is not int is float: a variable or parameter of type void is.
VarType(specifier) == IF specifier.children[1].name = "int" THEN "int" ELSE "float"
FunType(specifier) ==
    IF specifier.children[1].name \in {"int", "float"} THEN specifier.children[1].name ELSE "void"

OpOf(ops, n) == CHOOSE op \in DOMAIN ops : ops[op] = n.children[1].name

RECURSIVE TransformNode(_)

TransformAll(trees) == [k \in DOMAIN trees |-> TransformNode(trees[k])]

TransformFactor(n) ==
    LET child == n.children[IF Children(n) = 3 THEN 2 ELSE 1]
    IN  IF child.name \in {"expression", "var", "call"} THEN TransformNode(child)
        ELSE ASTNum(child.children[1].name, IF child.name = "integer" THEN "int" ELSE "float")

TransformArgs(n) ==
    IF n.children[1].name = "arg-list" THEN TransformAll(Elements(n.children[1], 3)) ELSE <<>>

TransformParams(n) ==
    IF Children(n.children[1]) # 0 THEN TransformAll(Elements(n.children[1], 3)) ELSE <<>>

TransformDeclaration(n) ==
    LET child(k) == n.children[k]
        many == Children(n)
    IN  CASE n.name = "declaration" -> TransformNode(child(1))
          [] n.name = "var-declaration" -> ASTVarDeclaration(child(2).name, VarType(child(1)), many = 6)
          [] n.name = "fun-declaration" ->
                ASTFunDeclaration(child(2).name, FunType(child(1)), TransformParams(child(4)),
                                  TransformNode(child(6)))
          [] n.name = "param" -> ASTParam(child(2).name, VarType(child(1)), many > 2)

TransformStatement(n) ==
    LET sub(k) == TransformNode(n.children[k])
        elements(k) == TransformAll(LaterElements(n.children[k]))
        many == Children(n)
    IN  CASE n.name = "statement" -> sub(1)
          [] n.name = "compound-stmt" -> ASTCompoundStmt(elements(2), elements(3))
          [] n.name = "expression-stmt" -> ASTExpressionStmt(IF many = 2 THEN sub(1) ELSE NoNode)
          [] n.name = "selection-stmt" -> ASTSelectionStmt(sub(3), sub(5), IF many = 7 THEN sub(7) ELSE NoNode)
          [] n.name = "iteration-stmt" -> ASTIterationStmt(sub(3), sub(5))
          [] n.name = "return-stmt" -> ASTReturnStmt(IF many = 3 THEN sub(2) ELSE NoNode)

TransformExpression(n) ==
    LET sub(k) == TransformNode(n.children[k])
        Binary(construct(_, _, _), ops) ==
            IF Children(n) = 3 THEN construct(OpOf(ops, n.children[2]), sub(1), sub(3)) ELSE sub(1)
    IN  CASE n.name = "expression" -> IF Children(n) = 1 THEN sub(1) ELSE ASTAssignExpression(sub(1), sub(3))
          [] n.name = "var" -> ASTVar(n.children[1].name, IF Children(n) = 4 THEN sub(3) ELSE NoNode)
          [] n.name = "simple-expression" -> Binary(ASTSimpleExpression, RelOps)
          [] n.name = "additive-expression" -> Binary(ASTArithmetic, AddOps)
          [] n.name = "term" -> Binary(ASTArithmetic, MulOps)
          [] n.name = "factor" -> TransformFactor(n)
          [] n.name = "call" -> ASTCall(n.children[1].name, TransformArgs(n.children[3]))

TransformNode(n) ==
    CASE n.name = "program" -> TransformAll(Elements(n.children[1], 2))
      [] n.name \in {"declaration", "var-declaration", "fun-declaration", "param"} -> TransformDeclaration(n)
      [] n.name \in {"statement", "compound-stmt", "expression-stmt", "selection-stmt", "iteration-stmt",
                     "return-stmt"} -> TransformStatement(n)
      [] OTHER -> TransformExpression(n)
=============================================================================
