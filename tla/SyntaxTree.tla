----------------------------- MODULE SyntaxTree -----------------------------
(***************************************************************************)
(* The syntax tree that the parser's actions build for the text of a       *)
(* program.  The program is given as what it means, an AST of module Ast;  *)
(* the text has parentheses only where the grammar needs them.  The states *)
(* of bison's automaton are left out.                                      *)
(***************************************************************************)
EXTENDS Sequences, SequencesExt, TLC

Leaf(text) == [name |-> text, children |-> <<>>]

\* A node without children gets one that is called epsilon.
TreeNode(name, children) ==
    [name |-> name, children |-> IF children = <<>> THEN <<Leaf("epsilon")>> ELSE children]

Token(texts) == [k \in DOMAIN texts |-> Leaf(texts[k])]

\* Lists are left recursive; some have separators, some may be empty.
NonEmpty(name, separator, trees) ==
    FoldLeft(LAMBDA list, t : TreeNode(name, <<list>> \o Token(separator) \o <<t>>),
             TreeNode(name, <<Head(trees)>>), Tail(trees))
MaybeEmpty(name, trees) ==
    FoldLeft(LAMBDA list, t : TreeNode(name, <<list, t>>), TreeNode(name, <<>>), trees)

RelOps == "le" :> "<=" @@ "lt" :> "<" @@ "gt" :> ">" @@ "ge" :> ">=" @@ "eq" :> "==" @@ "ne" :> "!="
AddOps == "add" :> "+" @@ "sub" :> "-"
MulOps == "mul" :> "*" @@ "div" :> "/"
Operator(name, text) == TreeNode(name, <<Leaf(text)>>)

RECURSIVE ExpressionTree(_)
RECURSIVE AdditiveTree(_)
RECURSIVE TermTree(_)

VarTree(e) ==
    IF e.index.is = "none" THEN TreeNode("var", <<Leaf(e.id)>>)
    ELSE TreeNode("var", <<Leaf(e.id), Leaf("["), ExpressionTree(e.index), Leaf("]")>>)

ArgsTree(args) ==
    IF args = <<>> THEN TreeNode("args", <<>>)
    ELSE TreeNode("args", <<NonEmpty("arg-list", <<",">>, [k \in DOMAIN args |-> ExpressionTree(args[k])])>>)

CallTree(e) == TreeNode("call", <<Leaf(e.id), Leaf("("), ArgsTree(e.args), Leaf(")")>>)

FactorTree(e) ==
    CASE e.is = "num" -> TreeNode("factor", <<TreeNode(IF e.type = "int" THEN "integer" ELSE "float", <<Leaf(e.text)>>)>>)
      [] e.is = "var" -> TreeNode("factor", <<VarTree(e)>>)
      [] e.is = "call" -> TreeNode("factor", <<CallTree(e)>>)
      [] OTHER -> TreeNode("factor", <<Leaf("("), ExpressionTree(e), Leaf(")")>>)

TermTree(e) ==
    IF e.is = "arith" /\ e.op \in DOMAIN MulOps
    THEN TreeNode("term", <<TermTree(e.left), Operator("mulop", MulOps[e.op]), FactorTree(e.right)>>)
    ELSE TreeNode("term", <<FactorTree(e)>>)

AdditiveTree(e) ==
    IF e.is = "arith" /\ e.op \in DOMAIN AddOps
    THEN TreeNode("additive-expression",
              <<AdditiveTree(e.left), Operator("addop", AddOps[e.op]), TermTree(e.right)>>)
    ELSE TreeNode("additive-expression", <<TermTree(e)>>)

SimpleTree(e) ==
    IF e.is = "relop"
    THEN TreeNode("simple-expression",
              <<AdditiveTree(e.left), Operator("relop", RelOps[e.op]), AdditiveTree(e.right)>>)
    ELSE TreeNode("simple-expression", <<AdditiveTree(e)>>)

ExpressionTree(e) ==
    IF e.is = "assign" THEN TreeNode("expression", <<VarTree(e.var), Leaf("="), ExpressionTree(e.expr)>>)
    ELSE TreeNode("expression", <<SimpleTree(e)>>)

-----------------------------------------------------------------------------
TypeSpecifier(type) == TreeNode("type-specifier", <<Leaf(type)>>)

VarDeclarationTree(d) ==
    TreeNode("var-declaration",
         <<TypeSpecifier(d.type), Leaf(d.id)>> \o Token(IF d.array THEN <<"[", "8", "]", ";">> ELSE <<";">>))

RECURSIVE StatementTree(_)

CompoundTree(s) ==
    TreeNode("compound-stmt",
         <<Leaf("{"),
           MaybeEmpty("local-declarations", [k \in DOMAIN s.decls |-> VarDeclarationTree(s.decls[k])]),
           MaybeEmpty("statement-list", [k \in DOMAIN s.stmts |-> StatementTree(s.stmts[k])]),
           Leaf("}")>>)

\* keyword ( condition ) body
Guarded(keyword, cond, body) ==
    <<Leaf(keyword), Leaf("("), ExpressionTree(cond), Leaf(")"), StatementTree(body)>>

StatementTree(s) ==
    TreeNode("statement", <<
      CASE s.is = "compound" -> CompoundTree(s)
        [] s.is = "exprstmt" /\ s.expr.is = "none" -> TreeNode("expression-stmt", <<Leaf(";")>>)
        [] s.is = "exprstmt" /\ s.expr.is # "none" ->
              TreeNode("expression-stmt", <<ExpressionTree(s.expr), Leaf(";")>>)
        [] s.is = "if" /\ s.else.is = "none" -> TreeNode("selection-stmt", Guarded("if", s.cond, s.then))
        [] s.is = "if" /\ s.else.is # "none" ->
              TreeNode("selection-stmt",
                   Guarded("if", s.cond, s.then) \o <<Leaf("else"), StatementTree(s.else)>>)
        [] s.is = "while" -> TreeNode("iteration-stmt", Guarded("while", s.cond, s.body))
        [] s.is = "return" /\ s.expr.is = "none" -> TreeNode("return-stmt", Token(<<"return", ";">>))
        [] s.is = "return" /\ s.expr.is # "none" ->
              TreeNode("return-stmt", <<Leaf("return"), ExpressionTree(s.expr), Leaf(";")>>)>>)

ParamTree(p) ==
    TreeNode("param", <<TypeSpecifier(p.type), Leaf(p.id)>> \o Token(IF p.array THEN <<"[", "]">> ELSE <<>>))

ParamsTree(params) ==
    TreeNode("params", <<IF params = <<>> THEN Leaf("void")
                     ELSE NonEmpty("param-list", <<",">>, [k \in DOMAIN params |-> ParamTree(params[k])])>>)

FunDeclarationTree(d) ==
    TreeNode("fun-declaration", <<TypeSpecifier(d.type), Leaf(d.id), Leaf("("), ParamsTree(d.params), Leaf(")"),
                              CompoundTree(d.body)>>)

DeclarationTree(d) ==
    TreeNode("declaration", <<IF d.is = "fundecl" THEN FunDeclarationTree(d) ELSE VarDeclarationTree(d)>>)

ProgramTree(decls) ==
    TreeNode("program", <<NonEmpty("declaration-list", <<>>, [k \in DOMAIN decls |-> DeclarationTree(decls[k])])>>)
=============================================================================
