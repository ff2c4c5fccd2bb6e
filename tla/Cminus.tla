------------------------------- MODULE Cminus -------------------------------
(***************************************************************************)
(* The meaning of a cminus function, as the reference for the builder: the *)
(* set of its traces.  A trace is the sequence of what can be observed:    *)
(* new variables, loads and stores, calls, the outcome of each test, and   *)
(* the return.  Values are terms, so that a trace also says which value    *)
(* is stored, passed, tested or returned, and with which conversions.  A   *)
(* test may come out either way; every loop makes at most MaxLoop rounds.  *)
(*                                                                         *)
(* Nothing of this is in the compiler: it is what its input means.         *)
(***************************************************************************)
EXTENDS Naturals, Sequences, TLC

CONSTANT MaxLoop
ASSUME MaxLoopAssumption == MaxLoop \in Nat

Missing == [is |-> "none"]
Zero == <<"num", "0">>
FloatZero == <<"num", "0.0">>

(* an evaluation or execution: its events, its value, and how it ends      *)
Result(ev, val, type) == [ev |-> ev, val |-> val, type |-> type, ends |-> "next"]

(* every first followed by what comes after it, if it goes on at all       *)
Bind(firsts, After(_)) ==
    UNION {IF f.ends # "next" THEN {f}
           ELSE {[r EXCEPT !.ev = f.ev \o @] : r \in After(f)} : f \in firsts}

AsInt(r) == IF r.type = "float" THEN <<"fptosi", r.val>> ELSE r.val
AsFloat(r) == IF r.type = "int" THEN <<"sitofp", r.val>> ELSE r.val
As(type, r) == CASE type = "int" -> AsInt(r) [] type = "float" -> AsFloat(r) [] OTHER -> r.val

Test(term, outcome) == <<"test", term, outcome>>
NonZero(r) == IF r.type = "float" THEN <<"fcmp", "ne", r.val, FloatZero>>
              ELSE <<"icmp", "ne", r.val, Zero>>

(* the array that a parameter holds, or the array itself *)
Base(var) == IF var.kind = "held" THEN <<"held", var.loc>> ELSE var.loc

RECURSIVE Eval(_, _)

(* the place a variable or an element is at; a negative index is reported  *)
(* and ends the program                                                    *)
Place(e, env) ==
    LET var == env.vars[e.id]
    IN  IF e.index = Missing THEN {Result(<<>>, var.loc, var.type)}
        ELSE Bind(Eval(e.index, env), LAMBDA i :
               LET nonneg == <<"icmp", "ge", AsInt(i), Zero>>
               IN  {Result(<<Test(nonneg, TRUE)>>, <<"elem", Base(var), AsInt(i)>>, var.type),
                    [Result(<<Test(nonneg, FALSE), <<"call", "neg_idx_except", <<>>>>>>,
                            Zero, "int") EXCEPT !.ends = "stop"]})

(* the arguments of a call, from left to right, each as its parameter *)
RECURSIVE EvalArgs(_, _, _)
EvalArgs(args, types, env) ==
    IF args = <<>> THEN {Result(<<>>, <<>>, "args")}
    ELSE Bind(Eval(Head(args), env), LAMBDA a :
           Bind(EvalArgs(Tail(args), Tail(types), env), LAMBDA rest :
             {Result(<<>>, <<As(Head(types), a)>> \o rest.val, "args")}))

Eval(e, env) ==
    CASE e.is = "num" -> {Result(<<>>, <<"num", e.text>>, e.type)}
      [] e.is = "var" ->
            IF e.index = Missing /\ env.vars[e.id].kind # "scalar"
            THEN LET var == env.vars[e.id]
                 IN  {Result(<<>>, IF var.kind = "held" THEN Base(var)
                                   ELSE <<"elem", var.loc, Zero>>, "array")}
            ELSE Bind(Place(e, env), LAMBDA p :
                   {Result(<<<<"load", p.val>>>>, <<"load", p.val>>, p.type)})
      [] e.is = "assign" ->
            Bind(Place(e.var, env), LAMBDA p :
              Bind(Eval(e.expr, env), LAMBDA v :
                {Result(<<<<"store", As(p.type, v), p.val>>>>, As(p.type, v), p.type)}))
      [] e.is \in {"relop", "arith"} ->
            Bind(Eval(e.left, env), LAMBDA l :
              Bind(Eval(e.right, env), LAMBDA r :
                LET float == "float" \in {l.type, r.type}
                    args == IF float THEN <<AsFloat(l), AsFloat(r)>> ELSE <<l.val, r.val>>
                IN  IF e.is = "relop"
                    THEN {Result(<<>>, <<"zext", <<IF float THEN "fcmp" ELSE "icmp", e.op>>
                                                   \o args>>, "int")}
                    ELSE {Result(<<>>, <<IF float THEN "farith" ELSE "iarith", e.op>>
                                       \o args, IF float THEN "float" ELSE "int")}))
      [] e.is = "call" ->
            Bind(EvalArgs(e.args, env.funs[e.id].params, env), LAMBDA as :
              {Result(<<<<"call", e.id, as.val>>>>, <<"result", e.id, as.val>>,
                      env.funs[e.id].ret)})

-----------------------------------------------------------------------------
(* Statements.  `news` is the number of variables made so far: it names    *)
(* the next one, and travels in the value of a result.                     *)

Done(ev, news) == Result(ev, news, "stmt")
Returned(ev) == [Result(ev, 0, "stmt") EXCEPT !.ends = "return"]

Declare(decl, kind, env, news) ==
    [env EXCEPT !.vars = (decl.id :> [loc |-> <<"loc", news>>, type |-> decl.type,
                                      kind |-> kind]) @@ @]

DeclKind(decl) == IF decl.array THEN "array" ELSE "scalar"

RECURSIVE Exec(_, _, _)
RECURSIVE ExecAll(_, _, _)
RECURSIVE ExecBlock(_, _, _, _)
RECURSIVE ExecLoop(_, _, _, _)

ExecAll(stmts, env, news) ==
    IF stmts = <<>> THEN {Done(<<>>, news)}
    ELSE Bind(Exec(Head(stmts), env, news), LAMBDA d : ExecAll(Tail(stmts), env, d.val))

(* local declarations come first; each makes a variable *)
ExecBlock(decls, stmts, env, news) ==
    IF decls = <<>> THEN ExecAll(stmts, env, news)
    ELSE LET decl == Head(decls)
             inner == Declare(decl, DeclKind(decl), env, news)
         IN  Bind({Done(<<<<"new", <<"loc", news>>>>>>, news)}, LAMBDA d :
                  ExecBlock(Tail(decls), stmts, inner, news + 1))

ExecLoop(node, env, news, rounds) ==
    Bind(Eval(node.cond, env), LAMBDA c :
        {Done(<<Test(NonZero(c), FALSE)>>, news)}
        \cup (IF rounds = 0 THEN {}
              ELSE Bind({Done(<<Test(NonZero(c), TRUE)>>, news)}, LAMBDA d :
                     Bind(Exec(node.body, env, news), LAMBDA b :
                        ExecLoop(node, env, b.val, rounds - 1)))))

Exec(node, env, news) ==
    CASE node.is = "compound" -> ExecBlock(node.decls, node.stmts, env, news)
      [] node.is = "exprstmt" ->
            IF node.expr = Missing THEN {Done(<<>>, news)}
            ELSE Bind(Eval(node.expr, env), LAMBDA e : {Done(<<>>, news)})
      [] node.is = "if" ->
            Bind(Eval(node.cond, env), LAMBDA c :
              Bind({Done(<<Test(NonZero(c), TRUE)>>, news)},
                   LAMBDA d : Exec(node.then, env, news))
              \cup Bind({Done(<<Test(NonZero(c), FALSE)>>, news)},
                        LAMBDA d : IF node.else = Missing THEN {Done(<<>>, news)}
                                   ELSE Exec(node.else, env, news)))
      [] node.is = "while" -> ExecLoop(node, env, news, MaxLoop)
      [] node.is = "return" ->
            IF node.expr = Missing THEN {Returned(<<<<"ret">>>>)}
            ELSE Bind(Eval(node.expr, env), LAMBDA e :
                   {Returned(<<<<"ret", As(env.ret, e)>>>>)})

(* the parameters are variables that hold the arguments *)
RECURSIVE ExecFunction(_, _, _, _)
ExecFunction(params, node, env, news) ==
    IF params = <<>>
    THEN Bind(Exec(node.body, env, news), LAMBDA d :
           {Returned(<<CASE env.ret = "int" -> <<"ret", Zero>>
                         [] env.ret = "float" -> <<"ret", FloatZero>>
                         [] OTHER -> <<"ret">>>>)})
    ELSE LET p == Head(params)
             loc == <<"loc", news>>
             inner == Declare(p, IF p.array THEN "held" ELSE "scalar", env, news)
         IN  Bind({Done(<<<<"new", loc>>, <<"store", <<"arg", p.id>>, loc>>>>, news)},
                  LAMBDA d : ExecFunction(Tail(params), node, inner, news + 1))

-----------------------------------------------------------------------------
LibraryFuns == "input" :> [ret |-> "int", params |-> <<>>]
            @@ "output" :> [ret |-> "void", params |-> <<"int">>]
            @@ "outputFloat" :> [ret |-> "void", params |-> <<"float">>]

(* what is declared before the last function, and the function itself *)
RECURSIVE Global(_, _)
Global(decls, env) ==
    IF decls = <<>> THEN env
    ELSE LET d == Head(decls)
             rest == Tail(decls)
         IN  IF d.is = "fundecl"
             THEN Global(rest, [env EXCEPT !.funs = (d.id :> [ret |-> d.type,
                     params |-> [i \in DOMAIN d.params |->
                        IF d.params[i].array THEN "array" ELSE d.params[i].type]]) @@ @])
             ELSE Global(rest, [env EXCEPT !.vars = (d.id :>
                     [loc |-> <<"global", d.id>>, type |-> d.type,
                      kind |-> DeclKind(d)]) @@ @])

(* the traces of the last function of a program, for any arguments *)
Traces(decls) ==
    LET fn == decls[Len(decls)]
        env == Global(decls, [vars |-> <<>>, funs |-> LibraryFuns, ret |-> fn.type])
    IN  {r.ev : r \in ExecFunction(fn.params, fn, env, 0)}

=============================================================================
