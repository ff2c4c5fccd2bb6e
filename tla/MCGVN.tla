------------------------------- MODULE MCGVN -------------------------------
(***************************************************************************)
(* Functions for TLC, in the shape in which they come from the builder and *)
(* Mem2Reg.                                                                *)
(***************************************************************************)
EXTENDS GVNRun

input == Callee(1)
output == Callee(2)
neg_idx_except == Callee(4)
pure_fun == Callee(10)     \* a user's function that FuncInfo calls pure

MCPure == {pure_fun}
MCVoid == {output, neg_idx_except}
MCExits == {neg_idx_except}

Bin(op, l, r) == Instr(op, "EQ", <<l, r>>)
Cmp(c, l, r) == Instr("cmp", c, <<l, r>>)
Cast(op, v) == Instr(op, "EQ", <<v>>)
CallOf(f, args) == Instr("call", "EQ", <<f>> \o args)
In == CallOf(input, <<>>)
Out(v) == CallOf(output, <<v>>)
Ret(v) == Instr("ret", "EQ", <<v>>)
Br(b) == Instr("br", "EQ", <<Label(b)>>)
CondBr(v, s, t) == Instr("br", "EQ", <<v, Label(s), Label(t)>>)
Phi(v, b, w, c) == Instr("phi", "EQ", <<v, Label(b), w, Label(c)>>)

\* if (input()) with its two targets, at the end of block b after n instructions.
Test(b, n, s, t) == <<In, Cmp("NE", Op(b, n + 1), IntC(0)), CondBr(Op(b, n + 2), s, t)>>

Function(args, globals, preds, body) ==
  [args |-> args, globals |-> globals, preds |-> preds, code |-> body]

(***************************************************************************)
(* Three operations in a row, on arguments and constants that wrap, and    *)
(* on what was computed before; conversions; a pure function and others;   *)
(* loads and stores.                                                       *)
(***************************************************************************)
Straight(args, body) == Function(args, 1, <<<<>>>>, <<body>>)

Sums ==
  {Straight(2, <<i, j, k, Out(Op(1, 1)), Out(Op(1, 2)), Ret(Op(1, 3))>>) :
     i \in {Bin("add", Arg(1), Arg(2)), Bin("mul", IntC(5), IntC(3)), Bin("sub", IntC(-8), IntC(3))},
     j \in {Bin("add", Arg(1), Arg(2)), Bin("add", Arg(2), Arg(1)), Bin("sub", Op(1, 1), IntC(-7)),
            Bin("mul", Op(1, 1), Op(1, 1))},
     k \in {Bin("add", Op(1, 1), Op(1, 2)), Bin("sdiv", Op(1, 2), IntC(2)), Bin("sdiv", Op(1, 1), IntC(-3)),
            Bin("add", Op(1, 2), Op(1, 1))}}

Casts3 ==
  {Straight(1, <<Cast("sitofp", v), Bin(op, Op(1, 1), FpC(3, 2)), Cast("fptosi", Op(1, 2)),
                 Instr("fcmp", c, <<Op(1, 2), FpC(-1, 3)>>), Cast("zext", Op(1, 4)),
                 Bin("add", Op(1, 3), Op(1, 5)), Ret(Op(1, 6))>>) :
     v \in {IntC(-3), IntC(7), Arg(1)}, op \in {"fadd", "fsub", "fmul", "fdiv"}, c \in {"LE", "GT"}}

\* Every comparison, below, at and above equality.
Compares ==
  {Straight(0, <<Instr(op, c, IF op = "cmp" THEN <<IntC(n), IntC(-2)>> ELSE <<FpC(n, 2), FpC(-1, 1)>>),
                 Cast("zext", Op(1, 1)), Ret(Op(1, 2))>>) :
     op \in {"cmp", "fcmp"}, c \in {"EQ", "NE", "GT", "GE", "LT", "LE"}, n \in {-3, -2, -1}}

Calls ==
  {Straight(1, <<CallOf(f, <<Arg(1)>>), i, CallOf(f, <<Arg(1)>>), j,
                 Bin("add", Op(1, 1), Op(1, 3)), Bin("add", Op(1, 3), Op(1, 4)), Out(Op(1, 5)), Ret(Op(1, 6))>>) :
     f \in {Callee(5), pure_fun},
     i \in {Instr("store", "EQ", <<Op(1, 1), Global(1)>>), Out(Op(1, 1))},
     j \in {Instr("load", "EQ", <<Global(1)>>), In}}

(***************************************************************************)
(* int x; int y; int z; if (input()) {x = i; y = j; z = k;} else {..}      *)
(* output(op(x, y)); return z; and the same with z computed once more, as  *)
(* the phi of both arms.                                                   *)
(***************************************************************************)
Arm(b, l, r, op) ==
  <<Bin("add", l, IntC(1)), Bin("add", r, IntC(2)), Bin(op, Op(b, 1), Op(b, 2)), Br(4)>>

Diamond(args, first, second, rest) ==
  Function(args, 0, <<<<>>, <<1>>, <<1>>, <<2, 3>>>>, <<Test(1, 0, 2, 3), first, second, rest>>)

Both(k) == Phi(Op(2, k), 2, Op(3, k), 3)

Diamonds ==
  {Diamond(2, Arm(2, Arg(1), l, op), Arm(3, r, Arg(2), op),
           <<Both(1), Both(2), Both(3), Bin("mul", Op(4, 1), Op(4, 2)), Out(Op(4, 4)), Ret(Op(4, 3))>>) :
     l \in {Arg(1), Arg(2), IntC(7)}, r \in {Arg(1), Arg(2), IntC(4)}, op \in {"mul", "add", "sub"}}

\* The value of an arm that does not set the variable comes from the entry.
Triangles ==
  {Diamond(1, <<Bin("add", Arg(1), v), Br(4)>>, <<Br(4)>>,
           <<Phi(Op(2, 1), 2, w, 3), Bin("add", Arg(1), v), Bin("add", Op(4, 2), Op(4, 1)), Ret(Op(4, 3))>>) :
     v \in {Arg(1), IntC(1)}, w \in {Arg(1), IntC(1), IntC(0)}}

\* x = a; y = a; if (input()) {if (input()) {x = a + 1; y = i;} else {x = j; y = k;}
\* output(x + y);} else x = a + 1; output(x); return y;
NestedIfs ==
  {Function(1, 0, <<<<>>, <<1>>, <<1>>, <<7, 3>>, <<2>>, <<2>>, <<5, 6>>>>,
            <<Test(1, 0, 2, 3), Test(2, 0, 5, 6), <<Bin("add", Arg(1), IntC(1)), Br(4)>>,
              <<Phi(Op(7, 1), 7, Arg(1), 3), Phi(Op(7, 2), 7, Op(3, 1), 3), Out(Op(4, 2)), Ret(Op(4, 1))>>,
              <<Bin("add", Arg(1), IntC(1)), i, Br(7)>>, <<j, k, Br(7)>>,
              <<Phi(Op(5, 2), 5, Op(6, 2), 6), Phi(Op(5, 1), 5, Op(6, 1), 6),
                Bin("add", Op(7, 2), Op(7, 1)), Out(Op(7, 3)), Br(4)>>>>) :
     i \in {Bin("add", Arg(1), IntC(1)), Bin("mul", Arg(1), IntC(2))},
     j \in {Bin("add", Arg(1), IntC(n)) : n \in 1..2}, k \in {Bin("add", Arg(1), IntC(1)), Bin("mul", Arg(1), IntC(2))}}

\* if (input()) {if (input()) arm else arm} else arm; output(op(x, y)); output(z);
\* x and y are phis of phis; z is too, or every arm prints its own.
NestedArm(b, n, op, to, print) ==
  <<Bin("add", Arg(1), IntC(n)), Bin("add", Arg(1), IntC(n + 1)), Bin(op, Op(b, 1), Op(b, 2))>>
    \o (IF print THEN <<Out(Op(b, 3))>> ELSE <<>>) \o <<Br(to)>>

Joined(n, c, d, rest) == [k \in 1..n |-> Phi(Op(c, k), c, Op(d, k), d)] \o rest

NestedJoins ==
  {Function(1, 0, <<<<>>, <<1>>, <<1>>, <<7, 3>>, <<2>>, <<2>>, <<5, 6>>>>,
            <<Test(1, 0, 2, 3), Test(2, 0, 5, 6), NestedArm(3, 1, op, 4, n = 2),
              Joined(n, 7, 3, <<Bin(op, Op(4, 1), Op(4, 2)), Out(Op(4, n + 1)), Ret(Op(4, n))>>),
              NestedArm(5, k, op, 7, n = 2), NestedArm(6, 3, op, 7, n = 2),
              Joined(n, 5, 6, <<Br(4)>>)>>) :
     op \in {"add", "mul"}, k \in {1, 4}, n \in {2, 3}}

\* Both arms return; the block after the if has no predecessor.
BothReturn ==
  {Function(1, 0, <<<<>>, <<1>>, <<1>>, <<>>>>,
            <<Test(1, 0, 2, 3), <<Bin("add", Arg(1), v), Ret(Op(2, 1))>>,
              <<Bin("add", Arg(1), IntC(1)), Bin("sub", Op(3, 1), v), Ret(Op(3, 2))>>,
              <<Bin("add", Arg(1), Arg(1)), Ret(Op(4, 1))>>>>) : v \in {Arg(1), IntC(1)}}

(***************************************************************************)
(* i = 0; j = init; while (i < a) {i = i + 1; j = j + step; .. output(k);} *)
(* return j; where two variables may step alike, k is what may have been   *)
(* computed before, and the loop may contain an if.                        *)
(***************************************************************************)
Header(init, back) ==
  <<Phi(IntC(0), 1, Op(3, 1), back), Phi(init, 1, Op(3, 2), back), Cmp("LT", Op(2, 1), Arg(1)),
    Cast("zext", Op(2, 3)), Cmp("NE", Op(2, 4), IntC(0)), CondBr(Op(2, 5), 3, 4)>>

Body(step, k) == <<Bin("add", Op(2, 1), IntC(1)), Bin("add", Op(2, 2), step), k>>

Loops ==
  {Function(1, 0, <<<<>>, <<1, 3>>, <<2>>, <<2>>>>,
            <<<<Br(2)>>, Header(init, 3), Body(step, k) \o <<Out(Op(3, 3)), Br(2)>>,
              <<Bin("add", Op(2, 1), IntC(1)), Out(Op(4, 1)), Ret(Op(2, 2))>>>>) :
     init \in {IntC(0), Arg(1)}, step \in {IntC(1), Op(2, 1)},
     k \in {Bin("add", Op(2, 2), IntC(1)), Bin("mul", Arg(1), Arg(1))}}

LoopsWithIf ==
  {Function(1, 0, <<<<>>, <<1, 7>>, <<2>>, <<2>>, <<3>>, <<3>>, <<5, 6>>>>,
            <<<<Br(2)>>, Header(init, 7), Body(IntC(1), Bin("add", Op(2, 2), IntC(1))) \o Test(3, 3, 5, 6),
              <<Ret(Op(2, 2))>>,
              <<Bin("add", Op(2, 1), IntC(1)), Br(7)>>, <<Bin("add", v, IntC(1)), Br(7)>>,
              <<Phi(Op(5, 1), 5, Op(6, 1), 6), Out(Op(7, 1)), Out(Op(3, 3)), Br(2)>>>>) :
     init \in {IntC(0), IntC(1)}, v \in {Op(2, 1), Op(3, 1)}}

\* for (i = 0; i < a; i = i + 1) {for (k = init; k < a; k = k + step) output(k); output(i + 1);}
NestedLoops ==
  {Function(1, 0, <<<<>>, <<1, 7>>, <<2>>, <<2>>, <<3, 6>>, <<5>>, <<5>>>>,
            <<<<Br(2)>>,
              <<Phi(IntC(0), 1, Op(7, 3), 7), Cmp("LT", Op(2, 1), Arg(1)), Cast("zext", Op(2, 2)),
                Cmp("NE", Op(2, 3), IntC(0)), CondBr(Op(2, 4), 3, 4)>>,
              <<Br(5)>>, <<Ret(Op(2, 1))>>,
              <<Phi(init, 3, Op(6, 2), 6), Cmp("LT", Op(5, 1), Arg(1)), Cast("zext", Op(5, 2)),
                Cmp("NE", Op(5, 3), IntC(0)), CondBr(Op(5, 4), 6, 7)>>,
              <<Out(Op(5, 1)), Bin("add", Op(5, 1), step), Br(5)>>,
              <<Bin("add", Op(2, 1), IntC(1)), Out(Op(7, 1)), Bin("add", Op(2, 1), IntC(1)), Br(2)>>>>) :
     init \in {IntC(0), Op(2, 1)}, step \in {IntC(1), Op(2, 1)}}

\* if (input()) {while (input()) a = last;} output(a); return a + 1;
\* The block after the if comes before the loop in the list.
LoopsInIf ==
  {Function(1, 0, <<<<>>, <<1>>, <<1>>, <<7, 3>>, <<2, 6>>, <<5>>, <<5>>>>,
            <<Test(1, 0, 2, 3), <<Br(5)>>, <<Br(4)>>,
              <<Phi(Op(5, 1), 7, Arg(1), 3), Out(Op(4, 1)), Bin("add", Op(4, 1), IntC(1)), Ret(Op(4, 3))>>,
              <<Phi(Arg(1), 2, l[1], 6)>> \o Test(5, 1, 6, 7), l[2], <<Br(4)>>>>) :
     l \in {<<IntC(1), <<Br(5)>>>>, <<Op(6, 1), <<Bin("add", Op(5, 1), IntC(1)), Br(5)>>>>}}

(***************************************************************************)
(* output(h[a + 1]); return h[i]; with the test of each index.             *)
(***************************************************************************)
Element(b, idx) == Instr("getelementptr", "EQ", <<Global(1), IntC(0), idx>>)
CheckIndex(idx, b, n, s) == <<Cmp("GE", idx, IntC(0)), CondBr(Op(b, n), s, s + 1)>>
Except(b) == <<CallOf(neg_idx_except, <<>>), Br(b)>>

Indexing ==
  {Function(1, 1, <<<<>>, <<1>>, <<1>>, <<2, 3>>, <<4>>, <<4>>, <<5, 6>>>>,
            <<<<Bin("add", Arg(1), IntC(1))>> \o CheckIndex(Op(1, 1), 1, 2, 2),
              <<Element(2, Op(1, 1)), Instr("load", "EQ", <<Op(2, 1)>>), Br(4)>>, Except(4),
              <<Out(Op(2, 2)), i>> \o CheckIndex(Op(4, 2), 4, 3, 5),
              <<Element(5, Op(4, 2)), Instr("load", "EQ", <<Op(5, 1)>>), Br(7)>>, Except(7),
              <<Ret(Op(5, 2))>>>>) :
     i \in {Bin("add", Arg(1), IntC(1)), Bin("add", Op(1, 1), IntC(1))}}

MCFunctions ==
  Sums \cup Casts3 \cup Compares \cup Calls \cup Diamonds \cup Triangles \cup NestedIfs \cup NestedJoins \cup BothReturn
    \cup Loops \cup LoopsWithIf \cup NestedLoops \cup LoopsInIf \cup Indexing

(***************************************************************************)
(* int i; int prev; i = 0; prev = 0;                                       *)
(* while (input()) {output(prev); prev = i; i = i + a;} return 0;          *)
(* The phi of prev reads the phi of i.                                     *)
(***************************************************************************)
MCPhiOfPhi ==
  {Function(1, 0, <<<<>>, <<1, 3>>, <<2>>, <<2>>>>,
            <<<<Br(2)>>,
              <<Phi(IntC(0), 1, Op(2, 2), 3), Phi(IntC(0), 1, Op(3, 2), 3)>> \o Test(2, 2, 3, 4),
              <<Out(Op(2, 1)), Bin("add", Op(2, 2), Arg(1)), Br(2)>>,
              <<Ret(IntC(0))>>>>)}

(***************************************************************************)
(* if (input()) {x = a; y = b;} else {x = 1; y = 2;}                       *)
(* if (input()) z = a + b; else z = 1 + 2; output(z); return x + y;        *)
(* The arms of the second if compute what the arms of the first one would  *)
(* give x + y, on other paths.                                             *)
(***************************************************************************)
MCTwoJoins ==
  {Function(2, 0, <<<<>>, <<1>>, <<1>>, <<2, 3>>, <<4>>, <<4>>, <<5, 6>>>>,
            <<Test(1, 0, 2, 3), <<Br(4)>>, <<Br(4)>>,
              <<Phi(Arg(1), 2, IntC(1), 3), Phi(Arg(2), 2, IntC(2), 3)>> \o Test(4, 2, 5, 6),
              <<Bin("add", Arg(1), Arg(2)), Br(7)>>, <<Bin("add", IntC(1), IntC(2)), Br(7)>>,
              <<Phi(Op(5, 1), 5, Op(6, 1), 6), Bin("add", Op(4, 1), Op(4, 2)), Out(Op(7, 1)), Ret(Op(7, 2))>>>>)}

(***************************************************************************)
(* while (input()) {if (input()) {if (input()) a = 1;}                     *)
(*                  else {if (input()) a = 2;}} return a;                  *)
(* The join of the outer if comes before the joins of the inner ones.      *)
(***************************************************************************)
MCNested ==
  {Function(1, 0,
     <<<<>>, <<1, 7>>, <<2>>, <<2>>, <<3>>, <<3>>, <<10, 13>>, <<5>>, <<5>>, <<8, 9>>,
       <<6>>, <<6>>, <<11, 12>>>>,
     <<<<Br(2)>>, <<Phi(Arg(1), 1, Op(7, 1), 7)>> \o Test(2, 1, 3, 4),
       Test(3, 0, 5, 6), <<Ret(Op(2, 1))>>, Test(5, 0, 8, 9), Test(6, 0, 11, 12),
       <<Phi(Op(10, 1), 10, Op(13, 1), 13), Br(2)>>,
       <<Br(10)>>, <<Br(10)>>, <<Phi(IntC(1), 8, Op(2, 1), 9), Br(7)>>,
       <<Br(13)>>, <<Br(13)>>, <<Phi(IntC(2), 11, Op(2, 1), 12), Br(7)>>>>)}
=============================================================================
