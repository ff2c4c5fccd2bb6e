----------------------------- MODULE BuilderRun -----------------------------
(***************************************************************************)
(* A program is parsed, its syntax tree made an AST, and the AST given to  *)
(* the builder; then the last function that was built is run, on any       *)
(* arguments, and what it does is compared with the traces that the        *)
(* program has by its meaning.  The meaning of the instructions is that of *)
(* LLVM, and neg_idx_except ends the program as in src/io/io.c.            *)
(***************************************************************************)
EXTENDS Builder, Cminus, FiniteSets

CONSTANT Programs   \* sequences of declarations, the last one of a function

VARIABLES prog,     \* the program
          phase,    \* "parsed", "running", "returned", "exited"
          built,    \* the builder
          at, ip,   \* the block being run and the instruction in it
          regs,     \* the values of instructions, as terms
          news,     \* how many variables have been allocated
          taken,    \* how often the test that ends a block came out true
          trace     \* what has been observed

vars == <<prog, phase, built, at, ip, regs, news, taken, trace>>

Init ==
    /\ prog \in Programs
    /\ phase = "parsed"
    /\ built = NewBuilder
    /\ at = 0 /\ ip = 1
    /\ regs = <<>> /\ taken = <<>> /\ trace = <<>>
    /\ news = 0

Main == built.fn
MainBlocks == {b \in DOMAIN built.blocks : built.blocks[b].fn = Main}
MainEntry == CHOOSE b \in MainBlocks : \A c \in MainBlocks : b <= c

Compile ==
    /\ phase = "parsed"
    /\ phase' = "running"
    /\ built' = VisitProgram(TransformNode(ProgramTree(prog)))
    /\ at' = MainEntry'
    /\ taken' = [b \in DOMAIN built'.blocks |-> 0]
    /\ UNCHANGED <<prog, ip, regs, news, trace>>

-----------------------------------------------------------------------------
Term(v) ==
    CASE v.kind = "const" -> <<"num">> \o v.ref
      [] v.kind = "global" -> <<"global">> \o v.ref
      [] v.kind = "arg" -> <<"arg">> \o v.ref
      [] OTHER -> IF v.ref \in DOMAIN regs THEN regs[v.ref] ELSE <<"undefined">>

Instr == built.blocks[at].code[ip]
Arg(i) == Term(Instr.args[i])
Executing(op) == phase = "running" /\ ip <= Len(built.blocks[at].code) /\ Instr.op[1] = op

Sets(term) == regs' = (<<at, ip>> :> term) @@ regs
Observe(event) == trace' = Append(trace, event)
Advance == ip' = ip + 1 /\ UNCHANGED <<prog, phase, built, at, taken>>

ExecAlloca ==
    /\ Executing("alloca")
    /\ Sets(<<"loc", news>>) /\ Observe(<<"new", <<"loc", news>>>>)
    /\ news' = news + 1
    /\ Advance

(* the parameter that holds an array never changes: reading it shows nothing *)
ExecLoad ==
    /\ Executing("load")
    /\ IF Instr.type[1] = "ptr" THEN Sets(<<"held", Arg(1)>>) /\ UNCHANGED trace
       ELSE Sets(<<"load", Arg(1)>>) /\ Observe(<<"load", Arg(1)>>)
    /\ Advance /\ UNCHANGED news

ExecStore ==
    /\ Executing("store")
    /\ Observe(<<"store", Arg(1), Arg(2)>>)
    /\ Advance /\ UNCHANGED <<regs, news>>

(* the last index of a getelementptr is the element; an index of an array  *)
(* comes after a zero for the array itself                                 *)
ExecGep ==
    /\ Executing("gep")
    /\ Sets(<<"elem", Arg(1), Arg(Len(Instr.args))>>)
    /\ Advance /\ UNCHANGED <<news, trace>>

ExecCompute ==
    /\ \E op \in {"iarith", "farith", "icmp", "fcmp", "zext", "sitofp", "fptosi"} :
          Executing(op)
    /\ Sets(Instr.op \o [i \in DOMAIN Instr.args |-> Arg(i)])
    /\ Advance /\ UNCHANGED <<news, trace>>

ExecCall ==
    /\ Executing("call")
    /\ LET fun == Instr.args[1].ref[1]
           args == [i \in 1..Len(Instr.args) - 1 |-> Arg(i + 1)]
       IN  /\ Observe(<<"call", fun, args>>)
           /\ Sets(<<"result", fun, args>>)
           /\ IF fun = "neg_idx_except"
              THEN phase' = "exited" /\ UNCHANGED <<prog, built, at, ip, taken>>
              ELSE Advance
    /\ UNCHANGED news

Goto(label) == at' = label.ref[1] /\ ip' = 1

ExecJump ==
    /\ Executing("br") /\ Len(Instr.args) = 1
    /\ Goto(Instr.args[1])
    /\ UNCHANGED <<prog, phase, built, regs, news, taken, trace>>

(* a test may come out either way, and true at most MaxLoop times *)
ExecTest(outcome) ==
    /\ Executing("br") /\ Len(Instr.args) = 3
    /\ outcome => taken[at] < MaxLoop
    /\ Observe(<<"test", Arg(1), outcome>>)
    /\ taken' = [taken EXCEPT ![at] = @ + (IF outcome THEN 1 ELSE 0)]
    /\ Goto(Instr.args[IF outcome THEN 2 ELSE 3])
    /\ UNCHANGED <<prog, phase, built, regs, news>>

ExecReturn ==
    /\ Executing("ret")
    /\ Observe(<<"ret">> \o [i \in DOMAIN Instr.args |-> Arg(i)])
    /\ phase' = "returned"
    /\ UNCHANGED <<prog, built, at, ip, regs, news, taken>>

Over == phase \in {"returned", "exited"} /\ UNCHANGED vars

Next ==
    \/ Compile
    \/ ExecAlloca \/ ExecLoad \/ ExecStore \/ ExecGep \/ ExecCompute
    \/ ExecCall \/ ExecJump \/ ExecReturn
    \/ \E outcome \in BOOLEAN : ExecTest(outcome)
    \/ Over

Spec == Init /\ [][Next]_vars

-----------------------------------------------------------------------------
(***************************************************************************)
(* Properties                                                              *)
(***************************************************************************)

Compiled == phase = "running" /\ trace = <<>> /\ ip = 1

\* The builder is back where it began: one scope, no lvalue wanted; the run
\* stays inside the function.
TypeOK ==
    /\ phase \in {"parsed", "running", "returned", "exited"}
    /\ Len(built.scope) = 1 /\ built.lval = FALSE
    /\ phase # "parsed" =>
         /\ at \in MainBlocks
         /\ ip \in 1..Len(built.blocks[at].code) + 1
    /\ news \in Nat

Targets(instr) ==
    {v.ref[1] : v \in {w \in {instr.args[i] : i \in DOMAIN instr.args} : w.kind = "block"}}

\* The conversion finds every part of the program where the grammar put it:
\* lists in their order, the parts that may be missing, and operators with the
\* operands that precedence and parentheses give them.
ReadsBack == phase = "parsed" => TransformNode(ProgramTree(prog)) = prog

\* LightIR.md: a block has exactly one ret or br, and it is the last
\* instruction, whatever returns and nested statements the program has.  The
\* edge lists say what the branches say, with no edge twice, and nothing
\* branches to the entry block: Dominators and Mem2Reg assume both.
BlocksWellFormed ==
    Compiled =>
      \A b \in DOMAIN built.blocks :
        LET block == built.blocks[b]
            terminators == {i \in DOMAIN block.code : block.code[i].op[1] \in {"ret", "br"}}
            first == \A c \in 1..b - 1 : built.blocks[c].fn # block.fn
        IN  /\ block.code # <<>> /\ terminators = {Len(block.code)}
            /\ ToSet(block.succ) = Targets(Last(block.code))
            /\ IsInjective(block.succ) /\ IsInjective(block.pre)
            /\ ToSet(block.pre) = {p \in DOMAIN built.blocks : b \in ToSet(built.blocks[p].succ)}
            /\ \A c \in ToSet(block.succ) : built.blocks[c].fn = block.fn
            /\ first => block.pre = <<>>

Fits(instr, fn) ==
    LET t == [i \in DOMAIN instr.args |-> instr.args[i].type]
        n == Len(t)
    IN  CASE instr.op[1] = "load" -> t[1] = PointerTo(instr.type) /\ instr.type[1] # "array"
          [] instr.op[1] = "store" -> t[2] = PointerTo(t[1])
          [] instr.op[1] = "gep" -> t[1][1] = "ptr" /\ t[n] = INT32
                                    /\ (n = 3 <=> t[1][2] = "array")
          [] instr.op[1] = "iarith" -> t = <<INT32, INT32>>
          [] instr.op[1] = "farith" -> t = <<FLOAT, FLOAT>>
          [] instr.op[1] = "icmp" -> t[1] = t[2] /\ IsInteger(t[1])
          [] instr.op[1] = "fcmp" -> t = <<FLOAT, FLOAT>>
          [] instr.op[1] = "zext" -> t = <<INT1>>
          [] instr.op[1] = "sitofp" -> t = <<INT32>> /\ instr.type = FLOAT
          [] instr.op[1] = "fptosi" -> t = <<FLOAT>> /\ instr.type = INT32
          [] instr.op[1] = "br" -> n = 3 => t[1] = INT1
          [] instr.op[1] = "ret" ->
                 t = (IF built.sigs[fn].ret = VOID THEN <<>> ELSE <<built.sigs[fn].ret>>)
          [] instr.op[1] = "call" ->
                 Tail(t) = built.sigs[instr.args[1].ref[1]].params
          [] OTHER -> TRUE

\* Every operand has the type its instruction needs, as the (disabled)
\* assertValid functions of Instruction.cpp ask: with conversions wherever
\* int and float meet, arrays passed on as pointers, addresses where a store
\* goes and values everywhere else.
TypesFit ==
    Compiled =>
      \A b \in DOMAIN built.blocks :
        \A i \in DOMAIN built.blocks[b].code :
          Fits(built.blocks[b].code[i], built.blocks[b].fn)

\* CmpInst::assertValid and LightIR.md: icmp compares two integers.
IntegerCompares ==
    Compiled =>
      \A b \in DOMAIN built.blocks :
        \A i \in DOMAIN built.blocks[b].code :
          LET instr == built.blocks[b].code[i]
          IN  instr.op[1] = "icmp" =>
                IsInteger(instr.args[1].type) /\ IsInteger(instr.args[2].type)

\* The function that was built does what the source says: the same variables
\* are made, read and written in the same order with the same values, names
\* mean the innermost declaration, each test decides between the right parts,
\* and the same value is returned.
MeansTheSame == phase \in {"returned", "exited"} => trace \in Traces(prog)

=============================================================================
