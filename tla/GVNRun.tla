------------------------------- MODULE GVNRun -------------------------------
(***************************************************************************)
(* The function before and after GVN, run side by side on symbolic inputs. *)
(* GVN changes operands only, so that the two programs are at the same     *)
(* instruction; each has its own registers.  A register holds a term.      *)
(* Operations on constants are computed as the target does, by arithmetic  *)
(* that shares nothing with ConstFolder but the form of constants; a test  *)
(* on anything else may come out either way, and what an impure call or a  *)
(* load yields is a new symbol, the same for both programs.                *)
(***************************************************************************)
EXTENDS GVN

CONSTANTS MaxBranches,  \* how many branches a run takes
          Exits         \* the callees that end the program: neg_idx_except

ASSUME MaxBranchesAssumption == MaxBranches \in Nat

VARIABLES at, ip,    \* the block and the instruction being run
          old, new,  \* the registers of the two programs
          steps,     \* branches taken
          news       \* symbols made

runVars == <<at, ip, old, new, steps, news>>
allVars == <<vars, runVars>>

Undef == <<"undef", 0, 0>>
Symbol(n) == <<"symbol", n, 0>>
Term(f, args) == <<"term", f, args>>

RunInit ==
  /\ Init
  /\ at = 1 /\ ip = 1 /\ steps = 0 /\ news = 0
  /\ old = [v \in OpsOf(fn.code) |-> Undef]
  /\ new = [v \in OpsOf(fn.code) |-> Undef]

Contents(regs, v) == IF v[1] = "op" THEN regs[v] ELSE v
Operands(c, regs, v) ==
  LET o == InstrOf(c, v).opnd IN [n \in DOMAIN o |-> Contents(regs, o[n])]

Cur == Op(at, ip)
CurInstr == InstrOf(code, Cur)
Executing == phase = "done" /\ ip <= Len(code[at])
IsExit(i) == i.op = "call" /\ i.opnd[1] \in Exits
OldOperands == Operands(fn.code, old, Cur)
NewOperands == Operands(code, new, Cur)

-----------------------------------------------------------------------------
(* The target's arithmetic on constants: a result is what satisfies the    *)
(* description of the instruction, however it is computed.                 *)

\* The i32 congruent to n.
I32(n) == <<"int", CHOOSE r \in Ints : (r - n) % (2 * IntMax + 2) = 0, 0>>

\* q is m / n rounded toward zero: the rest is small, and not opposite to m.
IsQuotient(m, n, q) ==
  LET r == m - q * n IN Abs(r) < Abs(n) /\ (r = 0 \/ (r < 0 <=> m < 0))

\* The comparisons that hold of m and n.
Holding(m, n) ==
  IF m < n THEN {"NE", "LT", "LE"} ELSE IF m = n THEN {"EQ", "GE", "LE"} ELSE {"NE", "GT", "GE"}

Arithmetic(i, v, w) ==
  CASE i.op = "add" -> I32(v[2] + w[2])
    [] i.op = "sub" -> I32(v[2] - w[2])
    [] i.op = "mul" -> I32(v[2] * w[2])
    [] i.op = "sdiv" -> I32(CHOOSE q \in -Abs(v[2])..Abs(v[2]) : IsQuotient(v[2], w[2], q))
    [] i.op = "fadd" -> FpC(v[2] * w[3] + w[2] * v[3], v[3] * w[3])
    [] i.op = "fsub" -> FpC(v[2] * w[3] - w[2] * v[3], v[3] * w[3])
    [] i.op = "fmul" -> FpC(v[2] * w[2], v[3] * w[3])
    [] i.op = "fdiv" -> FpC(v[2] * w[3], v[3] * w[2])
    [] i.op = "cmp" -> BoolC(i.cmp \in Holding(v[2], w[2]))
    [] i.op = "fcmp" -> BoolC(i.cmp \in Holding(v[2] * w[3], w[2] * v[3]))

\* cvttss2si yields the smallest number for what does not fit.
Conversion(i, v) ==
  CASE i.op = "sitofp" -> FpC(v[2], 1)
    [] i.op = "fptosi" ->
         LET q == {n \in Ints : IsQuotient(v[2], v[3], n)}
         IN  <<"int", IF q = {} THEN IntMin ELSE CHOOSE n \in q : TRUE, 0>>
    [] i.op = "zext" -> I32(v[2])

Overflows(v, w) == w[2] = 0 \/ (v[2] = IntMin /\ w[2] = -1)

\* A division without a result is left a term.
Result(i, args) ==
  IF \E n \in DOMAIN args : ~IsConstant(args[n]) THEN Term(<<i.op, i.cmp>>, args)
  ELSE IF i.op \in Casts THEN Conversion(i, args[1])
  ELSE IF (IsBinaryOp(i) \/ IsCompare(i)) /\ ~(i.op = "sdiv" /\ Overflows(args[1], args[2]))
  THEN Arithmetic(i, args[1], args[2])
  ELSE Term(<<i.op, i.cmp>>, args)

-----------------------------------------------------------------------------
ExecCompute ==
  /\ Executing
  /\ \/ IsBinaryOp(CurInstr) \/ IsCompare(CurInstr)
     \/ CurInstr.op \in Casts \cup {"getelementptr"}
     \/ CurInstr.op = "call" /\ TypeOf(CurInstr) = "pure"
  /\ old' = [old EXCEPT ![Cur] = Result(CurInstr, OldOperands)]
  /\ new' = [new EXCEPT ![Cur] = Result(CurInstr, NewOperands)]
  /\ ip' = ip + 1
  /\ UNCHANGED <<vars, at, steps, news>>

ExecMemory ==
  /\ Executing
  /\ \/ CurInstr.op \in {"load", "store", "alloca"}
     \/ CurInstr.op = "call" /\ TypeOf(CurInstr) = "impure" /\ ~IsExit(CurInstr)
  /\ old' = [old EXCEPT ![Cur] = Symbol(news)]
  /\ new' = [new EXCEPT ![Cur] = Symbol(news)]
  /\ news' = news + 1 /\ ip' = ip + 1
  /\ UNCHANGED <<vars, at, steps>>

\* The phis of b take their values at once.
PhiValue(c, regs, v) ==
  LET o == InstrOf(c, v).opnd IN Contents(regs, IF o[2] = Label(at) THEN o[1] ELSE o[3])
EnterBlock(c, regs, b) ==
  [v \in DOMAIN regs |->
     IF v[2] = b /\ InstrOf(c, v).op = "phi" THEN PhiValue(c, regs, v) ELSE regs[v]]

Taken(s) ==
  CASE Len(OldOperands) = 1 -> s = OldOperands[1]
    [] Len(OldOperands) = 3 ->
         IF IsConstant(OldOperands[1]) THEN s = OldOperands[IF OldOperands[1][2] = 1 THEN 2 ELSE 3]
         ELSE s \in {OldOperands[2], OldOperands[3]}

ExecBranch(b) ==
  /\ Executing /\ CurInstr.op = "br" /\ steps < MaxBranches
  /\ Taken(Label(b))
  /\ old' = EnterBlock(fn.code, old, b)
  /\ new' = EnterBlock(code, new, b)
  /\ at' = b /\ ip' = 1 /\ steps' = steps + 1
  /\ UNCHANGED <<vars, news>>

SkipPhi ==
  /\ Executing /\ CurInstr.op = "phi"
  /\ ip' = ip + 1
  /\ UNCHANGED <<vars, at, old, new, steps, news>>

Stop ==
  /\ phase = "done"
  /\ CurInstr.op = "ret" \/ IsExit(CurInstr) \/ (CurInstr.op = "br" /\ steps = MaxBranches)
  /\ UNCHANGED allVars

Pass == Next /\ UNCHANGED runVars

RunNext ==
  \/ Pass \/ ExecCompute \/ ExecMemory \/ SkipPhi
  \/ \E b \in Blocks : ExecBranch(b)
  \/ Stop

\* The pass runs until it returns; how far the program then runs is open.
RunSpec == RunInit /\ [][RunNext]_allVars /\ Fairness

-----------------------------------------------------------------------------
(***************************************************************************)
(* Properties                                                              *)
(***************************************************************************)

\* What can be seen from outside is the same in both programs: the arguments
\* of calls, the addresses and values of loads and stores, what is tested and
\* what is returned; and it never depends on a register that was not set.
ActsTheSame ==
  Executing /\ (IsVoid(CurInstr) \/ CurInstr.op \in {"load", "call"}) =>
    /\ NewOperands = OldOperands
    /\ Undef \notin ToSet(NewOperands)
=============================================================================
