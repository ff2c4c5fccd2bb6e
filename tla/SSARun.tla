------------------------------- MODULE SSARun -------------------------------
(***************************************************************************)
(* The program before and after Mem2Reg, run side by side.  When the pass  *)
(* is done, a path through the flow graph is taken: the old program reads  *)
(* and writes memory, the new one has a register for every stored value    *)
(* and every phi.  Both see the same computed values and take the same     *)
(* branches.  The meaning of load, store, br and phi is that of LLVM.      *)
(***************************************************************************)
EXTENDS Mem2Reg

CONSTANTS Data,   \* what a computation may yield
          Undef   \* memory never written, a register never set

ASSUME UndefAssumption == Undef \notin Data

VARIABLES at, ip,   \* the block being run and the access in it
          mem,      \* the old program's variables
          old,      \* its registers: the results of its loads
          new       \* the new program's registers

runVars == <<at, ip, mem, old, new>>
allVars == <<vars, runVars>>

RunInit ==
  /\ Init
  /\ at = Entry /\ ip = 1
  /\ mem = [v \in Vars |-> Undef]
  /\ old = [x \in DOMAIN repl |-> Undef]
  /\ new = [x \in Values |-> Undef]

Executing == phase = "done" /\ ip <= Len(code[at])

ExecLoad ==
  /\ Executing /\ code[at][ip].op = "load"
  /\ old' = [old EXCEPT ![LoadValue(<<at, ip>>)] = mem[code[at][ip].var]]
  /\ ip' = ip + 1
  /\ UNCHANGED <<vars, at, mem, new>>

ExecStore(d) ==
  /\ Executing /\ code[at][ip].op = "store" /\ code[at][ip].src = 0
  /\ mem' = [mem EXCEPT ![code[at][ip].var] = d]
  /\ new' = [new EXCEPT ![DefValue(<<at, ip>>)] = d]
  /\ ip' = ip + 1
  /\ UNCHANGED <<vars, at, old>>

ExecCopy ==
  /\ Executing /\ code[at][ip].op = "store" /\ code[at][ip].src > 0
  /\ mem' = [mem EXCEPT ![code[at][ip].var] = old[LoadValue(<<at, code[at][ip].src>>)]]
  /\ ip' = ip + 1
  /\ UNCHANGED <<vars, at, old, new>>

\* A branch: the phis of the target take their values for this edge at once;
\* a missing pair is printed as undef.
PhiArgs(s, v) == {x[1] : x \in {y \in phi_pairs[<<s, v>>] : y[2] = at}}

Branch(s) ==
  /\ phase = "done" /\ ~Executing /\ s \in succ[at]
  /\ new' = [x \in Values |->
               IF \E v \in phis[s] : x = PhiValue(s, v)
               THEN IF PhiArgs(s, x[3]) = {} THEN Undef
                    ELSE new[CHOOSE y \in PhiArgs(s, x[3]) : TRUE]
               ELSE new[x]]
  /\ at' = s /\ ip' = 1
  /\ UNCHANGED <<vars, mem, old>>

Ret == phase = "done" /\ ~Executing /\ succ[at] = {} /\ UNCHANGED allVars

Pass == phase # "done" /\ Next /\ UNCHANGED runVars

RunNext ==
  \/ Pass
  \/ \E d \in Data : ExecStore(d)
  \/ \E s \in Blocks : Branch(s)
  \/ ExecLoad \/ ExecCopy \/ Ret

\* The pass runs until it returns; how far the program then runs is open.
RunSpec == RunInit /\ [][RunNext]_allVars /\ WF_allVars(Pass)

-----------------------------------------------------------------------------
(***************************************************************************)
(* Properties                                                              *)
(***************************************************************************)

\* Wherever the result of a load may be used, the value that Mem2Reg put in
\* its place is what the load would have read: further down its own block,
\* and in the blocks that its block dominates, on every path and in every
\* iteration of a loop.
LoadsAgree ==
  phase = "done" =>
    \A x \in DOMAIN old :
      x[2] \in StrictDoms(succ, at) \/ (x[2] = at /\ x[3] < ip) => new[Current(x)] = old[x]
=============================================================================
