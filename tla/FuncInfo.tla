------------------------------ MODULE FuncInfo ------------------------------
(***************************************************************************)
(* FuncInfo::run: which functions of the module are pure.  Every function  *)
(* is first judged by its own body and signature; the impure ones are put  *)
(* on a worklist, and impurity is carried to callers along the use lists.  *)
(*                                                                         *)
(* A module is, for each function, its sort, the types of its parameters,  *)
(* its loads and stores, and the functions that contain a call to it.      *)
(* DeadCode owns one FuncInfo and runs it again on the module it has       *)
(* shrunk, while GVN goes on using a result from before: Rerun is the      *)
(* second call of DeadCode::run.                                           *)
(***************************************************************************)
EXTENDS Integers, Sequences

CONSTANTS Funcs,    \* the functions of the module
          Bodies,   \* the bodies the functions may have at first
          NoFunc,   \* not a function
          MaxRuns   \* bound on the number of runs

(***************************************************************************)
(* An address is the chain of values it is computed from, the last of them *)
(* first: <<"gep", "load", "alloca">> is an element of the array whose     *)
(* address is kept in a local variable.  "other" is an instruction that    *)
(* passes on an operand of pointer type.                                   *)
(***************************************************************************)
Roots == {"alloca", "global", "arg"}
Addresses ==
  {a \in Seq(Roots \cup {"gep", "load", "other"}) :
     a # <<>> /\ \A k \in 1..Len(a) : a[k] \in Roots <=> k = Len(a)}

AllBodies ==
  [sort : {"declaration", "main", "function"},  \* a declaration is external
   params : SUBSET {"int", "float", "pointer"},
   accesses : SUBSET [op : {"load", "store"}, addr : Addresses]]

ASSUME BodiesAssumption == Bodies \subseteq AllBodies
ASSUME NoFuncAssumption == NoFunc \notin Funcs
ASSUME MaxRunsAssumption == MaxRuns \in Nat

VARIABLES
  body, callers,  \* the module: body[f], and the functions that call f
  phase,          \* "mark", "work" or "done"
  unmarked,       \* functions the first loop has not reached
  is_pure,        \* the functions whose is_pure entry is true
  worklist,       \* a deque: taken at the front, filled at the back
  now, uses,      \* the function being processed, its callers not yet seen
  runs,           \* number of runs so far
  earlier         \* history: is_pure when the previous run ended

vars == <<body, callers, phase, unmarked, is_pure, worklist, now, uses, runs, earlier>>

\* A declaration contains no calls.
Module(bd, cs) ==
  /\ bd \in [Funcs -> AllBodies]
  /\ cs \in [Funcs -> SUBSET Funcs]
  /\ \A f \in Funcs : bd[f].sort = "declaration" => \A g \in Funcs : f \notin cs[g]

Init ==
  /\ body \in [Funcs -> Bodies] /\ callers \in [Funcs -> SUBSET Funcs]
  /\ Module(body, callers)
  /\ phase = "mark" /\ unmarked = Funcs
  /\ is_pure = {} /\ worklist = <<>>
  /\ now = NoFunc /\ uses = {}
  /\ runs = 1 /\ earlier = {}

\* Where the address comes from; what is loaded from memory is not traced.
get_first_addr(a) ==
  LET traced == {"gep", "other"}
  IN  a[CHOOSE k \in 1..Len(a) : a[k] \notin traced /\ \A j \in 1..(k-1) : a[j] \in traced]

is_side_effect_inst(i) == i.op \in {"store", "load"} /\ get_first_addr(i.addr) # "alloca"

\* trivial_mark's verdict on the function alone.
TriviallyPure(f) ==
  /\ body[f].sort \notin {"declaration", "main"}
  /\ body[f].params \subseteq {"int", "float"}
  /\ \A i \in body[f].accesses : ~is_side_effect_inst(i)

\* Faulty variant: the entry of another function is written.
TrivialMarkStale(f) ==
  /\ phase = "mark" /\ f \in unmarked
  /\ unmarked' = unmarked \ {f}
  /\ IF TriviallyPure(f)
     THEN is_pure' = is_pure \cup {now} /\ UNCHANGED worklist
     ELSE is_pure' = is_pure \ {now} /\ worklist' = Append(worklist, f)
  /\ UNCHANGED <<body, callers, phase, now, uses, runs, earlier>>

\* One iteration of run()'s first loop; the functions come in any order.
TrivialMark(f) ==
  /\ phase = "mark" /\ f \in unmarked
  /\ unmarked' = unmarked \ {f}
  /\ IF TriviallyPure(f)
     THEN is_pure' = is_pure \cup {f} /\ UNCHANGED worklist
     ELSE is_pure' = is_pure \ {f} /\ worklist' = Append(worklist, f)
  /\ UNCHANGED <<body, callers, phase, now, uses, runs, earlier>>

StartWork ==
  /\ phase = "mark" /\ unmarked = {}
  /\ phase' = "work"
  /\ UNCHANGED <<body, callers, unmarked, is_pure, worklist, now, uses, runs, earlier>>

\* Faulty variant: the function stays at the front of the worklist.
PopKeeps ==
  /\ phase = "work" /\ uses = {} /\ worklist # <<>>
  /\ now' = Head(worklist)
  /\ uses' = callers[Head(worklist)]
  /\ UNCHANGED <<body, callers, phase, unmarked, is_pure, worklist, runs, earlier>>

\* Take the next impure function and begin to walk its use list.
Pop ==
  /\ phase = "work" /\ uses = {} /\ worklist # <<>>
  /\ now' = Head(worklist)
  /\ worklist' = Tail(worklist)
  /\ uses' = callers[Head(worklist)]
  /\ UNCHANGED <<body, callers, phase, unmarked, is_pure, runs, earlier>>

\* Faulty variants: the caller is not queued; it is queued every time.
ProcessUseUnqueued(c) ==
  /\ phase = "work" /\ c \in uses
  /\ uses' = uses \ {c}
  /\ is_pure' = is_pure \ {c}
  /\ UNCHANGED <<body, callers, phase, unmarked, worklist, now, runs, earlier>>

ProcessUseAgain(c) ==
  /\ phase = "work" /\ c \in uses
  /\ uses' = uses \ {c}
  /\ is_pure' = is_pure \ {c} /\ worklist' = Append(worklist, c)
  /\ UNCHANGED <<body, callers, phase, unmarked, now, runs, earlier>>

\* One use: the function that holds the call becomes impure.
ProcessUse(c) ==
  /\ phase = "work" /\ c \in uses
  /\ uses' = uses \ {c}
  /\ IF c \in is_pure
     THEN is_pure' = is_pure \ {c} /\ worklist' = Append(worklist, c)
     ELSE UNCHANGED <<is_pure, worklist>>
  /\ UNCHANGED <<body, callers, phase, unmarked, now, runs, earlier>>

\* Faulty variant: the end of the worklist is tested inside the walk over uses.
FinishEarly ==
  /\ phase = "work" /\ worklist = <<>>
  /\ phase' = "done"
  /\ UNCHANGED <<body, callers, unmarked, is_pure, worklist, now, uses, runs, earlier>>

Finish ==
  /\ phase = "work" /\ uses = {} /\ worklist = <<>>
  /\ phase' = "done"
  /\ UNCHANGED <<body, callers, unmarked, is_pure, worklist, now, uses, runs, earlier>>

(***************************************************************************)
(* The next run, on a module from which dead code has been deleted: calls  *)
(* to pure functions and loads may have gone, stores and calls to impure   *)
(* functions have not.  The map keeps its entries.                         *)
(***************************************************************************)
Loads(f) == {i \in body[f].accesses : i.op = "load"}

Rerun ==
  /\ phase = "done" /\ runs < MaxRuns
  /\ \E gone \in [Funcs -> SUBSET UNION {Loads(f) : f \in Funcs}] :
       body' = [f \in Funcs |-> [body[f] EXCEPT !.accesses = @ \ gone[f]]]
  /\ callers' \in [Funcs -> SUBSET Funcs]
  /\ \A f \in Funcs : /\ callers'[f] \subseteq callers[f]
                      /\ f \notin is_pure => callers'[f] = callers[f]
  /\ phase' = "mark" /\ unmarked' = Funcs
  /\ runs' = runs + 1 /\ earlier' = is_pure
  /\ UNCHANGED <<is_pure, worklist, now, uses>>

Done == phase = "done" /\ runs = MaxRuns /\ UNCHANGED vars

Next ==
  \/ \E f \in Funcs : TrivialMark(f) \/ ProcessUse(f)
  \/ StartWork \/ Pop \/ Finish \/ Rerun \/ Done

\* One thread, which runs until it returns.
Spec == Init /\ [][Next]_vars /\ WF_vars(Next)

-----------------------------------------------------------------------------
(***************************************************************************)
(* Properties                                                              *)
(***************************************************************************)

\* Every variable has the shape the code gives it.
TypeOK ==
  /\ Module(body, callers)
  /\ phase \in {"mark", "work", "done"}
  /\ unmarked \subseteq Funcs /\ is_pure \subseteq Funcs /\ earlier \subseteq Funcs
  /\ worklist \in Seq(Funcs)
  /\ now \in Funcs \cup {NoFunc} /\ uses \subseteq Funcs
  /\ runs \in Nat

(***************************************************************************)
(* What impurity means, without any order of computation.  A function can  *)
(* be pure by itself if it is known and not main, is given no memory, and  *)
(* every address it uses is computed from its own allocas alone.  The      *)
(* functions that are not, and those that call an impure function directly *)
(* or through others, are in every set closed under "calls".               *)
(***************************************************************************)
KeepsToItself(f) ==
  /\ body[f].sort = "function" /\ "pointer" \notin body[f].params
  /\ \A i \in body[f].accesses :
       /\ i.addr[Len(i.addr)] = "alloca"
       /\ \A k \in 1..Len(i.addr) : i.addr[k] # "load"

ClosedUnderCallers(S) ==
  /\ \A f \in Funcs : ~KeepsToItself(f) => f \in S
  /\ \A f \in S : callers[f] \subseteq S

Impure == {f \in Funcs : \A S \in SUBSET Funcs : ClosedUnderCallers(S) => f \in S}

\* The result is exact: whatever the order of the worklist, and with
\* recursion, no impure function is reported pure and no pure one impure.
PurityExact == phase = "done" => is_pure = Funcs \ Impure

\* While the worklist runs, a function is out of is_pure only if it is impure,
\* and one whose callers are not all known to be impure is still waiting.
WorkPending ==
  phase = "work" =>
    \A f \in Funcs \ is_pure :
      /\ f \in Impure
      /\ \A c \in callers[f] \cap is_pure :
           \/ f = now /\ c \in uses
           \/ \E i \in 1..Len(worklist) : worklist[i] = f

\* No function is queued twice in a run: the deque is bounded by the module.
QueuedOnce ==
  /\ \A i, j \in 1..Len(worklist) : worklist[i] = worklist[j] => i = j
  /\ \A i \in 1..Len(worklist) : worklist[i] \notin is_pure

\* A function that was pure before dead code was deleted is pure afterwards:
\* GVN may use the result of the run before.
PurityKept == phase = "done" => earlier \subseteq is_pure

\* Every run ends, and the passes come to their last one.
Terminates == <>(phase = "done" /\ runs = MaxRuns)
=============================================================================
