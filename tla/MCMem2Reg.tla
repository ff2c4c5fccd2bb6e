----------------------------- MODULE MCMem2Reg -----------------------------
(***************************************************************************)
(* Programs for TLC.                                                       *)
(***************************************************************************)
EXTENDS SSARun

CONSTANTS e, a, b, c, x, y

(***************************************************************************)
(* Four blocks and one variable, which the entry block sets: an if, a      *)
(* while, a loop with a second exit, a block that loops to itself, a block *)
(* with three predecessors, and a cycle with two entries.                  *)
(***************************************************************************)
MCBlocks == {e, a, b, c}

IfElse == e :> {a, b} @@ a :> {c} @@ b :> {c} @@ c :> {}
While == e :> {a} @@ a :> {b, c} @@ b :> {a} @@ c :> {}
Break == e :> {a} @@ a :> {b, c} @@ b :> {a, c} @@ c :> {}
SelfLoop == e :> {a} @@ a :> {b} @@ b :> {b, c} @@ c :> {a}
ThreePreds == e :> {a, b} @@ a :> {b, c} @@ b :> {b, c} @@ c :> {}
TwoEntries == e :> {a, b} @@ a :> {b, c} @@ b :> {a} @@ c :> {}

MCGraphs == {IfElse, While, Break, SelfLoop, ThreePreds, TwoEntries}

Accessing == {<<>>, <<Load(x)>>, <<Store(x)>>, <<Load(x), Store(x)>>}

OneVariable ==
  {[succ |-> g, code |-> e :> <<Store(x)>> @@ a :> i @@ b :> j @@ c :> k] :
     g \in MCGraphs, i \in Accessing, j \in Accessing, k \in Accessing}

(***************************************************************************)
(* Two variables that are copied, or change places in a loop, which makes  *)
(* phis that must take their values at once.                               *)
(***************************************************************************)
Copy == <<Load(y), StoreLoaded(x, 1)>>
Swap == <<Load(x), Load(y), StoreLoaded(x, 2), StoreLoaded(y, 1)>>
Copying == {<<>>, Copy, Swap, <<Load(x), Store(y)>>}

TwoVariables ==
  {[succ |-> g, code |-> e :> <<Store(x), Store(y)>> @@ a :> i @@ b :> j @@ c :> <<Load(x), Load(y)>>] :
     g \in {IfElse, While, Break, TwoEntries}, i \in Copying, j \in Copying}

MCPrograms == OneVariable \cup TwoVariables

ASSUME MCProgramsAssumption == \A p \in MCPrograms : SetsFirst(p) /\ NoDeadAccess(p)

(***************************************************************************)
(* int x; if (..) x = 1; return 0;   x has no value on one path.           *)
(***************************************************************************)
MCUnsetPrograms ==
  {[succ |-> IfElse, code |-> e :> <<>> @@ a :> <<Store(x)>> @@ b :> <<>> @@ c :> <<>>]}

(***************************************************************************)
(* int x; x = 1; if (..) return 1; else return 2; x = 3; return x;         *)
(* The builder goes on in the block after the if, which is unreachable.    *)
(***************************************************************************)
MCDeadBlockPrograms ==
  {[succ |-> e :> {a, b} @@ a :> {} @@ b :> {} @@ c :> {},
    code |-> e :> <<Store(x)>> @@ a :> <<>> @@ b :> <<>> @@ c :> <<Store(x), Load(x)>>]}
=============================================================================
