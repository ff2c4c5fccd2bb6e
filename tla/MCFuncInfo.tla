----------------------------- MODULE MCFuncInfo -----------------------------
(* Bodies for TLC.                                                         *)
EXTENDS FuncInfo

Load(addr) == [op |-> "load", addr |-> addr]
Store(addr) == [op |-> "store", addr |-> addr]

\* input() and the like.
Declared == [sort |-> "declaration", params |-> {}, accesses |-> {}]

\* Fills an array of its own and reads an element of a global one: pure when
\* dead code removal has deleted the load.
Reader ==
  [sort |-> "function", params |-> {"int"},
   accesses |-> {Store(<<"gep", "alloca">>), Load(<<"gep", "global">>)}]

Local == [sort |-> "function", params |-> {"int"}, accesses |-> {Store(<<"gep", "alloca">>)}]

CallBodies == {Declared, Reader, Local}
=============================================================================
