--------------------------- MODULE FuncInfoProof ---------------------------
(***************************************************************************)
(* Proofs about FuncInfo, for any module, any order of functions and uses, *)
(* and any number of runs.                                                 *)
(*                                                                         *)
(* PurityExact says what holds at the end; it is carried there by          *)
(* WorkPending: a function out of is_pure is impure by the definition, and *)
(* while one of its callers is still taken for pure it is waiting in the   *)
(* worklist or its use list is being walked.  When nothing waits, the      *)
(* functions out of is_pure are closed under "calls", so they include all  *)
(* the impure ones.                                                        *)
(***************************************************************************)
EXTENDS FuncInfo, SequenceTheorems, WellFoundedInduction, TLAPS

InWorklist(f) == \E i \in 1..Len(worklist) : worklist[i] = f

MarkInv ==
  phase = "mark" =>
    /\ uses = {}
    /\ \A f \in Funcs \ unmarked :
         /\ f \in is_pure <=> TriviallyPure(f)
         /\ f \notin is_pure => InWorklist(f)
    /\ \A f \in unmarked : ~InWorklist(f)

WorkInv ==
  /\ phase \in {"work", "done"} => \A f \in is_pure : TriviallyPure(f)
  /\ WorkPending
  /\ phase = "work" /\ uses # {} => now \in Funcs \ is_pure /\ uses \subseteq callers[now]
  /\ phase = "done" =>
       /\ worklist = <<>> /\ uses = {}
       /\ \A f \in Funcs \ is_pure : f \in Impure /\ callers[f] \cap is_pure = {}

EarlierInv == earlier \cap Impure = {}

IInv == TypeOK /\ MarkInv /\ WorkInv /\ QueuedOnce /\ EarlierInv

-----------------------------------------------------------------------------
(* What trivial_mark finds out about an address is where it comes from:    *)
(* get_first_addr stops at the first value it does not trace.              *)

LEMMA LeastNat ==
  ASSUME NEW T, T \subseteq Nat, T # {}
  PROVE  \E x \in T : \A y \in T : ~(y < x)
<1>1. PICK x \in T : \A y \in T : ~(<<y, x>> \in OpToRel(<, Nat))
  BY NatLessThanWellFounded, WFMin
<1>2. \A y \in T : y < x => <<y, x>> \in OpToRel(<, Nat)
  BY DEF OpToRel
<1> QED
  BY <1>1, <1>2

LEMMA FirstAddr ==
  ASSUME NEW a \in Addresses
  PROVE  get_first_addr(a) = "alloca" <=>
           a[Len(a)] = "alloca" /\ \A k \in 1..Len(a) : a[k] # "load"
<1> DEFINE Stop(k) == a[k] \notin {"gep", "other"}
           first == CHOOSE k \in 1..Len(a) : Stop(k) /\ \A j \in 1..(k-1) : ~Stop(j)
<1>1. /\ Len(a) \in Nat \ {0}
      /\ \A k \in 1..Len(a) : a[k] \in Roots \cup {"gep", "load", "other"}
      /\ \A k \in 1..Len(a) : a[k] \in Roots <=> k = Len(a)
  BY EmptySeq, LenProperties DEF Addresses
<1>2. get_first_addr(a) = a[first]
  BY DEF get_first_addr
<1>3. \E k \in 1..Len(a) : Stop(k) /\ \A j \in 1..(k-1) : ~Stop(j)
  <2>1. Stop(Len(a))
    BY <1>1 DEF Roots
  <2> DEFINE T == {k \in 1..Len(a) : Stop(k)}
  <2> HIDE DEF Stop
  <2>2. T \subseteq Nat /\ Len(a) \in T
    BY <1>1, <2>1
  <2>3. PICK k \in T : \A j \in T : ~(j < k)
    BY <2>2, LeastNat
  <2> QED
    BY <1>1, <2>3
<1> HIDE DEF first
<1>4. first \in 1..Len(a) /\ Stop(first) /\ \A j \in 1..(first-1) : ~Stop(j)
  BY <1>3 DEF first
<1>5. ASSUME a[first] = "alloca"
      PROVE  a[Len(a)] = "alloca" /\ \A k \in 1..Len(a) : a[k] # "load"
  <2>1. first = Len(a)
    BY <1>1, <1>4, <1>5 DEF Roots
  <2>2. \A k \in 1..Len(a) : k = Len(a) \/ k \in 1..(first-1)
    BY <1>1, <2>1
  <2> QED
    BY <1>4, <1>5, <2>1, <2>2
<1>6. ASSUME a[Len(a)] = "alloca", \A k \in 1..Len(a) : a[k] # "load"
      PROVE  a[first] = "alloca"
  <2>1. a[first] \in Roots
    <3>1. a[first] \in Roots \cup {"gep", "load", "other"}
      BY <1>1, <1>4
    <3>2. a[first] # "load"
      BY <1>4, <1>6
    <3> QED
      BY <1>4, <3>1, <3>2
  <2> QED
    BY <1>1, <1>4, <1>6, <2>1
<1> QED
  BY <1>2, <1>5, <1>6

\* trivial_mark is right about every function.
LEMMA TrivialRight ==
  ASSUME TypeOK, NEW f \in Funcs
  PROVE  TriviallyPure(f) <=> KeepsToItself(f)
<1>1. body[f] \in AllBodies
  BY DEF TypeOK, Module
<1>2. /\ body[f].sort \in {"declaration", "main", "function"}
      /\ body[f].params \subseteq {"int", "float", "pointer"}
      /\ \A i \in body[f].accesses : i.op \in {"load", "store"} /\ i.addr \in Addresses
  BY <1>1 DEF AllBodies
<1>3. \A i \in body[f].accesses :
        ~is_side_effect_inst(i) <=>
          i.addr[Len(i.addr)] = "alloca" /\ \A k \in 1..Len(i.addr) : i.addr[k] # "load"
  BY <1>2, FirstAddr DEF is_side_effect_inst
<1> QED
  BY <1>2, <1>3 DEF TriviallyPure, KeepsToItself

-----------------------------------------------------------------------------
(* The set Impure is the least one closed under "calls". *)

LEMMA ImpureClosed ==
  ASSUME TypeOK
  PROVE  ClosedUnderCallers(Impure)
<1>1. \A f \in Funcs : callers[f] \subseteq Funcs
  BY DEF TypeOK, Module
<1> QED
  BY <1>1 DEF Impure, ClosedUnderCallers

LEMMA ImpureLeast ==
  ASSUME NEW S \in SUBSET Funcs, ClosedUnderCallers(S)
  PROVE  Impure \subseteq S
  BY DEF Impure

\* Deleting loads and calls to pure functions makes no function impure.
LEMMA ImpureShrinks ==
  ASSUME TypeOK, TypeOK', Rerun
  PROVE  Impure' \subseteq Impure
<1>1. \A f \in Funcs : callers'[f] \subseteq callers[f]
  BY DEF Rerun
<1>2. \A f \in Funcs : ~KeepsToItself(f)' => ~KeepsToItself(f)
  <2>1. PICK gone \in [Funcs -> SUBSET UNION {Loads(f) : f \in Funcs}] :
          body' = [f \in Funcs |-> [body[f] EXCEPT !.accesses = @ \ gone[f]]]
    BY DEF Rerun
  <2>2. ASSUME NEW f \in Funcs
        PROVE  /\ body'[f].sort = body[f].sort /\ body'[f].params = body[f].params
               /\ body'[f].accesses \subseteq body[f].accesses
    <3>1. body[f] \in AllBodies
      BY DEF TypeOK, Module
    <3> QED
      BY <2>1, <3>1 DEF AllBodies
  <2> QED
    BY <2>2 DEF KeepsToItself
<1>3. ClosedUnderCallers(Impure)
  BY ImpureClosed
<1>4. Impure \in SUBSET Funcs
  BY DEF Impure
<1>5. \A S \in SUBSET Funcs : ClosedUnderCallers(S) => ClosedUnderCallers(S)'
  BY <1>1, <1>2 DEF ClosedUnderCallers
<1> QED
  BY <1>3, <1>4, <1>5 DEF Impure

LEMMA SameImpure ==
  ASSUME UNCHANGED <<body, callers>>
  PROVE  Impure' = Impure /\ \A f : TriviallyPure(f)' <=> TriviallyPure(f)
  BY DEF Impure, ClosedUnderCallers, KeepsToItself, TriviallyPure

-----------------------------------------------------------------------------
(* The deque. *)

LEMMA AppendWorklist ==
  ASSUME NEW s \in Seq(Funcs), NEW f \in Funcs
  PROVE  /\ Append(s, f) \in Seq(Funcs)
         /\ Len(s) \in Nat /\ Len(Append(s, f)) = Len(s) + 1
         /\ \A i \in 1..Len(s) : Append(s, f)[i] = s[i]
         /\ Append(s, f)[Len(s)+1] = f
         /\ \A g : (\E i \in 1..Len(Append(s, f)) : Append(s, f)[i] = g)
                    <=> g = f \/ \E i \in 1..Len(s) : s[i] = g
<1>1. /\ Append(s, f) \in Seq(Funcs)
      /\ Len(s) \in Nat /\ Len(Append(s, f)) = Len(s) + 1
      /\ \A i \in 1..Len(s) : Append(s, f)[i] = s[i]
      /\ Append(s, f)[Len(s)+1] = f
  BY AppendProperties, LenProperties
<1>2. \A i \in 1..Len(s)+1 : i \in 1..Len(s) \/ i = Len(s) + 1
  BY <1>1
<1>3. /\ Len(s) + 1 \in 1..Len(s)+1
      /\ \A i \in 1..Len(s) : i \in 1..Len(s)+1
  BY <1>1
<1> QED
  BY <1>1, <1>2, <1>3

LEMMA TailWorklist ==
  ASSUME NEW s \in Seq(Funcs), s # <<>>
  PROVE  /\ Head(s) \in Funcs /\ Head(s) = s[1] /\ Tail(s) \in Seq(Funcs)
         /\ Len(s) \in Nat \ {0} /\ Len(Tail(s)) = Len(s) - 1
         /\ \A i \in 1..Len(Tail(s)) : i+1 \in 1..Len(s) /\ Tail(s)[i] = s[i+1]
         /\ \A g : (\E i \in 1..Len(s) : s[i] = g)
                    => g = Head(s) \/ \E i \in 1..Len(Tail(s)) : Tail(s)[i] = g
<1>1. /\ Head(s) \in Funcs /\ Head(s) = s[1] /\ Tail(s) \in Seq(Funcs)
      /\ Len(s) \in Nat \ {0} /\ Len(Tail(s)) = Len(s) - 1
      /\ \A i \in 1..Len(Tail(s)) : Tail(s)[i] = s[i+1]
  BY HeadTailProperties, EmptySeq
<1>2. \A i \in 1..Len(Tail(s)) : i+1 \in 1..Len(s)
  BY <1>1
<1>3. \A i \in 1..Len(s) : i = 1 \/ (i-1 \in 1..Len(Tail(s)) /\ (i-1)+1 = i)
  BY <1>1
<1> QED
  BY <1>1, <1>2, <1>3

-----------------------------------------------------------------------------
LEMMA InitInv == Init => IInv
<1> SUFFICES ASSUME Init PROVE IInv
  OBVIOUS
<1>1. TypeOK
  <2>1. body \in [Funcs -> AllBodies]
    BY BodiesAssumption DEF Init
  <2> QED
    BY <2>1, MaxRunsAssumption DEF Init, TypeOK
<1>2. Len(worklist) = 0 /\ worklist = <<>> /\ phase = "mark" /\ unmarked = Funcs
      /\ uses = {} /\ earlier = {}
  BY DEF Init
<1> QED
  BY <1>1, <1>2 DEF IInv, MarkInv, WorkInv, WorkPending, QueuedOnce, EarlierInv, InWorklist

LEMMA NextType == TypeOK /\ [Next]_vars => TypeOK'
<1> SUFFICES ASSUME TypeOK, [Next]_vars PROVE TypeOK'
  OBVIOUS
<1>1. ASSUME NEW f \in Funcs, TrivialMark(f) PROVE TypeOK'
  BY <1>1, AppendWorklist DEF TrivialMark, TypeOK
<1>2. ASSUME NEW f \in Funcs, ProcessUse(f) PROVE TypeOK'
  BY <1>2, AppendWorklist DEF ProcessUse, TypeOK
<1>3. CASE StartWork
  BY <1>3 DEF StartWork, TypeOK
<1>4. CASE Pop
  BY <1>4, TailWorklist DEF Pop, TypeOK, Module
<1>5. CASE Finish
  BY <1>5 DEF Finish, TypeOK
<1>6. CASE Rerun
  <2>1. /\ callers' \in [Funcs -> SUBSET Funcs]
        /\ \A f \in Funcs : callers'[f] \subseteq callers[f]
        /\ UNCHANGED <<is_pure, worklist, now, uses>>
        /\ phase' = "mark" /\ unmarked' = Funcs /\ runs' = runs + 1 /\ earlier' = is_pure
    BY <1>6 DEF Rerun
  <2>2. PICK gone \in [Funcs -> SUBSET UNION {Loads(f) : f \in Funcs}] :
          body' = [f \in Funcs |-> [body[f] EXCEPT !.accesses = @ \ gone[f]]]
    BY <1>6 DEF Rerun
  <2>3. ASSUME NEW f \in Funcs
        PROVE  body'[f] \in AllBodies /\ body'[f].sort = body[f].sort
    <3>1. body[f] \in AllBodies
      BY DEF TypeOK, Module
    <3> QED
      BY <2>2, <3>1 DEF AllBodies
  <2>4. body' \in [Funcs -> AllBodies]
    BY <2>2, <2>3
  <2>5. Module(body', callers')
    BY <2>1, <2>3, <2>4 DEF TypeOK, Module
  <2> QED
    BY <2>1, <2>5 DEF TypeOK
<1>7. CASE UNCHANGED vars
  BY <1>7 DEF vars, TypeOK
<1> QED
  BY <1>1, <1>2, <1>3, <1>4, <1>5, <1>6, <1>7 DEF Next, Done

\* Types: every variable keeps its shape in every reachable state.
THEOREM TypeCorrect == Spec => []TypeOK
<1>1. Init => TypeOK
  BY InitInv DEF IInv
<1> QED
  BY <1>1, NextType, PTL DEF Spec

\* A function reached by the first loop is in the worklist if and only if it
\* is impure by itself.
LEMMA TrivialMarkInv ==
  ASSUME IInv, TypeOK', NEW f \in Funcs, TrivialMark(f)
  PROVE  IInv'
<1>1. /\ phase = "mark" /\ phase' = "mark" /\ f \in unmarked
      /\ unmarked' = unmarked \ {f}
      /\ UNCHANGED <<body, callers, uses, earlier>>
  BY DEF TrivialMark
<1>2. /\ Impure' = Impure /\ \A g : TriviallyPure(g)' <=> TriviallyPure(g)
  BY <1>1, SameImpure
<1>3. worklist \in Seq(Funcs)
  BY DEF IInv, TypeOK
<1>4. ~InWorklist(f)
  BY <1>1 DEF IInv, MarkInv
<1>5. CASE TriviallyPure(f)
  <2>1. is_pure' = is_pure \cup {f} /\ worklist' = worklist
    BY <1>5 DEF TrivialMark
  <2>2. MarkInv'
    BY <1>1, <1>2, <1>5, <2>1 DEF IInv, MarkInv, InWorklist
  <2>3. QueuedOnce'
    BY <1>4, <2>1 DEF IInv, QueuedOnce, InWorklist
  <2> QED
    BY <1>1, <1>2, <2>2, <2>3 DEF IInv, WorkInv, WorkPending, EarlierInv
<1>6. CASE ~TriviallyPure(f)
  <2>1. is_pure' = is_pure \ {f} /\ worklist' = Append(worklist, f)
    BY <1>6 DEF TrivialMark
  <2>2. \A g : InWorklist(g)' <=> g = f \/ InWorklist(g)
    BY <1>3, <2>1, AppendWorklist DEF InWorklist
  <2>3. MarkInv'
    BY <1>1, <1>2, <1>6, <2>1, <2>2 DEF IInv, MarkInv
  <2>4. QueuedOnce'
    <3>1. /\ Len(worklist) \in Nat /\ Len(worklist') = Len(worklist) + 1
          /\ \A i \in 1..Len(worklist) : worklist'[i] = worklist[i]
          /\ worklist'[Len(worklist)+1] = f
      BY <1>3, <2>1, AppendWorklist
    <3>2. \A i \in 1..Len(worklist') : i \in 1..Len(worklist) \/ i = Len(worklist) + 1
      BY <3>1
    <3>3. \A i \in 1..Len(worklist) : worklist[i] # f
      BY <1>4 DEF InWorklist
    <3> QED
      BY <3>1, <3>2, <3>3, <2>1 DEF IInv, QueuedOnce
  <2> QED
    BY <1>1, <1>2, <2>3, <2>4 DEF IInv, WorkInv, WorkPending, EarlierInv
<1> QED
  BY <1>5, <1>6

LEMMA StartWorkInv ==
  ASSUME IInv, TypeOK', StartWork
  PROVE  IInv'
<1>1. /\ phase = "mark" /\ phase' = "work" /\ unmarked = {} /\ uses = {}
      /\ UNCHANGED <<body, callers, is_pure, worklist, now, uses, earlier>>
  BY DEF StartWork, IInv, MarkInv
<1>2. /\ Impure' = Impure /\ \A g : TriviallyPure(g)' <=> TriviallyPure(g)
  BY <1>1, SameImpure
<1>3. \A g \in Funcs : (g \in is_pure <=> TriviallyPure(g)) /\ (g \notin is_pure => InWorklist(g))
  BY <1>1 DEF IInv, MarkInv
<1>4. \A g \in Funcs \ is_pure : g \in Impure
  BY <1>3, TrivialRight DEF Impure, ClosedUnderCallers, IInv
<1>5. is_pure \subseteq Funcs
  BY DEF IInv, TypeOK
<1>6. WorkPending'
  BY <1>1, <1>2, <1>3, <1>4 DEF WorkPending, InWorklist
<1>7. MarkInv' /\ QueuedOnce' /\ EarlierInv'
  BY <1>1, <1>2 DEF IInv, MarkInv, QueuedOnce, EarlierInv
<1> QED
  BY <1>1, <1>2, <1>3, <1>5, <1>6, <1>7 DEF IInv, WorkInv

LEMMA PopInv ==
  ASSUME IInv, TypeOK', Pop
  PROVE  IInv'
<1>1. /\ phase = "work" /\ phase' = "work" /\ uses = {} /\ worklist # <<>>
      /\ now' = Head(worklist) /\ worklist' = Tail(worklist)
      /\ uses' = callers[Head(worklist)]
      /\ UNCHANGED <<body, callers, is_pure, earlier>>
  BY DEF Pop
<1>2. /\ Impure' = Impure /\ \A g : TriviallyPure(g)' <=> TriviallyPure(g)
  BY <1>1, SameImpure
<1>3. worklist \in Seq(Funcs)
  BY DEF IInv, TypeOK
<1>4. /\ Len(worklist) \in Nat \ {0} /\ Len(worklist') = Len(worklist) - 1
      /\ \A i \in 1..Len(worklist') : i+1 \in 1..Len(worklist) /\ worklist'[i] = worklist[i+1]
      /\ \A g : InWorklist(g) => g = Head(worklist) \/ InWorklist(g)'
  BY <1>1, <1>3, TailWorklist DEF InWorklist
<1>5. WorkPending'
  <2> SUFFICES ASSUME NEW f \in Funcs \ is_pure
               PROVE  /\ f \in Impure
                      /\ \A c \in callers[f] \cap is_pure :
                           (f = now' /\ c \in uses') \/ InWorklist(f)'
    BY <1>1, <1>2 DEF WorkPending, InWorklist
  <2>1. f \in Impure /\ \A c \in callers[f] \cap is_pure : InWorklist(f)
    BY <1>1 DEF IInv, WorkInv, WorkPending, InWorklist
  <2> QED
    BY <1>1, <1>4, <2>1
<1>6. QueuedOnce'
  <2>1. \A i \in 1..Len(worklist') : worklist'[i] \notin is_pure'
    BY <1>1, <1>4 DEF IInv, QueuedOnce
  <2>2. ASSUME NEW i \in 1..Len(worklist'), NEW j \in 1..Len(worklist'),
               worklist'[i] = worklist'[j]
        PROVE  i = j
    <3>1. i+1 = j+1
      BY <1>4, <2>2 DEF IInv, QueuedOnce
    <3> QED
      BY <3>1
  <2> QED
    BY <2>1, <2>2 DEF QueuedOnce
<1>7. now' \in Funcs \ is_pure' /\ uses' \subseteq callers'[now']
  <2>1. 1 \in 1..Len(worklist) /\ now' = worklist[1] /\ now' \in Funcs
    BY <1>1, <1>3, <1>4, TailWorklist
  <2> QED
    BY <1>1, <2>1 DEF IInv, QueuedOnce
<1> QED
  BY <1>1, <1>2, <1>5, <1>6, <1>7 DEF IInv, MarkInv, WorkInv, EarlierInv

\* The one step that spreads impurity: the caller is impure because the
\* function being processed is.
LEMMA ProcessUseInv ==
  ASSUME IInv, TypeOK', NEW c \in Funcs, ProcessUse(c)
  PROVE  IInv'
<1>1. /\ phase = "work" /\ phase' = "work" /\ c \in uses /\ uses' = uses \ {c}
      /\ UNCHANGED <<body, callers, now, earlier>>
  BY DEF ProcessUse
<1>2. /\ Impure' = Impure /\ \A g : TriviallyPure(g)' <=> TriviallyPure(g)
  BY <1>1, SameImpure
<1>3. worklist \in Seq(Funcs)
  BY DEF IInv, TypeOK
<1>4. now \in Funcs \ is_pure /\ uses \subseteq callers[now]
  BY <1>1 DEF IInv, WorkInv
<1>5. now \in Impure
  BY <1>1, <1>4 DEF IInv, WorkInv, WorkPending
<1>6. c \in Impure
  BY <1>1, <1>4, <1>5, ImpureClosed DEF ClosedUnderCallers, IInv
<1>7. CASE c \in is_pure
  <2>1. is_pure' = is_pure \ {c} /\ worklist' = Append(worklist, c)
    BY <1>7 DEF ProcessUse
  <2>2. \A g : InWorklist(g)' <=> g = c \/ InWorklist(g)
    BY <1>3, <2>1, AppendWorklist DEF InWorklist
  <2>3. WorkPending'
    <3> SUFFICES ASSUME NEW f \in Funcs \ is_pure'
                 PROVE  /\ f \in Impure
                        /\ \A d \in callers[f] \cap is_pure' :
                             (f = now /\ d \in uses') \/ InWorklist(f)'
      BY <1>1, <1>2 DEF WorkPending, InWorklist
    <3>1. CASE f = c
      BY <1>6, <2>2, <3>1
    <3>2. CASE f \in Funcs \ is_pure
      <4>1. /\ f \in Impure
            /\ \A d \in callers[f] \cap is_pure : (f = now /\ d \in uses) \/ InWorklist(f)
        BY <1>1, <3>2 DEF IInv, WorkInv, WorkPending, InWorklist
      <4> QED
        BY <1>1, <2>1, <2>2, <4>1
    <3> QED
      BY <2>1, <3>1, <3>2
  <2>4. QueuedOnce'
    <3>1. /\ Len(worklist) \in Nat /\ Len(worklist') = Len(worklist) + 1
          /\ \A i \in 1..Len(worklist) : worklist'[i] = worklist[i]
          /\ worklist'[Len(worklist)+1] = c
      BY <1>3, <2>1, AppendWorklist
    <3>2. \A i \in 1..Len(worklist') : i \in 1..Len(worklist) \/ i = Len(worklist) + 1
      BY <3>1
    <3>3. \A i \in 1..Len(worklist) : worklist[i] # c
      BY <1>7 DEF IInv, QueuedOnce
    <3> QED
      BY <3>1, <3>2, <3>3, <2>1 DEF IInv, QueuedOnce
  <2> QED
    BY <1>1, <1>2, <1>4, <2>1, <2>3, <2>4 DEF IInv, MarkInv, WorkInv, EarlierInv
<1>8. CASE c \notin is_pure
  <2>1. is_pure' = is_pure /\ worklist' = worklist
    BY <1>8 DEF ProcessUse
  <2>2. WorkPending'
    BY <1>1, <1>2, <1>8, <2>1 DEF IInv, WorkInv, WorkPending
  <2>3. QueuedOnce'
    BY <2>1 DEF IInv, QueuedOnce
  <2> QED
    BY <1>1, <1>2, <1>4, <2>1, <2>2, <2>3 DEF IInv, MarkInv, WorkInv, EarlierInv
<1> QED
  BY <1>7, <1>8

LEMMA FinishInv ==
  ASSUME IInv, TypeOK', Finish
  PROVE  IInv'
<1>1. /\ phase = "work" /\ phase' = "done" /\ uses = {} /\ worklist = <<>> /\ Len(worklist) = 0
      /\ UNCHANGED <<body, callers, is_pure, worklist, now, uses, earlier>>
  BY DEF Finish
<1>2. /\ Impure' = Impure /\ \A g : TriviallyPure(g)' <=> TriviallyPure(g)
  BY <1>1, SameImpure
<1>3. \A f \in Funcs \ is_pure : f \in Impure /\ callers[f] \cap is_pure = {}
  BY <1>1 DEF IInv, WorkInv, WorkPending
<1> QED
  BY <1>1, <1>2, <1>3 DEF IInv, MarkInv, WorkInv, WorkPending, QueuedOnce, EarlierInv

\* At the end of a run the functions out of is_pure are exactly the impure ones.
LEMMA DoneExact ==
  ASSUME IInv, phase = "done"
  PROVE  is_pure = Funcs \ Impure
<1>1. is_pure \subseteq Funcs
  BY DEF IInv, TypeOK
<1>2. \A f \in Funcs : callers[f] \subseteq Funcs
  BY DEF IInv, TypeOK, Module
<1>3. ClosedUnderCallers(Funcs \ is_pure)
  BY <1>2, TrivialRight DEF ClosedUnderCallers, IInv, WorkInv
<1>4. Impure \subseteq Funcs \ is_pure
  BY <1>3, ImpureLeast
<1>5. Funcs \ is_pure \subseteq Impure
  BY DEF IInv, WorkInv
<1> QED
  BY <1>1, <1>4, <1>5

LEMMA RerunInv ==
  ASSUME IInv, TypeOK', Rerun
  PROVE  IInv'
<1>1. /\ phase = "done" /\ phase' = "mark" /\ unmarked' = Funcs /\ earlier' = is_pure
      /\ UNCHANGED <<is_pure, worklist, now, uses>>
  BY DEF Rerun
<1>2. worklist = <<>> /\ Len(worklist) = 0 /\ uses = {}
  BY <1>1 DEF IInv, WorkInv
<1>3. EarlierInv'
  BY <1>1, DoneExact, ImpureShrinks DEF IInv, EarlierInv
<1>4. MarkInv' /\ WorkInv' /\ QueuedOnce'
  BY <1>1, <1>2 DEF MarkInv, WorkInv, WorkPending, QueuedOnce, InWorklist
<1> QED
  BY <1>3, <1>4 DEF IInv

LEMMA Inductive == Spec => []IInv
<1>1. Init => IInv
  BY InitInv
<1>2. IInv /\ [Next]_vars => IInv'
  <2> SUFFICES ASSUME IInv, [Next]_vars PROVE IInv'
    OBVIOUS
  <2>1. TypeOK'
    BY NextType DEF IInv
  <2>2. CASE UNCHANGED vars
    <3>1. UNCHANGED <<body, callers, phase, unmarked, is_pure, worklist, now, uses, earlier>>
      BY <2>2 DEF vars
    <3>2. Impure' = Impure /\ \A g : TriviallyPure(g)' <=> TriviallyPure(g)
      BY <3>1, SameImpure
    <3> QED
      BY <2>1, <3>1, <3>2
         DEF IInv, MarkInv, WorkInv, WorkPending, QueuedOnce, EarlierInv, InWorklist
  <2> QED
    BY <2>1, <2>2, TrivialMarkInv, ProcessUseInv, StartWorkInv, PopInv, FinishInv, RerunInv
       DEF Next, Done
<1> QED
  BY <1>1, <1>2, PTL DEF Spec

\* The purity analysis is exact on every module, recursive calls included.
THEOREM PurityCorrect == Spec => []PurityExact
<1>1. IInv => PurityExact
  BY DoneExact DEF PurityExact
<1> QED
  BY <1>1, Inductive, PTL

\* No function is queued twice.
THEOREM QueueBounded == Spec => []QueuedOnce
<1>1. IInv => QueuedOnce
  BY DEF IInv
<1> QED
  BY <1>1, Inductive, PTL

\* Purity found before dead code is deleted can be relied on afterwards.
THEOREM PurityIsKept == Spec => []PurityKept
<1>1. ASSUME IInv, phase = "done" PROVE earlier \subseteq is_pure
  BY <1>1, DoneExact DEF IInv, EarlierInv, TypeOK
<1>2. IInv => PurityKept
  BY <1>1 DEF PurityKept
<1> QED
  BY <1>2, Inductive, PTL
=============================================================================
