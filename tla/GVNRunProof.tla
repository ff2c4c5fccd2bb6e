---------------------------- MODULE GVNRunProof ----------------------------
(***************************************************************************)
(* GVN keeps the meaning of a plain function, one without loops and phis   *)
(* whose blocks come after their predecessors in the list, and leaves no   *)
(* use of what computes an available expression again.  On other functions *)
(* the meaning may change; the runs gvn_copies and gvn_diverges show how.  *)
(***************************************************************************)
EXTENDS GVNProof, GVNRun, WellFoundedInduction

OpNames ==
  {"add", "sub", "mul", "sdiv", "fadd", "fsub", "fmul", "fdiv", "cmp", "fcmp", "getelementptr",
   "alloca", "load", "store", "call", "br", "ret"} \cup Casts

\* What any instruction looks like that the builder makes, phis apart.
WellMade(i) ==
  /\ i.op \in OpNames
  /\ IF IsCompare(i) THEN i.cmp \in {"EQ", "NE", "GT", "GE", "LT", "LE"} ELSE i.cmp = "EQ"
  /\ IsBinaryOp(i) \/ IsCompare(i) => Len(i.opnd) = 2
  /\ i.op \in Casts \cup {"load"} => Len(i.opnd) = 1
  /\ i.op = "call" => Len(i.opnd) > 0 /\ i.opnd[1][1] = "func"
  /\ i.op = "br" => \/ Len(i.opnd) = 1 /\ i.opnd[1][1] = "label"
                    \/ Len(i.opnd) = 3 /\ i.opnd[2][1] = "label" /\ i.opnd[3][1] = "label"

\* d is on every path from the entry to b: without it b cannot be reached.
Dominates(d, b) ==
  \E S \in SUBSET (Blocks \ {d}) :
    /\ d # 1 => 1 \in S
    /\ \A c \in Blocks \ {d} : ToSet(Preds(c)) \cap S # {} => c \in S
    /\ b \notin S

\* The place of w in the list is before that of v.
Precedes(w, v) == w[1] = "op" => w[2] < v[2] \/ (w[2] = v[2] /\ w[3] < v[3])

SmallNumber == 30000

Plain ==
  /\ 1 \in Blocks /\ Len(fn.code) <= SmallNumber /\ Len(Given) <= SmallNumber
  /\ \A b \in Blocks :
       /\ Len(fn.code[b]) <= SmallNumber
       /\ IF b = 1 THEN Preds(b) = <<>> ELSE Len(Preds(b)) \in {1, 2}
       /\ \A n \in 1..Len(Preds(b)) : Preds(b)[n] < b
  /\ \A v \in OpsOf(fn.code) :
       LET i == InstrOf(fn.code, v)
       IN  /\ WellMade(i)
           /\ i.op = "br" => v[3] = Len(fn.code[v[2]])
                               /\ \A n \in 1..Len(Targets(i)) : v[2] \in ToSet(Preds(Targets(i)[n]))
           /\ \A n \in 1..Len(i.opnd) :
                i.opnd[n][1] = "op" =>
                  i.opnd[n] \in Computed /\ Precedes(i.opnd[n], v) /\ Dominates(i.opnd[n][2], v[2])

-----------------------------------------------------------------------------
(* Sound partitions.                                                       *)

\* An expression that says what the value is, the operation and its operands.
Tells(e) == e.t = "bin" \/ (e.t = "var" /\ e.type \notin {"impure", "alloca"})
Args(e) == IF e.t = "bin" THEN <<e.lhs, e.rhs>> ELSE [n \in DOMAIN e.ops |-> e.ops[n]]
Operation(e) ==
  [op |-> IF e.t = "bin" THEN e.op ELSE IF e.type = "pure" THEN "call" ELSE e.type,
   cmp |-> IF e.t = "bin" THEN e.cmp ELSE "EQ"]

\* v is there before the k-th instruction of b, in the order of the list.
Placed(v, b, k) == v[1] = "op" => v[2] < b \/ (v[2] = b /\ v[3] < k)

\* The shape of constants, which operations on them need.
HasNumbers(v) == v[2] \in Int /\ v[3] \in Int

\* What an operand of an expression can be.
Known(w) == w[1] = "op" => w \in Computed

\* The leader came first, and the operands of the expression before it.
Founded(c) ==
  /\ c.members # {} /\ c.index # TopIndex /\ c.value_phi = NoExpr
  /\ IsConstant(c.leader_) =>
       /\ Tells(c.value_expr)
       /\ \A n \in DOMAIN Args(c.value_expr) : IsConstant(Args(c.value_expr)[n])
       /\ Result(Operation(c.value_expr), Args(c.value_expr)) = c.leader_ /\ HasNumbers(c.leader_)
  /\ ~IsConstant(c.leader_) =>
       /\ c.leader_ \in c.members
       /\ \A v \in c.members \ {c.leader_} : Precedes(c.leader_, v)
  /\ ~Tells(c.value_expr) => c.members = {c.leader_}
  /\ Tells(c.value_expr) =>
       /\ \A v \in c.members : v[1] = "op"
       /\ \A n \in DOMAIN Args(c.value_expr) :
            Known(Args(c.value_expr)[n]) /\ \A v \in c.members : Precedes(Args(c.value_expr)[n], v)

Alike(c, d) == c.index = d.index /\ c.leader_ = d.leader_ /\ c.value_expr = d.value_expr

\* The partition before the k-th instruction of b.
SoundAt(b, k, P) ==
  /\ Good(P)
  /\ \A c \in P :
       /\ Founded(c)
       /\ \A v \in c.members :
            /\ Placed(v, b, k)
            /\ v[1] = "op" /\ v[2] = b => c.value_expr = valueExpr(P, InstrOf(fn.code, v))
            /\ ~(v[1] = "op" /\ v[2] = b) =>
                 \A n \in 1..Len(Preds(b)) : v \in AllMembers(pout[Preds(b)[n]])
       /\ \A q \in 1..(b-1) : \A d \in pout[q] : c.members \cap d.members # {} => Alike(c, d)

\* The blocks that are visited, in this pass or by the initialisation.
Visited ==
  IF phase = "init" THEN {b \in Blocks : b = 1 /\ bb > 1}
  ELSE IF phase = "iterate" THEN {b \in Blocks : b = 1 \/ b < bb}
  ELSE Blocks

MaxNumber(b) == 1 + Len(Given) + SmallNumber * b

PartitionsSound == \A b \in Visited : SoundAt(b, Len(fn.code[b]) + 1, pout[b])

NumbersSmall ==
  /\ phase = "init" => IF bb = 1 THEN next_value_number = 1 ELSE next_value_number <= MaxNumber(1)
  /\ phase = "iterate" => cur_next_value_number <= MaxNumber(1) /\ next_value_number <= MaxNumber(bb)

\* An operand is the original one or leads its class at the end of the block.
OperandsLed ==
  \A b \in Blocks : \A k \in 1..Len(fn.code[b]) : \A n \in 1..Len(fn.code[b][k].opnd) :
    code[b][k].opnd[n] # fn.code[b][k].opnd[n] =>
      \E c \in pout[b] : fn.code[b][k].opnd[n] \in c.members /\ code[b][k].opnd[n] = c.leader_

TodoLed ==
  /\ phase \in {"init", "iterate"} => todo = {}
  /\ \A r \in todo :
       r.bb \in Blocks /\ \E c \in pout[r.bb] : r.member \in c.members \ {c.leader_} /\ r.leader_ = c.leader_

PassInv ==
  Plain =>
    /\ phase \in {"init", "iterate", "replace", "done"} /\ (phase = "done" => ok)
    /\ ok => PartitionsSound /\ NumbersSmall
    /\ OperandsLed /\ TodoLed

\* No operation has two classes, nothing that was computed is in none, and
\* the next number is free.
Unique(P) == \A c, d \in P : Tells(c.value_expr) /\ c.value_expr = d.value_expr => c = d
Past(v, b, k) == v[1] = "op" /\ v[2] = b => v[3] < k
Complete(b, k, P) == \A v \in Computed : Dominates(v[2], b) /\ Past(v, b, k) => v \in AllMembers(P)
Below(P, n) == \A c \in P : c.index < n
ExactAt(b, k, P, n) == Unique(P) /\ Complete(b, k, P) /\ Below(P, n)

PartitionsExact ==
  \A b \in Visited :
    /\ Unique(pout[b]) /\ Complete(b, Len(fn.code[b]) + 1, pout[b])
    /\ phase \in {"init", "iterate"} => Below(pout[b], next_value_number)
    /\ phase = "iterate" /\ b = 1 => Below(pout[b], cur_next_value_number)

\* Members other than the leader have no uses in the block, or these are still
\* to be replaced.
UsesReplaced ==
  phase \in {"replace", "done"} =>
    \A b \in Blocks : \A k \in 1..Len(fn.code[b]) : \A n \in 1..Len(fn.code[b][k].opnd) :
      \A c \in pout[b] :
        code[b][k].opnd[n] \in c.members \ {c.leader_} => Replacement(b, c, code[b][k].opnd[n]) \in todo

ExactInv == Plain => (ok => PartitionsExact) /\ UsesReplaced /\ (phase = "done" => todo = {})

\* What the registers hold before the k-th instruction of b.
Meaning(regs, e) == Result(Operation(e), [n \in DOMAIN Args(e) |-> Contents(regs, Args(e)[n])])

Means(regs, b, k) ==
  \A c \in pout[b] :
    /\ \A v \in c.members : Past(v, b, k) => Contents(regs, v) = Contents(regs, c.leader_)
    /\ Past(c.leader_, b, k) /\ Tells(c.value_expr) => Contents(regs, c.leader_) = Meaning(regs, c.value_expr)

Defined(regs, b, k) == \A v \in Computed : Dominates(v[2], b) /\ Past(v, b, k) => regs[v] # Undef

NothingRun ==
  /\ at = 1 /\ ip = 1
  /\ old = [v \in OpsOf(fn.code) |-> Undef] /\ new = old

SameRegisters ==
  /\ new = old /\ old = [v \in OpsOf(fn.code) |-> old[v]]
  /\ at \in Blocks /\ ip \in Nat \ {0}
  /\ Defined(old, at, ip) /\ Means(old, at, ip)

RunInv == Plain => IF phase = "done" THEN SameRegisters ELSE NothingRun

-----------------------------------------------------------------------------
(* ConstFolder computes what the target computes.                          *)

\* Division with a divisor that is not written out.
LEMMA DivMod ==
  ASSUME NEW n \in Int, NEW m \in Nat \ {0}
  PROVE  n % m \in 0..(m-1) /\ n \div m \in Int /\ n = m * (n \div m) + (n % m)
<1> DEFINE r == n % m
<1>1. n % m \in Int /\ n \div m \in Int
  OBVIOUS
<1>2. 0 <= n % m /\ n % m < m
  OBVIOUS
<1>3. n = m * (n \div m) + (n % m)
  OBVIOUS
<1> QED
  BY <1>1, <1>2, <1>3

\* No multiple of m but zero is nearer to zero than m.
LEMMA NoMultiple ==
  ASSUME NEW m \in Nat \ {0}, NEW k \in Int, -m < m * k, m * k < m
  PROVE  k = 0
<1>1. k >= 1 => m * k >= m
  OBVIOUS
<1>2. k <= -1 => m * k <= -m
  OBVIOUS
<1> QED
  BY <1>1, <1>2

\* Multiples leave no rest.
LEMMA ModZero ==
  ASSUME NEW m \in Nat \ {0}, NEW k \in Int
  PROVE  (m * k) % m = 0
<1>1. m * k \in Int
  OBVIOUS
<1> DEFINE r == (m * k) % m
           d == (m * k) \div m
<1>2. r \in 0..(m-1) /\ d \in Int /\ m * k = m * d + r
  BY <1>1, DivMod
<1> HIDE DEF r, d
<1>3. m * (k - d) = r
  BY <1>2
<1>4. k - d = 0
  BY <1>2, <1>3, NoMultiple
<1>5. r = 0
  BY <1>2, <1>3, <1>4
<1> QED
  BY <1>5 DEF r

\* The compiler's int wraps to the i32 that is congruent.
LEMMA WrapOK ==
  ASSUME NEW n \in Int
  PROVE  Wrap(n) \in Ints /\ I32(n) = IntC(n)
<1> DEFINE w == 2 * IntMax + 2
           m == n % w
           d == n \div w
           r == Wrap(n)
<1>1. w \in Nat \ {0} /\ IntMax \in Nat
  BY IntMaxAssumption
<1>2. m \in 0..(w-1) /\ d \in Int /\ n = w * d + m
  BY <1>1, DivMod
<1>3. r = IF m <= IntMax THEN m ELSE m - w
  BY DEF Wrap
<1> HIDE DEF m, d, r
<1>4. r \in Ints
  BY <1>1, <1>2, <1>3 DEF Ints, IntMin
<1>5. \E k \in Int : r - n = w * k
  <2>1. m <= IntMax => r - n = w * (-d)
    BY <1>1, <1>2, <1>3
  <2>2. ~(m <= IntMax) => r - n = w * (-d - 1)
    BY <1>1, <1>2, <1>3
  <2>3. -d \in Int /\ -d - 1 \in Int
    BY <1>2
  <2> QED
    BY <2>1, <2>2, <2>3
<1>6. (r - n) % w = 0
  <2> HIDE DEF w
  <2> QED
    BY <1>1, <1>5, ModZero
<1>7. ASSUME NEW s \in Ints, (s - n) % w = 0 PROVE s = r
  <2>1. PICK k \in Int : r - n = w * k
    BY <1>5
  <2>2. s \in Int /\ r \in Int /\ s - n \in Int /\ -w < s - r /\ s - r < w
    BY <1>1, <1>4 DEF Ints, IntMin
  <2> DEFINE j == (s - n) \div w
  <2>3. j \in Int /\ s - n = w * j
    <3> HIDE DEF w
    <3> QED
      BY <1>1, <1>7, <2>2, DivMod
  <2> HIDE DEF j, w
  <2>4. s - r = w * (j - k)
    BY <1>1, <2>1, <2>2, <2>3
  <2>5. j - k = 0
    BY <1>1, <2>1, <2>2, <2>3, <2>4, NoMultiple
  <2> QED
    BY <1>1, <2>2, <2>4, <2>5
<1>8. I32(n) = <<"int", CHOOSE s \in Ints : (s - n) % w = 0, 0>>
  BY DEF I32
<1>9. I32(n) = <<"int", r, 0>>
  <2> HIDE DEF w
  <2> QED
    BY <1>4, <1>6, <1>7, <1>8
<1> QED
  BY <1>4, <1>9 DEF r, IntC

\* C++'s division is the only number that rounds toward zero.
LEMMA QuotientOK ==
  ASSUME NEW m \in Int, NEW n \in Int, n # 0
  PROVE  /\ Quotient(m, n) \in -Abs(m)..Abs(m) /\ IsQuotient(m, n, Quotient(m, n))
         /\ \A q \in Int : IsQuotient(m, n, q) => q = Quotient(m, n)
<1> DEFINE a == Abs(m)
           b == Abs(n)
           c == a \div b
           e == a % b
           q == Quotient(m, n)
<1>1. a \in Nat /\ b \in Nat \ {0} /\ (m = a \/ m = -a) /\ (m < 0 <=> a # 0 /\ m = -a)
      /\ (n = b \/ n = -b) /\ (n < 0 <=> n = -b)
  BY DEF Abs
<1>2. e \in 0..(b-1) /\ c \in Int /\ a = b * c + e
  <2> HIDE DEF a, b
  <2>1. a \in Int /\ b \in Nat \ {0}
    BY <1>1
  <2> QED
    BY <2>1, DivMod
<1>3. q = IF (m < 0) = (n < 0) THEN c ELSE -c
  BY DEF Quotient
<1> HIDE DEF a, b, c, e, q
<1>4. c \in 0..a
  <2>1. c < 0 => b * c <= -b
    BY <1>1, <1>2
  <2>2. c >= 0 => b * c >= c
    BY <1>1, <1>2
  <2> QED
    BY <1>1, <1>2, <2>1, <2>2
<1>5. q \in -a..a
  BY <1>1, <1>3, <1>4
<1>6. m - q * n = e \/ m - q * n = -e
  BY <1>1, <1>2, <1>3, <1>4
<1>7. (m < 0 => m - q * n = -e) /\ (m >= 0 => m - q * n = e)
  BY <1>1, <1>2, <1>3, <1>4
<1>8. IsQuotient(m, n, q)
  <2>1. Abs(m - q * n) = e
    BY <1>2, <1>6 DEF Abs
  <2> QED
    BY <1>1, <1>2, <1>7, <2>1 DEF IsQuotient, b
<1>9. ASSUME NEW p \in Int, IsQuotient(m, n, p) PROVE p = q
  <2> DEFINE r == m - p * n
             s == m - q * n
  <2>1. q \in Int /\ r \in Int /\ s \in Int /\ -b < r /\ r < b /\ -b < s /\ s < b
        /\ (m < 0 => r <= 0 /\ s <= 0) /\ (m >= 0 => r >= 0 /\ s >= 0)
    <3>1. q \in Int /\ r \in Int /\ s \in Int
      BY <1>1, <1>5
    <3>2. /\ Abs(r) < b /\ (r = 0 \/ (r < 0 <=> m < 0))
          /\ Abs(s) < b /\ (s = 0 \/ (s < 0 <=> m < 0))
      BY <1>8, <1>9 DEF IsQuotient, b
    <3> HIDE DEF r, s
    <3> QED
      BY <1>1, <3>1, <3>2 DEF Abs
  <2>2. r - s = n * (q - p)
    BY <1>5, <2>1
  <2> HIDE DEF r, s
  <2>3. -b < b * (q - p) /\ b * (q - p) < b
    <3>1. b * (q - p) = n * (q - p) \/ b * (q - p) = -(n * (q - p))
      BY <1>1, <2>1
    <3> QED
      BY <1>1, <2>1, <2>2, <3>1
  <2>4. q - p = 0
    BY <1>1, <2>1, <2>3, NoMultiple
  <2> QED
    BY <2>1, <2>4
<1> QED
  BY <1>5, <1>8, <1>9 DEF q, a

\* A fraction has lowest terms.
LEMMA LeastNat ==
  ASSUME NEW T, T \subseteq Nat, T # {}
  PROVE  \E x \in T : \A y \in T : ~(y < x)
<1>1. PICK x \in T : \A y \in T : ~(<<y, x>> \in OpToRel(<, Nat))
  BY NatLessThanWellFounded, WFMin
<1>2. \A y \in T : y < x => <<y, x>> \in OpToRel(<, Nat)
  BY DEF OpToRel
<1> QED
  BY <1>1, <1>2

LEMMA FpHasNumbers ==
  ASSUME NEW n \in Int, NEW d \in Int
  PROVE  HasNumbers(FpC(n, d))
<1> DEFINE bound == Abs(n) + Abs(d)
           Common(x) == n % x = 0 /\ Abs(d) % x = 0
           g == CHOOSE x \in 1..bound : 
             /\ n % x = 0 /\ Abs(d) % x = 0
             /\ \A y \in (x+1)..bound : n % y # 0 \/ Abs(d) % y # 0
<1>1. CASE d = 0
  BY <1>1 DEF FpC, HasNumbers
<1>2. CASE d # 0
  <2>1. bound \in Nat \ {0}
    BY <1>2 DEF Abs
  <2>2. n % 1 = 0 /\ Abs(d) % 1 = 0
    BY DEF Abs
  <2>3. \E x \in 1..bound : Common(x) /\ \A y \in (x+1)..bound : ~Common(y)
    <3> DEFINE T == {k \in Nat : \E x \in 1..bound : k = bound - x /\ Common(x)}
    <3> HIDE DEF bound, Common
    <3>1. T \subseteq Nat
      OBVIOUS
    <3>2. bound - 1 \in T
      <4>1. 1 \in 1..bound /\ bound - 1 \in Nat
        BY <2>1
      <4> QED
        BY <2>2, <4>1 DEF Common
    <3>3. PICK k \in T : \A j \in T : ~(j < k)
      BY <3>1, <3>2, LeastNat
    <3>4. PICK x \in 1..bound : k = bound - x /\ Common(x)
      OBVIOUS
    <3>5. ASSUME NEW y \in (x+1)..bound, Common(y) PROVE FALSE
      <4>1. y \in 1..bound /\ bound - y \in Nat /\ bound - y < k
        BY <2>1, <3>4
      <4>2. bound - y \in T
        BY <3>5, <4>1
      <4> QED
        BY <3>3, <4>1, <4>2
    <3> QED
      BY <3>4, <3>5
  <2>4. g \in 1..bound
    BY <2>3
  <2>5. FpC(n, d) = IF d > 0 THEN <<"fp", n \div g, d \div g>> ELSE <<"fp", (-n) \div g, (-d) \div g>>
    BY <1>2 DEF FpC
  <2> HIDE DEF g, bound
  <2>6. g \in Nat \ {0}
    BY <2>1, <2>4
  <2>7. n \div g \in Int /\ d \div g \in Int /\ (-n) \div g \in Int /\ (-d) \div g \in Int
    BY <2>6, DivMod
  <2> QED
    BY <2>5, <2>7 DEF HasNumbers
<1> QED
  BY <1>1, <1>2

Operates(i) == IsBinaryOp(i) \/ (IsCompare(i) /\ i.cmp \in {"EQ", "NE", "GT", "GE", "LT", "LE"})

\* Comparisons by their result, and by the order of the numbers.
LEMMA ComparesRight ==
  ASSUME NEW cmp \in {"EQ", "NE", "GT", "GE", "LT", "LE"}, NEW m \in Int, NEW n \in Int
  PROVE  Compare(cmp, m, n) <=> cmp \in Holding(m, n)
<1>1. CASE cmp = "EQ"
  <2>1. Compare(cmp, m, n) <=> m = n
    BY <1>1 DEF Compare
  <2>2. cmp \in Holding(m, n) <=> m = n
    BY <1>1 DEF Holding
  <2> QED
    BY <2>1, <2>2
<1>2. CASE cmp = "NE"
  <2>1. Compare(cmp, m, n) <=> m # n
    BY <1>2 DEF Compare
  <2>2. cmp \in Holding(m, n) <=> m # n
    BY <1>2 DEF Holding
  <2> QED
    BY <2>1, <2>2
<1>3. CASE cmp = "GT"
  <2>1. Compare(cmp, m, n) <=> m > n
    BY <1>3 DEF Compare
  <2>2. cmp \in Holding(m, n) <=> m > n
    BY <1>3 DEF Holding
  <2> QED
    BY <2>1, <2>2
<1>4. CASE cmp = "GE"
  <2>1. Compare(cmp, m, n) <=> m >= n
    BY <1>4 DEF Compare
  <2>2. cmp \in Holding(m, n) <=> m >= n
    BY <1>4 DEF Holding
  <2> QED
    BY <2>1, <2>2
<1>5. CASE cmp = "LT"
  <2>1. Compare(cmp, m, n) <=> m < n
    BY <1>5 DEF Compare
  <2>2. cmp \in Holding(m, n) <=> m < n
    BY <1>5 DEF Holding
  <2> QED
    BY <2>1, <2>2
<1>6. CASE cmp = "LE"
  <2>1. Compare(cmp, m, n) <=> m <= n
    BY <1>6 DEF Compare
  <2>2. cmp \in Holding(m, n) <=> m <= n
    BY <1>6 DEF Holding
  <2> QED
    BY <2>1, <2>2
<1> QED
  BY <1>1, <1>2, <1>3, <1>4, <1>5, <1>6

\* An operation that does not trap is folded to what the target makes of it.
LEMMA FoldsRight ==
  ASSUME NEW i, Operates(i), NEW v, HasNumbers(v), NEW w, HasNumbers(w), ~Traps(i.op, v, w)
  PROVE  compute(i.op, i.cmp, v, w) = Arithmetic(i, v, w) /\ HasNumbers(compute(i.op, i.cmp, v, w))
<1> DEFINE a == v[2]
           b == w[2]
           c == v[3]
           d == w[3]
           r == compute(i.op, i.cmp, v, w)
<1>1. a \in Int /\ b \in Int /\ c \in Int /\ d \in Int
  BY DEF HasNumbers
<1> HIDE DEF a, b, c, d
<1>2. \A n \in Int : IntC(n) = I32(n) /\ HasNumbers(IntC(n))
  BY WrapOK, IntMaxAssumption DEF HasNumbers, IntC, Ints, IntMin
<1>3. \A p : HasNumbers(BoolC(p))
  BY DEF HasNumbers, BoolC
<1>4. CASE i.op \in {"add", "sub", "mul"}
  <2>1. a + b \in Int /\ a - b \in Int /\ a * b \in Int
    BY <1>1
  <2>2. /\ i.op = "add" => r = IntC(a + b) /\ Arithmetic(i, v, w) = I32(a + b)
        /\ i.op = "sub" => r = IntC(a - b) /\ Arithmetic(i, v, w) = I32(a - b)
        /\ i.op = "mul" => r = IntC(a * b) /\ Arithmetic(i, v, w) = I32(a * b)
    BY <1>4 DEF compute, Arithmetic, a, b
  <2> QED
    BY <1>2, <1>4, <2>1, <2>2
<1>5. CASE i.op = "sdiv"
  <2>1. b # 0
    BY <1>5 DEF Traps, b
  <2>2. /\ Quotient(a, b) \in -Abs(a)..Abs(a) /\ IsQuotient(a, b, Quotient(a, b))
        /\ \A q \in Int : IsQuotient(a, b, q) => q = Quotient(a, b)
    BY <1>1, <2>1, QuotientOK
  <2>3. -Abs(a)..Abs(a) \subseteq Int
    BY <1>1 DEF Abs
  <2>4. (CHOOSE q \in -Abs(a)..Abs(a) : IsQuotient(a, b, q)) = Quotient(a, b) /\ Quotient(a, b) \in Int
    BY <2>2, <2>3
  <2>5. r = IntC(Quotient(a, b)) /\ Arithmetic(i, v, w) = I32(CHOOSE q \in -Abs(a)..Abs(a) : IsQuotient(a, b, q))
    BY <1>5 DEF compute, Arithmetic, a, b
  <2> QED
    BY <1>2, <2>4, <2>5
<1>6. CASE i.op \in {"fadd", "fsub", "fmul", "fdiv"}
  <2>1. /\ a * d + b * c \in Int /\ a * d - b * c \in Int /\ a * b \in Int /\ a * d \in Int
        /\ c * d \in Int /\ c * b \in Int
    BY <1>1
  <2>2. /\ i.op = "fadd" => r = FpC(a * d + b * c, c * d) /\ Arithmetic(i, v, w) = r
        /\ i.op = "fsub" => r = FpC(a * d - b * c, c * d) /\ Arithmetic(i, v, w) = r
        /\ i.op = "fmul" => r = FpC(a * b, c * d) /\ Arithmetic(i, v, w) = r
        /\ i.op = "fdiv" => r = FpC(a * d, c * b) /\ Arithmetic(i, v, w) = r
    BY <1>6 DEF compute, Arithmetic, a, b, c, d
  <2> QED
    BY <1>6, <2>1, <2>2, FpHasNumbers
<1>7. CASE i.op = "cmp"
  <2>1. r = BoolC(Compare(i.cmp, a, b)) /\ Arithmetic(i, v, w) = BoolC(i.cmp \in Holding(a, b))
    BY <1>7 DEF compute, Arithmetic, a, b
  <2>2. Compare(i.cmp, a, b) <=> i.cmp \in Holding(a, b)
    BY <1>1, <1>7, ComparesRight DEF Operates, IsBinaryOp
  <2>3. BoolC(Compare(i.cmp, a, b)) = BoolC(i.cmp \in Holding(a, b))
    BY <2>2 DEF BoolC
  <2> QED
    BY <1>3, <2>1, <2>3
<1>8. CASE i.op = "fcmp"
  <2>1. /\ r = BoolC(Compare(i.cmp, a * d, b * c))
        /\ Arithmetic(i, v, w) = BoolC(i.cmp \in Holding(a * d, b * c))
    BY <1>8 DEF compute, Arithmetic, a, b, c, d
  <2>2. Compare(i.cmp, a * d, b * c) <=> i.cmp \in Holding(a * d, b * c)
    <3>1. a * d \in Int /\ b * c \in Int
      BY <1>1
    <3> QED
      BY <1>8, <3>1, ComparesRight DEF Operates, IsBinaryOp
  <2>3. BoolC(Compare(i.cmp, a * d, b * c)) = BoolC(i.cmp \in Holding(a * d, b * c))
    BY <2>2 DEF BoolC
  <2> QED
    BY <1>3, <2>1, <2>3
<1> QED
  BY <1>4, <1>5, <1>6, <1>7, <1>8 DEF Operates, IsBinaryOp, IsCompare

\* So is a conversion, and what does not fit is the same number.
LEMMA CastsRight ==
  ASSUME NEW i, i.op \in Casts, NEW v, HasNumbers(v)
  PROVE  computeCast(i.op, v) = Conversion(i, v) /\ HasNumbers(computeCast(i.op, v))
<1> DEFINE a == v[2]
           c == v[3]
<1>1. a \in Int /\ c \in Int /\ IntMin \in Int /\ Ints \subseteq Int
  BY IntMaxAssumption DEF HasNumbers, IntMin, Ints
<1>2. CASE i.op = "sitofp"
  <2>1. computeCast(i.op, v) = FpC(a, 1) /\ Conversion(i, v) = FpC(a, 1)
    BY <1>2 DEF computeCast, Conversion
  <2> HIDE DEF a
  <2>2. HasNumbers(FpC(a, 1))
    BY <1>1, FpHasNumbers
  <2> QED
    BY <2>1, <2>2
<1>3. CASE i.op = "zext"
  <2> HIDE DEF a, c
  <2>1. IntC(a) = I32(a) /\ HasNumbers(IntC(a))
    BY <1>1, WrapOK, IntMaxAssumption DEF HasNumbers, IntC, Ints, IntMin
  <2> QED
    BY <1>3, <2>1 DEF computeCast, Conversion, a
<1>4. CASE i.op = "fptosi"
  <2> DEFINE Q == {n \in Ints : IsQuotient(a, c, n)}
             q == Quotient(a, c)
  <2>1. /\ computeCast(i.op, v) = IF c = 0 \/ q \notin Ints THEN <<"int", IntMin, 0>> ELSE <<"int", q, 0>>
        /\ Conversion(i, v) = <<"int", IF Q = {} THEN IntMin ELSE CHOOSE n \in Q : TRUE, 0>>
    BY <1>4 DEF computeCast, TruncateFp, Conversion
  <2> HIDE DEF a, c
  <2>2. CASE c = 0
    <3>1. Abs(c) = 0 /\ Abs(a) \in Nat
      BY <1>1, <2>2 DEF Abs
    <3>2. ASSUME NEW n \in Ints PROVE ~IsQuotient(a, c, n)
      <4>1. n * c = 0
        BY <1>1, <2>2
      <4>2. Abs(a - n * c) = Abs(a)
        BY <1>1, <4>1
      <4>3. ~(Abs(a - n * c) < Abs(c))
        BY <1>1, <3>1, <4>2
      <4> QED
        BY <4>3 DEF IsQuotient
    <3>3. Q = {}
      BY <3>2
    <3> QED
      BY <1>1, <2>1, <2>2, <3>3 DEF HasNumbers
  <2>3. CASE c # 0
    <3>1. IsQuotient(a, c, q) /\ \A n \in Int : IsQuotient(a, c, n) => n = q
      BY <1>1, <2>3, QuotientOK
    <3>2. Q = IF q \in Ints THEN {q} ELSE {}
      BY <1>1, <3>1
    <3> HIDE DEF Q, q
    <3>3. CASE q \in Ints
      <4>1. Q # {} /\ (CHOOSE n \in Q : TRUE) = q
        BY <3>2, <3>3
      <4>2. computeCast(i.op, v) = <<"int", q, 0>> /\ Conversion(i, v) = <<"int", q, 0>>
        BY <2>1, <2>3, <3>3, <4>1
      <4> QED
        BY <1>1, <3>3, <4>2 DEF HasNumbers
    <3>4. CASE q \notin Ints
      <4>1. computeCast(i.op, v) = <<"int", IntMin, 0>> /\ Conversion(i, v) = <<"int", IntMin, 0>>
        BY <2>1, <3>2, <3>4
      <4> QED
        BY <1>1, <4>1 DEF HasNumbers
    <3> QED
      BY <3>3, <3>4
  <2> QED
    BY <2>2, <2>3
<1> QED
  BY <1>2, <1>3, <1>4 DEF Casts

-----------------------------------------------------------------------------
(* Leaders, expressions and results.                                       *)

\* Constants, Null, and values of the function are apart.
LEMMA NotHere ==
  ASSUME fn \in Functions, NEW v \in Here
  PROVE  ~IsConstant(v) /\ v # Null
<1>1. ~IsConstant(v)
  BY GivenType
<1>2. CASE v \in Computed
  <2>1. PICK b \in 1..Len(fn.code) : \E k \in 1..Len(fn.code[b]) : v = Op(b, k)
    BY <1>2 DEF Computed, OpsOf
  <2>2. v[1] = "op"
    BY <2>1 DEF Op
  <2> QED
    BY <1>1, <2>2 DEF Null
<1>3. CASE v \in ToSet(Given)
  <2>1. PICK k \in DOMAIN Given : v = Given[k]
    BY <1>3 DEF ToSet
  <2>2. v[1] \in {"arg", "global"}
    BY <2>1, GivenType
  <2> QED
    BY <1>1, <2>2 DEF Null
<1> QED
  BY <1>1, <1>2, <1>3 DEF Here

\* In a partition whose leaders are constants or values of the function, what
\* stands for a member is the leader of its class, for anything else itself.
LEMMA LeaderIs ==
  ASSUME fn \in Functions, NEW P, Good(P), \A c \in P : Founded(c), NEW v
  PROVE  /\ \A c \in P : v \in c.members =>
              /\ LeaderOf(P, v) = c.leader_
              /\ ConstOf(P, v) = IF IsConstant(c.leader_) THEN c.leader_ ELSE Null
         /\ v \notin AllMembers(P) => /\ LeaderOf(P, v) = v
                                      /\ ConstOf(P, v) = IF IsConstant(v) THEN v ELSE Null
<1>1. ASSUME NEW c \in P, v \in c.members
      PROVE  /\ LeaderOf(P, v) = c.leader_
             /\ ConstOf(P, v) = IF IsConstant(c.leader_) THEN c.leader_ ELSE Null
  <2>1. With(P, v) = {c}
    BY <1>1 DEF With, Good, Apart
  <2>2. c.index \in Nat /\ c.members \subseteq Here
    BY DEF Good, IsClass
  <2>3. Highest({c}) = c /\ First({c}) = c
    BY <2>2 DEF Highest, First
  <2>4. c.leader_ # Null
    <3>1. CASE IsConstant(c.leader_)
      BY <3>1 DEF IsConstant, Null
    <3>2. CASE ~IsConstant(c.leader_)
      BY <2>2, <3>2, NotHere DEF Founded
    <3> QED
      BY <3>1, <3>2
  <2>5. LeaderOf(P, v) = c.leader_
    BY <2>1, <2>3, <2>4 DEF LeaderOf
  <2>6. ~IsConstant(v)
    BY <1>1, <2>2, NotHere
  <2>7. PICK const : const = {cc \in With(P, v) : IsConstant(cc.leader_)}
    OBVIOUS
  <2>8. const = IF IsConstant(c.leader_) THEN {c} ELSE {}
    BY <2>1, <2>7
  <2>9. ConstOf(P, v) = IF const = {} THEN Null ELSE First(const).leader_
    BY <2>6, <2>7 DEF ConstOf
  <2> QED
    BY <2>3, <2>5, <2>8, <2>9
<1>2. ASSUME v \notin AllMembers(P)
      PROVE  LeaderOf(P, v) = v /\ ConstOf(P, v) = IF IsConstant(v) THEN v ELSE Null
  <2>1. With(P, v) = {}
    BY <1>2 DEF With, AllMembers
  <2> QED
    BY <2>1 DEF LeaderOf, ConstOf
<1> QED
  BY <1>1, <1>2

\* What is known to be constant is the leader, too.
LEMMA ConstLeads ==
  ASSUME fn \in Functions, NEW P, Good(P), \A c \in P : Founded(c), NEW v, HasNumbers(v), ConstOf(P, v) # Null
  PROVE  /\ IsConstant(ConstOf(P, v)) /\ HasNumbers(ConstOf(P, v))
         /\ ConstOf(P, v) = LeaderOf(P, v)
<1>1. CASE v \in AllMembers(P)
  <2>1. PICK c \in P : v \in c.members
    BY <1>1 DEF AllMembers
  <2>2. IsConstant(c.leader_) => HasNumbers(c.leader_)
    BY <2>1 DEF Founded
  <2> QED
    BY <2>1, <2>2, LeaderIs
<1>2. CASE v \notin AllMembers(P)
  BY <1>2, LeaderIs
<1> QED
  BY <1>1, <1>2

\* An expression depends on the leaders of the operands only.
LEMMA SameExpression ==
  ASSUME NEW P, NEW Q, NEW i, \A n \in 1..Len(i.opnd) : LeaderOf(P, i.opnd[n]) = LeaderOf(Q, i.opnd[n]),
         Len(i.opnd) \in Nat
  PROVE  valueExpr(P, i) = valueExpr(Q, i)
<1>1. [k \in 1..Len(i.opnd) |-> LeaderOf(P, i.opnd[k])] = [k \in 1..Len(i.opnd) |-> LeaderOf(Q, i.opnd[k])]
  OBVIOUS
<1>2. Len(i.opnd) = 2 => LeaderOf(P, i.opnd[1]) = LeaderOf(Q, i.opnd[1]) /\ LeaderOf(P, i.opnd[2]) = LeaderOf(Q, i.opnd[2])
  OBVIOUS
<1> QED
  BY <1>1, <1>2 DEF valueExpr

\* The instructions whose result depends on their operands alone.
Functional(i) ==
  \/ IsBinaryOp(i) \/ IsCompare(i) \/ i.op \in Casts \/ i.op = "getelementptr"
  \/ i.op = "call" /\ TypeOf(i) = "pure"

\* Their expressions tell the operation and what stands for the operands; the
\* others' tell nothing.
LEMMA ExpressionTells ==
  ASSUME NEW P, NEW i, WellMade(i), ~IsVoid(i), i.op # "phi", Len(i.opnd) \in Nat,
         NEW e, e = valueExpr(P, i)
  PROVE  /\ Tells(e) <=> Functional(i)
         /\ i.op # "load" => e.t \in {"bin", "var"}
         /\ Functional(i) => /\ DOMAIN Args(e) = 1..Len(i.opnd)
                             /\ \A n \in 1..Len(i.opnd) : Args(e)[n] = LeaderOf(P, i.opnd[n])
                             /\ Operation(e).op = i.op /\ Operation(e).cmp = i.cmp

<1> DEFINE ops == [k \in 1..Len(i.opnd) |-> LeaderOf(P, i.opnd[k])]
<1>1. CASE i.op \in {"call", "getelementptr", "alloca"} \cup Casts
  <2>1. e = VariableExpression(TypeOf(i), ops)
    BY <1>1 DEF valueExpr
  <2>2. e.t = "var" /\ e.type = TypeOf(i) /\ e.ops = ops
    BY <2>1 DEF VariableExpression
  <2>3. ~IsBinaryOp(i) /\ ~IsCompare(i) /\ i.cmp = "EQ"
    BY <1>1 DEF IsBinaryOp, IsCompare, Casts, WellMade
  <2>4. Args(e) = ops /\ Operation(e).cmp = "EQ"
        /\ Operation(e).op = IF e.type = "pure" THEN "call" ELSE e.type
    BY <2>2 DEF Args, Operation
  <2>5. Tells(e) <=> TypeOf(i) \notin {"impure", "alloca"}
    BY <2>2 DEF Tells
  <2>6. CASE i.op = "call"
    <3>1. TypeOf(i) \in {"pure", "impure"}
      BY <2>6 DEF TypeOf
    <3>2. Functional(i) <=> TypeOf(i) = "pure"
      BY <2>3, <2>6 DEF Functional, Casts
    <3> QED
      BY <2>2, <2>3, <2>4, <2>5, <2>6, <3>1, <3>2
  <2>7. CASE i.op # "call"
    <3>1. TypeOf(i) = i.op /\ i.op \in {"getelementptr", "alloca", "sitofp", "fptosi", "zext"}
      BY <1>1, <2>7 DEF TypeOf, Casts
    <3>2. Functional(i) <=> i.op # "alloca"
      BY <2>3, <2>7, <3>1 DEF Functional, Casts
    <3> QED
      BY <2>2, <2>3, <2>4, <2>5, <3>1, <3>2
  <2> QED
    BY <2>6, <2>7
<1>2. CASE IsBinaryOp(i) \/ IsCompare(i)
  <2>1. Len(i.opnd) = 2 /\ i.op \notin {"call", "getelementptr", "alloca"} \cup Casts
    BY <1>2 DEF WellMade, IsBinaryOp, IsCompare, Casts
  <2>2. e = BinaryExpression(i.op, IF IsCompare(i) THEN i.cmp ELSE "EQ", LeaderOf(P, i.opnd[1]), LeaderOf(P, i.opnd[2]))
    BY <2>1 DEF valueExpr
  <2>3. e = BinaryExpression(i.op, i.cmp, LeaderOf(P, i.opnd[1]), LeaderOf(P, i.opnd[2]))
    BY <2>2 DEF WellMade
  <2>4. e.t = "bin" /\ e.op = i.op /\ e.cmp = i.cmp /\ e.lhs = LeaderOf(P, i.opnd[1]) /\ e.rhs = LeaderOf(P, i.opnd[2])
    BY <2>3 DEF BinaryExpression
  <2>5. Args(e) = <<LeaderOf(P, i.opnd[1]), LeaderOf(P, i.opnd[2])>> /\ Operation(e).op = i.op /\ Operation(e).cmp = i.cmp
    BY <2>4 DEF Args, Operation
  <2>6. \A n \in 1..Len(i.opnd) : n = 1 \/ n = 2
    BY <2>1
  <2>7. DOMAIN Args(e) = 1..2
    BY <2>5
  <2>8. Args(e)[1] = LeaderOf(P, i.opnd[1]) /\ Args(e)[2] = LeaderOf(P, i.opnd[2])
    BY <2>5
  <2>9. Tells(e) /\ Functional(i)
    BY <1>2, <2>4 DEF Tells, Functional
  <2>10. \A n \in 1..Len(i.opnd) : Args(e)[n] = LeaderOf(P, i.opnd[n])
    BY <2>6, <2>8
  <2> QED
    BY <2>1, <2>4, <2>5, <2>7, <2>9, <2>10
<1>3. CASE i.op = "load"
  <2>1. e = ConstantExpression(i.opnd[1])
    BY <1>3 DEF valueExpr, WellMade, Casts
  <2>2. ~Tells(e)
    BY <2>1 DEF ConstantExpression, Tells
  <2>3. ~Functional(i)
    BY <1>3 DEF Functional, IsBinaryOp, IsCompare, Casts
  <2> QED
    BY <1>3, <2>2, <2>3
<1> QED
  BY <1>1, <1>2, <1>3 DEF WellMade, OpNames, IsVoid, IsBinaryOp, IsCompare

\* A result depends on the operation and the operands.
LEMMA SameResult ==
  ASSUME NEW i, NEW j, i.op = j.op, i.cmp = j.cmp, NEW args
  PROVE  Result(i, args) = Result(j, args)
<1>1. \A v, w : Arithmetic(i, v, w) = Arithmetic(j, v, w) /\ Conversion(i, v) = Conversion(j, v)
  BY DEF Arithmetic, Conversion
<1> QED
  BY <1>1 DEF Result, IsBinaryOp, IsCompare

\* What folding makes is a constant.
LEMMA FoldsToConstant ==
  ASSUME NEW i, NEW v, NEW w
  PROVE  /\ IsBinaryOp(i) \/ IsCompare(i) => IsConstant(compute(i.op, i.cmp, v, w))
         /\ i.op \in Casts => IsConstant(computeCast(i.op, v))
<1>1. \A n : IsConstant(IntC(n)) /\ IsConstant(BoolC(n))
  BY DEF IntC, BoolC, IsConstant
<1>2. ASSUME NEW m, NEW n PROVE IsConstant(FpC(m, n))
  BY DEF FpC, IsConstant
<1>3. ASSUME IsBinaryOp(i) PROVE IsConstant(compute(i.op, i.cmp, v, w))
  BY <1>1, <1>2, <1>3 DEF IsBinaryOp, compute
<1>4. ASSUME IsCompare(i) PROVE IsConstant(compute(i.op, i.cmp, v, w))
  BY <1>1, <1>4 DEF IsCompare, compute
<1>5. ASSUME i.op \in Casts PROVE IsConstant(computeCast(i.op, v))
  BY <1>1, <1>2, <1>5 DEF Casts, computeCast, TruncateFp, IsConstant
<1> QED
  BY <1>3, <1>4, <1>5

\* A result is always set.
LEMMA ResultIsSet ==
  ASSUME NEW i, NEW args
  PROVE  Result(i, args) # Undef
<1>1. ASSUME IsBinaryOp(i) \/ IsCompare(i), NEW v, NEW w PROVE IsConstant(Arithmetic(i, v, w))
  BY <1>1 DEF Arithmetic, IsBinaryOp, IsCompare, I32, BoolC, FpC, IsConstant
<1>2. ASSUME i.op \in Casts, NEW v PROVE IsConstant(Conversion(i, v))
  BY <1>2 DEF Conversion, Casts, I32, FpC, IsConstant
<1>3. Result(i, args) = Term(<<i.op, i.cmp>>, args) \/ IsConstant(Result(i, args))
  BY <1>1, <1>2 DEF Result
<1> QED
  BY <1>3 DEF Term, Undef, IsConstant

\* Instructions of a plain function.
LEMMA PlainInstr ==
  ASSUME fn \in Functions, Plain, NEW b \in Blocks, NEW k \in 1..Len(fn.code[b])
  PROVE  LET v == Op(b, k)
             i == fn.code[b][k]
         IN  /\ v \in OpsOf(fn.code) /\ InstrOf(fn.code, v) = i
             /\ v \in Computed <=> ~IsVoid(i)
             /\ WellMade(i) /\ i.op # "phi" /\ Len(i.opnd) \in Nat /\ ReadsAddress(i)
             /\ \A n \in 1..Len(i.opnd) : i.opnd[n][1] = "op" =>
                  i.opnd[n] \in Computed /\ Precedes(i.opnd[n], v) /\ Dominates(i.opnd[n][2], b)
<1> DEFINE v == Op(b, k)
           i == fn.code[b][k]
<1>1. v \in OpsOf(fn.code) /\ InstrOf(fn.code, v) = i /\ v[2] = b
  BY DEF OpsOf, Blocks, InstrOf, Op
<1>2. v \in Computed <=> ~IsVoid(i)
  BY <1>1 DEF Computed
<1>3. WellMade(i) /\ \A n \in 1..Len(i.opnd) : i.opnd[n][1] = "op" =>
        i.opnd[n] \in Computed /\ Precedes(i.opnd[n], v) /\ Dominates(i.opnd[n][2], b)
  BY <1>1 DEF Plain
<1>4. i.op # "phi"
  BY <1>3 DEF WellMade, OpNames, Casts
<1>5. Len(i.opnd) \in Nat /\ ReadsAddress(i)
  BY <1>1, CodeType
<1> QED
  BY <1>1, <1>2, <1>3, <1>4, <1>5

-----------------------------------------------------------------------------
(* One instruction on a sound partition.                                   *)

\* The instructions among the values of the function.
LEMMA OpHere ==
  ASSUME fn \in Functions, NEW w \in Here, w[1] = "op"
  PROVE  /\ w \in Computed
         /\ \E c \in Blocks : \E j \in 1..Len(fn.code[c]) : w = Op(c, j) /\ InstrOf(fn.code, w) = fn.code[c][j]
<1>1. \A n \in DOMAIN Given : Given[n][1] # "op"
  BY GivenType
<1>2. w \in Computed
  BY <1>1 DEF Here, ToSet
<1>3. PICK c \in Blocks : \E j \in 1..Len(fn.code[c]) : w = Op(c, j)
  BY <1>2 DEF Computed, OpsOf, Blocks
<1>4. PICK j \in 1..Len(fn.code[c]) : w = Op(c, j)
  BY <1>3
<1>5. InstrOf(fn.code, w) = fn.code[c][j]
  BY <1>4 DEF InstrOf, Op
<1> QED
  BY <1>2, <1>4, <1>5

LEMMA PlacedNext ==
  ASSUME fn \in Functions, NEW b \in Blocks, NEW k \in 1..Len(fn.code[b]), NEW w \in Here, Placed(w, b, k)
  PROVE  Placed(w, b, k + 1)
<1>0. b \in Nat /\ k \in Nat /\ Len(fn.code[b]) \in Nat
  BY CodeType DEF Blocks
<1>1. SUFFICES ASSUME w[1] = "op", w[2] = b PROVE w[3] < k + 1
  BY DEF Placed
<1>2. PICK c \in Blocks : \E j \in 1..Len(fn.code[c]) : w = Op(c, j)
  BY <1>1, OpHere
<1>3. PICK j \in 1..Len(fn.code[c]) : w = Op(c, j)
  BY <1>2
<1>4. w[2] = c /\ w[3] = j
  BY <1>3 DEF Op
<1>5. c = b /\ (j < k \/ c < b)
  BY <1>1, <1>4 DEF Placed
<1>6. j < k /\ j \in Nat
  BY <1>0, <1>5
<1> QED
  BY <1>0, <1>4, <1>6

\* A value that is past after the k-th instruction of b is that or past before.
LEMMA PastNext ==
  ASSUME fn \in Functions, NEW b \in Blocks, NEW k \in 1..Len(fn.code[b]), NEW w \in Here, w # Op(b, k),
         Past(w, b, k + 1)
  PROVE  Past(w, b, k)
<1>1. SUFFICES ASSUME w[1] = "op", w[2] = b PROVE w[3] < k
  BY DEF Past
<1>2. PICK c \in Blocks : \E j \in 1..Len(fn.code[c]) : w = Op(c, j)
  BY <1>1, OpHere
<1>3. PICK j \in 1..Len(fn.code[c]) : w = Op(c, j)
  BY <1>2
<1>4. c = b /\ w[3] = j /\ j # k
  BY <1>1, <1>3 DEF Op
<1>5. j < k + 1
  BY <1>1, <1>4 DEF Past
<1>6. j \in Nat /\ k \in Nat
  BY <1>4, CodeType
<1> QED
  BY <1>4, <1>5, <1>6

\* What was complete stays so with the value of the instruction.
LEMMA CompleteNext ==
  ASSUME fn \in Functions, NEW b \in Blocks, NEW k \in 1..Len(fn.code[b]), NEW P, Complete(b, k, P),
         NEW Q, AllMembers(P) \subseteq AllMembers(Q), Op(b, k) \in Computed => Op(b, k) \in AllMembers(Q)
  PROVE  Complete(b, k + 1, Q)
<1>1. SUFFICES ASSUME NEW v \in Computed, Dominates(v[2], b), Past(v, b, k + 1) PROVE v \in AllMembers(Q)
  BY DEF Complete
<1>2. CASE v = Op(b, k)
  BY <1>2
<1>3. CASE v # Op(b, k)
  <2>1. Past(v, b, k)
    BY <1>1, <1>3, PastNext DEF Here
  <2> QED
    BY <1>1, <2>1 DEF Complete
<1> QED
  BY <1>2, <1>3

LEMMA SoundMembers ==
  ASSUME fn \in Functions, NEW b, NEW k, NEW P, SoundAt(b, k, P), NEW v
  PROVE  /\ \A c \in P : v \in c.members =>
              /\ LeaderOf(P, v) = c.leader_
              /\ ConstOf(P, v) = IF IsConstant(c.leader_) THEN c.leader_ ELSE Null
         /\ v \notin AllMembers(P) => /\ LeaderOf(P, v) = v
                                      /\ ConstOf(P, v) = IF IsConstant(v) THEN v ELSE Null
BY LeaderIs DEF SoundAt

\* What stands for a value that comes before an instruction does so, too.
LEMMA LeaderPrecedes ==
  ASSUME fn \in Functions, NEW b, NEW k, NEW P, SoundAt(b, k, P), NEW v, Known(v), Precedes(v, Op(b, k))
  PROVE  Known(LeaderOf(P, v)) /\ Precedes(LeaderOf(P, v), Op(b, k))
<1>1. CASE v \in AllMembers(P)
  <2>1. PICK c \in P : v \in c.members
    BY <1>1 DEF AllMembers
  <2>2. LeaderOf(P, v) = c.leader_
    BY <2>1, SoundMembers
  <2>3. CASE IsConstant(c.leader_)
    BY <2>2, <2>3 DEF Precedes, IsConstant, Known
  <2>4. CASE ~IsConstant(c.leader_)
    <3>1. c.leader_ \in c.members
      BY <2>4 DEF SoundAt, Founded
    <3>2. Placed(c.leader_, b, k) /\ c.leader_ \in Here
      BY <3>1 DEF SoundAt, Good, IsClass
    <3>3. Known(c.leader_)
      BY <3>2, OpHere DEF Known
    <3> QED
      BY <2>2, <3>2, <3>3 DEF Placed, Precedes, Op
  <2> QED
    BY <2>3, <2>4
<1>2. CASE v \notin AllMembers(P)
  BY <1>2, SoundMembers
<1> QED
  BY <1>1, <1>2

\* So do the operands of its expression.
LEMMA ArgsPrecede ==
  ASSUME fn \in Functions, Plain, NEW b \in Blocks, NEW k \in 1..Len(fn.code[b]), Op(b, k) \in Computed,
         NEW P, SoundAt(b, k, P), NEW e, e = valueExpr(P, fn.code[b][k]), Tells(e),
         NEW n \in DOMAIN Args(e)
  PROVE  Known(Args(e)[n]) /\ Precedes(Args(e)[n], Op(b, k))
<1> DEFINE i == fn.code[b][k]
<1>1. /\ WellMade(i) /\ ~IsVoid(i) /\ i.op # "phi" /\ Len(i.opnd) \in Nat
      /\ \A m \in 1..Len(i.opnd) :
           i.opnd[m][1] = "op" => i.opnd[m] \in Computed /\ Precedes(i.opnd[m], Op(b, k))
  BY PlainInstr
<1>2. n \in 1..Len(i.opnd) /\ Args(e)[n] = LeaderOf(P, i.opnd[n])
  BY <1>1, ExpressionTells
<1>3. Known(i.opnd[n]) /\ Precedes(i.opnd[n], Op(b, k))
  BY <1>1, <1>2 DEF Precedes, Known
<1> QED
  BY <1>2, <1>3, LeaderPrecedes

\* The partition after an instruction: its value joins a class with its
\* expression, or a class of its own.
Grown(P, Q, v, i) ==
  /\ Good(Q)
  /\ \A c \in P : \E d \in Q : c.leader_ = d.leader_ /\ c.members \subseteq d.members
  /\ \A d \in Q :
       \/ d \in P
       \/ /\ d.members = {v} /\ d.value_expr = valueExpr(P, i) /\ Founded(d)
       \/ \E c \in P : /\ Alike(c, d) /\ d.value_phi = c.value_phi /\ d.members = c.members \cup {v}
                       /\ c.value_expr = valueExpr(P, i) /\ Tells(c.value_expr)

LEMMA GrownLeads ==
  ASSUME fn \in Functions, NEW b, NEW k, NEW P, SoundAt(b, k, P), NEW Q, NEW v, NEW i, Grown(P, Q, v, i),
         \A d \in Q : Founded(d), NEW w, w # v
  PROVE  LeaderOf(Q, w) = LeaderOf(P, w)
<1>1. CASE w \in AllMembers(P)
  <2>1. PICK c \in P : w \in c.members
    BY <1>1 DEF AllMembers
  <2>2. PICK d \in Q : c.leader_ = d.leader_ /\ w \in d.members
    BY <2>1 DEF Grown
  <2> QED
    BY <2>1, <2>2, SoundMembers, LeaderIs DEF Grown
<1>2. CASE w \notin AllMembers(P)
  <2>1. ASSUME NEW d \in Q, w \in d.members PROVE FALSE
    <3>1. CASE d \in P
      BY <1>2, <2>1, <3>1 DEF AllMembers
    <3>2. CASE d.members = {v}
      BY <2>1, <3>2
    <3>3. CASE \E c \in P : d.members = c.members \cup {v}
      BY <1>2, <2>1, <3>3 DEF AllMembers
    <3> QED
      BY <3>1, <3>2, <3>3 DEF Grown
  <2>2. w \notin AllMembers(Q)
    BY <2>1 DEF AllMembers
  <2> QED
    BY <1>2, <2>2, SoundMembers, LeaderIs DEF Grown
<1> QED
  BY <1>1, <1>2

LEMMA GrownFounded ==
  ASSUME fn \in Functions, Plain, NEW b \in Blocks, NEW k \in 1..Len(fn.code[b]), Op(b, k) \in Computed,
         NEW P, SoundAt(b, k, P), NEW Q, Grown(P, Q, Op(b, k), fn.code[b][k]), NEW d \in Q
  PROVE  Founded(d)
<1> DEFINE v == Op(b, k)
<1>1. CASE d \in P
  BY <1>1 DEF SoundAt
<1>2. CASE Founded(d)
  BY <1>2
<1>3. CASE \E c \in P : /\ Alike(c, d) /\ d.value_phi = c.value_phi /\ d.members = c.members \cup {v}
                        /\ c.value_expr = valueExpr(P, fn.code[b][k]) /\ Tells(c.value_expr)
  <2>1. PICK c \in P : /\ Alike(c, d) /\ d.value_phi = c.value_phi /\ d.members = c.members \cup {v}
                       /\ c.value_expr = valueExpr(P, fn.code[b][k]) /\ Tells(c.value_expr)
    BY <1>3
  <2>2. Founded(c) /\ \A w \in c.members : Placed(w, b, k)
    BY DEF SoundAt
  <2>3. \A n \in DOMAIN Args(c.value_expr) : Known(Args(c.value_expr)[n]) /\ Precedes(Args(c.value_expr)[n], v)
    BY <2>1, ArgsPrecede
  <2>4. ~IsConstant(c.leader_) => c.leader_ \in c.members /\ Precedes(c.leader_, v)
    BY <2>2 DEF Founded, Placed, Precedes, Op
  <2>5. d.index = c.index /\ d.leader_ = c.leader_ /\ d.value_expr = c.value_expr
    BY <2>1 DEF Alike
  <2>6. d.members # {} /\ d.index # TopIndex /\ d.value_phi = NoExpr
    BY <2>1, <2>2, <2>5 DEF Founded
  <2>7. IsConstant(d.leader_) =>
          /\ Tells(d.value_expr)
          /\ \A n \in DOMAIN Args(d.value_expr) : IsConstant(Args(d.value_expr)[n])
          /\ Result(Operation(d.value_expr), Args(d.value_expr)) = d.leader_ /\ HasNumbers(d.leader_)
    BY <2>2, <2>5 DEF Founded
  <2>8. ~IsConstant(d.leader_) =>
          /\ d.leader_ \in d.members
          /\ \A w \in d.members \ {d.leader_} : Precedes(d.leader_, w)
    BY <2>1, <2>2, <2>4, <2>5 DEF Founded
  <2>9. \A n \in DOMAIN Args(d.value_expr) :
          Known(Args(d.value_expr)[n]) /\ \A w \in d.members : Precedes(Args(d.value_expr)[n], w)
    BY <2>1, <2>2, <2>3, <2>5 DEF Founded
  <2>10. \A w \in d.members : w[1] = "op"
    BY <2>1, <2>2 DEF Founded, Op
  <2> QED
    BY <2>1, <2>5, <2>6, <2>7, <2>8, <2>9, <2>10 DEF Founded
<1> QED
  BY <1>1, <1>2, <1>3 DEF Grown

LEMMA GrownSound ==
  ASSUME fn \in Functions, Plain, NEW b \in Blocks, NEW k \in 1..Len(fn.code[b]), Op(b, k) \in Computed,
         NEW P, SoundAt(b, k, P), NEW Q, Grown(P, Q, Op(b, k), fn.code[b][k]),
         \A q \in 1..(b-1) : \A d \in pout[q] : Op(b, k) \notin d.members
  PROVE  SoundAt(b, k + 1, Q)
<1> DEFINE v == Op(b, k)
           i == fn.code[b][k]
<1>0. b \in Nat /\ k \in Nat /\ Len(fn.code[b]) \in Nat /\ v[1] = "op" /\ v[2] = b /\ v[3] = k
  BY CodeType DEF Blocks, Op
<1>1. \A d \in Q : Founded(d)
  BY GrownFounded
<1>2. \A w : w # v => LeaderOf(Q, w) = LeaderOf(P, w)
  BY <1>1, GrownLeads
<1>3. ASSUME NEW j \in 1..k PROVE valueExpr(Q, fn.code[b][j]) = valueExpr(P, fn.code[b][j])
  <2>1. j \in 1..Len(fn.code[b])
    BY <1>0
  <2>2. ASSUME NEW n \in 1..Len(fn.code[b][j].opnd) PROVE fn.code[b][j].opnd[n] # v
    <3>1. fn.code[b][j].opnd[n][1] = "op" => Precedes(fn.code[b][j].opnd[n], Op(b, j))
      BY <2>1, PlainInstr
    <3>2. ~Precedes(v, Op(b, j))
      BY <1>0 DEF Precedes, Op
    <3> QED
      BY <1>0, <3>1, <3>2
  <2> QED
    BY <1>2, <2>1, <2>2, SameExpression, PlainInstr
<1>4. InstrOf(fn.code, v) = i
  BY PlainInstr
<1>5. ASSUME NEW w \in Here, Placed(w, b, k) PROVE Placed(w, b, k + 1)
  BY <1>5, PlacedNext
<1>6. Placed(v, b, k + 1)
  BY <1>0 DEF Placed
<1>7. ASSUME NEW w \in Here, w[1] = "op", w[2] = b, Placed(w, b, k)
      PROVE  valueExpr(Q, InstrOf(fn.code, w)) = valueExpr(P, InstrOf(fn.code, w))
  <2>1. PICK c \in Blocks : \E j \in 1..Len(fn.code[c]) : w = Op(c, j) /\ InstrOf(fn.code, w) = fn.code[c][j]
    BY <1>7, OpHere
  <2>2. PICK j \in 1..Len(fn.code[c]) : w = Op(c, j) /\ InstrOf(fn.code, w) = fn.code[c][j]
    BY <2>1
  <2>3. w[2] = c /\ w[3] = j
    BY <2>2 DEF Op
  <2>4. c = b /\ (j < k \/ c < b)
    BY <1>7, <2>3 DEF Placed
  <2>5. j \in 1..k
    BY <1>0, <2>4
  <2> QED
    BY <1>3, <2>2, <2>4, <2>5
<1>8. ASSUME NEW d \in Q, NEW w \in d.members
      PROVE  /\ Placed(w, b, k + 1)
             /\ w[1] = "op" /\ w[2] = b => d.value_expr = valueExpr(Q, InstrOf(fn.code, w))
             /\ ~(w[1] = "op" /\ w[2] = b) =>
                  \A n \in 1..Len(Preds(b)) : w \in AllMembers(pout[Preds(b)[n]])
  <2>1. CASE w = v /\ d \notin P
    <3>1. d.value_expr = valueExpr(P, i)
      BY <2>1 DEF Grown, Alike
    <3>2. valueExpr(Q, i) = valueExpr(P, i)
      BY <1>0, <1>3
    <3> QED
      BY <1>0, <1>4, <1>6, <2>1, <3>1, <3>2
  <2>2. CASE \E c \in P : c.value_expr = d.value_expr /\ w \in c.members
    <3>1. PICK c \in P : c.value_expr = d.value_expr /\ w \in c.members
      BY <2>2
    <3>2. w \in Here
      BY <3>1 DEF SoundAt, Good, IsClass
    <3>3. /\ Placed(w, b, k)
          /\ w[1] = "op" /\ w[2] = b => c.value_expr = valueExpr(P, InstrOf(fn.code, w))
          /\ ~(w[1] = "op" /\ w[2] = b) =>
               \A n \in 1..Len(Preds(b)) : w \in AllMembers(pout[Preds(b)[n]])
      BY <3>1 DEF SoundAt
    <3> QED
      BY <1>5, <1>7, <3>1, <3>2, <3>3
  <2> QED
    BY <1>8, <2>1, <2>2 DEF Grown, Alike
<1>9. ASSUME NEW d \in Q, NEW q \in 1..(b-1), NEW a \in pout[q], d.members \cap a.members # {}
      PROVE  Alike(d, a)
  <2>1. v \notin a.members
    OBVIOUS
  <2>2. PICK c \in P : Alike(c, d) /\ c.members \cap a.members # {}
    BY <1>9, <2>1 DEF Grown, Alike
  <2>3. Alike(c, a)
    BY <2>2 DEF SoundAt
  <2> QED
    BY <2>2, <2>3 DEF Alike
<1> QED
  BY <1>1, <1>8, <1>9 DEF SoundAt, Grown

\* An instruction without value changes nothing.
LEMMA SoundSkip ==
  ASSUME fn \in Functions, NEW b \in Blocks, NEW k \in 1..Len(fn.code[b]), NEW P, SoundAt(b, k, P)
  PROVE  SoundAt(b, k + 1, P)
<1>1. \A c \in P : \A v \in c.members : Placed(v, b, k + 1)
  BY PlacedNext DEF SoundAt, Good, IsClass
<1> QED
  BY <1>1 DEF SoundAt

\* A new class is led by its value, or by the constant that the operation
\* yields on constants.
LEMMA NewLeaderIs ==
  ASSUME fn \in Functions, Plain, NEW b \in Blocks, NEW k \in 1..Len(fn.code[b]), Op(b, k) \in Computed,
         NEW P, SoundAt(b, k, P), ~FoldTraps(P, fn.code[b][k]),
         NewLeader(P, Op(b, k), fn.code[b][k]) # Op(b, k)
  PROVE  LET e == valueExpr(P, fn.code[b][k])
             l == NewLeader(P, Op(b, k), fn.code[b][k])
         IN  /\ IsConstant(l) /\ Tells(e)
             /\ \A n \in DOMAIN Args(e) : IsConstant(Args(e)[n])
             /\ Result(Operation(e), Args(e)) = l /\ HasNumbers(l)
<1>1. PICK i : i = fn.code[b][k]
  OBVIOUS
<1>2. PICK e : e = valueExpr(P, i)
  OBVIOUS
<1>3. PICK l : l = NewLeader(P, Op(b, k), i)
  OBVIOUS
<1>4. SUFFICES ASSUME l # Op(b, k)
      PROVE  /\ IsConstant(l) /\ Tells(e)
             /\ \A n \in DOMAIN Args(e) : IsConstant(Args(e)[n])
             /\ Result(Operation(e), Args(e)) = l /\ HasNumbers(l)
  BY <1>1, <1>2, <1>3
<1>5. WellMade(i) /\ ~IsVoid(i) /\ i.op # "phi" /\ Len(i.opnd) \in Nat
  BY <1>1, PlainInstr
<1>6. Good(P) /\ \A c \in P : Founded(c)
  BY DEF SoundAt
<1>7. PICK c : c = ConstOperands(P, i)
  OBVIOUS
<1>8. \A n \in 1..Len(i.opnd) : c[n] = ConstOf(P, i.opnd[n])
  BY <1>7 DEF ConstOperands
<1>9. \A n \in 1..Len(i.opnd) : c[n] # Null => IsConstant(c[n]) /\ HasNumbers(c[n]) /\ c[n] = LeaderOf(P, i.opnd[n])
  <2>1. i.opnd \in Seq(Operand)
    BY <1>1, CodeType DEF Instruction
  <2>2. \A n \in 1..Len(i.opnd) : HasNumbers(i.opnd[n])
    BY <2>1 DEF Operand, HasNumbers
  <2> QED
    BY <1>6, <1>8, <2>2, ConstLeads
<1>10. l = IF Folds2(i, c) THEN compute(i.op, i.cmp, c[1], c[2])
          ELSE IF i.op \in Casts /\ c[1] # Null THEN computeCast(i.op, c[1]) ELSE Op(b, k)
  BY <1>3, <1>7 DEF NewLeader
<1>11. Functional(i) => /\ Tells(e)
                       /\ DOMAIN Args(e) = 1..Len(i.opnd)
                       /\ \A n \in 1..Len(i.opnd) : Args(e)[n] = LeaderOf(P, i.opnd[n])
                       /\ Result(Operation(e), Args(e)) = Result(i, Args(e))
  BY <1>2, <1>5, ExpressionTells, SameResult
<1>12. CASE Folds2(i, c)
  <2>1. (IsBinaryOp(i) \/ IsCompare(i)) /\ c[1] # Null /\ c[2] # Null
    BY <1>12 DEF Folds2
  <2>2. Functional(i) /\ Len(i.opnd) = 2 /\ i.op \notin Casts
    BY <1>5, <2>1 DEF Functional, WellMade, IsBinaryOp, IsCompare, Casts
  <2>3. ~Traps(i.op, c[1], c[2])
    BY <1>1, <1>7, <1>12 DEF FoldTraps
  <2>4. 1 \in 1..Len(i.opnd) /\ 2 \in 1..Len(i.opnd) /\ \A n \in 1..Len(i.opnd) : n = 1 \/ n = 2
    BY <2>2
  <2>5. Args(e)[1] = c[1] /\ Args(e)[2] = c[2] /\ IsConstant(c[1]) /\ IsConstant(c[2])
        /\ HasNumbers(c[1]) /\ HasNumbers(c[2])
    BY <1>9, <1>11, <2>1, <2>2, <2>4
  <2>6. \A n \in DOMAIN Args(e) : IsConstant(Args(e)[n])
    BY <1>11, <2>2, <2>4, <2>5
  <2>7. Result(i, Args(e)) = compute(i.op, i.cmp, c[1], c[2]) /\ HasNumbers(compute(i.op, i.cmp, c[1], c[2]))
    <3>1. Operates(i)
      BY <1>5, <2>1 DEF Operates, WellMade
    <3>2. ~(i.op = "sdiv" /\ Overflows(c[1], c[2]))
      BY <2>3 DEF Traps, Overflows
    <3>3. Result(i, Args(e)) = Arithmetic(i, c[1], c[2])
      BY <2>1, <2>2, <2>5, <2>6, <3>2 DEF Result
    <3> QED
      BY <2>3, <2>5, <3>1, <3>3, FoldsRight
  <2>8. IsConstant(l)
    BY <1>10, <1>12, <2>1, FoldsToConstant
  <2> QED
    BY <1>10, <1>11, <1>12, <2>2, <2>6, <2>7, <2>8
<1>13. CASE ~Folds2(i, c) /\ i.op \in Casts /\ c[1] # Null
  <2>1. Functional(i) /\ Len(i.opnd) = 1
    BY <1>5, <1>13 DEF Functional, WellMade
  <2>2. 1 \in 1..Len(i.opnd) /\ \A n \in 1..Len(i.opnd) : n = 1
    BY <2>1
  <2>3. Args(e)[1] = c[1] /\ IsConstant(c[1]) /\ HasNumbers(c[1])
    BY <1>9, <1>11, <1>13, <2>1, <2>2
  <2>4. \A n \in DOMAIN Args(e) : IsConstant(Args(e)[n])
    BY <1>11, <2>1, <2>2, <2>3
  <2>5. Result(i, Args(e)) = computeCast(i.op, c[1]) /\ HasNumbers(computeCast(i.op, c[1]))
    <3>1. Result(i, Args(e)) = Conversion(i, c[1])
      BY <1>13, <2>3, <2>4 DEF Result
    <3> QED
      BY <1>13, <2>3, <3>1, CastsRight
  <2>6. IsConstant(l)
    BY <1>10, <1>13, FoldsToConstant
  <2> QED
    BY <1>10, <1>11, <1>13, <2>1, <2>4, <2>5, <2>6
<1> QED
  BY <1>4, <1>10, <1>12, <1>13

\* Without value phis none is found.
LEMMA NoValuePhi ==
  ASSUME NEW P, \A c \in P : c.value_phi = NoExpr, NEW b, NEW e
  PROVE  valuePhiFunc(b, e, P) = NoExpr
<1>1. \A v : PhiOf(P, v) = NoExpr
  BY DEF PhiOf
<1> QED
  BY <1>1 DEF valuePhiFunc, JoinsPhis

LEMMA SoundTransferInstr ==
  ASSUME fn \in Functions, code = fn.code, Plain, NEW b \in Blocks, NEW k \in 1..Len(fn.code[b]),
         NEW st, GoodState(st), SoundAt(b, k, st.P), st.n < TopIndex,
         \A q \in 1..(b-1) : \A d \in pout[q] : Op(b, k) \notin d.members,
         NEW s, s = TransferInstr(b, st, Op(b, k)), s.ok
  PROVE  /\ st.ok /\ st.n <= s.n /\ s.n <= st.n + 1 /\ SoundAt(b, k + 1, s.P)
         /\ ExactAt(b, k, st.P, st.n) => ExactAt(b, k + 1, s.P, s.n)
<1> DEFINE v == Op(b, k)
<1>1. PICK i : i = fn.code[b][k]
  OBVIOUS
<1>2. PICK P : P = st.P
  OBVIOUS
<1>3. PICK ve : ve = valueExpr(P, i)
  OBVIOUS
<1>4. PICK found : found = {cc \in P : SameIfAny(cc.value_expr, ve)}
  OBVIOUS
<1>5. PICK own : own = Class(st.n, NewLeader(P, v, i), ve, NoExpr, {v})
  OBVIOUS
<1>6. st = [P |-> P, n |-> st.n, ok |-> st.ok] /\ st.n \in Nat /\ Good(P) /\ SoundAt(b, k, P)
  BY <1>2 DEF GoodState
<1>7. v[1] = "op" /\ v[2] = b /\ v[3] = k /\ InstrOf(code, v) = i /\ InstrOf(fn.code, v) = i
      /\ b \in Nat /\ k \in Nat
  BY <1>1, CodeType DEF InstrOf, Op, Blocks
<1>8. \A c \in P : v \notin c.members
  BY <1>6, <1>7 DEF SoundAt, Placed
<1>9. With(P, v) = {}
  BY <1>8 DEF With
<1>10. RemoveMember(P, v) = P /\ ~ErasesLast(P, v)
  BY <1>9 DEF RemoveMember, ErasesLast
<1>11. valuePhiFunc(b, ve, P) = NoExpr
  BY <1>6, NoValuePhi DEF SoundAt, Founded
<1>12. \A cc : SameIfAny(cc.value_phi, NoExpr) = FALSE
  BY DEF SameIfAny
<1>13. s = IF i.op = "phi" \/ IsVoid(i) THEN st
           ELSE IF i.op # "load" /\ found # {}
           THEN [st EXCEPT !.P = AddTo(P, {First(found)}, v), !.ok = st.ok]
           ELSE IF ~st.ok \/ FoldTraps(P, i) THEN [st EXCEPT !.ok = FALSE]
           ELSE [P |-> Emplace(P, own), n |-> st.n + 1, ok |-> TRUE]
  BY <1>2, <1>3, <1>4, <1>5, <1>7, <1>10, <1>11, <1>12 DEF TransferInstr
<1>14. CASE i.op = "phi" \/ IsVoid(i)
  <2>1. s = st /\ SoundAt(b, k + 1, st.P)
    BY <1>2, <1>6, <1>13, <1>14, SoundSkip
  <2>2. v \notin Computed
    BY <1>1, <1>14, PlainInstr
  <2>3. ExactAt(b, k, st.P, st.n) => ExactAt(b, k + 1, st.P, st.n)
    BY <2>2, CompleteNext DEF ExactAt
  <2> QED
    BY <1>6, <1>13, <1>14, <2>1, <2>3
<1>15. CASE ~(i.op = "phi" \/ IsVoid(i))
  <2>1. v \in Computed /\ WellMade(i) /\ Len(i.opnd) \in Nat
    BY <1>1, <1>15, PlainInstr
  <2>2. GoodState(s)
    <3>1. v \in OpsOf(fn.code)
      BY <2>1 DEF Computed
    <3> QED
      BY <3>1, GoodTransferInstr
  <2>3. CASE i.op # "load" /\ found # {}
    <3>1. PICK Q : Q = AddTo(P, {First(found)}, v)
      OBVIOUS
    <3>2. s = [P |-> Q, n |-> st.n, ok |-> st.ok]
      BY <1>6, <1>13, <1>15, <2>3, <3>1
    <3>3. First(found) \in found
      BY <1>4, <1>6, <2>3, Earliest DEF Good, IsClass
    <3>4. PICK c : c = First(found)
      OBVIOUS
    <3>5. c \in P /\ c.value_expr = ve /\ Equal(c.value_expr, ve)
      BY <1>4, <3>3, <3>4 DEF SameIfAny, Equal
    <3>6. Tells(ve)
      BY <1>3, <1>15, <2>1, <2>3, <3>5, ExpressionTells DEF Equal, Tells
    <3>7. PICK d : d = [c EXCEPT !.members = @ \cup {v}]
      OBVIOUS
    <3>8. c = Class(c.index, c.leader_, c.value_expr, c.value_phi, c.members)
      BY <1>6, <3>5 DEF Good, IsClass
    <3>9. d.members = c.members \cup {v} /\ Alike(c, d) /\ d.value_phi = c.value_phi
      BY <3>7, <3>8 DEF Class, Alike
    <3>10. Q = (P \ {c}) \cup {d}
      BY <3>1, <3>4, <3>7 DEF AddTo
    <3>11. Good(Q)
      BY <2>2, <3>2 DEF GoodState
    <3>12. Grown(P, Q, v, i)
      <4>1. \A x \in P : \E y \in Q : x.leader_ = y.leader_ /\ x.members \subseteq y.members
        BY <3>9, <3>10 DEF Alike
      <4>2. ASSUME NEW y \in Q, y \notin P
            PROVE  \E x \in P : /\ Alike(x, y) /\ y.value_phi = x.value_phi /\ y.members = x.members \cup {v}
                                /\ x.value_expr = valueExpr(P, i) /\ Tells(x.value_expr)
        BY <1>3, <3>5, <3>6, <3>9, <3>10, <4>2
      <4> QED
        BY <3>11, <4>1, <4>2 DEF Grown
    <3>13. SoundAt(b, k + 1, Q)
      BY <1>1, <1>6, <2>1, <3>12, GrownSound
    <3>14. ASSUME ExactAt(b, k, P, st.n) PROVE ExactAt(b, k + 1, Q, st.n)
      <4>1. AllMembers(P) \subseteq AllMembers(Q) /\ v \in AllMembers(Q)
        BY <3>5, <3>9, <3>10 DEF AllMembers
      <4>2. Complete(b, k + 1, Q)
        BY <3>14, <4>1, CompleteNext DEF ExactAt
      <4>3. Unique(Q) /\ Below(Q, st.n)
        BY <3>5, <3>9, <3>10, <3>14 DEF ExactAt, Unique, Below, Alike
      <4> QED
        BY <4>2, <4>3 DEF ExactAt
    <3> QED
      BY <1>2, <1>6, <3>2, <3>13, <3>14
  <2>4. CASE ~(i.op # "load" /\ found # {})
    <3>1. st.ok /\ ~FoldTraps(P, i) /\ s = [P |-> Emplace(P, own), n |-> st.n + 1, ok |-> TRUE]
      BY <1>6, <1>13, <1>15, <2>4
    <3>2. PICK Q : Q = Emplace(P, own)
      OBVIOUS
    <3>3. Good(Q) /\ (Q = P \/ Q = P \cup {own})
      BY <2>2, <3>1, <3>2 DEF GoodState, Emplace
    <3>4. own.members = {v} /\ own.index = st.n /\ own.value_expr = ve /\ own.value_phi = NoExpr
          /\ own.leader_ = NewLeader(P, v, i)
      BY <1>5 DEF Class
    <3>5. own.leader_ # v => /\ IsConstant(own.leader_) /\ Tells(ve)
                             /\ \A n \in DOMAIN Args(ve) : IsConstant(Args(ve)[n])
                             /\ Result(Operation(ve), Args(ve)) = own.leader_ /\ HasNumbers(own.leader_)
      <4>1. Op(b, k) \in Computed /\ SoundAt(b, k, P) /\ ~FoldTraps(P, fn.code[b][k])
        BY <1>1, <1>6, <2>1, <3>1
      <4>2. PICK l : l = NewLeader(P, Op(b, k), fn.code[b][k])
        OBVIOUS
      <4>3. l # Op(b, k) => /\ IsConstant(l) /\ Tells(ve)
                            /\ \A n \in DOMAIN Args(ve) : IsConstant(Args(ve)[n])
                            /\ Result(Operation(ve), Args(ve)) = l /\ HasNumbers(l)
        BY <1>1, <1>3, <4>1, <4>2, NewLeaderIs
      <4> QED
        BY <1>1, <3>4, <4>2, <4>3
    <3>6. ~IsConstant(v)
      BY <1>7 DEF IsConstant
    <3>7. Tells(ve) => \A n \in DOMAIN Args(ve) : Known(Args(ve)[n]) /\ Precedes(Args(ve)[n], v)
      BY <1>1, <1>3, <1>6, <2>1, ArgsPrecede
    <3>8. Founded(own)
      BY <1>6, <1>7, <3>4, <3>5, <3>6, <3>7 DEF Founded
    <3>9. Grown(P, Q, v, i)
      BY <1>3, <3>3, <3>4, <3>8 DEF Grown
    <3>10. SoundAt(b, k + 1, Q)
      BY <1>1, <1>6, <2>1, <3>9, GrownSound
    <3>11. ASSUME ExactAt(b, k, P, st.n) PROVE ExactAt(b, k + 1, Q, st.n + 1)
      <4>1. \A c \in P : c.index < st.n /\ c.index \in Nat
        BY <1>6, <3>11 DEF ExactAt, Below, Good, IsClass
      <4>2. \A c \in P : c.index # own.index
        BY <1>6, <3>4, <4>1
      <4>3. Q = P \cup {own}
        BY <3>2, <4>2 DEF Emplace
      <4>4. AllMembers(P) \subseteq AllMembers(Q) /\ v \in AllMembers(Q)
        BY <3>4, <4>3 DEF AllMembers
      <4>5. Complete(b, k + 1, Q)
        BY <3>11, <4>4, CompleteNext DEF ExactAt
      <4>6. Below(Q, st.n + 1)
        BY <1>6, <3>4, <4>1, <4>3 DEF Below
      <4>7. Tells(ve) => \A c \in P : c.value_expr # ve
        <5>1. Tells(ve) => i.op # "load" /\ ve # NoExpr /\ Equal(ve, ve)
          BY <1>3, <1>15, <2>1, ExpressionTells DEF Tells, NoExpr, Equal, Functional, IsBinaryOp, IsCompare, Casts
        <5> QED
          BY <1>4, <2>4, <5>1 DEF SameIfAny
      <4>8. Unique(Q)
        BY <3>4, <3>11, <4>3, <4>7 DEF ExactAt, Unique
      <4> QED
        BY <4>5, <4>6, <4>8 DEF ExactAt
    <3> QED
      BY <1>2, <1>6, <3>1, <3>2, <3>10, <3>11
  <2> QED
    BY <2>3, <2>4
<1> QED
  BY <1>14, <1>15

\* What went wrong stays wrong.
LEMMA TransferInstrOk ==
  ASSUME NEW b, NEW st, GoodState(st), NEW v, TransferInstr(b, st, v).ok
  PROVE  st.ok
<1> DEFINE i == InstrOf(code, v)
           P == RemoveMember(st.P, v)
           ve == valueExpr(P, i)
           found == {cc \in P : SameIfAny(cc.value_expr, ve) \/ SameIfAny(cc.value_phi, valuePhiFunc(b, ve, P))}
           good == st.ok /\ ~ErasesLast(st.P, v)
           Q == AddTo(P, {First(found)}, v)
           own == Class(st.n, NewLeader(P, v, i), ve, NoExpr, {v})
<1>1. TransferInstr(b, st, v) =
        IF i.op = "phi" \/ IsVoid(i) THEN st
        ELSE IF i.op # "load" /\ found # {} THEN [st EXCEPT !.P = Q, !.ok = good]
        ELSE IF ~good \/ FoldTraps(P, i) THEN [st EXCEPT !.ok = FALSE]
        ELSE [P |-> Emplace(P, own), n |-> st.n + 1, ok |-> TRUE]
  BY DEF TransferInstr
<1> HIDE DEF Q, own, found, ve
<1>2. PICK p, n, o : st = [P |-> p, n |-> n, ok |-> o]
  BY DEF GoodState
<1>3. CASE i.op = "phi" \/ IsVoid(i)
  BY <1>1, <1>3
<1>4. CASE ~(i.op = "phi" \/ IsVoid(i)) /\ i.op # "load" /\ found # {}
  <2>1. ASSUME ~good PROVE FALSE
    <3>1. TransferInstr(b, st, v) = [P |-> Q, n |-> n, ok |-> FALSE]
      BY <1>1, <1>2, <1>4, <2>1
    <3>2. TransferInstr(b, st, v).ok = FALSE
      BY <3>1
    <3> QED
      BY <3>2
  <2> QED
    BY <2>1
<1>5. CASE ~(i.op = "phi" \/ IsVoid(i)) /\ ~(i.op # "load" /\ found # {})
  <2>1. ASSUME ~good PROVE FALSE
    <3>1. TransferInstr(b, st, v) = [P |-> p, n |-> n, ok |-> FALSE]
      BY <1>1, <1>2, <1>5, <2>1
    <3>2. TransferInstr(b, st, v).ok = FALSE
      BY <3>1
    <3> QED
      BY <3>2
  <2> QED
    BY <2>1
<1> QED
  BY <1>3, <1>4, <1>5

\* All instructions of a block.
LEMMA SoundTransfer ==
  ASSUME fn \in Functions, code = fn.code, Plain, NEW b \in Blocks,
         \A q \in 1..(b-1) : \A d \in pout[q] : \A v \in d.members : ~(v[1] = "op" /\ v[2] = b),
         NEW st, GoodState(st), SoundAt(b, 1, st.P), NEW m \in Nat, st.n <= m, m + SmallNumber < TopIndex,
         NEW s, s = transferFunction(b, st), s.ok
  PROVE  /\ st.ok /\ st.n <= s.n /\ s.n <= m + SmallNumber /\ GoodState(s)
         /\ SoundAt(b, Len(fn.code[b]) + 1, s.P)
         /\ ExactAt(b, 1, st.P, st.n) => ExactAt(b, Len(fn.code[b]) + 1, s.P, s.n)
<1>1. PICK N : N = Len(fn.code[b]) /\ N \in Nat /\ N <= SmallNumber
  BY CodeType DEF Plain
<1>2. PICK f : /\ f[0] = st
               /\ \A k \in 1..N : f[k] = TransferInstr(b, f[k-1], Op(b, k))
               /\ s = f[N]
  BY <1>1, TransferLoop
<1>3. ASSUME NEW k \in 1..N PROVE Op(b, k) \in OpsOf(fn.code)
  BY <1>1 DEF OpsOf, Blocks
<1> DEFINE T == {n \in Nat : n <= N => /\ GoodState(f[n])
                                       /\ f[n].ok => /\ st.ok /\ st.n <= f[n].n /\ f[n].n <= m + n
                                                     /\ SoundAt(b, n + 1, f[n].P)
                                                     /\ ExactAt(b, 1, st.P, st.n) => ExactAt(b, n + 1, f[n].P, f[n].n)}
<1>4. 0 \in T
  <2>1. 0 + 1 = 1 /\ m + 0 = m /\ st.n \in Nat /\ st.n <= st.n
    BY DEF GoodState
  <2> QED
    BY <1>2, <2>1
<1>5. ASSUME NEW n \in Nat, n \in T PROVE n + 1 \in T
  <2>1. PICK k : k = n + 1
    OBVIOUS
  <2>2. CASE k <= N
    <3>1. k \in 1..N /\ k - 1 = n /\ n <= N /\ k \in Nat /\ N < TopIndex - m
      BY <1>1, <2>1, <2>2 DEF SmallNumber, TopIndex
    <3>2. /\ GoodState(f[n])
          /\ f[n].ok => /\ st.ok /\ st.n <= f[n].n /\ f[n].n <= m + n /\ SoundAt(b, k, f[n].P)
                        /\ ExactAt(b, 1, st.P, st.n) => ExactAt(b, k, f[n].P, f[n].n)
      BY <1>5, <2>1, <3>1
    <3>3. f[k] = TransferInstr(b, f[n], Op(b, k)) /\ Op(b, k) \in OpsOf(fn.code)
      BY <1>2, <1>3, <3>1
    <3>4. GoodState(f[k])
      BY <3>2, <3>3, GoodTransferInstr
    <3>5. ASSUME f[k].ok
          PROVE  /\ st.ok /\ st.n <= f[k].n /\ f[k].n <= m + k /\ SoundAt(b, k + 1, f[k].P)
                 /\ ExactAt(b, 1, st.P, st.n) => ExactAt(b, k + 1, f[k].P, f[k].n)
      <4>1. f[n].ok
        BY <3>2, <3>3, <3>5, TransferInstrOk
      <4>2. f[n].n \in Nat /\ f[n].n <= m + n /\ f[n].n < TopIndex /\ f[k].n \in Nat
        BY <1>1, <3>1, <3>2, <3>4, <4>1 DEF GoodState, TopIndex
      <4>3. \A q \in 1..(b-1) : \A d \in pout[q] : Op(b, k) \notin d.members
        BY DEF Op
      <4>4. k \in 1..Len(fn.code[b])
        BY <1>1, <3>1
      <4>5. /\ f[n].n <= f[k].n /\ f[k].n <= f[n].n + 1 /\ SoundAt(b, k + 1, f[k].P)
            /\ ExactAt(b, k, f[n].P, f[n].n) => ExactAt(b, k + 1, f[k].P, f[k].n)
        BY <3>2, <3>3, <3>5, <4>1, <4>2, <4>3, <4>4, SoundTransferInstr
      <4>6. st.n \in Nat /\ st.n <= f[k].n /\ f[k].n <= m + k
        BY <2>1, <3>2, <4>1, <4>2, <4>5 DEF GoodState
      <4> QED
        BY <3>2, <4>1, <4>5, <4>6
    <3> QED
      BY <2>1, <3>4, <3>5
  <2>3. CASE ~(k <= N)
    BY <2>1, <2>3
  <2> QED
    BY <2>2, <2>3
<1>6. \A n \in Nat : n \in T
  <2> HIDE DEF T
  <2> QED
    BY <1>4, <1>5, SetInduction
<1>7. N \in T
  BY <1>1, <1>6
<1>8. /\ GoodState(f[N])
      /\ f[N].ok => /\ st.ok /\ st.n <= f[N].n /\ f[N].n <= m + N /\ SoundAt(b, N + 1, f[N].P)
                    /\ ExactAt(b, 1, st.P, st.n) => ExactAt(b, N + 1, f[N].P, f[N].n)
  BY <1>1, <1>7
<1>9. s.n \in Nat
  BY <1>2, <1>8 DEF GoodState
<1>10. s.n <= m + N
  BY <1>2, <1>8
<1>11. s.n <= m + SmallNumber
  BY <1>1, <1>9, <1>10 DEF SmallNumber
<1> QED
  BY <1>1, <1>2, <1>8, <1>11

LEMMA Steady ==
  ASSUME NEW f, NEW N \in Nat, \A k \in 1..N : f[k] = f[k-1]
  PROVE  f[N] = f[0]
<1> DEFINE T == {n \in Nat : n <= N => f[n] = f[0]}
<1>1. 0 \in T
  OBVIOUS
<1>2. ASSUME NEW n \in Nat, n \in T PROVE n + 1 \in T
  <2>1. PICK m : m = n + 1
    OBVIOUS
  <2>2. m <= N => m \in 1..N /\ m - 1 = n /\ n <= N
    BY <2>1
  <2>3. m <= N => f[m] = f[n] /\ f[n] = f[0]
    BY <1>2, <2>2
  <2> QED
    BY <2>1, <2>3
<1>3. \A n \in Nat : n \in T
  <2> HIDE DEF T
  <2> QED
    BY <1>1, <1>2, SetInduction
<1> QED
  BY <1>3

\* Where no block has phis nothing is copied.
LEMMA NoCopies ==
  ASSUME fn \in Functions, code = fn.code, Plain, NEW b \in Blocks, NEW st
  PROVE  copy_stmt(b, st) = st
<1>1. ASSUME NEW s \in Blocks, NEW t PROVE CopiesOf(b, s, t) = t
  <2>1. PICK N : N = Len(code[s]) /\ N \in Nat
    BY CodeType
  <2>2. PICK f : /\ f[0] = t
                 /\ \A k \in 1..N : f[k] = CopyPhi(b, f[k-1], Op(s, k))
                 /\ CopiesOf(b, s, t) = f[N]
    BY <2>1, CopiesLoop
  <2>3. ASSUME NEW k \in 1..N PROVE f[k] = f[k-1]
    <3>1. InstrOf(code, Op(s, k)).op # "phi"
      BY <2>1, PlainInstr
    <3> QED
      BY <2>2, <3>1 DEF CopyPhi
  <2> QED
    BY <2>1, <2>2, <2>3, Steady
<1>2. Len(Succs(b)) \in Nat /\ \A k \in 1..Len(Succs(b)) : Succs(b)[k] \in Blocks
  BY CodeType
<1>3. PICK f : /\ f[0] = st
               /\ \A k \in 1..Len(Succs(b)) : f[k] = CopiesOf(b, Succs(b)[k], f[k-1])
               /\ copy_stmt(b, st) = f[Len(Succs(b))]
  BY <1>2, CopyLoop
<1>4. \A k \in 1..Len(Succs(b)) : f[k] = f[k-1]
  BY <1>1, <1>2, <1>3
<1> QED
  BY <1>2, <1>3, <1>4, Steady

-----------------------------------------------------------------------------
(* The partition at the start of a block.                                  *)

SoundBefore(b) == \A q \in 1..(b-1) : SoundAt(q, Len(fn.code[q]) + 1, pout[q])

\* What is at the end of a block comes before those that follow.
LEMMA PlacedAfter ==
  ASSUME fn \in Functions, NEW b \in Blocks, NEW q \in 1..(b-1), NEW k, NEW v \in Here, Placed(v, q, k)
  PROVE  Placed(v, b, 1) /\ ~(v[1] = "op" /\ v[2] = b)
<1>1. b \in Nat /\ q \in Nat /\ q < b
  BY CodeType DEF Blocks
<1>2. ASSUME v[1] = "op" PROVE v[2] < b /\ v[2] # b
  <2>1. PICK c \in Blocks : \E j \in 1..Len(fn.code[c]) : v = Op(c, j)
    BY <1>2, OpHere
  <2>2. v[2] = c /\ c \in Nat
    BY <2>1, CodeType DEF Op, Blocks
  <2>3. c < q \/ c = q
    BY <1>2, <2>2 DEF Placed
  <2> QED
    BY <1>1, <2>2, <2>3
<1> QED
  BY <1>2 DEF Placed

\* A value has one leader and one expression, whichever block is asked.
LEMMA Consistent ==
  ASSUME fn \in Functions, NEW b \in Blocks, SoundBefore(b),
         NEW p \in 1..(b-1), NEW q \in 1..(b-1), NEW c \in pout[p], NEW d \in pout[q],
         c.members \cap d.members # {}
  PROVE  Alike(c, d)
<1>1. p \in Nat /\ q \in Nat /\ (p < q \/ q < p \/ p = q)
  OBVIOUS
<1>2. SoundAt(p, Len(fn.code[p]) + 1, pout[p]) /\ SoundAt(q, Len(fn.code[q]) + 1, pout[q])
  BY DEF SoundBefore
<1>3. CASE q < p
  <2>1. q \in 1..(p-1)
    BY <1>1, <1>3
  <2> QED
    BY <1>2, <2>1 DEF SoundAt
<1>4. CASE p < q
  <2>1. p \in 1..(q-1)
    BY <1>1, <1>4
  <2>2. d.members \cap c.members # {}
    OBVIOUS
  <2>3. Alike(d, c)
    BY <1>2, <2>1, <2>2 DEF SoundAt
  <2> QED
    BY <2>3 DEF Alike
<1>5. CASE p = q
  <2>1. c = d
    BY <1>2, <1>5 DEF SoundAt, Good, Apart
  <2> QED
    BY <2>1 DEF Alike
<1> QED
  BY <1>1, <1>3, <1>4, <1>5

\* A value past at the start of a block is not of that block.
LEMMA PastStart ==
  ASSUME fn \in Functions, NEW t \in Blocks, NEW v \in Here, Past(v, t, 1)
  PROVE  ~(v[1] = "op" /\ v[2] = t)
<1>1. SUFFICES ASSUME v[1] = "op", v[2] = t PROVE FALSE
  OBVIOUS
<1>2. PICK c \in Blocks : \E j \in 1..Len(fn.code[c]) : v = Op(c, j)
  BY <1>1, OpHere
<1>3. PICK j \in 1..Len(fn.code[c]) : v = Op(c, j)
  BY <1>2
<1>4. v[3] = j /\ j \in Nat /\ j > 0
  BY <1>3, CodeType DEF Op
<1>5. j < 1
  BY <1>1, <1>4 DEF Past
<1> QED
  BY <1>4, <1>5

\* The arguments and globals, at the start of the function.
LEMMA SoundGiven ==
  ASSUME fn \in Functions, Plain, 1 \in Blocks
  PROVE  /\ SoundAt(1, 1, GivenClasses(1)) /\ Len(Preds(1)) = 0 /\ Preds(1) = <<>>
         /\ ExactAt(1, 1, GivenClasses(1), 1 + Len(Given))
<1>1. Good(GivenClasses(1))
  BY GoodGiven
<1>2. Preds(1) = <<>> /\ Len(Preds(1)) = 0
  <2>1. Preds(1) = <<>>
    BY DEF Plain
  <2> QED
    BY <2>1
<1>3. /\ Len(Given) \in Nat
      /\ \A k \in 1..Len(Given) : Given[k] \in Here /\ Given[k][1] \in {"arg", "global"} /\ ~IsConstant(Given[k])
  <2>1. \A k \in DOMAIN Given : Given[k][1] \in {"arg", "global"} /\ Given[k] \in Here
    BY GivenType
  <2>2. Len(Given) \in Nat /\ DOMAIN Given = 1..Len(Given)
    BY GivenType
  <2> QED
    BY <2>1, <2>2, NotHere
<1>4. ASSUME NEW c \in GivenClasses(1)
      PROVE  /\ Founded(c) /\ \A v \in c.members : v[1] \in {"arg", "global"}
             /\ ~Tells(c.value_expr) /\ c.index < 1 + Len(Given)
  <2>1. PICK k \in 1..Len(Given) : c = Class(1 + k - 1, Given[k], NoExpr, NoExpr, {Given[k]})
    BY DEF GivenClasses
  <2>2. /\ c.index = 1 + k - 1 /\ c.members = {Given[k]} /\ c.leader_ = Given[k]
        /\ c.value_expr = NoExpr /\ c.value_phi = NoExpr
    BY <2>1 DEF Class
  <2>3. c.index # TopIndex
    <3>1. Len(Given) <= SmallNumber
      BY DEF Plain
    <3> QED
      BY <1>3, <2>2, <3>1 DEF SmallNumber, TopIndex
  <2>4. ~Tells(NoExpr)
    BY DEF Tells, NoExpr
  <2>5. c.index < 1 + Len(Given)
    BY <1>3, <2>2
  <2> QED
    BY <1>3, <2>2, <2>3, <2>4, <2>5 DEF Founded
<1>5. 1..(1-1) = {}
  OBVIOUS
<1>6. 1..Len(Preds(1)) = {}
  BY <1>2
<1>7. ASSUME NEW c \in GivenClasses(1), NEW v \in c.members
      PROVE  v[1] # "op" /\ Placed(v, 1, 1)
  BY <1>4 DEF Placed
<1>8. ASSUME NEW c \in GivenClasses(1)
      PROVE  /\ Founded(c)
             /\ \A v \in c.members :
                  /\ Placed(v, 1, 1)
                  /\ v[1] = "op" /\ v[2] = 1 => c.value_expr = valueExpr(GivenClasses(1), InstrOf(fn.code, v))
                  /\ ~(v[1] = "op" /\ v[2] = 1) =>
                       \A n \in 1..Len(Preds(1)) : v \in AllMembers(pout[Preds(1)[n]])
             /\ \A q \in 1..(1-1) : \A d \in pout[q] : c.members \cap d.members # {} => Alike(c, d)
  BY <1>4, <1>5, <1>6, <1>7
<1>9. SoundAt(1, 1, GivenClasses(1))
  BY <1>1, <1>8 DEF SoundAt
<1>10. ASSUME NEW v \in Computed, Dominates(v[2], 1), Past(v, 1, 1) PROVE FALSE
  <2>1. v \in Here /\ v[1] = "op"
    BY DEF Here, Computed, OpsOf, Op
  <2>2. v[2] # 1
    BY <1>10, <2>1, PastStart
  <2> QED
    BY <1>10, <2>2 DEF Dominates
<1>11. Complete(1, 1, GivenClasses(1))
  BY <1>10 DEF Complete
<1>12. Unique(GivenClasses(1)) /\ Below(GivenClasses(1), 1 + Len(Given))
  BY <1>4 DEF Unique, Below
<1> QED
  BY <1>2, <1>9, <1>11, <1>12 DEF ExactAt

\* The classes of a join whose pairs are alike are the pairs' intersections.
PairsAlike(P1, P2) ==
  \A w \in Meeting(P1, P2) : Alike(w[1], w[2]) /\ w[1].value_phi = NoExpr /\ w[2].value_phi = NoExpr

Intersections(Q, P1, P2) ==
  \A c \in Q : \E w \in Meeting(P1, P2) :
    Alike(c, w[1]) /\ c.value_phi = NoExpr /\ c.members = w[1].members \cap w[2].members

\* What both partitions put together the result does.
Met(Q, w) == w[1].members \cap w[2].members \subseteq AllMembers(Q)
AllMet(Q, P1, P2) == \A w \in Meeting(P1, P2) : Met(Q, w)

\* Every pair is taken.
LEMMA PairsCover ==
  ASSUME NEW P1, NEW P2, Good(P1), Good(P2), NEW pairs, pairs = InOrderOf(Meeting(P1, P2), PairBefore),
         NEW w \in Meeting(P1, P2)
  PROVE  \E k \in 1..Len(pairs) : pairs[k] = w
<1> DEFINE S == Meeting(P1, P2)
           Ahead(v) == {z \in S : PairBefore(z, v)}
           chosen(k) == CHOOSE v \in S : Cardinality(Ahead(v)) = k - 1
<1>1. IsFiniteSet(S)
  BY PairOrder
<1>2. PICK N : N = Cardinality(S) /\ N \in Nat
  BY <1>1, FS_CardinalityType
<1>3. /\ \A k \in 1..Len(pairs) : pairs[k] \in S
      /\ \A j, k \in 1..Len(pairs) : pairs[j] = pairs[k] => j = k
  BY <1>1, PairsInOrder
<1>4. DOMAIN pairs = 1..N /\ pairs = [k \in 1..N |-> pairs[k]]
  <2>1. pairs = [k \in 1..Cardinality(S) |-> chosen(k)]
    BY DEF InOrderOf
  <2> HIDE DEF S, chosen
  <2> QED
    BY <1>2, <2>1
<1>5. Len(pairs) = N
  BY <1>2, <1>4, LenOf
<1>6. pairs \in Injection(1..N, S)
  BY <1>3, <1>4, <1>5 DEF Injection, IsInjective
<1>7. Cardinality(1..N) = N
  BY <1>2, FS_Interval
<1>8. pairs \in Surjection(1..N, S)
  BY <1>1, <1>2, <1>6, <1>7, FS_Injection
<1> QED
  BY <1>1, <1>5, <1>8 DEF Surjection

LEMMA JoinOfAlike ==
  ASSUME NEW P1, NEW P2, Good(P1), Good(P2), NEW n \in Nat, PairsAlike(P1, P2)
  PROVE  /\ JoinAll(P1, P2, n).n = n /\ Intersections(JoinAll(P1, P2, n).P, P1, P2)
         /\ AllMet(JoinAll(P1, P2, n).P, P1, P2)
<1> DEFINE Comes1(c) == \E w \in Meeting(P1, P2) :
              Alike(c, w[1]) /\ c.value_phi = NoExpr /\ c.members = w[1].members \cap w[2].members
<1>1. PICK pairs : /\ pairs = InOrderOf(Meeting(P1, P2), PairBefore)
                   /\ Len(pairs) \in Nat
                   /\ \A k \in 1..Len(pairs) : pairs[k] \in Meeting(P1, P2)
                   /\ \A j, k \in 1..Len(pairs) : pairs[j] = pairs[k] => j = k
  BY PairsInOrder
<1>2. /\ Len(pairs) \in Nat
      /\ \A k \in 1..Len(pairs) : pairs[k] \in Meeting(P1, P2)
  BY <1>1
<1>3. PICK f : /\ f[0] = [P |-> {}, n |-> n, ok |-> TRUE]
               /\ \A k \in 1..Len(pairs) : f[k] = JoinPair(f[k-1], pairs[k])
               /\ JoinAll(P1, P2, n) = f[Len(pairs)]
  BY <1>1, <1>2, JoinLoop
<1>11. ASSUME NEW w \in Meeting(P1, P2)
      PROVE  LET c == intersect(n, w[1], w[2])
             IN  /\ Alike(c, w[1]) /\ c.value_phi = NoExpr /\ c.members = w[1].members \cap w[2].members
                 /\ c.index = w[1].index
  <2>1. PICK c : c = intersect(n, w[1], w[2])
    OBVIOUS
  <2>2. w[1].index = w[2].index /\ w[1].leader_ = w[2].leader_ /\ w[1].value_expr = w[2].value_expr
    BY DEF Alike, PairsAlike
  <2>3. c = Class(w[1].index, w[1].leader_, w[1].value_expr, NoExpr, w[1].members \cap w[2].members)
    BY <2>1, <2>2 DEF intersect, PairsAlike
  <2>4. Alike(c, w[1]) /\ c.value_phi = NoExpr /\ c.members = w[1].members \cap w[2].members
        /\ c.index = w[1].index
    BY <2>3 DEF Class, Alike
  <2> QED
    BY <2>1, <2>4
<1>4. \A w \in Meeting(P1, P2) : Comes1(intersect(n, w[1], w[2]))
  BY <1>11
\* A class that is not inserted is there already.
<1>12. ASSUME NEW Q, \A d \in Q : Comes1(d), NEW w \in Meeting(P1, P2), NEW c, c = intersect(n, w[1], w[2])
      PROVE  Met(Emplace(Q, c), w)
  <2>1. c.index = w[1].index /\ c.members = w[1].members \cap w[2].members
    BY <1>11, <1>12
  <2>2. CASE \E d \in Q : d.index = c.index
    <3>1. PICK d \in Q : d.index = c.index
      BY <2>2
    <3>2. PICK z \in Meeting(P1, P2) : Alike(d, z[1]) /\ d.members = z[1].members \cap z[2].members
      BY <1>12, <3>1 DEF Comes1
    <3>3. z[1] \in P1 /\ z[2] \in P2 /\ w[1] \in P1 /\ w[2] \in P2
      BY DEF Meeting
    <3>4. Alike(z[1], z[2]) /\ Alike(w[1], w[2])
      BY DEF PairsAlike
    <3>5. z[1] = w[1]
      BY <2>1, <3>1, <3>2, <3>3 DEF Alike, Good, Apart
    <3>6. z[2] = w[2]
      BY <3>3, <3>4, <3>5 DEF Alike, Good, Apart
    <3> QED
      BY <2>1, <3>1, <3>2, <3>5, <3>6 DEF Met, Emplace, AllMembers
  <2>3. CASE ~(\E d \in Q : d.index = c.index)
    BY <2>1, <2>3 DEF Met, Emplace, AllMembers
  <2> QED
    BY <2>2, <2>3
<1>13. ASSUME NEW Q, NEW c PROVE AllMembers(Q) \subseteq AllMembers(Emplace(Q, c))
  BY DEF AllMembers, Emplace
<1> HIDE DEF Comes1
<1> DEFINE Holds(k) == \E Q : /\ f[k] = [P |-> Q, n |-> n, ok |-> TRUE] /\ \A c \in Q : Comes1(c)
                              /\ \A j \in 1..k : Met(Q, pairs[j])
           T == {k \in Nat : k <= Len(pairs) => Holds(k)}
<1>5. 0 \in T
  <2>1. PICK Q : Q = {}
    OBVIOUS
  <2>2. f[0] = [P |-> Q, n |-> n, ok |-> TRUE] /\ (\A c \in Q : Comes1(c)) /\ \A j \in 1..0 : Met(Q, pairs[j])
    BY <1>3, <2>1
  <2>3. Holds(0)
    BY <2>2
  <2> QED
    BY <2>3
<1>6. ASSUME NEW l \in Nat, l \in T PROVE l + 1 \in T
  <2>1. PICK k \in Nat : k = l + 1
    OBVIOUS
  <2> SUFFICES ASSUME k <= Len(pairs) PROVE Holds(k)
    BY <2>1
  <2>2. k \in 1..Len(pairs) /\ k - 1 = l /\ l <= Len(pairs)
    BY <1>2, <2>1
  <2>3. PICK Q : /\ f[l] = [P |-> Q, n |-> n, ok |-> TRUE] /\ \A c \in Q : Comes1(c)
                 /\ \A j \in 1..l : Met(Q, pairs[j])
    BY <1>6, <2>2
  <2>4. PICK w : w = pairs[k] /\ w \in Meeting(P1, P2)
    BY <1>2, <2>2
  <2>5. f[k] = JoinPair([P |-> Q, n |-> n, ok |-> TRUE], w)
    BY <1>3, <2>2, <2>3, <2>4
  <2>6. PICK c : c = intersect(n, w[1], w[2])
    OBVIOUS
  <2>7. w[1].index = w[2].index
    BY <2>4 DEF Alike, PairsAlike
  <2>8. f[k] = [P |-> Emplace(Q, c), n |-> n, ok |-> TRUE]
    BY <2>5, <2>6, <2>7 DEF JoinPair
  <2>9. \A d \in Emplace(Q, c) : Comes1(d)
    BY <1>4, <2>3, <2>4, <2>6 DEF Emplace
  <2>10. ASSUME NEW j \in 1..k PROVE Met(Emplace(Q, c), pairs[j])
    <3>1. j = k \/ j \in 1..l
      BY <2>1
    <3>2. Met(Emplace(Q, c), w)
      BY <1>12, <2>3, <2>4, <2>6
    <3>3. j \in 1..l => Met(Q, pairs[j])
      BY <2>3
    <3>4. AllMembers(Q) \subseteq AllMembers(Emplace(Q, c))
      BY <1>13
    <3> QED
      BY <2>4, <3>1, <3>2, <3>3, <3>4 DEF Met
  <2> QED
    BY <2>8, <2>9, <2>10
<1>7. \A k \in Nat : k \in T
  <2> HIDE DEF T
  <2> QED
    BY <1>5, <1>6, SetInduction
<1>8. Holds(Len(pairs))
  <2>1. PICK N : N = Len(pairs) /\ N \in Nat
    BY <1>2
  <2>2. N \in T
    BY <1>7, <2>1
  <2> HIDE DEF Holds
  <2>3. N <= Len(pairs) => Holds(N)
    BY <2>2
  <2> QED
    BY <2>1, <2>3
<1>9. PICK Q : /\ JoinAll(P1, P2, n) = [P |-> Q, n |-> n, ok |-> TRUE] /\ \A c \in Q : Comes1(c)
               /\ \A j \in 1..Len(pairs) : Met(Q, pairs[j])
  BY <1>3, <1>8
<1>10. JoinAll(P1, P2, n).P = Q /\ JoinAll(P1, P2, n).n = n
  BY <1>9
<1>14. AllMet(Q, P1, P2)
  BY <1>1, <1>9, PairsCover DEF AllMet
<1> QED
  BY <1>9, <1>10, <1>14 DEF Comes1, Intersections

\* A class that comes from one at the end of a block before b.
LEMMA EntryClass ==
  ASSUME fn \in Functions, NEW b \in Blocks, SoundBefore(b), NEW p \in 1..(b-1), NEW a \in pout[p],
         NEW c, Alike(c, a), c.value_phi = NoExpr, c.members # {}, c.members \subseteq a.members,
         ~IsConstant(c.leader_) => c.leader_ \in c.members
  PROVE  /\ Founded(c)
         /\ \A v \in c.members : Placed(v, b, 1) /\ ~(v[1] = "op" /\ v[2] = b)
         /\ \A q \in 1..(b-1) : \A d \in pout[q] : c.members \cap d.members # {} => Alike(c, d)
<1>1. SoundAt(p, Len(fn.code[p]) + 1, pout[p])
  BY DEF SoundBefore
<1>2. Founded(a) /\ IsClass(a) /\ \A v \in a.members : Placed(v, p, Len(fn.code[p]) + 1)
  BY <1>1 DEF SoundAt, Good
<1>3. c.index = a.index /\ c.leader_ = a.leader_ /\ c.value_expr = a.value_expr
  BY DEF Alike
<1>4. Founded(c)
  <2>1. c.members # {} /\ c.index # TopIndex /\ c.value_phi = NoExpr
    BY <1>2, <1>3 DEF Founded
  <2>2. IsConstant(c.leader_) =>
          /\ Tells(c.value_expr)
          /\ \A n \in DOMAIN Args(c.value_expr) : IsConstant(Args(c.value_expr)[n])
          /\ Result(Operation(c.value_expr), Args(c.value_expr)) = c.leader_ /\ HasNumbers(c.leader_)
    BY <1>2, <1>3 DEF Founded
  <2>3. ~IsConstant(c.leader_) =>
          /\ c.leader_ \in c.members
          /\ \A v \in c.members \ {c.leader_} : Precedes(c.leader_, v)
    BY <1>2, <1>3 DEF Founded
  <2>4. ~Tells(c.value_expr) => c.members = {c.leader_}
    BY <1>2, <1>3 DEF Founded
  <2>5. Tells(c.value_expr) =>
          /\ \A v \in c.members : v[1] = "op"
          /\ \A n \in DOMAIN Args(c.value_expr) :
               Known(Args(c.value_expr)[n]) /\ \A v \in c.members : Precedes(Args(c.value_expr)[n], v)
    BY <1>2, <1>3 DEF Founded
  <2> QED
    BY <2>1, <2>2, <2>3, <2>4, <2>5 DEF Founded
<1>5. ASSUME NEW v \in c.members PROVE Placed(v, b, 1) /\ ~(v[1] = "op" /\ v[2] = b)
  <2>1. v \in Here /\ Placed(v, p, Len(fn.code[p]) + 1)
    BY <1>2 DEF IsClass
  <2> QED
    BY <2>1, PlacedAfter
<1>6. ASSUME NEW q \in 1..(b-1), NEW d \in pout[q], c.members \cap d.members # {} PROVE Alike(c, d)
  <2>1. a.members \cap d.members # {}
    BY <1>6
  <2>2. Alike(a, d)
    BY <2>1, Consistent
  <2> QED
    BY <1>3, <2>2 DEF Alike
<1> QED
  BY <1>4, <1>5, <1>6

\* All classes of a partition come so, from every predecessor.
LEMMA SoundStart ==
  ASSUME fn \in Functions, NEW b \in Blocks, SoundBefore(b), NEW P, Good(P),
         \A c \in P : /\ c.value_phi = NoExpr /\ c.members # {} /\ (~IsConstant(c.leader_) => c.leader_ \in c.members)
                      /\ \E p \in 1..(b-1) : \E a \in pout[p] : Alike(c, a) /\ c.members \subseteq a.members
                      /\ \A n \in 1..Len(Preds(b)) : c.members \subseteq AllMembers(pout[Preds(b)[n]])
  PROVE  SoundAt(b, 1, P)
<1>1. ASSUME NEW c \in P
      PROVE  /\ Founded(c)
             /\ \A v \in c.members : Placed(v, b, 1) /\ ~(v[1] = "op" /\ v[2] = b)
             /\ \A q \in 1..(b-1) : \A d \in pout[q] : c.members \cap d.members # {} => Alike(c, d)
  <2>1. PICK p \in 1..(b-1) : \E a \in pout[p] : Alike(c, a) /\ c.members \subseteq a.members
    OBVIOUS
  <2>2. PICK a \in pout[p] : Alike(c, a) /\ c.members \subseteq a.members
    BY <2>1
  <2>3. c.value_phi = NoExpr /\ c.members # {} /\ (~IsConstant(c.leader_) => c.leader_ \in c.members)
    OBVIOUS
  <2> QED
    BY <2>2, <2>3, EntryClass
<1>2. ASSUME NEW c \in P, NEW v \in c.members, NEW n \in 1..Len(Preds(b))
      PROVE  v \in AllMembers(pout[Preds(b)[n]])
  OBVIOUS
<1> QED
  BY <1>1, <1>2 DEF SoundAt

\* What dominates a block dominates the others' way to it.
LEMMA DominatesOn ==
  ASSUME NEW d, NEW t \in Blocks, d # t, NEW b \in ToSet(Preds(t)), Dominates(d, t)
  PROVE  Dominates(d, b)
<1>1. PICK S \in SUBSET (Blocks \ {d}) :
        /\ d # 1 => 1 \in S
        /\ \A c \in Blocks \ {d} : ToSet(Preds(c)) \cap S # {} => c \in S
        /\ t \notin S
  BY DEF Dominates
<1>2. b \notin S
  BY <1>1
<1> QED
  BY <1>1, <1>2 DEF Dominates

\* At the end of a block all values of the block are past.
LEMMA PastEnd ==
  ASSUME fn \in Functions, NEW b \in Blocks, NEW v \in Here
  PROVE  Past(v, b, Len(fn.code[b]) + 1)
<1>1. SUFFICES ASSUME v[1] = "op", v[2] = b PROVE v[3] < Len(fn.code[b]) + 1
  BY DEF Past
<1>2. PICK c \in Blocks : \E j \in 1..Len(fn.code[c]) : v = Op(c, j)
  BY <1>1, OpHere
<1>3. PICK j \in 1..Len(fn.code[c]) : v = Op(c, j)
  BY <1>2
<1>4. v[3] = j /\ c = b /\ Len(fn.code[b]) \in Nat
  BY <1>1, <1>3, CodeType DEF Op
<1> QED
  BY <1>4

LEMMA PredsType ==
  ASSUME fn \in Functions, NEW b \in Blocks
  PROVE  \A n \in 1..Len(Preds(b)) : Preds(b)[n] \in Blocks /\ Preds(b)[n] \in ToSet(Preds(b))
<1>1. fn.preds \in Seq(Seq(Blocks)) /\ Len(fn.preds) = Len(fn.code)
  BY FunctionsAssumption DEF Blocks
<1>2. fn.preds[b] \in Seq(Blocks)
  BY <1>1 DEF Blocks
<1>3. PICK s \in Seq(Blocks) : s = Preds(b)
  BY <1>2 DEF Preds
<1>4. \A n \in 1..Len(s) : s[n] \in Blocks /\ n \in DOMAIN s
  OBVIOUS
<1> QED
  BY <1>3, <1>4 DEF ToSet

\* What block q leaves is exact, and numbered below n.
ExactEnd(q, n) == ExactAt(q, Len(fn.code[q]) + 1, pout[q], n)

\* A value that must be there at the start of b is there at the end of every
\* predecessor.
LEMMA FromPred ==
  ASSUME fn \in Functions, NEW b \in Blocks, NEW v \in Computed, Dominates(v[2], b), Past(v, b, 1),
         NEW p \in Blocks, p \in ToSet(Preds(b)), NEW n, ExactEnd(p, n)
  PROVE  v \in AllMembers(pout[p])
<1>1. v \in Here /\ v[1] = "op"
  BY DEF Here, Computed, OpsOf, Op
<1>2. v[2] # b
  BY <1>1, PastStart
<1>3. Dominates(v[2], p)
  BY <1>2, DominatesOn
<1>4. Past(v, p, Len(fn.code[p]) + 1)
  BY <1>1, PastEnd
<1> QED
  BY <1>3, <1>4 DEF ExactEnd, ExactAt, Complete

LEMMA SoundJoin ==
  ASSUME fn \in Functions, NEW b \in Blocks, SoundBefore(b), Len(Preds(b)) = 2,
         NEW p \in 1..(b-1), p = Preds(b)[1], NEW q \in 1..(b-1), q = Preds(b)[2],
         NEW n \in Nat, NEW s, s = join(pout[p], pout[q], n), s.ok
  PROVE  /\ GoodState(s) /\ s.n = n /\ SoundAt(b, 1, s.P)
         /\ ExactEnd(p, n) /\ ExactEnd(q, n) => ExactAt(b, 1, s.P, n)
<1>1. PICK P1, P2 : P1 = pout[p] /\ P2 = pout[q]
  OBVIOUS
<1>2. /\ Good(P1) /\ \A c \in P1 : Founded(c)
      /\ Good(P2) /\ \A c \in P2 : Founded(c)
  BY <1>1 DEF SoundBefore, SoundAt
<1>3. s = join(P1, P2, n) /\ GoodState(s)
  BY <1>1, <1>2, GoodJoin
<1>4. P1 # {}
  <2>1. SUFFICES ASSUME P1 = {} PROVE FALSE
    OBVIOUS
  <2>2. s = [P |-> {}, n |-> n, ok |-> FALSE]
    BY <1>3, <2>1 DEF join
  <2>3. s.ok = FALSE
    BY <2>2
  <2> QED
    BY <2>3
<1>5. First(P1).index # TopIndex
  <2>1. First(P1) \in P1
    BY <1>2, <1>4, Earliest DEF Good, IsClass
  <2> QED
    BY <1>2, <2>1 DEF Founded
<1>6. P2 # {}
  <2>1. SUFFICES ASSUME P2 = {} PROVE FALSE
    OBVIOUS
  <2>2. s = [P |-> {}, n |-> n, ok |-> FALSE]
    BY <1>3, <1>4, <1>5, <2>1 DEF join
  <2>3. s.ok = FALSE
    BY <2>2
  <2> QED
    BY <2>3
<1>7. First(P2).index # TopIndex
  <2>1. First(P2) \in P2
    BY <1>2, <1>6, Earliest DEF Good, IsClass
  <2> QED
    BY <1>2, <2>1 DEF Founded
<1>8. s = JoinAll(P1, P2, n)
  BY <1>3, <1>4, <1>5, <1>6, <1>7 DEF join
<1>9. ASSUME NEW w \in Meeting(P1, P2)
      PROVE  /\ w[1] \in P1 /\ w[2] \in P2 /\ w[1].members \cap w[2].members # {}
             /\ Alike(w[1], w[2]) /\ w[1].value_phi = NoExpr /\ w[2].value_phi = NoExpr
  <2>1. w[1] \in P1 /\ w[2] \in P2 /\ w[1].members \cap w[2].members # {}
    BY DEF Meeting
  <2>2. PICK c, d : c = w[1] /\ d = w[2]
    OBVIOUS
  <2>3. c \in pout[p] /\ d \in pout[q] /\ c.members \cap d.members # {}
    BY <1>1, <2>1, <2>2
  <2>4. Alike(c, d)
    BY <2>3, Consistent
  <2> QED
    BY <1>2, <2>1, <2>2, <2>4 DEF Founded
<1>10. s.n = n /\ Intersections(s.P, P1, P2) /\ AllMet(s.P, P1, P2)
  <2>1. PairsAlike(P1, P2)
    BY <1>9 DEF PairsAlike
  <2>2. Good(P1) /\ Good(P2)
    BY <1>2
  <2> QED
    BY <1>8, <2>1, <2>2, JoinOfAlike
<1>11. ASSUME NEW c \in s.P
       PROVE  /\ c.value_phi = NoExpr /\ c.members # {} /\ (~IsConstant(c.leader_) => c.leader_ \in c.members)
              /\ \E a \in pout[p] : Alike(c, a) /\ c.members \subseteq a.members
              /\ \A m \in 1..Len(Preds(b)) : c.members \subseteq AllMembers(pout[Preds(b)[m]])
  <2>1. PICK w \in Meeting(P1, P2) :
          Alike(c, w[1]) /\ c.value_phi = NoExpr /\ c.members = w[1].members \cap w[2].members
    BY <1>10 DEF Intersections
  <2>2. PICK d, e : d = w[1] /\ e = w[2]
    OBVIOUS
  <2>3. /\ d \in pout[p] /\ e \in pout[q] /\ d.members \cap e.members # {} /\ Alike(d, e)
        /\ Alike(c, d) /\ c.members = d.members \cap e.members /\ Founded(d) /\ Founded(e)
    BY <1>1, <1>2, <1>9, <2>1, <2>2
  <2>4. ~IsConstant(c.leader_) => c.leader_ \in c.members
    BY <2>3 DEF Alike, Founded
  <2>5. c.members \subseteq AllMembers(pout[p]) /\ c.members \subseteq AllMembers(pout[q])
    BY <2>3 DEF AllMembers
  <2>6. \A m \in 1..Len(Preds(b)) : m = 1 \/ m = 2
    OBVIOUS
  <2>7. \A m \in 1..Len(Preds(b)) : c.members \subseteq AllMembers(pout[Preds(b)[m]])
    BY <2>5, <2>6
  <2>8. \E a \in pout[p] : Alike(c, a) /\ c.members \subseteq a.members
    BY <2>3
  <2> QED
    BY <2>1, <2>3, <2>4, <2>7, <2>8
<1>12. SoundAt(b, 1, s.P)
  <2>1. PICK P : P = s.P
    OBVIOUS
  <2>2. Good(P)
    BY <1>3, <2>1 DEF GoodState
  <2>3. \A c \in P : /\ c.value_phi = NoExpr /\ c.members # {} /\ (~IsConstant(c.leader_) => c.leader_ \in c.members)
                     /\ \E r \in 1..(b-1) : \E a \in pout[r] : Alike(c, a) /\ c.members \subseteq a.members
                     /\ \A m \in 1..Len(Preds(b)) : c.members \subseteq AllMembers(pout[Preds(b)[m]])
    BY <1>11, <2>1
  <2> QED
    BY <2>1, <2>2, <2>3, SoundStart
<1>13. ASSUME ExactEnd(p, n), ExactEnd(q, n) PROVE ExactAt(b, 1, s.P, n)
  <2>1. Unique(P1) /\ Unique(P2) /\ Below(P1, n)
    BY <1>1, <1>13 DEF ExactEnd, ExactAt
  <2>2. ASSUME NEW c \in s.P
        PROVE  \E d \in P1 : d.index = c.index /\ d.value_expr = c.value_expr
    BY <1>9, <1>10 DEF Intersections, Alike
  <2>3. Below(s.P, n)
    BY <2>1, <2>2 DEF Below
  <2>4. Unique(s.P)
    <3>1. SUFFICES ASSUME NEW c \in s.P, NEW e \in s.P, Tells(c.value_expr), c.value_expr = e.value_expr PROVE c = e
      BY DEF Unique
    <3>2. c.index = e.index
      BY <2>1, <2>2, <3>1 DEF Unique
    <3> QED
      BY <1>3, <3>2 DEF GoodState, Good, Apart
  <2>5. ASSUME NEW v \in Computed, Dominates(v[2], b), Past(v, b, 1) PROVE v \in AllMembers(s.P)
    <3>1. 1 \in 1..Len(Preds(b)) /\ 2 \in 1..Len(Preds(b))
      OBVIOUS
    <3>2. p \in Blocks /\ q \in Blocks /\ p \in ToSet(Preds(b)) /\ q \in ToSet(Preds(b))
      BY <3>1, PredsType
    <3>3. v \in AllMembers(P1) /\ v \in AllMembers(P2)
      BY <1>1, <1>13, <2>5, <3>2, FromPred
    <3>4. PICK d \in P1, e \in P2 : v \in d.members \cap e.members
      BY <3>3 DEF AllMembers
    <3>5. <<d, e>> \in Meeting(P1, P2)
      BY <3>4 DEF Meeting
    <3>6. Met(s.P, <<d, e>>)
      BY <1>10, <3>5 DEF AllMet
    <3> QED
      BY <3>4, <3>6 DEF Met
  <2> QED
    BY <2>3, <2>4, <2>5 DEF ExactAt, Complete
<1> QED
  BY <1>3, <1>10, <1>12, <1>13

LEMMA SoundEntry ==
  ASSUME fn \in Functions, Plain, NEW b \in Blocks, Len(Preds(b)) \in {1, 2}, SoundBefore(b),
         NEW n \in Nat, NEW s, s = PartitionIn(b, n), s.ok
  PROVE  /\ GoodState(s) /\ s.n = n /\ SoundAt(b, 1, s.P)
         /\ (\A q \in 1..(b-1) : ExactEnd(q, n)) => ExactAt(b, 1, s.P, n)
<1>1. \A m \in 1..Len(Preds(b)) : Preds(b)[m] \in 1..(b-1)
  <2>1. \A m \in 1..Len(Preds(b)) : Preds(b)[m] \in Blocks /\ Preds(b)[m] < b
    BY CodeType DEF Plain
  <2>2. b \in Nat /\ \A x \in Blocks : x < b => x \in 1..(b-1)
    BY CodeType DEF Blocks
  <2> QED
    BY <2>1, <2>2
<1>2. CASE Len(Preds(b)) = 2
  <2>1. 1 \in 1..Len(Preds(b)) /\ 2 \in 1..Len(Preds(b))
    BY <1>2
  <2>2. PICK p, q : p = Preds(b)[1] /\ q = Preds(b)[2]
    OBVIOUS
  <2>3. p \in 1..(b-1) /\ q \in 1..(b-1)
    BY <1>1, <2>1, <2>2
  <2>4. s = join(pout[p], pout[q], n)
    BY <1>2, <2>2 DEF PartitionIn
  <2> QED
    BY <1>2, <2>2, <2>3, <2>4, SoundJoin
<1>3. CASE Len(Preds(b)) = 1
  <2>1. 1 \in 1..Len(Preds(b)) /\ \A m \in 1..Len(Preds(b)) : m = 1
    BY <1>3
  <2>2. PICK p : p = Preds(b)[1]
    OBVIOUS
  <2>3. p \in 1..(b-1)
    BY <1>1, <2>1, <2>2
  <2>4. PICK P : P = pout[p]
    OBVIOUS
  <2>5. s = [P |-> P, n |-> n, ok |-> TRUE]
    BY <1>3, <2>2, <2>4 DEF PartitionIn
  <2>6. Good(P) /\ \A c \in P : Founded(c)
    BY <2>3, <2>4 DEF SoundBefore, SoundAt
  <2>7. ASSUME NEW c \in P
        PROVE  /\ c.value_phi = NoExpr /\ c.members # {} /\ (~IsConstant(c.leader_) => c.leader_ \in c.members)
               /\ \E r \in 1..(b-1) : \E a \in pout[r] : Alike(c, a) /\ c.members \subseteq a.members
               /\ \A m \in 1..Len(Preds(b)) : c.members \subseteq AllMembers(pout[Preds(b)[m]])
    <3>1. Alike(c, c) /\ c \in pout[p]
      BY <2>4 DEF Alike
    <3>2. c.members \subseteq AllMembers(pout[p])
      BY <3>1 DEF AllMembers
    <3>3. \A m \in 1..Len(Preds(b)) : c.members \subseteq AllMembers(pout[Preds(b)[m]])
      BY <2>1, <2>2, <3>2
    <3>4. c.value_phi = NoExpr /\ c.members # {} /\ (~IsConstant(c.leader_) => c.leader_ \in c.members)
      BY <2>6 DEF Founded
    <3> QED
      BY <2>3, <3>1, <3>3, <3>4
  <2>8. SoundAt(b, 1, P)
    BY <2>6, <2>7, SoundStart
  <2>9. s.P = P /\ s.n = n /\ GoodState(s)
    BY <2>5, <2>6 DEF GoodState
  <2>10. ASSUME ExactEnd(p, n) PROVE ExactAt(b, 1, P, n)
    <3>1. Unique(P) /\ Below(P, n)
      BY <2>4, <2>10 DEF ExactEnd, ExactAt
    <3>2. p \in Blocks /\ p \in ToSet(Preds(b))
      BY <2>1, <2>2, PredsType
    <3>3. \A v \in Computed : Dominates(v[2], b) /\ Past(v, b, 1) => v \in AllMembers(P)
      BY <2>4, <2>10, <3>2, FromPred
    <3> QED
      BY <3>1, <3>3 DEF ExactAt, Complete
  <2> QED
    BY <2>3, <2>8, <2>9, <2>10
<1> QED
  BY <1>2, <1>3

-----------------------------------------------------------------------------
(* The pass.                                                               *)

\* What depends on the function only.
LEMMA PlainStays ==
  ASSUME fn' = fn
  PROVE  /\ Plain' = Plain /\ Here' = Here /\ Blocks' = Blocks /\ Computed' = Computed
         /\ \A b : Preds(b)' = Preds(b)
         /\ \A b : MaxNumber(b)' = MaxNumber(b)
<1>1. Here' = Here /\ Blocks' = Blocks
  BY FunctionStays
<1>2. \A b : Preds(b)' = Preds(b)
  BY DEF Preds
<1>3. \A b : MaxNumber(b)' = MaxNumber(b)
  BY DEF MaxNumber, Given
<1>4. Plain' = Plain /\ Computed' = Computed
  BY DEF Plain, Blocks, Preds, Given, OpsOf, Computed, Dominates
<1> QED
  BY <1>1, <1>2, <1>3, <1>4

\* A partition is as sound as it was when those before it stay.
LEMMA SoundStays ==
  ASSUME fn' = fn, NEW b, NEW k, NEW P, SoundAt(b, k, P),
         \A q \in 1..(b-1) : pout'[q] = pout[q],
         \A n \in 1..Len(Preds(b)) : Preds(b)[n] \in 1..(b-1)
  PROVE  SoundAt(b, k, P)'
<1>1. Here' = Here /\ Computed' = Computed /\ \A c : Preds(c)' = Preds(c)
  BY PlainStays
<1>2. Good(P)'
  BY <1>1 DEF SoundAt, Good, IsClass
<1>3. ASSUME NEW c \in P
      PROVE  (/\ Founded(c)
              /\ \A v \in c.members :
                   /\ Placed(v, b, k)
                   /\ v[1] = "op" /\ v[2] = b => c.value_expr = valueExpr(P, InstrOf(fn.code, v))
                   /\ ~(v[1] = "op" /\ v[2] = b) =>
                        \A n \in 1..Len(Preds(b)) : v \in AllMembers(pout[Preds(b)[n]])
              /\ \A q \in 1..(b-1) : \A d \in pout[q] : c.members \cap d.members # {} => Alike(c, d))'
  BY <1>1 DEF SoundAt, Founded, Known
<1> QED
  BY <1>2, <1>3 DEF SoundAt

LEMMA PlainPreds ==
  ASSUME fn \in Functions, Plain, NEW b \in Blocks
  PROVE  /\ \A n \in 1..Len(Preds(b)) : Preds(b)[n] \in 1..(b-1)
         /\ b = 1 => Preds(b) = <<>> /\ Len(Preds(b)) \notin {1, 2}
         /\ b # 1 => Len(Preds(b)) \in {1, 2} /\ Preds(b) # <<>>
<1>1. \A n \in 1..Len(Preds(b)) : Preds(b)[n] \in Blocks /\ Preds(b)[n] < b
  BY CodeType DEF Plain
<1>2. b \in Nat /\ \A x \in Blocks : x < b => x \in 1..(b-1)
  BY CodeType DEF Blocks
<1>3. b = 1 => Preds(b) = <<>>
  BY DEF Plain
<1>4. b # 1 => Len(Preds(b)) \in {1, 2}
  BY DEF Plain
<1>5. \A n \in 1..Len(Preds(b)) : Preds(b)[n] \in 1..(b-1)
  BY <1>1, <1>2
<1>6. PICK p : p = Preds(b)
  OBVIOUS
<1>7. p = <<>> => Len(p) = 0
  OBVIOUS
<1>8. p = <<>> => Len(p) \notin {1, 2}
  BY <1>7
<1> QED
  BY <1>3, <1>4, <1>5, <1>6, <1>8, Zenon

LEMMA TransferOk ==
  ASSUME fn \in Functions, code = fn.code, NEW st, GoodState(st), NEW b \in Blocks, transferFunction(b, st).ok
  PROVE  st.ok
<1>1. PICK N : N = Len(code[b]) /\ N \in Nat
  BY CodeType
<1>2. PICK f : /\ f[0] = st
               /\ \A k \in 1..N : f[k] = TransferInstr(b, f[k-1], Op(b, k))
               /\ transferFunction(b, st) = f[N]
  BY <1>1, TransferLoop
<1> DEFINE T == {n \in Nat : n <= N => GoodState(f[n]) /\ (f[n].ok => st.ok)}
<1>3. 0 \in T
  BY <1>2
<1>4. ASSUME NEW n \in Nat, n \in T PROVE n + 1 \in T
  <2>1. PICK k : k = n + 1
    OBVIOUS
  <2>2. CASE k <= N
    <3>1. k \in 1..N /\ k - 1 = n /\ n <= N
      BY <1>1, <2>1, <2>2
    <3>2. f[k] = TransferInstr(b, f[n], Op(b, k)) /\ Op(b, k) \in OpsOf(fn.code)
      BY <1>1, <1>2, <3>1 DEF OpsOf, Blocks
    <3>3. GoodState(f[n]) /\ (f[n].ok => st.ok)
      BY <1>4, <3>1
    <3>4. GoodState(f[k])
      BY <3>2, <3>3, GoodTransferInstr
    <3>5. f[k].ok => f[n].ok
      BY <3>2, <3>3, TransferInstrOk
    <3> QED
      BY <2>1, <3>3, <3>4, <3>5
  <2>3. CASE ~(k <= N)
    BY <2>1, <2>3
  <2> QED
    BY <2>2, <2>3
<1>5. \A n \in Nat : n \in T
  <2> HIDE DEF T
  <2> QED
    BY <1>3, <1>4, SetInduction
<1>6. f[N].ok => st.ok
  BY <1>1, <1>5
<1> QED
  BY <1>2, <1>6

\* What processing a block makes of a sound partition.
LEMMA SoundProcess ==
  ASSUME fn \in Functions, code = fn.code, Plain, NEW b \in Blocks, SoundBefore(b),
         NEW s, GoodState(s), SoundAt(b, 1, s.P), NEW m \in Nat, s.n <= m, m + SmallNumber < TopIndex,
         Process(b, s).ok
  PROVE  /\ s.ok /\ s.n <= Process(b, s).n /\ Process(b, s).n <= m + SmallNumber
         /\ SoundAt(b, Len(fn.code[b]) + 1, Process(b, s).P)
         /\ ExactAt(b, 1, s.P, s.n) => ExactAt(b, Len(fn.code[b]) + 1, Process(b, s).P, Process(b, s).n)
<1>1. ASSUME NEW q \in 1..(b-1), NEW d \in pout[q], NEW v \in d.members
      PROVE  ~(v[1] = "op" /\ v[2] = b)
  <2>1. v \in Here /\ Placed(v, q, Len(fn.code[q]) + 1)
    BY DEF SoundBefore, SoundAt, Good, IsClass
  <2> QED
    BY <2>1, PlacedAfter
<1>2. PICK t : t = transferFunction(b, s)
  OBVIOUS
<1>3. Process(b, s) = t
  BY <1>2, NoCopies DEF Process
<1>4. t.ok
  BY <1>3
<1>5. /\ s.ok /\ s.n <= t.n /\ t.n <= m + SmallNumber /\ SoundAt(b, Len(fn.code[b]) + 1, t.P)
      /\ ExactAt(b, 1, s.P, s.n) => ExactAt(b, Len(fn.code[b]) + 1, t.P, t.n)
  BY <1>1, <1>2, <1>4, SoundTransfer
<1> QED
  BY <1>3, <1>5

LEMMA InitBlockPasses ==
  ASSUME IInv, PassInv, InitBlock
  PROVE  PassInv'
<1>1. /\ phase = "init" /\ ok /\ bb \in Blocks /\ bb \in Nat /\ code = fn.code /\ fn \in Functions
      /\ pout = [b \in Blocks |-> pout[b]]
  BY DEF IInv, InitBlock, Blocks
<1>2. /\ fn' = fn /\ code' = code /\ phase' = phase /\ todo' = todo
      /\ bb' = bb + 1 /\ cur_next_value_number' = cur_next_value_number
  BY DEF InitBlock, ssaVars, irVars
<1>3. Plain' = Plain /\ Blocks' = Blocks /\ \A b : MaxNumber(b)' = MaxNumber(b)
  BY <1>2, PlainStays
<1> SUFFICES ASSUME Plain PROVE PassInv'
  BY <1>3 DEF PassInv
<1>4. PartitionsSound /\ NumbersSmall /\ TodoLed
  BY <1>1 DEF PassInv
<1>5. OperandsLed' /\ TodoLed'
  <2>1. OperandsLed'
    BY <1>1, <1>2 DEF OperandsLed
  <2>2. todo' = {}
    BY <1>1, <1>2, <1>4 DEF TodoLed
  <2> QED
    BY <2>1, <2>2 DEF TodoLed
<1>6. ASSUME ok' PROVE (PartitionsSound /\ NumbersSmall)'
  <2>1. Visited' = {1} /\ 1 \in Blocks /\ bb' # 1
    <3>1. 1 \in Blocks
      BY <1>1 DEF Blocks
    <3>2. Visited' = {b \in Blocks : b = 1 /\ bb + 1 > 1}
      BY <1>1, <1>2, <1>3 DEF Visited
    <3>3. bb + 1 > 1 /\ bb + 1 # 1
      BY <1>1 DEF Blocks
    <3> QED
      BY <1>2, <3>1, <3>2, <3>3
  <2>2. CASE bb = 1
    <3>1. PICK s0 : s0 = [P |-> GivenClasses(1), n |-> 1 + Len(Given), ok |-> TRUE]
      OBVIOUS
    <3>2. PICK st : st = Process(1, s0)
      OBVIOUS
    <3>3. next_value_number = 1
      BY <1>1, <1>4, <2>2 DEF NumbersSmall
    <3>4. SoundAt(1, 1, GivenClasses(1)) /\ Preds(1) = <<>>
      BY <1>1, <2>1, SoundGiven
    <3>5. pout' = [pout EXCEPT ![1] = st.P] /\ next_value_number' = st.n /\ ok' = st.ok
      BY <2>2, <3>1, <3>2, <3>3, <3>4 DEF InitBlock
    <3>6. GoodState(s0) /\ s0.P = GivenClasses(1) /\ s0.n = 1 + Len(Given)
      BY <1>1, <3>1, GoodGiven, GivenType DEF GoodState
    <3>7. SoundBefore(1)
      BY DEF SoundBefore
    <3>8. PICK m \in Nat : m = 1 + Len(Given)
      BY <1>1, GivenType
    <3>9. m + SmallNumber < TopIndex /\ s0.n <= m
      BY <3>6, <3>8 DEF Plain, SmallNumber, TopIndex
    <3>10. SoundAt(1, 1, s0.P) /\ Process(1, s0).ok
      BY <1>6, <3>2, <3>4, <3>5, <3>6
    <3>11. Process(1, s0).n <= m + SmallNumber /\ SoundAt(1, Len(fn.code[1]) + 1, Process(1, s0).P)
      BY <1>1, <2>1, <3>6, <3>7, <3>9, <3>10, SoundProcess
    <3>12. PICK Q : Q = st.P
      OBVIOUS
    <3>13. pout'[1] = Q
      BY <1>1, <2>1, <3>5, <3>12
    <3>14. SoundAt(1, Len(fn.code[1]) + 1, Q)'
      <4>1. PICK k : k = Len(fn.code[1]) + 1
        OBVIOUS
      <4>2. SoundAt(1, k, Q)
        BY <3>2, <3>11, <3>12, <4>1
      <4>3. SoundAt(1, k, Q)'
        BY <1>1, <1>2, <2>1, <4>2, PlainPreds, SoundStays
      <4> QED
        BY <1>2, <4>1, <4>3
    <3>15. PartitionsSound'
      BY <2>1, <3>13, <3>14 DEF PartitionsSound
    <3>16. next_value_number' <= MaxNumber(1)
      BY <3>2, <3>5, <3>8, <3>11 DEF MaxNumber, SmallNumber
    <3> QED
      BY <1>1, <1>2, <1>3, <2>1, <3>15, <3>16 DEF NumbersSmall
  <2>3. CASE bb # 1
    <3>1. Preds(bb) # <<>>
      BY <1>1, <2>3, PlainPreds
    <3>2. pout' = [pout EXCEPT ![bb] = Top] /\ next_value_number' = next_value_number
      BY <3>1 DEF InitBlock
    <3>3. pout'[1] = pout[1]
      BY <1>1, <2>1, <2>3, <3>2
    <3>4. Visited = {1}
      BY <1>1, <2>1, <2>3 DEF Visited, Blocks
    <3>5. PICK Q, k : Q = pout[1] /\ k = Len(fn.code[1]) + 1
      OBVIOUS
    <3>6. SoundAt(1, k, Q)
      BY <1>4, <3>4, <3>5 DEF PartitionsSound
    <3>7. SoundAt(1, k, Q)'
      BY <1>1, <1>2, <2>1, <3>6, PlainPreds, SoundStays
    <3>8. PartitionsSound'
      BY <1>2, <2>1, <3>3, <3>5, <3>7 DEF PartitionsSound
    <3>9. next_value_number <= MaxNumber(1)
      BY <1>1, <1>4, <2>3 DEF NumbersSmall
    <3> QED
      BY <1>1, <1>2, <1>3, <2>1, <3>2, <3>8, <3>9 DEF NumbersSmall
  <2> QED
    BY <2>2, <2>3
<1> QED
  BY <1>1, <1>2, <1>5, <1>6 DEF PassInv

\* A block's partition stays sound when it and those before it stay.
LEMMA BlockStays ==
  ASSUME fn' = fn, fn \in Functions, Plain, NEW b \in Blocks, \A q \in 1..b : pout'[q] = pout[q],
         SoundAt(b, Len(fn.code[b]) + 1, pout[b])
  PROVE  SoundAt(b, Len(fn.code[b]) + 1, pout[b])'
<1>1. PICK Q, k : Q = pout[b] /\ k = Len(fn.code[b]) + 1
  OBVIOUS
<1>2. b \in Nat \ {0}
  BY CodeType DEF Blocks
<1>3. pout'[b] = pout[b] /\ \A q \in 1..(b-1) : pout'[q] = pout[q]
  BY <1>2
<1>4. SoundAt(b, k, Q)'
  BY <1>1, <1>3, PlainPreds, SoundStays
<1> QED
  BY <1>1, <1>3, <1>4

LEMMA StartPassPasses ==
  ASSUME IInv, PassInv, StartPass
  PROVE  PassInv'
<1>1. /\ phase \in {"init", "iterate"} /\ ok /\ code = fn.code /\ fn \in Functions
      /\ bb \in Nat \ {0} /\ bb > Len(fn.code)
  BY DEF IInv, StartPass
<1>2. /\ fn' = fn /\ code' = code /\ pout' = pout /\ phase' = "iterate" /\ todo' = todo /\ bb' = 1 /\ ok' = ok
      /\ next_value_number' = cur_next_value_number'
      /\ cur_next_value_number' = IF phase = "init" THEN next_value_number ELSE cur_next_value_number
  BY DEF StartPass, ssaVars, irVars
<1>3. Plain' = Plain /\ Blocks' = Blocks /\ \A b : MaxNumber(b)' = MaxNumber(b)
  BY <1>2, PlainStays
<1> SUFFICES ASSUME Plain PROVE PassInv'
  BY <1>3 DEF PassInv
<1>4. PartitionsSound /\ NumbersSmall /\ TodoLed
  BY <1>1 DEF PassInv
<1>5. OperandsLed' /\ TodoLed'
  <2>1. OperandsLed'
    BY <1>1, <1>2 DEF OperandsLed
  <2>2. todo' = {}
    BY <1>1, <1>2, <1>4 DEF TodoLed
  <2> QED
    BY <2>1, <2>2 DEF TodoLed
<1>6. PartitionsSound'
  <2>1. ASSUME NEW b \in Visited' PROVE SoundAt(b, Len(fn.code[b]) + 1, pout[b])'
    <3>1. b \in Blocks /\ b = 1
      <4>1. \A n \in Blocks : n \in Nat /\ ~(n < 1)
        BY <1>1, CodeType DEF Blocks
      <4> QED
        BY <1>2, <1>3, <4>1 DEF Visited
    <3>2. b \in Visited
      <4>1. bb > 1
        BY <1>1, <3>1, CodeType DEF Blocks
      <4> QED
        BY <1>1, <3>1, <4>1 DEF Visited
    <3>3. SoundAt(b, Len(fn.code[b]) + 1, pout[b])
      BY <1>4, <3>2 DEF PartitionsSound
    <3> QED
      BY <1>1, <1>2, <3>1, <3>3, BlockStays
  <2> QED
    BY <2>1 DEF PartitionsSound
<1>7. NumbersSmall'
  <2>1. MaxNumber(1) >= 1
    BY <1>1, GivenType DEF MaxNumber, SmallNumber
  <2>2. cur_next_value_number' <= MaxNumber(1)
    BY <1>1, <1>2, <1>4, <2>1 DEF NumbersSmall
  <2> QED
    BY <1>2, <1>3, <2>2 DEF NumbersSmall
<1> QED
  BY <1>2, <1>5, <1>6, <1>7 DEF PassInv

\* The numbers do not run out.
LEMMA NumbersLeft ==
  ASSUME fn \in Functions, Plain, NEW b \in Blocks
  PROVE  MaxNumber(b) \in Nat /\ MaxNumber(b) + SmallNumber = MaxNumber(b + 1) /\ MaxNumber(b + 1) < TopIndex
<1>1. b \in Nat \ {0} /\ b <= SmallNumber
  <2>1. Len(fn.code) \in Nat /\ Len(fn.code) <= SmallNumber
    BY CodeType DEF Plain
  <2> QED
    BY <2>1 DEF Blocks, SmallNumber
<1>2. Len(Given) \in Nat /\ Len(Given) <= SmallNumber
  BY GivenType DEF Plain
<1>3. SmallNumber * b <= SmallNumber * SmallNumber
  BY <1>1 DEF SmallNumber
<1>4. SmallNumber * (b + 1) = SmallNumber * b + SmallNumber
  BY <1>1 DEF SmallNumber
<1> QED
  BY <1>1, <1>2, <1>3, <1>4 DEF MaxNumber, SmallNumber, TopIndex

LEMMA VisitPasses ==
  ASSUME IInv, PassInv, Visit
  PROVE  PassInv'
<1>1. /\ phase = "iterate" /\ ok /\ bb \in Blocks /\ code = fn.code /\ fn \in Functions
      /\ pout = [b \in Blocks |-> pout[b]] /\ next_value_number \in Nat
  <2>1. phase = "iterate" /\ bb <= Len(fn.code) /\ ok
    BY DEF Visit
  <2>2. bb \in Nat \ {0} /\ fn \in Functions
    BY DEF IInv
  <2>3. bb \in Blocks
    BY <2>1, <2>2, CodeType DEF Blocks
  <2> QED
    BY <2>1, <2>2, <2>3 DEF IInv
<1>2. /\ fn' = fn /\ code' = code /\ phase' = phase /\ todo' = todo
      /\ bb' = bb + 1 /\ cur_next_value_number' = cur_next_value_number
  BY DEF Visit, ssaVars, irVars
<1>3. Plain' = Plain /\ Blocks' = Blocks /\ \A b : MaxNumber(b)' = MaxNumber(b)
  BY <1>2, PlainStays
<1> SUFFICES ASSUME Plain PROVE PassInv'
  BY <1>3 DEF PassInv
<1>4. PartitionsSound /\ NumbersSmall /\ TodoLed
  BY <1>1 DEF PassInv
<1>5. OperandsLed' /\ TodoLed'
  <2>1. OperandsLed'
    BY <1>1, <1>2 DEF OperandsLed
  <2>2. todo' = {}
    BY <1>1, <1>2, <1>4 DEF TodoLed
  <2> QED
    BY <2>1, <2>2 DEF TodoLed
<1>6. /\ bb \in Nat \ {0} /\ \A b \in Blocks : b \in Nat /\ b > 0
      /\ bb + 1 # 1 /\ Len(Given) \in Nat /\ bb <= SmallNumber
  <2>1. Len(fn.code) \in Nat /\ Len(fn.code) <= SmallNumber
    BY <1>1, CodeType DEF Plain
  <2>2. bb <= SmallNumber
    BY <1>1, <2>1 DEF Blocks, SmallNumber
  <2>3. Len(Given) \in Nat
    BY <1>1, GivenType
  <2> QED
    BY <1>1, <2>1, <2>2, <2>3 DEF Blocks
<1>7. ASSUME NEW b \in Blocks, b < bb \/ b = 1
      PROVE  SoundAt(b, Len(fn.code[b]) + 1, pout[b])
  BY <1>1, <1>4, <1>7 DEF PartitionsSound, Visited
<1>8. SoundBefore(bb)
  <2>1. \A q \in 1..(bb-1) : q \in Blocks /\ q < bb
    BY <1>1, CodeType DEF Blocks
  <2> QED
    BY <1>7, <2>1 DEF SoundBefore
<1>9. cur_next_value_number' <= MaxNumber(1)' /\ next_value_number <= MaxNumber(bb)
  BY <1>1, <1>2, <1>3, <1>4 DEF NumbersSmall
<1>10. MaxNumber(bb) \in Nat /\ MaxNumber(bb) + SmallNumber = MaxNumber(bb + 1) /\ MaxNumber(bb + 1) < TopIndex
  BY <1>1, NumbersLeft
<1>11. ASSUME ok' PROVE (PartitionsSound /\ NumbersSmall)'
  <2>1. CASE bb = 1
    <3>1. Len(Preds(bb)) \notin {1, 2}
      BY <1>1, <2>1, PlainPreds
    <3>2. pout' = pout /\ next_value_number' = next_value_number
      BY <3>1 DEF Visit
    <3>3. ASSUME NEW b \in Visited' PROVE SoundAt(b, Len(fn.code[b]) + 1, pout[b])'
      <4>1. b \in Blocks /\ b = 1
        BY <1>1, <1>2, <1>3, <1>6, <2>1 DEF Visited
      <4>2. SoundAt(b, Len(fn.code[b]) + 1, pout[b])
        BY <1>7, <4>1
      <4> QED
        BY <1>1, <1>2, <3>2, <4>1, <4>2, BlockStays
    <3>4. PartitionsSound'
      BY <3>3 DEF PartitionsSound
    <3>5. next_value_number' <= MaxNumber(bb + 1)
      BY <1>1, <1>9, <1>10, <3>2 DEF SmallNumber
    <3>6. NumbersSmall'
      BY <1>1, <1>2, <1>3, <1>9, <3>5 DEF NumbersSmall
    <3> QED
      BY <3>4, <3>6
  <2>2. CASE bb # 1
    <3>1. Len(Preds(bb)) \in {1, 2}
      BY <1>1, <2>2, PlainPreds
    <3>2. PICK s0 : s0 = PartitionIn(bb, next_value_number)
      OBVIOUS
    <3>3. PICK st : st = Process(bb, s0)
      OBVIOUS
    <3>4. pout' = [pout EXCEPT ![bb] = st.P] /\ next_value_number' = st.n /\ ok' = st.ok
      BY <3>1, <3>2, <3>3 DEF Visit
    <3>5. st.ok
      BY <1>11, <3>4
    <3>6. s0.ok => GoodState(s0) /\ s0.n = next_value_number /\ SoundAt(bb, 1, s0.P)
      BY <1>1, <1>8, <3>1, <3>2, SoundEntry
    <3>7. s0.ok
      <4>1. GoodState(s0)
        BY <1>1, <3>1, <3>2, GoodPartitionIn DEF IInv
      <4>2. transferFunction(bb, s0).ok
        BY <1>1, <3>3, <3>5, NoCopies DEF Process
      <4> QED
        BY <1>1, <4>1, <4>2, TransferOk
    <3>8. PICK m \in Nat : m = MaxNumber(bb)
      BY <1>10
    <3>9. m + SmallNumber < TopIndex /\ s0.n <= m
      BY <1>9, <1>10, <3>6, <3>7, <3>8
    <3>10. Process(bb, s0).n <= m + SmallNumber /\ SoundAt(bb, Len(fn.code[bb]) + 1, Process(bb, s0).P)
      BY <1>1, <1>8, <3>3, <3>5, <3>6, <3>7, <3>9, SoundProcess
    <3>11. PICK Q, k : Q = st.P /\ k = Len(fn.code[bb]) + 1
      OBVIOUS
    <3>12. pout' = [b \in Blocks |-> IF b = bb THEN Q ELSE pout[b]]
      BY <1>1, <3>4, <3>11
    <3>13. \A b \in 1..(bb-1) : pout'[b] = pout[b]
      BY <1>1, <3>12, CodeType DEF Blocks
    <3>14. PICK c \in Blocks : c = bb /\ SoundAt(c, k, Q)'
      <4>1. SoundAt(bb, k, Q)
        BY <3>3, <3>10, <3>11
      <4>2. PICK c \in Blocks : c = bb
        BY <1>1
      <4>3. /\ SoundAt(c, k, Q) /\ \A q \in 1..(c-1) : pout'[q] = pout[q]
            /\ \A n \in 1..Len(Preds(c)) : Preds(c)[n] \in 1..(c-1)
        BY <1>1, <3>13, <4>1, <4>2, PlainPreds
      <4>4. SoundAt(c, k, Q)'
        BY <1>2, <4>3, SoundStays
      <4> QED
        BY <4>2, <4>4
    <3>15. ASSUME NEW b \in Visited' PROVE SoundAt(b, Len(fn.code[b]) + 1, pout[b])'
      <4>1. b \in Blocks /\ (b = 1 \/ b < bb + 1)
        BY <1>1, <1>2, <1>3 DEF Visited
      <4>2. CASE b = bb
        <5>1. b = c /\ pout'[c] = Q /\ k = Len(fn.code[c]) + 1
          BY <3>11, <3>12, <3>14, <4>2
        <5> QED
          BY <1>2, <3>14, <5>1
      <4>3. CASE b # bb
        <5>1. b \in Blocks /\ (b < bb \/ b = 1) /\ b < bb
          BY <1>6, <2>2, <4>1, <4>3
        <5>2. SoundAt(b, Len(fn.code[b]) + 1, pout[b])
          BY <1>7, <5>1
        <5>3. \A q \in 1..b : pout'[q] = pout[q]
          BY <1>6, <3>13, <5>1
        <5> QED
          BY <1>1, <1>2, <5>1, <5>2, <5>3, BlockStays
      <4> QED
        BY <4>2, <4>3
    <3>16. PartitionsSound'
      BY <3>15 DEF PartitionsSound
    <3>17. next_value_number' <= MaxNumber(bb + 1)
      BY <1>10, <3>3, <3>4, <3>8, <3>10
    <3>18. NumbersSmall'
      BY <1>1, <1>2, <1>3, <1>9, <3>17 DEF NumbersSmall
    <3> QED
      BY <3>16, <3>18
  <2> QED
    BY <2>1, <2>2
<1> QED
  BY <1>1, <1>2, <1>5, <1>11 DEF PassInv

LEMMA StartReplacePasses ==
  ASSUME IInv, PassInv, StartReplace
  PROVE  PassInv'
<1>1. /\ phase = "iterate" /\ ok /\ code = fn.code /\ fn \in Functions
      /\ bb \in Nat \ {0} /\ bb > Len(fn.code)
  BY DEF IInv, StartReplace
<1>2. /\ fn' = fn /\ code' = code /\ pout' = pout /\ phase' = "replace" /\ todo' = Replacements /\ ok' = ok
  BY DEF StartReplace, ssaVars, irVars, partVars
<1>3. Plain' = Plain /\ Blocks' = Blocks
  BY <1>2, PlainStays
<1> SUFFICES ASSUME Plain PROVE PassInv'
  BY <1>3 DEF PassInv
<1>4. PartitionsSound
  BY <1>1 DEF PassInv
<1>5. OperandsLed'
  BY <1>1, <1>2 DEF OperandsLed
<1>6. TodoLed'
  <2>1. ASSUME NEW r \in Replacements
        PROVE  r.bb \in Blocks /\ \E c \in pout[r.bb] : r.member \in c.members \ {c.leader_} /\ r.leader_ = c.leader_
    <3>1. PICK b \in Blocks : r \in UNION {{Replacement(b, cc, v) : v \in Replaced(cc)} : cc \in pout[b]}
      BY DEF Replacements
    <3>2. PICK cc \in pout[b] : r \in {Replacement(b, cc, v) : v \in Replaced(cc)}
      BY <3>1
    <3>3. PICK v \in Replaced(cc) : r = Replacement(b, cc, v)
      BY <3>2
    <3>4. v \in cc.members \ {cc.leader_}
      BY DEF Replaced
    <3>5. r.bb = b /\ r.member = v /\ r.leader_ = cc.leader_
      BY <3>3 DEF Replacement
    <3> QED
      BY <3>4, <3>5
  <2>2. \A r \in todo' : r.bb \in Blocks' /\ \E c \in pout'[r.bb] : r.member \in c.members \ {c.leader_} /\ r.leader_ = c.leader_
    BY <1>2, <1>3, <2>1
  <2> QED
    BY <1>2, <2>2 DEF TodoLed
<1>7. PartitionsSound'
  <2>1. ASSUME NEW b \in Visited' PROVE SoundAt(b, Len(fn.code[b]) + 1, pout[b])'
    <3>1. b \in Blocks
      BY <1>2, <1>3 DEF Visited
    <3>2. b \in Visited
      <4>1. b < bb
        BY <1>1, <3>1, CodeType DEF Blocks
      <4> QED
        BY <1>1, <3>1, <4>1 DEF Visited
    <3>3. SoundAt(b, Len(fn.code[b]) + 1, pout[b])
      BY <1>4, <3>2 DEF PartitionsSound
    <3> QED
      BY <1>1, <1>2, <3>1, <3>3, BlockStays
  <2> QED
    BY <2>1 DEF PartitionsSound
<1>8. NumbersSmall'
  BY <1>2 DEF NumbersSmall
<1> QED
  BY <1>2, <1>5, <1>6, <1>7, <1>8 DEF PassInv

\* What a replacement does to the operands.
LEMMA ReplacedOperands ==
  ASSUME IInv, NEW v \in Tracked, NEW l, NEW b0, replace_use_with_when(v, l, b0),
         NEW b \in Blocks, NEW k \in 1..Len(fn.code[b]), NEW n \in 1..Len(fn.code[b][k].opnd)
  PROVE  \/ code'[b][k].opnd[n] = code[b][k].opnd[n]
         \/ /\ code[b][k].opnd[n] = v /\ code'[b][k].opnd[n] = l
            /\ UserIn(b0, Op(b, k))
<1>1. fn \in Functions /\ SameShape(code) /\ use_list = [w \in Tracked |-> SetToBag(UsesOf(code, w))]
  BY DEF IInv
<1>2. DOMAIN use_list[v] = UsesOf(code, v)
  BY <1>1 DEF SetToBag
<1>3. DOMAIN UsesFrom(v, b0) = {u \in UsesOf(code, v) : UserIn(b0, u[1])}
  BY <1>2 DEF UsesFrom
<1>4. CASE code' = code
  BY <1>4
<1>5. CASE code' = WithOperand(DOMAIN UsesFrom(v, b0), l)
  <2>1. PICK uses : uses = DOMAIN UsesFrom(v, b0)
    OBVIOUS
  <2>2. PICK c : c = WithOperand(uses, l)
    OBVIOUS
  <2>3. c[b][k].opnd[n] = IF <<Op(b, k), n>> \in uses THEN l ELSE code[b][k].opnd[n]
    BY <1>1, <2>2, WithOperandIs
  <2>4. ASSUME <<Op(b, k), n>> \in uses PROVE code[b][k].opnd[n] = v /\ UserIn(b0, Op(b, k))
    <3>1. PICK u : u = <<Op(b, k), n>>
      OBVIOUS
    <3>2. u \in UsesOf(code, v) /\ UserIn(b0, u[1]) /\ u[1] = Op(b, k)
      BY <1>3, <2>1, <2>4, <3>1
    <3>3. PICK d \in Blocks : \E j \in 1..Len(fn.code[d]) : \E m \in 1..Len(fn.code[d][j].opnd) :
            u = <<Op(d, j), m>> /\ code[d][j].opnd[m] = v
      BY <1>1, <3>2, UsesAre
    <3>4. PICK j \in 1..Len(fn.code[d]) : \E m \in 1..Len(fn.code[d][j].opnd) :
            u = <<Op(d, j), m>> /\ code[d][j].opnd[m] = v
      BY <3>3
    <3>5. PICK m \in 1..Len(fn.code[d][j].opnd) : u = <<Op(d, j), m>> /\ code[d][j].opnd[m] = v
      BY <3>4
    <3>6. d = b /\ j = k /\ m = n
      BY <3>1, <3>5 DEF Op
    <3> QED
      BY <3>2, <3>5, <3>6
  <2> QED
    BY <1>5, <2>1, <2>2, <2>3, <2>4
<1> QED
  BY <1>4, <1>5 DEF replace_use_with_when, irVars

LEMMA ReplacePasses ==
  ASSUME IInv, PassInv, Replace
  PROVE  PassInv'
<1>1. phase = "replace" /\ ok /\ fn \in Functions /\ SameShape(code)
  BY DEF IInv, Replace
<1>2. fn' = fn /\ pout' = pout /\ phase' = phase /\ bb' = bb
  BY DEF Replace, ssaVars, partVars
<1>3. Plain' = Plain /\ Blocks' = Blocks
  BY <1>2, PlainStays
<1> SUFFICES ASSUME Plain PROVE PassInv'
  BY <1>3 DEF PassInv
<1>4. PartitionsSound /\ OperandsLed /\ TodoLed /\ Visited = Blocks
  BY <1>1 DEF PassInv, Visited
<1>5. PICK r \in todo : replace_use_with_when(r.member, r.leader_, r.bb) /\ todo' = todo \ {r}
  BY DEF Replace
<1>6. TodoLed'
  BY <1>1, <1>2, <1>3, <1>4, <1>5 DEF TodoLed
<1>7. PartitionsSound'
  <2>1. ASSUME NEW b \in Visited' PROVE SoundAt(b, Len(fn.code[b]) + 1, pout[b])'
    <3>1. b \in Blocks
      BY <1>1, <1>2, <1>3 DEF Visited
    <3>2. SoundAt(b, Len(fn.code[b]) + 1, pout[b])
      BY <1>4, <3>1 DEF PartitionsSound
    <3> QED
      BY <1>1, <1>2, <3>1, <3>2, BlockStays
  <2> QED
    BY <2>1 DEF PartitionsSound
<1>8. NumbersSmall'
  BY <1>1, <1>2 DEF NumbersSmall
<1>9. OperandsLed'
  <2>1. ASSUME NEW b \in Blocks, NEW k \in 1..Len(fn.code[b]), NEW n \in 1..Len(fn.code[b][k].opnd),
               NEW x, x = fn.code[b][k].opnd[n], NEW y, y = code[b][k].opnd[n], NEW z, z = code'[b][k].opnd[n],
               z # x
        PROVE  \E c \in pout[b] : x \in c.members /\ z = c.leader_
    <3>1. CASE z = y
      BY <1>4, <2>1, <3>1 DEF OperandsLed
    <3>2. CASE z # y
      <4>1. PICK v, l, b0 : v = r.member /\ l = r.leader_ /\ b0 = r.bb
        OBVIOUS
      <4>2. v \in Tracked /\ replace_use_with_when(v, l, b0)
        BY <1>5, <4>1 DEF IInv
      <4>3. y = v /\ z = l /\ UserIn(b0, Op(b, k))
        BY <2>1, <3>2, <4>2, ReplacedOperands
      <4>4. b = b0
        <5>1. InstrOf(code, Op(b, k)).op # "phi"
          <6>1. code[b][k].op = fn.code[b][k].op
            BY <1>1, ShapeLengths
          <6>2. fn.code[b][k].op # "phi"
            BY <1>1, PlainInstr
          <6> QED
            BY <6>1, <6>2 DEF InstrOf, Op
        <5> QED
          BY <4>3, <5>1 DEF UserIn, Op
      <4>5. PICK c \in pout[b] : v \in c.members \ {c.leader_} /\ l = c.leader_
        BY <1>4, <4>1, <4>4 DEF TodoLed
      <4>6. CASE y = x
        BY <4>3, <4>5, <4>6
      <4>7. CASE y # x
        <5>1. PICK d \in pout[b] : x \in d.members /\ y = d.leader_
          BY <1>4, <2>1, <4>7 DEF OperandsLed
        <5>2. Good(pout[b]) /\ Founded(d)
          BY <1>4 DEF PartitionsSound, SoundAt
        <5>3. ~IsConstant(v)
          BY <1>1, <4>5, <5>2, NotHere DEF Good, IsClass
        <5>4. v \in d.members /\ v = d.leader_
          BY <4>3, <5>1, <5>2, <5>3 DEF Founded
        <5>5. c = d
          BY <4>5, <5>2, <5>4 DEF Good, Apart
        <5> QED
          BY <4>5, <5>4, <5>5
      <4> QED
        BY <4>6, <4>7
    <3> QED
      BY <3>1, <3>2
  <2>2. \A b \in Blocks : \A k \in 1..Len(fn.code[b]) : \A n \in 1..Len(fn.code[b][k].opnd) :
          code'[b][k].opnd[n] # fn.code[b][k].opnd[n] =>
            \E c \in pout[b] : fn.code[b][k].opnd[n] \in c.members /\ code'[b][k].opnd[n] = c.leader_
    BY <2>1
  <2> QED
    BY <1>2, <1>3, <2>2 DEF OperandsLed
<1> QED
  BY <1>1, <1>2, <1>6, <1>7, <1>8, <1>9 DEF PassInv

LEMMA OtherPasses ==
  ASSUME IInv, PassInv, Finish \/ UNCHANGED vars
  PROVE  PassInv'
<1>1. /\ fn' = fn /\ code' = code /\ pout' = pout /\ todo' = todo /\ bb' = bb /\ ok' = ok
      /\ next_value_number' = next_value_number /\ cur_next_value_number' = cur_next_value_number
      /\ phase' = phase \/ (phase = "replace" /\ phase' = "done" /\ ok)
      /\ fn \in Functions
  BY DEF Finish, vars, ssaVars, irVars, partVars, ctlVars, IInv
<1>2. Plain' = Plain /\ Blocks' = Blocks /\ \A b : MaxNumber(b)' = MaxNumber(b)
  BY <1>1, PlainStays
<1> SUFFICES ASSUME Plain PROVE PassInv'
  BY <1>2 DEF PassInv
<1>3. fn \in Functions /\ OperandsLed /\ TodoLed /\ (ok => PartitionsSound /\ NumbersSmall)
      /\ phase \in {"init", "iterate", "replace", "done"} /\ (phase = "done" => ok)
  BY DEF PassInv, IInv
<1>4. (phase \in {"init", "iterate", "replace", "done"} /\ (phase = "done" => ok))'
  BY <1>1, <1>3
<1>5. OperandsLed'
  BY <1>1, <1>2, <1>3 DEF OperandsLed
<1>6. TodoLed'
  BY <1>1, <1>2, <1>3 DEF TodoLed
<1>7. ASSUME ok PROVE PartitionsSound'
  <2>1. ASSUME NEW b \in Visited' PROVE SoundAt(b, Len(fn.code[b]) + 1, pout[b])'
    <3>1. b \in Visited /\ b \in Blocks
      BY <1>1, <1>2 DEF Visited
    <3>2. SoundAt(b, Len(fn.code[b]) + 1, pout[b])
      BY <1>3, <1>7, <3>1 DEF PartitionsSound
    <3> QED
      BY <1>1, <1>3, <3>1, <3>2, BlockStays
  <2> QED
    BY <2>1 DEF PartitionsSound
<1>8. ASSUME ok PROVE NumbersSmall'
  BY <1>1, <1>2, <1>3, <1>8 DEF NumbersSmall
<1> QED
  BY <1>1, <1>4, <1>5, <1>6, <1>7, <1>8 DEF PassInv

LEMMA InitPasses ==
  ASSUME Init
  PROVE  PassInv
<1>1. phase = "init" /\ bb = 1 /\ next_value_number = 1 /\ todo = {} /\ code = fn.code
  BY DEF Init
<1>2. Visited = {}
  BY <1>1 DEF Visited
<1> QED
  BY <1>1, <1>2 DEF PassInv, PartitionsSound, NumbersSmall, OperandsLed, TodoLed

-----------------------------------------------------------------------------
(* The partitions are exact in every pass.                                 *)

LEMMA CompleteStays ==
  ASSUME fn' = fn, NEW b, NEW k, NEW P
  PROVE  Complete(b, k, P)' <=> Complete(b, k, P)
<1>1. Computed' = Computed /\ Blocks' = Blocks /\ \A c : Preds(c)' = Preds(c)
  BY PlainStays
<1>2. \A v : Dominates(v[2], b)' <=> Dominates(v[2], b)
  BY <1>1 DEF Dominates
<1> QED
  BY <1>1, <1>2 DEF Complete

LEMMA ExactStays ==
  ASSUME fn' = fn, NEW b, pout'[b] = pout[b], Unique(pout[b]), Complete(b, Len(fn.code[b]) + 1, pout[b])
  PROVE  Unique(pout[b])' /\ Complete(b, Len(fn.code[b]) + 1, pout[b])'
<1>1. PICK Q, k : Q = pout[b] /\ k = Len(fn.code[b]) + 1
  OBVIOUS
<1>2. Complete(b, k, Q)'
  BY <1>1, CompleteStays
<1>3. pout'[b] = Q /\ (Len(fn.code[b]) + 1)' = k
  BY <1>1
<1>4. Unique(Q)'
  BY <1>1 DEF Unique
<1> QED
  BY <1>2, <1>3, <1>4

LEMMA BelowMore ==
  ASSUME NEW P, Good(P), NEW n \in Nat, NEW m \in Nat, n <= m, Below(P, n)
  PROVE  Below(P, m)
<1>1. \A c \in P : c.index \in Nat /\ c.index < n
  BY DEF Good, IsClass, Below
<1> QED
  BY <1>1 DEF Below

LEMMA InitBlockExact ==
  ASSUME IInv, PassInv, PartitionsExact, InitBlock, Plain, ok'
  PROVE  PartitionsExact'
<1>1. /\ phase = "init" /\ ok /\ bb \in Blocks /\ bb \in Nat /\ code = fn.code /\ fn \in Functions
      /\ pout = [b \in Blocks |-> pout[b]]
  BY DEF IInv, InitBlock, Blocks
<1>2. fn' = fn /\ phase' = phase /\ bb' = bb + 1
  BY DEF InitBlock, ssaVars
<1>3. Blocks' = Blocks
  BY <1>2, PlainStays
<1>4. NumbersSmall
  BY <1>1 DEF PassInv
<1>5. Visited' = {1} /\ 1 \in Blocks
  <2>1. 1 \in Blocks
    BY <1>1 DEF Blocks
  <2>2. Visited' = {b \in Blocks : b = 1 /\ bb + 1 > 1}
    BY <1>1, <1>2, <1>3 DEF Visited
  <2>3. bb + 1 > 1
    BY <1>1 DEF Blocks
  <2> QED
    BY <2>1, <2>2, <2>3
<1>6. CASE bb = 1
  <2>1. PICK s0 : s0 = [P |-> GivenClasses(1), n |-> 1 + Len(Given), ok |-> TRUE]
    OBVIOUS
  <2>2. PICK st : st = Process(1, s0)
    OBVIOUS
  <2>3. next_value_number = 1
    BY <1>1, <1>4, <1>6 DEF NumbersSmall
  <2>4. SoundAt(1, 1, GivenClasses(1)) /\ Preds(1) = <<>> /\ ExactAt(1, 1, GivenClasses(1), 1 + Len(Given))
    BY <1>1, <1>5, SoundGiven
  <2>5. pout' = [pout EXCEPT ![1] = st.P] /\ next_value_number' = st.n /\ ok' = st.ok
    BY <1>6, <2>1, <2>2, <2>3, <2>4 DEF InitBlock
  <2>6. GoodState(s0) /\ s0.P = GivenClasses(1) /\ s0.n = 1 + Len(Given)
    BY <1>1, <2>1, GoodGiven, GivenType DEF GoodState
  <2>7. SoundBefore(1)
    BY DEF SoundBefore
  <2>8. PICK m \in Nat : m = 1 + Len(Given)
    BY <1>1, GivenType
  <2>9. m + SmallNumber < TopIndex /\ s0.n <= m
    BY <2>6, <2>8 DEF Plain, SmallNumber, TopIndex
  <2>10. SoundAt(1, 1, s0.P) /\ Process(1, s0).ok /\ ExactAt(1, 1, s0.P, s0.n)
    BY <2>2, <2>4, <2>5, <2>6
  <2>11. ExactAt(1, Len(fn.code[1]) + 1, Process(1, s0).P, Process(1, s0).n)
    BY <1>1, <1>5, <2>6, <2>7, <2>9, <2>10, SoundProcess
  <2>12. PICK Q, k, n : Q = st.P /\ k = Len(fn.code[1]) + 1 /\ n = st.n
    OBVIOUS
  <2>13. pout'[1] = Q /\ next_value_number' = n /\ (Len(fn.code[1]) + 1)' = k
    BY <1>1, <1>2, <1>5, <2>5, <2>12
  <2>14. Unique(Q) /\ Complete(1, k, Q) /\ Below(Q, n)
    BY <2>2, <2>11, <2>12 DEF ExactAt
  <2>15. Complete(1, k, Q)'
    BY <1>2, <2>14, CompleteStays
  <2>16. Unique(pout[1])' /\ Complete(1, Len(fn.code[1]) + 1, pout[1])' /\ Below(pout[1], next_value_number)'
    BY <2>13, <2>14, <2>15 DEF Unique, Below
  <2> QED
    BY <1>1, <1>2, <1>5, <2>16 DEF PartitionsExact
<1>7. CASE bb # 1
  <2>1. Preds(bb) # <<>>
    BY <1>1, <1>7, PlainPreds
  <2>2. pout' = [pout EXCEPT ![bb] = Top] /\ next_value_number' = next_value_number
    BY <2>1 DEF InitBlock
  <2>3. pout'[1] = pout[1]
    BY <1>1, <1>5, <1>7, <2>2
  <2>4. 1 \in Visited
    BY <1>1, <1>5, <1>7 DEF Visited, Blocks
  <2>5. Unique(pout[1]) /\ Complete(1, Len(fn.code[1]) + 1, pout[1]) /\ Below(pout[1], next_value_number)
    BY <1>1, <2>4 DEF PartitionsExact
  <2>6. Unique(pout[1])' /\ Complete(1, Len(fn.code[1]) + 1, pout[1])'
    BY <1>2, <2>3, <2>5, ExactStays
  <2>7. Below(pout[1], next_value_number)'
    BY <2>2, <2>3, <2>5 DEF Below
  <2> QED
    BY <1>1, <1>2, <1>5, <2>6, <2>7 DEF PartitionsExact
<1> QED
  BY <1>6, <1>7

LEMMA StartPassExact ==
  ASSUME IInv, PartitionsExact, StartPass, Plain
  PROVE  PartitionsExact'
<1>1. /\ phase \in {"init", "iterate"} /\ fn \in Functions /\ bb \in Nat \ {0} /\ bb > Len(fn.code)
  BY DEF IInv, StartPass
<1>2. /\ fn' = fn /\ pout' = pout /\ phase' = "iterate" /\ bb' = 1
      /\ next_value_number' = cur_next_value_number'
      /\ cur_next_value_number' = IF phase = "init" THEN next_value_number ELSE cur_next_value_number
  BY DEF StartPass, ssaVars
<1>3. Blocks' = Blocks
  BY <1>2, PlainStays
<1>4. ASSUME NEW b \in Visited' PROVE b \in Blocks /\ b = 1
  <2>1. \A n \in Blocks : n \in Nat /\ ~(n < 1)
    BY <1>1, CodeType DEF Blocks
  <2> QED
    BY <1>2, <1>3, <2>1 DEF Visited
<1>5. 1 \in Blocks => 1 \in Visited
  <2>1. 1 \in Blocks => bb > 1
    BY <1>1, CodeType DEF Blocks
  <2> QED
    BY <1>1, <2>1 DEF Visited
<1>6. SUFFICES ASSUME 1 \in Blocks
      PROVE  /\ Unique(pout[1])' /\ Complete(1, Len(fn.code[1]) + 1, pout[1])'
             /\ Below(pout[1], next_value_number)' /\ Below(pout[1], cur_next_value_number)'
  BY <1>4 DEF PartitionsExact
<1>7. /\ Unique(pout[1]) /\ Complete(1, Len(fn.code[1]) + 1, pout[1])
      /\ Below(pout[1], IF phase = "init" THEN next_value_number ELSE cur_next_value_number)
  BY <1>1, <1>5, <1>6 DEF PartitionsExact
<1>8. Unique(pout[1])' /\ Complete(1, Len(fn.code[1]) + 1, pout[1])'
  BY <1>2, <1>7, ExactStays
<1> QED
  BY <1>2, <1>7, <1>8 DEF Below

LEMMA VisitExact ==
  ASSUME IInv, IInv', PassInv, PartitionsExact, Visit, Plain, ok'
  PROVE  PartitionsExact'
<1>1. /\ phase = "iterate" /\ ok /\ bb \in Blocks /\ code = fn.code /\ fn \in Functions
      /\ pout = [b \in Blocks |-> pout[b]] /\ next_value_number \in Nat /\ next_value_number' \in Nat
  <2>1. phase = "iterate" /\ bb <= Len(fn.code) /\ ok
    BY DEF Visit
  <2>2. bb \in Nat \ {0} /\ fn \in Functions
    BY DEF IInv
  <2>3. bb \in Blocks
    BY <2>1, <2>2, CodeType DEF Blocks
  <2> QED
    BY <2>1, <2>2, <2>3 DEF IInv
<1>2. fn' = fn /\ phase' = phase /\ bb' = bb + 1 /\ cur_next_value_number' = cur_next_value_number
  BY DEF Visit, ssaVars
<1>3. Blocks' = Blocks
  BY <1>2, PlainStays
<1>4. PartitionsSound /\ NumbersSmall
  BY <1>1 DEF PassInv
<1>5. bb \in Nat \ {0} /\ (\A b \in Blocks : b \in Nat /\ b > 0) /\ \A b \in Blocks : Good(pout[b])
  <2>1. \A b \in Blocks : b \in Nat /\ b > 0
    BY <1>1, CodeType DEF Blocks
  <2>2. bb \in Nat \ {0} /\ \A b \in Blocks : Good(pout[b])
    BY DEF IInv
  <2> QED
    BY <2>1, <2>2
<1>6. ASSUME NEW b \in Blocks, b < bb \/ b = 1
      PROVE  /\ SoundAt(b, Len(fn.code[b]) + 1, pout[b])
             /\ Unique(pout[b]) /\ Complete(b, Len(fn.code[b]) + 1, pout[b]) /\ Below(pout[b], next_value_number)
             /\ b = 1 => Below(pout[b], cur_next_value_number)
  <2>1. b \in Visited
    BY <1>1, <1>6 DEF Visited
  <2> QED
    BY <1>1, <1>4, <2>1 DEF PartitionsSound, PartitionsExact
<1>7. ASSUME NEW b \in Blocks, b < bb \/ b = 1, pout'[b] = pout[b], next_value_number <= next_value_number'
      PROVE  /\ Unique(pout[b])' /\ Complete(b, Len(fn.code[b]) + 1, pout[b])'
             /\ Below(pout[b], next_value_number)' /\ (b = 1 => Below(pout[b], cur_next_value_number))'
  <2>1. Unique(pout[b])' /\ Complete(b, Len(fn.code[b]) + 1, pout[b])'
    BY <1>2, <1>6, <1>7, ExactStays
  <2>2. Below(pout[b], next_value_number')
    BY <1>1, <1>5, <1>6, <1>7, BelowMore
  <2> QED
    BY <1>2, <1>6, <1>7, <2>1, <2>2 DEF Below
<1>8. CASE bb = 1
  <2>1. Len(Preds(bb)) \notin {1, 2}
    BY <1>1, <1>8, PlainPreds
  <2>2. pout' = pout /\ next_value_number' = next_value_number
    BY <2>1 DEF Visit
  <2>3. \A b \in Visited' : b \in Blocks /\ b = 1
    BY <1>1, <1>2, <1>3, <1>5, <1>8 DEF Visited
  <2>4. next_value_number <= next_value_number'
    BY <1>1, <2>2
  <2> QED
    BY <1>7, <2>2, <2>3, <2>4 DEF PartitionsExact
<1>9. CASE bb # 1
  <2>1. Len(Preds(bb)) \in {1, 2}
    BY <1>1, <1>9, PlainPreds
  <2>2. PICK s0 : s0 = PartitionIn(bb, next_value_number)
    OBVIOUS
  <2>3. PICK st : st = Process(bb, s0)
    OBVIOUS
  <2>4. pout' = [pout EXCEPT ![bb] = st.P] /\ next_value_number' = st.n /\ ok' = st.ok
    BY <2>1, <2>2, <2>3 DEF Visit
  <2>5. \A q \in 1..(bb-1) : q \in Blocks /\ q < bb
    BY <1>1, CodeType DEF Blocks
  <2>6. SoundBefore(bb) /\ \A q \in 1..(bb-1) : ExactEnd(q, next_value_number)
    BY <1>6, <2>5 DEF SoundBefore, ExactEnd, ExactAt
  <2>7. s0.ok
    <3>1. GoodState(s0)
      BY <1>1, <2>1, <2>2, GoodPartitionIn DEF IInv
    <3>2. transferFunction(bb, s0).ok
      BY <1>1, <2>3, <2>4, NoCopies DEF Process
    <3> QED
      BY <1>1, <3>1, <3>2, TransferOk
  <2>8. GoodState(s0) /\ s0.n = next_value_number /\ SoundAt(bb, 1, s0.P) /\ ExactAt(bb, 1, s0.P, s0.n)
    BY <1>1, <2>1, <2>2, <2>6, <2>7, SoundEntry
  <2>9. PICK m \in Nat : m = MaxNumber(bb) /\ m + SmallNumber < TopIndex /\ s0.n <= m
    BY <1>1, <1>4, <2>8, NumbersLeft DEF NumbersSmall
  <2>10. s0.n <= st.n /\ ExactAt(bb, Len(fn.code[bb]) + 1, st.P, st.n)
    BY <1>1, <2>3, <2>4, <2>6, <2>8, <2>9, SoundProcess
  <2>11. next_value_number <= next_value_number'
    BY <2>4, <2>8, <2>10
  <2>12. PICK Q, k, n : Q = st.P /\ k = Len(fn.code[bb]) + 1 /\ n = st.n
    OBVIOUS
  <2>13. pout' = [b \in Blocks |-> IF b = bb THEN Q ELSE pout[b]]
    BY <1>1, <2>4, <2>12
  <2>14. PICK c \in Blocks : c = bb
    BY <1>1
  <2>15. pout'[c] = Q /\ next_value_number' = n /\ (Len(fn.code[c]) + 1)' = k
    BY <1>2, <2>4, <2>12, <2>13, <2>14
  <2>16. Unique(Q) /\ Complete(c, k, Q) /\ Below(Q, n)
    BY <2>10, <2>12, <2>14 DEF ExactAt
  <2>17. Complete(c, k, Q)'
    BY <1>2, <2>16, CompleteStays
  <2>18. Unique(pout[c])' /\ Complete(c, Len(fn.code[c]) + 1, pout[c])' /\ Below(pout[c], next_value_number)'
    BY <2>15, <2>16, <2>17 DEF Unique, Below
  <2>19. ASSUME NEW b \in Visited'
         PROVE  /\ Unique(pout[b])' /\ Complete(b, Len(fn.code[b]) + 1, pout[b])'
                /\ Below(pout[b], next_value_number)' /\ (b = 1 => Below(pout[b], cur_next_value_number))'
    <3>1. b \in Blocks /\ (b = 1 \/ b < bb + 1)
      BY <1>1, <1>2, <1>3 DEF Visited
    <3>2. CASE b = bb
      BY <1>9, <2>14, <2>18, <3>2
    <3>3. CASE b # bb
      <4>1. b < bb /\ pout'[b] = pout[b]
        BY <1>5, <1>9, <2>13, <3>1, <3>3
      <4> QED
        BY <1>7, <2>11, <3>1, <4>1
    <3> QED
      BY <3>2, <3>3
  <2> QED
    BY <2>19 DEF PartitionsExact
<1> QED
  BY <1>8, <1>9

\* The other steps leave the partitions alone.
LEMMA OtherExact ==
  ASSUME IInv, PartitionsExact, Plain, StartReplace \/ Replace \/ Finish \/ UNCHANGED vars
  PROVE  PartitionsExact'
<1>1. /\ fn' = fn /\ pout' = pout /\ bb' = bb /\ fn \in Functions /\ bb \in Nat \ {0}
      /\ next_value_number' = next_value_number /\ cur_next_value_number' = cur_next_value_number
      /\ \/ phase = "iterate" /\ bb > Len(fn.code) /\ phase' = "replace"
         \/ phase = "replace" /\ phase' \in {"replace", "done"}
         \/ phase' = phase
  BY DEF StartReplace, Replace, Finish, vars, ssaVars, irVars, partVars, ctlVars, IInv
<1>2. Blocks' = Blocks
  BY <1>1, PlainStays
<1>3. ASSUME NEW b \in Visited'
      PROVE  /\ Unique(pout[b])' /\ Complete(b, Len(fn.code[b]) + 1, pout[b])'
             /\ (phase \in {"init", "iterate"} => Below(pout[b], next_value_number))'
             /\ (phase = "iterate" /\ b = 1 => Below(pout[b], cur_next_value_number))'
  <2>1. b \in Visited
    <3>1. \A n \in Blocks : bb > Len(fn.code) => n < bb
      BY <1>1, CodeType DEF Blocks
    <3> QED
      BY <1>1, <1>2, <3>1 DEF Visited
  <2>2. /\ Unique(pout[b]) /\ Complete(b, Len(fn.code[b]) + 1, pout[b])
        /\ phase \in {"init", "iterate"} => Below(pout[b], next_value_number)
        /\ phase = "iterate" /\ b = 1 => Below(pout[b], cur_next_value_number)
    BY <2>1 DEF PartitionsExact
  <2>3. Unique(pout[b])' /\ Complete(b, Len(fn.code[b]) + 1, pout[b])'
    BY <1>1, <2>2, ExactStays
  <2> QED
    BY <1>1, <2>2, <2>3 DEF Below
<1> QED
  BY <1>3 DEF PartitionsExact

-----------------------------------------------------------------------------
(* The replacements leave no use behind.                                   *)

LEMMA ReplacesHere ==
  ASSUME IInv, NEW v \in Tracked, NEW l, NEW b0, replace_use_with_when(v, l, b0),
         NEW b \in Blocks, NEW k \in 1..Len(fn.code[b]), NEW n \in 1..Len(fn.code[b][k].opnd)
  PROVE  l # Null /\ code[b][k].opnd[n] = v /\ UserIn(b0, Op(b, k)) => code'[b][k].opnd[n] = l
<1>0. SUFFICES ASSUME l # Null, code[b][k].opnd[n] = v, UserIn(b0, Op(b, k)) PROVE code'[b][k].opnd[n] = l
  OBVIOUS
<1>1. fn \in Functions /\ SameShape(code) /\ use_list = [w \in Tracked |-> SetToBag(UsesOf(code, w))]
  BY DEF IInv
<1>2. DOMAIN use_list[v] = UsesOf(code, v)
  BY <1>1 DEF SetToBag
<1>3. PICK uses : uses = DOMAIN UsesFrom(v, b0) /\ uses = {u \in UsesOf(code, v) : UserIn(b0, u[1])}
  BY <1>2 DEF UsesFrom
<1>4. code' = WithOperand(uses, l)
  BY <1>0, <1>3 DEF replace_use_with_when
<1>5. PICK u : u = <<Op(b, k), n>>
  OBVIOUS
<1>6. u \in UsesOf(code, v) /\ u[1] = Op(b, k)
  BY <1>0, <1>1, <1>5, UsesAre
<1>7. <<Op(b, k), n>> \in uses
  BY <1>0, <1>3, <1>5, <1>6
<1>8. PICK c : c = WithOperand(uses, l)
  OBVIOUS
<1>9. c[b][k].opnd[n] = l
  BY <1>1, <1>7, <1>8, WithOperandIs
<1> QED
  BY <1>4, <1>8, <1>9

LEMMA LeaderNotNull ==
  ASSUME fn \in Functions, NEW P, Good(P), NEW c \in P, Founded(c)
  PROVE  c.leader_ # Null
<1>1. CASE IsConstant(c.leader_)
  BY <1>1 DEF IsConstant, Null
<1>2. CASE ~IsConstant(c.leader_)
  <2>1. c.leader_ \in Here
    BY <1>2 DEF Founded, Good, IsClass
  <2> QED
    BY <2>1, NotHere
<1> QED
  BY <1>1, <1>2

\* Without phis a user is in its own block.
LEMMA UserHere ==
  ASSUME IInv, Plain, NEW b \in Blocks, NEW k \in 1..Len(fn.code[b]), NEW b0
  PROVE  UserIn(b0, Op(b, k)) <=> b = b0
<1>1. fn \in Functions /\ SameShape(code)
  BY DEF IInv
<1>2. code[b][k].op = fn.code[b][k].op
  BY <1>1, ShapeLengths
<1>3. fn.code[b][k].op # "phi"
  BY <1>1, PlainInstr
<1>4. InstrOf(code, Op(b, k)).op # "phi" /\ Op(b, k)[2] = b
  BY <1>2, <1>3 DEF InstrOf, Op
<1> QED
  BY <1>4 DEF UserIn

LEMMA StartReplaceUses ==
  ASSUME IInv, StartReplace, Plain
  PROVE  UsesReplaced'
<1>1. fn \in Functions /\ code = fn.code /\ \A b \in Blocks : Good(pout[b])
  BY DEF IInv, StartReplace
<1>2. fn' = fn /\ code' = code /\ pout' = pout /\ todo' = Replacements
  BY DEF StartReplace, ssaVars, irVars, partVars
<1>3. Blocks' = Blocks
  BY <1>2, PlainStays
<1>4. ASSUME NEW b \in Blocks, NEW c \in pout[b], NEW x \in c.members \ {c.leader_}
      PROVE  Replacement(b, c, x) \in Replacements
  <2>1. x \in Here
    BY <1>1 DEF Good, IsClass
  <2>2. ~IsPhi(x)
    <3>1. SUFFICES ASSUME x[1] = "op" PROVE InstrOf(code, x).op # "phi"
      BY DEF IsPhi
    <3>2. PICK d \in Blocks : \E j \in 1..Len(fn.code[d]) : x = Op(d, j) /\ InstrOf(fn.code, x) = fn.code[d][j]
      BY <1>1, <2>1, <3>1, OpHere
    <3>3. PICK j \in 1..Len(fn.code[d]) : InstrOf(fn.code, x) = fn.code[d][j]
      BY <3>2
    <3>4. fn.code[d][j].op # "phi"
      BY <1>1, PlainInstr
    <3> QED
      BY <1>1, <3>3, <3>4
  <2>3. x \in Replaced(c)
    BY <2>2 DEF Replaced
  <2>4. Replacement(b, c, x) \in {Replacement(b, c, v) : v \in Replaced(c)}
    BY <2>3
  <2>5. Replacement(b, c, x) \in UNION {{Replacement(b, cc, v) : v \in Replaced(cc)} : cc \in pout[b]}
    BY <2>4
  <2> QED
    BY <2>5 DEF Replacements
<1>5. \A b \in Blocks : \A k \in 1..Len(fn.code[b]) : \A n \in 1..Len(fn.code[b][k].opnd) :
        \A c \in pout[b] :
          code[b][k].opnd[n] \in c.members \ {c.leader_} => Replacement(b, c, code[b][k].opnd[n]) \in Replacements
  BY <1>4
<1> QED
  BY <1>2, <1>3, <1>5 DEF UsesReplaced, Replacement

LEMMA ReplaceUses ==
  ASSUME IInv, PassInv, UsesReplaced, Replace, Plain
  PROVE  UsesReplaced'
<1>1. phase = "replace" /\ ok /\ fn \in Functions /\ SameShape(code)
  BY DEF IInv, Replace
<1>2. fn' = fn /\ pout' = pout /\ phase' = phase
  BY DEF Replace, ssaVars, partVars
<1>3. Blocks' = Blocks
  BY <1>2, PlainStays
<1>4. PartitionsSound /\ TodoLed /\ Visited = Blocks
  BY <1>1 DEF PassInv, Visited
<1>5. PICK r \in todo : replace_use_with_when(r.member, r.leader_, r.bb) /\ todo' = todo \ {r}
  BY DEF Replace
<1>6. PICK v, l, b0 : v = r.member /\ l = r.leader_ /\ b0 = r.bb
  OBVIOUS
<1>7. v \in Tracked /\ v # l /\ replace_use_with_when(v, l, b0) /\ b0 \in Blocks
  BY <1>4, <1>5, <1>6 DEF IInv, TodoLed
<1>8. PICK d \in pout[b0] : v \in d.members \ {d.leader_} /\ l = d.leader_
  BY <1>4, <1>5, <1>6 DEF TodoLed
<1>9. \A b \in Blocks : Good(pout[b]) /\ \A c \in pout[b] : Founded(c)
  BY <1>4 DEF PartitionsSound, SoundAt
<1>10. l # Null
  BY <1>1, <1>7, <1>8, <1>9, LeaderNotNull
<1>11. ASSUME NEW b \in Blocks, NEW k \in 1..Len(fn.code[b]), NEW n \in 1..Len(fn.code[b][k].opnd),
              NEW y, y = code[b][k].opnd[n], NEW z, z = code'[b][k].opnd[n], NEW c \in pout[b],
              z \in c.members \ {c.leader_}
       PROVE  Replacement(b, c, z) \in todo \ {r}
  <2>1. CASE z # y
    <3>1. y = v /\ z = l /\ UserIn(b0, Op(b, k))
      BY <1>7, <1>11, <2>1, ReplacedOperands
    <3>2. b = b0
      BY <1>1, <3>1, UserHere
    <3>3. ~IsConstant(z)
      BY <1>1, <1>9, <1>11, NotHere DEF Good, IsClass
    <3>4. d \in pout[b] /\ z \in d.members /\ z = d.leader_
      BY <1>8, <1>9, <3>1, <3>2, <3>3 DEF Founded
    <3>5. c = d
      BY <1>9, <1>11, <3>4 DEF Good, Apart
    <3> QED
      BY <1>11, <3>4, <3>5
  <2>2. CASE z = y
    <3>1. Replacement(b, c, y) \in todo
      BY <1>1, <1>11, <2>2 DEF UsesReplaced
    <3>2. ASSUME Replacement(b, c, y) = r PROVE FALSE
      <4>1. b = b0 /\ y = v
        BY <1>6, <3>2 DEF Replacement
      <4>2. UserIn(b0, Op(b, k))
        BY <1>1, <4>1, UserHere
      <4>3. code[b][k].opnd[n] = v
        BY <1>11, <4>1
      <4>4. code'[b][k].opnd[n] = l
        BY <1>7, <1>10, <4>2, <4>3, ReplacesHere
      <4> QED
        BY <1>7, <1>11, <2>2, <4>1, <4>4
    <3> QED
      BY <2>2, <3>1, <3>2
  <2> QED
    BY <2>1, <2>2
<1>12. \A b \in Blocks : \A k \in 1..Len(fn.code[b]) : \A n \in 1..Len(fn.code[b][k].opnd) :
         \A c \in pout[b] :
           code'[b][k].opnd[n] \in c.members \ {c.leader_} => Replacement(b, c, code'[b][k].opnd[n]) \in todo \ {r}
  BY <1>11
<1> QED
  BY <1>2, <1>3, <1>5, <1>12 DEF UsesReplaced, Replacement

LEMMA OtherUses ==
  ASSUME UsesReplaced, PassInv, Plain, InitBlock \/ StartPass \/ Visit \/ Finish \/ UNCHANGED vars
  PROVE  UsesReplaced'
<1>1. CASE InitBlock \/ StartPass \/ Visit
  <2>1. phase' \in {"init", "iterate"}
    BY <1>1 DEF InitBlock, StartPass, Visit
  <2> QED
    BY <2>1 DEF UsesReplaced
<1>2. CASE Finish \/ UNCHANGED vars
  <2>1. /\ fn' = fn /\ code' = code /\ pout' = pout /\ todo' = todo
        /\ phase' \in {"replace", "done"} => phase \in {"replace", "done"}
    BY <1>2 DEF Finish, vars, ssaVars, irVars, partVars, ctlVars
  <2>2. Blocks' = Blocks
    BY <2>1, PlainStays
  <2> QED
    BY <2>1, <2>2 DEF UsesReplaced, Replacement
<1> QED
  BY <1>1, <1>2

LEMMA ExactNext ==
  ASSUME IInv, IInv', PassInv, ExactInv, Next \/ UNCHANGED vars
  PROVE  ExactInv'
<1>1. fn' = fn
  BY DEF Next, InitBlock, StartPass, Visit, StartReplace, Replace, Finish, vars, ssaVars
<1>2. Plain' = Plain
  BY <1>1, PlainStays
<1>3. SUFFICES ASSUME Plain PROVE (ok' => PartitionsExact') /\ UsesReplaced' /\ (phase' = "done" => todo' = {})
  BY <1>2 DEF ExactInv
<1>4. UsesReplaced /\ (ok => PartitionsExact) /\ (phase = "done" => todo = {})
  BY <1>3 DEF ExactInv
<1>5. ok' => ok
  BY DEF Next, InitBlock, StartPass, Visit, StartReplace, Replace, Finish, vars, ctlVars
<1>6. UsesReplaced'
  BY <1>3, <1>4, StartReplaceUses, ReplaceUses, OtherUses DEF Next
<1>7. ASSUME ok' PROVE PartitionsExact'
  BY <1>3, <1>4, <1>5, <1>7, InitBlockExact, StartPassExact, VisitExact, OtherExact DEF Next
<1>8. phase' = "done" => todo' = {}
  BY <1>4 DEF Next, InitBlock, StartPass, Visit, StartReplace, Replace, Finish, vars, ctlVars
<1> QED
  BY <1>6, <1>7, <1>8

LEMMA ExactInit ==
  ASSUME Init
  PROVE  ExactInv
<1>1. phase = "init" /\ bb = 1
  BY DEF Init
<1>2. Visited = {}
  BY <1>1 DEF Visited
<1> QED
  BY <1>1, <1>2 DEF ExactInv, PartitionsExact, UsesReplaced

-----------------------------------------------------------------------------
(* The two programs.                                                       *)

LEMMA NotOp ==
  ASSUME NEW regs, NEW v, v[1] # "op"
  PROVE  Contents(regs, v) = v
BY DEF Contents

\* A class led by a constant holds what its expression yields.
LEMMA ConstMeans ==
  ASSUME NEW c, Founded(c), IsConstant(c.leader_), NEW regs
  PROVE  Contents(regs, c.leader_) = Meaning(regs, c.value_expr)
<1>1. /\ \A n \in DOMAIN Args(c.value_expr) : IsConstant(Args(c.value_expr)[n])
      /\ Result(Operation(c.value_expr), Args(c.value_expr)) = c.leader_
  BY DEF Founded
<1>2. PICK a : a = Args(c.value_expr)
  OBVIOUS
<1>3. a = [n \in DOMAIN a |-> a[n]]
  BY <1>2 DEF Args
<1>4. \A w : IsConstant(w) => Contents(regs, w) = w
  BY DEF IsConstant, Contents
<1>5. [n \in DOMAIN a |-> Contents(regs, a[n])] = a
  <2>1. \A n \in DOMAIN a : Contents(regs, a[n]) = a[n]
    BY <1>1, <1>2, <1>4
  <2> QED
    BY <1>3, <2>1
<1> QED
  BY <1>1, <1>2, <1>4, <1>5 DEF Meaning

\* Results on the same contents are the same.
LEMMA MeaningDepends ==
  ASSUME NEW regs, NEW regs1, NEW e, \A n \in DOMAIN Args(e) : Contents(regs1, Args(e)[n]) = Contents(regs, Args(e)[n])
  PROVE  Meaning(regs1, e) = Meaning(regs, e)
<1>1. [n \in DOMAIN Args(e) |-> Contents(regs1, Args(e)[n])] = [n \in DOMAIN Args(e) |-> Contents(regs, Args(e)[n])]
  OBVIOUS
<1> QED
  BY <1>1 DEF Meaning

\* The partition is sound at the end of b.
Ended(b) == SoundAt(b, Len(fn.code[b]) + 1, pout[b])

\* What the leader of an operand holds is what the operand holds.
LEMMA LeaderHolds ==
  ASSUME fn \in Functions, NEW b, Ended(b), NEW regs, NEW k, Means(regs, b, k), NEW v, Past(v, b, k)
  PROVE  Contents(regs, LeaderOf(pout[b], v)) = Contents(regs, v)
<1>1. SoundAt(b, Len(fn.code[b]) + 1, pout[b])
  BY DEF Ended
<1>2. CASE v \in AllMembers(pout[b])
  <2>1. PICK c \in pout[b] : v \in c.members
    BY <1>2 DEF AllMembers
  <2>2. LeaderOf(pout[b], v) = c.leader_
    BY <1>1, <2>1, SoundMembers
  <2>3. Contents(regs, v) = Contents(regs, c.leader_)
    BY <2>1 DEF Means
  <2> QED
    BY <2>2, <2>3
<1>3. CASE v \notin AllMembers(pout[b])
  BY <1>1, <1>3, SoundMembers
<1> QED
  BY <1>2, <1>3

\* The operands of an instruction are past when it is run.
LEMMA OperandPast ==
  ASSUME fn \in Functions, Plain, NEW b \in Blocks, NEW k \in 1..Len(fn.code[b]),
         NEW n \in 1..Len(fn.code[b][k].opnd)
  PROVE  LET x == fn.code[b][k].opnd[n]
         IN  /\ Past(x, b, k) /\ x # Undef /\ x[1] # "undef"
             /\ x[1] = "op" => x \in Computed /\ Dominates(x[2], b)
<1>1. PICK x : x = fn.code[b][k].opnd[n]
  OBVIOUS
<1>2. x[1] = "op" => x \in Computed /\ Precedes(x, Op(b, k)) /\ Dominates(x[2], b)
  BY <1>1, PlainInstr
<1>3. Past(x, b, k)
  <2>1. SUFFICES ASSUME x[1] = "op", x[2] = b PROVE x[3] < k
    BY DEF Past
  <2>2. b \in Nat
    BY CodeType DEF Blocks
  <2> QED
    BY <1>2, <2>1, <2>2 DEF Precedes, Op
<1>4. x \in Operand
  <2>1. fn.code[b][k] \in Instruction
    BY CodeType
  <2>2. fn.code[b][k].opnd \in Seq(Operand)
    BY <2>1 DEF Instruction
  <2> QED
    BY <1>1, <2>2
<1>5. x[1] # "undef" /\ x # Undef
  BY <1>4 DEF Operand, Undef
<1> QED
  BY <1>1, <1>2, <1>3, <1>5

\* An expression that tells an operation means its result.
LEMMA OperationMeans ==
  ASSUME fn \in Functions, Plain, NEW b \in Blocks, NEW k \in 1..Len(fn.code[b]), ~IsVoid(fn.code[b][k]),
         Ended(b), NEW regs, Means(regs, b, k),
         NEW e, e = valueExpr(pout[b], fn.code[b][k]), Tells(e)
  PROVE  Functional(fn.code[b][k]) /\ Meaning(regs, e) = Result(fn.code[b][k], Operands(fn.code, regs, Op(b, k)))
<1>1. PICK i : i = fn.code[b][k]
  OBVIOUS
<1>2. WellMade(i) /\ i.op # "phi" /\ Len(i.opnd) \in Nat /\ InstrOf(fn.code, Op(b, k)) = i /\ ~IsVoid(i)
  BY <1>1, PlainInstr
<1>3. /\ Functional(i) /\ DOMAIN Args(e) = 1..Len(i.opnd)
      /\ \A n \in 1..Len(i.opnd) : Args(e)[n] = LeaderOf(pout[b], i.opnd[n])
      /\ Operation(e).op = i.op /\ Operation(e).cmp = i.cmp
  BY <1>1, <1>2, ExpressionTells
<1>4. ASSUME NEW n \in 1..Len(i.opnd) PROVE Contents(regs, Args(e)[n]) = Contents(regs, i.opnd[n])
  <2>1. PICK x : x = i.opnd[n]
    OBVIOUS
  <2>2. Past(x, b, k)
    BY <1>1, <2>1, OperandPast
  <2>3. Contents(regs, LeaderOf(pout[b], x)) = Contents(regs, x)
    BY <2>2, LeaderHolds
  <2> QED
    BY <1>3, <2>1, <2>3
<1>5. DOMAIN i.opnd = 1..Len(i.opnd)
  <2>1. i \in Instruction
    BY <1>1, CodeType
  <2>2. i.opnd \in Seq(Operand)
    BY <2>1 DEF Instruction
  <2> QED
    BY <2>2
<1>6. Operands(fn.code, regs, Op(b, k)) = [n \in 1..Len(i.opnd) |-> Contents(regs, i.opnd[n])]
  BY <1>2, <1>5 DEF Operands
<1>7. [n \in DOMAIN Args(e) |-> Contents(regs, Args(e)[n])] = [n \in 1..Len(i.opnd) |-> Contents(regs, i.opnd[n])]
  BY <1>3, <1>4
<1> QED
  BY <1>1, <1>3, <1>6, <1>7, SameResult DEF Meaning

-----------------------------------------------------------------------------
(* The two programs at the same instruction.                               *)

\* The pass is over, on a plain function.
Final == IInv /\ PassInv /\ Plain /\ phase = "done"

LEMMA AtTheEnd ==
  ASSUME Final
  PROVE  /\ fn \in Functions /\ Plain /\ SameShape(code) /\ OperandsLed
         /\ \A b \in Blocks : Ended(b) /\ Good(pout[b])
<1>1. ok /\ PartitionsSound /\ OperandsLed
  BY DEF Final, PassInv
<1>2. Visited = Blocks
  BY DEF Visited, Final
<1>3. \A b \in Blocks : Ended(b)
  BY <1>1, <1>2 DEF PartitionsSound, Ended
<1> QED
  BY <1>1, <1>3 DEF Final, IInv

\* What is in a class is no label and no function.
LEMMA TagsHere ==
  ASSUME fn \in Functions, NEW v \in Here
  PROVE  v[1] \in {"op", "arg", "global"}
<1>1. CASE v \in Computed
  <2>1. PICK b \in 1..Len(fn.code) : \E k \in 1..Len(fn.code[b]) : v = Op(b, k)
    BY <1>1 DEF Computed, OpsOf
  <2> QED
    BY <2>1 DEF Op
<1>2. CASE v \in ToSet(Given)
  <2>1. PICK k \in DOMAIN Given : v = Given[k]
    BY <1>2 DEF ToSet
  <2> QED
    BY <2>1, GivenType
<1> QED
  BY <1>1, <1>2 DEF Here

\* Labels and callees are as they were.
LEMMA NamesStay ==
  ASSUME Final, NEW b \in Blocks, NEW k \in 1..Len(fn.code[b]), NEW n \in 1..Len(fn.code[b][k].opnd),
         fn.code[b][k].opnd[n][1] \in {"label", "func"}
  PROVE  code[b][k].opnd[n] = fn.code[b][k].opnd[n]
<1>1. SUFFICES ASSUME code[b][k].opnd[n] # fn.code[b][k].opnd[n] PROVE FALSE
  OBVIOUS
<1>2. PICK c \in pout[b] : fn.code[b][k].opnd[n] \in c.members
  BY <1>1, AtTheEnd DEF OperandsLed
<1>3. fn.code[b][k].opnd[n] \in Here
  BY <1>2, AtTheEnd DEF Good, IsClass
<1> QED
  BY <1>3, AtTheEnd, TagsHere

\* The instruction is the same, operands apart.
LEMMA SameKind ==
  ASSUME Final, NEW b \in Blocks, NEW k \in 1..Len(fn.code[b])
  PROVE  LET i == code[b][k]
             j == fn.code[b][k]
         IN  /\ InstrOf(code, Op(b, k)) = i /\ InstrOf(fn.code, Op(b, k)) = j
             /\ i.op = j.op /\ i.cmp = j.cmp /\ Len(i.opnd) = Len(j.opnd) /\ Len(i.opnd) \in Nat
             /\ DOMAIN i.opnd = 1..Len(i.opnd) /\ DOMAIN j.opnd = 1..Len(i.opnd)
             /\ TypeOf(i) = TypeOf(j) /\ (IsVoid(i) <=> IsVoid(j))
<1>1. PICK i, j : i = code[b][k] /\ j = fn.code[b][k]
  OBVIOUS
<1>2. InstrOf(code, Op(b, k)) = i /\ InstrOf(fn.code, Op(b, k)) = j
  BY <1>1 DEF InstrOf, Op
<1>3. fn \in Functions /\ Plain /\ SameShape(code)
  BY AtTheEnd
<1>4. i = Instr(j.op, j.cmp, i.opnd) /\ i.opnd = [n \in 1..Len(j.opnd) |-> i.opnd[n]]
  BY <1>1, <1>3 DEF SameShape
<1>5. i.op = j.op /\ i.cmp = j.cmp
  BY <1>4 DEF Instr
<1>6. WellMade(j) /\ Len(j.opnd) \in Nat
  BY <1>1, <1>3, PlainInstr
<1>7. Len(i.opnd) = Len(j.opnd)
  BY <1>1, <1>3, ShapeLengths
<1>8. DOMAIN i.opnd = 1..Len(j.opnd)
  BY <1>4
<1>9. DOMAIN j.opnd = 1..Len(j.opnd)
  <2>1. j \in Instruction
    BY <1>1, <1>3, CodeType
  <2>2. j.opnd \in Seq(Operand)
    BY <2>1 DEF Instruction
  <2> QED
    BY <2>2
<1>10. ASSUME j.op = "call" PROVE i.opnd[1] = j.opnd[1]
  <2>1. 1 \in 1..Len(j.opnd) /\ j.opnd[1][1] = "func"
    BY <1>6, <1>10 DEF WellMade
  <2> QED
    BY <1>1, <2>1, NamesStay
<1>11. TypeOf(i) = TypeOf(j) /\ (IsVoid(i) <=> IsVoid(j))
  BY <1>5, <1>10 DEF TypeOf, IsVoid
<1> QED
  BY <1>1, <1>2, <1>5, <1>6, <1>7, <1>8, <1>9, <1>11

\* Operands hold the same in both programs, and never nothing.
LEMMA OperandsAgree ==
  ASSUME Final, NEW b \in Blocks, NEW k \in 1..Len(fn.code[b]), NEW regs,
         Means(regs, b, k), Defined(regs, b, k)
  PROVE  /\ Operands(code, regs, Op(b, k)) = Operands(fn.code, regs, Op(b, k))
         /\ Undef \notin ToSet(Operands(fn.code, regs, Op(b, k)))
<1>1. PICK i, j : i = code[b][k] /\ j = fn.code[b][k]
  OBVIOUS
<1>2. /\ InstrOf(code, Op(b, k)) = i /\ InstrOf(fn.code, Op(b, k)) = j
      /\ DOMAIN i.opnd = 1..Len(j.opnd) /\ DOMAIN j.opnd = 1..Len(j.opnd)
  BY <1>1, SameKind
<1>3. fn \in Functions /\ Plain /\ OperandsLed
  BY AtTheEnd
<1>4. ASSUME NEW n \in 1..Len(j.opnd)
      PROVE  Contents(regs, i.opnd[n]) = Contents(regs, j.opnd[n]) /\ Contents(regs, j.opnd[n]) # Undef
  <2>1. PICK x : x = j.opnd[n]
    OBVIOUS
  <2>2. Past(x, b, k) /\ x # Undef /\ (x[1] = "op" => x \in Computed /\ Dominates(x[2], b))
    BY <1>1, <1>3, <2>1, OperandPast
  <2>3. Contents(regs, x) # Undef
    BY <2>2 DEF Contents, Defined
  <2>4. CASE i.opnd[n] = x
    BY <2>1, <2>3, <2>4
  <2>5. CASE i.opnd[n] # x
    <3>1. PICK c \in pout[b] : x \in c.members /\ i.opnd[n] = c.leader_
      BY <1>1, <1>3, <2>1, <2>5 DEF OperandsLed
    <3>2. Contents(regs, x) = Contents(regs, c.leader_)
      BY <2>2, <3>1 DEF Means
    <3> QED
      BY <2>1, <2>3, <3>1, <3>2
  <2> QED
    BY <2>4, <2>5
<1>5. Operands(code, regs, Op(b, k)) = [n \in 1..Len(j.opnd) |-> Contents(regs, i.opnd[n])]
  BY <1>2 DEF Operands
<1>6. Operands(fn.code, regs, Op(b, k)) = [n \in 1..Len(j.opnd) |-> Contents(regs, j.opnd[n])]
  BY <1>2 DEF Operands
<1>7. Undef \notin ToSet(Operands(fn.code, regs, Op(b, k)))
  BY <1>4, <1>6 DEF ToSet
<1> QED
  BY <1>4, <1>5, <1>6, <1>7

\* What comes before a member that is past is not the instruction just run.
LEMMA NotCurrent ==
  ASSUME fn \in Functions, NEW b \in Blocks, NEW k \in 1..Len(fn.code[b]), Ended(b),
         NEW c \in pout[b], NEW v \in c.members, v[1] = "op", Past(v, b, k + 1),
         NEW w, Precedes(w, v)
  PROVE  w # Op(b, k)
<1>1. SUFFICES ASSUME w = Op(b, k) PROVE FALSE
  OBVIOUS
<1>2. w[1] = "op" /\ w[2] = b /\ w[3] = k
  BY <1>1 DEF Op
<1>3. b < v[2] \/ (v[2] = b /\ k < v[3])
  BY <1>2 DEF Precedes
<1>4. Placed(v, b, Len(fn.code[b]) + 1) /\ v \in Here
  BY DEF Ended, SoundAt, Good, IsClass
<1>5. PICK d \in Blocks : \E j \in 1..Len(fn.code[d]) : v = Op(d, j)
  BY <1>4, OpHere
<1>6. PICK j \in 1..Len(fn.code[d]) : v = Op(d, j)
  BY <1>5
<1>7. v[2] = d /\ v[3] = j
  BY <1>6 DEF Op
<1>8. d < b \/ d = b
  BY <1>4, <1>7 DEF Placed
<1>9. b \in Nat /\ d \in Nat /\ k \in Nat /\ j \in Nat
  BY CodeType DEF Blocks
<1>10. d = b /\ k < j
  BY <1>3, <1>7, <1>8, <1>9
<1>11. j < k + 1
  BY <1>7, <1>10 DEF Past
<1> QED
  BY <1>9, <1>10, <1>11

\* The k-th instruction of b took the registers from regs to regs1.
Ran(regs, regs1, b, k) ==
  /\ \A w : Known(w) /\ w # Op(b, k) => Contents(regs1, w) = Contents(regs, w)
  /\ Functional(fn.code[b][k]) =>
       Contents(regs1, Op(b, k)) = Result(fn.code[b][k], Operands(fn.code, regs, Op(b, k)))

\* One class after an instruction of its block.
LEMMA ClassMeans ==
  ASSUME Final, NEW b \in Blocks, NEW k \in 1..Len(fn.code[b]), NEW regs, Means(regs, b, k),
         NEW regs1, Ran(regs, regs1, b, k), NEW c \in pout[b]
  PROVE  /\ \A v \in c.members : Past(v, b, k + 1) => Contents(regs1, v) = Contents(regs1, c.leader_)
         /\ Past(c.leader_, b, k + 1) /\ Tells(c.value_expr) => Contents(regs1, c.leader_) = Meaning(regs1, c.value_expr)
<1>1. fn \in Functions /\ Plain /\ Ended(b)
  BY AtTheEnd
<1>2. /\ \A w : Known(w) /\ w # Op(b, k) => Contents(regs1, w) = Contents(regs, w)
      /\ Functional(fn.code[b][k]) =>
           Contents(regs1, Op(b, k)) = Result(fn.code[b][k], Operands(fn.code, regs, Op(b, k)))
  BY DEF Ran
<1>3. Founded(c) /\ c.members \subseteq Here
  BY <1>1 DEF Ended, SoundAt, Good, IsClass
<1>4. PICK cur : cur = Op(b, k)
  OBVIOUS
<1>5. cur[1] = "op" /\ cur[2] = b /\ cur[3] = k
  BY <1>4 DEF Op
<1>6. \A v \in c.members : v # cur /\ Past(v, b, k + 1) => Past(v, b, k)
  BY <1>1, <1>3, <1>4, PastNext
<1>7. PICK e : e = c.value_expr
  OBVIOUS
<1>8. ASSUME NEW v \in c.members, Past(v, b, k + 1), Tells(e) PROVE Meaning(regs1, e) = Meaning(regs, e)
  <2>1. ASSUME NEW n \in DOMAIN Args(e) PROVE Contents(regs1, Args(e)[n]) = Contents(regs, Args(e)[n])
    <3>1. v[1] = "op" /\ Precedes(Args(e)[n], v) /\ Known(Args(e)[n])
      BY <1>3, <1>7, <1>8, <2>1 DEF Founded
    <3>2. PICK w : w = Args(e)[n]
      OBVIOUS
    <3>3. w # Op(b, k)
      BY <1>1, <1>8, <3>1, <3>2, NotCurrent
    <3> QED
      BY <1>2, <3>1, <3>2, <3>3
  <2> QED
    BY <2>1, MeaningDepends
<1>9. ASSUME cur \in c.members, Tells(e) PROVE Meaning(regs, e) = Contents(regs1, cur)
  <2>1. e = valueExpr(pout[b], InstrOf(fn.code, cur))
    BY <1>1, <1>5, <1>7, <1>9 DEF Ended, SoundAt
  <2>2. e = valueExpr(pout[b], fn.code[b][k])
    BY <1>4, <2>1 DEF InstrOf, Op
  <2>3. cur \in Computed
    BY <1>1, <1>3, <1>5, <1>9, OpHere
  <2>4. ~IsVoid(fn.code[b][k])
    BY <1>1, <1>4, <2>3, PlainInstr
  <2>5. Functional(fn.code[b][k]) /\ Meaning(regs, e) = Result(fn.code[b][k], Operands(fn.code, regs, Op(b, k)))
    BY <1>1, <1>9, <2>2, <2>4, OperationMeans
  <2> QED
    BY <1>2, <1>4, <2>5
<1>10. PICK l : l = c.leader_
  OBVIOUS
<1>11. IsConstant(l) => l # cur
  BY <1>5 DEF IsConstant
<1>12. ~IsConstant(l) => l \in c.members /\ \A v \in c.members \ {l} : Precedes(l, v)
  BY <1>3, <1>10 DEF Founded
<1>13. \A v \in c.members : v # l => Tells(e)
  BY <1>3, <1>7, <1>10 DEF Founded
<1>14. Known(l) /\ \A v \in c.members : Known(v)
  <2>1. \A v \in c.members : Known(v)
    BY <1>1, <1>3, OpHere DEF Known
  <2> QED
    BY <1>12, <2>1 DEF Known, IsConstant
<1>15. /\ \A v \in c.members : Past(v, b, k) => Contents(regs, v) = Contents(regs, l)
       /\ Past(l, b, k) /\ Tells(e) => Contents(regs, l) = Meaning(regs, e)
  BY <1>7, <1>10 DEF Means
<1>16. ASSUME NEW v \in c.members, Past(v, b, k + 1) PROVE Contents(regs1, v) = Contents(regs1, l)
  <2>1. CASE v = l
    BY <2>1
  <2>2. CASE v # l /\ v = cur
    <3>1. Tells(e) /\ Meaning(regs, e) = Contents(regs1, cur)
      BY <1>9, <1>13, <1>16, <2>2
    <3>2. Contents(regs1, l) = Contents(regs, l)
      BY <1>2, <1>4, <1>14, <2>2
    <3>3. CASE IsConstant(l)
      BY <1>3, <1>7, <1>10, <2>2, <3>1, <3>2, <3>3, ConstMeans
    <3>4. CASE ~IsConstant(l)
      <4>1. Precedes(l, cur)
        BY <1>12, <1>16, <2>2, <3>4
      <4>2. Past(l, b, k)
        <5>1. b \in Nat
          BY <1>1, CodeType DEF Blocks
        <5> QED
          BY <1>5, <4>1, <5>1 DEF Precedes, Past
      <4> QED
        BY <1>15, <2>2, <3>1, <3>2, <4>2
    <3> QED
      BY <3>3, <3>4
  <2>3. CASE v # l /\ v # cur
    <3>1. Contents(regs1, v) = Contents(regs, l)
      BY <1>2, <1>4, <1>6, <1>14, <1>15, <1>16, <2>3
    <3>2. l # cur
      <4>1. CASE IsConstant(l)
        BY <1>11, <4>1
      <4>2. CASE ~IsConstant(l)
        <5>1. Precedes(l, v)
          BY <1>12, <1>16, <2>3, <4>2
        <5>2. v[1] = "op"
          BY <1>3, <1>7, <1>13, <1>16, <2>3 DEF Founded
        <5> QED
          BY <1>1, <1>4, <1>16, <5>1, <5>2, NotCurrent
      <4> QED
        BY <4>1, <4>2
    <3> QED
      BY <1>2, <1>4, <1>14, <3>1, <3>2
  <2> QED
    BY <2>1, <2>2, <2>3
<1>17. ASSUME Past(l, b, k + 1), Tells(e) PROVE Contents(regs1, l) = Meaning(regs1, e)
  <2>1. CASE IsConstant(l)
    BY <1>3, <1>7, <1>10, <2>1, ConstMeans
  <2>2. CASE ~IsConstant(l)
    <3>1. l \in c.members
      BY <1>12, <2>2
    <3>2. Meaning(regs1, e) = Meaning(regs, e)
      BY <1>8, <1>17, <3>1
    <3>3. CASE l = cur
      BY <1>9, <1>17, <3>1, <3>2, <3>3
    <3>4. CASE l # cur
      BY <1>2, <1>4, <1>6, <1>14, <1>15, <1>17, <3>1, <3>2, <3>4
    <3> QED
      BY <3>3, <3>4
  <2> QED
    BY <2>1, <2>2
<1> QED
  BY <1>7, <1>10, <1>16, <1>17

\* The registers keep their meaning when an instruction is run.
LEMMA NextMeans ==
  ASSUME Final, NEW b \in Blocks, NEW k \in 1..Len(fn.code[b]), NEW regs, Means(regs, b, k),
         NEW regs1, Ran(regs, regs1, b, k)
  PROVE  Means(regs1, b, k + 1)
BY ClassMeans DEF Means

LEMMA StepMeans ==
  ASSUME Final, NEW b \in Blocks, NEW k \in 1..Len(fn.code[b]), NEW regs, Means(regs, b, k), Defined(regs, b, k),
         NEW regs1, \A w \in OpsOf(fn.code) : w # Op(b, k) => regs1[w] = regs[w],
         regs1[Op(b, k)] # Undef,
         Functional(fn.code[b][k]) => regs1[Op(b, k)] = Result(fn.code[b][k], Operands(fn.code, regs, Op(b, k)))
  PROVE  Means(regs1, b, k + 1) /\ Defined(regs1, b, k + 1)
<1>1. fn \in Functions /\ Plain
  BY AtTheEnd
<1>2. Means(regs1, b, k + 1)
  <2>1. Contents(regs1, Op(b, k)) = regs1[Op(b, k)]
    BY DEF Contents, Op
  <2>2. \A w : Known(w) /\ w # Op(b, k) => Contents(regs1, w) = Contents(regs, w)
    BY DEF Contents, Known, Computed
  <2>3. Functional(fn.code[b][k]) =>
          Contents(regs1, Op(b, k)) = Result(fn.code[b][k], Operands(fn.code, regs, Op(b, k)))
    BY <2>1
  <2>4. Ran(regs, regs1, b, k)
    BY <2>2, <2>3 DEF Ran
  <2> QED
    BY <2>4, NextMeans
<1>3. ASSUME NEW v \in Computed, Dominates(v[2], b), Past(v, b, k + 1) PROVE regs1[v] # Undef
  <2>1. CASE v = Op(b, k)
    BY <2>1
  <2>2. CASE v # Op(b, k)
    <3>1. v \in Here /\ v \in OpsOf(fn.code)
      BY <1>3 DEF Here, Computed
    <3>2. Past(v, b, k)
      BY <1>1, <1>3, <2>2, <3>1, PastNext
    <3> QED
      BY <1>3, <2>2, <3>1, <3>2 DEF Defined
  <2> QED
    BY <2>1, <2>2
<1> QED
  BY <1>2, <1>3 DEF Defined

\* In a block that ends with the branch all values of the block are past it.
LEMMA PastBranch ==
  ASSUME fn \in Functions, Plain, NEW b \in Blocks, NEW k \in 1..Len(fn.code[b]), fn.code[b][k].op = "br",
         NEW v \in Here
  PROVE  Past(v, b, k)
<1>1. SUFFICES ASSUME v[1] = "op", v[2] = b PROVE v[3] < k
  BY DEF Past
<1>2. v \in Computed
  BY <1>1, OpHere
<1>3. PICK c \in Blocks : \E j \in 1..Len(fn.code[c]) : v = Op(c, j)
  BY <1>1, OpHere
<1>4. PICK j \in 1..Len(fn.code[c]) : v = Op(c, j)
  BY <1>3
<1>5. c = b /\ v[3] = j
  BY <1>1, <1>4 DEF Op
<1>6. ~IsVoid(fn.code[b][j])
  BY <1>2, <1>4, <1>5, PlainInstr
<1>7. j # k
  BY <1>6 DEF IsVoid
<1>8. k = Len(fn.code[b])
  <2>1. Op(b, k) \in OpsOf(fn.code) /\ InstrOf(fn.code, Op(b, k)) = fn.code[b][k]
    BY PlainInstr
  <2>2. Op(b, k)[3] = Len(fn.code[Op(b, k)[2]])
    BY <2>1 DEF Plain
  <2> QED
    BY <2>2 DEF Op
<1>9. j \in Nat /\ k \in Nat
  BY <1>5, CodeType
<1> QED
  BY <1>4, <1>5, <1>7, <1>8, <1>9

\* The meaning of the registers is kept along an edge.
LEMMA EdgeMeans ==
  ASSUME Final, NEW b \in Blocks, NEW k \in 1..Len(fn.code[b]), fn.code[b][k].op = "br",
         NEW t \in Blocks, b \in ToSet(Preds(t)), NEW regs, Means(regs, b, k), Defined(regs, b, k)
  PROVE  Means(regs, t, 1) /\ Defined(regs, t, 1)
<1>1. fn \in Functions /\ Plain /\ Ended(t) /\ Good(pout[t]) /\ Good(pout[b])
  BY AtTheEnd
<1>2. PICK m \in 1..Len(Preds(t)) : Preds(t)[m] = b
  <2>1. DOMAIN Preds(t) = 1..Len(Preds(t))
    <3>1. fn.preds \in Seq(Seq(1..Len(fn.code))) /\ Len(fn.preds) = Len(fn.code)
      BY <1>1, FunctionsAssumption
    <3>2. Preds(t) \in Seq(1..Len(fn.code))
      BY <3>1 DEF Preds, Blocks
    <3> QED
      BY <3>2
  <2> QED
    BY <2>1 DEF ToSet
<1>3. b \in 1..(t - 1)
  <2>1. b < t
    BY <1>1, <1>2 DEF Plain
  <2>2. b \in Nat /\ t \in Nat /\ b > 0
    BY <1>1, CodeType DEF Blocks
  <2> QED
    BY <2>1, <2>2
<1>4. ASSUME NEW c \in pout[t], NEW v \in c.members, Past(v, t, 1)
      PROVE  \E d \in pout[b] : v \in d.members /\ Alike(c, d)
  <2>1. v \in Here
    BY <1>1, <1>4 DEF Good, IsClass
  <2>2. ~(v[1] = "op" /\ v[2] = t)
    BY <1>1, <1>4, <2>1, PastStart
  <2>3. v \in AllMembers(pout[b])
    BY <1>1, <1>2, <1>4, <2>2 DEF Ended, SoundAt
  <2>4. PICK d \in pout[b] : v \in d.members
    BY <2>3 DEF AllMembers
  <2>5. c.members \cap d.members # {}
    BY <1>4, <2>4
  <2>6. Alike(c, d)
    BY <1>1, <1>3, <2>4, <2>5 DEF Ended, SoundAt
  <2> QED
    BY <2>4, <2>6
<1>5. ASSUME NEW d \in pout[b], NEW v \in d.members PROVE Past(v, b, k)
  BY <1>1, <1>5, PastBranch DEF Good, IsClass
<1>6. ASSUME NEW c \in pout[t]
      PROVE  /\ \A v \in c.members : Past(v, t, 1) => Contents(regs, v) = Contents(regs, c.leader_)
             /\ Past(c.leader_, t, 1) /\ Tells(c.value_expr) => Contents(regs, c.leader_) = Meaning(regs, c.value_expr)
  <2>1. ASSUME NEW v \in c.members, Past(v, t, 1) PROVE Contents(regs, v) = Contents(regs, c.leader_)
    <3>1. PICK d \in pout[b] : v \in d.members /\ Alike(c, d)
      BY <1>4, <2>1
    <3>2. Contents(regs, v) = Contents(regs, d.leader_)
      BY <1>5, <3>1 DEF Means
    <3> QED
      BY <3>1, <3>2 DEF Alike
  <2>2. ASSUME Past(c.leader_, t, 1), Tells(c.value_expr)
        PROVE  Contents(regs, c.leader_) = Meaning(regs, c.value_expr)
    <3>1. Founded(c)
      BY <1>1 DEF Ended, SoundAt
    <3>2. CASE IsConstant(c.leader_)
      BY <3>1, <3>2, ConstMeans
    <3>3. CASE ~IsConstant(c.leader_)
      <4>1. c.leader_ \in c.members
        BY <3>1, <3>3 DEF Founded
      <4>2. PICK d \in pout[b] : c.leader_ \in d.members /\ Alike(c, d)
        BY <1>4, <2>2, <4>1
      <4>3. d.leader_ = c.leader_ /\ d.value_expr = c.value_expr
        BY <4>2 DEF Alike
      <4>4. Past(d.leader_, b, k)
        BY <1>5, <4>2, <4>3
      <4>5. Contents(regs, d.leader_) = Meaning(regs, d.value_expr)
        BY <2>2, <4>3, <4>4 DEF Means
      <4> QED
        BY <4>3, <4>5
    <3> QED
      BY <3>2, <3>3
  <2> QED
    BY <2>1, <2>2
<1>7. ASSUME NEW v \in Computed, Dominates(v[2], t), Past(v, t, 1) PROVE regs[v] # Undef
  <2>1. v \in Here /\ v \in OpsOf(fn.code)
    BY DEF Here, Computed
  <2>2. v[1] = "op"
    BY <2>1 DEF OpsOf, Op
  <2>3. v[2] # t
    BY <1>1, <1>7, <2>1, <2>2, PastStart
  <2>4. Dominates(v[2], b)
    BY <1>7, <2>3, DominatesOn
  <2>5. Past(v, b, k)
    BY <1>1, <2>1, PastBranch
  <2> QED
    BY <2>4, <2>5 DEF Defined
<1> QED
  BY <1>6, <1>7 DEF Means, Defined

\* At the entry nothing has been computed.
LEMMA FirstMeans ==
  ASSUME fn \in Functions, Plain, Ended(1), NEW regs
  PROVE  Means(regs, 1, 1) /\ Defined(regs, 1, 1)
<1>1. 1 \in Blocks
  BY DEF Plain
<1>2. ASSUME NEW c \in pout[1], NEW v \in c.members, Past(v, 1, 1) PROVE v[1] # "op"
  <2>1. SUFFICES ASSUME v[1] = "op" PROVE FALSE
    OBVIOUS
  <2>2. v \in Here /\ Placed(v, 1, Len(fn.code[1]) + 1)
    BY <1>2 DEF Ended, SoundAt, Good, IsClass
  <2>3. v[2] # 1
    BY <1>1, <1>2, <2>1, <2>2, PastStart
  <2>4. PICK d \in Blocks : \E j \in 1..Len(fn.code[d]) : v = Op(d, j)
    BY <2>1, <2>2, OpHere
  <2>5. v[2] = d
    BY <2>4 DEF Op
  <2>6. d \in Nat /\ d > 0
    BY CodeType DEF Blocks
  <2>7. d < 1
    BY <2>1, <2>2, <2>3, <2>5 DEF Placed
  <2> QED
    BY <2>6, <2>7
<1>3. ASSUME NEW c \in pout[1]
      PROVE  /\ \A v \in c.members : Past(v, 1, 1) => Contents(regs, v) = Contents(regs, c.leader_)
             /\ Past(c.leader_, 1, 1) /\ Tells(c.value_expr) => Contents(regs, c.leader_) = Meaning(regs, c.value_expr)
  <2>1. Founded(c)
    BY DEF Ended, SoundAt
  <2>2. ASSUME NEW v \in c.members, Past(v, 1, 1) PROVE Contents(regs, v) = Contents(regs, c.leader_)
    <3>1. ~Tells(c.value_expr)
      BY <1>2, <2>1, <2>2 DEF Founded
    <3>2. v = c.leader_
      BY <2>1, <2>2, <3>1 DEF Founded
    <3> QED
      BY <3>2
  <2>3. ASSUME Past(c.leader_, 1, 1), Tells(c.value_expr)
        PROVE  Contents(regs, c.leader_) = Meaning(regs, c.value_expr)
    <3>1. CASE IsConstant(c.leader_)
      BY <2>1, <3>1, ConstMeans
    <3>2. CASE ~IsConstant(c.leader_)
      <4>1. c.leader_ \in c.members /\ c.leader_[1] = "op"
        BY <2>1, <2>3, <3>2 DEF Founded
      <4> QED
        BY <1>2, <2>3, <4>1
    <3> QED
      BY <3>1, <3>2
  <2> QED
    BY <2>2, <2>3
<1>4. ASSUME NEW v \in Computed, Dominates(v[2], 1), Past(v, 1, 1) PROVE FALSE
  <2>1. v \in Here /\ v \in OpsOf(fn.code)
    BY DEF Here, Computed
  <2>2. v[1] = "op"
    BY <2>1 DEF OpsOf, Op
  <2>3. v[2] # 1
    BY <1>1, <1>4, <2>1, <2>2, PastStart
  <2> QED
    BY <1>4, <2>3 DEF Dominates
<1> QED
  BY <1>3, <1>4 DEF Means, Defined

-----------------------------------------------------------------------------
(* The steps of a run.                                                     *)

\* The program goes on at k in b with the registers regs.
LEMMA GoesOn ==
  ASSUME fn' = fn, pout' = pout, phase' = "done", NEW b \in Blocks, NEW k \in Nat \ {0}, at' = b, ip' = k,
         NEW regs, new' = regs, old' = regs, regs = [v \in OpsOf(fn.code) |-> regs[v]],
         Means(regs, b, k), Defined(regs, b, k)
  PROVE  RunInv'
<1>1. OpsOf(fn.code)' = OpsOf(fn.code) /\ Blocks' = Blocks /\ Computed' = Computed
  BY PlainStays DEF OpsOf, Op
<1>2. Means(old, at, ip)'
  BY DEF Means, Meaning, Contents, Past
<1>3. Defined(old, at, ip)'
  <2>1. \A d : Dominates(d, at)' <=> Dominates(d, b)
    BY <1>1 DEF Dominates, Preds, ToSet
  <2>2. \A v : Past(v, at, ip)' <=> Past(v, b, k)
    BY DEF Past
  <2> QED
    BY <1>1, <2>1, <2>2 DEF Defined
<1>4. (new = old)' /\ (old = [v \in OpsOf(fn.code) |-> old[v]])' /\ (at \in Blocks)' /\ (ip \in Nat \ {0})'
  BY <1>1
<1> QED
  BY <1>2, <1>3, <1>4 DEF RunInv, SameRegisters

\* What is known at an instruction that is run.
LEMMA AtInstr ==
  ASSUME IInv, PassInv, RunInv, Plain, Executing
  PROVE  /\ Final /\ SameRegisters /\ at \in Blocks /\ ip \in 1..Len(fn.code[at]) /\ ip + 1 \in Nat \ {0}
         /\ Cur = Op(at, ip) /\ CurInstr = code[at][ip]
         /\ NewOperands = OldOperands /\ Undef \notin ToSet(OldOperands)
<1>1. phase = "done" /\ Final /\ SameRegisters
  BY DEF Executing, Final, RunInv
<1>2. fn \in Functions /\ SameShape(code)
  BY <1>1, AtTheEnd
<1>3. at \in Blocks /\ ip \in Nat \ {0} /\ new = old /\ Means(old, at, ip) /\ Defined(old, at, ip)
  BY <1>1 DEF SameRegisters
<1>4. Len(code[at]) = Len(fn.code[at]) /\ Len(fn.code[at]) \in Nat
  BY <1>2, <1>3, ShapeLengths, CodeType
<1>5. ip \in 1..Len(fn.code[at]) /\ ip + 1 \in Nat \ {0}
  BY <1>3, <1>4 DEF Executing
<1>6. Cur = Op(at, ip) /\ CurInstr = code[at][ip]
  BY DEF Cur, CurInstr, InstrOf, Op
<1>7. NewOperands = OldOperands /\ Undef \notin ToSet(OldOperands)
  BY <1>1, <1>3, <1>5, <1>6, OperandsAgree DEF NewOperands, OldOperands
<1> QED
  BY <1>1, <1>3, <1>5, <1>6, <1>7

\* Both programs set the register of the instruction to r.
LEMMA SetsRegister ==
  ASSUME IInv, PassInv, RunInv, Plain, Executing, UNCHANGED <<vars, at>>, ip' = ip + 1, NEW r, r # Undef,
         old' = [old EXCEPT ![Cur] = r], new' = [new EXCEPT ![Cur] = r],
         Functional(fn.code[at][ip]) => r = Result(fn.code[at][ip], OldOperands)
  PROVE  RunInv'
<1>1. /\ Final /\ SameRegisters /\ at \in Blocks /\ ip \in 1..Len(fn.code[at]) /\ ip + 1 \in Nat \ {0}
      /\ Cur = Op(at, ip)
  BY AtInstr
<1>2. fn' = fn /\ pout' = pout /\ phase' = "done" /\ fn \in Functions
  BY <1>1 DEF vars, ssaVars, partVars, ctlVars, Final, IInv
<1>3. new = old /\ old = [v \in OpsOf(fn.code) |-> old[v]] /\ Means(old, at, ip) /\ Defined(old, at, ip)
  BY <1>1 DEF SameRegisters
<1>4. PICK b, k, regs : b = at /\ k = ip /\ regs = old
  OBVIOUS
<1>5. PICK regs1 : regs1 = [regs EXCEPT ![Op(b, k)] = r]
  OBVIOUS
<1>6. b \in Blocks /\ k \in 1..Len(fn.code[b]) /\ Means(regs, b, k) /\ Defined(regs, b, k)
      /\ regs = [v \in OpsOf(fn.code) |-> regs[v]] /\ k + 1 \in Nat \ {0}
  BY <1>1, <1>3, <1>4
<1>7. Op(b, k) \in OpsOf(fn.code)
  BY <1>2, <1>6, PlainInstr
<1>8. DOMAIN regs = OpsOf(fn.code)
  BY <1>6
<1>9. /\ regs1[Op(b, k)] = r /\ \A w \in OpsOf(fn.code) : w # Op(b, k) => regs1[w] = regs[w]
      /\ regs1 = [v \in OpsOf(fn.code) |-> regs1[v]]
  BY <1>5, <1>7, <1>8
<1>10. Functional(fn.code[b][k]) => regs1[Op(b, k)] = Result(fn.code[b][k], Operands(fn.code, regs, Op(b, k)))
  BY <1>1, <1>4, <1>9 DEF OldOperands
<1>11. Means(regs1, b, k + 1) /\ Defined(regs1, b, k + 1)
  BY <1>1, <1>6, <1>9, <1>10, StepMeans
<1>12. old' = regs1 /\ new' = regs1 /\ at' = b /\ ip' = k + 1
  BY <1>1, <1>3, <1>4, <1>5
<1> QED
  BY <1>2, <1>6, <1>9, <1>11, <1>12, GoesOn

\* The instruction that is run is of the same kind in both programs.
LEMMA KindAt ==
  ASSUME Final, at \in Blocks, ip \in 1..Len(fn.code[at])
  PROVE  LET j == fn.code[at][ip]
         IN  /\ CurInstr.op = j.op /\ CurInstr.cmp = j.cmp /\ TypeOf(CurInstr) = TypeOf(j)
             /\ CurInstr.op # "phi" /\ (Functional(CurInstr) <=> Functional(j))
<1>1. PICK b, k : b = at /\ k = ip
  OBVIOUS
<1>2. b \in Blocks /\ k \in 1..Len(fn.code[b]) /\ CurInstr = code[b][k]
  BY <1>1 DEF CurInstr, Cur, InstrOf, Op
<1>3. PICK i, j : i = code[b][k] /\ j = fn.code[b][k]
  OBVIOUS
<1>4. i.op = j.op /\ i.cmp = j.cmp /\ TypeOf(i) = TypeOf(j)
  BY <1>2, <1>3, SameKind
<1>5. j.op # "phi"
  BY <1>2, <1>3, AtTheEnd, PlainInstr
<1>6. Functional(i) <=> Functional(j)
  BY <1>4 DEF Functional, IsBinaryOp, IsCompare
<1> QED
  BY <1>1, <1>2, <1>3, <1>4, <1>5, <1>6

LEMMA ComputeRuns ==
  ASSUME IInv, PassInv, RunInv, Plain, ExecCompute
  PROVE  RunInv'
<1>1. Executing /\ UNCHANGED <<vars, at>> /\ ip' = ip + 1
  BY DEF ExecCompute
<1>2. Final /\ at \in Blocks /\ ip \in 1..Len(fn.code[at]) /\ NewOperands = OldOperands
  BY <1>1, AtInstr
<1>3. PICK j : j = fn.code[at][ip]
  OBVIOUS
<1>4. CurInstr.op = j.op /\ CurInstr.cmp = j.cmp
  BY <1>2, <1>3, KindAt
<1>5. PICK r : r = Result(CurInstr, OldOperands)
  OBVIOUS
<1>6. r = Result(j, OldOperands)
  BY <1>4, <1>5, SameResult
<1>7. r # Undef
  BY <1>5, ResultIsSet
<1>8. old' = [old EXCEPT ![Cur] = r] /\ new' = [new EXCEPT ![Cur] = r]
  BY <1>2, <1>5 DEF ExecCompute
<1> QED
  BY <1>1, <1>3, <1>6, <1>7, <1>8, SetsRegister

LEMMA MemoryRuns ==
  ASSUME IInv, PassInv, RunInv, Plain, ExecMemory
  PROVE  RunInv'
<1>1. Executing /\ UNCHANGED <<vars, at>> /\ ip' = ip + 1
  BY DEF ExecMemory
<1>2. Final /\ at \in Blocks /\ ip \in 1..Len(fn.code[at])
  BY <1>1, AtInstr
<1>3. PICK r : r = Symbol(news)
  OBVIOUS
<1>4. r # Undef
  BY <1>3 DEF Symbol, Undef
<1>5. old' = [old EXCEPT ![Cur] = r] /\ new' = [new EXCEPT ![Cur] = r]
  BY <1>3 DEF ExecMemory
<1>6. ~Functional(CurInstr)
  BY DEF ExecMemory, Functional, IsBinaryOp, IsCompare, Casts
<1>7. ~Functional(fn.code[at][ip])
  BY <1>2, <1>6, KindAt
<1> QED
  BY <1>1, <1>4, <1>5, <1>7, SetsRegister

\* No phi takes a value.
LEMMA EnterSame ==
  ASSUME Final, NEW c, c \in {code, fn.code}, NEW regs, regs = [v \in OpsOf(fn.code) |-> regs[v]], NEW t
  PROVE  EnterBlock(c, regs, t) = regs
<1>1. ASSUME NEW v \in OpsOf(fn.code) PROVE InstrOf(c, v).op # "phi"
  <2>1. PICK b \in Blocks : \E k \in 1..Len(fn.code[b]) : v = Op(b, k)
    BY DEF OpsOf, Blocks
  <2>2. PICK k \in 1..Len(fn.code[b]) : v = Op(b, k)
    BY <2>1
  <2>3. fn.code[b][k].op # "phi" /\ InstrOf(fn.code, v) = fn.code[b][k]
    BY <2>2, AtTheEnd, PlainInstr
  <2>4. InstrOf(code, v).op = fn.code[b][k].op
    BY <2>2, SameKind
  <2> QED
    BY <2>3, <2>4
<1>2. EnterBlock(c, regs, t) =
        [v \in OpsOf(fn.code) |-> IF v[2] = t /\ InstrOf(c, v).op = "phi" THEN PhiValue(c, regs, v) ELSE regs[v]]
  BY DEF EnterBlock
<1>3. [v \in OpsOf(fn.code) |-> IF v[2] = t /\ InstrOf(c, v).op = "phi" THEN PhiValue(c, regs, v) ELSE regs[v]]
        = [v \in OpsOf(fn.code) |-> regs[v]]
  BY <1>1
<1> QED
  BY <1>2, <1>3

\* A branch goes to one of its targets.
LEMMA TakenIsTarget ==
  ASSUME Final, NEW b \in Blocks, NEW k \in 1..Len(fn.code[b]), at = b, ip = k,
         fn.code[b][k].op = "br", NEW t \in Blocks, Taken(Label(t))
  PROVE  b \in ToSet(Preds(t))
<1>1. PICK j : j = fn.code[b][k]
  OBVIOUS
<1>2. fn \in Functions /\ Plain
  BY AtTheEnd
<1>3. InstrOf(fn.code, Op(b, k)) = j /\ WellMade(j) /\ Len(j.opnd) \in Nat /\ Op(b, k) \in OpsOf(fn.code)
  BY <1>1, <1>2, PlainInstr
<1>4. DOMAIN j.opnd = 1..Len(j.opnd)
  BY <1>1, SameKind
<1>5. PICK o : o = OldOperands
  OBVIOUS
<1>6. o = [n \in 1..Len(j.opnd) |-> Contents(old, j.opnd[n])]
  BY <1>3, <1>4, <1>5 DEF OldOperands, Operands, Cur
<1>7. Len(o) = Len(j.opnd)
  <2>1. o = [n \in 1..Len(j.opnd) |-> o[n]]
    BY <1>6
  <2> QED
    BY <1>3, <2>1, LenOf
<1>8. Label(t)[2] = t
  BY DEF Label
<1>9. \E n \in 1..Len(Targets(j)) : Targets(j)[n] = t
  <2>1. CASE Len(j.opnd) = 1
    <3>1. j.opnd[1][1] = "label"
      BY <1>1, <1>3, <2>1 DEF WellMade
    <3>2. o[1] = j.opnd[1]
      BY <1>6, <2>1, <3>1 DEF Contents
    <3>3. Label(t) = o[1]
      BY <1>5, <1>7, <2>1 DEF Taken
    <3>4. Targets(j) = <<j.opnd[1][2]>>
      BY <1>1, <2>1 DEF Targets
    <3> QED
      BY <1>8, <3>2, <3>3, <3>4
  <2>2. CASE Len(j.opnd) # 1
    <3>1. Len(j.opnd) = 3 /\ j.opnd[2][1] = "label" /\ j.opnd[3][1] = "label"
      BY <1>1, <1>3, <2>2 DEF WellMade
    <3>2. o[2] = j.opnd[2] /\ o[3] = j.opnd[3]
      BY <1>6, <3>1 DEF Contents
    <3>3. Label(t) = o[2] \/ Label(t) = o[3]
      <4>1. IF IsConstant(o[1]) THEN Label(t) = o[IF o[1][2] = 1 THEN 2 ELSE 3] ELSE Label(t) \in {o[2], o[3]}
        BY <1>5, <1>7, <3>1 DEF Taken
      <4> QED
        BY <4>1
    <3>4. Targets(j) = <<j.opnd[3][2], j.opnd[2][2]>>
      BY <1>1, <2>2 DEF Targets
    <3>5. Len(Targets(j)) = 2 /\ Targets(j)[1] = j.opnd[3][2] /\ Targets(j)[2] = j.opnd[2][2]
      BY <3>4
    <3>6. t = j.opnd[2][2] \/ t = j.opnd[3][2]
      BY <1>8, <3>2, <3>3
    <3>7. 1 \in 1..Len(Targets(j)) /\ 2 \in 1..Len(Targets(j))
      BY <3>5
    <3> QED
      BY <3>5, <3>6, <3>7
  <2> QED
    BY <2>1, <2>2
<1>10. \A n \in 1..Len(Targets(j)) : Op(b, k)[2] \in ToSet(Preds(Targets(j)[n]))
  BY <1>1, <1>2, <1>3 DEF Plain
<1>11. Op(b, k)[2] = b
  BY DEF Op
<1> QED
  BY <1>9, <1>10, <1>11

LEMMA BranchRuns ==
  ASSUME IInv, PassInv, RunInv, Plain, NEW t \in Blocks, ExecBranch(t)
  PROVE  RunInv'
<1>1. Executing /\ UNCHANGED vars /\ CurInstr.op = "br" /\ Taken(Label(t)) /\ at' = t /\ ip' = 1
  BY DEF ExecBranch
<1>2. Final /\ SameRegisters /\ at \in Blocks /\ ip \in 1..Len(fn.code[at])
  BY <1>1, AtInstr
<1>3. fn' = fn /\ pout' = pout /\ phase' = "done"
  BY <1>1, <1>2 DEF vars, ssaVars, partVars, ctlVars, Final
<1>4. new = old /\ old = [v \in OpsOf(fn.code) |-> old[v]] /\ Means(old, at, ip) /\ Defined(old, at, ip)
  BY <1>2 DEF SameRegisters
<1>5. PICK b, k, regs : b = at /\ k = ip /\ regs = old
  OBVIOUS
<1>6. b \in Blocks /\ k \in 1..Len(fn.code[b]) /\ Means(regs, b, k) /\ Defined(regs, b, k)
      /\ regs = [v \in OpsOf(fn.code) |-> regs[v]]
  BY <1>2, <1>4, <1>5
<1>7. fn.code[b][k].op = "br"
  BY <1>1, <1>2, <1>5, KindAt
<1>8. b \in ToSet(Preds(t))
  BY <1>1, <1>2, <1>5, <1>6, <1>7, TakenIsTarget
<1>9. Means(regs, t, 1) /\ Defined(regs, t, 1)
  BY <1>2, <1>6, <1>7, <1>8, EdgeMeans
<1>10. EnterBlock(fn.code, regs, t) = regs /\ EnterBlock(code, regs, t) = regs
  BY <1>2, <1>6, EnterSame
<1>11. old' = regs /\ new' = regs
  BY <1>4, <1>5, <1>10 DEF ExecBranch
<1> QED
  BY <1>1, <1>3, <1>6, <1>9, <1>11, GoesOn

\* The pass leaves the program alone until it is over.
LEMMA PassRuns ==
  ASSUME IInv, PassInv, RunInv, Plain, Pass
  PROVE  RunInv'
<1>1. Next /\ at' = at /\ ip' = ip /\ old' = old /\ new' = new
  BY DEF Pass, runVars
<1>2. phase # "done" /\ fn' = fn
  BY <1>1 DEF Next, InitBlock, StartPass, Visit, StartReplace, Replace, Finish, ssaVars
<1>3. NothingRun
  BY <1>2 DEF RunInv
<1>4. OpsOf(fn.code)' = OpsOf(fn.code)
  BY <1>2 DEF OpsOf, Op
<1>5. CASE phase' # "done"
  <2>1. NothingRun'
    BY <1>1, <1>3, <1>4 DEF NothingRun, Undef
  <2> QED
    BY <1>5, <2>1 DEF RunInv
<1>6. CASE phase' = "done"
  <2>1. Finish
    BY <1>1, <1>2, <1>6 DEF Next, InitBlock, StartPass, Visit, StartReplace, Replace, ctlVars
  <2>2. ok /\ phase = "replace" /\ pout' = pout
    BY <2>1 DEF Finish, partVars
  <2>3. fn \in Functions /\ 1 \in Blocks
    BY DEF IInv, Plain
  <2>4. Ended(1)
    <3>1. PartitionsSound /\ Visited = Blocks
      BY <2>2 DEF PassInv, Visited
    <3> QED
      BY <2>3, <3>1 DEF PartitionsSound, Ended
  <2>5. PICK regs : regs = old
    OBVIOUS
  <2>6. Means(regs, 1, 1) /\ Defined(regs, 1, 1)
    BY <2>3, <2>4, FirstMeans
  <2>7. at' = 1 /\ ip' = 1 /\ old' = regs /\ new' = regs /\ regs = [v \in OpsOf(fn.code) |-> regs[v]]
    <3>1. old = [v \in OpsOf(fn.code) |-> Undef]
      BY <1>3 DEF NothingRun
    <3>2. old = [v \in OpsOf(fn.code) |-> old[v]]
      BY <3>1
    <3> QED
      BY <1>1, <1>3, <2>5, <3>2 DEF NothingRun
  <2> QED
    BY <1>2, <1>6, <2>2, <2>3, <2>6, <2>7, GoesOn
<1> QED
  BY <1>5, <1>6

LEMMA StillRuns ==
  ASSUME RunInv, Plain, UNCHANGED allVars
  PROVE  RunInv'
<1>1. fn' = fn /\ pout' = pout /\ phase' = phase /\ at' = at /\ ip' = ip /\ old' = old /\ new' = new
  BY DEF allVars, vars, runVars, ssaVars, partVars, ctlVars
<1>2. CASE phase = "done"
  <2>1. SameRegisters
    BY <1>2 DEF RunInv
  <2>2. PICK b, k, regs : b = at /\ k = ip /\ regs = old
    OBVIOUS
  <2>3. /\ b \in Blocks /\ k \in Nat \ {0} /\ new = regs /\ regs = [v \in OpsOf(fn.code) |-> regs[v]]
        /\ Means(regs, b, k) /\ Defined(regs, b, k)
    BY <2>1, <2>2 DEF SameRegisters
  <2>4. at' = b /\ ip' = k /\ old' = regs /\ new' = regs /\ phase' = "done"
    BY <1>1, <1>2, <2>2, <2>3
  <2> QED
    BY <1>1, <2>3, <2>4, GoesOn
<1>3. CASE phase # "done"
  <2>1. NothingRun
    BY <1>3 DEF RunInv
  <2>2. OpsOf(fn.code)' = OpsOf(fn.code)
    BY <1>1 DEF OpsOf, Op
  <2>3. NothingRun'
    BY <1>1, <2>1, <2>2 DEF NothingRun, Undef
  <2> QED
    BY <1>1, <1>3, <2>3 DEF RunInv
<1> QED
  BY <1>2, <1>3

AllInv == IInv /\ PassInv /\ RunInv

LEMMA AllInit ==
  ASSUME RunInit
  PROVE  AllInv
<1>1. Init /\ phase # "done"
  BY DEF RunInit, Init
<1>2. NothingRun
  BY DEF RunInit, NothingRun
<1> QED
  BY <1>1, <1>2, InitEstablishes, InitPasses DEF AllInv, RunInv

LEMMA AllNext ==
  ASSUME AllInv, RunNext \/ UNCHANGED allVars
  PROVE  AllInv'
<1>1. IInv /\ PassInv /\ RunInv
  BY DEF AllInv
<1>2. Next \/ UNCHANGED vars
  BY DEF RunNext, Pass, ExecCompute, ExecMemory, SkipPhi, ExecBranch, Stop, allVars
<1>3. IInv'
  BY <1>1, <1>2, InitBlockKeeps, StartPassKeeps, VisitKeeps, StartReplaceKeeps, ReplaceStepKeeps, OtherStepKeeps DEF Next
<1>4. PassInv'
  BY <1>1, <1>2, InitBlockPasses, StartPassPasses, VisitPasses, StartReplacePasses, ReplacePasses, OtherPasses DEF Next
<1>5. RunInv'
  <2>1. fn' = fn
    BY <1>2 DEF Next, InitBlock, StartPass, Visit, StartReplace, Replace, Finish, vars, ssaVars
  <2>2. CASE ~Plain
    BY <2>1, <2>2, PlainStays DEF RunInv
  <2>3. CASE Plain /\ Pass
    BY <1>1, <2>3, PassRuns
  <2>4. CASE Plain /\ ExecCompute
    BY <1>1, <2>4, ComputeRuns
  <2>5. CASE Plain /\ ExecMemory
    BY <1>1, <2>5, MemoryRuns
  <2>6. CASE Plain /\ SkipPhi
    <3>1. Executing /\ CurInstr.op = "phi"
      BY <2>6 DEF SkipPhi
    <3>2. Final /\ at \in Blocks /\ ip \in 1..Len(fn.code[at])
      BY <1>1, <2>6, <3>1, AtInstr
    <3> QED
      BY <3>1, <3>2, KindAt
  <2>7. CASE Plain /\ \E t \in Blocks : ExecBranch(t)
    BY <1>1, <2>7, BranchRuns
  <2>8. CASE Plain /\ (Stop \/ UNCHANGED allVars)
    BY <1>1, <2>8, StillRuns DEF Stop
  <2> QED
    BY <2>2, <2>3, <2>4, <2>5, <2>6, <2>7, <2>8 DEF RunNext
<1> QED
  BY <1>3, <1>4, <1>5 DEF AllInv

\* A plain function does after GVN what it did before, however many blocks it
\* has and whatever was folded and replaced: the same arguments of calls, the
\* same addresses, stored values, tests and returned values.
THEOREM PlainFunctionsActTheSame == RunSpec => [](Plain => ActsTheSame)
<1>1. RunInit => AllInv
  BY AllInit
<1>2. AllInv /\ [RunNext]_allVars => AllInv'
  BY AllNext
<1>3. AllInv => (Plain => ActsTheSame)
  <2>1. SUFFICES ASSUME IInv, PassInv, RunInv, Plain, Executing
                 PROVE  NewOperands = OldOperands /\ Undef \notin ToSet(NewOperands)
    BY DEF AllInv, ActsTheSame
  <2> QED
    BY <2>1, AtInstr
<1> QED
  BY <1>1, <1>2, <1>3, PTL DEF RunSpec

-----------------------------------------------------------------------------
(* Redundancy.                                                             *)

\* The pass is over and nothing is left to be replaced.
AllReplaced == Final /\ ExactInv

LEMMA ExactAtTheEnd ==
  ASSUME AllReplaced
  PROVE  /\ UsesReplaced /\ todo = {}
         /\ \A b \in Blocks : Unique(pout[b]) /\ Complete(b, Len(fn.code[b]) + 1, pout[b])
<1>1. Plain /\ phase = "done" /\ ok
  BY DEF AllReplaced, Final, PassInv
<1>2. PartitionsExact /\ UsesReplaced /\ todo = {}
  BY <1>1 DEF AllReplaced, ExactInv
<1>3. Visited = Blocks
  BY <1>1 DEF Visited
<1> QED
  BY <1>2, <1>3 DEF PartitionsExact

\* An operand is what stands for the original one.
LEMMA OperandIsLeader ==
  ASSUME AllReplaced, NEW b \in Blocks, NEW k \in 1..Len(fn.code[b]), NEW n \in 1..Len(fn.code[b][k].opnd)
  PROVE  code[b][k].opnd[n] = LeaderOf(pout[b], fn.code[b][k].opnd[n])
<1>1. PICK x : x = fn.code[b][k].opnd[n]
  OBVIOUS
<1>2. PICK y : y = code[b][k].opnd[n]
  OBVIOUS
<1>3. Final /\ fn \in Functions /\ OperandsLed /\ Ended(b)
  BY AtTheEnd DEF AllReplaced
<1>4. SoundAt(b, Len(fn.code[b]) + 1, pout[b])
  BY <1>3 DEF Ended
<1>5. CASE y # x
  <2>1. PICK c \in pout[b] : x \in c.members /\ y = c.leader_
    BY <1>1, <1>2, <1>3, <1>5 DEF OperandsLed
  <2>2. LeaderOf(pout[b], x) = c.leader_
    BY <1>3, <1>4, <2>1, SoundMembers
  <2> QED
    BY <1>1, <1>2, <2>1, <2>2
<1>6. CASE y = x /\ x \in AllMembers(pout[b])
  <2>1. PICK c \in pout[b] : x \in c.members
    BY <1>6 DEF AllMembers
  <2>2. LeaderOf(pout[b], x) = c.leader_
    BY <1>3, <1>4, <2>1, SoundMembers
  <2>3. phase = "done"
    BY <1>3 DEF Final
  <2>4. y \notin c.members \ {c.leader_}
    BY <1>2, <2>3, ExactAtTheEnd DEF UsesReplaced
  <2> QED
    BY <1>1, <1>2, <1>6, <2>1, <2>2, <2>4
<1>7. CASE y = x /\ x \notin AllMembers(pout[b])
  BY <1>1, <1>2, <1>3, <1>4, <1>7, SoundMembers
<1> QED
  BY <1>5, <1>6, <1>7

\* The expression of an instruction is that of what it has become.
LEMMA SameExpressionNow ==
  ASSUME AllReplaced, NEW b \in Blocks, NEW k \in 1..Len(fn.code[b]),
         Functional(fn.code[b][k])
  PROVE  valueExpr(pout[b], fn.code[b][k]) = valueExpr({}, code[b][k])
<1>1. PICK i, j : i = code[b][k] /\ j = fn.code[b][k]
  OBVIOUS
<1>2. Final /\ fn \in Functions /\ Plain
  BY AtTheEnd DEF AllReplaced
<1>3. /\ i.op = j.op /\ i.cmp = j.cmp /\ Len(i.opnd) = Len(j.opnd) /\ Len(i.opnd) \in Nat
      /\ TypeOf(i) = TypeOf(j)
  BY <1>1, <1>2, SameKind
<1>4. \A v : LeaderOf({}, v) = v
  BY DEF LeaderOf, With
<1>5. \A n \in 1..Len(i.opnd) : LeaderOf(pout[b], j.opnd[n]) = LeaderOf({}, i.opnd[n])
  BY <1>1, <1>3, <1>4, OperandIsLeader
<1>6. WellMade(j)
  BY <1>1, <1>2, PlainInstr
<1>7. Len(j.opnd) = 2 \/ j.op \in {"call", "getelementptr", "alloca"} \cup Casts
  BY <1>1, <1>6 DEF Functional, WellMade
<1>8. [n \in 1..Len(j.opnd) |-> LeaderOf(pout[b], j.opnd[n])] = [n \in 1..Len(i.opnd) |-> LeaderOf({}, i.opnd[n])]
  BY <1>3, <1>5
<1>9. Len(j.opnd) = 2 => /\ LeaderOf(pout[b], j.opnd[1]) = LeaderOf({}, i.opnd[1])
                         /\ LeaderOf(pout[b], j.opnd[2]) = LeaderOf({}, i.opnd[2])
  BY <1>3, <1>5
<1>10. IsCompare(i) <=> IsCompare(j)
  BY <1>3 DEF IsCompare
<1>11. CASE Len(j.opnd) > 2 \/ j.op \in {"call", "getelementptr", "alloca"} \cup Casts
  <2>1. valueExpr(pout[b], j) = VariableExpression(TypeOf(j), [n \in 1..Len(j.opnd) |-> LeaderOf(pout[b], j.opnd[n])])
    BY <1>11 DEF valueExpr
  <2>2. valueExpr({}, i) = VariableExpression(TypeOf(i), [n \in 1..Len(i.opnd) |-> LeaderOf({}, i.opnd[n])])
    BY <1>3, <1>11 DEF valueExpr
  <2> QED
    BY <1>1, <1>3, <1>8, <2>1, <2>2
<1>12. CASE ~(Len(j.opnd) > 2 \/ j.op \in {"call", "getelementptr", "alloca"} \cup Casts)
  <2>1. Len(j.opnd) = 2
    BY <1>7, <1>12
  <2>2. valueExpr(pout[b], j) = BinaryExpression(j.op, IF IsCompare(j) THEN j.cmp ELSE "EQ",
                                                 LeaderOf(pout[b], j.opnd[1]), LeaderOf(pout[b], j.opnd[2]))
    BY <1>12, <2>1 DEF valueExpr
  <2>3. valueExpr({}, i) = BinaryExpression(i.op, IF IsCompare(i) THEN i.cmp ELSE "EQ",
                                            LeaderOf({}, i.opnd[1]), LeaderOf({}, i.opnd[2]))
    BY <1>3, <1>12, <2>1 DEF valueExpr
  <2> QED
    BY <1>1, <1>3, <1>9, <1>10, <2>1, <2>2, <2>3
<1> QED
  BY <1>11, <1>12

\* A value has one class everywhere at the end.
LEMMA AlikeAtTheEnd ==
  ASSUME Final, NEW p \in Blocks, NEW q \in Blocks, NEW c \in pout[p], NEW d \in pout[q],
         NEW v, v \in c.members, v \in d.members
  PROVE  Alike(c, d)
<1>1. p \in Nat \ {0} /\ q \in Nat \ {0} /\ fn \in Functions
  BY CodeType, AtTheEnd DEF Blocks
<1>2. SoundAt(p, Len(fn.code[p]) + 1, pout[p]) /\ SoundAt(q, Len(fn.code[q]) + 1, pout[q])
  BY AtTheEnd DEF Ended
<1>3. CASE q < p
  <2>1. q \in 1..(p-1)
    BY <1>1, <1>3
  <2> QED
    BY <1>2, <2>1 DEF SoundAt
<1>4. CASE p < q
  <2>1. p \in 1..(q-1)
    BY <1>1, <1>4
  <2>2. Alike(d, c)
    BY <1>2, <2>1 DEF SoundAt
  <2> QED
    BY <2>2 DEF Alike
<1>5. CASE p = q
  BY <1>2, <1>5 DEF SoundAt, Good, Apart, Alike
<1> QED
  BY <1>1, <1>3, <1>4, <1>5

\* A value that some class has as a member but not as its leader is used by
\* nothing, in whatever block the class is.
LEMMA MemberUnused ==
  ASSUME AllReplaced, NEW b \in Blocks, NEW c \in pout[b], NEW w \in c.members, w # c.leader_
  PROVE  UsesOf(code, w) = {}
<1>1. SUFFICES ASSUME NEW u \in UsesOf(code, w) PROVE FALSE
  OBVIOUS
<1>2. Final /\ fn \in Functions /\ Plain /\ SameShape(code) /\ Good(pout[b])
  BY AtTheEnd DEF AllReplaced
<1>3. PICK g \in Blocks : \E h \in 1..Len(fn.code[g]) : \E n \in 1..Len(fn.code[g][h].opnd) :
        u = <<Op(g, h), n>> /\ code[g][h].opnd[n] = w
  BY <1>2, UsesAre
<1>4. PICK h \in 1..Len(fn.code[g]) : \E n \in 1..Len(fn.code[g][h].opnd) : code[g][h].opnd[n] = w
  BY <1>3
<1>5. PICK n \in 1..Len(fn.code[g][h].opnd) : code[g][h].opnd[n] = w
  BY <1>4
<1>6. PICK x : x = fn.code[g][h].opnd[n]
  OBVIOUS
<1>7. w = LeaderOf(pout[g], x)
  BY <1>5, <1>6, OperandIsLeader
<1>8. w \in Here /\ ~IsConstant(w)
  BY <1>2, NotHere DEF Good, IsClass
<1>9. SoundAt(g, Len(fn.code[g]) + 1, pout[g])
  BY <1>2, AtTheEnd DEF Ended
<1>10. w \in AllMembers(pout[g]) => \E y \in pout[g] : w = y.leader_ /\ w \in y.members
  <2>1. CASE x \in AllMembers(pout[g])
    <3>1. PICK y \in pout[g] : x \in y.members
      BY <2>1 DEF AllMembers
    <3>2. w = y.leader_
      BY <1>2, <1>7, <1>9, <3>1, SoundMembers
    <3>3. w \in y.members
      BY <1>8, <1>9, <3>2 DEF SoundAt, Founded
    <3> QED
      BY <3>2, <3>3
  <2>2. CASE x \notin AllMembers(pout[g])
    BY <1>2, <1>7, <1>9, <2>2, SoundMembers
  <2> QED
    BY <2>1, <2>2
<1>11. w \notin AllMembers(pout[g])
  <2>1. ASSUME NEW y \in pout[g], w = y.leader_, w \in y.members PROVE FALSE
    <3>1. Alike(c, y)
      BY <1>2, <2>1, AlikeAtTheEnd
    <3> QED
      BY <2>1, <3>1 DEF Alike
  <2> QED
    BY <1>10, <2>1
<1>12. w = x
  <2>1. CASE x \in AllMembers(pout[g])
    <3>1. PICK y \in pout[g] : x \in y.members
      BY <2>1 DEF AllMembers
    <3>2. w = y.leader_
      BY <1>2, <1>7, <1>9, <3>1, SoundMembers
    <3>3. w \in y.members
      BY <1>8, <1>9, <3>2 DEF SoundAt, Founded
    <3> QED
      BY <1>11, <3>3 DEF AllMembers
  <2>2. CASE x \notin AllMembers(pout[g])
    BY <1>2, <1>7, <1>9, <2>2, SoundMembers
  <2> QED
    BY <2>1, <2>2
<1>13. w[1] = "op" => w \in Computed /\ Dominates(w[2], g)
  BY <1>2, <1>6, <1>12, OperandPast
<1>14. w[1] = "op"
  <2>1. c.members = {c.leader_} \/ \A v \in c.members : v[1] = "op"
    <3>1. Founded(c)
      BY <1>2, AtTheEnd DEF Ended, SoundAt
    <3> QED
      BY <3>1 DEF Founded
  <2> QED
    BY <2>1
<1>15. Past(w, g, Len(fn.code[g]) + 1)
  BY <1>2, <1>8, PastEnd
<1> QED
  BY <1>11, <1>13, <1>14, <1>15, ExactAtTheEnd DEF Complete

\* Two places that have become the same computation are in one class, if the
\* first is known in the block of the second, and the second does not lead it.
LEMMA TwinsMeet ==
  ASSUME AllReplaced, NEW a \in Blocks, NEW j \in 1..Len(fn.code[a]), NEW b \in Blocks, NEW k \in 1..Len(fn.code[b]),
         code[a][j] = code[b][k], Functional(fn.code[a][j]), Functional(fn.code[b][k]),
         Op(a, j) \in Computed, Op(b, k) \in Computed, Op(a, j) # Op(b, k),
         Op(a, j) \in AllMembers(pout[b]), a = b => j < k
  PROVE  \E c \in pout[b] : Op(b, k) \in c.members /\ Op(b, k) # c.leader_
<1>1. Final /\ fn \in Functions /\ Plain
  BY AtTheEnd DEF AllReplaced
<1>2. PICK e : e = valueExpr({}, code[a][j])
  OBVIOUS
<1>3. ASSUME NEW q \in Blocks, NEW l \in 1..Len(fn.code[q]), Functional(fn.code[q][l]), Op(q, l) \in Computed
      PROVE  \E c \in pout[q] : Op(q, l) \in c.members /\ c.value_expr = valueExpr({}, code[q][l])
  <2>1. Op(q, l)[1] = "op" /\ Op(q, l)[2] = q /\ Op(q, l) \in Here /\ InstrOf(fn.code, Op(q, l)) = fn.code[q][l]
    BY <1>3 DEF Op, Here, InstrOf
  <2>2. Dominates(q, q)
    <3>1. PICK S : S = Blocks \ {q}
      OBVIOUS
    <3>2. S \in SUBSET (Blocks \ {q}) /\ q \notin S /\ \A x \in Blocks \ {q} : x \in S
      BY <3>1
    <3>3. q # 1 => 1 \in S
      BY <1>1, <3>1 DEF Plain
    <3> QED
      BY <3>2, <3>3 DEF Dominates
  <2>3. Past(Op(q, l), q, Len(fn.code[q]) + 1)
    BY <1>1, <2>1, PastEnd
  <2>4. Op(q, l) \in AllMembers(pout[q])
    BY <1>3, <2>1, <2>2, <2>3, ExactAtTheEnd DEF Complete
  <2>5. PICK c \in pout[q] : Op(q, l) \in c.members
    BY <2>4 DEF AllMembers
  <2>6. c.value_expr = valueExpr(pout[q], fn.code[q][l])
    BY <1>1, <2>1, <2>5, AtTheEnd DEF Ended, SoundAt
  <2> QED
    BY <1>3, <2>5, <2>6, SameExpressionNow
<1>4. PICK d \in pout[a] : Op(a, j) \in d.members /\ d.value_expr = e
  BY <1>2, <1>3
<1>5. PICK x \in pout[b] : Op(b, k) \in x.members /\ x.value_expr = e
  BY <1>2, <1>3
<1>6. PICK c \in pout[b] : Op(a, j) \in c.members
  BY DEF AllMembers
<1>7. c.value_expr = e
  BY <1>1, <1>4, <1>6, AlikeAtTheEnd DEF Alike
<1>8. Tells(e)
  <2>1. PICK i : i = fn.code[b][k]
    OBVIOUS
  <2>2. WellMade(i) /\ ~IsVoid(i) /\ i.op # "phi" /\ Len(i.opnd) \in Nat
    BY <1>1, <2>1, PlainInstr
  <2>3. Tells(valueExpr(pout[b], i))
    BY <2>1, <2>2, ExpressionTells
  <2> QED
    BY <1>2, <2>1, <2>3, SameExpressionNow
<1>9. c = x
  BY <1>5, <1>7, <1>8, ExactAtTheEnd DEF Unique
<1>10. Op(b, k) # c.leader_
  <2>1. SUFFICES ASSUME Op(b, k) = c.leader_ PROVE FALSE
    OBVIOUS
  <2>2. ~IsConstant(Op(b, k))
    BY DEF IsConstant, Op
  <2>3. Precedes(Op(b, k), Op(a, j)) /\ Placed(Op(a, j), b, Len(fn.code[b]) + 1)
    BY <1>1, <1>6, <2>1, <2>2, AtTheEnd DEF Ended, SoundAt, Founded
  <2>4. (b < a \/ (b = a /\ k < j)) /\ (a < b \/ a = b)
    BY <2>3 DEF Precedes, Placed, Op
  <2>5. a \in Nat /\ b \in Nat /\ j \in Nat /\ k \in Nat
    BY <1>1, CodeType DEF Blocks
  <2> QED
    BY <2>4, <2>5
<1> QED
  BY <1>5, <1>9, <1>10

\* What makes an instruction's value depend on its operands alone.
LEMMA ComputesAgain ==
  ASSUME Final, NEW b \in Blocks, NEW k \in 1..Len(fn.code[b]),
         ~IsVoid(code[b][k]), TypeOf(code[b][k]) \notin {"phi", "load", "alloca", "impure"}
  PROVE  Functional(fn.code[b][k]) /\ Op(b, k) \in Computed
<1>1. PICK i, j : i = code[b][k] /\ j = fn.code[b][k]
  OBVIOUS
<1>2. TypeOf(i) = TypeOf(j) /\ (IsVoid(i) <=> IsVoid(j)) /\ fn \in Functions /\ Plain
  BY <1>1, SameKind, AtTheEnd
<1>3. WellMade(j) /\ (Op(b, k) \in Computed <=> ~IsVoid(j))
  BY <1>1, <1>2, PlainInstr
<1>4. j.op \notin {"br", "ret", "store"}
  BY <1>1, <1>2 DEF IsVoid
<1>5. j.op # "call" => j.op \notin {"load", "alloca"}
  BY <1>1, <1>2 DEF TypeOf
<1>6. j.op = "call" => TypeOf(j) = "pure"
  BY <1>1, <1>2 DEF TypeOf
<1>7. Functional(j)
  BY <1>3, <1>4, <1>5, <1>6 DEF WellMade, OpNames, Functional, IsBinaryOp, IsCompare
<1> QED
  BY <1>1, <1>2, <1>3, <1>7

\* In a plain function no redundant computation that GVN could see is left in
\* use: the iteration finds every pair of equal computations, and the leader
\* takes over every use of the other.
THEOREM PlainFunctionsLoseRedundancy == Spec => [](Plain => RedundancyGone)
<1>1. Init => IInv /\ PassInv /\ ExactInv
  BY InitEstablishes, InitPasses, ExactInit
<1>2. IInv /\ PassInv /\ ExactInv /\ [Next \/ Done]_vars => (IInv /\ PassInv /\ ExactInv)'
  <2>1. SUFFICES ASSUME IInv, PassInv, ExactInv, Next \/ UNCHANGED vars PROVE (IInv /\ PassInv /\ ExactInv)'
    BY DEF Done
  <2>2. IInv'
    BY <2>1, InitBlockKeeps, StartPassKeeps, VisitKeeps, StartReplaceKeeps, ReplaceStepKeeps, OtherStepKeeps DEF Next
  <2>3. PassInv'
    BY <2>1, InitBlockPasses, StartPassPasses, VisitPasses, StartReplacePasses, ReplacePasses, OtherPasses DEF Next
  <2>4. ExactInv'
    BY <2>1, <2>2, ExactNext
  <2> QED
    BY <2>2, <2>3, <2>4
<1>3. IInv /\ PassInv /\ ExactInv => (Plain => RedundancyGone)
  <2>1. SUFFICES ASSUME AllReplaced, NEW v \in OpsOf(code), NEW w \in OpsOf(code), v # w,
                        InstrOf(code, v) = InstrOf(code, w), ~IsVoid(InstrOf(code, v)),
                        TypeOf(InstrOf(code, v)) \notin {"phi", "load", "alloca", "impure"},
                        v \in AllMembers(pout[w[2]]), v[2] = w[2] => v[3] < w[3]
                 PROVE  use_list[w] = EmptyBag
    BY DEF AllReplaced, Final, RedundancyGone
  <2>2. Final /\ fn \in Functions /\ SameShape(code)
    BY <2>1, AtTheEnd DEF AllReplaced
  <2>3. v \in OpsOf(fn.code) /\ w \in OpsOf(fn.code)
    BY <2>2, ShapeLengths
  <2>4. PICK a \in Blocks : \E j \in 1..Len(fn.code[a]) : v = Op(a, j)
    BY <2>3 DEF OpsOf, Blocks
  <2>5. PICK j \in 1..Len(fn.code[a]) : v = Op(a, j)
    BY <2>4
  <2>6. PICK b \in Blocks : \E k \in 1..Len(fn.code[b]) : w = Op(b, k)
    BY <2>3 DEF OpsOf, Blocks
  <2>7. PICK k \in 1..Len(fn.code[b]) : w = Op(b, k)
    BY <2>6
  <2>8. v[2] = a /\ v[3] = j /\ w[2] = b /\ w[3] = k /\ InstrOf(code, v) = code[a][j] /\ InstrOf(code, w) = code[b][k]
    BY <2>5, <2>7 DEF Op, InstrOf
  <2>9. Functional(fn.code[a][j]) /\ v \in Computed /\ Functional(fn.code[b][k]) /\ w \in Computed
    BY <2>1, <2>2, <2>5, <2>7, <2>8, ComputesAgain
  <2>10. PICK c \in pout[b] : w \in c.members /\ w # c.leader_
    BY <2>1, <2>5, <2>7, <2>8, <2>9, TwinsMeet
  <2>11. UsesOf(code, w) = {}
    BY <2>1, <2>10, MemberUnused
  <2>12. use_list[w] = SetToBag({})
    BY <2>2, <2>3, <2>11 DEF Final, IInv, Tracked
  <2> QED
    BY <2>12 DEF EmptyBag
<1> QED
  BY <1>1, <1>2, <1>3, PTL DEF Spec
=============================================================================
