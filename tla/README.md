# A TLA+ model of the cminus compiler

The repository is a compiler for cminus, a small C: a flex/bison front end, an
AST, a visitor that generates LightIR (an IR in the style of LLVM), and
optimisation passes on LightIR. The compiler is one thread; nothing is
concurrent and nothing is persisted. What is hard in it is elsewhere: fixpoint
iterations that must stop at the right point whatever the order of the lists
they walk, def-use structures that one step changes and a later one relies on,
stacks kept in step with a recursion, and graphs (unreachable blocks,
irreducible loops, recursive calls, cycles of dead phis) that no test program
happens to contain. The models are about that.

## The system

| component | state | operations | interacts with |
|---|---|---|---|
| lexer, parser, syntax tree (`src/src/parser`, `syntax_tree.c`) | parser tables, tree | `parse` | AST |
| AST (`ast.cpp`) | tree of nodes | `transform_node_iter`, printing, visitor dispatch | builder |
| `CminusfBuilder`, `Scope` (`cminusf_builder.cpp`, `.hpp`) | insertion point, `cur_value`, `cur_lvalue`, stack of scopes | one `visit` per node | makes blocks, edges and instructions through `IRBuilder` |
| LightIR (`src/src/lightir`) | operands and use lists, predecessor and successor lists, instruction lists, interned types and constants, names | creation, `set_operand`, `replace_all_use_with`, `remove_use`, erasing, printing | every pass |
| `PassManager`, driver (`cminusfc.cpp`) | list of passes | `add_pass`, `run` | Mem2Reg, then GVN, then printing |
| `Dominators` | `reverse_post_order_`, `post_order_id_`, `idom_`, `dom_frontier_`, `dom_tree_succ_blocks_` | `run` | called by Mem2Reg |
| `Mem2Reg` | `var_val_stack` (global), phis, recursion over the dominator tree | `run` | changes operands and use lists, erases loads, stores, allocas |
| `FuncInfo` | `is_pure`, `worklist` | `run`, `is_pure_function` | one owned by GVN, one by each DeadCode; reads function use lists |
| `DeadCode` | `marked`, `work_list` | `run` | asks FuncInfo; changes use lists that FuncInfo and GVN read |
| `GVN`, `ConstFolder` | partitions `pin_`, `pout_`, value numbers, interned constants | `run` | runs FuncInfo, and DeadCode before and after; moves uses with `replace_use_with_when` |
| runtime library (`io.c`) | none | `input`, `output`, ... | linked into the program |

What makes each of the modelled ones correct:

* Dominators: the links are the immediate dominators of the reachable blocks,
  the frontiers are those of the definition, the tree spans the reachable
  blocks, no assert fails, and the pass returns.
* AST: what is converted is the program that was written, with its lists in
  their order and its optional parts where they were.
* Builder: what it makes does what the source says, event by event and value
  by value; every block ends in its only terminator; every operand has the type
  its instruction needs.
* Mem2Reg: phis in the iterated frontier of the stores and nowhere else; stacks
  hold values of dominating blocks only and are empty at the end; every phi has
  one pair per predecessor; the program means what it meant before.
* FuncInfo: impurity is the least set closed under callers, and does not grow
  when dead code goes.
* DeadCode: exactly the instructions that are needed stay, use lists are exact
  whenever another pass may read them, and there are at most two rounds.
* GVN: the iteration ends, and at a fixpoint; partitions are partitions; no
  value is replaced by one that differs on some path; what is computed again is
  not used any more; the use lists are exact for the DeadCode that follows.

## The modules

| module | models |
|---|---|
| `SyntaxTree` | the trees that the actions of `syntax_analyzer.y` build for a program |
| `Ast` | the AST of `ast.hpp` and its conversion in `ast.cpp` |
| `Builder` | `cminusf_builder.cpp`, `Scope`, and the parts of `IRBuilder` and LightIR it calls |
| `Cminus` | the meaning of a cminus function as a set of traces: the reference for the builder |
| `BuilderRun` | the built function run and compared with that meaning (the meaning of instructions is external) |
| `FlowGraph` | the flow graph of a function; dominance defined from paths, as the reference |
| `Dominators` | `Dominators.cpp` |
| `DominanceSpec` | what any dominator computation promises; `Dominators` refines it |
| `FuncInfo` | `FuncInfo.h`, and its second run from `GVN.cpp` |
| `DeadCode` | `DeadCode.h` with the use-list part of `User.cpp` and `Value.cpp` |
| `Mem2Reg` | `Mem2Reg.cpp`; uses the dominators and frontiers of `FlowGraph` |
| `SSARun` | the program before and after Mem2Reg run side by side (the meaning of load, store, br and phi is external) |
| `ConstFolder` | constants, and `ConstFolder` of `GVN.cpp` with ints of any width |
| `GVN` | `GVN.cpp` and `GVN.h` on one function, with `replace_use_with_when` of `Value.cpp` |
| `GVNRun` | the function before and after GVN run side by side (the meaning of instructions is external) |
| `MC...` | constants for TLC |
| `DominanceTheorems` | theorems about the definitions of `FlowGraph` and about links: what the next ones stand on |
| `DominatorsProof` | theorems about `Dominators`: its asserts, its links, its frontiers and tree |
| `FuncInfoProof`, `DeadCodeProof`, `Mem2RegProof`, `GVNProof` | theorems about these passes |
| `SSARunProof` | the theorem that Mem2Reg keeps the meaning of the program |
| `GVNRunProof` | the theorems that GVN keeps the meaning of a plain function and leaves no visible redundancy in it |

State and actions. The variables keep the names of the code. An action is one
iteration of a loop or one call or return; a loop whose iterations do not
interact (filling `dom_tree_succ_blocks_`, collecting what `sweep` deletes) is
one action. Recursion is an explicit stack (`stack` for `post_order_visit`,
`frames` for `re_name`). The order of predecessor and successor lists, of the
functions of a module and of a `std::set` of pointers is arbitrary: it is left
open where it can make a difference and fixed by `CHOOSE` where steps of
different elements do not read each other's results (joins in
`create_dominance_frontier`, instructions in `DeadCode`). A failing assert is a
step that is not enabled; an invariant says that it never happens. A null
pointer is `NoBlock`, and the entries that `operator[]` makes under it are kept.

The builder is a pure algorithm, a recursive visitor whose only input is the
tree: each `visit` is an operator from a node and a builder state to the next
state, and the state threads `cur_value`, `cur_lvalue`, the insertion point, the
scopes and the blocks. `BuilderRun` then runs the last function instruction by
instruction on symbolic arguments: values are terms, a test may come out either
way, and every new variable, load, store, call, test and return is an event.
`neg_idx_except` ends the run, as it does in `io.c`. `visit(ASTTerm &)` and
`visit(ASTAdditiveExpression &)` differ in the operators only and share an
operator here.

The tree the builder gets is not made by hand: a program is given as an AST,
`SyntaxTree` says which syntax tree the parser's actions build for its text
(with parentheses only where the grammar needs them), and `Ast` converts that
tree as `ast.cpp` does, list by list. `ReadsBack` says that the program comes
back. In the AST of the models a simple expression, additive expression or term
with one operand is that operand: the visitor passes through it.

GVN is modelled with its data structures as they are used: a partition is a set
of classes with different indexes, walked in the order of the indexes, and
`emplace` drops a class whose index is taken; members of a class and blocks of
`pout_` are in the order of addresses, which is either that of the code or its
reverse, with the phis, which Mem2Reg allocates after everything else, in their
places or behind all others (`layout`); an allocator could mix them in more ways. `replace_use_with_when` takes every use that fits, so the
order of a use list is never read and a use list is a bag here; what
`replace_cc_members` goes through is fixed before it starts, and is a set (`todo`)
from which the replacements are taken in the order of block, index and address.
Loops are functions of the number of rounds made, and value phis a recursive
function of block and expression, so that the module can be proved about. Following an iterator past the end, a null pointer or a
division that traps makes `ok` false. One action of the iteration is the visit
of one block, one action of the replacement is one call of
`replace_use_with_when`. What FuncInfo finds is the constant `Pure`, and the two
runs of DeadCode around the pass are those of module `DeadCode`; `UseListsExact`
of `GVN` is what the second one relies on. `GVNRun` then runs both functions on
symbolic arguments. What an operation on constants yields there is what the
target's instruction is described to yield (`Arithmetic`, `Conversion`: the
congruent number between `IntMin` and `IntMax`, the quotient with a small rest of
the right sign, the comparisons that hold), apart from `ConstFolder`, which
computes it with the compiler's own operators. Floats are fractions, whose
normal form (`FpC`) the two share: rounding and tests of NaN are left out.

Equality of expressions is by structure. The code compares loads, impure calls and
allocas by pointer, which is the same here: their expression holds the value they
define.

`Dominators::run` and `Mem2Reg::run` loop over the functions of the module. The
models take one function: the maps are keyed by block or by alloca, those of
different functions are different keys, and the two members that are not keyed
(`reverse_post_order_`, `post_order_id_`) are cleared for every function.
The null key of `dom_frontier_` and `dom_tree_succ_blocks_` is shared between
functions, and nobody reads it.

The operators marked "Faulty variant" in the modules are not part of any
specification. Each is a definition with a plausible mistake, and shows for one
property that the property would notice.

## The runs

| run | question | bounds |
|---|---|---|
| `builder` | is the AST the program; is what is built well formed and well typed, and does it do what the source says? | 1,490 functions: every operation on int and float atoms, one more around each, the nests of arithmetic operators, locals, globals, array locals and array parameters; nests of up to four statements; two names redeclared in two scopes; a test is true at most twice |
| `builder_float_loop` | violation: `while` on a float | one function |
| `dominators` | is everything right, does the pass return, does it refine `DominanceSpec`? | every graph on 4 blocks with at most 2 successors, up to renaming, and four on 6 blocks: nested loops, cycles with two and three entries; any list order |
| `dominators_hang` | violation: the pass does not always return | the graph of `while (..) { if (..) return 1; else return 2; } return 0;` |
| `func_info` | is purity the least fixpoint, is it reached, does it survive dead code removal? | all call graphs of 3 functions, three bodies (external; a load from a global array and a store to an own one; the store alone), 2 runs |
| `dead_code` | is the right code deleted, are the use lists right, does it end, how many rounds? | all operand graphs of 3 instructions in 2 functions |
| `mem2reg` | phis, stacks, deletions; does the program mean the same afterwards? | 6 graphs on 4 blocks, every block empty, loading, storing, or both; 4 of them with two variables copied or swapped; two values |
| `mem2reg_unset` | violation: the assert of `re_name` fails | `int x; if (..) x = 1;` |
| `mem2reg_dead_block` | violation: an alloca still in use is erased | code after an if that always returns |
| `gvn` | does it end, at a fixpoint, with sound partitions; is what it replaces the same on every path; is nothing redundant left in use? | 14 families of functions: straight code with conversions, comparisons, calls, loads and stores, diamonds, triangles, nested ifs, joins of joins, arms that return, loops, loops with an if, loops in loops and in an if, subscripts; up to 8 blocks; ints of 4 bits; 5 branches; two address orders, phis in place or last |
| `gvn_copies` | violation: a phi that reads another phi of its block | `i = 0; prev = 0; while (input()) { output(prev); prev = i; i = i + a; }` |
| `gvn_diverges` | violation: the passes never agree | a loop around `if (..) { if (..) { if (..) a = 1; } } else { if (..) a = 2; }` |

Why the bounds are enough. The smallest irreducible graph has three blocks and
the smallest one in which a chain of links is compared with a chain has four;
what needs more (several passes, links of length three, nested frontiers) is in
the 6-block graphs. For reachability arguments (FuncInfo, DeadCode) three or
four nodes contain a self loop, a cycle of two, a chain of two and a node
outside. A variable of Mem2Reg is treated independently of the others except
where its value is copied, so one variable is explored exhaustively and two
with copies. All safety properties of Dominators, FuncInfo, DeadCode, Mem2Reg
and `SSARun` are also proved without bounds (see below). The bound `MaxRuns` on
FuncInfo's runs is the number of times GVN's DeadCode runs it.

For GVN, the families reach every kind of expression, `valuePhiFunc` with the
value phi found in a class of the predecessor, with one that no class has, with
one made from the value phis of a predecessor and with none; joins of joins,
joins with top, and loops in which the first pass puts together what later ones
take apart. Not reached are the branches taken only once value numbers collide
(an instruction or an expression found in two classes at a time, classes of the
two predecessors with one index and different leaders or value phis), as in
`gvn_diverges`. A width of 4 bits makes every operation overflow on the literals
given, as 32 bits would on larger ones. Folds with a mistake are noticed: with a
wrap left out, a quotient rounded down, the operands of a subtraction swapped, one
comparison taken for another, or a conversion that wraps, TLC finds
`ActsTheSame` violated. Loop bodies are run up to twice
(`MaxBranches`), so a value of one round meets that of the next. Left out are,
because the code does not handle them: a phi that reads another phi of its block
(`gvn_copies`), an expression over two phis of one join whose sides are computed
in the arms of the next (`MCTwoJoins`), the nests of ifs in a loop of `gvn_diverges`, a division of
constants by a literal zero, which the folder performs, and functions with
neither argument nor global variable, whose entry block may compute nothing and
leave `join` an empty partition to read.

For the builder, a visit sees its node, the scopes, `cur_lvalue` and the types of
its operands, so two nested operations show each visit in each context; the
expressions include an assignment inside the index of an assigned element.
Floats as conditions of `while` are left out of `builder`, since they are what
`builder_float_loop` is about. The programs are legal: names are declared,
functions get as many arguments as they have parameters, `void` is not used as
a value, and no scope declares a name twice.

Fairness. `WF_vars(Next)` (in `GVN` stated of two actions that are together
enabled exactly when `Next` is): the compiler is a single thread that runs until it
returns, so it takes a step whenever it can. Nothing stronger is assumed.
Where a choice is open the liveness properties hold for every way to make it.

`Done` (and `Ret` in `SSARun`) stutters after the pass has returned, so that
deadlock checking reports a pass that is stuck before its end, such as at an
assert.

### What the violations show

* `visit(ASTIterationStmt &)` tests with `icmp ne` and an integer zero even when
  the condition is a float (`cminusf_builder.cpp:240`).
* `create_dominance_frontier` follows idom links from a predecessor until it
  meets the idom of the join. An unreachable predecessor has none, `get_idom` of
  null is null, and the loop never ends (`Dominators.cpp:147`).
* `re_name` asserts that a variable with a key has a value. The key stays when
  the stack has been emptied, so an `if` that sets a variable in one arm makes
  the assert fail when that arm is visited first; the comment below the assert
  says that undef will be printed.
* `remove_alloca` erases allocas that unreachable blocks still refer to.
* `copy_stmt` adds the phis of a successor to the classes of their operands one
  after the other. Where one phi is an operand of the next, as when a loop keeps
  the previous value of a variable, the second is put with the new value of the
  first and is replaced by it.
* `valuePhiFunc` looks for the two sides of the operands' value phis at the ends of
  the predecessors of the *current* block, although a value phi may belong to an
  earlier join (`GVN.cpp:495`). After
  `if (..) { x = a; y = b; } else { x = 1; y = 2; }` comes
  `if (..) z = a + b; else z = 1 + 2;`, and `x + y` is taken for `z`. No run of its
  own: with `Functions <- MCTwoJoins` in `gvn.cfg` TLC finds `ActsTheSame` violated.
* The classes that joins make get the same numbers in every pass, in the order
  in which they come up, and `intersect` takes two classes of one number for the
  same one. Where the order changes from pass to pass the partitions alternate,
  and the `do` of `detectEquivalences` goes on for ever.

One divergence of a comment has no run: `is_side_effect_inst` counts loads from
globals as side effects (`FuncInfo.h:90`), while the comment of the class
(`FuncInfo.h:12`) says that only writes make a function impure. The models follow
the code.

## The proofs

`tlapm` checks every theorem to the last leaf. They hold for every value of the
constants, under the assumptions named in the modules: the entry is a block, a
function has finitely many blocks, null is not one; no branch to the entry
block; operands are values of the same function; a declaration contains no
calls; the largest int is positive, and the six comparison operators are all there are. For Mem2Reg there is also `ProgramsAssumption`: an instruction names
values computed before it, and no edge leads from an unreachable block to a
reachable one, because Dominators would not have returned (`dominators_hang`).
Three theorems of Mem2Reg have hypotheses of their own: `SetsFirst`, that the
entry block sets every variable before it reads it, and `NoDeadAccess`, that
unreachable blocks access no variable. TLC evaluates both on the programs of
the run `mem2reg`, and `mem2reg_unset` and `mem2reg_dead_block` show what
happens without them.

**Dominance.** `DominanceTheorems` is about the definitions alone. Dominance is
defined by sets of blocks closed under edges, so each fact is proved by giving
such a set. Dominators pass along an edge; two dominators of a block are
comparable, so dominance is an order and a tree, and every reachable block but
the entry has an immediate dominator; what lies strictly below a block
lies below one of its children (`BelowChildren`). The last part is about links like those of
`idom_`, which lead from number to higher number: when one link is moved up, the
ancestors of every block stay or shrink (`AncestorsRelink`).

**Dominators.**

* The asserts. `IInv` is `TypeOK` with `VisitInv` (the search: the numbers
  of finished blocks are their positions, the stack is a path of unfinished
  blocks, every finished block other than the root has an unfinished or
  higher-numbered predecessor) and `IdomInv` (a block before `pos` in reverse
  post order has an idom with a higher number). The second part is what makes
  the asserts hold: the predecessor through which the search found a block comes
  before it, so at least one predecessor has an idom; and a climb never passes
  the root because the root has the highest number. Nothing is assumed of edges
  from unreachable blocks.
* The links. `PathInv` adds that no link passes over a dominator (`Bounded`), what
  lies above all ready predecessors of a block lies above its link (`Meets`),
  what lies above a link lies above an earlier predecessor (`Backed`), and what
  the current pass has visited without a change satisfies the equations of
  dominance (`Current`). `Backed` is there because `Meets` alone is not
  inductive: a link set early must not be overtaken by a change further up. A
  pass without a change then makes the links exact (`IdomCorrect`). The same
  invariant shows that a step shrinks the sets the links stand for, settles them
  when they are exact, or changes nothing: the refinement of `DominanceSpec`
  (`IdomRefines`).
* The frontiers. A walk that is over has filed its join wherever the definition
  wants it, nothing else is filed at a reachable block, and a walk that has
  stepped off the tree never ends, so that a pass that returns has filed nothing
  under null. From this follow `FrontierExact` and `TreeSpans`.

**Mem2Reg.** `Mem2RegProof` is layered; each part is proved inductive from those
before it.

* Phis (`PhiInv`). Phis are in the iterated frontier, and a block with a
  definition of a finished variable has phis in its whole frontier unless it is
  on the worklist. An empty worklist makes the set closed.
* The walk (`OpenPath`). The open calls are a path of the dominator tree from the
  entry. What lies below a child not called yet is pending, what else is
  reachable has been visited; that a call is made once for each block needs the
  tree of `DominanceTheorems`.
* Replaced loads (`ReplInv`). A load the walk has gone past is settled, and what
  phis and replacements refer to is settled and not replaced itself.
* Stacks (`StackInv`). A stack is cut into segments, one for each open call, as
  long as what that block has pushed so far. The heights are chosen anew in each
  step, since a return removes what its own call put there.
* Under `SetsFirst`, the values of the entry are at the bottom of each stack
  from the store on, so neither a load nor the assert finds an empty one
  (`BackExists`), and a phi has one pair for each edge that the walk has passed
  (`PhisFilled`). Loads and stores gone past are deleted or wait for their
  call to end (`AllocasRedundant`).

**The meaning of the program.** `SSARunProof` proves `LoadsAgree`, what Mem2Reg
is for, of every function on which the pass returns, with no hypothesis on where
variables are set. The *name* of a variable at a point is the value that its
nearest definition leaves, among the stores and phis in the blocks that dominate
the point. `NameInv` says of the pass that a load it has gone past became the
name of its variable there, that the top of the stack is the name at the access in
hand and the end of each segment the name at the end of its block, and that the
pair of a phi for an edge is the name at the end of the predecessor. That the
nearest definition is the right one, on paths that leave the block and come back,
rests on `PhisExact`: where two definitions meet there is a phi. `RunInv` then
says of the run that memory holds for each variable what the register of its name
holds (`MemNamed`), and that a load and its replacement agree where the load is
visible (`LoadsMatch`). A step of `SSARun` is a step of the pass or leaves the
variables of the pass alone (`RunIsPass`), so what is proved of `Spec` carries over
to `RunSpec`, which the run `mem2reg` checks.

**FuncInfo and DeadCode.**

* `FuncInfoProof`. `get_first_addr` finds an alloca exactly when the address is
  computed from one without reading memory (`FirstAddr`), so `trivial_mark` is right
  about a function alone (`TrivialRight`). Everything outside `is_pure` is impure by the definition, and
  a caller that is still in `is_pure` has a callee that is queued or in hand;
  with an empty queue the set is closed, and it contains the least closed set.
  A second run starts from the first result, which is why it can only grow.
* `DeadCodeProof`. Marked instructions are needed; an operand of a marked
  instruction is marked unless the instruction is queued or in hand. With an
  empty queue the marked set is closed under operands, so what sweep deletes is
  disjoint from what is needed and nothing kept refers to it. Exactness is
  carried from function to function and makes the second round idle.

**GVN.** `GVNProof` proves `PartitionsWellFormed` and `UseListsExact` of every
function, with whatever loops, phis and value phis. Of functions it assumes
`FunctionsAssumption` only: blocks are not empty, branches lead to blocks, and
what yields a value from one operand is a conversion, a call or a load of an
address.

* Partitions (`Good`). That no value is in two classes is not inductive: `copy_stmt`
  adds a phi to every class that has the operand as a member, and to every class
  whose expression is that constant. The invariant adds that no two classes of a
  partition have the same constant as their expression; then at most one class
  takes the phi. It has to be carried through `join`, where classes of the result come from
  different pairs, through classes dropped by `emplace`, and through the
  transfer function, where a load has its address as a "constant" expression,
  which therefore must not be a constant (`NoConstants`). `join` walks the pairs
  of classes in their order; that this order is total, and the walk meets every
  pair once, is `PairsInOrder`.
* Use lists. A replacement moves the uses of one value by users in one block; the
  use lists of that value and of the leader change together with the operands
  (`ReplaceKeeps`). It rests on this, that no value is replaced by
  itself and that the shape of the code never changes (`SameShape`).

**The meaning after GVN.** `ActsTheSame` is false in general: `gvn_copies` and
`gvn_diverges` show functions with phis that GVN breaks, and a branch back to a
block changes registers that a class was made from. `GVNRunProof` proves it where
neither occurs, of every *plain* function: no loops, no phis, every block but
the entry with one or two predecessors, which come before it in the list, every operand computed on all paths to its use, and at
most `SmallNumber` blocks, instructions of a block and arguments, so that value
numbers stay below `TopIndex`, which stands for the code's `(size_t)-1`.
The order of the list is a real restriction. The builder makes the blocks of both
arms and of the join before it visits the arms (`cminusf_builder.cpp:198`), so that
where an arm itself holds an `if` or a subscript the inner blocks come after the
outer join: such a function is not plain. Nor is one that uses the value of a
subscript, which is loaded in one arm of the test of the index and used behind it.
Plain are functions whose ifs follow one another.
Of the 187 functions of the run `gvn` 120 have neither loops nor phis; 116 of them are
plain, and the others have a block without predecessors or use the value of a subscript.

* `PassInv` says of the partition at the end of a block (`SoundAt`): a leader is a
  constant, or the first of its class in the list; a class whose expression tells an
  operation (`Tells`) consists of instructions that compute it, from operands that
  come before all of them; a class led by a constant folds to it; and classes of
  different blocks that share a value have the same leader and expression (`Alike`).
  The last part is what makes `join` and the second pass harmless: a value is given
  the expression it had before, so that numbers used again never confuse two
  values. It needs that numbers do not grow past `TopIndex` (`NumbersSmall`) and that
  no block is visited before its predecessors. During replacement an operand is
  the original one or leads its class at the end of the block (`OperandsLed`).
* Folding is right about constants (`FoldsRight`, `CastsRight`): the wrapped number is
  the only one congruent to the result, the quotient the only one with such a rest.
  The target's arithmetic and the folder's meet only there.
* `RunInv` says of the run that both programs have the same registers; that what
  dominates the instruction in hand is set (`Defined`); and that the members of a
  class that have been computed hold what the leader holds, and the leader what the
  expression yields (`Means`). An instruction keeps this (`ClassMeans`), because what
  an expression of the class was made from is not set again, and so does a branch
  (`EdgeMeans`), because classes are alike in the two blocks. Then operands hold
  the same before and after replacement (`OperandsAgree`).
* `ExactInv` is what makes GVN do its work, and `RedundancyGone` follows from it and
  `PassInv`. No operation has two classes (`Unique`): the transfer function asks for
  a class with the expression before it makes one. Every value computed in a block
  or one that dominates it is in some class (`Complete`): the number of a new class
  is above all others (`Below`), so `emplace` never takes it for one it has, and a
  join keeps every pair of classes that share a value, because the classes are alike
  in both predecessors. Of two instructions that end with the same operands, the
  second has the class of the first (`AlikeAtTheEnd`): `OperandsLed` says that
  both had operands of the same classes when the expressions were made. And after
  the last replacement no operand is a member that does not lead its class
  (`UsesReplaced`), which `UseListsExact` carries over to the use lists.

Only model-checked: termination, which is liveness and out of the prover's
reach; everything about the AST and the builder, whose conversion and visitor
are recursive operators over trees; and of GVN `AtFixpoint`, which does not hold of
every function (`gvn_diverges` and value phis, see above), and `ActsTheSame` and
`RedundancyGone` where there are loops or phis.

## Not modelled, and the plan

Not modelled:

* the lexer and the automata of flex and bison, which are generated: the model of
  the parser begins with what the grammar's actions do;
* printing of the tree, the AST and the IR, and logging: output only;
* types and constants beyond what the builder and the passes tell apart (they are
  interned, so that equal ones are one object; the models use values);
* `User::remove_operands`, which has no caller, and `create_doms` of Dominators;
* the driver and `PassManager`: a fixed sequence of passes; the order of FuncInfo,
  DeadCode and GVN within `GVN::run` is in the models of these;
* sizes of arrays, and rounding of floats.

The next modules:

1. `Naming`: `set_print_name` and `set_instr_name`: names given once must stay
   apart when instructions are made and erased between two prints.
2. The graphs of the builder given to `Dominators`, `Mem2Reg` and `GVN` in place
   of the ones listed by hand.
