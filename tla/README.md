# A TLA+ development of the IFJ17 compiler

The repository is a compiler for the IFJ17 language, a BASIC, to the three-address
code IFJcode17, written in C. This directory holds models of its parts and of the
whole program, the configurations TLC checks them with, and proofs checked by TLAPS.
Paths below are those of the repository, under `src/`.

## 1. The system

| Component | Code | State | Operations | Model |
|---|---|---|---|---|
| lexer | `src/lexer.c` | source, offset, line, last token | `ifj17_scan` and its loops | `Lexer` |
| tokens | `src/token.h` | none | the types | in `Lexer`, `Parser` |
| parser | `src/parser.c` | current token, first error | one function per grammar rule | `Parser` |
| AST | `src/ast.c`, `ast.h` | none | constructors | `Ast` |
| visitor | `src/visitor.c` | none | dispatch by type | in `PrettyPrint`, `Codegen` |
| pretty printer | `src/prettyprint.c` | `indents`, from call to call | one handler per node type | `PrettyPrint` |
| code generator | `src/codegen.c` | 22 file-static ints, the output | one handler per node type | `Codegen` |
| hash | `src/hash.c`, `deps/khash.h` | a khash table | set, get, has, remove, each, size | `Hash` |
| string interning | `src/string.c`, `state.c` | a khash table | `ifj17_string` | `Hash` |
| driver | `src/ifj17.c`, `utils.c` | flags, arguments, history | `main`, `parse_args`, `eval`, `repl`, reading | `Driver` |
| error report | `src/errors.c` | none | one message | in `Driver` |
| virtual machine | `src/vm.c`, `opcodes.h` | registers, constants, ip | `ifj17_eval` | no, never runs |
| objects, vectors | `src/object.c`, `vec.c` | none | allocation | no |

`main` takes its flags off the arguments and reads a file, all of stdin, or line by
line what is typed. Each text goes to `eval`: the parser pulls tokens out of the lexer
one at a time (`next`) and builds a tree, or returns NULL with an error, which is
reported and ends the process; the tree is pretty printed, and `ifj17_gen` walks it
with a visitor whose handlers print IFJcode17. The REPL parses and pretty prints only,
with one printer for all lines. `test/test.c` runs the whole chain many times in one
process, where `main` runs it once. There are no threads, no signals and nothing is
persisted.

What is hard in this code is sequential:

* the code generator and the printer pass context through file-static variables that
  one handler sets, another one reads and a third must take back, with nested calls of
  handlers in between, and that outlive a call of `ifj17_gen` or `ifj17_prettyprint`;
* labels are numbered by global counters that nested statements move;
* the lexer decides by reading ahead and giving back one character, and finds the
  end of the text only where a loop tests for it;
* the parser is a recursive descent that stores what came back without testing it
  in several places, and shares one rule for the ends of all blocks;
* a table is rehashed inside the array it is in: entries kick one another out;
  removed entries keep their buckets, so a table fills up while its size does not grow;
* the driver uses what it did not test (`fopen`), what nobody wrote
  (`read_until_eof`) and what has gone out of scope (the extended name).

`PROJECT.json` lists each of these hazards at its line.

What makes each part correct: the lexer loses nothing, takes nothing in a comment
for code, ends each line with at most one semicolon and stops at the terminator; the
parser accepts what is written by the grammar, keeps the operands of a whole statement, and groups by
precedence; the printer writes the page of a tree whatever it printed before; the code
generator prints well-formed lines, labels that are unique and defined, and jumps that
go to their own branch or loop, and leaves no context behind; a table answers like a
dictionary, in every state and half way through a rehash; the status of the process
tells what happened.

## 2. The modules

| Module | Content |
|---|---|
| `Lexer` | the scanner, one turn of its loops per step |
| `MCLexer`, `LexerProofs` | families of texts; where the scanner reads and what its numbers are worth, for every text, and what its tokens say of every neat one |
| `Parser` | the recursive descent as recursive operators; a step is one statement of the program |
| `MCParser` | families of token sequences, and trees to write and parse back |
| `Ast` | nodes, their constructors and members; forests, the sets of nodes that hold all that hangs below them |
| `MCAst` | the nodes of a set of small trees, and their heights |
| `Induction` | induction on naturals with sets for predicates; recursion; concatenations |
| `PrettyPrint` | the printer: what the handlers on the stack have still to do; the refinement |
| `Page`, `SExpr` | the pieces of a page; the page of a tree as a function of the tree and its depth |
| `Writer` | the promise of the printer, which `PrettyPrint` refines |
| `MCPrettyPrint` | families of trees |
| `PrettyPrintProofs`, `PrettyPrintPromiseProofs` | the indentation; the refinement, for every forest |
| `Codegen` | the code generator: state machine with an explicit call stack |
| `MCCodegen`, `CodegenProofs`, `CodegenTidyProofs` | families of trees; labels and types, for every forest, loops, one inside the other, and labels that do not meet; the code of tidy programs |
| `Hash` | the tables of khash, one turn of a loop per step, under hash.c and string.c; the refinement |
| `Dictionary` | the promise of the tables, which `Hash` refines |
| `MCHash` | keys that collide |
| `HashProofs`, `HashPromiseProofs` | paths stay open; the counts, what follows from odd strides, and the refinement, for all keys and hashes |
| `Driver` | the program; it composes `Lexer`, `Parser`, `PrettyPrint` and `Codegen` |
| `MCDriver` | command lines, files and texts |

### Codegen

`frames` is the C call stack as far as handlers that visit blocks are on it: an
activation records the handler `h` (`gen` for `ifj17_gen` itself), its node, where it
stands (`pc`, and `i` in its `ifj17_vec_each` loop) and `visit_if`'s local
`mem_else_if_num` (`mem`). `todo` is what is left of the current expression or simple
statement: nodes to visit, tokens to print and assignments to make. A handler that
calls `visit` in the middle of its body puts the rest of its body behind the visit, so
each flag is read when the C code reads it. `flag` and `lbl` are the file-static ints;
`glob_var`, `loc_var` and `rel`, which nothing reads, are left out. `out` is the
printed text as tokens; spaces are left out, line ends are kept, as is the number in a
label. `base` and `runs` record where a run of `ifj17_gen` began; they exist for the
properties and for the bound.

`visit_while` and a few others print with `printf` where the rest uses `print_func`.
Under `main` both are the same stream, which is what is modelled; the tests set
`print_func` to a buffer, and what `printf` writes is lost to them.

`visit_id` calls `emit_op` with an id node, whose "operator" is half of a pointer. No
case of the switch matches one, so nothing is printed.

`Nodes` holds every node of the programs, with all that hangs below them: `Forest` says
that a member which the struct declares as a pointer is a node or NULL, that a vector
holds such, and that members the constructors take by their own type (a block, the
elseifs of an if, the assignments of a `dim`) are nodes of that type. Nothing is said of
depth. The runs build it from their trees (`NodesOf`), and TLC checks the assumption on
each; the actions never look at it. `CallsAssumption` is the one thing more that is
assumed: `eval` prints a tree before it generates code for it, and the printer
stops the process at a call without arguments.

### Lexer

A source is a sequence of items, each a character, except that a word stands for the
letters of a keyword. `Peek(k)` is the k-th item ahead; behind the terminator it is
`"PAST"`, and a case that reads it, or steps over the terminator, goes to `over`, after
which nothing is claimed. A keyword stands for its letters only where no name, number or
escape would take some of them for its own (`SourcesApart`): the letters of `1else`, whose
`1e` is the beginning of a number, or of `\xend` are items of their own, and a text is
never glued together from keywords; `elseif` is an item as `else` and `if` are. Each case of the switch in `ifj17_scan` is an action, and a
number is scanned one character per step because its value is built up on the way.
`tok` is not initialised by `ifj17_lexer_init` and read by `need_semi` at the first
newline, so both outcomes are initial states. Operators are a table, tried longest
first, which is what nested switches with `undo` amount to; NothingLost checks that
nothing is lost between them.

`Modes` tells what each item of a text is, by rules that know nothing of the scanner, and
NothingLost, AutoSemicolon and LineNumbers compare the tokens with it. They hold of
`Neat` texts: no division, no apostrophe inside a block comment but the one that ends it,
and line comments that hold something and begin with no `/`; the hazards at
`lexer.c:434`, `436` and `487` are what the others run into. `NeatIsNeat` checks that the
texts of `lexer_code` are neat, and among them are all neat texts of up to five items
over seven (`NeatRough`).

### Parser

Each C function is an operator from a position to a position: `at` (the current
token), `err` (the first error) and `node` (what the function returned, `Null` for
NULL). `Then` is the early return after NULL. The functions that C declares ahead of
their definition are called through `rule`. A step is one turn of the loop in
`program`. Trees carry the index of the token a node stands for, so that "nothing is
lost" can be said; `Driver` turns them into the nodes of `Ast`. The ten functions from
`multiplicative_expr` to `logical_or_expr` are one operator over the table `Levels`.
`function_expr` is never called and not modelled. The writer `Text` in the second half
is no code: it says how a tree is written, so that PrintsBack can ask for the same tree
back.

The parser accepts statements that are broken: it stores the NULL of a failed operand
without a test, and print, input and a keyword's value go on after an expression that
failed half way. What is claimed of these is said by two action properties about the
statement a step reads. MissingInText: a part is NULL only where the printer tests for
it, or in the four places where the printer visits it untested and dies (the operand of a
prefix operator, the arguments of a call, the value of a keyword behind a plain argument, the variable of an
input; `prettyprint.c:205`, `303`, `314`, `404`), and in these only when the text lacks
it. TokensKept: whatever failed, the tree has the tokens in the order of the text and
none twice; and it has all of them unless one of the four is missing or a print list
ends in a broken expression. `print a =`, `input [c` and `f(b as [c)` are in the texts
of the run; they are accepted and do lose `a` or `c`, which no property forbids.

### PrettyPrint

A handler is a sequence of items: pieces to print, nodes to visit, and steps of
`indents` up and down; `todo` is what the handlers on the stack have still to do, so
`indents` is read when the C code reads it. `indents` and nothing else survives a call.
`Nodes` is the forest of the trees, as in Codegen, and `Height` says that it is built
from its leaves up: the parser makes the parts of a node before the node.
`pageOf` in `SExpr` is the page of each node, made of those of its parts (`Form`), with
the depth as an argument: that it agrees with handlers that share one counter is what
KeepsPromise says. `Writer` allows the page of a tree to appear in any pieces, as long as what is
there is the beginning of the page; a page ends early only where a node is missing.

### Hash

`h` is the `kh_..._t` of C with its flags and entries; `new` is what `kh_resize`
allocates; `carry` the entry that is between two buckets. `i`, `last` and `site` are the
locals of the loops. `Stride` stands for `__ac_inc`: a path goes from `Home` on in steps
of its key's stride, masked. Each turn of the loops of `kh_get`, `kh_put` and
`kh_resize` is a step, so the properties also look at tables that are half rehashed. A
call is what `Ask` picks; the interfaces differ in what they do with the bucket found.
`Dictionary` has no buckets; `AsMap` maps the live entries of both sets of flags, and
the one that is carried, to its `dict`. `edge` names what `ifj17_hash_has` and
`ifj17_string` find behind the last bucket when the key is absent. A key is its letters.
The code stores the pointer that it was called with (`string.c:36`, `hash.c:14`), and not
the copy `ifj17_string` has just made: a caller that changes or frees its buffer changes
the key in the table. No property is about that, and the models do not have it.

### Driver

The four components are instances, each with its own variables; a step of the program
is a step of `main` or of one of them. The parser asks for tokens one by one and tells
the lexer nothing, so the text is scanned first. `AsNode` makes the nodes of `Ast` of
Parser's trees, by the constructor calls of each grammar function. `-A` sets a flag that nothing reads.
Undefined behaviour is a choice: something may stand before what `read_until_eof` reads,
or the process dies; the extended name may be any other name; a lexer that left the
text finds the end of a string, something illegal, or a page that is not mapped.

## 3. The runs

All runs set CHECK_DEADLOCK FALSE: the program ends.

| Run | Question |
|---|---|
| `codegen_flat` | do two statements after each other print good code and leave no context? |
| `codegen_nested` | do ifs nested in ifs, loops and functions jump to their own branches? |
| `codegen_twice` | does a second program in the same process still come out right, and do both end? |
| `lexer_code` | is every character of code in one token, each line ended and counted, and what is a number worth? |
| `lexer_rough` | where does the scanner stop on texts without any structure? |
| `parser_texts` | what does the parser make of anything like expressions or statements, and does a program come back as it was written? |
| `prettyprint_pages` | is each page the page of its tree, whatever was printed before, and does it tell its tree? |
| `hash_tables` | do the tables answer like a dictionary, and does every search and every rehash end? |
| `driver_starts` | what does the status of the process tell, what can it die of, and does it end? |

KeepsPromise of `prettyprint_pages` is the refinement PrettyPrint => Writer, and Returns
that each call ends; KeepsPromise of `hash_tables` is the refinement Hash => Dictionary, and
Answers the liveness of `Dictionary` under the fairness of `Hash`.

### Runs that show a disagreement

| Run | What TLC finds |
|---|---|
| `codegen_nested_labels` | an if in a branch of an if prints the END_IF label of the outer one (comment `codegen.c:692`) |
| `parser_nested_else` | an if in a branch takes the `else` of the outer if; the test `if-else-if-nested.ifj17` is rejected |
| `driver_extension` | the process dies of a name without extension and never tries the extended one (comments `utils.c:27`, `ifj17.c:196`, usage `ifj17.c:49`) |

Smaller disagreements were met on the way and have no run of their own: a call in a
function's body prints no CALL (`codegen.c:582`, against `functions/factorial.out:18-20`);
behind two inner loops the outer one jumps into itself (`codegen.c:156`, against
`while/nested-loop.out:7-11`); a loop closed by `<>` prints no jump back
(`codegen.c:155`, against `while/with-body.out:9`); strings that are not closed, and a
final `/` or apostrophe, are read past the terminator (`lexer.c:193`, `435`, `487`); a
backslash is the token `token.h:75` spells `/=`; `1e2-3` is one number and `1e+2` is
1e-48 (`lexer.c:349-352`, against the comment at 344); `input` without an expression,
`-` without an operand, `f(a,)`, `scope` ... `loop`, `print a =` and `f(b as [c)` are
accepted by the parser, and the first three kill the printer; a directory is the only name for which
the extension is tried. Each is a hazard in `PROJECT.json` with the way the models
treat it.

### Bounds

* `MaxRuns = 2`: what survives a run is in `flag` and `lbl`; two runs let every value
  that one program leaves meet the beginning of every program. The flags that matter
  are 0 again, and the counters enter only into label numbers.
* Codegen programs: two statements after each other (`codegen_flat`), because a leak
  is from one statement to the next; ifs with up to two elseifs, nested to depth 2,
  because a counter moved by an inner if or by a chain is the hazard.
* Texts of the lexer: 4 to 6 items over one alphabet each for code, operators, lines,
  keywords and numbers (without a `+`, which the code takes for a digit). Decisions of the scanner look at most 4 items ahead. Comments
  are glued from pieces, four at a time, so that code stands before, between and behind
  two of them.
* Texts of the parser: up to 5 tokens over several alphabets, the arguments of a call up
  to 6; expressions that fail half way behind print and input, in calls and keywords; up to four pieces of statements; trees of depth 2 for expressions (every level
  next to every other) and 3 for statements.
* Trees of the printer: every kind of expression over every other, every kind of
  statement, blocks of up to two statements, nested to depth 3. There is no bound on
  the number of calls: `indents` is all that survives, and it returns to 0.
* Tables: the interface of values has four keys, three of which can be removed, which
  is enough to fill four buckets with deleted ones, to clean and to double them; the
  strings are seven, which doubles four buckets to eight and to sixteen. The hashes are
  chosen so that keys share first buckets and cross paths. There is no bound on the
  number of calls on values.
* Starts of the driver: every command line of up to two arguments, every text from a
  file and from stdin, any two of them typed one after the other.

What the families leave out, because the code is known to break the property there
(each is in `hazards`): two divisions in one program; `>` and `<` outside
`codegen_nested`; loops closed by `<>` outside `codegen_nested`; two loops after each
other inside a third; `dim` with an initialiser; calls with two arguments, and calls in
functions; `>=`, `<=`; negated variables; `+` in a number; block comments with an
apostrophe apostrophe inside; empty line comments; divisions, in `lexer_code`; a branch ending in an
if before an `else`. So LabelsUnique does not catch the second division (`codegen.c:102`):
it is about the other labels. Some hazards are in the families and exempted by
the property: TellsApart names the calls that lose their keyword arguments
(`prettyprint.c:303`), TokensKept the broken statements above, and NumberValue judges neither
the overflow of an int nor what a truncation leaves. And with sixteen buckets
`hash_tables` never asks for an absent key: what `hash_has` reads there is covered by the
theorem `PromiseKept` alone.

### Fairness

`FairSpec` of Codegen is weak fairness of the handlers' steps, and not of a new run;
that of PrettyPrint and of Hash is weak fairness of the steps of a call, and not of
making one: C runs on, and nobody needs to call. `FairSpec` of Lexer is weak fairness of
the whole scanner: the parser calls `ifj17_scan` until it returns 0. The parser's
termination is stated as an action property (Progress: each turn of the loop consumes a
token), since its steps are recursive functions. `FairSpec` of Driver is weak fairness of
every part of the process, and the lines typed come to an end. Its second conjunct is
weak fairness of `ParserStep` with ENABLED written out: as long as `parsing = "parse"`
the loop in `program` can turn, and deciding that by ENABLED parses anew for each part
of a tree.

## 4. The proofs

TLAPS proves, for every set of programs and of texts, for every forest of trees, and
for all keys, hashes, odd strides and calls (where a theorem is about a class of
programs or of texts only, the paragraph says which):

`CodegenProofs`
: `BranchLabelsUnique` (ResIfUnique), `BranchLabelsResolved` (ResIfResolved),
  `ConditionsRouted` (BranchRouting), `LoopLabelsUnique` (LoopUnique). ResIfUnique is not
  inductive: whether the label about to be printed is new depends on the activations
  on the stack. The strengthening counts ownership: the RES_IF numbers that this run
  has taken are `base + 1 .. else_if_num`; each is defined in the output or owed by
  exactly one activation of `visit_if` (`Owed`: in its conditions an activation owes
  one number per condition visited, in its blocks those of the blocks to come), and
  none is both. LOOP labels only need that none is above `mem_loop_num`. Handlers of
  expressions are quiet: they print no RES_IF or LOOP definition and take no number.
  `LabelTypeOK` is the part of the type invariant this needs.
  `Types` (TypeOK): a step adds to a flag what an item of `todo` says, and pushes an
  activation with a node that the item holds, so the invariant types the items
  (`ItemOK`: they assign ints, and visit a node of the forest or what is left of the
  vector of a declaration) and the activations (`Activations`: a node of the type the
  handler takes, and no more elseifs counted than there are). Every handler of an
  expression has a lemma that its items are such, from `Forest`.

  `LoopsRouted` (LoopRouting) and `EachLoopRepeats` (the second part of JumpsResolved,
  `LoopsRepeat`) are about the class `LoopsChained`: each loop is closed by `==`, and
  none holds two loops side by side, at any depth. Outside of it the theorems are false
  (the disagreements at `codegen.c:155,156`). `visit_while` sets `loop_num` from one
  counter, and conditions count it down, so behind an inner loop it is right only if
  the two have moved as far. No expression changes loop_num - from_loop (`Current`):
  what prints the target of a loop takes one off both. The invariant: the
  innermost loop on the stack has the number `Current` (`Numbered`); the loops on it are
  numbered one by one, and a loop whose number is not the last one given has closed
  another inside it, so that nothing it has still to visit holds a loop (`Chain`,
  `Single`, `Spent`). For the second theorem each LOOP label of the output is closed by a later
  jump, or its activation is on the stack, or the waiting `==` will print the jump
  (`Repeating`).

  `LabelsDefinedOnce` (LabelsUnique) is about the class `LabelsApart`: no if in a branch
  of an if, one scope, functions with names of their own, and no division. Outside of it
  the theorem is false: the END_IF and RES_ELSE of an if get the number of the one inside
  it (the run `codegen_nested_labels`), and each division prints the labels of the first.
  `MCCodegen` checks that the undivided programs of the families are in the class
  (FamiliesAreApart). The RES_IF and LOOP labels are unique already. Of the others the
  activations tell which are still to come: those of an if that is open, those of
  the scope and of functions behind it. The invariant (`Apartness`): a label that is to come
  has not been printed, none is printed twice, and an if in a branch is not
  there, so nothing moves the counters of an open if (`Sheltered`). A step prints a label that was
  to come and brings none back (`Fewer`); expressions print no LABEL of theirs.

`CodegenTidyProofs`
: `ContextTakenBack` (FlagsClean), `LinesFitTogether` (CodeWellFormed) and
  `ResultsFollowCalls` (ResultsReturned), for the class `Tidy` of Codegen: blocks outside
  a scope and blocks inside one, in which ifs, loops, functions and scopes nest freely, the
  operands of operators are leaves, conditions of ifs are `==`, `<>` or `=`, those of
  loops `==`, a unary operator stands alone on the right of `=`, calls stand there inside
  the scope with one argument at most, and a `dim` has no initialiser. What is left out
  does leave a flag behind or a line unfinished (`hazards`). `MCCodegen` states that the
  families of the runs that check these properties are tidy (FamiliesAreTidy), and those of the
  loops chained (FamiliesAreChained), and TLC evaluates both, so the classes are not
  empty and the runs are inside them. The argument: handlers print pieces of a line and
  leave the rest to whatever they visit, so no piece is right by itself. An item of `todo`
  therefore takes the flags and what the current line still lacks to other flags and
  another lack (`Effect`; a token takes the next operand off the lack, a visit of a tidy
  node does what `Core` says of it), `Leads` says the same of a list of items, and each
  handler's items do together what its visit does. The invariant, `StaysTidy`: `out` has
  led from the start of a line to what the line lacks now (`Trace`), and `todo`
  leads on to the start of a line with every flag of context taken back (`Placed`).
  The flags are clean when `todo` is empty, and the lines are those of the trace
  (`Shapes`). That a POPS follows the DEFVAR of a parameter or a CALL is carried in the
  same place: what is at hand tells whether a POPS may come next.

`LexerProofs`
: `LexerTypes` (TypeOK), `TerminatorAhead` (WithinSource), `OverrunsAreKnown`
  (OverrunShapes). The first two are inductive with the fact that the text has one NUL,
  at its end: a case that goes on has seen, in the last item it took or the next one, an
  item that is neither NUL nor beyond. For the third, what an open string has read
  (its opening, and no closing quote) is carried along.
  `NoCodeIsLost`, `SemicolonsInserted` and `LinesCounted` (NothingLost, AutoSemicolon
  and LineNumbers, of every neat text) share one invariant, `TextInv`. It compares the
  loops of the scanner with the modes of the text. Between tokens the mode is one of
  code, or a comment ends at the next item (`Ready`); inside a token every item is code
  (`Inside`), unless an open string has swallowed the NUL; `lineno` is the number of line
  ends behind the scanner (`OnLine`), and none of them is behind the last token if that
  token ends a line (`LineOpen`). Three lemmas say what a returned token, a skip and a
  loop that goes on must show of the items they took (`TokenKeeps`, `SkipKeeps`,
  `GoOnKeeps`), and each case of `ifj17_scan` shows it: a run of items that leave the
  mode alone stays in it (`ModeRun`). Neatness is used for `/` and the apostrophe and
  nowhere else.
  `NumbersAreRead` (NumberValue) says of each number what its text is worth, as long as
  no number holds a `+`, which `lexer.c:352` takes for a digit (`NoPlus`). The scanner
  builds the value character by character, the property computes it from the whole text
  by recursive functions. So the invariant (`NumInv`, `SoFar`) compares the value at hand with
  that of the text read so far, and each loop needs the value of a text with one more
  item (a digit, an underscore, the point, the exponent's sign). What the functions are
  is not by definition: that they exist is `Recursion` of `Induction`.

`PrettyPrintProofs`
: `DepthIsOwed` (IndentsOwed). Each handler steps `indents` up as often as down, so the
  items it puts on `todo` weigh nothing, and `indents` is what is still owed. Vectors are
  of any length: what their elements make weighs nothing together if each weighs nothing
  (`FlattenClosed`), and that each visits nodes of the forest comes from `Forest`.

`PrettyPrintPromiseProofs`
: `KeepsWritersPromise`: Spec => KeepsPromise, the refinement PrettyPrint => Writer.
  `Says(s, d, t, e)` relates a list of items to what it prints when it is begun at depth
  d, and to the depth e at which it ends; a visit prints the page of its node
  (`SaysOne`, `SaysCat`, and `SaysEach` for what the elements of a vector make). Each
  handler says the form of its node, given that the pages of its parts are sequences,
  and ends at the depth where it began (`HandlerSays`, one lemma per handler). Since the
  parts of a node are lower than the node, `pageOf` exists (`PageOf`), and each page is
  what its handler prints (`HandlerPrintsPage`, by `Least` over the heights). The
  invariant `Telling`: what `todo` says from `indents` on, down to depth 0, is what
  `out` still lacks of the page, and there is no hole in `out`. A step prints the
  beginning of what is said (`Prints`) or nothing (`StutterTells`); a NULL to be visited
  is the first hole of the page (`NullTells`). `Owed` is used to know what an item
  can be.

`HashProofs`
: `EntriesFound` (PathsOpen) and `TablesTyped` (Hash's TypeOK, which no run repeats).
  PathsOpen says that an entry is reached in fewer steps than there are buckets, over
  buckets that are not empty. The invariant says it without the bound (`OnPath`: after
  some number of steps), because then a step of a loop is a step of the path
  (`PathGoesOn`), and a bucket that is filled or marked as deleted cuts no path
  (`PathKept`); the bound comes back at the end, since a path of n buckets comes round
  after n steps (`WalkedRound`, from four lemmas about the mask, which is a remainder).
  What the loops know is carried along: `kh_put` stands on the path of its key and so
  does the deleted bucket it keeps in mind (`Putting`); a carried entry stands on its
  path in the new table (`Kicking`); during a rehash the old buckets hold keys, and the
  new ones are on the paths of the new table (`Moving`). Nothing here depends on the
  stride being odd.

`HashPromiseProofs`
: `RoomIsLeft` (RoomLeft) and `EachKeyOnce` (KeysOnce). Both need that a search does not
  come round to its first bucket. n steps visit n buckets if the stride is odd and n a
  power of two; since a quotient by 2 cannot be repeated without induction over data,
  the invariant carries what the power is needed for, `Passes(n)`: n divides a multiple
  of an odd number only if it divides the factor. Four buckets have it, and doubling
  keeps it (`PassesTwice`). Two steps of a path then meet only a whole round apart
  (`RoundApart`), so n of them are an injection, hence a surjection
  (`EveryBucketWalked`), and a path that came round would have left no bucket empty
  (`ComesRound`). `Counted` keeps the numbers of the table equal to the cardinalities
  they stand for, also half way through a rehash, and below the upper bound, which is
  below n: so an empty bucket is left, and a full table is never refused a resize
  (`NeverRefused`). `Distinct` says that no two entries have a key in common, `Looking`
  what `kh_put` has seen on its way: when it takes a bucket that is not live, the key is
  nowhere (`NotBehind`, from the paths of `HashProofs`).

  `PromiseKept`: Spec => KeepsPromise, the refinement Hash => Dictionary. The mapping
  reads a function off the entries (`Mapped`), which is well defined because keys
  occur once. Steps between a question and its answer leave the entries as a set alone
  (`PutHides`) and are stutters, or `Grow` when the number of buckets passes one of the
  edges; an answer needs that a search which found nothing means that there is nothing
  (`Sought`), and `ifj17_string` that its key is still missing when it is put
  (`Serving`). For the walk, the n-th live bucket exists and is the only one (`Ranks`).

The library's induction theorems take the predicate as a parameter, which none of the
provers can instantiate. `Induction` has it as a set instead: that a set of naturals has
a least element follows from the library's theorem that finite sets are well founded
(`Least`), and `UpTo` is induction on 0 .. n. So the recursive functions of `Modes`,
of `FlattenSeq` and of `pageOf` are shown to exist, as are those that give the value of a
number (`Recursion`: a function with a given value at 0 and a given step exists), and
facts about vectors and runs of items are proved for every length.

The assumptions are those of the modules: `MaxRunsNat` (a bound), `SourcesOK` (a
text holds no NUL), `SourcesApart` (a keyword is not glued to a name, which no proof uses), `CodeAssumption`, `StrideAssumption` and Hash's `CallsAssumption`
(hashes are naturals, strides are odd, as `__ac_inc` makes them, calls name keys); of the
trees, that they are a forest (`NodesAssumption` in SExpr and Codegen), built from its
leaves up (`HeightAssumption`), that programs are blocks of it (`ProgramsAssumption`,
`TreesAssumption`), and that a call has its arguments (Codegen's `CallsAssumption`).
Operators, names and the nesting of
nodes are free: no proof needs that the parser could have built the tree. A forest says
what the structs of `ast.h` say, and the parser stores NULL where a member may be NULL
here.

Model-checked only: the jumps of JumpsResolved (that its loops repeat is proved) and the
labels of a division, which hold on the families named and not in general: nested ifs
and a second division break them, and a program without a scope lacks the label it begins
with;
TellsApart, which compares two trees in their pages; liveness under fairness, which TLAPS
cannot prove (of the tables, what it rests on is proved: no search comes round);
everything about the parser and the driver, whose operators are RECURSIVE, and tlapm has
no backend for a module with those.

## 5. Not modelled

* The virtual machine: the calls of `ifj17_eval` are commented out (`ifj17.c:161`), and
  `ifj17_gen` emits no instruction.
* Objects and vectors: allocation and field access; sequences stand for vectors. Memory
  is never reclaimed, and allocation is taken to succeed except in `ifj17_string`.
* In the lexer: the buffers of 128 bytes, the letters of names, the characters an escape
  stands for, and the width of ints.
* In the parser: names of keyword arguments (two equal ones: the later replaces the
  earlier), line numbers, and the text of errors.
* In the printer: `inspect`, which escapes a string; the branch for `let`
  (`prettyprint.c:216`), which no parser sets; the handlers of subscript and slot are
  modelled, though the parser builds neither.
* In khash: shrinking and `kh_clear`, which nobody calls, and failing allocations.
* linenoise, beyond the lines it returns and the history it keeps.

## 6. What could follow

The jumps of JumpsResolved for the programs of `LabelsApart` with a scope, and
LabelsUnique with one division. A machine for IFJcode17 as the acceptance tests use it
and an abstract meaning of the statements, with the code of flat programs shown to
implement it.
