------------------------------- MODULE Driver -------------------------------
(***************************************************************************)
(* The program of src/src/ifj17.c: it reads its arguments and then a file, *)
(* all of stdin, or line by line what is typed, and sends each source      *)
(* through the lexer, the parser, the pretty printer and, outside the REPL, *)
(* the code generator, which are the modules Lexer, Parser, PrettyPrint    *)
(* and Codegen.  The parser asks the lexer for one token after the other   *)
(* and tells it nothing, so the text is scanned before it is parsed.       *)
(*                                                                         *)
(* A name of a file is a sequence: the argument, and the extension if it   *)
(* was added.  The process ends with a status, or dies by a signal.        *)
(***************************************************************************)
EXTENDS Integers, FiniteSets, SequencesExt, Ast

CONSTANTS
    Starts      \* the command lines, with the files and the stdin they meet

VARIABLES
    start,      \* [args, files, tty, piped, typed]: what the process is started with
    i, argc, argv,  \* parse_args: the argument looked at, and what is left of them
    flags,      \* the file-static `ast' and `tokens'
    path, tried,    \* main: the file, and whether its name was extended
    lines,      \* what has not been typed yet
    history,    \* linenoise's history
    pc, status

\* The lexer, the parser, the printer and the generator.
VARIABLES source, offset, lineno, tok, scanning, begun, num, lexemes
VARIABLES toks, p, stmts, parsing
VARIABLES root, writing, indents, page, printing
VARIABLES frames, todo, flag, lbl, code, base, runs

argVars     == <<start, i, argc, argv, flags>>
fileVars    == <<path, tried>>
lineVars    == <<lines, history>>
mainVars    == <<argVars, fileVars, lineVars, pc, status>>
lexerVars   == <<source, offset, lineno, tok, scanning, begun, num, lexemes>>
parserVars  == <<toks, p, stmts, parsing>>
printerVars == <<root, writing, indents, page, printing>>
genVars     == <<frames, todo, flag, lbl, code, base, runs>>
vars        == <<mainVars, lexerVars, parserVars, printerVars, genVars>>

Lex     == INSTANCE Lexer WITH Sources <- {}, pc <- scanning, start <- begun, toks <- lexemes
Parse   == INSTANCE Parser WITH Texts <- {}, pc <- parsing
Printer == INSTANCE PrettyPrint WITH Nodes <- {}, Height <- <<>>, Trees <- {}, todo <- writing, out <- page, pc <- printing
Gen     == INSTANCE Codegen WITH Nodes <- {}, Programs <- {}, MaxRuns <- 1, out <- code

-----------------------------------------------------------------------------
(* The nodes the parser makes of its trees: t is one of Parser's, and all    *)
(* the nodes of its kids.  A name or a number is any.                       *)

Primaries == {"ID", "INT", "DOUBLE", "STRING"}
Primary(t) ==
    CASE t.kind = "ID"     -> id_node("id")
      [] t.kind = "INT"    -> int_node(1)
      [] t.kind = "DOUBLE" -> double_node(1)
      [] t.kind = "STRING" -> string_node("text")

Collections == {"array", "pair", "hash", "type", "decl"}
Collection(t, all) ==
    CASE t.kind = "array" -> array_node(all)
      [] t.kind = "pair"  -> hash_pair_node(all[1], all[2])
      [] t.kind = "hash"  -> hash_node(all)
      [] t.kind = "type"  -> id_node("id")
      [] t.kind = "decl"  -> decl_node(Front(all), Last(all))

\* The nine other binary levels call the constructor as multiplicative_expr does.
Operations == {"pow", "postfix", "prefix", "binary"}
Operation(t, all) ==
    CASE t.kind = "pow"     -> binary_op_node("OP_POW", all[1], all[2])
      [] t.kind = "postfix" -> unary_op_node(t.sym, all[1], TRUE)
      [] t.kind = "prefix"  -> unary_op_node(t.sym, all[1], FALSE)
      [] t.kind = "binary"  -> binary_op_node(t.sym, all[1], all[2])

Fork(all) == call_node(id_node("fork"), args_node(all, <<>>))

\* A keyword argument goes into the table of the arguments, the others into the
\* vector.
Calls == {"keyword", "args", "call"}
Called(t, all) ==
    CASE t.kind = "keyword" -> [slot |-> "id", val |-> all[2]]
      [] t.kind = "args"    ->
           LET plain == Cardinality({n \in DOMAIN all : t.kids[n].kind # "keyword"})
           IN  args_node(SubSeq(all, 1, plain), SubSeq(all, plain + 1, Len(all)))
      [] t.kind = "call"    -> call_node(all[1], all[2])

\* function_params makes an initialiser as dim_expr does.
Dims == {"init", "dim"}
Dim(t, all) == IF t.kind = "init" THEN binary_op_node("OP_ASSIGN", all[1], all[2]) ELSE dim_node(all)

Assignments == {"assign", "not"}
Assignment(t, all) == IF t.kind = "assign" THEN binary_op_node(t.sym, all[1], all[2])
                                           ELSE unary_op_node("OP_LNOT", all[1], FALSE)

Bodies == {"typedef", "scope"}
Body(t, all) == IF t.kind = "typedef" THEN type_node("id", Tail(all)) ELSE scope_node(all[1])

Functions == {"declare", "function"}
Function(t, all) == IF t.kind = "declare" THEN declare_node("id", all[3], all[2])
                                          ELSE function_node("id", all[3], all[4], all[2])

Ifs == {"if", "elseif", "else"}
If(t, all) ==
    CASE t.kind = "elseif" -> if_node(all[1], all[2], <<>>, Null)
      [] t.kind = "else"   -> all[1]
      [] t.kind = "if"     ->
           LET more   == SubSeq(all, 3, Len(all))
               closed == Last(t.kids).kind = "else"
           IN  if_node(all[1], all[2], IF closed THEN Front(more) ELSE more,
                       IF closed THEN Last(more) ELSE Null)

Simple == {"while", "return", "print", "input"}
SimpleStmt(t, all) ==
    CASE t.kind = "while"  -> while_node(all[1], all[2])
      [] t.kind = "return" -> return_node(all[1])
      [] t.kind = "print"  -> print_node(all)
      [] t.kind = "input"  -> input_node(all[1])

RECURSIVE AsNode(_)
AsNode(t) ==
    LET all == [n \in DOMAIN t.kids |-> AsNode(t.kids[n])]
    IN
    CASE t.kind = "null"         -> Null
      [] t.kind \in Primaries    -> Primary(t)
      [] t.kind \in Collections  -> Collection(t, all)
      [] t.kind \in Operations   -> Operation(t, all)
      [] t.kind = "fork"         -> Fork(all)
      [] t.kind \in Calls        -> Called(t, all)
      [] t.kind \in Dims         -> Dim(t, all)
      [] t.kind \in Assignments  -> Assignment(t, all)
      [] t.kind \in Bodies       -> Body(t, all)
      [] t.kind \in Functions    -> Function(t, all)
      [] t.kind = "params"       -> all
      [] t.kind \in Ifs          -> If(t, all)
      [] t.kind \in Simple       -> SimpleStmt(t, all)
      [] t.kind = "block"        -> block_node(all)

\* program() makes the outermost block.
Tree == AsNode(Parse!Root)

-----------------------------------------------------------------------------
(* main.                                                                   *)

Goto(l) == pc' = l /\ UNCHANGED status
Exit(s) == pc' = "exit" /\ status' = s
Die     == pc' = "dead" /\ UNCHANGED status
Idle    == UNCHANGED <<lexerVars, parserVars, printerVars, genVars>>

Arg   == start.args[i]
Taken == {"-A", "-T"}

\* One turn of the loop of parse_args.  A flag that is taken shifts the arguments
\* by one, wherever it stands.
parse_args ==
    /\ pc = "args" /\ i <= Len(start.args)
    /\ CASE Arg \in {"-h", "-x"} -> Exit(1)    \* usage, and a flag that is none
         [] Arg = "-V"           -> Exit(0)    \* version
         [] OTHER                -> Goto("args")
    /\ flags' = flags \cup ({Arg} \cap Taken)
    /\ argc' = IF Arg \in Taken THEN argc - 1 ELSE argc
    /\ argv' = IF Arg \in Taken THEN argv + 1 ELSE argv
    /\ i' = i + 1
    /\ UNCHANGED <<start, fileVars, lineVars>> /\ Idle

main ==
    /\ pc = "args" /\ i > Len(start.args)
    /\ IF argc = 1 THEN Goto(IF start.tty THEN "repl" ELSE "stdin") /\ UNCHANGED path
                   ELSE Goto("read") /\ path' = <<start.args[argv + 2]>>
    /\ UNCHANGED <<argVars, tried, lineVars>> /\ Idle

\* ifj17_lexer_init: the type of the last token is whatever the stack holds.
InitLexer(text) ==
    /\ source' = text \o <<"NUL">>
    /\ offset' = 0 /\ lineno' = 1 /\ begun' = 0
    /\ tok' \in {"ILLEGAL", "ID"}
    /\ scanning' = "scan" /\ num' = Lex!Zero /\ lexemes' = <<>>

\* eval begins.
Scan(text) ==
    /\ Goto("scan")
    /\ InitLexer(text)
    /\ UNCHANGED <<parserVars, printerVars, genVars>>

\* read_until_eof appends to memory that was never written, from a buffer that
\* nothing ends: something may stand before the text, or the process dies.
read_until_eof ==
    /\ pc = "stdin"
    /\ \/ \E junk \in {<<>>, <<"a">>, <<"@">>} : Scan(junk \o start.piped)
       \/ Die /\ Idle
    /\ UNCHANGED <<argVars, fileVars, lineVars>>

\* What is there under a name: a text, or a directory, whose size is taken for
\* that of a text no memory can hold.
File == IF path \in DOMAIN start.files THEN start.files[path] ELSE [is |-> "missing"]

\* Mutant: an extended name that cannot be read either is extended again.
ExtendedAgain ==
    /\ path' = <<path[1], ".ifj17">> /\ tried' = TRUE
    /\ Goto("read")
\* The name with the extension, once.  It is in a buffer whose block has been left
\* when the name is used.
Extended ==
    \/ /\ ~tried /\ tried' = TRUE
       /\ path' \in {<<path[1], ".ifj17">>, <<"?">>}
       /\ Goto("read")
    \/ tried /\ Exit(1) /\ UNCHANGED fileVars

\* file_read does not test what fopen returned, so a missing file is fatal; it
\* returns NULL where the size is too large.
file_read ==
    /\ pc = "read"
    /\ \/ File.is = "missing" /\ Die /\ UNCHANGED fileVars /\ Idle
       \/ File.is = "text" /\ Scan(File.text) /\ UNCHANGED fileVars
       \/ File.is = "directory" /\ Extended /\ Idle
    /\ UNCHANGED <<argVars, lineVars>>

-----------------------------------------------------------------------------
(* eval and repl.                                                          *)

Interactive == argc = 1 /\ start.tty

\* Mutant: a line goes into the history when it is read.
replEager ==
    /\ pc = "repl"
    /\ \/ lines = <<>> /\ Exit(0) /\ UNCHANGED lineVars /\ Idle
       \/ /\ lines # <<>> /\ lines' = Tail(lines)
          /\ IF Head(lines) = <<>> THEN Goto("repl") /\ UNCHANGED history /\ Idle
                                   ELSE Scan(Head(lines)) /\ history' = Append(history, Head(lines))
    /\ UNCHANGED <<argVars, fileVars>>

\* The next line, until there is none; an empty one is passed over.
repl ==
    /\ pc = "repl"
    /\ \/ lines = <<>> /\ Exit(0) /\ UNCHANGED lineVars /\ Idle
       \/ /\ lines # <<>> /\ lines' = Tail(lines)
          /\ IF Head(lines) = <<>> THEN Goto("repl") /\ Idle ELSE Scan(Head(lines))
          /\ UNCHANGED history
    /\ UNCHANGED <<argVars, fileVars>>

LexerStep ==
    /\ pc = "scan" /\ Lex!Next
    /\ UNCHANGED <<mainVars, parserVars, printerVars, genVars>>

OnlyTokens == "-T" \in flags /\ ~Interactive

Read == pc = "scan" /\ scanning \in {"end", "over"}

\* --tokens: status 0 whatever the lexer met.
Scanned ==
    /\ Read /\ OnlyTokens
    /\ Exit(0)
    /\ UNCHANGED <<argVars, fileVars, lineVars>> /\ Idle

Tokens == [n \in DOMAIN lexemes |-> lexemes[n].type]

\* A lexer that has left the text may meet the end of a string and of the text, or
\* anything else, or nothing the process may read.
ScannedBeyond == Read /\ scanning = "over" /\ Die
                 /\ UNCHANGED <<argVars, fileVars, lineVars>> /\ Idle

\* ifj17_parser_init and ifj17_parse.
BeginParse ==
    /\ Read /\ ~OnlyTokens
    /\ Goto("parse")
    /\ \E beyond \in IF scanning = "over" THEN {<<"ILLEGAL">>, <<"EOS">>, <<"STRING", "EOS">>} ELSE {<<>>} :
          toks' = Tokens \o beyond
    /\ p' = [at |-> 1, err |-> "", node |-> Parse!Null]
    /\ stmts' = <<>>
    /\ parsing' = "parse"
    /\ UNCHANGED <<argVars, fileVars, lineVars, lexerVars, printerVars, genVars>>

ParserStep ==
    /\ pc = "parse" /\ parsing = "parse" /\ Parse!Next
    /\ UNCHANGED <<mainVars, lexerVars, printerVars, genVars>>

\* Mutant: the error is reported, and that is all.
ReportedOnly ==
    /\ pc = "parse" /\ parsing = "null"
    /\ Exit(0)
    /\ UNCHANGED <<argVars, fileVars, lineVars>> /\ Idle

\* ifj17_report_error; the REPL ends here as well.
Reported ==
    /\ pc = "parse" /\ parsing = "null"
    /\ Exit(1)
    /\ UNCHANGED <<argVars, fileVars, lineVars>> /\ Idle

BeginPrint ==
    /\ pc = "parse" /\ parsing = "root"
    /\ Printer!Start(Tree)
    /\ Goto("print")
    /\ UNCHANGED <<argVars, fileVars, lineVars, lexerVars, parserVars, genVars>>

PrinterStep ==
    /\ pc = "print" /\ Printer!Step
    /\ IF printing' = "dead" THEN Die ELSE UNCHANGED <<pc, status>>
    /\ UNCHANGED <<argVars, fileVars, lineVars, lexerVars, parserVars, genVars>>

\* The page is printed: the REPL keeps the line, eval generates code.
Printed ==
    /\ pc = "print" /\ printing = "idle"
    /\ IF Interactive
         THEN Goto("repl") /\ history' = Append(history, Front(source)) /\ UNCHANGED genVars
         ELSE Goto("gen") /\ Gen!GenBegin(root) /\ UNCHANGED history
    /\ UNCHANGED <<argVars, fileVars, lines, lexerVars, parserVars, printerVars>>

GenStep ==
    /\ pc = "gen" /\ (Gen!ExpressionStep \/ Gen!StatementStep)
    /\ UNCHANGED <<mainVars, lexerVars, parserVars, printerVars>>

\* ifj17_vm_free, and eval returns 0.
Generated ==
    /\ pc = "gen" /\ Gen!Idle
    /\ Exit(0)
    /\ UNCHANGED <<argVars, fileVars, lineVars>> /\ Idle

-----------------------------------------------------------------------------
Init ==
    /\ start \in Starts
    /\ i = 1 /\ argc = Len(start.args) /\ argv = 0 /\ flags = {}
    /\ path = <<>> /\ tried = FALSE
    /\ lines = start.typed /\ history = <<>>
    /\ pc = "args" /\ status = 0
    /\ source = <<>> /\ offset = 0 /\ lineno = 1 /\ tok = "ILLEGAL" /\ scanning = "off"
    /\ begun = 0 /\ num = Lex!Zero /\ lexemes = <<>>
    /\ toks = <<>> /\ p = [at |-> 1, err |-> "", node |-> Parse!Null]
    /\ stmts = <<>> /\ parsing = "off"
    /\ Printer!Init
    /\ Gen!Init

Main ==
    \/ parse_args \/ main \/ read_until_eof \/ file_read \/ repl
    \/ Scanned \/ ScannedBeyond \/ BeginParse \/ Reported
    \/ BeginPrint \/ Printed \/ Generated

Next == Main \/ LexerStep \/ ParserStep \/ PrinterStep \/ GenStep

Spec == Init /\ [][Next]_vars

\* One process without threads: what it can do it does, and the end of what is
\* typed comes.  The second conjunct is WF_vars(ParserStep) with ENABLED written
\* out (a statement is one, or is none, or the text ends): TLC would parse anew
\* for each part of a tree to find out.
FairSpec ==
    /\ Spec /\ WF_vars(Main \/ LexerStep \/ PrinterStep \/ GenStep)
    /\ []<>~(pc = "parse" /\ parsing = "parse") \/ []<><<ParserStep>>_vars

-----------------------------------------------------------------------------
(* Properties.                                                             *)

\* The page of a tree, whose nodes are the forest.
RECURSIVE NodesIn(_)
NodesIn(n) == {n} \cup UNION {NodesIn(m) : m \in Children(n)}
S(t) == INSTANCE SExpr WITH Nodes <- NodesIn(t), Height <- <<>>
FullText(t) == S(t)!FullText(t)

Ended(a)     == i > 1 /\ start.args[i - 1] \in a    \* by its last argument
Parsed(pt)   == parsing = pt /\ IsPrefix(Tokens, toks)
PrintedWhole == printing = "idle" /\ root = Tree /\ page = FullText(Tree)

\* Status 0 and 1 tell what happened: 0 is the version, the tokens of a text, the
\* end of what was typed, or a text that was accepted, printed from its first
\* piece to its last and turned into a whole program; 1 is the usage, an unknown
\* flag, a name that is a directory with and without the extension, or a text
\* that was rejected, and of which nothing was printed.
StatusTells ==
    pc = "exit" =>
        IF status = 0
          THEN \/ Ended({"-V"})
               \/ OnlyTokens /\ scanning \in {"end", "over"}
               \/ Interactive /\ lines = <<>>
               \/ Parsed("root") /\ PrintedWhole /\ code # <<>> /\ Last(code) = Gen!NL
          ELSE \/ Ended({"-h", "-x"})
               \/ tried /\ File.is = "directory"
               \/ Parsed("null") /\ code = <<>> /\ (Interactive \/ page = <<>>)

\* The parts a node may lack and the printer visits.
Lacks(n) ==
    \/ n.kind \in {"prefix", "input", "call"} /\ Last(n.kids) = Parse!Null
    \/ /\ n.kind = "args" /\ \E c \in ToSet(n.kids) : c.kind # "keyword"
       /\ \E c \in ToSet(n.kids) : c.kind = "keyword" /\ c.kids[2] = Parse!Null

\* The process dies only of a file that is not there, of what it reads stdin
\* into, of reading on behind the end of a text, and of an accepted text that
\* lacks an operand, and then before a line of code is generated: the printer
\* comes upon every NULL that the generator would dereference, and upon no other.
DiesOnly ==
    pc = "dead" =>
        /\ code = <<>>
        /\ \/ path # <<>> /\ File.is = "missing"
           \/ argc = 1 /\ ~start.tty /\ scanning = "off"
           \/ scanning = "over"
           \/ /\ Parsed("root")
              /\ page # FullText(Tree) /\ page = S(Tree)!Text(Tree)
              /\ \E n \in Parse!AllNodes : Lacks(n)

\* What was typed so far, without the lines with nothing on them.
Typed == SelectSeq(SubSeq(start.typed, 1, Len(start.typed) - Len(lines)), LAMBDA line : line # <<>>)

\* The history holds what was typed up to now, in that order, but neither an empty
\* line nor one that was rejected or that nobody could print; and each line is
\* printed from its first piece to its last, whatever was printed before it.
HistoryKept ==
    Interactive /\ Typed # <<>> =>
        /\ history = IF pc = "repl" \/ (pc = "exit" /\ status = 0) THEN Typed ELSE Front(Typed)
        /\ pc = "repl" => PrintedWhole

\* Whatever it is started with, the process ends.
Ends == <>(pc \in {"exit", "dead"})

\* A file that is there under the extended name is read.
ExtensionTried ==
    pc = "dead" /\ path # <<>> => Append(path, ".ifj17") \notin DOMAIN start.files
=============================================================================
