------------------------------ MODULE MCDriver ------------------------------
(***************************************************************************)
(* Command lines, files and texts for Driver.                              *)
(***************************************************************************)
EXTENDS Driver

Move  == <<"a", "=", "1", "LF">>
Cond  == <<" ", "a", "=", "=", "1", " ">>
Scope(t) == <<"scope", "LF">> \o t \o <<"end", " ", "scope", "LF">>

\* Texts that are whole
Whole ==
    {<<>>, Move, <<"return", ";">>, <<"print", " ", "a", ";", "!", "QUOT", "x", "QUOT", ";">>,
     Scope(<<"if">> \o Cond \o <<"then", "LF">> \o Move \o <<"elseif">> \o Cond \o <<"then", "LF">> \o Move
           \o <<"else", "LF">> \o Move \o <<"end", " ", "if", "LF">>),
     Scope(<<"do", " ", "while">> \o Cond \o <<"LF">> \o Move \o <<"loop", "LF">>),
     <<"function", " ", "a", "(", "x", " ", "as", " ", "e", ")", " ", "as", " ", "e", "LF",
       "return", " ", "x", "LF", "end", " ", "function", "LF">>,
     <<"dim", " ", "a", " ", "as", " ", "e", ",", "x", " ", "as", " ", "e", "CR", "LF">> \o Move,
     <<"a", "(", "x", ",", "e", " ", "as", " ", "1", ")">>,
     <<"a", "(", "x", " ", "as", " ", ")">>,
     <<"[", "a", ",", "x", "]", "&">>,
     <<"{", "a", " ", "as", " ", "not", " ", "x", "}">>,
     <<"'", " ", "a", "LF", "a", "+", "=", "x", "*", "*", "2", "LF">>}
\* that lack a part
Partial ==
    {<<"a", "=", "-">>, <<"input">>, <<"a", "(", "x", ",", ")">>,
     <<"a", "(", "x", ",", "e", " ", "as", " ", ")">>, Scope(Move \o <<"input", "LF">>)}
\* that are rejected
Rejected == {<<"a", "+">>, Move \o <<"end", "LF">>, Move \o <<"loop">>, <<"@">>, <<"a", "QUOT">>}
\* and that have no end
Open     == {<<"!", "QUOT", "a">>, Move \o <<"'">>, <<"print", " ", "!", "QUOT", "BSL", "QUOT">>}

Texts == Whole \cup Partial \cup Rejected \cup Open
ASSUME TextsApart == \A t \in Texts : Lex!WordsApart(t)

Few   == {Move, <<"input">>, <<"a", "+">>, Scope(Move)}

-----------------------------------------------------------------------------
Text(t) == [is |-> "text", text |-> t]
Dir     == [is |-> "directory"]

\* One file or directory, with or without one under the extended name
FilesOf(text) ==
    {<<"f">> :> Text(text), <<"f">> :> Dir, <<"f", ".ifj17">> :> Text(text),
     (<<"f">> :> Dir) @@ (<<"f", ".ifj17">> :> Text(text)),
     (<<"f">> :> Dir) @@ (<<"f", ".ifj17">> :> Dir)}

\* The program's name and up to two arguments
CommandLines == UNION {[1 .. n -> {"-A", "-T", "-h", "-V", "-x", "f"}] : n \in 0 .. 2}

Start(args, files, tty, piped, typed) ==
    [args |-> <<"ifj17">> \o args, files |-> files, tty |-> tty, piped |-> piped, typed |-> typed]

\* Every command line with a few texts, every text from a file and from stdin,
\* and every two lines typed
AllStarts ==
    {Start(c, f, tty, t, <<t, <<>>>>) : c \in CommandLines, f \in FilesOf(Move), tty \in BOOLEAN, t \in Few}
    \cup {Start(<<"f">>, <<"f">> :> Text(t), TRUE, <<>>, <<>>) : t \in Texts}
    \cup {Start(<<>>, <<>>, FALSE, t, <<>>) : t \in Texts}
    \cup {Start(<<>>, <<>>, TRUE, <<>>, l) : l \in UNION {[1 .. n -> Texts \cup {<<>>}] : n \in 0 .. 2}}

\* A name without its extension
Bare == {Start(<<"f">>, <<"f", ".ifj17">> :> Text(t), TRUE, <<>>, <<>>) : t \in Texts}
=============================================================================
