------------------------------ MODULE MCLexer ------------------------------
(***************************************************************************)
(* Small texts for Lexer.  A cfg picks one family for Sources.             *)
(***************************************************************************)
EXTENDS Lexer, SequencesExt

Texts(alphabet, n) == UNION {[1 .. k -> alphabet] : k \in 0 .. n}
Apart(texts)       == {s \in texts : WordsApart(s)}

\* Lines of code and strings
CodeTexts == Apart(Texts({"a", "1", "loop", "return", "+", " ", "LF", "!", "QUOT", "BSL", "x", "@"}, 4))
             \cup Texts({"a", "LF", "!", "QUOT", "BSL", "x"}, 5)

\* Operators
OperatorTexts == Texts({"a", " ", "(", "+", "-", "=", "&", "<", ">"}, 4)
                 \cup Texts({"a", "]", "*", "=", "|", "+", ";"}, 4)
                 \cup Texts({"a", "(", ")", "{", "}", "[", ",", ".", "%", "^", "~", "?", ":"}, 3)

\* Keywords and both ends of lines
LineTexts == Apart(Texts({"a", "if", "return", "end", "+", "LF", "CR", "!", "QUOT"}, 4))
             \cup Apart(Texts(DOMAIN Keywords \cup {"a", " ", "_", "1"}, 2))

\* Texts glued together from whole pieces: comments hold something, and block
\* comments hold no apostrophe
Pieces == {<<"a">>, <<"return">>, <<"+">>, <<" ">>, <<"LF">>, <<"CR">>, <<"BSL">>,
           <<"'", "a", "CR", "LF">>, <<"'", " ", "'", "/", "LF">>,
           <<"/", "'", "'", "/">>, <<"/", "'", "CR", "LF", "a", "'", "/">>,
           <<"!", "QUOT", "'", "LF", "QUOT">>, <<"!", "QUOT", "BSL", "QUOT", "/", "QUOT">>}
CommentTexts == Apart({FlattenSeq(ps) : ps \in Texts(Pieces, 4)})

\* Anything at all, for the ends of texts
RoughTexts == Texts({"a", "/", "'", "!", "QUOT", "BSL", "x", "=", "LF"}, 5)

\* Every neat text of a few items
NeatRough == {s \in Texts({"a", "/", "'", "!", "QUOT", "LF", "CR"}, 5) : Neat(s \o <<"NUL">>)}

\* Numbers, those without a `+' in the exponent
NumberTexts == Texts({"1", "2", "0", "_", ".", "e", "x", "-"}, 5)

\* What is written as it should be, or nearly so
NeatTexts == CodeTexts \cup OperatorTexts \cup LineTexts \cup CommentTexts \cup NeatRough
             \cup NumberTexts

ASSUME NeatIsNeat == \A s \in NeatTexts : Neat(s \o <<"NUL">>)

=============================================================================
