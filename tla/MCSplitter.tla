----------------------------- MODULE MCSplitter -----------------------------
(***************************************************************************)
(* Two families of scripts: well-formed tokens, which have a right answer, *)
(* and characters at random, which need not mean anything.                 *)
(***************************************************************************)
EXTENDS Tokenizer

CONSTANTS MaxTokens, MaxCharacters

Tok(kind, text) == [kind |-> kind, text |-> text]

Ident == Tok("content", <<"x", "1">>)
Number == Tok("content", <<"1">>)
String == Tok("content", <<"'", ";", "'", "'", "\n", "'">>)
Name   == Tok("content", <<"\"", ";", "'", "\"">>)
Dollar == Tok("content", <<"$", "x", "$", ";", "$", "$", "\n", "$", "x", "$">>)
Plain  == Tok("content", <<"$", "$", "'", "$", "$">>)
Slash  == Tok("content", <<"/">>)
Line   == Tok("comment", <<"-", "-", "'", ";", "\n">>)
Block  == Tok("comment", <<"/", "*", "\n", ";", "*", "/">>)

Closed == {Ident, Number, String, Name, Dollar, Plain, Slash, Line, Block,
           Tok("semicolon", <<";">>), Tok("space", <<"\n">>), Tok("space", <<" ">>)}

(* What may end a script: a comment without a newline ends it well.        *)
Tails == {Tok("comment", <<"-", "-", ";">>), Tok("open", <<"'", ";">>),
          Tok("open", <<"\"", ";">>), Tok("open", <<"/", "*", ";">>),
          Tok("open", <<"$", "$", ";", "$">>)}

Sequences(S, n) == UNION {[1..k -> S] : k \in 0..n}

(* Tokens that written one after the other would not be these are left out.*)
TokenScripts ==
  LET bodies == Sequences(Closed, MaxTokens)
  IN  {s \in bodies \cup {Append(b, t) : b \in Sequences(Closed, MaxTokens - 1), t \in Tails} :
         WellFormed(s)}

Raw == {Tok("raw", <<c>>) : c \in {"x", "1", "'", "-", "/", "*", "$", ";", "\n"}}

RawScripts == Sequences(Raw, MaxCharacters)

MCScripts == TokenScripts \cup RawScripts

(* Words, dollar signs and semicolons: longer, of fewer characters.        *)
DollarScripts == Sequences({Tok("raw", <<c>>) : c \in {"x", "$", ";"}}, MaxCharacters)

=============================================================================
