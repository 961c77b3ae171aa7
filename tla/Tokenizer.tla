----------------------------- MODULE Tokenizer ------------------------------
(***************************************************************************)
(* tokenizeSQL of internal/parser/parse_shared.go, the second reading of   *)
(* the text that the splitter has cut: the tokens that the parser of the   *)
(* core build sees, as their texts.  Both readers know strings, dollar     *)
(* quotes and comments, in code of their own.                              *)
(***************************************************************************)
EXTENDS Splitter

Letters == {"x", "_"}
Digits  == {"1"}
Word    == Letters \cup Digits \cup {"$"}     (* What continues a word.     *)

StartsAt(s, p, mark) == IsPrefix(mark, SubSeq(s, p, Len(s)))

(***************************************************************************)
(* The position after what begins at p, or 0 if the text ends inside it.   *)
(***************************************************************************)
First(positions) == IF positions = {} THEN 0 ELSE Min(positions)

After(s, p, mark) ==
  First({k + Len(mark) : k \in {h \in p..Len(s) : StartsAt(s, h, mark)}})

(* Past all characters of a set.                                           *)
Past(s, p, chars) ==
  Min({Len(s) + 1} \cup {k \in p..Len(s) : s[k] \notin chars})

(* Mutant: a block comment ends with its line, too.                        *)
AfterComment_Line(s, p) == Past(s, p, Characters \ {"\n"})

AfterComment(s, p) ==
  IF StartsAt(s, p, <<"-", "-">>) THEN Past(s, p, Characters \ {"\n"})
  ELSE After(s, p + 2, <<"*", "/">>)

(* Mutant: the first quote closes, be it doubled or not.                   *)
AfterQuoted_First(s, p) == After(s, p + 1, <<s[p]>>)

(* The quote that closes is not doubled, and those before it are.          *)
AfterQuoted(s, p) ==
  LET quotes(k) == Cardinality({h \in p + 1..k : s[h] = s[p]})
  IN  First({k + 1 : k \in {h \in p + 1..Len(s) :
                             /\ s[h] = s[p] /\ quotes(h) % 2 = 1
                             /\ h < Len(s) => s[h + 1] # s[p]}})

AfterDollarQuoted(s, p) ==
  LET tag == readDollarTag(SubSeq(s, p, Len(s)))
  IN  After(s, p + Len(tag), tag)

-----------------------------------------------------------------------------
IsComment(s, p) == StartsAt(s, p, <<"-", "-">>) \/ StartsAt(s, p, <<"/", "*">>)
IsDollarQuoted(s, p) == readDollarTag(SubSeq(s, p, Len(s))) # << >>

(* The position after the space, the comment or the token that is at p.    *)
lexeme(s, p) ==
  CASE s[p] \in Space          -> p + 1
    [] IsComment(s, p)         -> AfterComment(s, p)
    [] s[p] \in {"'", "\""}    -> AfterQuoted(s, p)
    [] IsDollarQuoted(s, p)    -> AfterDollarQuoted(s, p)
    [] s[p] \in Letters        -> Past(s, p, Word)
    [] s[p] \in Digits         -> Past(s, p, Digits \cup {"."})
    [] OTHER                   -> p + 1

(* Where these begin, up to the first that does not end.                   *)
lexemes(s) ==
  LET from[p \in 0..(Len(s) + 1)] ==
        IF p \in DOMAIN s THEN {p} \cup from[lexeme(s, p)] ELSE {}
  IN  from[1]

(* The tokens, or none and an error if the text ends inside of one.        *)
places(s) == {p \in lexemes(s) : s[p] \notin Space /\ ~IsComment(s, p)}

textAt(s, p) == SubSeq(s, p, lexeme(s, p) - 1)

tokenizeSQL(s) ==
  LET error  == \E p \in lexemes(s) : lexeme(s, p) = 0
      order == SetToSortSeq(places(s), <)
  IN  [error  |-> error,
       tokens |-> IF error THEN << >> ELSE [k \in DOMAIN order |-> textAt(s, order[k])]]

-----------------------------------------------------------------------------
(***************************************************************************)
(* Properties.                                                             *)
(***************************************************************************)
(* A dollar sign in a word: the splitter takes it for the start of a       *)
(* quote, the tokenizer, like PostgreSQL, for a part of the word.          *)
DollarInWord(s) ==
  \E p \in lexemes(s) : s[p] \in Letters /\ \E k \in p..(lexeme(s, p) - 1) : s[k] = "$"

(* The two readers agree on where strings and comments end, whatever the   *)
(* characters: a segment is never refused for an open string or comment,   *)
(* and no semicolon is left in it as a token, so one statement at most is  *)
(* parsed as one.                                                          *)
ReadersAgree ==
  pc = "done" =>
    \A k \in DOMAIN out :
      LET s == out[k].sql
      IN  ~DollarInWord(s) =>
            /\ ~tokenizeSQL(s).error
            /\ places(s) # {} /\ \A p \in places(s) : textAt(s, p) # <<";">>

(* The tokens of a segment are those of the statement it is, comments and  *)
(* spaces left out, each in one piece and in their order.                  *)
TokensAreContents ==
  pc = "done" /\ (\A k \in DOMAIN script : script[k].kind # "raw") =>
    LET contents == SetToSortSeq(Wanted(script, Len(script) + 1), <)
        texts(k) == LET solid == SelectSeq(Piece(script, k), LAMBDA t : t.kind = "content")
                    IN  [h \in DOMAIN solid |-> solid[h].text]
    IN  \A n \in DOMAIN out : tokenizeSQL(out[n].sql).tokens = texts(contents[n])

-----------------------------------------------------------------------------
(***************************************************************************)
(* What the code says and does not keep.                                   *)
(***************************************************************************)
(* A segment is of a single statement: where the tokenizer, which knows    *)
(* words as PostgreSQL does, can read it, no semicolon is among the tokens.*)
SingleStatementSegments ==
  pc = "done" =>
    \A k \in DOMAIN out :
      LET s == out[k].sql
      IN  ~tokenizeSQL(s).error => \A p \in places(s) : textAt(s, p) # <<";">>

=============================================================================
