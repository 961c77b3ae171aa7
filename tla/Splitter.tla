------------------------------ MODULE Splitter ------------------------------
(***************************************************************************)
(* splitSQLStatementsWithLines of internal/parser/parse_shared.go: how a   *)
(* script becomes statements with their lines.  One step per iteration of  *)
(* its loop over the characters; its five flags exclude each other and are *)
(* one variable here, mode.                                                *)
(*                                                                         *)
(* A script is given as a sequence of tokens, of which the code sees only  *)
(* the concatenated text; the properties compare the segments it makes     *)
(* with the tokens.                                                        *)
(***************************************************************************)
EXTENDS Integers, SequencesExt

CONSTANT Scripts      (* The scripts considered; elements of Seq(Token).    *)

VARIABLES
  script,             (* The tokens.                                        *)
  sql,                (* Their text.                                        *)
  i,                  (* The position of the next character.                *)
  mode,               (* What the characters are in the middle of.          *)
  dollarTag,          (* The tag that closes a dollar-quoted string.        *)
  line, segmentLine,  (* The current line, and the current segment's.       *)
  segmentStarted, segmentHasContent,
  current,            (* The text of the current segment.                   *)
  out,                (* The segments made.                                 *)
  pc                  (* "scan", then "done" or "error".                    *)

vars == <<script, sql, i, mode, dollarTag, line, segmentLine, segmentStarted,
          segmentHasContent, current, out, pc>>

Characters == {"x", "_", "1", "'", "\"", "-", "/", "*", "$", ";", " ", "\n"}
Space      == {" ", "\n"}
TagChars   == {"x", "_", "1"}  (* Letters, digits and underscores.          *)

(* A token of kind "open" is the rest of a script inside a string or a     *)
(* comment that nothing closes; "raw" is a character with no meaning set.  *)
Token   == [kind : {"content", "comment", "space", "semicolon", "open", "raw"},
            text : Seq(Characters)]
Segment == [sql : Seq(Characters), line : Nat \ {0}]

ASSUME ScriptsAssumption == Scripts \subseteq Seq(Token)

TextOf(tokens) == FlattenSeq([k \in DOMAIN tokens |-> tokens[k].text])

ch == sql[i]

Next2(a, b) == i < Len(sql) /\ sql[i] = a /\ sql[i + 1] = b

TrimSpace(s) ==
  LET solid == {k \in DOMAIN s : s[k] \notin Space}
  IN  IF solid = {} THEN << >> ELSE SubSeq(s, Min(solid), Max(solid))

(* The dollar tag that s starts with, << >> if none.                       *)
readDollarTag(s) ==
  LET ends == {k \in 2..Len(s) : s[1] = "$" /\ s[k] = "$"
                                   /\ \A h \in 2..(k - 1) : s[h] \in TagChars}
  IN  IF ends = {} THEN << >> ELSE SubSeq(s, 1, Min(ends))

Init ==
  /\ script \in Scripts
  /\ sql = TextOf(script)
  /\ i = 1
  /\ mode = "sql"
  /\ dollarTag = << >>
  /\ line = 1
  /\ segmentLine = 1
  /\ segmentStarted = FALSE
  /\ segmentHasContent = FALSE
  /\ current = << >>
  /\ out = << >>
  /\ pc = "scan"

-----------------------------------------------------------------------------
(***************************************************************************)
(* The parts of an iteration.                                              *)
(***************************************************************************)
In(m) == pc = "scan" /\ i <= Len(sql) /\ mode = m

Starting == ~segmentStarted /\ ch \notin Space

(* Mutant: the segment has the line of its last character.                 *)
StartSegment_Late ==
  /\ segmentLine' = IF ch \notin Space THEN line ELSE segmentLine
  /\ segmentStarted' = (segmentStarted \/ Starting)

(* The first character of a segment that is not a space has its line.      *)
StartSegment ==
  /\ segmentLine' = IF Starting THEN line ELSE segmentLine
  /\ segmentStarted' = (segmentStarted \/ Starting)

Write(k) ==
  /\ current' = current \o SubSeq(sql, i, i + k - 1)
  /\ i' = i + k
  /\ StartSegment

CountLine == line' = IF ch = "\n" THEN line + 1 ELSE line

Content(has) == segmentHasContent' = (segmentHasContent \/ has)

Kept == UNCHANGED <<script, sql, out, pc>>

-----------------------------------------------------------------------------
(***************************************************************************)
(* One iteration inside a comment or a string.                             *)
(***************************************************************************)
LineComment ==
  /\ In("line comment")
  /\ Write(1) /\ CountLine
  /\ mode' = IF ch = "\n" THEN "sql" ELSE mode
  /\ Kept /\ UNCHANGED <<dollarTag, segmentHasContent>>

BlockComment ==
  /\ In("block comment")
  /\ CountLine
  /\ \/ Next2("*", "/") /\ Write(2) /\ mode' = "sql"
     \/ ~Next2("*", "/") /\ Write(1) /\ UNCHANGED mode
  /\ Kept /\ UNCHANGED <<dollarTag, segmentHasContent>>

(* Mutant: the tag is not forgotten.                                       *)
DollarQuoted_KeepsTag ==
  /\ In("dollar")
  /\ LET closes == IsPrefix(dollarTag, SubSeq(sql, i, Len(sql)))
     IN  \/ closes /\ Write(Len(dollarTag)) /\ mode' = "sql"
         \/ ~closes /\ Write(1) /\ UNCHANGED mode
  /\ CountLine
  /\ Kept /\ UNCHANGED <<segmentHasContent, dollarTag>>

DollarQuoted ==
  /\ In("dollar")
  /\ LET closes == IsPrefix(dollarTag, SubSeq(sql, i, Len(sql)))
     IN  \/ closes /\ Write(Len(dollarTag)) /\ mode' = "sql" /\ dollarTag' = << >>
         \/ ~closes /\ Write(1) /\ UNCHANGED <<mode, dollarTag>>
  /\ CountLine
  /\ Kept /\ UNCHANGED segmentHasContent

(* Mutant: newlines in strings are not counted.                            *)
Quoted_Uncounted(m, quote) ==
  /\ In(m)
  /\ \/ Next2(quote, quote) /\ Write(2) /\ UNCHANGED mode
     \/ ch = quote /\ ~Next2(quote, quote) /\ Write(1) /\ mode' = "sql"
     \/ ch # quote /\ Write(1) /\ UNCHANGED mode
  /\ Kept /\ UNCHANGED <<line, dollarTag, segmentHasContent>>

(* A doubled quote stands for itself.                                      *)
Quoted(m, quote) ==
  /\ In(m)
  /\ CountLine
  /\ \/ Next2(quote, quote) /\ Write(2) /\ UNCHANGED mode
     \/ ch = quote /\ ~Next2(quote, quote) /\ Write(1) /\ mode' = "sql"
     \/ ch # quote /\ Write(1) /\ UNCHANGED mode
  /\ Kept /\ UNCHANGED <<dollarTag, segmentHasContent>>

SingleQuoted == Quoted("single", "'")
DoubleQuoted == Quoted("double", "\"")

-----------------------------------------------------------------------------
(***************************************************************************)
(* One iteration outside of them.                                          *)
(***************************************************************************)
tagHere == readDollarTag(SubSeq(sql, i, Len(sql)))

OpenComment ==
  /\ In("sql")
  /\ \/ Next2("-", "-") /\ mode' = "line comment"
     \/ Next2("/", "*") /\ mode' = "block comment"
  /\ Write(2)
  /\ Kept /\ UNCHANGED <<dollarTag, line, segmentHasContent>>

OpenQuote ==
  /\ In("sql")
  /\ \/ ch = "'" /\ mode' = "single" /\ Write(1) /\ UNCHANGED dollarTag
     \/ ch = "\"" /\ mode' = "double" /\ Write(1) /\ UNCHANGED dollarTag
     \/ /\ tagHere # << >> /\ mode' = "dollar"
        /\ dollarTag' = tagHere /\ Write(Len(tagHere))
  /\ Content(TRUE)
  /\ Kept /\ UNCHANGED line

(* Mutant: a comment makes a segment.                                      *)
Emitted_Phantom(first) ==
  IF TrimSpace(current) # << >>
  THEN Append(out, [sql |-> TrimSpace(current), line |-> first]) ELSE out

(* A segment without content, a comment or nothing at all, is dropped.     *)
Emitted(first) ==
  IF TrimSpace(current) # << >> /\ segmentHasContent
  THEN Append(out, [sql |-> TrimSpace(current), line |-> first]) ELSE out

Semicolon ==
  /\ In("sql") /\ ch = ";"
  /\ segmentLine' = IF Starting THEN line ELSE segmentLine
  /\ out' = Emitted(segmentLine')
  /\ i' = i + 1
  /\ current' = << >>
  /\ segmentStarted' = FALSE
  /\ segmentHasContent' = FALSE
  /\ UNCHANGED <<script, sql, mode, dollarTag, line, pc>>

Other ==
  /\ In("sql")
  /\ ch \notin {"'", "\"", ";"} /\ tagHere = << >>
  /\ ~Next2("-", "-") /\ ~Next2("/", "*")
  /\ Write(1) /\ CountLine
  /\ Content(ch \notin Space)
  /\ Kept /\ UNCHANGED <<mode, dollarTag>>

(* The end of the script inside a string or a block comment is an error,   *)
(* and no segment is returned.                                             *)
End ==
  /\ pc = "scan" /\ i > Len(sql)
  /\ \/ mode \in {"sql", "line comment"} /\ pc' = "done" /\ out' = Emitted(segmentLine)
     \/ mode \notin {"sql", "line comment"} /\ pc' = "error" /\ out' = << >>
  /\ UNCHANGED <<script, sql, i, mode, dollarTag, line, segmentLine, segmentStarted,
                 segmentHasContent, current>>

Done == pc # "scan" /\ UNCHANGED vars

Next ==
  \/ LineComment \/ BlockComment \/ DollarQuoted \/ SingleQuoted \/ DoubleQuoted
  \/ OpenComment \/ OpenQuote \/ Semicolon \/ Other \/ End \/ Done

Spec == Init /\ [][Next]_vars

-----------------------------------------------------------------------------
(***************************************************************************)
(* Properties.                                                             *)
(***************************************************************************)
Lines(s) == 1 + Cardinality({k \in DOMAIN s : s[k] = "\n"})

(* Every variable has its type, the dollar tag goes with its mode, and no  *)
(* step runs past the end of the script.                                   *)
TypeOK ==
  /\ script \in Seq(Token) /\ sql \in Seq(Characters)
  /\ i \in 1..(Len(sql) + 1)
  /\ mode \in {"sql", "line comment", "block comment", "single", "double", "dollar"}
  /\ dollarTag \in Seq(Characters) /\ (dollarTag # << >> <=> mode = "dollar")
  /\ line \in Nat /\ segmentLine \in 1..line
  /\ segmentStarted \in BOOLEAN /\ segmentHasContent \in BOOLEAN
  /\ current \in Seq(Characters)
  /\ out \in Seq(Segment)
  /\ pc \in {"scan", "done", "error"}

(* No character is lost or repeated: the current segment is the script's   *)
(* text up to here since the last separator, and the line counter has      *)
(* counted every newline passed, in strings and comments as elsewhere.     *)
InStep ==
  /\ current = SubSeq(sql, i - Len(current), i - 1)
  /\ Len(current) < i - 1 => sql[i - Len(current) - 1] = ";"
  /\ line = Lines(SubSeq(sql, 1, i - 1))

(* A segment under way carries the line of its first character that is not *)
(* a space.                                                                *)
SegmentLineExact ==
  LET solid == {k \in DOMAIN current : current[k] \notin Space}
  IN  /\ segmentStarted <=> solid # {}
      /\ segmentStarted =>
           segmentLine = Lines(SubSeq(sql, 1, i - 1 - Len(current) + Min(solid)))

(***************************************************************************)
(* The scripts that have a right answer: tokens that are what their kinds  *)
(* say, and that stay apart when they are written one after the other.     *)
(***************************************************************************)
(* The text begins what is read in this mode.                              *)
Begins(text, m) ==
  \/ m = "line comment"  /\ IsPrefix(<<"-", "-">>, text)
  \/ m = "block comment" /\ IsPrefix(<<"/", "*">>, text)
  \/ m = "single"        /\ IsPrefix(<<"'">>, text)
  \/ m = "double"        /\ IsPrefix(<<"\"">>, text)
  \/ m = "dollar"        /\ readDollarTag(text) # << >>

Quotes(text, q, k) == Cardinality({h \in 2..k : text[h] = q})

(* A quote that is not the first of two, nor the second.                   *)
ClosingQuote(text, q, k) ==
  /\ k \in 2..Len(text) /\ text[k] = q
  /\ Quotes(text, q, k) % 2 = 1
  /\ k < Len(text) => text[k + 1] # q

(* Where what the text begins has its end.                                 *)
Closings(text, m) ==
  LET tag == readDollarTag(text)
  IN  {k \in DOMAIN text :
         \/ m = "line comment"  /\ text[k] = "\n"
         \/ m = "block comment" /\ k >= 4 /\ text[k - 1] = "*" /\ text[k] = "/"
         \/ m = "single"        /\ ClosingQuote(text, "'", k)
         \/ m = "double"        /\ ClosingQuote(text, "\"", k)
         \/ m = "dollar"        /\ k >= 2 * Len(tag) /\ SubSeq(text, k - Len(tag) + 1, k) = tag}

Complete(text, m) == Begins(text, m) /\ Closings(text, m) = {Len(text)}
Cut(text, m)      == Begins(text, m) /\ Closings(text, m) = {}

Pair(text, k, a, b) == text[k] = a /\ text[k + 1] = b

(* Names, numbers and operators, in which no comment begins.               *)
Bare(text) ==
  /\ text # << >>
  /\ \A k \in DOMAIN text : text[k] \in TagChars \cup {"*", "-", "/"}
  /\ \A k \in 1..(Len(text) - 1) : ~Pair(text, k, "-", "-") /\ ~Pair(text, k, "/", "*")

(* Comments nest in PostgreSQL; one within another is not considered.      *)
Nested(text) == \E k \in 2..(Len(text) - 1) : Pair(text, k, "/", "*")

(* Nothing but the end of the script ends it.                              *)
Unclosed(token) ==
  token.kind = "open" \/ (token.kind = "comment" /\ Cut(token.text, "line comment"))

IsToken(token) ==
  LET text == token.text
  IN  \/ token.kind = "semicolon" /\ text = <<";">>
      \/ /\ token.kind = "space" /\ text # << >>
         /\ \A k \in DOMAIN text : text[k] \in Space
      \/ /\ token.kind = "content"
         /\ Bare(text) \/ \E m \in {"single", "double", "dollar"} : Complete(text, m)
      \/ token.kind = "comment" /\ Complete(text, "line comment")
      \/ token.kind = "comment" /\ Cut(text, "line comment")
      \/ token.kind = "comment" /\ Complete(text, "block comment") /\ ~Nested(text)
      \/ /\ token.kind = "open"
         /\ \E m \in {"single", "double", "dollar", "block comment"} : Cut(text, m)

(* With the character c behind it, it would be a longer quote, the start   *)
(* of a comment, or a longer name: PostgreSQL's may have dollar signs.     *)
Merges(text, c) ==
  LET last == text[Len(text)]
  IN  \/ <<last, c>> \in {<<"'", "'">>, <<"\"", "\"">>, <<"-", "-">>, <<"/", "*">>}
      \/ last \in TagChars /\ c \in TagChars \cup {"$"}

WellFormed(tokens) ==
  /\ \A k \in DOMAIN tokens : IsToken(tokens[k]) /\ (Unclosed(tokens[k]) => k = Len(tokens))
  /\ \A k \in 2..Len(tokens) :
       tokens[k - 1].kind = "content" => ~Merges(tokens[k - 1].text, tokens[k].text[1])

(***************************************************************************)
(* What a script made of tokens should become: cut at the semicolon        *)
(* tokens, each piece that has content is a segment, at the line of its    *)
(* first token that is not a space.                                        *)
(***************************************************************************)
Cuts(tokens) ==
  {0, Len(tokens) + 1} \cup {k \in DOMAIN tokens : tokens[k].kind = "semicolon"}

Piece(tokens, k) == SubSeq(tokens, k + 1, Min({h \in Cuts(tokens) : h > k}) - 1)

HasContent(tokens, k) ==
  \E h \in DOMAIN Piece(tokens, k) : Piece(tokens, k)[h].kind = "content"

Expected(tokens, k) ==
  LET first == Min({h \in k + 1..Len(tokens) : tokens[h].kind # "space"})
  IN  [sql  |-> TrimSpace(TextOf(Piece(tokens, k))),
       line |-> Lines(TextOf(SubSeq(tokens, 1, first - 1)))]

(* The cuts before position h after which a statement comes.               *)
Wanted(tokens, h) == {k \in Cuts(tokens) : k < h /\ HasContent(tokens, k)}

(* The segments are those statements, in order.                            *)
AreStatements(segments, tokens, h) ==
  LET cuts == Wanted(tokens, h)
  IN  /\ Len(segments) = Cardinality(cuts)
      /\ \A k \in cuts : segments[Cardinality({c \in cuts : c <= k})] = Expected(tokens, k)

(* A script becomes its statements: a semicolon in a string, a quoted name *)
(* or a comment ends nothing, one outside of them always does; every       *)
(* statement is there, with its line and in order, and nothing else is; a  *)
(* script that ends inside a string or a comment is refused, others never. *)
(* Scripts that are not well-formed have no right answer.                  *)
SplitsIntoStatements ==
  pc # "scan" /\ WellFormed(script) =>
    /\ pc = "done" => AreStatements(out, script, Len(script) + 1)
    /\ pc = "error" <=> \E k \in DOMAIN script : script[k].kind = "open"

=============================================================================
