----------------------------- MODULE CoreParser -----------------------------
(***************************************************************************)
(* The parser of the build without cgo, internal/parser/parse_shared.go:   *)
(* what it makes of the tokens of one statement.                           *)
(*                                                                         *)
(* A token is a word, a quoted name, a literal (a number, a string or a    *)
(* dollar-quoted text) or a sign.  A keyword is a word in capitals; every  *)
(* word is also a name, and lower says which.  A position of 0 stands for  *)
(* one that is not found, and the empty name for no name.  The splitter    *)
(* leaves no semicolon among the tokens.                                   *)
(***************************************************************************)
EXTENDS Policy, Statements

Word(w)    == [kind |-> "word", text |-> w]
Quoted(n)  == [kind |-> "quoted", text |-> n]
Literal(v) == [kind |-> "literal", text |-> v]
Sign(s)    == [kind |-> "sign", text |-> s]

Minimum(S) == IF S = {} THEN 0 ELSE Min(S)

tokenIs(tokens, pos, want) == pos \in DOMAIN tokens /\ tokens[pos] = Word(want)
OneOf(tokens, pos, wants)  == \E w \in wants : tokenIs(tokens, pos, w)
IsSign(tokens, pos, s)     == pos \in DOMAIN tokens /\ tokens[pos] = Sign(s)

Skip(tokens, pos, word) == IF tokenIs(tokens, pos, word) THEN pos + 1 ELSE pos
SkipIfExists(tokens, pos) ==
  IF tokenIs(tokens, pos, "IF") /\ tokenIs(tokens, pos + 1, "EXISTS") THEN pos + 2 ELSE pos

(***************************************************************************)
(* Scanning for a keyword: anywhere, or outside of all parentheses opened  *)
(* from start on.                                                          *)
(***************************************************************************)
indexKeyword(tokens, keyword) == Minimum({i \in DOMAIN tokens : tokenIs(tokens, i, keyword)})

(* A closing parenthesis that nothing opened is passed over.               *)
DepthFrom(tokens, start) ==
  LET depth[i \in (start - 1)..Len(tokens)] ==
        IF i < start THEN 0
        ELSE CASE IsSign(tokens, i, "(") -> depth[i - 1] + 1
               [] IsSign(tokens, i, ")") -> Max({depth[i - 1] - 1, 0})
               [] OTHER                  -> depth[i - 1]
  IN  depth

(* Mutant: a keyword inside parentheses is taken for the statement's own.  *)
indexKeywordTopLevelFrom_AnyDepth(tokens, start, keyword) ==
  Minimum({i \in start..Len(tokens) : tokenIs(tokens, i, keyword)})

indexKeywordTopLevelFrom(tokens, start, keyword) ==
  LET depth == DepthFrom(tokens, start)
  IN  Minimum({i \in start..Len(tokens) : tokenIs(tokens, i, keyword) /\ depth[i] = 0})

indexKeywordTopLevel(tokens, keyword) == indexKeywordTopLevelFrom(tokens, 1, keyword)

containsKeywordTopLevel(tokens, keyword) == indexKeywordTopLevel(tokens, keyword) # 0

(* LIMIT, or FETCH FIRST or NEXT up to ROW or ROWS.                        *)
hasLimitClauseTopLevel(tokens) ==
  LET fetch == indexKeywordTopLevel(tokens, "FETCH")
  IN  \/ containsKeywordTopLevel(tokens, "LIMIT")
      \/ /\ fetch # 0 /\ OneOf(tokens, fetch + 1, {"FIRST", "NEXT", "ROW", "ROWS"})
         /\ \E i \in (fetch + 1)..Len(tokens) :
              /\ OneOf(tokens, i, {"ROW", "ROWS", "WITH", "TIES"})
              /\ \A h \in (fetch + 1)..(i - 1) : ~tokenIs(tokens, h, "ONLY")

(* The WHERE clause up to what may follow it, without its parentheses, is  *)
(* TRUE or 1 = 1.                                                          *)
trivialWhereTokens(tokens) ==
  LET where  == indexKeywordTopLevel(tokens, "WHERE")
      after  == SubSeq(tokens, where + 1, Len(tokens))
      depth  == DepthFrom(after, 1)
      stops  == {i \in DOMAIN after :
                   depth[i] = 0 /\ OneOf(after, i, {"RETURNING", "LIMIT", "FETCH", "ORDER", "FOR"})}
      upTo   == IF stops = {} THEN Len(after) ELSE Min(stops) - 1
      clause == SelectSeq(SubSeq(after, 1, upTo),
                          LAMBDA t : t \notin {Sign("("), Sign(")")})
  IN  where # 0 /\ clause \in {<<Word("TRUE")>>, <<Literal("1"), Sign("="), Literal("1")>>}

-----------------------------------------------------------------------------
(***************************************************************************)
(* Names.                                                                  *)
(***************************************************************************)
normalizeIdentifier(tokens, pos) ==
  IF pos \notin DOMAIN tokens THEN << >>
  ELSE CASE tokens[pos].kind = "word"   -> <<lower[tokens[pos].text]>>
         [] tokens[pos].kind = "quoted" -> <<tokens[pos].text>>
         [] OTHER -> << >>

(* The dotted name at a position, empty if a part of it is no name, and    *)
(* the position after it.                                                  *)
parseQualifiedIdentifier(tokens, pos) ==
  LET dots  == Max({n \in 0..Len(tokens) :
                      \A k \in 1..n : IsSign(tokens, pos + 2 * k - 1, ".")})
      parts == [k \in 1..(dots + 1) |-> normalizeIdentifier(tokens, pos + 2 * (k - 1))]
  IN  [name |-> IF Contains(parts, << >>) THEN << >> ELSE FlattenSeq(parts),
       next |-> pos + 2 * dots + 1]

(* Mutant: only the first name of a list is read.                          *)
parseNames_First(tokens, pos) ==
  LET q == parseQualifiedIdentifier(tokens, pos)
  IN  IF q.name = << >> THEN << >> ELSE <<q.name>>

(* The names from a position on, as long as commas separate them.          *)
parseNames(tokens, pos) ==
  LET names[i \in pos..(2 * Len(tokens) + 2)] ==
        LET q == parseQualifiedIdentifier(tokens, i)
        IN  IF q.name = << >> THEN << >>
            ELSE <<q.name>> \o (IF IsSign(tokens, q.next, ",") THEN names[q.next + 1] ELSE << >>)
  IN  names[pos]

(* The words and quoted names from a position up to one of some keywords.  *)
parseIdentifiersUntil(tokens, start, stops) ==
  LET ends  == {i \in start..Len(tokens) : OneOf(tokens, i, stops)}
      upTo  == IF ends = {} THEN Len(tokens) ELSE Min(ends) - 1
  IN  UNION {ToSet(normalizeIdentifier(tokens, i)) : i \in start..upTo}

defaultRoleForStmt(type) ==
  CASE type \in {"SELECT", "COPY"} -> "read"
    [] type \in {"GRANT", "REVOKE", "ALTER_DEFAULT_PRIVILEGES"} -> "target"
    [] OTHER -> "write"

addRelationQualified(stmt, name, role) == addRelation(stmt, Front(name), <<Last(name)>>, role)

(* The last relation set gives the statement its table.                    *)
setRelation(stmt, name) ==
  [addRelationQualified(stmt, name, defaultRoleForStmt(stmt.type)) EXCEPT
     !.table = name, !.object = name, !.schema = Front(name)]

setRelationIfNamed(stmt, name) == IF name = << >> THEN stmt ELSE setRelation(stmt, name)

-----------------------------------------------------------------------------
(***************************************************************************)
(* The statements.  Each parser is given the statement with its type set;  *)
(* one that refuses its tokens returns SyntaxError.                        *)
(***************************************************************************)
SyntaxError == [Blank EXCEPT !.type = "ERROR"]

Typed(stmt, type) == [stmt EXCEPT !.type = type]

setRelations(stmt, names) ==
  IF names = << >> THEN SyntaxError ELSE FoldLeft(setRelation, stmt, names)

setWhere(stmt, tokens) ==
  [stmt EXCEPT !.hasWhere = containsKeywordTopLevel(tokens, "WHERE"),
               !.whereTrivial = trivialWhereTokens(tokens)]

parseDeleteTokens(stmt, tokens) ==
  LET table == parseQualifiedIdentifier(tokens, Skip(tokens, 3, "ONLY")).name
  IN  IF ~tokenIs(tokens, 2, "FROM") \/ table = << >> THEN SyntaxError
      ELSE setRelation(setWhere(Typed(stmt, "DELETE"), tokens), table)

parseUpdateTokens(stmt, tokens) ==
  LET q == parseQualifiedIdentifier(tokens, Skip(tokens, 2, "ONLY"))
  IN  IF q.name = << >> \/ indexKeywordTopLevelFrom(tokens, q.next, "SET") = 0 THEN SyntaxError
      ELSE setRelation(setWhere(Typed(stmt, "UPDATE"), tokens), q.name)

parseDropTokens(stmt, tokens) ==
  LET at   == SkipIfExists(tokens, 3)
      name == parseQualifiedIdentifier(tokens, at).name
  IN  IF Len(tokens) < 2 \/ (OneOf(tokens, 2, {"SCHEMA", "DATABASE"}) /\ name = << >>)
      THEN SyntaxError
      ELSE CASE tokenIs(tokens, 2, "TABLE") ->
                  setRelations(Typed(stmt, "DROP_TABLE"), parseNames(tokens, at))
             [] tokenIs(tokens, 2, "SCHEMA") ->
                  [Typed(stmt, "DROP_SCHEMA") EXCEPT !.object = name, !.schema = name]
             [] tokenIs(tokens, 2, "DATABASE") ->
                  [Typed(stmt, "DROP_DATABASE") EXCEPT !.object = name]
             [] OTHER -> Typed(stmt, "OTHER")

parseAlterTableTokens(stmt, tokens) ==
  LET q == parseQualifiedIdentifier(tokens, Skip(tokens, SkipIfExists(tokens, 3), "ONLY"))
      drops(what) == \E i \in q.next..Len(tokens) :
                       tokenIs(tokens, i, "DROP") /\ tokenIs(tokens, i + 1, what[1])
                         /\ (Len(what) = 2 => tokenIs(tokens, i + 2, what[2]))
  IN  IF q.name = << >> THEN SyntaxError
      ELSE [setRelation(Typed(stmt, "ALTER_TABLE"), q.name) EXCEPT
              !.type = IF drops(<<"COLUMN">>) THEN "ALTER_TABLE_DROP_COLUMN" ELSE @,
              !.dropColumn     = drops(<<"COLUMN">>),
              !.dropConstraint = drops(<<"CONSTRAINT">>),
              !.dropNotNull    = drops(<<"NOT", "NULL">>)]

(* PUBLIC anywhere makes default privileges a grant to it.                 *)
parseAlterTokens(stmt, tokens) ==
  CASE tokenIs(tokens, 2, "DEFAULT") /\ tokenIs(tokens, 3, "PRIVILEGES") ->
         [Typed(stmt, "ALTER_DEFAULT_PRIVILEGES") EXCEPT
            !.isGrantToPublic = indexKeyword(tokens, "PUBLIC") # 0]
    [] tokenIs(tokens, 2, "TABLE") -> parseAlterTableTokens(stmt, tokens)
    [] OTHER -> Typed(stmt, "OTHER")

(* A star before the first FROM stands for every column, and only the      *)
(* first table of that FROM is read.                                       *)
parseSelectTokens(stmt, tokens) ==
  LET from == indexKeywordTopLevel(tokens, "FROM")
      upTo == IF from = 0 THEN Len(tokens) ELSE from - 1
      s == [Typed(stmt, "SELECT") EXCEPT
              !.hasWhere  = containsKeywordTopLevel(tokens, "WHERE"),
              !.hasLimit  = hasLimitClauseTopLevel(tokens),
              !.selectAll = \E i \in 2..upTo : IsSign(tokens, i, "*")]
  IN  IF from = 0 THEN s
      ELSE setRelationIfNamed(s, parseQualifiedIdentifier(tokens, from + 1).name)

captureInsertSelectSources(stmt, tokens, start) ==
  LET select  == indexKeywordTopLevelFrom(tokens, start, "SELECT")
      from    == indexKeywordTopLevelFrom(tokens, select + 1, "FROM")
      sources == IF select = 0 \/ from = 0 THEN << >> ELSE parseNames(tokens, from + 1)
  IN  FoldLeft(LAMBDA s, n : addRelationQualified(s, n, "read"), stmt, sources)

parseInsertTokens(stmt, tokens) ==
  LET q == parseQualifiedIdentifier(tokens, Skip(tokens, 2, "INTO"))
  IN  IF q.name = << >> THEN SyntaxError
      ELSE captureInsertSelectSources(setRelation(Typed(stmt, "INSERT"), q.name), tokens, q.next)

parseTruncateTokens(stmt, tokens) ==
  setRelations(Typed(stmt, "TRUNCATE"),
               parseNames(tokens, Skip(tokens, Skip(tokens, 2, "TABLE"), "ONLY")))

(* The objects from position i to the end; a word that is neither a noise  *)
(* word nor a name is passed over.                                         *)
RECURSIVE parseGrantObject(_, _, _, _)
parseGrantObject(stmt, tokens, i, end) ==
  LET q     == parseQualifiedIdentifier(tokens, i)
      noise == {"TABLE", "TABLES", "SEQUENCE", "SEQUENCES", "FUNCTION", "FUNCTIONS", "ON",
                "ALL", "PRIVILEGES", "IN"}
      names == parseNames(SubSeq(tokens, 1, end - 1), i + 1)
      database == IF i + 1 < end THEN parseQualifiedIdentifier(tokens, i + 1).name ELSE << >>
  IN  IF i >= end \/ tokenIs(tokens, i, "TO") THEN stmt
      ELSE CASE OneOf(tokens, i, noise) -> parseGrantObject(stmt, tokens, i + 1, end)
             [] tokenIs(tokens, i, "SCHEMA") ->
                  [FoldLeft(LAMBDA s, n : addRelationQualified(s, n, "target"), stmt, names) EXCEPT
                     !.schema = IF names # << >> THEN orElse(@, names[1]) ELSE @,
                     !.object = IF names # << >> /\ stmt.schema = << >> THEN names[1] ELSE @]
             [] tokenIs(tokens, i, "DATABASE") -> [stmt EXCEPT !.object = orElse(database, @)]
             [] OTHER -> IF q.name = << >> THEN parseGrantObject(stmt, tokens, i + 1, end)
                         ELSE parseGrantObject(setRelation(stmt, q.name), tokens, q.next, end)

parseGrantTokens(stmt, tokens) ==
  LET to == indexKeywordTopLevel(tokens, "TO")
      on == indexKeywordTopLevel(tokens, "ON")
      grantees == parseIdentifiersUntil(tokens, to + 1, {"WITH", "GRANTED", "BY"})
      g == [Typed(stmt, "GRANT") EXCEPT !.isGrantToPublic = "public" \in grantees]
  IN  CASE to = 0 -> SyntaxError
        [] on # 0 /\ on < to -> parseGrantObject(g, tokens, on + 1, to)
        [] OTHER -> [g EXCEPT !.isRoleMembershipGrant = TRUE,
                              !.grantedRoles = parseIdentifiersUntil(tokens, 2, {"TO"})]

parseRevokeTokens(stmt, tokens) ==
  IF containsKeywordTopLevel(tokens, "FROM") THEN Typed(stmt, "REVOKE") ELSE SyntaxError

(* Of a query, the first FROM at any depth is taken.                       *)
parseCopyTokens(stmt, tokens) ==
  LET from == indexKeyword(tokens, "FROM")
      to   == indexKeyword(tokens, "TO")
      at   == IF IsSign(tokens, 2, "(") THEN from + 1 ELSE 2
      name == IF at = 1 THEN << >> ELSE parseQualifiedIdentifier(tokens, at).name
  IN  IF Len(tokens) < 2 THEN SyntaxError
      ELSE [setRelationIfNamed(Typed(stmt, "COPY"), name) EXCEPT
              !.copyToStdout  = to # 0 /\ tokenIs(tokens, to + 1, "STDOUT"),
              !.copyToProgram = to # 0 /\ tokenIs(tokens, to + 1, "PROGRAM")]

parserOf(stmt, tokens) ==
  CASE tokenIs(tokens, 1, "DELETE")   -> parseDeleteTokens(stmt, tokens)
    [] tokenIs(tokens, 1, "UPDATE")   -> parseUpdateTokens(stmt, tokens)
    [] tokenIs(tokens, 1, "DROP")     -> parseDropTokens(stmt, tokens)
    [] tokenIs(tokens, 1, "ALTER")    -> parseAlterTokens(stmt, tokens)
    [] tokenIs(tokens, 1, "SELECT")   -> parseSelectTokens(stmt, tokens)
    [] tokenIs(tokens, 1, "INSERT")   -> parseInsertTokens(stmt, tokens)
    [] tokenIs(tokens, 1, "TRUNCATE") -> parseTruncateTokens(stmt, tokens)
    [] tokenIs(tokens, 1, "GRANT")    -> parseGrantTokens(stmt, tokens)
    [] tokenIs(tokens, 1, "REVOKE")   -> parseRevokeTokens(stmt, tokens)
    [] tokenIs(tokens, 1, "COPY")     -> parseCopyTokens(stmt, tokens)
    [] OTHER                          -> SyntaxError

(* Every statement is partial, and one of type OTHER unsupported.          *)
parseStatementText(tokens) ==
  LET out  == parserOf(Partial(Blank, "core_mode_token_parser"), tokens)
      mark == IF out.type = "OTHER" THEN Unsupported(out, "unsupported_statement_in_core_mode")
              ELSE out
  IN  IF out.type = "ERROR" THEN SyntaxError
      ELSE [syncConvenienceFields(mark) EXCEPT !.reasons = ensureReasonsBounded(@)]

=============================================================================
