-------------------------- MODULE InputNormalizer --------------------------
(***************************************************************************)
(* Statements of other dialects are rewritten to DuckDB's before DuckDB    *)
(* parses them (NormalizeInputSqlToDuckDB in lpts_parser.cpp), by passes   *)
(* over the text that see tokens and parentheses and nothing else of its   *)
(* structure.                                                              *)
(*                                                                         *)
(* A text is a sequence of tokens; a refused one holds Refused.  Spaces,   *)
(* comments and the case of letters are abstracted away.                   *)
(***************************************************************************)
EXTENDS DateFormat

CONSTANTS
    InputMenus      \* what statements are made of: dialects, operations, clauses, and how many operations

VARIABLES
    source,     \* the menu and the dialect
    operands,   \* expressions not yet used: their text, and DuckDB's text for it
    query       \* the statement: its text, DuckDB's, and whether it may be normalized; or NoQuery

inputVars == <<source, operands, query>>

Word(w) == <<"word", <<w>>>>
Mark(m) == <<"mark", <<m>>>>
Number(n) == <<"number", <<n>>>>
Quoted(name) == <<"quoted", <<name>>>>
Backticked(parts) == <<"backtick", parts>>  \* the parts of a name between its dots
String(chars) == <<"string", chars>>
Refused == <<"refused", << >>>>
End == <<"end", << >>>>
IsWord(token) == token[1] = "word"
At(text, i) == IF i \in DOMAIN text THEN text[i] ELSE End
Open == Mark("(")
Shut == Mark(")")
Comma == Mark(",")
Paren(text) == <<Open>> \o text \o <<Shut>>
Separated(texts) ==
    FlattenSeq([k \in 1..(2 * Len(texts) - 1) |-> IF k % 2 = 1 THEN texts[(k + 1) \div 2] ELSE <<Comma>>])
Call(name, args) == <<Word(name)>> \o Paren(IF args = << >> THEN << >> ELSE Separated(args))

------------------------------------------------------------------------------
(* A pass copies a text and replaces what its step recognises at a place.  *)

Pass(text, Step(_, _)) ==
    LET rest[i \in 1..(Len(text) + 1)] ==
            IF i > Len(text) THEN << >> ELSE LET s == Step(text, i) IN s.out \o rest[s.next] IN
    rest[1]
Replaced(out, last) == [out |-> out, next |-> last + 1]
Copied(text, i, j) == Replaced(SubSeq(text, i, j), j)

Depth(text, i, j) ==
    Cardinality({k \in i..j : text[k] = Open}) - Cardinality({k \in i..j : text[k] = Shut})
FindMatchingParen(text, open) == Min({j \in open..Len(text) : Depth(text, open, j) = 0})
\* Where a keyword is outside every parenthesis, from i on; 0 if nowhere.
FindTopLevelKeyword(text, keyword, i) ==
    LET at == {j \in i..Len(text) : text[j] = Word(keyword) /\ Depth(text, i, j) = 0} IN
    IF at = {} THEN 0 ELSE Min(at)
\* Mutant: commas are not told apart by depth.
SplitTopLevelArgs_Flat(text) ==
    LET cuts == SetToSortSeq({j \in DOMAIN text : text[j] = Comma} \cup {0, Len(text) + 1}, <) IN
    IF text = << >> THEN << >> ELSE [k \in 1..(Len(cuts) - 1) |-> SubSeq(text, cuts[k] + 1, cuts[k + 1] - 1)]
SplitTopLevelArgs(text) ==
    LET cuts == SetToSortSeq({j \in DOMAIN text : text[j] = Comma /\ Depth(text, 1, j) = 0} \cup {0, Len(text) + 1}, <) IN
    IF text = << >> THEN << >> ELSE [k \in 1..(Len(cuts) - 1) |-> SubSeq(text, cuts[k] + 1, cuts[k + 1] - 1)]

------------------------------------------------------------------------------
(* Identifiers.                                                            *)

Backticking == {"mysql", "hive", "bigquery", "spark"}
NormalizeBacktickIdentifiers(text, dialect) ==
    Pass(text, LAMBDA t, i :
        LET parts == t[i][2]
            dotted == [k \in 1..(2 * Len(parts) - 1) |-> IF k % 2 = 1 THEN Quoted(parts[(k + 1) \div 2]) ELSE Mark(".")] IN
        IF t[i][1] # "backtick" \/ dialect \notin Backticking THEN Copied(t, i, i)
        ELSE IF dialect = "bigquery" THEN Replaced(dotted, i) ELSE Replaced(<<<<"quoted", parts>>>>, i))

CanStartBracketIdentifier(text, i) ==
    LET before == At(text, i - 1) IN
    CASE IsWord(before) -> before[2][1] \in {"select", "from", "where", "by", "group", "order", "having", "qualify",
                                             "on", "join", "as", "and", "or"}
      [] before[1] = "mark" -> before \notin {Shut, Mark("]")}
      [] before[1] \in {"number", "quoted", "string", "backtick"} -> FALSE
      [] before = End -> TRUE
NormalizeBracketIdentifiers(text) ==
    Pass(text, LAMBDA t, i :
        LET closing == {j \in i..Len(t) : t[j] = Mark("]")} IN
        IF t[i] # Mark("[") \/ ~CanStartBracketIdentifier(t, i) \/ closing = {} THEN Copied(t, i, i)
        ELSE IF Min(closing) = i + 2 /\ IsWord(t[i + 1]) THEN Replaced(<<Quoted(t[i + 1][2][1])>>, i + 2)
        ELSE Copied(t, i, Min(closing)))

------------------------------------------------------------------------------
(* Spark's time travel: t VERSION AS OF 1 AS x becomes t AS x AT (...).    *)

Continues == {"where", "group", "order", "limit", "join", "left", "natural", "cross", "on", "union"}
\* Where the alias that begins at i ends, i - 1 if none does.
RelationAliasEnd(text, i) ==
    LET name == IF At(text, i) = Word("as") THEN i + 1 ELSE i IN
    IF \/ At(text, name)[1] = "quoted"
       \/ IsWord(At(text, name)) /\ (name > i \/ At(text, name)[2][1] \notin Continues)
    THEN IF At(text, name + 1) = Open THEN FindMatchingParen(text, name + 1) ELSE name
    ELSE i - 1
RewriteTimeTravelClauses(text, dialect) ==
    Pass(text, LAMBDA t, i :
        LET k == IF t[i] = Word("for") THEN i + 1 ELSE i
            value == At(t, k + 3)
            pins == IF At(t, k) \in {Word("version"), Word("system_version")} THEN "version" ELSE "timestamp"
            last == RelationAliasEnd(t, k + 4) IN
        IF \/ dialect # "spark" \/ value[1] \notin {"string", "number"}
           \/ At(t, k) \notin {Word("version"), Word("system_version"), Word("timestamp"), Word("system_time")}
           \/ At(t, k + 1) # Word("as") \/ At(t, k + 2) # Word("of")
        THEN Copied(t, i, i)
        ELSE IF pins = "timestamp" /\ value[1] = "number" THEN Replaced(<<Refused>>, k + 3)
        ELSE Replaced(SubSeq(t, k + 4, last) \o <<Word("at")>> \o Paren(<<Word(pins), Mark("=>"), value>>), last))

------------------------------------------------------------------------------
(* Intervals, casts.                                                       *)

SingularIntervalUnit == [days |-> "day", day |-> "day", months |-> "month", month |-> "month"]
RewriteIntervals(text) ==
    Pass(text, LAMBDA t, i :
        LET value == At(t, i + 1) unit == At(t, i + 2) next == At(t, i + 3) IN
        IF t[i] # Word("interval") \/ value[1] \notin {"string", "number"} \/ ~IsWord(unit) THEN Copied(t, i, i)
        ELSE IF unit[2][1] \notin DOMAIN SingularIntervalUnit \/ next[1] \in {"word", "number"}
        THEN Replaced(<<Refused>>, i + 2)
        ELSE Replaced(<<t[i], String(value[2]), Word(SingularIntervalUnit[unit[2][1]])>>, i + 2))

CastTypes == [string |-> "varchar", int64 |-> "bigint", float64 |-> "double", bool |-> "boolean",
              datetime |-> "timestamp", numeric |-> "decimal"]
\* number(p, s) is DECIMAL(p, s); other types keep their name.
NormalizeCastType(type) ==
    CASE Len(type) = 1 /\ type[1][2][1] \in DOMAIN CastTypes -> <<Word(CastTypes[type[1][2][1]])>>
      [] Len(type) > 1 /\ type[1] = Word("number") -> <<Word("decimal")>> \o Tail(type)
      [] type[1] = Word("datetime64") \/ Last(type) = Word("unsigned") -> <<Refused>>
      [] OTHER -> type
RewriteCastTypes(text) ==
    Pass(text, LAMBDA t, i :
        IF t[i] \notin {Word("cast"), Word("try_cast")} \/ At(t, i + 1) # Open THEN Copied(t, i, i)
        ELSE LET close == FindMatchingParen(t, i + 1)
                 body == SubSeq(t, i + 2, close - 1)
                 as == FindTopLevelKeyword(body, "as", 1) IN
             IF as = 0 THEN Copied(t, i, close)
             ELSE Replaced(<<t[i]>> \o Paren(SubSeq(body, 1, as) \o NormalizeCastType(SubSeq(body, as + 1, Len(body)))),
                           close))

------------------------------------------------------------------------------
(* Aliases of the SELECT list that other clauses mention: whether the name *)
(* is the alias or a column differs between dialects.                      *)

ClauseKeywords == {"where", "group", "having", "qualify", "order", "limit", "union", "except", "intersect"}
NextClauseStart(text, i) ==
    Min({Len(text) + 1} \cup ({FindTopLevelKeyword(text, c, i) : c \in ClauseKeywords} \ {0}))
SelectAliases(items) ==
    {item[Len(item)] : item \in {it \in items : LET as == FindTopLevelKeyword(it, "as", 1) IN
                                    as > 0 /\ as = Len(it) - 1 /\ IsWord(it[Len(it)])}}
RejectRiskyAliasReferences(text) ==
    LET from == FindTopLevelKeyword(text, "from", 1)
        aliases == SelectAliases(ToSet(SplitTopLevelArgs(SubSeq(text, 2, from - 1))))
        mentioned(clause) ==
            LET start == FindTopLevelKeyword(text, clause, from) IN
            IF start = 0 THEN {} ELSE ToSet(SubSeq(text, start + 1, NextClauseStart(text, start + 1) - 1)) IN
    IF text[1] = Word("select") /\ from > 0 /\ \E c \in {"where", "having", "qualify", "group"} : mentioned(c) \cap aliases # {}
    THEN <<Refused>> ELSE text

------------------------------------------------------------------------------
(* Functions.                                                              *)

EveryDialect == Targets
Rewrite(name, kind, arity, target_name, dialects) ==
    [name |-> name, kind |-> kind, arity |-> arity, target |-> target_name, dialects |-> dialects]
Rewrites ==
    <<Rewrite("ifnull", "rename", 2, "coalesce", EveryDialect), Rewrite("nvl", "rename", 2, "coalesce", EveryDialect),
      Rewrite("date_format", "format", 2, "strftime", {"mysql", "trino", "spark", "hive"}),
      Rewrite("str_to_date", "format", 2, "strptime", {"mysql"}),
      Rewrite("date_parse", "format", 2, "strptime", {"trino"}),
      Rewrite("to_char", "format", 2, "strftime", {"postgres", "redshift", "snowflake"}),
      Rewrite("to_timestamp", "format", 2, "strptime", {"spark", "hive", "postgres", "redshift", "snowflake"}),
      Rewrite("to_date", "format date", 2, "strptime", {"spark", "hive", "postgres", "redshift", "snowflake"}),
      Rewrite("format_timestamp", "format first", 2, "strftime", {"bigquery"}),
      Rewrite("format_date", "format first", 2, "strftime", {"bigquery"}),
      Rewrite("parse_timestamp", "format first", 2, "strptime", {"bigquery"}),
      Rewrite("parse_date", "format first date", 2, "strptime", {"bigquery"}),
      Rewrite("date_add", "days +", 2, "", {"spark", "hive"}), Rewrite("date_sub", "days -", 2, "", {"spark", "hive"}),
      Rewrite("date_add", "+", 2, "", {"mysql", "bigquery"}), Rewrite("date_sub", "-", 2, "", {"mysql", "bigquery"}),
      Rewrite("datediff", "days between", 2, "date_diff", {"spark", "hive", "mysql"}),
      Rewrite("date_diff", "unit last", 3, "date_diff", {"bigquery"}),
      Rewrite("timestamp_diff", "unit last", 3, "date_diff", {"bigquery"}),
      Rewrite("date_trunc", "unit last", 2, "date_trunc", {"bigquery"}),
      Rewrite("current_date", "now date", 0, "now", EveryDialect),
      Rewrite("current_timestamp", "now", 0, "now", EveryDialect)>>

AsDate(text) == Call("cast", <<text \o <<Word("as"), Word("date")>>>>)
Day(n) == <<Word("interval"), String(<<n>>), Word("day")>>
ConvertedFormat(arg, dialect) ==
    IF Len(arg) # 1 \/ arg[1][1] # "string" THEN <<Refused>>
    ELSE LET chars == ConvertInputDateFormatToDuckDB(dialect, arg[1][2]) IN
         IF Refusal \in ToSet(chars) THEN <<Refused>> ELSE <<String(chars)>>
NormalizeDatePartArg(arg) ==
    IF Len(arg) = 1 /\ arg[1][1] \in {"word", "string"} THEN <<String(arg[1][2])>> ELSE <<Refused>>
\* A call that is only renamed keeps any number of arguments.
CountAccepted(r, n) == r.kind = "rename" \/ n = r.arity
BuildRewrittenFunctionCall(r, dialect, args) ==
    LET format_at == IF r.kind \in {"format first", "format first date"} THEN 1 ELSE 2
        formatted == Call(r.target, <<args[3 - format_at], ConvertedFormat(args[format_at], dialect)>>)
        days(op) == Paren(args[1] \o <<Mark(op)>> \o Paren(args[2]) \o <<Mark("*")>> \o Day("1")) IN
    CASE ~CountAccepted(r, Len(args)) -> <<Refused>>
      [] CountAccepted(r, Len(args)) ->
         CASE r.kind \in {"rename", "now"} -> Call(r.target, args)
           [] r.kind \in {"format", "format first"} -> formatted
           [] r.kind \in {"format date", "format first date"} -> AsDate(formatted)
           [] r.kind = "days +" -> days("+")
           [] r.kind = "days -" -> days("-")
           [] r.kind \in {"+", "-"} -> Paren(args[1] \o <<Mark(r.kind)>> \o args[2])
           [] r.kind = "days between" -> Call(r.target, <<<<String(<<"day">>)>>, args[2], args[1]>>)
           [] r.kind = "unit last" ->
                Call(r.target, <<NormalizeDatePartArg(args[r.arity])>> \o Reverse(SubSeq(args, 1, r.arity - 1)))
           [] r.kind = "now date" -> AsDate(Call("now", args))
RewriteFunctionCalls(text, dialect) ==
    FoldLeft(LAMBDA before, r :
                IF dialect \notin r.dialects THEN before
                ELSE Pass(before, LAMBDA t, i :
                        IF t[i] # Word(r.name) \/ At(t, i + 1) # Open THEN Copied(t, i, i)
                        ELSE LET close == FindMatchingParen(t, i + 1) IN
                             Replaced(BuildRewrittenFunctionCall(r, dialect, SplitTopLevelArgs(SubSeq(t, i + 2, close - 1))),
                                      close)),
             text, Rewrites)

RewriteMysqlLimitComma(text) ==
    Pass(text, LAMBDA t, i :
        IF t[i] # Word("limit") \/ At(t, i + 1)[1] # "number" \/ At(t, i + 2) # Comma THEN Copied(t, i, i)
        ELSE IF At(t, i + 3)[1] # "number" THEN Replaced(<<Refused>>, i + 2)
        ELSE Replaced(<<t[i], t[i + 3], Word("offset"), t[i + 1]>>, i + 3))

NormalizeInputSqlToDuckDB(text, dialect) ==
    LET identifiers == NormalizeBracketIdentifiers(NormalizeBacktickIdentifiers(text, dialect))
        literals == RewriteCastTypes(RewriteIntervals(RewriteTimeTravelClauses(identifiers, dialect)))
        calls == RewriteFunctionCalls(RejectRiskyAliasReferences(literals), dialect) IN
    IF dialect = "mysql" THEN RewriteMysqlLimitComma(calls) ELSE calls

------------------------------------------------------------------------------
(* Statements: expressions are put together from operands, with the text   *)
(* DuckDB would be given for them, and then made part of a SELECT.         *)

NoQuery == [text |-> << >>, duckdb |-> << >>, accepted |-> TRUE]
Pair(text, duckdb) == [text |-> text, duckdb |-> duckdb]
Plain(text) == Pair(text, text)
FormatIn == [java |-> <<"y", "y", "y", "y", "-", "M", "M">>, percent |-> <<"%", "Y", "-", "%", "m">>,
             keyword |-> <<"Y", "Y", "Y", "Y", "-", "M", "M">>]
FormatOf(dialect) ==
    CASE dialect \in {"spark", "hive"} -> FormatIn.java
      [] dialect \in {"mysql", "trino", "bigquery"} -> FormatIn.percent
      [] dialect \in {"postgres", "redshift", "snowflake"} -> FormatIn.keyword

Makes(kind) == query = NoQuery /\ source.left > 0 /\ kind \in source.kinds
Used(n) == source' = [source EXCEPT !.left = @ - 1] /\ Len(operands) >= n /\ UNCHANGED query
Popped(n) == SubSeq(operands, 1, Len(operands) - n)
Push(n, pair) == operands' = Append(Popped(n), pair)
Arg(n, k) == operands[Len(operands) - n + k]
Mentions(n, name) == \E k \in 1..n : Word(name) \in ToSet(Arg(n, k).text)

Leaf ==
    \/ Makes("column") /\ Push(0, Plain(<<Word("a")>>))
    \/ Makes("string") /\ Push(0, Plain(<<String(<<"nvl", "(">>)>>))
    \/ Makes("bracket") /\ Push(0, Pair(<<Mark("["), Word("b"), Mark("]")>>, <<Quoted("b")>>))
    \/ Makes("backtick") /\ source.dialect \in Backticking /\ \E parts \in {<<"order">>, <<"t", "b">>} :
           Push(0, Pair(<<Backticked(parts)>>,
                        IF source.dialect = "bigquery" /\ Len(parts) = 2 THEN <<Quoted("t"), Mark("."), Quoted("b")>>
                        ELSE <<<<"quoted", parts>>>>))
\* No call among the arguments of another call of the same name: the pass does not see it.
FunctionCall(r) ==
    LET extra == CASE r.kind = "unit last" -> <<<<Word("month")>>>>
                   [] r.kind \in {"format", "format date", "format first", "format first date"} ->
                        <<<<String(FormatOf(source.dialect))>>>>
                   [] OTHER -> << >>
        n == r.arity - Len(extra)
        ordered(args) == IF r.kind \in {"format first", "format first date"} THEN extra \o args ELSE args \o extra IN
    /\ Makes("call") /\ Used(n) /\ source.dialect \in r.dialects /\ ~Mentions(n, r.name)
    /\ Push(n, Pair(Call(r.name, ordered([k \in 1..n |-> Arg(n, k).text])),
                    BuildRewrittenFunctionCall(r, source.dialect, ordered([k \in 1..n |-> Arg(n, k).duckdb]))))
CastTo(type, duckdb) ==
    /\ Makes("cast") /\ Used(1) /\ ~Mentions(1, "cast")
    /\ Push(1, Pair(Call("cast", <<Arg(1, 1).text \o <<Word("as")>> \o type>>),
                    Call("cast", <<Arg(1, 1).duckdb \o <<Word("as")>> \o duckdb>>)))
\* In parentheses: a word after the unit is taken for the rest of a compound interval.
PlusInterval ==
    /\ Makes("interval") /\ Used(1)
    /\ Push(1, Pair(Paren(Arg(1, 1).text \o <<Mark("+"), Word("interval"), Number("2"), Word("days")>>),
                    Paren(Arg(1, 1).duckdb \o <<Mark("+"), Word("interval"), String(<<"2">>), Word("day")>>)))
Subscript ==
    /\ Makes("subscript") /\ Used(2)
    /\ Push(2, Pair(Arg(2, 1).text \o <<Mark("[")>> \o Arg(2, 2).text \o <<Mark("]")>>,
                    Arg(2, 1).duckdb \o <<Mark("[")>> \o Arg(2, 2).duckdb \o <<Mark("]")>>))

Version == <<Word("version"), Word("as"), Word("of"), Number("3")>>
AtVersion == <<Word("at")>> \o Paren(<<Word("version"), Mark("=>"), Number("3")>>)
\* The relation, after FROM.
Relations ==
    {Plain(<<Word("t")>>)} \cup
    (IF source.dialect # "spark" THEN {}
     ELSE {Pair(<<Word("t")>> \o for \o Version \o alias, <<Word("t")>> \o alias \o AtVersion) :
              for \in {<< >>, <<Word("for")>>}, alias \in {<< >>, <<Word("v")>>, <<Word("as"), Quoted("v")>>}})
Limits ==
    {Plain(<< >>)} \cup
    (IF source.dialect # "mysql" THEN {}
     ELSE {Pair(<<Word("limit"), Number("1"), Comma, Number("2")>>,
                <<Word("limit"), Number("2"), Word("offset"), Number("1")>>)})
Heads == [where |-> <<Word("where")>>, group |-> <<Word("group"), Word("by")>>, order |-> <<Word("order"), Word("by")>>]
\* SELECT the first operand, perhaps AS a, FROM a relation, with a clause about the last one.
Select ==
    /\ query = NoQuery /\ Len(operands) \in 1..2 /\ UNCHANGED <<source, operands>>
    /\ \E alias \in {<< >>, <<Word("as"), Word("a")>>}, relation \in Relations, clause \in DOMAIN Heads, limit \in Limits :
         query' = [text |-> <<Word("select")>> \o operands[1].text \o alias \o <<Word("from")>> \o relation.text
                            \o Heads[clause] \o Last(operands).text \o limit.text,
                   duckdb |-> <<Word("select")>> \o operands[1].duckdb \o alias \o <<Word("from")>> \o relation.duckdb
                              \o Heads[clause] \o Last(operands).duckdb \o limit.duckdb,
                   accepted |-> alias = << >> \/ clause = "order" \/ Word("a") \notin ToSet(Last(operands).text)]

InputInit ==
    /\ \E menu \in InputMenus : \E dialect \in menu.dialects :
           source = [dialect |-> dialect, kinds |-> menu.kinds, left |-> menu.length]
    /\ operands = << >> /\ query = NoQuery
Operation ==
    \/ Leaf /\ Used(0)
    \/ \E k \in DOMAIN Rewrites : FunctionCall(Rewrites[k])
    \/ \E type \in DOMAIN CastTypes \cap {"string", "int64"} : CastTo(<<Word(type)>>, <<Word(CastTypes[type])>>)
    \/ CastTo(Call("number", <<<<Number("9")>>>>), Call("decimal", <<<<Number("9")>>>>))
    \/ PlusInterval \/ Subscript
InputDone == (query # NoQuery \/ source.left = 0) /\ UNCHANGED inputVars
InputNext == Operation \/ Select \/ InputDone
InputSpec == InputInit /\ [][InputNext]_inputVars

\* Whatever a statement puts inside what - calls in the arguments of others, casts, intervals,
\* identifiers and strings that look like calls - the passes (NormalizeInputSqlToDuckDB) rewrite
\* all of it and nothing else, keep every argument with its function and its place, and refuse
\* exactly the statements that filter or group by the name of a result.
NormalizesEverything ==
    query # NoQuery =>
        LET normalized == NormalizeInputSqlToDuckDB(query.text, source.dialect) IN
        IF query.accepted THEN normalized = query.duckdb ELSE Refused \in ToSet(normalized)

=============================================================================
