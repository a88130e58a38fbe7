----------------------------- MODULE DateFormat -----------------------------
(***************************************************************************)
(* Date formats (lpts_date_format.cpp).  The expression renderer turns the *)
(* format of a DuckDB strftime or strptime into one of the output dialect, *)
(* the input normalizer turns the format of another dialect into DuckDB's. *)
(* A dialect writes a field as a specifier after %, as a run of letters or *)
(* as a keyword.                                                           *)
(*                                                                         *)
(* A format is a sequence of fields, each the characters DuckDB writes it  *)
(* with: % and a specifier, or one literal character.  A printed format is *)
(* a sequence of characters; a refused one holds Refusal.                  *)
(***************************************************************************)
EXTENDS Naturals, Sequences, SequencesExt

CONSTANTS
    Fields,         \* the specifiers, <<"%", c>>, and literals, <<c>>, a format is made of
    FormatLength    \* bound: how many of them

VARIABLES
    target,     \* the dialect
    format      \* a DuckDB format as a sequence of Fields

formatVars == <<target, format>>

Targets == {"postgres", "redshift", "spark", "hive", "trino", "snowflake", "bigquery", "mysql"}
Refusal == "refused"
IsLiteral(field) == Len(field) = 1
Uppercase == [a |-> "A", d |-> "D", h |-> "H", m |-> "M", n |-> "N", o |-> "O", s |-> "S", t |-> "T", y |-> "Y", z |-> "Z"]
CasePairs == {{c, Uppercase[c]} : c \in DOMAIN Uppercase}
Letters == DOMAIN Uppercase \cup {Uppercase[c] : c \in DOMAIN Uppercase} \cup {"E", "F", "I", "U"}

------------------------------------------------------------------------------
(* Out of DuckDB: what is printed for each specifier.                      *)

Java ==
    [Y |-> <<"y", "y", "y", "y">>, y |-> <<"y", "y">>, m |-> <<"M", "M">>, d |-> <<"d", "d">>, H |-> <<"H", "H">>,
     I |-> <<"h", "h">>, M |-> <<"m", "m">>, S |-> <<"s", "s">>, f |-> <<"S", "S", "S", "S", "S", "S">>,
     z |-> <<"Z">>, Z |-> <<"z">>, a |-> <<"E", "E", "E">>, A |-> <<"E", "E", "E", "E">>,
     b |-> <<"M", "M", "M">>, B |-> <<"M", "M", "M", "M">>]
Postgres ==
    [Y |-> <<"Y", "Y", "Y", "Y">>, y |-> <<"Y", "Y">>, m |-> <<"M", "M">>, d |-> <<"D", "D">>,
     H |-> <<"H", "H", "2", "4">>, I |-> <<"H", "H", "1", "2">>, M |-> <<"M", "I">>, S |-> <<"S", "S">>,
     f |-> <<"U", "S">>, z |-> <<"T", "Z", "H", ":", "T", "Z", "M">>, Z |-> <<"T", "Z">>, a |-> <<"D", "y">>,
     A |-> <<"D", "a", "y">>, b |-> <<"M", "o", "n">>, B |-> <<"M", "o", "n", "t", "h">>]
Snowflake ==
    [Postgres EXCEPT !.f = <<"F", "F", "6">>, !.z = <<"T", "Z", "H", "T", "Z", "M">>, !.Z = <<"T", "Z", "H">>,
                     !.a = <<"D", "Y">>, !.A = <<"D", "Y">>, !.b = <<"M", "O", "N">>, !.B = <<"M", "M", "M", "M">>]
MySQLMariaDB ==
    [s \in {"Y", "y", "m", "d", "H", "I", "M", "S", "f", "j", "p", "U", "w", "a", "W", "A", "b", "B"} |->
        <<"%", CASE s = "I" -> "h" [] s = "M" -> "i" [] s = "S" -> "s" [] s = "A" -> "W" [] s = "B" -> "M"
                 [] OTHER -> s>>]
\* Trino and BigQuery are given DuckDB's own format.
Unconverted == [s \in {f[2] : f \in {g \in Fields : ~IsLiteral(g)}} |-> <<"%", s>>]
Printed(dialect) ==
    CASE dialect \in {"spark", "hive"} -> Java
      [] dialect \in {"postgres", "redshift"} -> Postgres
      [] dialect = "snowflake" -> Snowflake
      [] dialect = "mysql" -> MySQLMariaDB
      [] dialect \in {"trino", "bigquery"} -> Unconverted
PrintsPercent(dialect) == dialect \in {"mysql", "trino", "bigquery"}
\* A literal is copied, without quotes where the dialect would want them.
Piece(dialect, field) ==
    CASE IsLiteral(field) -> field
      [] field = <<"%", "%">> -> IF PrintsPercent(dialect) THEN <<"%", "%">> ELSE <<"%">>
      [] OTHER -> IF field[2] \in DOMAIN Printed(dialect) THEN Printed(dialect)[field[2]] ELSE <<Refusal>>
TryConvertDuckDBDateFormatForDialect(dialect, fields) ==
    FlattenSeq([i \in DOMAIN fields |-> Piece(dialect, fields[i])])

------------------------------------------------------------------------------
(* Into DuckDB: percent formats by specifier, others by the first token of *)
(* a list that matches; a letter that begins none is refused.              *)

Kept(specifiers) == [s \in specifiers |-> s]
MySQLPercent ==
    LET same == {"Y", "y", "m", "d", "H", "I", "f", "j", "p", "U", "w", "%", "S", "b"} IN
    [s \in same \cup {"i", "s", "M"} |->
        CASE s = "i" -> "M" [] s = "s" -> "S" [] s = "M" -> "B" [] OTHER -> s]
BigQueryPercent == Kept({"Y", "y", "m", "d", "H", "I", "M", "S", "f", "j", "p", "U", "w", "%", "b", "B"})

\* Mutant: the shorter token first.
JavaTokens_ShortFirst ==
    <<<<<<"y", "y">>, "y">>, <<<<"M", "M">>, "m">>, <<Java.f, "f">>, <<Java.Y, "Y">>, <<Java.B, "B">>, <<Java.b, "b">>,
      <<Java.a, "a">>, <<Java.d, "d">>, <<Java.H, "H">>, <<Java.I, "I">>, <<Java.M, "M">>, <<Java.S, "S">>>>
JavaTokens ==
    <<<<Java.f, "f">>, <<Java.Y, "Y">>, <<<<"Y", "Y", "Y", "Y">>, "Y">>, <<Java.B, "B">>, <<Java.b, "b">>, <<Java.a, "a">>,
      <<<<"S", "S", "S">>, "f">>, <<Java.y, "y">>, <<<<"Y", "Y">>, "y">>, <<Java.m, "m">>, <<Java.d, "d">>,
      <<Java.H, "H">>, <<Java.I, "I">>, <<Java.M, "M">>, <<Java.S, "S">>, <<<<"a">>, "p">>>>
Month == <<"M", "O", "N", "T", "H">>
PostgresTokens ==
    <<<<Postgres.Y, "Y">>, <<Postgres.H, "H">>, <<Postgres.I, "I">>, <<Month, "B">>, <<Snowflake.b, "b">>,
      <<Postgres.M, "M">>, <<Postgres.S, "S">>, <<Postgres.f, "f">>, <<Postgres.y, "y">>, <<Postgres.m, "m">>,
      <<Postgres.d, "d">>>>
SnowflakeTokens ==
    <<<<Snowflake.Y, "Y">>, <<Snowflake.H, "H">>, <<Snowflake.I, "I">>, <<Month, "B">>, <<Snowflake.b, "b">>,
      <<Snowflake.f, "f">>, <<<<"F", "F">>, "f">>, <<Snowflake.M, "M">>, <<Snowflake.S, "S">>, <<Snowflake.y, "y">>,
      <<Snowflake.m, "m">>, <<Snowflake.d, "d">>>>

From(text, i) == SubSeq(text, i, Len(text))
ConvertPercentDateFormatToDuckDB(table, text) ==
    LET read[rest \in Seq(STRING)] ==
            IF rest = << >> THEN << >>
            ELSE IF rest[1] # "%" THEN <<rest[1]>> \o read[Tail(rest)]
            ELSE IF Len(rest) = 1 \/ rest[2] \notin DOMAIN table THEN <<Refusal>>
            ELSE <<"%", table[rest[2]]>> \o read[From(rest, 3)] IN
    read[text]

TokensOf(dialect) ==
    CASE dialect \in {"spark", "hive"} -> JavaTokens
      [] dialect \in {"postgres", "redshift"} -> PostgresTokens
      [] dialect = "snowflake" -> SnowflakeTokens
CaseSensitive(dialect) == dialect \notin {"postgres", "redshift", "snowflake"}
Alike(dialect, c, d) == c = d \/ (~CaseSensitive(dialect) /\ {c, d} \in CasePairs)

BeginsWith(dialect, text, token) ==
    /\ Len(token) <= Len(text)
    /\ \A k \in DOMAIN token : Alike(dialect, text[k], token[k])
ConvertTokenDateFormatToDuckDB(dialect, tokens, text) ==
    LET read[rest \in Seq(STRING)] ==
            LET matching == {k \in DOMAIN tokens : BeginsWith(dialect, rest, tokens[k][1])}
                first == tokens[Min(matching)] IN
            IF rest = << >> THEN << >>
            ELSE IF matching # {} THEN <<"%", first[2]>> \o read[From(rest, Len(first[1]) + 1)]
            ELSE IF rest[1] \in Letters THEN <<Refusal>> ELSE <<rest[1]>> \o read[Tail(rest)] IN
    read[text]
ConvertInputDateFormatToDuckDB(dialect, text) ==
    CASE dialect \in {"mysql", "trino"} -> ConvertPercentDateFormatToDuckDB(MySQLPercent, text)
      [] dialect = "bigquery" -> ConvertPercentDateFormatToDuckDB(BigQueryPercent, text)
      [] OTHER -> ConvertTokenDateFormatToDuckDB(dialect, TokensOf(dialect), text)

------------------------------------------------------------------------------

FormatInit == target \in Targets /\ format = << >>
AddField ==
    /\ Len(format) < FormatLength
    /\ \E field \in Fields : format' = Append(format, field)
    /\ UNCHANGED target
FormatDone == Len(format) = FormatLength /\ UNCHANGED formatVars
FormatNext == AddField \/ FormatDone
FormatSpec == FormatInit /\ [][FormatNext]_formatVars

\* The format as DuckDB writes it, and what comes back from the dialect it was printed for.
Written == FlattenSeq(format)
There == TryConvertDuckDBDateFormatForDialect(target, format)
BackAgain == ConvertInputDateFormatToDuckDB(target, There)
SilentlyChanged == Refusal \notin ToSet(There) \cup ToSet(BackAgain) /\ BackAgain # Written

\* Every format that is printed as this text: all the ways to cut it into what fields become.
FormatsPrintedAs(dialect, text) ==
    LET cut[rest \in Seq(STRING)] ==
            IF rest = << >> THEN {<< >>}
            ELSE UNION {{<<field>> \o more : more \in cut[From(rest, Len(Piece(dialect, field)) + 1)]} :
                           field \in {f \in Fields : BeginsWith(dialect, rest, Piece(dialect, f))}} IN
    cut[text]

\* Formats that DuckDB tells apart are printed apart: if %A and %W, or %y%y and %Y, become one
\* text, that text is wrong for one of them.
ToldApart == Refusal \in ToSet(There) \/ FormatsPrintedAs(target, There) = {format}

\* What README.md:128 says of output and the code does not do: "it never silently emits wrong
\* SQL".  A format that is printed has a text of its own, and read back from the dialect it was
\* printed for it is that format and no other, as it is not where a literal letter is printed
\* without quotes.
FormatsKeepTheirMeaning == ToldApart /\ ~SilentlyChanged

\* The three ways a format comes back as another one.
\* A field that changes by itself: Snowflake gets MMMM for %B, Trino DuckDB's %M, minutes, which
\* its reader takes for the month's name, and %% is a bare % wherever % is an ordinary character.
ChangesAlone(dialect) ==
    (IF PrintsPercent(dialect) THEN {} ELSE {<<"%", "%">>})
    \cup (CASE dialect = "snowflake" -> {<<"%", "B">>} [] dialect = "trino" -> {<<"%", "M">>} [] OTHER -> {})
\* Literal letters that spell what the dialect writes a field with.
LettersSpellAField ==
    /\ ~PrintsPercent(target)
    /\ \E i, j \in DOMAIN format : \E k \in DOMAIN TokensOf(target) :
          /\ i <= j /\ \A n \in i..j : IsLiteral(format[n])
          /\ Len(TokensOf(target)[k][1]) = j - i + 1
          /\ BeginsWith(target, FlattenSeq(SubSeq(format, i, j)), TokensOf(target)[k][1])
\* Neighbours that run together: another format, with no field ending where one of this format
\* does, is printed as the same text.
Ends(fields) == {Len(TryConvertDuckDBDateFormatForDialect(target, SubSeq(fields, 1, i))) : i \in DOMAIN fields}
FieldsRunTogether == \E other \in FormatsPrintedAs(target, There) : ~(Ends(format) \subseteq Ends(other))

\* Apart from these, a format LPTS prints for a dialect is read back from that dialect as the
\* format it came from, or refused: the tables of the two directions agree field by field, and no
\* token of a longer format is taken for a shorter one.  (The order of the token tables.)
FormatsComeBack ==
    SilentlyChanged =>
        ToSet(format) \cap ChangesAlone(target) # {} \/ LettersSpellAField \/ FieldsRunTogether

=============================================================================
