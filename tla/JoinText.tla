------------------------------ MODULE JoinText ------------------------------
(***************************************************************************)
(* One join of the plan and the SELECT printed for it: the builder turns   *)
(* its type and conditions into an AstJoinNode (lpts_ast_builder.cpp) and  *)
(* JoinNode::ToQuery (cte_nodes.cpp) prints that.  SQL has no MARK and no  *)
(* SINGLE join: outside DuckDB a mark, which is TRUE, FALSE or NULL, is    *)
(* put together from EXISTS and NULL tests or from a LEFT JOIN.            *)
(*                                                                         *)
(* A condition compares a column of the left row with the same column of   *)
(* the right row, which may be written as an expression (~reference), or   *)
(* is an expression over both.                                             *)
(*                                                                         *)
(* Tables and results are functions to rows, from whatever tells equal     *)
(* rows apart; results are compared as bags.                               *)
(***************************************************************************)
EXTENDS Integers, Sequences, FiniteSets

CONSTANTS
    JoinMenus   \* sets of joins: types, lists of conditions, dialects, tables on either side

VARIABLES join  \* the join looked at, or NoJoin

Null == 0       \* values are positive
NoJoin == [type |-> "none"]

NullSafe == {"IS NOT DISTINCT FROM", "IS DISTINCT FROM"}
\* "expr" stands for a condition that is not a comparison.
Comparisons == NullSafe \cup {"=", "<", "<>", "expr"}
ASSUME JoinMenusAssumption ==
    \A m \in JoinMenus :
        /\ \A conds \in m.conds : \A i \in DOMAIN conds : conds[i].cmp \in Comparisons
        /\ \A table \in m.left \cup m.right : IsFiniteSet(DOMAIN table)

------------------------------------------------------------------------------
(* Three-valued logic.                                                     *)

Truth(b) == IF b THEN "TRUE" ELSE "FALSE"
And(S) == IF "FALSE" \in S THEN "FALSE" ELSE IF "NULL" \in S THEN "NULL" ELSE "TRUE"
Or(S) == IF "TRUE" \in S THEN "TRUE" ELSE IF "NULL" \in S THEN "NULL" ELSE "FALSE"

Holds(c, l, r) ==
    LET a == l[c.at] b == r[c.at] IN
    CASE c.cmp = "IS NOT DISTINCT FROM" -> Truth(a = b)
      [] c.cmp = "IS DISTINCT FROM" -> Truth(a # b)
      [] c.cmp \notin NullSafe /\ Null \in {a, b} -> "NULL"
      [] c.cmp = "=" /\ Null \notin {a, b} -> Truth(a = b)
      [] c.cmp = "<" /\ Null \notin {a, b} -> Truth(a < b)
      [] c.cmp = "<>" /\ Null \notin {a, b} -> Truth(a # b)
      [] c.cmp = "expr" /\ Null \notin {a, b} -> Truth(a + b > 2)
\* The conditions with indices I, all of them or any.
HoldAll(conds, I, l, r) == And({Holds(conds[i], l, r) : i \in I})
HoldAny(conds, I, l, r) == Or({Holds(conds[i], l, r) : i \in I})

------------------------------------------------------------------------------
(* Joins of tables.                                                        *)

Matches(conds, l, r) == HoldAll(conds, DOMAIN conds, l, r) = "TRUE"
Matching(conds, l, right) == {k \in DOMAIN right : Matches(conds, l, right[k])}
\* A condition is about the left and the right row, whichever side of the text they are on.
MatchedBy(conds, left, r) == {i \in DOMAIN left : Matches(conds, left[i], r)}

Padding == <<Null, Null>>
RowAt(table, ks) == IF ks = {} THEN Padding ELSE table[CHOOSE k \in ks : TRUE]
Part(table, ks) == [k \in ks |-> table[k]]

\* Where a row of the result comes from: the index of a left row, if any, and of a right one.
Pairs(conds, left, right) ==
    UNION {{<<{i}, {k}>> : k \in Matching(conds, left[i], right)} : i \in DOMAIN left}
Lefts(conds, left, right) == {<<{i}, {}>> : i \in {i \in DOMAIN left : Matching(conds, left[i], right) = {}}}
Rights(conds, left, right) == {<<{}, {k}>> : k \in {k \in DOMAIN right : MatchedBy(conds, left, right[k]) = {}}}
Origins(type, conds, left, right) ==
    Pairs(conds, left, right) \cup (IF type \in {"LEFT", "OUTER"} THEN Lefts(conds, left, right) ELSE {})
                              \cup (IF type \in {"RIGHT", "OUTER"} THEN Rights(conds, left, right) ELSE {})
JoinRows(type, conds, left, right) ==
    [o \in Origins(type, conds, left, right) |-> RowAt(left, o[1]) \o RowAt(right, o[2])]

RowsOf(table) == {table[k] : k \in DOMAIN table}
BagOf(table) == [row \in RowsOf(table) |-> Cardinality({k \in DOMAIN table : table[k] = row})]
DistinctRows(table) == [row \in RowsOf(table) |-> row]

------------------------------------------------------------------------------
(* The builder.                                                            *)

\* ExtractMarkComparison: the comparisons that NULL propagates through, and the others.
Correlation(conds) == {i \in DOMAIN conds : conds[i].cmp \in NullSafe \cup {"expr"}}
Membership(conds) == DOMAIN conds \ Correlation(conds)
HasEquality(conds) == \E i \in DOMAIN conds : conds[i].cmp \in {"=", "IS NOT DISTINCT FROM"}
\* Without an equality that ties them together, several comparisons match one by one.
Independent(conds) == Cardinality(Membership(conds)) > 1 /\ ~HasEquality(conds)

Semis == {"SEMI", "ANTI", "RIGHT_SEMI", "RIGHT_ANTI"}
Comparable == {"INNER", "LEFT", "RIGHT", "OUTER", "SINGLE", "MARK"} \cup Semis
ValidateJoinTypeForDialect(type, dialect) ==
    /\ type \in Comparable
    /\ dialect # "duckdb" => /\ type = "OUTER" => dialect # "mysql_mariadb"
                             /\ type \in Semis => dialect = "spark" /\ type \in {"SEMI", "ANTI"}
\* A delim join has its outer side on the left, also where the plan has it on the right.
SqlJoinType(j) ==
    IF j.type = "MARK" /\ j.op # "any" THEN "LEFT"
    ELSE IF j.op # "delim" THEN j.type
    ELSE CASE j.type = "RIGHT_SEMI" -> "SEMI" [] j.type = "RIGHT_ANTI" -> "ANTI" [] OTHER -> j.type
\* JoinNode::ToQuery has a way to print it.
Printable(j) ==
    /\ ValidateJoinTypeForDialect(j.type, j.dialect)
    /\ j.op = "any" => j.type # "MARK"

------------------------------------------------------------------------------
(* The text.                                                               *)

\* Conditions that match one by one: a NULL on the left is the mark, whatever matches.
IndependentMark(conds, l, right) ==
    LET ms == Membership(conds) rows == DOMAIN right IN
    IF \E i \in ms : l[conds[i].at] = Null THEN "NULL"
    ELSE IF "TRUE" \in {HoldAny(conds, ms, l, right[k]) : k \in rows} THEN "TRUE"
    ELSE IF \E k \in rows, i \in ms : right[k][conds[i].at] = Null THEN "NULL" ELSE "FALSE"

\* A comparison that is not definitely false: it holds, or an operand is NULL.
Indeterminate(c, l, r) == Or({Holds(c, l, r), Truth(l[c.at] = Null), Truth(r[c.at] = Null)})
MembershipMark(conds, l, right) ==
    LET open(r) == And({Holds(conds[i], l, r) : i \in Correlation(conds)}
                       \cup {Indeterminate(conds[i], l, r) : i \in Membership(conds)}) IN
    IF Matching(conds, l, right) # {} THEN "TRUE"
    ELSE IF "TRUE" \in {open(right[k]) : k \in DOMAIN right} THEN "NULL" ELSE "FALSE"

\* A LEFT JOIN to the distinct rows; a column added to them tells a partner from none.
\* The mutant asks for the partner's key instead.
PartnerFound_Key(conds, r) == r[conds[1].at] # Null
PartnerFound(conds, r) == TRUE
\* The mark expression of a delim join is "true", which asks for no partner, unless its first
\* condition refers to a column on the right.
MarkIsTrue(j) == j.op = "delim" /\ (j.conds # << >> => ~j.conds[1].reference)
JoinedMarks(j) ==
    LET found == DistinctRows(j.right) IN
    [o \in Origins("LEFT", j.conds, j.left, found) |->
        RowAt(j.left, o[1])
          \o <<Truth(MarkIsTrue(j) \/ (o[2] # {} /\ PartnerFound(j.conds, RowAt(found, o[2]))))>>]

\* Printed as JOIN BY (TYPE MARK), DuckDB's own operator: there is nothing to compare.
NativeMark(j) == j.type = "MARK" /\ j.dialect = "duckdb" /\ j.native
MarkText(j) ==
    IF Independent(j.conds) THEN [i \in DOMAIN j.left |-> j.left[i] \o <<IndependentMark(j.conds, j.left[i], j.right)>>]
    ELSE IF Membership(j.conds) # {} THEN
        [i \in DOMAIN j.left |-> j.left[i] \o <<MembershipMark(j.conds, j.left[i], j.right)>>]
    ELSE JoinedMarks(j)

\* The rows of a table that find a partner, or those that find none.
Semi(conds, left, right, wanted) ==
    Part(left, {i \in DOMAIN left : (Matching(conds, left[i], right) # {}) = wanted})
RightSemi(conds, left, right, wanted) ==
    Part(right, {k \in DOMAIN right : (MatchedBy(conds, left, right[k]) # {}) = wanted})
ToQuery(j) ==
    LET type == SqlJoinType(j) IN
    CASE j.type = "MARK" -> MarkText(j)
      \* The preserved side goes to the left of the text.
      [] type \in {"RIGHT_SEMI", "RIGHT_ANTI"} -> RightSemi(j.conds, j.left, j.right, type = "RIGHT_SEMI")
      [] type = "SINGLE" -> JoinRows("LEFT", j.conds, j.left, DistinctRows(j.right))
      [] type \in {"SEMI", "ANTI"} -> Semi(j.conds, j.left, j.right, type = "SEMI")
      [] j.type # "MARK" /\ type \in {"INNER", "LEFT", "RIGHT", "OUTER"} -> JoinRows(type, j.conds, j.left, j.right)

------------------------------------------------------------------------------
(* What the plan's operator returns.                                       *)

\* A row of the subquery counts for the mark if the correlation holds; the mark is what the
\* subquery's rows make of the comparisons, joined by OR.
PlanMark(conds, l, right) ==
    LET ms == Membership(conds)
        rows == {k \in DOMAIN right : HoldAll(conds, Correlation(conds), l, right[k]) = "TRUE"} IN
    Or({IF Independent(conds) THEN HoldAny(conds, ms, l, right[k]) ELSE HoldAll(conds, ms, l, right[k]) : k \in rows})
PlanRows(j) ==
    CASE j.type = "MARK" -> [i \in DOMAIN j.left |-> j.left[i] \o <<PlanMark(j.conds, j.left[i], j.right)>>]
      [] j.type \in Semis /\ (j.op = "delim" \/ j.type \in {"SEMI", "ANTI"}) ->
            Semi(j.conds, j.left, j.right, j.type \in {"SEMI", "RIGHT_SEMI"})
      [] j.type \in Semis /\ j.op # "delim" /\ j.type \notin {"SEMI", "ANTI"} ->
            RightSemi(j.conds, j.left, j.right, j.type = "RIGHT_SEMI")
      \* A scalar subquery: the row it found, or NULLs.
      [] j.type = "SINGLE" ->
            [i \in DOMAIN j.left |-> j.left[i] \o RowAt(j.right, Matching(j.conds, j.left[i], j.right))]
      [] j.type \in {"INNER", "LEFT", "RIGHT", "OUTER"} -> JoinRows(j.type, j.conds, j.left, j.right)
\* Joins the plan holds and DuckDB executes without an error: a scalar subquery finds one row
\* at most, an EXISTS has its keys on the right, which are columns of its delim scan, nothing
\* else, and NULL is one of them, and comparisons that match one by one have left keys (DuckDB's
\* NULL for one without is not SQL's).
Executes(j) ==
    /\ j.type = "SINGLE" => \A l \in RowsOf(j.left) : \A k, n \in Matching(j.conds, l, j.right) : j.right[k] = j.right[n]
    /\ j.type = "MARK" /\ Membership(j.conds) = {} =>
           /\ 1 \in DOMAIN j.conds
           /\ \A i \in DOMAIN j.conds : j.conds[i].cmp = "IS NOT DISTINCT FROM" /\ j.conds[i].reference
           /\ \A r, s \in RowsOf(j.right) : (\A i \in DOMAIN j.conds : r[j.conds[i].at] = s[j.conds[i].at]) => r = s
    /\ j.type = "MARK" /\ Independent(j.conds) =>
           /\ Correlation(j.conds) = {}
           /\ \A l \in RowsOf(j.left), i \in DOMAIN j.conds : l[j.conds[i].at] # Null

------------------------------------------------------------------------------

JoinInit == join = NoJoin
PickJoin ==
    /\ join = NoJoin
    /\ \E m \in JoinMenus : \E type \in m.types, op \in m.ops, conds \in m.conds, left \in m.left, right \in m.right,
            dialect \in m.dialects, native \in m.native :
        /\ join' = [type |-> type, op |-> op, conds |-> conds, left |-> left, right |-> right,
                    dialect |-> dialect, native |-> native]
        /\ Printable(join') /\ ~NativeMark(join') /\ Executes(join')
JoinPrinted == join # NoJoin /\ UNCHANGED join
JoinNext == PickJoin \/ JoinPrinted
JoinSpec == JoinInit /\ [][JoinNext]_join

\* The SELECT printed for a join returns the rows of the plan's operator, each as often, with marks
\* that are NULL where the operator's are: whichever of the five ways of JoinNode::ToQuery prints
\* it, with NULL keys on either side, duplicates, empty sides and keys that NULL matches.
JoinMeansThePlan == join # NoJoin => BagOf(ToQuery(join)) = BagOf(PlanRows(join))

=============================================================================
