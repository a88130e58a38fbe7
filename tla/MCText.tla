------------------------------- MODULE MCText -------------------------------
(***************************************************************************)
(* Texts to check, one kind per behaviour: a list of CTEs, or, where the   *)
(* menu is Idle and offers no list, a single join, a date format or a      *)
(* statement of another dialect.                                           *)
(***************************************************************************)
EXTENDS CteTextMeaning, JoinText, InputNormalizer

T == <<"t">>
U == <<"u">>
MCTables == (T :> <<<<"a">>, <<"b">>>>) @@ (U :> <<<<"A">>, <<"end">>>>)
MCCteNames == <<<<"n0">>, <<"n1">>, <<"n2">>, <<"n3">>, <<"n4">>>>
MCColumnPrefixes == <<"t0", "t1", "t2", "t3", "t4">>
MCReserved == {<<"end">>}
Swapped == <<<<"b">>, <<"a">>>>
Menu(tables, kinds, outputs, length) ==
    [tables |-> tables, kinds |-> kinds, outputs |-> outputs, length |-> length,
     parameters |-> {<<"a">>, <<"x">>}]
\* Here no column has the parameter's name, whatever is folded.
Fused == [Menu({T}, {"map fused", "join"}, {<< >>}, 3) EXCEPT !.parameters = {<<"w">>}]
Idle == Menu({}, {}, {}, 0)
MCMenus ==
    {Menu({T, U}, {"filter", "project", "join", "union", "materialize"}, {<< >>, Swapped}, 3),
     Menu({T}, {"project", "join"}, {<< >>}, 5), Menu({T}, {"filter", "join"}, {<< >>}, 5),
     Menu({T}, {"filter", "union", "join"}, {<< >>}, 4), Menu({U}, {"filter", "join", "materialize"}, {<< >>}, 4),
     Menu({T, U}, {"map", "project", "join"}, {<< >>}, 4),
     Fused, Idle}
MCNoText == {Idle}
MCFusedMenus == {Menu({T}, {"map fused", "join"}, {<< >>}, 3)}

------------------------------------------------------------------------------

Bags(R) == {<< >>} \cup {<<r>> : r \in R}
           \cup {<<p[1], p[2]>> : p \in {q \in R \X R : q[1][1] * 10 + q[1][2] <= q[2][1] * 10 + q[2][2]}}
Cond(cmp, at) == [cmp |-> cmp, at |-> at, reference |-> TRUE]
Computed(cmp, at) == [cmp |-> cmp, at |-> at, reference |-> FALSE]
Cmps == {"=", "<", "<>", "IS NOT DISTINCT FROM"}
OneCond == {<<Cond(c, 1)>> : c \in Cmps \cup {"expr", "IS DISTINCT FROM"}}
ComputedConds == {<<Computed(c, 1)>> : c \in Cmps} \cup {<<Computed(c, 1), Cond("IS NOT DISTINCT FROM", 2)>> : c \in Cmps}
TwoConds == {<<Cond(c, 1), Cond(d, 2)>> : c \in Cmps, d \in Cmps}
JoinMenu(types, ops, conds, dialects, native) ==
    [types |-> types, ops |-> ops, conds |-> conds, dialects |-> dialects, native |-> native,
     left |-> Bags({<<Null, 1>>, <<1, Null>>, <<1, 1>>}), right |-> Bags((0..2) \X (0..2))]
MCNoJoin == {}
MCJoinMenus ==
    {JoinMenu({"MARK"}, {"comparison", "delim"}, OneCond \cup TwoConds, {"spark"}, {TRUE}),
     JoinMenu({"MARK"}, {"comparison", "delim"}, ComputedConds, {"spark"}, {TRUE}),
     JoinMenu({"MARK"}, {"comparison"}, OneCond \cup TwoConds, {"duckdb"}, {FALSE}),
     JoinMenu(Comparable \ {"MARK"}, {"comparison", "any"}, {<< >>} \cup OneCond, {"duckdb", "mysql_mariadb"}, {TRUE}),
     JoinMenu({"RIGHT_SEMI", "RIGHT_ANTI", "SINGLE", "INNER"}, {"delim"}, {<< >>} \cup TwoConds, {"duckdb"}, {TRUE})}

------------------------------------------------------------------------------

Specifiers == {"Y", "y", "m", "d", "H", "I", "M", "S", "f", "z", "Z", "a", "A", "b", "B", "j", "p", "U", "w", "W", "%"}
\* Literals: a separator, a digit of a token, a token of Java, letters of tokens, and the T of ISO 8601.
MCFields == {<<"%", c>> : c \in Specifiers} \cup {<<c>> : c \in {"-", "2", "a", "M", "S", "T", "Y"}}
InputMenu(dialects, kinds, length) == [dialects |-> dialects, kinds |-> kinds, length |-> length]
AllKinds == {"column", "bracket", "backtick", "string", "call", "cast", "interval", "subscript"}
MCInputMenus ==
    {InputMenu({"mysql", "bigquery", "spark"}, AllKinds, 3), InputMenu(Targets, {"column", "bracket", "call", "cast"}, 3),
     InputMenu({"redshift"}, {"column", "call"}, 5), InputMenu({"bigquery"}, {"column", "call"}, 4), InputMenu({"mysql"}, {"string", "call"}, 4)}

------------------------------------------------------------------------------

MCNoInput == {}
NoFormat == target = "trino" /\ format = << >>
NoInput == source = [dialect |-> "trino", kinds |-> {}, left |-> 0] /\ operands = << >> /\ query = NoQuery
MCInit ==
    /\ Init /\ JoinInit
    /\ \/ menu = Idle /\ FormatInit /\ NoInput
       \/ menu = Idle /\ InputInit /\ NoFormat
       \/ NoFormat /\ NoInput
MCNext ==
    \/ Next /\ UNCHANGED <<join, formatVars, inputVars>>
    \/ menu = Idle /\ NoFormat /\ NoInput /\ JoinNext /\ UNCHANGED <<vars, formatVars, inputVars>>
    \/ menu = Idle /\ join = NoJoin /\ NoInput /\ FormatNext /\ UNCHANGED <<vars, join, inputVars>>
    \/ menu = Idle /\ InputNext /\ UNCHANGED <<vars, join, formatVars>>
MCSpec == MCInit /\ [][MCNext]_<<vars, join, formatVars, inputVars>>
============================================================================
