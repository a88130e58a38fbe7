--------------------------- MODULE CteTextMeaning ---------------------------
(***************************************************************************)
(* What the text of CteText means, and that it is what the list of CTEs    *)
(* meant: names are resolved as DuckDB resolves them, and a query is the   *)
(* term that is left when every name is replaced by what it stands for.    *)
(***************************************************************************)
EXTENDS CteText

\* A source of a FROM clause: its columns and its meaning.
BaseTable(t) ==
    [cols |-> IF t \in DOMAIN Tables THEN Tables[t] ELSE << >>, mean |-> [table |-> t]]

\* A column is found by its name, whatever its case, in exactly one source.
Resolve(id, sources) ==
    LET hits == {at \in (DOMAIN sources) \X (1..MaxColumns) :
                    at[2] \in DOMAIN sources[at[1]].cols /\ Lower(sources[at[1]].cols[at[2]]) = Lower(id)}
    IN  IF Cardinality(hits) = 1 THEN CHOOSE h \in hits : TRUE ELSE <<0, 0>>
Shadowed(e) == e.op = "lambda" /\ Len(e.args) = 2 /\ Lower(e.args[1]) = Lower(e.args[2])
\* Of a lambda, what its captured column stands for.
ResolveExpr(e, sources) ==
    [op |-> e.op,
     args |-> IF Shadowed(e) THEN <<<<0, 1>>>>
              ELSE IF e.op = "lambda" THEN <<Resolve(e.args[Len(e.args)], sources)>>
              ELSE [i \in DOMAIN e.args |-> Resolve(e.args[i], sources)]]
ResolveAll(exprs, sources) == [i \in DOMAIN exprs |-> ResolveExpr(exprs[i], sources)]

Query(parts, sources, order) ==
    [clause |-> [c \in Clauses |-> IF c = "order" THEN order
                                   ELSE ResolveAll(parts.clause[c], sources)],
     from |-> [i \in DOMAIN sources |-> sources[i].mean], tail |-> parts.tail]
\* SELECT all columns FROM one source, and nothing else, is that source.
Identity(sources) ==
    Query(Parts(Columns(sources[1].cols), << >>, ""), <<sources[1]>>, << >>)
MeaningOf(parts, sources, order) ==
    LET q == Query(parts, sources, order)
    IN  IF Len(sources) = 1 /\ q = Identity(sources) THEN sources[1].mean ELSE q

\* The meanings of a list of definitions, each of which reads earlier ones and base tables.
Sources(parts, defs, mean, upto) ==
    [i \in DOMAIN parts.from |->
        LET k == {j \in 1..upto : defs[j].name = parts.from[i]}
        IN  IF k = {} THEN BaseTable(parts.from[i])
            ELSE [cols |-> defs[Max(k)].cols, mean |-> mean[Max(k)]]]
Meanings(defs) ==
    LET mean[k \in DOMAIN defs] ==
            LET sources == Sources(defs[k].parts, defs, mean, k - 1)
            IN  MeaningOf(defs[k].parts, sources,
                          ResolveAll(defs[k].parts.clause["order"], sources))
    IN  mean

\* Bound, a lambda captures a column and not a name.
Bound(parts) ==
    With(parts, "select", [i \in DOMAIN parts.clause["select"] |->
        LET e == parts.clause["select"][i] IN
        IF e.op = "lambda" THEN Expr("lambda", <<e.args[2]>>) ELSE e])
Listed ==
    [k \in DOMAIN nodes |-> [name |-> nodes[k].cte_name, cols |-> nodes[k].cols,
                             materialized |-> nodes[k].materialized, parts |-> Bound(nodes[k].parts)]]
\* What the closing SELECT and the list mean, with sort keys resolved by `order`.
ClosingSources(defs, parts) == Sources(parts, defs, Meanings(defs), Len(defs))

\* ORDER BY of a SELECT that names its columns: a bare name is first of all a result column.
AliasOrColumn(e, parts, sources) ==
    LET named == {i \in DOMAIN final.final_column_list :
                     e.op = "" /\ Lower(final.final_column_list[i]) = Lower(e.args[1])}
    IN  ResolveExpr(IF named = {} THEN e ELSE parts.clause["select"][Min(named)], sources)
SortKeys(parts, sources) ==
    [i \in DOMAIN parts.clause["order"] |->
        AliasOrColumn(parts.clause["order"][i], parts, sources)]

LastIsChild == prepared[Len(prepared)].cte_name = final.child
\* The query as listed: the visible columns of the last CTE.
ListedMeaning ==
    LET defs == Listed
        sources == ClosingSources(defs, FinalRead)
    IN  MeaningOf(FinalRead, sources, << >>)
\* As printed; an inlined last CTE is read through a projection to the visible columns.
PrintedMeaning(sort(_, _)) ==
    LET defs == WithClause
        sources == ClosingSources(defs, Closing)
    IN  IF ~InlineLast THEN MeaningOf(Closing, sources, << >>)
        ELSE LET last == prepared[Len(prepared)]
                 body == [Closing EXCEPT !.clause["select"] =
                             RenameParts(last.parts, rename).clause["select"]]
                 whole == [cols |-> last.cols, mean |-> MeaningOf(body, sources, sort(Closing, sources))]
             IN  MeaningOf(FinalRead, <<whole>>, << >>)
AsColumns(parts, sources) == ResolveAll(parts.clause["order"], sources)
AsPrinted(parts, sources) == SortKeys(parts, sources)

\* Reuse, pruning, renaming and inlining (CteList::ToQuery) leave a text whose every name is
\* found, in one place only, and whose query is the one the list of CTEs describes; ORDER BY
\* of the closing SELECT is read as if its columns had no new names.
TextMeansTheList == stage = "done" => PrintedMeaning(AsColumns) = ListedMeaning

\* A lambda that captures a column captures it in the text too (README.md: equivalent SQL),
\* also where a fused block has put the column of another projection in its place.
LambdasKeepTheirColumns ==
    stage = "done" =>
        \A parts \in {Closing} \cup {WithClause[k].parts : k \in DOMAIN WithClause} :
            \A e \in Names(parts.clause["select"]) : ~Shadowed(e)

\* As in TextMeansTheList, with the ORDER BY of the closing SELECT as DuckDB reads it.
SortsByTheSameKeys ==
    stage = "done" /\ PrintedMeaning(AsColumns) = ListedMeaning
        => PrintedMeaning(AsPrinted) = ListedMeaning

------------------------------------------------------------------------------
(* Evaluations.                                                            *)

\* How often DuckDB runs the i-th definition from the end: once if it is materialized, else for
\* every reference, as often as the definition that has the reference.
Runs ==
    LET def(i) == WithClause[Len(WithClause) + 1 - i]
        runs[i \in 1..Len(WithClause)] ==
            LET total == References(Closing, def(i).name)
                         + Total([d \in 1..(i - 1) |-> References(def(d).parts, def(i).name) * runs[d]])
            IN  IF def(i).materialized /\ total > 1 THEN 1 ELSE total
    IN  runs

\* Sharing never makes a common subplan run twice: a definition with several readers is
\* materialized, and so is everything whose readers would multiply (CteList::ToQuery).
NothingRunsTwice == stage = "done" => \A i \in DOMAIN WithClause : Runs[i] <= 1

\* Nesting once DuckDB has inlined every CTE that is read once and not materialized.
Nesting ==
    LET total(name) == References(Closing, name)
                       + Total([j \in DOMAIN WithClause |-> References(WithClause[j].parts, name)])
        nesting[k \in 1..Len(WithClause)] ==
            LET inlined == {j \in 1..(k - 1) :
                            /\ References(WithClause[k].parts, WithClause[j].name) > 0
                            /\ ~WithClause[j].materialized /\ total(WithClause[j].name) = 1}
            IN  1 + Max({0} \cup {nesting[j] : j \in inlined})
    IN  nesting
\* No chain of inlined CTEs gets deeper than the boundaries are meant to allow
\* (CteList::ToQuery: keep the inlined depth bounded), also where sharing and pruning have
\* changed who reads what.
DepthBounded ==
    stage = "done" => \A k \in DOMAIN WithClause : Nesting[k] <= MAX_INLINE_CTE_DEPTH
============================================================================
