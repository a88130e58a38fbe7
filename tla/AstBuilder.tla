----------------------------- MODULE AstBuilder -----------------------------
(***************************************************************************)
(* From DuckDB's logical plan to LPTS's tree (AstBuilder in                *)
(* lpts_ast_builder.cpp).  The plan refers to columns by binding, a table  *)
(* index and a position; SQL refers to them by name.  The builder walks    *)
(* the plan bottom up, gives every output column of an operator a name and *)
(* keeps binding -> name in column_map, which each expression above reads. *)
(*                                                                         *)
(* The plan is made here while it is walked: work is the stack of what     *)
(* RecursiveTraversal has finished, with the operators it is inside of.  A *)
(* node carries, beside the tree's column names, what a row holds at each  *)
(* of them, so that a name can be compared with the binding it stands for. *)
(*                                                                         *)
(* A name t5_a_1 is <<5, <<"a", "1">>>>.  "A" differs from "a" in case     *)
(* only; "$" and "#" are characters SanitizeIdentifierFragment replaces.   *)
(***************************************************************************)
EXTENDS Integers, Sequences, FiniteSets, SequencesExt, TLC

CONSTANTS
    BaseTables,     \* table -> sequence of column names
    BuilderMenus,   \* what a plan is made of: tables, kinds of operators, user aliases, bounds
    Characters,     \* what names are made of: characters, and words that nothing tells apart from one
    Digits,         \* 0, 1, 2, ... as they are written
    MaxColumns      \* bound: columns of an operator

Words == Seq(Characters)
\* Tables have columns, whose names and users' are words; a projection has a number of expressions.
ASSUME MenusAssumption ==
    \A m \in BuilderMenus :
        /\ m.width \in Nat /\ m.aliases \subseteq Words
        /\ \A table \in m.tables :
            /\ Len(BaseTables[table]) \in Nat
            /\ \A i \in 1..Len(BaseTables[table]) :
                BaseTables[table][i].name \in Words /\ BaseTables[table][i].leaf \in Words
\* Different numbers are written differently, and not with characters that stand for others.
ASSUME NamesAssumption ==
    /\ {"a", "_", "c", "count", "dummy", "expr", "grouping", "grp", "mark", "scalar", "sum", "unnest", "window"}
           \subseteq Characters
    /\ MaxColumns \in Nat /\ MaxColumns >= 2
    /\ Digits \in [0..(2 * MaxColumns) -> Characters \ {"A", "$", "#"}]
    /\ \A m, n \in 0..(2 * MaxColumns) : m # n => Digits[m] # Digits[n]

VARIABLES
    menu,           \* the menu of this plan
    status,         \* "build", "built" or "refused"
    work,           \* finished subtrees and the operators waiting for more, innermost last
    index,          \* the next table index of the plan
    serial,         \* operators so far: identifies a column where table indices repeat
    column_map,     \* binding -> ColStruct
    delim_get_source_col_names,         \* DELIM_GET's index -> names to read from the outer side
    materialized_cte_body_column_names, \* CTE's index -> columns of its body
    reads           \* what the last node reads: {<<what its name denotes, what the plan means>>}

builderVars == <<menu, status, work, index, serial, column_map, delim_get_source_col_names,
                 materialized_cte_body_column_names, reads>>

None == << >>
Digit(n) == Digits[n]

------------------------------------------------------------------------------
(* Names.                                                                  *)

SanitizeIdentifierFragment(frag) ==
    [i \in DOMAIN frag |-> IF frag[i] \in {"$", "#"} THEN "_" ELSE frag[i]]
ColStruct(ti, name, alias) == [table_index |-> ti, column_name |-> name, alias |-> alias]
Base(c) == IF c.alias = << >> THEN c.column_name ELSE c.alias
ToUniqueColumnName(c) == <<c.table_index, SanitizeIdentifierFragment(Base(c))>>
StripTablePrefix(name) == name[2]
\* Identifiers are equal when they differ in case only.
Lower(name) == <<name[1], [i \in DOMAIN name[2] |-> IF name[2][i] = "A" THEN "a" ELSE name[2][i]]>>

\* A request for one output column: candidates to try in turn, then base with a growing suffix.
Request(candidates, base, suffixed, seed) ==
    [candidates |-> candidates, base |-> base, suffixed |-> suffixed, seed |-> seed]
Suffixed(r, n) ==
    IF r.suffixed = "column_name" THEN [r.base EXCEPT !.column_name = @ \o <<Digit(n)>>]
    ELSE [r.base EXCEPT !.alias = Base(r.base) \o <<Digit(n)>>]
Candidate(r, k) ==
    IF k <= Len(r.candidates) THEN r.candidates[k]
    ELSE Suffixed(r, r.seed + k - Len(r.candidates) - 1)
Chosen(r, seen) ==
    LET free == {k \in 1..(Len(r.candidates) + Cardinality(seen) + 1) :
                    Lower(ToUniqueColumnName(Candidate(r, k))) \notin seen} IN
    Candidate(r, CHOOSE k \in free : \A j \in free : k <= j)
Mint(requests) ==
    LET made[k \in 0..Len(requests)] ==
            IF k = 0 THEN << >>
            ELSE LET earlier == made[k - 1] IN
                 Append(earlier, Chosen(requests[k], {Lower(ToUniqueColumnName(earlier[i])) : i \in DOMAIN earlier})) IN
    made[Len(requests)]
MakeDedupedColumn(ti, name, alias, seed) ==
    LET c == ColStruct(ti, name, alias) IN
    Request(<<c>>, c, IF alias = << >> THEN "column_name" ELSE "alias", seed)
NamesOf(cs) == [i \in DOMAIN cs |-> ToUniqueColumnName(cs[i])]

------------------------------------------------------------------------------
(* Nodes.  A row of the plan holds means[i] at bindings[i]; a row of the   *)
(* text holds shows[i] in the column named cols[i].                        *)

\* from: the first table index under it; delims: its DELIM_GETs, except those of nested inner sides.
Node(kind, kids, bindings, means, cols, shows) ==
    [kind |-> kind, bindings |-> bindings, means |-> means, cols |-> cols, shows |-> shows,
     from |-> IF kids = << >> THEN index ELSE kids[1].from,
     delims |-> UNION {kids[i].delims : i \in DOMAIN kids}, stale |-> {}, extra |-> {}]
\* at: the index the operator was given; promised: DELIM_GETs its inner side will hold.
Frame(kind, node, at, keys, promised) ==
    [kind |-> kind, node |-> node, at |-> at, keys |-> keys, promised |-> promised,
     scope |-> column_map, next |-> index]
IsFrame(item) == "promised" \in DOMAIN item
\* The subtree an item holds: an open operator has its first one.
NodeOf(item) == IF IsFrame(item) THEN item.node ELSE item
SetOps == {"Union", "Except"}
\* The last n items are finished subtrees.
Finished(n) == /\ Len(work) >= n
               /\ \A i \in (Len(work) - n + 1)..Len(work) : ~IsFrame(work[i])
Top == work[Len(work)]
Below == work[Len(work) - 1]
\* Only an aggregate or a projection asks a projection for more than it outputs.
Settled(node) == node.kind = "Project" => node.extra = {}
\* A frame on top of which one more subtree is finished.
Closes(kind) == status = "build" /\ Finished(1) /\ Len(work) > 1 /\ IsFrame(Below) /\ Below.kind = kind /\ Settled(Top)

Bound(ti, n) == [i \in 1..n |-> <<ti, i>>]
Fresh(n) == [i \in 1..n |-> <<serial, i>>]
Pick(seq, at) == [i \in DOMAIN at |-> seq[at[i]]]
All(seq) == [i \in DOMAIN seq |-> i]
\* The elements of seq that are in S, in their order.
Among(seq, S) ==
    LET kept[k \in 0..Len(seq)] ==
            IF k = 0 THEN << >> ELSE IF seq[k] \in S THEN Append(kept[k - 1], seq[k]) ELSE kept[k - 1] IN
    kept[Len(seq)]
Increasing(n) == {s \in UNION {[1..k -> 1..n] : k \in 1..n} : \A i \in 2..Len(s) : s[i - 1] < s[i]}
Strings(S, low, high) == UNION {[1..k -> S] : k \in low..high}

\* What DuckDB takes a name for in a scope: ambiguous and unknown names denote nothing.
Denotes(name, cols, shows) ==
    LET at == {i \in DOMAIN cols : Lower(cols[i]) = Lower(name)} IN
    IF Cardinality(at) = 1 THEN shows[CHOOSE i \in at : TRUE] ELSE None
ByName(names, cols, shows) == [i \in DOMAIN names |-> Denotes(names[i], cols, shows)]
FindColumnBinding(b) == ToUniqueColumnName(column_map[b])
OutputColumnNames(bindings) == [i \in DOMAIN bindings |-> FindColumnBinding(bindings[i])]
\* The columns an expression may refer to; a zero-column scan's dummy is not one.
Refs(node) == {<<node.bindings[i], node.means[i]>> : i \in {j \in DOMAIN node.bindings : node.means[j] # None}}
\* No column of it is a dummy.
Real(node) == \A i \in DOMAIN node.means : node.means[i] # None
Keys(pairs) == {p[1] : p \in pairs}
ReadByName(pairs, cols, shows) == {<<Denotes(FindColumnBinding(p[1]), cols, shows), p[2]>> : p \in pairs}
ReadByPosition(node) == {<<node.shows[i], node.means[i]>> : i \in DOMAIN node.bindings}
\* map with the entries of new, which replace its own.
Updated(map, new) ==
    [b \in DOMAIN map \cup DOMAIN new |-> IF b \in DOMAIN new THEN new[b] ELSE map[b]]
\* The new columns of an operator, entered into column_map.
Entering(bindings, cs) == [b \in ToSet(bindings) |-> cs[CHOOSE i \in DOMAIN bindings : bindings[i] = b]]
Registered(bindings, cs) == Updated(column_map, Entering(bindings, cs))

\* Expressions of node's parent read all it may refer to: each is right or wrong by itself.
ReadAll(refs, node) ==
    IF Keys(refs) \subseteq DOMAIN column_map THEN ReadByName(refs, node.cols, node.shows) ELSE {}

\* A node that resolves the bindings needed takes the place of the last n items of work.
Build(n, needed, node, map, seen) ==
    /\ IF needed \subseteq DOMAIN column_map
       THEN /\ Len(node.cols) <= MaxColumns
            /\ work' = Append(SubSeq(work, 1, Len(work) - n), node)
            /\ column_map' = map /\ reads' = seen
            /\ status' = IF node.kind \in {"Insert", "Root"} THEN "built" ELSE status
       ELSE status' = "no binding" /\ UNCHANGED <<work, column_map, reads>>
    /\ serial' = serial + 1 /\ UNCHANGED menu
Named == UNCHANGED <<delim_get_source_col_names, materialized_cte_body_column_names>>
\* The plan holds another operator of this kind, and width new table indices.
Offered(kind) == status = "build" /\ kind \in menu.kinds /\ serial < menu.operators
Starts(kind, width) == Offered(kind) /\ index' = index + width
Unary(kind, width) == Starts(kind, width) /\ Finished(1) /\ Settled(Top)

------------------------------------------------------------------------------
(* Leaves.                                                                 *)

Leaf(kind, bindings, means, cs, width) ==
    /\ Starts(kind, width) /\ Len(work) < menu.depth
    /\ Build(0, {}, Node(kind, << >>, bindings, means, NamesOf(cs), means), Registered(bindings, cs), {})
    /\ Named

\* A scan of some columns, or struct fields pushed into it, in the table's order.
Get(table, picked) ==
    LET request(k) ==
            LET c == BaseTables[table][picked[k]] IN
            IF c.leaf # << >> THEN MakeDedupedColumn(index, c.name, c.leaf, 1)
            ELSE Request(<<ColStruct(index, c.name, << >>)>>, ColStruct(index, c.name, c.name), "alias", k - 1)
        cs == Mint([k \in DOMAIN picked |-> request(k)]) IN
    Leaf("Get", Bound(index, Len(picked)), Fresh(Len(picked)), cs, 1)

\* count(*) over a table function: the dummy keeps the rows and is not registered.
GetNothing ==
    /\ Starts("GetNothing", 1) /\ Len(work) < menu.depth
    /\ Build(0, {}, Node("Get", << >>, <<<<index, 1>>>>, <<None>>, <<<<index, <<"dummy">>>>>>, Fresh(1)),
             column_map, {})
    /\ Named

DummyScan == Leaf("DummyScan", <<<<index, 1>>>>, Fresh(1), <<ColStruct(index, <<"dummy">>, << >>)>>, 1)
\* Literal rows (CHUNK_GET, EXPRESSION_GET), and the columns of a subtree that became empty.
Generated(ti, k) == ColStruct(ti, <<"c", Digit(k - 1)>>, << >>)
Values(n) == Leaf("Values", Bound(index, n), Fresh(n), [k \in 1..n |-> Generated(index, k)], 1)
\* Literal rows of which no column is needed: a private dummy the plan knows nothing of.
ValuesWithoutColumns ==
    /\ Starts("NoValues", 1) /\ Len(work) < menu.depth
    /\ Build(0, {}, Node("Values", << >>, << >>, << >>, <<<<index, <<"dummy">>>>>>, Fresh(1)), column_map, {})
    /\ Named
EmptyResult ==
    Leaf("EmptyResult", <<<<index, 1>>, <<index + 1, 1>>>>, Fresh(2),
         <<Generated(index, 1), Generated(index + 1, 2)>>, 2)

\* The columns of a body are found by their position; the reference is a scan of its own.
Again(v) == IF v = None THEN None ELSE <<serial>> \o v
Copied(ti, names) == Mint([i \in DOMAIN names |-> MakeDedupedColumn(ti, StripTablePrefix(names[i]), << >>, i - 1)])
CteRef(f) ==
    LET cs == Copied(index, materialized_cte_body_column_names[f.at])
        n == Len(f.node.bindings) IN
    /\ Starts("CteRef", 1) /\ Len(work) < menu.depth
    /\ Build(0, {}, Node("CteRef", << >>, Bound(index, n), [i \in 1..n |-> Again(f.node.means[i])], NamesOf(cs),
                         [i \in DOMAIN cs |-> Again(f.node.shows[i])]),
             Registered(Bound(index, n), cs), {})
    /\ Named

\* The keys a delim join hands to its inner side, read from its outer side.
DelimGet(f, ti) ==
    LET n == Len(f.keys) IN
    /\ Starts("DelimJoin", 0) /\ Len(work) < menu.depth
    /\ Build(0, ToSet(Bound(ti, n)),
             [Node("DelimGet", << >>, Bound(ti, n), Fresh(n), OutputColumnNames(Bound(ti, n)), Fresh(n))
                EXCEPT !.delims = {ti}],
             column_map,
             {<<Denotes(delim_get_source_col_names[ti][k], f.node.cols, f.node.shows), f.keys[k][2]>> : k \in 1..n})
    /\ Named

------------------------------------------------------------------------------
(* Operators over one subtree.                                             *)

\* Groups a parent may still refer to by the columns they group, as far as they are kept.
Passed(n, at) == {x \in n.stale : \E k \in DOMAIN at : n.bindings[at[k]] = x[3]}

\* A filter keeps the columns its projection map names, by position.
Filter(at) ==
    LET n == Top refs == Refs(n) \cup n.stale IN
    /\ Unary("Filter", 0)
    /\ Build(1, Keys(refs),
             [Node("Filter", <<n>>, Pick(n.bindings, at), Pick(n.means, at), Pick(n.cols, at), Pick(n.shows, at))
                EXCEPT !.stale = Passed(n, at)],
             column_map, ReadAll(refs, n))
    /\ Named

\* Order, Limit, TopN, Distinct and Sample select the columns they keep by name.
Rows(kind, at) ==
    LET n == Top refs == Refs(n) \cup n.stale
        names == OutputColumnNames(Pick(n.bindings, at)) IN
    /\ Unary(kind, 0)
    /\ Build(1, Keys(refs) \cup ToSet(Pick(n.bindings, at)),
             [Node(kind, <<n>>, Pick(n.bindings, at), Pick(n.means, at), names, ByName(names, n.cols, n.shows))
                EXCEPT !.stale = Passed(n, at)],
             column_map, ReadAll(refs, n))
    /\ Named

\* An operator that passes its input's columns on by name and adds more of its own.
Adding(kind, more, cs) ==
    LET n == Top
        names == OutputColumnNames(n.bindings)
        added == Bound(index, more) IN
    /\ Unary(kind, 1)
    /\ Build(1, ToSet(n.bindings),
             Node(kind, <<n>>, n.bindings \o added, n.means \o Fresh(more), names \o NamesOf(cs),
                  ByName(names, n.cols, n.shows) \o Fresh(more)),
             Registered(added, cs), ReadAll(Refs(n), n))
    /\ Named
Unnest(n) == Adding("Unnest", n, [k \in 1..n |-> ColStruct(index, <<"unnest", Digit(k - 1)>>, << >>)])
Window(aliases) ==
    LET default(k) == <<"window", Digit(k - 1)>>
        request(k) == Request(<<ColStruct(index, <<"expr">>, IF aliases[k] = << >> THEN default(k) ELSE aliases[k])>>,
                              ColStruct(index, <<"expr">>, default(k)), "alias", k - 1) IN
    Adding("Window", Len(aliases), Mint([k \in DOMAIN aliases |-> request(k)]))

\* An in-out table function: its own columns, then columns of its input under their names.
Lateral(own, passed) ==
    LET n == Top
        cs == Mint([k \in DOMAIN own |-> Request(<<ColStruct(index, own[k], << >>)>>,
                                                 ColStruct(index, own[k], own[k]), "alias", k - 1)])
        through == OutputColumnNames(Pick(n.bindings, passed)) IN
    /\ Unary("Lateral", 1)
    /\ Build(1, ToSet(n.bindings),
             Node("Lateral", <<n>>, Bound(index, Len(own)) \o Pick(n.bindings, passed),
                  Fresh(Len(own)) \o Pick(n.means, passed), NamesOf(cs) \o through,
                  Fresh(Len(own)) \o ByName(through, n.cols, n.shows)),
             Registered(Bound(index, Len(own)), cs), ReadAll(Refs(n), n))
    /\ Named

Insert ==
    LET n == Top IN
    /\ Unary("Insert", 0) /\ Len(work) = 1 /\ Real(Top)
    /\ Build(1, {}, Node("Insert", <<n>>, << >>, << >>, << >>, << >>), column_map, ReadByPosition(n))
    /\ Named

------------------------------------------------------------------------------
(* Projections and aggregates, which may ask for a column below their input. *)

\* A join emits a column it had pruned when its parent refers to it; a projection was told before.
Asked(n, use) ==
    IF n.kind # "Join" THEN n
    ELSE LET new == {x \in use : FindColumnBinding(x[1]) \notin ToSet(n.cols)}
             more == SetToSeq(new) IN
         [n EXCEPT !.cols = @ \o [i \in DOMAIN more |-> FindColumnBinding(more[i][1])],
                   !.shows = @ \o [i \in DOMAIN more |-> more[i][3]]]
Uses(n) == IF n.kind = "Project" THEN {n.extra}
           ELSE {{}} \cup (IF n.kind = "Join" THEN {{x} : x \in n.extra} ELSE {})
Asks(kind, width, use) == Starts(kind, width) /\ Finished(1) /\ use \in Uses(Top)
Reachable(n, use) == Refs(n) \cup {<<x[1], x[2]>> : x \in use}

\* item: [kind |-> "ref", "compress" or "computed", at |-> position in the input, alias |-> user's alias]
ProjectionColumn(item, b, k) ==
    LET desc == column_map[b]
        origin == SanitizeIdentifierFragment(StripTablePrefix(ToUniqueColumnName(desc)))
        computed == ColStruct(index, <<"expr">>, IF item.alias = << >> THEN <<"scalar", Digit(k - 1)>> ELSE item.alias) IN
    IF item.kind # "ref" THEN Request(<<computed>>, computed, "alias", k - 1)
    ELSE IF item.alias # << >> /\ SanitizeIdentifierFragment(item.alias) # origin
         THEN MakeDedupedColumn(index, item.alias, << >>, k - 1)
    ELSE LET again == ColStruct(index, origin, << >>) IN
         Request(<<desc, again>>, again, "column_name", k - 1)

\* Projections whose columns are those of the input, in order, are left out.
InOrder(items, n) == /\ Len(items) = Len(n.bindings)
                     /\ \A i \in DOMAIN items : items[i].kind # "computed" /\ items[i].at = i
Compressed(items) == \E i \in DOMAIN items : items[i].kind = "compress"
Skipped(items, n, root, extra) ==
    InOrder(items, n) /\ (Compressed(items) \/ (~root /\ extra = {}))

Project(items, root, use, extra) ==
    LET n == Asked(Top, use)
        refs == Reachable(Top, use)
        new == Bound(index, Len(items))
        source(i) == n.bindings[items[i].at]
        mean(i) == IF items[i].kind = "computed" THEN <<serial, i>> ELSE n.means[items[i].at]
        show(i) == IF items[i].kind = "computed" THEN <<serial, i>>
                   ELSE Denotes(FindColumnBinding(source(i)), n.cols, n.shows)
        cs == Mint([i \in DOMAIN items |-> ProjectionColumn(items[i], source(i), i)])
        told == {x \in extra : Lower(FindColumnBinding(x[1])) \notin {Lower(NamesOf(cs)[i]) : i \in DOMAIN cs}}
        hidden == SetToSeq(told)
        shown(x) == Denotes(FindColumnBinding(x[1]), n.cols, n.shows)
        kind == IF root THEN "Root" ELSE "Project"
        node == Node(kind, <<n>>, new, [i \in DOMAIN items |-> mean(i)],
                     NamesOf(cs) \o [i \in DOMAIN hidden |-> FindColumnBinding(hidden[i][1])],
                     [i \in DOMAIN items |-> show(i)] \o [i \in DOMAIN hidden |-> shown(hidden[i])]) IN
    /\ Asks("Project", 1, use) /\ (root => Len(work) = 1 /\ extra = {})
    /\ \/ \E i \in DOMAIN items : items[i].kind = "computed"
       \/ Top.kind = "Project" /\ {<<x[1], x[2]>> : x \in use} \subseteq extra
       \/ use = {}
    /\ IF Skipped(items, n, root, extra)
       THEN Build(1, {source(i) : i \in DOMAIN items},
                  [n EXCEPT !.bindings = new, !.stale = {}, !.kind = IF root THEN kind ELSE @],
                  Registered(new, [i \in DOMAIN items |-> column_map[source(i)]]), {})
       ELSE Build(1, Keys(refs) \cup {source(i) : i \in {j \in DOMAIN items : items[j].kind = "compress"}},
                  [node EXCEPT !.extra = {<<x[1], x[2], shown(x)>> : x \in extra}],
                  Registered(new, cs), ReadAll(refs, n))
    /\ Named

\* A parent may still refer to a group by the column it groups: it now has the group's name.
Remapped_Never(sources, cs) == << >>
Remapped(sources, cs) ==
    [b \in {sources[i] : i \in DOMAIN sources} |->
        cs[CHOOSE i \in DOMAIN sources : sources[i] = b /\ \A j \in DOMAIN sources : sources[j] = b => j <= i]]
\* groups: positions in the input, 0 for an expression; aggs: the users' aliases; many: several grouping sets.
Aggregate(groups, aggs, groupings, many, use) ==
    LET n == Asked(Top, use)
        refs == Reachable(Top, use)
        keys == {i \in DOMAIN groups : groups[i] # 0}
        source(i) == n.bindings[groups[i]]
        group(i) ==
            IF i \in keys THEN MakeDedupedColumn(index, column_map[source(i)].column_name, column_map[source(i)].alias, i - 1)
            ELSE MakeDedupedColumn(index, <<"expr">>, <<"grp", Digit(i - 1)>>, i - 1)
        argument == IF n.bindings # << >> /\ n.means[1] # None THEN <<"sum">> \o StripTablePrefix(FindColumnBinding(n.bindings[1]))
                    ELSE <<"count">>
        agg(i) == MakeDedupedColumn(index + 1, IF aggs[i] = << >> THEN argument ELSE aggs[i], << >>, i - 1)
        new == Bound(index, Len(groups)) \o Bound(index + 1, Len(aggs)) \o Bound(index + 2, groupings)
        cs == Mint([i \in DOMAIN groups |-> group(i)] \o [i \in DOMAIN aggs |-> agg(i)] \o
                   [i \in 1..groupings |-> MakeDedupedColumn(index + 2, <<"expr">>, <<"grouping", Digit(i - 1)>>, i - 1)])
        mean(i) == IF i \in keys THEN n.means[groups[i]] ELSE <<serial, i>>
        show(i) == IF i \in keys THEN Denotes(FindColumnBinding(source(i)), n.cols, n.shows) ELSE <<serial, i>>
        sources == [i \in keys |-> source(i)]
        latest == {i \in keys : \A j \in keys : source(j) = source(i) => j <= i}
        node == Node("Aggregate", <<n>>, new, [i \in DOMAIN new |-> mean(i)], NamesOf(cs), [i \in DOMAIN new |-> show(i)]) IN
    /\ Asks("Aggregate", 3, use)
    /\ IF many /\ \E i, j \in keys : i < j /\ FindColumnBinding(source(i)) = FindColumnBinding(source(j))
       THEN status' = "duplicate key" /\ serial' = serial + 1 /\ UNCHANGED <<menu, work, column_map, reads>>
       ELSE Build(1, Keys(refs),
                  [node EXCEPT !.stale = {<<source(i), n.means[groups[i]], new[i]>> : i \in latest}],
                  Updated(Registered(new, cs), Remapped(sources, cs)), ReadAll(refs, n))
    /\ Named

------------------------------------------------------------------------------
(* Operators over two subtrees.                                            *)

LeftOnly == {"SEMI", "ANTI"}
RightOnly == {"RIGHT_SEMI", "RIGHT_ANTI"}
\* The columns of a join's input that its projection map keeps, as positions in both inputs together.
Kept(type, l, r, left, right) ==
    LET shifted == [i \in DOMAIN right |-> Len(l.bindings) + right[i]] IN
    IF type \in RightOnly THEN shifted ELSE IF type \in LeftOnly \cup {"MARK"} THEN left ELSE left \o shifted
Mark == ColStruct(index, <<"expr">>, <<"mark">>)

\* One subtree each; the kinds differ in what they look up and in what they select.
Joined(type, l, r, left, right, kept) ==
    LET bindings == l.bindings \o r.bindings
        means == l.means \o r.means
        cols == l.cols \o r.cols
        shows == l.shows \o r.shows
        names == OutputColumnNames(Pick(bindings, kept))
        mapped == type # "MARK" /\ (Len(left) < Len(l.bindings) \/ Len(right) < Len(r.bindings))
        selected == IF type \in RightOnly THEN Pick(r.cols, right)
                    ELSE Pick(l.cols, left) \o IF type \in LeftOnly THEN << >> ELSE Pick(r.cols, right)
        mark == IF type = "MARK" THEN <<Mark>> ELSE << >>
        pruned == {i \in DOMAIN bindings : means[i] # None /\ ~\E k \in DOMAIN kept : kept[k] = i} IN
    [Node("Join", <<l, r>>, Pick(bindings, kept) \o Bound(index, Len(mark)), Pick(means, kept) \o Fresh(Len(mark)),
          names \o NamesOf(mark),
          ByName(IF mapped THEN selected ELSE names, cols, shows) \o Fresh(Len(mark)))
       EXCEPT !.extra = IF type \in LeftOnly \cup RightOnly \cup {"MARK"} THEN {}
                        ELSE {<<bindings[i], means[i], Denotes(FindColumnBinding(bindings[i]), cols, shows)>> : i \in pruned}]
\* What its conditions may refer to; those of a MARK join also to groups by the columns they group.
Referred(type, l, r) == Refs(l) \cup Refs(r) \cup (IF type = "MARK" THEN l.stale \cup r.stale ELSE {})
BothSides(l, r) == [cols |-> l.cols \o r.cols, shows |-> l.shows \o r.shows]
WithMark_Never(type) == column_map
WithMark(type) == IF type = "MARK" THEN Registered(Bound(index, 1), <<Mark>>) ELSE column_map
Binary(kind, width) == /\ Starts(kind, width) /\ Finished(2) /\ Settled(Top) /\ Settled(Below)

Join(type, left, right) ==
    LET l == Below r == Top
        refs == Referred(type, l, r)
        kept == Kept(type, l, r, left, right) IN
    /\ Binary("Join", 1)
    /\ Build(2, Keys(refs) \cup ToSet(Pick(l.bindings \o r.bindings, kept)),
             Joined(type, l, r, left, right, kept), WithMark(type),
             ReadAll(refs, BothSides(l, r)))
    /\ Named

\* A cross product joins what its inputs emit, whether or not the plan has a binding for it; the
\* plans in which an input emits more than that are CrossNothing.
EmitsItsBindings(node) == Len(node.cols) = Len(node.bindings)
CrossProduct(kind) ==
    LET l == Below r == Top cols == l.cols \o r.cols shows == l.shows \o r.shows IN
    /\ Binary(kind, 0) /\ (kind = "CrossProduct" <=> EmitsItsBindings(l) /\ EmitsItsBindings(r))
    /\ Build(2, {}, Node("Cross", <<l, r>>, l.bindings \o r.bindings, l.means \o r.means, cols,
                         ByName(cols, cols, shows)), column_map, {})
    /\ Named

PositionalJoin ==
    LET l == Below r == Top names == OutputColumnNames(l.bindings \o r.bindings) IN
    /\ Binary("PositionalJoin", 0)
    /\ Build(2, ToSet(l.bindings \o r.bindings),
             Node("PositionalJoin", <<l, r>>, l.bindings \o r.bindings, l.means \o r.means, names,
                  ByName(names, l.cols \o r.cols, l.shows \o r.shows)), column_map, {})
    /\ Named

------------------------------------------------------------------------------
(* Operators that do something between their two subtrees.                 *)

Opens(kind, frame, map) ==
    /\ work' = Append(Front(work), frame) /\ column_map' = map
    /\ reads' = {} /\ serial' = serial + 1 /\ UNCHANGED <<menu, status>>

\* The right branch of a set operation starts from the left one's bindings, which are restored after it.
\* Its table indices may be those of the left branch.
SetOpLeft(kind, reuse) ==
    /\ Starts(kind, IF reuse THEN 0 - (index - Top.from) ELSE 0) /\ Finished(1) /\ Settled(Top) /\ Real(Top)
    /\ Opens(kind, Frame(kind, Top, 0, << >>, {}), column_map) /\ Named
SetOpRight(kind) ==
    LET f == Below l == f.node r == Top
        at == IF f.next > index THEN f.next ELSE index
        n == Len(l.bindings)
        left(i) == f.scope[l.bindings[i]]
        cs == Mint([i \in 1..n |-> MakeDedupedColumn(at, left(i).column_name, left(i).alias, 1)]) IN
    /\ Closes(kind) /\ Len(r.bindings) = n /\ Real(r) /\ index' = at + 1
    /\ Build(2, {}, Node("SetOp", <<l, r>>, Bound(at, n), Fresh(n), NamesOf(cs),
                         [i \in 1..n |-> IF l.shows[i] = l.means[i] /\ r.shows[i] = r.means[i]
                                         THEN <<serial, i>> ELSE None]),
             Updated(f.scope, Entering(Bound(at, n), cs)), ReadByPosition(l) \cup ReadByPosition(r))
    /\ Named

CteBody ==
    /\ Unary("MaterializedCte", 1) /\ Opens("MaterializedCte", Frame("MaterializedCte", Top, index, << >>, {}), column_map)
    /\ materialized_cte_body_column_names' = Updated(materialized_cte_body_column_names, [ti \in {index} |-> Top.cols])
    /\ UNCHANGED delim_get_source_col_names
\* The query is the node; its columns stay as they are.
CteQuery ==
    /\ Closes("MaterializedCte") /\ index' = index
    /\ Build(2, {}, [Top EXCEPT !.from = Below.node.from, !.delims = @ \cup Below.node.delims], column_map, {})
    /\ Named

RecursiveAnchor ==
    LET cs == Copied(index, Top.cols) n == Len(Top.bindings) IN
    /\ Unary("RecursiveCte", 1) /\ Real(Top)
    /\ Opens("RecursiveCte", Frame("RecursiveCte", Top, index, << >>, {}), Registered(Bound(index, n), cs))
    /\ materialized_cte_body_column_names' = Updated(materialized_cte_body_column_names, [ti \in {index} |-> Top.cols])
    /\ UNCHANGED delim_get_source_col_names
RecursiveStep ==
    LET f == Below n == Len(f.node.bindings)
        names == NamesOf(Copied(f.at, f.node.cols)) IN
    /\ Closes("RecursiveCte") /\ Len(Top.bindings) = n /\ Real(Top) /\ index' = index
    /\ Build(2, {}, Node("RecursiveCte", <<f.node, Top>>, Bound(f.at, n),
                         [i \in 1..n |-> Again(f.node.means[i])], names,
                         [i \in DOMAIN names |-> Again(f.node.shows[i])]),
             column_map, ReadByPosition(f.node) \cup ReadByPosition(Top))
    /\ Named

\* Two keys may be columns of one name.
DelimColumns_Raw(ti, keys) == [k \in DOMAIN keys |-> ColStruct(ti, column_map[keys[k][1]].column_name, << >>)]
DelimColumns(ti, keys) ==
    Mint([k \in DOMAIN keys |-> MakeDedupedColumn(ti, column_map[keys[k][1]].column_name, << >>, k - 1)])
\* The outer side of a delim join is done: its keys are named for the DELIM_GETs the inner side will hold.
DelimOuter(at, gets) ==
    LET n == Top
        keys == [k \in DOMAIN at |-> <<n.bindings[at[k]], n.means[at[k]]>>]
        promised == index..(index + gets - 1) IN
    /\ Unary("DelimJoin", gets) /\ \A k \in DOMAIN at : n.means[at[k]] # None
    /\ Opens("DelimJoin", Frame("DelimJoin", n, index, keys, promised),
             Updated(column_map, [b \in promised \X (1..Len(at)) |-> DelimColumns(b[1], keys)[b[2]]]))
    /\ delim_get_source_col_names' =
           Updated(delim_get_source_col_names, [ti \in promised |-> [k \in DOMAIN at |-> FindColumnBinding(keys[k][1])]])
    /\ UNCHANGED materialized_cte_body_column_names
\* Output columns without a name are left out.
DelimJoin(type) ==
    LET f == Below l == f.node r == Top
        full == All(l.bindings)
        refs == Referred(type, l, r)
        named == {k \in DOMAIN (l.bindings \o r.bindings) : (l.bindings \o r.bindings)[k] \in DOMAIN column_map}
        kept == Among(Kept(type, l, r, full, All(r.bindings)), named)
        node == Joined(type, l, r, full, All(r.bindings), kept) IN
    /\ Closes("DelimJoin") /\ r.delims = f.promised /\ index' = index + 1
    /\ Build(2, Keys(refs), [node EXCEPT !.kind = "DelimJoin", !.delims = l.delims, !.extra = {}],
             WithMark(type), ReadAll(refs, BothSides(l, r)))
    /\ Named
\* The delim join an open DELIM_GET belongs to: the innermost one whose outer side is done.
Delims == {i \in DOMAIN work : IsFrame(work[i]) /\ work[i].kind = "DelimJoin"}
Owner == CHOOSE i \in Delims : \A j \in Delims : j <= i
Missing == work[Owner].promised \ UNION {NodeOf(work[i]).delims : i \in (Owner + 1)..Len(work)}

------------------------------------------------------------------------------

Finish == /\ status = "build" /\ Finished(1) /\ Len(work) = 1 /\ Settled(Top)
          /\ status' = "built" /\ reads' = {}
          /\ UNCHANGED <<menu, work, index, serial, column_map>> /\ Named

\* What the menu offers.
Aliases == {<< >>} \cup menu.aliases
Items(n) == {[kind |-> "ref", at |-> i, alias |-> a] : i \in {j \in DOMAIN n.means : n.means[j] # None}, a \in Aliases}
            \cup {[kind |-> "computed", at |-> 0, alias |-> a] : a \in Aliases}
            \cup (IF "Compress" \notin menu.kinds THEN {}
                  ELSE {[kind |-> "compress", at |-> i, alias |-> << >>] : i \in DOMAIN n.means})
Positions(n) == {i \in DOMAIN n.means : n.means[i] # None}
Maps(n) == IF "Prune" \in menu.kinds THEN Increasing(Len(n.bindings)) ELSE {All(n.bindings)}
Extras(n, use) == IF "Extra" \in menu.kinds
                  THEN {{}} \cup {{p} : p \in Refs(n)} \cup (IF n.kind = "Project" THEN {{<<x[1], x[2]>> : x \in use}} ELSE {})
                  ELSE {{}}

Scan == \/ \E table \in menu.tables : \E picked \in Increasing(Len(BaseTables[table])) : Get(table, picked)
        \/ GetNothing \/ ValuesWithoutColumns \/ DummyScan \/ EmptyResult \/ \E n \in 1..menu.width : Values(n)
        \/ \E i \in DOMAIN work : IsFrame(work[i]) /\ work[i].kind \in {"MaterializedCte", "RecursiveCte"} /\ CteRef(work[i])
        \/ Delims # {} /\ \E ti \in Missing : DelimGet(work[Owner], ti)
Transform ==
    \/ \E at \in Maps(Top) : Filter(at)
    \/ \E at \in Maps(Top) : Rows("Order", at)
    \/ \E kind \in {"Limit", "TopN", "Distinct", "Sample"} : Rows(kind, All(Top.bindings))
    \/ \E n \in 1..menu.width : Unnest(n)
    \/ Offered("Window") /\ \E aliases \in Strings(Aliases, 1, menu.width) : Window(aliases)
    \/ Offered("Lateral") /\ \E own \in Strings(menu.aliases, 1, 2), passed \in Increasing(Len(Top.bindings)) :
            Lateral(own, passed)
    \/ Offered("Project") /\ \E use \in Uses(Top) : \E extra \in Extras(Top, use), root \in BOOLEAN,
            items \in Strings(Items(Top), 1, menu.width) : Project(items, root, use, extra)
    \/ Offered("Aggregate") /\ \E use \in Uses(Top), groups \in Strings(Positions(Top) \cup {0}, 0, menu.width),
            aggs \in Strings(Aliases, 0, 1), groupings \in 0..1, many \in BOOLEAN :
            Aggregate(groups, aggs, groupings, many, use)
    \/ Insert
Combine == \/ Finished(2) /\ \/ \E type \in menu.types, left \in Maps(Below), right \in Maps(Top) : Join(type, left, right)
                             \/ \E kind \in {"CrossProduct", "CrossNothing"} : CrossProduct(kind)
                             \/ PositionalJoin
           \/ \E kind \in SetOps : SetOpRight(kind)
           \/ CteQuery \/ RecursiveStep
           \/ \E type \in menu.types \ RightOnly : DelimJoin(type)
Open == /\ Finished(1)
        /\ \/ \E kind \in SetOps, reuse \in {r \in BOOLEAN : r => "Reuse" \in menu.kinds} : SetOpLeft(kind, reuse)
           \/ CteBody \/ RecursiveAnchor
           \/ Offered("DelimJoin") /\ \E at \in Strings(Positions(Top), 1, 2), gets \in 1..2 : DelimOuter(at, gets)

BuilderInit ==
    /\ menu \in BuilderMenus
    /\ status = "build" /\ work = << >> /\ index = 1 /\ serial = 0 /\ reads = {}
    /\ column_map = << >> /\ delim_get_source_col_names = << >> /\ materialized_cte_body_column_names = << >>
BuilderNext == Scan \/ (Finished(1) /\ Transform) \/ Combine \/ Open \/ Finish
BuilderSpec == BuilderInit /\ [][BuilderNext]_builderVars

------------------------------------------------------------------------------
(* What the names must do.                                                 *)

\* Plans in which no column that the plan does not know of is in the way of another: none of rows
\* without columns in a cross product, and none in a branch that has the bindings of another one.
ColumnsOfItsOwn ==
    /\ "CrossNothing" \notin menu.kinds
    /\ ~({"GetNothing", "Reuse"} \subseteq menu.kinds)

\* An expression written with the names column_map holds when an operator is built gets, from the
\* columns its inputs declare, what its bindings stand for in the plan.  Projections that are left
\* out, groups renamed under their old binding, pruned columns a parent asks for, set operations
\* that restore the left branch's names: none may leave a binding with another column's name.
ReadsWhatThePlanMeans == ColumnsOfItsOwn => \A p \in reads : p[1] = p[2]

\* The operator just built has its columns in the plan's order (set operations, inserts and
\* recursive steps read by position), and the name its parents will look up for a binding denotes
\* the column that holds it and no other: no CTE header has that name twice, not even in another
\* case, although user aliases, sanitized characters, struct fields, suffixes that look like columns
\* and columns of two tables with one name meet in it.
NamesDenoteTheirColumns ==
    ColumnsOfItsOwn =>
    \A node \in {work[i] : i \in {j \in DOMAIN work : j = Len(work) /\ ~IsFrame(work[j]) /\ status \in {"build", "built"}}} :
        /\ DOMAIN node.cols = DOMAIN node.shows
        /\ \A i \in DOMAIN node.bindings :
            node.means[i] # None => /\ node.shows[i] = node.means[i]
                                    /\ Denotes(FindColumnBinding(node.bindings[i]), node.cols, node.shows) = node.means[i]

\* A plan is refused because a binding has no name (FindColumnBinding throws) only when it scans a
\* table function of which no column is read; every other binding was registered before it is asked for,
\* whatever scopes of set operations, CTEs and delim joins were entered and left in between.
EveryColumnHasAName ==
    status = "no binding" => \E i \in DOMAIN work : None \in ToSet(NodeOf(work[i]).means)

=============================================================================
