------------------------------ MODULE CteText ------------------------------
(***************************************************************************)
(* From a list of CTEs to the text of one statement (CteList::ToQuery in   *)
(* cte_nodes.cpp): equal CTEs are replaced by aliases of the first one,    *)
(* what no one reads any more is dropped, shared or deeply nested CTEs are *)
(* materialized, generated column names lose their t{N}_ prefix where      *)
(* nothing else has the bare name, and the last CTE becomes the closing    *)
(* SELECT.                                                                 *)
(*                                                                         *)
(* An identifier is a sequence: <<"t0", "a">> is t0_a, <<"a">> is a.  "A"  *)
(* differs from "a" in case only.  An expression applies op to columns; op *)
(* "" is a bare column.  The lambda function [x: x > c] over a captured    *)
(* column c is "lambda" of x and c.                                        *)
(***************************************************************************)
EXTENDS Naturals, Sequences, FiniteSets, FiniteSetsExt, TLC

CONSTANTS
    Tables,     \* base tables: identifier -> sequence of column identifiers
    CteNames,   \* the names of the CTEs of a list, in their order
    ColumnPrefixes, \* the prefixes of their columns
    Reserved,   \* keywords, which have to be quoted
    Menus,      \* what a list is made of: tables, kinds of nodes, names the query gives its result,
                \* names of lambda parameters, and the bound on its length
    MAX_INLINE_CTE_DEPTH

Names(seq) == {seq[i] : i \in DOMAIN seq}
Ids == Seq(STRING)
CteIds == Names(CteNames)
\* Columns and base tables: references are counted by name, whatever the name stands for.
PlainIds == Ids \ CteIds

\* Every CTE of a list has a name of its own, which nothing in the tables and the query has.
ASSUME NamesAssumption ==
    /\ CteNames \in Seq(Ids) /\ ColumnPrefixes \in Seq(STRING)
    /\ \A i, j \in DOMAIN CteNames : i # j => CteNames[i] # CteNames[j]
    /\ \A id \in CteIds : Len(id) = 1
    /\ {<<"x">>, <<"y">>, <<"z">>} \subseteq PlainIds \ {<< >>}
    /\ \A t \in DOMAIN Tables : t \in PlainIds /\ Tables[t] \in Seq(PlainIds \ {<< >>}) /\ Tables[t] # << >>
ASSUME MenusAssumption ==
    \A m \in Menus :
        /\ m.length \in Nat /\ m.length <= Len(CteNames) /\ m.length <= Len(ColumnPrefixes)
        /\ m.tables \subseteq DOMAIN Tables
        /\ \A x \in m.parameters : x \in PlainIds /\ <<x[1] \o "_1">> \in PlainIds
ASSUME DepthAssumption == MAX_INLINE_CTE_DEPTH \in Nat \ {0}

MaxColumns == 6     \* bound: two columns for each of the scans below joins
Clauses == {"select", "on", "where", "order"}
Expr(op, args) == [op |-> op, args |-> args]
Columns(cols) == [i \in DOMAIN cols |-> Expr("", <<cols[i]>>)]
Parts(select, from, tail) ==
    [clause |-> [c \in Clauses |-> IF c = "select" THEN select ELSE << >>],
     from |-> from, tail |-> tail]
With(parts, c, exprs) == [parts EXCEPT !.clause[c] = exprs]

VARIABLES
    menu,       \* the menu of this list
    stage,      \* "list", "prepare", "count", "depth", "rename" or "done"
    nodes,      \* the list the flattener hands over
    open,       \* the nodes of it that nothing reads yet, innermost last
    final,      \* the terminal node: kind, child and the names of the result columns
    deduplicate,    \* the plan is repeatable (the dialect is DuckDB, no CTE recursive)
    prepared,       \* the entries to print
    known,          \* identifiers of CTEs
    signatures,     \* signature -> position in prepared
    canonical,      \* canonical_replacements
    reused,         \* reused_ctes
    rename          \* generated column -> bare name

vars == <<menu, stage, nodes, open, final, deduplicate, prepared, known, signatures, canonical,
          reused, rename>>

Empty == [x \in {} |-> x]

------------------------------------------------------------------------------
(* Identifiers and substitution.                                           *)

HasGeneratedTablePrefix(id) == Len(id) > 1
StripGeneratedTablePrefix(id) == IF Len(id) > 1 THEN Tail(id) ELSE id
Lower(id) == [i \in DOMAIN id |-> IF id[i] = "A" THEN "a" ELSE id[i]]

Subst(map, id) == IF id \in DOMAIN map THEN map[id] ELSE id
SubstituteColumnTokens(e, map) ==
    [e EXCEPT !.args = [i \in DOMAIN e.args |-> Subst(map, e.args[i])]]
RenameParts(p, map) ==
    [p EXCEPT !.clause = [c \in Clauses |->
                  [i \in DOMAIN p.clause[c] |-> SubstituteColumnTokens(p.clause[c][i], map)]],
              !.from = [i \in DOMAIN p.from |-> Subst(map, p.from[i])]]

\* How often the body p names the CTE id.
References(p, id) ==
    Cardinality({i \in DOMAIN p.from : p.from[i] = id})
    + Cardinality({at \in Clauses \X (1..MaxColumns) \X (1..2) :
                      /\ at[2] \in DOMAIN p.clause[at[1]] /\ at[3] \in DOMAIN p.clause[at[1]][at[2]].args
                      /\ p.clause[at[1]][at[2]].args[at[3]] = id})
CollectCteDependencies(p, ids) == {id \in ids : References(p, id) > 0}

------------------------------------------------------------------------------
(* The list: what AstFlattener builds for small plans.  Scans, projections *)
(* and references have names of their own, other nodes pass their input's  *)
(* columns on; only the body of a materialized CTE is read by name.        *)

Node(name, cols, has_parts, parts) ==
    [cte_name |-> name, cols |-> cols, has_parts |-> has_parts, materialized |-> FALSE,
     parts |-> parts]
Fresh == CteNames[Len(nodes) + 1]
Own(bare) == [i \in DOMAIN bare |-> <<ColumnPrefixes[Len(nodes) + 1]>> \o bare[i]]
Top == nodes[open[Len(open)]]
Below == nodes[open[Len(open) - 1]]
Bare(cols) == [i \in DOMAIN cols |-> StripGeneratedTablePrefix(cols[i])]

\* A list of n nodes of which o are unread can still be completed within the bound.
Room(n, o) == n + (IF o = 0 THEN 1 ELSE o - 1) <= menu.length
Emit(node, consumed) ==
    /\ stage = "list" /\ Room(Len(nodes) + 1, Len(open) - consumed + 1)
    /\ nodes' = Append(nodes, node)
    /\ open' = Append(SubSeq(open, 1, Len(open) - consumed), Len(nodes) + 1)
    /\ UNCHANGED <<menu, stage, final, deduplicate, prepared, known, signatures, canonical, reused, rename>>

Scan(t) ==
    LET p == Parts(Columns(Tables[t]), <<t>>, "")
        renamed == Own([Tables[t] EXCEPT ![1] = <<"x">>, ![2] = <<"y">>]) IN
    \/ Emit(Node(Fresh, Own(Tables[t]), TRUE, p), 0)
    \* A fused block: the projection and the sort of a plain scan.
    \/ Emit(Node(Fresh, renamed, TRUE, With(p, "order", <<Expr("", <<Tables[t][1]>>)>>)), 0)
Filter ==
    /\ open # << >>
    /\ \E kept \in {1, Len(Top.cols)}, column \in {1, Len(Top.cols)} :
          LET cols == SubSeq(Top.cols, 1, kept) IN
          Emit(Node(Fresh, cols, TRUE,
                    With(Parts(Columns(cols), <<Top.cte_name>>, ""),
                         "where", <<Expr(">0", <<Top.cols[column]>>)>>)), 1)
Project ==
    /\ open # << >>
    /\ \/ Emit(Node(Fresh, Own(Bare(Top.cols)), TRUE,
                    Parts(Columns([i \in DOMAIN Top.cols |-> Top.cols[Len(Top.cols) + 1 - i]]),
                          <<Top.cte_name>>, "")), 1)
       \/ Emit(Node(Fresh, Own(<<<<"x">>>>), TRUE,
                    Parts(<<Expr("+1", <<Top.cols[1]>>)>>, <<Top.cte_name>>, "")), 1)
Join ==
    /\ Len(open) > 1
    /\ Emit(Node(Fresh, Below.cols \o Top.cols, TRUE,
                 With(Parts(Columns(Below.cols \o Top.cols), <<Below.cte_name, Top.cte_name>>, "JOIN"),
                      "on", <<Expr("=", <<Below.cols[1], Top.cols[1]>>)>>)), 2)
\* Mutant: the parameter is compared with the whole name of the column only.
Parameter_Whole(x, captured) == IF Lower(captured) = Lower(x) THEN <<x[1] \o "_1">> ELSE x
\* A parameter must not shadow the column its lambda captures.
Parameter(x, captured) ==
    IF Lower(x) \in {Lower(captured), Lower(StripGeneratedTablePrefix(captured))} THEN <<x[1] \o "_1">> ELSE x
Lambda(x, captured) == Expr("lambda", <<Parameter(x, captured), captured>>)
Map ==
    /\ open # << >>
    /\ \E x \in menu.parameters, column \in DOMAIN Top.cols :
          Emit(Node(Fresh, Own(<<<<"z">>>>), TRUE,
                    Parts(<<Lambda(x, Top.cols[column])>>, <<Top.cte_name>>, "")), 1)
\* A fused block: Map over a projection that calls its input's columns y.
MapFused ==
    /\ open # << >>
    /\ \E x \in menu.parameters, column \in DOMAIN Top.cols :
          LET y == Own(<<<<"y">>>>)[1] IN
          Emit(Node(Fresh, Own(<<<<"z">>>>), TRUE,
                    Parts(<<SubstituteColumnTokens(Lambda(x, y), [id \in {y} |-> Top.cols[column]])>>,
                          <<Top.cte_name>>, "")), 1)
Union ==
    /\ Len(open) > 1 /\ Len(Top.cols) = Len(Below.cols)
    /\ Emit(Node(Fresh, Own(Bare(Below.cols)), FALSE,
                 Parts(<< >>, <<Below.cte_name, Top.cte_name>>, "UNION ALL")), 2)
\* The body of a materialized CTE is complete; references to it come later.
MaterializedBody ==
    /\ stage = "list" /\ open # << >> /\ ~Top.materialized /\ Room(Len(nodes), Len(open) - 1)
    /\ nodes' = [nodes EXCEPT ![open[Len(open)]].materialized = TRUE]
    /\ open' = SubSeq(open, 1, Len(open) - 1)
    /\ UNCHANGED <<menu, stage, final, deduplicate, prepared, known, signatures, canonical, reused, rename>>
CteRef(k) ==
    /\ nodes[k].materialized
    /\ Emit(Node(Fresh, Own(Bare(nodes[k].cols)), TRUE,
                 Parts(Columns(nodes[k].cols), <<nodes[k].cte_name>>, "")), 0)

\* The terminal node: INSERT takes all columns, SELECT the visible ones, under the names the
\* query gives them.
Terminal(kind, visible, names) ==
    /\ stage = "list" /\ Len(open) = 1
    /\ stage' = "prepare"
    /\ final' = LET cols == SubSeq(Top.cols, 1, visible)
                IN  [kind |-> kind, child |-> Top.cte_name, cols |-> cols,
                     final_column_list |-> [i \in DOMAIN cols |->
                         IF i \in DOMAIN names THEN names[i] ELSE StripGeneratedTablePrefix(cols[i])]]
    /\ deduplicate' \in BOOLEAN
    /\ UNCHANGED <<menu, nodes, open, prepared, known, signatures, canonical, reused, rename>>

Offers(kind) == kind \in menu.kinds
Lists ==
    \/ \E t \in menu.tables : Scan(t)
    \/ Offers("filter") /\ Filter
    \/ Offers("project") /\ Project
    \/ Offers("map") /\ Map
    \/ Offers("map fused") /\ MapFused
    \/ Offers("join") /\ Join
    \/ Offers("union") /\ Union
    \/ Offers("materialize") /\ (MaterializedBody \/ \E k \in DOMAIN nodes : CteRef(k))
    \/ /\ open # << >>
       /\ \/ \E visible \in {1, Len(Top.cols)}, names \in menu.outputs : Terminal("read", visible, names)
          \/ Terminal("insert", Len(Top.cols), << >>)

------------------------------------------------------------------------------
(* Reuse of equal CTEs.                                                    *)

\* Mutant: the condition of a WHERE is not part of the signature.
BuildReuseSignature_NoWhere(node, parts) ==
    <<Len(node.cols), With(parts, "where", << >>)>>
\* The text of a body with its own outputs numbered.
BuildReuseSignature(node, parts) ==
    <<Len(node.cols),
      IF node.has_parts
      THEN RenameParts(parts, [id \in Names(node.cols) |->
               <<"output", ToString(CHOOSE i \in DOMAIN node.cols : node.cols[i] = id)>>])
      ELSE parts>>

Cte == nodes[Len(prepared) + 1]
Signature ==
    BuildReuseSignature(Cte, IF Cte.has_parts THEN RenameParts(Cte.parts, canonical) ELSE Cte.parts)
Entry(node, has_parts, parts, deps) ==
    [cte_name |-> node.cte_name, cols |-> node.cols, materialized |-> node.materialized,
     has_parts |-> has_parts, parts |-> parts, dependencies |-> deps]
Preparing == stage = "prepare" /\ Len(prepared) < Len(nodes)
Eligible == deduplicate /\ ~Cte.materialized
Prepare(entry) ==
    /\ prepared' = Append(prepared, entry)
    /\ known' = known \cup {Cte.cte_name}
    /\ UNCHANGED <<menu, stage, nodes, open, final, deduplicate, rename>>

\* An equal CTE came before: this one becomes a positional alias of it.
Reuse ==
    /\ Preparing /\ Eligible /\ Signature \in DOMAIN signatures
    /\ LET representative == prepared[signatures[Signature]]
           differing == {i \in DOMAIN Cte.cols : Cte.cols[i] # representative.cols[i]} IN
       /\ canonical' =
             [id \in {Cte.cols[i] : i \in differing} |->
                 representative.cols[CHOOSE i \in differing : Cte.cols[i] = id]]
             @@ (Cte.cte_name :> representative.cte_name) @@ canonical
       /\ reused' = reused \cup {representative.cte_name}
       /\ Prepare(Entry(Cte, TRUE,
                        Parts(Columns(representative.cols), <<representative.cte_name>>, ""),
                        {representative.cte_name}))
    /\ UNCHANGED signatures

Keep ==
    /\ Preparing /\ ~(Eligible /\ Signature \in DOMAIN signatures)
    /\ signatures' = IF Eligible
                     THEN [s \in DOMAIN signatures \cup {Signature} |->
                              IF s = Signature THEN Len(prepared) + 1 ELSE signatures[s]]
                     ELSE signatures
    /\ canonical' = [id \in DOMAIN canonical \ Names(Cte.cols) |-> canonical[id]]
    /\ Prepare(Entry(Cte, Cte.has_parts, Cte.parts, CollectCteDependencies(Cte.parts, known)))
    /\ UNCHANGED reused

------------------------------------------------------------------------------
(* What remains, and what is materialized.                                 *)

\* Names the final statement needs, directly or through the entries from i on.
Required(i) ==
    LET required[k \in 1..(Len(prepared) + 1)] ==
            IF k > Len(prepared) THEN {final.child}
            ELSE LET later == required[k + 1] IN
                 IF prepared[k].cte_name \in later
                 THEN later \cup prepared[k].dependencies ELSE later
    IN  required[i]

\* The entries with these names, in their order.
Reachable(required) ==
    LET reachable[k \in 0..Len(prepared)] ==
            IF k = 0 THEN << >>
            ELSE IF prepared[k].cte_name \in required THEN Append(reachable[k - 1], prepared[k])
            ELSE reachable[k - 1]
    IN  reachable[Len(prepared)]

\* Mutant: only what the final statement reads directly is kept.
PruneUnreachable_Direct ==
    /\ stage = "prepare" /\ Len(prepared) = Len(nodes)
    /\ prepared' = IF reused = {} THEN prepared
                   ELSE Reachable({final.child} \cup
                                  UNION {prepared[k].dependencies :
                                            k \in {j \in DOMAIN prepared : prepared[j].cte_name = final.child}})
    /\ stage' = "count"
    /\ UNCHANGED <<menu, nodes, open, final, deduplicate, known, signatures, canonical, reused, rename>>
PruneUnreachable ==
    /\ stage = "prepare" /\ Len(prepared) = Len(nodes)
    /\ prepared' = IF reused = {} THEN prepared
                   ELSE Reachable(Required(1))
    /\ stage' = "count"
    /\ UNCHANGED <<menu, nodes, open, final, deduplicate, known, signatures, canonical, reused, rename>>

Total(counts) ==
    LET total[k \in 0..Len(counts)] == IF k = 0 THEN 0 ELSE total[k - 1] + counts[k]
    IN  total[Len(counts)]
\* How often the statement as prepared names an entry.
ReferenceCount(name) ==
    (IF final.child = name THEN 1 ELSE 0) + Total([k \in DOMAIN prepared |-> References(prepared[k].parts, name)])

\* Mutant: a producer has to be read three times.
MaterializeShared_Thrice ==
    /\ stage = "count"
    /\ prepared' = [k \in DOMAIN prepared |->
           IF prepared[k].cte_name \in reused
           THEN [prepared[k] EXCEPT !.materialized = ReferenceCount(prepared[k].cte_name) > 2]
           ELSE prepared[k]]
    /\ stage' = "depth"
    /\ UNCHANGED <<menu, nodes, open, final, deduplicate, known, signatures, canonical, reused, rename>>
MaterializeShared ==
    /\ stage = "count"
    /\ prepared' = [k \in DOMAIN prepared |->
           IF prepared[k].cte_name \in reused
           THEN [prepared[k] EXCEPT !.materialized = ReferenceCount(prepared[k].cte_name) > 1]
           ELSE prepared[k]]
    /\ stage' = "depth"
    /\ UNCHANGED <<menu, nodes, open, final, deduplicate, known, signatures, canonical, reused, rename>>

\* How many operators are nested in the text of an entry once single-use CTEs are inlined,
\* 0 where a boundary cuts the nesting.
TooDeep(k, depth) == depth >= MAX_INLINE_CTE_DEPTH /\ ReferenceCount(prepared[k].cte_name) = 1
\* Mutant: an entry counts its first dependency only.
DepthOver_First(below) == IF below = {} THEN 1 ELSE 1 + CHOOSE d \in below : TRUE
DepthOver(below) == 1 + Max({0} \cup below)
InlineDepth ==
    LET inline_depth[k \in DOMAIN prepared] ==
            LET depth == DepthOver({inline_depth[j] : j \in
                             {j \in 1..(k - 1) : prepared[j].cte_name \in prepared[k].dependencies}})
            IN  IF prepared[k].materialized \/ TooDeep(k, depth) THEN 0 ELSE depth
    IN  inline_depth
BoundDepth ==
    /\ stage = "depth"
    /\ prepared' = IF Len(prepared) < MAX_INLINE_CTE_DEPTH THEN prepared
                   ELSE LET inline_depth == InlineDepth
                        IN  [k \in DOMAIN prepared |->
                                [prepared[k] EXCEPT !.materialized = inline_depth[k] = 0]]
    /\ stage' = "rename"
    /\ UNCHANGED <<menu, nodes, open, final, deduplicate, known, signatures, canonical, reused, rename>>

------------------------------------------------------------------------------
(* The text.                                                               *)

InlineLast ==
    /\ final.kind = "read" /\ prepared # << >>
    /\ LET e == prepared[Len(prepared)]
       IN  ~e.materialized /\ e.has_parts /\ e.cte_name = final.child
Emitted == IF InlineLast THEN SubSeq(prepared, 1, Len(prepared) - 1) ELSE prepared

SeenColumns == UNION {Names(Emitted[k].cols) : k \in DOMAIN Emitted}
\* Mutant: names are compared with their case.
BareCount_Cased(bare) == Cardinality({c \in SeenColumns : StripGeneratedTablePrefix(c) = bare})
BareCount(bare) ==
    Cardinality({c \in SeenColumns : Lower(StripGeneratedTablePrefix(c)) = Lower(bare)})
DePrefix ==
    /\ stage = "rename"
    /\ rename' = [full \in {c \in SeenColumns :
                                LET bare == StripGeneratedTablePrefix(c) IN
                                /\ HasGeneratedTablePrefix(c)
                                /\ c \notin {Emitted[k].cte_name : k \in DOMAIN Emitted}
                                /\ BareCount(bare) = 1
                                /\ bare \notin Reserved /\ ~HasGeneratedTablePrefix(bare)}
                       |-> StripGeneratedTablePrefix(full)]
    /\ stage' = "done"
    /\ UNCHANGED <<menu, nodes, open, final, deduplicate, prepared, known, signatures, canonical, reused>>

\* The definitions of the WITH clause and the closing SELECT, as printed.
WithClause ==
    [k \in DOMAIN Emitted |->
        [name |-> Emitted[k].cte_name, materialized |-> Emitted[k].materialized,
         cols |-> [i \in DOMAIN Emitted[k].cols |-> Subst(rename, Emitted[k].cols[i])],
         parts |-> RenameParts(Emitted[k].parts, rename)]]
FinalRead == Parts(Columns(final.cols), <<final.child>>, "")
Cut(exprs, n) == IF Len(exprs) > n THEN SubSeq(exprs, 1, n) ELSE exprs
Closing ==
    IF InlineLast
    THEN LET last == prepared[Len(prepared)].parts
         IN  RenameParts(With(last, "select", Cut(last.clause["select"], Len(final.final_column_list))), rename)
    ELSE RenameParts(FinalRead, rename)

Done == stage = "done" /\ UNCHANGED vars

Init ==
    /\ menu \in Menus
    /\ stage = "list" /\ nodes = << >> /\ open = << >> /\ prepared = << >>
    /\ final = [kind |-> "read", child |-> << >>, cols |-> << >>, final_column_list |-> << >>]
    /\ deduplicate = FALSE /\ known = {} /\ reused = {}
    /\ signatures = Empty /\ canonical = Empty /\ rename = Empty
Next ==
    \/ Lists \/ Reuse \/ Keep \/ PruneUnreachable \/ MaterializeShared \/ BoundDepth
    \/ DePrefix \/ Done
Spec == Init /\ [][Next]_vars

============================================================================
