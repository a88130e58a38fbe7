------------------------------ MODULE Flattener ------------------------------
(***************************************************************************)
(* AstFlattener (src/src/lpts_ast_flattener.cpp): the walk over the AST    *)
(* that turns a plan into a list of named CTEs.                            *)
(*                                                                         *)
(* The recursion of FlattenNode and AstToInlineSQL is an explicit stack;   *)
(* a frame is an activation, and `ret` what the last one to end returned.  *)
(* SQL text is abstracted to tokens in postfix order: an operator stands   *)
(* after its inputs, and an input is a token that names a CTE, or, where   *)
(* the text of a subplan is inlined, the tokens of that text.  Columns,    *)
(* expressions and conditions are not represented.                         *)
(***************************************************************************)
EXTENDS Integers, Sequences, FiniteSets

CONSTANTS
    Trees,      \* AST nodes, each with all nodes below it
    Calls,      \* calls of AstToCteList: [root, dialect, merge_pipeline]
    NoTree      \* no node

Dialects == {"DUCKDB", "POSTGRES", "SPARK"}
Kinds == {"Get", "Filter", "Project", "Aggregate", "Order", "Limit", "TopN", "Sample", "Distinct",
          "Join", "PositionalJoin", "SetOperation", "Union", "MaterializedCte", "CteRef",
          "DelimJoin", "DelimGet", "RecursiveCte"}
\* What the walk asks of a node besides its kind:
\*   simple     a table scan without pushdown        delta     an openivm_delta_ table
\*   scalar     LIMIT computed by the child          window    a projection with OVER
\*   throws     a projection that can throw          ungrouped an aggregate without keys
\*   unused     no expression above uses the aggregate's outputs
\*   literal    a folded projection makes a grouping key an integer, or a sorting key a literal
\*   force      force_materialization
Flags == {"simple", "delta", "scalar", "window", "throws", "ungrouped", "unused", "literal",
          "force"}
\* id is the node's table index; a CteRef or DelimGet has that of the node it refers to.
Tree == [kind : Kinds, id : Nat, kids : Seq(Trees), flags : SUBSET Flags]

Arity(t) ==
    CASE t.kind = "Get" -> {0, 1}
      [] t.kind = "Union" -> Nat \ {0}
      [] t.kind \in {"CteRef", "DelimGet"} -> {0}
      [] t.kind \in {"Join", "PositionalJoin", "SetOperation", "MaterializedCte", "DelimJoin",
                     "RecursiveCte"} -> {2}
      [] OTHER -> {1}

ASSUME TreesAssumption ==
    /\ Trees \subseteq Tree /\ NoTree \notin Trees
    /\ \A t \in Trees : Len(t.kids) \in Arity(t)
ASSUME CallsAssumption ==
    Calls \subseteq [root : Trees, dialect : Dialects, merge_pipeline : BOOLEAN]

VARIABLES
    dialect, merge_pipeline,    \* arguments of AstToCteList
    root,
    node_count, cte_nodes, has_recursive_cte,   \* members of AstFlattener
    body_info,      \* cte_index_to_body_info: the text that reads a CTE index
    delim_source,   \* delim_get_source_cte
    inline_delim,   \* inline_delim_sources
    stack, ret, returned,
    final,          \* the CTE the final statement reads
    outcome         \* "running", "done", "refused" (NotImplemented) or "error" (Internal)

argVars == <<dialect, merge_pipeline, root>>
listVars == <<node_count, cte_nodes, has_recursive_cte>>
mapVars == <<body_info, delim_source, inline_delim>>
callVars == <<stack, ret, returned>>
vars == <<argVars, listVars, mapVars, callVars, final, outcome>>

Slots == 0..6
LIMIT == 0
ORDER == 1
PROJ_TOP == 2
HAVING == 3
AGG == 4
PROJ_BOTTOM == 5
FILTER == 6

Token == [op : Kinds \cup {"ref", "distinct", "garbled"}, id : Nat, right : BOOLEAN]
\* The name t{n}_{operator}, without and with the suffix _materialized_for_join.
Name(n) == [op |-> "ref", id |-> n, right |-> FALSE]
Marked(name) == [name EXCEPT !.right = TRUE]
IsName(token) == token.op = "ref"
\* A union (ALL) of one input is written as a projection of it.
Operation(t) == IF t.kind = "Union" /\ Len(t.kids) = 1 THEN "Project" ELSE t.kind
Op(t) == [op |-> Operation(t), id |-> t.id, right |-> FALSE]
Distinct == [op |-> "distinct", id |-> 0, right |-> FALSE]
Garbled == [op |-> "garbled", id |-> 0, right |-> FALSE]

\* hint: spark_broadcast_hint; broadcast: the sides of a join that carry the hint.
CteNode == [name : Token, body : Seq(Token), materialized : BOOLEAN, hint : BOOLEAN,
            broadcast : SUBSET {"left", "right"}]
Cte(name, body) ==
    [name |-> name, body |-> body, materialized |-> FALSE, hint |-> FALSE, broadcast |-> {}]
Text(body) == Cte(Name(0), body)

\* kid, got: the children flattened so far, and the text that reads them; cur, slot: where
\* the search for a chain is and what it has found; saved: the map entry to restore.
NewFrame(t, mode) ==
    [tree |-> t, mode |-> mode, at |-> "enter", kid |-> 0, got |-> << >>, cur |-> t,
     slot |-> [s \in Slots |-> NoTree], saved |-> << >>]

Init ==
    /\ \E call \in Calls :
          /\ root = call.root /\ dialect = call.dialect
          /\ merge_pipeline = (call.merge_pipeline /\ call.dialect # "SPARK")
    /\ node_count = 0 /\ cte_nodes = << >> /\ has_recursive_cte = FALSE
    /\ body_info = << >> /\ delim_source = << >> /\ inline_delim = << >>
    /\ stack = <<NewFrame(root, "flat")>>
    /\ ret = Text(<< >>) /\ returned = FALSE
    /\ final = Name(0) /\ outcome = "running"

------------------------------------------------------------------------------
(* The machine.                                                            *)

Top == stack[Len(stack)]
Below == SubSeq(stack, 1, Len(stack) - 1)

\* The top activation is at this point of its function, called or returned to.
At(mode, kinds, point) ==
    /\ stack # << >> /\ ~returned
    /\ Top.mode \in mode /\ Top.tree.kind \in kinds /\ Top.at = point
BackAt(mode, kinds, point) ==
    /\ stack # << >> /\ returned
    /\ Top.mode \in mode /\ Top.tree.kind \in kinds /\ Top.at = point

Stay(frame) == stack' = Append(Below, frame) /\ returned' = FALSE /\ UNCHANGED ret
Call(frame, t, mode) ==
    stack' = Below \o <<frame, NewFrame(t, mode)>> /\ returned' = FALSE /\ UNCHANGED ret
Return(node) == stack' = Below /\ returned' = TRUE /\ ret' = node
Throw(exception) ==
    /\ outcome' = exception
    /\ stack' = << >> /\ returned' = FALSE
    /\ UNCHANGED <<argVars, listVars, mapVars, ret, final>>

Bind(map, id, value) == [k \in DOMAIN map \cup {id} |-> IF k = id THEN value ELSE map[k]]
Unbind(map, id) == [k \in DOMAIN map \ {id} |-> map[k]]
Saved(map, id) == IF id \in DOMAIN map THEN <<map[id]>> ELSE << >>
Restore(map, id, saved) == IF saved = << >> THEN Unbind(map, id) ELSE Bind(map, id, saved[1])

Push(node) == cte_nodes' = Append(cte_nodes, node)
Back == cte_nodes[Len(cte_nodes)]

Both == {"flat", "inline"}
Flat == {"flat"}
Inline == {"inline"}

\* MarkRightSideMaterialized: the first node of that name, and the name it has then.
MarkRight(nodes, name) ==
    IF dialect # "DUCKDB" THEN nodes
    ELSE [k \in DOMAIN nodes |->
             IF nodes[k].name = name /\ \A j \in 1..(k - 1) : nodes[j].name # name
             THEN [nodes[k] EXCEPT !.name = Marked(name)] ELSE nodes[k]]
RightName(nodes, name) ==
    IF dialect = "DUCKDB" /\ \E k \in DOMAIN nodes : nodes[k].name = name
    THEN Marked(name) ELSE name

------------------------------------------------------------------------------
(* MaterializedCte: the body first, then the query that may refer to it.   *)

EnterMaterialized ==
    /\ At(Both, {"MaterializedCte"}, "enter")
    /\ Call([Top EXCEPT !.at = "body"], Top.tree.kids[1], Top.mode)
    /\ UNCHANGED <<argVars, listVars, mapVars, final, outcome>>

BodyDone ==
    /\ BackAt(Flat, {"MaterializedCte"}, "body")
    /\ Push([ret EXCEPT !.materialized = "force" \in Top.tree.flags])
    /\ body_info' = Bind(body_info, Top.tree.id, <<ret.name>>)
    /\ Call([Top EXCEPT !.at = "outer"], Top.tree.kids[2], "flat")
    /\ UNCHANGED <<argVars, node_count, has_recursive_cte, delim_source, inline_delim, final,
                   outcome>>

\* A local WITH: a reference to it stands for its text.
InlineBodyDone ==
    /\ BackAt(Inline, {"MaterializedCte"}, "body")
    /\ body_info' = Bind(body_info, Top.tree.id, ret.body)
    /\ Call([Top EXCEPT !.at = "outer", !.saved = Saved(body_info, Top.tree.id)],
            Top.tree.kids[2], "inline")
    /\ UNCHANGED <<argVars, listVars, delim_source, inline_delim, final, outcome>>

OuterDone ==
    /\ BackAt(Both, {"MaterializedCte"}, "outer")
    /\ Return(ret)
    /\ body_info' = IF Top.mode = "flat" THEN body_info
                    ELSE Restore(body_info, Top.tree.id, Top.saved)
    /\ UNCHANGED <<argVars, listVars, delim_source, inline_delim, final, outcome>>

\* A scan of the CTE, or its text; an unknown index is an internal error.
EnterCteRef ==
    /\ At(Both, {"CteRef"}, "enter")
    /\ IF Top.tree.id \notin DOMAIN body_info THEN Throw("error")
       ELSE /\ IF Top.mode = "flat"
               THEN /\ Return(Cte(Name(node_count), body_info[Top.tree.id]))
                    /\ node_count' = node_count + 1
               ELSE /\ Return(Text(body_info[Top.tree.id]))
                    /\ UNCHANGED node_count
            /\ UNCHANGED <<argVars, cte_nodes, has_recursive_cte, mapVars, final, outcome>>

------------------------------------------------------------------------------
(* DelimJoin: the left side is the source of the DelimGets of the right.   *)

EnterDelimJoin ==
    /\ At(Both, {"DelimJoin"}, "enter")
    /\ Call([Top EXCEPT !.at = "left"], Top.tree.kids[1], Top.mode)
    /\ UNCHANGED <<argVars, listVars, mapVars, final, outcome>>

\* Mutant: the right side is flattened before its source is registered.
LeftDone_Unregistered ==
    /\ BackAt(Flat, {"DelimJoin"}, "left")
    /\ Push(ret)
    /\ Call([Top EXCEPT !.at = "right", !.got = <<ret.name>>], Top.tree.kids[2], "flat")
    /\ UNCHANGED <<argVars, node_count, has_recursive_cte, mapVars, final, outcome>>

\* Mutant: the side that is marked is the left one.
LeftDone_Marks ==
    /\ BackAt(Flat, {"DelimJoin"}, "left")
    /\ LET name == Marked(ret.name) IN
       /\ Push([ret EXCEPT !.name = name])
       /\ delim_source' = Bind(delim_source, Top.tree.id, name)
       /\ Call([Top EXCEPT !.at = "right", !.got = <<name>>], Top.tree.kids[2], "flat")
    /\ UNCHANGED <<argVars, node_count, has_recursive_cte, body_info, inline_delim, final,
                   outcome>>

LeftDone ==
    /\ BackAt(Flat, {"DelimJoin"}, "left")
    /\ Push(ret)
    /\ delim_source' = Bind(delim_source, Top.tree.id, ret.name)
    /\ Call([Top EXCEPT !.at = "right", !.got = <<ret.name>>], Top.tree.kids[2], "flat")
    /\ UNCHANGED <<argVars, node_count, has_recursive_cte, body_info, inline_delim, final,
                   outcome>>

RightDone ==
    /\ BackAt(Flat, {"DelimJoin"}, "right")
    /\ LET nodes == Append(cte_nodes, ret) IN
       /\ cte_nodes' = MarkRight(nodes, ret.name)
       /\ Return(Cte(Name(node_count),
                     Top.got \o <<RightName(nodes, ret.name), Op(Top.tree)>>))
    /\ node_count' = node_count + 1
    /\ UNCHANGED <<argVars, has_recursive_cte, mapVars, final, outcome>>

InlineLeftDone ==
    /\ BackAt(Inline, {"DelimJoin"}, "left")
    /\ inline_delim' = Bind(inline_delim, Top.tree.id, ret.body)
    /\ Call([Top EXCEPT !.at = "right", !.got = ret.body,
                        !.saved = Saved(inline_delim, Top.tree.id)], Top.tree.kids[2], "inline")
    /\ UNCHANGED <<argVars, listVars, body_info, delim_source, final, outcome>>

InlineRightDone ==
    /\ BackAt(Inline, {"DelimJoin"}, "right")
    /\ Return(Text(Top.got \o ret.body \o <<Op(Top.tree)>>))
    /\ inline_delim' = Restore(inline_delim, Top.tree.id, Top.saved)
    /\ UNCHANGED <<argVars, listVars, body_info, delim_source, final, outcome>>

EnterDelimGet ==
    /\ At(Flat, {"DelimGet"}, "enter")
    /\ IF Top.tree.id \notin DOMAIN delim_source THEN Throw("refused")
       ELSE /\ Return(Cte(Name(node_count), <<delim_source[Top.tree.id], Distinct>>))
            /\ node_count' = node_count + 1
            /\ UNCHANGED <<argVars, cte_nodes, has_recursive_cte, mapVars, final, outcome>>

\* Inline, only the DelimJoins of the recursive step itself are known.
EnterInlineDelimGet ==
    /\ At(Inline, {"DelimGet"}, "enter")
    /\ IF Top.tree.id \notin DOMAIN inline_delim THEN Throw("refused")
       ELSE /\ Return(Text(Append(inline_delim[Top.tree.id], Distinct)))
            /\ UNCHANGED <<argVars, listVars, mapVars, final, outcome>>

------------------------------------------------------------------------------
(* RecursiveCte: the anchor as CTEs, the step as one text that refers to   *)
(* the recursive CTE by the name it is about to get.                       *)

EnterRecursive ==
    /\ At(Flat, {"RecursiveCte"}, "enter")
    /\ Call([Top EXCEPT !.at = "anchor"], Top.tree.kids[1], "flat")
    /\ UNCHANGED <<argVars, listVars, mapVars, final, outcome>>

AnchorDone ==
    /\ BackAt(Flat, {"RecursiveCte"}, "anchor")
    /\ Push(ret)
    /\ body_info' = Bind(body_info, Top.tree.id, <<Name(node_count)>>)
    /\ node_count' = node_count + 1
    /\ inline_delim' = << >>
    /\ Call([Top EXCEPT !.at = "step", !.got = <<ret.name, Name(node_count)>>],
            Top.tree.kids[2], "inline")
    /\ UNCHANGED <<argVars, has_recursive_cte, delim_source, final, outcome>>

StepDone ==
    /\ BackAt(Flat, {"RecursiveCte"}, "step")
    /\ Push(Cte(Top.got[2], <<Top.got[1]>> \o ret.body \o <<Op(Top.tree)>>))
    /\ has_recursive_cte' = TRUE
    /\ Return(Cte(Name(node_count), <<Top.got[2]>>))
    /\ node_count' = node_count + 1
    /\ UNCHANGED <<argVars, mapVars, final, outcome>>

\* Neither a nested recursion nor EXCEPT and INTERSECT have an inline form.
EnterUnsupported ==
    /\ At(Inline, {"RecursiveCte", "SetOperation"}, "enter")
    /\ Throw("refused")

------------------------------------------------------------------------------
(* Pipeline fusion (TryFlattenMergedPipeline).                             *)

Ordinary == Kinds \ {"MaterializedCte", "CteRef", "DelimJoin", "DelimGet", "RecursiveCte"}

EnterOrdinary ==
    /\ At(Flat, Ordinary, "enter")
    /\ Stay([Top EXCEPT !.at = IF merge_pipeline THEN "walk" ELSE "kids"])
    /\ UNCHANGED <<argVars, listVars, mapVars, final, outcome>>

\* Mutant: the slot of HAVING is not closed to a filter that is not above an aggregate.
SlotOf_HavingAnywhere(t, slot) ==
    LET free == {s \in Slots : \A r \in Slots : slot[r] # NoTree => r < s} IN
    IF Len(t.kids) # 1 THEN {}
    ELSE free \cap CASE t.kind = "Limit" -> IF "scalar" \in t.flags THEN {} ELSE {LIMIT}
                     [] t.kind = "Order" -> {ORDER}
                     [] t.kind = "Aggregate" -> {AGG}
                     [] t.kind = "Filter" -> {HAVING, FILTER}
                     [] t.kind = "Project" ->
                          IF "window" \in t.flags THEN {} ELSE {PROJ_TOP, PROJ_BOTTOM}
                     [] OTHER -> {}

\* The slots a node may take below those taken: the walk goes down, so they must grow.
SlotOf(t, slot) ==
    LET free == {s \in Slots : \A r \in Slots : slot[r] # NoTree => r < s} IN
    IF Len(t.kids) # 1 THEN {}
    ELSE free \cap CASE t.kind = "Limit" -> IF "scalar" \in t.flags THEN {} ELSE {LIMIT}
                     [] t.kind = "Order" -> {ORDER}
                     [] t.kind = "Aggregate" -> {AGG}
                     [] t.kind = "Filter" ->
                          IF t.kids[1].kind = "Aggregate" /\ HAVING \in free THEN {HAVING}
                          ELSE {FILTER}
                     [] t.kind = "Project" ->
                          IF "window" \in t.flags THEN {} ELSE {PROJ_TOP, PROJ_BOTTOM}
                     [] OTHER -> {}

Least(S) == CHOOSE s \in S : \A r \in S : s <= r

WalkDown ==
    /\ At(Flat, Ordinary, "walk")
    /\ SlotOf(Top.cur, Top.slot) # {}
    /\ Stay([Top EXCEPT !.slot[Least(SlotOf(Top.cur, Top.slot))] = Top.cur,
                        !.cur = Top.cur.kids[1]])
    /\ UNCHANGED <<argVars, listVars, mapVars, final, outcome>>

Filled(slot) == {s \in Slots : slot[s] # NoTree}
Flagged(slot, s, flag) == slot[s] # NoTree /\ flag \in slot[s].flags
Absorbs(t) == dialect = "DUCKDB" /\ t.kind = "Get" /\ t.kids = << >> /\ "simple" \in t.flags

\* A projection that can throw would be folded into another, or into it another.
Refolds(slot) ==
    /\ {PROJ_TOP, PROJ_BOTTOM} \subseteq Filled(slot)
    /\ Flagged(slot, PROJ_TOP, "throws") \/ Flagged(slot, PROJ_BOTTOM, "throws")
\* Without keys, an aggregate whose outputs nobody uses leaves no trace in a SELECT.
Vanishes(slot) == Flagged(slot, AGG, "ungrouped") /\ Flagged(slot, AGG, "unused")

\* Mutant: the rows an aggregate collapses are not thought of.
Fuses_AnyAggregate(slot, input) ==
    /\ Filled(slot) # {}
    /\ Cardinality(Filled(slot)) > 1 \/ Absorbs(input)
    /\ ~Refolds(slot)

\* At least two components, and nothing whose meaning the fold would change.
Fuses(slot, input) ==
    /\ Filled(slot) # {}
    /\ Cardinality(Filled(slot)) > 1 \/ Absorbs(input)
    /\ ~Refolds(slot)
    /\ ~(Vanishes(slot) /\ PROJ_TOP \in Filled(slot))

\* A key that has become an integer literal would group by position.
GroupsByPosition(slot) == Flagged(slot, AGG, "literal") /\ PROJ_BOTTOM \in Filled(slot)

\* A key that has become a literal says nothing of the order, and is left out: in ORDER BY it
\* would be a position.
OrderItems(slot) ==
    {"column"} \cup IF Flagged(slot, ORDER, "literal") /\ PROJ_TOP \in Filled(slot) THEN {"literal"} ELSE {}
\* Mutant: all keys are written.
GuardOrdinalOrderItems_None(items) == items
GuardOrdinalOrderItems(items) == items \ {"literal"}
SortsByPosition(slot) == "literal" \in GuardOrdinalOrderItems(OrderItems(slot))

\* What the fused SELECT means: its clauses in the order SQL evaluates them; a HAVING without
\* an aggregate makes the SELECT one of its own.
Clause(slot, s) ==
    IF \/ s = AGG /\ GroupsByPosition(slot)
       \/ s = HAVING /\ AGG \notin Filled(slot)
       \/ s = ORDER /\ SortsByPosition(slot)
       \/ s = PROJ_TOP /\ Refolds(slot)
    THEN Garbled ELSE Op(slot[s])
Block(source, slot) ==
    LET lost == IF Vanishes(slot) /\ PROJ_TOP \in Filled(slot) THEN {AGG} ELSE {}
        part(s) == IF s \in Filled(slot) \ lost THEN <<Clause(slot, s)>> ELSE << >>
    IN  source \o part(FILTER) \o part(PROJ_BOTTOM) \o part(AGG) \o part(HAVING)
               \o part(PROJ_TOP) \o part(ORDER) \o part(LIMIT)

\* The end of the walk: the scan below is absorbed, or the input becomes a CTE.
WalkEnd ==
    /\ At(Flat, Ordinary, "walk")
    /\ SlotOf(Top.cur, Top.slot) = {}
    /\ IF ~Fuses(Top.slot, Top.cur) \/ (Absorbs(Top.cur) /\ GroupsByPosition(Top.slot))
       THEN Stay([Top EXCEPT !.at = "kids"]) /\ UNCHANGED node_count
       ELSE IF Absorbs(Top.cur)
       THEN /\ Return(Cte(Name(node_count), Block(<<Op(Top.cur)>>, Top.slot)))
            /\ node_count' = node_count + 1
       ELSE Call([Top EXCEPT !.at = "source"], Top.cur, "flat") /\ UNCHANGED node_count
    /\ UNCHANGED <<argVars, cte_nodes, has_recursive_cte, mapVars, final, outcome>>

\* The fold may still give up, with the input's CTEs in the list.
SourceDone ==
    /\ BackAt(Flat, Ordinary, "source")
    /\ Push(ret)
    /\ IF GroupsByPosition(Top.slot)
       THEN Stay([Top EXCEPT !.at = "kids"]) /\ UNCHANGED node_count
       ELSE /\ Return(Cte(Name(node_count), Block(<<ret.name>>, Top.slot)))
            /\ node_count' = node_count + 1
    /\ UNCHANGED <<argVars, has_recursive_cte, mapVars, final, outcome>>

------------------------------------------------------------------------------
(* One CTE per operator.                                                   *)

EnterInlineOrdinary ==
    /\ At(Inline, Ordinary \ {"SetOperation"}, "enter")
    /\ Stay([Top EXCEPT !.at = "kids"])
    /\ UNCHANGED <<argVars, listVars, mapVars, final, outcome>>

NextKid ==
    /\ At(Both, Ordinary, "kids")
    /\ Top.kid < Len(Top.tree.kids)
    /\ Call(Top, Top.tree.kids[Top.kid + 1], Top.mode)
    /\ UNCHANGED <<argVars, listVars, mapVars, final, outcome>>

KidDone ==
    /\ BackAt(Flat, Ordinary, "kids")
    /\ Push(ret)
    /\ Stay([Top EXCEPT !.kid = @ + 1, !.got = Append(@, ret.name)])
    /\ UNCHANGED <<argVars, node_count, has_recursive_cte, mapVars, final, outcome>>

\* The inputs of a union are joined up as they come.
InlineKidDone ==
    /\ BackAt(Inline, Ordinary, "kids")
    /\ LET between == IF Top.tree.kind = "Union" /\ Top.kid \in 1..(Len(Top.tree.kids) - 2)
                      THEN <<Op(Top.tree)>> ELSE << >>
       IN  Stay([Top EXCEPT !.kid = @ + 1, !.got = @ \o ret.body \o between])
    /\ UNCHANGED <<argVars, listVars, mapVars, final, outcome>>

AllKids(mode, kinds) == At(mode, kinds, "kids") /\ Top.kid = Len(Top.tree.kids)

\* Mutant: the index is taken before it is counted.
BuildNode_PreDecrement ==
    /\ AllKids(Flat, Ordinary \ {"Join", "PositionalJoin", "Union"})
    /\ Return(Cte(Name(node_count - 1), Append(Top.got, Op(Top.tree))))
    /\ node_count' = node_count + 1
    /\ UNCHANGED <<argVars, cte_nodes, has_recursive_cte, mapVars, final, outcome>>

\* A scan of a delta table is worth broadcasting, and so is what reads it.
BuildNode ==
    /\ AllKids(Flat, Ordinary \ {"Join", "PositionalJoin", "Union"})
    /\ LET hint == \/ Top.tree.kind = "Get" /\ dialect = "SPARK" /\ "delta" \in Top.tree.flags
                   \/ Top.tree.kind \in {"Filter", "Project", "Aggregate"} /\ Back.hint
       IN  Return([Cte(Name(node_count), Append(Top.got, Op(Top.tree))) EXCEPT !.hint = hint])
    /\ node_count' = node_count + 1
    /\ UNCHANGED <<argVars, cte_nodes, has_recursive_cte, mapVars, final, outcome>>

\* Mutant: the join keeps the name its right side had.
BuildJoin_OldName ==
    /\ AllKids(Flat, {"Join", "PositionalJoin"})
    /\ Return(Cte(Name(node_count), Append(Top.got, Op(Top.tree))))
    /\ cte_nodes' = MarkRight(cte_nodes, Top.got[2])
    /\ node_count' = node_count + 1
    /\ UNCHANGED <<argVars, has_recursive_cte, mapVars, final, outcome>>

\* The hint of the left side is looked for one before the last CTE.
BuildJoin ==
    /\ AllKids(Flat, {"Join", "PositionalJoin"})
    /\ LET broadcast ==
             {side \in {"left", "right"} :
                 /\ Top.tree.kind = "Join"
                 /\ cte_nodes[Len(cte_nodes) - (IF side = "left" THEN 1 ELSE 0)].hint}
           inputs == <<Top.got[1], RightName(cte_nodes, Top.got[2])>>
       IN  Return([Cte(Name(node_count), Append(inputs, Op(Top.tree)))
                      EXCEPT !.broadcast = broadcast])
    /\ cte_nodes' = MarkRight(cte_nodes, Top.got[2])
    /\ node_count' = node_count + 1
    /\ UNCHANGED <<argVars, has_recursive_cte, mapVars, final, outcome>>

\* Mutant: the intermediate unions are counted from the index the last one has.
BuildUnion_SameIndex ==
    /\ AllKids(Flat, {"Union"})
    /\ LET n == Len(Top.got)
           left(k) == IF k = 1 THEN Top.got[1] ELSE Name(node_count + k - 2)
           union(k) == <<left(k), Top.got[k + 1], Op(Top.tree)>>
       IN  /\ cte_nodes' = cte_nodes \o
                  [k \in 1..(IF n < 3 THEN 0 ELSE n - 2) |-> Cte(Name(node_count + k - 1), union(k))]
           /\ Return(Cte(Name(node_count),
                         IF n = 1 THEN Append(Top.got, Op(Top.tree)) ELSE union(n - 1)))
           /\ node_count' = node_count + (IF n < 3 THEN 1 ELSE n - 1)
    /\ UNCHANGED <<argVars, has_recursive_cte, mapVars, final, outcome>>

\* A union of several is a chain of unions of two, the last with the index taken first; one of
\* one input is a projection.
BuildUnion ==
    /\ AllKids(Flat, {"Union"})
    /\ LET n == Len(Top.got)
           left(k) == IF k = 1 THEN Top.got[1] ELSE Name(node_count + k - 1)
           union(k) == <<left(k), Top.got[k + 1], Op(Top.tree)>>
       IN  /\ cte_nodes' = cte_nodes \o
                  [k \in 1..(IF n < 3 THEN 0 ELSE n - 2) |-> Cte(Name(node_count + k), union(k))]
           /\ Return(Cte(Name(node_count),
                         IF n = 1 THEN Append(Top.got, Op(Top.tree)) ELSE union(n - 1)))
           /\ node_count' = node_count + (IF n < 3 THEN 1 ELSE n - 1)
    /\ UNCHANGED <<argVars, has_recursive_cte, mapVars, final, outcome>>

BuildInline ==
    /\ AllKids(Inline, Ordinary)
    /\ Return(Text(Append(Top.got, Op(Top.tree))))
    /\ UNCHANGED <<argVars, listVars, mapVars, final, outcome>>

------------------------------------------------------------------------------
\* Flatten: the SELECT or INSERT that reads the last CTE.
Finish ==
    /\ stack = << >> /\ returned
    /\ Push(ret)
    /\ final' = ret.name
    /\ node_count' = node_count + 1
    /\ outcome' = "done" /\ returned' = FALSE
    /\ UNCHANGED <<argVars, has_recursive_cte, mapVars, stack, ret>>

Next ==
    \/ EnterMaterialized \/ BodyDone \/ InlineBodyDone \/ OuterDone \/ EnterCteRef
    \/ EnterDelimJoin \/ LeftDone \/ RightDone \/ InlineLeftDone \/ InlineRightDone
    \/ EnterDelimGet \/ EnterInlineDelimGet
    \/ EnterRecursive \/ AnchorDone \/ StepDone \/ EnterUnsupported
    \/ EnterOrdinary \/ WalkDown \/ WalkEnd \/ SourceDone
    \/ EnterInlineOrdinary \/ NextKid \/ KidDone \/ InlineKidDone
    \/ BuildNode \/ BuildJoin \/ BuildUnion \/ BuildInline
    \/ Finish

Spec == Init /\ [][Next]_vars

------------------------------------------------------------------------------
(* Properties.                                                             *)

Frame ==
    [tree : Trees, mode : Both, kid : Nat, got : Seq(Token), cur : Trees,
     at : {"enter", "body", "outer", "left", "right", "anchor", "step", "walk", "source", "kids"},
     slot : [Slots -> Trees \cup {NoTree}], saved : Seq(Seq(Token))]

\* The arguments, the list, the maps and the activations have the types of the code.
TypeOK ==
    /\ dialect \in Dialects /\ merge_pipeline \in BOOLEAN /\ root \in Trees
    /\ node_count \in Nat /\ cte_nodes \in Seq(CteNode) /\ has_recursive_cte \in BOOLEAN
    /\ \A id \in DOMAIN body_info : body_info[id] \in Seq(Token)
    /\ \A id \in DOMAIN delim_source : delim_source[id] \in Token
    /\ \A id \in DOMAIN inline_delim : inline_delim[id] \in Seq(Token)
    /\ stack \in Seq(Frame) /\ ret \in CteNode /\ returned \in BOOLEAN
    /\ final \in Token /\ outcome \in {"running", "done", "refused", "error"}

\* No two CTEs of a statement have one name: the counter is shared by the chains of a union,
\* the scans of references and the recursion, and a name may be taken long before it is used.
UniqueNames ==
    \A j, k \in DOMAIN cte_nodes : cte_nodes[j].name.id = cte_nodes[k].name.id => j = k

Reads(k, name) == \E i \in DOMAIN cte_nodes[k].body : cte_nodes[k].body[i] = name

\* A CTE reads only CTEs that precede it in the WITH list, by the names they have in it
\* after every renaming of a join's right side; a recursive CTE may also read itself.
ReadsEarlier ==
    \A k \in DOMAIN cte_nodes : \A i \in DOMAIN cte_nodes[k].body :
        LET node == cte_nodes[k] IN
        IsName(node.body[i]) =>
            \/ \E j \in 1..(k - 1) : cte_nodes[j].name = node.body[i]
            \/ /\ node.body[i] = node.name
               /\ node.body[Len(node.body)].op = "RecursiveCte"

\* "The right input is referenced only by this join" (MarkRightSideMaterialized): no other
\* CTE, and not the final statement, reads a CTE renamed for a join.
RightSideReadOnce ==
    \A j \in DOMAIN cte_nodes :
        cte_nodes[j].name.right =>
            /\ Cardinality({k \in DOMAIN cte_nodes : Reads(k, cte_nodes[j].name)}) <= 1
            /\ final # cte_nodes[j].name

\* "Emitted only [...] on openivm-delta join build sides" (cte_nodes.hpp, SparkBroadcastHint):
\* a side that a join asks Spark to broadcast is a scan of a delta table or reads one.
BroadcastsDelta ==
    \A k \in DOMAIN cte_nodes : \A side \in cte_nodes[k].broadcast :
        \E j \in DOMAIN cte_nodes :
            /\ cte_nodes[j].name = cte_nodes[k].body[IF side = "left" THEN 1 ELSE 2]
            /\ cte_nodes[j].hint

=============================================================================
