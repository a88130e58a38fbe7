----------------------------- MODULE MCFlattener -----------------------------
EXTENDS FlattenerMeaning

N(kind, id, kids, flags) == [kind |-> kind, id |-> id, kids |-> kids, flags |-> flags]

\* Plans with `size` nodes above the leaves, and the CTEs and DelimJoins in scope; the ids of
\* a node's children are 3 * id + 1 and up.
Plans[size \in Nat, id \in Nat, ctes \in SUBSET Nat, delims \in SUBSET Nat] ==
    IF size = 0
    THEN {N("Get", id, << >>, {"simple"})} \cup {N("CteRef", c, << >>, {}) : c \in ctes}
         \cup {N("DelimGet", d, << >>, {}) : d \in delims}
    ELSE LET left(k) == Plans[k, 3 * id + 1, ctes, delims]
             Two(kinds, flags, rctes, rdelims) ==
                 UNION {{N(kind, id, <<a, b>>, flags) : kind \in kinds, a \in left(k),
                             b \in Plans[size - 1 - k, 3 * id + 2, rctes, rdelims]} :
                        k \in 0..(size - 1)}
         IN  {N(kind, id, <<a>>, {}) : kind \in {"Filter", "Distinct"}, a \in left(size - 1)}
             \cup Two({"Join", "SetOperation"}, {}, ctes, delims)
             \cup Two({"MaterializedCte"}, {"force"}, ctes \cup {id}, delims)
             \cup Two({"RecursiveCte"}, {}, ctes \cup {id}, delims)
             \cup Two({"DelimJoin"}, {}, ctes, delims \cup {id})
Get(id) == N("Get", id, << >>, {"simple"})

\* A scope around such plans, and unions of four and of one, also in a recursive step.
Scope(kind, ctes, delims) ==
    {N(kind, 0, <<Get(1), b>>, {}) : b \in UNION {Plans[n, 2, ctes, delims] : n \in 0..2}}
Structures ==
    Scope("MaterializedCte", {0}, {}) \cup Scope("DelimJoin", {}, {0})
    \cup Scope("RecursiveCte", {0}, {})
    \cup {N("RecursiveCte", 0, <<Get(1), N("Union", 2, <<a, Get(3), b>>, {})>>, {}) :
             a \in Plans[1, 4, {0}, {}], b \in Plans[0, 5, {0}, {}]}
    \cup {N("Union", 0, <<a, Get(1), b, Get(2)>>, {}) :
             a \in Plans[1, 3, {}, {}], b \in Plans[1, 4, {}, {}]}
    \cup {N("Union", 0, <<a>>, {}) : a \in Plans[1, 3, {}, {}]}
    \cup {N("RecursiveCte", 0, <<Get(1), N("Union", 2, <<a>>, {})>>, {}) : a \in Plans[1, 4, {0}, {}]}

\* Chains: a node over each chain one shorter.
Over(kind, flags, below) == {N(kind, t.id + 1, <<t>>, flags) : t \in below}
Plain(below) ==
    UNION {Over(kind, {}, below) : kind \in {"Limit", "Order", "Project", "Aggregate", "Filter"}}
Special(below) ==
    Over("Limit", {"scalar"}, below) \cup Over("Project", {"window"}, below)
    \cup Over("Project", {"throws"}, below) \cup Over("Aggregate", {"literal"}, below)
    \cup Over("Order", {"literal"}, below)
    \cup Over("Aggregate", {"ungrouped", "unused"}, below)
Sources == {N("Get", 1, << >>, {"simple"}), N("Get", 1, << >>, {})}
Chains(length, special) ==
    LET chain[n \in 0..length] ==
            IF n = 0 THEN Sources
            ELSE LET shorter == chain[n - 1] IN
                 shorter \cup Plain(shorter) \cup IF special THEN Special(shorter) ELSE {}
    IN  chain[length]

CallsOf(roots, dialects, merge) == [root : roots, dialect : dialects, merge_pipeline : merge]

\* The trees and all below them, of a depth of at most MaxDepth.
MaxDepth == 7
NodesOf(calls) ==
    LET nodes[n \in 0..MaxDepth] ==
            IF n = 0 THEN {call.root : call \in calls}
            ELSE LET above == nodes[n - 1] IN
                 above \cup UNION {{t.kids[k] : k \in DOMAIN t.kids} : t \in above}
    IN  {t \in nodes[MaxDepth] : TRUE}

\* One block of all seven clauses, and the joins of tables, delta tables and what reads them.
Whole ==
    LET over(kind, t) == N(kind, t.id + 1, <<t>>, {}) IN
    over("Limit", over("Order", over("Project", over("Filter", over("Aggregate",
        over("Project", over("Filter", Get(1))))))))
Tables(id) ==
    LET scans == {N("Get", id, << >>, flags) : flags \in {{"simple"}, {"simple", "delta"}}}
    IN  scans \cup {N(kind, id + 1, <<t>>, {}) : kind \in {"Filter", "Order"}, t \in scans}
DeltaJoins ==
    {N(kind, 0, <<a, b>>, {}) : kind \in {"Join", "PositionalJoin"}, a \in Tables(1), b \in Tables(5)}

AllCalls ==
    CallsOf(Structures \cup {Whole}, {"DUCKDB"}, BOOLEAN)
    \cup CallsOf(Structures \cup DeltaJoins, {"SPARK"}, {TRUE})
    \cup CallsOf(Chains(5, FALSE) \cup Chains(3, TRUE), {"DUCKDB"}, {TRUE})
    \cup CallsOf(Chains(3, TRUE), {"POSTGRES"}, {TRUE})
AllTrees == NodesOf(AllCalls)

\* TLC evaluates what replaces a constant at every use of it, and other definitions once.
MCCalls == AllCalls
MCTrees == AllTrees

DeltaCalls == CallsOf(DeltaJoins, {"SPARK"}, {FALSE})
AllDeltaTrees == NodesOf(DeltaCalls)
DeltaTrees == AllDeltaTrees

=============================================================================
