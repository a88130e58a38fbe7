----------------------------- MODULE MCBuilder -----------------------------
(* Plans for AstBuilder to translate and, where the menu is Idle and makes *)
(* no plan, statements of two connections for PlanningScope.               *)
EXTENDS AstBuilder, PlanningScope

Column(name) == [name |-> name, leaf |-> << >>]
Field(leaf) == [name |-> <<"expr">>, leaf |-> leaf]
MCTables == [plain |-> <<Column(<<"a">>), Column(<<"b">>)>>,
             \* a and A cannot be told apart, a$ and a# sanitize to the same, a_1 looks like a suffix
             clash |-> <<Column(<<"a">>), Column(<<"a", "1">>), Column(<<"A">>)>>,
             marks |-> <<Column(<<"a", "$">>), Column(<<"a", "#">>)>>,
             struct |-> <<Column(<<"a">>), Field(<<"A">>), Field(<<"A">>)>>,
             one |-> <<Column(<<"a">>)>>]

Menu(kinds, tables, aliases, width, depth, operators) ==
    [kinds |-> kinds, tables |-> tables, aliases |-> aliases, width |-> width, depth |-> depth,
     operators |-> operators, types |-> {"INNER"}]
A == <<"a">>
Scans == Menu({"Get", "GetNothing", "DummyScan", "Values", "EmptyResult", "Filter", "Order", "Sample", "CrossProduct"},
              {"clash", "marks", "struct"}, {}, 2, 2, 4)
Projections == Menu({"Get", "Project", "Aggregate", "Order"}, {"clash"}, {<<"A">>}, 2, 1, 3)
Decompressions == Menu({"Get", "Project", "Compress", "Filter"}, {"plain"}, {}, 2, 1, 3)
Hidden == Menu({"Get", "Project", "Aggregate", "Filter", "Extra", "NoValues"}, {"plain"}, {}, 1, 1, 4)
Joins == [Menu({"Get", "Join", "Prune", "Project", "Aggregate", "PositionalJoin"}, {"plain"}, {}, 1, 2, 4)
            EXCEPT !.types = {"INNER", "SEMI", "RIGHT_SEMI", "MARK"}]
Branches == Menu({"Get", "Union", "Except", "Reuse", "Project", "Join", "Insert"}, {"plain"}, {}, 2, 2, 5)
Ctes == Menu({"Get", "MaterializedCte", "RecursiveCte", "CteRef", "Project", "Union", "Join"}, {"plain"}, {}, 2, 2, 5)
Subqueries == [Menu({"Get", "DelimJoin", "Join", "Project"}, {"clash"}, {}, 1, 2, 5)
                 EXCEPT !.types = {"INNER", "MARK"}]
Extensions == Menu({"Get", "Window", "Unnest", "Lateral", "Filter", "Limit", "TopN"}, {"marks"}, {<<"a">>, <<"A">>}, 2, 1, 3)
Groups == Menu({"Get", "Aggregate", "Filter", "Prune"}, {"one"}, {}, 2, 1, 4)
Idle == Menu({}, {}, {}, 0, 0, 0)
Nothing == Menu({"Get", "NoValues", "CrossNothing", "Project", "Insert"}, {"one"}, {}, 1, 2, 5)
MCMaxColumns == 20
MCCharacters == STRING
MCDigits == [n \in 0..(2 * MCMaxColumns) |-> ToString(n)]
MCMenus == {Idle, Scans, Projections, Decompressions, Hidden, Joins, Branches, Ctes, Subqueries, Extensions, Nothing, Groups}

------------------------------------------------------------------------------

Clock(clock) == Item("clock", clock, << >>)
Call(kind, text) == Item(kind, "", <<text>>)
Select(items) == Text("select", items)
Now == Select(<<Clock("now"), Clock("current_timestamp")>>)
Today == Select(<<Clock("current_date")>>)
Explain(text) == Text("explain", <<Call("text", text)>>)
Pragma(text) == Text("pragma", <<Call("lpts_query", text)>>)
MCStatements ==
    {Now, Pragma(Now),
     Explain(Select(<<Call("lpts_query", Today), Clock("current_timestamp")>>)),
     Select(<<Call("view", Now), Call("json_serialize_plan", Today)>>),
     Select(<<Call("lpts_query", Explain(Select(<<Call("view", Now)>>)))>>),
     Select(<<Call("view", Select(<<Call("lpts_query", Select(<< >>)), Clock("current_timestamp")>>)), Clock("current_date")>>)}
TextsIn(text) == {text.items[i].texts[1] : i \in {j \in DOMAIN text.items : text.items[j].kind # "clock"}}
Within(texts) == texts \cup UNION {TextsIn(text) : text \in texts}
MCTexts == Within(Within(Within(MCStatements)))

------------------------------------------------------------------------------

NoPlanning == \A c \in Connections : settings[c] = [check |-> FALSE, log |-> FALSE, data_dependent |-> FALSE]
MCInit == BuilderInit /\ PlanningInit /\ (menu = Idle \/ NoPlanning)
MCNext == \/ BuilderNext /\ UNCHANGED planningVars
          \/ menu = Idle /\ PlanningNext /\ UNCHANGED builderVars
MCSpec == MCInit /\ [][MCNext]_<<builderVars, planningVars>>
=============================================================================
