--------------------------- MODULE PlanningScope ---------------------------
(***************************************************************************)
(* Who plans which text, inside what (lpts_extension.cpp): PlanQuery, the  *)
(* functions and hooks that call it, and what tells its plans from         *)
(* DuckDB's own.  A connection runs on one thread; DuckDB's planner calls  *)
(* LPTS while it binds lpts_query or optimizes, LPTS calls the planner     *)
(* again, so that plannings nest: frames is that call stack, and any of    *)
(* them may throw.                                                         *)
(*                                                                         *)
(* A text is a SELECT over items bound from left to right (clocks, planner *)
(* functions with a text as argument, views), EXPLAIN (FORMAT SQL) of a    *)
(* text, or PRAGMA lpts of one.                                            *)
(***************************************************************************)
EXTENDS Naturals, Sequences, FiniteSets, SequencesExt

CONSTANTS
    Connections,    \* each with its thread
    Texts,          \* every text that is planned: statements, and the texts in them
    Statements      \* those that clients send

VARIABLES
    settings,               \* connection -> lpts_check, its log, lpts_enable_data_dependent_optimizers
    lpts_planning_depth,    \* thread_local
    in_rewrite,             \* connection -> LptsCheckModeState's guard
    frames                  \* connection -> plannings under way, innermost last

planningVars == <<settings, lpts_planning_depth, in_rewrite, frames>>

Clocks == {"now", "current_timestamp", "current_date"}
Item(kind, clock, texts) == [kind |-> kind, clock |-> clock, texts |-> texts]
Text(kind, items) == [kind |-> kind, items |-> items]

TextItems ==
    {item \in [kind : {"clock", "lpts_query", "json_serialize_plan", "view", "text"},
               clock : Clocks \cup {""}, texts : Seq(Texts)] :
        IF item.kind = "clock" THEN item.clock \in Clocks ELSE item.texts # << >>}
WellFormed(text) ==
    /\ text \in [kind : {"select", "explain", "pragma"}, items : Seq(TextItems)]
    /\ text.kind = "explain" => text.items # << >> /\ text.items[1].kind = "text"
ASSUME TextsAssumption == Statements \subseteq Texts /\ \A text \in Texts : WellFormed(text)

\* A view's body is bound in the place of its name.
Own(item) == [item |-> item, own |-> TRUE]
BoundItems(text) ==
    IF text.kind = "explain" THEN << >> ELSE FlattenSeq([i \in DOMAIN text.items |->
        IF text.items[i].kind = "view"
        THEN LET body == text.items[i].texts[1].items
             IN  [j \in DOMAIN body |-> [item |-> body[j], own |-> FALSE]]
        ELSE <<Own(text.items[i])>>])
Arguments(text) == UNION {ToSet(text.items[i].texts) : i \in {j \in DOMAIN text.items : text.items[j].kind # "view"}}
HasClock(text) == \E i \in DOMAIN text.items : text.items[i].kind = "clock"
\* Calls count inside string literals too.
HasWallClockFunctionSQL(text) ==
    \/ HasClock(text)
    \/ \E arg \in Arguments(text), i \in 1..3 :
          i \in DOMAIN arg.items /\ arg.items[i].kind = "clock" /\ (text.kind = "explain" \/ arg.items[i].clock = "now")
PlansQueries(text) == \E i \in DOMAIN text.items : text.items[i].kind \in {"lpts_query", "json_serialize_plan"}

Planning(kind, text, native) ==
    [kind |-> kind, text |-> text, native |-> native, at |-> "bind", next |-> 1, bound |-> << >>,
     explained |-> FALSE, rewritten |-> Text("select", << >>), checked |-> FALSE]
Planner(c) == frames[c][Len(frames[c])]
At(c, stage) == frames[c] # << >> /\ Planner(c).at = stage
Set(c, frame) == [frames[c] EXCEPT ![Len(frames[c])] = frame]
InScope(stack) == Cardinality({i \in DOMAIN stack : stack[i].kind = "PlanQuery"})

------------------------------------------------------------------------------

Submit(c) ==
    /\ frames[c] = << >>
    /\ \E text \in Statements : frames' = [frames EXCEPT ![c] = <<Planning("statement", text, FALSE)>>]
    /\ UNCHANGED <<settings, lpts_planning_depth, in_rewrite>>

\* Mutant: a planning function that was called inside a planning ends that one too.
LeaveScope_Resets(depth) == 0
LeaveScope(depth) == depth - 1

\* PlanQuery, called by the frame that stays behind as `caller`.
PlanQuery(c, caller, text, native) ==
    /\ frames' = [frames EXCEPT ![c] = Append(Set(c, caller), Planning("PlanQuery", text, native))]
    /\ lpts_planning_depth' = [lpts_planning_depth EXCEPT ![c] = @ + 1]
    /\ UNCHANGED settings

\* Mutant: the depth is shared by all threads.
LptsGetSQLValueFunction_Shared(c, clock) ==
    IF clock = "current_timestamp" /\ (\E d \in Connections : lpts_planning_depth[d] > 0) THEN "internal" ELSE "duckdb"
\* What a clock becomes.  PreserveCurrentTimestampCalls has renamed the calls written in a SELECT
\* that is planned for LPTS, LptsGetSQLValueFunction answers for current_timestamp inside a scope.
LptsGetSQLValueFunction(c, clock) ==
    IF clock = "current_timestamp" /\ lpts_planning_depth[c] > 0 THEN "internal" ELSE "duckdb"
BoundClock(c, item, own) ==
    [clock |-> item.clock, own |-> own,
     is |-> IF Planner(c).kind = "PlanQuery" /\ own /\ item.clock = "now" THEN "internal"
            ELSE LptsGetSQLValueFunction(c, item.clock)]

\* The next item of the text is of this kind.
Binds(c, kind) ==
    /\ At(c, "bind") /\ Planner(c).next \in DOMAIN BoundItems(Planner(c).text)
    /\ BoundItems(Planner(c).text)[Planner(c).next].item.kind = kind
Here(c) == BoundItems(Planner(c).text)[Planner(c).next]
Further(c) == [Planner(c) EXCEPT !.next = @ + 1]
AllBound(c) == At(c, "bind") /\ Planner(c).next > Len(BoundItems(Planner(c).text))
BindClock(c) ==
    /\ Binds(c, "clock")
    /\ frames' = [frames EXCEPT ![c] =
           Set(c, [Further(c) EXCEPT !.bound = Append(@, BoundClock(c, Here(c).item, Here(c).own))])]
    /\ UNCHANGED <<settings, lpts_planning_depth, in_rewrite>>
\* lpts_query and print_ast_query plan while they are bound, PRAGMA lpts in place of being bound.
BindLptsQuery(c) ==
    /\ Binds(c, "lpts_query")
    /\ PlanQuery(c, Further(c), Here(c).item.texts[1], FALSE)
    /\ UNCHANGED in_rewrite
\* DuckDB plans the argument when it folds or runs the call, with its own optimizer.
SerializePlan(c) ==
    /\ Binds(c, "json_serialize_plan")
    /\ frames' = [frames EXCEPT ![c] =
           Append(Set(c, Further(c)), Planning("serialized", Here(c).item.texts[1], FALSE))]
    /\ UNCHANGED <<settings, lpts_planning_depth, in_rewrite>>

Folded(bound) == [i \in DOMAIN bound |-> IF bound[i].is = "duckdb" THEN [bound[i] EXCEPT !.is = "constant"] ELSE bound[i]]

\* Mutant: the wall clock is protected from LPTS's own optimizers only.
LptsOptimizePlan_Native(c, f) == f.kind = "PlanQuery" /\ ~f.native /\ ~settings[c].data_dependent
LptsOptimizePlan(c, f) ==
    f.kind = "PlanQuery" /\ ~f.native /\ ~(settings[c].data_dependent /\ ~HasWallClockFunctionSQL(f.text))

\* LPTS's own list of optimizers leaves clocks alone and runs no hooks.
LptsOptimizeConservative(c) ==
    /\ AllBound(c) /\ LptsOptimizePlan(c, Planner(c))
    /\ frames' = [frames EXCEPT ![c] =
           Set(c, [Planner(c) EXCEPT !.at = IF Planner(c).text.kind = "explain" THEN "refused" ELSE "planned",
                                 !.bound = IF HasWallClockFunctionSQL(Planner(c).text) THEN @ ELSE Folded(@)])]
    /\ UNCHANGED <<settings, lpts_planning_depth, in_rewrite>>
\* DuckDB's optimizer first asks the hook of EXPLAIN (FORMAT SQL), last the one of lpts_check.
LptsExplainSqlOptimize(c) ==
    /\ AllBound(c) /\ Planner(c).text.kind = "explain" /\ ~Planner(c).explained /\ ~LptsOptimizePlan(c, Planner(c))
    /\ PlanQuery(c, [Planner(c) EXCEPT !.explained = TRUE], Planner(c).text.items[1].texts[1], FALSE)
    /\ UNCHANGED in_rewrite
Optimize(c) ==
    /\ AllBound(c) /\ ~LptsOptimizePlan(c, Planner(c))
    /\ Planner(c).text.kind = "explain" => Planner(c).explained
    /\ frames' = [frames EXCEPT ![c] = Set(c, [Planner(c) EXCEPT !.at = "optimized", !.bound = Folded(@)])]
    /\ UNCHANGED <<settings, lpts_planning_depth, in_rewrite>>

\* The hook knows the connection and the text of its current query, not whose plan it is given.
\* Mutant: queries that plan other queries are checked like any other.
Checks_Planners(c) == settings[c].check /\ ~in_rewrite[c] /\ frames[c][1].text.kind = "select"
Checks(c) ==
    settings[c].check /\ ~in_rewrite[c] /\ frames[c][1].text.kind = "select" /\ ~PlansQueries(frames[c][1].text)
LptsCheckOptimize(c) ==
    /\ At(c, "optimized")
    /\ IF Checks(c)
       THEN /\ PlanQuery(c, [Planner(c) EXCEPT !.at = "check"], frames[c][1].text, FALSE)
            /\ in_rewrite' = [in_rewrite EXCEPT ![c] = TRUE]
       ELSE /\ frames' = [frames EXCEPT ![c] = Set(c, [Planner(c) EXCEPT !.at = "planned"])]
            /\ UNCHANGED <<settings, lpts_planning_depth, in_rewrite>>

\* A clock is printed as a call again, a constant as a constant.
Rewritten(f) ==
    Text("select", FlattenSeq([i \in DOMAIN f.bound |->
        IF f.bound[i].is = "constant" THEN << >>
        ELSE <<Item("clock", IF f.bound[i].is = "internal" THEN "now" ELSE f.bound[i].clock, << >>)>>]))

\* A planning returns to its caller: to binding or optimizing, or to the check.
Resumed(caller, done) ==
    CASE caller.at = "check" -> [caller EXCEPT !.at = "translated", !.rewritten = Rewritten(done)]
      [] caller.at \in {"replan", "combine"} -> [caller EXCEPT !.at = "compared"]
      [] OTHER -> caller
Return(c) ==
    /\ At(c, "planned")
    /\ LET rest == Front(frames[c])
       IN  frames' = [frames EXCEPT ![c] =
                         IF rest = << >> THEN rest ELSE [rest EXCEPT ![Len(rest)] = Resumed(@, Planner(c))]]
    /\ lpts_planning_depth' = [lpts_planning_depth EXCEPT ![c] = IF Planner(c).kind = "PlanQuery" THEN LeaveScope(@) ELSE @]
    /\ UNCHANGED <<settings, in_rewrite>>
PlanRewritten(c) ==
    /\ At(c, "translated")
    /\ PlanQuery(c, [Planner(c) EXCEPT !.at = "replan"], Planner(c).rewritten, FALSE)
    /\ UNCHANGED in_rewrite
\* If a CTE is recursive, both queries are planned again as one, by DuckDB's optimizer.
PlanRecursiveCheck(c) ==
    /\ At(c, "compared")
    /\ PlanQuery(c, [Planner(c) EXCEPT !.at = "combine"],
                 Text("select", frames[c][1].text.items \o Planner(c).rewritten.items), TRUE)
    /\ UNCHANGED in_rewrite
EndCheck(c) ==
    /\ At(c, "compared")
    /\ frames' = [frames EXCEPT ![c] = Set(c, [Planner(c) EXCEPT !.at = "planned", !.checked = TRUE])]
    /\ in_rewrite' = [in_rewrite EXCEPT ![c] = FALSE]
    /\ UNCHANGED <<settings, lpts_planning_depth>>

\* Any planning may throw: a name that is not found, an operator LPTS refuses, an interrupt.  The
\* hook of lpts_check catches if it logs, json_serialize_plan puts the error into its result.
InHook(f) == f.at \in {"check", "translated", "replan", "compared", "combine"}
Catcher(c) ==
    {i \in DOMAIN frames[c] : frames[c][i].kind = "serialized" \/ (InHook(frames[c][i]) /\ settings[c].log)}
\* Mutant: a scope that is left by an exception stays open.
Unwound_Leaks(depth, left) == depth
Unwound(depth, left) == depth - InScope(left)
Unwind(c, kept, left) ==
    /\ frames' = [frames EXCEPT ![c] = kept]
    /\ lpts_planning_depth' = [lpts_planning_depth EXCEPT ![c] = Unwound(@, left)]
    /\ in_rewrite' = [in_rewrite EXCEPT ![c] = \E i \in DOMAIN kept : InHook(kept[i])]
    /\ UNCHANGED settings
Throw(c) ==
    /\ frames[c] # << >> /\ Planner(c).at # "planned"
    /\ IF Catcher(c) = {} THEN Unwind(c, << >>, frames[c])
       ELSE LET k == CHOOSE i \in Catcher(c) : \A j \in Catcher(c) : j <= i
                left == SubSeq(frames[c], k + 1, Len(frames[c]))
            IN  IF InHook(frames[c][k]) /\ settings[c].log
                THEN Unwind(c, Append(SubSeq(frames[c], 1, k - 1), [frames[c][k] EXCEPT !.at = "planned"]), left)
                ELSE Unwind(c, SubSeq(frames[c], 1, k - 1), left)

PlanningInit ==
    /\ settings \in [Connections -> [check : BOOLEAN, log : BOOLEAN, data_dependent : BOOLEAN]]
    /\ lpts_planning_depth = [c \in Connections |-> 0]
    /\ in_rewrite = [c \in Connections |-> FALSE]
    /\ frames = [c \in Connections |-> << >>]
PlanningNext ==
    \E c \in Connections :
        \/ Submit(c) \/ BindClock(c) \/ BindLptsQuery(c) \/ SerializePlan(c) \/ LptsOptimizeConservative(c) \/ LptsExplainSqlOptimize(c)
        \/ Optimize(c) \/ LptsCheckOptimize(c) \/ PlanRewritten(c) \/ PlanRecursiveCheck(c) \/ EndCheck(c) \/ Return(c) \/ Throw(c)
PlanningSpec == PlanningInit /\ [][PlanningNext]_planningVars

------------------------------------------------------------------------------

Plannings == UNION {ToSet(frames[c]) : c \in Connections}
Translated(f) == f.kind = "PlanQuery" /\ ~f.native /\ f.at = "planned"
\* Left out: now() in the body of a view, which has no call to rename and is not in the text.
ClocksAreCalls(f) ==
    \A i \in DOMAIN f.bound : f.bound[i].own \/ f.bound[i].clock = "current_timestamp" =>
        IF f.bound[i].clock = "current_date" THEN f.bound[i].is = "duckdb" ELSE f.bound[i].is = "internal"
\* A view can hide from the hook of lpts_check that a query plans others.
Hides(text) == \E i \in DOMAIN text.items : text.items[i].kind = "view" /\ PlansQueries(text.items[i].texts[1])

\* Whatever is nested in what, on whatever thread, and wherever it throws: a plan LPTS translates
\* has the clocks of its text as calls and not the time of its planning (PreserveCurrentTimestampCalls,
\* LptsGetSQLValueFunction, HasWallClockFunctionSQL); the plan of a client's own statement has none
\* of LPTS's functions; and of the plans made for one statement only its own is checked
\* (LptsCheckOptimize).
PlansFitTheirReaders ==
    /\ \A f \in Plannings :
          /\ Translated(f) => ClocksAreCalls(f)
          /\ f.kind = "statement" => \A i \in DOMAIN f.bound : f.bound[i].is # "internal"
    /\ \A c \in Connections : \A i \in DOMAIN frames[c] :
          frames[c][i].checked => i = 1 \/ Hides(frames[c][1].text)
============================================================================
