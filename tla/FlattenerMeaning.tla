-------------------------- MODULE FlattenerMeaning --------------------------
(***************************************************************************)
(* What a plan means and what the flattened statement means, as one kind   *)
(* of token sequence, so that the two can be compared.                     *)
(***************************************************************************)
EXTENDS Flattener
LOCAL INSTANCE SequencesExt

\* The row set a recursive CTE has built so far.
Self(id) == [op |-> "CteRef", id |-> id, right |-> FALSE]

\* The plan t, with the meaning of the CTEs it may refer to and of the left sides of the
\* DelimJoins it is in.
RECURSIVE Plan(_, _, _)
Plan(t, ctes, delims) ==
    LET n == Len(t.kids)
        kid(k) == Plan(t.kids[k], ctes, delims)
        joined[k \in 0..n] ==
            IF k = 0 THEN << >>
            ELSE joined[k - 1] \o kid(k)
                 \o (IF t.kind = "Union" /\ k \in 2..(n - 1) THEN <<Op(t)>> ELSE << >>)
    IN  CASE t.kind = "CteRef" -> ctes[t.id]
          [] t.kind = "DelimGet" -> Append(delims[t.id], Distinct)
          [] t.kind = "MaterializedCte" -> Plan(t.kids[2], Bind(ctes, t.id, kid(1)), delims)
          [] t.kind = "DelimJoin" ->
               kid(1) \o Append(Plan(t.kids[2], ctes, Bind(delims, t.id, kid(1))), Op(t))
          [] t.kind = "RecursiveCte" ->
               kid(1) \o Append(Plan(t.kids[2], Bind(ctes, t.id, <<Self(t.id)>>), delims), Op(t))
          [] OTHER -> Append(joined[n], Op(t))

\* The statement: every name replaced by what the CTE of that name means.
Statement ==
    LET meaning[k \in DOMAIN cte_nodes] ==
            LET node == cte_nodes[k]
                input(token) ==
                    LET earlier == {j \in 1..(k - 1) : cte_nodes[j].name = token} IN
                    IF ~IsName(token) THEN <<token>>
                    ELSE IF token = node.name THEN <<Self(node.body[Len(node.body)].id)>>
                    ELSE IF earlier = {} THEN <<Garbled>>
                    ELSE meaning[CHOOSE j \in earlier : TRUE]
            IN  FlattenSeq([i \in DOMAIN node.body |-> input(node.body[i])])
    IN  meaning[CHOOSE k \in DOMAIN cte_nodes : cte_nodes[k].name = final]

\* "Equivalent SQL as a sequence of named CTEs" (README.md): after the walk, with its
\* fusions, renamings, registered sources and inlined step, the statement means the plan.
MeansThePlan == outcome = "done" => Statement = Plan(root, << >>, << >>)

\* In a recursive step there is no text for a set operation, a nested recursion, and a
\* DelimGet whose DelimJoin is outside of the step.
RECURSIVE Unsupported(_, _, _)
Unsupported(t, inStep, delims) ==
    LET kid(k) == Unsupported(t.kids[k], inStep, delims) IN
    CASE t.kind = "DelimGet" -> t.id \notin delims
      [] t.kind = "DelimJoin" -> kid(1) \/ Unsupported(t.kids[2], inStep, delims \cup {t.id})
      [] t.kind = "RecursiveCte" -> inStep \/ kid(1) \/ Unsupported(t.kids[2], TRUE, {})
      [] OTHER -> \/ inStep /\ t.kind = "SetOperation"
                  \/ \E k \in DOMAIN t.kids : kid(k)

\* A plan is refused when and only when it has such a step, and every reference in a plan
\* resolves: the walk registers a source before it enters the side that refers to it.
RefusesExactly ==
    /\ outcome # "error"
    /\ outcome # "running" => (outcome = "refused" <=> Unsupported(root, FALSE, {}))

=============================================================================
