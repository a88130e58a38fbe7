-------------------------- MODULE MCSqlStormRunner --------------------------
(* Workloads for model-checking SqlStormRunner.                            *)
EXTENDS SqlStormRunner

Fine == [empty |-> FALSE, does |-> [ph \in QueryPhases |-> "ok"]]
But(ph, outcome) == [Fine EXCEPT !.does[ph] = outcome]
Empty == [Fine EXCEPT !.empty = TRUE]

\* Each outcome in some phase it may have, one deviation per query.
Kinds ==
    {Fine, Empty, But("duckdb", "error"), But("duckdb", "internal"), But("duckdb", "fatal"),
     But("duckdb", "dies"), But("duckdb", "hangs"), But("duckdb", "hogs"),
     But("lpts_generate", "internal"), But("lpts_generate", "unsupported"),
     But("lpts_exec", "error"), But("lpts_exec", "hangs"), But("lpts_exec", "fatal"),
     But("lpts_check", "wrong"), But("lpts_check", "unstable"), But("lpts_check", "unsupported"),
     But("lpts_check", "dies"), But("lpts_check", "internal"), But("lpts_check", "hangs")}

\* Two queries show what one leaves to the next; a third comes after an empty one.
Pairs == {<<a, b>> : a \in Kinds, b \in {Fine, Empty, But("duckdb", "error"),
                                         But("lpts_check", "wrong")}}
Triples == {<<a, Empty, Fine>> : a \in {But("lpts_check", "internal"), But("duckdb", "hangs"),
                                        But("lpts_check", "wrong")}}
AllWorkloads == Pairs \cup Triples

=============================================================================
