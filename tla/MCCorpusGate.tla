---------------------------- MODULE MCCorpusGate ----------------------------
(* Files and builds for model-checking CorpusGate.                         *)
EXTENDS CorpusGate, TLC

CONSTANTS f1, f2, c1, c2

TestOf(q1, q2) ==
    [spawns |-> TRUE, slow |-> FALSE, hangs |-> FALSE,
     queries |-> (c1 :> q1) @@ (c2 :> q2)]
Slow(test) == [test EXCEPT !.slow = TRUE]
Hanging(test) == [test EXCEPT !.hangs = TRUE]
Unspawned(test) == [test EXCEPT !.spawns = FALSE]

\* f1 has two queries on one connection, f2 one query on each of two connections; builds
\* differ in their verdicts and in whether the process of a file runs to its end.
OneConnTests ==
    {TestOf(<<"OK", "WRONG">>, << >>), TestOf(<<"WRONG", "NOLINE">>, << >>),
     Slow(TestOf(<<"WRONG", "FAIL">>, << >>)), Unspawned(TestOf(<<"WRONG", "OK">>, << >>))}
TwoConnTests ==
    {TestOf(<<"WRONG">>, <<"PROFILED">>), TestOf(<<"OK">>, <<"WRONG">>),
     Hanging(TestOf(<<"UNSUPPORTED">>, <<"FAIL">>))}
Builds == {p \in [Files -> OneConnTests \cup TwoConnTests] :
               p[f1] \in OneConnTests /\ p[f2] \in TwoConnTests}
Lists == {<<f1, f2>>, <<f1>>}

=============================================================================
