----------------------------- MODULE MCLptsCheck -----------------------------
(* Statements and settings for model-checking LptsCheck.                   *)
EXTENDS LptsCheck, TLC

CONSTANTS r1, r2    \* two rows

BagOf(n1, n2) == (r1 :> n1) @@ (r2 :> n2)
Both(bag) == [s \in Sides |-> bag]

Same ==
    [kind |-> "select", inspects |-> FALSE, nondet |-> FALSE, side_effects |-> FALSE,
     multirow |-> FALSE, recursive |-> FALSE, can_throw |-> FALSE, rewrite |-> "ok",
     throws |-> Both(FALSE), rows |-> Both(BagOf(1, 1))]
\* The rewrite loses a duplicate: the sets of rows agree, the bags do not.
LostDuplicate == [Same EXCEPT !.rows = [s \in Sides |->
                                  IF s = "hash" THEN BagOf(2, 0) ELSE BagOf(1, 0)]]
\* The rewrite returns as many rows as the original, but other ones.
OtherRows == [Same EXCEPT !.rows["cmp"] = BagOf(2, 0)]
Random == [OtherRows EXCEPT !.nondet = TRUE]
ArbitraryRow == [LostDuplicate EXCEPT !.multirow = TRUE]
Recursive == [Same EXCEPT !.recursive = TRUE]
RecursiveLost == [LostDuplicate EXCEPT !.recursive = TRUE]
NextVal == [OtherRows EXCEPT !.side_effects = TRUE]
RewriteThrows == [Same EXCEPT !.throws["cmp"] = TRUE]
BothThrow == [Same EXCEPT !.throws = Both(TRUE), !.can_throw = TRUE]
FailsAt(outcome) == [Same EXCEPT !.rewrite = outcome]
FoldedError == [BothThrow EXCEPT !.rewrite = "constant_error"]

Judged == {Same, LostDuplicate, OtherRows, Random, ArbitraryRow, Recursive,
           RecursiveLost, NextVal}
Raising == {RewriteThrows, BothThrow, FoldedError, [RewriteThrows EXCEPT !.recursive = TRUE]}
NotRewritten == {FailsAt(o) : o \in Rewrites \ {"ok"}}
NotChecked == {[Same EXCEPT !.kind = k] : k \in {"execute", "explain", "other"}}
              \cup {[Same EXCEPT !.inspects = TRUE]}
\* Few statements with small results, for two connections at a time.
OneRow == [Same EXCEPT !.rows = Both(BagOf(1, 0))]
LostRow == [OneRow EXCEPT !.rows["cmp"] = Zero]
FewStatements == {OneRow, LostRow, [LostRow EXCEPT !.nondet = TRUE],
                  [OneRow EXCEPT !.rewrite = "refused"],
                  [LostRow EXCEPT !.recursive = TRUE]}

AllStatements == Judged \cup Raising \cup NotRewritten \cup NotChecked
WithFewStatements == AllStatements \cup FewStatements

On == [check |-> TRUE, verify |-> FALSE, profile |-> FALSE, dialect_ok |-> TRUE,
       native |-> FALSE]
AllSettings == {On, [On EXCEPT !.check = FALSE], [On EXCEPT !.verify = TRUE],
                [On EXCEPT !.profile = TRUE], [On EXCEPT !.dialect_ok = FALSE],
                [On EXCEPT !.native = TRUE]}

\* Bounds for two connections: they submit one statement each, of the few, with the setting on;
\* of other statements the first connection submits up to MaxStatements, and the second none.
First == CHOOSE c \in Conns : TRUE
Few == \A c \in Conns : submitted[c] <= 1 /\ settings[c] = On /\ stmt[c] \in FewStatements \cup {NoStatement}
TwoAtATime ==
    Few \/ (stmt[First] \notin FewStatements /\ \A d \in Conns \ {First} : submitted[d] = 0 /\ settings[d] = On)
MayAct(c) ==
    (c # First \/ stmt[First] \in FewStatements) => 
        Few /\ (submitted[c] = 0 \/ phase[c] # "idle" \/ \A d \in Conns : submitted[d] = 1 /\ phase[d] = "idle")
MCNext == \E c \in Conns : (MayAct(c) /\ Client(c)) \/ Hook(c) \/ Rewrite(c) \/ Execute(c)
MCSpec == Init /\ [][MCNext]_vars

=============================================================================
