---------------------------- MODULE CheckContract ----------------------------
(***************************************************************************)
(* What lpts_check promises to someone who sees neither hashes nor threads *)
(* nor planning: a statement of a connection is submitted; the checker may *)
(* intercept it, giving it the connection's next number; an intercepted    *)
(* statement is judged at most once, by a single step that looks at the    *)
(* two complete bags of rows; and only then may it succeed.  The ledger    *)
(* (the log file) gains exactly one line when a statement is judged in LOG *)
(* mode and is otherwise left alone.                                       *)
(***************************************************************************)
EXTENDS Integers, Sequences

CONSTANTS Conns, Statements, NoStatement, LogMode

VARIABLES
    current,    \* per connection: its current or last statement
    standing,   \* per connection: "idle", "open", "taken" or "judged"
    outcome,    \* per connection: "none" (running), "rows" or "failed"
    number,     \* per connection: how many numbers have been drawn
    ledger      \* the lines: connection, number, status and (ghost) statement

vars == <<current, standing, outcome, number, ledger>>

Agree(q) == q.rows["hash"] = q.rows["cmp"]

\* What comparing the results of q may yield.
Verdicts(q) ==
    IF q.nondet THEN {"NONDETERMINISTIC"}
    ELSE IF Agree(q) THEN {"OK"}
    ELSE IF q.multirow THEN {"NONDETERMINISTIC"}
    ELSE {"WRONG"}

\* What may be said of q without comparing.
Dodges(q) == {"UNSUPPORTED", "FAIL"} \cup
             (IF q.side_effects THEN {"NONDETERMINISTIC"} ELSE {})

Init ==
    /\ current = [c \in Conns |-> NoStatement]
    /\ standing = [c \in Conns |-> "idle"]
    /\ outcome = [c \in Conns |-> "none"]
    /\ number = [c \in Conns |-> 0]
    /\ ledger = << >>

DrawNumber(c) == number' = [number EXCEPT ![c] = IF LogMode THEN @ + 1 ELSE @]
Record(c, status) ==
    ledger' = IF LogMode
              THEN Append(ledger, [conn |-> c, qnum |-> number'[c], status |-> status,
                                   stmt |-> current[c]])
              ELSE ledger
Close(c, o) ==
    /\ standing' = [standing EXCEPT ![c] = "idle"]
    /\ outcome' = [outcome EXCEPT ![c] = o]

Submit(c, q) ==
    /\ standing[c] = "idle"
    /\ current' = [current EXCEPT ![c] = q]
    /\ standing' = [standing EXCEPT ![c] = "open"]
    /\ outcome' = [outcome EXCEPT ![c] = "none"]
    /\ UNCHANGED <<number, ledger>>

Intercept(c) ==
    /\ standing[c] = "open"
    /\ DrawNumber(c)
    /\ standing' = [standing EXCEPT ![c] = "taken"]
    /\ UNCHANGED <<current, outcome, ledger>>

\* Intercepted and let go in the same step: the query then runs unchecked, or fails.
Decline(c) ==
    /\ standing[c] = "open"
    /\ DrawNumber(c)
    /\ \/ \E status \in Dodges(current[c]) : Record(c, status)
             /\ standing' = [standing EXCEPT ![c] = "judged"] /\ UNCHANGED outcome
       \/ UNCHANGED ledger /\ Close(c, "failed")
    /\ UNCHANGED current

\* A WRONG verdict is an error in STRICT mode; so is a statement that is not rewritten.
Judge(c) ==
    /\ standing[c] = "taken"
    /\ UNCHANGED <<current, number>>
    /\ \E status \in Verdicts(current[c]) \cup Dodges(current[c]) :
          /\ Record(c, status)
          /\ IF ~LogMode /\ status \in {"WRONG", "UNSUPPORTED", "FAIL"}
             THEN Close(c, "failed")
             ELSE standing' = [standing EXCEPT ![c] = "judged"] /\ UNCHANGED outcome

\* Rows are the answer of a statement that was let pass or has been judged.
Succeed(c) ==
    /\ standing[c] \in {"open", "judged"}
    /\ Close(c, "rows")
    /\ UNCHANGED <<current, number, ledger>>

\* The statement itself raises, or is interrupted.
Abort(c) ==
    /\ standing[c] # "idle"
    /\ Close(c, "failed")
    /\ UNCHANGED <<current, number, ledger>>

Next == \E c \in Conns : \/ \E q \in Statements : Submit(c, q)
                         \/ Intercept(c) \/ Decline(c) \/ Judge(c)
                         \/ Succeed(c) \/ Abort(c)

Spec == Init /\ [][Next]_vars

=============================================================================
