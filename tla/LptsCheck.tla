------------------------------ MODULE LptsCheck ------------------------------
(***************************************************************************)
(* The lpts_check mode (src/src/lpts_extension.cpp): while the session     *)
(* setting lpts_check is on, an optimizer hook replaces the plan of every  *)
(* top-level SELECT by one that runs the original query and its LPTS       *)
(* rewrite side by side, hashes the rows of both and judges whether the    *)
(* two bags of rows agree.  With the environment variable LPTS_CHECK_LOG   *)
(* (LogMode) the judgement is a line appended to a file shared by all      *)
(* connections; without it (STRICT) a disagreement is an error.            *)
(*                                                                         *)
(* A statement is a record of what the hook can find out about it.  A bag  *)
(* of rows is a function from Rows to its multiplicities, and the additive *)
(* 64-bit hash of a bag is the bag itself: collisions are abstracted away. *)
(***************************************************************************)
EXTENDS Integers, Sequences

CONSTANTS
    Conns,          \* the connections; each has its own state, all share the log
    Rows,           \* the distinct rows a result may hold
    MaxRows,        \* bound: the largest multiplicity of a row in a result
    Statements,     \* the statements clients submit
    NoStatement,    \* the value of stmt before a connection's first statement
    Settings,       \* the combinations of session settings in use
    LogMode,        \* LPTS_CHECK_LOG is set
    MaxStatements   \* bound: how many statements a connection submits

Sides == {"hash", "cmp"}      \* the original query and its rewrite
Bag == [Rows -> 0..MaxRows]
Zero == [r \in Rows |-> 0]

\* How the rewrite of a statement goes, and at which CheckRewriteStage it stops.
Rewrites ==
    {"ok",
     "aggregate_state", "replan_error",      \* ORIGINAL_REPLAN
     "refused", "translation_error",         \* LPTS_TRANSLATION
     "bind_error", "column_count", "constant_error",    \* REWRITTEN_REPLAN
     "replan_refused"}

Statement ==
    [kind : {"select", "execute", "explain", "other"},
     inspects : BOOLEAN,          \* its text names an LPTS or plan inspector
     nondet : BOOLEAN,            \* IsLikelyNondeterministicSQL of its text
     side_effects : BOOLEAN,      \* sequence function, side effect, runtime state
     multirow : BOOLEAN,          \* PlanHasMultiRowSingleJoin
     recursive : BOOLEAN,         \* either plan has a recursive CTE
     can_throw : BOOLEAN,         \* PlanCanThrowDuringExecution
     rewrite : Rewrites,
     throws : [Sides -> BOOLEAN], \* running that side raises an error
     rows : [Sides -> Bag]]       \* what that side returns

Setting ==
    [check : BOOLEAN,             \* lpts_check
     verify : BOOLEAN,            \* some statement verification is active
     profile : BOOLEAN,           \* enable_profiler
     dialect_ok : BOOLEAN,        \* lpts_dialect names a dialect
     native : BOOLEAN]            \* lpts_enable_data_dependent_optimizers

ASSUME StatementsAssumption ==
    /\ Statements \subseteq Statement
    /\ NoStatement \notin Statements
    /\ \A q \in Statements : q.throws["hash"] => q.can_throw
ASSUME SettingsAssumption == Settings \subseteq Setting /\ Settings # {}
ASSUME BoundsAssumption == MaxRows \in Nat /\ MaxStatements \in Nat
ASSUME LogModeAssumption == LogMode \in BOOLEAN

VARIABLES
    settings,       \* per connection: the session settings
    submitted,      \* per connection: how many statements it has submitted
    interrupted,    \* per connection: ClientContext::interrupted
    stmt,           \* per connection: its current or last statement
    in_rewrite,     \* LptsCheckModeState::in_rewrite
    log_qnum,       \* LptsCheckModeState::log_qnum
    run,            \* LptsCheckRunState
    phase,          \* per connection: where the statement's thread is
    todo,           \* per connection and side: rows not yet handed to a thread
    held,           \* per connection and side: rows threads hold but have not hashed in
    side,           \* per connection and side: "running", "last" (owes the verdict), "done"
    returned,       \* per connection: the bag of rows the client has received
    answer,         \* per connection: how the last statement ended
    log,            \* the LPTS_CHECK_LOG file, each line with (ghost) its statement
    taken,          \* ghost: the hook intercepted the current statement
    judged          \* ghost: ... and its verdict has been acted on

clientVars == <<settings, submitted, interrupted, stmt>>
execVars == <<todo, held, side>>
ghostVars == <<taken, judged>>
vars == <<clientVars, in_rewrite, log_qnum, run, phase, execVars, returned,
          answer, log, ghostVars>>

Rewriting == {"original_replan", "lpts_translation", "rewritten_replan"}
Running == {"unchecked", "union", "recursive", "cross_join"}
Phases == {"idle", "planned"} \cup Rewriting \cup Running
Answers == {"none", "rows", "mismatch", "refused", "error", "interrupted"}
Statuses == {"OK", "WRONG", "NONDETERMINISTIC", "UNSUPPORTED", "FAIL"}
Line == [conn : Conns, qnum : Nat, status : Statuses, stmt : Statements]
Run == [sum : [Sides -> [Rows -> Nat]], sides_remaining : 0..2,
        suppress : BOOLEAN, suppress_on_mismatch : BOOLEAN, qnum : Nat]

Plus(a, b) == [r \in Rows |-> a[r] + b[r]]
Minus(a, b) == [r \in Rows |-> a[r] - b[r]]
\* The chunks a thread may take from a bag: its non-empty sub-bags.
Chunks(bag) == {x \in Bag : x # Zero /\ \A r \in Rows : x[r] <= bag[r]}

FreshRun ==
    [sum |-> [s \in Sides |-> Zero], sides_remaining |-> 0,
     suppress |-> FALSE, suppress_on_mismatch |-> FALSE, qnum |-> 0]

Init ==
    /\ settings \in [Conns -> Settings]
    /\ submitted = [c \in Conns |-> 0]
    /\ interrupted = [c \in Conns |-> FALSE]
    /\ stmt = [c \in Conns |-> NoStatement]
    /\ in_rewrite = [c \in Conns |-> FALSE]
    /\ log_qnum = [c \in Conns |-> 0]
    /\ run = [c \in Conns |-> FreshRun]
    /\ phase = [c \in Conns |-> "idle"]
    /\ todo = [c \in Conns |-> [s \in Sides |-> Zero]]
    /\ held = [c \in Conns |-> [s \in Sides |-> Zero]]
    /\ side = [c \in Conns |-> [s \in Sides |-> "done"]]
    /\ returned = [c \in Conns |-> Zero]
    /\ answer = [c \in Conns |-> "none"]
    /\ log = << >>
    /\ taken = [c \in Conns |-> FALSE]
    /\ judged = [c \in Conns |-> FALSE]

------------------------------------------------------------------------------
(* Building blocks.                                                        *)

Goto(c, p) == phase' = [phase EXCEPT ![c] = p] /\ UNCHANGED answer
End(c, a) ==
    /\ phase' = [phase EXCEPT ![c] = "idle"]
    /\ answer' = [answer EXCEPT ![c] = a]

\* LptsCheckAppendLog: one line, in one append to the shared file.
AppendLog(c, qnum, status) ==
    log' = IF LogMode
           THEN Append(log, [conn |-> c, qnum |-> qnum, status |-> status,
                             stmt |-> stmt[c]])
           ELSE log

\* Mutant: the hook does not ask whether it is inside a rewrite.
Eligible_Reentrant(c) ==
    /\ settings[c].check /\ ~settings[c].verify
    /\ stmt[c].kind = "select" /\ ~stmt[c].inspects

\* The early returns of LptsCheckOptimize have all been passed.
Eligible(c) ==
    /\ ~in_rewrite[c]
    /\ settings[c].check
    /\ stmt[c].kind = "select"
    /\ ~settings[c].verify
    /\ ~stmt[c].inspects

NextQnum(c) == IF LogMode THEN log_qnum[c] + 1 ELSE 0

\* Mutants: ResetQuery keeps the sums; keeps the excuse; one side is not counted.
NewRun_StaleSums(c, excuse) ==
    [sum |-> run[c].sum, sides_remaining |-> 2, suppress |-> stmt[c].nondet,
     suppress_on_mismatch |-> excuse, qnum |-> NextQnum(c)]
NewRun_StaleExcuse(c, excuse) ==
    [sum |-> [s \in Sides |-> Zero], sides_remaining |-> 2, suppress |-> stmt[c].nondet,
     suppress_on_mismatch |-> excuse \/ run[c].suppress_on_mismatch,
     qnum |-> NextQnum(c)]
NewRun_OneSide(c, excuse) ==
    [sum |-> [s \in Sides |-> Zero], sides_remaining |-> 1, suppress |-> stmt[c].nondet,
     suppress_on_mismatch |-> excuse, qnum |-> NextQnum(c)]

\* ResetQuery followed by the assignments that set up the run record.
NewRun(c, excuse) ==
    [sum |-> [s \in Sides |-> Zero], sides_remaining |-> 2, suppress |-> stmt[c].nondet,
     suppress_on_mismatch |-> excuse, qnum |-> NextQnum(c)]

\* Mutant: the run record is not looked up per connection.
StartCheck_Shared(c, excuse) ==
    /\ log_qnum' = [log_qnum EXCEPT ![c] = IF LogMode THEN @ + 1 ELSE @]
    /\ run' = [d \in Conns |-> NewRun(c, excuse)]

\* A query number is drawn (LOG only) and the run record starts over.
StartCheck(c, excuse) ==
    /\ log_qnum' = [log_qnum EXCEPT ![c] = IF LogMode THEN @ + 1 ELSE @]
    /\ run' = [run EXCEPT ![c] = NewRun(c, excuse)]

\* The hook entered from a planner the rewrite itself runs: DuckDB's own optimizer
\* calls it when `native` holds, and in_rewrite is what makes it return.
NestedHook(c, native) ==
    IF native /\ Eligible(c) THEN StartCheck(c, FALSE) ELSE UNCHANGED <<log_qnum, run>>

------------------------------------------------------------------------------
(* The client.                                                             *)

\* SET of lpts_check (LptsCheckSetCallback), of verification, profiling, dialect, ...
SetOption(c, s) ==
    /\ phase[c] = "idle"
    /\ s # settings[c]
    /\ settings' = [settings EXCEPT ![c] = s]
    /\ UNCHANGED <<submitted, interrupted, stmt, in_rewrite, log_qnum, run, phase,
                   execVars, returned, answer, log, ghostVars>>

\* A statement arrives; DuckDB plans and optimizes it up to the extension hooks.
Submit(c, q) ==
    /\ phase[c] = "idle"
    /\ submitted[c] < MaxStatements
    /\ submitted' = [submitted EXCEPT ![c] = @ + 1]
    /\ interrupted' = [interrupted EXCEPT ![c] = FALSE]
    /\ stmt' = [stmt EXCEPT ![c] = q]
    /\ phase' = [phase EXCEPT ![c] = "planned"]
    /\ answer' = [answer EXCEPT ![c] = "none"]
    /\ returned' = [returned EXCEPT ![c] = Zero]
    /\ taken' = [taken EXCEPT ![c] = FALSE]
    /\ judged' = [judged EXCEPT ![c] = FALSE]
    /\ UNCHANGED <<settings, in_rewrite, log_qnum, run, execVars, log>>

\* Another thread interrupts the connection's statement.
Interrupt(c) ==
    /\ phase[c] # "idle"
    /\ ~interrupted[c]
    /\ interrupted' = [interrupted EXCEPT ![c] = TRUE]
    /\ UNCHANGED <<settings, submitted, stmt, in_rewrite, log_qnum, run, phase,
                   execVars, returned, answer, log, ghostVars>>

------------------------------------------------------------------------------
(* The hook, LptsCheckOptimize, up to the rewrite.                         *)

\* An early return: the plan is left alone.
PassThrough(c) ==
    /\ phase[c] = "planned"
    /\ ~Eligible(c)
    /\ Goto(c, "unchecked")
    /\ UNCHANGED <<clientVars, in_rewrite, log_qnum, run, execVars, returned, log,
                   ghostVars>>

\* Profiling is on: a line in LOG mode, an error in STRICT mode.
RefuseProfiled(c) ==
    /\ phase[c] = "planned"
    /\ Eligible(c)
    /\ settings[c].profile
    /\ AppendLog(c, NextQnum(c), "UNSUPPORTED")
    /\ log_qnum' = [log_qnum EXCEPT ![c] = IF LogMode THEN @ + 1 ELSE @]
    /\ IF LogMode THEN Goto(c, "unchecked") ELSE End(c, "refused")
    /\ taken' = [taken EXCEPT ![c] = TRUE]
    /\ judged' = [judged EXCEPT ![c] = TRUE]
    /\ UNCHANGED <<clientVars, in_rewrite, run, execVars, returned>>

Intercept(c, excuse) ==
    /\ phase[c] = "planned"
    /\ Eligible(c)
    /\ ~settings[c].profile
    /\ StartCheck(c, excuse)
    /\ taken' = [taken EXCEPT ![c] = TRUE]

\* ReadDialect throws, outside the hook's try block; ~RewriteGuard clears in_rewrite.
BadDialect(c) ==
    /\ Intercept(c, FALSE)
    /\ ~settings[c].dialect_ok
    /\ End(c, "refused")
    /\ UNCHANGED <<clientVars, in_rewrite, execVars, returned, log, judged>>

\* Running the query twice would change what it sees: run it once, unchecked.
Bypass(c) ==
    /\ Intercept(c, FALSE)
    /\ settings[c].dialect_ok
    /\ stmt[c].side_effects
    /\ AppendLog(c, NextQnum(c), "NONDETERMINISTIC")
    /\ judged' = [judged EXCEPT ![c] = TRUE]
    /\ Goto(c, "unchecked")
    /\ UNCHANGED <<clientVars, in_rewrite, execVars, returned>>

BeginRewrite(c) ==
    /\ Intercept(c, ~stmt[c].nondet /\ stmt[c].multirow)
    /\ settings[c].dialect_ok
    /\ ~stmt[c].side_effects
    /\ in_rewrite' = [in_rewrite EXCEPT ![c] = TRUE]
    /\ Goto(c, "original_replan")
    /\ UNCHANGED <<clientVars, execVars, returned, log, judged>>

------------------------------------------------------------------------------
(* The rewrite: the try block of LptsCheckOptimize and its catch.          *)

\* Mutant: the guard is not released when the scope is left by an exception.
ReleaseGuard_Leak(c) == UNCHANGED in_rewrite

\* ~RewriteGuard, on every way out of the hook.
ReleaseGuard(c) == in_rewrite' = [in_rewrite EXCEPT ![c] = FALSE]

\* The catch block: the error surfaces (STRICT), or it is logged and the query runs unchecked.
RewriteFails(c, status) ==
    /\ ReleaseGuard(c)
    /\ AppendLog(c, run[c].qnum, status)
    /\ judged' = [judged EXCEPT ![c] = TRUE]
    /\ IF LogMode THEN Goto(c, "unchecked") ELSE End(c, "refused")
    /\ UNCHANGED <<clientVars, log_qnum, run, execVars, returned, taken>>

OriginalReplanFails(c) ==
    /\ phase[c] = "original_replan"
    /\ interrupted[c] \/ stmt[c].rewrite \in {"aggregate_state", "replan_error"}
    /\ RewriteFails(c, "UNSUPPORTED")

OriginalReplanned(c) ==
    /\ phase[c] = "original_replan"
    /\ ~interrupted[c]
    /\ stmt[c].rewrite \notin {"aggregate_state", "replan_error"}
    /\ NestedHook(c, settings[c].native)
    /\ Goto(c, "lpts_translation")
    /\ UNCHANGED <<clientVars, in_rewrite, execVars, returned, log, ghostVars>>

\* IsIntentionalLptsRefusal tells a coded refusal from any other error.
TranslationFails(c) ==
    /\ phase[c] = "lpts_translation"
    /\ \/ stmt[c].rewrite = "refused" /\ RewriteFails(c, "UNSUPPORTED")
       \/ stmt[c].rewrite = "translation_error" /\ RewriteFails(c, "FAIL")

Translated(c) ==
    /\ phase[c] = "lpts_translation"
    /\ stmt[c].rewrite \notin {"refused", "translation_error"}
    /\ Goto(c, "rewritten_replan")
    /\ UNCHANGED <<clientVars, in_rewrite, log_qnum, run, execVars, returned, log,
                   ghostVars>>

\* The stage does not matter to IsIntentionalLptsRefusal: an error whose text has a refusal
\* code is one here too.  An execution error (from folding a constant) is put down to the
\* query if its original may raise one; an interrupt is not told from a bind error.
RewrittenReplanStatus(c) ==
    IF /\ ~interrupted[c]
       /\ \/ stmt[c].rewrite = "replan_refused"
          \/ stmt[c].rewrite = "constant_error" /\ stmt[c].can_throw
    THEN "UNSUPPORTED" ELSE "FAIL"

RewrittenReplanFails(c) ==
    /\ phase[c] = "rewritten_replan"
    /\ interrupted[c] \/ stmt[c].rewrite # "ok"
    /\ RewriteFails(c, RewrittenReplanStatus(c))

\* The plan that runs both queries is in place; a recursive one is planned from text,
\* by DuckDB's own optimizer.
CheckPlanned(c) ==
    /\ phase[c] = "rewritten_replan"
    /\ ~interrupted[c]
    /\ stmt[c].rewrite = "ok"
    /\ NestedHook(c, settings[c].native \/ stmt[c].recursive)
    /\ ReleaseGuard(c)
    /\ Goto(c, IF stmt[c].recursive THEN "recursive" ELSE "union")
    /\ todo' = [todo EXCEPT ![c] = stmt[c].rows]
    /\ held' = [held EXCEPT ![c] = [s \in Sides |-> Zero]]
    /\ side' = [side EXCEPT ![c] = [s \in Sides |-> "running"]]
    /\ UNCHANGED <<clientVars, returned, log, ghostVars>>

------------------------------------------------------------------------------
(* Execution of UNION ALL(hash(original), sink(rewritten)), by any number  *)
(* of threads.                                                             *)

\* A thread receives a chunk of a side's result and hashes it locally.
Claim(c, s) ==
    /\ phase[c] = "union"
    /\ \E chunk \in Chunks(todo[c][s]) :
          /\ todo' = [todo EXCEPT ![c][s] = Minus(@, chunk)]
          /\ held' = [held EXCEPT ![c][s] = Plus(@, chunk)]
    /\ UNCHANGED <<clientVars, in_rewrite, log_qnum, run, phase, side, returned,
                   answer, log, ghostVars>>

\* Mutant: the sink emits the rewritten rows too.
PassesRows_Both(s) == TRUE

\* PhysicalLptsCheck passes its rows on, PhysicalLptsCheckSink emits none.
PassesRows(s) == s = "hash"

\* It adds the partial hash to the side's sum; the hash side passes the chunk on.
Accumulate(c, s) ==
    /\ phase[c] = "union"
    /\ \E chunk \in Chunks(held[c][s]) :
          /\ held' = [held EXCEPT ![c][s] = Minus(@, chunk)]
          /\ run' = [run EXCEPT ![c].sum[s] = Plus(@, chunk)]
          /\ returned' = IF PassesRows(s)
                         THEN [returned EXCEPT ![c] = Plus(@, chunk)]
                         ELSE returned
    /\ UNCHANGED <<clientVars, in_rewrite, log_qnum, phase, todo, side, answer, log,
                   ghostVars>>

\* DuckDB finalizes a side once no task of it is left.
SideExhausted(c, s) == todo[c][s] = Zero /\ held[c][s] = Zero

\* Mutants: every side takes the verdict; the counter's new value is tested.
LastOut_Every(remaining) == remaining <= 2
LastOut_NewValue(remaining) == remaining - 1 = -1

\* What fetch_sub returns, the value before the decrement, tells the last side out.
LastOut(remaining) == remaining = 1

\* Mutant: a side that is done waits for the other one to compare with.
OnSideDone_Awaits(c, s) ==
    /\ phase[c] = "union" /\ side[c][s] = "running" /\ SideExhausted(c, s)
    /\ ~stmt[c].throws[s]
    /\ \A o \in Sides \ {s} : side[c][o] # "running"
    /\ side' = [side EXCEPT ![c][s] = "last"]
    /\ UNCHANGED <<clientVars, in_rewrite, log_qnum, run, phase, todo, held, returned,
                   answer, log, ghostVars>>

\* OnSideDone's fetch_sub: the last side out owes the verdict.
OnSideDone(c, s) ==
    /\ phase[c] = "union"
    /\ side[c][s] = "running"
    /\ SideExhausted(c, s)
    /\ ~stmt[c].throws[s]
    /\ run' = [run EXCEPT ![c].sides_remaining = @ - 1]
    /\ side' = [side EXCEPT ![c][s] =
                  IF LastOut(run[c].sides_remaining) THEN "last" ELSE "done"]
    /\ UNCHANGED <<clientVars, in_rewrite, log_qnum, phase, todo, held, returned,
                   answer, log, ghostVars>>

\* ActOnMatch: what a comparison means, given the run record's excuses.
Excused(c, equal) == ~equal /\ run[c].suppress_on_mismatch
MatchStatus(c, equal) ==
    IF run[c].suppress THEN "NONDETERMINISTIC"
    ELSE IF equal THEN "OK"
    ELSE IF Excused(c, equal) THEN "NONDETERMINISTIC"
    ELSE "WRONG"

\* The verdict is acted on; the statement goes on in phase `next` unless STRICT raises.
ActOnMatch(c, equal, next) ==
    /\ AppendLog(c, run[c].qnum, MatchStatus(c, equal))
    /\ judged' = [judged EXCEPT ![c] = TRUE]
    /\ IF ~LogMode /\ MatchStatus(c, equal) = "WRONG"
       THEN End(c, "mismatch")
       ELSE Goto(c, next)

ActOnVerdict(c, s) ==
    /\ phase[c] = "union"
    /\ side[c][s] = "last"
    /\ side' = [side EXCEPT ![c][s] = "done"]
    /\ ActOnMatch(c, run[c].sum["hash"] = run[c].sum["cmp"], "union")
    /\ UNCHANGED <<clientVars, in_rewrite, log_qnum, run, todo, held, returned, taken>>

FinishUnion(c) ==
    /\ phase[c] = "union"
    /\ \A s \in Sides : side[c][s] = "done"
    /\ End(c, "rows")
    /\ UNCHANGED <<clientVars, in_rewrite, log_qnum, run, execVars, returned, log,
                   ghostVars>>

\* A row of that side cannot be computed: the whole statement fails.
SideThrows(c, s) ==
    /\ phase[c] = "union"
    /\ side[c][s] = "running"
    /\ stmt[c].throws[s]
    /\ End(c, "error")
    /\ UNCHANGED <<clientVars, in_rewrite, log_qnum, run, execVars, returned, log,
                   ghostVars>>

------------------------------------------------------------------------------
(* Execution of the recursive check query and of an unchecked plan.        *)

\* EXCEPT ALL of two bags.
ExceptAll(a, b) == [r \in Rows |-> IF a[r] > b[r] THEN a[r] - b[r] ELSE 0]
NotExists(bag) == \A r \in Rows : bag[r] = 0

\* Both results are materialized and the verdict function is called on the comparison.
JudgeRecursive(c) ==
    /\ phase[c] = "recursive"
    /\ \A s \in Sides : ~stmt[c].throws[s]
    /\ LET o == stmt[c].rows["hash"]
           w == stmt[c].rows["cmp"]
       IN  ActOnMatch(c, NotExists(ExceptAll(o, w)) /\ NotExists(ExceptAll(w, o)),
                      "cross_join")
    /\ UNCHANGED <<clientVars, in_rewrite, log_qnum, run, execVars, returned, taken>>

RecursiveThrows(c) ==
    /\ phase[c] = "recursive"
    /\ \E s \in Sides : stmt[c].throws[s]
    /\ End(c, "error")
    /\ UNCHANGED <<clientVars, in_rewrite, log_qnum, run, execVars, returned, log,
                   ghostVars>>

\* The rows of the materialized original, or of the original plan itself.
ReturnRows(c) ==
    /\ \/ phase[c] = "cross_join"
       \/ phase[c] = "unchecked" /\ ~stmt[c].throws["hash"]
    /\ returned' = [returned EXCEPT ![c] = Plus(@, stmt[c].rows["hash"])]
    /\ End(c, "rows")
    /\ UNCHANGED <<clientVars, in_rewrite, log_qnum, run, execVars, log, ghostVars>>

OriginalThrows(c) ==
    /\ phase[c] = "unchecked"
    /\ stmt[c].throws["hash"]
    /\ End(c, "error")
    /\ UNCHANGED <<clientVars, in_rewrite, log_qnum, run, execVars, returned, log,
                   ghostVars>>

\* The executor notices the interrupt and cancels its tasks, wherever they are.
Cancelled(c) ==
    /\ phase[c] \in Running
    /\ interrupted[c]
    /\ End(c, "interrupted")
    /\ UNCHANGED <<clientVars, in_rewrite, log_qnum, run, execVars, returned, log,
                   ghostVars>>

------------------------------------------------------------------------------
Hook(c) == PassThrough(c) \/ RefuseProfiled(c) \/ BadDialect(c) \/ Bypass(c)
           \/ BeginRewrite(c)
Rewrite(c) == \/ OriginalReplanFails(c) \/ OriginalReplanned(c)
              \/ TranslationFails(c) \/ Translated(c)
              \/ RewrittenReplanFails(c) \/ CheckPlanned(c)
SideStep(c, s) == \/ Claim(c, s) \/ Accumulate(c, s) \/ OnSideDone(c, s)
                  \/ ActOnVerdict(c, s) \/ SideThrows(c, s)
Execute(c) == \/ \E s \in Sides : SideStep(c, s)
              \/ FinishUnion(c) \/ JudgeRecursive(c) \/ RecursiveThrows(c)
              \/ ReturnRows(c) \/ OriginalThrows(c) \/ Cancelled(c)
Client(c) == \/ \E s \in Settings : SetOption(c, s)
             \/ \E q \in Statements : Submit(c, q)
             \/ Interrupt(c)

Next == \E c \in Conns : Client(c) \/ Hook(c) \/ Rewrite(c) \/ Execute(c)

\* The thread that plans a statement and the executor's threads keep running; nothing
\* obliges a client to submit, to change a setting or to interrupt.
Fairness == \A c \in Conns : WF_vars(Hook(c) \/ Rewrite(c) \/ Execute(c))

Spec == Init /\ [][Next]_vars
FairSpec == Spec /\ Fairness

------------------------------------------------------------------------------
(* Properties.                                                             *)

\* Every variable has its type.  In particular sides_remaining, a signed int, counts down
\* from 2 and never passes 0, and no chunk is taken from a side that does not have it.
TypeOK ==
    /\ settings \in [Conns -> Settings]
    /\ submitted \in [Conns -> 0..MaxStatements]
    /\ interrupted \in [Conns -> BOOLEAN]
    /\ stmt \in [Conns -> Statements \cup {NoStatement}]
    /\ in_rewrite \in [Conns -> BOOLEAN]
    /\ log_qnum \in [Conns -> Nat]
    /\ run \in [Conns -> Run]
    /\ phase \in [Conns -> Phases]
    /\ todo \in [Conns -> [Sides -> [Rows -> Nat]]]
    /\ held \in [Conns -> [Sides -> [Rows -> Nat]]]
    /\ side \in [Conns -> [Sides -> {"running", "last", "done"}]]
    /\ returned \in [Conns -> [Rows -> Nat]]
    /\ answer \in [Conns -> Answers]
    /\ log \in Seq(Line)
    /\ taken \in [Conns -> BOOLEAN]
    /\ judged \in [Conns -> BOOLEAN]

\* The two results are the same bag of rows.
Agree(q) == q.rows["hash"] = q.rows["cmp"]

\* No row is lost or hashed twice, however chunks spread over the threads of either side:
\* each row of a result is still to come, in the hands of a thread, or in the side's sum.
RowsConserved ==
    \A c \in Conns : phase[c] = "union" =>
        \A s \in Sides, r \in Rows :
            todo[c][s][r] + held[c][s][r] + run[c].sum[s][r] = stmt[c].rows[s][r]

\* What the status of a line says of its statement q.
LineSound(status, q) ==
    /\ status = "OK" => Agree(q) /\ ~q.nondet
    /\ status = "WRONG" => ~Agree(q) /\ ~q.nondet /\ ~q.multirow
    /\ status = "NONDETERMINISTIC" =>
          q.nondet \/ q.side_effects \/ (q.multirow /\ ~Agree(q))

\* A line of the log tells the truth about the results of its statement: OK only if the
\* bags agree, WRONG only if they differ and nothing excuses it, and NONDETERMINISTIC only
\* with one of the three reasons the hook has.  (ActOnMatch, after the sums are read.)
LogLinesSound == \A i \in DOMAIN log : LineSound(log[i].status, log[i].stmt)

\* In STRICT mode "LPTS check failed" is raised only for results that really differ, and a
\* checked query that succeeds has agreed with its rewrite unless an excuse covers it.
StrictAnswersSound ==
    \A c \in Conns :
        LET q == stmt[c] IN
        /\ answer[c] = "mismatch" => ~Agree(q) /\ ~q.nondet /\ ~q.multirow
        /\ ~LogMode /\ answer[c] = "rows" /\ taken[c] /\ ~q.side_effects =>
              Agree(q) \/ q.nondet \/ q.multirow

\* The lines of one connection carry strictly increasing query numbers: no SELECT is
\* judged twice, not by both sides, not by a nested planner, not by a late thread.
OneLinePerNumber ==
    \A i, j \in DOMAIN log :
        i < j /\ log[i].conn = log[j].conn => log[i].qnum < log[j].qnum

\* A statement that succeeds has returned the rows of the original query, each as often as
\* the original has it, whether it was checked by the UNION, by the recursive query or not
\* at all ("the query returns its normal rows unchanged").
RowsUnchanged ==
    \A c \in Conns : answer[c] = "rows" => returned[c] = stmt[c].rows["hash"]

\* What README.md says of LOG mode, where the code does something else.
\* README.md:169, "LPTS never raises": a statement fails only by an error of its own query.
LogNeverRaises ==
    \A c \in Conns :
        LogMode /\ answer[c] \in {"error", "refused"} => stmt[c].throws["hash"]

\* What makes a statement checked, said without in_rewrite: if a guard leaked out of an
\* earlier rewrite that failed, the next SELECT of the connection would pass unchecked.  Two
\* kinds of SELECT are exempt, as README.md:164 has it: those that name an inspector, and
\* those under statement verification, in LOG mode too.  docs/test.md:75 says otherwise, that
\* LOG mode neutralizes PRAGMA enable_verification "so those files are still checked"; the
\* hook returns early and never resets it.
WantsCheck(c) ==
    /\ settings[c].check /\ ~settings[c].verify
    /\ stmt[c].kind = "select" /\ ~stmt[c].inspects
NoSelectSlipsThrough ==
    [][\A c \in Conns :
          phase[c] = "planned" /\ phase'[c] # "planned" /\ WantsCheck(c) => taken'[c]]_vars

\* A statement that is running ends, whichever sides finish in whichever order, raise, or
\* are interrupted.
StatementsEnd == \A c \in Conns : phase[c] # "idle" ~> phase[c] = "idle"

\* The checker implements CheckContract: judging, spread over hooks, threads and counters,
\* looks like one step that compares the two complete bags.
StandingOf(c) ==
    IF phase[c] = "idle" THEN "idle"
    ELSE IF judged[c] THEN "judged"
    ELSE IF taken[c] THEN "taken"
    ELSE "open"
OutcomeOf(c) ==
    IF answer[c] \in {"none", "rows"} THEN answer[c] ELSE "failed"
Contract ==
    INSTANCE CheckContract WITH
        current <- stmt,
        standing <- [c \in Conns |-> StandingOf(c)],
        outcome <- [c \in Conns |-> OutcomeOf(c)],
        number <- log_qnum,
        ledger <- log
ContractSpec == Contract!Spec

=============================================================================
