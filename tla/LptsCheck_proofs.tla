--------------------------- MODULE LptsCheck_proofs --------------------------
(***************************************************************************)
(* Proofs about LptsCheck, for any connections, rows, statements, settings *)
(* and bounds.                                                             *)
(*                                                                         *)
(* The executor: the variables keep their types, no row is lost on its way *)
(* into a sum, and every line of the log is true of its statement.         *)
(*                                                                         *)
(* The clients: the answers they get, the rows they receive, the numbers of*)
(* the lines they find in the log, that no SELECT slips through the hook,  *)
(* and that the checker implements CheckContract.  IInv is the invariant   *)
(* they rest on, joined by what follows.                                   *)
(***************************************************************************)
EXTENDS LptsCheck, TLAPS

\* A statement that is running is one of Statements.
StmtKnown == \A c \in Conns : phase[c] # "idle" => stmt[c] \in Statements

\* in_rewrite is set exactly while the hook is between its guard and the guard's release.
GuardScoped == \A c \in Conns : in_rewrite[c] <=> phase[c] \in Rewriting

\* From interception to verdict the run record describes the current statement, and its
\* counters are untouched until execution starts.
ExcusesCurrent(c) ==
    /\ run[c].suppress = stmt[c].nondet
    /\ run[c].suppress_on_mismatch = (~stmt[c].nondet /\ stmt[c].multirow)
Untouched(c) ==
    /\ run[c].sides_remaining = 2
    /\ run[c].sum = [s \in Sides |-> Zero]
RunCurrent ==
    \A c \in Conns :
        /\ phase[c] \in Rewriting \cup {"union", "recursive"} => ExcusesCurrent(c)
        /\ phase[c] \in Rewriting => Untouched(c)

\* sides_remaining counts the sides that still run; a side that is out has hashed all its
\* rows, and the one that owes the verdict was the last to go out.
Count(c, s) == IF side[c][s] = "running" THEN 1 ELSE 0
SidesCounted(c) ==
    /\ run[c].sides_remaining = Count(c, "hash") + Count(c, "cmp")
    /\ \A s \in Sides : side[c][s] # "running" => SideExhausted(c, s)
    /\ \A s, o \in Sides : side[c][s] = "last" => side[c][o] # "running"
CountsSides == \A c \in Conns : phase[c] = "union" => SidesCounted(c)

IInv == /\ TypeOK /\ StmtKnown /\ GuardScoped /\ RunCurrent /\ CountsSides
        /\ RowsConserved /\ LogLinesSound

------------------------------------------------------------------------------
(* Facts about the building blocks.                                        *)

LEMMA LogTyped ==
    ASSUME TypeOK, StmtKnown, NEW c \in Conns, phase[c] # "idle",
           NEW n \in Nat, NEW st \in Statuses, AppendLog(c, n, st)
    PROVE  log' \in Seq(Line)
<1>1. [conn |-> c, qnum |-> n, status |-> st, stmt |-> stmt[c]] \in Line
  BY DEF StmtKnown, Line
<1>2. log \in Seq(Line)
  BY DEF TypeOK
<1>. QED  BY <1>1, <1>2 DEF AppendLog

LEMMA LogSound ==
    ASSUME TypeOK, LogLinesSound, NEW c \in Conns, NEW n, NEW st, AppendLog(c, n, st),
           LogMode => LineSound(st, stmt[c])
    PROVE  LogLinesSound'
<1>1. CASE ~LogMode
  BY <1>1 DEF AppendLog, LogLinesSound, LineSound, Agree
<1>2. CASE LogMode
  <2>1. log' = Append(log, [conn |-> c, qnum |-> n, status |-> st, stmt |-> stmt[c]])
    BY <1>2 DEF AppendLog
  <2>2. /\ DOMAIN log = 1..Len(log) /\ Len(log) \in Nat
        /\ DOMAIN log' = 1..(Len(log) + 1)
        /\ \A i \in 1..Len(log) : log'[i] = log[i]
        /\ log'[Len(log) + 1] = [conn |-> c, qnum |-> n, status |-> st, stmt |-> stmt[c]]
    BY <2>1 DEF TypeOK
  <2>. QED  BY <1>2, <2>2 DEF LogLinesSound, LineSound, Agree
<1>. QED  BY <1>1, <1>2

LEMMA ChunkFacts ==
    ASSUME NEW bag \in [Rows -> Nat], NEW other \in [Rows -> Nat], NEW chunk \in Chunks(bag)
    PROVE  /\ Minus(bag, chunk) \in [Rows -> Nat]
           /\ Plus(other, chunk) \in [Rows -> Nat]
           /\ \A r \in Rows : Minus(bag, chunk)[r] + Plus(other, chunk)[r] = bag[r] + other[r]
<1>. \A r \in Rows : chunk[r] \in Nat /\ chunk[r] <= bag[r]
  BY BoundsAssumption DEF Chunks, Bag
<1>. QED  BY DEF Plus, Minus

LEMMA ZeroTyped == Zero \in [Rows -> Nat] /\ \A r \in Rows : Zero[r] = 0
BY DEF Zero

\* The rows of a known statement.
LEMMA StmtRows ==
    ASSUME NEW q \in Statements
    PROVE  /\ q.rows \in [Sides -> [Rows -> Nat]]
           /\ q.nondet \in BOOLEAN /\ q.multirow \in BOOLEAN /\ q.side_effects \in BOOLEAN
BY StatementsAssumption, BoundsAssumption DEF Statement, Bag

LEMMA NewRunFacts ==
    ASSUME TypeOK, NEW c \in Conns, NEW excuse \in BOOLEAN, stmt[c] \in Statements
    PROVE  /\ NewRun(c, excuse) \in Run
           /\ NewRun(c, excuse).suppress = stmt[c].nondet
           /\ NewRun(c, excuse).suppress_on_mismatch = excuse
           /\ NewRun(c, excuse).sides_remaining = 2
           /\ NewRun(c, excuse).sum = [s \in Sides |-> Zero]
<1>1. NextQnum(c) \in Nat
  BY DEF NextQnum, TypeOK
<1>2. [s \in Sides |-> Zero] \in [Sides -> [Rows -> Nat]]
  BY ZeroTyped
<1>. QED  BY <1>1, <1>2, StmtRows DEF NewRun, Run

------------------------------------------------------------------------------
(* Steps that only move a statement on.                                    *)

Moves(c) ==
    /\ phase[c] # "idle"
    /\ phase' = [phase EXCEPT ![c] = phase'[c]]
    /\ phase'[c] \in Phases
    /\ phase'[c] \notin {"union", "recursive"}
    /\ phase'[c] \in Rewriting <=> phase[c] \in Rewriting
    /\ answer' \in [Conns -> Answers]
    /\ returned' \in [Conns -> [Rows -> Nat]]
    /\ UNCHANGED <<clientVars, in_rewrite, log_qnum, run, execVars, log, ghostVars>>

LEMMA MovingActions ==
    ASSUME TypeOK, StmtKnown, GuardScoped, NEW c \in Conns,
           \/ PassThrough(c) \/ OriginalReplanned(c) \/ Translated(c)
           \/ FinishUnion(c) \/ RecursiveThrows(c) \/ ReturnRows(c)
           \/ OriginalThrows(c) \/ Cancelled(c)
           \/ \E s \in Sides : SideThrows(c, s)
    PROVE  Moves(c)
<1>1. ASSUME PassThrough(c) PROVE Moves(c)
  BY <1>1 DEF PassThrough, Goto, Moves, TypeOK, Phases, Running, Rewriting
<1>2. ASSUME OriginalReplanned(c) PROVE Moves(c)
  BY <1>2 DEF OriginalReplanned, NestedHook, Eligible, GuardScoped, Goto, Moves, TypeOK,
     Phases, Running, Rewriting
<1>3. ASSUME Translated(c) PROVE Moves(c)
  BY <1>3 DEF Translated, Goto, Moves, TypeOK, Phases, Running, Rewriting
<1>4. ASSUME End(c, "rows") \/ End(c, "error") \/ End(c, "interrupted"),
             phase[c] \in Running, returned' \in [Conns -> [Rows -> Nat]],
             UNCHANGED <<clientVars, in_rewrite, log_qnum, run, execVars, log, ghostVars>>
      PROVE  Moves(c)
  BY <1>4 DEF End, Moves, TypeOK, Phases, Answers, Running, Rewriting
<1>5. ASSUME ReturnRows(c) PROVE Moves(c)
  <2>1. stmt[c] \in Statements
    BY <1>5 DEF ReturnRows, StmtKnown
  <2>2. stmt[c].rows["hash"] \in [Rows -> Nat]
    BY <2>1, StmtRows DEF Sides
  <2>3. returned' \in [Conns -> [Rows -> Nat]]
    BY <1>5, <2>2 DEF ReturnRows, TypeOK, Plus
  <2>. QED  BY <1>4, <1>5, <2>3 DEF ReturnRows, Running
<1>6. ASSUME FinishUnion(c) \/ RecursiveThrows(c) \/ OriginalThrows(c) \/ Cancelled(c)
             \/ \E s \in Sides : SideThrows(c, s)
      PROVE  Moves(c)
  BY <1>4, <1>6 DEF FinishUnion, RecursiveThrows, OriginalThrows, Cancelled, SideThrows,
     TypeOK, Running
<1>. QED  BY <1>1, <1>2, <1>3, <1>5, <1>6, Zenon

LEMMA MovesKeeps ==
    ASSUME IInv, NEW c \in Conns, Moves(c)
    PROVE  IInv'
<1>. USE DEF IInv, Moves, clientVars, execVars, ghostVars
<1>1. TypeOK'
  BY DEF TypeOK
<1>2. StmtKnown'
  BY DEF TypeOK, StmtKnown
<1>3. GuardScoped'
  BY DEF TypeOK, GuardScoped
<1>4. RunCurrent'
  BY DEF TypeOK, RunCurrent, ExcusesCurrent, Untouched, Rewriting
<1>5. CountsSides'
  BY DEF TypeOK, CountsSides, SidesCounted, Count, SideExhausted
<1>6. RowsConserved'
  <2>1. \A d \in Conns : phase'[d] = "union" => phase[d] = "union"
    BY DEF TypeOK
  <2>. QED  BY <2>1 DEF RowsConserved
<1>7. LogLinesSound'
  BY DEF LogLinesSound, LineSound, Agree
<1>. QED  BY <1>1, <1>2, <1>3, <1>4, <1>5, <1>6, <1>7

------------------------------------------------------------------------------
(* The client's steps and the hook's.                                      *)

LEMMA ClientKeeps ==
    ASSUME IInv, NEW c \in Conns, Client(c)
    PROVE  IInv'
<1>. USE DEF IInv, clientVars, execVars, ghostVars
<1>1. ASSUME NEW w \in Settings, SetOption(c, w) PROVE IInv'
  <2>. USE <1>1 DEF SetOption
  <2>1. TypeOK'
    BY DEF TypeOK
  <2>2. StmtKnown' /\ GuardScoped' /\ RunCurrent' /\ CountsSides'
    BY DEF StmtKnown, GuardScoped, RunCurrent, ExcusesCurrent, Untouched, CountsSides,
       SidesCounted, Count, SideExhausted
  <2>3. RowsConserved' /\ LogLinesSound'
    BY DEF RowsConserved, LogLinesSound, LineSound, Agree
  <2>. QED  BY <2>1, <2>2, <2>3
<1>2. ASSUME NEW q \in Statements, Submit(c, q) PROVE IInv'
  <2>. USE <1>2 DEF Submit
  <2>1. TypeOK'
    BY ZeroTyped, BoundsAssumption DEF TypeOK, Phases, Answers
  <2>2. StmtKnown' /\ GuardScoped'
    BY DEF TypeOK, StmtKnown, GuardScoped, Rewriting
  <2>3. RunCurrent'
    BY DEF TypeOK, RunCurrent, ExcusesCurrent, Untouched, Rewriting
  <2>4. CountsSides'
    BY DEF TypeOK, CountsSides, SidesCounted, Count, SideExhausted
  <2>5. RowsConserved'
    BY DEF TypeOK, RowsConserved
  <2>6. LogLinesSound'
    BY DEF LogLinesSound, LineSound, Agree
  <2>. QED  BY <2>1, <2>2, <2>3, <2>4, <2>5, <2>6
<1>3. ASSUME Interrupt(c) PROVE IInv'
  <2>. USE <1>3 DEF Interrupt
  <2>1. TypeOK'
    BY DEF TypeOK
  <2>2. StmtKnown' /\ GuardScoped' /\ RunCurrent' /\ CountsSides'
    BY DEF StmtKnown, GuardScoped, RunCurrent, ExcusesCurrent, Untouched, CountsSides,
       SidesCounted, Count, SideExhausted
  <2>3. RowsConserved' /\ LogLinesSound'
    BY DEF RowsConserved, LogLinesSound, LineSound, Agree
  <2>. QED  BY <2>1, <2>2, <2>3
<1>. QED  BY <1>1, <1>2, <1>3 DEF Client

\* A step that leaves the execution of the sides alone, ends outside of it and has
\* brought the log, the run record and the guard in order.
LEMMA PlanningStep ==
    ASSUME IInv, NEW c \in Conns, phase[c] \in {"planned"} \cup Rewriting,
           NEW p \in Phases \ {"union", "recursive"}, phase' = [phase EXCEPT ![c] = p],
           p \in Rewriting => ExcusesCurrent(c)' /\ Untouched(c)',
           NEW g \in BOOLEAN, in_rewrite' = [in_rewrite EXCEPT ![c] = g],
           g <=> p \in Rewriting,
           NEW rec \in Run, run' = [run EXCEPT ![c] = rec],
           log_qnum' \in [Conns -> Nat], answer' \in [Conns -> Answers],
           taken' \in [Conns -> BOOLEAN], judged' \in [Conns -> BOOLEAN],
           log' \in Seq(Line), LogLinesSound',
           UNCHANGED <<clientVars, execVars, returned>>
    PROVE  IInv'
<1>. USE DEF IInv, clientVars, execVars
<1>1. TypeOK'
  BY DEF TypeOK
<1>2. StmtKnown' /\ GuardScoped'
  BY DEF TypeOK, StmtKnown, GuardScoped, Rewriting
<1>3. RunCurrent'
  BY DEF TypeOK, RunCurrent, ExcusesCurrent, Untouched
<1>4. CountsSides'
  BY DEF TypeOK, CountsSides, SidesCounted, Count, SideExhausted
<1>5. RowsConserved'
  BY DEF TypeOK, RowsConserved
<1>. QED  BY <1>1, <1>2, <1>3, <1>4, <1>5

LEMMA PhaseFacts ==
    /\ \A p \in {"idle", "unchecked"} : p \in Phases \ {"union", "recursive"} /\ p \notin Rewriting
    /\ "original_replan" \in Phases \ {"union", "recursive"} /\ "original_replan" \in Rewriting
BY DEF Phases, Running, Rewriting

LEMMA GuardClear ==
    ASSUME NEW f \in [Conns -> BOOLEAN], NEW c \in Conns, ~f[c]
    PROVE  f = [f EXCEPT ![c] = FALSE]
OBVIOUS

LEMMA HookKeeps ==
    ASSUME IInv, NEW c \in Conns, Hook(c)
    PROVE  IInv'
<1>1. CASE PassThrough(c)
  BY <1>1, MovingActions, MovesKeeps DEF IInv
<1>2. CASE RefuseProfiled(c)
  <2>. USE <1>2 DEF RefuseProfiled, IInv
  <2>1. /\ NextQnum(c) \in Nat /\ "UNSUPPORTED" \in Statuses
        /\ LineSound("UNSUPPORTED", stmt[c])
    BY DEF NextQnum, TypeOK, Statuses, LineSound
  <2>2. log' \in Seq(Line) /\ LogLinesSound'
    BY <2>1, LogTyped, LogSound
  <2>3. PICK p \in {"unchecked", "idle"} : phase' = [phase EXCEPT ![c] = p]
    BY DEF Goto, End
  <2>4. answer' \in [Conns -> Answers] /\ log_qnum' \in [Conns -> Nat]
    <3>1. CASE LogMode
      BY <3>1 DEF Goto, TypeOK
    <3>2. CASE ~LogMode
      BY <3>2 DEF End, TypeOK, Answers
    <3>. QED  BY <3>1, <3>2
  <2>5. in_rewrite' = [in_rewrite EXCEPT ![c] = FALSE] /\ run' = [run EXCEPT ![c] = run[c]]
        /\ run[c] \in Run
    BY DEF TypeOK, GuardScoped, Rewriting
  <2>6. p \in Phases \ {"union", "recursive"} /\ p \notin Rewriting
    BY PhaseFacts
  <2>7. taken' \in [Conns -> BOOLEAN] /\ judged' \in [Conns -> BOOLEAN]
        /\ UNCHANGED <<clientVars, execVars, returned>>
    BY DEF TypeOK
  <2>. QED  BY <2>2, <2>3, <2>4, <2>5, <2>6, <2>7, PlanningStep
<1>3. ASSUME NEW excuse \in BOOLEAN, Intercept(c, excuse)
      PROVE  /\ stmt[c] \in Statements /\ ~in_rewrite[c]
             /\ NewRun(c, excuse) \in Run
             /\ run' = [run EXCEPT ![c] = NewRun(c, excuse)]
             /\ log_qnum' \in [Conns -> Nat]
             /\ taken' \in [Conns -> BOOLEAN]
  <2>1. stmt[c] \in Statements
    BY <1>3 DEF Intercept, IInv, StmtKnown
  <2>. QED  BY <1>3, <2>1, NewRunFacts DEF Intercept, StartCheck, Eligible, IInv, TypeOK
<1>4. CASE BadDialect(c)
  <2>. USE <1>4 DEF BadDialect
  <2>1. phase' = [phase EXCEPT ![c] = "idle"] /\ answer' \in [Conns -> Answers]
    BY DEF End, IInv, TypeOK, Answers
  <2>2. in_rewrite' = [in_rewrite EXCEPT ![c] = FALSE]
    <3>1. ~in_rewrite[c]
      BY <1>3
    <3>2. in_rewrite \in [Conns -> BOOLEAN]
      BY DEF IInv, TypeOK
    <3>. QED  BY <3>1, <3>2, GuardClear
  <2>3. log' \in Seq(Line) /\ LogLinesSound' /\ judged' \in [Conns -> BOOLEAN]
    BY DEF IInv, TypeOK, LogLinesSound, LineSound, Agree
  <2>4. phase[c] \in {"planned"} \cup Rewriting /\ UNCHANGED <<clientVars, execVars, returned>>
    BY DEF Intercept
  <2>. QED  BY <1>3, <2>1, <2>2, <2>3, <2>4, PlanningStep, PhaseFacts
<1>5. CASE Bypass(c)
  <2>. USE <1>5 DEF Bypass
  <2>1. phase' = [phase EXCEPT ![c] = "unchecked"] /\ answer' \in [Conns -> Answers]
    BY DEF Goto, IInv, TypeOK
  <2>2. in_rewrite' = [in_rewrite EXCEPT ![c] = FALSE]
    <3>1. ~in_rewrite[c]
      BY <1>3
    <3>2. in_rewrite \in [Conns -> BOOLEAN]
      BY DEF IInv, TypeOK
    <3>. QED  BY <3>1, <3>2, GuardClear
  <2>3. /\ NextQnum(c) \in Nat /\ "NONDETERMINISTIC" \in Statuses
        /\ LineSound("NONDETERMINISTIC", stmt[c])
    BY DEF NextQnum, IInv, TypeOK, Statuses, LineSound
  <2>4. log' \in Seq(Line) /\ LogLinesSound' /\ judged' \in [Conns -> BOOLEAN]
    BY <2>3, LogTyped, LogSound DEF IInv, TypeOK, Intercept
  <2>5. phase[c] \in {"planned"} \cup Rewriting /\ UNCHANGED <<clientVars, execVars, returned>>
    BY DEF Intercept
  <2>. QED  BY <1>3, <2>1, <2>2, <2>4, <2>5, PlanningStep, PhaseFacts
<1>6. CASE BeginRewrite(c)
  <2>. USE <1>6 DEF BeginRewrite
  <2>. DEFINE excuse == ~stmt[c].nondet /\ stmt[c].multirow
  <2>1. phase' = [phase EXCEPT ![c] = "original_replan"] /\ answer' \in [Conns -> Answers]
    BY DEF Goto, IInv, TypeOK
  <2>2. in_rewrite' = [in_rewrite EXCEPT ![c] = TRUE]
    OBVIOUS
  <2>3. log' \in Seq(Line) /\ LogLinesSound' /\ judged' \in [Conns -> BOOLEAN]
    BY DEF IInv, TypeOK, LogLinesSound, LineSound, Agree
  <2>4. run'[c] = NewRun(c, excuse) /\ stmt'[c] = stmt[c] /\ stmt[c] \in Statements
    BY <1>3 DEF IInv, TypeOK, clientVars
  <2>5. ExcusesCurrent(c)' /\ Untouched(c)'
    BY <2>4, NewRunFacts DEF IInv, ExcusesCurrent, Untouched
  <2>6. phase[c] \in {"planned"} \cup Rewriting /\ UNCHANGED <<clientVars, execVars, returned>>
    BY DEF Intercept
  <2>. QED  BY <1>3, <2>1, <2>2, <2>3, <2>5, <2>6, PlanningStep, PhaseFacts
<1>. QED  BY <1>1, <1>2, <1>4, <1>5, <1>6 DEF Hook

------------------------------------------------------------------------------
(* The rewrite's steps.                                                    *)

LEMMA FailureKeeps ==
    ASSUME IInv, NEW c \in Conns, phase[c] \in Rewriting,
           NEW st \in {"UNSUPPORTED", "FAIL"}, RewriteFails(c, st)
    PROVE  IInv'
<1>. USE DEF RewriteFails, IInv
<1>1. /\ run[c].qnum \in Nat /\ st \in Statuses /\ LineSound(st, stmt[c])
      /\ phase[c] # "idle"
  BY DEF TypeOK, Run, Statuses, LineSound, Rewriting
<1>2. log' \in Seq(Line) /\ LogLinesSound'
  BY <1>1, LogTyped, LogSound
<1>3. PICK p \in {"unchecked", "idle"} : phase' = [phase EXCEPT ![c] = p]
  BY DEF Goto, End
<1>4. answer' \in [Conns -> Answers]
  BY DEF Goto, End, TypeOK, Answers
<1>5. in_rewrite' = [in_rewrite EXCEPT ![c] = FALSE] /\ run' = [run EXCEPT ![c] = run[c]]
      /\ run[c] \in Run
  BY DEF TypeOK, ReleaseGuard
<1>6. p \in Phases \ {"union", "recursive"} /\ p \notin Rewriting
  BY PhaseFacts
<1>7. taken' \in [Conns -> BOOLEAN] /\ judged' \in [Conns -> BOOLEAN]
      /\ log_qnum' \in [Conns -> Nat] /\ UNCHANGED <<clientVars, execVars, returned>>
  BY DEF TypeOK
<1>. QED  BY <1>2, <1>3, <1>4, <1>5, <1>6, <1>7, PlanningStep

LEMMA CheckPlannedKeeps ==
    ASSUME IInv, NEW c \in Conns, CheckPlanned(c)
    PROVE  IInv'
<1>. USE DEF IInv, CheckPlanned
<1>0. UNCHANGED <<log_qnum, run>> /\ phase[c] \in Rewriting /\ phase[c] # "idle"
  BY DEF NestedHook, Eligible, GuardScoped, Rewriting
<1>1. /\ stmt[c] \in Statements /\ stmt[c].rows \in [Sides -> [Rows -> Nat]]
      /\ [s \in Sides |-> Zero] \in [Sides -> [Rows -> Nat]]
  BY <1>0, StmtRows, ZeroTyped DEF StmtKnown
<1>2. PICK p \in {"union", "recursive"} : phase' = [phase EXCEPT ![c] = p]
  BY DEF Goto
<1>3. /\ phase'[c] = p /\ \A d \in Conns \ {c} : phase'[d] = phase[d]
      /\ p \in Phases /\ p \notin Rewriting /\ p # "idle"
  BY <1>2 DEF TypeOK, Phases, Running, Rewriting
<1>. USE DEF clientVars, execVars, ghostVars
<1>4. TypeOK'
  BY <1>0, <1>1, <1>2, <1>3 DEF TypeOK, Goto, ReleaseGuard
<1>5. StmtKnown' /\ GuardScoped'
  BY <1>0, <1>3 DEF TypeOK, StmtKnown, GuardScoped, ReleaseGuard
<1>6. RunCurrent'
  BY <1>0, <1>3 DEF RunCurrent, ExcusesCurrent, Untouched
<1>7. /\ todo'[c] = stmt[c].rows /\ held'[c] = [s \in Sides |-> Zero]
      /\ side'[c] = [s \in Sides |-> "running"]
      /\ \A d \in Conns \ {c} : todo'[d] = todo[d] /\ held'[d] = held[d] /\ side'[d] = side[d]
  BY DEF TypeOK
<1>8. CountsSides'
  <2>1. SidesCounted(c)'
    BY <1>0, <1>7 DEF RunCurrent, Untouched, SidesCounted, Count, SideExhausted, Sides
  <2>2. \A d \in Conns \ {c} : SidesCounted(d)' <=> SidesCounted(d)
    BY <1>0, <1>7 DEF SidesCounted, Count, SideExhausted
  <2>. QED  BY <1>3, <2>1, <2>2 DEF CountsSides
<1>9. RowsConserved'
  <2>1. \A s \in Sides, r \in Rows :
           todo'[c][s][r] + held'[c][s][r] + run'[c].sum[s][r] = stmt'[c].rows[s][r]
    BY <1>0, <1>1, <1>7, ZeroTyped DEF RunCurrent, Untouched
  <2>. QED  BY <1>0, <1>3, <1>7, <2>1 DEF RowsConserved
<1>10. LogLinesSound'
  BY DEF LogLinesSound, LineSound, Agree
<1>. QED  BY <1>4, <1>5, <1>6, <1>8, <1>9, <1>10

LEMMA RewriteKeeps ==
    ASSUME IInv, NEW c \in Conns, Rewrite(c)
    PROVE  IInv'
<1>1. CASE OriginalReplanFails(c)
  BY <1>1, FailureKeeps DEF OriginalReplanFails, Rewriting
<1>2. CASE OriginalReplanned(c) \/ Translated(c)
  BY <1>2, MovingActions, MovesKeeps DEF IInv
<1>3. CASE TranslationFails(c)
  BY <1>3, FailureKeeps DEF TranslationFails, Rewriting
<1>4. CASE RewrittenReplanFails(c)
  BY <1>4, FailureKeeps DEF RewrittenReplanFails, RewrittenReplanStatus, Rewriting
<1>5. CASE CheckPlanned(c)
  BY <1>5, CheckPlannedKeeps
<1>. QED  BY <1>1, <1>2, <1>3, <1>4, <1>5 DEF Rewrite

------------------------------------------------------------------------------
(* The steps of the two sides.                                             *)

\* The sum of a side that is out is the result of its query.
LEMMA SumComplete ==
    ASSUME IInv, NEW c \in Conns, phase[c] = "union", NEW s \in Sides, side[c][s] # "running"
    PROVE  run[c].sum[s] = stmt[c].rows[s]
<1>1. stmt[c].rows[s] \in [Rows -> Nat] /\ run[c].sum[s] \in [Rows -> Nat]
  <2>1. stmt[c].rows \in [Sides -> [Rows -> Nat]]
    BY StmtRows DEF IInv, StmtKnown
  <2>2. run[c] \in Run
    BY DEF IInv, TypeOK
  <2>. QED  BY <2>1, <2>2 DEF Run
<1>2. todo[c][s] = Zero /\ held[c][s] = Zero
  BY DEF IInv, CountsSides, SidesCounted, SideExhausted
<1>3. \A r \in Rows : run[c].sum[s][r] = stmt[c].rows[s][r]
  BY <1>1, <1>2, ZeroTyped DEF IInv, RowsConserved
<1>. QED  BY <1>1, <1>3

\* The side that owes the verdict finds both sums complete: they are the two results.
LEMMA SumsComplete ==
    ASSUME IInv, NEW c \in Conns, phase[c] = "union", NEW s \in Sides, side[c][s] = "last"
    PROVE  \A o \in Sides : run[c].sum[o] = stmt[c].rows[o]
<1>1. \A o \in Sides : side[c][o] # "running"
  BY DEF IInv, CountsSides, SidesCounted
<1>. QED  BY <1>1, SumComplete

LEMMA ClaimKeeps ==
    ASSUME IInv, NEW c \in Conns, NEW s \in Sides, Claim(c, s)
    PROVE  IInv'
<1>. USE DEF IInv, clientVars, ghostVars
<1>1. PICK chunk \in Chunks(todo[c][s]) :
         /\ todo' = [todo EXCEPT ![c][s] = Minus(@, chunk)]
         /\ held' = [held EXCEPT ![c][s] = Plus(@, chunk)]
  BY DEF Claim
<1>2. /\ todo[c][s] \in [Rows -> Nat] /\ held[c][s] \in [Rows -> Nat]
      /\ phase[c] = "union"
      /\ UNCHANGED <<clientVars, in_rewrite, log_qnum, run, phase, side, returned, answer,
                     log, ghostVars>>
  BY DEF Claim, TypeOK
<1>3. /\ Minus(todo[c][s], chunk) \in [Rows -> Nat]
      /\ Plus(held[c][s], chunk) \in [Rows -> Nat]
      /\ \A r \in Rows : Minus(todo[c][s], chunk)[r] + Plus(held[c][s], chunk)[r]
                            = todo[c][s][r] + held[c][s][r]
  BY <1>2, ChunkFacts
<1>4. /\ todo'[c][s] = Minus(todo[c][s], chunk) /\ held'[c][s] = Plus(held[c][s], chunk)
      /\ \A d \in Conns, o \in Sides : d # c \/ o # s =>
            todo'[d][o] = todo[d][o] /\ held'[d][o] = held[d][o]
  BY <1>1 DEF TypeOK
<1>5. chunk \in Bag /\ chunk # Zero /\ \A r \in Rows : chunk[r] <= todo[c][s][r]
  BY DEF Chunks
<1>6. TypeOK'
  BY <1>1, <1>2, <1>3 DEF TypeOK
<1>7. StmtKnown' /\ GuardScoped' /\ RunCurrent' /\ LogLinesSound'
  BY <1>2 DEF StmtKnown, GuardScoped, RunCurrent, ExcusesCurrent, Untouched, LogLinesSound,
     LineSound, Agree
<1>8. CountsSides'
  <2>1. side[c][s] = "running"
    <3>1. SUFFICES ASSUME todo[c][s] = Zero PROVE FALSE
      BY <1>2 DEF CountsSides, SidesCounted, SideExhausted
    <3>2. \A r \in Rows : chunk[r] = 0
      BY <1>5, <3>1, ZeroTyped, BoundsAssumption DEF Bag
    <3>. QED  BY <1>5, <3>2 DEF Bag, Zero
  <2>. QED  BY <1>2, <1>4, <2>1 DEF CountsSides, SidesCounted, Count, SideExhausted
<1>9. RowsConserved'
  <2>1. ASSUME NEW d \in Conns, phase[d] = "union", NEW o \in Sides, NEW r \in Rows
        PROVE  todo'[d][o][r] + held'[d][o][r] = todo[d][o][r] + held[d][o][r]
    BY <1>3, <1>4
  <2>. QED  BY <1>2, <2>1 DEF RowsConserved
<1>. QED  BY <1>6, <1>7, <1>8, <1>9

LEMMA AccumulateKeeps ==
    ASSUME IInv, NEW c \in Conns, NEW s \in Sides, Accumulate(c, s)
    PROVE  IInv'
<1>. USE DEF IInv, clientVars, ghostVars
<1>1. PICK chunk \in Chunks(held[c][s]) :
         /\ held' = [held EXCEPT ![c][s] = Minus(@, chunk)]
         /\ run' = [run EXCEPT ![c].sum[s] = Plus(@, chunk)]
         /\ returned' = IF PassesRows(s)
                        THEN [returned EXCEPT ![c] = Plus(@, chunk)] ELSE returned
  BY DEF Accumulate
<1>2. /\ held[c][s] \in [Rows -> Nat] /\ run[c].sum[s] \in [Rows -> Nat]
      /\ run[c] \in Run /\ returned[c] \in [Rows -> Nat]
      /\ phase[c] = "union"
      /\ UNCHANGED <<clientVars, in_rewrite, log_qnum, phase, todo, side, answer, log,
                     ghostVars>>
  BY DEF Accumulate, TypeOK, Run
<1>3. /\ Minus(held[c][s], chunk) \in [Rows -> Nat]
      /\ Plus(run[c].sum[s], chunk) \in [Rows -> Nat]
      /\ Plus(returned[c], chunk) \in [Rows -> Nat]
      /\ \A r \in Rows : Minus(held[c][s], chunk)[r] + Plus(run[c].sum[s], chunk)[r]
                            = held[c][s][r] + run[c].sum[s][r]
  BY <1>2, ChunkFacts
<1>4. /\ held'[c][s] = Minus(held[c][s], chunk) /\ run'[c].sum[s] = Plus(run[c].sum[s], chunk)
      /\ \A o \in Sides \ {s} : held'[c][o] = held[c][o] /\ run'[c].sum[o] = run[c].sum[o]
      /\ \A d \in Conns \ {c} : held'[d] = held[d] /\ run'[d] = run[d]
      /\ run'[c] \in Run
      /\ run'[c].sides_remaining = run[c].sides_remaining
      /\ run'[c].suppress = run[c].suppress
      /\ run'[c].suppress_on_mismatch = run[c].suppress_on_mismatch
  BY <1>1, <1>2, <1>3 DEF TypeOK, Run
<1>5. chunk \in Bag /\ chunk # Zero /\ \A r \in Rows : chunk[r] <= held[c][s][r]
  BY DEF Chunks
<1>6. TypeOK'
  <2>1. run' \in [Conns -> Run]
    BY <1>1, <1>4 DEF TypeOK
  <2>2. returned' \in [Conns -> [Rows -> Nat]]
    BY <1>1, <1>3 DEF TypeOK
  <2>3. held' \in [Conns -> [Sides -> [Rows -> Nat]]]
    BY <1>1, <1>3 DEF TypeOK
  <2>. QED  BY <1>2, <2>1, <2>2, <2>3 DEF TypeOK
<1>7. StmtKnown' /\ GuardScoped' /\ LogLinesSound'
  BY <1>2 DEF StmtKnown, GuardScoped, LogLinesSound, LineSound, Agree
<1>8. RunCurrent'
  BY <1>2, <1>4 DEF RunCurrent, ExcusesCurrent, Untouched, Rewriting
<1>9. CountsSides'
  <2>1. side[c][s] = "running"
    <3>1. SUFFICES ASSUME held[c][s] = Zero PROVE FALSE
      BY <1>2 DEF CountsSides, SidesCounted, SideExhausted
    <3>2. \A r \in Rows : chunk[r] = 0
      BY <1>5, <3>1, ZeroTyped, BoundsAssumption DEF Bag
    <3>. QED  BY <1>5, <3>2 DEF Bag, Zero
  <2>2. \A d \in Conns : run'[d].sides_remaining = run[d].sides_remaining
    BY <1>4
  <2>3. \A d \in Conns, o \in Sides : d # c \/ o # s => held'[d][o] = held[d][o]
    BY <1>4
  <2>. QED  BY <1>2, <2>1, <2>2, <2>3 DEF CountsSides, SidesCounted, Count, SideExhausted
<1>10. RowsConserved'
  <2>1. ASSUME NEW d \in Conns, phase[d] = "union", NEW o \in Sides, NEW r \in Rows
        PROVE  todo'[d][o][r] + held'[d][o][r] + run'[d].sum[o][r] = stmt'[d].rows[o][r]
    <3>1. todo[d][o][r] + held[d][o][r] + run[d].sum[o][r] = stmt[d].rows[o][r]
      BY <2>1 DEF RowsConserved
    <3>2. todo[d][o][r] \in Nat /\ held[d][o][r] \in Nat /\ run[d].sum[o][r] \in Nat
      BY DEF TypeOK, Run
    <3>3. held'[d][o][r] + run'[d].sum[o][r] = held[d][o][r] + run[d].sum[o][r]
      BY <1>3, <1>4
    <3>4. held'[d][o][r] \in Nat /\ run'[d].sum[o][r] \in Nat
      BY <1>6 DEF TypeOK, Run
    <3>. QED  BY <1>2, <3>1, <3>2, <3>3, <3>4
  <2>. QED  BY <1>2, <2>1 DEF RowsConserved
<1>. QED  BY <1>6, <1>7, <1>8, <1>9, <1>10

LEMMA OnSideDoneKeeps ==
    ASSUME IInv, NEW c \in Conns, NEW s \in Sides, OnSideDone(c, s)
    PROVE  IInv'
<1>. USE DEF IInv, clientVars, ghostVars
<1>1. /\ phase[c] = "union" /\ side[c][s] = "running" /\ SideExhausted(c, s)
      /\ UNCHANGED <<clientVars, in_rewrite, log_qnum, phase, todo, held, returned, answer,
                     log, ghostVars>>
      /\ run' = [run EXCEPT ![c].sides_remaining = @ - 1]
      /\ side' = [side EXCEPT ![c][s] =
                     IF LastOut(run[c].sides_remaining) THEN "last" ELSE "done"]
  BY DEF OnSideDone
<1>2. run[c] \in Run /\ run[c].sides_remaining \in 0..2
  BY DEF TypeOK, Run
<1>3. run[c].sides_remaining = Count(c, "hash") + Count(c, "cmp")
  BY <1>1 DEF CountsSides, SidesCounted
<1>4. run[c].sides_remaining - 1 \in 0..2
  BY <1>1, <1>2, <1>3 DEF Count, Sides
<1>5. /\ run'[c] \in Run /\ run'[c].sides_remaining = run[c].sides_remaining - 1
      /\ run'[c].sum = run[c].sum
      /\ run'[c].suppress = run[c].suppress
      /\ run'[c].suppress_on_mismatch = run[c].suppress_on_mismatch
      /\ \A d \in Conns \ {c} : run'[d] = run[d] /\ side'[d] = side[d]
  BY <1>1, <1>2, <1>4 DEF TypeOK, Run
<1>6. /\ side'[c][s] = IF run[c].sides_remaining = 1 THEN "last" ELSE "done"
      /\ \A o \in Sides \ {s} : side'[c][o] = side[c][o]
  BY <1>1 DEF TypeOK, LastOut
<1>7. TypeOK'
  <2>1. run' \in [Conns -> Run]
    BY <1>1, <1>5 DEF TypeOK
  <2>2. side' \in [Conns -> [Sides -> {"running", "last", "done"}]]
    BY <1>1 DEF TypeOK
  <2>. QED  BY <1>1, <2>1, <2>2 DEF TypeOK
<1>8. StmtKnown' /\ GuardScoped' /\ LogLinesSound'
  BY <1>1 DEF StmtKnown, GuardScoped, LogLinesSound, LineSound, Agree
<1>9. RunCurrent'
  BY <1>1, <1>5 DEF RunCurrent, ExcusesCurrent, Untouched, Rewriting
<1>10. CountsSides'
  <2>1. SidesCounted(c)'
    <3>1. run'[c].sides_remaining = Count(c, "hash")' + Count(c, "cmp")'
      BY <1>1, <1>3, <1>5, <1>6 DEF Count, Sides
    <3>2. \A o \in Sides : side'[c][o] # "running" => SideExhausted(c, o)'
      BY <1>1, <1>6 DEF CountsSides, SidesCounted, SideExhausted
    <3>3. \A o, u \in Sides : side'[c][o] = "last" => side'[c][u] # "running"
      BY <1>1, <1>3, <1>6 DEF CountsSides, SidesCounted, Count, Sides
    <3>. QED  BY <3>1, <3>2, <3>3 DEF SidesCounted
  <2>2. \A d \in Conns \ {c} : SidesCounted(d)' <=> SidesCounted(d)
    BY <1>1, <1>5 DEF SidesCounted, Count, SideExhausted
  <2>. QED  BY <1>1, <2>1, <2>2 DEF CountsSides
<1>11. RowsConserved'
  <2>1. \A d \in Conns : run'[d].sum = run[d].sum
    BY <1>5
  <2>. QED  BY <1>1, <2>1 DEF RowsConserved
<1>. QED  BY <1>7, <1>8, <1>9, <1>10, <1>11

\* What ActOnMatch says is true when `equal` is what it claims to be.
LEMMA MatchStatusSound ==
    ASSUME IInv, NEW c \in Conns, stmt[c] \in Statements, ExcusesCurrent(c),
           NEW equal \in BOOLEAN, equal <=> Agree(stmt[c])
    PROVE  MatchStatus(c, equal) \in Statuses /\ LineSound(MatchStatus(c, equal), stmt[c])
<1>1. stmt[c].nondet \in BOOLEAN /\ stmt[c].multirow \in BOOLEAN
  BY StmtRows
<1>. QED  BY <1>1 DEF ExcusesCurrent, MatchStatus, Excused, Statuses, LineSound

\* A verdict, whichever execution it comes from.
LEMMA VerdictKeeps ==
    ASSUME IInv, NEW c \in Conns, phase[c] \in {"union", "recursive"},
           NEW equal \in BOOLEAN, equal <=> Agree(stmt[c]),
           NEW next \in {"union", "cross_join"}, next = "union" => phase[c] = "union",
           ActOnMatch(c, equal, next),
           side' \in [Conns -> [Sides -> {"running", "last", "done"}]],
           \A d \in Conns \ {c} : side'[d] = side[d],
           phase[c] = "union" =>
              \A o \in Sides : side[c][o] # "running" /\ side'[c][o] \in {side[c][o], "done"},
           UNCHANGED <<clientVars, in_rewrite, log_qnum, run, todo, held, returned, taken>>
    PROVE  IInv'
<1>. USE DEF IInv, clientVars
<1>1. PICK p \in {next, "idle"} : phase' = [phase EXCEPT ![c] = p]
  BY DEF ActOnMatch, Goto, End
<1>2. /\ phase'[c] = p /\ \A d \in Conns \ {c} : phase'[d] = phase[d]
      /\ p \in Phases /\ p \notin Rewriting /\ p # "recursive"
  BY <1>1 DEF TypeOK, Phases, Running, Rewriting
<1>3. /\ stmt[c] \in Statements /\ ExcusesCurrent(c) /\ run[c].qnum \in Nat
      /\ phase[c] # "idle" /\ phase[c] \notin Rewriting
  BY DEF StmtKnown, RunCurrent, TypeOK, Run, Rewriting
<1>4. log' \in Seq(Line) /\ LogLinesSound'
  BY <1>3, MatchStatusSound, LogTyped, LogSound DEF ActOnMatch
<1>5. answer' \in [Conns -> Answers]
  BY DEF ActOnMatch, Goto, End, TypeOK, Answers
<1>6. TypeOK'
  BY <1>1, <1>2, <1>4, <1>5 DEF TypeOK, ActOnMatch
<1>7. StmtKnown' /\ GuardScoped'
  BY <1>2, <1>3 DEF TypeOK, StmtKnown, GuardScoped
<1>8. RunCurrent'
  BY <1>2, <1>3 DEF RunCurrent, ExcusesCurrent, Untouched
<1>9. CountsSides'
  <2>1. ASSUME p = "union" PROVE SidesCounted(c)'
    <3>1. phase[c] = "union"
      BY <2>1
    <3>. QED  BY <3>1 DEF CountsSides, SidesCounted, Count, SideExhausted, Sides
  <2>2. \A d \in Conns \ {c} : SidesCounted(d)' <=> SidesCounted(d)
    BY DEF SidesCounted, Count, SideExhausted
  <2>. QED  BY <1>2, <2>1, <2>2 DEF CountsSides
<1>10. RowsConserved'
  <2>1. \A d \in Conns : phase'[d] = "union" => phase[d] = "union"
    BY <1>2
  <2>. QED  BY <2>1 DEF RowsConserved
<1>. QED  BY <1>4, <1>6, <1>7, <1>8, <1>9, <1>10

LEMMA ActOnVerdictKeeps ==
    ASSUME IInv, NEW c \in Conns, NEW s \in Sides, ActOnVerdict(c, s)
    PROVE  IInv'
<1>. USE DEF ActOnVerdict
<1>1. (run[c].sum["hash"] = run[c].sum["cmp"]) <=> Agree(stmt[c])
  BY SumsComplete DEF Agree, Sides
<1>2. \A o \in Sides : side[c][o] # "running"
  BY DEF IInv, CountsSides, SidesCounted
<1>3. /\ side' \in [Conns -> [Sides -> {"running", "last", "done"}]]
      /\ \A d \in Conns \ {c} : side'[d] = side[d]
      /\ \A o \in Sides : side'[c][o] \in {side[c][o], "done"}
  BY DEF IInv, TypeOK
<1>. DEFINE equal == run[c].sum["hash"] = run[c].sum["cmp"]
<1>4. equal \in BOOLEAN /\ (equal <=> Agree(stmt[c])) /\ ActOnMatch(c, equal, "union")
  BY <1>1
<1>5. UNCHANGED <<clientVars, in_rewrite, log_qnum, run, todo, held, returned, taken>>
      /\ phase[c] = "union"
  OBVIOUS
<1>. HIDE DEF equal, ActOnVerdict
<1>. QED  BY <1>2, <1>3, <1>4, <1>5, VerdictKeeps

\* Two bags are equal exactly if neither has a row left over.
LEMMA ExceptAllFacts ==
    ASSUME NEW a \in [Rows -> Nat], NEW b \in [Rows -> Nat]
    PROVE  (NotExists(ExceptAll(a, b)) /\ NotExists(ExceptAll(b, a))) <=> a = b
<1>1. ASSUME NotExists(ExceptAll(a, b)), NotExists(ExceptAll(b, a))
      PROVE  \A r \in Rows : a[r] = b[r]
  BY <1>1 DEF NotExists, ExceptAll
<1>2. ASSUME a = b PROVE NotExists(ExceptAll(a, b)) /\ NotExists(ExceptAll(b, a))
  BY <1>2 DEF NotExists, ExceptAll
<1>. QED  BY <1>1, <1>2

LEMMA JudgeRecursiveKeeps ==
    ASSUME IInv, NEW c \in Conns, JudgeRecursive(c)
    PROVE  IInv'
<1>. DEFINE o == stmt[c].rows["hash"]
            w == stmt[c].rows["cmp"]
            equal == NotExists(ExceptAll(o, w)) /\ NotExists(ExceptAll(w, o))
<1>1. stmt[c].rows \in [Sides -> [Rows -> Nat]]
  BY StmtRows DEF JudgeRecursive, IInv, StmtKnown
<1>2. equal <=> Agree(stmt[c])
  BY <1>1, ExceptAllFacts DEF Agree, Sides
<1>3. /\ ActOnMatch(c, equal, "cross_join") /\ equal \in BOOLEAN
      /\ phase[c] = "recursive"
      /\ UNCHANGED <<clientVars, in_rewrite, log_qnum, run, todo, held, side, returned, taken>>
  BY DEF JudgeRecursive, NotExists, execVars
<1>. HIDE DEF equal
<1>4. side' \in [Conns -> [Sides -> {"running", "last", "done"}]]
  BY <1>3 DEF IInv, TypeOK
<1>. QED  BY <1>2, <1>3, <1>4, VerdictKeeps

LEMMA ExecuteKeeps ==
    ASSUME IInv, NEW c \in Conns, Execute(c)
    PROVE  IInv'
<1>1. ASSUME NEW s \in Sides, SideStep(c, s) PROVE IInv'
  <2>1. CASE Claim(c, s)
    BY <2>1, ClaimKeeps
  <2>2. CASE Accumulate(c, s)
    BY <2>2, AccumulateKeeps
  <2>3. CASE OnSideDone(c, s)
    BY <2>3, OnSideDoneKeeps
  <2>4. CASE ActOnVerdict(c, s)
    BY <2>4, ActOnVerdictKeeps
  <2>5. CASE SideThrows(c, s)
    BY <2>5, MovingActions, MovesKeeps DEF IInv
  <2>. QED  BY <1>1, <2>1, <2>2, <2>3, <2>4, <2>5 DEF SideStep
<1>2. CASE JudgeRecursive(c)
  BY <1>2, JudgeRecursiveKeeps
<1>3. CASE FinishUnion(c) \/ RecursiveThrows(c) \/ ReturnRows(c) \/ OriginalThrows(c)
           \/ Cancelled(c)
  BY <1>3, MovingActions, MovesKeeps DEF IInv
<1>. QED  BY <1>1, <1>2, <1>3 DEF Execute

------------------------------------------------------------------------------
(* The theorems.                                                           *)

LEMMA InitEstablishes == Init => IInv
<1>. SUFFICES ASSUME Init PROVE IInv
  OBVIOUS
<1>. USE DEF Init
<1>1. FreshRun \in Run
  BY ZeroTyped DEF FreshRun, Run
<1>2. TypeOK
  BY <1>1, ZeroTyped, BoundsAssumption DEF TypeOK, Phases, Answers
<1>3. StmtKnown /\ GuardScoped /\ RunCurrent /\ CountsSides /\ RowsConserved
  BY DEF StmtKnown, GuardScoped, RunCurrent, CountsSides, RowsConserved, Rewriting
<1>4. LogLinesSound
  BY DEF LogLinesSound
<1>. QED  BY <1>2, <1>3, <1>4 DEF IInv

LEMMA StutteringKeeps == IInv /\ UNCHANGED vars => IInv'
BY DEF IInv, vars, clientVars, execVars, ghostVars, TypeOK, StmtKnown, GuardScoped,
   RunCurrent, ExcusesCurrent, Untouched, CountsSides, SidesCounted, Count, SideExhausted,
   RowsConserved, LogLinesSound, LineSound, Agree

LEMMA StepKeeps == IInv /\ [Next]_vars => IInv'
BY ClientKeeps, HookKeeps, RewriteKeeps, ExecuteKeeps, StutteringKeeps DEF Next

\* The conjunction of the invariants with what makes them inductive is an invariant.
THEOREM Inductive == Spec => []IInv
BY StepKeeps, InitEstablishes, PTL DEF Spec

\* Every variable of the checker keeps its type; in particular sides_remaining stays
\* between 0 and 2, so the last side out is recognised exactly once per check.
THEOREM TypeCorrect == Spec => []TypeOK
<1>1. IInv => TypeOK
  BY DEF IInv
<1>. QED  BY <1>1, Inductive, PTL

\* However the rows of the two sides are cut into chunks and handed to threads, each row is
\* to come, in a thread's hands or in its side's sum, exactly as often as the result has it.
THEOREM ConservesRows == Spec => []RowsConserved
<1>1. IInv => RowsConserved
  BY DEF IInv
<1>. QED  BY <1>1, Inductive, PTL

\* No line of the log ever misjudges its statement: an OK means the two bags agree, a WRONG
\* means they differ and nothing excuses it.
THEOREM LogIsSound == Spec => []LogLinesSound
<1>1. IInv => LogLinesSound
  BY DEF IInv
<1>. QED  BY <1>1, Inductive, PTL

------------------------------------------------------------------------------
(* The statement as its client sees it.                                    *)

\* What taken and judged say of a statement follows from where its thread is.  While the
\* two sides run, the verdict is out exactly when both are done, and a side that owes the
\* verdict is alone in owing it.
Standing(c) ==
    /\ judged[c] => taken[c]
    /\ phase[c] = "planned" => ~taken[c]
    /\ phase[c] \in Rewriting \cup {"union", "recursive"} => taken[c]
    /\ phase[c] \in Rewriting \cup {"recursive"} => ~judged[c]
    /\ phase[c] = "unchecked" => (taken[c] => judged[c])
    /\ phase[c] = "cross_join" => judged[c]
    /\ phase[c] = "union" =>
          /\ judged[c] <=> \A s \in Sides : side[c][s] = "done"
          /\ \A s, o \in Sides : s # o /\ side[c][s] = "last" => side[c][o] = "done"

\* A statement that is running has no answer yet; in STRICT mode one that was judged and
\* runs on has agreed with its rewrite, or an excuse covers it.
Covered(q) == Agree(q) \/ q.nondet \/ q.multirow
Answering(c) ==
    /\ phase[c] # "idle" => answer[c] = "none"
    /\ ~LogMode /\ phase[c] # "idle" /\ judged[c] /\ ~stmt[c].side_effects => Covered(stmt[c])

\* Rows reach the client through the original's side only, as they are hashed, or at the end.
Delivering(c) ==
    /\ phase[c] \in Phases \ {"idle", "union"} => returned[c] = Zero
    /\ phase[c] = "union" => returned[c] = run[c].sum["hash"]

\* A number that has been drawn and not judged yet is the connection's latest, and no line
\* carries it; no line carries a number that was not drawn.
Pending(c) == phase[c] # "idle" /\ taken[c] /\ ~judged[c]
NumberUnused(c) ==
    LogMode /\ Pending(c) =>
        /\ run[c].qnum = log_qnum[c]
        /\ \A i \in DOMAIN log : log[i].conn = c => log[i].qnum < log_qnum[c]
NumbersDrawn == \A i \in DOMAIN log : log[i].qnum <= log_qnum[log[i].conn]

ClientView(c) == Standing(c) /\ Answering(c) /\ Delivering(c)
Numbering == NumbersDrawn /\ OneLinePerNumber /\ \A c \in Conns : NumberUnused(c)
CInv == /\ IInv
        /\ \A c \in Conns : ClientView(c)
        /\ StrictAnswersSound /\ RowsUnchanged
        /\ Numbering

------------------------------------------------------------------------------
(* A step is a step of one connection.                                     *)

Acts(c) == Client(c) \/ Hook(c) \/ Rewrite(c) \/ Execute(c)
Alone(d) ==
    /\ phase'[d] = phase[d] /\ stmt'[d] = stmt[d] /\ answer'[d] = answer[d]
    /\ taken'[d] = taken[d] /\ judged'[d] = judged[d] /\ returned'[d] = returned[d]
    /\ run'[d] = run[d] /\ log_qnum'[d] = log_qnum[d] /\ side'[d] = side[d]

LEMMA OthersAlone ==
    ASSUME TypeOK, NEW c \in Conns, Acts(c), NEW d \in Conns, d # c
    PROVE  Alone(d)
<1>. USE DEF TypeOK, Alone, clientVars, execVars, ghostVars
<1>1. ASSUME Client(c) PROVE Alone(d)
  BY <1>1 DEF Client, SetOption, Submit, Interrupt
<1>2. ASSUME Hook(c) PROVE Alone(d)
  BY <1>2 DEF Hook, PassThrough, RefuseProfiled, BadDialect, Bypass, BeginRewrite, Intercept,
     StartCheck, Goto, End
<1>3. ASSUME Rewrite(c) PROVE Alone(d)
  <2>1. ASSUME NEW status, RewriteFails(c, status) PROVE Alone(d)
    BY <2>1 DEF RewriteFails, Goto, End
  <2>2. ASSUME OriginalReplanned(c) \/ Translated(c) PROVE Alone(d)
    BY <2>2 DEF OriginalReplanned, Translated, NestedHook, StartCheck, Goto
  <2>3. ASSUME CheckPlanned(c) PROVE Alone(d)
    BY <2>3 DEF CheckPlanned, NestedHook, StartCheck, Goto
  <2>. QED
    BY <1>3, <2>1, <2>2, <2>3
    DEF Rewrite, OriginalReplanFails, TranslationFails, RewrittenReplanFails
<1>4. ASSUME Execute(c) PROVE Alone(d)
  <2>1. ASSUME NEW s \in Sides, SideStep(c, s) PROVE Alone(d)
    BY <2>1 DEF SideStep, Claim, Accumulate, OnSideDone, ActOnVerdict, ActOnMatch, SideThrows,
       Goto, End
  <2>2. ASSUME JudgeRecursive(c) PROVE Alone(d)
    BY <2>2 DEF JudgeRecursive, ActOnMatch, Goto, End
  <2>3. ASSUME FinishUnion(c) \/ RecursiveThrows(c) \/ ReturnRows(c) \/ OriginalThrows(c)
               \/ Cancelled(c)
        PROVE  Alone(d)
    BY <2>3 DEF FinishUnion, RecursiveThrows, ReturnRows, OriginalThrows, Cancelled, End
  <2>. QED  BY <1>4, <2>1, <2>2, <2>3 DEF Execute
<1>. QED  BY <1>1, <1>2, <1>3, <1>4 DEF Acts

LEMMA AloneKeeps ==
    ASSUME NEW d \in Conns, Alone(d), ClientView(d)
    PROVE  ClientView(d)'
BY DEF Alone, ClientView, Standing, Answering, Delivering, Covered, Agree, Pending

\* The invariant, unfolded as far as the state of one connection goes.
LEMMA Known ==
    ASSUME IInv, NEW c \in Conns
    PROVE  /\ phase \in [Conns -> Phases] /\ answer \in [Conns -> Answers]
           /\ taken \in [Conns -> BOOLEAN] /\ judged \in [Conns -> BOOLEAN]
           /\ returned \in [Conns -> [Rows -> Nat]] /\ run \in [Conns -> Run]
           /\ log_qnum \in [Conns -> Nat] /\ log \in Seq(Line)
           /\ side \in [Conns -> [Sides -> {"running", "last", "done"}]]
           /\ phase[c] # "idle" => stmt[c] \in Statements
           /\ in_rewrite[c] <=> phase[c] \in Rewriting
BY DEF IInv, TypeOK, StmtKnown, GuardScoped

\* A nested planner finds the guard set: it draws no number and starts no run.
LEMMA NestedHookIdle ==
    ASSUME IInv, NEW c \in Conns, phase[c] \in Rewriting, NEW native, NestedHook(c, native)
    PROVE  UNCHANGED <<log_qnum, run>>
BY DEF NestedHook, Eligible, IInv, GuardScoped

LEMMA ClientStepView ==
    ASSUME IInv, NEW c \in Conns, ClientView(c), Client(c)
    PROVE  ClientView(c)'
<1>1. ASSUME NEW w \in Settings, SetOption(c, w) PROVE Alone(c)
  BY <1>1 DEF SetOption, Alone, clientVars, execVars, ghostVars
<1>2. ASSUME Interrupt(c) PROVE Alone(c)
  BY <1>2 DEF Interrupt, Alone, execVars, ghostVars
<1>3. ASSUME NEW q \in Statements, Submit(c, q) PROVE ClientView(c)'
  BY <1>3, Known
  DEF Submit, ClientView, Standing, Answering, Delivering, Phases, Rewriting, Running
<1>. QED  BY <1>1, <1>2, <1>3, AloneKeeps DEF Client

LEMMA HookStepView ==
    ASSUME IInv, NEW c \in Conns, ClientView(c), Hook(c)
    PROVE  ClientView(c)'
<1>. USE Known DEF ClientView, Standing, Answering, Delivering, Phases, Rewriting, Running,
     Goto, End
<1>1. ASSUME PassThrough(c) PROVE ClientView(c)'
  BY <1>1 DEF PassThrough, ghostVars
<1>2. ASSUME RefuseProfiled(c) PROVE ClientView(c)'
  BY <1>2 DEF RefuseProfiled
<1>3. ASSUME BadDialect(c) PROVE ClientView(c)'
  BY <1>3 DEF BadDialect, Intercept
<1>4. ASSUME Bypass(c) PROVE ClientView(c)'
  BY <1>4 DEF Bypass, Intercept, clientVars
<1>5. ASSUME BeginRewrite(c) PROVE ClientView(c)'
  BY <1>5 DEF BeginRewrite, Intercept
<1>. QED  BY <1>1, <1>2, <1>3, <1>4, <1>5 DEF Hook

LEMMA RewriteStepView ==
    ASSUME IInv, NEW c \in Conns, ClientView(c), Rewrite(c)
    PROVE  ClientView(c)'
<1>. USE Known DEF ClientView, Standing, Answering, Delivering, Phases, Rewriting, Running,
     Goto, End
<1>1. ASSUME NEW status, RewriteFails(c, status), phase[c] \in Rewriting PROVE ClientView(c)'
  BY <1>1 DEF RewriteFails
<1>2. ASSUME OriginalReplanned(c) \/ Translated(c) PROVE ClientView(c)'
  BY <1>2 DEF OriginalReplanned, Translated, ghostVars
<1>3. ASSUME CheckPlanned(c) PROVE ClientView(c)'
  <2>1. UNCHANGED run
    BY <1>3, NestedHookIdle DEF CheckPlanned
  <2>2. run[c].sum = [s \in Sides |-> Zero]
    BY <1>3 DEF CheckPlanned, IInv, RunCurrent, Untouched
  <2>3. side'[c] = [s \in Sides |-> "running"]
    BY <1>3 DEF CheckPlanned
  <2>. QED  BY <1>3, <2>1, <2>2, <2>3 DEF CheckPlanned, ghostVars, Sides
<1>. QED
  BY <1>1, <1>2, <1>3
  DEF Rewrite, OriginalReplanFails, TranslationFails, RewrittenReplanFails

\* The steps of one side: what the client has received keeps up with the sum of the
\* original's side, and the verdict is out once both are done.
LEMMA SideStepView ==
    ASSUME IInv, NEW c \in Conns, NEW s \in Sides, ClientView(c), SideStep(c, s)
    PROVE  ClientView(c)'
<1>1. ASSUME Claim(c, s) PROVE ClientView(c)'
  <2>1. Alone(c)
    BY <1>1 DEF Claim, Alone, clientVars, ghostVars
  <2>. QED  BY <2>1, AloneKeeps
<1>2. ASSUME Accumulate(c, s) PROVE ClientView(c)'
  <2>1. /\ phase[c] = "union"
        /\ UNCHANGED <<stmt, phase, side, answer, taken, judged>>
    BY <1>2 DEF Accumulate, clientVars, ghostVars
  <2>2. Standing(c)' /\ Answering(c)'
    BY <2>1 DEF ClientView, Standing, Answering, Covered, Agree
  <2>3. PICK chunk \in Chunks(held[c][s]) :
           /\ run' = [run EXCEPT ![c].sum[s] = Plus(@, chunk)]
           /\ returned' = IF PassesRows(s) THEN [returned EXCEPT ![c] = Plus(@, chunk)]
                          ELSE returned
    BY <1>2 DEF Accumulate
  <2>4. returned'[c] = run'[c].sum["hash"]
    <3>1. returned[c] = run[c].sum["hash"]
      BY <2>1 DEF ClientView, Delivering
    <3>. QED  BY <2>3, <3>1, Known DEF PassesRows, Run, Sides
  <2>. QED  BY <2>1, <2>2, <2>4, Known DEF ClientView, Delivering
<1>3. ASSUME OnSideDone(c, s) PROVE ClientView(c)'
  <2>1. /\ phase[c] = "union" /\ side[c][s] = "running"
        /\ UNCHANGED <<stmt, phase, answer, taken, judged, returned>>
        /\ run'[c].sum = run[c].sum
        /\ side'[c][s] = IF run[c].sides_remaining = 1 THEN "last" ELSE "done"
        /\ \A o \in Sides : o # s => side'[c][o] = side[c][o]
    BY <1>3, Known DEF OnSideDone, LastOut, Run, clientVars, ghostVars
  <2>2. /\ run[c].sides_remaining = Count(c, "hash") + Count(c, "cmp")
        /\ \A o, u \in Sides : side[c][o] = "last" => side[c][u] # "running"
    BY <2>1 DEF IInv, CountsSides, SidesCounted
  <2>3. \A o \in Sides : o # s => side[c][o] = IF run[c].sides_remaining = 1
                                              THEN "done" ELSE "running"
    BY <2>1, <2>2, Known DEF Count, Sides
  <2>4. Standing(c)'
    BY <2>1, <2>3 DEF ClientView, Standing, Sides, Rewriting
  <2>. QED  BY <2>1, <2>4, Known DEF ClientView, Answering, Delivering, Covered, Agree
<1>4. ASSUME ActOnVerdict(c, s) PROVE ClientView(c)'
  <2>. DEFINE equal == run[c].sum["hash"] = run[c].sum["cmp"]
  <2>1. /\ phase[c] = "union" /\ side[c][s] = "last" /\ ActOnMatch(c, equal, "union")
        /\ side'[c][s] = "done" /\ \A o \in Sides : o # s => side'[c][o] = side[c][o]
        /\ UNCHANGED <<stmt, run, returned, taken>>
    BY <1>4, Known DEF ActOnVerdict, clientVars
  <2>2. \A o \in Sides : side'[c][o] = "done"
    BY <2>1 DEF ClientView, Standing
  <2>3. equal <=> Agree(stmt[c])
    BY <2>1, SumsComplete DEF Agree, Sides
  <2>4. ExcusesCurrent(c) /\ taken[c] /\ returned[c] = run[c].sum["hash"]
    BY <2>1 DEF IInv, RunCurrent, ClientView, Standing, Delivering
  <2>. HIDE DEF equal
  <2>5. MatchStatus(c, equal) # "WRONG" => Covered(stmt[c])
    BY <2>3, <2>4 DEF MatchStatus, Excused, ExcusesCurrent, Covered
  <2>6. judged'[c] /\ phase'[c] \in {"union", "idle"}
    BY <2>1, Known DEF ActOnMatch, Goto, End
  <2>7. Standing(c)' /\ Delivering(c)'
    BY <2>1, <2>2, <2>4, <2>6 DEF Standing, Delivering, Rewriting, Sides
  <2>8. Answering(c)'
    BY <2>1, <2>5, <2>6, Known
    DEF ActOnMatch, Goto, End, ClientView, Answering, Covered, Agree
  <2>. QED  BY <2>7, <2>8 DEF ClientView
<1>5. ASSUME SideThrows(c, s) PROVE ClientView(c)'
  BY <1>5, Known DEF SideThrows, End, ClientView, Standing, Answering, Delivering, Rewriting,
     ghostVars
<1>. QED  BY <1>1, <1>2, <1>3, <1>4, <1>5 DEF SideStep

LEMMA ExecuteStepView ==
    ASSUME IInv, NEW c \in Conns, ClientView(c), Execute(c)
    PROVE  ClientView(c)'
<1>1. ASSUME JudgeRecursive(c) PROVE ClientView(c)'
  <2>. DEFINE o == stmt[c].rows["hash"]
              w == stmt[c].rows["cmp"]
              equal == NotExists(ExceptAll(o, w)) /\ NotExists(ExceptAll(w, o))
  <2>1. /\ phase[c] = "recursive" /\ ActOnMatch(c, equal, "cross_join")
        /\ UNCHANGED <<stmt, run, returned, taken>>
    BY <1>1 DEF JudgeRecursive, clientVars
  <2>2. equal <=> Agree(stmt[c])
    <3>1. stmt[c].rows \in [Sides -> [Rows -> Nat]]
      BY <2>1, StmtRows DEF IInv, StmtKnown
    <3>. QED  BY <3>1, ExceptAllFacts DEF Agree, Sides
  <2>3. ExcusesCurrent(c) /\ taken[c] /\ returned[c] = Zero
    BY <2>1 DEF IInv, RunCurrent, ClientView, Standing, Delivering, Phases, Running
  <2>. HIDE DEF equal
  <2>4. MatchStatus(c, equal) # "WRONG" => Covered(stmt[c])
    BY <2>2, <2>3 DEF MatchStatus, Excused, ExcusesCurrent, Covered
  <2>5. judged'[c] /\ phase'[c] \in {"cross_join", "idle"}
    BY <2>1, Known DEF ActOnMatch, Goto, End
  <2>6. Standing(c)' /\ Delivering(c)'
    BY <2>1, <2>3, <2>5 DEF Standing, Delivering, Rewriting
  <2>7. Answering(c)'
    BY <2>1, <2>4, <2>5, Known
    DEF ActOnMatch, Goto, End, ClientView, Answering, Covered, Agree
  <2>. QED  BY <2>6, <2>7 DEF ClientView
<1>2. ASSUME FinishUnion(c) \/ RecursiveThrows(c) \/ ReturnRows(c) \/ OriginalThrows(c)
             \/ Cancelled(c)
      PROVE  ClientView(c)'
  BY <1>2, Known DEF FinishUnion, RecursiveThrows, ReturnRows, OriginalThrows, Cancelled, End,
     ClientView, Standing, Answering, Delivering, Rewriting, ghostVars
<1>. QED  BY <1>1, <1>2, SideStepView DEF Execute

LEMMA ClientViewKeeps ==
    ASSUME IInv, NEW c \in Conns, Acts(c), \A d \in Conns : ClientView(d)
    PROVE  \A d \in Conns : ClientView(d)'
<1>1. ClientView(c)'
  BY ClientStepView, HookStepView, RewriteStepView, ExecuteStepView DEF Acts
<1>2. \A d \in Conns : d # c => ClientView(d)'
  BY OthersAlone, AloneKeeps DEF IInv
<1>. QED  BY <1>1, <1>2

------------------------------------------------------------------------------
(* The numbers of the lines.                                               *)

LEMMA NumbersTyped ==
    ASSUME TypeOK
    PROVE  /\ \A d \in Conns : log_qnum[d] \in Nat
           /\ \A i \in DOMAIN log : log[i].conn \in Conns /\ log[i].qnum \in Nat
<1>1. DOMAIN log = 1..Len(log) /\ \A i \in 1..Len(log) : log[i] \in Line
  BY DEF TypeOK
<1>. QED  BY <1>1 DEF TypeOK, Line

\* A step that writes no line: a number it draws is new, and a number that is pending
\* after it was drawn by it or was pending before.
LEMMA NothingWritten ==
    ASSUME TypeOK, TypeOK', Numbering, NEW c \in Conns, \A d \in Conns \ {c} : Alone(d),
           log' = log,
           \/ log_qnum'[c] = log_qnum[c]
           \/ LogMode /\ log_qnum'[c] = log_qnum[c] + 1,
           LogMode /\ Pending(c)' =>
              /\ run'[c].qnum = log_qnum'[c]
              /\ Pending(c) \/ log_qnum'[c] = log_qnum[c] + 1
    PROVE  Numbering'
<1>1. /\ \A d \in Conns : log_qnum[d] \in Nat /\ log_qnum'[d] \in Nat
      /\ \A i \in DOMAIN log : log[i].conn \in Conns /\ log[i].qnum \in Nat
  BY NumbersTyped DEF TypeOK
<1>2. \A d \in Conns : log_qnum[d] <= log_qnum'[d]
  BY <1>1 DEF Alone
<1>3. NumbersDrawn'
  BY <1>1, <1>2 DEF Numbering, NumbersDrawn
<1>4. OneLinePerNumber'
  BY DEF Numbering, OneLinePerNumber
<1>5. NumberUnused(c)'
  BY <1>1 DEF Numbering, NumbersDrawn, NumberUnused
<1>6. \A d \in Conns \ {c} : NumberUnused(d)'
  BY DEF Numbering, NumberUnused, Pending, Alone
<1>. QED  BY <1>3, <1>4, <1>5, <1>6 DEF Numbering

\* A step that writes a line, with a number that it draws or that was pending.
LEMMA LineWritten ==
    ASSUME TypeOK, TypeOK', Numbering, NEW c \in Conns, \A d \in Conns \ {c} : Alone(d),
           NEW n, NEW st, AppendLog(c, n, st), ~Pending(c)',
           LogMode => n = log_qnum'[c],
           \/ log_qnum'[c] = log_qnum[c] /\ (LogMode => Pending(c))
           \/ LogMode /\ log_qnum'[c] = log_qnum[c] + 1
    PROVE  Numbering'
<1>1. CASE ~LogMode
  BY <1>1, NothingWritten DEF AppendLog
<1>2. CASE LogMode
  <2>1. /\ DOMAIN log = 1..Len(log) /\ Len(log) \in Nat
        /\ DOMAIN log' = 1..(Len(log) + 1)
        /\ \A i \in 1..Len(log) : log'[i] = log[i]
        /\ log'[Len(log) + 1].conn = c /\ log'[Len(log) + 1].qnum = log_qnum'[c]
    BY <1>2 DEF TypeOK, AppendLog
  <2>2. /\ \A d \in Conns : log_qnum[d] \in Nat /\ log_qnum'[d] \in Nat
        /\ \A i \in DOMAIN log : log[i].conn \in Conns /\ log[i].qnum \in Nat
    BY NumbersTyped DEF TypeOK
  <2>3. \A i \in DOMAIN log : log[i].conn = c => log[i].qnum < log_qnum'[c]
    BY <1>2, <2>2 DEF Numbering, NumbersDrawn, NumberUnused
  <2>4. \A d \in Conns : log_qnum[d] <= log_qnum'[d]
    BY <2>2 DEF Alone
  <2>5. NumbersDrawn'
    BY <2>1, <2>2, <2>4 DEF Numbering, NumbersDrawn
  <2>6. OneLinePerNumber'
    BY <2>1, <2>3 DEF Numbering, OneLinePerNumber
  <2>7. NumberUnused(c)'
    BY DEF NumberUnused
  <2>8. \A d \in Conns \ {c} : NumberUnused(d)'
    BY <2>1 DEF Numbering, NumberUnused, Pending, Alone
  <2>. QED  BY <2>5, <2>6, <2>7, <2>8 DEF Numbering
<1>. QED  BY <1>1, <1>2

LEMMA NumberingKeeps ==
    ASSUME IInv, IInv', \A d \in Conns : ClientView(d), Numbering, NEW c \in Conns, Acts(c)
    PROVE  Numbering'
<1>1. /\ TypeOK /\ TypeOK' /\ \A d \in Conns \ {c} : Alone(d)
      /\ Standing(c) /\ Standing(c)' /\ NumberUnused(c)
  BY OthersAlone, ClientViewKeeps DEF IInv, ClientView, Numbering
<1>2. ASSUME UNCHANGED <<log, log_qnum>>,
             Pending(c)' => Pending(c) /\ run'[c].qnum = run[c].qnum
      PROVE  Numbering'
  BY <1>1, <1>2, NothingWritten DEF NumberUnused
<1>3. CASE Client(c)
  BY <1>2, <1>3, Known DEF Client, SetOption, Submit, Interrupt, Pending, ghostVars
<1>4. CASE Hook(c)
  <2>1. ASSUME PassThrough(c) PROVE Numbering'
    BY <1>1, <1>2, <2>1 DEF PassThrough, Pending, Standing, ghostVars
  <2>2. ASSUME RefuseProfiled(c) PROVE Numbering'
    <3>1. AppendLog(c, NextQnum(c), "UNSUPPORTED") /\ ~Pending(c)'
      BY <2>2, Known DEF RefuseProfiled, Pending
    <3>2. /\ LogMode => NextQnum(c) = log_qnum'[c] /\ log_qnum'[c] = log_qnum[c] + 1
          /\ ~LogMode => log_qnum'[c] = log_qnum[c]
      BY <2>2, Known DEF RefuseProfiled, NextQnum
    <3>. QED  BY <1>1, <3>1, <3>2, LineWritten, LogModeAssumption
  <2>3. ASSUME NEW excuse, Intercept(c, excuse)
        PROVE  /\ LogMode => /\ NextQnum(c) = log_qnum'[c]
                             /\ log_qnum'[c] = log_qnum[c] + 1
                             /\ run'[c].qnum = log_qnum'[c]
               /\ ~LogMode => log_qnum'[c] = log_qnum[c]
    BY <2>3, Known DEF Intercept, StartCheck, NewRun, NextQnum
  <2>4. ASSUME BadDialect(c) \/ BeginRewrite(c) PROVE Numbering'
    <3>1. log' = log
      BY <2>4 DEF BadDialect, BeginRewrite
    <3>. QED  BY <1>1, <2>3, <2>4, <3>1, NothingWritten DEF BadDialect, BeginRewrite
  <2>5. ASSUME Bypass(c) PROVE Numbering'
    <3>1. AppendLog(c, NextQnum(c), "NONDETERMINISTIC") /\ ~Pending(c)'
      BY <2>5, Known DEF Bypass, Pending
    <3>. QED  BY <1>1, <2>3, <2>5, <3>1, LineWritten DEF Bypass
  <2>. QED  BY <1>4, <2>1, <2>2, <2>4, <2>5 DEF Hook
<1>5. ASSUME Pending(c), UNCHANGED log_qnum, ~Pending(c)',
             NEW status, AppendLog(c, run[c].qnum, status)
      PROVE  Numbering'
  BY <1>1, <1>5, LineWritten DEF NumberUnused
<1>6. CASE Rewrite(c)
  <2>1. ASSUME phase[c] \in Rewriting, NEW status, RewriteFails(c, status) PROVE Numbering'
    <3>1. Pending(c) /\ ~Pending(c)'
      BY <1>1, <2>1, Known DEF RewriteFails, Pending, Standing, Rewriting
    <3>. QED  BY <1>5, <2>1, <3>1 DEF RewriteFails
  <2>2. ASSUME OriginalReplanned(c) \/ Translated(c) \/ CheckPlanned(c) PROVE Numbering'
    <3>1. phase[c] \in Rewriting /\ UNCHANGED <<log, ghostVars>>
      BY <2>2 DEF OriginalReplanned, Translated, CheckPlanned, Rewriting
    <3>2. UNCHANGED <<log_qnum, run>>
      BY <2>2, <3>1, NestedHookIdle DEF OriginalReplanned, Translated, CheckPlanned
    <3>. QED  BY <1>1, <1>2, <3>1, <3>2 DEF Pending, Standing, Rewriting, ghostVars
  <2>. QED
    BY <1>6, <2>1, <2>2
    DEF Rewrite, OriginalReplanFails, TranslationFails, RewrittenReplanFails, Rewriting
<1>7. ASSUME NEW equal, NEW next, ActOnMatch(c, equal, next), phase[c] \in {"union", "recursive"},
             ~judged[c], UNCHANGED log_qnum
      PROVE  Numbering'
  <2>1. Pending(c) /\ ~Pending(c)'
    BY <1>1, <1>7, Known DEF ActOnMatch, Pending, Standing
  <2>. QED  BY <1>5, <1>7, <2>1 DEF ActOnMatch
<1>8. CASE Execute(c)
  <2>1. ASSUME NEW s \in Sides, SideStep(c, s) PROVE Numbering'
    <3>1. ASSUME Claim(c, s) \/ Accumulate(c, s) \/ OnSideDone(c, s) \/ SideThrows(c, s)
          PROVE  Numbering'
      <4>1. UNCHANGED <<log, log_qnum, taken, judged>> /\ phase[c] # "idle"
        BY <3>1 DEF Claim, Accumulate, OnSideDone, SideThrows, ghostVars
      <4>2. run'[c].qnum = run[c].qnum
        <5>1. CASE UNCHANGED run
          BY <5>1
        <5>2. CASE Accumulate(c, s)
          <6>1. PICK chunk : run' = [run EXCEPT ![c].sum[s] = Plus(@, chunk)]
            BY <5>2 DEF Accumulate
          <6>. QED  BY <6>1, Known DEF Run
        <5>3. CASE OnSideDone(c, s)
          BY <5>3, Known DEF OnSideDone, Run
        <5>. QED  BY <3>1, <5>1, <5>2, <5>3 DEF Claim, SideThrows
      <4>. QED  BY <1>2, <4>1, <4>2 DEF Pending
    <3>2. ASSUME ActOnVerdict(c, s) PROVE Numbering'
      BY <1>1, <1>7, <3>2 DEF ActOnVerdict, Standing
    <3>. QED  BY <2>1, <3>1, <3>2 DEF SideStep
  <2>2. ASSUME JudgeRecursive(c) PROVE Numbering'
    <3>. DEFINE equal == /\ NotExists(ExceptAll(stmt[c].rows["hash"], stmt[c].rows["cmp"]))
                        /\ NotExists(ExceptAll(stmt[c].rows["cmp"], stmt[c].rows["hash"]))
    <3>1. ActOnMatch(c, equal, "cross_join") /\ phase[c] = "recursive" /\ UNCHANGED log_qnum
      BY <2>2 DEF JudgeRecursive
    <3>. HIDE DEF equal
    <3>. QED  BY <1>1, <1>7, <3>1 DEF Standing
  <2>3. ASSUME FinishUnion(c) \/ RecursiveThrows(c) \/ ReturnRows(c) \/ OriginalThrows(c)
               \/ Cancelled(c)
        PROVE  Numbering'
    BY <1>2, <2>3, Known
    DEF FinishUnion, RecursiveThrows, ReturnRows, OriginalThrows, Cancelled, End, Pending,
        ghostVars
  <2>. QED  BY <1>8, <2>1, <2>2, <2>3 DEF Execute
<1>. QED  BY <1>3, <1>4, <1>6, <1>8 DEF Acts

------------------------------------------------------------------------------
(* The answers.                                                            *)

\* What an answer says of its statement, for one connection.
AnswerTrue(c) ==
    LET q == stmt[c] IN
    /\ answer[c] = "mismatch" => ~Agree(q) /\ ~q.nondet /\ ~q.multirow
    /\ ~LogMode /\ answer[c] = "rows" /\ taken[c] /\ ~q.side_effects => Covered(q)
    /\ answer[c] = "rows" => returned[c] = q.rows["hash"]

LEMMA AnswersTrue == StrictAnswersSound /\ RowsUnchanged <=> \A c \in Conns : AnswerTrue(c)
BY DEF StrictAnswersSound, RowsUnchanged, AnswerTrue, Covered

\* A verdict is an error only if the two results differ and nothing excuses it.
LEMMA MismatchTrue ==
    ASSUME IInv, NEW c \in Conns, phase[c] \in {"union", "recursive"}, UNCHANGED stmt,
           NEW equal \in BOOLEAN, equal <=> Agree(stmt[c]), NEW next \in Phases \ {"idle"},
           ActOnMatch(c, equal, next), ClientView(c)'
    PROVE  AnswerTrue(c)'
<1>1. CASE phase'[c] = "idle"
  <2>1. MatchStatus(c, equal) = "WRONG" /\ answer'[c] = "mismatch"
    BY <1>1, Known DEF ActOnMatch, Goto, End
  <2>2. ExcusesCurrent(c) /\ stmt[c] \in Statements
    BY Known DEF IInv, RunCurrent
  <2>3. stmt[c].nondet \in BOOLEAN /\ stmt[c].multirow \in BOOLEAN
    BY <2>2, StmtRows
  <2>4. ~Agree(stmt[c]) /\ ~stmt[c].nondet /\ ~stmt[c].multirow
    BY <2>1, <2>2, <2>3 DEF MatchStatus, Excused, ExcusesCurrent
  <2>. QED  BY <2>1, <2>4 DEF AnswerTrue, Agree
<1>2. CASE phase'[c] # "idle"
  BY <1>2 DEF ClientView, Answering, AnswerTrue
<1>. QED  BY <1>1, <1>2

\* Rows are the answer only of a statement whose verdict, if it was to be checked, is out.
LEMMA RowsTrue ==
    ASSUME IInv, NEW c \in Conns, phase[c] # "idle", ClientView(c), UNCHANGED <<stmt, taken>>,
           taken[c] => judged[c], returned'[c] = stmt[c].rows["hash"], End(c, "rows")
    PROVE  AnswerTrue(c)'
BY Known DEF ClientView, Answering, AnswerTrue, End, Covered, Agree

LEMMA AnswersKeep ==
    ASSUME IInv, IInv', \A d \in Conns : ClientView(d), \A d \in Conns : AnswerTrue(d),
           NEW c \in Conns, Acts(c)
    PROVE  \A d \in Conns : AnswerTrue(d)'
<1>1. \A d \in Conns : ClientView(d)'
  BY ClientViewKeeps
<1>2. ASSUME NEW d \in Conns, Alone(d) PROVE AnswerTrue(d)'
  BY <1>2 DEF Alone, AnswerTrue, Covered, Agree
<1>3. \A d \in Conns : d # c => AnswerTrue(d)'
  BY <1>2, OthersAlone DEF IInv
<1>. SUFFICES AnswerTrue(c)'
  BY <1>3
<1>4. ASSUME phase'[c] # "idle" PROVE AnswerTrue(c)'
  BY <1>1, <1>4 DEF ClientView, Answering, AnswerTrue
<1>5. ASSUME NEW a \in {"refused", "error", "interrupted"}, End(c, a) PROVE AnswerTrue(c)'
  BY <1>5, Known DEF End, AnswerTrue
<1>6. CASE Client(c)
  <2>1. ASSUME NEW w \in Settings, SetOption(c, w) PROVE Alone(c)
    BY <2>1 DEF SetOption, Alone, clientVars, execVars, ghostVars
  <2>2. ASSUME Interrupt(c) PROVE Alone(c)
    BY <2>2 DEF Interrupt, Alone, execVars, ghostVars
  <2>3. ASSUME NEW q \in Statements, Submit(c, q) PROVE phase'[c] # "idle"
    BY <2>3, Known DEF Submit
  <2>. QED  BY <1>2, <1>4, <1>6, <2>1, <2>2, <2>3 DEF Client
<1>7. CASE Hook(c)
  BY <1>4, <1>5, <1>7, Known
  DEF Hook, PassThrough, RefuseProfiled, BadDialect, Bypass, BeginRewrite, Goto
<1>8. CASE Rewrite(c)
  <2>1. ASSUME NEW status, RewriteFails(c, status) PROVE AnswerTrue(c)'
    BY <1>4, <1>5, <2>1, Known DEF RewriteFails, Goto
  <2>2. ASSUME OriginalReplanned(c) \/ Translated(c) \/ CheckPlanned(c)
        PROVE  phase'[c] # "idle"
    BY <2>2, Known DEF OriginalReplanned, Translated, CheckPlanned, Goto
  <2>. QED
    BY <1>4, <1>8, <2>1, <2>2
    DEF Rewrite, OriginalReplanFails, TranslationFails, RewrittenReplanFails
<1>9. CASE Execute(c)
  <2>1. ASSUME NEW s \in Sides, SideStep(c, s) PROVE AnswerTrue(c)'
    <3>1. CASE Claim(c, s) \/ Accumulate(c, s) \/ OnSideDone(c, s)
      BY <1>4, <3>1 DEF Claim, Accumulate, OnSideDone
    <3>2. CASE SideThrows(c, s)
      BY <1>5, <3>2 DEF SideThrows
    <3>3. CASE ActOnVerdict(c, s)
      <4>. DEFINE equal == run[c].sum["hash"] = run[c].sum["cmp"]
      <4>1. /\ phase[c] = "union" /\ side[c][s] = "last" /\ UNCHANGED stmt
            /\ ActOnMatch(c, equal, "union")
        BY <3>3 DEF ActOnVerdict, clientVars
      <4>2. equal <=> Agree(stmt[c])
        BY <4>1, SumsComplete DEF Agree, Sides
      <4>3. equal \in BOOLEAN /\ "union" \in Phases \ {"idle"}
        BY DEF Phases, Running
      <4>. HIDE DEF equal
      <4>. QED  BY <1>1, <4>1, <4>2, <4>3, MismatchTrue
    <3>. QED  BY <2>1, <3>1, <3>2, <3>3 DEF SideStep
  <2>2. CASE JudgeRecursive(c)
    <3>. DEFINE o == stmt[c].rows["hash"]
                w == stmt[c].rows["cmp"]
                equal == NotExists(ExceptAll(o, w)) /\ NotExists(ExceptAll(w, o))
    <3>1. /\ phase[c] = "recursive" /\ UNCHANGED stmt /\ ActOnMatch(c, equal, "cross_join")
      BY <2>2 DEF JudgeRecursive, clientVars
    <3>2. equal <=> Agree(stmt[c])
      <4>1. stmt[c].rows \in [Sides -> [Rows -> Nat]]
        BY <3>1, StmtRows DEF IInv, StmtKnown
      <4>. QED  BY <4>1, ExceptAllFacts DEF Agree, Sides
    <3>3. equal \in BOOLEAN /\ "cross_join" \in Phases \ {"idle"}
      BY DEF Phases, Running, NotExists
    <3>. HIDE DEF equal
    <3>. QED  BY <1>1, <3>1, <3>2, <3>3, MismatchTrue
  <2>3. CASE FinishUnion(c)
    <3>1. /\ phase[c] = "union" /\ End(c, "rows")
          /\ \A s \in Sides : side[c][s] = "done"
          /\ UNCHANGED <<stmt, taken>> /\ returned' = returned
      BY <2>3 DEF FinishUnion, clientVars, ghostVars
    <3>2. judged[c] /\ returned[c] = run[c].sum["hash"]
      BY <3>1 DEF ClientView, Standing, Delivering
    <3>3. run[c].sum["hash"] = stmt[c].rows["hash"]
      BY <3>1, SumComplete DEF Sides
    <3>4. returned'[c] = stmt[c].rows["hash"] /\ phase[c] # "idle" /\ (taken[c] => judged[c])
      BY <3>1, <3>2, <3>3
    <3>. QED  BY <3>1, <3>4, RowsTrue
  <2>4. CASE ReturnRows(c)
    <3>1. /\ phase[c] \in {"cross_join", "unchecked"} /\ End(c, "rows")
          /\ returned'[c] = Plus(returned[c], stmt[c].rows["hash"])
          /\ UNCHANGED <<stmt, taken>>
      BY <2>4, Known DEF ReturnRows, clientVars, ghostVars
    <3>2. returned[c] = Zero /\ (taken[c] => judged[c])
      BY <3>1 DEF ClientView, Standing, Delivering, Phases, Running
    <3>3. stmt[c].rows["hash"] \in [Rows -> Nat]
      BY <3>1, StmtRows DEF IInv, StmtKnown, Sides
    <3>4. Plus(Zero, stmt[c].rows["hash"]) = stmt[c].rows["hash"]
      BY <3>3 DEF Plus, Zero
    <3>. QED  BY <3>1, <3>2, <3>4, RowsTrue
  <2>5. CASE RecursiveThrows(c) \/ OriginalThrows(c) \/ Cancelled(c)
    BY <1>5, <2>5 DEF RecursiveThrows, OriginalThrows, Cancelled
  <2>. QED  BY <1>9, <2>1, <2>2, <2>3, <2>4, <2>5 DEF Execute
<1>. QED  BY <1>6, <1>7, <1>8, <1>9 DEF Acts

------------------------------------------------------------------------------
(* The invariance theorems.                                                *)

LEMMA CInit == Init => CInv
<1>. SUFFICES ASSUME Init PROVE CInv
  OBVIOUS
<1>1. IInv
  BY InitEstablishes
<1>2. \A c \in Conns : ClientView(c)
  BY DEF Init, ClientView, Standing, Answering, Delivering, Rewriting
<1>3. StrictAnswersSound /\ RowsUnchanged
  BY DEF Init, StrictAnswersSound, RowsUnchanged
<1>4. Numbering
  BY DEF Init, Numbering, NumbersDrawn, OneLinePerNumber, NumberUnused, Pending
<1>. QED  BY <1>1, <1>2, <1>3, <1>4 DEF CInv

LEMMA CStep == CInv /\ [Next]_vars => CInv'
<1>. SUFFICES ASSUME CInv, [Next]_vars PROVE CInv'
  OBVIOUS
<1>1. IInv /\ IInv'
  BY StepKeeps DEF CInv
<1>2. ASSUME NEW c \in Conns, Acts(c) PROVE CInv'
  <2>1. \A d \in Conns : ClientView(d)'
    BY <1>1, <1>2, ClientViewKeeps DEF CInv
  <2>2. Numbering'
    BY <1>1, <1>2, NumberingKeeps DEF CInv
  <2>3. (StrictAnswersSound /\ RowsUnchanged)'
    <3>1. \A d \in Conns : AnswerTrue(d)'
      BY <1>1, <1>2, AnswersTrue, AnswersKeep DEF CInv
    <3>. QED  BY <3>1 DEF StrictAnswersSound, RowsUnchanged, AnswerTrue, Covered
  <2>. QED  BY <1>1, <2>1, <2>2, <2>3 DEF CInv
<1>3. ASSUME UNCHANGED vars PROVE CInv'
  <2>. USE <1>3 DEF vars, clientVars, execVars, ghostVars
  <2>1. \A d \in Conns : Alone(d)
    BY DEF Alone
  <2>2. \A d \in Conns : ClientView(d)'
    BY <2>1, AloneKeeps DEF CInv
  <2>3. StrictAnswersSound' /\ RowsUnchanged'
    BY DEF CInv, StrictAnswersSound, RowsUnchanged, Agree
  <2>4. Numbering'
    BY DEF CInv, Numbering, NumbersDrawn, OneLinePerNumber, NumberUnused, Pending
  <2>. QED  BY <1>1, <2>2, <2>3, <2>4 DEF CInv
<1>. QED  BY <1>2, <1>3 DEF Next, Acts

LEMMA CInductive == Spec => []CInv
BY CInit, CStep, PTL DEF Spec

\* "LPTS check failed" is raised only for results that differ with nothing to excuse it, and
\* a checked query that succeeds in STRICT mode agreed with its rewrite or had an excuse.
THEOREM StrictIsSound == Spec => []StrictAnswersSound
<1>1. CInv => StrictAnswersSound
  BY DEF CInv
<1>. QED  BY <1>1, CInductive, PTL

\* A statement that succeeds has returned the rows of its own query, each as often as the
\* query has it, however the UNION's threads interleaved and whichever way it was run.
THEOREM ReturnsItsRows == Spec => []RowsUnchanged
<1>1. CInv => RowsUnchanged
  BY DEF CInv
<1>. QED  BY <1>1, CInductive, PTL

\* The lines of a connection carry strictly increasing numbers: nothing is judged twice.
THEOREM JudgedOnce == Spec => []OneLinePerNumber
<1>1. CInv => OneLinePerNumber
  BY DEF CInv, Numbering
<1>. QED  BY <1>1, CInductive, PTL

\* A SELECT that asks for the check leaves the hook intercepted: no guard is left behind by
\* an earlier rewrite, failed or not, that would let it pass.
SlipsNot == \A c \in Conns :
    phase[c] = "planned" /\ phase'[c] # "planned" /\ WantsCheck(c) => taken'[c]

LEMMA StepSlipsNot == IInv /\ [Next]_vars => SlipsNot
<1>. SUFFICES ASSUME IInv, [Next]_vars,
                     NEW c \in Conns, phase[c] = "planned", phase'[c] # "planned", WantsCheck(c)
              PROVE  taken'[c]
  BY DEF SlipsNot
<1>1. Acts(c)
  BY OthersAlone DEF Next, Acts, IInv, Alone, vars
<1>2. ~in_rewrite[c] /\ Eligible(c)
  BY Known DEF WantsCheck, Eligible, Rewriting
<1>3. ~Client(c) /\ ~Rewrite(c)
  BY DEF Client, SetOption, Submit, Interrupt, Rewrite, OriginalReplanFails, OriginalReplanned,
     TranslationFails, Translated, RewrittenReplanFails, CheckPlanned
<1>4. ~Execute(c)
  BY DEF Execute, SideStep, Claim, Accumulate, OnSideDone, ActOnVerdict, SideThrows,
     FinishUnion, JudgeRecursive, RecursiveThrows, ReturnRows, OriginalThrows, Cancelled, Running
<1>5. Hook(c)
  BY <1>1, <1>3, <1>4 DEF Acts
<1>. QED
  BY <1>2, <1>5, Known DEF Hook, PassThrough, RefuseProfiled, BadDialect, Bypass, BeginRewrite,
     Intercept

THEOREM SlipsThroughNever == Spec => NoSelectSlipsThrough
<1>1. IInv /\ [Next]_vars => [SlipsNot]_vars
  BY StepSlipsNot
<1>2. [][SlipsNot]_vars <=> NoSelectSlipsThrough
  BY DEF SlipsNot, NoSelectSlipsThrough
<1>. QED  BY <1>1, <1>2, Inductive, PTL DEF Spec

------------------------------------------------------------------------------
(* The checker implements CheckContract.                                   *)

LEMMA InitMaps == Init => Contract!Init
BY DEF Init, Contract!Init, StandingOf, OutcomeOf

\* The state of the other connections, as the contract sees it.
OthersMapped(c) ==
    \A d \in Conns \ {c} : StandingOf(d)' = StandingOf(d) /\ OutcomeOf(d)' = OutcomeOf(d)

LEMMA OthersSeen ==
    ASSUME IInv, NEW c \in Conns, Acts(c)
    PROVE  OthersMapped(c)
BY OthersAlone DEF IInv, Alone, OthersMapped, StandingOf, OutcomeOf

\* The contract's actions, in the checker's terms.
LEMMA ToStutter ==
    ASSUME NEW c \in Conns, OthersMapped(c), UNCHANGED <<stmt, log_qnum, log>>,
           StandingOf(c)' = StandingOf(c), OutcomeOf(c)' = OutcomeOf(c)
    PROVE  UNCHANGED Contract!vars
<1>1. \A d \in Conns : StandingOf(d)' = StandingOf(d) /\ OutcomeOf(d)' = OutcomeOf(d)
  BY DEF OthersMapped
<1>. QED  BY <1>1 DEF Contract!vars

LEMMA ToIntercept ==
    ASSUME NEW c \in Conns, OthersMapped(c), UNCHANGED <<stmt, log>>,
           log_qnum' = [log_qnum EXCEPT ![c] = IF LogMode THEN @ + 1 ELSE @],
           StandingOf(c) = "open", StandingOf(c)' = "taken", OutcomeOf(c)' = OutcomeOf(c)
    PROVE  Contract!Intercept(c)
<1>1. \A d \in Conns : OutcomeOf(d)' = OutcomeOf(d)
  BY DEF OthersMapped
<1>. QED  BY <1>1 DEF Contract!Intercept, Contract!DrawNumber, OthersMapped

\* A statement leaves the contract's sight, with an outcome.
LEMMA ToClose ==
    ASSUME NEW c \in Conns, OthersMapped(c), NEW o, StandingOf(c)' = "idle", OutcomeOf(c)' = o
    PROVE  Contract!Close(c, o)
BY DEF Contract!Close, OthersMapped

LEMMA ToJudge ==
    ASSUME TypeOK, NEW c \in Conns, OthersMapped(c), UNCHANGED <<stmt, log_qnum>>,
           NEW status \in Contract!Verdicts(stmt[c]) \cup Contract!Dodges(stmt[c]),
           AppendLog(c, run[c].qnum, status), LogMode => run[c].qnum = log_qnum[c],
           StandingOf(c) = "taken",
           IF ~LogMode /\ status \in {"WRONG", "UNSUPPORTED", "FAIL"}
           THEN StandingOf(c)' = "idle" /\ OutcomeOf(c)' = "failed"
           ELSE StandingOf(c)' = "judged" /\ OutcomeOf(c)' = OutcomeOf(c)
    PROVE  Contract!Judge(c)
<1>1. Contract!Record(c, status)
  BY DEF Contract!Record, AppendLog
<1>2. CASE ~LogMode /\ status \in {"WRONG", "UNSUPPORTED", "FAIL"}
  BY <1>1, <1>2, ToClose DEF Contract!Judge
<1>3. CASE ~(~LogMode /\ status \in {"WRONG", "UNSUPPORTED", "FAIL"})
  <2>1. \A d \in Conns : OutcomeOf(d)' = OutcomeOf(d)
    BY <1>3 DEF OthersMapped
  <2>2. [d \in Conns |-> StandingOf(d)]' = [[d \in Conns |-> StandingOf(d)] EXCEPT ![c] = "judged"]
    BY <1>3 DEF OthersMapped
  <2>. QED  BY <1>1, <1>3, <2>1, <2>2 DEF Contract!Judge
<1>. QED  BY <1>2, <1>3

LEMMA ToDecline ==
    ASSUME TypeOK, NEW c \in Conns, OthersMapped(c), UNCHANGED stmt,
           log_qnum' = [log_qnum EXCEPT ![c] = IF LogMode THEN @ + 1 ELSE @],
           StandingOf(c) = "open",
           \/ /\ \E status \in Contract!Dodges(stmt[c]) : AppendLog(c, NextQnum(c), status)
              /\ StandingOf(c)' = "judged" /\ OutcomeOf(c)' = OutcomeOf(c)
           \/ log' = log /\ StandingOf(c)' = "idle" /\ OutcomeOf(c)' = "failed"
    PROVE  Contract!Decline(c)
<1>1. Contract!DrawNumber(c)
  BY DEF Contract!DrawNumber
<1>2. CASE log' = log /\ StandingOf(c)' = "idle" /\ OutcomeOf(c)' = "failed"
  BY <1>1, <1>2, ToClose DEF Contract!Decline
<1>3. CASE /\ \E status \in Contract!Dodges(stmt[c]) : AppendLog(c, NextQnum(c), status)
           /\ StandingOf(c)' = "judged" /\ OutcomeOf(c)' = OutcomeOf(c)
  <2>1. PICK status \in Contract!Dodges(stmt[c]) : AppendLog(c, NextQnum(c), status)
    BY <1>3
  <2>2. Contract!Record(c, status)
    BY <2>1 DEF Contract!Record, AppendLog, NextQnum, TypeOK
  <2>3. \A d \in Conns : OutcomeOf(d)' = OutcomeOf(d)
    BY <1>3 DEF OthersMapped
  <2>4. [d \in Conns |-> StandingOf(d)]' = [[d \in Conns |-> StandingOf(d)] EXCEPT ![c] = "judged"]
    BY <1>3 DEF OthersMapped
  <2>. QED  BY <1>1, <2>2, <2>3, <2>4 DEF Contract!Decline
<1>. QED  BY <1>2, <1>3

LEMMA ToEnd ==
    ASSUME NEW c \in Conns, OthersMapped(c), UNCHANGED <<stmt, log_qnum, log>>,
           StandingOf(c) # "idle", StandingOf(c)' = "idle"
    PROVE  /\ OutcomeOf(c)' = "failed" => Contract!Abort(c)
           /\ OutcomeOf(c)' = "rows" /\ StandingOf(c) \in {"open", "judged"} =>
                 Contract!Succeed(c)
BY ToClose DEF Contract!Abort, Contract!Succeed

LEMMA ClientMaps ==
    ASSUME IInv, NEW c \in Conns, Client(c), OthersMapped(c)
    PROVE  (\E q \in Statements : Contract!Submit(c, q)) \/ UNCHANGED Contract!vars
<1>1. ASSUME NEW w \in Settings, SetOption(c, w) PROVE UNCHANGED Contract!vars
  BY <1>1, ToStutter DEF SetOption, StandingOf, OutcomeOf, ghostVars
<1>2. ASSUME Interrupt(c) PROVE UNCHANGED Contract!vars
  BY <1>2, ToStutter DEF Interrupt, StandingOf, OutcomeOf, ghostVars
<1>3. ASSUME NEW q \in Statements, Submit(c, q) PROVE Contract!Submit(c, q)
  <2>1. /\ StandingOf(c) = "idle" /\ StandingOf(c)' = "open" /\ OutcomeOf(c)' = "none"
        /\ stmt' = [stmt EXCEPT ![c] = q] /\ UNCHANGED <<log_qnum, log>>
    BY <1>3, Known DEF Submit, StandingOf, OutcomeOf
  <2>. QED  BY <2>1 DEF Contract!Submit, OthersMapped
<1>. QED  BY <1>1, <1>2, <1>3 DEF Client

LEMMA HookMaps ==
    ASSUME IInv, NEW c \in Conns, ClientView(c), Hook(c), OthersMapped(c)
    PROVE  Contract!Intercept(c) \/ Contract!Decline(c) \/ UNCHANGED Contract!vars
<1>1. phase[c] = "planned" /\ StandingOf(c) = "open" /\ answer[c] = "none" /\ ~judged[c] /\ TypeOK
  BY DEF Hook, PassThrough, RefuseProfiled, BadDialect, Bypass, BeginRewrite, Intercept,
     ClientView, Standing, Answering, StandingOf, IInv
<1>2. ASSUME PassThrough(c) PROVE UNCHANGED Contract!vars
  BY <1>1, <1>2, ToStutter, Known
  DEF PassThrough, Goto, StandingOf, OutcomeOf, clientVars, ghostVars
<1>3. ASSUME RefuseProfiled(c) PROVE Contract!Decline(c)
  <2>1. "UNSUPPORTED" \in Contract!Dodges(stmt[c])
    BY DEF Contract!Dodges
  <2>2. IF LogMode THEN StandingOf(c)' = "judged" /\ OutcomeOf(c)' = OutcomeOf(c)
                   ELSE StandingOf(c)' = "idle" /\ OutcomeOf(c)' = "failed"
    BY <1>1, <1>3, Known DEF RefuseProfiled, Goto, End, StandingOf, OutcomeOf
  <2>. QED  BY <1>1, <1>3, <2>1, <2>2, ToDecline DEF RefuseProfiled, AppendLog, clientVars
<1>4. ASSUME BadDialect(c) PROVE Contract!Decline(c)
  <2>1. StandingOf(c)' = "idle" /\ OutcomeOf(c)' = "failed"
    BY <1>4, Known DEF BadDialect, End, StandingOf, OutcomeOf
  <2>. QED
    BY <1>1, <1>4, <2>1, ToDecline DEF BadDialect, Intercept, StartCheck, clientVars
<1>5. ASSUME Bypass(c) PROVE Contract!Decline(c)
  <2>1. "NONDETERMINISTIC" \in Contract!Dodges(stmt[c])
    BY <1>5 DEF Bypass, Contract!Dodges
  <2>2. StandingOf(c)' = "judged" /\ OutcomeOf(c)' = OutcomeOf(c)
    BY <1>1, <1>5, Known DEF Bypass, Goto, StandingOf, OutcomeOf
  <2>. QED
    BY <1>1, <1>5, <2>1, <2>2, ToDecline DEF Bypass, Intercept, StartCheck, clientVars
<1>6. ASSUME BeginRewrite(c) PROVE Contract!Intercept(c)
  <2>1. StandingOf(c)' = "taken" /\ OutcomeOf(c)' = OutcomeOf(c)
    BY <1>1, <1>6, Known DEF BeginRewrite, Intercept, Goto, StandingOf, OutcomeOf
  <2>. QED
    BY <1>1, <1>6, <2>1, ToIntercept DEF BeginRewrite, Intercept, StartCheck, clientVars
<1>. QED  BY <1>2, <1>3, <1>4, <1>5, <1>6 DEF Hook

LEMMA RewriteMaps ==
    ASSUME IInv, NEW c \in Conns, ClientView(c), NumberUnused(c), Rewrite(c), OthersMapped(c)
    PROVE  Contract!Judge(c) \/ UNCHANGED Contract!vars
<1>1. /\ phase[c] \in Rewriting /\ StandingOf(c) = "taken" /\ answer[c] = "none" /\ TypeOK
      /\ LogMode => run[c].qnum = log_qnum[c]
  BY DEF Rewrite, OriginalReplanFails, OriginalReplanned, TranslationFails, Translated,
     RewrittenReplanFails, CheckPlanned, Rewriting, ClientView, Standing, Answering,
     StandingOf, NumberUnused, Pending, IInv
<1>2. ASSUME NEW status \in {"UNSUPPORTED", "FAIL"}, RewriteFails(c, status)
      PROVE  Contract!Judge(c)
  <2>1. status \in Contract!Dodges(stmt[c])
    BY DEF Contract!Dodges
  <2>2. IF LogMode THEN StandingOf(c)' = "judged" /\ OutcomeOf(c)' = OutcomeOf(c)
                   ELSE StandingOf(c)' = "idle" /\ OutcomeOf(c)' = "failed"
    BY <1>1, <1>2, Known DEF RewriteFails, Goto, End, StandingOf, OutcomeOf, Rewriting
  <2>. QED  BY <1>1, <1>2, <2>1, <2>2, ToJudge DEF RewriteFails, clientVars
<1>3. ASSUME OriginalReplanned(c) \/ Translated(c) \/ CheckPlanned(c)
      PROVE  UNCHANGED Contract!vars
  <2>1. UNCHANGED <<stmt, log, answer, taken, judged>> /\ phase'[c] # "idle"
    BY <1>3, Known DEF OriginalReplanned, Translated, CheckPlanned, Goto, clientVars, ghostVars
  <2>2. UNCHANGED log_qnum
    BY <1>1, <1>3, NestedHookIdle DEF OriginalReplanned, Translated, CheckPlanned
  <2>. QED  BY <1>1, <2>1, <2>2, ToStutter DEF StandingOf, OutcomeOf, Rewriting
<1>. QED
  BY <1>2, <1>3
  DEF Rewrite, OriginalReplanFails, TranslationFails, RewrittenReplanFails, RewrittenReplanStatus

\* The verdict is one step that looks at the two complete bags.
LEMMA VerdictMaps ==
    ASSUME IInv, NEW c \in Conns, ClientView(c), NumberUnused(c), OthersMapped(c),
           phase[c] \in {"union", "recursive"}, ~judged[c], UNCHANGED <<stmt, log_qnum, taken>>,
           NEW equal \in BOOLEAN, equal <=> Agree(stmt[c]),
           NEW next \in Phases \ {"idle"}, ActOnMatch(c, equal, next)
    PROVE  Contract!Judge(c)
<1>. DEFINE status == MatchStatus(c, equal)
<1>1. /\ TypeOK /\ StandingOf(c) = "taken" /\ answer[c] = "none"
      /\ LogMode => run[c].qnum = log_qnum[c]
  BY DEF ClientView, Standing, Answering, StandingOf, NumberUnused, Pending, IInv
<1>2. status \in Contract!Verdicts(stmt[c]) /\ status \notin {"UNSUPPORTED", "FAIL"}
  <2>1. ExcusesCurrent(c) /\ stmt[c].nondet \in BOOLEAN /\ stmt[c].multirow \in BOOLEAN
    BY Known, StmtRows DEF IInv, RunCurrent
  <2>2. Contract!Agree(stmt[c]) <=> Agree(stmt[c])
    BY DEF Contract!Agree, Agree
  <2>. QED  BY <2>1, <2>2 DEF MatchStatus, Excused, ExcusesCurrent, Contract!Verdicts
<1>3. IF ~LogMode /\ status = "WRONG"
      THEN StandingOf(c)' = "idle" /\ OutcomeOf(c)' = "failed"
      ELSE StandingOf(c)' = "judged" /\ OutcomeOf(c)' = OutcomeOf(c)
  BY <1>1, Known DEF ActOnMatch, Goto, End, StandingOf, OutcomeOf
<1>4. AppendLog(c, run[c].qnum, status)
  BY DEF ActOnMatch
<1>. HIDE DEF status
<1>. QED  BY <1>1, <1>2, <1>3, <1>4, ToJudge

LEMMA ExecuteMaps ==
    ASSUME IInv, NEW c \in Conns, ClientView(c), NumberUnused(c), Execute(c), OthersMapped(c)
    PROVE  Contract!Judge(c) \/ Contract!Succeed(c) \/ Contract!Abort(c)
           \/ UNCHANGED Contract!vars
<1>1. ASSUME NEW a \in {"error", "interrupted"}, End(c, a), phase[c] # "idle",
             UNCHANGED <<stmt, log_qnum, log>>
      PROVE  Contract!Abort(c)
  <2>1. StandingOf(c) # "idle" /\ StandingOf(c)' = "idle" /\ OutcomeOf(c)' = "failed"
    BY <1>1, Known DEF End, StandingOf, OutcomeOf
  <2>. QED  BY <1>1, <2>1, ToEnd
<1>2. ASSUME End(c, "rows"), phase[c] # "idle", taken[c] => judged[c],
             UNCHANGED <<stmt, log_qnum, log>>
      PROVE  Contract!Succeed(c)
  <2>1. /\ StandingOf(c) \in {"open", "judged"}
        /\ StandingOf(c)' = "idle" /\ OutcomeOf(c)' = "rows"
    BY <1>2, Known DEF End, StandingOf, OutcomeOf
  <2>. QED  BY <1>2, <2>1, ToEnd
<1>3. ASSUME NEW s \in Sides, SideStep(c, s)
      PROVE  Contract!Judge(c) \/ Contract!Abort(c) \/ UNCHANGED Contract!vars
  <2>1. ASSUME Claim(c, s) \/ Accumulate(c, s) \/ OnSideDone(c, s)
        PROVE  UNCHANGED Contract!vars
    <3>1. UNCHANGED <<stmt, log_qnum, log, phase, answer, taken, judged>>
      BY <2>1 DEF Claim, Accumulate, OnSideDone, clientVars, ghostVars
    <3>. QED  BY <3>1, ToStutter DEF StandingOf, OutcomeOf
  <2>2. ASSUME SideThrows(c, s) PROVE Contract!Abort(c)
    BY <1>1, <2>2 DEF SideThrows, clientVars
  <2>3. ASSUME ActOnVerdict(c, s) PROVE Contract!Judge(c)
    <3>. DEFINE equal == run[c].sum["hash"] = run[c].sum["cmp"]
    <3>1. /\ phase[c] = "union" /\ side[c][s] = "last" /\ ActOnMatch(c, equal, "union")
          /\ UNCHANGED <<stmt, log_qnum, taken>>
      BY <2>3 DEF ActOnVerdict, clientVars
    <3>2. equal <=> Agree(stmt[c])
      BY <3>1, SumsComplete DEF Agree, Sides
    <3>3. equal \in BOOLEAN /\ "union" \in Phases \ {"idle"} /\ ~judged[c]
      BY <3>1 DEF Phases, Running, ClientView, Standing
    <3>. HIDE DEF equal
    <3>. QED  BY <3>1, <3>2, <3>3, VerdictMaps
  <2>. QED  BY <1>3, <2>1, <2>2, <2>3 DEF SideStep
<1>4. ASSUME JudgeRecursive(c) PROVE Contract!Judge(c)
  <2>. DEFINE o == stmt[c].rows["hash"]
              w == stmt[c].rows["cmp"]
              equal == NotExists(ExceptAll(o, w)) /\ NotExists(ExceptAll(w, o))
  <2>1. /\ phase[c] = "recursive" /\ ActOnMatch(c, equal, "cross_join")
        /\ UNCHANGED <<stmt, log_qnum, taken>>
    BY <1>4 DEF JudgeRecursive, clientVars
  <2>2. equal <=> Agree(stmt[c])
    <3>1. stmt[c].rows \in [Sides -> [Rows -> Nat]]
      BY <2>1, StmtRows DEF IInv, StmtKnown
    <3>. QED  BY <3>1, ExceptAllFacts DEF Agree, Sides
  <2>3. equal \in BOOLEAN /\ "cross_join" \in Phases \ {"idle"} /\ ~judged[c]
    BY <2>1 DEF Phases, Running, NotExists, ClientView, Standing
  <2>. HIDE DEF equal
  <2>. QED  BY <2>1, <2>2, <2>3, VerdictMaps
<1>5. ASSUME FinishUnion(c) \/ ReturnRows(c) PROVE Contract!Succeed(c)
  <2>1. /\ phase[c] # "idle" /\ End(c, "rows") /\ UNCHANGED <<stmt, log_qnum, log>>
        /\ taken[c] => judged[c]
    BY <1>5 DEF FinishUnion, ReturnRows, ClientView, Standing, clientVars
  <2>. QED  BY <1>2, <2>1
<1>6. ASSUME RecursiveThrows(c) \/ OriginalThrows(c) \/ Cancelled(c) PROVE Contract!Abort(c)
  BY <1>1, <1>6 DEF RecursiveThrows, OriginalThrows, Cancelled, Running, clientVars
<1>. QED  BY <1>3, <1>4, <1>5, <1>6 DEF Execute

\* Every step of the checker is a step of the contract, or none.
LEMMA StepMaps == CInv /\ [Next]_vars => [Contract!Next]_Contract!vars
<1>. SUFFICES ASSUME CInv, [Next]_vars PROVE Contract!Next \/ UNCHANGED Contract!vars
  OBVIOUS
<1>1. ASSUME NEW c \in Conns, Acts(c) PROVE Contract!Next \/ UNCHANGED Contract!vars
  <2>1. IInv /\ ClientView(c) /\ NumberUnused(c) /\ OthersMapped(c)
    BY <1>1, OthersSeen DEF CInv, Numbering
  <2>2. \/ \E q \in Statements : Contract!Submit(c, q)
        \/ Contract!Intercept(c) \/ Contract!Decline(c) \/ Contract!Judge(c)
        \/ Contract!Succeed(c) \/ Contract!Abort(c)
        \/ UNCHANGED Contract!vars
    BY <1>1, <2>1, ClientMaps, HookMaps, RewriteMaps, ExecuteMaps DEF Acts
  <2>. QED  BY <2>2 DEF Contract!Next
<1>2. ASSUME UNCHANGED vars PROVE UNCHANGED Contract!vars
  BY <1>2 DEF vars, clientVars, ghostVars, Contract!vars, StandingOf, OutcomeOf
<1>. QED  BY <1>1, <1>2 DEF Next, Acts

\* The checker keeps CheckContract's promise: however planning, threads and counters spread
\* the work, a statement is judged at most once, by one step that looks at its two complete
\* bags, under the number it drew, and only then does it succeed.
THEOREM KeepsContract == Spec => ContractSpec
BY InitMaps, StepMaps, CInductive, PTL DEF Spec, ContractSpec, Contract!Spec

==============================================================================
