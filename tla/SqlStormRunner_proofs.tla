------------------------ MODULE SqlStormRunner_proofs ------------------------
(***************************************************************************)
(* Proofs about the SQLStorm driver and its worker, for any workload.  The *)
(* exchange of one query goes through three stages: the query is sent, its *)
(* phases run, and an answer, a cut message or nothing at all is left in   *)
(* the pipe.  What is in the pipe, and the state the worker's database is  *)
(* in, always stems from the query being submitted, unless an INTERNAL     *)
(* error of an earlier LPTS phase poisoned the database.                   *)
(***************************************************************************)
EXTENDS SqlStormRunner, FiniteSetTheorems, SequenceTheorems, TLAPS

\* The driver knows of one process at most, and only that one has not been reaped.
ProcessInv ==
    /\ \A p \in DOMAIN proc : p # child_pid => proc[p] = "reaped"
    /\ child_pid # 0 => (proc[child_pid] = "alive" <=> child.pc # "gone")
    /\ pc \in {"submit", "top", "wait", "idle", "reap", "stopping"} => child_pid # 0
    /\ pc \in {"start", "report", "done"} => child_pid = 0

\* Where in the list the driver is.
PositionInv ==
    /\ Len(summaries) = i - 1
    /\ pc \in {"submit", "top", "wait", "idle", "reap", "returned", "track"} => i <= Len(queries)
    /\ pc \in {"submit", "top", "wait", "idle", "reap"} => ~queries[i].empty
    /\ pc \in {"report", "done"} => i > Len(queries)
    /\ pc = "done" /\ exit_code = 0 => Successes = Len(queries)

\* A connection checks its SELECTs in the last phase and in no other.
CheckingInv ==
    child.pc \notin {"exiting", "gone"} => (child.lpts_check <=> child.pc = "lpts_check")

\* A state that the current query has deserved, or a crash that a poisoned database explains.
FairState(st, opened) ==
    IF st = "CRASH" THEN Poisoned(i) \/ ~opened \/ Ran(i) \cap {"fatal", "dies"} # {}
    ELSE Deserved(i, [state |-> st, opened |-> TRUE])

FairMessage(m) ==
    /\ m.sql = i
    /\ m.kind = "phase" /\ m.phase # "duckdb" => FineInDuckDB(i) /\ (expired \/ past_duckdb)
    /\ m.kind = "result" => m.state \notin Timeouts /\ FairState(m.state, TRUE)
FairPipe ==
    \A k \in DOMAIN from_child :
        /\ FairMessage(from_child[k])
        /\ k < Len(from_child) => from_child[k].kind = "phase"

AtRest ==
    /\ child.pc \in {"opening", "waiting", "gone"}
    /\ child.pc # "waiting" => ~child.opened
Quiet == to_child = << >> /\ from_child = << >>

\* The phases before ph went well.
Passed(ph) ==
    /\ ph \in {"lpts_generate", "lpts_exec"} => compare_perf
    /\ ph # "duckdb" => FineInDuckDB(i)
    /\ compare_perf /\ ph \in {"lpts_exec", "lpts_check"} =>
          queries[i].does["lpts_generate"] \in {"ok", "hogs"}
    /\ compare_perf /\ ph = "lpts_check" => queries[i].does["lpts_exec"] \in {"ok", "hogs"}

\* The three stages of an exchange.
Sent ==
    /\ AtRest /\ to_child = <<i>> /\ from_child = << >>
    /\ ~child.valid => Poisoned(i)
Running ==
    /\ child.pc \in QueryPhases /\ child.sql = i /\ to_child = << >>
    /\ \A k \in DOMAIN from_child : from_child[k].kind = "phase"
    /\ Passed(child.pc)
    /\ ~child.valid => Poisoned(i) /\ child.pc = "duckdb"
Breaks(st, internal) ==
    \/ st = "DUCKDB_ERROR" /\ internal
    \/ st = "LPTS_ERROR" /\ "internal" \in Ran(i)
Ended ==
    /\ child.pc \in {"waiting", "exiting", "gone"} /\ to_child = << >>
    /\ child.pc # "waiting" => FairState("CRASH", TRUE)
    /\ \A k \in DOMAIN from_child :
          /\ from_child[k].kind = "result" =>
                /\ from_child[k].state = "CRASH" <=> child.pc # "waiting"
                /\ ~child.valid /\ child.pc = "waiting" =>
                      Breaks(from_child[k].state, from_child[k].internal)
          /\ from_child[k].kind \in {"cut_early", "cut_late"} => child.pc = "gone"

\* How a query leaves the database invalidated for the next.
Poisons ==
    \/ Poisoned(i) /\ queries[i].empty
    \/ result.state = "LPTS_ERROR" /\ "internal" \in Ran(i)

ExchangeInv ==
    /\ pc \in {"next", "submit"} /\ child_pid # 0 =>
          AtRest /\ Quiet /\ (~child.valid => Poisoned(i))
    /\ Polling =>
          /\ FairPipe /\ (Sent \/ Running \/ Ended)
          /\ active_phase # "duckdb" => FineInDuckDB(i) /\ past_duckdb
    /\ pc = "reap" => FairState("CRASH", TRUE)
    /\ pc \in {"returned", "track"} /\ child_pid # 0 /\ ~NeedsStop =>
          AtRest /\ Quiet /\ (~child.valid => Poisons)
    /\ pc = "track" /\ child_pid # 0 => ~NeedsStop

VerdictInv ==
    /\ pc \in {"returned", "stop", "stopping", "track"} /\ i <= Len(queries) =>
          /\ FairState(result.state, child.opened)
          /\ result.state = "CRASH" => child_pid = 0 \/ child.pc = "gone"
    /\ LptsTimeoutsDeserved

RunnerInv ==
    /\ StormTypeOK /\ ProcessInv /\ PositionInv /\ CheckingInv
    /\ ExchangeInv /\ VerdictInv /\ JudgedByItself

------------------------------------------------------------------------------
(* Types.                                                                  *)

ChildTypes ==
    [pc : QueryPhases \cup {"opening", "waiting", "exiting", "gone"}, sql : Nat,
     valid : BOOLEAN, lpts_check : BOOLEAN, opened : BOOLEAN]

LEMMA MessageFacts ==
    ASSUME NEW m \in Message
    PROVE  /\ m.kind \in {"phase", "result", "cut_early", "cut_late"} /\ m.sql \in Nat
           /\ m.kind = "phase" => m.phase \in QueryPhases
           /\ m.kind = "result" => m.state \in States /\ m.internal \in BOOLEAN
BY DEF Message

LEMMA MessagesTyped ==
    ASSUME NEW k \in Nat
    PROVE  /\ \A ph \in QueryPhases : [kind |-> "phase", phase |-> ph, sql |-> k] \in Message
           /\ \A st \in States : \A internal \in BOOLEAN :
                 [kind |-> "result", sql |-> k, state |-> st, internal |-> internal] \in Message
           /\ \A part \in {"cut_early", "cut_late"} : [kind |-> part, sql |-> k] \in Message
BY DEF Message

LEMMA ChildFacts ==
    ASSUME StormTypeOK
    PROVE  /\ child.pc \in QueryPhases \cup {"opening", "waiting", "exiting", "gone"}
           /\ child.sql \in Nat
           /\ child \in ChildTypes
           /\ child.valid \in BOOLEAN /\ child.lpts_check \in BOOLEAN /\ child.opened \in BOOLEAN
<1>1. child \in ChildTypes
  BY DEF StormTypeOK, ChildTypes
<1>. QED  BY <1>1 DEF ChildTypes

\* Setting the state of the process the driver knows of.
LEMMA ProcSet ==
    ASSUME StormTypeOK, child_pid # 0, NEW st \in {"alive", "zombie", "reaped"},
           proc' = [proc EXCEPT ![child_pid] = st]
    PROVE  /\ proc' \in Seq({"alive", "zombie", "reaped"})
           /\ Len(proc') = Len(proc) /\ DOMAIN proc' = DOMAIN proc
           /\ child_pid \in DOMAIN proc /\ proc'[child_pid] = st
           /\ \A p \in DOMAIN proc : p # child_pid => proc'[p] = proc[p]
<1>1. /\ proc \in Seq({"alive", "zombie", "reaped"}) /\ child_pid \in 0..Len(proc)
      /\ Len(proc) \in Nat
  BY DEF StormTypeOK
<1>2. child_pid \in 1..Len(proc) /\ DOMAIN proc = 1..Len(proc)
  BY <1>1
<1>3. DOMAIN proc' = DOMAIN proc
  OBVIOUS
<1>. QED  BY <1>1, <1>2, <1>3, ExceptSeq

LEMMA TypeInit == StormInit => StormTypeOK
<1>. SUFFICES ASSUME StormInit PROVE StormTypeOK
  OBVIOUS
<1>1. queries \in Seq(Query)
  BY WorkloadsAssumption DEF StormInit
<1>2. i \in 1..(Len(queries) + 1)
  BY <1>1 DEF StormInit
<1>3. child \in ChildTypes
  BY DEF StormInit, Fresh, ChildTypes
<1>4. /\ proc \in Seq({"alive", "zombie", "reaped"}) /\ child_pid \in 0..Len(proc)
      /\ to_child \in Seq(Nat) /\ from_child \in Seq(Message)
      /\ summaries \in Seq([state : States, opened : BOOLEAN])
  BY DEF StormInit
<1>5. result \in [state : States, internal : BOOLEAN] /\ torn \in 0..MaxTorn
      /\ active_phase \in QueryPhases
  BY MaxTornAssumption DEF StormInit, NoResult, States, QueryPhases
<1>6. expired \in BOOLEAN /\ past_duckdb \in BOOLEAN
  BY Zenon DEF StormInit
<1>7. queries \in Workloads /\ compare_perf \in BOOLEAN /\ pc = "start" /\ exit_code \in {0, 1}
  BY DEF StormInit
<1>. QED  BY <1>2, <1>3, <1>4, <1>5, <1>6, <1>7 DEF StormTypeOK, ChildTypes

\* What the worker does: its process, its connection, the pipes and the ghost change.
LEMMA TypeChild ==
    ASSUME StormTypeOK, Child
    PROVE  StormTypeOK'
<1>1. /\ Alive /\ child_pid # 0
      /\ UNCHANGED <<queries, compare_perf, pc, i, child_pid, submitVars, doneVars>>
  BY DEF Child, ChildOpens, ChildReads, ChildAdvances, ChildAnswers, ChildExits, ChildKilled,
         argVars, Alive
<1>2. /\ proc' \in Seq({"alive", "zombie", "reaped"}) /\ Len(proc') = Len(proc)
  <2>1. proc' = proc \/ Dies
    BY DEF Child, ChildOpens, ChildReads, ChildAdvances, ChildAnswers, ChildExits, ChildKilled
  <2>2. CASE proc' = proc
    BY <2>2 DEF StormTypeOK
  <2>3. CASE Dies
    BY <1>1, <2>3, ProcSet DEF Dies
  <2>. QED  BY <2>1, <2>2, <2>3
<1>3. child' \in ChildTypes
  <2>1. child \in ChildTypes /\ to_child \in Seq(Nat)
    BY ChildFacts DEF StormTypeOK
  <2>2. CASE ChildOpens \/ ChildExits \/ ChildKilled
    BY <2>1, <2>2 DEF ChildOpens, ChildExits, ChildKilled, ChildTypes
  <2>3. CASE ChildReads
    <3>1. Head(to_child) \in Nat
      BY <2>1, <2>3, HeadTailProperties DEF ChildReads
    <3>2. \/ child' = [child EXCEPT !.pc = "gone"]
          \/ child' = [child EXCEPT !.pc = "duckdb", !.sql = Head(to_child)]
      BY <2>3 DEF ChildReads
    <3>. QED  BY <2>1, <3>1, <3>2 DEF ChildTypes, QueryPhases
  <2>4. CASE ChildAdvances
    <3>1. PICK next \in QueryPhases :
             child' = [child EXCEPT !.pc = next, !.lpts_check = (next = "lpts_check")]
      BY <2>4 DEF ChildAdvances, NextPhase, QueryPhases, LptsPhases
    <3>2. (next = "lpts_check") \in BOOLEAN
      OBVIOUS
    <3>. QED  BY <2>1, <3>1, <3>2 DEF ChildTypes
  <2>5. CASE ChildAnswers
    <3>1. PICK p \in {"exiting", "waiting"}, v \in BOOLEAN :
             child' = [child EXCEPT !.pc = p, !.valid = v, !.lpts_check = FALSE]
      <4>1. (child.valid /\ Outcome \notin {"internal", "fatal"}) \in BOOLEAN
        OBVIOUS
      <4>. QED  BY <2>5, <4>1 DEF ChildAnswers
    <3>. QED  BY <2>1, <3>1 DEF ChildTypes
  <2>. QED  BY <2>2, <2>3, <2>4, <2>5 DEF Child
<1>4. to_child' \in Seq(Nat) /\ from_child' \in Seq(Message)
  <2>1. /\ to_child \in Seq(Nat) /\ from_child \in Seq(Message) /\ child.sql \in Nat
    BY ChildFacts DEF StormTypeOK
  <2>2. CASE ChildOpens \/ ChildExits
    BY <2>1, <2>2 DEF ChildOpens, ChildExits, pipeVars
  <2>3. CASE ChildReads
    <3>1. Head(to_child) \in Nat /\ to_child' \in Seq(Nat)
      BY <2>1, <2>3, HeadTailProperties DEF ChildReads
    <3>2. [kind |-> "phase", phase |-> "duckdb", sql |-> Head(to_child)] \in Message
      BY <3>1, MessagesTyped DEF QueryPhases
    <3>3. \/ from_child' = from_child
          \/ from_child' = Append(from_child, [kind |-> "phase", phase |-> "duckdb",
                                               sql |-> Head(to_child)])
      BY <2>3 DEF ChildReads
    <3>. QED  BY <2>1, <3>1, <3>2, <3>3, AppendProperties
  <2>4. CASE ChildAdvances
    <3>1. PICK next \in QueryPhases : from_child' = Append(from_child, Phase(next))
      BY <2>4 DEF ChildAdvances, NextPhase, QueryPhases, LptsPhases
    <3>2. Phase(next) \in Message
      BY <2>1, MessagesTyped DEF Phase
    <3>. QED  BY <2>1, <2>4, <3>1, <3>2, AppendProperties DEF ChildAdvances
  <2>5. CASE ChildAnswers
    <3>1. PICK st \in States, internal \in BOOLEAN :
             from_child' = Append(from_child, Answer(st, internal))
      <4>1. (Outcome = "internal") \in BOOLEAN
        OBVIOUS
      <4>. QED  BY <2>5, <4>1 DEF ChildAnswers, StateOf, States
    <3>2. Answer(st, internal) \in Message
      BY <2>1, MessagesTyped DEF Answer
    <3>. QED  BY <2>1, <2>5, <3>1, <3>2, AppendProperties DEF ChildAnswers
  <2>6. CASE ChildKilled
    <3>1. \A part \in {"cut_early", "cut_late"} : Cut(part) \in Message
      BY <2>1, MessagesTyped DEF Cut
    <3>2. /\ to_child' = to_child
          /\ \/ from_child' = from_child
             \/ \E part \in {"cut_early", "cut_late"} : from_child' = Append(from_child, Cut(part))
      BY <2>6 DEF ChildKilled
    <3>3. \A part \in {"cut_early", "cut_late"} : Append(from_child, Cut(part)) \in Seq(Message)
      BY <2>1, <3>1, AppendProperties
    <3>. QED  BY <2>1, <3>2, <3>3
  <2>. QED  BY <2>2, <2>3, <2>4, <2>5, <2>6 DEF Child
<1>5. torn' \in 0..MaxTorn
  BY MaxTornAssumption
     DEF Child, ChildOpens, ChildReads, ChildAdvances, ChildAnswers, ChildExits, ChildKilled, StormTypeOK
<1>6. past_duckdb' \in BOOLEAN
  <2>1. CASE ChildAdvances
    <3>1. (past_duckdb \/ ~expired) \in BOOLEAN
      OBVIOUS
    <3>. QED  BY <2>1, <3>1 DEF ChildAdvances
  <2>2. CASE ~ChildAdvances
    BY <2>2 DEF Child, ChildOpens, ChildReads, ChildAnswers, ChildExits, ChildKilled, StormTypeOK
  <2>. QED  BY <2>1, <2>2
<1>. QED  BY <1>1, <1>2, <1>3, <1>4, <1>5, <1>6 DEF StormTypeOK, ChildTypes, submitVars, doneVars

\* The ways a query ends, as far as types go.
LEMMA TypeEnds ==
    ASSUME StormTypeOK, child_pid # 0, CrashReaped \/ KillForTimeout
    PROVE  /\ proc' \in Seq({"alive", "zombie", "reaped"}) /\ child_pid' \in 0..Len(proc')
           /\ result' \in [state : States, internal : BOOLEAN]
           /\ pc' = "returned"
<1>1. proc' = [proc EXCEPT ![child_pid] = "reaped"] /\ child_pid' = 0 /\ pc' = "returned"
  BY DEF CrashReaped, KillForTimeout
<1>2. proc' \in Seq({"alive", "zombie", "reaped"})
  BY <1>1, ProcSet
<1>3. PICK st \in States : result' = [result EXCEPT !.state = st]
  BY DEF CrashReaped, KillForTimeout, States, Timeouts
<1>4. result' \in [state : States, internal : BOOLEAN]
  BY <1>3 DEF StormTypeOK
<1>. QED  BY <1>1, <1>2, <1>4

DriverAt ==
    {"start", "next", "submit", "top", "wait", "idle", "reap", "returned", "stop",
     "stopping", "track", "report", "done"}

\* A step of the driver that leaves the worker's own state alone, by what it may change.
LEMMA TypeDriverStep ==
    ASSUME StormTypeOK, UNCHANGED <<queries, compare_perf, child, torn>>,
           pc' \in DriverAt, i' \in 1..(Len(queries) + 1),
           proc' \in Seq({"alive", "zombie", "reaped"}), child_pid' \in 0..Len(proc'),
           to_child' \in Seq(Nat), from_child' \in Seq(Message),
           active_phase' \in QueryPhases, expired' \in BOOLEAN, past_duckdb' \in BOOLEAN,
           result' \in [state : States, internal : BOOLEAN],
           summaries' \in Seq([state : States, opened : BOOLEAN]), exit_code' \in {0, 1}
    PROVE  StormTypeOK'
BY DEF StormTypeOK, DriverAt

LEMMA TypeDriver ==
    ASSUME StormTypeOK, ProcessInv, PositionInv, Driver
    PROVE  StormTypeOK'
<1>. DEFINE Kept1 == /\ i \in 1..(Len(queries) + 1)
                     /\ proc \in Seq({"alive", "zombie", "reaped"}) /\ child_pid \in 0..Len(proc)
                     /\ to_child \in Seq(Nat) /\ from_child \in Seq(Message)
            Kept2 == /\ active_phase \in QueryPhases /\ expired \in BOOLEAN
                     /\ past_duckdb \in BOOLEAN
                     /\ result \in [state : States, internal : BOOLEAN]
                     /\ summaries \in Seq([state : States, opened : BOOLEAN])
                     /\ exit_code \in {0, 1}
<1>0. Kept1 /\ Kept2
  BY DEF StormTypeOK
<1>. USE DEF argVars, childVars, pipeVars, submitVars, doneVars
<1>1. CASE Start
  <2>1. /\ proc' = Append(proc, "alive") /\ child_pid' = Len(proc) + 1
        /\ to_child' = << >> /\ from_child' = << >> /\ pc' = "next"
        /\ child' = Fresh
        /\ UNCHANGED <<queries, compare_perf, i, torn, past_duckdb, submitVars, doneVars>>
    BY <1>1 DEF Start
  <2>2. /\ proc' \in Seq({"alive", "zombie", "reaped"}) /\ Len(proc') = Len(proc) + 1
        /\ Len(proc) \in Nat
    BY <1>0, <2>1, AppendProperties
  <2>3. child' \in ChildTypes
    BY <2>1 DEF Fresh, ChildTypes
  <2>4. to_child' \in Seq(Nat) /\ from_child' \in Seq(Message) /\ child_pid' \in 0..Len(proc')
    BY <2>1, <2>2
  <2>. QED  BY <2>1, <2>2, <2>3, <2>4 DEF StormTypeOK, ChildTypes
<1>2. CASE TakeQuery
  <2>1. /\ pc' \in DriverAt /\ result' \in [state : States, internal : BOOLEAN]
    <3>1. /\ pc' \in {"stop", "start", "returned", "submit"}
          /\ \/ result' = result \/ result' = NoResult
             \/ result' = [NoResult EXCEPT !.state = "DUCKDB_ERROR"]
      BY <1>2 DEF TakeQuery
    <3>2. /\ NoResult \in [state : States, internal : BOOLEAN]
          /\ [NoResult EXCEPT !.state = "DUCKDB_ERROR"] \in [state : States, internal : BOOLEAN]
      BY DEF NoResult, States
    <3>. QED  BY <1>0, <3>1, <3>2 DEF DriverAt
  <2>. QED  BY <1>0, <1>2, <2>1, TypeDriverStep DEF TakeQuery
<1>3. CASE SubmitQuery
  <2>1. /\ pc' \in DriverAt /\ result' \in [state : States, internal : BOOLEAN]
        /\ proc' \in Seq({"alive", "zombie", "reaped"}) /\ child_pid' \in 0..Len(proc')
    <3>1. CASE Alive
      BY <1>0, <1>3, <3>1 DEF SubmitQuery, DriverAt
    <3>2. CASE ~Alive
      <4>1. CrashReaped /\ child_pid # 0
        BY <1>3, <3>2 DEF SubmitQuery, ProcessInv
      <4>. QED  BY <4>1, TypeEnds DEF DriverAt
    <3>. QED  BY <3>1, <3>2
  <2>2. to_child' \in Seq(Nat)
    <3>1. i \in Nat /\ (to_child' = to_child \/ to_child' = Append(to_child, i))
      BY <1>0, <1>3 DEF SubmitQuery
    <3>2. to_child \in Seq(Nat)
      BY <1>0
    <3>3. Append(to_child, i) \in Seq(Nat)
      BY <3>1, <3>2, AppendProperties
    <3>. QED  BY <3>1, <3>2, <3>3
  <2>3. /\ active_phase' \in QueryPhases /\ expired' \in BOOLEAN /\ past_duckdb' \in BOOLEAN
        /\ UNCHANGED <<queries, compare_perf, i, child, torn, from_child, summaries, exit_code>>
    BY <1>3 DEF SubmitQuery, QueryPhases
  <2>. QED  BY <1>0, <2>1, <2>2, <2>3, TypeDriverStep
<1>4. CASE PollTop
  <2>1. /\ pc' \in DriverAt /\ result' \in [state : States, internal : BOOLEAN]
        /\ proc' \in Seq({"alive", "zombie", "reaped"}) /\ child_pid' \in 0..Len(proc')
    <3>1. CASE expired
      <4>1. KillForTimeout /\ child_pid # 0
        BY <1>4, <3>1 DEF PollTop, ProcessInv
      <4>. QED  BY <4>1, TypeEnds DEF DriverAt
    <3>2. CASE ~expired
      BY <1>0, <1>4, <3>2 DEF PollTop, DriverAt
    <3>. QED  BY <3>1, <3>2
  <2>. QED  BY <1>0, <1>4, <2>1, TypeDriverStep DEF PollTop
<1>5. CASE ReadPhase \/ ReadResult \/ ReadCut
  <2>1. /\ from_child # << >> /\ from_child' = Tail(from_child)
        /\ UNCHANGED <<queries, compare_perf, i, child, torn, past_duckdb, to_child, expired,
                       summaries, exit_code>>
    BY <1>5 DEF ReadPhase, ReadResult, ReadCut
  <2>2. Head(from_child) \in Message /\ from_child' \in Seq(Message)
    BY <1>0, <2>1, HeadTailProperties
  <2>3. CASE ReadPhase
    <3>1. active_phase' \in QueryPhases
      BY <1>0, <2>2, <2>3, MessageFacts DEF ReadPhase, NewPhase
    <3>. QED  BY <1>0, <2>1, <2>2, <2>3, <3>1, TypeDriverStep DEF ReadPhase, DriverAt
  <2>4. CASE ReadResult
    <3>1. /\ result' \in [state : States, internal : BOOLEAN]
      BY <2>2, <2>4, MessageFacts DEF ReadResult
    <3>2. pc' \in DriverAt
      BY <2>4 DEF ReadResult, DriverAt
    <3>. QED  BY <1>0, <2>1, <2>2, <2>4, <3>1, <3>2, TypeDriverStep DEF ReadResult
  <2>5. CASE ReadCut
    <3>1. /\ pc' \in DriverAt /\ result' \in [state : States, internal : BOOLEAN]
          /\ proc' \in Seq({"alive", "zombie", "reaped"}) /\ child_pid' \in 0..Len(proc')
      <4>1. CASE Head(from_child).kind = "cut_early"
        <5>1. CrashReaped /\ child_pid # 0
          BY <2>5, <4>1 DEF ReadCut, ProcessInv
        <5>. QED  BY <5>1, TypeEnds DEF DriverAt
      <4>2. CASE Head(from_child).kind # "cut_early"
        <5>1. /\ result' = [result EXCEPT !.state = "CRASH"] /\ pc' = "returned"
              /\ UNCHANGED <<proc, child_pid>>
          BY <2>5, <4>2 DEF ReadCut
        <5>. QED  BY <1>0, <5>1 DEF DriverAt, States
      <4>. QED  BY <4>1, <4>2
    <3>. QED  BY <1>0, <2>1, <2>2, <2>5, <3>1, TypeDriverStep DEF ReadCut
  <2>. QED  BY <1>5, <2>3, <2>4, <2>5
<1>6. CASE ReapCrashed \/ SeeHangup
  <2>1. CrashReaped /\ child_pid # 0
    BY <1>6 DEF ReapCrashed, SeeHangup, ProcessInv
  <2>2. /\ pc' \in DriverAt /\ result' \in [state : States, internal : BOOLEAN]
        /\ proc' \in Seq({"alive", "zombie", "reaped"}) /\ child_pid' \in 0..Len(proc')
    BY <2>1, TypeEnds DEF DriverAt
  <2>. QED  BY <1>0, <1>6, <2>2, TypeDriverStep DEF ReapCrashed, SeeHangup
<1>7. CASE PollTimesOut
  BY <1>0, <1>7, TypeDriverStep DEF PollTimesOut, DriverAt
<1>8. CASE PollIdle
  <2>1. /\ pc' \in DriverAt /\ result' \in [state : States, internal : BOOLEAN]
        /\ proc' \in Seq({"alive", "zombie", "reaped"}) /\ child_pid' \in 0..Len(proc')
    <3>1. CASE CrashReaped \/ KillForTimeout
      <4>1. child_pid # 0
        BY <1>8 DEF PollIdle, ProcessInv
      <4>. QED  BY <3>1, <4>1, TypeEnds DEF DriverAt
    <3>2. CASE pc' = "top" /\ UNCHANGED <<proc, child_pid, result>>
      BY <1>0, <3>2 DEF DriverAt
    <3>. QED  BY <1>8, <3>1, <3>2 DEF PollIdle
  <2>. QED  BY <1>0, <1>8, <2>1, TypeDriverStep DEF PollIdle
<1>9. CASE Returned \/ Report
  <2>1. pc' \in DriverAt /\ exit_code' \in {0, 1}
    BY <1>0, <1>9 DEF Returned, Report, DriverAt
  <2>. QED  BY <1>0, <1>9, <2>1, TypeDriverStep DEF Returned, Report
<1>10. CASE StopAsks
  <2>1. pc' \in DriverAt
    BY <1>10 DEF StopAsks, AfterStop, DriverAt
  <2>2. to_child' \in Seq(Nat) /\ from_child' \in Seq(Message)
    <3>1. \/ to_child' = << >> \/ to_child' = to_child \/ to_child' = Append(to_child, 0)
      BY <1>10 DEF StopAsks
    <3>2. \/ from_child' = << >> \/ from_child' = from_child
      BY <1>10 DEF StopAsks
    <3>3. to_child \in Seq(Nat) /\ from_child \in Seq(Message)
      BY <1>0
    <3>4. /\ Append(to_child, 0) \in Seq(Nat)
          /\ << >> \in Seq(Nat) /\ << >> \in Seq(Message)
      BY <3>3, AppendProperties
    <3>. QED  BY <3>1, <3>2, <3>3, <3>4
  <2>. QED  BY <1>0, <1>10, <2>1, <2>2, TypeDriverStep DEF StopAsks
<1>11. CASE StopReaps
  <2>1. pc' \in DriverAt
    BY <1>11 DEF StopReaps, AfterStop, DriverAt
  <2>2. proc' \in Seq({"alive", "zombie", "reaped"}) /\ child_pid' \in 0..Len(proc')
    <3>1. /\ child_pid # 0 /\ proc' = [proc EXCEPT ![child_pid] = "reaped"] /\ child_pid' = 0
      BY <1>11 DEF StopReaps, ProcessInv
    <3>. QED  BY <3>1, ProcSet
  <2>3. to_child' \in Seq(Nat) /\ from_child' \in Seq(Message)
    BY <1>11 DEF StopReaps
  <2>. QED  BY <1>0, <1>11, <2>1, <2>2, <2>3, TypeDriverStep DEF StopReaps
<1>12. CASE Track
  <2>1. summaries' \in Seq([state : States, opened : BOOLEAN])
    <3>1. [state |-> result.state, opened |-> child.opened] \in [state : States, opened : BOOLEAN]
      BY <1>0, ChildFacts
    <3>. QED  BY <1>0, <1>12, <3>1, AppendProperties DEF Track
  <2>2. i' \in 1..(Len(queries) + 1)
    <3>1. queries \in Seq(Query)
      BY WorkloadsAssumption DEF StormTypeOK
    <3>2. i <= Len(queries) /\ i' = i + 1 /\ Len(queries) \in Nat
      BY <1>12, <3>1 DEF Track, PositionInv
    <3>. QED  BY <1>0, <3>2
  <2>. QED  BY <1>0, <1>12, <2>1, <2>2, TypeDriverStep DEF Track, DriverAt
<1>. QED  BY <1>1, <1>2, <1>3, <1>4, <1>5, <1>6, <1>7, <1>8, <1>9, <1>10, <1>11, <1>12 DEF Driver

LEMMA TypeStep == StormTypeOK /\ ProcessInv /\ PositionInv /\ [StormNext]_stormVars => StormTypeOK'
<1>. SUFFICES ASSUME StormTypeOK, ProcessInv, PositionInv, [StormNext]_stormVars PROVE StormTypeOK'
  OBVIOUS
<1>1. CASE Expire
  BY <1>1 DEF Expire, StormTypeOK, argVars, childVars, pipeVars, doneVars
<1>2. CASE UNCHANGED stormVars
  BY <1>2 DEF stormVars, StormTypeOK, argVars, childVars, pipeVars, submitVars, doneVars
<1>. QED  BY <1>1, <1>2, TypeChild, TypeDriver DEF StormNext

------------------------------------------------------------------------------
(* Processes.                                                              *)

\* waitpid on the process the driver knows of.
LEMMA Reaping ==
    ASSUME StormTypeOK, ProcessInv, child_pid # 0,
           proc' = [proc EXCEPT ![child_pid] = "reaped"], child_pid' = 0,
           pc' \in {"returned", "report", "track"}
    PROVE  ProcessInv'
<1>1. \A p \in DOMAIN proc' : proc'[p] = "reaped"
  BY ProcSet DEF ProcessInv
<1>. QED  BY <1>1 DEF ProcessInv

LEMMA EndsReap ==
    ASSUME StormTypeOK, ProcessInv, child_pid # 0, CrashReaped \/ KillForTimeout
    PROVE  ProcessInv'
BY Reaping DEF CrashReaped, KillForTimeout

LEMMA ProcessChild ==
    ASSUME StormTypeOK, ProcessInv, Child
    PROVE  ProcessInv'
<1>1. /\ child_pid # 0 /\ proc[child_pid] = "alive" /\ child.pc # "gone"
      /\ UNCHANGED <<child_pid, pc>>
  BY DEF Child, ChildOpens, ChildReads, ChildAdvances, ChildAnswers, ChildExits, ChildKilled,
         Alive, ProcessInv
<1>2. child \in ChildTypes
  BY ChildFacts
<1>3. \/ Dies /\ child'.pc = "gone"
      \/ proc' = proc /\ child'.pc # "gone"
  <2>1. CASE ChildOpens \/ ChildExits \/ ChildKilled \/ ChildReads
    BY <2>1, <1>2 DEF ChildOpens, ChildExits, ChildKilled, ChildReads, ChildTypes
  <2>2. CASE ChildAdvances
    BY <2>2, <1>2 DEF ChildAdvances, ChildTypes, NextPhase
  <2>3. CASE ChildAnswers
    BY <2>3, <1>2 DEF ChildAnswers, ChildTypes
  <2>. QED  BY <2>1, <2>2, <2>3 DEF Child
<1>4. CASE Dies /\ child'.pc = "gone"
  BY <1>1, <1>4, ProcSet DEF Dies, ProcessInv
<1>5. CASE proc' = proc /\ child'.pc # "gone"
  BY <1>1, <1>5 DEF ProcessInv
<1>. QED  BY <1>3, <1>4, <1>5

\* A step of the driver that neither starts a process nor waits for one.
LEMMA ProcessMove ==
    ASSUME ProcessInv, UNCHANGED <<proc, child_pid, child>>,
           \/ pc' \in {"next", "returned", "stop", "track"}
           \/ pc' \in {"submit", "top", "wait", "idle", "reap", "stopping"} /\ child_pid # 0
           \/ pc' \in {"start", "report", "done"} /\ child_pid = 0
    PROVE  ProcessInv'
BY DEF ProcessInv

LEMMA ProcessStep == StormTypeOK /\ ProcessInv /\ [StormNext]_stormVars => ProcessInv'
<1>. SUFFICES ASSUME StormTypeOK, ProcessInv, [StormNext]_stormVars PROVE ProcessInv'
  OBVIOUS
<1>. USE DEF childVars
<1>1. CASE Start
  <2>1. /\ proc' = Append(proc, "alive") /\ child_pid' = Len(proc) + 1
        /\ child'.pc = "opening" /\ pc' = "next" /\ child_pid = 0
    BY <1>1 DEF Start, Fresh, ProcessInv
  <2>2. /\ Len(proc) \in Nat /\ DOMAIN proc' = 1..(Len(proc) + 1) /\ DOMAIN proc = 1..Len(proc)
        /\ proc'[Len(proc) + 1] = "alive"
        /\ \A p \in 1..Len(proc) : proc'[p] = proc[p]
    BY <2>1 DEF StormTypeOK
  <2>. QED  BY <2>1, <2>2 DEF ProcessInv
<1>2. CASE TakeQuery
  BY <1>2, ProcessMove DEF TakeQuery
<1>3. CASE SubmitQuery
  <2>1. CASE Alive
    BY <1>3, <2>1, ProcessMove DEF SubmitQuery, ProcessInv, childVars
  <2>2. CASE ~Alive
    BY <1>3, <2>2, EndsReap DEF SubmitQuery, ProcessInv
  <2>. QED  BY <2>1, <2>2
<1>4. CASE PollTop
  <2>1. CASE expired
    BY <1>4, <2>1, EndsReap DEF PollTop, ProcessInv
  <2>2. CASE ~expired
    BY <1>4, <2>2, ProcessMove DEF PollTop, ProcessInv
  <2>. QED  BY <2>1, <2>2
<1>5. CASE ReadPhase \/ ReadResult \/ PollTimesOut
  BY <1>5, ProcessMove DEF ReadPhase, ReadResult, PollTimesOut, ProcessInv
<1>6. CASE ReapCrashed \/ SeeHangup
  BY <1>6, EndsReap DEF ReapCrashed, SeeHangup, ProcessInv
<1>7. CASE ReadCut
  <2>1. CASE Head(from_child).kind = "cut_early"
    BY <1>7, <2>1, EndsReap DEF ReadCut, ProcessInv
  <2>2. CASE Head(from_child).kind # "cut_early"
    BY <1>7, <2>2, ProcessMove DEF ReadCut
  <2>. QED  BY <2>1, <2>2
<1>8. CASE PollIdle
  <2>1. child_pid # 0
    BY <1>8 DEF PollIdle, ProcessInv
  <2>2. CASE CrashReaped \/ KillForTimeout
    BY <2>1, <2>2, EndsReap
  <2>3. CASE pc' = "top" /\ UNCHANGED <<proc, child_pid, result>>
    BY <1>8, <2>1, <2>3, ProcessMove DEF PollIdle
  <2>. QED  BY <1>8, <2>2, <2>3 DEF PollIdle
<1>9. CASE Returned \/ Track \/ Report
  BY <1>9, ProcessMove DEF Returned, Track, Report, ProcessInv
<1>10. CASE StopAsks
  <2>1. /\ UNCHANGED <<proc, child_pid, child>>
        /\ \/ child_pid = 0 /\ pc' \in {"report", "track"}
           \/ child_pid # 0 /\ pc' = "stopping"
    BY <1>10 DEF StopAsks, AfterStop
  <2>. QED  BY <2>1, ProcessMove
<1>11. CASE StopReaps
  <2>1. pc' \in {"report", "track"}
    BY <1>11 DEF StopReaps, AfterStop
  <2>. QED  BY <1>11, <2>1, Reaping DEF StopReaps, ProcessInv
<1>12. CASE Expire \/ UNCHANGED stormVars
  BY <1>12 DEF Expire, stormVars, ProcessInv
<1>. QED  BY <1>1, <1>2, <1>3, <1>4, <1>5, <1>6, <1>7, <1>8, <1>9, <1>10, <1>11, <1>12,
             ProcessChild DEF StormNext, Driver

------------------------------------------------------------------------------
(* Positions.                                                              *)

LEMMA QueriesFacts ==
    ASSUME StormTypeOK
    PROVE  /\ queries \in Seq(Query) /\ Len(queries) \in Nat /\ DOMAIN queries = 1..Len(queries)
           /\ i \in Nat /\ i >= 1
           /\ Len(summaries) \in Nat /\ DOMAIN summaries = 1..Len(summaries)
<1>1. queries \in Seq(Query)
  BY WorkloadsAssumption DEF StormTypeOK
<1>. QED  BY <1>1 DEF StormTypeOK

LEMMA PositionStep == StormTypeOK /\ PositionInv /\ [StormNext]_stormVars => PositionInv'
<1>. SUFFICES ASSUME StormTypeOK, PositionInv, [StormNext]_stormVars PROVE PositionInv'
  OBVIOUS
<1>. USE DEF argVars, doneVars
<1>1. CASE Child \/ Expire \/ UNCHANGED stormVars
  <2>1. \/ UNCHANGED <<queries, pc, i, summaries, exit_code>>
        \/ UNCHANGED <<queries, i, summaries, exit_code>> /\ Polling /\ pc' = pc
    BY <1>1 DEF Child, ChildOpens, ChildReads, ChildAdvances, ChildAnswers, ChildExits,
                ChildKilled, Expire, stormVars
  <2>. QED  BY <2>1 DEF PositionInv, Successes
<1>2. ASSUME UNCHANGED <<queries, i, summaries, exit_code>>,
             \/ pc' \in {"start", "next", "stop", "stopping"}
             \/ /\ pc' \in {"submit", "top", "wait", "idle", "reap"} /\ i <= Len(queries)
                /\ ~queries[i].empty
             \/ pc' \in {"returned", "track"} /\ i <= Len(queries)
             \/ pc' = "report" /\ i > Len(queries)
      PROVE  PositionInv'
  BY <1>2 DEF PositionInv
<1>3. CASE Start \/ TakeQuery
  BY <1>2, <1>3, QueriesFacts DEF Start, TakeQuery
<1>4. CASE SubmitQuery \/ PollTop \/ ReadPhase \/ ReadResult \/ ReapCrashed \/ ReadCut \/ SeeHangup
           \/ PollTimesOut \/ PollIdle
  <2>1. /\ UNCHANGED <<queries, i, summaries, exit_code>>
        /\ pc \in {"submit", "top", "wait", "idle", "reap"}
        /\ pc' \in {"top", "wait", "idle", "reap", "returned"}
    BY <1>4 DEF SubmitQuery, PollTop, ReadPhase, ReadResult, ReapCrashed, ReadCut, SeeHangup,
                PollTimesOut, PollIdle, CrashReaped, KillForTimeout
  <2>. QED  BY <1>2, <2>1 DEF PositionInv
<1>5. CASE Returned
  BY <1>2, <1>5 DEF Returned, PositionInv
<1>6. CASE StopAsks \/ StopReaps
  <2>1. i > Len(queries) \/ i <= Len(queries)
    BY QueriesFacts
  <2>. QED  BY <1>2, <1>6, <2>1 DEF StopAsks, StopReaps, AfterStop
<1>7. CASE Track
  <2>1. /\ Len(summaries') = Len(summaries) + 1 /\ i' = i + 1 /\ pc' = "next"
    BY <1>7 DEF Track, StormTypeOK
  <2>. QED  BY <2>1, QueriesFacts DEF PositionInv
<1>8. CASE Report
  <2>1. /\ UNCHANGED <<queries, i, summaries>> /\ pc = "report" /\ pc' = "done"
        /\ exit_code' = 0 => Successes = Len(queries)
    BY <1>8 DEF Report
  <2>. QED  BY <2>1 DEF PositionInv, Successes
<1>. QED  BY <1>1, <1>3, <1>4, <1>5, <1>6, <1>7, <1>8 DEF StormNext, Driver

------------------------------------------------------------------------------
(* lpts_check is set in the phase that needs it.                           *)

LEMMA CheckingStep == StormTypeOK /\ CheckingInv /\ [StormNext]_stormVars => CheckingInv'
<1>. SUFFICES ASSUME StormTypeOK, CheckingInv, [StormNext]_stormVars PROVE CheckingInv'
  OBVIOUS
<1>1. child \in ChildTypes
  BY ChildFacts
<1>2. CASE ChildOpens \/ ChildExits \/ ChildKilled
  BY <1>1, <1>2 DEF ChildOpens, ChildExits, ChildKilled, ChildTypes, CheckingInv
<1>3. CASE ChildReads
  <2>1. \/ child' = [child EXCEPT !.pc = "gone"]
        \/ child' = [child EXCEPT !.pc = "duckdb", !.sql = Head(to_child)]
    BY <1>3 DEF ChildReads
  <2>2. child.pc = "waiting"
    BY <1>3 DEF ChildReads
  <2>. QED  BY <1>1, <2>1, <2>2 DEF ChildTypes, CheckingInv
<1>4. CASE ChildAdvances
  BY <1>1, <1>4 DEF ChildAdvances, ChildTypes, CheckingInv
<1>5. CASE ChildAnswers
  <2>1. child'.lpts_check = FALSE /\ child'.pc \in {"exiting", "waiting"}
    BY <1>1, <1>5 DEF ChildAnswers, ChildTypes
  <2>. QED  BY <2>1 DEF CheckingInv
<1>6. CASE Start
  BY <1>6 DEF Start, Fresh, CheckingInv
<1>7. CASE UNCHANGED child
  BY <1>7 DEF CheckingInv
<1>8. CASE Expire \/ UNCHANGED stormVars
  BY <1>7, <1>8 DEF Expire, stormVars, childVars
<1>9. CASE Driver /\ ~Start
  BY <1>7, <1>9 DEF Driver, TakeQuery, SubmitQuery, PollTop, ReadPhase, ReadResult, ReapCrashed,
                    ReadCut, SeeHangup, PollTimesOut, PollIdle, Returned, StopAsks, StopReaps,
                    Track, Report, childVars
<1>. QED  BY <1>2, <1>3, <1>4, <1>5, <1>6, <1>8, <1>9 DEF StormNext, Child

------------------------------------------------------------------------------
(* What is said of the current query while it stays the current query.     *)

SameQuery == UNCHANGED <<queries, compare_perf, i, summaries>>

LEMMA QueryStays ==
    ASSUME SameQuery
    PROVE  /\ Poisoned(i)' <=> Poisoned(i)
           /\ FineInDuckDB(i)' <=> FineInDuckDB(i)
           /\ Ran(i)' = Ran(i)
           /\ \A st, opened : FairState(st, opened)' <=> FairState(st, opened)
           /\ \A ph : Passed(ph)' <=> Passed(ph)
<1>1. Poisoned(i)' <=> Poisoned(i)
  BY DEF SameQuery, Poisoned, Ran
<1>2. (FineInDuckDB(i)' <=> FineInDuckDB(i)) /\ Ran(i)' = Ran(i)
  BY DEF SameQuery, FineInDuckDB, Ran
<1>3. \A entry : Deserved(i, entry)' <=> Deserved(i, entry)
  BY <1>2 DEF SameQuery, Deserved, FineInDuckDB
<1>4. \A st, opened : FairState(st, opened)' <=> FairState(st, opened)
  BY <1>1, <1>2, <1>3 DEF FairState
<1>5. \A ph : Passed(ph)' <=> Passed(ph)
  BY <1>2 DEF SameQuery, Passed
<1>. QED  BY <1>1, <1>2, <1>4, <1>5

LEMMA MessagesStay ==
    ASSUME SameQuery, (expired \/ past_duckdb) => (expired' \/ past_duckdb')
    PROVE  \A m : FairMessage(m) => FairMessage(m)'
BY QueryStays DEF FairMessage, SameQuery

LEMMA PipeStays ==
    ASSUME SameQuery, FairPipe, (expired \/ past_duckdb) => (expired' \/ past_duckdb'),
           from_child' = from_child
    PROVE  FairPipe'
<1>1. \A m : FairMessage(m) => FairMessage(m)'
  BY MessagesStay
<1>2. ASSUME NEW k \in DOMAIN from_child PROVE FairMessage(from_child[k])'
  <2>1. FairMessage(from_child[k])
    BY DEF FairPipe
  <2>. QED  BY <1>1, <2>1 DEF FairMessage, FairState
<1>. QED  BY <1>2 DEF FairPipe

\* A crash that ended the exchange explains a crash, whether or not a database was opened.
LEMMA CrashIsCrash ==
    ASSUME FairState("CRASH", TRUE), NEW opened
    PROVE  FairState("CRASH", opened)
BY DEF FairState

LEMMA QueryTyped ==
    ASSUME StormTypeOK, i <= Len(queries)
    PROVE  /\ queries[i] \in Query /\ queries[i].empty \in BOOLEAN
           /\ queries[i].does \in [QueryPhases -> Outcomes]
           /\ \A ph \in QueryPhases \ {"lpts_check"} :
                 queries[i].does[ph] \notin {"wrong", "unstable"}
<1>1. queries \in Seq(Query) /\ i \in 1..Len(queries) /\ DOMAIN queries = 1..Len(queries)
  BY QueriesFacts
<1>2. queries[i] \in Query
  BY <1>1
<1>. QED  BY <1>1, <1>2, WorkloadsAssumption DEF Query, StormTypeOK

\* With a valid database a phase does what the query does in it.
LEMMA OutcomeIs ==
    ASSUME StormTypeOK, CheckingInv, Running, child.valid, i <= Len(queries)
    PROVE  /\ Outcome = queries[i].does[child.pc] /\ Outcome \in Outcomes
           /\ Outcome \in Ran(i)
           /\ child.pc # "lpts_check" => Outcome \notin {"wrong", "unstable"}
<1>1. child.pc \in QueryPhases /\ child.sql = i
  BY DEF Running
<1>2. child.lpts_check <=> child.pc = "lpts_check"
  BY <1>1 DEF CheckingInv, QueryPhases, LptsPhases
<1>3. Outcome = queries[i].does[child.pc]
  BY <1>1, <1>2 DEF Outcome
<1>4. child.pc \in QueryPhases \ (IF compare_perf THEN {} ELSE {"lpts_generate", "lpts_exec"})
  BY <1>1 DEF Running, Passed
<1>. QED  BY <1>1, <1>3, <1>4, QueryTyped DEF Ran

LEMMA InvalidOutcome ==
    ASSUME ~child.valid
    PROVE  Outcome = "fatal"
BY DEF Outcome

------------------------------------------------------------------------------
(* The worker's steps while its query is being polled for.                 *)

\* The stages are told apart by where the worker is.
LEMMA Stages ==
    ASSUME Polling, ExchangeInv
    PROVE  /\ child.pc = "opening" => Sent
           /\ child.pc \in QueryPhases => Running
           /\ child.pc = "exiting" => Ended
           /\ child.pc \in {"waiting", "gone"} => Sent \/ Ended
           /\ to_child # << >> => Sent
           /\ FairPipe
BY DEF ExchangeInv, Sent, AtRest, Running, Ended, QueryPhases, LptsPhases

LEMMA PollingFacts ==
    ASSUME PositionInv, Polling
    PROVE  i <= Len(queries) /\ ~queries[i].empty
BY DEF PositionInv, Polling

\* The exchange goes on: what has to be shown of a step of the worker.
LEMMA ExchangeGoesOn ==
    ASSUME ExchangeInv, Polling, Polling', SameQuery,
           UNCHANGED active_phase, past_duckdb => past_duckdb',
           FairPipe', Sent' \/ Running' \/ Ended'
    PROVE  ExchangeInv'
<1>1. Polling' => pc' \notin {"next", "submit", "reap", "returned", "track"}
  BY DEF Polling
<1>2. active_phase' # "duckdb" => FineInDuckDB(i)' /\ past_duckdb'
  BY QueryStays DEF ExchangeInv
<1>. QED  BY <1>1, <1>2 DEF ExchangeInv

LEMMA OpensInPolling ==
    ASSUME StormTypeOK, ExchangeInv, Polling, ChildOpens
    PROVE  ExchangeInv'
<1>1. /\ Sent /\ FairPipe /\ child.pc = "opening" /\ child \in ChildTypes
      /\ SameQuery /\ UNCHANGED <<pc, to_child, from_child, expired, past_duckdb, active_phase>>
  BY Stages, ChildFacts
     DEF ChildOpens, SameQuery, argVars, pipeVars, submitVars, doneVars
<1>2. \/ child' = [child EXCEPT !.pc = "waiting", !.opened = TRUE]
      \/ child' = [child EXCEPT !.pc = "gone"]
  BY DEF ChildOpens
<1>3. child'.valid = child.valid /\ AtRest'
  BY <1>1, <1>2 DEF AtRest, Sent, ChildTypes
<1>4. Sent'
  BY <1>1, <1>3, QueryStays DEF Sent, SameQuery
<1>5. FairPipe'
  BY <1>1, PipeStays
<1>. QED  BY <1>1, <1>4, <1>5, ExchangeGoesOn DEF Polling

LEMMA ReadsInPolling ==
    ASSUME StormTypeOK, ExchangeInv, Polling, ChildReads
    PROVE  ExchangeInv'
<1>1. /\ Sent /\ child \in ChildTypes /\ i \in Nat /\ i >= 1
      /\ SameQuery /\ UNCHANGED <<pc, expired, past_duckdb, active_phase>>
  BY Stages, ChildFacts, QueriesFacts DEF ChildReads, SameQuery, argVars, submitVars, doneVars
<1>2. to_child = <<i>> /\ from_child = << >>
  BY <1>1 DEF Sent
<1>3. Head(to_child) = i /\ Tail(to_child) = << >> /\ Head(to_child) # 0
  BY <1>1, <1>2
<1>. DEFINE m == [kind |-> "phase", phase |-> "duckdb", sql |-> i]
<1>4. /\ child' = [child EXCEPT !.pc = "duckdb", !.sql = i]
      /\ from_child' = Append(from_child, m) /\ to_child' = << >>
  BY <1>1, <1>3 DEF ChildReads
<1>5. DOMAIN from_child' = {1} /\ from_child'[1] = m /\ Len(from_child') = 1
  BY <1>2, <1>4
<1>6. /\ child'.pc = "duckdb" /\ child'.sql = i /\ child'.valid = child.valid
  BY <1>1, <1>4 DEF ChildTypes
<1>7. Running'
  <2>1. \A k \in DOMAIN from_child' : from_child'[k].kind = "phase"
    BY <1>5
  <2>2. Passed(child.pc)'
    BY <1>6 DEF Passed
  <2>3. ~child'.valid => Poisoned(i)'
    BY <1>1, <1>6, QueryStays DEF Sent
  <2>. QED  BY <1>1, <1>4, <1>6, <2>1, <2>2, <2>3 DEF Running, SameQuery, QueryPhases
<1>8. FairPipe'
  <2>1. m.sql = i /\ m.kind = "phase" /\ m.phase = "duckdb"
    OBVIOUS
  <2>. HIDE DEF m
  <2>2. \A k \in DOMAIN from_child' : from_child'[k] = m /\ ~(k < Len(from_child'))
    BY <1>5
  <2>3. ASSUME NEW k \in DOMAIN from_child' PROVE FairMessage(from_child[k])'
    BY <1>1, <2>1, <2>2 DEF FairMessage, SameQuery
  <2>. QED  BY <2>2, <2>3 DEF FairPipe
<1>. QED  BY <1>1, <1>7, <1>8, ExchangeGoesOn DEF Polling

\* A message joins phases of the same query.
LEMMA PipeGrows ==
    ASSUME StormTypeOK, SameQuery, FairPipe, \A k \in DOMAIN from_child : from_child[k].kind = "phase",
           (expired \/ past_duckdb) => (expired' \/ past_duckdb'),
           NEW m, from_child' = Append(from_child, m), FairMessage(m)'
    PROVE  /\ FairPipe'
           /\ Len(from_child') = Len(from_child) + 1
           /\ DOMAIN from_child' = 1..(Len(from_child) + 1)
           /\ from_child'[Len(from_child) + 1] = m
           /\ \A k \in 1..Len(from_child) : from_child'[k] = from_child[k]
           /\ DOMAIN from_child = 1..Len(from_child) /\ Len(from_child) \in Nat
<1>1. /\ Len(from_child') = Len(from_child) + 1
      /\ DOMAIN from_child' = 1..(Len(from_child) + 1)
      /\ from_child'[Len(from_child) + 1] = m
      /\ \A k \in 1..Len(from_child) : from_child'[k] = from_child[k]
      /\ DOMAIN from_child = 1..Len(from_child) /\ Len(from_child) \in Nat
  BY DEF StormTypeOK
<1>2. \A x : FairMessage(x) => FairMessage(x)'
  BY MessagesStay
<1>3. ASSUME NEW k \in DOMAIN from_child'
      PROVE  /\ FairMessage(from_child[k])'
             /\ k < Len(from_child') => from_child'[k].kind = "phase"
  <2>1. CASE k = Len(from_child) + 1
    <3>1. FairMessage(from_child[k])'
      BY <1>1, <2>1 DEF FairMessage
    <3>. QED  BY <1>1, <2>1, <3>1
  <2>2. CASE k \in 1..Len(from_child)
    <3>1. FairMessage(from_child[k]) /\ from_child[k].kind = "phase"
      BY <1>1, <2>2 DEF FairPipe
    <3>2. from_child'[k] = from_child[k]
      BY <1>1, <2>2
    <3>3. FairMessage(from_child[k])'
      BY <1>2, <3>1, <3>2 DEF FairMessage, FairState
    <3>. QED  BY <3>1, <3>2, <3>3
  <2>. QED  BY <1>1, <2>1, <2>2
<1>4. FairPipe'
  BY <1>3 DEF FairPipe
<1>. QED  BY <1>1, <1>4

LEMMA AdvancesInPolling ==
    ASSUME StormTypeOK, PositionInv, CheckingInv, ExchangeInv, Polling, ChildAdvances
    PROVE  ExchangeInv'
<1>. DEFINE next == NextPhase(child.pc)
<1>1. /\ Running /\ FairPipe /\ child \in ChildTypes /\ i <= Len(queries)
      /\ child.pc \in QueryPhases \ {"lpts_check"} /\ Outcome \in {"ok", "hogs"}
      /\ SameQuery /\ UNCHANGED <<pc, expired, to_child, active_phase>>
      /\ past_duckdb' = (past_duckdb \/ ~expired)
  BY Stages, ChildFacts, PollingFacts
     DEF ChildAdvances, SameQuery, argVars, submitVars, doneVars
<1>2. /\ child' = [child EXCEPT !.pc = next, !.lpts_check = (next = "lpts_check")]
      /\ from_child' = Append(from_child, Phase(next))
  BY DEF ChildAdvances
<1>3. child'.pc = next /\ child'.sql = child.sql /\ child'.valid = child.valid
  BY <1>1, <1>2 DEF ChildTypes
<1>4. child.valid /\ queries[i].does[child.pc] \in {"ok", "hogs"}
  BY <1>1, InvalidOutcome, OutcomeIs
<1>5. next \in LptsPhases
  BY DEF NextPhase, LptsPhases
<1>6. Passed(next)
  BY <1>1, <1>4 DEF Running, Passed, NextPhase, FineInDuckDB, QueryPhases, LptsPhases
<1>7. FineInDuckDB(i)
  BY <1>5, <1>6 DEF Passed, LptsPhases
<1>8. /\ Phase(next).kind = "phase" /\ Phase(next).phase = next /\ Phase(next).sql = child.sql
  BY DEF Phase
<1>9. child.sql = i
  BY <1>1 DEF Running
<1>. DEFINE m == Phase(next)
<1>10. ASSUME NEW x, x = m PROVE FairMessage(x)'
  <2>1. FineInDuckDB(i)' /\ (expired' \/ past_duckdb')
    BY <1>1, <1>7, QueryStays
  <2>2. x.kind = "phase" /\ x.sql = i /\ i' = i
    BY <1>1, <1>8, <1>9, <1>10 DEF SameQuery
  <2>. QED  BY <2>1, <2>2 DEF FairMessage
<1>11. PICK x : x = m
  OBVIOUS
<1>12. /\ FairPipe' /\ DOMAIN from_child' = 1..(Len(from_child) + 1)
       /\ from_child'[Len(from_child) + 1] = x
       /\ \A k \in 1..Len(from_child) : from_child'[k] = from_child[k]
       /\ DOMAIN from_child = 1..Len(from_child) /\ Len(from_child) \in Nat
  BY <1>1, <1>2, <1>10, <1>11, PipeGrows DEF Running
<1>13. Running'
  <2>1. \A k \in DOMAIN from_child' : from_child'[k].kind = "phase"
    BY <1>1, <1>8, <1>11, <1>12 DEF Running
  <2>2. Passed(child.pc)'
    <3>1. child'.pc \in LptsPhases
      BY <1>3, <1>5
    <3>. QED  BY <1>1, <1>3, <1>6, <1>7 DEF Passed, SameQuery, FineInDuckDB
  <2>3. child'.pc \in QueryPhases /\ child'.sql = i' /\ to_child' = << >>
    BY <1>1, <1>3, <1>5, <1>9 DEF QueryPhases, SameQuery, Running
  <2>. QED  BY <1>3, <1>4, <2>1, <2>2, <2>3 DEF Running
<1>. QED  BY <1>1, <1>12, <1>13, ExchangeGoesOn DEF Polling

\* The answer a phase of the current query leads to.
LEMMA AnswerIsFair ==
    ASSUME StormTypeOK, PositionInv, CheckingInv, Polling, Running,
           Outcome \notin {"dies", "hangs"},
           Outcome \in {"ok", "hogs"} => child.pc = "lpts_check",
           NEW st, st = IF Outcome \in {"ok", "hogs"} THEN "SUCCESS" ELSE StateOf(child.pc, Outcome)
    PROVE  /\ st \notin Timeouts /\ FairState(st, TRUE)
           /\ ~(child.valid /\ Outcome \notin {"internal", "fatal"}) /\ st # "CRASH" =>
                 Breaks(st, Outcome = "internal")
<1>1. /\ i <= Len(queries) /\ ~queries[i].empty /\ child.pc \in QueryPhases
      /\ child.sql = i /\ Passed(child.pc)
  BY PollingFacts DEF Running
<1>2. CASE ~child.valid
  <2>1. st = "CRASH" /\ Poisoned(i)
    BY <1>2, InvalidOutcome DEF StateOf, Running
  <2>. QED  BY <2>1 DEF FairState, Timeouts
<1>3. CASE child.valid
  <2>1. /\ Outcome = queries[i].does[child.pc] /\ Outcome \in Outcomes /\ Outcome \in Ran(i)
        /\ child.pc # "lpts_check" => Outcome \notin {"wrong", "unstable"}
    BY <1>1, <1>3, OutcomeIs
  <2>2. CASE Outcome \in {"ok", "hogs"}
    <3>1. st = "SUCCESS" /\ child.pc = "lpts_check"
      BY <2>2
    <3>2. Ran(i) \subseteq {"ok", "hogs"}
      BY <1>1, <2>1, <2>2, <3>1 DEF Ran, Passed, FineInDuckDB, QueryPhases, LptsPhases
    <3>. QED  BY <1>1, <2>2, <3>1, <3>2, <1>3 DEF FairState, Deserved, Timeouts
  <2>3. CASE Outcome = "fatal"
    <3>1. st = "CRASH"
      BY <2>3 DEF StateOf
    <3>. QED  BY <2>1, <2>3, <3>1 DEF FairState, Timeouts
  <2>4. CASE child.pc = "duckdb" /\ Outcome \notin {"ok", "hogs", "fatal"}
    <3>1. st = "DUCKDB_ERROR"
      BY <2>4 DEF StateOf
    <3>2. ~FineInDuckDB(i)
      BY <2>1, <2>4 DEF FineInDuckDB
    <3>3. Deserved(i, [state |-> st, opened |-> TRUE])
      BY <3>1, <3>2 DEF Deserved
    <3>4. st \notin Timeouts /\ FairState(st, TRUE)
      BY <3>1, <3>3 DEF FairState, Timeouts
    <3>5. Outcome = "internal" => Breaks(st, Outcome = "internal")
      BY <3>1 DEF Breaks
    <3>. QED  BY <1>3, <2>4, <3>4, <3>5
  <2>5. CASE child.pc # "duckdb" /\ Outcome \notin {"ok", "hogs", "fatal"}
    <3>1. FineInDuckDB(i)
      BY <1>1, <2>5 DEF Passed
    <3>2. CASE Outcome = "unsupported"
      <4>1. st = "NOT_IMPLEMENTED"
        BY <2>5, <3>2 DEF StateOf
      <4>2. Deserved(i, [state |-> st, opened |-> TRUE])
        BY <2>1, <3>1, <3>2, <4>1 DEF Deserved
      <4>. QED  BY <1>3, <3>2, <4>1, <4>2 DEF FairState, Timeouts
    <3>3. CASE Outcome = "wrong"
      <4>1. child.pc = "lpts_check"
        BY <2>1, <3>3
      <4>2. st = "INCORRECT"
        BY <2>5, <3>3, <4>1 DEF StateOf
      <4>3. Deserved(i, [state |-> st, opened |-> TRUE])
        BY <2>1, <3>1, <3>3, <4>1, <4>2 DEF Deserved
      <4>. QED  BY <1>3, <3>3, <4>2, <4>3 DEF FairState, Timeouts
    <3>4. CASE Outcome = "unstable"
      <4>1. child.pc = "lpts_check"
        BY <2>1, <3>4
      <4>2. st = "NONDETERMINISTIC"
        BY <2>5, <3>4, <4>1 DEF StateOf
      <4>3. Deserved(i, [state |-> st, opened |-> TRUE])
        BY <2>1, <3>1, <3>4, <4>1, <4>2 DEF Deserved
      <4>. QED  BY <1>3, <3>4, <4>2, <4>3 DEF FairState, Timeouts
    <3>5. CASE Outcome \in {"error", "internal"}
      <4>1. st = "LPTS_ERROR"
        BY <2>5, <3>5 DEF StateOf
      <4>2. Deserved(i, [state |-> st, opened |-> TRUE])
        BY <2>1, <3>1, <3>5, <4>1 DEF Deserved
      <4>. QED  BY <1>3, <2>1, <3>5, <4>1, <4>2 DEF FairState, Timeouts, Breaks
    <3>. QED  BY <2>1, <2>5, <3>2, <3>3, <3>4, <3>5 DEF Outcomes
  <2>. QED  BY <2>2, <2>3, <2>4, <2>5
<1>. QED  BY <1>2, <1>3

LEMMA AnswersInPolling ==
    ASSUME StormTypeOK, PositionInv, CheckingInv, ExchangeInv, Polling, ChildAnswers
    PROVE  ExchangeInv'
<1>1. /\ Running /\ FairPipe /\ child \in ChildTypes /\ child.sql = i
      /\ Outcome \notin {"dies", "hangs"}
      /\ Outcome \in {"ok", "hogs"} => child.pc = "lpts_check"
      /\ SameQuery /\ UNCHANGED <<pc, expired, past_duckdb, to_child, active_phase>>
  <2>1. Running /\ FairPipe /\ child \in ChildTypes
    BY Stages, ChildFacts DEF ChildAnswers
  <2>. QED  BY <2>1 DEF ChildAnswers, SameQuery, argVars, submitVars, doneVars, Running
<1>2. PICK st : st = IF Outcome \in {"ok", "hogs"} THEN "SUCCESS" ELSE StateOf(child.pc, Outcome)
  OBVIOUS
<1>3. PICK m : m = Answer(st, Outcome = "internal")
  OBVIOUS
<1>4. /\ child' = [child EXCEPT !.pc = IF st = "CRASH" THEN "exiting" ELSE "waiting",
                                !.valid = @ /\ Outcome \notin {"internal", "fatal"},
                                !.lpts_check = FALSE]
      /\ from_child' = Append(from_child, m)
  BY <1>2, <1>3 DEF ChildAnswers
<1>5. /\ m.kind = "result" /\ m.sql = i /\ m.state = st /\ m.internal = (Outcome = "internal")
  BY <1>1, <1>3 DEF Answer
<1>6. /\ st \notin Timeouts /\ FairState(st, TRUE)
      /\ ~(child.valid /\ Outcome \notin {"internal", "fatal"}) /\ st # "CRASH" =>
                 Breaks(st, Outcome = "internal")
  BY <1>1, <1>2, AnswerIsFair
<1>7. FairMessage(m)'
  BY <1>1, <1>5, <1>6, QueryStays DEF FairMessage, SameQuery
<1>8. /\ FairPipe' /\ DOMAIN from_child' = 1..(Len(from_child) + 1)
      /\ from_child'[Len(from_child) + 1] = m
      /\ \A k \in 1..Len(from_child) : from_child'[k] = from_child[k]
      /\ DOMAIN from_child = 1..Len(from_child) /\ Len(from_child) \in Nat
  BY <1>1, <1>4, <1>7, PipeGrows DEF Running
<1>9. /\ child'.pc = IF st = "CRASH" THEN "exiting" ELSE "waiting"
      /\ child'.valid <=> child.valid /\ Outcome \notin {"internal", "fatal"}
  BY <1>1, <1>4 DEF ChildTypes
<1>10. Ended'
  <2>1. to_child' = << >> /\ child'.pc \in {"waiting", "exiting", "gone"}
    BY <1>1, <1>9 DEF Running
  <2>2. child'.pc # "waiting" => FairState("CRASH", TRUE)'
    BY <1>1, <1>6, <1>9, QueryStays
  <2>3. ASSUME NEW k \in DOMAIN from_child', from_child'[k].kind # "phase"
        PROVE  from_child'[k] = m
    BY <1>1, <1>8, <2>3 DEF Running
  <2>4. Breaks(m.state, m.internal)' <=> Breaks(st, Outcome = "internal")
    BY <1>1, <1>5, QueryStays DEF Breaks
  <2>5. m.state = "CRASH" <=> child'.pc # "waiting"
    BY <1>5, <1>9
  <2>6. ~child'.valid /\ child'.pc = "waiting" => Breaks(m.state, m.internal)'
    BY <1>6, <1>9, <2>4
  <2>7. ASSUME NEW k \in DOMAIN from_child'
        PROVE  /\ from_child'[k].kind = "result" =>
                     /\ from_child'[k].state = "CRASH" <=> child'.pc # "waiting"
                     /\ ~child'.valid /\ child'.pc = "waiting" =>
                           Breaks(from_child[k].state, from_child[k].internal)'
               /\ from_child'[k].kind \in {"cut_early", "cut_late"} => child'.pc = "gone"
    BY <1>5, <2>3, <2>5, <2>6 DEF Breaks
  <2>. QED  BY <2>1, <2>2, <2>7 DEF Ended
<1>. QED  BY <1>1, <1>8, <1>10, ExchangeGoesOn DEF Polling

LEMMA ExitsInPolling ==
    ASSUME StormTypeOK, ExchangeInv, Polling, ChildExits
    PROVE  ExchangeInv'
<1>1. /\ Ended /\ FairPipe /\ child \in ChildTypes /\ child.pc = "exiting"
      /\ child' = [child EXCEPT !.pc = "gone"]
      /\ SameQuery /\ UNCHANGED <<pc, expired, past_duckdb, to_child, from_child, active_phase>>
  <2>1. Ended /\ FairPipe /\ child \in ChildTypes
    BY Stages, ChildFacts DEF ChildExits
  <2>. QED  BY <2>1 DEF ChildExits, SameQuery, argVars, pipeVars, submitVars, doneVars
<1>2. child'.pc = "gone" /\ child'.valid = child.valid
  BY <1>1 DEF ChildTypes
<1>3. FairPipe'
  BY <1>1, PipeStays
<1>4. Ended'
  BY <1>1, <1>2, QueryStays DEF Ended
<1>. QED  BY <1>1, <1>3, <1>4, ExchangeGoesOn DEF Polling

LEMMA KilledInPolling ==
    ASSUME StormTypeOK, PositionInv, CheckingInv, ExchangeInv, Polling, ChildKilled
    PROVE  ExchangeInv'
<1>1. /\ Running /\ FairPipe /\ child \in ChildTypes /\ child.sql = i /\ i <= Len(queries)
      /\ Outcome = "dies"
      /\ child' = [child EXCEPT !.pc = "gone"]
      /\ SameQuery /\ UNCHANGED <<pc, expired, past_duckdb, to_child, active_phase>>
  <2>1. Running /\ FairPipe /\ child \in ChildTypes /\ i <= Len(queries)
    BY Stages, ChildFacts, PollingFacts DEF ChildKilled
  <2>. QED  BY <2>1 DEF ChildKilled, SameQuery, argVars, submitVars, doneVars, Running
<1>2. child'.pc = "gone"
  BY <1>1 DEF ChildTypes
<1>3. FairState("CRASH", TRUE)'
  <2>1. child.valid
    BY <1>1, InvalidOutcome
  <2>2. "dies" \in Ran(i)
    BY <1>1, <2>1, OutcomeIs
  <2>3. FairState("CRASH", TRUE)
    BY <2>2 DEF FairState
  <2>. QED  BY <1>1, <2>3, QueryStays
<1>4. /\ FairPipe'
      /\ \A k \in DOMAIN from_child' : from_child'[k].kind \in {"phase", "cut_early", "cut_late"}
  <2>1. CASE from_child' = from_child
    <3>1. FairPipe'
      BY <1>1, <2>1, PipeStays
    <3>. QED  BY <1>1, <2>1, <3>1 DEF Running
  <2>2. CASE from_child' # from_child
    <3>1. PICK part \in {"cut_early", "cut_late"} : from_child' = Append(from_child, Cut(part))
      BY <2>2 DEF ChildKilled
    <3>2. PICK m : m = Cut(part)
      OBVIOUS
    <3>3. m.kind = part /\ m.sql = i
      BY <1>1, <3>2 DEF Cut
    <3>4. FairMessage(m)'
      BY <1>1, <3>3 DEF FairMessage, SameQuery
    <3>5. /\ FairPipe' /\ DOMAIN from_child' = 1..(Len(from_child) + 1)
          /\ from_child'[Len(from_child) + 1] = m
          /\ \A k \in 1..Len(from_child) : from_child'[k] = from_child[k]
          /\ DOMAIN from_child = 1..Len(from_child) /\ Len(from_child) \in Nat
      BY <1>1, <3>1, <3>2, <3>4, PipeGrows DEF Running
    <3>6. \A k \in DOMAIN from_child : from_child[k].kind = "phase"
      BY <1>1 DEF Running
    <3>. QED  BY <3>3, <3>5, <3>6
  <2>. QED  BY <2>1, <2>2
<1>5. Ended'
  BY <1>1, <1>2, <1>3, <1>4 DEF Ended, Running
<1>. QED  BY <1>1, <1>4, <1>5, ExchangeGoesOn DEF Polling

\* A worker that waits for a query between two of them can only go on opening its database.
LEMMA RestingChild ==
    ASSUME StormTypeOK, AtRest, Quiet, Child
    PROVE  ChildOpens /\ AtRest' /\ Quiet' /\ child'.valid = child.valid
<1>1. child.pc \in {"opening", "waiting", "gone"} /\ to_child = << >> /\ from_child = << >>
  BY DEF AtRest, Quiet
<1>2. ChildOpens
  BY <1>1 DEF Child, ChildReads, ChildAdvances, ChildAnswers, ChildExits, ChildKilled,
              QueryPhases, LptsPhases
<1>3. /\ child \in ChildTypes /\ child.pc = "opening"
      /\ \/ child' = [child EXCEPT !.pc = "waiting", !.opened = TRUE]
         \/ child' = [child EXCEPT !.pc = "gone"]
      /\ UNCHANGED <<to_child, from_child>>
  BY <1>2, ChildFacts DEF ChildOpens, pipeVars
<1>. QED  BY <1>1, <1>2, <1>3 DEF AtRest, Quiet, ChildTypes

LEMMA ExchangeChild ==
    ASSUME StormTypeOK, PositionInv, CheckingInv, ExchangeInv, Child
    PROVE  ExchangeInv'
<1>1. CASE Polling
  BY <1>1, OpensInPolling, ReadsInPolling, AdvancesInPolling, AnswersInPolling, ExitsInPolling,
     KilledInPolling DEF Child
<1>2. CASE ~Polling
  <2>1. /\ SameQuery /\ UNCHANGED <<pc, result, child_pid>> /\ ~Polling'
        /\ NeedsStop' <=> NeedsStop
    BY <1>2 DEF Child, ChildOpens, ChildReads, ChildAdvances, ChildAnswers, ChildExits,
                ChildKilled, SameQuery, argVars, submitVars, doneVars, Polling, NeedsStop
  <2>2. pc \in {"next", "submit"} /\ child_pid # 0 =>
            AtRest' /\ Quiet' /\ (~child'.valid => Poisoned(i)')
    BY <2>1, RestingChild, QueryStays DEF ExchangeInv
  <2>3. pc = "reap" => FairState("CRASH", TRUE)'
    BY <2>1, QueryStays DEF ExchangeInv
  <2>4. Poisons => Poisons'
    BY <2>1, QueryStays DEF Poisons, SameQuery
  <2>5. pc \in {"returned", "track"} /\ child_pid # 0 /\ ~NeedsStop =>
            AtRest' /\ Quiet' /\ (~child'.valid => Poisons')
    BY <2>4, RestingChild DEF ExchangeInv
  <2>. QED  BY <2>1, <2>2, <2>3, <2>5 DEF ExchangeInv
<1>. QED  BY <1>1, <1>2

LEMMA VerdictChild ==
    ASSUME StormTypeOK, ProcessInv, VerdictInv, Child
    PROVE  VerdictInv'
<1>1. SameQuery /\ UNCHANGED <<pc, result, child_pid, queries>>
  BY DEF Child, ChildOpens, ChildReads, ChildAdvances, ChildAnswers, ChildExits, ChildKilled,
         SameQuery, argVars, submitVars, doneVars
<1>2. child_pid # 0 /\ child.pc # "gone"
  BY DEF Child, ChildOpens, ChildReads, ChildAdvances, ChildAnswers, ChildExits, ChildKilled,
         Alive, ProcessInv
<1>3. past_duckdb => past_duckdb'
  BY DEF Child, ChildOpens, ChildReads, ChildAdvances, ChildAnswers, ChildExits, ChildKilled
<1>4. ASSUME pc \in {"returned", "stop", "stopping", "track"}, i <= Len(queries)
      PROVE  result.state # "CRASH" /\ FairState(result.state, child.opened)
  BY <1>2, <1>4 DEF VerdictInv
<1>5. LptsTimeoutsDeserved'
  BY <1>1, <1>3 DEF VerdictInv, LptsTimeoutsDeserved
<1>6. ASSUME pc \in {"returned", "stop", "stopping", "track"}, i <= Len(queries)
      PROVE  FairState(result.state, child.opened)'
  <2>1. Deserved(i, [state |-> result.state, opened |-> TRUE])
    BY <1>4, <1>6 DEF FairState
  <2>2. FairState(result.state, TRUE)
    BY <1>4, <1>6, <2>1 DEF FairState
  <2>3. FairState(result.state, TRUE)'
    BY <1>1, <2>2, QueryStays
  <2>. QED  BY <1>1, <1>4, <1>6, <2>3 DEF FairState
<1>. QED  BY <1>1, <1>4, <1>5, <1>6 DEF VerdictInv, SameQuery


------------------------------------------------------------------------------
(* The driver's steps.                                                     *)

\* The query is over and its worker with it.
LEMMA WorkerGone ==
    ASSUME SameQuery, pc' = "returned", child_pid' = 0,
           FairState(result'.state, child'.opened),
           result'.state = "LPTS_TIMEOUT" => past_duckdb'
    PROVE  ExchangeInv' /\ VerdictInv'
<1>1. FairState(result.state, child.opened)'
  <2>1. \A st, opened : FairState(st, opened)' <=> FairState(st, opened)
    BY QueryStays
  <2>2. FairState(result'.state, child'.opened) => FairState(result.state, child.opened)'
    <3>1. PICK st, opened : st = result'.state /\ opened = child'.opened
      OBVIOUS
    <3>2. FairState(st, opened) => FairState(st, opened)'
      BY <2>1
    <3>. QED  BY <3>1, <3>2 DEF FairState
  <2>. QED  BY <2>2
<1>. QED  BY <1>1 DEF ExchangeInv, VerdictInv, LptsTimeoutsDeserved, Polling

LEMMA CrashEnds ==
    ASSUME StormTypeOK, SameQuery, CrashReaped, UNCHANGED child, FairState("CRASH", child.opened)
    PROVE  ExchangeInv' /\ VerdictInv'
<1>1. pc' = "returned" /\ child_pid' = 0 /\ result'.state = "CRASH"
  BY DEF CrashReaped, StormTypeOK
<1>. QED  BY <1>1, WorkerGone

LEMMA TimeoutEnds ==
    ASSUME StormTypeOK, SameQuery, KillForTimeout, UNCHANGED <<child, past_duckdb>>,
           active_phase # "duckdb" => FineInDuckDB(i) /\ past_duckdb
    PROVE  ExchangeInv' /\ VerdictInv'
<1>1. /\ pc' = "returned" /\ child_pid' = 0
      /\ result'.state = IF active_phase = "duckdb" THEN "DUCKDB_TIMEOUT" ELSE "LPTS_TIMEOUT"
  BY DEF KillForTimeout, StormTypeOK
<1>2. FairState(result'.state, child'.opened)
  BY <1>1 DEF FairState, Deserved
<1>. QED  BY <1>1, <1>2, WorkerGone

\* The driver finds the worker dead while it polls.
LEMMA DeadIsCrash ==
    ASSUME StormTypeOK, ProcessInv, ExchangeInv, Polling, ~Alive
    PROVE  FairState("CRASH", child.opened)
<1>1. child.pc = "gone"
  BY DEF ProcessInv, Polling, Alive
<1>2. CASE Sent
  BY <1>1, <1>2 DEF Sent, AtRest, FairState
<1>3. CASE Ended
  BY <1>1, <1>3, CrashIsCrash DEF Ended
<1>. QED  BY <1>1, <1>2, <1>3, Stages

\* Steps within the poll loop that read nothing.
LEMMA PollsOn ==
    ASSUME ExchangeInv, Polling, Polling', SameQuery,
           expired => expired',
           UNCHANGED <<child, past_duckdb, to_child, from_child, active_phase>>
    PROVE  ExchangeInv' /\ VerdictInv'
<1>1. FairPipe'
  BY PipeStays DEF ExchangeInv
<1>2. Sent' \/ Running' \/ Ended'
  <2>1. Sent => Sent'
    BY QueryStays DEF Sent, AtRest, SameQuery
  <2>2. Running => Running'
    BY QueryStays DEF Running, SameQuery
  <2>3. Ended => Ended'
    BY QueryStays DEF Ended, Breaks
  <2>. QED  BY <2>1, <2>2, <2>3 DEF ExchangeInv
<1>3. ExchangeInv'
  BY <1>1, <1>2, ExchangeGoesOn
<1>4. VerdictInv'
  BY DEF Polling, VerdictInv, LptsTimeoutsDeserved
<1>. QED  BY <1>3, <1>4

LEMMA DriverStarts ==
    ASSUME StormTypeOK, Start
    PROVE  ExchangeInv' /\ VerdictInv'
<1>1. /\ pc' = "next" /\ child' = Fresh /\ to_child' = << >> /\ from_child' = << >>
  BY DEF Start
<1>2. AtRest' /\ Quiet' /\ child'.valid
  BY <1>1 DEF AtRest, Quiet, Fresh
<1>. QED  BY <1>1, <1>2 DEF ExchangeInv, VerdictInv, LptsTimeoutsDeserved, Polling

LEMMA DriverTakes ==
    ASSUME StormTypeOK, PositionInv, ExchangeInv, TakeQuery
    PROVE  ExchangeInv' /\ VerdictInv'
<1>. USE DEF childVars, pipeVars, doneVars, argVars
<1>1. /\ SameQuery /\ pc = "next"
      /\ UNCHANGED <<child_pid, child, to_child, from_child, past_duckdb>>
      /\ i \in Nat /\ Len(queries) \in Nat
  BY QueriesFacts DEF TakeQuery, SameQuery
<1>2. CASE i > Len(queries) \/ child_pid = 0
  <2>1. (pc' = "stop" /\ i > Len(queries)) \/ pc' = "start"
    BY <1>1, <1>2 DEF TakeQuery
  <2>2. i' = i /\ Len(queries') = Len(queries)
    BY <1>1 DEF SameQuery
  <2>3. CASE pc' = "start"
    BY <2>3 DEF ExchangeInv, VerdictInv, LptsTimeoutsDeserved, Polling
  <2>4. CASE pc' = "stop" /\ i > Len(queries)
    <3>1. ~(i' <= Len(queries'))
      BY <1>1, <2>2, <2>4
    <3>. QED  BY <2>4, <3>1 DEF ExchangeInv, VerdictInv, LptsTimeoutsDeserved, Polling
  <2>. QED  BY <2>1, <2>3, <2>4
<1>3. CASE ~(i > Len(queries)) /\ child_pid # 0 /\ queries[i].empty
  <2>1. pc' = "returned" /\ result' = [NoResult EXCEPT !.state = "DUCKDB_ERROR"]
    BY <1>3 DEF TakeQuery
  <2>2. result'.state = "DUCKDB_ERROR"
    BY <2>1 DEF NoResult
  <2>3. AtRest' /\ Quiet'
    BY <1>1, <1>3 DEF ExchangeInv, AtRest, Quiet
  <2>4. ~child'.valid => Poisons'
    BY <1>1, <1>3, QueryStays DEF ExchangeInv, Poisons, SameQuery
  <2>5. FairState("DUCKDB_ERROR", child.opened)
    BY <1>3 DEF FairState, Deserved
  <2>6. FairState(result.state, child.opened)'
    BY <1>1, <2>2, <2>5, QueryStays DEF FairState
  <2>. QED  BY <1>1, <2>1, <2>2, <2>3, <2>4, <2>6
            DEF ExchangeInv, VerdictInv, LptsTimeoutsDeserved, Polling
<1>4. CASE ~(i > Len(queries)) /\ child_pid # 0 /\ ~queries[i].empty
  <2>1. pc' = "submit"
    BY <1>4 DEF TakeQuery
  <2>2. AtRest' /\ Quiet' /\ (~child'.valid => Poisoned(i)')
    BY <1>1, <1>4, QueryStays DEF ExchangeInv, AtRest, Quiet
  <2>. QED  BY <2>1, <2>2 DEF ExchangeInv, VerdictInv, LptsTimeoutsDeserved, Polling
<1>. QED  BY <1>2, <1>3, <1>4

LEMMA DriverSubmits ==
    ASSUME StormTypeOK, ProcessInv, ExchangeInv, SubmitQuery
    PROVE  ExchangeInv' /\ VerdictInv'
<1>1. /\ SameQuery /\ pc = "submit" /\ child_pid # 0
      /\ UNCHANGED <<child, from_child>>
      /\ active_phase' = "duckdb"
  BY DEF SubmitQuery, SameQuery, ProcessInv, doneVars, argVars
<1>2. AtRest /\ Quiet /\ (~child.valid => Poisoned(i))
  BY <1>1 DEF ExchangeInv
<1>3. CASE Alive
  <2>1. to_child' = Append(to_child, i) /\ pc' = "top"
    BY <1>3 DEF SubmitQuery
  <2>2. to_child' = <<i>> /\ from_child' = << >> /\ i' = i
    BY <1>1, <1>2, <2>1 DEF Quiet, SameQuery
  <2>3. Sent'
    BY <1>1, <1>2, <2>2, QueryStays DEF Sent, AtRest
  <2>4. FairPipe'
    BY <2>2 DEF FairPipe
  <2>. QED  BY <1>1, <2>1, <2>3, <2>4 DEF ExchangeInv, VerdictInv, LptsTimeoutsDeserved, Polling
<1>4. CASE ~Alive
  <2>1. CrashReaped /\ child.pc = "gone"
    BY <1>1, <1>4 DEF SubmitQuery, ProcessInv, Alive
  <2>2. FairState("CRASH", child.opened)
    BY <1>2, <2>1 DEF AtRest, FairState
  <2>. QED  BY <1>1, <2>1, <2>2, CrashEnds
<1>. QED  BY <1>3, <1>4

LEMMA DriverPolls ==
    ASSUME StormTypeOK, ProcessInv, ExchangeInv,
           PollTop \/ PollTimesOut \/ PollIdle \/ SeeHangup \/ Expire
    PROVE  ExchangeInv' /\ VerdictInv'
<1>1. /\ SameQuery /\ Polling
      /\ UNCHANGED <<child, past_duckdb, to_child, from_child, active_phase>>
      /\ expired => expired'
  BY DEF PollTop, PollTimesOut, PollIdle, SeeHangup, Expire, SameQuery, Polling, childVars,
         pipeVars, doneVars, argVars, submitVars
<1>2. CASE CrashReaped /\ ~Alive
  BY <1>1, <1>2, DeadIsCrash, CrashEnds
<1>3. CASE KillForTimeout
  BY <1>1, <1>3, TimeoutEnds DEF ExchangeInv
<1>4. CASE Polling'
  BY <1>1, <1>4, PollsOn
<1>5. \/ CrashReaped /\ ~Alive
      \/ KillForTimeout
      \/ Polling'
  BY DEF PollTop, PollTimesOut, PollIdle, SeeHangup, Expire, Polling
<1>. QED  BY <1>2, <1>3, <1>4, <1>5

\* What is left in the pipe when its first message has been read.
LEMMA HeadAndRest ==
    ASSUME StormTypeOK, FairPipe, from_child # << >>, from_child' = Tail(from_child)
    PROVE  /\ Head(from_child) = from_child[1] /\ 1 \in DOMAIN from_child
           /\ FairMessage(from_child[1])
           /\ Head(from_child).kind # "phase" => from_child' = << >>
           /\ Len(from_child') \in Nat /\ Len(from_child) = Len(from_child') + 1
           /\ DOMAIN from_child' = 1..Len(from_child')
           /\ \A k \in DOMAIN from_child' :
                 k + 1 \in DOMAIN from_child /\ from_child'[k] = from_child[k + 1]
<1>1. from_child \in Seq(Message)
  BY DEF StormTypeOK
<1>2. /\ Head(from_child) = from_child[1] /\ Len(from_child) \in Nat /\ Len(from_child) >= 1
      /\ DOMAIN from_child = 1..Len(from_child)
      /\ from_child' \in Seq(Message) /\ Len(from_child') = Len(from_child) - 1
      /\ \A k \in 1..Len(from_child') : from_child'[k] = from_child[k + 1]
  BY <1>1
<1>3. DOMAIN from_child' = 1..Len(from_child')
  BY <1>2
<1>4. 1 \in DOMAIN from_child
  BY <1>2
<1>5. FairMessage(from_child[1]) /\ (1 < Len(from_child) => from_child[1].kind = "phase")
  BY <1>4 DEF FairPipe
<1>6. ASSUME Head(from_child).kind # "phase" PROVE from_child' = << >>
  <2>1. Len(from_child) = 1
    BY <1>2, <1>5, <1>6
  <2>. QED  BY <1>2, <2>1
<1>. QED  BY <1>2, <1>3, <1>4, <1>5, <1>6

LEMMA DriverReadsPhase ==
    ASSUME StormTypeOK, ProcessInv, PositionInv, ExchangeInv, ReadPhase
    PROVE  ExchangeInv' /\ VerdictInv'
<1>1. /\ SameQuery /\ Polling /\ pc' = "top" /\ from_child # << >>
      /\ Head(from_child).kind = "phase"
      /\ active_phase' = NewPhase(Head(from_child).phase)
      /\ from_child' = Tail(from_child)
      /\ UNCHANGED <<child, to_child, past_duckdb, expired>>
  BY DEF ReadPhase, SameQuery, Polling, childVars, doneVars, argVars
<1>2. FairPipe /\ (Sent \/ Running \/ Ended)
  BY <1>1 DEF ExchangeInv
<1>3. /\ FairMessage(from_child[1]) /\ from_child[1].kind = "phase"
      /\ Len(from_child') \in Nat /\ Len(from_child) = Len(from_child') + 1
      /\ DOMAIN from_child' = 1..Len(from_child')
      /\ \A k \in DOMAIN from_child' :
            k + 1 \in DOMAIN from_child /\ from_child'[k] = from_child[k + 1]
      /\ Head(from_child) = from_child[1]
  BY <1>1, <1>2, HeadAndRest
<1>4. FairPipe'
  <2>1. \A x : FairMessage(x) => FairMessage(x)'
    BY <1>1, MessagesStay
  <2>2. ASSUME NEW k \in DOMAIN from_child'
        PROVE  /\ FairMessage(from_child[k])'
               /\ k < Len(from_child') => from_child'[k].kind = "phase"
    <3>1. k + 1 \in DOMAIN from_child /\ from_child'[k] = from_child[k + 1]
      BY <1>3
    <3>2. /\ FairMessage(from_child[k + 1])
          /\ k + 1 < Len(from_child) => from_child[k + 1].kind = "phase"
      BY <1>2, <3>1 DEF FairPipe
    <3>3. k < Len(from_child') => k + 1 < Len(from_child)
      BY <1>3
    <3>4. PICK x : x = from_child[k + 1]
      OBVIOUS
    <3>5. FairMessage(x)'
      BY <2>1, <3>2, <3>4
    <3>6. x = from_child'[k]
      BY <3>1, <3>4
    <3>7. FairMessage(from_child[k])'
      BY <3>5, <3>6 DEF FairMessage
    <3>. QED  BY <3>1, <3>2, <3>3, <3>7
  <2>. QED  BY <2>2 DEF FairPipe
<1>5. active_phase' # "duckdb" => FineInDuckDB(i)' /\ past_duckdb'
  <2>1. CASE expired
    BY <1>1, <2>1, QueryStays DEF NewPhase, ExchangeInv
  <2>2. CASE ~expired
    BY <1>1, <1>3, <2>2, QueryStays DEF NewPhase, FairMessage
  <2>. QED  BY <2>1, <2>2
<1>6. ASSUME Running PROVE Running'
  <2>1. \A k \in DOMAIN from_child' : from_child'[k].kind = "phase"
    BY <1>3, <1>6 DEF Running
  <2>2. Passed(child.pc)' <=> Passed(child.pc)
    BY <1>1, QueryStays DEF Passed, SameQuery, FineInDuckDB
  <2>. QED  BY <1>1, <1>6, <2>1, <2>2, QueryStays DEF Running, SameQuery
<1>7. ASSUME Ended PROVE Ended'
  <2>1. FairState("CRASH", TRUE)' <=> FairState("CRASH", TRUE)
    BY <1>1, QueryStays
  <2>2. \A st, internal : Breaks(st, internal)' <=> Breaks(st, internal)
    BY <1>1, QueryStays DEF Breaks
  <2>3. ASSUME NEW k \in DOMAIN from_child'
        PROVE  /\ from_child'[k].kind = "result" =>
                     /\ from_child'[k].state = "CRASH" <=> child'.pc # "waiting"
                     /\ ~child'.valid /\ child'.pc = "waiting" =>
                           Breaks(from_child[k].state, from_child[k].internal)'
               /\ from_child'[k].kind \in {"cut_early", "cut_late"} => child'.pc = "gone"
    <3>1. k + 1 \in DOMAIN from_child /\ from_child'[k] = from_child[k + 1] /\ child' = child
      BY <1>1, <1>3
    <3>2. PICK x : x = from_child[k + 1]
      OBVIOUS
    <3>3. /\ x.kind = "result" =>
               /\ x.state = "CRASH" <=> child.pc # "waiting"
               /\ ~child.valid /\ child.pc = "waiting" => Breaks(x.state, x.internal)
          /\ x.kind \in {"cut_early", "cut_late"} => child.pc = "gone"
      BY <1>7, <3>1, <3>2 DEF Ended
    <3>4. Breaks(x.state, x.internal) => Breaks(from_child[k].state, from_child[k].internal)'
      BY <1>1, <3>1, <3>2, QueryStays DEF Breaks
    <3>. QED  BY <3>1, <3>2, <3>3, <3>4
  <2>4. child'.pc \in {"waiting", "exiting", "gone"} /\ to_child' = << >>
    BY <1>1, <1>7 DEF Ended
  <2>5. child'.pc # "waiting" => FairState("CRASH", TRUE)'
    BY <1>1, <1>7, <2>1 DEF Ended
  <2>. QED  BY <2>3, <2>4, <2>5 DEF Ended
<1>8. ~Sent
  BY <1>1 DEF Sent
<1>9. Sent' \/ Running' \/ Ended'
  BY <1>2, <1>6, <1>7, <1>8
<1>10. ExchangeInv'
  BY <1>1, <1>4, <1>5, <1>9 DEF ExchangeInv, Polling
<1>11. VerdictInv'
  BY <1>1 DEF VerdictInv, LptsTimeoutsDeserved
<1>. QED  BY <1>10, <1>11

LEMMA DriverReadsResult ==
    ASSUME StormTypeOK, ProcessInv, PositionInv, ExchangeInv, ReadResult
    PROVE  ExchangeInv' /\ VerdictInv'
<1>1. /\ SameQuery /\ Polling /\ from_child # << >>
      /\ Head(from_child).kind = "result"
      /\ result' = [state |-> Head(from_child).state, internal |-> Head(from_child).internal]
      /\ from_child' = Tail(from_child)
      /\ UNCHANGED <<child, to_child, past_duckdb>>
      /\ pc' = IF Head(from_child).state = "CRASH" THEN "reap" ELSE "returned"
  BY DEF ReadResult, SameQuery, Polling, childVars, doneVars, argVars
<1>2. FairPipe /\ (Sent \/ Running \/ Ended)
  BY <1>1 DEF ExchangeInv
<1>3. PICK m : m = from_child[1]
  OBVIOUS
<1>4. /\ FairMessage(m) /\ m.kind = "result" /\ 1 \in DOMAIN from_child
      /\ Head(from_child) = m /\ from_child' = << >>
  BY <1>1, <1>2, <1>3, HeadAndRest
<1>5. Ended
  BY <1>1, <1>2, <1>3, <1>4 DEF Sent, Running
<1>6. /\ child.pc \in {"waiting", "exiting", "gone"} /\ to_child = << >>
      /\ child.pc # "waiting" => FairState("CRASH", TRUE)
      /\ m.state = "CRASH" <=> child.pc # "waiting"
      /\ ~child.valid /\ child.pc = "waiting" => Breaks(m.state, m.internal)
  BY <1>3, <1>4, <1>5 DEF Ended
<1>7. /\ m.state \notin Timeouts /\ FairState(m.state, TRUE)
      /\ result'.state = m.state /\ result'.internal = m.internal
  BY <1>1, <1>4 DEF FairMessage
<1>8. CASE m.state = "CRASH"
  <2>1. pc' = "reap" /\ FairState("CRASH", TRUE)'
    BY <1>1, <1>4, <1>6, <1>8, QueryStays
  <2>. QED  BY <2>1 DEF ExchangeInv, VerdictInv, LptsTimeoutsDeserved, Polling
<1>9. CASE m.state # "CRASH"
  <2>1. pc' = "returned" /\ child'.pc = "waiting" /\ AtRest' /\ Quiet'
    BY <1>1, <1>4, <1>6, <1>9 DEF AtRest, Quiet
  <2>2. ~child.valid => Breaks(m.state, m.internal)
    BY <1>6, <1>9
  <2>3. Ran(i)' = Ran(i)
    BY <1>1, QueryStays
  <2>4. ~child'.valid /\ ~NeedsStop' => Poisons'
    BY <1>1, <1>7, <2>2, <2>3 DEF Breaks, NeedsStop, Poisons
  <2>5. FairState(result.state, child.opened)'
    <3>1. FairState(m.state, child.opened)
      BY <1>7, <1>9 DEF FairState
    <3>2. FairState(m.state, child.opened)'
      BY <1>1, <3>1, QueryStays DEF FairState
    <3>. QED  BY <1>7, <3>2 DEF FairState
  <2>6. result'.state \notin {"CRASH", "LPTS_TIMEOUT"}
    BY <1>7, <1>9 DEF Timeouts
  <2>. QED  BY <2>1, <2>4, <2>5, <2>6 DEF ExchangeInv, VerdictInv, LptsTimeoutsDeserved, Polling
<1>. QED  BY <1>8, <1>9

LEMMA DriverReadsCut ==
    ASSUME StormTypeOK, ProcessInv, PositionInv, ExchangeInv, ReadCut
    PROVE  ExchangeInv' /\ VerdictInv'
<1>1. /\ SameQuery /\ Polling /\ from_child # << >>
      /\ Head(from_child).kind \in {"cut_early", "cut_late"}
      /\ from_child' = Tail(from_child)
      /\ UNCHANGED child
  BY DEF ReadCut, SameQuery, Polling, childVars, doneVars, argVars
<1>2. FairPipe /\ (Sent \/ Running \/ Ended)
  BY <1>1 DEF ExchangeInv
<1>3. /\ from_child[1].kind \in {"cut_early", "cut_late"} /\ 1 \in DOMAIN from_child
  BY <1>1, <1>2, HeadAndRest
<1>4. Ended
  BY <1>1, <1>2, <1>3 DEF Sent, Running
<1>5. child.pc = "gone" /\ FairState("CRASH", TRUE)
  BY <1>3, <1>4 DEF Ended
<1>6. FairState("CRASH", child.opened)
  BY <1>5, CrashIsCrash
<1>7. CASE CrashReaped
  BY <1>1, <1>6, <1>7, CrashEnds
<1>8. CASE result' = [result EXCEPT !.state = "CRASH"] /\ pc' = "returned"
  <2>1. result'.state = "CRASH" /\ child'.pc = "gone"
    BY <1>1, <1>5, <1>8 DEF StormTypeOK
  <2>2. FairState("CRASH", child.opened)'
    BY <1>1, <1>6, QueryStays DEF FairState
  <2>3. FairState(result.state, child.opened)'
    BY <2>1, <2>2 DEF FairState
  <2>4. NeedsStop'
    BY <2>1 DEF NeedsStop
  <2>. QED  BY <1>8, <2>1, <2>3, <2>4 DEF ExchangeInv, VerdictInv, LptsTimeoutsDeserved, Polling
<1>. QED  BY <1>7, <1>8 DEF ReadCut

LEMMA DriverReaps ==
    ASSUME StormTypeOK, ExchangeInv, ReapCrashed
    PROVE  ExchangeInv' /\ VerdictInv'
<1>1. SameQuery /\ CrashReaped /\ UNCHANGED child /\ FairState("CRASH", TRUE)
  BY DEF ReapCrashed, SameQuery, ExchangeInv, childVars, doneVars, argVars
<1>. QED  BY <1>1, CrashIsCrash, CrashEnds

LEMMA DriverReturns ==
    ASSUME ExchangeInv, VerdictInv, Returned
    PROVE  ExchangeInv' /\ VerdictInv'
<1>1. /\ SameQuery /\ pc = "returned" /\ pc' = IF NeedsStop THEN "stop" ELSE "track"
      /\ UNCHANGED <<queries, i, child_pid, child, to_child, from_child, result, past_duckdb>>
  BY DEF Returned, SameQuery, childVars, pipeVars, submitVars, doneVars, argVars
<1>2. /\ NeedsStop' <=> NeedsStop
      /\ AtRest' <=> AtRest
      /\ Quiet' <=> Quiet
  BY <1>1 DEF NeedsStop, AtRest, Quiet
<1>3. Poisons => Poisons'
  BY <1>1, QueryStays DEF Poisons, SameQuery
<1>4. ExchangeInv'
  BY <1>1, <1>2, <1>3 DEF ExchangeInv, Polling
<1>5. FairState(result.state, child.opened)' <=> FairState(result.state, child.opened)
  BY <1>1, QueryStays DEF FairState
<1>6. VerdictInv'
  BY <1>1, <1>5 DEF VerdictInv, LptsTimeoutsDeserved
<1>. QED  BY <1>4, <1>6

LEMMA DriverStops ==
    ASSUME StormTypeOK, PositionInv, VerdictInv, StopAsks \/ StopReaps
    PROVE  ExchangeInv' /\ VerdictInv'
<1>1. /\ SameQuery /\ pc \in {"stop", "stopping"}
      /\ UNCHANGED <<queries, i, child, result>>
  BY DEF StopAsks, StopReaps, SameQuery, childVars, submitVars, doneVars, argVars
<1>2. \/ pc' = "stopping" /\ child_pid' = child_pid
      \/ pc' = AfterStop /\ child_pid' = 0
  BY DEF StopAsks, StopReaps
<1>3. AfterStop \in {"report", "track"}
  BY DEF AfterStop
<1>4. ExchangeInv'
  BY <1>2, <1>3 DEF ExchangeInv, Polling
<1>5. FairState(result.state, child.opened)' <=> FairState(result.state, child.opened)
  BY <1>1, QueryStays DEF FairState
<1>6. VerdictInv'
  BY <1>1, <1>2, <1>3, <1>5 DEF VerdictInv, LptsTimeoutsDeserved
<1>. QED  BY <1>4, <1>6

\* A query's entry joins those of the queries before it.
LEMMA EntryJoins ==
    ASSUME StormTypeOK, PositionInv, Track
    PROVE  /\ i \in Nat /\ i >= 1 /\ i <= Len(queries) /\ i' = i + 1 /\ queries' = queries
           /\ Len(summaries) = i - 1
           /\ DOMAIN summaries = 1..(i - 1) /\ DOMAIN summaries' = 1..i
           /\ summaries'[i].state = result.state /\ summaries'[i].opened = child.opened
           /\ summaries'[i] = [state |-> result.state, opened |-> child.opened]
           /\ \A k \in 1..(i - 1) : summaries'[k] = summaries[k]
           /\ \A k : (FineInDuckDB(k)' <=> FineInDuckDB(k)) /\ Ran(k)' = Ran(k)
           /\ \A k : \A entry : Deserved(k, entry)' <=> Deserved(k, entry)
<1>1. /\ i \in Nat /\ i >= 1 /\ i <= Len(queries) /\ i' = i + 1
      /\ Len(summaries) = i - 1 /\ DOMAIN summaries = 1..Len(summaries)
      /\ queries' = queries /\ compare_perf' = compare_perf
  BY QueriesFacts DEF Track, PositionInv, argVars
<1>2. PICK e : e = [state |-> result.state, opened |-> child.opened]
  OBVIOUS
<1>3. summaries' = Append(summaries, e) /\ summaries \in Seq([state : States, opened : BOOLEAN])
  BY <1>2 DEF Track, StormTypeOK
<1>4. /\ DOMAIN summaries' = 1..i /\ summaries'[i] = e
      /\ \A k \in 1..(i - 1) : summaries'[k] = summaries[k]
  BY <1>1, <1>3
<1>5. e.state = result.state /\ e.opened = child.opened
  BY <1>2
<1>6. \A k : (FineInDuckDB(k)' <=> FineInDuckDB(k)) /\ Ran(k)' = Ran(k)
  BY <1>1 DEF FineInDuckDB, Ran
<1>7. \A k : \A entry : Deserved(k, entry)' <=> Deserved(k, entry)
  BY <1>1, <1>6 DEF Deserved, FineInDuckDB
<1>. QED  BY <1>1, <1>2, <1>4, <1>5, <1>6, <1>7

\* Whether a query meets a poisoned database depends on the entries before it only.
LEMMA PoisonKept ==
    ASSUME StormTypeOK, PositionInv, Track, NEW k \in 1..i, Poisoned(k)
    PROVE  Poisoned(k)'
<1>1. PICK j \in 1..(k - 1) : /\ summaries[j].state = "LPTS_ERROR" /\ "internal" \in Ran(j)
                              /\ \A m \in (j + 1)..(k - 1) : queries[m].empty
  BY DEF Poisoned
<1>2. i \in Nat /\ j \in 1..(i - 1)
  BY EntryJoins
<1>3. /\ summaries'[j].state = "LPTS_ERROR" /\ "internal" \in Ran(j)'
      /\ \A m \in (j + 1)..(k - 1) : queries'[m].empty
  BY <1>1, <1>2, EntryJoins
<1>. QED  BY <1>3 DEF Poisoned, Ran

LEMMA PoisonPassed ==
    ASSUME StormTypeOK, PositionInv, Track, Poisons
    PROVE  Poisoned(i)'
<1>1. /\ i \in Nat /\ i >= 1 /\ i' = i + 1 /\ queries' = queries
      /\ summaries'[i].state = result.state
      /\ \A k : Ran(k)' = Ran(k)
      /\ \A k \in 1..(i - 1) : summaries'[k] = summaries[k]
  BY EntryJoins
<1>2. SUFFICES \E j \in 1..i : /\ summaries'[j].state = "LPTS_ERROR" /\ "internal" \in Ran(j)
                               /\ \A m \in (j + 1)..i : queries[m].empty
  <2>1. PICK j \in 1..i : /\ summaries'[j].state = "LPTS_ERROR" /\ "internal" \in Ran(j)
                          /\ \A m \in (j + 1)..i : queries[m].empty
    BY <1>2
  <2>2. j \in 1..(i' - 1) /\ \A m \in (j + 1)..(i' - 1) : queries'[m].empty
    BY <1>1, <2>1
  <2>3. "internal" \in Ran(j)'
    BY <1>1, <2>1
  <2>. QED  BY <2>1, <2>2, <2>3 DEF Poisoned, Ran
<1>3. CASE result.state = "LPTS_ERROR" /\ "internal" \in Ran(i)
  <2>1. i \in 1..i /\ (i + 1)..i = {}
    BY <1>1
  <2>. QED  BY <1>1, <1>3, <2>1
<1>4. CASE Poisoned(i) /\ queries[i].empty
  <2>1. PICK j \in 1..(i - 1) : /\ summaries[j].state = "LPTS_ERROR" /\ "internal" \in Ran(j)
                                /\ \A m \in (j + 1)..(i - 1) : queries[m].empty
    BY <1>4 DEF Poisoned
  <2>2. j \in 1..i /\ \A m \in (j + 1)..i : m \in (j + 1)..(i - 1) \/ m = i
    BY <1>1
  <2>3. \A m \in (j + 1)..i : queries[m].empty
    BY <1>4, <2>1, <2>2
  <2>. QED  BY <1>1, <2>1, <2>2, <2>3
<1>. QED  BY <1>3, <1>4 DEF Poisons

LEMMA DriverTracks ==
    ASSUME StormTypeOK, PositionInv, ExchangeInv, VerdictInv, JudgedByItself, Track
    PROVE  ExchangeInv' /\ VerdictInv' /\ JudgedByItself'
<1>1. /\ pc = "track" /\ pc' = "next"
      /\ UNCHANGED <<child_pid, child, to_child, from_child, result>>
  BY DEF Track, childVars, pipeVars, submitVars
<1>2. child_pid # 0 => AtRest /\ Quiet /\ (~child.valid => Poisons)
  BY <1>1 DEF ExchangeInv
<1>3. child_pid # 0 => AtRest' /\ Quiet' /\ (~child'.valid => Poisoned(i)')
  BY <1>1, <1>2, PoisonPassed DEF AtRest, Quiet
<1>4. ExchangeInv' /\ VerdictInv'
  BY <1>1, <1>3 DEF ExchangeInv, VerdictInv, LptsTimeoutsDeserved, Polling
<1>5. FairState(result.state, child.opened)
  BY <1>1, EntryJoins DEF VerdictInv
<1>6. Poisoned(i) \/ Deserved(i, [state |-> result.state, opened |-> child.opened])
  <2>1. CASE result.state = "CRASH"
    BY <1>5, <2>1 DEF FairState, Deserved
  <2>2. CASE result.state # "CRASH"
    <3>1. Deserved(i, [state |-> result.state, opened |-> TRUE])
      BY <1>5, <2>2 DEF FairState
    <3>2. PICK d, e : /\ d = [state |-> result.state, opened |-> TRUE]
                      /\ e = [state |-> result.state, opened |-> child.opened]
      OBVIOUS
    <3>3. d.state = result.state /\ e.state = result.state
      BY <3>2
    <3>4. Deserved(i, d)
      BY <3>1, <3>2
    <3>5. ASSUME NEW a, NEW b, a.state = result.state, b.state = result.state, Deserved(i, a)
          PROVE  Deserved(i, b)
      <4>1. result.state \in States \ {"CRASH"}
        BY <2>2 DEF StormTypeOK
      <4>. QED  BY <3>5, <4>1 DEF Deserved, States, Timeouts
    <3>6. Deserved(i, e)
      BY <3>3, <3>4, <3>5
    <3>. QED  BY <3>2, <3>6
  <2>. QED  BY <2>1, <2>2
<1>7. ASSUME NEW k \in DOMAIN summaries'
      PROVE  Poisoned(k)' \/ Deserved(k, summaries[k])'
  <2>1. k \in 1..i /\ (k = i \/ k \in 1..(i - 1))
    BY EntryJoins
  <2>2. PICK e : e = summaries'[k]
    OBVIOUS
  <2>3. Poisoned(k) \/ Deserved(k, e)
    <3>1. CASE k = i
      BY <1>6, <2>2, <3>1, EntryJoins
    <3>2. CASE k \in 1..(i - 1)
      <4>1. summaries'[k] = summaries[k] /\ k \in DOMAIN summaries
        BY <3>2, EntryJoins
      <4>. QED  BY <2>2, <4>1 DEF JudgedByItself
    <3>. QED  BY <2>1, <3>1, <3>2
  <2>4. Deserved(k, e) => Deserved(k, e)'
    BY EntryJoins
  <2>5. Deserved(k, e)' => Deserved(k, summaries[k])'
    BY <2>2 DEF Deserved
  <2>. QED  BY <2>1, <2>3, <2>4, <2>5, PoisonKept
<1>8. JudgedByItself'
  BY <1>7 DEF JudgedByItself
<1>. QED  BY <1>4, <1>8

\* Only Track adds an entry.
LEMMA JudgedStays ==
    ASSUME JudgedByItself, UNCHANGED <<queries, compare_perf, summaries>>
    PROVE  JudgedByItself'
<1>1. \A k : (FineInDuckDB(k)' <=> FineInDuckDB(k)) /\ Ran(k)' = Ran(k)
  BY DEF FineInDuckDB, Ran
<1>2. \A k : Poisoned(k)' <=> Poisoned(k)
  BY <1>1 DEF Poisoned, Ran
<1>3. \A k : \A entry : Deserved(k, entry)' <=> Deserved(k, entry)
  BY <1>1 DEF Deserved, FineInDuckDB
<1>4. ASSUME NEW k \in DOMAIN summaries'
      PROVE  Poisoned(k)' \/ Deserved(k, summaries[k])'
  <2>1. PICK e : e = summaries[k]
    OBVIOUS
  <2>2. Poisoned(k) \/ Deserved(k, e)
    BY <2>1 DEF JudgedByItself
  <2>3. Poisoned(k)' \/ Deserved(k, e)'
    BY <1>2, <1>3, <2>2
  <2>4. Deserved(k, e)' => Deserved(k, summaries[k])'
    BY <2>1 DEF Deserved
  <2>. QED  BY <2>3, <2>4
<1>. QED  BY <1>4 DEF JudgedByItself

------------------------------------------------------------------------------
(* The invariant.                                                          *)

LEMMA RunnerInit == StormInit => RunnerInv
<1>. SUFFICES ASSUME StormInit PROVE RunnerInv
  OBVIOUS
<1>1. StormTypeOK
  BY TypeInit
<1>2. /\ pc = "start" /\ i = 1 /\ child_pid = 0 /\ proc = << >> /\ summaries = << >>
      /\ child.pc = "gone"
  BY DEF StormInit, Fresh
<1>3. DOMAIN summaries = {} /\ DOMAIN proc = {} /\ Len(summaries) = 0
  BY <1>2
<1>4. ProcessInv /\ CheckingInv
  BY <1>2, <1>3 DEF ProcessInv, CheckingInv
<1>5. PositionInv
  BY <1>2, <1>3 DEF PositionInv
<1>6. ExchangeInv /\ VerdictInv
  BY <1>2 DEF ExchangeInv, VerdictInv, LptsTimeoutsDeserved, Polling
<1>7. JudgedByItself
  BY <1>3 DEF JudgedByItself
<1>. QED  BY <1>1, <1>4, <1>5, <1>6, <1>7 DEF RunnerInv

LEMMA ExchangeStep ==
    RunnerInv /\ [StormNext]_stormVars => ExchangeInv' /\ VerdictInv' /\ JudgedByItself'
<1>. SUFFICES ASSUME RunnerInv, [StormNext]_stormVars
              PROVE  ExchangeInv' /\ VerdictInv' /\ JudgedByItself'
  OBVIOUS
<1>1. StormTypeOK /\ ProcessInv /\ PositionInv /\ CheckingInv /\ ExchangeInv /\ VerdictInv
      /\ JudgedByItself
  BY DEF RunnerInv
<1>2. CASE Track
  BY <1>1, <1>2, DriverTracks
<1>3. CASE ~Track
  <2>1. UNCHANGED <<queries, compare_perf, summaries>>
    BY <1>3 DEF StormNext, Child, ChildOpens, ChildReads, ChildAdvances, ChildAnswers, ChildExits,
                ChildKilled, Driver, Start, TakeQuery, SubmitQuery, PollTop, ReadPhase, ReadResult,
                ReapCrashed, ReadCut, SeeHangup, PollTimesOut, PollIdle, Returned, StopAsks,
                StopReaps, Report, Expire, stormVars, argVars, doneVars
  <2>2. JudgedByItself'
    BY <1>1, <2>1, JudgedStays
  <2>3. CASE Child
    BY <1>1, <2>2, <2>3, ExchangeChild, VerdictChild
  <2>4. CASE Driver
    <3>1. CASE Start
      BY <1>1, <2>2, <3>1, DriverStarts
    <3>2. CASE TakeQuery
      BY <1>1, <2>2, <3>2, DriverTakes
    <3>3. CASE SubmitQuery
      BY <1>1, <2>2, <3>3, DriverSubmits
    <3>4. CASE PollTop \/ PollTimesOut \/ PollIdle \/ SeeHangup
      BY <1>1, <2>2, <3>4, DriverPolls
    <3>5. CASE ReadPhase
      BY <1>1, <2>2, <3>5, DriverReadsPhase
    <3>6. CASE ReadResult
      BY <1>1, <2>2, <3>6, DriverReadsResult
    <3>7. CASE ReadCut
      BY <1>1, <2>2, <3>7, DriverReadsCut
    <3>8. CASE ReapCrashed
      BY <1>1, <2>2, <3>8, DriverReaps
    <3>9. CASE Returned
      BY <1>1, <2>2, <3>9, DriverReturns
    <3>10. CASE StopAsks \/ StopReaps
      BY <1>1, <2>2, <3>10, DriverStops
    <3>11. CASE Report
      <4>1. pc' = "done"
        BY <3>11 DEF Report
      <4>. QED  BY <2>2, <4>1 DEF ExchangeInv, VerdictInv, LptsTimeoutsDeserved, Polling
    <3>. QED  BY <1>3, <2>4, <3>1, <3>2, <3>3, <3>4, <3>5, <3>6, <3>7, <3>8, <3>9, <3>10, <3>11
              DEF Driver
  <2>5. CASE Expire
    BY <1>1, <2>2, <2>5, DriverPolls
  <2>6. CASE UNCHANGED stormVars
    <3>1. /\ SameQuery
          /\ UNCHANGED <<pc, child_pid, child, to_child, from_child, active_phase, expired, result,
                         past_duckdb, queries, i>>
      BY <2>6 DEF stormVars, SameQuery, argVars, childVars, pipeVars, submitVars, doneVars
    <3>2. CASE Polling
      <4>1. Polling'
        BY <3>1, <3>2 DEF Polling
      <4>. QED  BY <1>1, <2>2, <3>1, <3>2, <4>1, PollsOn
    <3>3. CASE ~Polling
      <4>1. (NeedsStop' <=> NeedsStop) /\ (AtRest' <=> AtRest) /\ (Quiet' <=> Quiet) /\ ~Polling'
        BY <3>1, <3>3 DEF NeedsStop, AtRest, Quiet, Polling
      <4>2. (Poisons => Poisons') /\ (Poisoned(i) => Poisoned(i)')
        BY <3>1, QueryStays DEF Poisons, SameQuery
      <4>3. /\ FairState("CRASH", TRUE) => FairState("CRASH", TRUE)'
            /\ FairState(result.state, child.opened) => FairState(result.state, child.opened)'
        BY <3>1, QueryStays DEF FairState
      <4>4. ExchangeInv'
        BY <1>1, <3>1, <4>1, <4>2, <4>3 DEF ExchangeInv
      <4>5. VerdictInv'
        BY <1>1, <3>1, <4>3 DEF VerdictInv, LptsTimeoutsDeserved
      <4>. QED  BY <2>2, <4>4, <4>5
    <3>. QED  BY <3>2, <3>3
  <2>. QED  BY <2>3, <2>4, <2>5, <2>6 DEF StormNext
<1>. QED  BY <1>2, <1>3

LEMMA RunnerInvariant == StormSpec => []RunnerInv
<1>1. StormInit => RunnerInv
  BY RunnerInit
<1>2. RunnerInv /\ [StormNext]_stormVars => RunnerInv'
  <2>. SUFFICES ASSUME RunnerInv, [StormNext]_stormVars PROVE RunnerInv'
    OBVIOUS
  <2>1. StormTypeOK /\ ProcessInv /\ PositionInv /\ CheckingInv
    BY DEF RunnerInv
  <2>2. StormTypeOK' /\ ProcessInv' /\ PositionInv' /\ CheckingInv'
    BY <2>1, TypeStep, ProcessStep, PositionStep, CheckingStep
  <2>3. ExchangeInv' /\ VerdictInv' /\ JudgedByItself'
    BY ExchangeStep
  <2>. QED  BY <2>2, <2>3 DEF RunnerInv
<1>. QED  BY <1>1, <1>2, PTL DEF StormSpec


------------------------------------------------------------------------------
(* Theorems.                                                               *)

\* Every variable of the driver, of the worker and of the pipes between them keeps its type.
THEOREM RunnerTyped == StormSpec => []StormTypeOK
<1>1. RunnerInv => StormTypeOK
  BY DEF RunnerInv
<1>. QED  BY <1>1, RunnerInvariant, PTL

\* However the queries end and in whatever order that is noticed, ForkWorker never loses sight
\* of a process: the ones before the latest have been waited for, and so has the latest when
\* the driver is done.
THEOREM NoneLeftBehind == StormSpec => []NoProcessLeft
<1>1. RunnerInv => NoProcessLeft
  BY DEF RunnerInv, ProcessInv, NoProcessLeft
<1>. QED  BY <1>1, RunnerInvariant, PTL

\* No query is ever given the answer, or the phase, of another: what the pipes hold while one
\* is polled for is its own, and they are empty when a kept worker is given the next.
THEOREM AnswersToTheirQueries == StormSpec => []PipesInStep
<1>1. ASSUME RunnerInv PROVE PipesInStep
  <2>1. StormTypeOK /\ ExchangeInv
    BY <1>1 DEF RunnerInv
  <2>2. ASSUME Polling
        PROVE  /\ \A k \in DOMAIN to_child : to_child[k] = i
               /\ \A k \in DOMAIN from_child : from_child[k].sql = i
    <3>1. FairPipe /\ (Sent \/ Running \/ Ended)
      BY <2>1, <2>2 DEF ExchangeInv
    <3>2. to_child = <<i>> \/ to_child = << >>
      BY <3>1 DEF Sent, Running, Ended
    <3>3. \A k \in DOMAIN to_child : to_child[k] = i
      <4>1. CASE to_child = << >>
        BY <4>1
      <4>2. CASE to_child = <<i>>
        <5>1. DOMAIN to_child = {1} /\ to_child[1] = i
          BY <4>2
        <5>. QED  BY <5>1
      <4>. QED  BY <3>2, <4>1, <4>2
    <3>. QED  BY <3>1, <3>3 DEF FairPipe, FairMessage
  <2>3. pc \in {"next", "submit"} /\ child_pid # 0 =>
            to_child = << >> /\ from_child = << >> /\ child.pc \in {"opening", "waiting", "gone"}
    BY <2>1 DEF ExchangeInv, AtRest, Quiet
  <2>. QED  BY <2>2, <2>3 DEF PipesInStep
<1>. QED  BY <1>1, RunnerInvariant, PTL

\* The timeout of a query is blamed on LPTS only if its DuckDB phase was over in time, although
\* the driver learns of the phases from messages that it may read after the deadline.
THEOREM TimeoutsAreDeserved == StormSpec => []LptsTimeoutsDeserved
<1>1. RunnerInv => LptsTimeoutsDeserved
  BY DEF RunnerInv, VerdictInv
<1>. QED  BY <1>1, RunnerInvariant, PTL

\* An entry of the summary tells of what its own query does, or of a database that an INTERNAL
\* error of an earlier LPTS phase has invalidated: crashes, timeouts, cut messages and restarts
\* never shift a verdict to another query.
THEOREM EachForItself == StormSpec => []JudgedByItself
<1>1. RunnerInv => JudgedByItself
  BY DEF RunnerInv
<1>. QED  BY <1>1, RunnerInvariant, PTL

\* Every success of a full list means that each of its queries was run and checked.
THEOREM GreenIsChecked == StormSpec => []GreenMeansChecked
<1>1. ASSUME RunnerInv PROVE GreenMeansChecked
  <2>. SUFFICES ASSUME pc = "done", exit_code = 0, NEW k \in DOMAIN queries
                PROVE  ~queries[k].empty /\ Ran(k) \subseteq {"ok", "hogs"}
    BY DEF GreenMeansChecked
  <2>. DEFINE Won == {n \in DOMAIN summaries : summaries[n].state = "SUCCESS"}
  <2>1. StormTypeOK /\ PositionInv /\ JudgedByItself
    BY <1>1 DEF RunnerInv
  <2>2. /\ i > Len(queries) /\ Len(summaries) = i - 1 /\ Cardinality(Won) = Len(queries)
    BY <2>1 DEF PositionInv, Successes
  <2>3. /\ i \in Nat /\ i <= Len(queries) + 1 /\ Len(queries) \in Nat
        /\ DOMAIN queries = 1..Len(queries) /\ DOMAIN summaries = 1..Len(summaries)
    BY <2>1, QueriesFacts DEF StormTypeOK
  <2>4. Len(summaries) = Len(queries) /\ DOMAIN summaries = 1..Len(queries)
    BY <2>2, <2>3
  <2>5. /\ IsFiniteSet(1..Len(queries))
        /\ Cardinality(1..Len(queries)) = Len(queries)
    <3>1. /\ IsFiniteSet(1..Len(queries))
          /\ Cardinality(1..Len(queries)) =
                IF 1 > Len(queries) THEN 0 ELSE Len(queries) - 1 + 1
      BY <2>3, FS_Interval
    <3>. QED  BY <2>3, <3>1
  <2>6. Won = 1..Len(queries)
    <3>1. Won \subseteq 1..Len(queries)
      BY <2>4
    <3>. HIDE DEF Won
    <3>. QED  BY <2>2, <2>5, <3>1, FS_Subset
  <2>7. \A n \in 1..Len(queries) : summaries[n].state = "SUCCESS"
    BY <2>6
  <2>8. ~Poisoned(k)
    <3>1. \A j \in 1..(k - 1) : j \in 1..Len(queries)
      BY <2>3
    <3>. QED  BY <2>7, <3>1 DEF Poisoned
  <2>9. Deserved(k, summaries[k]) /\ summaries[k].state = "SUCCESS"
    BY <2>1, <2>3, <2>4, <2>7, <2>8 DEF JudgedByItself
  <2>. QED  BY <2>9 DEF Deserved
<1>. QED  BY <1>1, RunnerInvariant, PTL

=============================================================================
