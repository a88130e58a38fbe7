--------------------------- MODULE SqlStormRunner ---------------------------
(***************************************************************************)
(* The SQLStorm driver (src/benchmark/sqlstorm/lpts_sqlstorm_benchmark.cpp)*)
(* hands its queries one by one to a forked worker, which runs each query  *)
(* in DuckDB, optionally generates and runs its rewrite, and then runs it  *)
(* again under strict lpts_check.  Worker and driver talk through two      *)
(* pipes; the driver keeps a deadline per query and restarts the worker    *)
(* when it died, was killed or lost its database.                          *)
(***************************************************************************)
EXTENDS Integers, Sequences, FiniteSets

CONSTANTS
    Workloads,      \* lists of queries the driver may be given
    MaxTorn         \* bound: messages a worker may be killed in the middle of

LptsPhases == {"lpts_generate", "lpts_exec", "lpts_check"}
QueryPhases == {"duckdb"} \cup LptsPhases

\* What running a phase may come to.  "fatal" stands for errors IsCrashError recognises,
\* "internal" for INTERNAL errors, both of which invalidate DuckDB's database; "dies" for a
\* signal, "hogs" for a success that needs more than 25 GB on the way.
Outcomes == {"ok", "hogs", "error", "unsupported", "wrong", "unstable", "internal", "fatal",
             "dies", "hangs"}
Query == [empty : BOOLEAN, does : [QueryPhases -> Outcomes]]
Timeouts == {"DUCKDB_TIMEOUT", "LPTS_TIMEOUT"}
States == {"SUCCESS", "INCORRECT", "DUCKDB_ERROR", "LPTS_ERROR", "NOT_IMPLEMENTED", "CRASH",
           "NONDETERMINISTIC"} \cup Timeouts

\* Only the check compares results and finds them wrong, or judges the query unstable.
ASSUME WorkloadsAssumption ==
    \A s \in Workloads :
        /\ s \in Seq(Query)
        /\ \A i \in DOMAIN s, ph \in QueryPhases \ {"lpts_check"} :
              s[i].does[ph] \notin {"wrong", "unstable"}
ASSUME MaxTornAssumption == MaxTorn \in Nat

VARIABLES
    queries, compare_perf,  \* the arguments of RunSQLStormBenchmark
    pc,             \* the driver: where it is
    i,              \* index of the current query
    child_pid,      \* the process the driver thinks it has, 0 if none
    proc,           \* the processes forked so far: "alive", "zombie" or "reaped"
    child,          \* the latest process: its phase and its connection
    to_child, from_child,       \* the pipes
    active_phase,   \* the phase the driver believes the child to be in
    expired,        \* the deadline of the current query has passed
    result,         \* the outcome of Submit: a state, and whether the error is INTERNAL
    summaries,      \* one entry per finished query
    exit_code,      \* with --require-success
    torn,           \* how many messages have been cut off
    past_duckdb     \* ghost: the DuckDB phase was over before the deadline

argVars == <<queries, compare_perf>>
childVars == <<child, torn, past_duckdb>>
pipeVars == <<to_child, from_child>>
submitVars == <<active_phase, expired, result>>
doneVars == <<summaries, exit_code>>
stormVars == <<argVars, pc, i, child_pid, proc, childVars, pipeVars, submitVars, doneVars>>

NoResult == [state |-> "SUCCESS", internal |-> FALSE]
Fresh == [pc |-> "opening", sql |-> 0, valid |-> TRUE, lpts_check |-> FALSE, opened |-> FALSE]

StormInit ==
    /\ queries \in Workloads /\ compare_perf \in BOOLEAN
    /\ pc = "start" /\ i = 1
    /\ child_pid = 0 /\ proc = << >>
    /\ child = [Fresh EXCEPT !.pc = "gone"]
    /\ to_child = << >> /\ from_child = << >>
    /\ active_phase = "duckdb" /\ expired = FALSE /\ result = NoResult
    /\ summaries = << >> /\ exit_code = 0
    /\ torn = 0 /\ past_duckdb = FALSE

------------------------------------------------------------------------------
(* The worker (ChildWorkerMain).                                           *)

Alive == child_pid # 0 /\ proc[child_pid] = "alive"
Dies == proc' = [proc EXCEPT ![child_pid] = "zombie"]

Phase(ph) == [kind |-> "phase", phase |-> ph, sql |-> child.sql]
Answer(st, internal) ==
    [kind |-> "result", sql |-> child.sql, state |-> st, internal |-> internal]
Cut(part) == [kind |-> part, sql |-> child.sql]

\* The database is opened and the extensions are loaded; when that throws, _exit(2).
ChildOpens ==
    /\ Alive /\ child.pc = "opening"
    /\ \/ /\ child' = [child EXCEPT !.pc = "waiting", !.opened = TRUE]
          /\ UNCHANGED proc
       \/ /\ child' = [child EXCEPT !.pc = "gone"]
          /\ Dies
    /\ UNCHANGED <<argVars, pc, i, child_pid, torn, past_duckdb, pipeVars, submitVars, doneVars>>

\* The child reads a query, or the zero that ends it.
ChildReads ==
    /\ Alive /\ child.pc = "waiting" /\ to_child # << >>
    /\ to_child' = Tail(to_child)
    /\ IF Head(to_child) = 0
       THEN /\ child' = [child EXCEPT !.pc = "gone"]
            /\ Dies
            /\ UNCHANGED from_child
       ELSE /\ child' = [child EXCEPT !.pc = "duckdb", !.sql = Head(to_child)]
            /\ from_child' = Append(from_child, [kind |-> "phase", phase |-> "duckdb",
                                                 sql |-> Head(to_child)])
            /\ UNCHANGED proc
    /\ UNCHANGED <<argVars, pc, i, child_pid, torn, past_duckdb, submitVars, doneVars>>

\* An invalidated database fails every statement, and a connection with lpts_check set
\* checks whatever SELECT it runs.
Outcome ==
    IF ~child.valid THEN "fatal"
    ELSE queries[child.sql].does[IF child.lpts_check THEN "lpts_check" ELSE child.pc]

NextPhase(ph) ==
    CASE ph = "duckdb" -> IF compare_perf THEN "lpts_generate" ELSE "lpts_check"
      [] ph = "lpts_generate" -> "lpts_exec"
      [] OTHER -> "lpts_check"

\* How the child classifies the error of a phase.
StateOf(ph, outcome) ==
    CASE outcome = "fatal" -> "CRASH"
      [] outcome # "fatal" /\ ph = "duckdb" -> "DUCKDB_ERROR"
      [] ph # "duckdb" /\ outcome = "unsupported" -> "NOT_IMPLEMENTED"
      [] ph = "lpts_check" /\ outcome = "wrong" -> "INCORRECT"
      [] ph = "lpts_check" /\ outcome = "unstable" -> "NONDETERMINISTIC"
      [] OTHER -> "LPTS_ERROR"

\* A phase other than the last succeeds: the next one is announced.  lpts_check is set for
\* the last one.
ChildAdvances ==
    /\ Alive /\ child.pc \in QueryPhases \ {"lpts_check"}
    /\ Outcome \in {"ok", "hogs"}
    /\ LET next == NextPhase(child.pc) IN
       /\ child' = [child EXCEPT !.pc = next, !.lpts_check = (next = "lpts_check")]
       /\ from_child' = Append(from_child, Phase(next))
    /\ past_duckdb' = (past_duckdb \/ ~expired)
    /\ UNCHANGED <<argVars, pc, i, child_pid, proc, torn, to_child, submitVars, doneVars>>

\* Mutant: lpts_check stays set when the check has failed.
ChildAnswers_StillChecking ==
    /\ Alive /\ child.pc \in QueryPhases
    /\ Outcome \notin {"dies", "hangs"}
    /\ Outcome \in {"ok", "hogs"} => child.pc = "lpts_check"
    /\ LET st == IF Outcome \in {"ok", "hogs"} THEN "SUCCESS" ELSE StateOf(child.pc, Outcome) IN
       /\ child' = [child EXCEPT !.pc = IF st = "CRASH" THEN "exiting" ELSE "waiting",
                                 !.valid = @ /\ Outcome \notin {"internal", "fatal"}]
       /\ from_child' = Append(from_child, Answer(st, Outcome = "internal"))
    /\ UNCHANGED <<argVars, pc, i, child_pid, proc, torn, past_duckdb, to_child, submitVars,
                   doneVars>>

\* The last phase has run or one has failed: lpts_check is reset and the summary sent.
ChildAnswers ==
    /\ Alive /\ child.pc \in QueryPhases
    /\ Outcome \notin {"dies", "hangs"}
    /\ Outcome \in {"ok", "hogs"} => child.pc = "lpts_check"
    /\ LET st == IF Outcome \in {"ok", "hogs"} THEN "SUCCESS" ELSE StateOf(child.pc, Outcome) IN
       /\ child' = [child EXCEPT !.pc = IF st = "CRASH" THEN "exiting" ELSE "waiting",
                                 !.valid = @ /\ Outcome \notin {"internal", "fatal"},
                                 !.lpts_check = FALSE]
       /\ from_child' = Append(from_child, Answer(st, Outcome = "internal"))
    /\ UNCHANGED <<argVars, pc, i, child_pid, proc, torn, past_duckdb, to_child, submitVars,
                   doneVars>>

\* _exit(1) after a crash summary.
ChildExits ==
    /\ Alive /\ child.pc = "exiting"
    /\ child' = [child EXCEPT !.pc = "gone"]
    /\ Dies
    /\ UNCHANGED <<argVars, pc, i, child_pid, torn, past_duckdb, pipeVars, submitVars, doneVars>>

\* A signal ends the child while it runs a phase, or while it writes a message: then the
\* driver reads the message up to a point before or after the state of a result.
ChildKilled ==
    /\ Alive /\ child.pc \in QueryPhases
    /\ Outcome = "dies"
    /\ \/ UNCHANGED <<from_child, torn>>
       \/ /\ torn < MaxTorn /\ torn' = torn + 1
          /\ \E part \in {"cut_early", "cut_late"} : from_child' = Append(from_child, Cut(part))
    /\ child' = [child EXCEPT !.pc = "gone"]
    /\ Dies
    /\ UNCHANGED <<argVars, pc, i, child_pid, past_duckdb, to_child, submitVars, doneVars>>

------------------------------------------------------------------------------
(* The driver: ForkWorker and RunSQLStormBenchmark.                        *)

\* Start: Stop has closed the old pipes; new ones and a new process are made.
Start ==
    /\ pc = "start"
    /\ proc' = Append(proc, "alive")
    /\ child_pid' = Len(proc) + 1
    /\ child' = Fresh
    /\ to_child' = << >> /\ from_child' = << >>
    /\ pc' = "next"
    /\ UNCHANGED <<argVars, i, torn, past_duckdb, submitVars, doneVars>>

\* Mutant: an empty file is not given a state of its own.
TakeQuery_EmptyDefault ==
    /\ pc = "next"
    /\ IF i > Len(queries)
       THEN pc' = "stop" /\ UNCHANGED result
       ELSE IF child_pid = 0
       THEN pc' = "start" /\ UNCHANGED result
       ELSE /\ result' = NoResult
            /\ pc' = IF queries[i].empty THEN "returned" ELSE "submit"
    /\ UNCHANGED <<argVars, i, child_pid, proc, childVars, pipeVars, active_phase, expired,
                   doneVars>>

\* The top of the loop: the worker is started if there is none; an empty file is not run.
TakeQuery ==
    /\ pc = "next"
    /\ IF i > Len(queries)
       THEN pc' = "stop" /\ UNCHANGED result
       ELSE IF child_pid = 0
       THEN pc' = "start" /\ UNCHANGED result
       ELSE IF queries[i].empty
       THEN pc' = "returned" /\ result' = [NoResult EXCEPT !.state = "DUCKDB_ERROR"]
       ELSE pc' = "submit" /\ result' = NoResult
    /\ UNCHANGED <<argVars, i, child_pid, proc, childVars, pipeVars, active_phase, expired,
                   doneVars>>

\* SR_CHILD_DIED, which RunQuery turns into CRASH; the process is waited for.
CrashReaped ==
    /\ proc' = [proc EXCEPT ![child_pid] = "reaped"]
    /\ child_pid' = 0
    /\ result' = [result EXCEPT !.state = "CRASH"]
    /\ pc' = "returned"

\* The query is written to the pipe, which fails if the child is gone.
SubmitQuery ==
    /\ pc = "submit"
    /\ active_phase' = "duckdb" /\ expired' = FALSE /\ past_duckdb' = FALSE
    /\ IF Alive
       THEN /\ to_child' = Append(to_child, i)
            /\ pc' = "top"
            /\ UNCHANGED <<proc, child_pid, result>>
       ELSE CrashReaped /\ UNCHANGED to_child
    /\ UNCHANGED <<argVars, i, child, torn, from_child, doneVars>>

Polling == pc \in {"top", "wait", "idle"}

\* Time passes the deadline.
Expire ==
    /\ Polling /\ ~expired
    /\ expired' = TRUE
    /\ UNCHANGED <<argVars, pc, i, child_pid, proc, childVars, pipeVars, active_phase, result,
                   doneVars>>

\* Mutant: the worker is left running.
KillForTimeout_Detach ==
    /\ child_pid' = 0
    /\ result' = [result EXCEPT
                    !.state = IF active_phase = "duckdb" THEN "DUCKDB_TIMEOUT" ELSE "LPTS_TIMEOUT"]
    /\ pc' = "returned"
    /\ UNCHANGED proc

\* SIGKILL and waitpid, and the timeout of the phase the child was last known to be in.
KillForTimeout ==
    /\ proc' = [proc EXCEPT ![child_pid] = "reaped"]
    /\ child_pid' = 0
    /\ result' = [result EXCEPT
                    !.state = IF active_phase = "duckdb" THEN "DUCKDB_TIMEOUT" ELSE "LPTS_TIMEOUT"]
    /\ pc' = "returned"

\* Mutant: the deadline is not looked at.
PollTop_Patient ==
    /\ pc = "top"
    /\ pc' = "wait"
    /\ UNCHANGED <<argVars, i, child_pid, proc, result, childVars, pipeVars, active_phase,
                   expired, doneVars>>

\* The head of the poll loop.
PollTop ==
    /\ pc = "top"
    /\ IF expired THEN KillForTimeout
       ELSE pc' = "wait" /\ UNCHANGED <<proc, child_pid, result>>
    /\ UNCHANGED <<argVars, i, childVars, pipeVars, active_phase, expired, doneVars>>

\* Mutant: the deadline is not looked at again once the phase has been read.
NewPhase_Late(ph) == ph

\* An announcement read after the deadline does not move the blame.
NewPhase(ph) == IF expired THEN active_phase ELSE ph

ReadPhase ==
    /\ pc = "wait" /\ from_child # << >> /\ Head(from_child).kind = "phase"
    /\ active_phase' = NewPhase(Head(from_child).phase)
    /\ from_child' = Tail(from_child)
    /\ pc' = "top"
    /\ UNCHANGED <<argVars, i, child_pid, proc, childVars, to_child, expired, result, doneVars>>

\* A whole summary; after that of a crash the child is waited for.
ReadResult ==
    /\ pc = "wait" /\ from_child # << >> /\ Head(from_child).kind = "result"
    /\ result' = [state |-> Head(from_child).state, internal |-> Head(from_child).internal]
    /\ from_child' = Tail(from_child)
    /\ pc' = IF Head(from_child).state = "CRASH" THEN "reap" ELSE "returned"
    /\ UNCHANGED <<argVars, i, child_pid, proc, childVars, to_child, active_phase, expired,
                   doneVars>>

\* The blocking waitpid after a crash summary.
ReapCrashed ==
    /\ pc = "reap" /\ ~Alive
    /\ CrashReaped
    /\ UNCHANGED <<argVars, i, childVars, pipeVars, active_phase, expired, doneVars>>

\* A message that ends half way: some reads reap the child, others return at once and
\* leave that to Stop.
ReadCut ==
    /\ pc = "wait" /\ from_child # << >> /\ Head(from_child).kind \in {"cut_early", "cut_late"}
    /\ from_child' = Tail(from_child)
    /\ IF Head(from_child).kind = "cut_early" THEN CrashReaped
       ELSE /\ result' = [result EXCEPT !.state = "CRASH"]
            /\ pc' = "returned"
            /\ UNCHANGED <<proc, child_pid>>
    /\ UNCHANGED <<argVars, i, childVars, to_child, active_phase, expired, doneVars>>

\* poll reports the end of the child's pipe.
SeeHangup ==
    /\ pc = "wait" /\ from_child = << >> /\ ~Alive
    /\ CrashReaped
    /\ UNCHANGED <<argVars, i, childVars, pipeVars, active_phase, expired, doneVars>>

\* poll runs out of time with nothing to read ...
PollTimesOut ==
    /\ pc = "wait" /\ from_child = << >> /\ Alive
    /\ pc' = "idle"
    /\ UNCHANGED <<argVars, i, child_pid, proc, childVars, pipeVars, submitVars, doneVars>>

TooBig == child.pc \in QueryPhases /\ Outcome = "hogs"

\* ... and the driver looks whether the child has died since, whatever it may have sent,
\* and then at its memory.
PollIdle ==
    /\ pc = "idle"
    /\ \/ ~Alive /\ CrashReaped
       \/ Alive /\ TooBig /\ KillForTimeout
       \/ Alive /\ pc' = "top" /\ UNCHANGED <<proc, child_pid, result>>
    /\ UNCHANGED <<argVars, i, childVars, pipeVars, active_phase, expired, doneVars>>

\* After these the worker is stopped, to be started anew for the next query.
NeedsStop ==
    \/ result.state \in Timeouts \cup {"CRASH"}
    \/ result.state = "DUCKDB_ERROR" /\ result.internal

Returned ==
    /\ pc = "returned"
    /\ pc' = IF NeedsStop THEN "stop" ELSE "track"
    /\ UNCHANGED <<argVars, i, child_pid, proc, childVars, pipeVars, submitVars, doneVars>>

\* Mutant: the final stop is taken for one between queries.
AfterStop_Between == "track"

AfterStop == IF i > Len(queries) THEN "report" ELSE "track"

\* Mutant: the child is asked to end and not waited for.
StopAsks_NoWait ==
    /\ pc = "stop"
    /\ pc' = AfterStop
    /\ to_child' = IF Alive THEN Append(to_child, 0) ELSE << >>
    /\ from_child' = << >>
    /\ UNCHANGED <<argVars, i, child_pid, proc, childVars, submitVars, doneVars>>

\* Stop asks the child to end ...
StopAsks ==
    /\ pc = "stop"
    /\ IF child_pid = 0
       THEN /\ pc' = AfterStop
            /\ to_child' = << >> /\ from_child' = << >>
       ELSE /\ pc' = "stopping"
            /\ to_child' = IF Alive THEN Append(to_child, 0) ELSE to_child
            /\ UNCHANGED from_child
    /\ UNCHANGED <<argVars, i, child_pid, proc, childVars, submitVars, doneVars>>

\* ... waits 200 ms, kills it if need be, reaps it and closes the pipes.
StopReaps ==
    /\ pc = "stopping"
    /\ proc' = [proc EXCEPT ![child_pid] = "reaped"]
    /\ child_pid' = 0
    /\ to_child' = << >> /\ from_child' = << >>
    /\ pc' = AfterStop
    /\ UNCHANGED <<argVars, i, childVars, submitVars, doneVars>>

\* TrackStats, and on to the next query.
Track ==
    /\ pc = "track"
    /\ summaries' = Append(summaries, [state |-> result.state, opened |-> child.opened])
    /\ i' = i + 1
    /\ pc' = "next"
    /\ UNCHANGED <<argVars, child_pid, proc, childVars, pipeVars, submitVars, exit_code>>

Successes == Cardinality({k \in DOMAIN summaries : summaries[k].state = "SUCCESS"})

Report ==
    /\ pc = "report"
    /\ exit_code' = IF Successes = Len(queries) THEN 0 ELSE 1
    /\ pc' = "done"
    /\ UNCHANGED <<argVars, i, child_pid, proc, childVars, pipeVars, submitVars, summaries>>

------------------------------------------------------------------------------
Child ==
    \/ ChildOpens \/ ChildReads \/ ChildAdvances \/ ChildAnswers \/ ChildExits \/ ChildKilled
Driver ==
    \/ Start \/ TakeQuery \/ SubmitQuery
    \/ PollTop \/ ReadPhase \/ ReadResult \/ ReapCrashed \/ ReadCut \/ SeeHangup
    \/ PollTimesOut \/ PollIdle
    \/ Returned \/ StopAsks \/ StopReaps \/ Track \/ Report
StormNext == Child \/ Driver \/ Expire

\* Both processes are scheduled and time passes; what a query does is its own affair.
StormFairness == WF_stormVars(Child) /\ WF_stormVars(Driver) /\ WF_stormVars(Expire)
StormSpec == StormInit /\ [][StormNext]_stormVars
StormFairSpec == StormSpec /\ StormFairness

------------------------------------------------------------------------------
(* Properties.                                                             *)

Message ==
    [kind : {"phase"}, phase : QueryPhases, sql : Nat]
    \cup [kind : {"result"}, sql : Nat, state : States, internal : BOOLEAN]
    \cup [kind : {"cut_early", "cut_late"}, sql : Nat]

\* Every variable has its type.
StormTypeOK ==
    /\ queries \in Workloads /\ compare_perf \in BOOLEAN
    /\ pc \in {"start", "next", "submit", "top", "wait", "idle", "reap", "returned", "stop",
               "stopping", "track", "report", "done"}
    /\ i \in 1..(Len(queries) + 1)
    /\ proc \in Seq({"alive", "zombie", "reaped"})
    /\ child_pid \in 0..Len(proc)
    /\ child \in [pc : QueryPhases \cup {"opening", "waiting", "exiting", "gone"}, sql : Nat,
                  valid : BOOLEAN, lpts_check : BOOLEAN, opened : BOOLEAN]
    /\ to_child \in Seq(Nat) /\ from_child \in Seq(Message)
    /\ active_phase \in QueryPhases /\ expired \in BOOLEAN
    /\ result \in [state : States, internal : BOOLEAN]
    /\ summaries \in Seq([state : States, opened : BOOLEAN]) /\ exit_code \in {0, 1}
    /\ torn \in 0..MaxTorn /\ past_duckdb \in BOOLEAN

\* However a query ends, no process is forgotten: those forked earlier have been reaped, so
\* that the next worker finds the database unlocked, and when the driver is done none is left.
NoProcessLeft ==
    /\ \A p \in DOMAIN proc : p # child_pid => proc[p] = "reaped"
    /\ pc = "done" => child_pid = 0

\* What is in the pipes belongs to the query being submitted, and between queries a worker
\* that is kept has nothing left to read and nothing left to say: no query can be given the
\* answer or the phase of another.
PipesInStep ==
    /\ Polling => /\ \A k \in DOMAIN to_child : to_child[k] = i
                  /\ \A k \in DOMAIN from_child : from_child[k].sql = i
    /\ pc \in {"next", "submit"} /\ child_pid # 0 =>
        /\ to_child = << >> /\ from_child = << >>
        /\ child.pc \in {"opening", "waiting", "gone"}

\* A timeout is LPTS's only if the query's DuckDB phase was over before the deadline.
LptsTimeoutsDeserved ==
    pc = "returned" /\ result.state = "LPTS_TIMEOUT" => past_duckdb

\* The phases of a query that run, and what an entry says of them.
Ran(k) == {queries[k].does[ph] : ph \in QueryPhases \ (IF compare_perf THEN {}
                                                      ELSE {"lpts_generate", "lpts_exec"})}
FineInDuckDB(k) == queries[k].does["duckdb"] \in {"ok", "hogs"}
Deserved(k, entry) ==
    CASE entry.state = "SUCCESS" -> ~queries[k].empty /\ Ran(k) \subseteq {"ok", "hogs"}
      [] entry.state = "INCORRECT" -> FineInDuckDB(k) /\ queries[k].does["lpts_check"] = "wrong"
      [] entry.state = "NONDETERMINISTIC" ->
            FineInDuckDB(k) /\ queries[k].does["lpts_check"] = "unstable"
      [] entry.state = "DUCKDB_ERROR" -> queries[k].empty \/ ~FineInDuckDB(k)
      [] entry.state \in {"LPTS_ERROR", "NOT_IMPLEMENTED"} ->
            FineInDuckDB(k) /\ Ran(k) \cap {"error", "unsupported", "internal"} # {}
      [] entry.state = "CRASH" -> ~entry.opened \/ Ran(k) \cap {"fatal", "dies"} # {}
      [] entry.state = "LPTS_TIMEOUT" -> FineInDuckDB(k)
      [] entry.state = "DUCKDB_TIMEOUT" -> TRUE

\* Query k meets a worker whose database an LPTS phase of an earlier query has invalidated.
Poisoned(k) ==
    \E j \in 1..(k - 1) :
        /\ summaries[j].state = "LPTS_ERROR" /\ "internal" \in Ran(j)
        /\ \A m \in (j + 1)..(k - 1) : queries[m].empty

\* Every query is judged by what it does itself, whatever the queries before it did to the
\* worker, except the one after an INTERNAL error of an LPTS phase.
JudgedByItself ==
    \A k \in DOMAIN summaries : Poisoned(k) \/ Deserved(k, summaries[k])

\* --require-success lets a run pass only if every query of the list was run and its check
\* agreed.
GreenMeansChecked ==
    pc = "done" /\ exit_code = 0 =>
        \A k \in DOMAIN queries : ~queries[k].empty /\ Ran(k) \subseteq {"ok", "hogs"}

\* The driver ends, although queries hang and workers die, in whatever order that is noticed.
DriverEnds == <>(pc = "done")

=============================================================================
