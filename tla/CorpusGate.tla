----------------------------- MODULE CorpusGate -----------------------------
(***************************************************************************)
(* The corpus gate (src/test/corpus_gate/lpts_corpus_gate.cpp): a driver   *)
(* that runs every .test file of DuckDB's corpus in a unittest process of  *)
(* its own, with lpts_check in LOG mode, collapses the log each process    *)
(* leaves into counts, and compares them with a committed baseline.        *)
(*                                                                         *)
(* What a file does under a given build of LPTS is a Test record: per      *)
(* connection the verdicts of its queries, of which the k-th is logged     *)
(* under number k (LptsCheck: log_qnum restarts on every connection).      *)
(***************************************************************************)
EXTENDS Integers, Sequences, FiniteSets

CONSTANTS
    Files,      \* the .test files
    Subdirs,    \* the sorted file lists that the SUBDIR argument may select
    Workers,    \* the threads of the pool (JOBS)
    Conns,      \* the connections a file may open
    Programs,   \* builds of LPTS: what each file does under that build
    MaxRuns     \* bound: how many times the driver is run

\* What a line may say; "PROFILED" is "UNSUPPORTED: profiling is enabled", and "NOLINE" a
\* query that used up its number and failed before a line was written.
Statuses == {"OK", "WRONG", "FAIL", "UNSUPPORTED", "NONDETERMINISTIC", "PROFILED"}
Gated == {"WRONG", "FAIL"}
Test ==
    [spawns : BOOLEAN,      \* posix_spawn succeeds
     slow : BOOLEAN,        \* may be running when PER_FILE_TIMEOUT has passed
     hangs : BOOLEAN,       \* never ends by itself
     queries : [Conns -> Seq(Statuses \cup {"NOLINE"})]]
Modes == {"baseline", "check", "run"}
Line == [qnum : Nat, status : Statuses]
Result == [ok : Nat, wrong : Nat, fail : Nat, unsupported : Nat, ndet : Nat,
           wrong_idx : SUBSET Nat, fail_idx : SUBSET Nat]
Entry == [wrong : Nat, fail : Nat, wrong_idx : SUBSET Nat, fail_idx : SUBSET Nat]

RangeOf(s) == {s[i] : i \in DOMAIN s}

ASSUME SubdirsAssumption ==
    \A s \in Subdirs :
        /\ s \in Seq(Files)
        /\ \A i, j \in DOMAIN s : s[i] = s[j] => i = j
\* Builds differ in what becomes of the queries of a file, not in the queries.
ASSUME ProgramsAssumption ==
    /\ Programs \subseteq [Files -> Test] /\ Programs # {}
    /\ \A p, q \in Programs, f \in Files, c \in Conns :
          Len(p[f].queries[c]) = Len(q[f].queries[c])
ASSUME WorkersAssumption == Workers # {}
ASSUME MaxRunsAssumption == MaxRuns \in Nat

VARIABLES
    main,           \* the main thread: "idle", "pool" (workers run) or "report"
    mode, files,    \* arguments of the current run
    program,        \* the build the current run is made with
    next_file,      \* the counter workers claim files from
    pc, slot,       \* per worker: where it is, and the index it has claimed
    proc,           \* per file: its process, "none", "running", "exited" or "reaped"
    progress,       \* per file and connection: queries its process has run
    log,            \* per file: the lines of its log
    results,        \* the slots the workers fill
    has_baseline, baseline,     \* the committed file and its entries
    improved,       \* files the gate has called improved
    exit_code,      \* of the last run
    runs,           \* how many runs there have been
    cut,            \* ghost: files of this run whose process did not run every query
    launches,       \* ghost: per file, how often it was launched in this run
    base            \* ghost: program, files and cut of the run behind the baseline

poolVars == <<next_file, pc, slot>>
childVars == <<proc, progress, log>>
gateVars == <<has_baseline, baseline, improved, exit_code>>
runVars == <<main, mode, files, program, runs>>
vars == <<runVars, poolVars, childVars, results, gateVars, cut, launches, base>>

NoResult == [ok |-> 0, wrong |-> 0, fail |-> 0, unsupported |-> 0, ndet |-> 0,
             wrong_idx |-> {}, fail_idx |-> {}]
NoEntry == [wrong |-> 0, fail |-> 0, wrong_idx |-> {}, fail_idx |-> {}]

Init ==
    /\ main = "idle" /\ mode = "run" /\ files = << >> /\ runs = 0
    /\ program = CHOOSE p \in Programs : TRUE
    /\ next_file = 0
    /\ pc = [w \in Workers |-> "exited"]
    /\ slot = [w \in Workers |-> 0]
    /\ proc = [f \in Files |-> "none"]
    /\ progress = [f \in Files |-> [c \in Conns |-> 0]]
    /\ log = [f \in Files |-> << >>]
    /\ results = [f \in Files |-> NoResult]
    /\ has_baseline = FALSE /\ baseline = << >>
    /\ improved = {} /\ exit_code = 0
    /\ cut = {} /\ launches = [f \in Files |-> 0]
    /\ base = [program |-> program, files |-> {}, cut |-> {}]

------------------------------------------------------------------------------
(* The unittest process of a file.                                         *)

RanAll(f) == \A c \in Conns : progress[f][c] = Len(program[f].queries[c])

\* The process runs the next query of connection c, and lpts_check logs its verdict.
RunQuery(f, c) ==
    /\ proc[f] = "running"
    /\ progress[f][c] < Len(program[f].queries[c])
    /\ progress' = [progress EXCEPT ![f][c] = @ + 1]
    /\ LET qnum == progress[f][c] + 1
           status == program[f].queries[c][qnum]
       IN  log' = IF status = "NOLINE" THEN log
                  ELSE [log EXCEPT ![f] = Append(@, [qnum |-> qnum, status |-> status])]
    /\ UNCHANGED <<runVars, poolVars, proc, results, gateVars, cut, launches, base>>

ChildExits(f) ==
    /\ proc[f] = "running"
    /\ RanAll(f) /\ ~program[f].hangs
    /\ proc' = [proc EXCEPT ![f] = "exited"]
    /\ UNCHANGED <<runVars, poolVars, progress, log, results, gateVars, cut, launches, base>>

------------------------------------------------------------------------------
(* A worker of the pool.                                                   *)

FileOf(w) == files[slot[w]]

\* Mutant: the counter is read and written in two steps, so an update may be lost.
Claim_Torn(w) ==
    /\ pc[w] = "claim" /\ main = "pool"
    /\ next_file' \in {next_file, next_file + 1}
    /\ slot' = [slot EXCEPT ![w] = next_file + 1]
    /\ pc' = [pc EXCEPT ![w] = IF next_file >= Len(files) THEN "exited" ELSE "launch"]
    /\ UNCHANGED <<runVars, childVars, results, gateVars, cut, launches, base>>

\* next_file.fetch_add(1); the worker returns when the files are used up.
Claim(w) ==
    /\ pc[w] = "claim" /\ main = "pool"
    /\ next_file' = next_file + 1
    /\ slot' = [slot EXCEPT ![w] = next_file + 1]
    /\ pc' = [pc EXCEPT ![w] = IF next_file >= Len(files) THEN "exited" ELSE "launch"]
    /\ UNCHANGED <<runVars, childVars, results, gateVars, cut, launches, base>>

\* The log is truncated and the process spawned; when that fails the worker goes on.
Launch(w) ==
    /\ pc[w] = "launch"
    /\ LET f == FileOf(w) IN
       /\ log' = [log EXCEPT ![f] = << >>]
       /\ progress' = [progress EXCEPT ![f] = [c \in Conns |-> 0]]
       /\ launches' = [launches EXCEPT ![f] = @ + 1]
       /\ proc' = [proc EXCEPT ![f] = IF program[f].spawns THEN "running" ELSE "none"]
       /\ pc' = [pc EXCEPT ![w] = IF program[f].spawns THEN "wait" ELSE "parse"]
    /\ UNCHANGED <<runVars, next_file, slot, results, gateVars, cut, base>>

\* waitpid(WNOHANG) finds the process ended.
Reap(w) ==
    /\ pc[w] = "wait"
    /\ proc[FileOf(w)] = "exited"
    /\ proc' = [proc EXCEPT ![FileOf(w)] = "reaped"]
    /\ pc' = [pc EXCEPT ![w] = "parse"]
    /\ UNCHANGED <<runVars, next_file, slot, progress, log, results, gateVars, cut,
                   launches, base>>

Overdue(f) == program[f].slow \/ program[f].hangs

\* Mutants: the process is not killed; the deadline is not looked at.
Kill_Forget(w) ==
    /\ pc[w] = "wait"
    /\ Overdue(FileOf(w))
    /\ pc' = [pc EXCEPT ![w] = "parse"]
    /\ UNCHANGED <<runVars, next_file, slot, childVars, results, gateVars, cut, launches, base>>
Kill_Never(w) == FALSE /\ UNCHANGED vars

\* The deadline has passed: SIGKILL and a blocking waitpid, whether or not the process has
\* ended since the last poll.
Kill(w) ==
    /\ pc[w] = "wait"
    /\ Overdue(FileOf(w))
    /\ proc' = [proc EXCEPT ![FileOf(w)] = "reaped"]
    /\ pc' = [pc EXCEPT ![w] = "parse"]
    /\ UNCHANGED <<runVars, next_file, slot, progress, log, results, gateVars, cut,
                   launches, base>>

Count(lines, status) == Cardinality({i \in DOMAIN lines : lines[i].status = status})
Indices(lines, status) == {lines[i].qnum : i \in {j \in DOMAIN lines : lines[j].status = status}}

\* ParseLptsLog compares whole verdicts, except for NONDETERMINISTIC.
ParseLptsLog(lines) ==
    [ok |-> Count(lines, "OK"), wrong |-> Count(lines, "WRONG"),
     fail |-> Count(lines, "FAIL"), unsupported |-> Count(lines, "UNSUPPORTED"),
     ndet |-> Count(lines, "NONDETERMINISTIC"),
     wrong_idx |-> Indices(lines, "WRONG"), fail_idx |-> Indices(lines, "FAIL")]

Parse(w) ==
    /\ pc[w] = "parse"
    /\ LET f == FileOf(w) IN
       /\ results' = [results EXCEPT ![f] = ParseLptsLog(log[f])]
       /\ cut' = IF program[f].spawns /\ RanAll(f) THEN cut ELSE cut \cup {f}
    /\ pc' = [pc EXCEPT ![w] = "claim"]
    /\ UNCHANGED <<runVars, next_file, slot, childVars, gateVars, launches, base>>

------------------------------------------------------------------------------
(* The main thread.                                                        *)

\* A developer runs the driver, with whatever build there is at the time.
Start(m, s, p) ==
    /\ main = "idle"
    /\ runs < MaxRuns
    /\ runs' = runs + 1
    /\ IF m = "check" /\ ~has_baseline
       THEN /\ exit_code' = 2
            /\ UNCHANGED <<main, mode, files, program, poolVars, childVars, results,
                           has_baseline, baseline, improved, cut, launches, base>>
       ELSE /\ main' = "pool" /\ mode' = m /\ files' = s /\ program' = p
            /\ next_file' = 0
            /\ pc' = [w \in Workers |-> "claim"]
            /\ slot' = [w \in Workers |-> 0]
            /\ proc' = [f \in Files |-> "none"]
            /\ results' = [f \in Files |-> NoResult]
            /\ improved' = {} /\ exit_code' = 0
            /\ cut' = {} /\ launches' = [f \in Files |-> 0]
            /\ UNCHANGED <<progress, log, has_baseline, baseline, base>>

\* Every thread of the pool has been joined.
Join ==
    /\ main = "pool"
    /\ \A w \in Workers : pc[w] = "exited"
    /\ main' = "report"
    /\ UNCHANGED <<mode, files, program, runs, poolVars, childVars, results, gateVars, cut,
                   launches, base>>

HasActivity(r) == r.ok + r.wrong + r.fail + r.unsupported + r.ndet # 0

\* Mutants: FAIL is not read back; no index list is read back.
EntryOf_NoFail(r) ==
    [wrong |-> r.wrong, fail |-> 0, wrong_idx |-> r.wrong_idx, fail_idx |-> {}]
EntryOf_CountsOnly(r) == [wrong |-> r.wrong, fail |-> r.fail]

\* What LoadSummaryLines reads back from the summary line of r.
EntryOf(r) ==
    [wrong |-> r.wrong, fail |-> r.fail, wrong_idx |-> r.wrong_idx, fail_idx |-> r.fail_idx]
EntryFor(f) == IF f \in DOMAIN baseline THEN baseline[f] ELSE NoEntry

\* Mutant: only the counts are compared.
Regressed_Counts(r, b) == r.wrong > b.wrong \/ r.fail > b.fail

\* RunGate, for one file.
Regressed(r, b) ==
    \/ r.wrong > b.wrong \/ r.wrong_idx \ b.wrong_idx # {}
    \/ r.fail > b.fail \/ r.fail_idx \ b.fail_idx # {}

\* Mutant: an equal count is an improvement too.
Improved_AtMost(r, b) == r.wrong <= b.wrong \/ r.fail <= b.fail

\* Fewer WRONG or fewer FAIL than in the baseline.
Improved(r, b) == r.wrong < b.wrong \/ r.fail < b.fail

Scope == RangeOf(files)

UpdateBaseline ==
    /\ main = "report" /\ mode = "baseline"
    /\ main' = "idle"
    /\ has_baseline' = TRUE
    /\ baseline' = [f \in {g \in Scope : HasActivity(results[g])} |-> EntryOf(results[f])]
    /\ base' = [program |-> program, files |-> Scope, cut |-> cut]
    /\ UNCHANGED <<mode, files, program, runs, poolVars, childVars, results, improved,
                   exit_code, cut, launches>>

RunGate ==
    /\ main = "report" /\ mode = "check"
    /\ main' = "idle"
    /\ improved' = {f \in Scope : Improved(results[f], EntryFor(f))}
    /\ exit_code' = IF \E f \in Scope : Regressed(results[f], EntryFor(f)) THEN 1 ELSE 0
    /\ UNCHANGED <<mode, files, program, runs, poolVars, childVars, results, has_baseline,
                   baseline, cut, launches, base>>

PrintReport ==
    /\ main = "report" /\ mode = "run"
    /\ main' = "idle"
    /\ UNCHANGED <<mode, files, program, runs, poolVars, childVars, results, gateVars, cut,
                   launches, base>>

------------------------------------------------------------------------------
Worker(w) == Claim(w) \/ Launch(w) \/ Reap(w) \/ Kill(w) \/ Parse(w)
Child(f) == (\E c \in Conns : RunQuery(f, c)) \/ ChildExits(f)
Main == Join \/ UpdateBaseline \/ RunGate \/ PrintReport
Developer == \E m \in Modes, s \in Subdirs, p \in Programs : Start(m, s, p)

Next == \/ Developer \/ Main
        \/ \E w \in Workers : Worker(w)
        \/ \E f \in Files : Child(f)

\* Threads and processes are scheduled, and clocks reach deadlines; what a process does is
\* its own affair (hangs), and nobody is obliged to run the driver.
Fairness ==
    /\ WF_vars(Main)
    /\ \A w \in Workers : WF_vars(Worker(w))
    /\ \A f \in Files : WF_vars(Child(f))

Spec == Init /\ [][Next]_vars
FairSpec == Spec /\ Fairness

------------------------------------------------------------------------------
(* Properties.                                                             *)

\* Every variable has its type.
TypeOK ==
    /\ main \in {"idle", "pool", "report"} /\ mode \in Modes
    /\ files \in Subdirs \cup {<< >>} /\ program \in Programs /\ runs \in 0..MaxRuns
    /\ next_file \in Nat
    /\ pc \in [Workers -> {"claim", "launch", "wait", "parse", "exited"}]
    /\ slot \in [Workers -> Nat]
    /\ proc \in [Files -> {"none", "running", "exited", "reaped"}]
    /\ progress \in [Files -> [Conns -> Nat]]
    /\ log \in [Files -> Seq(Line)]
    /\ results \in [Files -> Result]
    /\ has_baseline \in BOOLEAN
    /\ DOMAIN baseline \subseteq Files /\ RangeOf(baseline) \subseteq Entry
    /\ improved \subseteq Files /\ exit_code \in 0..2
    /\ cut \subseteq Files /\ launches \in [Files -> Nat]
    /\ base \in [program : Programs, files : SUBSET Files, cut : SUBSET Files]

\* However the workers race for files, no file of a run is launched twice (two processes
\* would share a log), and when the pool has been joined every file has been launched.
EveryFileOnce ==
    /\ \A f \in Files : launches[f] <= 1
    /\ main = "report" => \A f \in Scope : launches[f] = 1

\* When results are reported they are those of complete processes: no process is left that
\* could write on, and each slot holds what its file's log holds.
ResultsFinal ==
    main = "report" =>
        /\ \A f \in Files : proc[f] # "running"
        /\ \A f \in Scope : results[f] = ParseLptsLog(log[f])

\* The queries of f that a build gives a gated verdict.
Bad(p, f, status) ==
    UNION {{<<c, k>> : k \in {i \in DOMAIN p[f].queries[c] : p[f].queries[c][i] = status}} :
           c \in Conns}
BadInBase(f, status) ==
    IF f \in base.files THEN Bad(base.program, f, status) ELSE {}
Gained(f) == \E status \in Gated : Bad(program, f, status) \ BadInBase(f, status) # {}
Checked == main = "idle" /\ mode = "check" /\ exit_code # 2
OneConnection(f) ==
    \A c, d \in Conns : program[f].queries[c] # << >> /\ program[f].queries[d] # << >> => c = d

\* A check fails only when some query really has a WRONG or FAIL verdict that it did not
\* have when the baseline was written, unless that run had been cut short on its file.
AlarmsReal ==
    Checked /\ exit_code = 1 => \E f \in Scope : f \in base.cut \/ Gained(f)

\* A query that gained a WRONG or FAIL verdict fails the check, if its file ran to its end
\* and uses one connection; a gain is not outweighed by other queries of the file that were
\* fixed, nor hidden by the files the baseline omits.
GainsReported ==
    Checked /\ exit_code = 0 =>
        \A f \in Scope \ cut : OneConnection(f) => ~Gained(f)

\* A file is called improved only when a query of it lost its WRONG or FAIL verdict, if its
\* process was not cut short.  (Where it was, the gate asks for a refresh of the baseline
\* that would forget the verdicts it did not get to see.)
ImprovementsReal ==
    Checked => \A f \in improved \ cut :
        \E status \in Gated : BadInBase(f, status) \ Bad(program, f, status) # {}

\* What docs/test.md:113 says, "fails when a query gained a WRONG or FAIL verdict", without
\* the condition that the file uses one connection.
EveryGainReported ==
    Checked /\ exit_code = 0 => \A f \in Scope \ cut : ~Gained(f)

\* A run of the driver ends, also when a process hangs.
GateEnds == main = "pool" ~> main = "idle"

=============================================================================
