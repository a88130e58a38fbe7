-------------------------- MODULE CorpusGate_proofs --------------------------
(***************************************************************************)
(* Proofs about CorpusGate, for any number of workers, files and runs.     *)
(*                                                                         *)
(* The worker pool: the counter and the workers' slots partition the files *)
(* of a run: those beyond the counter are untouched, those a worker is     *)
(* about to launch have not been launched, all others have been, once.     *)
(*                                                                         *)
(* The verdicts: the variables keep their types, and a failed check, a     *)
(* passed check and a file called improved mean what they claim of the     *)
(* queries' verdicts.  The counts and indices of a log are traced to the   *)
(* set of queries they count; the rest is about sets of queries.           *)
(***************************************************************************)
EXTENDS CorpusGate, FiniteSetTheorems, TLAPS

Holding == {"launch", "wait", "parse"}

\* The variables the argument is about, with no more of their types than it needs.
PoolType ==
    /\ main \in {"idle", "pool", "report"}
    /\ files \in Subdirs \cup {<< >>}
    /\ next_file \in Nat
    /\ pc \in [Workers -> Holding \cup {"claim", "exited"}]
    /\ slot \in [Workers -> Nat]
    /\ launches \in [Files -> {0, 1}]

\* A slot is an index below the counter, and no two workers hold the same one.
SlotsInv ==
    /\ \A w \in Workers :
          pc[w] \in Holding => slot[w] \in 1..Len(files) /\ slot[w] <= next_file
    /\ \A v, w \in Workers :
          v # w /\ pc[v] \in Holding /\ pc[w] \in Holding => slot[v] # slot[w]

\* Where the launches of a file stand, by the position of its index.
LaunchesInv ==
    /\ \A i \in 1..Len(files) : i > next_file => launches[files[i]] = 0
    /\ \A w \in Workers : pc[w] = "launch" => launches[files[slot[w]]] = 0
    /\ \A i \in 1..Len(files) :
          i <= next_file /\ (\A w \in Workers : pc[w] = "launch" => slot[w] # i)
             => launches[files[i]] = 1

\* Workers return only when the files are used up, and there are none outside the pool.
ExitsInv ==
    /\ main # "pool" => \A w \in Workers : pc[w] = "exited"
    /\ main = "pool" => \A w \in Workers : pc[w] = "exited" => next_file >= Len(files)
    /\ main = "report" => next_file >= Len(files)

PoolInv == PoolType /\ SlotsInv /\ LaunchesInv /\ ExitsInv


------------------------------------------------------------------------------
(* The list of files is a sequence without repetition.                     *)
LEMMA FilesDistinct ==
    ASSUME NEW s \in Subdirs \cup {<< >>}
    PROVE  /\ s \in Seq(Files)
           /\ Len(s) \in Nat
           /\ \A i \in 1..Len(s) : s[i] \in Files
           /\ \A i, j \in 1..Len(s) : s[i] = s[j] => i = j
<1>1. s \in Seq(Files)
    <2>1. CASE s \in Subdirs
        BY <2>1, SubdirsAssumption
    <2>2. CASE s = << >>
        BY <2>2
    <2> QED  BY <2>1, <2>2
<1>2. Len(s) \in Nat /\ DOMAIN s = 1..Len(s) /\ \A i \in 1..Len(s) : s[i] \in Files
    BY <1>1
<1>3. \A i, j \in 1..Len(s) : s[i] = s[j] => i = j
    <2>1. CASE s \in Subdirs
        BY <2>1, <1>2, SubdirsAssumption
    <2>2. CASE s = << >>
        BY <2>2
    <2> QED  BY <2>1, <2>2
<1> QED  BY <1>1, <1>2, <1>3

LEMMA PoolInit == Init => PoolInv
BY DEF Init, PoolInv, PoolType, SlotsInv, LaunchesInv, ExitsInv, Holding

------------------------------------------------------------------------------
(* One lemma per step that touches the pool.                               *)

LEMMA ClaimKeepsPool ==
    ASSUME PoolInv, NEW w \in Workers, Claim(w)
    PROVE  PoolInv'
<1> USE DEF Holding
<1>1. /\ pc[w] = "claim" /\ main = "pool"
      /\ next_file' = next_file + 1
      /\ slot' = [slot EXCEPT ![w] = next_file + 1]
      /\ pc' = [pc EXCEPT ![w] = IF next_file >= Len(files) THEN "exited" ELSE "launch"]
      /\ UNCHANGED <<main, files, launches>>
    BY DEF Claim, runVars
<1>2. Len(files) \in Nat
    BY FilesDistinct DEF PoolInv, PoolType
<1>3. PoolType'
    BY <1>1 DEF PoolInv, PoolType
<1>4. SlotsInv'
    BY <1>1, <1>2 DEF PoolInv, PoolType, SlotsInv
<1>5. LaunchesInv'
    <2>1. \A i \in 1..Len(files) : i > next_file' => launches'[files[i]] = 0
        BY <1>1, <1>2 DEF PoolInv, PoolType, LaunchesInv
    <2>2. \A v \in Workers : pc'[v] = "launch" => launches'[files[slot'[v]]] = 0
        <3> SUFFICES ASSUME NEW v \in Workers, pc'[v] = "launch"
                     PROVE  launches[files[slot'[v]]] = 0
            BY <1>1
        <3>1. CASE v = w
            <4>1. slot'[w] = next_file + 1 /\ next_file + 1 \in 1..Len(files)
                BY <3>1, <1>1, <1>2 DEF PoolInv, PoolType
            <4> QED  BY <4>1, <3>1, <1>2 DEF PoolInv, PoolType, LaunchesInv
        <3>2. CASE v # w
            BY <3>2, <1>1 DEF PoolInv, PoolType, LaunchesInv
        <3> QED  BY <3>1, <3>2
    <2>3. ASSUME NEW i \in 1..Len(files), i <= next_file',
                 \A v \in Workers : pc'[v] = "launch" => slot'[v] # i
          PROVE  launches'[files[i]] = 1
        <3>1. i <= next_file
            <4>1. CASE next_file >= Len(files)
                BY <4>1, <1>2 DEF PoolInv, PoolType
            <4>2. CASE next_file < Len(files)
                <5>1. pc'[w] = "launch" /\ slot'[w] = next_file + 1
                    BY <4>2, <1>1, <1>2 DEF PoolInv, PoolType
                <5> QED  BY <5>1, <2>3, <1>1, <1>2 DEF PoolInv, PoolType
            <4> QED  BY <4>1, <4>2, <1>2 DEF PoolInv, PoolType
        <3>2. \A v \in Workers : pc[v] = "launch" => slot[v] # i
            BY <2>3, <1>1 DEF PoolInv, PoolType
        <3> QED  BY <3>1, <3>2, <1>1 DEF PoolInv, LaunchesInv
    <2> QED  BY <2>1, <2>2, <2>3, <1>1 DEF LaunchesInv
<1>6. ExitsInv'
    BY <1>1, <1>2 DEF PoolInv, PoolType, ExitsInv
<1> QED  BY <1>3, <1>4, <1>5, <1>6 DEF PoolInv

LEMMA LaunchKeepsPool ==
    ASSUME PoolInv, NEW w \in Workers, Launch(w)
    PROVE  PoolInv'
<1> USE DEF Holding
<1> DEFINE f == files[slot[w]]
<1>1. /\ pc[w] = "launch"
      /\ launches' = [launches EXCEPT ![f] = @ + 1]
      /\ \/ pc' = [pc EXCEPT ![w] = "wait"]
         \/ pc' = [pc EXCEPT ![w] = "parse"]
      /\ UNCHANGED <<main, files, next_file, slot>>
    BY DEF Launch, FileOf, runVars
<1>2. slot[w] \in 1..Len(files) /\ slot[w] <= next_file
    BY <1>1 DEF PoolInv, SlotsInv
<1>3. /\ \A i \in 1..Len(files) : files[i] \in Files
      /\ \A i, j \in 1..Len(files) : files[i] = files[j] => i = j
    BY FilesDistinct DEF PoolInv, PoolType
<1>4. launches[f] = 0
    BY <1>1 DEF PoolInv, LaunchesInv
<1>5. launches' = [launches EXCEPT ![f] = 1]
    BY <1>1, <1>4
<1>6. \A i \in 1..Len(files) :
          launches'[files[i]] = IF i = slot[w] THEN 1 ELSE launches[files[i]]
    BY <1>2, <1>3, <1>5 DEF PoolInv, PoolType
<1>7. /\ \A v \in Workers : v # w => pc'[v] = pc[v]
      /\ pc'[w] \in {"wait", "parse"}
      /\ pc' \in [Workers -> Holding \cup {"claim", "exited"}]
    BY <1>1 DEF PoolInv, PoolType
<1> HIDE DEF f
<1>8. PoolType'
    <2>1. launches' \in [Files -> {0, 1}]
        BY <1>5 DEF PoolInv, PoolType
    <2> QED  BY <2>1, <1>1, <1>7 DEF PoolInv, PoolType
<1>9. SlotsInv'
    BY <1>1, <1>2, <1>7 DEF PoolInv, SlotsInv
<1>10. LaunchesInv'
    <2>1. \A i \in 1..Len(files) : i > next_file => launches'[files[i]] = 0
        BY <1>2, <1>6 DEF PoolInv, PoolType, LaunchesInv
    <2>2. ASSUME NEW v \in Workers, pc'[v] = "launch"
          PROVE  launches'[files[slot[v]]] = 0
        <3>1. v # w /\ pc[v] = "launch"
            BY <2>2, <1>7
        <3>2. slot[v] # slot[w] /\ slot[v] \in 1..Len(files)
            BY <3>1, <1>1 DEF PoolInv, SlotsInv
        <3>3. launches[files[slot[v]]] = 0
            BY <3>1 DEF PoolInv, LaunchesInv
        <3> QED  BY <3>2, <3>3, <1>6
    <2>3. ASSUME NEW i \in 1..Len(files), i <= next_file,
                 \A v \in Workers : pc'[v] = "launch" => slot[v] # i
          PROVE  launches'[files[i]] = 1
        <3>1. CASE i = slot[w]
            BY <3>1, <1>6
        <3>2. CASE i # slot[w]
            <4>1. \A v \in Workers : pc[v] = "launch" => slot[v] # i
                BY <3>2, <2>3, <1>7
            <4> QED  BY <4>1, <3>2, <2>3, <1>6 DEF PoolInv, LaunchesInv
        <3> QED  BY <3>1, <3>2
    <2> QED  BY <2>1, <2>2, <2>3, <1>1 DEF LaunchesInv
<1>11. ExitsInv'
    BY <1>1, <1>7 DEF PoolInv, ExitsInv
<1> QED  BY <1>8, <1>9, <1>10, <1>11 DEF PoolInv

\* Reaping, killing and parsing move a worker on without launching anything.
LEMMA MoveKeepsPool ==
    ASSUME PoolInv, NEW w \in Workers, NEW p \in {"parse", "claim"},
           pc[w] \in {"wait", "parse"}, pc' = [pc EXCEPT ![w] = p],
           UNCHANGED <<main, files, next_file, slot, launches>>
    PROVE  PoolInv'
<1> USE DEF Holding
<1>1. /\ \A v \in Workers : v # w => pc'[v] = pc[v]
      /\ pc'[w] = p
      /\ pc' \in [Workers -> Holding \cup {"claim", "exited"}]
    BY DEF PoolInv, PoolType
<1>2. PoolType'
    BY <1>1 DEF PoolInv, PoolType
<1>3. SlotsInv'
    BY <1>1 DEF PoolInv, SlotsInv
<1>4. \A v \in Workers : pc'[v] = "launch" <=> pc[v] = "launch"
    BY <1>1
<1>5. LaunchesInv'
    BY <1>4 DEF PoolInv, LaunchesInv
<1>6. ExitsInv'
    BY <1>1 DEF PoolInv, ExitsInv
<1> QED  BY <1>2, <1>3, <1>5, <1>6 DEF PoolInv

LEMMA WorkerKeepsPool ==
    ASSUME PoolInv, NEW w \in Workers, Worker(w)
    PROVE  PoolInv'
<1>1. CASE Claim(w)
    BY <1>1, ClaimKeepsPool
<1>2. CASE Launch(w)
    BY <1>2, LaunchKeepsPool
<1>3. CASE Reap(w)
    <2>1. /\ pc[w] = "wait" /\ pc' = [pc EXCEPT ![w] = "parse"]
          /\ UNCHANGED <<main, files, next_file, slot, launches>>
        BY <1>3 DEF Reap, runVars
    <2> QED  BY <2>1, MoveKeepsPool
<1>4. CASE Kill(w)
    <2>1. /\ pc[w] = "wait" /\ pc' = [pc EXCEPT ![w] = "parse"]
          /\ UNCHANGED <<main, files, next_file, slot, launches>>
        BY <1>4 DEF Kill, runVars
    <2> QED  BY <2>1, MoveKeepsPool
<1>5. CASE Parse(w)
    <2>1. /\ pc[w] = "parse" /\ pc' = [pc EXCEPT ![w] = "claim"]
          /\ UNCHANGED <<main, files, next_file, slot, launches>>
        BY <1>5 DEF Parse, runVars
    <2> QED  BY <2>1, MoveKeepsPool
<1> QED  BY <1>1, <1>2, <1>3, <1>4, <1>5 DEF Worker

\* What leaves the pool's variables alone.
LEMMA UnchangedPool ==
    ASSUME PoolInv, UNCHANGED <<main, files, next_file, pc, slot, launches>>
    PROVE  PoolInv'
BY DEF PoolInv, PoolType, SlotsInv, LaunchesInv, ExitsInv

LEMMA StartKeepsPool ==
    ASSUME PoolInv, NEW m \in Modes, NEW s \in Subdirs, NEW p \in Programs, Start(m, s, p)
    PROVE  PoolInv'
<1>1. CASE m = "check" /\ ~has_baseline
    <2>1. UNCHANGED <<main, files, next_file, pc, slot, launches>>
        BY <1>1 DEF Start, poolVars
    <2> QED  BY <2>1, UnchangedPool
<1>2. CASE ~(m = "check" /\ ~has_baseline)
    <2>1. /\ main' = "pool" /\ files' = s /\ next_file' = 0
          /\ pc' = [w \in Workers |-> "claim"]
          /\ slot' = [w \in Workers |-> 0]
          /\ launches' = [f \in Files |-> 0]
        BY <1>2 DEF Start
    <2>2. Len(s) \in Nat /\ \A i \in 1..Len(s) : s[i] \in Files
        BY FilesDistinct
    <2>3. PoolType' /\ SlotsInv' /\ ExitsInv'
        BY <2>1 DEF PoolType, SlotsInv, ExitsInv, Holding
    <2>4. LaunchesInv'
        BY <2>1, <2>2 DEF LaunchesInv
    <2> QED  BY <2>3, <2>4 DEF PoolInv
<1> QED  BY <1>1, <1>2

LEMMA MainKeepsPool ==
    ASSUME PoolInv, Main
    PROVE  PoolInv'
<1>1. CASE Join
    <2>1. /\ main = "pool" /\ main' = "report"
          /\ \A w \in Workers : pc[w] = "exited"
          /\ UNCHANGED <<files, next_file, pc, slot, launches>>
        BY <1>1 DEF Join, poolVars
    <2>2. next_file >= Len(files)
        BY <2>1, WorkersAssumption DEF PoolInv, ExitsInv
    <2> QED  BY <2>1, <2>2 DEF PoolInv, PoolType, SlotsInv, LaunchesInv, ExitsInv
<1>2. CASE UpdateBaseline \/ RunGate \/ PrintReport
    <2>1. /\ main = "report" /\ main' = "idle"
          /\ UNCHANGED <<files, next_file, pc, slot, launches>>
        BY <1>2 DEF UpdateBaseline, RunGate, PrintReport, poolVars
    <2> QED  BY <2>1 DEF PoolInv, PoolType, SlotsInv, LaunchesInv, ExitsInv
<1> QED  BY <1>1, <1>2 DEF Main

LEMMA PoolStep == PoolInv /\ [Next]_vars => PoolInv'
<1> SUFFICES ASSUME PoolInv, [Next]_vars PROVE PoolInv'
    OBVIOUS
<1>1. CASE Developer
    BY <1>1, StartKeepsPool DEF Developer
<1>2. CASE Main
    BY <1>2, MainKeepsPool
<1>3. ASSUME NEW w \in Workers, Worker(w) PROVE PoolInv'
    BY <1>3, WorkerKeepsPool
<1>4. ASSUME NEW f \in Files, Child(f) PROVE PoolInv'
    <2>1. UNCHANGED <<main, files, next_file, pc, slot, launches>>
        BY <1>4 DEF Child, RunQuery, ChildExits, runVars, poolVars
    <2> QED  BY <2>1, UnchangedPool
<1>5. CASE UNCHANGED vars
    <2>1. UNCHANGED <<main, files, next_file, pc, slot, launches>>
        BY <1>5 DEF vars, runVars, poolVars
    <2> QED  BY <2>1, UnchangedPool
<1> QED  BY <1>1, <1>2, <1>3, <1>4, <1>5 DEF Next

------------------------------------------------------------------------------
\* The invariant of the pool holds in every run of the driver: lines 476-513 of the gate.
THEOREM PoolInvariant == Spec => []PoolInv
<1>1. Init => PoolInv
    BY PoolInit
<1>2. PoolInv /\ [Next]_vars => PoolInv'
    BY PoolStep
<1> QED  BY <1>1, <1>2, PTL DEF Spec

\* For any number of workers, files and runs of the driver, no file is launched twice in a
\* run, and when the pool has been joined each file of the run has been launched.
THEOREM LaunchedOnce == Spec => []EveryFileOnce
<1>1. PoolInv => EveryFileOnce
    <2> SUFFICES ASSUME PoolInv PROVE EveryFileOnce
        OBVIOUS
    <2>1. \A f \in Files : launches[f] <= 1
        BY DEF PoolInv, PoolType
    <2>2. ASSUME main = "report", NEW f \in Scope PROVE launches[f] = 1
        <3>1. PICK i \in 1..Len(files) : f = files[i]
            BY FilesDistinct DEF Scope, RangeOf, PoolInv, PoolType
        <3>2. Len(files) \in Nat /\ next_file \in Nat
            BY FilesDistinct DEF PoolInv, PoolType
        <3>3. i <= next_file
            BY <2>2, <3>2 DEF PoolInv, ExitsInv
        <3>4. \A w \in Workers : pc[w] # "launch"
            BY <2>2 DEF PoolInv, ExitsInv
        <3> QED  BY <3>1, <3>3, <3>4 DEF PoolInv, LaunchesInv
    <2> QED  BY <2>1, <2>2 DEF EveryFileOnce
<1> QED  BY <1>1, PoolInvariant, PTL

------------------------------------------------------------------------------
(* The results: a process is only alive while a worker waits for it, and   *)
(* the slot of a file nobody holds agrees with its log.                    *)

ResultsType ==
    /\ proc \in [Files -> {"none", "running", "exited", "reaped"}]
    /\ results = [f \in Files |-> results[f]]
    /\ log = [f \in Files |-> log[f]]

Waiting(i) == \E w \in Workers : pc[w] = "wait" /\ slot[w] = i
Held(i) == \E w \in Workers : pc[w] \in Holding /\ slot[w] = i

ProcInv ==
    /\ \A i \in 1..Len(files) : proc[files[i]] = "running" => Waiting(i)
    /\ \A f \in Files : proc[f] = "running" => f \in Scope
SlotInv ==
    \A i \in 1..Len(files) :
        i <= next_file /\ ~Held(i) => results[files[i]] = ParseLptsLog(log[files[i]])

ResultsInv == PoolInv /\ ResultsType /\ ProcInv /\ SlotInv

LEMMA ResultsInit == Init => ResultsInv
<1> SUFFICES ASSUME Init PROVE ResultsInv
    OBVIOUS
<1>1. PoolInv
    BY PoolInit
<1>2. ResultsType /\ ProcInv /\ SlotInv
    BY DEF Init, ResultsType, ProcInv, SlotInv
<1> QED  BY <1>1, <1>2 DEF ResultsInv

\* What every step knows of the files.
LEMMA FilesFacts ==
    ASSUME PoolInv
    PROVE  /\ Len(files) \in Nat /\ next_file \in Nat
           /\ \A i \in 1..Len(files) : files[i] \in Files /\ files[i] \in Scope
           /\ \A i, j \in 1..Len(files) : files[i] = files[j] => i = j
           /\ \A f \in Scope : \E i \in 1..Len(files) : f = files[i]
BY FilesDistinct DEF PoolInv, PoolType, Scope, RangeOf

\* A claim releases nothing: a slot nobody holds after it was passed before it.
LEMMA ClaimReleasesNothing ==
    ASSUME PoolInv, NEW w \in Workers, Claim(w),
           NEW i \in 1..Len(files), i <= next_file', ~Held(i)'
    PROVE  i <= next_file /\ ~Held(i)
<1> USE DEF Holding
<1>1. /\ pc[w] = "claim"
      /\ next_file' = next_file + 1
      /\ slot' = [slot EXCEPT ![w] = next_file + 1]
      /\ pc' = [pc EXCEPT ![w] = IF next_file >= Len(files) THEN "exited" ELSE "launch"]
    BY DEF Claim
<1>2. Len(files) \in Nat /\ next_file \in Nat
    BY FilesFacts
<1>3. \A v \in Workers : v # w => pc'[v] = pc[v] /\ slot'[v] = slot[v]
    BY <1>1 DEF PoolInv, PoolType
<1>4. ~Held(i)
    BY <1>1, <1>3 DEF Held
<1>5. i # next_file + 1
    <2> SUFFICES ASSUME i = next_file + 1 PROVE FALSE
        OBVIOUS
    <2>1. next_file < Len(files)
        BY <1>2
    <2>2. pc'[w] = "launch" /\ slot'[w] = i
        BY <2>1, <1>1, <1>2 DEF PoolInv, PoolType
    <2> QED  BY <2>2 DEF Held
<1> QED  BY <1>1, <1>2, <1>4, <1>5

LEMMA ClaimKeepsResults ==
    ASSUME ResultsInv, NEW w \in Workers, Claim(w)
    PROVE  ResultsInv'
<1> USE DEF Holding
<1>1. /\ pc[w] = "claim"
      /\ next_file' = next_file + 1
      /\ slot' = [slot EXCEPT ![w] = next_file + 1]
      /\ pc' = [pc EXCEPT ![w] = IF next_file >= Len(files) THEN "exited" ELSE "launch"]
      /\ UNCHANGED <<files, proc, results, log>>
    BY DEF Claim, runVars, childVars
<1>2. PoolInv /\ PoolInv' /\ Scope' = Scope
    BY <1>1, ClaimKeepsPool DEF ResultsInv, Scope
<1>4. \A v \in Workers : v # w => pc'[v] = pc[v] /\ slot'[v] = slot[v]
    BY <1>1, <1>2 DEF PoolInv, PoolType
<1>5. \A i : Waiting(i) => Waiting(i)'
    BY <1>1, <1>4 DEF Waiting
<1>6. ProcInv'
    BY <1>1, <1>2, <1>5 DEF ResultsInv, ProcInv
<1>7. ASSUME NEW i \in 1..Len(files), i <= next_file', ~Held(i)'
      PROVE  i <= next_file /\ ~Held(i)
    BY <1>2, <1>7, ClaimReleasesNothing
<1>8. SlotInv'
    BY <1>1, <1>7 DEF ResultsInv, SlotInv
<1>9. ResultsType'
    BY <1>1 DEF ResultsInv, ResultsType
<1> QED  BY <1>2, <1>6, <1>8, <1>9 DEF ResultsInv

\* A worker that goes on holding its file may do to it what it likes.
LEMMA HolderKeepsResults ==
    ASSUME ResultsInv, NEW w \in Workers, pc[w] \in Holding,
           NEW p \in Holding, pc' = [pc EXCEPT ![w] = p],
           ResultsType',
           \A f \in Files : f # files[slot[w]] => proc'[f] = proc[f] /\ log'[f] = log[f],
           proc'[files[slot[w]]] = "running" => p = "wait",
           UNCHANGED <<files, next_file, slot, results>>,
           PoolInv'
    PROVE  ResultsInv'
<1>1. /\ slot[w] \in 1..Len(files)
      /\ \A v \in Workers : v # w /\ pc[v] \in Holding => slot[v] # slot[w]
    BY DEF ResultsInv, PoolInv, SlotsInv
<1>2. /\ \A i \in 1..Len(files) : files[i] \in Files /\ files[i] \in Scope
      /\ \A i, j \in 1..Len(files) : files[i] = files[j] => i = j
    BY FilesFacts DEF ResultsInv
<1>3. /\ pc'[w] = p
      /\ \A v \in Workers : v # w => pc'[v] = pc[v]
    BY DEF ResultsInv, PoolInv, PoolType
<1>4. ASSUME NEW i \in 1..Len(files), proc'[files[i]] = "running" PROVE Waiting(i)'
    <2>1. CASE i = slot[w]
        BY <2>1, <1>3, <1>4 DEF Waiting
    <2>2. CASE i # slot[w]
        <3>1. proc[files[i]] = "running"
            BY <2>2, <1>1, <1>2, <1>4
        <3>2. PICK v \in Workers : pc[v] = "wait" /\ slot[v] = i
            BY <3>1 DEF ResultsInv, ProcInv, Waiting
        <3> QED  BY <3>2, <2>2, <1>3 DEF Waiting
    <2> QED  BY <2>1, <2>2
<1>5. \A f \in Files : proc'[f] = "running" => f \in Scope'
    <2>1. Scope' = Scope
        BY DEF Scope
    <2> QED  BY <2>1, <1>1, <1>2 DEF ResultsInv, ProcInv
<1>6. ProcInv'
    BY <1>4, <1>5 DEF ProcInv
<1>7. ASSUME NEW i \in 1..Len(files), i <= next_file, ~Held(i)'
      PROVE  results[files[i]] = ParseLptsLog(log'[files[i]])
    <2>1. i # slot[w] /\ ~Held(i)
        BY <1>3, <1>7 DEF Held
    <2>2. log'[files[i]] = log[files[i]]
        BY <2>1, <1>1, <1>2
    <2> QED  BY <2>1, <2>2, <1>7 DEF ResultsInv, SlotInv
<1>8. SlotInv'
    BY <1>7 DEF SlotInv
<1> QED  BY <1>6, <1>8 DEF ResultsInv

LEMMA LaunchKeepsResults ==
    ASSUME ResultsInv, NEW w \in Workers, Launch(w)
    PROVE  ResultsInv'
<1> DEFINE f == files[slot[w]]
<1>1. PICK p \in {"wait", "parse"} :
          /\ pc[w] = "launch"
          /\ pc' = [pc EXCEPT ![w] = p]
          /\ log' = [log EXCEPT ![f] = << >>]
          /\ proc' = [proc EXCEPT ![f] = IF p = "wait" THEN "running" ELSE "none"]
          /\ UNCHANGED <<files, next_file, slot, results>>
    BY DEF Launch, FileOf, runVars
<1>2. PoolInv /\ PoolInv'
    BY LaunchKeepsPool DEF ResultsInv
<1>3. f \in Files
    BY <1>1, <1>2, FilesFacts DEF PoolInv, SlotsInv, Holding
<1>4. ResultsType'
    BY <1>1, <1>3 DEF ResultsInv, ResultsType
<1>5. \A g \in Files : g # f => proc'[g] = proc[g] /\ log'[g] = log[g]
    BY <1>1 DEF ResultsInv, ResultsType
<1>6. proc'[f] = "running" => p = "wait"
    BY <1>1, <1>3 DEF ResultsInv, ResultsType
<1> QED  BY <1>1, <1>2, <1>4, <1>5, <1>6, HolderKeepsResults DEF Holding

\* waitpid has returned: the process is gone, whether it ended or was killed.
LEMMA ReapedKeepsResults ==
    ASSUME ResultsInv, NEW w \in Workers, Reap(w) \/ Kill(w)
    PROVE  ResultsInv'
<1> DEFINE f == files[slot[w]]
<1>1. /\ pc[w] = "wait"
      /\ pc' = [pc EXCEPT ![w] = "parse"]
      /\ proc' = [proc EXCEPT ![f] = "reaped"]
      /\ UNCHANGED <<files, next_file, slot, results, log>>
    BY DEF Reap, Kill, FileOf, runVars
<1>2. PoolInv /\ PoolInv'
    BY WorkerKeepsPool DEF ResultsInv, Worker
<1>3. f \in Files
    BY <1>1, <1>2, FilesFacts DEF PoolInv, SlotsInv, Holding
<1>4. ResultsType'
    BY <1>1, <1>3 DEF ResultsInv, ResultsType
<1>5. \A g \in Files : g # f => proc'[g] = proc[g] /\ log'[g] = log[g]
    BY <1>1 DEF ResultsInv, ResultsType
<1>6. proc'[f] # "running"
    BY <1>1, <1>3 DEF ResultsInv, ResultsType
<1> QED  BY <1>1, <1>2, <1>4, <1>5, <1>6, HolderKeepsResults DEF Holding

LEMMA ParseKeepsResults ==
    ASSUME ResultsInv, NEW w \in Workers, Parse(w)
    PROVE  ResultsInv'
<1> USE DEF Holding
<1> DEFINE f == files[slot[w]]
<1>1. /\ pc[w] = "parse"
      /\ pc' = [pc EXCEPT ![w] = "claim"]
      /\ results' = [results EXCEPT ![f] = ParseLptsLog(log[f])]
      /\ UNCHANGED <<files, next_file, slot, proc, log>>
    BY DEF Parse, FileOf, runVars, childVars
<1>2. PoolInv /\ PoolInv' /\ Scope' = Scope
    BY <1>1, WorkerKeepsPool DEF ResultsInv, Worker, Scope
<1>3. /\ slot[w] \in 1..Len(files)
      /\ \A i \in 1..Len(files) : files[i] \in Files
      /\ \A i, j \in 1..Len(files) : files[i] = files[j] => i = j
    BY <1>1, <1>2, FilesFacts DEF PoolInv, SlotsInv
<1>4. \A v \in Workers : v # w => pc'[v] = pc[v]
    BY <1>1, <1>2 DEF PoolInv, PoolType
<1>5. ResultsType'
    BY <1>1 DEF ResultsInv, ResultsType
<1>6. \A i : Waiting(i) => Waiting(i)'
    BY <1>1, <1>4 DEF Waiting
<1>7. ProcInv'
    BY <1>1, <1>2, <1>6 DEF ResultsInv, ProcInv
<1>8. ASSUME NEW i \in 1..Len(files), i <= next_file, ~Held(i)'
      PROVE  results'[files[i]] = ParseLptsLog(log[files[i]])
    <2>1. CASE i = slot[w]
        BY <2>1, <1>1, <1>3 DEF ResultsInv, ResultsType
    <2>2. CASE i # slot[w]
        <3>1. ~Held(i)
            BY <2>2, <1>1, <1>4, <1>8 DEF Held
        <3>2. results'[files[i]] = results[files[i]]
            BY <2>2, <1>1, <1>3 DEF ResultsInv, ResultsType
        <3> QED  BY <3>1, <3>2, <1>8 DEF ResultsInv, SlotInv
    <2> QED  BY <2>1, <2>2
<1>9. SlotInv'
    BY <1>1, <1>8 DEF SlotInv
<1> QED  BY <1>2, <1>5, <1>7, <1>9 DEF ResultsInv

\* A process logs only while it runs, so only while a worker holds its file.
LEMMA ChildKeepsResults ==
    ASSUME ResultsInv, NEW f \in Files, Child(f)
    PROVE  ResultsInv'
<1>1. /\ proc[f] = "running"
      /\ UNCHANGED <<main, files, next_file, pc, slot, results, launches>>
    BY DEF Child, RunQuery, ChildExits, runVars, poolVars
<1>2. \A g \in Files : g # f => proc'[g] = proc[g] /\ log'[g] = log[g]
    BY DEF Child, RunQuery, ChildExits, ResultsInv, ResultsType
<1>3. PoolInv /\ PoolInv' /\ Scope' = Scope
    BY <1>1, UnchangedPool DEF ResultsInv, Scope
<1>4. ResultsType'
    BY <1>1 DEF Child, RunQuery, ChildExits, ResultsInv, ResultsType
<1>5. f \in Scope
    BY <1>1 DEF ResultsInv, ProcInv
<1>6. \A i : (Waiting(i)' <=> Waiting(i)) /\ (Held(i)' <=> Held(i))
    BY <1>1 DEF Waiting, Held
<1>7. ProcInv'
    <2>1. ASSUME NEW i \in 1..Len(files), proc'[files[i]] = "running" PROVE Waiting(i)'
        <3>1. proc[files[i]] = "running"
            BY <2>1, <1>1, <1>2, <1>3, FilesFacts
        <3> QED  BY <3>1, <1>6 DEF ResultsInv, ProcInv
    <2>2. \A g \in Files : proc'[g] = "running" => g \in Scope'
        BY <1>2, <1>3, <1>5 DEF ResultsInv, ProcInv
    <2> QED  BY <2>1, <2>2, <1>1 DEF ProcInv
<1>8. ASSUME NEW i \in 1..Len(files), i <= next_file, ~Held(i)'
      PROVE  results[files[i]] = ParseLptsLog(log'[files[i]])
    <2>1. ~Held(i)
        BY <1>6, <1>8
    <2>2. ~Waiting(i)
        BY <2>1 DEF Held, Waiting, Holding
    <2>3. files[i] # f
        BY <2>2, <1>1 DEF ResultsInv, ProcInv
    <2>4. log'[files[i]] = log[files[i]]
        BY <2>3, <1>2, <1>3, FilesFacts
    <2> QED  BY <2>1, <2>4, <1>8 DEF ResultsInv, SlotInv
<1>9. SlotInv'
    BY <1>1, <1>8 DEF SlotInv
<1> QED  BY <1>3, <1>4, <1>7, <1>9 DEF ResultsInv

LEMMA UnchangedResults ==
    ASSUME ResultsInv, PoolInv',
           UNCHANGED <<files, next_file, pc, slot, proc, log, results>>
    PROVE  ResultsInv'
<1>1. Scope' = Scope
    BY DEF Scope
<1>2. \A i : (Waiting(i)' <=> Waiting(i)) /\ (Held(i)' <=> Held(i))
    BY DEF Waiting, Held
<1> QED  BY <1>1, <1>2 DEF ResultsInv, ResultsType, ProcInv, SlotInv

LEMMA StartKeepsResults ==
    ASSUME ResultsInv, NEW m \in Modes, NEW s \in Subdirs, NEW p \in Programs, Start(m, s, p)
    PROVE  ResultsInv'
<1>1. PoolInv'
    BY StartKeepsPool DEF ResultsInv
<1>2. CASE m = "check" /\ ~has_baseline
    BY <1>1, <1>2, UnchangedResults DEF Start, poolVars, childVars
<1>3. CASE ~(m = "check" /\ ~has_baseline)
    <2>1. /\ files' = s /\ next_file' = 0
          /\ proc' = [f \in Files |-> "none"]
          /\ results' = [f \in Files |-> NoResult]
          /\ log' = log
        BY <1>3 DEF Start
    <2>2. ResultsType'
        BY <2>1 DEF ResultsInv, ResultsType
    <2>3. \A i \in 1..Len(s) : s[i] \in Files
        BY FilesDistinct
    <2>4. ProcInv' /\ SlotInv'
        BY <2>1, <2>3 DEF ProcInv, SlotInv
    <2> QED  BY <1>1, <2>2, <2>4 DEF ResultsInv
<1> QED  BY <1>2, <1>3

LEMMA ResultsStep == ResultsInv /\ [Next]_vars => ResultsInv'
<1> SUFFICES ASSUME ResultsInv, [Next]_vars PROVE ResultsInv'
    OBVIOUS
<1>1. PoolInv'
    BY PoolStep DEF ResultsInv
<1>2. CASE Developer
    BY <1>2, StartKeepsResults DEF Developer
<1>3. CASE Main
    <2>1. UNCHANGED <<files, next_file, pc, slot, proc, log, results>>
        BY <1>3 DEF Main, Join, UpdateBaseline, RunGate, PrintReport, poolVars, childVars
    <2> QED  BY <2>1, <1>1, UnchangedResults
<1>4. ASSUME NEW w \in Workers, Worker(w) PROVE ResultsInv'
    BY <1>4, ClaimKeepsResults, LaunchKeepsResults, ReapedKeepsResults, ParseKeepsResults
       DEF Worker
<1>5. ASSUME NEW f \in Files, Child(f) PROVE ResultsInv'
    BY <1>5, ChildKeepsResults
<1>6. CASE UNCHANGED vars
    BY <1>1, <1>6, UnchangedResults DEF vars, runVars, poolVars, childVars
<1> QED  BY <1>2, <1>3, <1>4, <1>5, <1>6 DEF Next

LEMMA ResultsInvariant == Spec => []ResultsInv
BY ResultsInit, ResultsStep, PTL DEF Spec

\* When results are reported no process is left, however the files were scheduled and
\* whichever of them hung or could not be spawned, and each slot agrees with its log.
THEOREM ReportsFinalResults == Spec => []ResultsFinal
<1>1. ResultsInv => ResultsFinal
    <2> SUFFICES ASSUME ResultsInv, main = "report" 
                 PROVE  /\ \A f \in Files : proc[f] # "running"
                        /\ \A f \in Scope : results[f] = ParseLptsLog(log[f])
        BY DEF ResultsFinal
    <2>1. \A w \in Workers : pc[w] = "exited"
        BY DEF ResultsInv, PoolInv, ExitsInv
    <2>2. \A i : ~Waiting(i) /\ ~Held(i)
        BY <2>1 DEF Waiting, Held, Holding
    <2>3. \A f \in Scope : \E i \in 1..Len(files) : f = files[i]
        BY FilesFacts DEF ResultsInv
    <2>4. \A f \in Files : proc[f] # "running"
        BY <2>2, <2>3 DEF ResultsInv, ProcInv
    <2>5. next_file >= Len(files) /\ next_file \in Nat /\ Len(files) \in Nat
        BY FilesFacts DEF ResultsInv, PoolInv, ExitsInv
    <2>6. \A i \in 1..Len(files) : results[files[i]] = ParseLptsLog(log[files[i]])
        BY <2>2, <2>5 DEF ResultsInv, SlotInv
    <2> QED  BY <2>3, <2>4, <2>6
<1> QED  BY <1>1, ResultsInvariant, PTL

------------------------------------------------------------------------------
(* Verdicts.                                                               *)

\* The queries of f with that verdict that its process has run.
Seen(f, status) == {x \in Bad(program, f, status) : x[2] <= progress[f][x[1]]}

\* A count and an index list report a set of queries out of `bad`, all of them if complete.
Indexed(S) == {x[2] : x \in S}
Reports(count, idx, bad, complete) ==
    \E S \in SUBSET bad :
        /\ IsFiniteSet(S)
        /\ count = Cardinality(S) /\ idx = Indexed(S)
        /\ complete => S = bad
ReportsFile(r, p, f, complete) ==
    /\ Reports(r.wrong, r.wrong_idx, Bad(p, f, "WRONG"), complete)
    /\ Reports(r.fail, r.fail_idx, Bad(p, f, "FAIL"), complete)

\* The log of a file launched in this run counts the queries its process has run.
Logged(f, status) ==
    /\ IsFiniteSet(Seen(f, status))
    /\ Count(log[f], status) = Cardinality(Seen(f, status))
    /\ Indices(log[f], status) = Indexed(Seen(f, status))
LogInv ==
    \A f \in Files : launches[f] = 1 =>
        /\ \A c \in Conns : progress[f][c] <= Len(program[f].queries[c])
        /\ \A status \in Gated : Logged(f, status)

\* The file of a slot nobody holds was run to its end, or is known to have been cut short.
CutInv ==
    \A i \in 1..Len(files) :
        i <= next_file /\ ~Held(i) /\ files[i] \notin cut => RanAll(files[i])

\* What the results, and the baseline, say of the queries of the run they stem from.
Reported == main = "report" \/ Checked
ReportInv ==
    Reported => \A f \in Scope : ReportsFile(results[f], program, f, f \notin cut)
BaseInv ==
    \A f \in Files :
        /\ f \in base.files => ReportsFile(EntryFor(f), base.program, f, f \notin base.cut)
        /\ f \notin base.files => EntryFor(f) = NoEntry
\* The exit code and the list of improved files stay those of the last check.
ExitInv ==
    /\ main # "idle" => exit_code = 0
    /\ Checked =>
          /\ exit_code = 1 <=> \E f \in Scope : Regressed(results[f], EntryFor(f))
          /\ improved = {f \in Scope : Improved(results[f], EntryFor(f))}

VInv == /\ TypeOK /\ ResultsInv
        /\ LogInv /\ CutInv /\ ReportInv /\ BaseInv /\ ExitInv

------------------------------------------------------------------------------
(* Types.                                                                  *)

LEMMA ProgramTyped ==
    ASSUME NEW p \in Programs, NEW f \in Files
    PROVE  /\ p[f] \in Test /\ p[f].spawns \in BOOLEAN
           /\ \A c \in Conns :
                 /\ p[f].queries[c] \in Seq(Statuses \cup {"NOLINE"})
                 /\ Len(p[f].queries[c]) \in Nat
                 /\ DOMAIN p[f].queries[c] = 1..Len(p[f].queries[c])
                 /\ \A k \in 1..Len(p[f].queries[c]) :
                       p[f].queries[c][k] \in Statuses \cup {"NOLINE"}
<1>1. p[f] \in Test
  BY ProgramsAssumption
<1>2. ASSUME NEW c \in Conns PROVE p[f].queries[c] \in Seq(Statuses \cup {"NOLINE"})
  BY <1>1 DEF Test
<1>. QED  BY <1>1, <1>2 DEF Test

LEMMA LogFacts ==
    ASSUME NEW lines \in Seq(Line)
    PROVE  /\ Len(lines) \in Nat /\ DOMAIN lines = 1..Len(lines)
           /\ \A i \in 1..Len(lines) : lines[i].qnum \in Nat /\ lines[i].status \in Statuses
<1>1. \A i \in 1..Len(lines) : lines[i] \in Line
  OBVIOUS
<1>. QED  BY <1>1 DEF Line

\* A log is finite, so what is counted in it is a number.
LEMMA ParsedTyped ==
    ASSUME NEW lines \in Seq(Line)
    PROVE  ParseLptsLog(lines) \in Result
<1>1. ASSUME NEW status PROVE Count(lines, status) \in Nat
  <2>. DEFINE S == {i \in DOMAIN lines : lines[i].status = status}
  <2>1. IsFiniteSet(1..Len(lines))
    BY LogFacts, FS_Interval
  <2>2. S \in SUBSET (1..Len(lines))
    BY LogFacts
  <2>3. IsFiniteSet(S)
    BY <2>1, <2>2, FS_Subset
  <2>. QED  BY <2>3, FS_CardinalityType DEF Count
<1>2. ASSUME NEW status PROVE Indices(lines, status) \in SUBSET Nat
  BY LogFacts DEF Indices
<1>. HIDE DEF Count, Indices
<1>. QED  BY <1>1, <1>2 DEF ParseLptsLog, Result

LEMMA ScopeTyped ==
    ASSUME TypeOK
    PROVE  Scope \subseteq Files
BY FilesDistinct DEF TypeOK, Scope, RangeOf

LEMMA TypeInit == Init => TypeOK
<1>. SUFFICES ASSUME Init PROVE TypeOK
  OBVIOUS
<1>1. program \in Programs
  BY ProgramsAssumption DEF Init
<1>2. NoResult \in Result
  BY DEF NoResult, Result
<1>3. DOMAIN baseline = {}
  BY DEF Init
<1>4. RangeOf(baseline) = {}
  BY <1>3 DEF RangeOf
<1>5. /\ files \in Subdirs \cup {<< >>} /\ runs \in 0..MaxRuns
      /\ log \in [Files -> Seq(Line)] /\ improved \subseteq Files /\ cut \subseteq Files
  BY MaxRunsAssumption DEF Init
<1>6. /\ base \in [program : Programs, files : SUBSET Files, cut : SUBSET Files]
      /\ results \in [Files -> Result] /\ progress \in [Files -> [Conns -> Nat]]
  BY <1>1, <1>2 DEF Init
<1>7. DOMAIN baseline \subseteq Files /\ RangeOf(baseline) \subseteq Entry
  BY <1>3, <1>4
<1>8. /\ main = "idle" /\ mode = "run" /\ next_file = 0 /\ exit_code = 0 /\ has_baseline = FALSE
      /\ pc = [w \in Workers |-> "exited"] /\ slot = [w \in Workers |-> 0]
      /\ proc = [f \in Files |-> "none"] /\ launches = [f \in Files |-> 0]
  BY DEF Init
<1>9. /\ pc \in [Workers -> {"claim", "launch", "wait", "parse", "exited"}]
      /\ slot \in [Workers -> Nat] /\ launches \in [Files -> Nat]
      /\ proc \in [Files -> {"none", "running", "exited", "reaped"}]
  BY <1>8
<1>10. /\ main \in {"idle", "pool", "report"} /\ mode \in Modes
       /\ next_file \in Nat /\ exit_code \in 0..2
  BY <1>8 DEF Modes
<1>11. has_baseline \in BOOLEAN
  BY <1>8, Zenon
<1>. QED  BY <1>1, <1>5, <1>6, <1>7, <1>9, <1>10, <1>11 DEF TypeOK

LEMMA TypeWorker ==
    ASSUME TypeOK, PoolInv, NEW w \in Workers, Worker(w)
    PROVE  TypeOK'
<1>. USE DEF TypeOK, runVars, poolVars, childVars, gateVars
<1>1. CASE Claim(w)
  <2>1. next_file' \in Nat /\ slot' \in [Workers -> Nat]
        /\ pc' \in [Workers -> {"claim", "launch", "wait", "parse", "exited"}]
    BY <1>1 DEF Claim
  <2>. QED  BY <1>1, <2>1 DEF Claim, RangeOf
<1>2. CASE Launch(w)
  <2>1. log' \in [Files -> Seq(Line)]
    <3>1. << >> \in Seq(Line) /\ log' = [log EXCEPT ![FileOf(w)] = << >>]
      BY <1>2 DEF Launch
    <3>. QED  BY <3>1
  <2>2. progress' \in [Files -> [Conns -> Nat]]
    BY <1>2 DEF Launch
  <2>3. launches' \in [Files -> Nat]
    <3>1. FileOf(w) \in Files
      BY <1>2, FilesFacts DEF Launch, FileOf, PoolInv, SlotsInv, Holding
    <3>. HIDE DEF FileOf
    <3>. QED  BY <1>2, <3>1 DEF Launch
  <2>4. proc' \in [Files -> {"none", "running", "exited", "reaped"}]
    <3>1. \/ proc' = [proc EXCEPT ![FileOf(w)] = "running"]
          \/ proc' = [proc EXCEPT ![FileOf(w)] = "none"]
      BY <1>2 DEF Launch
    <3>. QED  BY <3>1
  <2>5. pc' \in [Workers -> {"claim", "launch", "wait", "parse", "exited"}]
    <3>1. \/ pc' = [pc EXCEPT ![w] = "wait"]
          \/ pc' = [pc EXCEPT ![w] = "parse"]
      BY <1>2 DEF Launch
    <3>. QED  BY <3>1
  <2>. QED  BY <1>2, <2>1, <2>2, <2>3, <2>4, <2>5 DEF Launch, RangeOf
<1>3. CASE Reap(w) \/ Kill(w)
  BY <1>3 DEF Reap, Kill
<1>4. CASE Parse(w)
  <2>1. FileOf(w) \in Files
    BY <1>4, FilesFacts DEF Parse, FileOf, PoolInv, SlotsInv, Holding
  <2>2. results' \in [Files -> Result]
    BY <1>4, <2>1, ParsedTyped DEF Parse
  <2>. QED  BY <1>4, <2>1, <2>2 DEF Parse
<1>. QED  BY <1>1, <1>2, <1>3, <1>4 DEF Worker

LEMMA TypeChild ==
    ASSUME TypeOK, NEW f \in Files, Child(f)
    PROVE  TypeOK'
<1>. USE DEF TypeOK, runVars, poolVars, childVars, gateVars
<1>1. ASSUME NEW c \in Conns, RunQuery(f, c) PROVE TypeOK'
  <2>. DEFINE qnum == progress[f][c] + 1
              status == program[f].queries[c][qnum]
  <2>1. qnum \in 1..Len(program[f].queries[c]) /\ qnum \in Nat
    BY <1>1, ProgramTyped DEF RunQuery
  <2>2. status \in Statuses \cup {"NOLINE"}
    BY <2>1, ProgramTyped
  <2>3. log' = IF status = "NOLINE" THEN log
               ELSE [log EXCEPT ![f] = Append(@, [qnum |-> qnum, status |-> status])]
    BY <1>1 DEF RunQuery
  <2>. HIDE DEF qnum, status
  <2>4. log' \in [Files -> Seq(Line)]
    <3>1. CASE status = "NOLINE"
      BY <2>3, <3>1
    <3>2. CASE status # "NOLINE"
      <4>1. [qnum |-> qnum, status |-> status] \in Line
        BY <2>1, <2>2, <3>2 DEF Line
      <4>2. log[f] \in Seq(Line)
        OBVIOUS
      <4>3. Append(log[f], [qnum |-> qnum, status |-> status]) \in Seq(Line)
        BY <4>1, <4>2
      <4>. QED  BY <2>3, <3>2, <4>3
    <3>. QED  BY <3>1, <3>2
  <2>5. progress' \in [Files -> [Conns -> Nat]]
    BY <1>1 DEF RunQuery
  <2>. QED  BY <1>1, <2>4, <2>5 DEF RunQuery
<1>2. ASSUME ChildExits(f) PROVE TypeOK'
  BY <1>2 DEF ChildExits
<1>. QED  BY <1>1, <1>2 DEF Child

LEMMA EntryTyped ==
    ASSUME NEW r \in Result
    PROVE  EntryOf(r) \in Entry
BY DEF EntryOf, Entry, Result

LEMMA TypeMain ==
    ASSUME TypeOK, Main
    PROVE  TypeOK'
<1>. USE DEF TypeOK, runVars, poolVars, childVars, gateVars
<1>1. CASE Join \/ PrintReport
  BY <1>1 DEF Join, PrintReport
<1>2. CASE RunGate
  BY <1>2, ScopeTyped DEF RunGate
<1>3. CASE UpdateBaseline
  <2>1. /\ DOMAIN baseline' \subseteq Files
        /\ \A f \in DOMAIN baseline' : baseline'[f] \in Entry
    BY <1>3, ScopeTyped, EntryTyped DEF UpdateBaseline
  <2>2. RangeOf(baseline)' \subseteq Entry
    BY <2>1 DEF RangeOf
  <2>. QED  BY <1>3, <2>1, <2>2, ScopeTyped DEF UpdateBaseline
<1>. QED  BY <1>1, <1>2, <1>3 DEF Main

LEMMA TypeStart ==
    ASSUME TypeOK, NEW m \in Modes, NEW s \in Subdirs, NEW p \in Programs, Start(m, s, p)
    PROVE  TypeOK'
<1>. USE DEF TypeOK, runVars, poolVars, childVars, gateVars
<1>1. NoResult \in Result
  BY DEF NoResult, Result
<1>. QED  BY <1>1, MaxRunsAssumption DEF Start

LEMMA TypeStep == TypeOK /\ PoolInv /\ [Next]_vars => TypeOK'
<1>. SUFFICES ASSUME TypeOK, PoolInv, [Next]_vars PROVE TypeOK'
  OBVIOUS
<1>1. CASE UNCHANGED vars
  BY <1>1 DEF TypeOK, vars, runVars, poolVars, childVars, gateVars, RangeOf
<1>. QED  BY <1>1, TypeStart, TypeMain, TypeWorker, TypeChild DEF Next, Developer

\* Every variable of the driver keeps its type, whatever the files, builds and workers.
THEOREM GateTyped == Spec => []TypeOK
<1>. QED  BY TypeInit, TypeStep, PoolInvariant, PTL DEF Spec

------------------------------------------------------------------------------
(* The queries a log counts.                                               *)

LEMMA BadMembers ==
    ASSUME NEW p, NEW f, NEW status
    PROVE  \A x : x \in Bad(p, f, status) <=>
              \E c \in Conns : \E k \in DOMAIN p[f].queries[c] :
                 x = <<c, k>> /\ p[f].queries[c][k] = status
BY DEF Bad

\* The query at a given place is one of those with the verdict it has, and no other.
LEMMA BadAt ==
    ASSUME NEW p \in Programs, NEW f \in Files, NEW status, NEW c \in Conns, NEW k
    PROVE  <<c, k>> \in Bad(p, f, status) <=>
              k \in 1..Len(p[f].queries[c]) /\ p[f].queries[c][k] = status
<1>1. DOMAIN p[f].queries[c] = 1..Len(p[f].queries[c])
  BY ProgramTyped
<1>2. \A d, j : <<d, j>> = <<c, k>> => d = c /\ j = k
  OBVIOUS
<1>. QED  BY <1>1, <1>2, BadMembers

LEMMA CountedFinite ==
    ASSUME NEW lines \in Seq(Line), NEW status
    PROVE  IsFiniteSet({i \in DOMAIN lines : lines[i].status = status})
<1>1. IsFiniteSet(1..Len(lines))
  BY LogFacts, FS_Interval
<1>2. {i \in DOMAIN lines : lines[i].status = status} \in SUBSET (1..Len(lines))
  BY LogFacts
<1>. QED  BY <1>1, <1>2, FS_Subset

LEMMA CountAppend ==
    ASSUME NEW lines \in Seq(Line), NEW line \in Line, NEW status
    PROVE  /\ Count(Append(lines, line), status) =
                 IF line.status = status THEN Count(lines, status) + 1
                                         ELSE Count(lines, status)
           /\ Indices(Append(lines, line), status) =
                 IF line.status = status THEN Indices(lines, status) \cup {line.qnum}
                                         ELSE Indices(lines, status)
<1>. DEFINE n == Len(lines)
            more == Append(lines, line)
            S == {i \in DOMAIN lines : lines[i].status = status}
            T == {i \in DOMAIN more : more[i].status = status}
<1>1. /\ n \in Nat /\ DOMAIN lines = 1..n /\ DOMAIN more = 1..n+1
      /\ more[n+1] = line
      /\ \A i \in 1..n : more[i] = lines[i]
  OBVIOUS
<1>2. T = IF line.status = status THEN S \cup {n+1} ELSE S
  BY <1>1
<1>3. n+1 \notin S
  BY <1>1
<1>4. Cardinality(S \cup {n+1}) = Cardinality(S) + 1
  <2>1. IsFiniteSet(S)
    BY CountedFinite
  <2>. QED  BY <2>1, <1>3, FS_AddElement
<1>5. Count(more, status) = Cardinality(T) /\ Count(lines, status) = Cardinality(S)
  BY DEF Count
<1>6. Indices(more, status) = {more[i].qnum : i \in T}
  BY DEF Indices
<1>7. Indices(lines, status) = {lines[i].qnum : i \in S}
  BY DEF Indices
<1>8. \A i \in S : more[i] = lines[i]
  BY <1>1
<1>. HIDE DEF S, T, more, n
<1>9. Count(more, status) = IF line.status = status THEN Count(lines, status) + 1
                                         ELSE Count(lines, status)
  BY <1>1, <1>2, <1>4, <1>5
<1>10. Indices(more, status) =
                 IF line.status = status THEN Indices(lines, status) \cup {line.qnum}
                                         ELSE Indices(lines, status)
  <2>1. CASE line.status = status
    <3>1. T = S \cup {n+1} /\ more[n+1].qnum = line.qnum
      BY <2>1, <1>1, <1>2
    <3>. QED  BY <2>1, <3>1, <1>6, <1>7, <1>8
  <2>2. CASE line.status # status
    BY <1>2, <1>6, <1>7, <1>8, <2>2
  <2>. QED  BY <2>1, <2>2
<1>. QED  BY <1>9, <1>10 DEF more

\* Running the k-th query of c shows its verdict, which had not been seen before.
LEMMA SeenGrows ==
    ASSUME TypeOK, NEW f \in Files, NEW c \in Conns, RunQuery(f, c), NEW status
    PROVE  LET k == progress[f][c] + 1 IN
           /\ Seen(f, status)' = IF program[f].queries[c][k] = status
                                 THEN Seen(f, status) \cup {<<c, k>>}
                                 ELSE Seen(f, status)
           /\ <<c, k>> \notin Seen(f, status)
<1>. DEFINE k == progress[f][c] + 1
<1>1. /\ program \in Programs /\ program' = program
      /\ progress \in [Files -> [Conns -> Nat]]
      /\ progress' = [progress EXCEPT ![f][c] = @ + 1]
      /\ k \in 1..Len(program[f].queries[c])
  BY ProgramTyped DEF RunQuery, TypeOK, runVars
<1>2. /\ progress'[f][c] = k
      /\ \A d \in Conns : d # c => progress'[f][d] = progress[f][d]
      /\ progress[f][c] \in Nat
  BY <1>1
<1>3. \A x \in Bad(program, f, status) :
         \E d \in Conns : \E j \in Nat : x = <<d, j>>
  <2>1. \A d \in Conns : DOMAIN program[f].queries[d] = 1..Len(program[f].queries[d])
    BY <1>1, ProgramTyped
  <2>2. \A d \in Conns : \A j \in DOMAIN program[f].queries[d] : j \in Nat
    BY <2>1
  <2>. QED  BY <2>2, BadMembers
<1>4. ASSUME NEW d \in Conns, NEW j \in Nat
      PROVE  <<d, j>> \in Seen(f, status)' <=>
                \/ <<d, j>> \in Seen(f, status)
                \/ d = c /\ j = k /\ program[f].queries[c][k] = status
  <2>1. <<d, j>> \in Seen(f, status)' <=>
           <<d, j>> \in Bad(program, f, status) /\ j <= progress'[f][d]
    BY <1>1 DEF Seen, Bad
  <2>2. <<d, j>> \in Seen(f, status) <=>
           <<d, j>> \in Bad(program, f, status) /\ j <= progress[f][d]
    BY DEF Seen
  <2>3. <<c, k>> \in Bad(program, f, status) <=> program[f].queries[c][k] = status
    BY <1>1, BadAt
  <2>4. CASE d # c
    BY <2>1, <2>2, <2>4, <1>2
  <2>5. CASE d = c
    <3>1. j <= progress'[f][c] <=> j <= progress[f][c] \/ j = k
      BY <1>2
    <3>. HIDE DEF k
    <3>. QED  BY <3>1, <2>1, <2>2, <2>3, <2>5
  <2>. QED  BY <2>4, <2>5
<1>5. \A x \in Seen(f, status) \cup Seen(f, status)' :
         \E d \in Conns : \E j \in Nat : x = <<d, j>>
  <2>1. Bad(program, f, status)' = Bad(program, f, status)
    BY <1>1 DEF Bad
  <2>. QED  BY <1>3, <2>1 DEF Seen
<1>6. <<c, k>> \notin Seen(f, status)
  BY <1>2 DEF Seen
<1>7. k \in Nat
  BY <1>2
<1>. HIDE DEF k, Seen
<1>8. Seen(f, status)' = IF program[f].queries[c][k] = status
                                 THEN Seen(f, status) \cup {<<c, k>>}
                                 ELSE Seen(f, status)
  <2>1. CASE program[f].queries[c][k] = status
    BY <2>1, <1>4, <1>5, <1>7
  <2>2. CASE program[f].queries[c][k] # status
    BY <2>2, <1>4, <1>5
  <2>. QED  BY <2>1, <2>2
<1>. QED  BY <1>6, <1>8 DEF k

------------------------------------------------------------------------------
(* The log of a file counts the queries its process has run.               *)

\* What leaves the log and the process of a file alone.
LEMMA UnchangedLogged ==
    ASSUME NEW f, UNCHANGED <<program, log[f], progress[f]>>
    PROVE  \A status : Logged(f, status)' <=> Logged(f, status)
<1>1. \A status : Seen(f, status)' = Seen(f, status)
  BY DEF Seen, Bad
<1>. QED  BY <1>1 DEF Logged

LEMMA UnchangedLogs ==
    ASSUME LogInv, UNCHANGED <<program, log, progress, launches>>
    PROVE  LogInv'
BY UnchangedLogged DEF LogInv

LEMMA LaunchKeepsLogs ==
    ASSUME TypeOK, PoolInv, LogInv, NEW w \in Workers, Launch(w), NEW f, f = FileOf(w)
    PROVE  LogInv'
<1>1. f \in Files /\ program \in Programs
  BY FilesFacts DEF TypeOK, Launch, FileOf, PoolInv, SlotsInv, Holding
<1>2. /\ log' = [log EXCEPT ![f] = << >>]
      /\ progress' = [progress EXCEPT ![f] = [c \in Conns |-> 0]]
      /\ launches' = [launches EXCEPT ![f] = @ + 1]
      /\ program' = program
  BY DEF Launch, runVars
<1>3. /\ \A g \in Files : g # f =>
            log'[g] = log[g] /\ progress'[g] = progress[g] /\ launches'[g] = launches[g]
      /\ log'[f] = << >>
      /\ \A c \in Conns : progress'[f][c] = 0
  BY <1>1, <1>2 DEF TypeOK
<1>4. \A c \in Conns : progress'[f][c] <= Len(program'[f].queries[c])
  BY <1>1, <1>2, <1>3, ProgramTyped
<1>5. ASSUME NEW status PROVE Logged(f, status)'
  <2>1. Seen(f, status)' = {}
    <3>1. Bad(program, f, status)' = Bad(program, f, status)
      BY <1>2 DEF Bad
    <3>2. \A x \in Bad(program, f, status) : x[1] \in Conns /\ x[2] \in Nat /\ x[2] > 0
      BY <1>1, ProgramTyped, BadMembers
    <3>. QED  BY <1>3, <3>1, <3>2 DEF Seen
  <2>2. Count(log'[f], status) = 0 /\ Indices(log'[f], status) = {}
    BY <1>3, FS_EmptySet DEF Count, Indices
  <2>3. Count(log[f], status)' = Count(log'[f], status)
    BY DEF Count
  <2>4. Indices(log[f], status)' = Indices(log'[f], status)
    BY DEF Indices
  <2>. QED  BY <2>1, <2>2, <2>3, <2>4, FS_EmptySet DEF Logged, Indexed
<1>6. ASSUME NEW g \in Files, launches'[g] = 1
      PROVE  /\ \A c \in Conns : progress'[g][c] <= Len(program'[g].queries[c])
             /\ \A status \in Gated : Logged(g, status)'
  <2>1. CASE g = f
    BY <2>1, <1>4, <1>5
  <2>2. CASE g # f
    BY <2>2, <1>2, <1>3, <1>6, UnchangedLogged DEF LogInv
  <2>. QED  BY <2>1, <2>2
<1>. QED  BY <1>6 DEF LogInv

LEMMA QueryKeepsLogs ==
    ASSUME TypeOK, LogInv, NEW f \in Files, NEW c \in Conns, RunQuery(f, c)
    PROVE  LogInv'
<1>. DEFINE k == progress[f][c] + 1
            verdict == program[f].queries[c][k]
            line == [qnum |-> k, status |-> verdict]
<1>1. /\ progress \in [Files -> [Conns -> Nat]] /\ log \in [Files -> Seq(Line)]
      /\ program \in Programs /\ program' = program /\ launches' = launches
      /\ progress' = [progress EXCEPT ![f][c] = @ + 1]
      /\ k \in 1..Len(program[f].queries[c]) /\ k \in Nat
      /\ log' = IF verdict = "NOLINE" THEN log ELSE [log EXCEPT ![f] = Append(@, line)]
  BY ProgramTyped DEF RunQuery, TypeOK, runVars
<1>2. verdict \in Statuses \cup {"NOLINE"}
  BY <1>1, ProgramTyped
<1>3. ASSUME NEW status \in Gated
      PROVE  /\ Seen(f, status)' = IF verdict = status THEN Seen(f, status) \cup {<<c, k>>}
                                                       ELSE Seen(f, status)
             /\ <<c, k>> \notin Seen(f, status)
  BY SeenGrows
<1>4. /\ progress'[f][c] = k
      /\ \A d \in Conns : d # c => progress'[f][d] = progress[f][d]
      /\ \A g \in Files : g # f => progress'[g] = progress[g] /\ log'[g] = log[g]
  BY <1>1
<1>5. /\ log'[f] = IF verdict = "NOLINE" THEN log[f] ELSE Append(log[f], line)
      /\ log[f] \in Seq(Line)
  BY <1>1
<1>6. verdict # "NOLINE" => line \in Line
  BY <1>1, <1>2 DEF Line
<1>7. line.qnum = k /\ line.status = verdict
  OBVIOUS
<1>8. k <= Len(program[f].queries[c]) /\ program'[f] = program[f]
  BY <1>1, ProgramTyped
<1>. HIDE DEF k, verdict, line
<1>9. ASSUME NEW status \in Gated, Logged(f, status)
      PROVE  Logged(f, status)'
  <2>1. /\ IsFiniteSet(Seen(f, status)')
        /\ Cardinality(Seen(f, status)') =
              IF verdict = status THEN Cardinality(Seen(f, status)) + 1
                                  ELSE Cardinality(Seen(f, status))
    BY <1>3, <1>9, FS_AddElement DEF Logged
  <2>2. Indexed(Seen(f, status)') =
           IF verdict = status THEN Indexed(Seen(f, status)) \cup {k}
                               ELSE Indexed(Seen(f, status))
    BY <1>3 DEF Indexed
  <2>3. status # "NOLINE"
    BY DEF Gated
  <2>4. /\ Count(log'[f], status) = IF verdict = status THEN Count(log[f], status) + 1
                                                        ELSE Count(log[f], status)
        /\ Indices(log'[f], status) = IF verdict = status THEN Indices(log[f], status) \cup {k}
                                                          ELSE Indices(log[f], status)
    <3>1. CASE verdict = "NOLINE"
      BY <3>1, <1>5, <2>3
    <3>2. CASE verdict # "NOLINE"
      <4>1. log'[f] = Append(log[f], line) /\ line \in Line /\ log[f] \in Seq(Line)
        BY <3>2, <1>5, <1>6
      <4>2. \A t \in Gated :
               /\ Count(Append(log[f], line), t) =
                     IF line.status = t THEN Count(log[f], t) + 1 ELSE Count(log[f], t)
               /\ Indices(Append(log[f], line), t) =
                     IF line.status = t THEN Indices(log[f], t) \cup {line.qnum}
                                        ELSE Indices(log[f], t)
        BY <4>1, CountAppend
      <4>. QED  BY <4>1, <4>2, <1>7
    <3>. QED  BY <3>1, <3>2
  <2>5. /\ Count(log[f], status)' = Count(log'[f], status)
        /\ Indices(log[f], status)' = Indices(log'[f], status)
        /\ Indexed(Seen(f, status))' = Indexed(Seen(f, status)')
    BY DEF Count, Indices, Indexed
  <2>. QED  BY <2>1, <2>2, <2>4, <2>5, <1>9 DEF Logged
<1>10. ASSUME NEW g \in Files, launches'[g] = 1
      PROVE  /\ \A d \in Conns : progress'[g][d] <= Len(program'[g].queries[d])
             /\ \A status \in Gated : Logged(g, status)'
  <2>1. CASE g = f
    BY <2>1, <1>1, <1>4, <1>8, <1>9, <1>10 DEF LogInv
  <2>2. CASE g # f
    BY <2>2, <1>1, <1>4, <1>10, UnchangedLogged DEF LogInv
  <2>. QED  BY <2>1, <2>2
<1>. QED  BY <1>10 DEF LogInv

LEMMA LogStep ==
    ASSUME TypeOK, PoolInv, LogInv, [Next]_vars
    PROVE  LogInv'
<1>1. ASSUME NEW m \in Modes, NEW s \in Subdirs, NEW p \in Programs, Start(m, s, p)
      PROVE  LogInv'
  <2>1. CASE m = "check" /\ ~has_baseline
    BY <1>1, <2>1, UnchangedLogs DEF Start, childVars
  <2>2. CASE ~(m = "check" /\ ~has_baseline)
    <3>1. launches' = [f \in Files |-> 0]
      BY <1>1, <2>2 DEF Start
    <3>. QED  BY <3>1 DEF LogInv
  <2>. QED  BY <2>1, <2>2
<1>2. CASE Main
  BY <1>2, UnchangedLogs DEF Main, Join, UpdateBaseline, RunGate, PrintReport, runVars, childVars
<1>3. ASSUME NEW w \in Workers, Worker(w) PROVE LogInv'
  <2>1. CASE Launch(w)
    BY <2>1, LaunchKeepsLogs
  <2>2. CASE Claim(w) \/ Reap(w) \/ Kill(w) \/ Parse(w)
    BY <2>2, UnchangedLogs DEF Claim, Reap, Kill, Parse, runVars, childVars
  <2>. QED  BY <1>3, <2>1, <2>2 DEF Worker
<1>4. ASSUME NEW f \in Files, Child(f) PROVE LogInv'
  <2>1. CASE ChildExits(f)
    BY <2>1, UnchangedLogs DEF ChildExits, runVars
  <2>. QED  BY <2>1, <1>4, QueryKeepsLogs DEF Child
<1>5. CASE UNCHANGED vars
  BY <1>5, UnchangedLogs DEF vars, runVars, childVars
<1>. QED  BY <1>1, <1>2, <1>3, <1>4, <1>5 DEF Next, Developer

------------------------------------------------------------------------------
(* A file not known to be cut short was run to its end.                    *)

LEMMA UnchangedCut ==
    ASSUME CutInv, UNCHANGED <<files, next_file, pc, slot, cut, program, progress>>
    PROVE  CutInv'
BY DEF CutInv, Held, RanAll

LEMMA WorkerKeepsCut ==
    ASSUME PoolInv, TypeOK, CutInv, NEW w \in Workers, Worker(w)
    PROVE  CutInv'
<1>. USE DEF Holding
<1>1. CASE Claim(w)
  <2>1. UNCHANGED <<files, cut, program, progress>>
    BY <1>1 DEF Claim, runVars, childVars
  <2>. QED  BY <1>1, <2>1, ClaimReleasesNothing DEF CutInv, RanAll
<1>2. CASE Launch(w) \/ Reap(w) \/ Kill(w)
  <2>1. PICK p \in {"wait", "parse"} :
           /\ pc[w] \in Holding
           /\ pc' = [pc EXCEPT ![w] = p]
           /\ UNCHANGED <<files, next_file, slot, cut, program>>
           /\ \A f \in Files : f # FileOf(w) => progress'[f] = progress[f]
    BY <1>2 DEF Launch, Reap, Kill, runVars, childVars, TypeOK
  <2>2. /\ slot[w] \in 1..Len(files)
        /\ \A i \in 1..Len(files) : files[i] \in Files
        /\ \A i, j \in 1..Len(files) : files[i] = files[j] => i = j
    BY <2>1, FilesFacts DEF PoolInv, SlotsInv
  <2>3. \A i : Held(i)' <=> Held(i)
    BY <2>1 DEF Held, PoolInv, PoolType
  <2>4. ASSUME NEW i \in 1..Len(files), ~Held(i) PROVE progress'[files[i]] = progress[files[i]]
    <3>1. i # slot[w]
      BY <2>1, <2>4 DEF Held
    <3>. QED  BY <2>1, <2>2, <3>1 DEF FileOf
  <2>. QED  BY <2>1, <2>3, <2>4 DEF CutInv, RanAll
<1>3. CASE Parse(w)
  <2>1. /\ pc[w] = "parse" /\ pc' = [pc EXCEPT ![w] = "claim"]
        /\ cut' = IF program[FileOf(w)].spawns /\ RanAll(FileOf(w)) THEN cut
                  ELSE cut \cup {FileOf(w)}
        /\ UNCHANGED <<files, next_file, slot, program, progress>>
    BY <1>3 DEF Parse, runVars, childVars
  <2>2. \A v \in Workers : v # w => pc'[v] = pc[v]
    BY <2>1 DEF PoolInv, PoolType
  <2>3. ASSUME NEW i \in 1..Len(files), i <= next_file, ~Held(i)', files[i] \notin cut'
        PROVE  RanAll(files[i])
    <3>1. CASE i = slot[w]
      BY <2>1, <2>3, <3>1 DEF FileOf
    <3>2. CASE i # slot[w]
      <4>1. ~Held(i)
        BY <2>1, <2>2, <2>3, <3>2 DEF Held
      <4>2. files[i] \notin cut
        BY <2>1, <2>3
      <4>. QED  BY <4>1, <4>2, <2>3 DEF CutInv
    <3>. QED  BY <3>1, <3>2
  <2>. QED  BY <2>1, <2>3 DEF CutInv, RanAll
<1>. QED  BY <1>1, <1>2, <1>3 DEF Worker

LEMMA CutStep ==
    ASSUME TypeOK, ResultsInv, CutInv, [Next]_vars
    PROVE  CutInv'
<1>1. ASSUME NEW m \in Modes, NEW s \in Subdirs, NEW p \in Programs, Start(m, s, p)
      PROVE  CutInv'
  <2>1. CASE m = "check" /\ ~has_baseline
    BY <1>1, <2>1, UnchangedCut DEF Start, poolVars, childVars
  <2>2. CASE ~(m = "check" /\ ~has_baseline)
    <3>1. next_file' = 0
      BY <1>1, <2>2 DEF Start
    <3>. QED  BY <3>1 DEF CutInv
  <2>. QED  BY <2>1, <2>2
<1>2. CASE Main
  BY <1>2, UnchangedCut
     DEF Main, Join, UpdateBaseline, RunGate, PrintReport, poolVars, childVars
<1>3. ASSUME NEW w \in Workers, Worker(w) PROVE CutInv'
  BY <1>3, WorkerKeepsCut DEF ResultsInv
<1>4. ASSUME NEW f \in Files, Child(f) PROVE CutInv'
  <2>1. /\ proc[f] = "running"
        /\ UNCHANGED <<files, next_file, pc, slot, cut, program>>
        /\ \A g \in Files : g # f => progress'[g] = progress[g]
    BY <1>4 DEF Child, RunQuery, ChildExits, runVars, poolVars, TypeOK
  <2>2. \A i : Held(i)' <=> Held(i)
    BY <2>1 DEF Held
  <2>3. ASSUME NEW i \in 1..Len(files), ~Held(i) PROVE progress'[files[i]] = progress[files[i]]
    <3>1. files[i] # f
      BY <2>1, <2>3 DEF ResultsInv, ProcInv, Waiting, Held, Holding
    <3>. QED  BY <2>1, <3>1, FilesFacts DEF ResultsInv
  <2>. QED  BY <2>1, <2>2, <2>3 DEF CutInv, RanAll
<1>5. CASE UNCHANGED vars
  BY <1>5, UnchangedCut DEF vars, runVars, poolVars, childVars
<1>. QED  BY <1>1, <1>2, <1>3, <1>4, <1>5 DEF Next, Developer

------------------------------------------------------------------------------
(* What the results and the baseline say.                                  *)

\* When every worker has returned, each slot reports the queries of its file.
LEMMA ResultsReport ==
    ASSUME TypeOK, ResultsInv, LogInv, CutInv,
           \A w \in Workers : pc[w] = "exited", next_file >= Len(files), NEW f \in Scope
    PROVE  ReportsFile(results[f], program, f, f \notin cut)
<1>1. PICK i \in 1..Len(files) : f = files[i]
  BY FilesFacts DEF ResultsInv
<1>2. f \in Files /\ program \in Programs /\ Len(files) \in Nat /\ next_file \in Nat
  BY <1>1, FilesFacts DEF ResultsInv, TypeOK
<1>3. i <= next_file /\ ~Held(i) /\ \A w \in Workers : pc[w] # "launch"
  BY <1>2 DEF Held, Holding
<1>4. launches[f] = 1
  BY <1>1, <1>3 DEF ResultsInv, PoolInv, LaunchesInv
<1>5. results[f] = ParseLptsLog(log[f])
  BY <1>1, <1>3 DEF ResultsInv, SlotInv
<1>6. f \notin cut => RanAll(f)
  BY <1>1, <1>3 DEF CutInv
<1>7. ASSUME NEW status \in Gated
      PROVE  Reports(Count(log[f], status), Indices(log[f], status),
                     Bad(program, f, status), f \notin cut)
  <2>1. Logged(f, status)
    BY <1>2, <1>4 DEF LogInv
  <2>2. Seen(f, status) \in SUBSET Bad(program, f, status)
    BY DEF Seen
  <2>3. ASSUME f \notin cut PROVE Seen(f, status) = Bad(program, f, status)
    <3>1. \A c \in Conns : progress[f][c] = Len(program[f].queries[c])
      BY <1>6, <2>3 DEF RanAll
    <3>2. \A x \in Bad(program, f, status) :
             \E c \in Conns : \E k \in 1..Len(program[f].queries[c]) : x = <<c, k>>
      BY <1>2, ProgramTyped, BadMembers
    <3>3. \A x \in Bad(program, f, status) : x[2] <= progress[f][x[1]]
      BY <1>2, <3>1, <3>2, ProgramTyped
    <3>. QED  BY <3>3 DEF Seen
  <2>. QED  BY <2>1, <2>2, <2>3 DEF Logged, Reports
<1>8. /\ results[f].wrong = Count(log[f], "WRONG")
      /\ results[f].fail = Count(log[f], "FAIL")
      /\ results[f].wrong_idx = Indices(log[f], "WRONG")
      /\ results[f].fail_idx = Indices(log[f], "FAIL")
  BY <1>5 DEF ParseLptsLog
<1>9. "WRONG" \in Gated /\ "FAIL" \in Gated
  BY DEF Gated
<1>. QED  BY <1>7, <1>8, <1>9 DEF ReportsFile

\* The baseline omits only files of which there is nothing to say.
LEMMA EntryReports ==
    ASSUME NEW r \in Result, NEW p, NEW f, NEW complete, ReportsFile(r, p, f, complete),
           NEW e, e = IF HasActivity(r) THEN EntryOf(r) ELSE NoEntry
    PROVE  ReportsFile(e, p, f, complete)
<1>1. CASE HasActivity(r)
  BY <1>1 DEF ReportsFile, EntryOf
<1>2. CASE ~HasActivity(r)
  <2>1. r.wrong = 0 /\ r.fail = 0
    <3>1. /\ r.ok \in Nat /\ r.wrong \in Nat /\ r.fail \in Nat
          /\ r.unsupported \in Nat /\ r.ndet \in Nat
      BY DEF Result
    <3>2. r.ok + r.wrong + r.fail + r.unsupported + r.ndet = 0
      BY <1>2 DEF HasActivity
    <3>3. \A a, b, c, d, n \in Nat : a + b + c + d + n = 0 => b = 0 /\ c = 0
      OBVIOUS
    <3>. QED  BY <3>1, <3>2, <3>3
  <2>2. ASSUME NEW idx, NEW bad, Reports(0, idx, bad, complete) PROVE idx = {}
    BY <2>2, FS_EmptySet DEF Reports, Indexed
  <2>3. r.wrong_idx = {} /\ r.fail_idx = {}
    BY <2>1, <2>2 DEF ReportsFile
  <2>4. /\ e.wrong = 0 /\ e.fail = 0 /\ e.wrong_idx = {} /\ e.fail_idx = {}
    BY <1>2 DEF NoEntry
  <2>. QED  BY <2>1, <2>3, <2>4 DEF ReportsFile
<1>. QED  BY <1>1, <1>2

LEMMA ReportStep ==
    ASSUME TypeOK, ResultsInv, LogInv, CutInv, ReportInv, [Next]_vars
    PROVE  ReportInv'
<1>1. ASSUME ~Reported' PROVE ReportInv'
  BY <1>1 DEF ReportInv
<1>2. ASSUME Reported, UNCHANGED <<files, results, program, cut>> PROVE ReportInv'
  <2>1. Scope' = Scope
    BY <1>2 DEF Scope
  <2>2. \A f : ReportsFile(results[f], program, f, f \notin cut)'
               <=> ReportsFile(results[f], program, f, f \notin cut)
    BY <1>2 DEF ReportsFile, Reports, Bad, Indexed
  <2>. QED  BY <1>2, <2>1, <2>2 DEF ReportInv
<1>3. ASSUME NEW m \in Modes, NEW s \in Subdirs, NEW p \in Programs, Start(m, s, p)
      PROVE  ReportInv'
  <2>1. ~Reported'
    BY <1>3 DEF Start, Reported, Checked
  <2>. QED  BY <2>1, <1>1
<1>4. CASE Join
  <2>1. /\ \A w \in Workers : pc[w] = "exited"
        /\ UNCHANGED <<files, results, program, cut>>
        /\ main = "pool"
    BY <1>4 DEF Join
  <2>2. next_file >= Len(files)
    BY <2>1, WorkersAssumption DEF ResultsInv, PoolInv, ExitsInv
  <2>3. \A f \in Scope : ReportsFile(results[f], program, f, f \notin cut)
    BY <2>1, <2>2, ResultsReport
  <2>4. \A f : ReportsFile(results[f], program, f, f \notin cut)'
               <=> ReportsFile(results[f], program, f, f \notin cut)
    BY <2>1 DEF ReportsFile, Reports, Bad, Indexed
  <2>5. Scope' = Scope
    BY <2>1 DEF Scope
  <2>. QED  BY <2>3, <2>4, <2>5 DEF ReportInv
<1>5. CASE UpdateBaseline \/ RunGate \/ PrintReport
  BY <1>2, <1>5 DEF UpdateBaseline, RunGate, PrintReport, Reported
<1>6. ASSUME NEW w \in Workers, Worker(w) PROVE ReportInv'
  <2>1. main' = main /\ (main = "pool" \/ pc[w] # "exited")
    BY <1>6 DEF Worker, Claim, Launch, Reap, Kill, Parse, runVars
  <2>2. main' = "pool"
    BY <2>1 DEF ResultsInv, PoolInv, ExitsInv
  <2>. QED  BY <2>2, <1>1 DEF Reported, Checked
<1>7. ASSUME NEW f \in Files, Child(f) PROVE ReportInv'
  <2>1. UNCHANGED <<main, mode, exit_code, files, results, program, cut>>
    BY <1>7 DEF Child, RunQuery, ChildExits, runVars, gateVars
  <2>. QED  BY <2>1, <1>1, <1>2 DEF Reported, Checked
<1>8. CASE UNCHANGED vars
  <2>1. UNCHANGED <<main, mode, exit_code, files, results, program, cut>>
    BY <1>8 DEF vars, runVars, gateVars
  <2>. QED  BY <2>1, <1>1, <1>2 DEF Reported, Checked
<1>. QED  BY <1>3, <1>4, <1>5, <1>6, <1>7, <1>8 DEF Next, Developer, Main

LEMMA BaseStep ==
    ASSUME TypeOK, ReportInv, BaseInv, [Next]_vars
    PROVE  BaseInv'
<1>1. CASE UpdateBaseline
  <2>1. /\ main = "report"
        /\ baseline' = [f \in {g \in Scope : HasActivity(results[g])} |-> EntryOf(results[f])]
        /\ base' = [program |-> program, files |-> Scope, cut |-> cut]
    BY <1>1 DEF UpdateBaseline
  <2>2. ASSUME NEW f \in Scope
        PROVE  ReportsFile(EntryFor(f)', program, f, f \notin cut)
    <3>1. ReportsFile(results[f], program, f, f \notin cut)
      BY <2>1 DEF ReportInv, Reported
    <3>2. results[f] \in Result
      BY ScopeTyped DEF TypeOK
    <3>3. EntryFor(f)' = IF HasActivity(results[f]) THEN EntryOf(results[f]) ELSE NoEntry
      BY <2>1 DEF EntryFor
    <3>. QED  BY <3>1, <3>2, <3>3, EntryReports
  <2>3. ASSUME NEW f, f \notin Scope
        PROVE  EntryFor(f)' = NoEntry
    BY <2>1, <2>3 DEF EntryFor
  <2>4. base'.program = program /\ base'.files = Scope /\ base'.cut = cut
    BY <2>1
  <2>5. \A f : ReportsFile(EntryFor(f), base.program, f, f \notin base.cut)'
               <=> ReportsFile(EntryFor(f)', base'.program, f, f \notin base'.cut)
    BY DEF ReportsFile, Reports, Bad, Indexed
  <2>. QED  BY <2>2, <2>3, <2>4, <2>5 DEF BaseInv
<1>2. ASSUME UNCHANGED <<baseline, base>> PROVE BaseInv'
  <2>1. \A f : EntryFor(f)' = EntryFor(f)
    BY <1>2 DEF EntryFor
  <2>2. \A f : ReportsFile(EntryFor(f), base.program, f, f \notin base.cut)'
               <=> ReportsFile(EntryFor(f), base.program, f, f \notin base.cut)
    BY <1>2, <2>1 DEF ReportsFile, Reports, Bad, Indexed
  <2>. QED  BY <1>2, <2>1, <2>2 DEF BaseInv
<1>3. CASE ~UpdateBaseline
  <2>1. UNCHANGED <<baseline, base>>
    <3>1. CASE Developer
      BY <3>1 DEF Developer, Start
    <3>2. CASE Main
      BY <1>3, <3>2 DEF Main, Join, RunGate, PrintReport, gateVars
    <3>3. ASSUME NEW w \in Workers, Worker(w) PROVE UNCHANGED <<baseline, base>>
      BY <3>3 DEF Worker, Claim, Launch, Reap, Kill, Parse, gateVars
    <3>4. ASSUME NEW f \in Files, Child(f) PROVE UNCHANGED <<baseline, base>>
      BY <3>4 DEF Child, RunQuery, ChildExits, gateVars
    <3>5. CASE UNCHANGED vars
      BY <3>5 DEF vars, gateVars
    <3>. QED  BY <3>1, <3>2, <3>3, <3>4, <3>5 DEF Next
  <2>. QED  BY <1>2, <2>1
<1>. QED  BY <1>1, <1>3

LEMMA ExitStep ==
    ASSUME PoolInv, ExitInv, [Next]_vars
    PROVE  ExitInv'
<1>1. ASSUME UNCHANGED <<main, mode, files, exit_code, improved, results, baseline>>
      PROVE  ExitInv'
  <2>1. Scope' = Scope /\ \A f : EntryFor(f)' = EntryFor(f)
    BY <1>1 DEF Scope, EntryFor
  <2>. QED  BY <1>1, <2>1 DEF ExitInv, Checked
<1>2. ASSUME NEW m \in Modes, NEW s \in Subdirs, NEW p \in Programs, Start(m, s, p)
      PROVE  ExitInv'
  <2>1. \/ main' = "idle" /\ exit_code' = 2
        \/ main' = "pool" /\ exit_code' = 0
    <3>1. CASE m = "check" /\ ~has_baseline
      <4>1. exit_code' = 2 /\ main' = main
        BY <1>2, <3>1 DEF Start
      <4>2. main = "idle"
        BY <1>2 DEF Start
      <4>. QED  BY <4>1, <4>2
    <3>2. CASE ~(m = "check" /\ ~has_baseline)
      BY <1>2, <3>2 DEF Start
    <3>. QED  BY <3>1, <3>2
  <2>. QED  BY <2>1 DEF ExitInv, Checked
<1>3. CASE Join
  BY <1>3 DEF Join, gateVars, ExitInv, Checked
<1>4. CASE UpdateBaseline \/ PrintReport
  BY <1>4 DEF UpdateBaseline, PrintReport, ExitInv, Checked
<1>5. CASE RunGate
  <2>1. /\ main' = "idle"
        /\ improved' = {f \in Scope : Improved(results[f], EntryFor(f))}
        /\ exit_code' = IF \E f \in Scope : Regressed(results[f], EntryFor(f)) THEN 1 ELSE 0
        /\ UNCHANGED <<files, results, baseline>>
    BY <1>5 DEF RunGate
  <2>2. Scope' = Scope /\ \A f : EntryFor(f)' = EntryFor(f)
    BY <2>1 DEF Scope, EntryFor
  <2>3. /\ exit_code' = 1 <=> \E f \in Scope' : Regressed(results'[f], EntryFor(f)')
        /\ improved' = {f \in Scope' : Improved(results'[f], EntryFor(f)')}
    BY <2>1, <2>2
  <2>. QED  BY <2>1, <2>3 DEF ExitInv
<1>6. ASSUME NEW w \in Workers, Worker(w) PROVE ExitInv'
  <2>1. /\ main' = main /\ (main = "pool" \/ pc[w] # "exited")
        /\ exit_code' = exit_code
    BY <1>6 DEF Worker, Claim, Launch, Reap, Kill, Parse, runVars, gateVars
  <2>2. main = "pool"
    BY <2>1 DEF PoolInv, ExitsInv
  <2>. QED  BY <2>1, <2>2 DEF ExitInv, Checked
<1>7. ASSUME NEW f \in Files, Child(f) PROVE ExitInv'
  BY <1>1, <1>7 DEF Child, RunQuery, ChildExits, runVars, gateVars
<1>8. CASE UNCHANGED vars
  BY <1>1, <1>8 DEF vars, runVars, gateVars
<1>. QED  BY <1>2, <1>3, <1>4, <1>5, <1>6, <1>7, <1>8 DEF Next, Developer, Main

LEMMA VerdictsInit == Init => VInv
<1>. SUFFICES ASSUME Init PROVE VInv
  OBVIOUS
<1>1. TypeOK /\ ResultsInv
  BY TypeInit, ResultsInit
<1>2. LogInv
  BY DEF Init, LogInv
<1>3. CutInv
  BY DEF Init, CutInv
<1>4. ReportInv
  BY DEF Init, ReportInv, Reported, Checked
<1>5. BaseInv
  BY DEF Init, BaseInv, EntryFor
<1>6. ExitInv
  BY DEF Init, ExitInv, Checked
<1>. QED  BY <1>1, <1>2, <1>3, <1>4, <1>5, <1>6 DEF VInv

LEMMA VerdictsStep == VInv /\ [Next]_vars => VInv'
<1>. SUFFICES ASSUME VInv, [Next]_vars PROVE VInv'
  OBVIOUS
<1>1. TypeOK /\ PoolInv /\ ResultsInv /\ LogInv /\ CutInv /\ ReportInv /\ BaseInv /\ ExitInv
  BY DEF VInv, ResultsInv
<1>2. TypeOK' /\ ResultsInv'
  BY <1>1, TypeStep, ResultsStep
<1>3. LogInv' /\ CutInv'
  BY <1>1, LogStep, CutStep
<1>4. ReportInv' /\ BaseInv' /\ ExitInv'
  BY <1>1, ReportStep, BaseStep, ExitStep
<1>. QED  BY <1>2, <1>3, <1>4 DEF VInv

LEMMA VerdictsInvariant == Spec => []VInv
BY VerdictsInit, VerdictsStep, PTL DEF Spec

------------------------------------------------------------------------------
(* What one set of queries reported says when compared with another.       *)

\* A report of part of a smaller set is not above one of the whole of a larger set.
LEMMA NotAbove ==
    ASSUME NEW B, NEW B0, NEW rc, NEW ri, NEW bc, NEW bi,
           Reports(rc, ri, B, FALSE), Reports(bc, bi, B0, TRUE), B \subseteq B0
    PROVE  ~(rc > bc)
<1>1. PICK S \in SUBSET B : IsFiniteSet(S) /\ rc = Cardinality(S)
  BY DEF Reports
<1>2. IsFiniteSet(B0) /\ bc = Cardinality(B0)
  BY DEF Reports
<1>3. S \in SUBSET B0
  BY <1>1
<1>4. rc <= bc
  BY <1>1, <1>2, <1>3, FS_Subset
<1>5. rc \in Nat /\ bc \in Nat
  BY <1>1, <1>2, FS_CardinalityType
<1>. QED  BY <1>4, <1>5

\* A report of a whole set is not below one of part of a smaller set.
LEMMA NotBelow ==
    ASSUME NEW B, NEW B0, NEW rc, NEW ri, NEW bc, NEW bi,
           Reports(rc, ri, B, TRUE), Reports(bc, bi, B0, FALSE), B0 \subseteq B
    PROVE  ~(rc < bc)
<1>1. IsFiniteSet(B) /\ rc = Cardinality(B)
  BY DEF Reports
<1>2. PICK S \in SUBSET B0 : IsFiniteSet(S) /\ bc = Cardinality(S)
  BY DEF Reports
<1>3. S \in SUBSET B
  BY <1>2
<1>4. bc <= rc
  BY <1>1, <1>2, <1>3, FS_Subset
<1>5. rc \in Nat /\ bc \in Nat
  BY <1>1, <1>2, FS_CardinalityType
<1>. QED  BY <1>4, <1>5

\* What the baseline says of the queries it was written from.
LEMMA BaselineReports ==
    ASSUME BaseInv, NEW f \in Files
    PROVE  /\ Reports(EntryFor(f).wrong, EntryFor(f).wrong_idx,
                      BadInBase(f, "WRONG"), f \notin base.cut)
           /\ Reports(EntryFor(f).fail, EntryFor(f).fail_idx,
                      BadInBase(f, "FAIL"), f \notin base.cut)
<1>1. CASE f \in base.files
  BY <1>1 DEF BaseInv, ReportsFile, BadInBase
<1>2. CASE f \notin base.files
  <2>1. /\ EntryFor(f).wrong = 0 /\ EntryFor(f).wrong_idx = {}
        /\ EntryFor(f).fail = 0 /\ EntryFor(f).fail_idx = {}
    BY <1>2 DEF BaseInv, NoEntry
  <2>2. BadInBase(f, "WRONG") = {} /\ BadInBase(f, "FAIL") = {}
    BY <1>2 DEF BadInBase
  <2>3. ASSUME NEW complete PROVE Reports(0, {}, {}, complete)
    <3>1. {} \in SUBSET {} /\ IsFiniteSet({}) /\ Cardinality({}) = 0 /\ Indexed({}) = {}
      BY FS_EmptySet DEF Indexed
    <3>. QED  BY <3>1 DEF Reports
  <2>. QED  BY <2>1, <2>2, <2>3
<1>. QED  BY <1>1, <1>2

\* What the results of a check report.
LEMMA CheckReports ==
    ASSUME VInv, Checked, NEW f \in Scope
    PROVE  /\ f \in Files
           /\ Reports(results[f].wrong, results[f].wrong_idx, Bad(program, f, "WRONG"), f \notin cut)
           /\ Reports(results[f].fail, results[f].fail_idx, Bad(program, f, "FAIL"), f \notin cut)
<1>1. f \in Files
  BY ScopeTyped DEF VInv
<1>2. ReportsFile(results[f], program, f, f \notin cut)
  BY DEF VInv, ReportInv, Reported
<1>. QED  BY <1>1, <1>2 DEF ReportsFile

\* A file that gained no verdict has not regressed, if the baseline knows all of it.
LEMMA UngainedIsNotRegressed ==
    ASSUME VInv, Checked, NEW f \in Scope, f \notin base.cut, ~Gained(f)
    PROVE  ~Regressed(results[f], EntryFor(f))
<1>1. /\ Bad(program, f, "WRONG") \subseteq BadInBase(f, "WRONG")
      /\ Bad(program, f, "FAIL") \subseteq BadInBase(f, "FAIL")
  BY DEF Gained, Gated
<1>2. /\ Reports(EntryFor(f).wrong, EntryFor(f).wrong_idx, BadInBase(f, "WRONG"), TRUE)
      /\ Reports(EntryFor(f).fail, EntryFor(f).fail_idx, BadInBase(f, "FAIL"), TRUE)
  BY CheckReports, BaselineReports DEF VInv
<1>3. /\ Reports(results[f].wrong, results[f].wrong_idx, Bad(program, f, "WRONG"), FALSE)
      /\ Reports(results[f].fail, results[f].fail_idx, Bad(program, f, "FAIL"), FALSE)
  BY CheckReports DEF Reports
<1>4. ~(results[f].wrong > EntryFor(f).wrong)
  BY <1>1, <1>2, <1>3, NotAbove
<1>5. ~(results[f].fail > EntryFor(f).fail)
  BY <1>1, <1>2, <1>3, NotAbove
<1>6. /\ results[f].wrong_idx \subseteq Indexed(Bad(program, f, "WRONG"))
      /\ results[f].fail_idx \subseteq Indexed(Bad(program, f, "FAIL"))
      /\ EntryFor(f).wrong_idx = Indexed(BadInBase(f, "WRONG"))
      /\ EntryFor(f).fail_idx = Indexed(BadInBase(f, "FAIL"))
  BY <1>2, <1>3 DEF Reports, Indexed
<1>7. /\ results[f].wrong_idx \subseteq EntryFor(f).wrong_idx
      /\ results[f].fail_idx \subseteq EntryFor(f).fail_idx
  BY <1>1, <1>6 DEF Indexed
<1>. QED  BY <1>4, <1>5, <1>7 DEF Regressed

\* For any builds, files, workers and runs: when a check fails, a query has a WRONG or FAIL
\* verdict it did not have when the baseline was written, or the run that wrote the baseline
\* was cut short on some file of this one.  (RunGate, UpdateBaseline)
THEOREM AlarmsAreReal == Spec => []AlarmsReal
<1>1. VInv => AlarmsReal
  <2>. SUFFICES ASSUME VInv, Checked, exit_code = 1
                PROVE  \E f \in Scope : f \in base.cut \/ Gained(f)
    BY DEF AlarmsReal
  <2>1. PICK f \in Scope : Regressed(results[f], EntryFor(f))
    BY DEF VInv, ExitInv
  <2>. QED  BY <2>1, UngainedIsNotRegressed
<1>. QED  BY <1>1, VerdictsInvariant, PTL

\* For any builds, files, workers and runs: when a check passes, no query of a file that ran
\* to its end gained a WRONG or FAIL verdict, if the file uses one connection: an index then
\* names one query, and queries that were fixed do not make up for it.
THEOREM GainsAreReported == Spec => []GainsReported
<1>1. VInv => GainsReported
  <2>. SUFFICES ASSUME VInv, Checked, exit_code = 0, NEW f \in Scope, f \notin cut,
                       OneConnection(f), Gained(f)
                PROVE  FALSE
    BY DEF GainsReported
  <2>1. ~Regressed(results[f], EntryFor(f))
    BY DEF VInv, ExitInv
  <2>2. PICK status \in Gated : Bad(program, f, status) \ BadInBase(f, status) # {}
    BY DEF Gained
  <2>3. PICK x \in Bad(program, f, status) : x \notin BadInBase(f, status)
    BY <2>2
  <2>4. /\ results[f].wrong_idx \ EntryFor(f).wrong_idx = {}
        /\ results[f].fail_idx \ EntryFor(f).fail_idx = {}
    BY <2>1 DEF Regressed
  <2>5. f \in Files
    BY CheckReports
  <2>6. \E y \in BadInBase(f, status) : y[2] = x[2]
    <3>1. CASE status = "WRONG"
      <4>1. results[f].wrong_idx = Indexed(Bad(program, f, status))
        BY <3>1, CheckReports DEF Reports
      <4>2. EntryFor(f).wrong_idx \subseteq Indexed(BadInBase(f, status))
        BY <3>1, <2>5, BaselineReports DEF VInv, Reports, Indexed
      <4>. QED  BY <2>4, <4>1, <4>2 DEF Indexed
    <3>2. CASE status = "FAIL"
      <4>1. results[f].fail_idx = Indexed(Bad(program, f, status))
        BY <3>2, CheckReports DEF Reports
      <4>2. EntryFor(f).fail_idx \subseteq Indexed(BadInBase(f, status))
        BY <3>2, <2>5, BaselineReports DEF VInv, Reports, Indexed
      <4>. QED  BY <2>4, <4>1, <4>2 DEF Indexed
    <3>. QED  BY <3>1, <3>2 DEF Gated
  <2>7. PICK y \in BadInBase(f, status) : y[2] = x[2]
    BY <2>6
  <2>8. /\ program \in Programs /\ base.program \in Programs
        /\ y \in Bad(base.program, f, status)
    BY <2>7 DEF VInv, TypeOK, BadInBase
  <2>9. PICK c \in Conns : \E k \in 1..Len(program[f].queries[c]) : x = <<c, k>>
    BY <2>3, <2>5, <2>8, ProgramTyped, BadMembers
  <2>10. PICK d \in Conns : \E k \in 1..Len(base.program[f].queries[d]) : y = <<d, k>>
    BY <2>5, <2>8, ProgramTyped, BadMembers
  <2>11. /\ program[f].queries[c] # << >> /\ program[f].queries[d] # << >>
    <3>1. Len(program[f].queries[d]) = Len(base.program[f].queries[d])
      BY <2>5, <2>8, ProgramsAssumption
    <3>2. Len(program[f].queries[c]) # 0 /\ Len(program[f].queries[d]) # 0
      BY <3>1, <2>5, <2>8, <2>9, <2>10, ProgramTyped
    <3>. QED  BY <3>2
  <2>12. c = d
    BY <2>11 DEF OneConnection
  <2>13. x = y
    BY <2>7, <2>9, <2>10, <2>12
  <2>. QED  BY <2>3, <2>7, <2>13
<1>. QED  BY <1>1, VerdictsInvariant, PTL

\* For any builds, files, workers and runs: a file that ran to its end is called improved only
\* when a query of it lost the WRONG or FAIL verdict it had in the baseline.
THEOREM ImprovementsAreReal == Spec => []ImprovementsReal
<1>1. VInv => ImprovementsReal
  <2>. SUFFICES ASSUME VInv, Checked, NEW f \in improved, f \notin cut,
                       \A status \in Gated : BadInBase(f, status) \ Bad(program, f, status) = {}
                PROVE  FALSE
    BY DEF ImprovementsReal
  <2>1. f \in Scope /\ Improved(results[f], EntryFor(f))
    BY DEF VInv, ExitInv
  <2>2. /\ BadInBase(f, "WRONG") \subseteq Bad(program, f, "WRONG")
        /\ BadInBase(f, "FAIL") \subseteq Bad(program, f, "FAIL")
    BY DEF Gated
  <2>3. /\ Reports(results[f].wrong, results[f].wrong_idx, Bad(program, f, "WRONG"), TRUE)
        /\ Reports(results[f].fail, results[f].fail_idx, Bad(program, f, "FAIL"), TRUE)
        /\ f \in Files
    BY <2>1, CheckReports
  <2>4. /\ Reports(EntryFor(f).wrong, EntryFor(f).wrong_idx,
                   BadInBase(f, "WRONG"), FALSE)
        /\ Reports(EntryFor(f).fail, EntryFor(f).fail_idx,
                   BadInBase(f, "FAIL"), FALSE)
    BY <2>3, BaselineReports DEF VInv, Reports
  <2>5. ~(results[f].wrong < EntryFor(f).wrong)
    BY <2>2, <2>3, <2>4, NotBelow
  <2>6. ~(results[f].fail < EntryFor(f).fail)
    BY <2>2, <2>3, <2>4, NotBelow
  <2>. QED  BY <2>1, <2>5, <2>6 DEF Improved
<1>. QED  BY <1>1, VerdictsInvariant, PTL

==============================================================================
