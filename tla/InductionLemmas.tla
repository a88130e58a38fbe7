-------------------------- MODULE InductionLemmas --------------------------
(***************************************************************************)
(* Induction over the natural numbers, from the library's theorem about    *)
(* least elements, and what it shows of the folds and functions that the   *)
(* models are built from.                                                  *)
(***************************************************************************)
EXTENDS Naturals, Sequences, SequencesExt, WellFoundedInduction, TLAPS

\* Every set of naturals that has an element has a least one.
LEMMA LeastNumber ==
    ASSUME NEW T, T \subseteq Nat, T # {}
    PROVE  \E n \in T : \A m \in T : n <= m
<1>. DEFINE R == {ss \in Nat \X Nat : ss[1] < ss[2]}
<1>1. IsWellFoundedOn(R, Nat)
  BY NatLessThanWellFounded, Zenon DEF OpToRel
<1>2. \A m, n \in Nat : m < n => <<m, n>> \in R
  OBVIOUS
<1>. HIDE DEF R
<1>3. \E x \in T : \A y \in T : ~ (<<y, x>> \in R)
  BY <1>1, WFMin
<1>4. PICK x \in T : \A y \in T : ~ (<<y, x>> \in R)
  BY <1>3
<1>5. \A y \in T : y \in Nat /\ x \in Nat /\ ~(y < x)
  BY <1>2, <1>4
<1>6. \A y \in T : x <= y
  BY <1>5
<1>. QED  BY <1>6

\* A set of numbers up to n that has an element has a greatest one.
LEMMA LastOne ==
    ASSUME NEW n \in Nat, NEW T, T \subseteq 1..n, T # {}
    PROVE  \E k \in T : \A j \in T : j <= k
<1>. DEFINE U == {m \in Nat : \E i \in T : m = n - i}
<1>1. U \subseteq Nat
  OBVIOUS
<1>2. U # {}
  <2>1. PICK i \in T : TRUE
    OBVIOUS
  <2>2. n - i \in Nat
    OBVIOUS
  <2>3. n - i \in U
    BY <2>2
  <2>. QED  BY <2>3
<1>3. PICK m \in U : \A l \in U : m <= l
  <2>. HIDE DEF U
  <2>. QED  BY <1>1, <1>2, LeastNumber
<1>4. PICK k \in T : m = n - k
  OBVIOUS
<1>5. ASSUME NEW j \in T PROVE j <= k
  <2>1. n - j \in U
    OBVIOUS
  <2>2. m <= n - j
    BY <2>1, <1>3
  <2>3. j \in 1..n /\ k \in 1..n
    OBVIOUS
  <2>. QED  BY <2>2, <2>3, <1>4
<1>. QED  BY <1>5

\* Induction, for a set where the library has an operator.
LEMMA InductionOnNat ==
    ASSUME NEW T, 0 \in T, \A n \in Nat : n \in T => n + 1 \in T
    PROVE  Nat \subseteq T
<1>1. SUFFICES ASSUME Nat \ T # {} PROVE FALSE
  OBVIOUS
<1>2. PICK n \in Nat \ T : \A m \in Nat \ T : n <= m
  <2>. DEFINE U == Nat \ T
  <2>1. U \subseteq Nat /\ U # {}
    BY <1>1
  <2>. HIDE DEF U
  <2>2. \E n \in U : \A m \in U : n <= m
    BY <2>1, LeastNumber
  <2>. QED  BY <2>2 DEF U
<1>3. n # 0 /\ n - 1 \in Nat
  BY <1>2
<1>4. n - 1 \in T
  BY <1>2, <1>3
<1>. QED  BY <1>2, <1>3, <1>4

\* A function defined by what its first value is and how each follows from the one before exists.
LEMMA Recursion ==
    ASSUME NEW S, NEW first \in S, NEW n \in Nat, NEW step \in [1..n -> [S -> S]]
    PROVE  \E f \in [0..n -> S] : f[0] = first /\ \A k \in 1..n : f[k] = step[k][f[k - 1]]
<1>. DEFINE P(m) == m <= n => \E f \in [0..m -> S] : f[0] = first /\ \A k \in 1..m : f[k] = step[k][f[k - 1]]
            T == {m \in Nat : P(m)}
<1>1. 0 \in T
  <2>1. [k \in 0..0 |-> first] \in [0..0 -> S] /\ [k \in 0..0 |-> first][0] = first
    OBVIOUS
  <2>2. \A k \in 1..0 : FALSE
    OBVIOUS
  <2>. QED  BY <2>1, <2>2
<1>2. ASSUME NEW m \in Nat, m \in T PROVE m + 1 \in T
  <2>1. SUFFICES ASSUME m + 1 <= n
                 PROVE  \E f \in [0..(m + 1) -> S] : f[0] = first /\ \A k \in 1..(m + 1) : f[k] = step[k][f[k - 1]]
    OBVIOUS
  <2>2. PICK f \in [0..m -> S] : f[0] = first /\ \A k \in 1..m : f[k] = step[k][f[k - 1]]
    BY <1>2, <2>1
  <2>3. PICK last \in S : last = step[m + 1][f[m]]
    <3>1. f[m] \in S /\ m + 1 \in 1..n
      BY <2>1, <2>2
    <3>2. step[m + 1] \in [S -> S]
      BY <3>1
    <3>. QED  BY <3>1, <3>2
  <2>4. PICK g : g = [k \in 0..(m + 1) |-> IF k = m + 1 THEN last ELSE f[k]]
    OBVIOUS
  <2>5. \A k \in 0..(m + 1) : (IF k = m + 1 THEN last ELSE f[k]) \in S
    BY <2>2, <2>3
  <2>6. g \in [0..(m + 1) -> S] /\ g[0] = first /\ g[m + 1] = last /\ \A k \in 0..m : g[k] = f[k]
    BY <2>2, <2>4, <2>5
  <2>7. ASSUME NEW k \in 1..(m + 1) PROVE g[k] = step[k][g[k - 1]]
    <3>1. k - 1 \in 0..m /\ g[k - 1] = f[k - 1]
      BY <2>6
    <3>2. CASE k = m + 1
      BY <2>3, <2>6, <3>1, <3>2
    <3>3. CASE k # m + 1
      <4>1. k \in 1..m /\ k \in 0..m
        BY <3>3
      <4>. QED  BY <2>2, <2>6, <3>1, <4>1
    <3>. QED  BY <3>2, <3>3
  <2>. QED  BY <2>6, <2>7
<1>. HIDE DEF T
<1>3. Nat \subseteq T
  BY <1>1, <1>2, InductionOnNat
<1>. QED  BY <1>3 DEF T

\* The same, by name.
Steps(step, n, S) == step \in [1..n -> [S -> S]]
Follows(f, n, S, first, step) ==
    f \in [0..n -> S] /\ f[0] = first /\ \A k \in 1..n : f[k] = step[k][f[k - 1]]

LEMMA RecursiveFunction ==
    ASSUME NEW S, NEW first \in S, NEW n \in Nat, NEW step, Steps(step, n, S)
    PROVE  \E f : Follows(f, n, S, first, step)
<1>1. step \in [1..n -> [S -> S]]
  BY DEF Steps
<1>2. PICK f \in [0..n -> S] : f[0] = first /\ \A k \in 1..n : f[k] = step[k][f[k - 1]]
  BY <1>1, Recursion
<1>3. Follows(f, n, S, first, step)
  BY <1>2 DEF Follows
<1>. QED  BY <1>3

\* A function defined by how each value follows from all before it exists.
Histories(step, n, S) == step \in [1..n -> [Seq(S) -> S]]
FollowsAll(f, n, S, step) ==
    f \in [1..n -> S] /\ \A k \in 1..n : f[k] = step[k][[j \in 1..(k - 1) |-> f[j]]]

LEMMA CourseOfValues ==
    ASSUME NEW S, NEW n \in Nat, NEW step, Histories(step, n, S)
    PROVE  \E f : FollowsAll(f, n, S, step)
<1>0. step \in [1..n -> [Seq(S) -> S]]
  BY DEF Histories
<1>. DEFINE P(m) == m <= n => \E f \in [1..m -> S] : \A k \in 1..m : f[k] = step[k][[j \in 1..(k - 1) |-> f[j]]]
            T == {m \in Nat : P(m)}
<1>1. 0 \in T
  <2>1. [k \in 1..0 |-> 0] \in [1..0 -> S] /\ \A k \in 1..0 : FALSE
    OBVIOUS
  <2>. QED  BY <2>1
<1>2. ASSUME NEW m \in Nat, m \in T PROVE m + 1 \in T
  <2>1. SUFFICES ASSUME m + 1 <= n
                 PROVE  \E f \in [1..(m + 1) -> S] :
                            \A k \in 1..(m + 1) : f[k] = step[k][[j \in 1..(k - 1) |-> f[j]]]
    OBVIOUS
  <2>2. PICK f \in [1..m -> S] : \A k \in 1..m : f[k] = step[k][[j \in 1..(k - 1) |-> f[j]]]
    BY <1>2, <2>1
  <2>3. PICK last \in S : last = step[m + 1][[j \in 1..m |-> f[j]]]
    <3>1. [j \in 1..m |-> f[j]] \in Seq(S)
      BY <2>2
    <3>2. m + 1 \in 1..n /\ step[m + 1] \in [Seq(S) -> S]
      BY <1>0, <2>1
    <3>. QED  BY <3>1, <3>2
  <2>4. PICK g : g = [k \in 1..(m + 1) |-> IF k = m + 1 THEN last ELSE f[k]]
    OBVIOUS
  <2>5. \A k \in 1..(m + 1) : (IF k = m + 1 THEN last ELSE f[k]) \in S
    BY <2>2, <2>3
  <2>6. g \in [1..(m + 1) -> S] /\ g[m + 1] = last /\ \A k \in 1..m : g[k] = f[k]
    BY <2>2, <2>4, <2>5
  <2>7. ASSUME NEW k \in 1..(m + 1) PROVE g[k] = step[k][[j \in 1..(k - 1) |-> g[j]]]
    <3>1. [j \in 1..(k - 1) |-> g[j]] = [j \in 1..(k - 1) |-> f[j]]
      <4>1. \A j \in 1..(k - 1) : g[j] = f[j]
        BY <2>6
      <4>. QED  BY <4>1
    <3>2. CASE k = m + 1
      <4>1. k - 1 = m
        BY <3>2
      <4>. QED  BY <2>3, <2>6, <3>1, <3>2, <4>1
    <3>3. CASE k # m + 1
      <4>1. k \in 1..m
        BY <3>3
      <4>2. f[k] = step[k][[j \in 1..(k - 1) |-> f[j]]]
        BY <2>2, <4>1
      <4>. QED  BY <2>6, <3>1, <4>1, <4>2
    <3>. QED  BY <3>2, <3>3
  <2>. QED  BY <2>6, <2>7
<1>. HIDE DEF T
<1>3. Nat \subseteq T
  BY <1>1, <1>2, InductionOnNat
<1>. HIDE DEF P
<1>4. P(n)
  BY <1>3 DEF T
<1>5. n <= n
  OBVIOUS
<1>6. PICK f \in [1..n -> S] : \A k \in 1..n : f[k] = step[k][[j \in 1..(k - 1) |-> f[j]]]
  BY <1>4, <1>5 DEF P
<1>7. FollowsAll(f, n, S, step)
  BY <1>6 DEF FollowsAll
<1>. QED  BY <1>7

-----------------------------------------------------------------------------
\* The recursion of FlattenSeq.
Concatenates(f, seqs, n) ==
    f = [i \in 1..n |-> IF i = 1 THEN seqs[i] ELSE f[i-1] \o seqs[i]]

\* One step of it.
LEMMA Unfolds ==
    ASSUME NEW f, NEW seqs, NEW n \in Nat, Concatenates(f, seqs, n), NEW i \in 1..n
    PROVE  f[i] = IF i = 1 THEN seqs[i] ELSE f[i-1] \o seqs[i]
<1>. DEFINE e(j) == IF j = 1 THEN seqs[j] ELSE f[j-1] \o seqs[j]
<1>1. f = [j \in 1..n |-> e(j)]
  BY DEF Concatenates
<1>. HIDE DEF e
<1>2. f[i] = e(i)
  BY <1>1
<1>. QED  BY <1>2 DEF e

\* It defines a function.
LEMMA FlattenExists ==
    ASSUME NEW S, NEW seqs \in Seq(Seq(S))
    PROVE  \A n \in Nat : n <= Len(seqs) =>
              \E f \in [1..n -> Seq(S)] : Concatenates(f, seqs, n)
<1>. DEFINE P(n) == n <= Len(seqs) => \E f \in [1..n -> Seq(S)] : Concatenates(f, seqs, n)
            T == {n \in Nat : P(n)}
<1>1. 0 \in T
  <2>1. [i \in 1..0 |-> << >>] \in [1..0 -> Seq(S)]
    OBVIOUS
  <2>2. Concatenates([i \in 1..0 |-> << >>], seqs, 0)
    BY DEF Concatenates
  <2>. QED  BY <2>1, <2>2
<1>2. ASSUME NEW n \in Nat, n \in T PROVE n + 1 \in T
  <2>1. SUFFICES ASSUME n + 1 <= Len(seqs)
                 PROVE  \E f \in [1..(n + 1) -> Seq(S)] : Concatenates(f, seqs, n + 1)
    OBVIOUS
  <2>2. n <= Len(seqs)
    BY <2>1
  <2>3. PICK f \in [1..n -> Seq(S)] : Concatenates(f, seqs, n)
    BY <1>2, <2>2
  <2>4. PICK last \in Seq(S) : last = IF n + 1 = 1 THEN seqs[n + 1] ELSE f[n] \o seqs[n + 1]
    <3>1. seqs[n + 1] \in Seq(S)
      BY <2>1
    <3>2. n # 0 => f[n] \in Seq(S)
      BY <2>3
    <3>3. CASE n = 0
      BY <3>1, <3>3
    <3>4. CASE n # 0
      <4>1. f[n] \o seqs[n + 1] \in Seq(S)
        BY <3>1, <3>2, <3>4
      <4>2. n + 1 # 1
        BY <3>4
      <4>. QED  BY <4>1, <4>2
    <3>. QED  BY <3>3, <3>4
  <2>5. PICK g \in [1..(n + 1) -> Seq(S)] :
               \A i \in 1..(n + 1) : g[i] = IF i = n + 1 THEN last ELSE f[i]
    <3>1. \A i \in 1..(n + 1) : (IF i = n + 1 THEN last ELSE f[i]) \in Seq(S)
      BY <2>3, <2>4
    <3>2. PICK g : g = [i \in 1..(n + 1) |-> IF i = n + 1 THEN last ELSE f[i]]
      OBVIOUS
    <3>3. \A i \in 1..(n + 1) : g[i] = IF i = n + 1 THEN last ELSE f[i]
      BY <3>2
    <3>4. g \in [1..(n + 1) -> Seq(S)]
      BY <3>1, <3>2
    <3>. QED  BY <3>3, <3>4, Zenon
  <2>6. ASSUME NEW i \in 1..(n + 1)
        PROVE  g[i] = IF i = 1 THEN seqs[i] ELSE g[i-1] \o seqs[i]
    <3>1. CASE i = n + 1
      <4>1. i # 1 => i - 1 \in 1..n /\ g[i-1] = f[n]
        BY <3>1, <2>5
      <4>. QED  BY <3>1, <4>1, <2>4, <2>5
    <3>2. CASE i # n + 1
      <4>1. i \in 1..n /\ g[i] = f[i]
        BY <3>2, <2>5
      <4>2. f[i] = IF i = 1 THEN seqs[i] ELSE f[i-1] \o seqs[i]
        BY <4>1, <2>3 DEF Concatenates
      <4>3. i # 1 => i - 1 \in 1..n /\ g[i-1] = f[i-1]
        BY <4>1, <2>5
      <4>. QED  BY <4>1, <4>2, <4>3
    <3>. QED  BY <3>1, <3>2
  <2>7. Concatenates(g, seqs, n + 1)
    BY <2>5, <2>6 DEF Concatenates
  <2>. QED  BY <2>7
<1>. HIDE DEF T
<1>3. Nat \subseteq T
  BY <1>1, <1>2, InductionOnNat
<1>. QED  BY <1>3 DEF T

\* Sequences over a set, concatenated, are a sequence over it.
LEMMA FlattenTyped ==
    ASSUME NEW S, NEW seqs \in Seq(Seq(S))
    PROVE  FlattenSeq(seqs) \in Seq(S)
<1>1. CASE Len(seqs) = 0
  BY <1>1 DEF FlattenSeq
<1>2. CASE Len(seqs) # 0
  <2>. DEFINE flatten == CHOOSE f : Concatenates(f, seqs, Len(seqs))
  <2>1. FlattenSeq(seqs) = flatten[Len(seqs)]
    BY <1>2 DEF FlattenSeq, Concatenates
  <2>2. Concatenates(flatten, seqs, Len(seqs))
    BY FlattenExists
  <2>. HIDE DEF flatten
  <2>. DEFINE P(n) == n <= Len(seqs) /\ n # 0 => flatten[n] \in Seq(S)
              T == {n \in Nat : P(n)}
  <2>3. 0 \in T
    OBVIOUS
  <2>4. ASSUME NEW n \in Nat, n \in T PROVE n + 1 \in T
    <3>1. SUFFICES ASSUME n + 1 <= Len(seqs)
                   PROVE  flatten[n + 1] \in Seq(S)
      OBVIOUS
    <3>2. flatten[n + 1] = IF n + 1 = 1 THEN seqs[n + 1] ELSE flatten[n] \o seqs[n + 1]
      <4>1. n + 1 \in 1..Len(seqs) /\ Len(seqs) \in Nat
        BY <3>1
      <4>2. flatten[n + 1] = IF n + 1 = 1 THEN seqs[n + 1] ELSE flatten[n + 1 - 1] \o seqs[n + 1]
        BY <2>2, <4>1, Unfolds
      <4>. QED  BY <4>2
    <3>3. seqs[n + 1] \in Seq(S)
      BY <3>1
    <3>4. n # 0 => flatten[n] \in Seq(S)
      BY <2>4, <3>1
    <3>. QED  BY <3>2, <3>3, <3>4
  <2>. HIDE DEF T
  <2>5. Nat \subseteq T
    BY <2>3, <2>4, InductionOnNat
  <2>6. Len(seqs) \in Nat
    OBVIOUS
  <2>. QED  BY <1>2, <2>1, <2>5, <2>6 DEF T
<1>. QED  BY <1>1, <1>2
=============================================================================
