----------------------------- MODULE Text_proofs -----------------------------
(***************************************************************************)
(* Proofs about the text LPTS prints.  Of CteText, for a list of CTEs of   *)
(* any length over any tables: no definition of the text runs twice, and   *)
(* no chain of inlined definitions gets deeper than the bound.  Of         *)
(* JoinText: the text of every join returns the rows of the plan's         *)
(* operator, for tables of any size and width, any values and any lists of *)
(* conditions.                                                             *)
(*                                                                         *)
(* The invariant of CteText (TextInv) follows a list through its passes.   *)
(* As listed, every CTE that is not the body of a materialized one is read *)
(* once at most, and by a later one (ListOk); as prepared, an entry is     *)
(* such a node or reads a shared producer (PreparedOk); once pruned, who   *)
(* is neither materialized nor shared is read once (CountedOk); after the  *)
(* count, who is not materialized is (SharedOk); and after the boundaries  *)
(* there are depths that stay below the bound and grow from what is        *)
(* inlined to what it is inlined into (DepthOk).                           *)
(***************************************************************************)
EXTENDS CteTextMeaning, JoinText, InductionLemmas, FiniteSetTheorems, TLAPS

-----------------------------------------------------------------------------
(* Totals.                                                                 *)

\* The recursion of Total.
Sums(s, counts) == s = [k \in 0..Len(counts) |-> IF k = 0 THEN 0 ELSE s[k - 1] + counts[k]]

\* A partial sum, one step back.
LEMMA SumsUnfold ==
    ASSUME NEW s, NEW counts, Sums(s, counts), NEW k \in 0..Len(counts)
    PROVE  s[k] = IF k = 0 THEN 0 ELSE s[k - 1] + counts[k]
<1>. DEFINE e(j) == IF j = 0 THEN 0 ELSE s[j - 1] + counts[j]
<1>1. s = [j \in 0..Len(counts) |-> e(j)]
  BY DEF Sums
<1>. HIDE DEF e
<1>2. s[k] = e(k)
  BY <1>1
<1>. QED  BY <1>2 DEF e

\* There are partial sums.
LEMMA SumsExist ==
    ASSUME NEW counts \in Seq(Nat)
    PROVE  \E s : Sums(s, counts)
<1>0. PICK n \in Nat : n = Len(counts)
  OBVIOUS
<1>1. PICK step : step = [k \in 1..n |-> [t \in Nat |-> t + counts[k]]]
  OBVIOUS
<1>2. \A k \in 1..n : counts[k] \in Nat
  BY <1>0
<1>3. Steps(step, n, Nat)
  <2>1. \A k \in 1..n : [t \in Nat |-> t + counts[k]] \in [Nat -> Nat]
    BY <1>2
  <2>. QED  BY <1>1, <2>1 DEF Steps
<1>4. PICK f \in [0..n -> Nat] : f[0] = 0 /\ \A k \in 1..n : f[k] = step[k][f[k - 1]]
  <2>1. 0 \in Nat
    OBVIOUS
  <2>2. PICK f : Follows(f, n, Nat, 0, step)
    BY <1>3, <2>1, RecursiveFunction, Zenon
  <2>. QED  BY <2>2 DEF Follows
<1>5. \A k \in 0..n : f[k] = IF k = 0 THEN 0 ELSE f[k - 1] + counts[k]
  <2>1. ASSUME NEW k \in 1..n PROVE f[k] = f[k - 1] + counts[k]
    <3>1. k - 1 \in 0..n /\ f[k - 1] \in Nat
      BY <1>4
    <3>. QED  BY <1>1, <1>4, <3>1
  <2>2. \A k \in 0..n : k # 0 => k \in 1..n
    OBVIOUS
  <2>. QED  BY <1>4, <2>1, <2>2
<1>6. Sums(f, counts)
  BY <1>0, <1>4, <1>5 DEF Sums
<1>. QED  BY <1>6

\* The partial sums of counts, of which the last is the total.
Partial(s, counts) ==
    /\ s \in [0..Len(counts) -> Nat] /\ s[0] = 0 /\ s[Len(counts)] = Total(counts)
    /\ \A k \in 1..Len(counts) : k - 1 \in 0..Len(counts) /\ s[k] = s[k - 1] + counts[k]

\* Total is the last of them.
LEMMA TotalIs ==
    ASSUME NEW counts \in Seq(Nat)
    PROVE  \E s : Partial(s, counts)
<1>. DEFINE sums == CHOOSE s : Sums(s, counts)
<1>1. Total(counts) = sums[Len(counts)]
  BY DEF Total, Sums
<1>2. Sums(sums, counts)
  BY SumsExist
<1>. HIDE DEF sums
<1>0. PICK n \in Nat : n = Len(counts)
  OBVIOUS
<1>3. \A k \in 0..n : sums[k] = IF k = 0 THEN 0 ELSE sums[k - 1] + counts[k]
  BY <1>0, <1>2, SumsUnfold
<1>. DEFINE T == {k \in Nat : k <= n => sums[k] \in Nat}
<1>4. 0 \in T
  BY <1>3
<1>5. ASSUME NEW k \in Nat, k \in T PROVE k + 1 \in T
  <2>1. SUFFICES ASSUME k + 1 <= n PROVE sums[k + 1] \in Nat
    OBVIOUS
  <2>2. k + 1 \in 0..n /\ k + 1 # 0 /\ k + 1 \in 1..n /\ k + 1 - 1 = k
    BY <2>1
  <2>3. sums[k + 1] = sums[k] + counts[k + 1]
    BY <1>3, <2>2
  <2>4. sums[k] \in Nat /\ counts[k + 1] \in Nat
    BY <1>0, <1>5, <2>1, <2>2
  <2>. QED  BY <2>3, <2>4
<1>. HIDE DEF T
<1>6. Nat \subseteq T
  BY <1>4, <1>5, InductionOnNat
<1>7. \A k \in 0..n : sums[k] \in Nat
  <2>1. ASSUME NEW k \in 0..n PROVE sums[k] \in Nat
    <3>1. k \in T /\ k <= n
      BY <1>6
    <3>. QED  BY <3>1 DEF T
  <2>. QED  BY <2>1
<1>8. DOMAIN sums = 0..n /\ sums = [k \in 0..n |-> sums[k]]
  BY <1>0, <1>2 DEF Sums
<1>9. sums \in [0..n -> Nat]
  BY <1>7, <1>8
<1>10. \A k \in 1..n : k \in 0..n /\ k # 0 /\ k - 1 \in 0..n
  OBVIOUS
<1>11. sums[0] = 0 /\ \A k \in 1..n : k - 1 \in 0..n /\ sums[k] = sums[k - 1] + counts[k]
  BY <1>3, <1>10
<1>. QED  BY <1>0, <1>1, <1>9, <1>11 DEF Partial

\* A total is a number.
LEMMA TotalTyped ==
    ASSUME NEW counts \in Seq(Nat)
    PROVE  Total(counts) \in Nat
<1>1. PICK s : Partial(s, counts)
  BY TotalIs
<1>2. Len(counts) \in 0..Len(counts)
  OBVIOUS
<1>. QED  BY <1>1, <1>2 DEF Partial

\* Partial sums do not decrease.
LEMMA PartialGrows ==
    ASSUME NEW counts \in Seq(Nat), NEW s, Partial(s, counts), NEW a \in 0..Len(counts)
    PROVE  \A b \in a..Len(counts) : s[a] <= s[b]
<1>0. PICK n \in Nat : n = Len(counts)
  OBVIOUS
<1>. DEFINE T == {d \in Nat : a + d <= n => s[a] <= s[a + d]}
<1>1. s \in [0..n -> Nat] /\ \A k \in 1..n : s[k] = s[k - 1] + counts[k]
  BY <1>0 DEF Partial
<1>2. 0 \in T
  BY <1>0, <1>1
<1>3. ASSUME NEW d \in Nat, d \in T PROVE d + 1 \in T
  <2>1. SUFFICES ASSUME a + (d + 1) <= n PROVE s[a] <= s[a + (d + 1)]
    OBVIOUS
  <2>2. a + d \in 0..n /\ a + (d + 1) \in 1..n /\ a + (d + 1) - 1 = a + d /\ a \in 0..n
    BY <1>0, <2>1
  <2>3. s[a + (d + 1)] = s[a + d] + counts[a + (d + 1)]
    BY <1>1, <2>2
  <2>4. s[a] \in Nat /\ s[a + d] \in Nat /\ counts[a + (d + 1)] \in Nat
    <3>1. \A k \in 1..n : counts[k] \in Nat
      BY <1>0
    <3>2. \A k \in 0..n : s[k] \in Nat
      BY <1>1
    <3>. QED  BY <2>2, <3>1, <3>2
  <2>5. s[a] <= s[a + d]
    BY <1>3, <2>2
  <2>. QED  BY <2>3, <2>4, <2>5
<1>. HIDE DEF T
<1>4. Nat \subseteq T
  BY <1>2, <1>3, InductionOnNat
<1>5. ASSUME NEW b \in a..Len(counts) PROVE s[a] <= s[b]
  <2>1. b - a \in Nat /\ a + (b - a) = b /\ b <= n
    BY <1>0
  <2>2. b - a \in T
    BY <1>4, <2>1
  <2>. QED  BY <2>1, <2>2 DEF T
<1>. QED  BY <1>5

\* A total is at least any count, and any two.
LEMMA TotalAtLeast ==
    ASSUME NEW counts \in Seq(Nat)
    PROVE  /\ \A k \in 1..Len(counts) : counts[k] <= Total(counts)
           /\ \A j, k \in 1..Len(counts) : j < k => counts[j] + counts[k] <= Total(counts)
<1>1. PICK s : Partial(s, counts)
  BY TotalIs
<1>0. PICK n \in Nat : n = Len(counts)
  OBVIOUS
<1>2. s \in [0..n -> Nat] /\ s[n] = Total(counts)
  BY <1>0, <1>1 DEF Partial
<1>3. ASSUME NEW k \in 1..n
      PROVE  /\ s[k] = s[k - 1] + counts[k] /\ s[k] <= s[n]
             /\ s[k] \in Nat /\ s[k - 1] \in Nat /\ counts[k] \in Nat /\ s[n] \in Nat
  <2>1. k \in 0..n /\ k - 1 \in 0..n /\ n \in k..n
    OBVIOUS
  <2>2. s[k] <= s[n]
    BY <1>0, <1>1, <2>1, PartialGrows
  <2>3. s[k] = s[k - 1] + counts[k]
    BY <1>0, <1>1 DEF Partial
  <2>4. s[k] \in Nat /\ s[k - 1] \in Nat /\ s[n] \in Nat
    BY <1>2, <2>1
  <2>. QED  BY <1>0, <2>2, <2>3, <2>4
<1>4. ASSUME NEW k \in 1..n PROVE counts[k] <= Total(counts)
  BY <1>2, <1>3
<1>5. ASSUME NEW j \in 1..n, NEW k \in 1..n, j < k PROVE counts[j] + counts[k] <= Total(counts)
  <2>1. j \in 0..n /\ k - 1 \in j..n
    BY <1>5
  <2>2. s[j] <= s[k - 1]
    BY <1>0, <1>1, <2>1, PartialGrows
  <2>3. s[j] = s[j - 1] + counts[j] /\ s[j - 1] \in Nat /\ counts[j] \in Nat /\ s[j] \in Nat
    BY <1>3
  <2>4. s[k] = s[k - 1] + counts[k] /\ s[k] <= s[n]
        /\ s[k] \in Nat /\ s[k - 1] \in Nat /\ counts[k] \in Nat /\ s[n] \in Nat
    BY <1>3
  <2>5. counts[j] <= s[j]
    BY <2>3
  <2>6. counts[j] + counts[k] <= s[n]
    <3>1. counts[j] <= s[k - 1]
      BY <2>2, <2>3, <2>4, <2>5
    <3>2. counts[j] + counts[k] <= s[k]
      BY <2>3, <2>4, <3>1
    <3>. QED  BY <2>3, <2>4, <3>2
  <2>. QED  BY <1>2, <2>6
<1>. QED  BY <1>0, <1>4, <1>5

\* If at most one count is not zero, and that is 1, so is the total.
LEMMA TotalAtMostOne ==
    ASSUME NEW counts \in Seq(Nat), \A k \in 1..Len(counts) : counts[k] <= 1,
           \A j, k \in 1..Len(counts) : counts[j] # 0 /\ counts[k] # 0 => j = k
    PROVE  /\ Total(counts) \in {0, 1}
           /\ (\A k \in 1..Len(counts) : counts[k] = 0) => Total(counts) = 0
<1>1. PICK s : Partial(s, counts)
  BY TotalIs
<1>0. PICK n \in Nat : n = Len(counts)
  OBVIOUS
<1>2. /\ s \in [0..n -> Nat] /\ s[0] = 0 /\ s[n] = Total(counts)
      /\ \A k \in 1..n : s[k] = s[k - 1] + counts[k]
  BY <1>0, <1>1 DEF Partial
<1>. DEFINE T == {m \in Nat : m <= n => s[m] = 0 \/ (s[m] = 1 /\ \E j \in 1..m : counts[j] # 0)}
<1>3. 0 \in T
  BY <1>2
<1>4. ASSUME NEW m \in Nat, m \in T PROVE m + 1 \in T
  <2>1. SUFFICES ASSUME m + 1 <= n
                 PROVE  s[m + 1] = 0 \/ (s[m + 1] = 1 /\ \E j \in 1..(m + 1) : counts[j] # 0)
    OBVIOUS
  <2>2. m + 1 \in 1..n /\ m \in 0..n /\ m + 1 - 1 = m
    BY <2>1
  <2>3. s[m + 1] = s[m] + counts[m + 1] /\ counts[m + 1] \in {0, 1}
    <3>1. s[m + 1] = s[m] + counts[m + 1]
      BY <1>2, <2>2
    <3>2. counts[m + 1] \in Nat /\ counts[m + 1] <= 1
      BY <1>0, <2>2
    <3>. QED  BY <3>1, <3>2
  <2>4. CASE s[m] = 0
    BY <2>2, <2>3, <2>4
  <2>5. CASE s[m] # 0
    <3>1. PICK j \in 1..m : s[m] = 1 /\ counts[j] # 0
      BY <1>4, <2>2, <2>5
    <3>2. j \in 1..n /\ j \in 1..(m + 1) /\ j # m + 1
      BY <2>2
    <3>3. counts[m + 1] = 0
      BY <1>0, <2>2, <3>1, <3>2
    <3>. QED  BY <2>3, <3>1, <3>2, <3>3
  <2>. QED  BY <2>4, <2>5
<1>. HIDE DEF T
<1>5. Nat \subseteq T
  BY <1>3, <1>4, InductionOnNat
<1>6. n \in T
  BY <1>5
<1>7. s[n] = 0 \/ (s[n] = 1 /\ \E j \in 1..n : counts[j] # 0)
  BY <1>6 DEF T
<1>. QED  BY <1>0, <1>2, <1>7

\* One count more.
LEMMA TotalLast ==
    ASSUME NEW n \in Nat, NEW counts \in Seq(Nat), Len(counts) = n + 1,
           NEW first \in Seq(Nat), Len(first) = n, \A k \in 1..n : first[k] = counts[k]
    PROVE  Total(counts) = Total(first) + counts[n + 1]
<1>1. PICK s : Partial(s, counts)
  BY TotalIs
<1>2. PICK r : Partial(r, first)
  BY TotalIs
<1>3. s[0] = 0 /\ s[n + 1] = Total(counts) /\ \A k \in 1..(n + 1) : s[k] = s[k - 1] + counts[k]
  BY <1>1 DEF Partial
<1>4. r[0] = 0 /\ r[n] = Total(first) /\ \A k \in 1..n : r[k] = r[k - 1] + first[k]
  BY <1>2 DEF Partial
<1>. DEFINE T == {m \in Nat : m <= n => s[m] = r[m]}
<1>5. 0 \in T
  BY <1>3, <1>4
<1>6. ASSUME NEW m \in Nat, m \in T PROVE m + 1 \in T
  <2>1. SUFFICES ASSUME m + 1 <= n PROVE s[m + 1] = r[m + 1]
    OBVIOUS
  <2>2. m + 1 \in 1..n /\ m + 1 \in 1..(n + 1) /\ m + 1 - 1 = m /\ m <= n
    BY <2>1
  <2>3. s[m + 1] = s[m] + counts[m + 1] /\ r[m + 1] = r[m] + first[m + 1]
    BY <1>3, <1>4, <2>2
  <2>4. s[m] = r[m] /\ first[m + 1] = counts[m + 1]
    BY <1>6, <2>2
  <2>. QED  BY <2>3, <2>4
<1>. HIDE DEF T
<1>7. Nat \subseteq T
  BY <1>5, <1>6, InductionOnNat
<1>8. s[n] = r[n]
  <2>1. n \in T
    BY <1>7
  <2>. QED  BY <2>1 DEF T
<1>9. n + 1 \in 1..(n + 1) /\ n + 1 - 1 = n
  OBVIOUS
<1>10. s[n + 1] = s[n] + counts[n + 1]
  BY <1>3, <1>9
<1>. QED  BY <1>3, <1>4, <1>8, <1>10
-----------------------------------------------------------------------------
(* Bodies and what they refer to.                                          *)

Ops == {"", ">0", "+1", "=", "lambda"}
Tails == {"", "JOIN", "UNION ALL"}
ExprType == [op : Ops, args : Seq(PlainIds)]
\* Only FROM names CTEs.
PartsType == [clause : [Clauses -> Seq(ExprType)], from : Seq(Ids), tail : Tails]
\* A generated column, with a prefix and the bare name after it.
ColumnIds == {id \in Ids : Len(id) > 1 /\ Tail(id) \in PlainIds /\ Tail(id) # << >>}
Hits(p, id) == {i \in DOMAIN p.from : p.from[i] = id}

\* The parts of a body, typed.
LEMMA PartsFields ==
    ASSUME NEW p \in PartsType
    PROVE  /\ p.from \in Seq(Ids) /\ p.tail \in Tails /\ p.clause \in [Clauses -> Seq(ExprType)]
           /\ \A c \in Clauses : p.clause[c] \in Seq(ExprType)
  BY DEF PartsType

\* A body names a CTE finitely often.
LEMMA HitsFinite ==
    ASSUME NEW p \in PartsType, NEW id
    PROVE  IsFiniteSet(Hits(p, id)) /\ Cardinality(Hits(p, id)) \in Nat
<1>1. p.from \in Seq(Ids)
  BY PartsFields
<1>2. PICK n \in Nat : n = Len(p.from) /\ DOMAIN p.from = 1..n
  BY <1>1
<1>3. IsFiniteSet(1..n)
  BY FS_Interval
<1>4. Hits(p, id) \subseteq 1..n
  BY <1>2 DEF Hits
<1>5. IsFiniteSet(Hits(p, id))
  BY <1>3, <1>4, FS_Subset
<1>. QED  BY <1>5, FS_CardinalityType

\* References to a CTE are those of FROM.
LEMMA ReferencesAreHits ==
    ASSUME NEW p \in PartsType, NEW id \in CteIds
    PROVE  References(p, id) = Cardinality(Hits(p, id)) /\ References(p, id) \in Nat
<1>. DEFINE sites == {at \in Clauses \X (1..MaxColumns) \X (1..2) :
                      /\ at[2] \in DOMAIN p.clause[at[1]] /\ at[3] \in DOMAIN p.clause[at[1]][at[2]].args
                      /\ p.clause[at[1]][at[2]].args[at[3]] = id}
<1>1. ASSUME NEW at \in sites PROVE FALSE
  <2>1. at[1] \in Clauses /\ p.clause[at[1]] \in Seq(ExprType) /\ at[2] \in DOMAIN p.clause[at[1]]
    BY PartsFields
  <2>2. PICK e \in ExprType : e = p.clause[at[1]][at[2]]
    BY <2>1
  <2>3. at[3] \in DOMAIN e.args /\ e.args[at[3]] = id
    BY <2>2
  <2>4. e.args \in Seq(PlainIds)
    BY DEF ExprType
  <2>5. id \in PlainIds
    BY <2>3, <2>4
  <2>. QED  BY <2>5 DEF PlainIds
<1>2. sites = {}
  BY <1>1
<1>3. References(p, id) = Cardinality(Hits(p, id)) + Cardinality(sites)
  BY DEF References, Hits
<1>. HIDE DEF sites
<1>4. Cardinality(sites) = 0
  BY <1>2, FS_EmptySet
<1>5. Cardinality(Hits(p, id)) \in Nat
  BY HitsFinite
<1>. QED  BY <1>3, <1>4, <1>5

\* How many there are.
LEMMA ReferencesFacts ==
    ASSUME NEW p \in PartsType, NEW id \in CteIds
    PROVE  /\ References(p, id) \in Nat
           /\ References(p, id) > 0 <=> \E i \in DOMAIN p.from : p.from[i] = id
           /\ (\A i, j \in DOMAIN p.from : p.from[i] = id /\ p.from[j] = id => i = j) => References(p, id) <= 1
           /\ References(p, id) <= 1 => \A i, j \in DOMAIN p.from : p.from[i] = id /\ p.from[j] = id => i = j
<1>. DEFINE H == Hits(p, id)
<1>1. /\ IsFiniteSet(H) /\ Cardinality(H) \in Nat /\ References(p, id) = Cardinality(H)
      /\ \A i : i \in H <=> i \in DOMAIN p.from /\ p.from[i] = id
  BY HitsFinite, ReferencesAreHits DEF Hits
<1>. HIDE DEF H
<1>2. Cardinality(H) = 0 <=> H = {}
  BY <1>1, FS_EmptySet
<1>3. ASSUME \A i, j \in H : i = j PROVE Cardinality(H) <= 1
  <2>1. CASE H = {}
    BY <1>1, <1>2, <2>1
  <2>2. CASE H # {}
    <3>1. PICK i : H = {i}
      BY <1>3, <2>2
    <3>2. Cardinality({i}) = 1
      BY FS_Singleton
    <3>. QED  BY <3>1, <3>2
  <2>. QED  BY <2>1, <2>2
<1>4. ASSUME Cardinality(H) <= 1, NEW i \in H, NEW j \in H, i # j PROVE FALSE
  <2>1. IsFiniteSet({i}) /\ Cardinality({i}) = 1
    BY FS_Singleton
  <2>2. Cardinality({i} \cup {j}) = 2
    BY <1>4, <2>1, FS_AddElement
  <2>3. {i} \cup {j} \subseteq H
    OBVIOUS
  <2>4. Cardinality({i} \cup {j}) <= Cardinality(H)
    BY <1>1, <2>3, FS_Subset
  <2>. QED  BY <1>1, <1>4, <2>2, <2>4
<1>5. References(p, id) > 0 <=> H # {}
  BY <1>1, <1>2
<1>. QED  BY <1>1, <1>3, <1>4, <1>5

\* References depends on FROM only.
LEMMA SameReferences ==
    ASSUME NEW p \in PartsType, NEW q \in PartsType, NEW id \in CteIds,
           DOMAIN p.from = DOMAIN q.from, \A i \in DOMAIN p.from : p.from[i] = id <=> q.from[i] = id
    PROVE  References(p, id) = References(q, id)
<1>1. Hits(p, id) = Hits(q, id)
  BY DEF Hits
<1>. QED  BY <1>1, ReferencesAreHits

\* A substitution of columns by bare names.
Strips(map) == DOMAIN map \cap CteIds = {} /\ \A id \in DOMAIN map : map[id] \in PlainIds

\* New names of columns leave references to CTEs alone.
LEMMA RenamedParts ==
    ASSUME NEW p \in PartsType, NEW map, Strips(map)
    PROVE  /\ RenameParts(p, map) \in PartsType
           /\ DOMAIN RenameParts(p, map).from = DOMAIN p.from
           /\ \A i \in DOMAIN p.from, id \in CteIds : RenameParts(p, map).from[i] = id <=> p.from[i] = id
           /\ \A id \in CteIds : References(RenameParts(p, map), id) = References(p, id)
<1>1. /\ p.from \in Seq(Ids) /\ p.tail \in Tails /\ p.clause \in [Clauses -> Seq(ExprType)]
      /\ \A c \in Clauses : p.clause[c] \in Seq(ExprType)
  BY PartsFields
<1>2. PICK from : from = [i \in DOMAIN p.from |-> Subst(map, p.from[i])]
  OBVIOUS
<1>3. PICK clause : clause = [c \in Clauses |->
                  [i \in DOMAIN p.clause[c] |-> SubstituteColumnTokens(p.clause[c][i], map)]]
  OBVIOUS
<1>4. PICK q : q = RenameParts(p, map)
  OBVIOUS
<1>5. q = [clause |-> clause, from |-> from, tail |-> p.tail]
  BY <1>2, <1>3, <1>4 DEF RenameParts, PartsType
<1>6. \A id \in Ids : Subst(map, id) \in Ids
  BY DEF Subst, Strips, PlainIds
<1>7. from \in Seq(Ids) /\ DOMAIN from = DOMAIN p.from
  BY <1>1, <1>2, <1>6
<1>8. \A id \in PlainIds : Subst(map, id) \in PlainIds
  BY DEF Subst, Strips
<1>9. ASSUME NEW e \in ExprType PROVE SubstituteColumnTokens(e, map) \in ExprType
  <2>1. e.args \in Seq(PlainIds) /\ e.op \in Ops
    BY DEF ExprType
  <2>2. PICK args : args = [i \in DOMAIN e.args |-> Subst(map, e.args[i])]
    OBVIOUS
  <2>3. args \in Seq(PlainIds)
    BY <1>8, <2>1, <2>2
  <2>4. SubstituteColumnTokens(e, map) = [op |-> e.op, args |-> args]
    BY <2>2 DEF SubstituteColumnTokens, ExprType
  <2>. QED  BY <2>1, <2>3, <2>4 DEF ExprType
<1>10. ASSUME NEW c \in Clauses
       PROVE  [i \in DOMAIN p.clause[c] |-> SubstituteColumnTokens(p.clause[c][i], map)] \in Seq(ExprType)
  <2>1. p.clause[c] \in Seq(ExprType)
    BY <1>1
  <2>2. PICK n \in Nat : DOMAIN p.clause[c] = 1..n
    BY <2>1
  <2>3. \A i \in 1..n : SubstituteColumnTokens(p.clause[c][i], map) \in ExprType
    BY <1>9, <2>1, <2>2
  <2>. QED  BY <2>2, <2>3
<1>11. clause \in [Clauses -> Seq(ExprType)]
  BY <1>3, <1>10
<1>12. q \in PartsType
  BY <1>1, <1>5, <1>7, <1>11 DEF PartsType
<1>13. ASSUME NEW i \in DOMAIN p.from, NEW id \in CteIds
       PROVE  q.from[i] = id <=> p.from[i] = id
  <2>1. q.from[i] = Subst(map, p.from[i])
    BY <1>2, <1>5
  <2>2. id \notin PlainIds /\ id \notin DOMAIN map
    BY DEF PlainIds, Strips
  <2>. QED  BY <2>1, <2>2 DEF Subst, Strips
<1>14. DOMAIN q.from = DOMAIN p.from
  BY <1>5, <1>7
<1>15. ASSUME NEW id \in CteIds PROVE References(q, id) = References(p, id)
  BY <1>12, <1>13, <1>14, SameReferences
<1>. QED  BY <1>4, <1>12, <1>13, <1>14, <1>15

\* Parts makes a body.
LEMMA PartsMade ==
    ASSUME NEW select \in Seq(ExprType), NEW from \in Seq(Ids), NEW tail \in Tails
    PROVE  Parts(select, from, tail) \in PartsType /\ Parts(select, from, tail).from = from
<1>1. [c \in Clauses |-> IF c = "select" THEN select ELSE << >>] \in [Clauses -> Seq(ExprType)]
  OBVIOUS
<1>. QED  BY <1>1 DEF Parts, PartsType

\* A clause replaced leaves FROM alone.
LEMMA WithMade ==
    ASSUME NEW p \in PartsType, NEW c \in Clauses, NEW exprs \in Seq(ExprType)
    PROVE  With(p, c, exprs) \in PartsType /\ With(p, c, exprs).from = p.from
<1>1. [p.clause EXCEPT ![c] = exprs] \in [Clauses -> Seq(ExprType)]
  BY PartsFields
<1>2. With(p, c, exprs) = [clause |-> [p.clause EXCEPT ![c] = exprs], from |-> p.from, tail |-> p.tail]
  <2>1. PICK clause, from, tail : p = [clause |-> clause, from |-> from, tail |-> tail]
    BY DEF PartsType
  <2>. QED  BY <2>1 DEF With
<1>. QED  BY <1>1, <1>2, PartsFields DEF PartsType

\* Bare columns are expressions.
LEMMA ColumnsMade ==
    ASSUME NEW cols \in Seq(PlainIds)
    PROVE  Columns(cols) \in Seq(ExprType)
<1>1. PICK n \in Nat : DOMAIN cols = 1..n
  OBVIOUS
<1>2. \A i \in 1..n : Expr("", <<cols[i]>>) \in ExprType
  <2>1. ASSUME NEW i \in 1..n PROVE Expr("", <<cols[i]>>) \in ExprType
    <3>1. <<cols[i]>> \in Seq(PlainIds)
      BY <1>1
    <3>3. [op |-> "", args |-> <<cols[i]>>] \in ExprType
      BY <3>1 DEF ExprType, Ops
    <3>. QED  BY <3>3 DEF Expr
  <2>. QED  BY <2>1
<1>3. PICK exprs : exprs = Columns(cols)
  OBVIOUS
<1>4. exprs = [i \in 1..n |-> Expr("", <<cols[i]>>)]
  BY <1>1, <1>3 DEF Columns
<1>5. \A i \in 1..n : exprs[i] \in ExprType
  BY <1>2, <1>4
<1>6. exprs \in [1..n -> ExprType]
  BY <1>4, <1>5
<1>. QED  BY <1>3, <1>6

\* So is what is left of them after a cut.
LEMMA CutMade ==
    ASSUME NEW exprs \in Seq(ExprType), NEW n \in Nat
    PROVE  Cut(exprs, n) \in Seq(ExprType)
<1>1. CASE Len(exprs) > n
  <2>1. SubSeq(exprs, 1, n) \in Seq(ExprType)
    BY <1>1
  <2>. QED  BY <1>1, <2>1 DEF Cut
<1>2. CASE ~(Len(exprs) > n)
  BY <1>2 DEF Cut
<1>. QED  BY <1>1, <1>2

\* The assumptions on names, spelled out.
LEMMA NameFacts ==
    /\ CteNames \in Seq(Ids) /\ ColumnPrefixes \in Seq(STRING)
    /\ \A i, j \in DOMAIN CteNames : i # j => CteNames[i] # CteNames[j]
    /\ \A id \in CteIds : Len(id) = 1 /\ id \in Ids
<1>1. \A id \in CteIds : Len(id) = 1
  BY NamesAssumption, Zenon
<1>2. CteNames \in Seq(Ids) /\ ColumnPrefixes \in Seq(STRING)
  BY NamesAssumption, Zenon
<1>3. \A i, j \in DOMAIN CteNames : i # j => CteNames[i] # CteNames[j]
  BY NamesAssumption, Zenon
<1>4. \A id \in CteIds : id \in Ids
  BY <1>2 DEF CteIds, Names
<1>. QED  BY <1>1, <1>2, <1>3, <1>4

\* A column is no CTE, and neither is its bare name.
LEMMA ColumnPlain ==
    ASSUME NEW id \in ColumnIds
    PROVE  id \in PlainIds /\ StripGeneratedTablePrefix(id) \in PlainIds \ {<< >>}
<1>1. ASSUME id \in CteIds PROVE FALSE
  <2>1. Len(id) = 1
    BY <1>1, NameFacts, Zenon
  <2>2. Len(id) > 1
    BY DEF ColumnIds
  <2>. QED  BY <2>1, <2>2
<1>. QED  BY <1>1 DEF ColumnIds, PlainIds, StripGeneratedTablePrefix

-----------------------------------------------------------------------------
(* Who reads a CTE.                                                        *)

Reads(p, id) == \E i \in DOMAIN p.from : p.from[i] = id
\* A list of CTEs, as listed, prepared or printed.
Bodies(list) == list \in Seq(Names(list)) /\ \A k \in DOMAIN list : list[k].parts \in PartsType
Unread(list, id) == \A k \in DOMAIN list : ~Reads(list[k].parts, id)
\* At most one FROM of the list or the statement that closes it names the CTE, and that once.
ReadAtMostOnce(list, id) ==
    \A k, l \in DOMAIN list :
        \A a \in DOMAIN list[k].parts.from, b \in DOMAIN list[l].parts.from :
            list[k].parts.from[a] = id /\ list[l].parts.from[b] = id => k = l /\ a = b
OnceRead(list, child, id) == ReadAtMostOnce(list, id) /\ (child = id => Unread(list, id))
Counts(list, id) == [k \in DOMAIN list |-> References(list[k].parts, id)]

\* The references of each body, as a sequence of numbers.
LEMMA CountsTyped ==
    ASSUME NEW list, Bodies(list), NEW id \in CteIds
    PROVE  /\ Counts(list, id) \in Seq(Nat) /\ Len(Counts(list, id)) = Len(list)
           /\ Len(list) \in Nat /\ DOMAIN list = 1..Len(list)
           /\ \A k \in 1..Len(list) : /\ list[k].parts \in PartsType
                                      /\ Counts(list, id)[k] = References(list[k].parts, id)
                                      /\ References(list[k].parts, id) \in Nat
<1>1. PICK n \in Nat : n = Len(list) /\ DOMAIN list = 1..n
  BY DEF Bodies
<1>2. \A k \in 1..n : list[k].parts \in PartsType
  BY <1>1 DEF Bodies
<1>3. \A k \in 1..n : References(list[k].parts, id) \in Nat
  BY <1>2, ReferencesFacts
<1>4. PICK c : c = Counts(list, id)
  OBVIOUS
<1>5. c = [k \in 1..n |-> References(list[k].parts, id)]
  BY <1>1, <1>4 DEF Counts
<1>6. c \in [1..n -> Nat] /\ \A k \in 1..n : c[k] = References(list[k].parts, id)
  BY <1>3, <1>5
<1>7. c \in Seq(Nat) /\ Len(c) = n
  BY <1>6
<1>. QED  BY <1>1, <1>2, <1>3, <1>4, <1>6, <1>7

\* What a total of references says of who reads.
LEMMA TotalReferences ==
    ASSUME NEW list, Bodies(list), NEW id \in CteIds
    PROVE  /\ Total(Counts(list, id)) \in Nat
           /\ Total(Counts(list, id)) <= 1 <=> ReadAtMostOnce(list, id)
           /\ Total(Counts(list, id)) = 0 <=> Unread(list, id)
<1>1. PICK n \in Nat : n = Len(list) /\ DOMAIN list = 1..n
  BY DEF Bodies
<1>2. PICK c \in Seq(Nat) : c = Counts(list, id) /\ Len(c) = n
  BY <1>1, CountsTyped
<1>3. \A k \in 1..n : /\ list[k].parts \in PartsType
                      /\ c[k] = References(list[k].parts, id) /\ c[k] \in Nat
  BY <1>1, <1>2, CountsTyped
<1>4. ASSUME NEW k \in 1..n
      PROVE  /\ c[k] > 0 <=> Reads(list[k].parts, id)
             /\ c[k] <= 1 <=> \A i, j \in DOMAIN list[k].parts.from :
                                  list[k].parts.from[i] = id /\ list[k].parts.from[j] = id => i = j
  BY <1>3, ReferencesFacts DEF Reads
<1>5. Total(c) \in Nat /\ \A k \in 1..n : c[k] <= Total(c)
  BY <1>2, TotalTyped, TotalAtLeast
<1>6. \A j, k \in 1..n : j < k => c[j] + c[k] <= Total(c)
  BY <1>2, TotalAtLeast
<1>7. ASSUME ReadAtMostOnce(list, id) PROVE Total(c) \in {0, 1}
  <2>1. \A k \in 1..n : c[k] <= 1
    BY <1>1, <1>4, <1>7 DEF ReadAtMostOnce
  <2>2. ASSUME NEW j \in 1..n, NEW k \in 1..n, c[j] # 0, c[k] # 0 PROVE j = k
    <3>1. Reads(list[j].parts, id) /\ Reads(list[k].parts, id)
      BY <1>3, <1>4, <2>2
    <3>. QED  BY <1>1, <1>7, <3>1 DEF ReadAtMostOnce, Reads
  <2>. QED  BY <1>2, <2>1, <2>2, TotalAtMostOne
<1>8. ASSUME Total(c) <= 1 PROVE ReadAtMostOnce(list, id)
  <2>1. \A k \in 1..n : c[k] <= 1
    BY <1>3, <1>5, <1>8
  <2>2. ASSUME NEW j \in 1..n, NEW k \in 1..n, c[j] > 0, c[k] > 0 PROVE j = k
    <3>1. \A x, y \in 1..n : x < y /\ c[x] > 0 /\ c[y] > 0 => FALSE
      BY <1>3, <1>5, <1>6, <1>8
    <3>. QED  BY <2>2, <3>1
  <2>3. ASSUME NEW k \in 1..n, NEW l \in 1..n,
               NEW a \in DOMAIN list[k].parts.from, NEW b \in DOMAIN list[l].parts.from,
               list[k].parts.from[a] = id, list[l].parts.from[b] = id
        PROVE  k = l /\ a = b
    <3>1. k = l
      BY <1>4, <2>2, <2>3 DEF Reads
    <3>. QED  BY <1>4, <2>1, <2>3, <3>1
  <2>. QED  BY <1>1, <2>3 DEF ReadAtMostOnce
<1>9. ASSUME Unread(list, id) PROVE Total(c) = 0
  <2>1. \A k \in 1..n : c[k] = 0
    BY <1>1, <1>3, <1>4, <1>9 DEF Unread
  <2>2. \A k \in 1..n : c[k] <= 1
    BY <2>1
  <2>. QED  BY <1>2, <2>1, <2>2, TotalAtMostOne
<1>10. ASSUME Total(c) = 0 PROVE Unread(list, id)
  <2>1. \A k \in 1..n : ~ (c[k] > 0)
    BY <1>3, <1>5, <1>10
  <2>. QED  BY <1>1, <1>4, <2>1 DEF Unread
<1>11. Total(c) <= 1 <=> Total(c) \in {0, 1}
  BY <1>5
<1>. QED  BY <1>2, <1>5, <1>7, <1>8, <1>9, <1>10, <1>11

\* A count of at most one is the statement's word that the CTE is read once.
LEMMA ReferenceCountIs ==
    ASSUME Bodies(prepared), NEW id \in CteIds
    PROVE  /\ ReferenceCount(id) \in Nat
           /\ ReferenceCount(id) <= 1 <=> OnceRead(prepared, final.child, id)
           /\ \A k \in DOMAIN prepared : Reads(prepared[k].parts, id) => ReferenceCount(id) >= 1
<1>1. PICK t \in Nat : t = Total(Counts(prepared, id))
  BY TotalReferences
<1>2. /\ t <= 1 <=> ReadAtMostOnce(prepared, id)
      /\ t = 0 <=> Unread(prepared, id)
  BY <1>1, TotalReferences
<1>3. ReferenceCount(id) = (IF final.child = id THEN 1 ELSE 0) + t
  BY <1>1 DEF ReferenceCount, Counts
<1>4. Unread(prepared, id) => ReadAtMostOnce(prepared, id)
  BY <1>1, <1>2
<1>5. (\E k \in DOMAIN prepared : Reads(prepared[k].parts, id)) => t # 0
  BY <1>2 DEF Unread
<1>. QED  BY <1>1, <1>2, <1>3, <1>4, <1>5 DEF OnceRead

-----------------------------------------------------------------------------
(* The list.                                                               *)

NodeType ==
    [cte_name : CteIds, cols : Seq(ColumnIds) \ {<< >>}, has_parts : BOOLEAN,
     materialized : BOOLEAN, parts : PartsType]
ReadsEarlier(list) ==
    \A k \in DOMAIN list, id \in CteIds :
        Reads(list[k].parts, id) => \E j \in 1..(k - 1) : id = CteNames[j]
\* What is not the body of a materialized CTE is read once at most.
Tree(list) ==
    \A k \in DOMAIN list : ~list[k].materialized => ReadAtMostOnce(list, CteNames[k])
OpenOk(list, stack) ==
    /\ stack \in Seq(DOMAIN list)
    /\ \A i, j \in DOMAIN stack : stack[i] = stack[j] => i = j
    /\ \A i \in DOMAIN stack : ~list[stack[i]].materialized /\ Unread(list, CteNames[stack[i]])
Named(list) ==
    /\ list \in Seq(NodeType) /\ Len(list) <= Len(CteNames)
    /\ \A k \in DOMAIN list : list[k].cte_name = CteNames[k]
ListOk(list, stack) == Named(list) /\ ReadsEarlier(list) /\ Tree(list) /\ OpenOk(list, stack)

\* The fields of a node, typed.
LEMMA NodeFields ==
    ASSUME NEW node \in NodeType
    PROVE  /\ node.cte_name \in CteIds /\ node.cols \in Seq(ColumnIds) /\ node.cols # << >>
           /\ node.has_parts \in BOOLEAN /\ node.materialized \in BOOLEAN /\ node.parts \in PartsType
  BY DEF NodeType

\* No two CTEs have the same name.
LEMMA NamesDiffer ==
    /\ Len(CteNames) \in Nat /\ DOMAIN CteNames = 1..Len(CteNames)
    /\ \A k \in 1..Len(CteNames) : CteNames[k] \in CteIds
    /\ \A j, k \in 1..Len(CteNames) : CteNames[j] = CteNames[k] => j = k
<1>1. CteNames \in Seq(Ids) /\ \A i, j \in DOMAIN CteNames : i # j => CteNames[i] # CteNames[j]
  BY NameFacts, Zenon
<1>. QED  BY <1>1 DEF CteIds, Names

\* What the nodes a step adds may read: what it takes from the stack, and materialized bodies.
MayRead(list, stack, kept, id) ==
    \/ \E j \in DOMAIN stack : j > kept /\ id = CteNames[stack[j]]
    \/ \E k \in DOMAIN list : list[k].materialized /\ id = CteNames[k]
ReadsWell(list, stack, kept, p) ==
    /\ \A id \in CteIds : Reads(p, id) => MayRead(list, stack, kept, id)
    /\ \A a, b \in DOMAIN p.from : p.from[a] = p.from[b] => a = b

\* A node that reads what nothing has read yet keeps the list in order.
LEMMA NodeAdded ==
    ASSUME NEW list, NEW stack, ListOk(list, stack), NEW kept \in 0..Len(stack),
           NEW node \in NodeType, Len(list) + 1 <= Len(CteNames),
           node.cte_name = CteNames[Len(list) + 1], ~node.materialized,
           ReadsWell(list, stack, kept, node.parts),
           NEW longer, longer = Append(list, node),
           NEW left, left = Append(SubSeq(stack, 1, kept), Len(list) + 1)
    PROVE  ListOk(longer, left)
<1>1. PICK n \in Nat : n = Len(list) /\ DOMAIN list = 1..n
  BY DEF ListOk, Named
<1>2. /\ list \in Seq(NodeType) /\ \A k \in 1..n : list[k].cte_name = CteNames[k]
      /\ ReadsEarlier(list) /\ Tree(list)
  BY <1>1 DEF ListOk, Named
<1>3. /\ longer \in Seq(NodeType) /\ Len(longer) = n + 1 /\ DOMAIN longer = 1..(n + 1)
      /\ longer[n + 1] = node /\ \A k \in 1..n : longer[k] = list[k]
  BY <1>1, <1>2
<1>4. \A j, k \in 1..(n + 1) : CteNames[j] \in CteIds /\ (CteNames[j] = CteNames[k] => j = k)
  BY <1>1, NamesDiffer
<1>5. /\ \A k \in 1..(n + 1) : k # n + 1 => k \in 1..n
      /\ \A k \in 1..n : k \in 1..(n + 1)
  OBVIOUS
<1>6. PICK m \in Nat : m = Len(stack) /\ DOMAIN stack = 1..m
  BY DEF ListOk, OpenOk
<1>7. /\ stack \in Seq(1..n)
      /\ \A i, j \in 1..m : stack[i] = stack[j] => i = j
      /\ \A i \in 1..m : stack[i] \in 1..n /\ ~list[stack[i]].materialized /\ Unread(list, CteNames[stack[i]])
  <2>1. OpenOk(list, stack)
    BY DEF ListOk
  <2>2. stack \in Seq(1..n)
    BY <1>1, <2>1 DEF OpenOk
  <2>3. \A i, j \in 1..m : stack[i] = stack[j] => i = j
    BY <1>6, <2>1 DEF OpenOk
  <2>4. \A i \in 1..m : ~list[stack[i]].materialized /\ Unread(list, CteNames[stack[i]])
    BY <1>6, <2>1 DEF OpenOk
  <2>5. \A i \in 1..m : stack[i] \in 1..n
    BY <1>6, <2>2
  <2>. QED  BY <2>2, <2>3, <2>4, <2>5
<1>8. Named(longer)
  BY <1>1, <1>2, <1>3, <1>5 DEF Named
<1>9. ASSUME NEW id \in CteIds, Reads(node.parts, id)
      PROVE  /\ \E j \in 1..n : id = CteNames[j]
             /\ \/ \E j \in 1..m : j > kept /\ id = CteNames[stack[j]]
                \/ \E k \in 1..n : list[k].materialized /\ id = CteNames[k]
  <2>1. MayRead(list, stack, kept, id)
    BY <1>9 DEF ReadsWell
  <2>. QED  BY <1>1, <1>6, <1>7, <2>1 DEF MayRead
<1>10. ReadsEarlier(longer)
  <2>1. ASSUME NEW k \in 1..(n + 1), NEW id \in CteIds, Reads(longer[k].parts, id)
        PROVE  \E j \in 1..(k - 1) : id = CteNames[j]
    <3>1. CASE k = n + 1
      <4>1. k - 1 = n
        BY <3>1
      <4>. QED  BY <1>3, <1>9, <2>1, <3>1, <4>1
    <3>2. CASE k # n + 1
      BY <1>1, <1>2, <1>3, <1>5, <2>1, <3>2 DEF ReadsEarlier
    <3>. QED  BY <3>1, <3>2
  <2>. QED  BY <1>3, <2>1 DEF ReadsEarlier
<1>11. Unread(longer, CteNames[n + 1])
  <2>1. ASSUME NEW k \in 1..(n + 1), Reads(longer[k].parts, CteNames[n + 1]) PROVE FALSE
    <3>1. n + 1 \in 1..(n + 1)
      OBVIOUS
    <3>2. PICK j \in 1..(k - 1) : CteNames[n + 1] = CteNames[j]
      BY <1>3, <1>4, <1>10, <2>1, <3>1 DEF ReadsEarlier
    <3>3. j \in 1..(n + 1) /\ j # n + 1
      OBVIOUS
    <3>. QED  BY <1>4, <3>1, <3>2, <3>3
  <2>. QED  BY <1>3, <2>1 DEF Unread
<1>12. ASSUME NEW k \in 1..n, NEW l \in 1..n, Reads(node.parts, CteNames[k]), Reads(list[l].parts, CteNames[k])
       PROVE  list[k].materialized
  <2>1. CteNames[k] \in CteIds
    BY <1>4
  <2>2. CASE \E j \in 1..m : j > kept /\ CteNames[k] = CteNames[stack[j]]
    <3>1. PICK j \in 1..m : CteNames[k] = CteNames[stack[j]]
      BY <2>2
    <3>2. Unread(list, CteNames[k])
      BY <1>7, <3>1
    <3>. QED  BY <1>1, <1>12, <3>2 DEF Unread
  <2>3. CASE \E j \in 1..n : list[j].materialized /\ CteNames[k] = CteNames[j]
    BY <1>4, <2>3
  <2>. QED  BY <1>9, <1>12, <2>1, <2>2, <2>3
<1>13. ASSUME NEW k \in 1..(n + 1), ~longer[k].materialized
       PROVE  ReadAtMostOnce(longer, CteNames[k])
  <2>1. CASE k = n + 1
    <3>1. Unread(longer, CteNames[k])
      BY <1>11, <2>1
    <3>. QED  BY <3>1 DEF Unread, ReadAtMostOnce, Reads
  <2>2. CASE k # n + 1
    <3>1. k \in 1..n /\ ~list[k].materialized /\ ReadAtMostOnce(list, CteNames[k])
      BY <1>1, <1>2, <1>3, <1>5, <1>13, <2>2 DEF Tree
    <3>2. ASSUME NEW i \in DOMAIN longer, NEW l \in DOMAIN longer,
                 NEW a \in DOMAIN longer[i].parts.from, NEW b \in DOMAIN longer[l].parts.from,
                 longer[i].parts.from[a] = CteNames[k], longer[l].parts.from[b] = CteNames[k]
          PROVE  i = l /\ a = b
      <4>0. i \in 1..(n + 1) /\ l \in 1..(n + 1)
        BY <1>3
      <4>1. Reads(longer[i].parts, CteNames[k]) /\ Reads(longer[l].parts, CteNames[k])
        BY <3>2 DEF Reads
      <4>2. CASE i = n + 1 /\ l = n + 1
        BY <1>3, <3>2, <4>2 DEF ReadsWell
      <4>3. CASE i \in 1..n /\ l \in 1..n
        <5>1. longer[i] = list[i] /\ longer[l] = list[l]
          BY <1>3, <4>3
        <5>. QED  BY <1>1, <3>1, <3>2, <4>3, <5>1 DEF ReadAtMostOnce
      <4>4. CASE i = n + 1 /\ l \in 1..n
        BY <1>3, <1>12, <3>1, <4>1, <4>4
      <4>5. CASE i \in 1..n /\ l = n + 1
        BY <1>3, <1>12, <3>1, <4>1, <4>5
      <4>. QED  BY <1>5, <4>0, <4>2, <4>3, <4>4, <4>5
    <3>. QED  BY <3>2 DEF ReadAtMostOnce
  <2>. QED  BY <2>1, <2>2
<1>14. Tree(longer)
  BY <1>3, <1>13 DEF Tree
<1>15. /\ left \in Seq(1..(n + 1)) /\ Len(left) = kept + 1 /\ DOMAIN left = 1..(kept + 1)
       /\ left[kept + 1] = n + 1 /\ \A i \in 1..kept : left[i] = stack[i] /\ i \in 1..m
  <2>1. SubSeq(stack, 1, kept) \in Seq(1..n) /\ Len(SubSeq(stack, 1, kept)) = kept
        /\ \A i \in 1..kept : SubSeq(stack, 1, kept)[i] = stack[i]
    BY <1>6, <1>7
  <2>2. PICK front : front = SubSeq(stack, 1, kept)
    OBVIOUS
  <2>3. front \in Seq(1..(n + 1)) /\ Len(front) = kept /\ \A i \in 1..kept : front[i] = stack[i]
    BY <2>1, <2>2
  <2>4. left = Append(front, n + 1)
    BY <1>1, <2>2
  <2>5. n + 1 \in 1..(n + 1)
    OBVIOUS
  <2>. QED  BY <1>6, <2>3, <2>4, <2>5
<1>16. \A i \in 1..(kept + 1) : i # kept + 1 => i \in 1..kept
  OBVIOUS
<1>17. \A i, j \in 1..(kept + 1) : left[i] = left[j] => i = j
  <2>1. \A i \in 1..kept : left[i] \in 1..n
    BY <1>7, <1>15
  <2>2. \A i, j \in 1..kept : left[i] = left[j] => i = j
    BY <1>7, <1>15
  <2>3. \A i \in 1..kept : left[i] # n + 1
    BY <2>1
  <2>. QED  BY <1>15, <1>16, <2>2, <2>3
<1>18. ASSUME NEW i \in 1..(kept + 1)
       PROVE  ~longer[left[i]].materialized /\ Unread(longer, CteNames[left[i]])
  <2>1. CASE i = kept + 1
    BY <1>3, <1>11, <1>15, <2>1
  <2>2. CASE i # kept + 1
    <3>1. i \in 1..kept /\ i \in 1..m /\ left[i] = stack[i] /\ stack[i] \in 1..n
      BY <1>7, <1>15, <1>16, <2>2
    <3>2. ~list[stack[i]].materialized /\ Unread(list, CteNames[stack[i]])
      BY <1>7, <3>1
    <3>3. CteNames[stack[i]] \in CteIds
      BY <1>4, <1>5, <3>1
    <3>4. ASSUME Reads(node.parts, CteNames[stack[i]]) PROVE FALSE
      <4>1. CASE \E j \in 1..m : j > kept /\ CteNames[stack[i]] = CteNames[stack[j]]
        <5>1. PICK j \in 1..m : j > kept /\ CteNames[stack[i]] = CteNames[stack[j]]
          BY <4>1
        <5>2. stack[i] = stack[j]
          <6>1. stack[i] \in 1..(n + 1) /\ stack[j] \in 1..(n + 1)
            BY <1>5, <1>7, <3>1
          <6>. QED  BY <1>4, <5>1, <6>1
        <5>3. i = j
          BY <1>7, <3>1, <5>2
        <5>. QED  BY <3>1, <5>1, <5>3
      <4>2. CASE \E k \in 1..n : list[k].materialized /\ CteNames[stack[i]] = CteNames[k]
        <5>1. PICK k \in 1..n : list[k].materialized /\ CteNames[stack[i]] = CteNames[k]
          BY <4>2
        <5>2. stack[i] \in 1..(n + 1) /\ k \in 1..(n + 1)
          BY <1>5, <3>1
        <5>3. stack[i] = k
          BY <1>4, <5>1, <5>2
        <5>. QED  BY <3>2, <5>1, <5>3
      <4>. QED  BY <1>9, <3>3, <3>4, <4>1, <4>2
    <3>5. Unread(longer, CteNames[stack[i]])
      BY <1>1, <1>3, <1>5, <3>2, <3>4 DEF Unread
    <3>. QED  BY <1>3, <3>1, <3>2, <3>5
  <2>. QED  BY <2>1, <2>2
<1>19. OpenOk(longer, left)
  BY <1>3, <1>15, <1>17, <1>18 DEF OpenOk
<1>. QED  BY <1>8, <1>10, <1>14, <1>19 DEF ListOk

\* Who reads what is a matter of the bodies alone.
LEMMA SameBodies ==
    ASSUME NEW list, NEW other, DOMAIN other = DOMAIN list,
           \A k \in DOMAIN list : other[k].parts = list[k].parts
    PROVE  /\ ReadsEarlier(list) => ReadsEarlier(other)
           /\ \A id : Unread(list, id) => Unread(other, id)
           /\ \A id : ReadAtMostOnce(list, id) => ReadAtMostOnce(other, id)
<1>1. ASSUME NEW id, ReadAtMostOnce(list, id) PROVE ReadAtMostOnce(other, id)
  <2>1. ASSUME NEW k \in DOMAIN other, NEW l \in DOMAIN other,
               NEW a \in DOMAIN other[k].parts.from, NEW b \in DOMAIN other[l].parts.from,
               other[k].parts.from[a] = id, other[l].parts.from[b] = id
        PROVE  k = l /\ a = b
    <3>1. other[k].parts = list[k].parts /\ other[l].parts = list[l].parts
      OBVIOUS
    <3>. QED  BY <1>1, <2>1, <3>1 DEF ReadAtMostOnce
  <2>. QED  BY <2>1 DEF ReadAtMostOnce
<1>. QED  BY <1>1 DEF ReadsEarlier, Unread

\* What a sequence that is not empty starts with.
LEMMA FirstElement ==
    ASSUME NEW S, NEW seq \in Seq(S), seq # << >>
    PROVE  seq[1] \in S
  OBVIOUS

\* The domain of a sequence.
LEMMA IsSequence ==
    ASSUME NEW S, NEW seq \in Seq(S)
    PROVE  Len(seq) \in Nat /\ DOMAIN seq = 1..Len(seq)
  OBVIOUS

\* A function on 1..n is a sequence.
LEMMA FunctionIsSequence ==
    ASSUME NEW S, NEW n \in Nat, NEW f \in [1..n -> S]
    PROVE  f \in Seq(S) /\ Len(f) = n /\ DOMAIN f = 1..n
  OBVIOUS

\* The body of a materialized CTE leaves the open nodes: it may be read often.
LEMMA NodeMaterialized ==
    ASSUME NEW list, NEW stack, ListOk(list, stack), stack # << >>,
           NEW other, other = [list EXCEPT ![stack[Len(stack)]].materialized = TRUE],
           NEW left, left = SubSeq(stack, 1, Len(stack) - 1)
    PROVE  ListOk(other, left)
<1>1. PICK n \in Nat : n = Len(list) /\ DOMAIN list = 1..n
  BY DEF ListOk, Named
<1>2. /\ list \in Seq(NodeType) /\ \A k \in 1..n : list[k].cte_name = CteNames[k]
      /\ ReadsEarlier(list) /\ Tree(list) /\ OpenOk(list, stack) /\ n <= Len(CteNames)
  BY <1>1 DEF ListOk, Named
<1>3. stack \in Seq(1..n)
  BY <1>1, <1>2 DEF OpenOk
<1>4. PICK m \in Nat : m = Len(stack) /\ DOMAIN stack = 1..m /\ m > 0 /\ m \in 1..m
  <2>1. PICK m \in Nat : m = Len(stack) /\ DOMAIN stack = 1..m
    BY <1>3
  <2>2. m # 0
    BY <1>3, <2>1
  <2>. QED  BY <2>1, <2>2
<1>5. PICK top \in 1..n : top = stack[m]
  BY <1>3, <1>4
<1>6. list[top] \in NodeType
  BY <1>1, <1>2
<1>7. PICK changed : changed = [list[top] EXCEPT !.materialized = TRUE]
  OBVIOUS
<1>8. changed \in NodeType /\ changed.cte_name = list[top].cte_name /\ changed.parts = list[top].parts
      /\ changed.materialized
  BY <1>6, <1>7 DEF NodeType
<1>9. other = [list EXCEPT ![top] = changed]
  BY <1>4, <1>5, <1>7
<1>10. other \in Seq(NodeType) /\ Len(other) = n /\ DOMAIN other = 1..n /\ other[top] = changed
       /\ \A k \in 1..n : k # top => other[k] = list[k]
  <2>1. list \in [1..n -> NodeType]
    BY <1>1, <1>2
  <2>2. other \in [1..n -> NodeType] /\ other[top] = changed /\ \A k \in 1..n : k # top => other[k] = list[k]
    BY <1>8, <1>9, <2>1
  <2>3. other \in Seq(NodeType) /\ Len(other) = n /\ DOMAIN other = 1..n
    BY <2>2, FunctionIsSequence, Zenon
  <2>. QED  BY <2>2, <2>3
<1>11. \A k \in 1..n : /\ other[k].parts = list[k].parts /\ other[k].cte_name = list[k].cte_name
                       /\ ~other[k].materialized => ~list[k].materialized
                       /\ k # top => other[k].materialized = list[k].materialized
  BY <1>8, <1>10
<1>12. /\ ReadsEarlier(other)
       /\ \A id : Unread(list, id) => Unread(other, id)
       /\ \A id : ReadAtMostOnce(list, id) => ReadAtMostOnce(other, id)
  BY <1>1, <1>2, <1>10, <1>11, SameBodies
<1>13. Tree(other)
  BY <1>1, <1>2, <1>10, <1>11, <1>12 DEF Tree
<1>14. Named(other)
  BY <1>2, <1>10, <1>11 DEF Named
<1>15. left \in Seq(1..n) /\ Len(left) = m - 1 /\ DOMAIN left = 1..(m - 1)
       /\ \A i \in 1..(m - 1) : left[i] = stack[i]
  BY <1>3, <1>4
<1>16. \A i \in 1..(m - 1) : i \in 1..m /\ i # m
  BY <1>4
<1>17. \A i, j \in 1..m : stack[i] = stack[j] => i = j
  BY <1>2, <1>4 DEF OpenOk
<1>18. \A i \in 1..m : stack[i] \in 1..n /\ ~list[stack[i]].materialized /\ Unread(list, CteNames[stack[i]])
  BY <1>2, <1>3, <1>4 DEF OpenOk
<1>19. ASSUME NEW i \in 1..(m - 1)
       PROVE  ~other[left[i]].materialized /\ Unread(other, CteNames[left[i]])
  <2>1. left[i] = stack[i] /\ stack[i] \in 1..n /\ stack[i] # top
    BY <1>4, <1>5, <1>15, <1>16, <1>17, <1>18
  <2>. QED  BY <1>11, <1>12, <1>16, <1>18, <2>1
<1>20. \A i, j \in 1..(m - 1) : left[i] = left[j] => i = j
  BY <1>15, <1>16, <1>17
<1>21. OpenOk(other, left)
  BY <1>10, <1>15, <1>19, <1>20 DEF OpenOk
<1>. QED  BY <1>12, <1>13, <1>14, <1>21 DEF ListOk

\* Columns with a new prefix, and without any.
BareIds == PlainIds \ {<< >>}

\* An identifier with a prefix.
LEMMA Prefixed ==
    ASSUME NEW S, NEW p \in S, NEW b \in Seq(S), b # << >>
    PROVE  <<p>> \o b \in Seq(S) /\ Len(<<p>> \o b) > 1 /\ Tail(<<p>> \o b) = b
<1>1. Len(b) \in Nat /\ Len(b) # 0
  OBVIOUS
<1>2. <<p>> \in Seq(S) /\ Len(<<p>>) = 1
  OBVIOUS
<1>3. Len(<<p>> \o b) = 1 + Len(b)
  BY <1>2
<1>. QED  BY <1>1, <1>2, <1>3

\* An element of a sequence.
LEMMA Elements ==
    ASSUME NEW S, NEW seq \in Seq(S), NEW i \in DOMAIN seq
    PROVE  seq[i] \in S
  OBVIOUS

\* Columns with the prefix of the next node.
LEMMA OwnMade ==
    ASSUME NEW bare \in Seq(BareIds), Len(nodes) + 1 \in DOMAIN ColumnPrefixes
    PROVE  Own(bare) \in Seq(ColumnIds) /\ Len(Own(bare)) = Len(bare)
<1>1. PICK p \in STRING : p = ColumnPrefixes[Len(nodes) + 1]
  <2>1. ColumnPrefixes \in Seq(STRING)
    BY NameFacts, Zenon
  <2>2. ColumnPrefixes[Len(nodes) + 1] \in STRING
    BY <2>1, Elements, Zenon
  <2>. QED  BY <2>2, Zenon
<1>2. PICK n \in Nat : n = Len(bare) /\ DOMAIN bare = 1..n
  OBVIOUS
<1>3. ASSUME NEW i \in 1..n PROVE <<p>> \o bare[i] \in ColumnIds
  <2>1. bare[i] \in Seq(STRING) /\ bare[i] \in PlainIds /\ bare[i] # << >>
    BY <1>2 DEF BareIds, PlainIds, Ids
  <2>2. /\ <<p>> \o bare[i] \in Seq(STRING) /\ Len(<<p>> \o bare[i]) > 1
        /\ Tail(<<p>> \o bare[i]) = bare[i]
    BY <2>1, Prefixed, Zenon
  <2>. QED  BY <2>1, <2>2 DEF ColumnIds, Ids
<1>4. PICK own : own = Own(bare)
  OBVIOUS
<1>5. own = [i \in 1..n |-> <<p>> \o bare[i]]
  BY <1>1, <1>2, <1>4 DEF Own
<1>6. own \in [1..n -> ColumnIds]
  BY <1>3, <1>5
<1>. QED  BY <1>2, <1>4, <1>6

\* Columns without their prefix.
LEMMA BareMade ==
    ASSUME NEW cols \in Seq(ColumnIds)
    PROVE  Bare(cols) \in Seq(BareIds) /\ Len(Bare(cols)) = Len(cols)
<1>1. PICK n \in Nat : n = Len(cols) /\ DOMAIN cols = 1..n
  OBVIOUS
<1>2. \A i \in 1..n : StripGeneratedTablePrefix(cols[i]) \in BareIds
  BY <1>1, ColumnPlain DEF BareIds
<1>3. PICK bare : bare = Bare(cols)
  OBVIOUS
<1>4. bare = [i \in 1..n |-> StripGeneratedTablePrefix(cols[i])]
  BY <1>1, <1>3 DEF Bare
<1>5. bare \in [1..n -> BareIds]
  BY <1>2, <1>4
<1>. QED  BY <1>1, <1>3, <1>5

\* Columns and bare names are no CTEs.
LEMMA PlainSequences ==
    /\ \A cols \in Seq(ColumnIds) : cols \in Seq(PlainIds)
    /\ \A cols \in Seq(BareIds) : cols \in Seq(PlainIds)
    /\ CteIds \subseteq Ids
<1>1. ColumnIds \subseteq PlainIds
  BY ColumnPlain
<1>2. BareIds \subseteq PlainIds
  BY DEF BareIds
<1>3. CteIds \subseteq Ids
  BY NameFacts, Zenon
<1>. QED  BY <1>1, <1>2, <1>3

-----------------------------------------------------------------------------
(* The steps that build the list.                                          *)

\* What MenusAssumption says of one menu.
LEMMA MenuFacts ==
    ASSUME NEW m \in Menus
    PROVE  /\ m.length \in Nat /\ m.length <= Len(CteNames) /\ m.length <= Len(ColumnPrefixes)
           /\ m.tables \subseteq DOMAIN Tables
           /\ \A x \in m.parameters : x \in PlainIds /\ <<x[1] \o "_1">> \in PlainIds
  BY MenusAssumption, Zenon

\* What NamesAssumption says of one table.
LEMMA TableFacts ==
    ASSUME NEW t \in DOMAIN Tables
    PROVE  t \in PlainIds /\ Tables[t] \in Seq(BareIds) /\ Tables[t] # << >>
  BY NamesAssumption, Zenon DEF BareIds

\* A node of the list that is its next.
LEMMA RoomLeft ==
    ASSUME menu \in Menus, ListOk(nodes, open), NEW consumed \in 0..Len(open), NEW node,
           Emit(node, consumed)
    PROVE  /\ Len(nodes) + 1 \in DOMAIN CteNames /\ Len(nodes) + 1 \in DOMAIN ColumnPrefixes
           /\ Len(nodes) + 1 <= Len(CteNames) /\ Fresh = CteNames[Len(nodes) + 1] /\ Fresh \in CteIds
           /\ Len(open) \in Nat /\ Len(nodes) \in Nat
<1>1. PICK n \in Nat : n = Len(nodes)
  BY DEF ListOk, Named
<1>2. PICK m \in Nat : m = Len(open)
  BY DEF ListOk, OpenOk
<1>3. n + 1 <= menu.length
  <2>1. Room(n + 1, m - consumed + 1)
    BY <1>1, <1>2 DEF Emit
  <2>2. m - consumed + 1 \in Nat /\ m - consumed + 1 # 0 /\ m - consumed + 1 - 1 \in Nat
    BY <1>2
  <2>3. menu.length \in Nat
    BY MenuFacts
  <2>. QED  BY <2>1, <2>2, <2>3 DEF Room
<1>4. PICK c \in Nat : c = Len(CteNames) /\ DOMAIN CteNames = 1..c
  BY NamesDiffer
<1>5. PICK d \in Nat : d = Len(ColumnPrefixes) /\ DOMAIN ColumnPrefixes = 1..d
  <2>1. ColumnPrefixes \in Seq(STRING)
    BY NameFacts, Zenon
  <2>2. Len(ColumnPrefixes) \in Nat /\ DOMAIN ColumnPrefixes = 1..Len(ColumnPrefixes)
    BY <2>1, IsSequence, Zenon
  <2>. QED  BY <2>2
<1>6. menu.length \in Nat /\ menu.length <= c /\ menu.length <= d
  BY <1>4, <1>5, MenuFacts
<1>7. n + 1 \in 1..c /\ n + 1 \in 1..d
  BY <1>3, <1>6
<1>8. CteNames[n + 1] \in CteIds
  BY <1>4, <1>7, NamesDiffer
<1>. QED  BY <1>1, <1>2, <1>4, <1>5, <1>7, <1>8 DEF Fresh

\* Emit adds a node.
LEMMA NodeEmitted ==
    ASSUME menu \in Menus, ListOk(nodes, open), NEW consumed \in 0..Len(open),
           NEW cols \in Seq(ColumnIds), cols # << >>, NEW has_parts \in BOOLEAN,
           NEW parts \in PartsType, ReadsWell(nodes, open, Len(open) - consumed, parts),
           Emit(Node(Fresh, cols, has_parts, parts), consumed)
    PROVE  ListOk(nodes', open')
<1>1. PICK node : node = Node(Fresh, cols, has_parts, parts)
  OBVIOUS
<1>2. /\ Fresh = CteNames[Len(nodes) + 1] /\ Fresh \in CteIds /\ Len(nodes) + 1 <= Len(CteNames)
      /\ Len(open) \in Nat
  BY RoomLeft
<1>3. /\ node \in NodeType /\ node.cte_name = CteNames[Len(nodes) + 1] /\ ~node.materialized
      /\ node.parts = parts
  BY <1>1, <1>2 DEF Node, NodeType
<1>4. nodes' = Append(nodes, node) /\ open' = Append(SubSeq(open, 1, Len(open) - consumed), Len(nodes) + 1)
  BY <1>1 DEF Emit
<1>5. Len(open) - consumed \in 0..Len(open)
  BY <1>2
<1>. QED  BY <1>2, <1>3, <1>4, <1>5, NodeAdded

\* The innermost unread node and the one below.
LEMMA TopFacts ==
    ASSUME ListOk(nodes, open), open # << >>
    PROVE  /\ Len(open) \in Nat /\ Len(open) >= 1 /\ Len(open) \in DOMAIN open
           /\ open[Len(open)] \in DOMAIN nodes
           /\ Top \in NodeType /\ Top.cte_name = CteNames[open[Len(open)]]
           /\ Top.cols \in Seq(ColumnIds) /\ Top.cols # << >> /\ Top.cte_name \in CteIds
<1>1. open \in Seq(DOMAIN nodes) /\ nodes \in Seq(NodeType)
      /\ \A k \in DOMAIN nodes : nodes[k].cte_name = CteNames[k]
  BY DEF ListOk, OpenOk, Named
<1>2. PICK m \in Nat : m = Len(open) /\ DOMAIN open = 1..m
  BY <1>1
<1>3. m # 0
  BY <1>1, <1>2
<1>4. m \in 1..m /\ m >= 1
  BY <1>3
<1>5. open[m] \in DOMAIN nodes
  BY <1>1, <1>2, <1>4
<1>6. nodes[open[m]] \in NodeType /\ nodes[open[m]].cte_name = CteNames[open[m]]
  BY <1>1, <1>5
<1>. QED  BY <1>2, <1>4, <1>5, <1>6, NodeFields DEF Top

\* The one below it.
LEMMA BelowFacts ==
    ASSUME ListOk(nodes, open), Len(open) > 1
    PROVE  /\ open # << >> /\ Len(open) - 1 \in DOMAIN open
           /\ open[Len(open) - 1] \in DOMAIN nodes
           /\ Below \in NodeType /\ Below.cte_name = CteNames[open[Len(open) - 1]]
           /\ Below.cols \in Seq(ColumnIds) /\ Below.cols # << >> /\ Below.cte_name \in CteIds
           /\ Below.cte_name # Top.cte_name
<1>1. open \in Seq(DOMAIN nodes) /\ nodes \in Seq(NodeType)
      /\ \A k \in DOMAIN nodes : nodes[k].cte_name = CteNames[k]
      /\ \A i, j \in DOMAIN open : open[i] = open[j] => i = j
      /\ Len(nodes) <= Len(CteNames)
  BY DEF ListOk, OpenOk, Named
<1>2. PICK m \in Nat : m = Len(open) /\ DOMAIN open = 1..m /\ m > 1
  BY <1>1
<1>3. open # << >> /\ m - 1 \in 1..m /\ m \in 1..m
  BY <1>2
<1>4. open[m - 1] \in DOMAIN nodes /\ open[m] \in DOMAIN nodes
  BY <1>1, <1>2, <1>3
<1>5. nodes[open[m - 1]] \in NodeType /\ nodes[open[m - 1]].cte_name = CteNames[open[m - 1]]
  BY <1>1, <1>4
<1>6. open[m - 1] # open[m]
  BY <1>1, <1>2, <1>3
<1>7. Top.cte_name = CteNames[open[m]]
  BY <1>2, <1>3, TopFacts
<1>8. CteNames[open[m - 1]] # CteNames[open[m]]
  <2>1. \A k \in DOMAIN nodes : k \in 1..Len(CteNames)
    BY <1>1, NamesDiffer
  <2>. QED  BY <1>4, <1>6, <2>1, NamesDiffer
<1>. QED  BY <1>2, <1>3, <1>4, <1>5, <1>7, <1>8, NodeFields DEF Below

\* A scan reads no CTE,
LEMMA ReadsNothing ==
    ASSUME NEW t \in PlainIds, NEW p, p.from = <<t>>
    PROVE  ReadsWell(nodes, open, Len(open), p)
<1>1. \A i \in DOMAIN p.from : i = 1 /\ p.from[i] = t
  OBVIOUS
<1>2. t \notin CteIds
  BY DEF PlainIds
<1>. QED  BY <1>1, <1>2 DEF ReadsWell, Reads

\* a filter or projection the innermost open node,
LEMMA ReadsTop ==
    ASSUME ListOk(nodes, open), open # << >>, NEW p, p.from = <<Top.cte_name>>
    PROVE  ReadsWell(nodes, open, Len(open) - 1, p)
<1>1. \A i \in DOMAIN p.from : i = 1 /\ p.from[i] = Top.cte_name
  OBVIOUS
<1>2. /\ Len(open) \in Nat /\ Len(open) \in DOMAIN open /\ Len(open) > Len(open) - 1
      /\ Top.cte_name = CteNames[open[Len(open)]]
  BY TopFacts
<1>. QED  BY <1>1, <1>2 DEF ReadsWell, Reads, MayRead

\* a join or union the two innermost,
LEMMA ReadsBoth ==
    ASSUME ListOk(nodes, open), Len(open) > 1, NEW p, p.from = <<Below.cte_name, Top.cte_name>>
    PROVE  ReadsWell(nodes, open, Len(open) - 2, p)
<1>1. DOMAIN p.from = {1, 2} /\ p.from[1] = Below.cte_name /\ p.from[2] = Top.cte_name
  OBVIOUS
<1>2. /\ Len(open) - 1 \in DOMAIN open /\ Below.cte_name = CteNames[open[Len(open) - 1]]
      /\ Below.cte_name # Top.cte_name /\ open # << >>
  BY BelowFacts
<1>3. /\ Len(open) \in Nat /\ Len(open) \in DOMAIN open
      /\ Top.cte_name = CteNames[open[Len(open)]]
  BY <1>2, TopFacts
<1>4. Len(open) > Len(open) - 2 /\ Len(open) - 1 > Len(open) - 2
  BY <1>3
<1>5. \A a, b \in DOMAIN p.from : p.from[a] = p.from[b] => a = b
  BY <1>1, <1>2
<1>6. ASSUME NEW id \in CteIds, Reads(p, id) PROVE MayRead(nodes, open, Len(open) - 2, id)
  <2>1. id = Below.cte_name \/ id = Top.cte_name
    BY <1>1, <1>6 DEF Reads
  <2>. QED  BY <1>2, <1>3, <1>4, <2>1 DEF MayRead
<1>. QED  BY <1>5, <1>6 DEF ReadsWell

\* and a reference the body of a materialized CTE.
LEMMA ReadsBody ==
    ASSUME ListOk(nodes, open), NEW k \in DOMAIN nodes, nodes[k].materialized,
           NEW p, p.from = <<nodes[k].cte_name>>
    PROVE  ReadsWell(nodes, open, Len(open), p)
<1>1. \A i \in DOMAIN p.from : i = 1 /\ p.from[i] = nodes[k].cte_name
  OBVIOUS
<1>2. nodes[k].cte_name = CteNames[k]
  BY DEF ListOk, Named
<1>. QED  BY <1>1, <1>2 DEF ReadsWell, Reads, MayRead

\* An expression over one column,
LEMMA OneExpr ==
    ASSUME NEW op \in Ops, NEW id \in PlainIds
    PROVE  <<Expr(op, <<id>>)>> \in Seq(ExprType)
<1>1. <<id>> \in Seq(PlainIds)
  OBVIOUS
<1>2. Expr(op, <<id>>) \in ExprType
  BY <1>1 DEF Expr, ExprType
<1>. QED  BY <1>2

\* over two,
LEMMA PairExpr ==
    ASSUME NEW op \in Ops, NEW a \in PlainIds, NEW b \in PlainIds
    PROVE  Expr(op, <<a, b>>) \in ExprType /\ <<Expr(op, <<a, b>>)>> \in Seq(ExprType)
<1>1. <<a, b>> \in Seq(PlainIds)
  OBVIOUS
<1>2. Expr(op, <<a, b>>) \in ExprType
  BY <1>1 DEF Expr, ExprType
<1>. QED  BY <1>2

\* and with other columns in their place.
LEMMA Substituted ==
    ASSUME NEW e \in ExprType, NEW map, Strips(map)
    PROVE  SubstituteColumnTokens(e, map) \in ExprType
<1>1. e.args \in Seq(PlainIds) /\ e.op \in Ops
  BY DEF ExprType
<1>2. \A id \in PlainIds : Subst(map, id) \in PlainIds
  BY DEF Subst, Strips
<1>3. PICK args : args = [i \in DOMAIN e.args |-> Subst(map, e.args[i])]
  OBVIOUS
<1>4. args \in Seq(PlainIds)
  BY <1>1, <1>2, <1>3
<1>5. SubstituteColumnTokens(e, map) = [op |-> e.op, args |-> args]
  BY <1>3 DEF SubstituteColumnTokens, ExprType
<1>. QED  BY <1>1, <1>4, <1>5 DEF ExprType

\* Each step that builds the list keeps it in order.
LEMMA ScanOk ==
    ASSUME menu \in Menus, ListOk(nodes, open), NEW t \in menu.tables, Scan(t)
    PROVE  ListOk(nodes', open')
<1>1. t \in PlainIds /\ Tables[t] \in Seq(BareIds) /\ Tables[t] # << >>
  BY MenuFacts, TableFacts
<1>2. PICK p : p = Parts(Columns(Tables[t]), <<t>>, "")
  OBVIOUS
<1>3. Tables[t] \in Seq(PlainIds) /\ <<t>> \in Seq(Ids) /\ "" \in Tails
  BY <1>1, PlainSequences DEF PlainIds, Tails
<1>4. p \in PartsType /\ p.from = <<t>>
  BY <1>2, <1>3, ColumnsMade, PartsMade
<1>5. Len(open) \in Nat /\ 0 \in 0..Len(open) /\ Len(open) - 0 = Len(open)
  BY DEF ListOk, OpenOk
<1>6. ReadsWell(nodes, open, Len(open) - 0, p)
  BY <1>1, <1>4, <1>5, ReadsNothing
<1>7. CASE Emit(Node(Fresh, Own(Tables[t]), TRUE, p), 0)
  <2>1. Len(nodes) + 1 \in DOMAIN ColumnPrefixes
    BY <1>5, <1>7, RoomLeft
  <2>2. Own(Tables[t]) \in Seq(ColumnIds) /\ Len(Own(Tables[t])) = Len(Tables[t])
    BY <1>1, <2>1, OwnMade
  <2>3. Own(Tables[t]) # << >>
    BY <1>1, <2>2
  <2>. QED  BY <1>4, <1>5, <1>6, <1>7, <2>2, <2>3, NodeEmitted
<1>8. CASE Emit(Node(Fresh, Own([Tables[t] EXCEPT ![1] = <<"x">>, ![2] = <<"y">>]), TRUE,
                     With(p, "order", <<Expr("", <<Tables[t][1]>>)>>)), 0)
  <2>1. Len(nodes) + 1 \in DOMAIN ColumnPrefixes
    BY <1>5, <1>8, RoomLeft
  <2>2. PICK bare : bare = [Tables[t] EXCEPT ![1] = <<"x">>, ![2] = <<"y">>]
    OBVIOUS
  <2>3. <<"x">> \in BareIds /\ <<"y">> \in BareIds
    BY NamesAssumption, Zenon DEF BareIds
  <2>4. bare \in Seq(BareIds) /\ Len(bare) = Len(Tables[t])
    <3>1. PICK n \in Nat : n = Len(Tables[t]) /\ DOMAIN Tables[t] = 1..n
      BY <1>1
    <3>2. Tables[t] \in [1..n -> BareIds]
      BY <1>1, <3>1
    <3>3. bare \in [1..n -> BareIds]
      BY <2>2, <2>3, <3>2
    <3>. QED  BY <3>1, <3>3, FunctionIsSequence
  <2>5. Own(bare) \in Seq(ColumnIds) /\ Len(Own(bare)) = Len(bare)
    BY <2>1, <2>4, OwnMade
  <2>6. Own(bare) # << >>
    BY <1>1, <2>4, <2>5
  <2>7. PICK q : q = With(p, "order", <<Expr("", <<Tables[t][1]>>)>>)
    OBVIOUS
  <2>8. q \in PartsType /\ q.from = <<t>>
    <3>1. Tables[t][1] \in PlainIds
      BY <1>1, <1>3, FirstElement, Zenon
    <3>2. <<Expr("", <<Tables[t][1]>>)>> \in Seq(ExprType)
      BY <3>1, OneExpr DEF Ops
    <3>. QED  BY <1>4, <2>7, <3>2, WithMade DEF Clauses
  <2>9. ReadsWell(nodes, open, Len(open) - 0, q)
    BY <1>1, <1>5, <2>8, ReadsNothing
  <2>10. Emit(Node(Fresh, Own(bare), TRUE, q), 0)
    BY <1>8, <2>2, <2>7
  <2>. QED  BY <1>5, <2>5, <2>6, <2>8, <2>9, <2>10, NodeEmitted
<1>. QED  BY <1>2, <1>7, <1>8 DEF Scan

LEMMA FilterOk ==
    ASSUME menu \in Menus, ListOk(nodes, open), Filter
    PROVE  ListOk(nodes', open')
<1>1. open # << >>
  BY DEF Filter
<1>2. PICK kept \in {1, Len(Top.cols)}, column \in {1, Len(Top.cols)} :
         Emit(Node(Fresh, SubSeq(Top.cols, 1, kept), TRUE,
                   With(Parts(Columns(SubSeq(Top.cols, 1, kept)), <<Top.cte_name>>, ""),
                        "where", <<Expr(">0", <<Top.cols[column]>>)>>)), 1)
  BY DEF Filter
<1>3. /\ Len(open) \in Nat /\ Len(open) >= 1 /\ Top.cte_name \in CteIds
      /\ Top.cols \in Seq(ColumnIds) /\ Top.cols # << >>
  BY <1>1, TopFacts
<1>4. PICK n \in Nat : n = Len(Top.cols) /\ DOMAIN Top.cols = 1..n /\ n >= 1
  <2>1. PICK n \in Nat : n = Len(Top.cols) /\ DOMAIN Top.cols = 1..n
    BY <1>3
  <2>2. n # 0
    BY <1>3, <2>1
  <2>. QED  BY <2>1, <2>2
<1>5. kept \in 1..n /\ column \in 1..n
  BY <1>4
<1>6. PICK cols : cols = SubSeq(Top.cols, 1, kept)
  OBVIOUS
<1>7. cols \in Seq(ColumnIds) /\ cols # << >>
  <2>1. cols \in Seq(ColumnIds) /\ Len(cols) = kept
    BY <1>3, <1>4, <1>5, <1>6
  <2>. QED  BY <1>5, <2>1
<1>8. PICK parts : parts = With(Parts(Columns(cols), <<Top.cte_name>>, ""),
                        "where", <<Expr(">0", <<Top.cols[column]>>)>>)
  OBVIOUS
<1>9. parts \in PartsType /\ parts.from = <<Top.cte_name>>
  <2>1. cols \in Seq(PlainIds) /\ <<Top.cte_name>> \in Seq(Ids) /\ "" \in Tails
    BY <1>3, <1>7, PlainSequences DEF Tails
  <2>2. /\ Parts(Columns(cols), <<Top.cte_name>>, "") \in PartsType
        /\ Parts(Columns(cols), <<Top.cte_name>>, "").from = <<Top.cte_name>>
    BY <2>1, ColumnsMade, PartsMade
  <2>3. Top.cols[column] \in PlainIds
    BY <1>3, <1>4, <1>5, PlainSequences
  <2>4. <<Expr(">0", <<Top.cols[column]>>)>> \in Seq(ExprType)
    BY <2>3, OneExpr DEF Ops
  <2>. QED  BY <1>8, <2>2, <2>4, WithMade DEF Clauses
<1>10. ReadsWell(nodes, open, Len(open) - 1, parts)
  BY <1>1, <1>9, ReadsTop
<1>11. Emit(Node(Fresh, cols, TRUE, parts), 1)
  BY <1>2, <1>6, <1>8
<1>12. 1 \in 0..Len(open)
  BY <1>3
<1>. QED  BY <1>7, <1>9, <1>10, <1>11, <1>12, NodeEmitted

LEMMA ProjectOk ==
    ASSUME menu \in Menus, ListOk(nodes, open), Project
    PROVE  ListOk(nodes', open')
<1>1. open # << >>
  BY DEF Project
<1>2. /\ Len(open) \in Nat /\ 1 \in 0..Len(open) /\ Top.cte_name \in CteIds
      /\ Top.cols \in Seq(ColumnIds) /\ Top.cols # << >>
  BY <1>1, TopFacts
<1>3. PICK n \in Nat : n = Len(Top.cols) /\ DOMAIN Top.cols = 1..n /\ n # 0
  BY <1>2
<1>4. Top.cols \in Seq(PlainIds) /\ <<Top.cte_name>> \in Seq(Ids) /\ "" \in Tails
  BY <1>2, PlainSequences DEF Tails
<1>5. CASE Emit(Node(Fresh, Own(Bare(Top.cols)), TRUE,
                     Parts(Columns([i \in DOMAIN Top.cols |-> Top.cols[Len(Top.cols) + 1 - i]]),
                           <<Top.cte_name>>, "")), 1)
  <2>1. PICK cols : cols = [i \in DOMAIN Top.cols |-> Top.cols[Len(Top.cols) + 1 - i]]
    OBVIOUS
  <2>2. cols \in Seq(PlainIds)
    <3>1. \A i \in 1..n : Top.cols[n + 1 - i] \in PlainIds
      <4>1. ASSUME NEW i \in 1..n PROVE Top.cols[n + 1 - i] \in PlainIds
        <5>1. n + 1 - i \in 1..n
          OBVIOUS
        <5>2. n + 1 - i \in DOMAIN Top.cols
          BY <1>3, <5>1
        <5>. QED  BY <1>4, <5>2, Elements, Zenon
      <4>. QED  BY <4>1
    <3>2. cols = [i \in 1..n |-> Top.cols[n + 1 - i]]
      BY <1>3, <2>1
    <3>3. cols \in [1..n -> PlainIds]
      BY <3>1, <3>2
    <3>. QED  BY <3>3, FunctionIsSequence
  <2>3. PICK parts : parts = Parts(Columns(cols), <<Top.cte_name>>, "")
    OBVIOUS
  <2>4. parts \in PartsType /\ parts.from = <<Top.cte_name>>
    BY <1>4, <2>2, <2>3, ColumnsMade, PartsMade
  <2>5. ReadsWell(nodes, open, Len(open) - 1, parts)
    BY <1>1, <2>4, ReadsTop
  <2>6. Emit(Node(Fresh, Own(Bare(Top.cols)), TRUE, parts), 1)
    BY <1>5, <2>1, <2>3
  <2>7. Len(nodes) + 1 \in DOMAIN ColumnPrefixes
    BY <1>2, <2>6, RoomLeft
  <2>8. Bare(Top.cols) \in Seq(BareIds) /\ Len(Bare(Top.cols)) = n
    BY <1>2, <1>3, BareMade
  <2>9. Own(Bare(Top.cols)) \in Seq(ColumnIds) /\ Len(Own(Bare(Top.cols))) = n
    BY <2>7, <2>8, OwnMade
  <2>10. Own(Bare(Top.cols)) # << >>
    BY <1>3, <2>9
  <2>. QED  BY <1>2, <2>4, <2>5, <2>6, <2>9, <2>10, NodeEmitted
<1>6. CASE Emit(Node(Fresh, Own(<<<<"x">>>>), TRUE,
                     Parts(<<Expr("+1", <<Top.cols[1]>>)>>, <<Top.cte_name>>, "")), 1)
  <2>1. PICK parts : parts = Parts(<<Expr("+1", <<Top.cols[1]>>)>>, <<Top.cte_name>>, "")
    OBVIOUS
  <2>2. parts \in PartsType /\ parts.from = <<Top.cte_name>>
    <3>1. Top.cols[1] \in PlainIds
      BY <1>2, <1>4, FirstElement, Zenon
    <3>2. <<Expr("+1", <<Top.cols[1]>>)>> \in Seq(ExprType)
      BY <3>1, OneExpr DEF Ops
    <3>. QED  BY <1>4, <2>1, <3>2, PartsMade
  <2>3. ReadsWell(nodes, open, Len(open) - 1, parts)
    BY <1>1, <2>2, ReadsTop
  <2>4. Emit(Node(Fresh, Own(<<<<"x">>>>), TRUE, parts), 1)
    BY <1>6, <2>1
  <2>5. Len(nodes) + 1 \in DOMAIN ColumnPrefixes
    BY <1>2, <2>4, RoomLeft
  <2>6. <<<<"x">>>> \in Seq(BareIds) /\ Len(<<<<"x">>>>) = 1
    <3>1. <<"x">> \in BareIds
      BY NamesAssumption, Zenon DEF BareIds
    <3>. QED  BY <3>1
  <2>7. Own(<<<<"x">>>>) \in Seq(ColumnIds) /\ Len(Own(<<<<"x">>>>)) = 1
    BY <2>5, <2>6, OwnMade
  <2>8. Own(<<<<"x">>>>) # << >>
    BY <2>7
  <2>. QED  BY <1>2, <2>2, <2>3, <2>4, <2>7, <2>8, NodeEmitted
<1>. QED  BY <1>5, <1>6 DEF Project

LEMMA JoinOk ==
    ASSUME menu \in Menus, ListOk(nodes, open), Join
    PROVE  ListOk(nodes', open')
<1>1. Len(open) > 1 /\ open # << >>
  BY BelowFacts DEF Join
<1>2. /\ Len(open) \in Nat /\ Top.cte_name \in CteIds /\ Top.cols \in Seq(ColumnIds) /\ Top.cols # << >>
  BY <1>1, TopFacts
<1>3. Below.cte_name \in CteIds /\ Below.cols \in Seq(ColumnIds) /\ Below.cols # << >>
  BY <1>1, BelowFacts
<1>4. PICK a \in Seq(ColumnIds), b \in Seq(ColumnIds) : a = Below.cols /\ b = Top.cols /\ a # << >> /\ b # << >>
  BY <1>2, <1>3
<1>5. PICK cols : cols = a \o b
  OBVIOUS
<1>6. cols \in Seq(ColumnIds) /\ cols # << >>
  <2>1. Len(cols) = Len(a) + Len(b) /\ cols \in Seq(ColumnIds)
    BY <1>5
  <2>2. Len(a) \in Nat /\ Len(b) \in Nat /\ Len(a) # 0
    BY <1>4
  <2>. QED  BY <2>1, <2>2
<1>7. PICK names : names = <<Below.cte_name, Top.cte_name>>
  OBVIOUS
<1>8. PICK parts : parts = With(Parts(Columns(cols), names, "JOIN"), "on", <<Expr("=", <<a[1], b[1]>>)>>)
  OBVIOUS
<1>9. parts \in PartsType /\ parts.from = names
  <2>1. Below.cte_name \in Ids /\ Top.cte_name \in Ids
    BY <1>2, <1>3, PlainSequences
  <2>2. names \in Seq(Ids) /\ "JOIN" \in Tails /\ "=" \in Ops /\ "on" \in Clauses
    BY <1>7, <2>1 DEF Tails, Ops, Clauses
  <2>3. cols \in Seq(PlainIds) /\ a \in Seq(PlainIds) /\ b \in Seq(PlainIds)
    BY <1>6, PlainSequences
  <2>4. a[1] \in PlainIds /\ b[1] \in PlainIds
    BY <1>4, <2>3, FirstElement
  <2>5. <<Expr("=", <<a[1], b[1]>>)>> \in Seq(ExprType)
    BY <2>2, <2>4, PairExpr
  <2>6. Parts(Columns(cols), names, "JOIN") \in PartsType /\ Parts(Columns(cols), names, "JOIN").from = names
    BY <2>2, <2>3, ColumnsMade, PartsMade
  <2>. QED  BY <1>8, <2>2, <2>5, <2>6, WithMade
<1>10. Emit(Node(Fresh, cols, TRUE, parts), 2)
  BY <1>4, <1>5, <1>7, <1>8 DEF Join
<1>11. ReadsWell(nodes, open, Len(open) - 2, parts)
  BY <1>1, <1>7, <1>9, ReadsBoth
<1>12. 2 \in 0..Len(open)
  BY <1>1, <1>2
<1>. QED  BY <1>6, <1>9, <1>10, <1>11, <1>12, NodeEmitted

\* A lambda names its parameter and a column.
LEMMA LambdaMade ==
    ASSUME menu \in Menus, NEW x \in menu.parameters, NEW captured \in PlainIds
    PROVE  Lambda(x, captured) \in ExprType
<1>1. x \in PlainIds /\ <<x[1] \o "_1">> \in PlainIds
  BY MenuFacts
<1>2. Parameter(x, captured) \in PlainIds
  BY <1>1 DEF Parameter
<1>. QED  BY <1>2, PairExpr DEF Lambda, Ops

\* The node of a lambda, whatever its expression.
EmitsMap(e) == Emit(Node(Fresh, Own(<<<<"z">>>>), TRUE, Parts(<<e>>, <<Top.cte_name>>, "")), 1)

\* The node of a Map reads the innermost open node.
LEMMA MapEmitted ==
    ASSUME menu \in Menus, ListOk(nodes, open), open # << >>, NEW e \in ExprType, EmitsMap(e)
    PROVE  ListOk(nodes', open')
<1>1. /\ Len(open) \in Nat /\ 1 \in 0..Len(open) /\ Top.cte_name \in CteIds
  BY TopFacts
<1>2. PICK parts : parts = Parts(<<e>>, <<Top.cte_name>>, "")
  OBVIOUS
<1>3. parts \in PartsType /\ parts.from = <<Top.cte_name>>
  <2>1. <<Top.cte_name>> \in Seq(Ids) /\ "" \in Tails /\ <<e>> \in Seq(ExprType)
    BY <1>1, PlainSequences DEF Tails
  <2>. QED  BY <1>2, <2>1, PartsMade
<1>4. ReadsWell(nodes, open, Len(open) - 1, parts)
  BY <1>3, ReadsTop
<1>5. Emit(Node(Fresh, Own(<<<<"z">>>>), TRUE, parts), 1)
  BY <1>2 DEF EmitsMap
<1>6. Len(nodes) + 1 \in DOMAIN ColumnPrefixes
  BY <1>1, <1>5, RoomLeft
<1>7. <<<<"z">>>> \in Seq(BareIds) /\ Len(<<<<"z">>>>) = 1
  <2>1. <<"z">> \in BareIds
    BY NamesAssumption, Zenon DEF BareIds
  <2>. QED  BY <2>1
<1>8. Own(<<<<"z">>>>) \in Seq(ColumnIds) /\ Len(Own(<<<<"z">>>>)) = 1
  BY <1>6, <1>7, OwnMade
<1>9. Own(<<<<"z">>>>) # << >>
  BY <1>8
<1>. QED  BY <1>1, <1>3, <1>4, <1>5, <1>8, <1>9, NodeEmitted

LEMMA MapOk ==
    ASSUME menu \in Menus, ListOk(nodes, open), Map \/ MapFused
    PROVE  ListOk(nodes', open')
<1>1. open # << >>
  BY DEF Map, MapFused
<1>2. Top.cols \in Seq(PlainIds)
  BY <1>1, TopFacts, PlainSequences
<1>3. CASE Map
  <2>1. PICK x \in menu.parameters, column \in DOMAIN Top.cols :
           Emit(Node(Fresh, Own(<<<<"z">>>>), TRUE,
                     Parts(<<Lambda(x, Top.cols[column])>>, <<Top.cte_name>>, "")), 1)
    BY <1>3 DEF Map
  <2>2. Top.cols[column] \in PlainIds
    BY <1>2, Elements, Zenon
  <2>3. Lambda(x, Top.cols[column]) \in ExprType
    BY <2>2, LambdaMade
  <2>. QED  BY <1>1, <2>1, <2>3, MapEmitted, Zenon DEF EmitsMap
<1>4. CASE MapFused
  <2>1. PICK y : y = Own(<<<<"y">>>>)[1]
    OBVIOUS
  <2>2. PICK x \in menu.parameters, column \in DOMAIN Top.cols :
           Emit(Node(Fresh, Own(<<<<"z">>>>), TRUE,
                     Parts(<<SubstituteColumnTokens(Lambda(x, y), [id \in {y} |-> Top.cols[column]])>>,
                           <<Top.cte_name>>, "")), 1)
    BY <1>4, <2>1, Zenon DEF MapFused
  <2>3. Top.cols[column] \in PlainIds
    BY <1>2, Elements, Zenon
  <2>4. y \in PlainIds
    <3>1. 1 \in 0..Len(open)
      BY <1>1, TopFacts
    <3>2. Len(nodes) + 1 \in DOMAIN ColumnPrefixes
      BY <2>2, <3>1, RoomLeft
    <3>3. <<<<"y">>>> \in Seq(BareIds) /\ Len(<<<<"y">>>>) = 1
      <4>1. <<"y">> \in BareIds
        BY NamesAssumption, Zenon DEF BareIds
      <4>. QED  BY <4>1
    <3>4. PICK own : own = Own(<<<<"y">>>>)
      OBVIOUS
    <3>5. own \in Seq(ColumnIds) /\ Len(own) = 1
      BY <3>2, <3>3, <3>4, OwnMade
    <3>6. own # << >>
      BY <3>5
    <3>7. own \in Seq(PlainIds)
      BY <3>5, PlainSequences, Zenon
    <3>. QED  BY <2>1, <3>4, <3>6, <3>7, FirstElement, Zenon
  <2>5. PICK map : map = [id \in {y} |-> Top.cols[column]]
    OBVIOUS
  <2>6. Strips(map)
    <3>1. DOMAIN map = {y} /\ \A id \in {y} : map[id] = Top.cols[column]
      BY <2>5
    <3>2. y \notin CteIds
      BY <2>4 DEF PlainIds
    <3>. QED  BY <2>3, <3>1, <3>2 DEF Strips
  <2>7. PICK e : e = SubstituteColumnTokens(Lambda(x, y), map)
    OBVIOUS
  <2>8. e \in ExprType
    BY <2>4, <2>6, <2>7, LambdaMade, Substituted
  <2>9. EmitsMap(e)
    BY <2>2, <2>5, <2>7 DEF EmitsMap
  <2>. QED  BY <1>1, <2>8, <2>9, MapEmitted
<1>. QED  BY <1>3, <1>4

LEMMA UnionOk ==
    ASSUME menu \in Menus, ListOk(nodes, open), Union
    PROVE  ListOk(nodes', open')
<1>1. Len(open) > 1 /\ open # << >>
  BY BelowFacts DEF Union
<1>2. Len(open) \in Nat /\ Top.cte_name \in CteIds
  BY <1>1, TopFacts
<1>3. Below.cte_name \in CteIds /\ Below.cols \in Seq(ColumnIds) /\ Below.cols # << >>
  BY <1>1, BelowFacts
<1>4. 2 \in 0..Len(open)
  BY <1>1, <1>2
<1>5. PICK names : names = <<Below.cte_name, Top.cte_name>>
  OBVIOUS
<1>6. PICK parts : parts = Parts(<< >>, names, "UNION ALL")
  OBVIOUS
<1>7. parts \in PartsType /\ parts.from = names
  <2>1. Below.cte_name \in Ids /\ Top.cte_name \in Ids
    BY <1>2, <1>3, PlainSequences
  <2>2. names \in Seq(Ids) /\ "UNION ALL" \in Tails /\ << >> \in Seq(ExprType)
    BY <1>5, <2>1 DEF Tails
  <2>. QED  BY <1>6, <2>2, PartsMade
<1>8. ReadsWell(nodes, open, Len(open) - 2, parts)
  BY <1>1, <1>5, <1>7, ReadsBoth
<1>9. PICK cols : cols = Own(Bare(Below.cols))
  OBVIOUS
<1>10. Emit(Node(Fresh, cols, FALSE, parts), 2)
  BY <1>5, <1>6, <1>9 DEF Union
<1>11. Len(nodes) + 1 \in DOMAIN ColumnPrefixes
  BY <1>4, <1>10, RoomLeft
<1>12. Bare(Below.cols) \in Seq(BareIds) /\ Len(Bare(Below.cols)) = Len(Below.cols)
  BY <1>3, BareMade
<1>13. cols \in Seq(ColumnIds) /\ Len(cols) = Len(Below.cols)
  BY <1>9, <1>11, <1>12, OwnMade
<1>14. cols # << >>
  <2>1. PICK b \in Seq(ColumnIds) : b = Below.cols /\ b # << >>
    BY <1>3
  <2>. QED  BY <1>13, <2>1
<1>. QED  BY <1>4, <1>7, <1>8, <1>10, <1>13, <1>14, NodeEmitted

LEMMA CteRefOk ==
    ASSUME menu \in Menus, ListOk(nodes, open), NEW k \in DOMAIN nodes, CteRef(k)
    PROVE  ListOk(nodes', open')
<1>1. nodes[k].materialized
  BY DEF CteRef
<1>2. PICK node \in NodeType : node = nodes[k]
  BY DEF ListOk, Named
<1>3. node.cte_name \in CteIds /\ node.cols \in Seq(ColumnIds) /\ node.cols # << >>
  BY NodeFields
<1>4. Len(open) \in Nat /\ 0 \in 0..Len(open) /\ Len(open) - 0 = Len(open)
  BY DEF ListOk, OpenOk
<1>5. PICK parts : parts = Parts(Columns(node.cols), <<node.cte_name>>, "")
  OBVIOUS
<1>6. parts \in PartsType /\ parts.from = <<node.cte_name>>
  <2>1. node.cols \in Seq(PlainIds) /\ <<node.cte_name>> \in Seq(Ids) /\ "" \in Tails
    BY <1>3, PlainSequences DEF Tails
  <2>. QED  BY <1>5, <2>1, ColumnsMade, PartsMade
<1>7. ReadsWell(nodes, open, Len(open) - 0, parts)
  BY <1>1, <1>2, <1>4, <1>6, ReadsBody
<1>8. PICK cols : cols = Own(Bare(node.cols))
  OBVIOUS
<1>9. Emit(Node(Fresh, cols, TRUE, parts), 0)
  BY <1>2, <1>5, <1>8 DEF CteRef
<1>10. Len(nodes) + 1 \in DOMAIN ColumnPrefixes
  BY <1>4, <1>9, RoomLeft
<1>11. Bare(node.cols) \in Seq(BareIds) /\ Len(Bare(node.cols)) = Len(node.cols)
  BY <1>3, BareMade
<1>12. cols \in Seq(ColumnIds) /\ Len(cols) = Len(node.cols)
  BY <1>8, <1>10, <1>11, OwnMade
<1>13. cols # << >>
  BY <1>3, <1>12
<1>. QED  BY <1>4, <1>6, <1>7, <1>9, <1>12, <1>13, NodeEmitted

LEMMA MaterializedBodyOk ==
    ASSUME ListOk(nodes, open), MaterializedBody
    PROVE  ListOk(nodes', open')
<1>1. /\ open # << >>
      /\ nodes' = [nodes EXCEPT ![open[Len(open)]].materialized = TRUE]
      /\ open' = SubSeq(open, 1, Len(open) - 1)
  BY DEF MaterializedBody
<1>. QED  BY <1>1, NodeMaterialized

-----------------------------------------------------------------------------
(* The entries.                                                            *)

EntryType ==
    [cte_name : CteIds, cols : Seq(ColumnIds) \ {<< >>}, materialized : BOOLEAN,
     has_parts : BOOLEAN, parts : PartsType, dependencies : SUBSET CteIds]
Covers(p, deps) == \A id \in CteIds : Reads(p, id) => id \in deps
Covered(list) == \A k \in DOMAIN list : Covers(list[k].parts, list[k].dependencies)
NamedApart(list) == \A k, l \in DOMAIN list : list[k].cte_name = list[l].cte_name => k = l

\* While entries are prepared: each is the node at its place, or reads a producer that is shared.
PreparedOk(list, ns, shared) ==
    /\ list \in Seq(EntryType) /\ Len(list) <= Len(ns) /\ Covered(list)
    /\ \A k \in DOMAIN list :
          /\ list[k].cte_name = CteNames[k] /\ list[k].materialized = ns[k].materialized
          /\ list[k].parts = ns[k].parts \/ Covers(list[k].parts, shared)
\* Once they are: who is neither materialized nor shared is read once.
CountedOk(list, child, shared) ==
    /\ list \in Seq(EntryType) /\ Covered(list) /\ NamedApart(list)
    /\ \A k \in DOMAIN list : ~list[k].materialized /\ list[k].cte_name \notin shared
                                 => OnceRead(list, child, list[k].cte_name)

\* The fields of an entry, typed.
LEMMA EntryFields ==
    ASSUME NEW e \in EntryType
    PROVE  /\ e.cte_name \in CteIds /\ e.cols \in Seq(ColumnIds) /\ e.cols # << >>
           /\ e.has_parts \in BOOLEAN /\ e.materialized \in BOOLEAN /\ e.parts \in PartsType
           /\ e.dependencies \subseteq CteIds
  BY DEF EntryType

\* An entry for the next node.
LEMMA EntryAdded ==
    ASSUME NEW list, NEW ns, NEW shared, PreparedOk(list, ns, shared),
           NEW more, shared \subseteq more, Len(list) < Len(ns), Len(ns) \in Nat,
           NEW e \in EntryType, e.cte_name = CteNames[Len(list) + 1],
           e.materialized = ns[Len(list) + 1].materialized, Covers(e.parts, e.dependencies),
           e.parts = ns[Len(list) + 1].parts \/ Covers(e.parts, more),
           NEW longer, longer = Append(list, e)
    PROVE  PreparedOk(longer, ns, more)
<1>1. list \in Seq(EntryType) /\ Covered(list)
  BY DEF PreparedOk
<1>2. PICK n \in Nat : n = Len(list) /\ DOMAIN list = 1..n
  BY <1>1
<1>3. /\ longer \in Seq(EntryType) /\ Len(longer) = n + 1 /\ DOMAIN longer = 1..(n + 1)
      /\ longer[n + 1] = e /\ \A k \in 1..n : longer[k] = list[k]
  BY <1>1, <1>2
<1>4. \A k \in 1..(n + 1) : k # n + 1 => k \in 1..n
  OBVIOUS
<1>5. \A k \in 1..n : /\ list[k].cte_name = CteNames[k] /\ list[k].materialized = ns[k].materialized
                      /\ list[k].parts = ns[k].parts \/ Covers(list[k].parts, shared)
                      /\ Covers(list[k].parts, list[k].dependencies)
  BY <1>1, <1>2 DEF PreparedOk, Covered
<1>6. \A p : Covers(p, shared) => Covers(p, more)
  BY DEF Covers
<1>7. \A k \in 1..(n + 1) :
          /\ longer[k].cte_name = CteNames[k] /\ longer[k].materialized = ns[k].materialized
          /\ longer[k].parts = ns[k].parts \/ Covers(longer[k].parts, more)
          /\ Covers(longer[k].parts, longer[k].dependencies)
  BY <1>2, <1>3, <1>4, <1>5, <1>6
<1>8. n + 1 <= Len(ns)
  BY <1>2
<1>. QED  BY <1>3, <1>7, <1>8 DEF PreparedOk, Covered

\* Once every node has its entry, who is not shared is read once.
LEMMA PreparedCounted ==
    ASSUME NEW list, NEW ns, NEW stack, NEW shared, PreparedOk(list, ns, shared),
           ListOk(ns, stack), Len(list) = Len(ns), NEW child \in CteIds, Unread(ns, child)
    PROVE  CountedOk(list, child, shared)
<1>1. PICK n \in Nat : n = Len(list) /\ DOMAIN list = 1..n /\ n = Len(ns) /\ DOMAIN ns = 1..n
  BY DEF PreparedOk, ListOk, Named
<1>2. list \in Seq(EntryType) /\ Covered(list) /\ Tree(ns) /\ n <= Len(CteNames)
  BY <1>1 DEF PreparedOk, ListOk, Named
<1>3. \A k \in 1..n : /\ list[k].cte_name = CteNames[k] /\ list[k].materialized = ns[k].materialized
                      /\ list[k].parts = ns[k].parts \/ Covers(list[k].parts, shared)
  BY <1>1 DEF PreparedOk
<1>4. \A j, k \in 1..n : CteNames[k] \in CteIds /\ (CteNames[j] = CteNames[k] => j = k)
  <2>1. \A k \in 1..n : k \in 1..Len(CteNames)
    BY <1>2, NamesDiffer
  <2>. QED  BY <2>1, NamesDiffer
<1>5. NamedApart(list)
  BY <1>1, <1>3, <1>4 DEF NamedApart
<1>6. ASSUME NEW k \in 1..n, ~list[k].materialized, CteNames[k] \notin shared
      PROVE  OnceRead(list, child, CteNames[k])
  <2>1. ReadAtMostOnce(ns, CteNames[k])
    BY <1>1, <1>2, <1>3, <1>6 DEF Tree
  <2>2. \A l \in 1..n : Reads(list[l].parts, CteNames[k]) => list[l].parts = ns[l].parts
    BY <1>3, <1>4, <1>6 DEF Covers
  <2>3. ReadAtMostOnce(list, CteNames[k])
    <3>1. ASSUME NEW i \in DOMAIN list, NEW l \in DOMAIN list,
                 NEW a \in DOMAIN list[i].parts.from, NEW b \in DOMAIN list[l].parts.from,
                 list[i].parts.from[a] = CteNames[k], list[l].parts.from[b] = CteNames[k]
          PROVE  i = l /\ a = b
      <4>1. list[i].parts = ns[i].parts /\ list[l].parts = ns[l].parts
        BY <1>1, <2>2, <3>1 DEF Reads
      <4>. QED  BY <1>1, <2>1, <3>1, <4>1 DEF ReadAtMostOnce
    <3>. QED  BY <3>1 DEF ReadAtMostOnce
  <2>4. ASSUME child = CteNames[k] PROVE Unread(list, CteNames[k])
    BY <1>1, <2>2, <2>4 DEF Unread
  <2>. QED  BY <2>3, <2>4 DEF OnceRead
<1>. QED  BY <1>1, <1>2, <1>3, <1>5, <1>6 DEF CountedOk

\* Some of the entries of a list, none of them twice.
Picked(some, list) ==
    /\ some \in Seq(EntryType) /\ NamedApart(some)
    /\ \A k \in DOMAIN some : \E j \in DOMAIN list : some[k] = list[j]

\* That holds of every part of the list: pruning drops readers, it adds none.
LEMMA PickedCounted ==
    ASSUME NEW list, NEW child, NEW shared, CountedOk(list, child, shared),
           NEW some, Picked(some, list)
    PROVE  CountedOk(some, child, shared)
<1>1. some \in Seq(EntryType) /\ NamedApart(some) /\ NamedApart(list) /\ Covered(list)
  BY DEF Picked, CountedOk
<1>2. \A k \in DOMAIN some : \E j \in DOMAIN list : some[k] = list[j]
  BY DEF Picked
<1>3. Covered(some)
  BY <1>1, <1>2 DEF Covered
<1>4. ASSUME NEW k \in DOMAIN some, ~some[k].materialized, some[k].cte_name \notin shared
      PROVE  OnceRead(some, child, some[k].cte_name)
  <2>1. PICK id : id = some[k].cte_name
    OBVIOUS
  <2>2. OnceRead(list, child, id)
    BY <1>2, <1>4, <2>1 DEF CountedOk
  <2>3. ReadAtMostOnce(some, id)
    <3>1. ASSUME NEW i \in DOMAIN some, NEW l \in DOMAIN some,
                 NEW a \in DOMAIN some[i].parts.from, NEW b \in DOMAIN some[l].parts.from,
                 some[i].parts.from[a] = id, some[l].parts.from[b] = id
          PROVE  i = l /\ a = b
      <4>1. PICK x \in DOMAIN list, y \in DOMAIN list : some[i] = list[x] /\ some[l] = list[y]
        BY <1>2
      <4>2. x = y /\ a = b
        BY <2>2, <3>1, <4>1 DEF OnceRead, ReadAtMostOnce
      <4>. QED  BY <1>1, <4>1, <4>2 DEF NamedApart
    <3>. QED  BY <3>1 DEF ReadAtMostOnce
  <2>4. child = id => Unread(some, id)
    BY <1>2, <2>2 DEF OnceRead, Unread
  <2>. QED  BY <2>1, <2>3, <2>4 DEF OnceRead
<1>. QED  BY <1>1, <1>3, <1>4 DEF CountedOk

\* The recursion of Reachable.
Reaching(f, list, required) ==
    f = [k \in 0..Len(list) |->
            IF k = 0 THEN << >>
            ELSE IF list[k].cte_name \in required THEN Append(f[k - 1], list[k])
            ELSE f[k - 1]]

\* The recursion of Reachable, one step back.
LEMMA ReachingUnfold ==
    ASSUME NEW f, NEW list, NEW required, Reaching(f, list, required), NEW k \in 0..Len(list)
    PROVE  f[k] = IF k = 0 THEN << >>
                  ELSE IF list[k].cte_name \in required THEN Append(f[k - 1], list[k])
                  ELSE f[k - 1]
<1>. DEFINE e(j) == IF j = 0 THEN << >>
                    ELSE IF list[j].cte_name \in required THEN Append(f[j - 1], list[j])
                    ELSE f[j - 1]
<1>1. f = [j \in 0..Len(list) |-> e(j)]
  BY DEF Reaching
<1>. HIDE DEF e
<1>2. f[k] = e(k)
  BY <1>1
<1>. QED  BY <1>2 DEF e

\* It has a solution.
LEMMA ReachingExists ==
    ASSUME NEW list \in Seq(EntryType), NEW required
    PROVE  \E f : Reaching(f, list, required)
<1>0. PICK n \in Nat : n = Len(list) /\ DOMAIN list = 1..n
  OBVIOUS
<1>. DEFINE after(k, t) == IF list[k].cte_name \in required THEN Append(t, list[k]) ELSE t
<1>1. PICK S : S = Seq(EntryType)
  OBVIOUS
<1>2. PICK step : step = [k \in 1..n |-> [t \in S |-> after(k, t)]]
  OBVIOUS
<1>3. \A k \in 1..n, t \in S : after(k, t) \in S
  BY <1>0, <1>1
<1>. HIDE DEF after
<1>4. Steps(step, n, S)
  BY <1>2, <1>3 DEF Steps
<1>5. << >> \in S
  BY <1>1
<1>6. PICK f : Follows(f, n, S, << >>, step)
  BY <1>4, <1>5, RecursiveFunction, Zenon
<1>7. f \in [0..n -> S] /\ f[0] = << >> /\ \A k \in 1..n : f[k] = step[k][f[k - 1]]
  BY <1>6 DEF Follows
<1>8. \A k \in 1..n : f[k] = after(k, f[k - 1])
  <2>1. ASSUME NEW k \in 1..n PROVE f[k] = after(k, f[k - 1])
    <3>1. k - 1 \in 0..n
      OBVIOUS
    <3>2. f[k - 1] \in S
      BY <1>7, <3>1
    <3>. QED  BY <1>2, <1>7, <3>2
  <2>. QED  BY <2>1
<1>9. \A k \in 0..n : k # 0 => k \in 1..n
  OBVIOUS
<1>10. f = [k \in 0..n |-> IF k = 0 THEN << >> ELSE after(k, f[k - 1])]
  BY <1>7, <1>8, <1>9
<1>11. Reaching(f, list, required)
  BY <1>0, <1>10 DEF Reaching, after
<1>. QED  BY <1>11

\* Reachable picks entries, each once.
LEMMA ReachablePicked ==
    ASSUME prepared \in Seq(EntryType), NamedApart(prepared), NEW required
    PROVE  Picked(Reachable(required), prepared)
<1>0. PICK n \in Nat : n = Len(prepared) /\ DOMAIN prepared = 1..n
  OBVIOUS
<1>. DEFINE f == CHOOSE g : Reaching(g, prepared, required)
<1>1. Reachable(required) = f[n]
  BY <1>0 DEF Reachable, Reaching
<1>2. Reaching(f, prepared, required)
  BY ReachingExists
<1>. HIDE DEF f
<1>3. \A k \in 0..n : f[k] = IF k = 0 THEN << >>
                            ELSE IF prepared[k].cte_name \in required THEN Append(f[k - 1], prepared[k])
                            ELSE f[k - 1]
  BY <1>0, <1>2, ReachingUnfold
\* Of the first m entries.
<1>. DEFINE First(s, m) ==
               /\ s \in Seq(EntryType) /\ NamedApart(s)
               /\ \A k \in DOMAIN s : \E j \in 1..m : s[k] = prepared[j]
            T == {m \in Nat : m <= n => First(f[m], m)}
<1>4. 0 \in T
  <2>1. f[0] = << >>
    BY <1>3
  <2>2. << >> \in Seq(EntryType) /\ DOMAIN << >> = {}
    OBVIOUS
  <2>. QED  BY <2>1, <2>2 DEF NamedApart
<1>5. ASSUME NEW m \in Nat, m \in T PROVE m + 1 \in T
  <2>1. SUFFICES ASSUME m + 1 <= n PROVE First(f[m + 1], m + 1)
    OBVIOUS
  <2>2. m + 1 \in 0..n /\ m + 1 # 0 /\ m + 1 \in 1..n /\ m + 1 - 1 = m /\ m <= n
    BY <2>1
  <2>3. f[m + 1] = IF prepared[m + 1].cte_name \in required THEN Append(f[m], prepared[m + 1]) ELSE f[m]
    BY <1>3, <2>2
  <2>4. PICK s : s = f[m]
    OBVIOUS
  <2>5. s \in Seq(EntryType) /\ NamedApart(s) /\ \A k \in DOMAIN s : \E j \in 1..m : s[k] = prepared[j]
    BY <1>5, <2>2, <2>4
  <2>6. \A j \in 1..m : j \in 1..(m + 1) /\ j \in 1..n /\ j # m + 1
    BY <2>2
  <2>7. CASE prepared[m + 1].cte_name \in required
    <3>1. PICK r : r = Append(s, prepared[m + 1])
      OBVIOUS
    <3>2. PICK l \in Nat : l = Len(s) /\ DOMAIN s = 1..l
      BY <2>5
    <3>3. prepared[m + 1] \in EntryType
      BY <1>0, <2>2
    <3>4. r \in Seq(EntryType) /\ DOMAIN r = 1..(l + 1) /\ r[l + 1] = prepared[m + 1] /\ \A k \in 1..l : r[k] = s[k]
      BY <2>5, <3>1, <3>2, <3>3
    <3>5. \A k \in 1..(l + 1) : k # l + 1 => k \in 1..l
      OBVIOUS
    <3>6. m + 1 \in 1..(m + 1)
      OBVIOUS
    <3>7. \A k \in DOMAIN r : \E j \in 1..(m + 1) : r[k] = prepared[j]
      BY <2>5, <2>6, <3>2, <3>4, <3>5, <3>6
    <3>8. ASSUME NEW k \in 1..l PROVE s[k].cte_name # prepared[m + 1].cte_name
      <4>1. PICK j \in 1..m : s[k] = prepared[j]
        BY <2>5, <3>2
      <4>. QED  BY <1>0, <2>2, <2>6, <4>1 DEF NamedApart
    <3>9. NamedApart(r)
      BY <2>5, <3>2, <3>4, <3>5, <3>8 DEF NamedApart
    <3>. QED  BY <2>3, <2>4, <2>7, <3>1, <3>4, <3>7, <3>9
  <2>8. CASE prepared[m + 1].cte_name \notin required
    BY <2>3, <2>4, <2>5, <2>6, <2>8
  <2>. QED  BY <2>7, <2>8
<1>. HIDE DEF T
<1>6. Nat \subseteq T
  BY <1>4, <1>5, InductionOnNat
<1>7. First(f[n], n)
  <2>1. n \in T
    BY <1>6
  <2>2. n <= n
    OBVIOUS
  <2>. QED  BY <2>1, <2>2 DEF T
<1>. QED  BY <1>0, <1>1, <1>7 DEF Picked

-----------------------------------------------------------------------------
(* What is materialized.                                                   *)

SharedOk(list, child) ==
    /\ list \in Seq(EntryType) /\ Covered(list) /\ NamedApart(list)
    /\ \A k \in DOMAIN list : ~list[k].materialized => OnceRead(list, child, list[k].cte_name)
\* Depths that grow from what is inlined to what it is inlined into, and stay below the bound.
DepthsOf(depth, list) ==
    \A k \in DOMAIN list :
        /\ depth[k] \in Nat /\ depth[k] >= 1
        /\ \A j \in 1..(k - 1) : ~list[j].materialized /\ Reads(list[k].parts, list[j].cte_name)
              => depth[j] < MAX_INLINE_CTE_DEPTH /\ depth[j] < depth[k]
DepthOk(list) == Len(list) < MAX_INLINE_CTE_DEPTH \/ \E depth : DepthsOf(depth, list)

\* A list with other marks.
Remarked(list, other) ==
    /\ other \in Seq(EntryType) /\ DOMAIN other = DOMAIN list
    /\ \A k \in DOMAIN list : /\ other[k].cte_name = list[k].cte_name
                              /\ other[k].parts = list[k].parts
                              /\ other[k].dependencies = list[k].dependencies

\* Marks change no reference.
LEMMA RemarkedKeeps ==
    ASSUME NEW list, NEW other, Remarked(list, other), Covered(list), NamedApart(list)
    PROVE  /\ Covered(other) /\ NamedApart(other)
           /\ \A child, id : OnceRead(list, child, id) => OnceRead(other, child, id)
<1>1. DOMAIN other = DOMAIN list /\ \A k \in DOMAIN list : other[k].parts = list[k].parts
  BY DEF Remarked
<1>2. /\ \A id : Unread(list, id) => Unread(other, id)
      /\ \A id : ReadAtMostOnce(list, id) => ReadAtMostOnce(other, id)
  BY <1>1, SameBodies
<1>3. Covered(other)
  BY DEF Covered, Remarked
<1>4. NamedApart(other)
  BY DEF NamedApart, Remarked
<1>. QED  BY <1>2, <1>3, <1>4 DEF OnceRead

\* Entries are bodies.
LEMMA EntriesAreBodies ==
    ASSUME NEW list \in Seq(EntryType)
    PROVE  Bodies(list)
<1>1. \A k \in DOMAIN list : list[k].parts \in PartsType
  BY EntryFields
<1>2. PICK n \in Nat : n = Len(list) /\ DOMAIN list = 1..n /\ list = [k \in 1..n |-> list[k]]
  OBVIOUS
<1>3. \A k \in 1..n : list[k] \in Names(list)
  BY <1>2 DEF Names
<1>4. PICK S : S = Names(list)
  OBVIOUS
<1>5. list \in [1..n -> S]
  BY <1>2, <1>3, <1>4
<1>6. list \in Seq(S)
  BY <1>5, FunctionIsSequence
<1>. QED  BY <1>1, <1>4, <1>6 DEF Bodies

\* After the count, who is not materialized is read once.
LEMMA MaterializeSharedOk ==
    ASSUME CountedOk(prepared, final.child, reused), MaterializeShared
    PROVE  SharedOk(prepared', final.child)
<1>1. prepared \in Seq(EntryType) /\ Covered(prepared) /\ NamedApart(prepared)
  BY DEF CountedOk
<1>2. PICK n \in Nat : n = Len(prepared) /\ DOMAIN prepared = 1..n
  BY <1>1
<1>3. PICK list : list = prepared'
  OBVIOUS
<1>4. list = [k \in 1..n |-> IF prepared[k].cte_name \in reused
                    THEN [prepared[k] EXCEPT !.materialized = ReferenceCount(prepared[k].cte_name) > 1]
                    ELSE prepared[k]]
  BY <1>2, <1>3 DEF MaterializeShared
<1>5. ASSUME NEW k \in 1..n
      PROVE  /\ list[k] \in EntryType
             /\ list[k].cte_name = prepared[k].cte_name /\ list[k].parts = prepared[k].parts
             /\ list[k].dependencies = prepared[k].dependencies
             /\ list[k].materialized =
                   IF prepared[k].cte_name \in reused THEN ReferenceCount(prepared[k].cte_name) > 1
                   ELSE prepared[k].materialized
  <2>1. PICK e \in EntryType : e = prepared[k]
    BY <1>1, <1>2
  <2>2. PICK many \in BOOLEAN : many <=> ReferenceCount(prepared[k].cte_name) > 1
    <3>1. CASE ReferenceCount(prepared[k].cte_name) > 1
      BY <3>1
    <3>2. CASE ~(ReferenceCount(prepared[k].cte_name) > 1)
      BY <3>2
    <3>. QED  BY <3>1, <3>2
  <2>3. list[k] = IF prepared[k].cte_name \in reused THEN [e EXCEPT !.materialized = many] ELSE e
    BY <1>4, <2>1, <2>2
  <2>4. CASE prepared[k].cte_name \in reused
    BY <2>1, <2>2, <2>3, <2>4 DEF EntryType
  <2>5. CASE prepared[k].cte_name \notin reused
    BY <2>1, <2>3, <2>5
  <2>. QED  BY <2>4, <2>5
<1>6. list \in Seq(EntryType) /\ DOMAIN list = 1..n
  <2>1. list \in [1..n -> EntryType]
    BY <1>4, <1>5
  <2>. QED  BY <2>1, FunctionIsSequence
<1>7. Remarked(prepared, list)
  BY <1>2, <1>5, <1>6 DEF Remarked
<1>8. /\ Covered(list) /\ NamedApart(list)
      /\ \A child, id : OnceRead(prepared, child, id) => OnceRead(list, child, id)
  BY <1>1, <1>7, RemarkedKeeps
<1>9. ASSUME NEW k \in 1..n, ~list[k].materialized
      PROVE  OnceRead(list, final.child, list[k].cte_name)
  <2>1. PICK id \in CteIds : id = prepared[k].cte_name /\ id = list[k].cte_name
    BY <1>1, <1>2, <1>5, EntryFields
  <2>2. CASE id \in reused
    <3>1. ReferenceCount(id) \in Nat /\ (ReferenceCount(id) <= 1 <=> OnceRead(prepared, final.child, id))
      BY <1>1, EntriesAreBodies, ReferenceCountIs
    <3>2. ~(ReferenceCount(id) > 1)
      BY <1>5, <1>9, <2>1, <2>2
    <3>3. OnceRead(prepared, final.child, id)
      BY <3>1, <3>2
    <3>. QED  BY <1>8, <2>1, <3>3
  <2>3. CASE id \notin reused
    <3>1. ~prepared[k].materialized
      BY <1>5, <1>9, <2>1, <2>3
    <3>2. OnceRead(prepared, final.child, id)
      BY <1>2, <2>1, <2>3, <3>1 DEF CountedOk
    <3>. QED  BY <1>8, <2>1, <3>2
  <2>. QED  BY <2>2, <2>3
<1>. QED  BY <1>3, <1>6, <1>8, <1>9 DEF SharedOk

\* The greatest of some numbers and 0.
LEMMA MaxOver ==
    ASSUME NEW h \in Seq(Nat), NEW D, D \subseteq DOMAIN h
    PROVE  /\ Max({0} \cup {h[j] : j \in D}) \in Nat
           /\ \A i \in D : h[i] <= Max({0} \cup {h[j] : j \in D})
           /\ \A b \in Nat : (\A j \in D : h[j] <= b) => Max({0} \cup {h[j] : j \in D}) <= b
<1>1. PICK t \in Nat : t = Total(h)
  BY TotalTyped
<1>2. \A j \in DOMAIN h : h[j] <= t /\ h[j] \in Nat
  <2>1. DOMAIN h = 1..Len(h) /\ \A j \in DOMAIN h : h[j] \in Nat
    OBVIOUS
  <2>. QED  BY <1>1, <2>1, TotalAtLeast
<1>3. PICK V : V = {0} \cup {h[j] : j \in D}
  OBVIOUS
<1>4. 0 \in V /\ \A v \in V : v \in Nat /\ v <= t /\ (v = 0 \/ \E j \in D : v = h[j])
  BY <1>1, <1>2, <1>3
<1>5. \A j \in D : h[j] \in V
  BY <1>3
<1>6. \E x \in V : \A y \in V : x >= y
  <2>1. PICK U : U = {u \in Nat : \E v \in V : u = t - v}
    OBVIOUS
  <2>2. \A v \in V : t - v \in U
    BY <1>1, <1>4, <2>1
  <2>3. U \subseteq Nat /\ U # {}
    BY <1>4, <2>1, <2>2
  <2>4. PICK u \in U : \A w \in U : u <= w
    BY <2>3, LeastNumber
  <2>5. PICK x \in V : u = t - x
    BY <2>1
  <2>6. ASSUME NEW y \in V PROVE x >= y
    <3>1. u <= t - y
      BY <2>2, <2>4
    <3>. QED  BY <1>1, <1>4, <2>5, <3>1
  <2>. QED  BY <2>6
<1>7. PICK M : M = Max(V)
  OBVIOUS
<1>8. M \in V /\ \A y \in V : M >= y
  BY <1>6, <1>7 DEF Max
<1>9. M \in Nat
  BY <1>4, <1>8
<1>10. \A j \in D : h[j] <= M
  <2>1. ASSUME NEW j \in D PROVE h[j] <= M
    <3>1. h[j] \in V /\ h[j] \in Nat /\ M >= h[j]
      BY <1>2, <1>5, <1>8
    <3>. QED  BY <1>9, <3>1
  <2>. QED  BY <2>1
<1>11. \A b \in Nat : (\A j \in D : h[j] <= b) => M <= b
  BY <1>4, <1>8
<1>. QED  BY <1>3, <1>7, <1>9, <1>10, <1>11

\* What an entry reads before it, and how deep it is over what these are.
Dependent(k) == {j \in 1..(k - 1) : prepared[j].cte_name \in prepared[k].dependencies}
DepthAbove(f, k) == DepthOver({f[j] : j \in Dependent(k)})
Kept(f, k) ==
    IF prepared[k].materialized \/ TooDeep(k, DepthAbove(f, k)) THEN 0 ELSE DepthAbove(f, k)
\* The recursion of InlineDepth.
Inlines(f) == f = [k \in DOMAIN prepared |-> Kept(f, k)]

\* An entry is deeper than what it depends on.
LEMMA DepthAboveTyped ==
    ASSUME NEW f \in Seq(Nat), NEW k, Dependent(k) \subseteq DOMAIN f
    PROVE  /\ DepthAbove(f, k) \in Nat /\ DepthAbove(f, k) >= 1 /\ Kept(f, k) \in Nat
           /\ \A j \in Dependent(k) : f[j] < DepthAbove(f, k)
<1>1. PICK D : D = Dependent(k)
  OBVIOUS
<1>2. PICK m \in Nat : m = Max({0} \cup {f[j] : j \in D})
  BY <1>1, MaxOver
<1>3. \A j \in D : f[j] <= m
  BY <1>1, <1>2, MaxOver
<1>4. DepthAbove(f, k) = 1 + m
  BY <1>1, <1>2 DEF DepthAbove, DepthOver
<1>5. \A j \in D : f[j] \in Nat
  BY <1>1
<1>6. PICK d \in Nat : d = DepthAbove(f, k) /\ d = 1 + m
  BY <1>4
<1>7. d >= 1 /\ \A j \in D : f[j] < d
  BY <1>3, <1>5, <1>6
<1>8. Kept(f, k) \in Nat
  BY <1>6 DEF Kept
<1>. QED  BY <1>1, <1>6, <1>7, <1>8

\* It uses the values before k only.
LEMMA KeptByEarlier ==
    ASSUME NEW f, NEW g, NEW k \in Nat, \A j \in 1..(k - 1) : f[j] = g[j]
    PROVE  Kept(f, k) = Kept(g, k)
<1>1. \A j \in Dependent(k) : f[j] = g[j]
  BY DEF Dependent
<1>2. PICK D : D = Dependent(k)
  OBVIOUS
<1>3. {f[j] : j \in D} = {g[j] : j \in D}
  BY <1>1, <1>2
<1>4. DepthAbove(f, k) = DepthAbove(g, k)
  BY <1>2, <1>3 DEF DepthAbove
<1>. QED  BY <1>4 DEF Kept

\* The recursion of InlineDepth has a solution,
LEMMA InlinesExists ==
    ASSUME NEW n \in Nat, DOMAIN prepared = 1..n
    PROVE  \E f : f \in Seq(Nat) /\ Len(f) = n /\ Inlines(f)
<1>1. PICK step : step = [k \in 1..n |-> [h \in Seq(Nat) |-> IF Kept(h, k) \in Nat THEN Kept(h, k) ELSE 0]]
  OBVIOUS
<1>2. Histories(step, n, Nat)
  <2>1. ASSUME NEW k \in 1..n
        PROVE  [h \in Seq(Nat) |-> IF Kept(h, k) \in Nat THEN Kept(h, k) ELSE 0] \in [Seq(Nat) -> Nat]
    OBVIOUS
  <2>2. step \in [1..n -> [Seq(Nat) -> Nat]]
    BY <1>1, <2>1
  <2>. QED  BY <2>2 DEF Histories
<1>3. PICK N : N = Nat
  OBVIOUS
<1>4. PICK f : FollowsAll(f, n, N, step)
  BY <1>2, <1>3, CourseOfValues, Zenon
<1>5. f \in [1..n -> Nat] /\ \A k \in 1..n : f[k] = step[k][[j \in 1..(k - 1) |-> f[j]]]
  BY <1>3, <1>4 DEF FollowsAll
<1>6. f \in Seq(Nat) /\ Len(f) = n /\ DOMAIN f = 1..n
  BY <1>5, FunctionIsSequence
<1>7. ASSUME NEW k \in 1..n PROVE f[k] = Kept(f, k)
  <2>1. PICK h : h = [j \in 1..(k - 1) |-> f[j]]
    OBVIOUS
  <2>2. \A j \in 1..(k - 1) : j \in 1..n /\ h[j] = f[j]
    BY <2>1
  <2>3. h \in Seq(Nat) /\ DOMAIN h = 1..(k - 1)
    <3>1. h \in [1..(k - 1) -> Nat] /\ k - 1 \in Nat
      BY <1>5, <2>1, <2>2
    <3>. QED  BY <3>1, FunctionIsSequence
  <2>4. Dependent(k) \subseteq DOMAIN h
    BY <2>3 DEF Dependent
  <2>5. Kept(h, k) \in Nat
    BY <2>3, <2>4, DepthAboveTyped
  <2>6. Kept(h, k) = Kept(f, k)
    <3>1. k \in Nat
      OBVIOUS
    <3>. QED  BY <2>2, <3>1, KeptByEarlier
  <2>7. f[k] = step[k][h]
    BY <1>5, <2>1
  <2>8. step[k][h] = IF Kept(h, k) \in Nat THEN Kept(h, k) ELSE 0
    BY <1>1, <2>3
  <2>. QED  BY <2>5, <2>6, <2>7, <2>8
<1>8. f = [k \in 1..n |-> Kept(f, k)]
  BY <1>5, <1>7
<1>9. Inlines(f)
  BY <1>8 DEF Inlines
<1>. QED  BY <1>6, <1>9

\* which is what InlineDepth is.
LEMMA InlineDepthIs ==
    ASSUME NEW n \in Nat, DOMAIN prepared = 1..n
    PROVE  \E f \in Seq(Nat) : /\ f = InlineDepth /\ DOMAIN f = 1..n
                               /\ \A k \in 1..n : f[k] = Kept(f, k)
<1>. DEFINE f == CHOOSE g : Inlines(g)
<1>1. InlineDepth = f
  BY DEF InlineDepth, Inlines, Kept, DepthAbove, Dependent
<1>2. Inlines(f)
  BY InlinesExists
<1>. HIDE DEF f
<1>. DEFINE e(k) == Kept(f, k)
<1>3. f = [k \in 1..n |-> e(k)]
  BY <1>2 DEF Inlines
<1>. HIDE DEF e
<1>4. DOMAIN f = 1..n /\ \A k \in 1..n : f[k] = e(k)
  BY <1>3
<1>5. \A k \in 1..n : f[k] \in Nat
  <2>1. PICK g : g \in Seq(Nat) /\ Len(g) = n /\ Inlines(g)
    BY InlinesExists
  <2>2. \A k \in 1..n : g[k] = Kept(g, k) /\ g[k] \in Nat
    <3>. DEFINE r(k) == Kept(g, k)
    <3>1. g = [k \in 1..n |-> r(k)]
      BY <2>1 DEF Inlines
    <3>. HIDE DEF r
    <3>2. \A k \in 1..n : g[k] = r(k)
      BY <3>1
    <3>3. \A k \in 1..n : g[k] \in Nat
      BY <2>1
    <3>. QED  BY <3>2, <3>3 DEF r
  <2>. DEFINE P(m) == \A k \in 1..n : k <= m => f[k] = g[k]
              U == {m \in Nat : P(m)}
  <2>3. 0 \in U
    OBVIOUS
  <2>4. ASSUME NEW m \in Nat, m \in U PROVE m + 1 \in U
    <3>1. ASSUME NEW k \in 1..n, k <= m + 1 PROVE f[k] = g[k]
      <4>1. \A j \in 1..(k - 1) : j \in 1..n /\ j <= m
        BY <3>1
      <4>2. \A j \in 1..(k - 1) : f[j] = g[j]
        BY <2>4, <4>1
      <4>3. k \in Nat
        OBVIOUS
      <4>4. Kept(f, k) = Kept(g, k)
        BY <4>2, <4>3, KeptByEarlier
      <4>. QED  BY <1>4, <2>2, <4>4 DEF e
    <3>. QED  BY <3>1
  <2>. HIDE DEF U
  <2>5. Nat \subseteq U
    BY <2>3, <2>4, InductionOnNat
  <2>6. P(n)
    BY <2>5 DEF U
  <2>7. \A k \in 1..n : k <= n
    OBVIOUS
  <2>. QED  BY <2>2, <2>6, <2>7
<1>6. f \in Seq(Nat)
  <2>1. f \in [1..n -> Nat]
    BY <1>3, <1>4, <1>5
  <2>. QED  BY <2>1, FunctionIsSequence
<1>. QED  BY <1>1, <1>4, <1>6 DEF e

\* The boundaries leave depths below the bound.
LEMMA BoundDepthOk ==
    ASSUME SharedOk(prepared, final.child), BoundDepth
    PROVE  SharedOk(prepared', final.child) /\ DepthOk(prepared')
<1>1. prepared \in Seq(EntryType) /\ Covered(prepared) /\ NamedApart(prepared)
  BY DEF SharedOk
<1>2. PICK n \in Nat : n = Len(prepared) /\ DOMAIN prepared = 1..n
  BY <1>1
<1>3. CASE n < MAX_INLINE_CTE_DEPTH
  <2>1. prepared' = prepared
    BY <1>2, <1>3 DEF BoundDepth
  <2>. QED  BY <1>2, <1>3, <2>1 DEF DepthOk
<1>4. CASE ~(n < MAX_INLINE_CTE_DEPTH)
  <2>1. PICK f \in Seq(Nat) : f = InlineDepth /\ DOMAIN f = 1..n /\ \A k \in 1..n : f[k] = Kept(f, k)
    BY <1>2, InlineDepthIs
  <2>2. PICK list : list = prepared'
    OBVIOUS
  <2>3. list = [k \in 1..n |-> [prepared[k] EXCEPT !.materialized = f[k] = 0]]
    BY <1>2, <1>4, <2>1, <2>2 DEF BoundDepth
  <2>4. ASSUME NEW k \in 1..n
        PROVE  /\ list[k] \in EntryType
               /\ list[k].cte_name = prepared[k].cte_name /\ list[k].parts = prepared[k].parts
               /\ list[k].dependencies = prepared[k].dependencies
               /\ list[k].materialized <=> f[k] = 0
    <3>1. PICK e \in EntryType : e = prepared[k]
      BY <1>1, <1>2
    <3>2. PICK cut \in BOOLEAN : cut <=> f[k] = 0
      <4>1. CASE f[k] = 0
        BY <4>1
      <4>2. CASE f[k] # 0
        BY <4>2
      <4>. QED  BY <4>1, <4>2
    <3>3. list[k] = [e EXCEPT !.materialized = cut]
      BY <2>3, <3>1, <3>2
    <3>. QED  BY <3>1, <3>2, <3>3 DEF EntryType
  <2>5. list \in Seq(EntryType) /\ DOMAIN list = 1..n
    <3>1. list \in [1..n -> EntryType]
      BY <2>3, <2>4
    <3>. QED  BY <3>1, FunctionIsSequence
  <2>6. Remarked(prepared, list)
    BY <1>2, <2>4, <2>5 DEF Remarked
  <2>7. /\ Covered(list) /\ NamedApart(list)
        /\ \A child, id : OnceRead(prepared, child, id) => OnceRead(list, child, id)
    BY <1>1, <2>6, RemarkedKeeps
  <2>8. ASSUME NEW k \in 1..n, ~list[k].materialized
        PROVE  /\ ~prepared[k].materialized /\ f[k] = DepthAbove(f, k)
               /\ ~TooDeep(k, DepthAbove(f, k))
               /\ OnceRead(prepared, final.child, prepared[k].cte_name)
    <3>1. f[k] # 0 /\ f[k] = Kept(f, k)
      BY <2>1, <2>4, <2>8
    <3>2. ~prepared[k].materialized /\ f[k] = DepthAbove(f, k) /\ ~TooDeep(k, DepthAbove(f, k))
      BY <3>1 DEF Kept
    <3>. QED  BY <1>2, <3>2 DEF SharedOk
  <2>9. SharedOk(list, final.child)
    BY <2>4, <2>5, <2>7, <2>8 DEF SharedOk
  <2>10. PICK depth : depth = [k \in 1..n |-> DepthAbove(f, k)]
    OBVIOUS
  <2>11. ASSUME NEW k \in 1..n
         PROVE  /\ depth[k] = DepthAbove(f, k) /\ depth[k] \in Nat /\ depth[k] >= 1
                /\ \A j \in Dependent(k) : f[j] < depth[k]
    <3>1. Dependent(k) \subseteq DOMAIN f
      BY <2>1 DEF Dependent
    <3>. QED  BY <2>1, <2>10, <3>1, DepthAboveTyped
  <2>12. ASSUME NEW k \in 1..n, NEW j \in 1..(k - 1), ~list[j].materialized,
                Reads(list[k].parts, list[j].cte_name)
         PROVE  depth[j] < MAX_INLINE_CTE_DEPTH /\ depth[j] < depth[k]
    <3>1. j \in 1..n
      OBVIOUS
    <3>2. PICK id \in CteIds : id = prepared[j].cte_name
      BY <1>1, <1>2, <3>1, EntryFields
    <3>3. Reads(prepared[k].parts, id)
      BY <2>4, <2>12, <3>1, <3>2
    <3>4. id \in prepared[k].dependencies
      BY <1>1, <1>2, <3>3 DEF Covered, Covers
    <3>5. j \in Dependent(k)
      BY <3>2, <3>4 DEF Dependent
    <3>6. f[j] = depth[j] /\ ~TooDeep(j, depth[j]) /\ OnceRead(prepared, final.child, id)
      BY <2>8, <2>11, <2>12, <3>1, <3>2
    <3>7. ReferenceCount(id) = 1
      <4>1. /\ ReferenceCount(id) \in Nat /\ ReferenceCount(id) <= 1 /\ ReferenceCount(id) >= 1
        BY <1>1, <1>2, <3>3, <3>6, EntriesAreBodies, ReferenceCountIs
      <4>. QED  BY <4>1
    <3>8. ~(depth[j] >= MAX_INLINE_CTE_DEPTH)
      BY <3>2, <3>6, <3>7 DEF TooDeep
    <3>9. depth[j] \in Nat /\ MAX_INLINE_CTE_DEPTH \in Nat
      BY <2>11, <3>1, DepthAssumption
    <3>. QED  BY <2>11, <3>5, <3>6, <3>8, <3>9
  <2>13. DepthsOf(depth, list)
    BY <2>5, <2>11, <2>12 DEF DepthsOf
  <2>. QED  BY <2>2, <2>9, <2>13 DEF DepthOk
<1>. QED  BY <1>3, <1>4

-----------------------------------------------------------------------------
(* The invariant.                                                          *)

IsFinal(end, ns) ==
    /\ end.child \in CteIds /\ Unread(ns, end.child) /\ end.cols \in Seq(PlainIds)
    /\ Len(end.final_column_list) \in Nat
Stages == {"list", "prepare", "count", "depth", "rename", "done"}
TextInv ==
    /\ menu \in Menus /\ ListOk(nodes, open) /\ stage \in Stages /\ Strips(rename)
    /\ stage = "list" => prepared = << >> /\ known = {} /\ DOMAIN signatures = {}
    /\ stage = "prepare" => /\ PreparedOk(prepared, nodes, reused)
                            /\ known = {CteNames[k] : k \in DOMAIN prepared}
                            /\ \A s \in DOMAIN signatures : signatures[s] \in DOMAIN prepared
    /\ stage # "list" => IsFinal(final, nodes)
    /\ stage = "count" => CountedOk(prepared, final.child, reused)
    /\ stage \in {"depth", "rename", "done"} => SharedOk(prepared, final.child)
    /\ stage \in {"rename", "done"} => DepthOk(prepared)

\* Initially the list is empty.
LEMMA InitInv == Init => TextInv
<1>1. SUFFICES ASSUME Init PROVE TextInv
  OBVIOUS
<1>2. menu \in Menus /\ stage = "list" /\ nodes = << >> /\ open = << >> /\ prepared = << >>
      /\ known = {} /\ signatures = Empty /\ rename = Empty
  BY <1>1 DEF Init
<1>3. DOMAIN Empty = {}
  BY DEF Empty
<1>4. << >> \in Seq(NodeType) /\ DOMAIN << >> = {} /\ Len(<< >>) = 0
  OBVIOUS
<1>5. Named(<< >>) /\ ReadsEarlier(<< >>) /\ Tree(<< >>)
  <2>1. Len(CteNames) \in Nat
    BY NamesDiffer
  <2>. QED  BY <1>4, <2>1 DEF Named, ReadsEarlier, Tree
<1>6. OpenOk(<< >>, << >>)
  BY <1>4 DEF OpenOk
<1>7. Strips(rename)
  BY <1>2, <1>3 DEF Strips
<1>. QED  BY <1>2, <1>3, <1>5, <1>6, <1>7 DEF TextInv, ListOk, Stages

\* The list grows.
Building ==
    \/ \E t \in menu.tables : Scan(t)
    \/ Filter \/ Project \/ Map \/ MapFused \/ Join \/ Union \/ MaterializedBody
    \/ \E k \in DOMAIN nodes : CteRef(k)

\* What a step that builds the list changes.
LEMMA BuildingOk ==
    ASSUME menu \in Menus, ListOk(nodes, open), Building
    PROVE  /\ ListOk(nodes', open') /\ stage = "list"
           /\ UNCHANGED <<menu, stage, final, deduplicate, prepared, known, signatures, canonical, reused, rename>>
<1>1. ListOk(nodes', open')
  BY ScanOk, FilterOk, ProjectOk, MapOk, JoinOk, UnionOk, MaterializedBodyOk, CteRefOk DEF Building
<1>2. \A node, consumed : Emit(node, consumed) =>
          /\ stage = "list"
          /\ UNCHANGED <<menu, stage, final, deduplicate, prepared, known, signatures, canonical, reused, rename>>
  BY Zenon DEF Emit
<1>3. MaterializedBody =>
          /\ stage = "list"
          /\ UNCHANGED <<menu, stage, final, deduplicate, prepared, known, signatures, canonical, reused, rename>>
  BY Zenon DEF MaterializedBody
<1>4. ASSUME NEW t \in menu.tables, Scan(t) PROVE \E node, consumed : Emit(node, consumed)
  BY <1>4, Zenon DEF Scan
<1>5. ASSUME Filter \/ Project PROVE \E node, consumed : Emit(node, consumed)
  BY <1>5, Zenon DEF Filter, Project
<1>6. ASSUME Map \/ MapFused PROVE \E node, consumed : Emit(node, consumed)
  BY <1>6, Zenon DEF Map, MapFused
<1>7. ASSUME Join \/ Union PROVE \E node, consumed : Emit(node, consumed)
  BY <1>7, Zenon DEF Join, Union
<1>8. ASSUME NEW k \in DOMAIN nodes, CteRef(k) PROVE \E node, consumed : Emit(node, consumed)
  BY <1>8, Zenon DEF CteRef
<1>9. (\E node, consumed : Emit(node, consumed)) \/ MaterializedBody
  BY <1>4, <1>5, <1>6, <1>7, <1>8, Zenon DEF Building
<1>. QED  BY <1>1, <1>2, <1>3, <1>9, Zenon

\* Such a step keeps the invariant.
LEMMA BuildingInv ==
    ASSUME TextInv, Building
    PROVE  TextInv'
<1>1. menu \in Menus /\ ListOk(nodes, open)
  BY DEF TextInv
<1>2. /\ ListOk(nodes', open') /\ stage = "list" /\ stage' = "list" /\ menu' = menu
      /\ prepared' = prepared /\ known' = known /\ signatures' = signatures /\ rename' = rename
  BY <1>1, BuildingOk
<1>3. stage' \in Stages
  BY <1>2 DEF Stages
<1>4. Strips(rename') /\ prepared' = << >> /\ known' = {} /\ DOMAIN signatures' = {} /\ menu' \in Menus
  BY <1>2 DEF TextInv
<1>. QED  BY <1>2, <1>3, <1>4 DEF TextInv

\* So does the terminal node: nothing else reads its child.
LEMMA TerminalInv ==
    ASSUME TextInv, NEW kind, NEW visible \in {1, Len(Top.cols)}, NEW names, Terminal(kind, visible, names)
    PROVE  TextInv'
<1>1. /\ menu \in Menus /\ ListOk(nodes, open) /\ Strips(rename) /\ stage = "list"
      /\ prepared = << >> /\ known = {} /\ DOMAIN signatures = {}
  BY DEF TextInv, Terminal
<1>2. /\ menu' = menu /\ nodes' = nodes /\ open' = open /\ prepared' = prepared /\ known' = known
      /\ signatures' = signatures /\ rename' = rename /\ reused' = reused /\ stage' = "prepare"
      /\ Len(open) = 1
  BY DEF Terminal
<1>3. open # << >>
  BY <1>2
<1>4. /\ Len(open) \in DOMAIN open /\ Top.cte_name = CteNames[open[Len(open)]]
      /\ Top.cols \in Seq(ColumnIds) /\ Top.cols # << >> /\ Top.cte_name \in CteIds
  BY <1>1, <1>3, TopFacts
<1>5. Unread(nodes, Top.cte_name)
  BY <1>1, <1>4 DEF ListOk, OpenOk
<1>6. PICK n \in Nat : n = Len(Top.cols) /\ DOMAIN Top.cols = 1..n /\ n # 0
  BY <1>4
<1>7. PICK cols : cols = SubSeq(Top.cols, 1, visible)
  OBVIOUS
<1>8. cols \in Seq(ColumnIds) /\ cols \in Seq(PlainIds)
  <2>1. visible \in 1..n
    BY <1>6
  <2>2. cols \in Seq(ColumnIds)
    BY <1>4, <1>6, <1>7, <2>1
  <2>. QED  BY <2>2, PlainSequences
<1>9. PICK list : list = [i \in DOMAIN cols |->
                     IF i \in DOMAIN names THEN names[i] ELSE StripGeneratedTablePrefix(cols[i])]
  OBVIOUS
<1>10. Len(list) \in Nat
  <2>1. PICK m \in Nat : DOMAIN cols = 1..m
    BY <1>8
  <2>2. DOMAIN list = 1..m /\ list = [i \in 1..m |-> list[i]]
    BY <1>9, <2>1
  <2>3. PICK S : S = {list[i] : i \in 1..m}
    OBVIOUS
  <2>4. list \in [1..m -> S]
    BY <2>2, <2>3
  <2>. QED  BY <2>4, FunctionIsSequence
<1>11. final' = [kind |-> kind, child |-> Top.cte_name, cols |-> cols, final_column_list |-> list]
  BY <1>7, <1>9 DEF Terminal
<1>12. IsFinal(final', nodes)
  BY <1>4, <1>5, <1>8, <1>10, <1>11 DEF IsFinal
<1>13. PreparedOk(<< >>, nodes, reused)
  <2>1. << >> \in Seq(EntryType) /\ DOMAIN << >> = {} /\ Len(<< >>) = 0
    OBVIOUS
  <2>2. Len(nodes) \in Nat
    BY <1>1 DEF ListOk, Named
  <2>. QED  BY <2>1, <2>2 DEF PreparedOk, Covered
<1>14. {CteNames[k] : k \in DOMAIN << >>} = {}
  OBVIOUS
<1>. QED  BY <1>1, <1>2, <1>12, <1>13, <1>14 DEF TextInv, Stages

\* The node at hand is the next one.
LEMMA CteFacts ==
    ASSUME TextInv, Preparing
    PROVE  /\ stage = "prepare" /\ Len(prepared) < Len(nodes) /\ Len(nodes) \in Nat /\ Len(prepared) \in Nat
           /\ PreparedOk(prepared, nodes, reused)
           /\ Cte \in NodeType /\ Cte.cte_name = CteNames[Len(prepared) + 1]
           /\ Len(prepared) + 1 \in DOMAIN nodes
           /\ Cte.materialized = nodes[Len(prepared) + 1].materialized
           /\ Cte.parts = nodes[Len(prepared) + 1].parts
<1>1. /\ stage = "prepare" /\ PreparedOk(prepared, nodes, reused) /\ Named(nodes)
      /\ Len(prepared) < Len(nodes)
  BY DEF TextInv, Preparing, ListOk
<1>2. nodes \in Seq(NodeType) /\ \A k \in DOMAIN nodes : nodes[k].cte_name = CteNames[k]
  BY <1>1 DEF Named
<1>3. prepared \in Seq(EntryType)
  BY <1>1 DEF PreparedOk
<1>4. PICK n \in Nat, m \in Nat : n = Len(prepared) /\ m = Len(nodes) /\ DOMAIN nodes = 1..m
  BY <1>2, <1>3
<1>5. n + 1 \in 1..m
  BY <1>1, <1>4
<1>6. nodes[n + 1] \in NodeType
  BY <1>2, <1>4, <1>5
<1>. QED  BY <1>1, <1>2, <1>4, <1>5, <1>6 DEF Cte

\* An entry that is the node, or reads what is shared, keeps the invariant.
LEMMA PrepareInv ==
    ASSUME TextInv, Preparing, NEW e, Prepare(e), e \in EntryType,
           e.cte_name = Cte.cte_name, e.materialized = Cte.materialized,
           Covers(e.parts, e.dependencies),
           e.parts = Cte.parts \/ Covers(e.parts, reused'), reused \subseteq reused',
           \A s \in DOMAIN signatures' : signatures'[s] \in 1..(Len(prepared) + 1)
    PROVE  TextInv'
<1>1. /\ menu \in Menus /\ ListOk(nodes, open) /\ Strips(rename) /\ IsFinal(final, nodes)
      /\ known = {CteNames[k] : k \in DOMAIN prepared}
  BY CteFacts DEF TextInv
<1>2. /\ menu' = menu /\ nodes' = nodes /\ open' = open /\ rename' = rename /\ final' = final
      /\ stage' = stage /\ prepared' = Append(prepared, e) /\ known' = known \cup {Cte.cte_name}
  BY DEF Prepare
<1>3. /\ stage = "prepare" /\ Len(prepared) < Len(nodes) /\ Len(nodes) \in Nat
      /\ PreparedOk(prepared, nodes, reused) /\ Cte.cte_name = CteNames[Len(prepared) + 1]
      /\ Cte.materialized = nodes[Len(prepared) + 1].materialized
      /\ Cte.parts = nodes[Len(prepared) + 1].parts
  BY CteFacts
<1>4. PICK more : more = reused'
  OBVIOUS
<1>5. PICK longer : longer = prepared'
  OBVIOUS
<1>6. PreparedOk(longer, nodes, more)
  <2>1. longer = Append(prepared, e) /\ reused \subseteq more /\ e.cte_name = CteNames[Len(prepared) + 1]
        /\ e.materialized = nodes[Len(prepared) + 1].materialized
        /\ (e.parts = nodes[Len(prepared) + 1].parts \/ Covers(e.parts, more))
    BY <1>2, <1>3, <1>4, <1>5
  <2>. QED  BY <1>3, <2>1, EntryAdded
<1>7. prepared \in Seq(EntryType)
  BY <1>3 DEF PreparedOk
<1>8. PICK n \in Nat : n = Len(prepared) /\ DOMAIN prepared = 1..n
  BY <1>7
<1>9. DOMAIN longer = 1..(n + 1)
  BY <1>2, <1>5, <1>7, <1>8
<1>10. known' = {CteNames[k] : k \in DOMAIN longer}
  <2>1. \A k : k \in 1..(n + 1) <=> k \in 1..n \/ k = n + 1
    OBVIOUS
  <2>2. known' = {CteNames[k] : k \in 1..n} \cup {CteNames[n + 1]}
    BY <1>1, <1>2, <1>3, <1>8
  <2>. QED  BY <1>9, <2>1, <2>2
<1>11. \A s \in DOMAIN signatures' : signatures'[s] \in DOMAIN longer
  BY <1>8, <1>9
<1>12. stage' = "prepare" /\ ListOk(nodes', open') /\ Strips(rename') /\ IsFinal(final', nodes') /\ menu' \in Menus
  BY <1>1, <1>2, <1>3
<1>13. PreparedOk(prepared', nodes', reused')
  BY <1>2, <1>4, <1>5, <1>6
<1>. QED  BY <1>5, <1>10, <1>11, <1>12, <1>13 DEF TextInv, Stages

\* A body with one name in FROM reads nothing else.
LEMMA OnlyFrom ==
    ASSUME NEW id, NEW p, p.from = <<id>>, NEW deps, id \in deps
    PROVE  Covers(p, deps)
<1>1. \A i \in DOMAIN p.from : p.from[i] = id
  OBVIOUS
<1>. QED  BY <1>1 DEF Covers, Reads

\* An alias reads a producer that is shared from then on.
LEMMA ReuseInv ==
    ASSUME TextInv, Reuse
    PROVE  TextInv'
<1>1. Preparing /\ Signature \in DOMAIN signatures /\ signatures' = signatures
  BY DEF Reuse
<1>2. PICK r : r = prepared[signatures[Signature]]
  OBVIOUS
<1>3. PICK e : e = Entry(Cte, TRUE, Parts(Columns(r.cols), <<r.cte_name>>, ""), {r.cte_name})
  OBVIOUS
<1>4. reused' = reused \cup {r.cte_name} /\ Prepare(e)
  BY <1>2, <1>3 DEF Reuse
<1>5. /\ stage = "prepare" /\ Len(prepared) \in Nat /\ PreparedOk(prepared, nodes, reused) /\ Cte \in NodeType
  BY <1>1, CteFacts
<1>6. prepared \in Seq(EntryType) /\ \A s \in DOMAIN signatures : signatures[s] \in DOMAIN prepared
  BY <1>5 DEF TextInv, PreparedOk
<1>7. r \in EntryType
  BY <1>1, <1>2, <1>6
<1>8. r.cte_name \in CteIds /\ r.cols \in Seq(PlainIds) /\ <<r.cte_name>> \in Seq(Ids) /\ "" \in Tails
  <2>1. r.cte_name \in CteIds /\ r.cols \in Seq(ColumnIds)
    BY <1>7, EntryFields
  <2>2. r.cte_name \in Ids /\ r.cols \in Seq(PlainIds)
    BY <2>1, PlainSequences
  <2>. QED  BY <2>1, <2>2 DEF Tails
<1>9. PICK p \in PartsType : p = Parts(Columns(r.cols), <<r.cte_name>>, "") /\ p.from = <<r.cte_name>>
  BY <1>8, ColumnsMade, PartsMade
<1>10. e = [cte_name |-> Cte.cte_name, cols |-> Cte.cols, materialized |-> Cte.materialized,
            has_parts |-> TRUE, parts |-> p, dependencies |-> {r.cte_name}]
  BY <1>3, <1>9 DEF Entry
<1>11. /\ e \in EntryType /\ e.cte_name = Cte.cte_name /\ e.materialized = Cte.materialized
       /\ e.parts = p /\ e.dependencies = {r.cte_name}
  BY <1>5, <1>8, <1>10 DEF EntryType, NodeType
<1>12. Covers(e.parts, e.dependencies) /\ Covers(e.parts, reused') /\ reused \subseteq reused'
  <2>1. PICK deps : deps = {r.cte_name}
    OBVIOUS
  <2>2. r.cte_name \in deps /\ r.cte_name \in reused' /\ reused \subseteq reused'
    BY <1>4, <2>1
  <2>3. Covers(p, deps)
    BY <1>9, <2>2, OnlyFrom, Zenon
  <2>4. Covers(p, reused')
    BY <1>9, <2>2, OnlyFrom, Zenon
  <2>5. e.parts = p /\ e.dependencies = deps
    BY <1>11, <2>1
  <2>. QED  BY <2>2, <2>3, <2>4, <2>5, Zenon
<1>13. \A s \in DOMAIN signatures' : signatures'[s] \in 1..(Len(prepared) + 1)
  <2>1. PICK n \in Nat : n = Len(prepared) /\ DOMAIN prepared = 1..n
    BY <1>6
  <2>2. \A k \in 1..n : k \in 1..(n + 1)
    OBVIOUS
  <2>. QED  BY <1>1, <1>6, <2>1, <2>2
<1>. QED  BY <1>1, <1>4, <1>11, <1>12, <1>13, PrepareInv

\* An entry that is kept is its node.
LEMMA KeepInv ==
    ASSUME TextInv, Keep
    PROVE  TextInv'
<1>1. Preparing /\ reused' = reused
  BY DEF Keep
<1>2. PICK e : e = Entry(Cte, Cte.has_parts, Cte.parts, CollectCteDependencies(Cte.parts, known))
  OBVIOUS
<1>3. Prepare(e)
  BY <1>2 DEF Keep
<1>4. /\ stage = "prepare" /\ Len(prepared) \in Nat /\ PreparedOk(prepared, nodes, reused) /\ Cte \in NodeType
      /\ Len(prepared) + 1 \in DOMAIN nodes /\ Cte.parts = nodes[Len(prepared) + 1].parts
  BY <1>1, CteFacts
<1>5. /\ prepared \in Seq(EntryType) /\ \A s \in DOMAIN signatures : signatures[s] \in DOMAIN prepared
      /\ known = {CteNames[k] : k \in DOMAIN prepared}
      /\ ReadsEarlier(nodes) /\ Len(prepared) <= Len(nodes) /\ Len(nodes) <= Len(CteNames)
  BY <1>4 DEF TextInv, PreparedOk, ListOk, Named
<1>6. PICK n \in Nat : n = Len(prepared) /\ DOMAIN prepared = 1..n
  BY <1>5
<1>7. known \subseteq CteIds
  <2>1. nodes \in Seq(NodeType)
    BY <1>4 DEF TextInv, ListOk, Named
  <2>2. Len(nodes) \in Nat /\ Len(CteNames) \in Nat
    BY <2>1, NamesDiffer
  <2>3. \A k \in 1..n : k \in 1..Len(CteNames)
    BY <1>5, <1>6, <2>2
  <2>4. \A k \in 1..n : CteNames[k] \in CteIds
    BY <2>3, NamesDiffer
  <2>. QED  BY <1>5, <1>6, <2>4
<1>8. PICK deps : deps = CollectCteDependencies(Cte.parts, known)
  OBVIOUS
<1>9. deps \subseteq CteIds
  BY <1>7, <1>8 DEF CollectCteDependencies
<1>10. Covers(Cte.parts, deps)
  <2>1. ASSUME NEW id \in CteIds, Reads(Cte.parts, id) PROVE id \in deps
    <3>1. PICK j \in 1..(n + 1 - 1) : id = CteNames[j]
      BY <1>4, <1>5, <1>6, <2>1 DEF ReadsEarlier
    <3>2. n + 1 - 1 = n
      OBVIOUS
    <3>3. id \in known
      BY <1>5, <1>6, <3>1, <3>2
    <3>4. Cte.parts \in PartsType
      BY <1>4, NodeFields
    <3>5. References(Cte.parts, id) > 0
      BY <2>1, <3>4, ReferencesFacts DEF Reads
    <3>. QED  BY <1>8, <3>3, <3>5 DEF CollectCteDependencies
  <2>. QED  BY <2>1 DEF Covers
<1>11. e = [cte_name |-> Cte.cte_name, cols |-> Cte.cols, materialized |-> Cte.materialized,
            has_parts |-> Cte.has_parts, parts |-> Cte.parts, dependencies |-> deps]
  BY <1>2, <1>8 DEF Entry
<1>12. /\ e \in EntryType /\ e.cte_name = Cte.cte_name /\ e.materialized = Cte.materialized
       /\ e.parts = Cte.parts /\ e.dependencies = deps
  BY <1>4, <1>9, <1>11 DEF EntryType, NodeType
<1>13. \A s \in DOMAIN signatures' : signatures'[s] \in 1..(n + 1)
  <2>1. \A k \in 1..n : k \in 1..(n + 1)
    OBVIOUS
  <2>2. n + 1 \in 1..(n + 1)
    OBVIOUS
  <2>3. PICK sigs : sigs = signatures'
    OBVIOUS
  <2>4. \/ sigs = signatures
        \/ sigs = [s \in DOMAIN signatures \cup {Signature} |->
                              IF s = Signature THEN n + 1 ELSE signatures[s]]
    BY <1>6, <2>3 DEF Keep
  <2>5. \A s \in DOMAIN sigs : sigs[s] \in 1..(n + 1)
    BY <1>5, <1>6, <2>1, <2>2, <2>4
  <2>. QED  BY <2>3, <2>5
<1>14. reused \subseteq reused'
  BY <1>1
<1>. QED  BY <1>1, <1>3, <1>6, <1>10, <1>12, <1>13, <1>14, PrepareInv

\* Pruning, the count, the boundaries and the new names keep the invariant.
LEMMA PruneInv ==
    ASSUME TextInv, PruneUnreachable
    PROVE  TextInv'
<1>1. /\ menu \in Menus /\ ListOk(nodes, open) /\ Strips(rename) /\ IsFinal(final, nodes)
      /\ PreparedOk(prepared, nodes, reused) /\ Len(prepared) = Len(nodes)
  BY DEF TextInv, PruneUnreachable
<1>2. /\ menu' = menu /\ nodes' = nodes /\ open' = open /\ rename' = rename /\ final' = final
      /\ reused' = reused /\ stage' = "count"
  BY DEF PruneUnreachable
<1>3. CountedOk(prepared, final.child, reused)
  <2>1. PICK child \in CteIds : child = final.child /\ Unread(nodes, child)
    BY <1>1 DEF IsFinal
  <2>2. CountedOk(prepared, child, reused)
    BY <1>1, <2>1, PreparedCounted
  <2>. QED  BY <2>1, <2>2
<1>4. CountedOk(prepared', final.child, reused)
  <2>1. CASE reused = {}
    BY <1>3, <2>1 DEF PruneUnreachable
  <2>2. CASE reused # {}
    <3>1. PICK some : some = Reachable(Required(1))
      OBVIOUS
    <3>2. Picked(some, prepared)
      BY <1>3, <3>1, ReachablePicked DEF CountedOk
    <3>3. CountedOk(some, final.child, reused)
      BY <1>3, <3>2, PickedCounted
    <3>. QED  BY <2>2, <3>1, <3>3 DEF PruneUnreachable
  <2>. QED  BY <2>1, <2>2
<1>5. menu' \in Menus /\ ListOk(nodes', open') /\ Strips(rename') /\ IsFinal(final', nodes')
      /\ CountedOk(prepared', final'.child, reused')
  BY <1>1, <1>2, <1>4
<1>. QED  BY <1>2, <1>5 DEF TextInv, Stages

LEMMA SharedInv ==
    ASSUME TextInv, MaterializeShared
    PROVE  TextInv'
<1>1. /\ menu \in Menus /\ ListOk(nodes, open) /\ Strips(rename) /\ IsFinal(final, nodes)
      /\ CountedOk(prepared, final.child, reused)
  BY DEF TextInv, MaterializeShared
<1>2. /\ menu' = menu /\ nodes' = nodes /\ open' = open /\ rename' = rename /\ final' = final
      /\ stage' = "depth"
  BY DEF MaterializeShared
<1>3. SharedOk(prepared', final.child)
  BY <1>1, MaterializeSharedOk
<1>4. menu' \in Menus /\ ListOk(nodes', open') /\ Strips(rename') /\ IsFinal(final', nodes')
      /\ SharedOk(prepared', final'.child)
  BY <1>1, <1>2, <1>3
<1>. QED  BY <1>2, <1>4 DEF TextInv, Stages

LEMMA DepthInv ==
    ASSUME TextInv, BoundDepth
    PROVE  TextInv'
<1>1. /\ menu \in Menus /\ ListOk(nodes, open) /\ Strips(rename) /\ IsFinal(final, nodes)
      /\ SharedOk(prepared, final.child)
  BY DEF TextInv, BoundDepth
<1>2. /\ menu' = menu /\ nodes' = nodes /\ open' = open /\ rename' = rename /\ final' = final
      /\ stage' = "rename"
  BY DEF BoundDepth
<1>3. SharedOk(prepared', final.child) /\ DepthOk(prepared')
  BY <1>1, BoundDepthOk
<1>4. menu' \in Menus /\ ListOk(nodes', open') /\ Strips(rename') /\ IsFinal(final', nodes')
      /\ SharedOk(prepared', final'.child)
  BY <1>1, <1>2, <1>3
<1>. QED  BY <1>2, <1>3, <1>4 DEF TextInv, Stages

\* The definitions of the text are the first entries.
LEMMA EmittedFacts ==
    ASSUME prepared \in Seq(EntryType)
    PROVE  /\ Len(Emitted) \in Nat /\ DOMAIN Emitted = 1..Len(Emitted) /\ Len(Emitted) <= Len(prepared)
           /\ \A k \in DOMAIN Emitted : k \in DOMAIN prepared /\ Emitted[k] = prepared[k]
           /\ InlineLast => Len(prepared) = Len(Emitted) + 1 /\ Len(prepared) \in DOMAIN prepared
           /\ Len(prepared) \in Nat
<1>1. PICK n \in Nat : n = Len(prepared) /\ DOMAIN prepared = 1..n
  OBVIOUS
<1>2. CASE ~InlineLast
  BY <1>1, <1>2 DEF Emitted
<1>3. CASE InlineLast
  <2>1. n # 0
    BY <1>1, <1>3 DEF InlineLast
  <2>2. n - 1 \in Nat /\ n \in 1..n
    BY <2>1
  <2>3. PICK list : list = SubSeq(prepared, 1, n - 1)
    OBVIOUS
  <2>4. DOMAIN list = 1..(n - 1) /\ Len(list) = n - 1 /\ \A k \in 1..(n - 1) : list[k] = prepared[k] /\ k \in 1..n
    BY <1>1, <2>2, <2>3
  <2>5. Emitted = list
    BY <1>1, <1>3, <2>3 DEF Emitted
  <2>. QED  BY <1>1, <2>2, <2>4, <2>5
<1>. QED  BY <1>2, <1>3

LEMMA DePrefixInv ==
    ASSUME TextInv, DePrefix
    PROVE  TextInv'
<1>1. /\ menu \in Menus /\ ListOk(nodes, open) /\ IsFinal(final, nodes)
      /\ SharedOk(prepared, final.child) /\ DepthOk(prepared)
  BY DEF TextInv, DePrefix
<1>2. /\ menu' = menu /\ nodes' = nodes /\ open' = open /\ prepared' = prepared /\ final' = final
      /\ stage' = "done"
  BY DEF DePrefix
<1>3. PICK D, map : /\ D \subseteq SeenColumns /\ map = rename'
                    /\ map = [full \in D |-> StripGeneratedTablePrefix(full)]
  <2>. DEFINE D == {c \in SeenColumns :
                                LET bare == StripGeneratedTablePrefix(c) IN
                                /\ HasGeneratedTablePrefix(c)
                                /\ c \notin {Emitted[k].cte_name : k \in DOMAIN Emitted}
                                /\ BareCount(bare) = 1
                                /\ bare \notin Reserved /\ ~HasGeneratedTablePrefix(bare)}
  <2>1. rename' = [full \in D |-> StripGeneratedTablePrefix(full)] /\ D \subseteq SeenColumns
    BY DEF DePrefix
  <2>. QED  BY <2>1
<1>4. SeenColumns \subseteq ColumnIds
  <2>1. prepared \in Seq(EntryType)
    BY <1>1 DEF SharedOk
  <2>2. ASSUME NEW k \in DOMAIN Emitted PROVE Names(Emitted[k].cols) \subseteq ColumnIds
    <3>1. PICK e \in EntryType : e = Emitted[k]
      BY <2>1, EmittedFacts
    <3>2. e.cols \in Seq(ColumnIds)
      BY EntryFields
    <3>. QED  BY <3>1, <3>2 DEF Names
  <2>. QED  BY <2>2 DEF SeenColumns
<1>5. \A id \in D : id \notin CteIds /\ map[id] \in PlainIds
  BY <1>3, <1>4, ColumnPlain DEF PlainIds
<1>6. Strips(map)
  BY <1>3, <1>5 DEF Strips
<1>7. menu' \in Menus /\ ListOk(nodes', open') /\ Strips(rename') /\ IsFinal(final', nodes')
      /\ SharedOk(prepared', final'.child) /\ DepthOk(prepared')
  BY <1>1, <1>2, <1>3, <1>6
<1>. QED  BY <1>2, <1>7 DEF TextInv, Stages

\* Every step keeps the invariant.
LEMMA StepInv == TextInv /\ [Next]_vars => TextInv'
<1>1. SUFFICES ASSUME TextInv, [Next]_vars PROVE TextInv'
  OBVIOUS
<1>2. CASE Lists
  <2>1. \/ Building
        \/ \E kind, names : \E visible \in {1, Len(Top.cols)} : Terminal(kind, visible, names)
    <3>1. CASE \E t \in menu.tables : Scan(t)
      BY <3>1, Zenon DEF Building
    <3>2. CASE Filter \/ Project \/ Map \/ MapFused \/ Join \/ Union
      BY <3>2, Zenon DEF Building
    <3>3. CASE MaterializedBody \/ \E k \in DOMAIN nodes : CteRef(k)
      BY <3>3, Zenon DEF Building
    <3>4. CASE \E visible \in {1, Len(Top.cols)}, names \in menu.outputs : Terminal("read", visible, names)
      BY <3>4, Zenon
    <3>5. CASE Terminal("insert", Len(Top.cols), << >>)
      <4>1. Len(Top.cols) \in {1, Len(Top.cols)}
        OBVIOUS
      <4>. QED  BY <3>5, <4>1, Zenon
    <3>. QED  BY <1>2, <3>1, <3>2, <3>3, <3>4, <3>5, Zenon DEF Lists
  <2>. QED  BY <1>1, <2>1, BuildingInv, TerminalInv
<1>3. CASE Reuse \/ Keep
  BY <1>1, <1>3, ReuseInv, KeepInv
<1>4. CASE PruneUnreachable \/ MaterializeShared \/ BoundDepth \/ DePrefix
  BY <1>1, <1>4, PruneInv, SharedInv, DepthInv, DePrefixInv
<1>5. CASE Done \/ UNCHANGED vars
  <2>1. UNCHANGED vars
    BY <1>5 DEF Done
  <2>. QED  BY <1>1, <2>1 DEF TextInv, vars
<1>. QED  BY <1>1, <1>2, <1>3, <1>4, <1>5 DEF Next

-----------------------------------------------------------------------------
(* The text.                                                               *)

\* A definition is an entry whose columns have new names.
LEMMA DefinitionFacts ==
    ASSUME TextInv, stage = "done"
    PROVE  /\ Len(WithClause) \in Nat /\ DOMAIN WithClause = 1..Len(WithClause)
           /\ Len(WithClause) = Len(Emitted) /\ Len(WithClause) <= Len(prepared)
           /\ \A k \in 1..Len(WithClause) :
                 /\ k \in DOMAIN prepared /\ WithClause[k].name = prepared[k].cte_name
                 /\ WithClause[k].name \in CteIds
                 /\ WithClause[k].materialized = prepared[k].materialized
                 /\ WithClause[k].parts \in PartsType
                 /\ \A id \in CteIds : References(WithClause[k].parts, id) = References(prepared[k].parts, id)
<1>1. prepared \in Seq(EntryType) /\ Strips(rename)
  BY DEF TextInv, SharedOk
<1>2. PICK n \in Nat : n = Len(Emitted) /\ DOMAIN Emitted = 1..n /\ n <= Len(prepared)
                       /\ \A k \in 1..n : k \in DOMAIN prepared /\ Emitted[k] = prepared[k]
  BY <1>1, EmittedFacts
<1>. DEFINE d(k) == [name |-> Emitted[k].cte_name, materialized |-> Emitted[k].materialized,
                     cols |-> [i \in DOMAIN Emitted[k].cols |-> Subst(rename, Emitted[k].cols[i])],
                     parts |-> RenameParts(Emitted[k].parts, rename)]
<1>3. WithClause = [k \in 1..n |-> d(k)]
  BY <1>2 DEF WithClause
<1>4. \A k \in 1..n : /\ d(k).name = Emitted[k].cte_name /\ d(k).materialized = Emitted[k].materialized
                      /\ d(k).parts = RenameParts(Emitted[k].parts, rename)
  OBVIOUS
<1>. HIDE DEF d
<1>5. DOMAIN WithClause = 1..n /\ \A k \in 1..n : WithClause[k] = d(k)
  BY <1>3
<1>6. Len(WithClause) = n
  BY <1>3
<1>7. ASSUME NEW k \in 1..n
      PROVE  /\ prepared[k].cte_name \in CteIds /\ prepared[k].parts \in PartsType
             /\ RenameParts(prepared[k].parts, rename) \in PartsType
             /\ \A id \in CteIds : References(RenameParts(prepared[k].parts, rename), id)
                                   = References(prepared[k].parts, id)
  <2>1. prepared[k] \in EntryType
    BY <1>1, <1>2, Elements
  <2>2. prepared[k].cte_name \in CteIds /\ prepared[k].parts \in PartsType
    BY <2>1, EntryFields
  <2>. QED  BY <1>1, <2>2, RenamedParts
<1>. QED  BY <1>2, <1>4, <1>5, <1>6, <1>7

\* The closing SELECT reads what the last entry reads, or the child of the terminal node.
LEMMA ClosingFacts ==
    ASSUME TextInv, stage = "done", NEW id \in CteIds
    PROVE  References(Closing, id) = IF InlineLast THEN References(prepared[Len(prepared)].parts, id)
                                     ELSE IF final.child = id THEN 1 ELSE 0
<1>1. prepared \in Seq(EntryType) /\ Strips(rename)
  BY DEF TextInv, SharedOk
<1>2. /\ final.child \in CteIds /\ final.child \in Ids /\ final.cols \in Seq(PlainIds)
      /\ Len(final.final_column_list) \in Nat
  BY PlainSequences DEF TextInv, IsFinal
<1>3. CASE InlineLast
  <2>1. Len(prepared) \in DOMAIN prepared
    BY <1>1, <1>3, EmittedFacts
  <2>2. PICK e \in EntryType : e = prepared[Len(prepared)]
    BY <1>1, <2>1, Elements
  <2>3. PICK p \in PartsType : p = e.parts
    BY EntryFields
  <2>4. "select" \in Clauses /\ p.clause["select"] \in Seq(ExprType)
    BY PartsFields DEF Clauses
  <2>5. PICK cut \in Seq(ExprType) : cut = Cut(p.clause["select"], Len(final.final_column_list))
    BY <1>2, <2>4, CutMade
  <2>6. PICK q \in PartsType : q = With(p, "select", cut) /\ q.from = p.from
    BY <2>4, WithMade
  <2>7. Closing = RenameParts(q, rename)
    BY <1>3, <2>2, <2>3, <2>5, <2>6 DEF Closing
  <2>8. References(Closing, id) = References(q, id)
    BY <1>1, <2>7, RenamedParts
  <2>9. References(q, id) = References(p, id)
    BY <2>6, SameReferences
  <2>. QED  BY <1>3, <2>2, <2>3, <2>8, <2>9
<1>4. CASE ~InlineLast
  <2>1. PICK from \in Seq(Ids) : DOMAIN from = {1} /\ from[1] = final.child /\ from = <<final.child>>
    <3>1. <<final.child>> \in Seq(Ids)
      BY <1>2
    <3>2. DOMAIN <<final.child>> = {1} /\ <<final.child>>[1] = final.child
      OBVIOUS
    <3>. QED  BY <3>1, <3>2, Zenon
  <2>2. PICK q \in PartsType : q = FinalRead /\ q.from = from
    <3>1. Columns(final.cols) \in Seq(ExprType) /\ "" \in Tails
      BY <1>2, ColumnsMade DEF Tails
    <3>2. Parts(Columns(final.cols), from, "") \in PartsType /\ Parts(Columns(final.cols), from, "").from = from
      BY <3>1, PartsMade
    <3>. QED  BY <2>1, <3>2 DEF FinalRead
  <2>3. Closing = RenameParts(q, rename)
    BY <1>4, <2>2 DEF Closing
  <2>4. References(Closing, id) = References(q, id)
    BY <1>1, <2>3, RenamedParts
  <2>5. References(q, id) \in Nat /\ References(q, id) <= 1
        /\ (References(q, id) > 0 <=> final.child = id)
    <3>1. \A i, j \in DOMAIN q.from : i = j
      BY <2>1, <2>2
    <3>2. (\E i \in DOMAIN q.from : q.from[i] = id) <=> final.child = id
      BY <2>1, <2>2
    <3>. QED  BY <3>1, <3>2, ReferencesFacts
  <2>. QED  BY <1>4, <2>4, <2>5
<1>. QED  BY <1>3, <1>4

\* At most one place of the text names the CTE.
PrintedOnce(id) ==
    /\ References(Closing, id) \in {0, 1}
    /\ \A k \in 1..Len(WithClause) : References(WithClause[k].parts, id) \in {0, 1}
    /\ \A j, k \in 1..Len(WithClause) :
          References(WithClause[j].parts, id) # 0 /\ References(WithClause[k].parts, id) # 0 => j = k
    /\ References(Closing, id) # 0 => \A k \in 1..Len(WithClause) : References(WithClause[k].parts, id) = 0

\* What the entries read once, the text does.
LEMMA OnceInTheText ==
    ASSUME TextInv, stage = "done", NEW id \in CteIds, OnceRead(prepared, final.child, id)
    PROVE  PrintedOnce(id)
<1>1. prepared \in Seq(EntryType)
  BY DEF TextInv, SharedOk
<1>2. PICK n \in Nat : n = Len(WithClause) /\ n = Len(Emitted)
                       /\ \A k \in 1..n : k \in DOMAIN prepared
                              /\ References(WithClause[k].parts, id) = References(prepared[k].parts, id)
  BY DefinitionFacts
<1>3. \A k \in DOMAIN prepared : prepared[k].parts \in PartsType
  BY <1>1, EntryFields, Elements
<1>4. ASSUME NEW k \in DOMAIN prepared PROVE References(prepared[k].parts, id) \in {0, 1}
  <2>1. PICK p \in PartsType : p = prepared[k].parts
    BY <1>3
  <2>2. \A i, j \in DOMAIN p.from : p.from[i] = id /\ p.from[j] = id => i = j
    BY <2>1 DEF OnceRead, ReadAtMostOnce
  <2>3. References(p, id) \in Nat /\ References(p, id) <= 1
    BY <2>2, ReferencesFacts
  <2>. QED  BY <2>1, <2>3
<1>5. \A k \in DOMAIN prepared : References(prepared[k].parts, id) # 0 => Reads(prepared[k].parts, id)
  BY <1>3, <1>4, ReferencesFacts DEF Reads
<1>6. \A j, k \in DOMAIN prepared :
         References(prepared[j].parts, id) # 0 /\ References(prepared[k].parts, id) # 0 => j = k
  BY <1>5 DEF Reads, OnceRead, ReadAtMostOnce
<1>7. CASE InlineLast
  <2>1. PICK m : m = Len(prepared) /\ m = n + 1 /\ m \in DOMAIN prepared
    BY <1>1, <1>2, <1>7, EmittedFacts
  <2>2. References(Closing, id) = References(prepared[m].parts, id)
    BY <1>7, <2>1, ClosingFacts
  <2>3. \A k \in 1..n : k # m
    BY <2>1
  <2>. QED  BY <1>2, <1>4, <1>6, <2>1, <2>2, <2>3 DEF PrintedOnce
<1>8. CASE ~InlineLast
  <2>1. References(Closing, id) = IF final.child = id THEN 1 ELSE 0
    BY <1>8, ClosingFacts
  <2>2. final.child = id => \A k \in DOMAIN prepared : References(prepared[k].parts, id) = 0
    BY <1>5 DEF OnceRead, Unread
  <2>. QED  BY <1>2, <1>4, <1>6, <2>1, <2>2 DEF PrintedOnce
<1>. QED  BY <1>7, <1>8

-----------------------------------------------------------------------------
(* How often a definition runs.                                            *)

\* The recursion of Runs.
FromEnd(i) == WithClause[Len(WithClause) + 1 - i]
Weighted(f, i) == [d \in 1..(i - 1) |-> References(FromEnd(d).parts, FromEnd(i).name) * f[d]]
Asked(f, i) == References(Closing, FromEnd(i).name) + Total(Weighted(f, i))
Ran(f, i) == IF FromEnd(i).materialized /\ Asked(f, i) > 1 THEN 1 ELSE Asked(f, i)
CountsRuns(f) == f = [i \in 1..Len(WithClause) |-> Ran(f, i)]

\* The i-th definition from the end.
LEMMA FromEndFacts ==
    ASSUME TextInv, stage = "done", NEW i \in 1..Len(WithClause)
    PROVE  /\ i \in Nat /\ FromEnd(i).name \in CteIds
           /\ References(Closing, FromEnd(i).name) \in Nat
           /\ \A d \in 1..(i - 1) : d \in 1..Len(WithClause) /\ References(FromEnd(d).parts, FromEnd(i).name) \in Nat
<1>1. PICK n \in Nat : n = Len(WithClause)
                       /\ \A k \in 1..n : /\ WithClause[k].name \in CteIds /\ WithClause[k].parts \in PartsType
  BY DefinitionFacts
<1>2. \A j \in 1..n : n + 1 - j \in 1..n /\ FromEnd(j) = WithClause[n + 1 - j]
  BY <1>1 DEF FromEnd
<1>3. PICK id \in CteIds : id = FromEnd(i).name
  BY <1>1, <1>2
<1>4. \A j \in 1..n : References(FromEnd(j).parts, id) \in Nat
  BY <1>1, <1>2, ReferencesFacts
<1>5. References(Closing, id) \in Nat
  <2>1. CASE InlineLast
    <3>1. prepared \in Seq(EntryType)
      BY DEF TextInv, SharedOk
    <3>2. Len(prepared) \in DOMAIN prepared
      BY <2>1, <3>1, EmittedFacts
    <3>3. prepared[Len(prepared)].parts \in PartsType
      BY <3>1, <3>2, Elements, EntryFields
    <3>. QED  BY <2>1, <3>3, ClosingFacts, ReferencesFacts
  <2>2. CASE ~InlineLast
    BY <2>2, ClosingFacts
  <2>. QED  BY <2>1, <2>2
<1>6. i \in Nat /\ \A d \in 1..(i - 1) : d \in 1..n
  BY <1>1
<1>. QED  BY <1>1, <1>3, <1>4, <1>5, <1>6

\* How often it runs is a number.
LEMMA RanTyped ==
    ASSUME TextInv, stage = "done", NEW i \in 1..Len(WithClause),
           NEW f, \A d \in 1..(i - 1) : f[d] \in Nat
    PROVE  /\ Weighted(f, i) \in Seq(Nat) /\ Len(Weighted(f, i)) = i - 1
           /\ Asked(f, i) \in Nat /\ Ran(f, i) \in Nat
<1>1. i \in Nat /\ i - 1 \in Nat
  BY FromEndFacts
<1>2. \A d \in 1..(i - 1) : References(FromEnd(d).parts, FromEnd(i).name) \in Nat
  BY FromEndFacts
<1>3. PICK w : w = Weighted(f, i)
  OBVIOUS
<1>4. w \in [1..(i - 1) -> Nat]
  BY <1>2, <1>3 DEF Weighted
<1>5. w \in Seq(Nat) /\ Len(w) = i - 1
  BY <1>1, <1>4, FunctionIsSequence
<1>6. Total(w) \in Nat
  BY <1>5, TotalTyped
<1>7. Asked(f, i) \in Nat
  BY <1>3, <1>6, FromEndFacts DEF Asked
<1>8. Ran(f, i) \in Nat
  BY <1>7 DEF Ran
<1>. QED  BY <1>3, <1>5, <1>7, <1>8

\* It uses the values before i only.
LEMMA RanByEarlier ==
    ASSUME NEW f, NEW g, NEW i, \A d \in 1..(i - 1) : f[d] = g[d]
    PROVE  Ran(f, i) = Ran(g, i)
<1>1. Weighted(f, i) = Weighted(g, i)
  BY DEF Weighted
<1>2. Asked(f, i) = Asked(g, i)
  BY <1>1 DEF Asked
<1>. QED  BY <1>2 DEF Ran

\* The recursion of Runs has a solution,
LEMMA CountsRunsExists ==
    ASSUME TextInv, stage = "done"
    PROVE  \E f : CountsRuns(f)
<1>0. PICK n \in Nat : n = Len(WithClause)
  BY DefinitionFacts
<1>1. PICK step : step = [i \in 1..n |-> [h \in Seq(Nat) |-> IF Ran(h, i) \in Nat THEN Ran(h, i) ELSE 0]]
  OBVIOUS
<1>2. Histories(step, n, Nat)
  <2>1. ASSUME NEW i \in 1..n
        PROVE  [h \in Seq(Nat) |-> IF Ran(h, i) \in Nat THEN Ran(h, i) ELSE 0] \in [Seq(Nat) -> Nat]
    OBVIOUS
  <2>2. step \in [1..n -> [Seq(Nat) -> Nat]]
    BY <1>1, <2>1
  <2>. QED  BY <2>2 DEF Histories
<1>3. PICK N : N = Nat
  OBVIOUS
<1>4. PICK f : FollowsAll(f, n, N, step)
  BY <1>2, <1>3, CourseOfValues, Zenon
<1>5. f \in [1..n -> Nat] /\ \A i \in 1..n : f[i] = step[i][[j \in 1..(i - 1) |-> f[j]]]
  BY <1>3, <1>4 DEF FollowsAll
<1>6. ASSUME NEW i \in 1..n PROVE f[i] = Ran(f, i)
  <2>1. PICK h : h = [j \in 1..(i - 1) |-> f[j]]
    OBVIOUS
  <2>2. \A j \in 1..(i - 1) : j \in 1..n /\ h[j] = f[j] /\ h[j] \in Nat
    BY <1>5, <2>1
  <2>3. h \in Seq(Nat)
    <3>1. h \in [1..(i - 1) -> Nat] /\ i - 1 \in Nat
      BY <2>1, <2>2
    <3>. QED  BY <3>1, FunctionIsSequence
  <2>4. Ran(h, i) \in Nat
    BY <1>0, <2>2, RanTyped
  <2>5. Ran(h, i) = Ran(f, i)
    BY <2>2, RanByEarlier
  <2>6. f[i] = step[i][h]
    BY <1>5, <2>1
  <2>7. step[i][h] = IF Ran(h, i) \in Nat THEN Ran(h, i) ELSE 0
    BY <1>1, <2>3
  <2>. QED  BY <2>4, <2>5, <2>6, <2>7
<1>7. f = [i \in 1..n |-> Ran(f, i)]
  BY <1>5, <1>6
<1>. QED  BY <1>0, <1>7 DEF CountsRuns

\* which is what Runs is.
LEMMA RunsIs ==
    ASSUME TextInv, stage = "done"
    PROVE  \A i \in 1..Len(WithClause) : Runs[i] = Ran(Runs, i)
<1>. DEFINE f == CHOOSE g : CountsRuns(g)
<1>1. Runs = f
  BY DEF Runs, CountsRuns, Ran, Asked, Weighted, FromEnd
<1>2. CountsRuns(f)
  BY CountsRunsExists
<1>. HIDE DEF f
<1>. DEFINE e(i) == Ran(f, i)
<1>3. f = [i \in 1..Len(WithClause) |-> e(i)]
  BY <1>2 DEF CountsRuns
<1>. HIDE DEF e
<1>4. \A i \in 1..Len(WithClause) : f[i] = e(i)
  BY <1>3
<1>. QED  BY <1>1, <1>4 DEF e

\* What is read by definitions that run once, and is materialized or printed once, runs once.
LEMMA RanOnce ==
    ASSUME TextInv, stage = "done", NEW i \in 1..Len(WithClause),
           NEW f, \A d \in 1..(i - 1) : f[d] \in {0, 1}
    PROVE  Ran(f, i) \in {0, 1}
<1>1. PICK n \in Nat : n = Len(WithClause) /\ n + 1 - i \in 1..n /\ i \in 1..n
  <2>1. PICK n \in Nat : n = Len(WithClause)
    BY DefinitionFacts
  <2>2. n + 1 - i \in 1..n /\ i \in 1..n
    BY <2>1
  <2>. QED  BY <2>1, <2>2
<1>2. \A d \in 1..(i - 1) : f[d] \in Nat
  OBVIOUS
<1>3. PICK w \in Seq(Nat) : w = Weighted(f, i) /\ Len(w) = i - 1
  BY <1>2, RanTyped
<1>4. Asked(f, i) \in Nat
  BY <1>2, RanTyped
<1>5. CASE FromEnd(i).materialized
  BY <1>4, <1>5 DEF Ran
<1>6. CASE ~FromEnd(i).materialized
  <2>1. PICK k \in 1..n : k = n + 1 - i /\ FromEnd(i) = WithClause[k]
    BY <1>1 DEF FromEnd
  <2>2. PICK id \in CteIds : id = FromEnd(i).name /\ id = prepared[k].cte_name /\ ~prepared[k].materialized
                             /\ k \in DOMAIN prepared
    BY <1>1, <1>6, <2>1, DefinitionFacts
  <2>3. OnceRead(prepared, final.child, id)
    BY <2>2 DEF TextInv, SharedOk
  <2>4. PrintedOnce(id)
    BY <2>3, OnceInTheText
  <2>5. ASSUME NEW d \in 1..(i - 1)
        PROVE  /\ n + 1 - d \in 1..n
               /\ w[d] = References(WithClause[n + 1 - d].parts, id) * f[d]
    <3>1. w[d] = References(FromEnd(d).parts, id) * f[d]
      BY <1>3, <2>2 DEF Weighted
    <3>2. FromEnd(d) = WithClause[n + 1 - d]
      BY <1>1 DEF FromEnd
    <3>3. n + 1 - d \in 1..n
      BY <1>1
    <3>. QED  BY <3>1, <3>2, <3>3
  <2>6. ASSUME NEW d \in 1..(i - 1)
        PROVE  /\ w[d] \in {0, 1}
               /\ w[d] # 0 => References(WithClause[n + 1 - d].parts, id) # 0
    <3>1. PICK r \in {0, 1} : r = References(WithClause[n + 1 - d].parts, id)
      BY <1>1, <2>4, <2>5 DEF PrintedOnce
    <3>2. PICK c \in {0, 1} : c = f[d]
      OBVIOUS
    <3>3. w[d] = r * c
      BY <2>5, <3>1, <3>2
    <3>. QED  BY <3>1, <3>2, <3>3
  <2>7. ASSUME NEW a \in 1..(i - 1), NEW b \in 1..(i - 1), w[a] # 0, w[b] # 0 PROVE a = b
    <3>1. n + 1 - a = n + 1 - b
      BY <1>1, <2>4, <2>5, <2>6, <2>7 DEF PrintedOnce
    <3>. QED  BY <1>1, <3>1
  <2>8. \A a \in 1..Len(w) : w[a] <= 1
    BY <1>3, <2>6
  <2>9. \A a, b \in 1..Len(w) : w[a] # 0 /\ w[b] # 0 => a = b
    BY <1>3, <2>7
  <2>10. Total(w) \in {0, 1} /\ ((\A a \in 1..Len(w) : w[a] = 0) => Total(w) = 0)
    BY <2>8, <2>9, TotalAtMostOne
  <2>11. References(Closing, id) # 0 => \A a \in 1..Len(w) : w[a] = 0
    BY <1>1, <1>3, <2>4, <2>5, <2>6 DEF PrintedOnce
  <2>12. References(Closing, id) \in {0, 1}
    BY <2>4 DEF PrintedOnce
  <2>13. Asked(f, i) = References(Closing, id) + Total(w)
    BY <1>3, <2>2 DEF Asked
  <2>14. Asked(f, i) \in {0, 1}
    BY <2>10, <2>11, <2>12, <2>13
  <2>. QED  BY <1>6, <2>14 DEF Ran
<1>. QED  BY <1>5, <1>6

\* By induction over the definitions, from the end.
LEMMA RunsOnce == TextInv => NothingRunsTwice
<1>1. SUFFICES ASSUME TextInv, stage = "done" PROVE \A i \in DOMAIN WithClause : Runs[i] <= 1
  BY DEF NothingRunsTwice
<1>2. PICK n \in Nat : n = Len(WithClause) /\ DOMAIN WithClause = 1..n
  BY <1>1, DefinitionFacts
<1>. DEFINE T == {m \in Nat : \A i \in 1..n : i <= m => Runs[i] \in {0, 1}}
<1>3. 0 \in T
  OBVIOUS
<1>4. ASSUME NEW m \in Nat, m \in T PROVE m + 1 \in T
  <2>1. SUFFICES ASSUME NEW i \in 1..n, i <= m + 1 PROVE Runs[i] \in {0, 1}
    OBVIOUS
  <2>2. \A d \in 1..(i - 1) : d \in 1..n /\ d <= m
    BY <2>1
  <2>3. \A d \in 1..(i - 1) : Runs[d] \in {0, 1}
    BY <1>4, <2>2
  <2>4. Ran(Runs, i) \in {0, 1}
    BY <1>1, <1>2, <2>3, RanOnce
  <2>. QED  BY <1>1, <1>2, <2>4, RunsIs
<1>. HIDE DEF T
<1>5. Nat \subseteq T
  BY <1>3, <1>4, InductionOnNat
<1>6. n \in T
  BY <1>5
<1>7. \A i \in 1..n : Runs[i] \in {0, 1}
  BY <1>6 DEF T
<1>. QED  BY <1>2, <1>7

-----------------------------------------------------------------------------
(* How deep a definition nests.                                            *)

\* The recursion of Nesting.
TimesPrinted(name) ==
    References(Closing, name) + Total([j \in DOMAIN WithClause |-> References(WithClause[j].parts, name)])
Inlined(k) == {j \in 1..(k - 1) : /\ References(WithClause[k].parts, WithClause[j].name) > 0
                                  /\ ~WithClause[j].materialized /\ TimesPrinted(WithClause[j].name) = 1}
NestsAt(f, k) == 1 + Max({0} \cup {f[j] : j \in Inlined(k)})
Nests(f) == f = [k \in 1..Len(WithClause) |-> NestsAt(f, k)]

\* It is one more than what it inlines.
LEMMA NestsAtTyped ==
    ASSUME NEW f \in Seq(Nat), NEW k, Inlined(k) \subseteq DOMAIN f
    PROVE  /\ NestsAt(f, k) \in Nat
           /\ \A b \in Nat : (\A j \in Inlined(k) : f[j] <= b) => NestsAt(f, k) <= b + 1
<1>1. PICK D : D = Inlined(k)
  OBVIOUS
<1>2. PICK m \in Nat : m = Max({0} \cup {f[j] : j \in D})
  BY <1>1, MaxOver
<1>3. \A b \in Nat : (\A j \in D : f[j] <= b) => m <= b
  BY <1>1, <1>2, MaxOver
<1>4. NestsAt(f, k) = 1 + m
  BY <1>1, <1>2 DEF NestsAt
<1>. QED  BY <1>1, <1>3, <1>4

\* It uses the values before k only.
LEMMA NestsByEarlier ==
    ASSUME NEW f, NEW g, NEW k, \A j \in 1..(k - 1) : f[j] = g[j]
    PROVE  NestsAt(f, k) = NestsAt(g, k)
<1>1. PICK D : D = Inlined(k)
  OBVIOUS
<1>2. \A j \in D : f[j] = g[j]
  BY <1>1 DEF Inlined
<1>3. {f[j] : j \in D} = {g[j] : j \in D}
  BY <1>2
<1>. QED  BY <1>1, <1>3 DEF NestsAt

\* The recursion of Nesting has a solution,
LEMMA NestsExists ==
    ASSUME NEW n \in Nat, n = Len(WithClause)
    PROVE  \E f \in [1..n -> Nat] : Nests(f)
<1>1. PICK step : step = [k \in 1..n |-> [h \in Seq(Nat) |-> IF NestsAt(h, k) \in Nat THEN NestsAt(h, k) ELSE 0]]
  OBVIOUS
<1>2. Histories(step, n, Nat)
  <2>1. ASSUME NEW k \in 1..n
        PROVE  [h \in Seq(Nat) |-> IF NestsAt(h, k) \in Nat THEN NestsAt(h, k) ELSE 0] \in [Seq(Nat) -> Nat]
    OBVIOUS
  <2>2. step \in [1..n -> [Seq(Nat) -> Nat]]
    BY <1>1, <2>1
  <2>. QED  BY <2>2 DEF Histories
<1>3. PICK N : N = Nat
  OBVIOUS
<1>4. PICK f : FollowsAll(f, n, N, step)
  BY <1>2, <1>3, CourseOfValues, Zenon
<1>5. f \in [1..n -> Nat] /\ \A k \in 1..n : f[k] = step[k][[j \in 1..(k - 1) |-> f[j]]]
  BY <1>3, <1>4 DEF FollowsAll
<1>6. ASSUME NEW k \in 1..n PROVE f[k] = NestsAt(f, k)
  <2>1. PICK h : h = [j \in 1..(k - 1) |-> f[j]]
    OBVIOUS
  <2>2. \A j \in 1..(k - 1) : j \in 1..n /\ h[j] = f[j]
    BY <2>1
  <2>3. h \in Seq(Nat) /\ DOMAIN h = 1..(k - 1)
    <3>1. h \in [1..(k - 1) -> Nat] /\ k - 1 \in Nat
      BY <1>5, <2>1, <2>2
    <3>. QED  BY <3>1, FunctionIsSequence
  <2>4. Inlined(k) \subseteq DOMAIN h
    BY <2>3 DEF Inlined
  <2>5. NestsAt(h, k) \in Nat
    BY <2>3, <2>4, NestsAtTyped
  <2>6. NestsAt(h, k) = NestsAt(f, k)
    BY <2>2, NestsByEarlier
  <2>7. f[k] = step[k][h]
    BY <1>5, <2>1
  <2>8. step[k][h] = IF NestsAt(h, k) \in Nat THEN NestsAt(h, k) ELSE 0
    BY <1>1, <2>3
  <2>. QED  BY <2>5, <2>6, <2>7, <2>8
<1>7. f = [k \in 1..n |-> NestsAt(f, k)]
  BY <1>5, <1>6
<1>. QED  BY <1>5, <1>7 DEF Nests

\* which is what Nesting is.
LEMMA NestingIs ==
    ASSUME NEW n \in Nat, n = Len(WithClause)
    PROVE  /\ Nesting \in Seq(Nat) /\ DOMAIN Nesting = 1..n
           /\ \A k \in 1..n : Nesting[k] = NestsAt(Nesting, k)
<1>. DEFINE f == CHOOSE g : Nests(g)
<1>1. Nesting = f
  BY DEF Nesting, Nests, NestsAt, Inlined, TimesPrinted
<1>2. Nests(f)
  BY NestsExists
<1>. HIDE DEF f
<1>. DEFINE e(k) == NestsAt(f, k)
<1>3. f = [k \in 1..n |-> e(k)]
  BY <1>2 DEF Nests
<1>. HIDE DEF e
<1>4. DOMAIN f = 1..n /\ \A k \in 1..n : f[k] = e(k)
  BY <1>3
<1>5. f \in Seq(Nat)
  <2>. DEFINE T == {m \in Nat : \A k \in 1..n : k <= m => f[k] \in Nat}
  <2>1. 0 \in T
    OBVIOUS
  <2>2. ASSUME NEW m \in Nat, m \in T PROVE m + 1 \in T
    <3>1. SUFFICES ASSUME NEW k \in 1..n, k <= m + 1 PROVE f[k] \in Nat
      OBVIOUS
    <3>2. PICK h : h = [j \in 1..(k - 1) |-> f[j]]
      OBVIOUS
    <3>3. \A j \in 1..(k - 1) : j \in 1..n /\ j <= m /\ h[j] = f[j]
      BY <3>1, <3>2
    <3>4. \A j \in 1..(k - 1) : f[j] \in Nat
      BY <2>2, <3>3
    <3>5. h \in Seq(Nat) /\ DOMAIN h = 1..(k - 1)
      <4>1. h \in [1..(k - 1) -> Nat] /\ k - 1 \in Nat
        BY <3>2, <3>4
      <4>. QED  BY <4>1, FunctionIsSequence
    <3>6. Inlined(k) \subseteq DOMAIN h
      BY <3>5 DEF Inlined
    <3>7. NestsAt(h, k) \in Nat
      BY <3>5, <3>6, NestsAtTyped
    <3>8. NestsAt(h, k) = NestsAt(f, k)
      BY <3>3, NestsByEarlier
    <3>. QED  BY <1>4, <3>7, <3>8 DEF e
  <2>. HIDE DEF T
  <2>3. Nat \subseteq T
    BY <2>1, <2>2, InductionOnNat
  <2>4. n \in T
    BY <2>3
  <2>5. \A k \in 1..n : f[k] \in Nat
    BY <2>4 DEF T
  <2>6. f \in [1..n -> Nat]
    <3>1. f = [k \in 1..n |-> f[k]]
      BY <1>3, <1>4
    <3>. QED  BY <2>5, <3>1
  <2>. QED  BY <2>6, FunctionIsSequence
<1>. QED  BY <1>1, <1>4, <1>5 DEF e

\* What bounds a definition by what it inlines bounds the nesting.
LEMMA NestingBounded ==
    ASSUME NEW n \in Nat, n = Len(WithClause), NEW bound,
           \A k \in 1..n : /\ bound[k] \in Nat /\ bound[k] >= 1
                           /\ \A j \in Inlined(k) : bound[j] < bound[k]
    PROVE  \A k \in 1..n : Nesting[k] \in Nat /\ Nesting[k] <= bound[k]
<1>1. PICK f \in Seq(Nat) : f = Nesting /\ DOMAIN f = 1..n /\ \A k \in 1..n : f[k] = NestsAt(f, k)
  BY NestingIs
<1>2. \A k \in 1..n : f[k] \in Nat
  BY <1>1
<1>. DEFINE T == {m \in Nat : \A k \in 1..n : k <= m => f[k] <= bound[k]}
<1>3. 0 \in T
  OBVIOUS
<1>4. ASSUME NEW m \in Nat, m \in T PROVE m + 1 \in T
  <2>1. SUFFICES ASSUME NEW k \in 1..n, k <= m + 1 PROVE f[k] <= bound[k]
    OBVIOUS
  <2>2. \A j \in Inlined(k) : j \in 1..n /\ j <= m
    BY <2>1 DEF Inlined
  <2>3. PICK b \in Nat : b = bound[k] - 1 /\ bound[k] = b + 1
    <3>1. bound[k] \in Nat /\ bound[k] >= 1
      OBVIOUS
    <3>. QED  BY <3>1
  <2>4. ASSUME NEW j \in Inlined(k) PROVE f[j] <= b
    <3>1. f[j] <= bound[j] /\ f[j] \in Nat /\ bound[j] \in Nat /\ bound[j] < bound[k]
      BY <1>2, <1>4, <2>2
    <3>. QED  BY <2>3, <3>1
  <2>5. NestsAt(f, k) <= b + 1
    <3>1. Inlined(k) \subseteq DOMAIN f
      BY <1>1, <2>2
    <3>. QED  BY <2>4, <3>1, NestsAtTyped
  <2>. QED  BY <1>1, <2>3, <2>5
<1>. HIDE DEF T
<1>5. Nat \subseteq T
  BY <1>3, <1>4, InductionOnNat
<1>6. n \in T
  BY <1>5
<1>. QED  BY <1>1, <1>2, <1>6 DEF T

\* The bound is the place in the list where it is short, and else the depth cut at MAX.
LEMMA NestingWithinDepth == TextInv => DepthBounded
<1>1. SUFFICES ASSUME TextInv, stage = "done"
               PROVE  \A k \in DOMAIN WithClause : Nesting[k] <= MAX_INLINE_CTE_DEPTH
  BY DEF DepthBounded
<1>2. PICK n \in Nat : n = Len(WithClause) /\ DOMAIN WithClause = 1..n
  BY <1>1, DefinitionFacts
<1>3. PICK M \in Nat : M = MAX_INLINE_CTE_DEPTH /\ M >= 1
  BY DepthAssumption
<1>4. /\ prepared \in Seq(EntryType) /\ Len(prepared) \in Nat /\ n <= Len(prepared)
      /\ Len(prepared) < M \/ \E depth : DepthsOf(depth, prepared)
  <2>1. prepared \in Seq(EntryType) /\ DepthOk(prepared)
    BY <1>1 DEF TextInv, SharedOk
  <2>. QED  BY <1>1, <1>2, <1>3, <2>1, DefinitionFacts DEF DepthOk
<1>5. CASE Len(prepared) < M
  <2>1. PICK bound : bound = [k \in 1..n |-> k]
    OBVIOUS
  <2>2. \A k \in 1..n : /\ bound[k] \in Nat /\ bound[k] >= 1 /\ bound[k] < M
                        /\ \A j \in 1..(k - 1) : bound[j] < bound[k]
    BY <1>2, <1>3, <1>4, <1>5, <2>1
  <2>3. \A k \in 1..n : /\ bound[k] \in Nat /\ bound[k] >= 1
                        /\ \A j \in Inlined(k) : bound[j] < bound[k]
    BY <2>2 DEF Inlined
  <2>4. \A k \in 1..n : Nesting[k] \in Nat /\ Nesting[k] <= bound[k]
    BY <1>2, <2>3, NestingBounded
  <2>. QED  BY <1>2, <1>3, <2>2, <2>4
<1>6. CASE \E depth : DepthsOf(depth, prepared)
  <2>1. PICK depth : DepthsOf(depth, prepared)
    BY <1>6
  <2>2. \A k \in 1..n : k \in DOMAIN prepared /\ depth[k] \in Nat /\ depth[k] >= 1
    BY <1>1, <1>2, <2>1, DefinitionFacts DEF DepthsOf
  <2>3. ASSUME NEW k \in 1..n, NEW j \in Inlined(k)
        PROVE  j \in 1..n /\ depth[j] < M /\ depth[j] < depth[k]
    <3>1. /\ j \in 1..(k - 1) /\ References(WithClause[k].parts, WithClause[j].name) > 0
          /\ ~WithClause[j].materialized /\ j \in 1..n
      BY DEF Inlined
    <3>2. PICK id \in CteIds : id = WithClause[j].name /\ id = prepared[j].cte_name
      BY <1>1, <1>2, <3>1, DefinitionFacts
    <3>3. ~prepared[j].materialized
      BY <1>1, <1>2, <3>1, DefinitionFacts
    <3>4. References(prepared[k].parts, id) > 0
      BY <1>1, <1>2, <3>1, <3>2, DefinitionFacts
    <3>5. prepared[k].parts \in PartsType
      BY <1>4, <2>2, Elements, EntryFields
    <3>6. Reads(prepared[k].parts, prepared[j].cte_name)
      BY <3>2, <3>4, <3>5, ReferencesFacts DEF Reads
    <3>. QED  BY <1>3, <2>1, <2>2, <3>1, <3>3, <3>6 DEF DepthsOf
  <2>4. PICK bound : bound = [k \in 1..n |-> IF depth[k] <= M THEN depth[k] ELSE M]
    OBVIOUS
  <2>5. \A k \in 1..n : bound[k] = IF depth[k] <= M THEN depth[k] ELSE M
    BY <2>4
  <2>6. \A k \in 1..n : bound[k] \in Nat /\ bound[k] >= 1 /\ bound[k] <= M
    BY <1>3, <2>2, <2>5
  <2>7. ASSUME NEW k \in 1..n, NEW j \in Inlined(k) PROVE bound[j] < bound[k]
    <3>1. depth[j] \in Nat /\ depth[k] \in Nat /\ depth[j] < M /\ depth[j] < depth[k]
      BY <2>2, <2>3
    <3>2. bound[j] = (IF depth[j] <= M THEN depth[j] ELSE M) /\ bound[k] = IF depth[k] <= M THEN depth[k] ELSE M
      BY <2>3, <2>5
    <3>. QED  BY <1>3, <3>1, <3>2
  <2>8. \A k \in 1..n : Nesting[k] \in Nat /\ Nesting[k] <= bound[k]
    BY <1>2, <2>6, <2>7, NestingBounded
  <2>. QED  BY <1>2, <1>3, <2>6, <2>8
<1>. QED  BY <1>4, <1>5, <1>6

-----------------------------------------------------------------------------
(* What holds of every list.                                              *)

\* What a list of CTEs satisfies while it is built, prepared, counted and printed: of the list
\* the flattener hands over, what is not the body of a materialized CTE is read once at most;
\* the passes of CteList::ToQuery keep that by materializing what they share.
THEOREM TextInvariant == Spec => []TextInv
<1>1. Init => TextInv
  BY InitInv
<1>2. TextInv /\ [Next]_vars => TextInv'
  BY StepInv
<1>. QED  BY <1>1, <1>2, PTL DEF Spec

\* No definition of the text runs twice (CteList::ToQuery), whatever the list, the tables and
\* the length.
THEOREM TextRunsNothingTwice == Spec => []NothingRunsTwice
<1>1. Init => TextInv
  BY InitInv
<1>2. TextInv /\ [Next]_vars => TextInv'
  BY StepInv
<1>3. TextInv => NothingRunsTwice
  BY RunsOnce
<1>. QED  BY <1>1, <1>2, <1>3, PTL DEF Spec

\* Whatever the length of the list and the bound, no chain of inlined definitions gets deeper
\* than MAX_INLINE_CTE_DEPTH (CteList::ToQuery).
THEOREM TextNestsWithinDepth == Spec => []DepthBounded
<1>1. Init => TextInv
  BY InitInv
<1>2. TextInv /\ [Next]_vars => TextInv'
  BY StepInv
<1>3. TextInv => DepthBounded
  BY NestingWithinDepth
<1>. QED  BY <1>1, <1>2, <1>3, PTL DEF Spec

------------------------------------------------------------------------------
(* Three-valued logic.                                                     *)

Truths == {"TRUE", "FALSE", "NULL"}
Typed(conds) == \A i \in DOMAIN conds : conds[i].cmp \in Comparisons

\* A condition is true, false or NULL.
LEMMA HoldsTyped ==
    ASSUME NEW c, NEW l, NEW r, c.cmp \in Comparisons
    PROVE  Holds(c, l, r) \in Truths
BY DEF Holds, Comparisons, NullSafe, Truth, Truths

\* A comparison that is not null-safe is NULL exactly if an operand is.
LEMMA HoldsNull ==
    ASSUME NEW c, NEW l, NEW r, c.cmp \in Comparisons \ (NullSafe \cup {"expr"})
    PROVE  Holds(c, l, r) = "NULL" <=> l[c.at] = Null \/ r[c.at] = Null
BY DEF Holds, Comparisons, NullSafe, Truth

\* So the text's test for "not definitely false" is that.
LEMMA IndeterminateIs ==
    ASSUME NEW c, NEW l, NEW r, c.cmp \in Comparisons \ (NullSafe \cup {"expr"})
    PROVE  Indeterminate(c, l, r) = Truth(Holds(c, l, r) # "FALSE")
<1>1. Holds(c, l, r) \in Truths BY HoldsTyped
<1>2. Holds(c, l, r) = "NULL" <=> l[c.at] = Null \/ r[c.at] = Null BY HoldsNull
<1> QED BY <1>1, <1>2 DEF Indeterminate, Or, Truth, Truths

\* What conditions joined by AND, and by OR, come to.
LEMMA HoldAllIs ==
    ASSUME NEW conds, NEW I, NEW l, NEW r, \A i \in I : Holds(conds[i], l, r) \in Truths
    PROVE  /\ HoldAll(conds, I, l, r) \in Truths
           /\ HoldAll(conds, I, l, r) = "TRUE" <=> \A i \in I : Holds(conds[i], l, r) = "TRUE"
           /\ HoldAll(conds, I, l, r) = "FALSE" <=> \E i \in I : Holds(conds[i], l, r) = "FALSE"
BY DEF HoldAll, And, Truths
LEMMA HoldAnyIs ==
    ASSUME NEW conds, NEW I, NEW l, NEW r, \A i \in I : Holds(conds[i], l, r) \in Truths
    PROVE  /\ HoldAny(conds, I, l, r) \in Truths
           /\ HoldAny(conds, I, l, r) = "TRUE" <=> \E i \in I : Holds(conds[i], l, r) = "TRUE"
           /\ HoldAny(conds, I, l, r) = "NULL" <=>
                 /\ ~\E i \in I : Holds(conds[i], l, r) = "TRUE"
                 /\ \E i \in I : Holds(conds[i], l, r) = "NULL"
BY DEF HoldAny, Or, Truths

LEMMA CondsTyped ==
    ASSUME NEW conds, Typed(conds)
    PROVE  /\ Membership(conds) \subseteq DOMAIN conds
           /\ Correlation(conds) \subseteq DOMAIN conds
           /\ DOMAIN conds = Membership(conds) \cup Correlation(conds)
           /\ \A i \in Membership(conds) : conds[i].cmp \in Comparisons \ (NullSafe \cup {"expr"})
           /\ \A i \in DOMAIN conds : \A l, r : Holds(conds[i], l, r) \in Truths
<1>1. \A i \in DOMAIN conds : \A l, r : Holds(conds[i], l, r) \in Truths
  BY HoldsTyped DEF Typed
<1> QED BY <1>1 DEF Typed, Membership, Correlation

------------------------------------------------------------------------------
(* The marks of the two texts that need no join.                           *)

\* Comparisons that match one by one: the test for NULL on the left, then for a match, then for
\* NULL on the right, say what the rows say joined by OR.
LEMMA IndependentMarkIs ==
    ASSUME NEW conds, NEW l, NEW right, Typed(conds), Independent(conds),
           Correlation(conds) = {}, \A i \in DOMAIN conds : l[conds[i].at] # Null
    PROVE  IndependentMark(conds, l, right) = PlanMark(conds, l, right)
<1> DEFINE any(k) == HoldAny(conds, Membership(conds), l, right[k])
<1>1. PlanMark(conds, l, right) = Or({any(k) : k \in DOMAIN right})
  <2>1. \A k : HoldAll(conds, Correlation(conds), l, right[k]) = "TRUE"
    BY DEF HoldAll, And
  <2> QED BY <2>1 DEF PlanMark
<1>2. \A k : /\ any(k) \in Truths
             /\ any(k) = "TRUE" <=> \E i \in Membership(conds) : Holds(conds[i], l, right[k]) = "TRUE"
             /\ any(k) = "NULL" <=>
                   /\ ~\E i \in Membership(conds) : Holds(conds[i], l, right[k]) = "TRUE"
                   /\ \E i \in Membership(conds) : Holds(conds[i], l, right[k]) = "NULL"
  BY CondsTyped, HoldAnyIs
<1>3. \A k : \A i \in Membership(conds) : Holds(conds[i], l, right[k]) = "NULL" <=> right[k][conds[i].at] = Null
  BY CondsTyped, HoldsNull
<1>4. ~\E i \in Membership(conds) : l[conds[i].at] = Null
  BY CondsTyped
<1>5. IndependentMark(conds, l, right) =
        IF "TRUE" \in {any(k) : k \in DOMAIN right} THEN "TRUE"
        ELSE IF \E k \in DOMAIN right, i \in Membership(conds) : right[k][conds[i].at] = Null THEN "NULL" ELSE "FALSE"
  BY <1>4 DEF IndependentMark
<1> HIDE DEF any
<1>6. CASE "TRUE" \in {any(k) : k \in DOMAIN right}
  BY <1>1, <1>5, <1>6 DEF Or
<1>7. CASE "TRUE" \notin {any(k) : k \in DOMAIN right}
  <2>1. \A k \in DOMAIN right : any(k) # "TRUE" BY <1>7
  <2>2. (\E k \in DOMAIN right, i \in Membership(conds) : right[k][conds[i].at] = Null)
          <=> \E k \in DOMAIN right : any(k) = "NULL"
    BY <2>1, <1>2, <1>3
  <2> QED BY <2>2, <1>1, <1>5, <1>7 DEF Or
<1> QED BY <1>6, <1>7

\* A membership test: a row that matches makes it true, a row that nothing rules out makes it NULL.
LEMMA MembershipMarkIs ==
    ASSUME NEW conds, NEW l, NEW right, Typed(conds), ~Independent(conds)
    PROVE  MembershipMark(conds, l, right) = PlanMark(conds, l, right)
<1> DEFINE all(k) == HoldAll(conds, Membership(conds), l, right[k])
           tied(k) == HoldAll(conds, Correlation(conds), l, right[k])
           unsure(k) == And({Holds(conds[i], l, right[k]) : i \in Correlation(conds)}
                            \cup {Indeterminate(conds[i], l, right[k]) : i \in Membership(conds)})
<1>1. PlanMark(conds, l, right) = Or({all(k) : k \in {k \in DOMAIN right : tied(k) = "TRUE"}})
  BY DEF PlanMark
<1>2. \A k : /\ all(k) \in Truths
             /\ all(k) = "TRUE" <=> \A i \in Membership(conds) : Holds(conds[i], l, right[k]) = "TRUE"
             /\ all(k) = "FALSE" <=> \E i \in Membership(conds) : Holds(conds[i], l, right[k]) = "FALSE"
  BY CondsTyped, HoldAllIs
<1>3. \A k : tied(k) = "TRUE" <=> \A i \in Correlation(conds) : Holds(conds[i], l, right[k]) = "TRUE"
  BY CondsTyped, HoldAllIs
<1>4. \A k : Matches(conds, l, right[k]) <=> tied(k) = "TRUE" /\ all(k) = "TRUE"
  <2>1. \A k : HoldAll(conds, DOMAIN conds, l, right[k]) = "TRUE"
                 <=> \A i \in DOMAIN conds : Holds(conds[i], l, right[k]) = "TRUE"
    BY CondsTyped, HoldAllIs
  <2> QED BY <2>1, <1>2, <1>3, CondsTyped DEF Matches
<1>5. \A k : unsure(k) = "TRUE" <=> tied(k) = "TRUE" /\ all(k) # "FALSE"
  <2> SUFFICES ASSUME NEW k PROVE unsure(k) = "TRUE" <=> tied(k) = "TRUE" /\ all(k) # "FALSE"
    OBVIOUS
  <2>1. \A i \in Membership(conds) : Indeterminate(conds[i], l, right[k]) = Truth(Holds(conds[i], l, right[k]) # "FALSE")
    BY CondsTyped, IndeterminateIs
  <2>2. \A i \in Correlation(conds) : Holds(conds[i], l, right[k]) \in Truths
    BY CondsTyped
  <2>3. unsure(k) = "TRUE" <=> /\ \A i \in Correlation(conds) : Holds(conds[i], l, right[k]) = "TRUE"
                             /\ \A i \in Membership(conds) : Holds(conds[i], l, right[k]) # "FALSE"
    BY <2>1, <2>2 DEF And, Truth, Truths
  <2> QED BY <2>3, <1>2, <1>3
<1>6. MembershipMark(conds, l, right) =
        IF Matching(conds, l, right) # {} THEN "TRUE"
        ELSE IF "TRUE" \in {unsure(k) : k \in DOMAIN right} THEN "NULL" ELSE "FALSE"
  BY DEF MembershipMark
<1> HIDE DEF all, tied, unsure
<1>7. Matching(conds, l, right) # {} <=> \E k \in DOMAIN right : tied(k) = "TRUE" /\ all(k) = "TRUE"
  BY <1>4 DEF Matching
<1>8. "TRUE" \in {unsure(k) : k \in DOMAIN right} <=> \E k \in DOMAIN right : tied(k) = "TRUE" /\ all(k) # "FALSE"
  BY <1>5
<1> QED BY <1>1, <1>2, <1>6, <1>7, <1>8 DEF Or, Truths

------------------------------------------------------------------------------
(* Results as bags.                                                        *)

\* Results whose rows correspond one to one are the same bag.
LEMMA SameBag ==
    ASSUME NEW f, NEW g, IsFiniteSet(DOMAIN f), NEW b \in Bijection(DOMAIN f, DOMAIN g),
           \A i \in DOMAIN f : g[b[i]] = f[i]
    PROVE  BagOf(f) = BagOf(g)
<1>1. /\ b \in [DOMAIN f -> DOMAIN g]
      /\ \A i, k \in DOMAIN f : b[i] = b[k] => i = k
      /\ \A n \in DOMAIN g : \E i \in DOMAIN f : b[i] = n
  BY DEF Bijection, Injection, Surjection, IsInjective
<1>2. RowsOf(f) = RowsOf(g)
  BY <1>1 DEF RowsOf
<1>3. ASSUME NEW row
      PROVE  Cardinality({k \in DOMAIN f : f[k] = row}) = Cardinality({k \in DOMAIN g : g[k] = row})
  <2> DEFINE S == {k \in DOMAIN f : f[k] = row}
             T == {k \in DOMAIN g : g[k] = row}
             c == [k \in S |-> b[k]]
  <2>1. IsFiniteSet(S)
    <3>1. S \subseteq DOMAIN f OBVIOUS
    <3> HIDE DEF S
    <3> QED BY <3>1, FS_Subset
  <2>2. c \in [S -> T] BY <1>1
  <2>3. \A i, k \in S : c[i] = c[k] => i = k BY <1>1
  <2>4. \A n \in T : \E i \in S : c[i] = n BY <1>1
  <2> HIDE DEF S, T, c
  <2>5. c \in Bijection(S, T)
    BY <2>2, <2>3, <2>4 DEF Bijection, Injection, Surjection, IsInjective
  <2>6. ExistsBijection(S, T) BY <2>5 DEF ExistsBijection
  <2>7. Cardinality(T) = Cardinality(S) BY <2>1, <2>6, FS_Bijection
  <2> QED BY <2>7 DEF S, T
<1> QED BY <1>2, <1>3 DEF BagOf

\* The row of a single index, and of none.
LEMMA RowAtIs ==
    ASSUME NEW table
    PROVE  /\ RowAt(table, {}) = Padding
           /\ \A k : RowAt(table, {k}) = table[k]
           /\ \A ks : ks # {} => \E k \in ks : RowAt(table, ks) = table[k]
<1>1. RowAt(table, {}) = Padding BY DEF RowAt
<1>2. ASSUME NEW ks, ks # {} PROVE \E k \in ks : RowAt(table, ks) = table[k]
  <2>1. PICK n : n \in ks BY <1>2
  <2>2. (CHOOSE k \in ks : TRUE) \in ks BY <2>1
  <2> QED BY <2>2, <1>2 DEF RowAt
<1>3. \A k : RowAt(table, {k}) = table[k]
  <2> TAKE k
  <2>1. \E n \in {k} : RowAt(table, {k}) = table[n] BY <1>2
  <2> QED BY <2>1
<1> QED BY <1>1, <1>2, <1>3

\* Where no left row finds two partners, a LEFT JOIN has one row for each.
AtMostOne(conds, left, right) ==
    \A i \in DOMAIN left : \A k, n \in Matching(conds, left[i], right) : k = n
LEMMA OneEach ==
    ASSUME NEW conds, NEW left, NEW right, AtMostOne(conds, left, right)
    PROVE  Origins("LEFT", conds, left, right) = {<<{i}, Matching(conds, left[i], right)>> : i \in DOMAIN left}
<1> DEFINE M(i) == Matching(conds, left[i], right)
<1>1. \A i \in DOMAIN left : M(i) = {} \/ \E k : M(i) = {k}
  BY DEF AtMostOne
<1>2. Origins("LEFT", conds, left, right) = Pairs(conds, left, right) \cup Lefts(conds, left, right)
  BY DEF Origins
<1>3. Pairs(conds, left, right) = UNION {{<<{i}, {k}>> : k \in M(i)} : i \in DOMAIN left}
  BY DEF Pairs
<1>4. Lefts(conds, left, right) = {<<{i}, {}>> : i \in {i \in DOMAIN left : M(i) = {}}}
  BY DEF Lefts
<1> HIDE DEF M
<1>5. ASSUME NEW o \in Origins("LEFT", conds, left, right) PROVE \E i \in DOMAIN left : o = <<{i}, M(i)>>
  <2>1. CASE o \in Pairs(conds, left, right)
    <3>1. PICK i \in DOMAIN left : \E k \in M(i) : o = <<{i}, {k}>> BY <2>1, <1>3
    <3>2. PICK k \in M(i) : o = <<{i}, {k}>> BY <3>1
    <3>3. M(i) = {k} BY <3>2, <1>1
    <3> QED BY <3>2, <3>3
  <2>2. CASE o \in Lefts(conds, left, right)
    BY <2>2, <1>4
  <2> QED BY <2>1, <2>2, <1>2
<1>6. ASSUME NEW i \in DOMAIN left PROVE <<{i}, M(i)>> \in Origins("LEFT", conds, left, right)
  <2>1. CASE M(i) = {}
    BY <2>1, <1>2, <1>4
  <2>2. CASE \E k : M(i) = {k}
    <3>1. PICK k : M(i) = {k} BY <2>2
    <3>2. <<{i}, {k}>> \in {<<{i}, {n}>> : n \in M(i)} BY <3>1
    <3>3. <<{i}, {k}>> \in Pairs(conds, left, right) BY <3>2, <1>3
    <3> QED BY <3>1, <3>3, <1>2
  <2> QED BY <2>1, <2>2, <1>1
<1>7. Origins("LEFT", conds, left, right) = {<<{i}, M(i)>> : i \in DOMAIN left}
  BY <1>5, <1>6
<1> QED BY <1>7 DEF M

\* So a result with a row for every left row is the same bag if its rows agree with those.
LEMMA SameAsEach ==
    ASSUME NEW conds, NEW left, NEW right, IsFiniteSet(DOMAIN left), AtMostOne(conds, left, right),
           NEW each, DOMAIN each = DOMAIN left,
           NEW joined, DOMAIN joined = Origins("LEFT", conds, left, right),
           \A i \in DOMAIN left : joined[<<{i}, Matching(conds, left[i], right)>>] = each[i]
    PROVE  BagOf(each) = BagOf(joined)
<1> DEFINE b == [i \in DOMAIN left |-> <<{i}, Matching(conds, left[i], right)>>]
           O == {<<{i}, Matching(conds, left[i], right)>> : i \in DOMAIN left}
<1>1. DOMAIN joined = O BY OneEach
<1>2. b \in [DOMAIN left -> O] OBVIOUS
<1>3. \A i, k \in DOMAIN left : b[i] = b[k] => i = k
  <2> SUFFICES ASSUME NEW i \in DOMAIN left, NEW k \in DOMAIN left, b[i] = b[k] PROVE i = k
    OBVIOUS
  <2>1. b[i][1] = {i} /\ b[k][1] = {k} OBVIOUS
  <2>2. {i} = {k} BY <2>1
  <2> QED BY <2>2
<1>4. \A o \in O : \E i \in DOMAIN left : b[i] = o OBVIOUS
<1>5. \A i \in DOMAIN left : joined[b[i]] = each[i] OBVIOUS
<1> HIDE DEF b, O
<1>6. b \in Bijection(DOMAIN each, DOMAIN joined)
  BY <1>1, <1>2, <1>3, <1>4 DEF Bijection, Injection, Surjection, IsInjective
<1> QED BY <1>5, <1>6, SameBag

------------------------------------------------------------------------------
(* The texts that join the distinct rows of the right side.                *)

LEMMA Distinct ==
    ASSUME NEW conds, NEW l, NEW right
    PROVE  /\ DOMAIN DistinctRows(right) = RowsOf(right)
           /\ \A row \in RowsOf(right) : DistinctRows(right)[row] = row
           /\ Matching(conds, l, DistinctRows(right)) = {right[k] : k \in Matching(conds, l, right)}
<1>1. /\ DOMAIN DistinctRows(right) = RowsOf(right)
      /\ \A row \in RowsOf(right) : DistinctRows(right)[row] = row
  BY DEF DistinctRows
<1>2. Matching(conds, l, DistinctRows(right)) = {row \in RowsOf(right) : Matches(conds, l, row)}
  BY <1>1 DEF Matching
<1> QED BY <1>1, <1>2 DEF Matching, RowsOf

\* Conditions that are keys of the right side, NULL among their values.
KeyConds(conds) == Membership(conds) = {} /\ \A i \in DOMAIN conds : conds[i].cmp = "IS NOT DISTINCT FROM"
SameKey(conds, r, s) == \A i \in DOMAIN conds : r[conds[i].at] = s[conds[i].at]
KeysOf(conds, right) == \A r, s \in RowsOf(right) : SameKey(conds, r, s) => r = s

LEMMA KeysMatch ==
    ASSUME NEW conds, KeyConds(conds), NEW l, NEW r
    PROVE  Matches(conds, l, r) <=> SameKey(conds, l, r)
<1>1. \A i \in DOMAIN conds : Holds(conds[i], l, r) = Truth(l[conds[i].at] = r[conds[i].at])
  BY DEF Holds, NullSafe, KeyConds
<1> QED BY <1>1 DEF Matches, HoldAll, And, Truth, SameKey

LEMMA KeysFindOne ==
    ASSUME NEW conds, NEW left, NEW right, KeyConds(conds), KeysOf(conds, right)
    PROVE  AtMostOne(conds, left, DistinctRows(right))
<1> SUFFICES ASSUME NEW i \in DOMAIN left, NEW k \in Matching(conds, left[i], DistinctRows(right)),
                    NEW n \in Matching(conds, left[i], DistinctRows(right))
             PROVE  k = n
  BY DEF AtMostOne
<1>1. k \in RowsOf(right) /\ n \in RowsOf(right) /\ Matches(conds, left[i], k) /\ Matches(conds, left[i], n)
  BY Distinct DEF Matching
<1>2. SameKey(conds, left[i], k) /\ SameKey(conds, left[i], n)
  BY <1>1, KeysMatch
<1>3. SameKey(conds, k, n)
  BY <1>2 DEF SameKey
<1> QED BY <1>1, <1>3 DEF KeysOf

\* The mark of an EXISTS is whether there is a partner.
LEMMA ExistsMarkIs ==
    ASSUME NEW conds, NEW l, NEW right, KeyConds(conds)
    PROVE  PlanMark(conds, l, right) = Truth(Matching(conds, l, DistinctRows(right)) # {})
<1>1. \A r : HoldAll(conds, {}, l, r) = "TRUE"
  BY DEF HoldAll, And
<1>2. Correlation(conds) = DOMAIN conds
  BY DEF Membership, Correlation, KeyConds
<1>3. ~Independent(conds)
  <2>1. Cardinality(Membership(conds)) = 0 BY FS_EmptySet DEF KeyConds
  <2>2. ~(Cardinality(Membership(conds)) > 1) BY <2>1
  <2> QED BY <2>2 DEF Independent
<1>4. PlanMark(conds, l, right) = Or({"TRUE" : k \in Matching(conds, l, right)})
  BY <1>1, <1>2, <1>3 DEF PlanMark, Matching, Matches, KeyConds
<1>5. Matching(conds, l, DistinctRows(right)) = {right[k] : k \in Matching(conds, l, right)}
  BY Distinct
<1>6. Matching(conds, l, DistinctRows(right)) # {} <=> Matching(conds, l, right) # {}
  BY <1>5
<1> QED BY <1>4, <1>6 DEF Or, Truth

\* A LEFT JOIN that finds distinct keys, which NULL matches too, and asks of each row whether it
\* has a partner: the marks of an EXISTS.
LEMMA JoinedMarksAre ==
    ASSUME NEW j, NEW conds, NEW left, NEW right, IsFiniteSet(DOMAIN left), KeyConds(conds), KeysOf(conds, right),
           ~MarkIsTrue(j), j.conds = conds, j.left = left, j.right = right
    PROVE  BagOf(JoinedMarks(j))
             = BagOf([i \in DOMAIN left |-> left[i] \o <<PlanMark(conds, left[i], right)>>])
<1> DEFINE M(i) == Matching(conds, left[i], DistinctRows(right))
<1>1. PICK each : each = [i \in DOMAIN left |-> left[i] \o <<PlanMark(conds, left[i], right)>>] OBVIOUS
<1>2. PICK joined : joined = JoinedMarks(j) OBVIOUS
<1>3. AtMostOne(conds, left, DistinctRows(right))
  BY KeysFindOne
<1>4. \A i : PlanMark(conds, left[i], right) = Truth(M(i) # {})
  BY ExistsMarkIs
<1>5. Origins("LEFT", conds, left, DistinctRows(right)) = {<<{i}, M(i)>> : i \in DOMAIN left}
  BY <1>3, OneEach
<1>6. ASSUME NEW i \in DOMAIN left PROVE joined[<<{i}, M(i)>>] = each[i]
  <2>1. <<{i}, M(i)>> \in Origins("LEFT", conds, left, DistinctRows(right))
    BY <1>5
  <2> HIDE DEF M
  <2>2. joined[<<{i}, M(i)>>] = RowAt(left, {i}) \o <<Truth(M(i) # {})>>
    BY <2>1, <1>2 DEF JoinedMarks, PartnerFound
  <2>3. RowAt(left, {i}) = left[i] BY RowAtIs
  <2> QED BY <2>2, <2>3, <1>1, <1>4
<1>7. DOMAIN joined = Origins("LEFT", conds, left, DistinctRows(right))
  BY <1>2 DEF JoinedMarks
<1>8. DOMAIN each = DOMAIN left BY <1>1
<1>9. BagOf(each) = BagOf(joined)
  BY <1>3, <1>6, <1>7, <1>8, SameAsEach
<1> QED BY <1>1, <1>2, <1>9

\* A scalar subquery that finds one row, in however many copies.
FindsOne(conds, left, right) ==
    \A l \in RowsOf(left) : \A k, n \in Matching(conds, l, right) : right[k] = right[n]
LEMMA SingleIs ==
    ASSUME NEW conds, NEW left, NEW right, IsFiniteSet(DOMAIN left), FindsOne(conds, left, right)
    PROVE  BagOf(JoinRows("LEFT", conds, left, DistinctRows(right)))
             = BagOf([i \in DOMAIN left |-> left[i] \o RowAt(right, Matching(conds, left[i], right))])
<1> DEFINE M(i) == Matching(conds, left[i], right)
           D(i) == Matching(conds, left[i], DistinctRows(right))
<1>1. PICK each : each = [i \in DOMAIN left |-> left[i] \o RowAt(right, M(i))] OBVIOUS
<1>2. PICK joined : joined = JoinRows("LEFT", conds, left, DistinctRows(right)) OBVIOUS
<1>3. \A i \in DOMAIN left : \A k, n \in M(i) : right[k] = right[n]
  BY DEF FindsOne, RowsOf
<1>4. \A i : D(i) = {right[k] : k \in M(i)}
  BY Distinct
<1>5. \A i : M(i) \subseteq DOMAIN right
  BY DEF Matching
<1>6. AtMostOne(conds, left, DistinctRows(right))
  <2>1. \A i \in DOMAIN left : \A k, n \in D(i) : k = n
    <3> HIDE DEF M, D
    <3> QED BY <1>3, <1>4
  <2> QED BY <2>1 DEF AtMostOne
<1>7. Origins("LEFT", conds, left, DistinctRows(right)) = {<<{i}, D(i)>> : i \in DOMAIN left}
  BY <1>6, OneEach
<1>8. ASSUME NEW i \in DOMAIN left
      PROVE  RowAt(DistinctRows(right), D(i)) = RowAt(right, M(i))
  <2> HIDE DEF M, D
  <2>1. CASE M(i) = {}
    <3>1. D(i) = {} BY <1>4, <2>1
    <3> QED BY <3>1, <2>1, RowAtIs
  <2>2. CASE M(i) # {}
    <3>1. PICK k \in M(i) : RowAt(right, M(i)) = right[k] BY <2>2, RowAtIs
    <3>2. D(i) = {right[k]} BY <1>3, <1>4
    <3>3. right[k] \in RowsOf(right) BY <1>5 DEF RowsOf
    <3>4. RowAt(DistinctRows(right), {right[k]}) = DistinctRows(right)[right[k]] BY RowAtIs
    <3>5. DistinctRows(right)[right[k]] = right[k] BY <3>3, Distinct
    <3> QED BY <3>1, <3>2, <3>4, <3>5
  <2> QED BY <2>1, <2>2
<1>9. ASSUME NEW i \in DOMAIN left PROVE joined[<<{i}, D(i)>>] = each[i]
  <2>1. <<{i}, D(i)>> \in Origins("LEFT", conds, left, DistinctRows(right))
    BY <1>7
  <2> HIDE DEF M, D
  <2>2. joined[<<{i}, D(i)>>] = RowAt(left, {i}) \o RowAt(DistinctRows(right), D(i))
    BY <2>1, <1>2 DEF JoinRows
  <2>3. RowAt(left, {i}) = left[i] BY RowAtIs
  <2> QED BY <2>2, <2>3, <1>1, <1>8
<1>10. DOMAIN joined = Origins("LEFT", conds, left, DistinctRows(right))
  BY <1>2 DEF JoinRows
<1>11. DOMAIN each = DOMAIN left BY <1>1
<1>12. BagOf(each) = BagOf(joined)
  BY <1>6, <1>9, <1>10, <1>11, SameAsEach
<1> QED BY <1>1, <1>2, <1>12

------------------------------------------------------------------------------
(* Every join.                                                             *)

\* What the theorem asks of a join.
Offered(j) ==
    /\ Typed(j.conds)
    /\ IsFiniteSet(DOMAIN j.left)
    /\ Printable(j) /\ Executes(j)

LEMMA MarkTextIs ==
    ASSUME NEW j, Offered(j), j.type = "MARK"
    PROVE  BagOf(MarkText(j)) = BagOf([i \in DOMAIN j.left |-> j.left[i] \o <<PlanMark(j.conds, j.left[i], j.right)>>])
<1>1. CASE Independent(j.conds)
  <2>1. ASSUME NEW i \in DOMAIN j.left
        PROVE  IndependentMark(j.conds, j.left[i], j.right) = PlanMark(j.conds, j.left[i], j.right)
    <3>1. Correlation(j.conds) = {} /\ \A n \in DOMAIN j.conds : j.left[i][j.conds[n].at] # Null
      BY <1>1 DEF Offered, Executes, RowsOf
    <3> QED BY <3>1, <1>1, IndependentMarkIs DEF Offered
  <2> QED BY <2>1, <1>1 DEF MarkText
<1>2. CASE ~Independent(j.conds) /\ Membership(j.conds) # {}
  <2>1. \A i \in DOMAIN j.left : MembershipMark(j.conds, j.left[i], j.right) = PlanMark(j.conds, j.left[i], j.right)
    BY <1>2, MembershipMarkIs DEF Offered
  <2> QED BY <2>1, <1>2 DEF MarkText
<1>3. CASE ~Independent(j.conds) /\ Membership(j.conds) = {}
  <2>1. KeyConds(j.conds) /\ KeysOf(j.conds, j.right)
    BY <1>3 DEF Offered, Executes, KeyConds, KeysOf, SameKey
  <2>2. MarkText(j) = JoinedMarks(j)
    BY <1>3 DEF MarkText
  <2>3. IsFiniteSet(DOMAIN j.left) BY DEF Offered
  <2>4. ~MarkIsTrue(j)
    <3>1. 1 \in DOMAIN j.conds /\ \A i \in DOMAIN j.conds : j.conds[i].reference
      BY <1>3 DEF Offered, Executes
    <3>2. j.conds # << >> BY <3>1
    <3> QED BY <3>1, <3>2 DEF MarkIsTrue
  <2> QED BY <2>1, <2>2, <2>3, <2>4, JoinedMarksAre
<1> QED BY <1>1, <1>2, <1>3

\* Whatever the type, operator, dialect and conditions, the text returns the plan's rows.
THEOREM EveryTextMeansThePlan ==
    ASSUME NEW j, Offered(j)
    PROVE  BagOf(ToQuery(j)) = BagOf(PlanRows(j))
<1>1. j.type \in Comparable
  BY DEF Offered, Printable, ValidateJoinTypeForDialect
<1>2. CASE j.type = "MARK"
  <2>1. ToQuery(j) = MarkText(j)
    BY <1>2 DEF ToQuery, SqlJoinType, Offered, Printable
  <2>2. PlanRows(j) = [i \in DOMAIN j.left |-> j.left[i] \o <<PlanMark(j.conds, j.left[i], j.right)>>]
    BY <1>2 DEF PlanRows, Semis
  <2> QED BY <1>2, <2>1, <2>2, MarkTextIs
<1>3. CASE j.type = "SINGLE"
  <2>1. ToQuery(j) = JoinRows("LEFT", j.conds, j.left, DistinctRows(j.right))
    BY <1>3 DEF ToQuery, SqlJoinType
  <2>2. PlanRows(j) = [i \in DOMAIN j.left |-> j.left[i] \o RowAt(j.right, Matching(j.conds, j.left[i], j.right))]
    BY <1>3 DEF PlanRows, Semis
  <2>3. IsFiniteSet(DOMAIN j.left) /\ FindsOne(j.conds, j.left, j.right)
    BY <1>3 DEF Offered, Executes, FindsOne
  <2>4. BagOf(JoinRows("LEFT", j.conds, j.left, DistinctRows(j.right)))
          = BagOf([i \in DOMAIN j.left |-> j.left[i] \o RowAt(j.right, Matching(j.conds, j.left[i], j.right))])
    BY <2>3, SingleIs
  <2> QED BY <2>1, <2>2, <2>4
<1>4. CASE j.type \in {"SEMI", "ANTI"}
  <2>1. ToQuery(j) = Semi(j.conds, j.left, j.right, j.type = "SEMI")
    BY <1>4 DEF ToQuery, SqlJoinType
  <2>2. PlanRows(j) = Semi(j.conds, j.left, j.right, j.type \in {"SEMI", "RIGHT_SEMI"})
    BY <1>4 DEF PlanRows, Semis
  <2>3. (j.type = "SEMI") = (j.type \in {"SEMI", "RIGHT_SEMI"}) BY <1>4
  <2> QED BY <2>1, <2>2, <2>3
<1>5. CASE j.type \in {"RIGHT_SEMI", "RIGHT_ANTI"} /\ j.op = "delim"
  <2>1. ToQuery(j) = Semi(j.conds, j.left, j.right, SqlJoinType(j) = "SEMI")
    BY <1>5 DEF ToQuery, SqlJoinType
  <2>2. PlanRows(j) = Semi(j.conds, j.left, j.right, j.type \in {"SEMI", "RIGHT_SEMI"})
    BY <1>5 DEF PlanRows, Semis
  <2>3. (SqlJoinType(j) = "SEMI") = (j.type \in {"SEMI", "RIGHT_SEMI"}) BY <1>5 DEF SqlJoinType
  <2> QED BY <2>1, <2>2, <2>3
<1>6. CASE j.type \in {"RIGHT_SEMI", "RIGHT_ANTI"} /\ j.op # "delim"
  <2>1. ToQuery(j) = RightSemi(j.conds, j.left, j.right, j.type = "RIGHT_SEMI")
    BY <1>6 DEF ToQuery, SqlJoinType
  <2>2. PlanRows(j) = RightSemi(j.conds, j.left, j.right, j.type = "RIGHT_SEMI")
    BY <1>6 DEF PlanRows, Semis
  <2> QED BY <2>1, <2>2
<1>7. CASE j.type \in {"INNER", "LEFT", "RIGHT", "OUTER"}
  <2>1. ToQuery(j) = JoinRows(j.type, j.conds, j.left, j.right)
    BY <1>7 DEF ToQuery, SqlJoinType
  <2>2. PlanRows(j) = JoinRows(j.type, j.conds, j.left, j.right)
    BY <1>7 DEF PlanRows, Semis
  <2> QED BY <2>1, <2>2
<1> QED BY <1>1, <1>2, <1>3, <1>4, <1>5, <1>6, <1>7 DEF Comparable, Semis

\* JoinMeansThePlan: so does the text of every join that is ever looked at.
THEOREM JoinsMeanThePlan == JoinSpec => []JoinMeansThePlan
<1> DEFINE Inv == join # NoJoin => Offered(join)
<1>1. JoinInit => Inv
  BY DEF JoinInit
<1>2. Inv /\ [JoinNext]_join => Inv'
  <2> SUFFICES ASSUME Inv, [JoinNext]_join PROVE Inv'
    OBVIOUS
  <2>1. CASE PickJoin
    <3>1. PICK m \in JoinMenus : \E type \in m.types, op \in m.ops, conds \in m.conds, left \in m.left, right \in m.right,
            dialect \in m.dialects, native \in m.native :
        /\ join' = [type |-> type, op |-> op, conds |-> conds, left |-> left, right |-> right,
                    dialect |-> dialect, native |-> native]
        /\ Printable(join') /\ ~NativeMark(join') /\ Executes(join')
      BY <2>1 DEF PickJoin
    <3>2. PICK conds \in m.conds, left \in m.left :
            join'.conds = conds /\ join'.left = left /\ Printable(join') /\ Executes(join')
      BY <3>1
    <3>3. Typed(conds) /\ IsFiniteSet(DOMAIN left)
      BY JoinMenusAssumption DEF Typed
    <3>4. Offered(join') BY <3>2, <3>3 DEF Offered
    <3> QED BY <3>4
  <2>2. CASE UNCHANGED join
    BY <2>2
  <2> QED BY <2>1, <2>2 DEF JoinNext, JoinPrinted
<1>3. Inv => JoinMeansThePlan
  BY EveryTextMeansThePlan DEF JoinMeansThePlan
<1> QED BY <1>1, <1>2, <1>3, PTL DEF JoinSpec

=============================================================================
