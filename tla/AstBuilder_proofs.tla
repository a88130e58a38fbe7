-------------------------- MODULE AstBuilder_proofs --------------------------
(***************************************************************************)
(* Whoever looks a column up by the name that column_map has for its       *)
(* binding reads what the binding stands for in the plan, whatever plan    *)
(* the builder is given: FitInv is the inductive invariant.                *)
(*                                                                         *)
(* Each finished subtree fits its bindings: it has a column for each, in   *)
(* their order, that shows what the plan means, and no other of its        *)
(* columns has that column's name.  Names of different tables differ, so   *)
(* what keeps subtrees apart is which tables their names may have: the     *)
(* stack is given areas (A), one for each item, that have nothing in       *)
(* common, except that the second branch of a set operation may use the    *)
(* tables of the first, whose names its frame has kept.  A frame also says *)
(* what its second subtree was promised: keys of a delim join to read, the *)
(* columns of a CTE's body.                                                *)
(***************************************************************************)
EXTENDS Planning_proofs


-----------------------------------------------------------------------------
(* The builder.                                                            *)

Truth(A) == Sound(work, A, index, column_map, delim_get_source_col_names, materialized_cte_body_column_names)
\* The last node read what the plan means, and so will whoever looks up a name.
Faithful == RightReads(reads) /\ \E A : Truth(A)
\* All names are of tables the plan has used by now, also when a set operation is left.
FreshIn(w, ix, map) ==
    /\ \A b \in DOMAIN map : b[1] \in Int /\ b[1] < ix
    /\ \A k \in 1..Len(w) : IsSetOp(w[k]) => \A b \in DOMAIN w[k].scope : b[1] \in Int /\ b[1] < w[k].next
FitInv ==
    /\ BuilderInv
    /\ ColumnsOfItsOwn => Faithful /\ ("Reuse" \notin menu.kinds => FreshIn(work, index, column_map))

LEMMA NodesTypedNow ==
    ASSUME BuilderInv
    PROVE  NodesTyped(work) /\ Len(work) \in Nat /\ IsStack(work) /\ index \in Int /\ serial \in Int
<1>1. ASSUME NEW i \in 1..Len(work) PROVE Len(NodeOf(work[i]).bindings) \in Nat
  <2>1. Covered(NodeOf(work[i]), DOMAIN column_map)
    BY ItemAt DEF ItemIn
  <2>. QED  BY <2>1 DEF Covered
<1>. QED  BY <1>1, WorkFacts DEF NodesTyped, BuilderInv

LEMMA SoundLater ==
    ASSUME NEW w, NEW A, NEW ix \in Int, NEW map, NEW sources, NEW copies, Sound(w, A, ix, map, sources, copies),
           NEW iy \in Int, ix <= iy
    PROVE  Sound(w, A, iy, map, sources, copies)
<1>1. \A i \in 1..Len(w) : \A t \in Area(w, A, i) \cup Held(w[i]) :
        t \in Int /\ t < iy /\ \A j \in (i + 1)..Len(w) : t < NodeOf(w[j]).from
  BY DEF Sound, Layout
<1>. QED  BY <1>1 DEF Sound, Layout

\* What an operator that takes the place of all items but m has to show.
Building(m, node, map, A, Q, k, scope, seen) ==
    /\ Placing(work, A, index, index', m, node, Q)
    /\ k \in m..Len(work)
    /\ AllFit(work, k, scope, A, delim_get_source_col_names, materialized_cte_body_column_names)
    /\ Agrees(scope, map, Q) /\ MapTyped(map) /\ Fits(node, map, Q)
    /\ RightReads(seen)

LEMMA BuildFits ==
    ASSUME BuilderInv, RightReads(reads), NEW A, Truth(A), index' \in Int, index <= index',
           NEW n \in 0..Len(work), NEW needed, NEW node, NEW map, NEW seen, Build(n, needed, node, map, seen), Named,
           NEW Q, NEW k, NEW scope,
           needed \subseteq DOMAIN column_map /\ Len(node.cols) <= MaxColumns
                => Building(Len(work) - n, node, map, A, Q, k, scope, seen)
    PROVE  Faithful'
<1>0. /\ NodesTyped(work) /\ Len(work) \in Nat /\ IsStack(work) /\ index \in Int
      /\ delim_get_source_col_names' = delim_get_source_col_names
      /\ materialized_cte_body_column_names' = materialized_cte_body_column_names
  BY NodesTypedNow DEF Named
<1>1. CASE needed \subseteq DOMAIN column_map
  <2>1. /\ Len(node.cols) <= MaxColumns /\ column_map' = map /\ reads' = seen
        /\ work' = Append(SubSeq(work, 1, Len(work) - n), node)
    BY <1>1 DEF Build
  <2>2. PICK m \in 0..Len(work) : m = Len(work) - n
    <3>1. Len(work) - n \in 0..Len(work)
      BY <1>0
    <3>. QED  BY <3>1
  <2>3. Building(m, node, map, A, Q, k, scope, seen)
    BY <1>1, <2>1, <2>2
  <2>4. Replaced(work', work, Len(work) - m, node)
    <3>1. Len(work) - (Len(work) - n) = n
      BY <1>0
    <3>. QED  BY <2>1, <2>2, <3>1 DEF Replaced
  <2>5. Sound(work', Extended(A, m, Q), index', map, delim_get_source_col_names, materialized_cte_body_column_names)
    BY <1>0, <2>3, <2>4, SoundReplaced DEF Building, Truth
  <2>6. Truth(Extended(A, m, Q))'
    BY <1>0, <2>1, <2>5 DEF Truth
  <2>7. RightReads(reads)'
    BY <2>1, <2>3 DEF Building, RightReads
  <2>. QED  BY <2>6, <2>7 DEF Faithful
<1>2. CASE ~(needed \subseteq DOMAIN column_map)
  <2>1. work' = work /\ column_map' = column_map /\ reads' = reads
    BY <1>2 DEF Build
  <2>2. Truth(A)'
    BY <1>0, <2>1, SoundLater DEF Truth
  <2>3. RightReads(reads)'
    BY <2>1 DEF RightReads
  <2>. QED  BY <2>2, <2>3 DEF Faithful
<1>. QED  BY <1>1, <1>2

LEMMA BuildFresh ==
    ASSUME BuilderInv, FreshIn(work, index, column_map), index' \in Int, index <= index',
           NEW n \in 0..Len(work), NEW needed, NEW node, NEW map, NEW seen, Build(n, needed, node, map, seen),
           needed \subseteq DOMAIN column_map /\ Len(node.cols) <= MaxColumns
                => ~IsFrame(node) /\ \A b \in DOMAIN map : b \in DOMAIN column_map \/ (b[1] \in Int /\ b[1] < index')
    PROVE  FreshIn(work, index, column_map)'
<1>0. Len(work) \in Nat /\ IsStack(work) /\ index \in Int
  BY NodesTypedNow
<1>1. CASE needed \subseteq DOMAIN column_map
  <2>1. /\ Len(node.cols) <= MaxColumns /\ column_map' = map
        /\ work' = Append(SubSeq(work, 1, Len(work) - n), node)
    BY <1>1 DEF Build
  <2>2. Replaced(work', work, n, node)
    BY <2>1 DEF Replaced
  <2>3. Len(work') = Len(work) - n + 1 /\ work'[Len(work')] = node /\ \A i \in 1..(Len(work) - n) : work'[i] = work[i]
    BY <1>0, <2>2, Stacked
  <2>4. \A b \in DOMAIN map : b[1] \in Int /\ b[1] < index'
    BY <1>0, <1>1, <2>1 DEF FreshIn
  <2>5. ASSUME NEW i \in 1..Len(work'), IsSetOp(work'[i])
        PROVE  \A b \in DOMAIN work'[i].scope : b[1] \in Int /\ b[1] < work'[i].next
    <3>1. i # Len(work')
      BY <1>1, <2>1, <2>3, <2>5 DEF IsSetOp
    <3>2. i \in 1..(Len(work) - n) /\ i \in 1..Len(work)
      BY <1>0, <2>3, <3>1
    <3>3. work'[i] = work[i]
      BY <2>3, <3>2
    <3>4. IsSetOp(work[i])
      BY <2>5, <3>3
    <3>. QED  BY <3>2, <3>3, <3>4 DEF FreshIn
  <2>. QED  BY <2>1, <2>4, <2>5 DEF FreshIn
<1>2. CASE ~(needed \subseteq DOMAIN column_map)
  <2>1. work' = work /\ column_map' = column_map
    BY <1>2 DEF Build
  <2>. QED  BY <1>0, <2>1 DEF FreshIn
<1>. QED  BY <1>1, <1>2

\* The names an operator enters, at bindings of tables T.
Entered(base, bindings, cs, T) ==
    /\ MapTyped(base)
    /\ DOMAIN bindings = 1..Len(bindings) /\ Len(bindings) \in Nat /\ NoTwice(bindings)
    /\ \A i \in 1..Len(bindings) : cs[i] \in ColStructs /\ bindings[i][1] \in T

LEMMA EnteredMap ==
    ASSUME NEW base, NEW bindings, NEW cs, NEW T, Entered(base, bindings, cs, T),
           NEW map, map = Updated(base, Entering(bindings, cs))
    PROVE  /\ \A i \in 1..Len(bindings) : bindings[i] \in DOMAIN map /\ map[bindings[i]] = cs[i]
           /\ Agrees(base, map, T)
           /\ MapTyped(map)
           /\ \A b \in DOMAIN map : b \in DOMAIN base \/ \E i \in 1..Len(bindings) : b = bindings[i]
<1>1. DOMAIN bindings = 1..Len(bindings) /\ Len(bindings) \in Nat
  BY DEF Entered
<1>2. PICK new : new = Entering(bindings, cs)
  OBVIOUS
<1>3. /\ DOMAIN new = {bindings[i] : i \in 1..Len(bindings)}
      /\ \A b \in DOMAIN new : new[b] = cs[CHOOSE i \in 1..Len(bindings) : bindings[i] = b]
  BY <1>1, <1>2 DEF Entering, ToSet
<1>4. ASSUME NEW i \in 1..Len(bindings) PROVE new[bindings[i]] = cs[i]
  <2>1. (CHOOSE j \in 1..Len(bindings) : bindings[j] = bindings[i]) = i
    BY DEF Entered, NoTwice
  <2>. QED  BY <1>3, <2>1
<1>5. /\ DOMAIN map = DOMAIN base \cup DOMAIN new
      /\ \A b \in DOMAIN map : map[b] = IF b \in DOMAIN new THEN new[b] ELSE base[b]
  BY <1>2 DEF Updated
<1>6. \A i \in 1..Len(bindings) : bindings[i] \in DOMAIN map /\ map[bindings[i]] = cs[i]
  BY <1>3, <1>4, <1>5
<1>7. \A b \in DOMAIN new : b[1] \in T
  BY <1>3 DEF Entered
<1>8. Agrees(base, map, T)
  BY <1>5, <1>7 DEF Agrees
<1>9. \A b \in DOMAIN new : new[b] \in ColStructs
  BY <1>3, <1>4 DEF Entered
<1>10. MapTyped(map)
  BY <1>5, <1>9 DEF MapTyped, Entered
<1>. QED  BY <1>3, <1>5, <1>6, <1>8, <1>10

-----------------------------------------------------------------------------
(* Where the tables of a new node come from.                               *)

New == index..(index' - 1)
Later == index' \in Int /\ index <= index'

LEMMA NewTyped ==
    ASSUME index \in Int, Later
    PROVE  \A t \in New : t \in Int /\ index <= t /\ t < index'
<1>1. PICK i \in Int, j \in Int : i = index /\ j = index'
  BY DEF Later
<1>2. New = i..(j - 1)
  BY <1>1 DEF New
<1>3. \A t \in i..(j - 1) : t \in Int /\ i <= t /\ t < j
  OBVIOUS
<1>4. \A t \in New : t \in Int /\ i <= t /\ t < j
  BY <1>2, <1>3
<1>. QED  BY <1>1, <1>4

LEMMA AreaFacts ==
    ASSUME BuilderInv, NEW A, Truth(A), NEW i \in 1..Len(work), ~IsFrame(work[i])
    PROVE  /\ Fits(work[i], column_map, A[i]) /\ Covered(work[i], DOMAIN column_map)
           /\ \A t \in A[i] : t \in Int /\ t < index
           /\ Area(work, A, i) = A[i] /\ NodeOf(work[i]) = work[i]
           /\ MapTyped(column_map)
           /\ \A j \in 1..Len(work) : ~IsFrame(work[j]) /\ j # i => A[j] \cap A[i] = {}
<1>1. NodeOf(work[i]) = work[i] /\ \A j \in 1..Len(work) : ~IsFrame(work[j]) => Area(work, A, j) = A[j] /\ ~IsSetOp(work[j])
  BY DEF NodeOf, Area, IsSetOp
<1>2. Layout(work, A, index)
      /\ AllFit(work, Len(work), column_map, A, delim_get_source_col_names, materialized_cte_body_column_names)
  BY DEF Truth, Sound
<1>3. Fits(work[i], column_map, A[i])
  BY <1>1, <1>2 DEF AllFit, ItemFits
<1>4. Covered(work[i], DOMAIN column_map)
  BY <1>1, ItemAt DEF ItemIn
<1>5. ASSUME NEW t \in A[i] PROVE t \in Int /\ t < index
  BY <1>1, <1>2 DEF Layout
<1>6. ASSUME NEW j \in 1..Len(work), ~IsFrame(work[j]), j # i, NEW t \in A[j], t \in A[i] PROVE FALSE
  BY <1>1, <1>2, <1>6 DEF Layout
<1>. QED  BY <1>1, <1>2, <1>3, <1>4, <1>5, <1>6 DEF AllFit

LEMMA LeafPlaced ==
    ASSUME BuilderInv, Later, NEW A, NEW x, ~IsFrame(x), x.from = index, NEW Q, Q \subseteq New
    PROVE  Placing(work, A, index, index', Len(work) - 0, x, Q)
<1>1. Len(work) \in Nat /\ index \in Int
  BY NodesTypedNow
<1>2. Len(work) - 0 = Len(work) /\ \A j \in (Len(work) + 1)..Len(work) : FALSE
  BY <1>1
<1>3. \A t \in Q : t \in Int /\ index <= t /\ t < index'
  BY <1>1, NewTyped
<1>. QED  BY <1>1, <1>2, <1>3 DEF Placing, Later

LEMMA UnaryPlaced ==
    ASSUME BuilderInv, Later, NEW A, Truth(A), Finished(1), NEW x, ~IsFrame(x), x.from = Top.from,
           Top.delims \subseteq x.delims, NEW Q, Q \subseteq A[Len(work)] \cup New
    PROVE  Placing(work, A, index, index', Len(work) - 1, x, Q)
<1>1. Len(work) \in Nat /\ index \in Int /\ Len(work) \in 1..Len(work) /\ NodeOf(work[Len(work)]) = Top
      /\ ~IsFrame(work[Len(work)])
  BY NodesTypedNow, TopFacts
<1>2. PICK m \in 0..Len(work) : m = Len(work) - 1
  <2>1. Len(work) - 1 \in 0..Len(work)
    BY <1>1
  <2>. QED  BY <2>1
<1>3. \A j \in (m + 1)..Len(work) : j = Len(work)
  BY <1>1, <1>2
<1>4. Len(work) \in (m + 1)..Len(work)
  BY <1>1, <1>2
<1>5. Area(work, A, Len(work)) = A[Len(work)] /\ \A t \in A[Len(work)] : t \in Int
  BY <1>1, AreaFacts
<1>6. \A t \in New : t \in Int /\ index <= t /\ t < index'
  BY <1>1, NewTyped
<1>7. \A t \in Q : /\ t \in Int
                   /\ \/ index <= t /\ t < index'
                      \/ \E j \in (m + 1)..Len(work) : t \in Area(work, A, j) \/ t \in Held(work[j])
  BY <1>4, <1>5, <1>6
<1>8. x.from = index \/ \E j \in (m + 1)..Len(work) : x.from = NodeOf(work[j]).from
  BY <1>1, <1>4
<1>9. \A j \in (m + 1)..Len(work), k \in 1..m : \A t \in Held(work[k]) : t \in NodeOf(work[j]).delims => t \in x.delims
  BY <1>1, <1>3
<1>10. Placing(work, A, index, index', m, x, Q)
  BY <1>1, <1>7, <1>8, <1>9 DEF Placing, Later
<1>. QED  BY <1>2, <1>10

LEMMA BinaryPlaced ==
    ASSUME BuilderInv, Later, NEW A, Truth(A), Finished(2), NEW x, ~IsFrame(x), x.from = Below.from,
           Top.delims \cup Below.delims \subseteq x.delims,
           NEW Q, Q \subseteq A[Len(work) - 1] \cup A[Len(work)] \cup New
    PROVE  Placing(work, A, index, index', Len(work) - 2, x, Q)
<1>0. Len(work) \in Nat /\ index \in Int /\ 2 \in 0..Len(work) /\ Len(work) - 1 \in 1..Len(work) /\ Finished(1)
      /\ Below = work[Len(work) - 1] /\ NodeOf(work[Len(work) - 1]) = Below
  BY NodesTypedNow, BelowFacts
<1>1. Len(work) \in 1..Len(work) /\ NodeOf(work[Len(work)]) = Top /\ ~IsFrame(work[Len(work)])
  BY <1>0, TopFacts
<1>11. ~IsFrame(work[Len(work) - 1])
  BY <1>0 DEF Finished
<1>2. PICK m \in 0..Len(work) : m = Len(work) - 2
  <2>1. Len(work) - 2 \in 0..Len(work)
    BY <1>0
  <2>. QED  BY <2>1
<1>3. \A j \in (m + 1)..Len(work) : j = Len(work) \/ j = Len(work) - 1
  BY <1>0, <1>2
<1>4. Len(work) \in (m + 1)..Len(work) /\ Len(work) - 1 \in (m + 1)..Len(work)
  BY <1>0, <1>2
<1>5. /\ Area(work, A, Len(work)) = A[Len(work)] /\ \A t \in A[Len(work)] : t \in Int
      /\ Area(work, A, Len(work) - 1) = A[Len(work) - 1] /\ \A t \in A[Len(work) - 1] : t \in Int
  BY <1>0, <1>1, <1>11, AreaFacts
<1>6. \A t \in New : t \in Int /\ index <= t /\ t < index'
  BY <1>0, NewTyped
<1>7. \A t \in Q : /\ t \in Int
                   /\ \/ index <= t /\ t < index'
                      \/ \E j \in (m + 1)..Len(work) : t \in Area(work, A, j) \/ t \in Held(work[j])
  BY <1>4, <1>5, <1>6
<1>8. x.from = index \/ \E j \in (m + 1)..Len(work) : x.from = NodeOf(work[j]).from
  BY <1>0, <1>4
<1>9. \A j \in (m + 1)..Len(work), k \in 1..m : \A t \in Held(work[k]) : t \in NodeOf(work[j]).delims => t \in x.delims
  BY <1>0, <1>1, <1>3
<1>10. Placing(work, A, index, index', m, x, Q)
  BY <1>0, <1>7, <1>8, <1>9 DEF Placing, Later
<1>. QED  BY <1>2, <1>10

-----------------------------------------------------------------------------
(* An operator that is built.                                              *)

Ready(A) == Truth(A) /\ ("Reuse" \notin menu.kinds => FreshIn(work, index, column_map))
Grown(map) == \A b \in DOMAIN map : b \in DOMAIN column_map \/ (b[1] \in Int /\ b[1] < index')
\* The node fits where the last n items were.
Built(n, node, map, A, Q, seen) ==
    /\ Placing(work, A, index, index', Len(work) - n, node, Q)
    /\ Agrees(column_map, map, Q) /\ MapTyped(map) /\ Fits(node, map, Q)
    /\ RightReads(seen) /\ Grown(map)

LEMMA BuildKeepsFit ==
    ASSUME FitInv, BuilderInv', Later,
           NEW n \in 0..Len(work), NEW needed, NEW node, NEW map, NEW seen, Build(n, needed, node, map, seen), Named,
           ColumnsOfItsOwn => \A A :
                Ready(A) /\ needed \subseteq DOMAIN column_map /\ Len(node.cols) <= MaxColumns
                    => \E Q : Built(n, node, map, A, Q, seen)
    PROVE  FitInv'
<1>1. menu' = menu
  BY DEF Build
<1>2. CASE ~ColumnsOfItsOwn
  BY <1>1, <1>2 DEF FitInv, ColumnsOfItsOwn
<1>3. CASE ColumnsOfItsOwn
  <2>1. PICK A : Ready(A)
    BY <1>3 DEF FitInv, Faithful, Ready
  <2>2. RightReads(reads) /\ BuilderInv /\ Truth(A) /\ index' \in Int /\ index <= index'
    BY <1>3, <2>1 DEF FitInv, Faithful, Ready, Later
  <2>3. PICK Q : needed \subseteq DOMAIN column_map /\ Len(node.cols) <= MaxColumns => Built(n, node, map, A, Q, seen)
    BY <1>3, <2>1
  <2>4. Len(work) \in Nat /\ Len(work) \in (Len(work) - n)..Len(work)
    BY <2>2, NodesTypedNow
  <2>5. AllFit(work, Len(work), column_map, A, delim_get_source_col_names, materialized_cte_body_column_names)
    BY <2>2 DEF Truth, Sound
  <2>6. needed \subseteq DOMAIN column_map /\ Len(node.cols) <= MaxColumns
            => Building(Len(work) - n, node, map, A, Q, Len(work), column_map, seen)
    BY <2>3, <2>4, <2>5 DEF Built, Building
  <2>7. Faithful'
    BY <2>2, <2>6, BuildFits
  <2>8. ASSUME "Reuse" \notin menu.kinds PROVE FreshIn(work, index, column_map)'
    <3>1. needed \subseteq DOMAIN column_map /\ Len(node.cols) <= MaxColumns
            => ~IsFrame(node) /\ \A b \in DOMAIN map : b \in DOMAIN column_map \/ (b[1] \in Int /\ b[1] < index')
      BY <2>3 DEF Built, Grown, Placing
    <3>2. FreshIn(work, index, column_map)
      BY <2>1, <2>8 DEF Ready
    <3>. QED  BY <2>2, <3>1, <3>2, BuildFresh
  <2>. QED  BY <1>1, <1>3, <2>7, <2>8 DEF FitInv
<1>. QED  BY <1>2, <1>3

-----------------------------------------------------------------------------
(* New columns.                                                            *)

\* Columns at new bindings; the names are of tables T.
NewRow(bindings, means, cs, shows, T) ==
    /\ bindings \in Seq(Bindings) /\ NoTwice(bindings) /\ Len(means) = Len(bindings)
    /\ cs \in Seq(ColStructs) /\ KeysApart(cs) /\ Len(bindings) <= Len(cs)
    /\ shows \in Seq(Columns) /\ Len(shows) = Len(cs) /\ Holds(means, shows)
    /\ \A i \in 1..Len(cs) : cs[i].table_index \in T
    /\ \A i \in 1..Len(bindings) : bindings[i][1] \in New
    /\ New \subseteq T

LEMMA NewRowFits ==
    ASSUME BuilderInv, Later, MapTyped(column_map), NEW bindings, NEW means, NEW cs, NEW shows, NEW T,
           NewRow(bindings, means, cs, shows, T), NEW map, map = Registered(bindings, cs)
    PROVE  /\ RowFits(bindings, means, NamesOf(cs), shows, map, T)
           /\ Agrees(column_map, map, New) /\ MapTyped(map) /\ Grown(map)
           /\ \A i \in 1..Len(bindings) : bindings[i] \in DOMAIN map /\ map[bindings[i]] = cs[i]
<1>1. /\ bindings \in Seq(Bindings) /\ NoTwice(bindings) /\ Len(means) = Len(bindings) /\ Len(bindings) \in Nat
      /\ cs \in Seq(ColStructs) /\ KeysApart(cs) /\ Len(bindings) <= Len(cs) /\ Len(cs) \in Nat
      /\ shows \in Seq(Columns) /\ Len(shows) = Len(cs) /\ Holds(means, shows)
      /\ \A i \in 1..Len(cs) : cs[i].table_index \in T
      /\ \A i \in 1..Len(bindings) : bindings[i][1] \in New
      /\ New \subseteq T
  BY DEF NewRow
<1>2. Entered(column_map, bindings, cs, New)
  <2>1. \A i \in 1..Len(bindings) : i \in 1..Len(cs)
    BY <1>1
  <2>. QED  BY <1>1, <2>1 DEF Entered
<1>3. map = Updated(column_map, Entering(bindings, cs))
  BY DEF Registered
<1>4. /\ \A i \in 1..Len(bindings) : bindings[i] \in DOMAIN map /\ map[bindings[i]] = cs[i]
      /\ Agrees(column_map, map, New)
      /\ MapTyped(map)
      /\ \A b \in DOMAIN map : b \in DOMAIN column_map \/ \E i \in 1..Len(bindings) : b = bindings[i]
  BY <1>2, <1>3, EnteredMap
<1>5. \A i \in 1..Len(bindings) : bindings[i][1] \in T /\ map[bindings[i]] = cs[i]
  BY <1>1, <1>4
<1>6. NewColumns(bindings, means, cs, shows, map, T)
  BY <1>1, <1>5 DEF NewColumns
<1>7. Grown(map)
  <2>1. \A i \in 1..Len(bindings) : bindings[i][1] \in Int /\ bindings[i][1] < index'
    BY <1>1, NewTyped DEF BuilderInv
  <2>. QED  BY <1>4, <2>1 DEF Grown
<1>. QED  BY <1>4, <1>6, <1>7, FreshRow

LEMMA LengthOfNames ==
    ASSUME NEW S, NEW cs \in Seq(S)
    PROVE  Len(NamesOf(cs)) = Len(cs) /\ Len(cs) \in Nat
<1>1. PICK f : f = NamesOf(cs)
  OBVIOUS
<1>2. f = [i \in 1..Len(cs) |-> ToUniqueColumnName(cs[i])]
  BY <1>1 DEF NamesOf
<1>. QED  BY <1>1, <1>2

LEMMA WidthLater ==
    ASSUME BuilderInv, NEW width \in Nat, index' = index + width
    PROVE  /\ Later
           /\ \A k \in 0..(width - 1) : index + k \in New
<1>1. index \in Int
  BY DEF BuilderInv
<1>2. Later
  BY <1>1 DEF Later
<1>3. New = index..(index + width - 1)
  <2>1. PICK j : j = index' /\ j = index + width
    OBVIOUS
  <2>2. New = index..(j - 1)
    BY <2>1 DEF New
  <2>. QED  BY <1>1, <2>1, <2>2
<1>. QED  BY <1>1, <1>2, <1>3

-----------------------------------------------------------------------------
(* Leaves.                                                                 *)

LEMMA LeafFitsWhen ==
    ASSUME FitInv, BuilderInv', Later, NEW kind, NEW bindings, NEW means, NEW cs, NEW shows, NEW node,
           node = Node(kind, << >>, bindings, means, NamesOf(cs), shows),
           Build(0, {}, node, Registered(bindings, cs), {}), Named,
           ColumnsOfItsOwn => \A A : Ready(A) =>
                (\E S : cs \in Seq(S)) /\ (Len(cs) <= MaxColumns => NewRow(bindings, means, cs, shows, New))
    PROVE  FitInv'
<1>1. PICK map : map = Registered(bindings, cs)
  OBVIOUS
<1>2. /\ DOMAIN node = NodeFields /\ node.bindings = bindings /\ node.means = means /\ node.cols = NamesOf(cs)
      /\ node.shows = shows /\ node.stale = {} /\ node.extra = {} /\ node.from = index
  BY NodeParts
<1>3. ~IsFrame(node)
  BY <1>2 DEF IsFrame, NodeFields
<1>4. BuilderInv /\ 0 \in 0..Len(work)
  BY WorkFacts DEF FitInv
<1>5. ASSUME ColumnsOfItsOwn, NEW A, Ready(A), Len(node.cols) <= MaxColumns PROVE Built(0, node, map, A, New, {})
  <2>1. Len(cs) <= MaxColumns
    <3>1. PICK S : cs \in Seq(S)
      BY <1>5
    <3>. QED  BY <1>2, <1>5, <3>1, LengthOfNames
  <2>2. NewRow(bindings, means, cs, shows, New)
    BY <1>5, <2>1
  <2>3. Truth(A)
    BY <1>5 DEF Ready
  <2>4. MapTyped(column_map)
    BY <2>3 DEF Truth, Sound, AllFit
  <2>5. /\ RowFits(bindings, means, NamesOf(cs), shows, map, New)
        /\ Agrees(column_map, map, New) /\ MapTyped(map) /\ Grown(map)
    BY <1>1, <1>4, <2>2, <2>4, NewRowFits
  <2>6. Fits(node, map, New)
    BY <1>2, <1>5, <2>5, PlainFits
  <2>7. Placing(work, A, index, index', Len(work) - 0, node, New)
    BY <1>2, <1>3, <1>4, LeafPlaced
  <2>. QED  BY <2>5, <2>6, <2>7 DEF Built, RightReads
<1>6. Build(0, {}, node, map, {})
  BY <1>1
<1>. QED  BY <1>4, <1>5, <1>6, BuildKeepsFit

LEMMA LeafFits ==
    ASSUME FitInv, BuilderInv', Later, NEW kind, NEW bindings, NEW means, NEW S, NEW cs \in Seq(S), NEW shows, NEW node,
           node = Node(kind, << >>, bindings, means, NamesOf(cs), shows),
           Build(0, {}, node, Registered(bindings, cs), {}), Named,
           Len(cs) <= MaxColumns => NewRow(bindings, means, cs, shows, New)
    PROVE  FitInv'
<1>1. ColumnsOfItsOwn => \A A : Ready(A) =>
        (\E T : cs \in Seq(T)) /\ (Len(cs) <= MaxColumns => NewRow(bindings, means, cs, shows, New))
  OBVIOUS
<1>. QED  BY <1>1, LeafFitsWhen

LEMMA FreshHolds ==
    ASSUME serial \in Int, NEW n \in Nat
    PROVE  /\ Fresh(n) \in Seq(Columns) /\ Len(Fresh(n)) = n /\ Holds(Fresh(n), Fresh(n))
           /\ \A i \in 1..n : Fresh(n)[i] # None
<1>1. \A i \in 1..n : Fresh(n)[i] = <<serial, i>>
  BY DEF Fresh
<1>. QED  BY <1>1, FreshTyped DEF Holds, None

LEMMA BoundApart ==
    ASSUME NEW ti \in Int, NEW n \in Nat
    PROVE  /\ Bound(ti, n) \in Seq(Bindings) /\ Len(Bound(ti, n)) = n /\ NoTwice(Bound(ti, n))
           /\ \A i \in 1..n : Bound(ti, n)[i] = <<ti, i>> /\ Bound(ti, n)[i][1] = ti
<1>1. PICK b : b = Bound(ti, n)
  OBVIOUS
<1>2. b \in Seq(Bindings) /\ Len(b) = n /\ \A i \in 1..n : b[i] = <<ti, i>>
  BY <1>1, BoundTyped
<1>3. NoTwice(b)
  BY <1>2 DEF NoTwice
<1>. QED  BY <1>1, <1>2, <1>3

\* A new row of n columns of the table index.
LEMMA OneTable ==
    ASSUME BuilderInv, Later, index < index', NEW n \in Nat, NEW cs \in Seq(ColStructs), KeysApart(cs), n <= Len(cs),
           \A i \in 1..Len(cs) : cs[i].table_index = index,
           NEW means, Len(means) = n, NEW shows \in Seq(Columns), Len(shows) = Len(cs), Holds(means, shows)
    PROVE  NewRow(Bound(index, n), means, cs, shows, New)
<1>1. index \in Int /\ index' \in Int
  BY DEF BuilderInv, Later
<1>2. index \in New
  BY <1>1 DEF New
<1>3. PICK b : b = Bound(index, n)
  OBVIOUS
<1>4. b \in Seq(Bindings) /\ Len(b) = n /\ NoTwice(b) /\ \A i \in 1..n : b[i][1] = index
  BY <1>1, <1>3, BoundApart
<1>. QED  BY <1>2, <1>3, <1>4 DEF NewRow

LEMMA MaxColumnsTyped ==
    MaxColumns \in Nat /\ MaxColumns >= 2 /\ \A k \in 1..MaxColumns : k - 1 \in 0..MaxColumns /\ k - 1 \in 0..(2 * MaxColumns)
<1>1. MaxColumns \in Nat /\ MaxColumns >= 2
  BY NamesAssumption
<1>. QED  BY <1>1

\* All names a request may be answered with are of table ti.
RequestFor(r, ti) ==
    /\ RequestTyped(r) /\ r.base.table_index = ti
    /\ \A k \in 1..Len(r.candidates) : r.candidates[k].table_index = ti

AllFor(requests, n, ti) == n \in Nat /\ Len(requests) = n /\ \A k \in 1..n : RequestFor(requests[k], ti)

LEMMA MintFor ==
    ASSUME NEW ti, NEW requests, NEW n, AllFor(requests, n, ti), n <= MaxColumns, NEW cs, cs = Mint(requests)
    PROVE  /\ cs \in Seq(ColStructs) /\ Len(cs) = n /\ KeysApart(cs)
           /\ \A i \in 1..Len(cs) : cs[i].table_index = ti
<1>1. MintedWell(cs, requests, n)
  BY MintTyped DEF AllFor, RequestFor
<1>2. cs \in Seq(ColStructs) /\ Len(cs) = n /\ KeysApart(cs)
  BY <1>1 DEF MintedWell, KeysApart
<1>3. ASSUME NEW i \in 1..n PROVE cs[i].table_index = ti
  <2>1. \/ \E k \in 1..Len(requests[i].candidates) : cs[i] = requests[i].candidates[k]
        \/ cs[i].table_index = requests[i].base.table_index
    BY <1>1 DEF MintedWell
  <2>. QED  BY <2>1 DEF AllFor, RequestFor
<1>. QED  BY <1>2, <1>3

LEMMA OneCandidate ==
    ASSUME NEW ti, NEW c \in ColStructs, c.table_index = ti, NEW base \in ColStructs, base.table_index = ti,
           NEW suffixed \in {"alias", "column_name"}, suffixed = "column_name" => base.alias = << >>,
           NEW seed \in 0..MaxColumns, NEW r, r = Request(<<c>>, base, suffixed, seed)
    PROVE  RequestFor(r, ti)
<1>1. r.candidates = <<c>> /\ r.base = base /\ r.suffixed = suffixed /\ r.seed = seed
  BY DEF Request
<1>2. DOMAIN <<c>> = 1..1 /\ Len(<<c>>) = 1 /\ <<c>>[1] = c
  OBVIOUS
<1>3. DOMAIN r.candidates = 1..Len(r.candidates) /\ Len(r.candidates) \in Nat
  BY <1>1, <1>2
<1>4. \A k \in 1..Len(r.candidates) : r.candidates[k] = c
  BY <1>1, <1>2
<1>. QED  BY <1>1, <1>3, <1>4 DEF RequestFor, RequestTyped

LEMMA DedupedFor ==
    ASSUME NEW ti \in Int, NEW name \in Words, NEW alias \in Words, NEW seed \in 0..MaxColumns
    PROVE  RequestFor(MakeDedupedColumn(ti, name, alias, seed), ti)
  BY DedupedTyped DEF RequestFor

LEMMA GetFits ==
    ASSUME FitInv, BuilderInv', NEW table \in menu.tables, NEW picked \in Increasing(Len(BaseTables[table])),
           Get(table, picked)
    PROVE  FitInv'
<1>1. /\ BuilderInv /\ index \in Int /\ serial \in Int
  BY DEF FitInv, BuilderInv
<1>2. Len(BaseTables[table]) \in Nat
      /\ \A i \in 1..Len(BaseTables[table]) : BaseTables[table][i].name \in Words /\ BaseTables[table][i].leaf \in Words
  BY <1>1, MenusAssumption DEF BuilderInv
<1>3. PICK n \in Nat : n = Len(picked) /\ DOMAIN picked = 1..n /\ \A k \in 1..n : picked[k] \in 1..Len(BaseTables[table])
  <2>1. PICK k \in 1..Len(BaseTables[table]) : picked \in [1..k -> 1..Len(BaseTables[table])]
    BY DEF Increasing
  <2>2. k \in Nat /\ Len(picked) = k
    BY <1>2, <2>1
  <2>. QED  BY <2>1, <2>2
<1>. DEFINE request(k) ==
            LET c == BaseTables[table][picked[k]] IN
            IF c.leaf # << >> THEN MakeDedupedColumn(index, c.name, c.leaf, 1)
            ELSE Request(<<ColStruct(index, c.name, << >>)>>, ColStruct(index, c.name, c.name), "alias", k - 1)
<1>4. PICK requests : requests = [k \in 1..n |-> request(k)]
  OBVIOUS
<1>5. PICK cs : cs = Mint(requests)
  OBVIOUS
<1>6. Leaf("Get", Bound(index, n), Fresh(n), cs, 1)
  BY <1>3, <1>4, <1>5 DEF Get
<1>7. ASSUME n <= MaxColumns, NEW k \in 1..n PROVE RequestFor(requests[k], index)
  <2>1. PICK c : c = BaseTables[table][picked[k]] /\ c.name \in Words /\ c.leaf \in Words
    BY <1>2, <1>3
  <2>2. k - 1 \in 0..MaxColumns /\ 1 \in 0..MaxColumns
    <3>1. k \in 1..MaxColumns
      BY <1>7, MaxColumnsTyped
    <3>. QED  BY <3>1, MaxColumnsTyped
  <2>3. CASE c.leaf # << >>
    <3>1. requests[k] = MakeDedupedColumn(index, c.name, c.leaf, 1)
      BY <1>4, <2>1, <2>3
    <3>. QED  BY <1>1, <2>1, <2>2, <3>1, DedupedFor
  <2>4. CASE c.leaf = << >>
    <3>1. requests[k] = Request(<<ColStruct(index, c.name, << >>)>>, ColStruct(index, c.name, c.name), "alias", k - 1)
      BY <1>4, <2>1, <2>4
    <3>2. /\ ColStruct(index, c.name, << >>) \in ColStructs /\ ColStruct(index, c.name, << >>).table_index = index
          /\ ColStruct(index, c.name, c.name) \in ColStructs /\ ColStruct(index, c.name, c.name).table_index = index
      <4>1. << >> \in Words
        BY LiteralWords
      <4>. QED  BY <1>1, <2>1, <4>1, ColStructTyped
    <3>. QED  BY <2>2, <3>1, <3>2, OneCandidate
  <2>. QED  BY <2>3, <2>4
<1>. HIDE DEF request
<1>8. Len(requests) = n
  BY <1>4
<1>9. PICK S : cs \in Seq(S) /\ Len(cs) = n
  BY <1>5, <1>8, MintTyped
<1>10. index' = index + 1 /\ Build(0, {}, Node("Get", << >>, Bound(index, n), Fresh(n), NamesOf(cs), Fresh(n)), Registered(Bound(index, n), cs), {}) /\ Named
  BY <1>6 DEF Leaf, Starts
<1>11. Later /\ index < index'
  BY <1>1, <1>10 DEF Later
<1>12. ASSUME Len(cs) <= MaxColumns PROVE NewRow(Bound(index, n), Fresh(n), cs, Fresh(n), New)
  <2>1. /\ cs \in Seq(ColStructs) /\ Len(cs) = n /\ KeysApart(cs)
        /\ \A i \in 1..Len(cs) : cs[i].table_index = index
    <3>1. AllFor(requests, n, index) /\ n <= MaxColumns
      BY <1>7, <1>8, <1>9, <1>12 DEF AllFor
    <3>. QED  BY <1>5, <1>9, <3>1, MintFor
  <2>2. Fresh(n) \in Seq(Columns) /\ Len(Fresh(n)) = n /\ Holds(Fresh(n), Fresh(n))
    BY <1>1, FreshHolds
  <2>3. PICK m : m = Len(cs) /\ n <= m
    BY <2>1
  <2>. QED  BY <1>1, <1>11, <2>1, <2>2, <2>3, OneTable
<1>. QED  BY <1>9, <1>10, <1>11, <1>12, LeafFits

LEMMA GeneratedTyped ==
    ASSUME NEW ti \in Int, NEW k \in 1..MaxColumns
    PROVE  /\ Generated(ti, k) \in ColStructs /\ Generated(ti, k).table_index = ti
           /\ Base(Generated(ti, k)) = <<"c", Digit(k - 1)>>
<1>1. k - 1 \in 0..(2 * MaxColumns)
  BY MaxColumnsTyped
<1>2. <<"c", Digit(k - 1)>> \in Words /\ << >> \in Words
  BY <1>1, LiteralWords
<1>3. PICK w : w = <<"c", Digit(k - 1)>> /\ w \in Words
  BY <1>2
<1>4. Generated(ti, k) = ColStruct(ti, w, << >>)
  BY <1>3 DEF Generated
<1>5. ColStruct(ti, w, << >>) \in ColStructs /\ ColStruct(ti, w, << >>).table_index = ti /\ Base(ColStruct(ti, w, << >>)) = w
  <2>1. ColStruct(ti, w, << >>) \in ColStructs /\ ColStruct(ti, w, << >>).table_index = ti
    BY <1>2, <1>3, ColStructTyped
  <2>. QED  BY <2>1 DEF ColStruct, Base
<1>. QED  BY <1>3, <1>4, <1>5

\* Names made of a word and a number differ when the numbers do.
LEMMA NumberedApart ==
    ASSUME NEW word \in {"c", "grouping", "grp", "scalar", "unnest", "window"},
           NEW c \in ColStructs, NEW d \in ColStructs, NEW j \in 0..(2 * MaxColumns), NEW k \in 0..(2 * MaxColumns),
           Base(c) = <<word, Digit(j)>>, Base(d) = <<word, Digit(k)>>, Key(c) = Key(d)
    PROVE  j = k
<1>1. ASSUME NEW e \in ColStructs, NEW n \in 0..(2 * MaxColumns), Base(e) = <<word, Digit(n)>> PROVE Key(e)[2][2] = Digit(n)
  <2>1. PICK w : w = Base(e) /\ w \in Words
    BY <1>1, BaseTyped
  <2>2. Len(w) = 2 /\ w[2] = Digit(n)
    BY <1>1, <2>1
  <2>3. w[2] \notin {"A", "$", "#"}
    BY <2>2, NamesAssumption DEF Digit
  <2>4. ToUniqueColumnName(e) = <<e.table_index, SanitizeIdentifierFragment(w)>> /\ e.table_index \in Int
    BY <2>1, BaseTyped DEF ToUniqueColumnName
  <2>5. PICK name : name = ToUniqueColumnName(e)
    OBVIOUS
  <2>6. 2 \in 1..Len(w) /\ Lower(name)[2][2] = w[2]
    <3>1. 2 \in 1..Len(w)
      BY <2>2
    <3>. QED  BY <2>1, <2>3, <2>4, <2>5, <3>1, WordMapped
  <2>. QED  BY <2>2, <2>5, <2>6 DEF Key
<1>2. Digit(j) = Digit(k)
  BY <1>1
<1>. QED  BY <1>2, NamesAssumption DEF Digit

\* The columns of literal rows are numbered.
LEMMA ValuesFits ==
    ASSUME FitInv, BuilderInv', NEW n \in 1..menu.width, Values(n)
    PROVE  FitInv'
<1>1. BuilderInv /\ index \in Int /\ serial \in Int
  BY DEF FitInv, BuilderInv
<1>2. n \in Nat
  <2>1. menu.width \in Nat
    BY <1>1, MenusAssumption DEF BuilderInv
  <2>. QED  BY <2>1
<1>3. PICK cs : cs = [k \in 1..n |-> Generated(index, k)]
  OBVIOUS
<1>4. Leaf("Values", Bound(index, n), Fresh(n), cs, 1)
  BY <1>3 DEF Values
<1>5. PICK S : cs \in Seq(S) /\ Len(cs) = n
  <2>1. cs \in [1..n -> {Generated(index, k) : k \in 1..n}]
    BY <1>3
  <2>. QED  BY <1>2, <2>1, FunctionIsSequence
<1>6. index' = index + 1 /\ Build(0, {}, Node("Values", << >>, Bound(index, n), Fresh(n), NamesOf(cs), Fresh(n)), Registered(Bound(index, n), cs), {}) /\ Named
  BY <1>4 DEF Leaf, Starts
<1>7. Later /\ index < index'
  BY <1>1, <1>6 DEF Later
<1>8. ASSUME Len(cs) <= MaxColumns PROVE NewRow(Bound(index, n), Fresh(n), cs, Fresh(n), New)
  <2>1. ASSUME NEW i \in 1..n
        PROVE  cs[i] \in ColStructs /\ cs[i].table_index = index /\ Base(cs[i]) = <<"c", Digit(i - 1)>> /\ i - 1 \in 0..(2 * MaxColumns)
    <3>1. i \in 1..MaxColumns
      BY <1>2, <1>5, <1>8, MaxColumnsTyped
    <3>2. cs[i] = Generated(index, i)
      BY <1>3
    <3>. QED  BY <1>1, <3>1, <3>2, GeneratedTyped, MaxColumnsTyped
  <2>2. cs \in Seq(ColStructs)
    <3>1. cs \in [1..n -> ColStructs]
      BY <1>3, <2>1
    <3>. QED  BY <1>2, <3>1, FunctionIsSequence
  <2>3. KeysApart(cs)
    <3>1. SUFFICES ASSUME NEW i \in 1..n, NEW j \in 1..n, Key(cs[i]) = Key(cs[j]) PROVE i = j
      BY <1>5 DEF KeysApart
    <3>2. PICK p, q : p = i - 1 /\ q = j - 1
      OBVIOUS
    <3>3. p = q
      BY <2>1, <3>1, <3>2, NumberedApart
    <3>. QED  BY <3>2, <3>3
  <2>4. Fresh(n) \in Seq(Columns) /\ Len(Fresh(n)) = n /\ Holds(Fresh(n), Fresh(n))
    BY <1>1, <1>2, FreshHolds
  <2>5. n <= Len(cs)
    BY <1>2, <1>5
  <2>. QED  BY <1>1, <1>2, <1>5, <1>7, <2>1, <2>2, <2>3, <2>4, <2>5, OneTable
<1>. QED  BY <1>5, <1>6, <1>7, <1>8, LeafFits

\* A scan of nothing but a row, and the columns of a subtree that became empty.
LEMMA OtherLeavesFit ==
    ASSUME FitInv, BuilderInv', DummyScan \/ EmptyResult
    PROVE  FitInv'
<1>1. BuilderInv /\ index \in Int /\ serial \in Int
  BY DEF FitInv, BuilderInv
<1>2. CASE DummyScan
  <2>1. PICK c : c = ColStruct(index, <<"dummy">>, << >>)
    OBVIOUS
  <2>2. c \in ColStructs /\ c.table_index = index
    BY <1>1, <2>1, ColStructTyped, LiteralWords
  <2>3. PICK cs : cs = <<c>>
    OBVIOUS
  <2>4. cs \in Seq(ColStructs) /\ Len(cs) = 1 /\ \A i \in 1..Len(cs) : cs[i] = c
    BY <2>2, <2>3
  <2>5. Leaf("DummyScan", <<<<index, 1>>>>, Fresh(1), cs, 1)
    BY <1>2, <2>1, <2>3 DEF DummyScan
  <2>6. index' = index + 1
        /\ Build(0, {}, Node("DummyScan", << >>, <<<<index, 1>>>>, Fresh(1), NamesOf(cs), Fresh(1)), Registered(<<<<index, 1>>>>, cs), {}) /\ Named
    BY <2>5 DEF Leaf, Starts
  <2>7. Later /\ index < index'
    BY <1>1, <2>6 DEF Later
  <2>8. Fresh(1) \in Seq(Columns) /\ Len(Fresh(1)) = 1 /\ Holds(Fresh(1), Fresh(1))
    BY <1>1, FreshHolds
  <2>9. KeysApart(cs)
    BY <2>4 DEF KeysApart
  <2>10. NewRow(Bound(index, 1), Fresh(1), cs, Fresh(1), New)
    <3>1. \A i \in 1..Len(cs) : cs[i].table_index = index
      BY <2>2, <2>4
    <3>2. 1 \in Nat /\ 1 <= Len(cs) /\ Len(Fresh(1)) = Len(cs)
      BY <2>4, <2>8
    <3>. QED  BY <1>1, <2>4, <2>7, <2>8, <2>9, <3>1, <3>2, OneTable
  <2>11. Bound(index, 1) = <<<<index, 1>>>>
    BY DEF Bound
  <2>. QED  BY <2>4, <2>6, <2>7, <2>10, <2>11, LeafFits
<1>3. CASE EmptyResult
  <2>1. PICK b, cs : b = <<<<index, 1>>, <<index + 1, 1>>>> /\ cs = <<Generated(index, 1), Generated(index + 1, 2)>>
    OBVIOUS
  <2>2. index + 1 \in Int /\ 1 \in 1..MaxColumns /\ 2 \in 1..MaxColumns
    BY <1>1, MaxColumnsTyped
  <2>3. /\ Generated(index, 1) \in ColStructs /\ Generated(index, 1).table_index = index
        /\ Generated(index + 1, 2) \in ColStructs /\ Generated(index + 1, 2).table_index = index + 1
    BY <1>1, <2>2, GeneratedTyped
  <2>4. cs \in Seq(ColStructs) /\ Len(cs) = 2 /\ cs[1].table_index = index /\ cs[2].table_index = index + 1
    BY <2>1, <2>3
  <2>5. b \in Seq(Bindings) /\ Len(b) = 2 /\ b[1] = <<index, 1>> /\ b[2] = <<index + 1, 1>>
    <3>1. <<index, 1>> \in Bindings /\ <<index + 1, 1>> \in Bindings
      BY <1>1, <2>2 DEF Bindings
    <3>. QED  BY <2>1, <3>1
  <2>6. Leaf("EmptyResult", b, Fresh(2), cs, 2)
    BY <1>3, <2>1 DEF EmptyResult
  <2>7. index' = index + 2
        /\ Build(0, {}, Node("EmptyResult", << >>, b, Fresh(2), NamesOf(cs), Fresh(2)), Registered(b, cs), {}) /\ Named
    BY <2>6 DEF Leaf, Starts
  <2>8. Later /\ index \in New /\ index + 1 \in New
    <3>1. Later /\ \A k \in 0..(2 - 1) : index + k \in New
      BY <1>1, <2>7, WidthLater
    <3>2. index + 0 \in New /\ index + 1 \in New
      BY <3>1
    <3>. QED  BY <1>1, <3>1, <3>2
  <2>9. Fresh(2) \in Seq(Columns) /\ Len(Fresh(2)) = 2 /\ Holds(Fresh(2), Fresh(2))
    BY <1>1, FreshHolds
  <2>10. \A i \in 1..2 : i = 1 \/ i = 2
    OBVIOUS
  <2>11. KeysApart(cs)
    <3>1. cs[1] \in ColStructs /\ cs[2] \in ColStructs
      BY <2>1, <2>3
    <3>2. Key(cs[1])[1] = index /\ Key(cs[2])[1] = index + 1
      BY <2>4, <3>1, BaseTyped
    <3>3. index # index + 1
      BY <1>1
    <3>. QED  BY <2>4, <2>10, <3>2, <3>3 DEF KeysApart
  <2>12. NoTwice(b)
    <3>1. index # index + 1
      BY <1>1
    <3>. QED  BY <2>5, <2>10, <3>1 DEF NoTwice
  <2>13. /\ \A i \in 1..Len(cs) : cs[i].table_index \in New
         /\ \A i \in 1..Len(b) : b[i][1] \in New
    BY <2>4, <2>5, <2>8, <2>10
  <2>14. NewRow(b, Fresh(2), cs, Fresh(2), New)
    BY <2>4, <2>5, <2>9, <2>11, <2>12, <2>13 DEF NewRow
  <2>. QED  BY <2>4, <2>7, <2>8, <2>14, LeafFits
<1>. QED  BY <1>2, <1>3

\* A row of one private column.
LEMMA DummyRow ==
    ASSUME BuilderInv, index' = index + 1
    PROVE  /\ Row(<<<<index, <<"dummy">>>>>>, Fresh(1)) /\ Len(<<<<index, <<"dummy">>>>>>) = 1
           /\ <<<<index, <<"dummy">>>>>>[1][1] \in New /\ Len(<<<<index, <<"dummy">>>>>>) <= MaxColumns
           /\ Later
<1>1. index \in Int /\ serial \in Int /\ <<"dummy">> \in Words
  BY LiteralWords DEF BuilderInv
<1>2. PICK name, cols : name = <<index, <<"dummy">>>> /\ cols = <<name>>
  OBVIOUS
<1>3. name \in Names /\ name[1] = index
  BY <1>1, <1>2 DEF Names
<1>4. cols \in Seq(Names) /\ Len(cols) = 1 /\ cols[1] = name
  BY <1>2, <1>3
<1>5. Fresh(1) \in Seq(Columns) /\ Len(Fresh(1)) = 1
  BY <1>1, FreshHolds
<1>6. Row(cols, Fresh(1))
  BY <1>4, <1>5 DEF Row, Apart
<1>7. index \in New /\ Later
  <2>1. Later /\ \A k \in 0..(1 - 1) : index + k \in New
    BY WidthLater
  <2>2. index + 0 \in New
    BY <2>1
  <2>. QED  BY <1>1, <2>1, <2>2
<1>8. 1 <= MaxColumns
  BY MaxColumnsTyped
<1>. QED  BY <1>2, <1>3, <1>4, <1>6, <1>7, <1>8

\* Rows of which the plan needs no column.
LEMMA DummiesFit ==
    ASSUME FitInv, BuilderInv', GetNothing \/ ValuesWithoutColumns
    PROVE  FitInv'
<1>1. BuilderInv /\ index \in Int /\ serial \in Int
  BY DEF FitInv, BuilderInv
<1>2. PICK kind, bindings, means, cols, node :
        /\ cols = <<<<index, <<"dummy">>>>>>
        /\ node = Node(kind, << >>, bindings, means, cols, Fresh(1))
        /\ index' = index + 1 /\ Build(0, {}, node, column_map, {}) /\ Named
        /\ \/ bindings = << >> /\ means = << >>
           \/ bindings = <<<<index, 1>>>> /\ means = <<None>> /\ "GetNothing" \in menu.kinds
  BY DEF GetNothing, ValuesWithoutColumns, Starts, Offered
<1>3. /\ DOMAIN node = NodeFields /\ node.bindings = bindings /\ node.means = means /\ node.cols = cols
      /\ node.shows = Fresh(1) /\ node.stale = {} /\ node.extra = {} /\ node.from = index
  BY <1>2, NodeParts
<1>4. ~IsFrame(node)
  BY <1>3 DEF IsFrame, NodeFields
<1>5. Row(cols, Fresh(1)) /\ Len(cols) = 1 /\ cols[1][1] \in New /\ Len(cols) <= MaxColumns /\ Later
  BY <1>1, <1>2, DummyRow
<1>6. ASSUME ColumnsOfItsOwn, NEW A, Ready(A) PROVE Built(0, node, column_map, A, New, {})
  <2>1. RowFits(bindings, means, cols, Fresh(1), column_map, New)
    <3>1. \A i \in 1..Len(cols) : cols[i][1] \in New
      BY <1>5
    <3>2. CASE bindings = << >> /\ means = << >>
      <4>1. Len(bindings) = 0 /\ \A i \in 1..Len(bindings) : FALSE
        BY <3>2
      <4>. QED  BY <1>5, <3>1, <4>1, RowFitsFolds
    <3>3. CASE bindings = <<<<index, 1>>>> /\ means = <<None>> /\ "GetNothing" \in menu.kinds
      <4>1. Len(bindings) = 1 /\ bindings[1] = <<index, 1>> /\ bindings[1][1] = index /\ means[1] = None
        BY <3>3
      <4>2. "Reuse" \notin menu.kinds
        BY <1>6, <3>3 DEF ColumnsOfItsOwn
      <4>3. \A b \in DOMAIN column_map : b[1] < index /\ b[1] \in Int
        BY <1>6, <4>2 DEF Ready, FreshIn
      <4>4. bindings[1] \notin DOMAIN column_map
        BY <1>1, <4>1, <4>3
      <4>5. index \in New
        <5>1. Later /\ \A k \in 0..(1 - 1) : index + k \in New
          BY <1>1, <1>2, WidthLater
        <5>2. index + 0 \in New
          BY <5>1
        <5>. QED  BY <1>1, <5>2
      <4>. QED  BY <1>5, <3>1, <4>1, <4>4, <4>5, RowFitsFolds
    <3>. QED  BY <1>2, <3>2, <3>3
  <2>2. Fits(node, column_map, New)
    BY <1>3, <1>5, <2>1, PlainFits
  <2>3. Placing(work, A, index, index', Len(work) - 0, node, New)
    BY <1>1, <1>3, <1>4, <1>5, LeafPlaced
  <2>4. MapTyped(column_map)
    BY <1>6 DEF Ready, Truth, Sound, AllFit
  <2>5. Agrees(column_map, column_map, New) /\ Grown(column_map) /\ RightReads({})
    BY DEF Agrees, Grown, RightReads
  <2>. QED  BY <2>2, <2>3, <2>4, <2>5 DEF Built
<1>7. 0 \in 0..Len(work)
  BY <1>1, WorkFacts
<1>. QED  BY <1>2, <1>5, <1>6, <1>7, BuildKeepsFit

-----------------------------------------------------------------------------
(* References to columns of another subtree.                               *)

LEMMA CopiedFacts ==
    ASSUME NEW ti \in Int, NEW cols \in Seq(Names), Len(cols) <= MaxColumns, NEW cs, cs = Copied(ti, cols)
    PROVE  /\ cs \in Seq(ColStructs) /\ Len(cs) = Len(cols) /\ KeysApart(cs)
           /\ \A i \in 1..Len(cs) : cs[i].table_index = ti
<1>1. PICK n \in Nat : n = Len(cols) /\ DOMAIN cols = 1..n
  OBVIOUS
<1>2. PICK requests : requests = [i \in 1..n |-> MakeDedupedColumn(ti, StripTablePrefix(cols[i]), << >>, i - 1)]
  OBVIOUS
<1>3. cs = Mint(requests) /\ Len(requests) = n
  BY <1>1, <1>2 DEF Copied
<1>4. ASSUME NEW i \in 1..n PROVE RequestFor(requests[i], ti)
  <2>1. cols[i] \in Names /\ StripTablePrefix(cols[i]) \in Words
    <3>1. cols[i] \in Names
      BY <1>1
    <3>. QED  BY <3>1, NameTyped DEF StripTablePrefix
  <2>2. i - 1 \in 0..MaxColumns /\ << >> \in Words
    <3>1. i \in 1..MaxColumns
      BY <1>1, MaxColumnsTyped
    <3>. QED  BY <3>1, MaxColumnsTyped, LiteralWords
  <2>. QED  BY <1>2, <2>1, <2>2, DedupedFor
<1>5. AllFor(requests, n, ti) /\ n <= MaxColumns
  BY <1>1, <1>3, <1>4 DEF AllFor
<1>6. /\ cs \in Seq(ColStructs) /\ Len(cs) = n /\ KeysApart(cs)
      /\ \A i \in 1..Len(cs) : cs[i].table_index = ti
  BY <1>3, <1>5, MintFor
<1>. QED  BY <1>1, <1>6

AgainAll(seq) == [i \in 1..Len(seq) |-> Again(seq[i])]
HoldsSome(means, shows) ==
    means \in Seq(Columns) /\ shows \in Seq(Columns) /\ Len(means) <= Len(shows) /\ Holds(means, shows)

LEMMA AgainHolds ==
    ASSUME serial \in Int, NEW means, NEW shows, HoldsSome(means, shows), NEW m, m = AgainAll(means), NEW s, s = AgainAll(shows)
    PROVE  m \in Seq(Columns) /\ Len(m) = Len(means) /\ s \in Seq(Columns) /\ Len(s) = Len(shows) /\ Holds(m, s)
<1>0. /\ means \in Seq(Columns) /\ shows \in Seq(Columns) /\ Len(means) <= Len(shows) /\ Holds(means, shows)
      /\ m = [i \in 1..Len(means) |-> Again(means[i])] /\ s = [i \in 1..Len(shows) |-> Again(shows[i])]
  BY DEF HoldsSome, AgainAll
<1>1. \A i \in 1..Len(means) : Again(means[i]) \in Columns
  BY <1>0, AgainTyped
<1>2. \A i \in 1..Len(shows) : Again(shows[i]) \in Columns
  BY <1>0, AgainTyped
<1>3. m \in Seq(Columns) /\ Len(m) = Len(means) /\ s \in Seq(Columns) /\ Len(s) = Len(shows)
  BY <1>0, <1>1, <1>2
<1>4. ASSUME NEW i \in 1..Len(means), m[i] # None PROVE s[i] = m[i]
  <2>1. means[i] # None
    BY <1>0, <1>4 DEF Again
  <2>2. shows[i] = means[i] /\ i \in 1..Len(shows)
    BY <1>0, <2>1 DEF Holds
  <2>. QED  BY <1>0, <2>2
<1>. QED  BY <1>3, <1>4 DEF Holds

\* What is known of a subtree that fits.
LEMMA FitsFacts ==
    ASSUME NEW node, NEW map, NEW R, Fits(node, map, R), NEW D, Covered(node, D)
    PROVE  /\ node.cols \in Seq(Names) /\ node.shows \in Seq(Columns) /\ Len(node.shows) = Len(node.cols)
           /\ Len(node.cols) \in Nat /\ Len(node.cols) <= MaxColumns
           /\ Len(node.bindings) \in Nat /\ Len(node.bindings) <= Len(node.cols)
           /\ node.means \in Seq(Columns) /\ Len(node.means) = Len(node.bindings)
           /\ Holds(node.means, node.shows)
           /\ Paired(node.bindings, node.means)
           /\ RowFits(node.bindings, node.means, node.cols, node.shows, map, R)
           /\ Row(node.cols, node.shows)
<1>1. RowFits(node.bindings, node.means, node.cols, node.shows, map, R) /\ Len(node.cols) <= MaxColumns
  BY DEF Fits
<1>2. /\ node.bindings \in Seq(Bindings) /\ node.means \in Seq(Columns) /\ Len(node.means) = Len(node.bindings)
  BY DEF Covered
<1>3. Row(node.cols, node.shows) /\ Len(node.bindings) <= Len(node.cols)
  BY <1>1 DEF RowFits
<1>4. Holds(node.means, node.shows)
  BY <1>1, <1>2 DEF RowFits, Holds
<1>. QED  BY <1>1, <1>2, <1>3, <1>4 DEF Row, Paired

\* What is known of an open operator.
LEMMA FrameFits ==
    ASSUME BuilderInv, NEW A, Truth(A), NEW i \in 1..Len(work), IsFrame(work[i]), ~IsSetOp(work[i])
    PROVE  /\ Fits(work[i].node, column_map, A[i])
           /\ Covered(work[i].node, DOMAIN column_map)
           /\ IF work[i].kind = "DelimJoin" THEN Promises(work[i], column_map, Used(work, i, Len(work)), delim_get_source_col_names)
              ELSE HandedOn(work[i], column_map, materialized_cte_body_column_names)
<1>1. ItemFits(work, i, Len(work), column_map, A, delim_get_source_col_names, materialized_cte_body_column_names)
  BY DEF Truth, Sound, AllFit
<1>2. NodeOf(work[i]) = work[i].node
  BY DEF NodeOf
<1>3. Covered(work[i].node, DOMAIN column_map)
  BY <1>2, ItemAt DEF ItemIn
<1>. QED  BY <1>1, <1>2, <1>3 DEF ItemFits

LEMMA CteRefFits ==
    ASSUME FitInv, BuilderInv', NEW i \in DOMAIN work, IsFrame(work[i]), work[i].kind \in {"MaterializedCte", "RecursiveCte"},
           CteRef(work[i])
    PROVE  FitInv'
<1>0. BuilderInv /\ index \in Int /\ serial \in Int /\ i \in 1..Len(work)
  BY WorkFacts DEF FitInv, BuilderInv
<1>1. PICK f, n, cs : f = work[i] /\ n = Len(f.node.bindings) /\ cs = Copied(index, materialized_cte_body_column_names[f.at])
  OBVIOUS
<1>2. PICK means, shows : means = [k \in 1..n |-> Again(f.node.means[k])] /\ shows = [k \in DOMAIN cs |-> Again(f.node.shows[k])]
  OBVIOUS
<1>3. /\ index' = index + 1 /\ Named
      /\ Build(0, {}, Node("CteRef", << >>, Bound(index, n), means, NamesOf(cs), shows), Registered(Bound(index, n), cs), {})
  BY <1>1, <1>2 DEF CteRef, Starts
<1>4. Later /\ index < index'
  BY <1>0, <1>3 DEF Later
<1>5. ASSUME ColumnsOfItsOwn, NEW A, Ready(A)
      PROVE  cs \in Seq(ColStructs) /\ NewRow(Bound(index, n), means, cs, shows, New)
  <2>1. Truth(A) /\ ~IsSetOp(work[i]) /\ f.kind # "DelimJoin"
    BY <1>1, <1>5 DEF Ready, IsSetOp, SetOps
  <2>2. /\ Fits(f.node, column_map, A[i]) /\ Covered(f.node, DOMAIN column_map)
        /\ HandedOn(f, column_map, materialized_cte_body_column_names)
    BY <1>0, <1>1, <2>1, FrameFits
  <2>3. cs = Copied(index, f.node.cols)
    BY <1>1, <2>2 DEF HandedOn
  <2>4. /\ f.node.cols \in Seq(Names) /\ f.node.shows \in Seq(Columns) /\ Len(f.node.shows) = Len(f.node.cols)
        /\ Len(f.node.cols) \in Nat /\ Len(f.node.cols) <= MaxColumns
        /\ n \in Nat /\ n <= Len(f.node.cols)
        /\ f.node.means \in Seq(Columns) /\ Len(f.node.means) = n
        /\ Holds(f.node.means, f.node.shows)
    BY <1>1, <2>2, FitsFacts
  <2>5. /\ cs \in Seq(ColStructs) /\ Len(cs) = Len(f.node.cols) /\ KeysApart(cs)
        /\ \A k \in 1..Len(cs) : cs[k].table_index = index
    BY <1>0, <2>3, <2>4, CopiedFacts
  <2>6. means = [k \in 1..Len(f.node.means) |-> Again(f.node.means[k])]
        /\ shows = [k \in 1..Len(f.node.shows) |-> Again(f.node.shows[k])]
    <3>1. DOMAIN cs = 1..Len(f.node.shows)
      BY <2>4, <2>5
    <3>. QED  BY <1>2, <2>4, <3>1
  <2>7. means \in Seq(Columns) /\ Len(means) = n /\ shows \in Seq(Columns) /\ Len(shows) = Len(cs) /\ Holds(means, shows)
    <3>1. PICK ms, ss : ms = f.node.means /\ ss = f.node.shows
      OBVIOUS
    <3>2. HoldsSome(ms, ss) /\ Len(ms) = n /\ Len(ss) = Len(cs)
      BY <2>4, <2>5, <3>1 DEF HoldsSome
    <3>3. means = AgainAll(ms) /\ shows = AgainAll(ss)
      BY <2>6, <3>1 DEF AgainAll
    <3>. QED  BY <1>0, <3>2, <3>3, AgainHolds
  <2>8. NewRow(Bound(index, n), means, cs, shows, New)
    BY <1>0, <1>4, <2>4, <2>5, <2>7, OneTable
  <2>. QED  BY <2>5, <2>8
<1>. QED  BY <1>3, <1>4, <1>5, LeafFitsWhen

\* A DELIM_GET reads the keys from the outer side of its delim join, under names of their own.
LEMMA DelimGetFits ==
    ASSUME FitInv, BuilderInv', Delims # {}, NEW ti \in Missing, DelimGet(work[Owner], ti)
    PROVE  FitInv'
<1>0. BuilderInv /\ index \in Int /\ serial \in Int /\ Len(work) \in Nat
  BY WorkFacts DEF FitInv, BuilderInv
<1>1. PICK o, f, n : o \in 1..Len(work) /\ o = Owner /\ f = work[o] /\ n = Len(f.keys) /\ IsFrame(f) /\ f.kind = "DelimJoin"
  BY <1>0, OwnerFacts
<1>2. FrameTyped(f)
  BY <1>0, <1>1, ItemAt DEF ItemIn
<1>3. ti \in f.promised /\ ti \notin Used(work, o, Len(work))
  BY <1>1 DEF Missing, Used
<1>4. n \in Nat /\ ti \in Int
  BY <1>1, <1>2, <1>3 DEF FrameTyped
<1>5. PICK b, m, cols, seen, plain, node :
        /\ b = Bound(ti, n) /\ m = Fresh(n) /\ cols = OutputColumnNames(b)
        /\ seen = {<<Denotes(delim_get_source_col_names[ti][k], f.node.cols, f.node.shows), f.keys[k][2]>> : k \in 1..n}
        /\ plain = Node("DelimGet", << >>, b, m, cols, m) /\ node = [plain EXCEPT !.delims = {ti}]
  OBVIOUS
<1>6. index' = index + 0 /\ Build(0, ToSet(b), node, column_map, seen) /\ Named
  BY <1>1, <1>5 DEF DelimGet, Starts
<1>7. Later
  BY <1>0, <1>6 DEF Later
<1>8. /\ DOMAIN node = NodeFields /\ node.bindings = b /\ node.means = m /\ node.cols = cols
      /\ node.shows = m /\ node.stale = {} /\ node.extra = {} /\ node.from = index /\ node.delims = {ti}
  <2>1. /\ DOMAIN plain = NodeFields /\ plain.bindings = b /\ plain.means = m /\ plain.cols = cols
        /\ plain.shows = m /\ plain.stale = {} /\ plain.extra = {} /\ plain.from = index
    BY <1>5, NodeParts
  <2>. QED  BY <1>5, <2>1 DEF NodeFields
<1>9. ~IsFrame(node)
  BY <1>8 DEF IsFrame, NodeFields
<1>10. b \in Seq(Bindings) /\ Len(b) = n /\ \A k \in 1..n : b[k] = <<ti, k>> /\ b[k][1] = ti
  BY <1>4, <1>5, BoundApart
<1>11. m \in Seq(Columns) /\ Len(m) = n /\ Holds(m, m)
  BY <1>0, <1>4, <1>5, FreshHolds
<1>12. ASSUME ColumnsOfItsOwn, NEW A, Ready(A), Len(node.cols) <= MaxColumns PROVE Built(0, node, column_map, A, {ti}, seen)
  <2>1. Truth(A) /\ ~IsSetOp(work[o]) /\ Held(work[o]) = f.promised
    BY <1>1, <1>12 DEF Ready, IsSetOp, SetOps, Held
  <2>2. Promises(f, column_map, Used(work, o, Len(work)), delim_get_source_col_names)
    BY <1>0, <1>1, <2>1, FrameFits
  <2>3. /\ \A k \in 1..n : Denotes(delim_get_source_col_names[ti][k], f.node.cols, f.node.shows) = f.keys[k][2]
        /\ \A k \in 1..n : <<ti, k>> \in DOMAIN column_map /\ column_map[<<ti, k>>].table_index = ti
        /\ \A k, l \in 1..n : Key(column_map[<<ti, k>>]) = Key(column_map[<<ti, l>>]) => k = l
    BY <1>1, <1>3, <2>2 DEF Promises
  <2>4. MapTyped(column_map)
    BY <2>1 DEF Truth, Sound, AllFit
  <2>5. PICK cs : cs = [k \in 1..n |-> column_map[<<ti, k>>]]
    OBVIOUS
  <2>6. \A k \in 1..n : cs[k] = column_map[<<ti, k>>] /\ cs[k] \in ColStructs
    BY <2>3, <2>4, <2>5 DEF MapTyped
  <2>7. cs \in Seq(ColStructs) /\ Len(cs) = n
    <3>1. cs \in [1..n -> ColStructs]
      BY <2>5, <2>6
    <3>. QED  BY <1>4, <3>1, FunctionIsSequence
  <2>8. cols = NamesOf(cs)
    <3>1. DOMAIN b = 1..n /\ DOMAIN cs = 1..n
      BY <1>10, <2>5
    <3>2. \A k \in 1..n : FindColumnBinding(b[k]) = ToUniqueColumnName(cs[k])
      BY <1>10, <2>6 DEF FindColumnBinding
    <3>3. cols = [k \in 1..n |-> FindColumnBinding(b[k])] /\ NamesOf(cs) = [k \in 1..n |-> ToUniqueColumnName(cs[k])]
      BY <1>5, <3>1 DEF OutputColumnNames, NamesOf
    <3>. QED  BY <3>2, <3>3
  <2>9. KeysApart(cs)
    BY <2>3, <2>6, <2>7 DEF KeysApart
  <2>10. NewColumns(b, m, cs, m, column_map, {ti})
    <3>1. \A k \in 1..Len(cs) : cs[k].table_index \in {ti}
      BY <2>3, <2>6, <2>7
    <3>2. \A k \in 1..Len(b) : b[k][1] \in {ti} /\ column_map[b[k]] = cs[k]
      BY <1>10, <2>6
    <3>3. Len(b) <= Len(cs)
      BY <1>4, <1>10, <2>7
    <3>. QED  BY <1>4, <1>10, <1>11, <2>7, <2>9, <3>1, <3>2, <3>3 DEF NewColumns
  <2>11. RowFits(b, m, cols, m, column_map, {ti})
    BY <2>8, <2>10, FreshRow
  <2>12. Fits(node, column_map, {ti})
    BY <1>8, <1>12, <2>11, PlainFits
  <2>13. PICK l \in 0..Len(work) : l = Len(work) - 0 /\ l = Len(work)
    BY <1>0
  <2>14. Opened(work, l, node, ti)
    <3>1. o \in 1..l /\ ti \in Held(work[o]) /\ work[o].kind = "DelimJoin"
      BY <1>1, <1>3, <2>1, <2>13
    <3>2. \A j \in (o + 1)..l : ti \notin NodeOf(work[j]).delims
      BY <1>3, <2>13 DEF Used
    <3>. QED  BY <1>8, <3>1, <3>2 DEF Opened
  <2>15. Placing(work, A, index, index', l, node, {ti})
    <3>1. \A j \in (l + 1)..Len(work) : FALSE
      BY <1>0, <2>13
    <3>. QED  BY <1>0, <1>4, <1>7, <1>8, <1>9, <2>13, <2>14, <3>1 DEF Placing, Later
  <2>16. RightReads(seen)
    BY <1>5, <2>3 DEF RightReads
  <2>17. Agrees(column_map, column_map, {ti}) /\ Grown(column_map)
    BY DEF Agrees, Grown
  <2>. QED  BY <2>4, <2>12, <2>13, <2>15, <2>16, <2>17 DEF Built
<1>13. 0 \in 0..Len(work)
  BY <1>0
<1>. QED  BY <1>6, <1>7, <1>12, <1>13, BuildKeepsFit

-----------------------------------------------------------------------------
(* Operators over one subtree.                                             *)

\* What is known of the subtree, whose tables are R.
OverTop(R) ==
    Fits(Top, column_map, R) /\ MapTyped(column_map) /\ \A t \in R : t \in Int /\ t < index
\* What is to be shown of the operator.
UnaryBuilt(node, map, R, seen) ==
    /\ Agrees(column_map, map, R \cup New) /\ MapTyped(map) /\ Grown(map)
    /\ Fits(node, map, R \cup New) /\ RightReads(seen)

LEMMA UnaryFits ==
    ASSUME FitInv, BuilderInv', Later, Finished(1),
           NEW needed, NEW node, NEW map, NEW seen, Build(1, needed, node, map, seen), Named,
           DOMAIN node = NodeFields, node.from = Top.from, Top.delims \subseteq node.delims,
           \A R : OverTop(R) /\ needed \subseteq DOMAIN column_map /\ Len(node.cols) <= MaxColumns
                    => UnaryBuilt(node, map, R, seen)
    PROVE  FitInv'
<1>1. BuilderInv
  BY DEF FitInv
<1>2. 1 \in 0..Len(work) /\ Len(work) \in 1..Len(work) /\ Top = work[Len(work)] /\ ~IsFrame(Top)
  BY <1>1, TopFacts
<1>3. ~IsFrame(node)
  BY DEF IsFrame, NodeFields
<1>4. ASSUME NEW A, Ready(A), needed \subseteq DOMAIN column_map, Len(node.cols) <= MaxColumns
      PROVE  Built(1, node, map, A, A[Len(work)] \cup New, seen)
  <2>1. Truth(A)
    BY <1>4 DEF Ready
  <2>2. OverTop(A[Len(work)])
    BY <1>1, <1>2, <2>1, AreaFacts DEF OverTop
  <2>3. UnaryBuilt(node, map, A[Len(work)], seen)
    BY <1>4, <2>2
  <2>4. Placing(work, A, index, index', Len(work) - 1, node, A[Len(work)] \cup New)
    BY <1>1, <1>3, <2>1, UnaryPlaced
  <2>. QED  BY <2>3, <2>4 DEF UnaryBuilt, Built
<1>. QED  BY <1>2, <1>4, BuildKeepsFit

LEMMA AgreesWider ==
    ASSUME NEW map, NEW other, NEW Q, Agrees(map, other, Q), NEW R
    PROVE  Agrees(map, other, R \cup Q)
  BY DEF Agrees

\* An operator without names of its own.
LEMMA NoNewNames ==
    ASSUME NEW R, OverTop(R), NEW node, Fits(node, column_map, R), Len(node.bindings) \in Nat,
           NEW seen, RightReads(seen)
    PROVE  UnaryBuilt(node, column_map, R, seen)
<1>1. Agrees(column_map, column_map, {}) /\ R \cap {} = {} /\ R \subseteq R \cup New
  BY SameMap
<1>2. Fits(node, column_map, R \cup New)
  BY <1>1, FitsAgree
<1>3. Agrees(column_map, column_map, R \cup New) /\ Grown(column_map)
  BY DEF Agrees, Grown
<1>. QED  BY <1>2, <1>3 DEF UnaryBuilt, OverTop

\* An increasing sequence has nothing twice.
LEMMA IncreasingApart ==
    ASSUME NEW n \in Nat, NEW s \in Seq(1..n), \A i \in 2..Len(s) : s[i - 1] < s[i]
    PROVE  NoTwice(s)
<1>. DEFINE T == {m \in Nat : \A i, j \in 1..Len(s) : i < j /\ j <= m => s[i] < s[j]}
<1>1. 0 \in T
  OBVIOUS
<1>2. ASSUME NEW m \in Nat, m \in T PROVE m + 1 \in T
  <2>1. ASSUME NEW i \in 1..Len(s), NEW j \in 1..Len(s), i < j, j <= m + 1 PROVE s[i] < s[j]
    <3>1. CASE j <= m
      BY <1>2, <2>1, <3>1
    <3>2. CASE j = m + 1
      <4>1. j \in 2..Len(s) /\ m \in 1..Len(s) /\ s[m] < s[j] /\ i <= m
        <5>1. j \in 2..Len(s) /\ m \in 1..Len(s) /\ j - 1 = m /\ i <= m
          BY <2>1, <3>2
        <5>. QED  BY <5>1
      <4>2. i = m \/ s[i] < s[m]
        BY <1>2, <4>1
      <4>3. PICK a \in 1..n, b \in 1..n, c \in 1..n : a = s[i] /\ b = s[m] /\ c = s[j]
        BY <4>1
      <4>4. \A p, q, t \in 1..n : q < t /\ (p = q \/ p < q) => p < t
        OBVIOUS
      <4>5. b < c /\ (a = b \/ a < b)
        BY <4>1, <4>2, <4>3
      <4>6. a < c
        BY <4>4, <4>5
      <4>. QED  BY <4>3, <4>6
    <3>. QED  BY <2>1, <3>1, <3>2
  <2>. QED  BY <2>1
<1>. HIDE DEF T
<1>3. Nat \subseteq T
  BY <1>1, <1>2, InductionOnNat
<1>4. ASSUME NEW i \in 1..Len(s), NEW j \in 1..Len(s), i < j PROVE s[i] # s[j]
  <2>1. j \in T
    BY <1>3
  <2>2. s[i] < s[j]
    BY <1>4, <2>1 DEF T
  <2>3. s[i] \in 1..n /\ s[j] \in 1..n
    OBVIOUS
  <2>. QED  BY <2>2, <2>3
<1>. QED  BY <1>4 DEF NoTwice

\* The columns an operator may keep.
LEMMA MapsApart ==
    ASSUME NEW node, NEW D, Covered(node, D),
           NEW at \in Maps(node) \cup {All(node.bindings)} \cup Increasing(Len(node.bindings))
    PROVE  at \in Seq(1..Len(node.bindings)) /\ NoTwice(at)
<1>1. PICK n \in Nat : n = Len(node.bindings) /\ DOMAIN node.bindings = 1..n
  BY DEF Covered
<1>2. at \in Seq(1..Len(node.bindings))
  BY PositionsTyped
<1>3. CASE at = All(node.bindings)
  <2>1. at = [i \in 1..n |-> i]
    BY <1>1, <1>3 DEF All
  <2>. QED  BY <1>2, <2>1 DEF NoTwice
<1>4. CASE at \in Increasing(n)
  BY <1>1, <1>2, <1>4, IncreasingApart DEF Increasing
<1>. QED  BY <1>1, <1>2, <1>3, <1>4 DEF Maps

IsUnary(node, kind, n, b, m, c, s) == node = Node(kind, <<n>>, b, m, c, s)

LEMMA UnaryNode ==
    ASSUME NEW node, NEW kind, NEW n, NEW b, NEW m, NEW c, NEW s, IsUnary(node, kind, n, b, m, c, s)
    PROVE  /\ DOMAIN node = NodeFields
           /\ node.kind = kind /\ node.bindings = b /\ node.means = m /\ node.cols = c
           /\ node.shows = s /\ node.stale = {} /\ node.extra = {}
           /\ node.from = n.from /\ node.delims = n.delims
<1>1. PICK kids : kids = <<n>>
  OBVIOUS
<1>2. kids # << >> /\ kids[1] = n /\ UNION {kids[i].delims : i \in DOMAIN kids} = n.delims
  BY <1>1, KidsDelims
<1>3. node = Node(kind, kids, b, m, c, s)
  BY <1>1 DEF IsUnary
<1>. QED  BY <1>2, <1>3 DEF Node, NodeFields

\* Some of the columns, selected by the names that column_map has for their bindings.
LEMMA SelectedFits ==
    ASSUME NEW bindings, NEW means, NEW cols, NEW shows, NEW R, NEW pos,
           Located(bindings, means, cols, shows, column_map, R, pos), Paired(bindings, means), MapTyped(column_map),
           NEW at \in Seq(1..Len(bindings)), NoTwice(at), ToSet(Pick(bindings, at)) \subseteq DOMAIN column_map,
           NEW names, names = OutputColumnNames(Pick(bindings, at))
    PROVE  /\ RowFits(Pick(bindings, at), Pick(means, at), names, ByName(names, cols, shows), column_map, R)
           /\ Len(names) = Len(at) /\ Len(Pick(bindings, at)) = Len(at)
           /\ names \in Seq(Names) /\ Paired(Pick(bindings, at), Pick(means, at))
           /\ \A k \in 1..Len(at) : /\ Lower(names[k]) = Lower(cols[pos[at[k]]])
                                    /\ ByName(names, cols, shows)[k] = shows[pos[at[k]]]
<1>1. /\ Len(Pick(bindings, at)) = Len(at) /\ Len(at) \in Nat /\ Pick(bindings, at) \in Seq(Bindings)
      /\ \A k \in 1..Len(at) : at[k] \in 1..Len(bindings) /\ Pick(bindings, at)[k] = bindings[at[k]]
  BY PickTyped DEF Paired
<1>2. DOMAIN Pick(bindings, at) = 1..Len(at)
  BY <1>1
<1>3. \A k \in 1..Len(at) : bindings[at[k]] \in DOMAIN column_map
  BY <1>1, <1>2 DEF ToSet
<1>4. Looked(names, column_map, bindings, at)
  <2>1. names = [k \in 1..Len(at) |-> FindColumnBinding(Pick(bindings, at)[k])]
    BY <1>2 DEF OutputColumnNames
  <2>2. \A k \in 1..Len(at) : FindColumnBinding(Pick(bindings, at)[k]) = NameIn(column_map, bindings[at[k]])
    BY <1>1 DEF FindColumnBinding, NameIn
  <2>. QED  BY <2>1, <2>2 DEF Looked
<1>. QED  BY <1>3, <1>4, RowFitsByName

\* Columns that an operator keeps of n.
KeptOf(cols, shows, n, at) ==
    \A k \in 1..Len(at) : Lower(cols[k]) = Lower(n.cols[at[k]]) /\ shows[k] = n.shows[at[k]]

\* Groups that are kept may be referred to as before.
LEMMA PassedFits ==
    ASSUME NEW n, NEW D, Covered(n, D), NEW map, NEW R, Fits(n, map, R), NEW at \in Seq(1..Len(n.bindings)),
           NEW b, b = Pick(n.bindings, at), NEW cols, NEW shows, KeptOf(cols, shows, n, at)
    PROVE  StaleFits(Passed(n, at), b, cols, shows, map, R)
<1>1. n.bindings \in Seq(Bindings)
  BY DEF Covered
<1>2. Len(b) = Len(at) /\ \A k \in 1..Len(at) : at[k] \in 1..Len(n.bindings) /\ b[k] = n.bindings[at[k]]
  BY <1>1, PickTyped
<1>3. SUFFICES ASSUME NEW x \in Passed(n, at)
               PROVE  /\ x[1] \in DOMAIN map /\ x[1][1] \in R /\ x[2] # None
                      /\ \E i \in 1..Len(b) : b[i] = x[3]
                      /\ \A i \in 1..Len(b) : b[i] = x[3] => Lower(NameIn(map, x[1])) = Lower(cols[i]) /\ shows[i] = x[2]
  BY DEF StaleFits
<1>4. x \in n.stale /\ \E k \in 1..Len(at) : n.bindings[at[k]] = x[3]
  BY DEF Passed
<1>5. /\ x[1] \in DOMAIN map /\ x[1][1] \in R /\ x[2] # None
      /\ \A i \in 1..Len(n.bindings) : n.bindings[i] = x[3] =>
                Lower(NameIn(map, x[1])) = Lower(n.cols[i]) /\ n.shows[i] = x[2]
  BY <1>4 DEF Fits, StaleFits
<1>6. ASSUME NEW i \in 1..Len(b), b[i] = x[3] PROVE Lower(NameIn(map, x[1])) = Lower(cols[i]) /\ shows[i] = x[2]
  <2>1. PICK j \in 1..Len(n.bindings) : j = at[i] /\ b[i] = n.bindings[j]
    BY <1>2
  <2>. QED  BY <1>2, <1>5, <1>6, <2>1 DEF KeptOf
<1>. QED  BY <1>2, <1>4, <1>5, <1>6

LEMMA FilterFits ==
    ASSUME FitInv, BuilderInv', NEW at \in Maps(Top), Filter(at)
    PROVE  FitInv'
<1>0. BuilderInv
  BY DEF FitInv
<1>1. PICK n, refs : n = Top /\ refs = Refs(n) \cup n.stale
  OBVIOUS
<1>2. PICK plain, node, seen :
        /\ plain = Node("Filter", <<n>>, Pick(n.bindings, at), Pick(n.means, at), Pick(n.cols, at), Pick(n.shows, at))
        /\ node = [plain EXCEPT !.stale = Passed(n, at)]
        /\ seen = ReadAll(refs, n)
        /\ Unary("Filter", 0)
        /\ Build(1, Keys(refs), node, column_map, seen) /\ Named
  BY <1>1 DEF Filter
<1>20. Unary("Filter", 0)
  BY <1>2
<1>3. Finished(1) /\ Covered(n, DOMAIN column_map) /\ index' = index + 0
  BY <1>0, <1>1, <1>20, UnaryFacts DEF Unary, Starts
<1>4. Later
  BY <1>0, <1>3, WidthLater
<1>5. at \in Seq(1..Len(n.bindings)) /\ NoTwice(at)
  BY <1>1, <1>3, MapsApart
<1>6. /\ DOMAIN node = NodeFields /\ node.bindings = Pick(n.bindings, at) /\ node.means = Pick(n.means, at)
      /\ node.cols = Pick(n.cols, at) /\ node.shows = Pick(n.shows, at) /\ node.stale = Passed(n, at) /\ node.extra = {}
      /\ node.from = n.from /\ node.delims = n.delims
  <2>1. /\ DOMAIN plain = NodeFields /\ plain.bindings = Pick(n.bindings, at) /\ plain.means = Pick(n.means, at)
        /\ plain.cols = Pick(n.cols, at) /\ plain.shows = Pick(n.shows, at) /\ plain.extra = {}
        /\ plain.from = n.from /\ plain.delims = n.delims
    BY <1>2, UnaryNode DEF IsUnary
  <2>. QED  BY <1>2, <2>1 DEF NodeFields
<1>7. ASSUME NEW R, OverTop(R), Len(node.cols) <= MaxColumns PROVE UnaryBuilt(node, column_map, R, seen)
  <2>1. Fits(n, column_map, R)
    BY <1>1, <1>7 DEF OverTop
  <2>2. /\ RowFits(n.bindings, n.means, n.cols, n.shows, column_map, R) /\ Paired(n.bindings, n.means)
        /\ n.cols \in Seq(Names) /\ n.shows \in Seq(Columns) /\ Len(n.shows) = Len(n.cols) /\ Len(n.cols) \in Nat
        /\ Len(n.bindings) <= Len(n.cols) /\ Len(n.bindings) \in Nat
    BY <1>3, <2>1, FitsFacts
  <2>3. RowFits(node.bindings, node.means, node.cols, node.shows, column_map, R)
    BY <1>5, <1>6, <2>2, RowFitsPick
  <2>4. KeptOf(node.cols, node.shows, n, at)
    <3>1. at \in Seq(1..Len(n.cols)) /\ at \in Seq(1..Len(n.shows))
      <4>1. \A k \in 1..Len(at) : at[k] \in 1..Len(n.cols)
        BY <1>5, <2>2
      <4>. QED  BY <1>5, <2>2, <4>1
    <3>. QED  BY <1>6, <2>2, <3>1, PickTyped DEF KeptOf
  <2>5. StaleFits(node.stale, node.bindings, node.cols, node.shows, column_map, R)
    BY <1>3, <1>5, <1>6, <2>1, <2>4, PassedFits
  <2>6. ExtraFits(node.kind, node.extra, node.cols, node.shows, column_map, R)
    BY <1>6 DEF ExtraFits
  <2>7. Fits(node, column_map, R)
    BY <1>7, <2>3, <2>5, <2>6 DEF Fits
  <2>8. RightReads(seen)
    <3>1. Finds(refs, n.cols, n.shows, column_map) /\ Row(n.cols, n.shows)
      BY <1>1, <1>3, <2>1, RefsFound
    <3>. QED  BY <1>2, <3>1, FindsReads
  <2>9. Len(node.bindings) \in Nat
    BY <1>3, <1>5, <1>6, PickCovered
  <2>. QED  BY <1>7, <2>7, <2>8, <2>9, NoNewNames
<1>. QED  BY <1>1, <1>2, <1>3, <1>4, <1>6, <1>7, UnaryFits

LEMMA RowsFits ==
    ASSUME FitInv, BuilderInv', NEW kind, NEW at \in Maps(Top) \cup {All(Top.bindings)}, Rows(kind, at)
    PROVE  FitInv'
<1>0. BuilderInv
  BY DEF FitInv
<1>1. PICK n, refs : n = Top /\ refs = Refs(n) \cup n.stale
  OBVIOUS
<1>2. PICK plain, node, names, shows, seen, needed :
        /\ names = OutputColumnNames(Pick(n.bindings, at)) /\ shows = ByName(names, n.cols, n.shows)
        /\ plain = Node(kind, <<n>>, Pick(n.bindings, at), Pick(n.means, at), names, shows)
        /\ node = [plain EXCEPT !.stale = Passed(n, at)]
        /\ seen = ReadAll(refs, n) /\ needed = Keys(refs) \cup ToSet(Pick(n.bindings, at))
        /\ Unary(kind, 0)
        /\ Build(1, needed, node, column_map, seen) /\ Named
  BY <1>1 DEF Rows
<1>3. Finished(1) /\ Covered(n, DOMAIN column_map) /\ index' = index + 0
  BY <1>0, <1>1, <1>2, UnaryFacts DEF Unary, Starts
<1>4. Later
  BY <1>0, <1>3, WidthLater
<1>5. at \in Seq(1..Len(n.bindings)) /\ NoTwice(at)
  BY <1>1, <1>3, MapsApart
<1>6. /\ DOMAIN node = NodeFields /\ node.bindings = Pick(n.bindings, at) /\ node.means = Pick(n.means, at)
      /\ node.cols = names /\ node.shows = shows /\ node.stale = Passed(n, at) /\ node.extra = {}
      /\ node.from = n.from /\ node.delims = n.delims
  <2>1. /\ DOMAIN plain = NodeFields /\ plain.bindings = Pick(n.bindings, at) /\ plain.means = Pick(n.means, at)
        /\ plain.cols = names /\ plain.shows = shows /\ plain.extra = {}
        /\ plain.from = n.from /\ plain.delims = n.delims
    BY <1>2, UnaryNode DEF IsUnary
  <2>. QED  BY <1>2, <2>1 DEF NodeFields
<1>7. ASSUME NEW R, OverTop(R), needed \subseteq DOMAIN column_map, Len(node.cols) <= MaxColumns
      PROVE  UnaryBuilt(node, column_map, R, seen)
  <2>1. Fits(n, column_map, R) /\ MapTyped(column_map)
    BY <1>1, <1>7 DEF OverTop
  <2>2. RowFits(n.bindings, n.means, n.cols, n.shows, column_map, R) /\ Paired(n.bindings, n.means)
    BY <1>3, <2>1, FitsFacts
  <2>3. PICK pos : /\ Located(n.bindings, n.means, n.cols, n.shows, column_map, R, pos)
                   /\ \A i \in 1..Len(n.bindings) : pos[i] = i
    BY <2>2, LocatedOne
  <2>4. /\ Len(Pick(n.bindings, at)) = Len(at) /\ Len(at) \in Nat /\ Pick(n.bindings, at) \in Seq(Bindings)
        /\ \A k \in 1..Len(at) : at[k] \in 1..Len(n.bindings) /\ Pick(n.bindings, at)[k] = n.bindings[at[k]]
    BY <1>5, <2>2, PickTyped DEF Paired
  <2>5. ToSet(Pick(n.bindings, at)) \subseteq DOMAIN column_map /\ names = OutputColumnNames(Pick(n.bindings, at))
    BY <1>2, <1>7
  <2>70. shows = ByName(names, n.cols, n.shows)
    BY <1>2
  <2>7. /\ RowFits(Pick(n.bindings, at), Pick(n.means, at), names, shows, column_map, R)
        /\ \A k \in 1..Len(at) : Lower(names[k]) = Lower(n.cols[pos[at[k]]]) /\ shows[k] = n.shows[pos[at[k]]]
    BY <1>5, <2>1, <2>2, <2>3, <2>5, <2>70, SelectedFits
  <2>8. KeptOf(node.cols, node.shows, n, at)
    BY <1>6, <2>3, <2>4, <2>7 DEF KeptOf
  <2>9. StaleFits(node.stale, node.bindings, node.cols, node.shows, column_map, R)
    BY <1>3, <1>5, <1>6, <2>1, <2>8, PassedFits
  <2>10. ExtraFits(node.kind, node.extra, node.cols, node.shows, column_map, R)
    BY <1>6 DEF ExtraFits
  <2>11. Fits(node, column_map, R)
    BY <1>6, <1>7, <2>7, <2>9, <2>10 DEF Fits
  <2>12. RightReads(seen)
    <3>1. Finds(refs, n.cols, n.shows, column_map) /\ Row(n.cols, n.shows)
      BY <1>1, <1>3, <2>1, RefsFound
    <3>. QED  BY <1>2, <3>1, FindsReads
  <2>13. Len(node.bindings) \in Nat
    BY <1>6, <2>4
  <2>. QED  BY <1>7, <2>11, <2>12, <2>13, NoNewNames
<1>. QED  BY <1>1, <1>2, <1>3, <1>4, <1>6, <1>7, UnaryFits

LEMMA AllPicked ==
    ASSUME NEW S, NEW seq \in Seq(S), NEW T, NEW other \in Seq(T), Len(other) = Len(seq)
    PROVE  Pick(seq, All(seq)) = seq /\ Pick(other, All(seq)) = other /\ All(seq) \in Seq(1..Len(seq)) /\ NoTwice(All(seq))
<1>1. PICK n \in Nat : n = Len(seq) /\ DOMAIN seq = 1..n /\ DOMAIN other = 1..n
  OBVIOUS
<1>2. PICK at : at = All(seq)
  OBVIOUS
<1>3. at = [i \in 1..n |-> i]
  BY <1>1, <1>2 DEF All
<1>4. DOMAIN at = 1..n /\ (\A i \in 1..n : at[i] = i) /\ at \in Seq(1..n) /\ Len(at) = n
  BY <1>3
<1>5. Pick(seq, at) = [i \in 1..n |-> seq[i]] /\ Pick(other, at) = [i \in 1..n |-> other[i]]
  BY <1>4 DEF Pick
<1>6. seq = [i \in 1..n |-> seq[i]] /\ other = [i \in 1..n |-> other[i]]
  BY <1>1
<1>. QED  BY <1>1, <1>2, <1>4, <1>5, <1>6 DEF NoTwice

\* n columns of the table index of an operator.
OfIndex(cs, n) ==
    /\ n \in Nat /\ cs \in Seq(ColStructs) /\ Len(cs) = n /\ KeysApart(cs)
    /\ \A i \in 1..Len(cs) : cs[i].table_index = index

\* They stand beside those of the subtree.
LEMMA NewBeside ==
    ASSUME BuilderInv, Later, index < index', NEW n, NEW cs, OfIndex(cs, n),
           NEW R, OverTop(R), NEW b, NEW m, NEW c, NEW s, RowFits(b, m, c, s, column_map, R), Paired(b, m),
           NEW map, map = Registered(Bound(index, n), cs)
    PROVE  /\ Agrees(column_map, map, New) /\ MapTyped(map) /\ Grown(map)
           /\ Beside(b, m, c, s, R, Bound(index, n), Fresh(n), NamesOf(cs), Fresh(n), New, map)
           /\ Beside(Bound(index, n), Fresh(n), NamesOf(cs), Fresh(n), New, b, m, c, s, R, map)
           /\ Len(NamesOf(cs)) = Len(Bound(index, n)) /\ Len(NamesOf(cs)) = n
           /\ \A i \in 1..n : map[<<index, i>>] = cs[i]
<1>0. index \in Int /\ serial \in Int
  BY DEF BuilderInv
<1>1. /\ n \in Nat /\ cs \in Seq(ColStructs) /\ Len(cs) = n /\ KeysApart(cs)
      /\ \A i \in 1..Len(cs) : cs[i].table_index = index
  BY DEF OfIndex
<1>2. PICK d, k : d = Bound(index, n) /\ k = Fresh(n)
  OBVIOUS
<1>3. d \in Seq(Bindings) /\ Len(d) = n /\ \A i \in 1..n : d[i] = <<index, i>>
  BY <1>0, <1>1, <1>2, BoundApart
<1>4. k \in Seq(Columns) /\ Len(k) = n /\ Holds(k, k)
  BY <1>0, <1>1, <1>2, FreshHolds
<1>5. NewRow(d, k, cs, k, New)
  <2>1. n <= Len(cs)
    BY <1>1
  <2>. QED  BY <1>0, <1>1, <1>2, <1>4, <2>1, OneTable
<1>6. MapTyped(column_map) /\ \A t \in R : t \in Int /\ t < index
  BY DEF OverTop
<1>7. /\ RowFits(d, k, NamesOf(cs), k, map, New)
      /\ Agrees(column_map, map, New) /\ MapTyped(map) /\ Grown(map)
      /\ \A i \in 1..Len(d) : map[d[i]] = cs[i]
  BY <1>2, <1>5, <1>6, NewRowFits
<1>8. R \cap New = {}
  <2>1. \A t \in New : t \in Int /\ index <= t
    BY <1>0, NewTyped
  <2>2. ASSUME NEW t \in R, t \in New PROVE FALSE
    BY <1>0, <1>6, <2>1, <2>2
  <2>. QED  BY <2>2
<1>9. RowFits(b, m, c, s, map, R)
  <2>1. Len(b) \in Nat /\ R \subseteq R
    BY DEF Paired
  <2>. QED  BY <1>7, <1>8, <2>1, RowFitsAgree
<1>10. Paired(d, k)
  BY <1>3, <1>4 DEF Paired
<1>11. Len(NamesOf(cs)) = n
  BY <1>1, LengthOfNames
<1>12. New \cap R = {}
  BY <1>8
<1>13. \A i \in 1..n : map[<<index, i>>] = cs[i]
  BY <1>3, <1>7
<1>. QED  BY <1>2, <1>3, <1>7, <1>8, <1>9, <1>10, <1>11, <1>12, <1>13 DEF Beside

\* Sequences of whatever.
LEMMA LengthOfBoth ==
    ASSUME NEW S, NEW s \in Seq(S), NEW T, NEW t \in Seq(T)
    PROVE  Len(s \o t) = Len(s) + Len(t) /\ Len(s) \in Nat /\ Len(t) \in Nat
<1>1. s \in Seq(S \cup T) /\ t \in Seq(S \cup T)
  OBVIOUS
<1>. QED  BY <1>1, Concatenation

LEMMA NamesSequence ==
    ASSUME NEW S, NEW cs \in Seq(S)
    PROVE  \E T : NamesOf(cs) \in Seq(T)
<1>1. PICK f, T : f = NamesOf(cs) /\ T = {ToUniqueColumnName(cs[i]) : i \in 1..Len(cs)}
  OBVIOUS
<1>2. f = [i \in 1..Len(cs) |-> ToUniqueColumnName(cs[i])]
  BY <1>1 DEF NamesOf
<1>3. f \in [1..Len(cs) -> T]
  BY <1>1, <1>2
<1>4. f \in Seq(T)
  <2>1. Len(cs) \in Nat
    OBVIOUS
  <2>. QED  BY <1>3, <2>1, FunctionIsSequence
<1>. QED  BY <1>1, <1>4

\* The subtree's columns, by the names of their bindings.
LEMMA PassedOn ==
    ASSUME NEW D, Covered(Top, D), NEW R, OverTop(R), NEW at \in Seq(1..Len(Top.bindings)), NoTwice(at),
           ToSet(Pick(Top.bindings, at)) \subseteq DOMAIN column_map,
           NEW names, names = OutputColumnNames(Pick(Top.bindings, at))
    PROVE  /\ RowFits(Pick(Top.bindings, at), Pick(Top.means, at), names, ByName(names, Top.cols, Top.shows), column_map, R)
           /\ Len(names) = Len(at) /\ Len(Pick(Top.bindings, at)) = Len(at)
           /\ names \in Seq(Names) /\ Paired(Pick(Top.bindings, at), Pick(Top.means, at))
           /\ \A k \in 1..Len(at) : /\ Lower(names[k]) = Lower(Top.cols[at[k]])
                                    /\ ByName(names, Top.cols, Top.shows)[k] = Top.shows[at[k]]
<1>1. PICK n : n = Top
  OBVIOUS
<1>2. Fits(n, column_map, R) /\ MapTyped(column_map) /\ Covered(n, D)
  BY <1>1 DEF OverTop
<1>3. RowFits(n.bindings, n.means, n.cols, n.shows, column_map, R) /\ Paired(n.bindings, n.means)
  BY <1>2, FitsFacts
<1>4. PICK pos : /\ Located(n.bindings, n.means, n.cols, n.shows, column_map, R, pos)
                 /\ \A i \in 1..Len(n.bindings) : pos[i] = i
  BY <1>3, LocatedOne
<1>5. /\ at \in Seq(1..Len(n.bindings)) /\ ToSet(Pick(n.bindings, at)) \subseteq DOMAIN column_map
      /\ names = OutputColumnNames(Pick(n.bindings, at)) /\ NoTwice(at)
  BY <1>1
<1>6. /\ RowFits(Pick(n.bindings, at), Pick(n.means, at), names, ByName(names, n.cols, n.shows), column_map, R)
      /\ Len(names) = Len(at) /\ Len(Pick(n.bindings, at)) = Len(at)
      /\ names \in Seq(Names) /\ Paired(Pick(n.bindings, at), Pick(n.means, at))
      /\ \A k \in 1..Len(at) : /\ Lower(names[k]) = Lower(n.cols[pos[at[k]]])
                               /\ ByName(names, n.cols, n.shows)[k] = n.shows[pos[at[k]]]
  BY <1>2, <1>3, <1>4, <1>5, SelectedFits
<1>7. \A k \in 1..Len(at) : pos[at[k]] = at[k]
  BY <1>4, <1>5
<1>. QED  BY <1>1, <1>6, <1>7

\* What an operator that adds columns shows of them.
Adds(cs, n) == (\E S : cs \in Seq(S)) /\ Len(cs) = n /\ n \in Nat /\ (n <= MaxColumns => OfIndex(cs, n))

LEMMA AddingFits ==
    ASSUME FitInv, BuilderInv', NEW kind, NEW more, NEW cs, Adds(cs, more), Adding(kind, more, cs)
    PROVE  FitInv'
<1>0. BuilderInv /\ index \in Int /\ serial \in Int
  BY DEF FitInv, BuilderInv
<1>1. PICK n, added : n = Top /\ added = Bound(index, more)
  OBVIOUS
<1>2. PICK names, node, map, seen :
        /\ names = OutputColumnNames(n.bindings)
        /\ node = Node(kind, <<n>>, n.bindings \o added, n.means \o Fresh(more), names \o NamesOf(cs),
                       ByName(names, n.cols, n.shows) \o Fresh(more))
        /\ map = Registered(added, cs) /\ seen = ReadAll(Refs(n), n)
        /\ Unary(kind, 1)
        /\ Build(1, ToSet(n.bindings), node, map, seen) /\ Named
  BY <1>1 DEF Adding
<1>20. Unary(kind, 1)
  BY <1>2
<1>3. Finished(1) /\ Covered(n, DOMAIN column_map) /\ index' = index + 1
  BY <1>0, <1>1, <1>20, UnaryFacts DEF Unary, Starts
<1>4. Later /\ index < index'
  BY <1>0, <1>3 DEF Later
<1>5. /\ DOMAIN node = NodeFields /\ node.bindings = n.bindings \o added /\ node.means = n.means \o Fresh(more)
      /\ node.cols = names \o NamesOf(cs) /\ node.shows = ByName(names, n.cols, n.shows) \o Fresh(more)
      /\ node.stale = {} /\ node.extra = {} /\ node.from = n.from /\ node.delims = n.delims
  <2>1. node = Node(kind, <<n>>, n.bindings \o added, n.means \o Fresh(more), names \o NamesOf(cs),
                    ByName(names, n.cols, n.shows) \o Fresh(more))
    BY <1>2
  <2>2. PICK b, m, c, s : /\ b = n.bindings \o added /\ m = n.means \o Fresh(more)
                          /\ c = names \o NamesOf(cs) /\ s = ByName(names, n.cols, n.shows) \o Fresh(more)
    OBVIOUS
  <2>3. IsUnary(node, kind, n, b, m, c, s)
    BY <2>1, <2>2 DEF IsUnary
  <2>4. /\ DOMAIN node = NodeFields /\ node.bindings = b /\ node.means = m /\ node.cols = c /\ node.shows = s
        /\ node.stale = {} /\ node.extra = {} /\ node.from = n.from /\ node.delims = n.delims
    BY <2>3, UnaryNode
  <2>. QED  BY <2>2, <2>4
<1>6. ASSUME NEW R, OverTop(R), ToSet(n.bindings) \subseteq DOMAIN column_map, Len(node.cols) <= MaxColumns
      PROVE  UnaryBuilt(node, map, R, seen)
  <2>1. Fits(n, column_map, R)
    BY <1>1, <1>6 DEF OverTop
  <2>2. PICK at : /\ at = All(n.bindings) /\ Pick(n.bindings, at) = n.bindings /\ Pick(n.means, at) = n.means
                  /\ at \in Seq(1..Len(n.bindings)) /\ NoTwice(at)
    <3>1. n.bindings \in Seq(Bindings) /\ n.means \in Seq(Columns) /\ Len(n.means) = Len(n.bindings)
      BY <1>3 DEF Covered
    <3>. QED  BY <3>1, AllPicked
  <2>3. /\ RowFits(n.bindings, n.means, names, ByName(names, n.cols, n.shows), column_map, R)
        /\ Len(names) = Len(n.bindings) /\ names \in Seq(Names) /\ Paired(n.bindings, n.means)
    <3>1. names = OutputColumnNames(Pick(n.bindings, at))
      BY <1>2, <2>2
    <3>2. ToSet(Pick(n.bindings, at)) \subseteq DOMAIN column_map
      BY <1>6, <2>2
    <3>3. /\ RowFits(Pick(n.bindings, at), Pick(n.means, at), names, ByName(names, n.cols, n.shows), column_map, R)
          /\ Len(names) = Len(at) /\ Len(Pick(n.bindings, at)) = Len(at)
          /\ names \in Seq(Names) /\ Paired(Pick(n.bindings, at), Pick(n.means, at))
      BY <1>1, <1>3, <1>6, <2>2, <3>1, <3>2, PassedOn
    <3>. QED  BY <2>2, <3>3
  <2>4. more <= MaxColumns /\ OfIndex(cs, more)
    <3>1. PICK S : cs \in Seq(S) /\ Len(cs) = more
      BY DEF Adds
    <3>2. PICK T : NamesOf(cs) \in Seq(T) /\ Len(NamesOf(cs)) = more
      BY <3>1, NamesSequence, LengthOfNames
    <3>3. Len(names \o NamesOf(cs)) = Len(names) + more /\ Len(names) \in Nat
      BY <2>3, <3>2, LengthOfBoth
    <3>. QED  BY <1>5, <1>6, <3>3, MaxColumnsTyped DEF Adds
  <2>5. /\ Agrees(column_map, map, New) /\ MapTyped(map) /\ Grown(map)
        /\ Beside(n.bindings, n.means, names, ByName(names, n.cols, n.shows), R,
                  added, Fresh(more), NamesOf(cs), Fresh(more), New, map)
    BY <1>0, <1>1, <1>2, <1>4, <1>6, <2>3, <2>4, NewBeside
  <2>6. RowFits(node.bindings, node.means, node.cols, node.shows, map, R \cup New)
    BY <1>5, <2>3, <2>5, RowFitsTogether
  <2>7. Fits(node, map, R \cup New)
    BY <1>5, <1>6, <2>6, PlainFits
  <2>8. RightReads(seen)
    <3>1. Finds(Refs(n), n.cols, n.shows, column_map) /\ Row(n.cols, n.shows)
      BY <1>3, <2>1, RefsFound
    <3>. QED  BY <1>2, <3>1, FindsReads
  <2>9. Agrees(column_map, map, R \cup New)
    BY <2>5, AgreesWider
  <2>. QED  BY <2>5, <2>7, <2>8, <2>9 DEF UnaryBuilt
<1>. QED  BY <1>1, <1>2, <1>3, <1>4, <1>5, <1>6, UnaryFits

\* Columns named by a word and their number.
LEMMA NumberedAdds ==
    ASSUME index \in Int, NEW n \in Nat, NEW word \in {"c", "grouping", "grp", "scalar", "unnest", "window"},
           NEW cs, cs = [k \in 1..n |-> ColStruct(index, <<word, Digit(k - 1)>>, << >>)]
    PROVE  Adds(cs, n)
<1>1. PICK S : S = {ColStruct(index, <<word, Digit(k - 1)>>, << >>) : k \in 1..n}
  OBVIOUS
<1>2. cs \in [1..n -> S]
  BY <1>1
<1>3. cs \in Seq(S) /\ Len(cs) = n
  BY <1>2, FunctionIsSequence
<1>4. ASSUME n <= MaxColumns PROVE OfIndex(cs, n)
  <2>1. ASSUME NEW i \in 1..n
        PROVE  cs[i] \in ColStructs /\ cs[i].table_index = index /\ Base(cs[i]) = <<word, Digit(i - 1)>> /\ i - 1 \in 0..(2 * MaxColumns)
    <3>1. i \in 1..MaxColumns
      BY <1>4, MaxColumnsTyped
    <3>2. i - 1 \in 0..(2 * MaxColumns)
      BY <3>1, MaxColumnsTyped
    <3>3. PICK w : w = <<word, Digit(i - 1)>> /\ w \in Words /\ << >> \in Words
      BY <3>2, LiteralWords
    <3>4. cs[i] = ColStruct(index, w, << >>)
      BY <3>3
    <3>5. ColStruct(index, w, << >>) \in ColStructs /\ ColStruct(index, w, << >>).table_index = index
      BY <3>3, ColStructTyped
    <3>6. Base(ColStruct(index, w, << >>)) = w
      BY DEF ColStruct, Base
    <3>. QED  BY <3>2, <3>3, <3>4, <3>5, <3>6
  <2>2. cs \in Seq(ColStructs)
    <3>1. cs \in [1..n -> ColStructs]
      BY <2>1
    <3>. QED  BY <3>1, FunctionIsSequence
  <2>3. KeysApart(cs)
    <3>1. SUFFICES ASSUME NEW i \in 1..n, NEW j \in 1..n, Key(cs[i]) = Key(cs[j]) PROVE i = j
      BY <1>3 DEF KeysApart
    <3>2. PICK p, q : p = i - 1 /\ q = j - 1
      OBVIOUS
    <3>3. p = q
      BY <2>1, <3>1, <3>2, NumberedApart
    <3>. QED  BY <3>2, <3>3
  <2>. QED  BY <1>3, <2>1, <2>2, <2>3 DEF OfIndex
<1>. QED  BY <1>3, <1>4 DEF Adds

\* Columns that are minted.
LEMMA MintedAdds ==
    ASSUME NEW requests, NEW n \in Nat, Len(requests) = n, n <= MaxColumns => \A k \in 1..n : RequestFor(requests[k], index),
           NEW cs, cs = Mint(requests)
    PROVE  Adds(cs, n)
<1>1. (\E S : cs \in Seq(S)) /\ Len(cs) = n
  BY MintTyped
<1>2. ASSUME n <= MaxColumns PROVE OfIndex(cs, n)
  <2>1. AllFor(requests, n, index)
    BY <1>2 DEF AllFor
  <2>. QED  BY <1>2, <2>1, MintFor DEF OfIndex
<1>. QED  BY <1>1, <1>2 DEF Adds

LEMMA UnnestFits ==
    ASSUME FitInv, BuilderInv', NEW n \in 1..menu.width, Unnest(n)
    PROVE  FitInv'
<1>1. BuilderInv /\ index \in Int /\ n \in Nat
  <2>1. BuilderInv /\ index \in Int
    BY DEF FitInv, BuilderInv
  <2>2. menu.width \in Nat
    BY <2>1, MenusAssumption DEF BuilderInv
  <2>. QED  BY <2>1, <2>2
<1>2. PICK cs : cs = [k \in 1..n |-> ColStruct(index, <<"unnest", Digit(k - 1)>>, << >>)]
  OBVIOUS
<1>3. Adds(cs, n)
  BY <1>1, <1>2, NumberedAdds
<1>4. Adding("Unnest", n, cs)
  BY <1>2 DEF Unnest
<1>. QED  BY <1>3, <1>4, AddingFits

\* What users call a column is a word.
LEMMA AliasesTyped ==
    ASSUME BuilderInv
    PROVE  Aliases \subseteq Words /\ menu.aliases \subseteq Words /\ menu.width \in Nat
  BY MenusAssumption, LiteralWords DEF BuilderInv, Aliases

LEMMA WindowFits ==
    ASSUME FitInv, BuilderInv', NEW aliases \in Strings(Aliases, 1, menu.width), Window(aliases)
    PROVE  FitInv'
<1>1. BuilderInv /\ index \in Int
  BY DEF FitInv, BuilderInv
<1>2. aliases \in Seq(Words) /\ Len(aliases) \in Nat /\ DOMAIN aliases = 1..Len(aliases)
  <2>1. menu.width \in Nat /\ Aliases \subseteq Words
    BY <1>1, AliasesTyped
  <2>2. aliases \in Seq(Aliases) /\ Len(aliases) \in Nat /\ DOMAIN aliases = 1..Len(aliases)
    BY <2>1, StringsTyped
  <2>. QED  BY <2>1, <2>2
<1>3. PICK n : n = Len(aliases)
  OBVIOUS
<1>. DEFINE default(k) == <<"window", Digit(k - 1)>>
            request(k) == Request(<<ColStruct(index, <<"expr">>, IF aliases[k] = << >> THEN default(k) ELSE aliases[k])>>,
                                  ColStruct(index, <<"expr">>, default(k)), "alias", k - 1)
<1>4. PICK requests, cs : requests = [k \in 1..n |-> request(k)] /\ cs = Mint(requests)
  OBVIOUS
<1>5. Adding("Window", n, cs)
  BY <1>2, <1>3, <1>4 DEF Window
<1>6. ASSUME n <= MaxColumns, NEW k \in 1..n PROVE RequestFor(requests[k], index)
  <2>1. k \in 1..MaxColumns
    BY <1>2, <1>3, <1>6, MaxColumnsTyped
  <2>2. k - 1 \in 0..MaxColumns /\ k - 1 \in 0..(2 * MaxColumns)
    BY <2>1, MaxColumnsTyped
  <2>3. PICK w : w = default(k) /\ w \in Words
    BY <2>2, LiteralWords
  <2>4. PICK a : a = (IF aliases[k] = << >> THEN w ELSE aliases[k]) /\ a \in Words
    BY <1>2, <1>3, <2>3
  <2>5. PICK e : e = <<"expr">> /\ e \in Words
    BY LiteralWords
  <2>6. requests[k] = Request(<<ColStruct(index, e, a)>>, ColStruct(index, e, w), "alias", k - 1)
    BY <1>4, <2>3, <2>4, <2>5
  <2>7. /\ ColStruct(index, e, a) \in ColStructs /\ ColStruct(index, e, a).table_index = index
        /\ ColStruct(index, e, w) \in ColStructs /\ ColStruct(index, e, w).table_index = index
    BY <1>1, <2>3, <2>4, <2>5, ColStructTyped
  <2>. QED  BY <2>2, <2>6, <2>7, OneCandidate
<1>. HIDE DEF request
<1>7. n \in Nat /\ Len(requests) = n
  BY <1>2, <1>3, <1>4
<1>8. Adds(cs, n)
  BY <1>4, <1>6, <1>7, MintedAdds
<1>. QED  BY <1>5, <1>8, AddingFits

LEMMA PickedOf ==
    ASSUME NEW S, NEW seq \in Seq(S), NEW at \in Seq(1..Len(seq))
    PROVE  ToSet(Pick(seq, at)) \subseteq ToSet(seq)
<1>1. Len(Pick(seq, at)) = Len(at) /\ Pick(seq, at) \in Seq(S) /\ \A k \in 1..Len(at) : at[k] \in 1..Len(seq) /\ Pick(seq, at)[k] = seq[at[k]]
  BY PickTyped
<1>2. DOMAIN Pick(seq, at) = 1..Len(at) /\ DOMAIN seq = 1..Len(seq)
  BY <1>1
<1>. QED  BY <1>1, <1>2 DEF ToSet

LEMMA LateralFits ==
    ASSUME FitInv, BuilderInv', NEW own \in Strings(menu.aliases, 1, 2),
           NEW passed \in Increasing(Len(Top.bindings)), Lateral(own, passed)
    PROVE  FitInv'
<1>0. BuilderInv /\ index \in Int /\ serial \in Int
  BY DEF FitInv, BuilderInv
<1>. DEFINE request(k) == Request(<<ColStruct(index, own[k], << >>)>>, ColStruct(index, own[k], own[k]), "alias", k - 1)
<1>1. PICK n, more, requests, cs, added, through :
        /\ n = Top /\ more = Len(own) /\ requests = [k \in DOMAIN own |-> request(k)] /\ cs = Mint(requests)
        /\ added = Bound(index, more) /\ through = OutputColumnNames(Pick(n.bindings, passed))
  OBVIOUS
<1>2. own \in Seq(Words) /\ more \in Nat /\ DOMAIN own = 1..more
  <2>1. menu.aliases \subseteq Words
    BY <1>0, AliasesTyped
  <2>2. own \in Seq(menu.aliases) /\ Len(own) \in Nat /\ DOMAIN own = 1..Len(own)
    BY StringsTyped
  <2>. QED  BY <1>1, <2>1, <2>2
<1>3. ASSUME more <= MaxColumns, NEW k \in 1..more PROVE RequestFor(requests[k], index)
  <2>1. k \in 1..MaxColumns
    BY <1>2, <1>3, MaxColumnsTyped
  <2>2. k - 1 \in 0..MaxColumns
    BY <2>1, MaxColumnsTyped
  <2>3. PICK w : w = own[k] /\ w \in Words /\ << >> \in Words
    BY <1>1, <1>2, LiteralWords
  <2>4. requests[k] = Request(<<ColStruct(index, w, << >>)>>, ColStruct(index, w, w), "alias", k - 1)
    BY <1>1, <1>2, <2>3
  <2>5. /\ ColStruct(index, w, << >>) \in ColStructs /\ ColStruct(index, w, << >>).table_index = index
        /\ ColStruct(index, w, w) \in ColStructs /\ ColStruct(index, w, w).table_index = index
    BY <1>0, <2>3, ColStructTyped
  <2>. QED  BY <2>2, <2>4, <2>5, OneCandidate
<1>4. Adds(cs, more)
  <2>1. Len(requests) = more
    BY <1>1, <1>2
  <2>. HIDE DEF request
  <2>. QED  BY <1>1, <1>2, <1>3, <2>1, MintedAdds
<1>5. PICK b, m, c, s, node, map, seen :
        /\ b = added \o Pick(n.bindings, passed) /\ m = Fresh(more) \o Pick(n.means, passed)
        /\ c = NamesOf(cs) \o through /\ s = Fresh(more) \o ByName(through, n.cols, n.shows)
        /\ node = Node("Lateral", <<n>>, b, m, c, s) /\ map = Registered(added, cs) /\ seen = ReadAll(Refs(n), n)
  OBVIOUS
<1>6. Unary("Lateral", 1) /\ Build(1, ToSet(n.bindings), node, map, seen) /\ Named
  BY <1>1, <1>5 DEF Lateral
<1>7. Finished(1) /\ Covered(n, DOMAIN column_map) /\ index' = index + 1
  BY <1>0, <1>1, <1>6, UnaryFacts DEF Unary, Starts
<1>8. Later /\ index < index'
  BY <1>0, <1>7 DEF Later
<1>9. /\ DOMAIN node = NodeFields /\ node.bindings = b /\ node.means = m /\ node.cols = c /\ node.shows = s
      /\ node.stale = {} /\ node.extra = {} /\ node.from = n.from /\ node.delims = n.delims
  <2>1. IsUnary(node, "Lateral", n, b, m, c, s)
    BY <1>5 DEF IsUnary
  <2>. QED  BY ONLY <2>1, UnaryNode
<1>10. ASSUME NEW R, OverTop(R), ToSet(n.bindings) \subseteq DOMAIN column_map, Len(node.cols) <= MaxColumns
       PROVE  UnaryBuilt(node, map, R, seen)
  <2>1. Fits(n, column_map, R)
    BY <1>1, <1>10 DEF OverTop
  <2>2. passed \in Seq(1..Len(n.bindings)) /\ NoTwice(passed)
    BY <1>1, <1>7, MapsApart
  <2>3. ToSet(Pick(n.bindings, passed)) \subseteq DOMAIN column_map
    <3>1. n.bindings \in Seq(Bindings)
      BY <1>7 DEF Covered
    <3>. QED  BY <1>10, <2>2, <3>1, PickedOf
  <2>4. PICK d, k, t : d = Pick(n.bindings, passed) /\ k = Pick(n.means, passed) /\ t = ByName(through, n.cols, n.shows)
    OBVIOUS
  <2>5. RowFits(d, k, through, t, column_map, R) /\ through \in Seq(Names) /\ Paired(d, k)
    BY <1>1, <1>7, <1>10, <2>2, <2>3, <2>4, PassedOn
  <2>6. OfIndex(cs, more)
    <3>1. PICK S : cs \in Seq(S) /\ Len(cs) = more
      BY <1>4 DEF Adds
    <3>2. PICK T : NamesOf(cs) \in Seq(T) /\ Len(NamesOf(cs)) = more
      BY <3>1, NamesSequence, LengthOfNames
    <3>3. Len(NamesOf(cs) \o through) = more + Len(through) /\ Len(through) \in Nat
      BY <2>5, <3>2, LengthOfBoth
    <3>. QED  BY <1>2, <1>4, <1>5, <1>9, <1>10, <3>3, MaxColumnsTyped DEF Adds
  <2>7. /\ Agrees(column_map, map, New) /\ MapTyped(map) /\ Grown(map)
        /\ Beside(added, Fresh(more), NamesOf(cs), Fresh(more), New, d, k, through, t, R, map)
        /\ Len(NamesOf(cs)) = Len(added)
    BY <1>0, <1>1, <1>5, <1>8, <1>10, <2>5, <2>6, NewBeside
  <2>8. RowFits(b, m, c, s, map, New \cup R)
    BY <1>5, <2>4, <2>7, RowFitsTogether
  <2>9. RowFits(node.bindings, node.means, node.cols, node.shows, map, R \cup New)
    <3>1. New \cup R = R \cup New
      OBVIOUS
    <3>. QED  BY <1>9, <2>8, <3>1
  <2>10. Fits(node, map, R \cup New)
    BY <1>9, <1>10, <2>9, PlainFits
  <2>11. RightReads(seen)
    <3>1. Finds(Refs(n), n.cols, n.shows, column_map) /\ Row(n.cols, n.shows)
      BY <1>7, <2>1, RefsFound
    <3>. QED  BY <1>5, <3>1, FindsReads
  <2>12. Agrees(column_map, map, R \cup New)
    BY <2>7, AgreesWider
  <2>. QED  BY <2>7, <2>10, <2>11, <2>12 DEF UnaryBuilt
<1>. QED  BY <1>1, <1>6, <1>7, <1>8, <1>9, <1>10, UnaryFits

\* An insert reads its columns by position.
LEMMA PositionsRead ==
    ASSUME NEW n, NEW D, Covered(n, D), NEW map, NEW R, Fits(n, map, R), Real(n)
    PROVE  RightReads(ReadByPosition(n))
<1>1. DOMAIN n.bindings = 1..Len(n.means) /\ DOMAIN n.means = 1..Len(n.means)
  BY DEF Covered
<1>2. \A i \in 1..Len(n.means) : n.shows[i] = n.means[i]
  BY <1>1, FitsFacts DEF Real, Holds
<1>. QED  BY <1>1, <1>2 DEF ReadByPosition, RightReads

LEMMA InsertFits ==
    ASSUME FitInv, BuilderInv', Insert
    PROVE  FitInv'
<1>0. BuilderInv
  BY DEF FitInv
<1>1. PICK n, e, node, seen :
        /\ n = Top /\ e = << >> /\ node = Node("Insert", <<n>>, e, e, e, e) /\ seen = ReadByPosition(n)
  OBVIOUS
<1>2. Unary("Insert", 0) /\ Real(n) /\ Build(1, {}, node, column_map, seen) /\ Named
  BY <1>1 DEF Insert
<1>3. Finished(1) /\ Covered(n, DOMAIN column_map) /\ index' = index + 0
  BY <1>0, <1>1, <1>2, UnaryFacts DEF Unary, Starts
<1>4. Later
  BY <1>0, <1>3, WidthLater
<1>5. /\ DOMAIN node = NodeFields /\ node.bindings = e /\ node.means = e /\ node.cols = e /\ node.shows = e
      /\ node.stale = {} /\ node.extra = {} /\ node.from = n.from /\ node.delims = n.delims
  <2>1. IsUnary(node, "Insert", n, e, e, e, e)
    BY <1>1 DEF IsUnary
  <2>. QED  BY ONLY <2>1, UnaryNode
<1>6. e \in Seq(Names) /\ e \in Seq(Columns) /\ Len(e) = 0 /\ \A i \in 1..0 : FALSE
  BY <1>1
<1>7. ASSUME NEW R, OverTop(R), Len(node.cols) <= MaxColumns PROVE UnaryBuilt(node, column_map, R, seen)
  <2>1. Fits(n, column_map, R)
    BY <1>1, <1>7 DEF OverTop
  <2>2. RowFits(e, e, e, e, column_map, R)
    BY <1>6 DEF RowFits, Row, Apart
  <2>3. Fits(node, column_map, R)
    BY <1>5, <1>7, <2>2, PlainFits
  <2>4. RightReads(seen)
    BY <1>1, <1>2, <1>3, <2>1, PositionsRead
  <2>. QED  BY <1>5, <1>6, <1>7, <2>3, <2>4, NoNewNames
<1>. QED  BY <1>1, <1>2, <1>3, <1>4, <1>5, <1>7, UnaryFits

-----------------------------------------------------------------------------
(* What projections and aggregates ask of their input.                     *)

\* A set of at most one element, as a sequence.
LEMMA SequenceOfFew ==
    /\ SetToSeq({}) = << >>
    /\ \A x : SetToSeq({x}) = <<x>>
<1>1. SetToSeq({}) = << >>
  <2>1. Cardinality({}) = 0
    BY FS_EmptySet
  <2>2. SetToSeq({}) = CHOOSE f \in [1..0 -> {}] : IsInjective(f)
    BY <2>1 DEF SetToSeq
  <2>3. << >> \in [1..0 -> {}] /\ IsInjective(<< >>)
    BY DEF IsInjective
  <2>4. \A f \in [1..0 -> {}] : f = << >>
    OBVIOUS
  <2>. QED  BY <2>2, <2>3, <2>4
<1>2. ASSUME NEW x PROVE SetToSeq({x}) = <<x>>
  <2>1. Cardinality({x}) = 1
    BY FS_Singleton
  <2>2. SetToSeq({x}) = CHOOSE f \in [1..1 -> {x}] : IsInjective(f)
    BY <2>1 DEF SetToSeq
  <2>3. <<x>> \in [1..1 -> {x}] /\ IsInjective(<<x>>)
    BY DEF IsInjective
  <2>4. \A f \in [1..1 -> {x}] : f = <<x>>
    OBVIOUS
  <2>. QED  BY <2>2, <2>3, <2>4
<1>. QED  BY <1>1, <1>2

\* The columns of t, with one more if its parent asks for it.
AskedRow(n, t, use, map, R) ==
    /\ RowFits(n.bindings, n.means, n.cols, n.shows, map, R)
    /\ Finds(Reachable(t, use), n.cols, n.shows, map)
    /\ ExtraFits(n.kind, n.extra, n.cols, n.shows, map, R)
SameFields(n, t) ==
    /\ DOMAIN n = NodeFields /\ n.kind = t.kind /\ n.bindings = t.bindings /\ n.means = t.means
    /\ n.from = t.from /\ n.delims = t.delims /\ n.extra = t.extra

\* What is asked for is among the columns.
LEMMA NothingMore ==
    ASSUME NEW t, NEW map, NEW R, Fits(t, map, R), NEW D, Covered(t, D), NEW n, SameFields(n, t),
           n.cols = t.cols, n.shows = t.shows, NEW use, use \subseteq t.extra,
           \A x \in use : \E i \in 1..Len(t.cols) : Lower(NameIn(map, x[1])) = Lower(t.cols[i])
    PROVE  AskedRow(n, t, use, map, R)
<1>1. RowFits(n.bindings, n.means, n.cols, n.shows, map, R)
  BY DEF Fits, SameFields
<1>2. ExtraFits(t.kind, t.extra, t.cols, t.shows, map, R)
  BY DEF Fits
<1>3. Finds({<<x[1], x[2]>> : x \in use}, t.cols, t.shows, map)
  BY <1>2 DEF Finds, ExtraFits
<1>4. Finds(Refs(t), t.cols, t.shows, map)
  BY RefsFound
<1>5. Finds(Reachable(t, use), t.cols, t.shows, map)
  BY <1>3, <1>4, FindsUnion DEF Reachable
<1>. QED  BY <1>1, <1>2, <1>5 DEF AskedRow, SameFields

\* One column more.
LEMMA OneMore ==
    ASSUME NEW t, NEW map, NEW R, MapTyped(map), Fits(t, map, R), NEW D, Covered(t, D), NEW n, SameFields(n, t),
           NEW x \in t.extra, NEW name, name = NameIn(map, x[1]),
           \A i \in 1..Len(t.cols) : Lower(t.cols[i]) # Lower(name),
           n.cols = t.cols \o <<name>>, n.shows = t.shows \o <<x[3]>>
    PROVE  AskedRow(n, t, {x}, map, R)
<1>1. PICK cols, shows, k : cols = t.cols /\ shows = t.shows /\ k = Len(cols)
  OBVIOUS
<1>2. /\ RowFits(t.bindings, t.means, cols, shows, map, R) /\ Len(t.bindings) \in Nat
      /\ ExtraFits(t.kind, t.extra, cols, shows, map, R)
  BY <1>1, FitsFacts DEF Fits
<1>3. /\ x[1] \in DOMAIN map /\ name[1] \in R /\ x[3] = x[2] /\ x[3] \in Columns
      /\ \A y \in t.extra : Lower(NameIn(map, y[1])) = Lower(name) => y[2] = x[2] /\ NameIn(map, y[1]) = name
  BY <1>2 DEF ExtraFits
<1>4. name \in Names
  BY <1>3, BaseTyped DEF MapTyped, NameIn
<1>5. /\ RowFits(t.bindings, t.means, n.cols, n.shows, map, R)
      /\ k \in Nat /\ Len(n.cols) = k + 1
      /\ \A i \in 1..k : n.cols[i] = cols[i] /\ n.shows[i] = shows[i]
      /\ n.cols[k + 1] = name /\ n.shows[k + 1] = x[3]
  <2>1. PICK e, s, v : e = n.cols /\ s = n.shows /\ v = x[3]
    OBVIOUS
  <2>2. OneColumnMore(e, s, cols, shows, name, v)
    BY <1>1, <2>1 DEF OneColumnMore
  <2>3. (\A i \in 1..Len(cols) : Lower(cols[i]) # Lower(name)) /\ v \in Columns /\ name[1] \in R
    BY <1>1, <1>3, <2>1
  <2>. DEFINE b == t.bindings
              m == t.means
  <2>5. RowFits(b, m, cols, shows, map, R) /\ Len(b) \in Nat
    BY <1>2
  <2>. HIDE DEF b, m
  <2>4. /\ RowFits(b, m, e, s, map, R)
        /\ Len(cols) \in Nat /\ Len(e) = Len(cols) + 1
        /\ \A i \in 1..Len(cols) : e[i] = cols[i] /\ s[i] = shows[i]
        /\ e[Len(cols) + 1] = name /\ s[Len(cols) + 1] = v
    BY <1>4, <2>2, <2>3, <2>5, RowFitsMore
  <2>. QED  BY <1>1, <2>1, <2>4 DEF b, m
<1>6. /\ \A i \in 1..k : i \in 1..Len(n.cols)
      /\ k + 1 \in 1..Len(n.cols)
      /\ \A i \in 1..Len(n.cols) : i \in 1..k \/ i = k + 1
  <2>1. k \in Nat /\ Len(n.cols) = k + 1
    BY <1>5
  <2>2. PICK m : m = Len(n.cols)
    OBVIOUS
  <2>3. m = k + 1 /\ k \in Nat
    BY <2>1, <2>2
  <2>4. (\A i \in 1..k : i \in 1..m) /\ k + 1 \in 1..m /\ \A i \in 1..m : i \in 1..k \/ i = k + 1
    BY <2>3
  <2>. QED  BY <2>2, <2>4
<1>7. Finds(Reachable(t, {x}), n.cols, n.shows, map)
  <2>1. Finds(Refs(t), t.cols, t.shows, map)
    BY RefsFound
  <2>2. ASSUME NEW p \in Refs(t), p[1] \in DOMAIN map
        PROVE  \E i \in 1..Len(n.cols) : Lower(NameIn(map, p[1])) = Lower(n.cols[i]) /\ n.shows[i] = p[2]
    <3>1. PICK i \in 1..k : Lower(NameIn(map, p[1])) = Lower(cols[i]) /\ shows[i] = p[2]
      BY <1>1, <2>1, <2>2 DEF Finds
    <3>2. i \in 1..Len(n.cols) /\ n.cols[i] = cols[i] /\ n.shows[i] = shows[i]
      BY <1>5, <1>6
    <3>. QED  BY <3>1, <3>2
  <2>3. ASSUME NEW p \in {<<y[1], y[2]>> : y \in {x}}
        PROVE  \E i \in 1..Len(n.cols) : Lower(NameIn(map, p[1])) = Lower(n.cols[i]) /\ n.shows[i] = p[2]
    <3>1. p[1] = x[1] /\ p[2] = x[2]
      OBVIOUS
    <3>2. k + 1 \in 1..Len(n.cols) /\ n.cols[k + 1] = name /\ n.shows[k + 1] = x[3]
      BY <1>5, <1>6
    <3>. QED  BY <1>3, <3>1, <3>2
  <2>. QED  BY <2>2, <2>3 DEF Finds, Reachable
<1>8. ExtraFits(n.kind, n.extra, n.cols, n.shows, map, R)
  <2>1. ASSUME NEW y \in t.extra
        PROVE  /\ \A i \in 1..Len(n.cols) : Lower(NameIn(map, y[1])) = Lower(n.cols[i]) => n.shows[i] = y[2]
               /\ t.kind = "Project" => \E i \in 1..Len(n.cols) : Lower(NameIn(map, y[1])) = Lower(n.cols[i])
    <3>1. /\ \A i \in 1..k : Lower(NameIn(map, y[1])) = Lower(cols[i]) => shows[i] = y[2]
          /\ t.kind = "Project" => \E i \in 1..k : Lower(NameIn(map, y[1])) = Lower(cols[i])
      BY <1>1, <1>2 DEF ExtraFits
    <3>2. ASSUME NEW i \in 1..Len(n.cols), Lower(NameIn(map, y[1])) = Lower(n.cols[i]) PROVE n.shows[i] = y[2]
      <4>1. CASE i \in 1..k
        BY <1>5, <3>1, <3>2, <4>1
      <4>2. CASE i = k + 1
        BY <1>3, <1>5, <3>2, <4>2
      <4>. QED  BY <1>6, <4>1, <4>2
    <3>3. ASSUME t.kind = "Project" PROVE \E i \in 1..Len(n.cols) : Lower(NameIn(map, y[1])) = Lower(n.cols[i])
      <4>1. PICK i \in 1..k : Lower(NameIn(map, y[1])) = Lower(cols[i])
        BY <3>1, <3>3
      <4>2. i \in 1..Len(n.cols) /\ n.cols[i] = cols[i]
        BY <1>5, <1>6
      <4>. QED  BY <4>1, <4>2
    <3>. QED  BY <3>2, <3>3
  <2>2. ExtraFits(t.kind, t.extra, t.cols, t.shows, map, R)
    BY DEF Fits
  <2>3. /\ \A y \in t.extra : /\ y[1] \in DOMAIN map /\ y[1][1] \in R /\ NameIn(map, y[1])[1] \in R
                              /\ y[3] = y[2] /\ y[2] # None /\ y[2] \in Columns
        /\ \A y, z \in t.extra : Lower(NameIn(map, y[1])) = Lower(NameIn(map, z[1])) =>
               y[2] = z[2] /\ NameIn(map, y[1]) = NameIn(map, z[1])
        /\ t.kind = "Project" => \A y, z \in t.extra : y = z
    BY <2>2 DEF ExtraFits
  <2>6. ASSUME t.kind = "Join", NEW y \in t.extra, NEW i \in 1..Len(n.cols), Lower(NameIn(map, y[1])) = Lower(n.cols[i])
        PROVE  NameIn(map, y[1]) = n.cols[i]
    <3>1. CASE i \in 1..k
      BY <1>1, <1>2, <1>5, <2>6, <3>1 DEF ExtraFits
    <3>2. CASE i = k + 1
      BY <1>3, <1>5, <2>6, <3>2
    <3>. QED  BY <1>6, <3>1, <3>2
  <2>4. PICK kind, extra, c, s : kind = t.kind /\ extra = t.extra /\ c = n.cols /\ s = n.shows
    OBVIOUS
  <2>5. /\ \A y \in extra :
              /\ y[1] \in DOMAIN map /\ y[1][1] \in R /\ NameIn(map, y[1])[1] \in R
              /\ y[3] = y[2] /\ y[2] # None /\ y[2] \in Columns
              /\ \A i \in 1..Len(c) : Lower(NameIn(map, y[1])) = Lower(c[i]) => s[i] = y[2]
              /\ kind = "Project" => \E i \in 1..Len(c) : Lower(NameIn(map, y[1])) = Lower(c[i])
              /\ kind = "Join" => \A i \in 1..Len(c) : Lower(NameIn(map, y[1])) = Lower(c[i]) => NameIn(map, y[1]) = c[i]
        /\ \A y, z \in extra : Lower(NameIn(map, y[1])) = Lower(NameIn(map, z[1])) =>
               y[2] = z[2] /\ NameIn(map, y[1]) = NameIn(map, z[1])
        /\ kind = "Project" => \A y, z \in extra : y = z
    <3>1. \A y \in t.extra : \A i \in 1..Len(n.cols) :
             t.kind = "Join" /\ Lower(NameIn(map, y[1])) = Lower(n.cols[i]) => NameIn(map, y[1]) = n.cols[i]
      BY <2>6
    <3>. QED  BY <2>1, <2>3, <2>4, <3>1
  <2>7. ExtraFits(kind, extra, c, s, map, R)
    BY <2>5 DEF ExtraFits
  <2>. QED  BY <2>4, <2>7 DEF SameFields
<1>. QED  BY <1>5, <1>7, <1>8 DEF AskedRow, SameFields

LEMMA AskedFits ==
    ASSUME NEW t, NEW R, MapTyped(column_map), Fits(t, column_map, R), NEW D, Covered(t, D), NEW use \in Uses(t),
           NEW n, n = Asked(t, use)
    PROVE  AskedRow(n, t, use, column_map, R)
<1>0. DOMAIN t = NodeFields
  BY DEF Covered
<1>1. SameFields(n, t)
  BY <1>0 DEF Asked, SameFields, NodeFields
<1>2. CASE t.kind # "Join"
  <2>1. n = t /\ (t.kind = "Project" => use = t.extra) /\ (t.kind # "Project" => use = {})
    BY <1>2 DEF Asked, Uses
  <2>2. ExtraFits(t.kind, t.extra, t.cols, t.shows, column_map, R)
    BY DEF Fits
  <2>3. use \subseteq t.extra /\ \A x \in use : \E i \in 1..Len(t.cols) : Lower(NameIn(column_map, x[1])) = Lower(t.cols[i])
    BY <2>1, <2>2 DEF ExtraFits
  <2>. QED  BY <1>1, <2>1, <2>3, NothingMore
<1>4. ASSUME t.kind = "Join", NEW y \in t.extra, NEW i \in 1..Len(t.cols), Lower(NameIn(column_map, y[1])) = Lower(t.cols[i])
      PROVE  NameIn(column_map, y[1]) = t.cols[i]
  <2>1. PICK kind, extra, c, s : kind = t.kind /\ extra = t.extra /\ c = t.cols /\ s = t.shows
    OBVIOUS
  <2>2. ExtraFits(kind, extra, c, s, column_map, R)
    BY <2>1 DEF Fits
  <2>3. kind = "Join" /\ y \in extra /\ i \in 1..Len(c) /\ Lower(NameIn(column_map, y[1])) = Lower(c[i])
    BY <1>4, <2>1
  <2>4. NameIn(column_map, y[1]) = c[i]
    BY <2>2, <2>3 DEF ExtraFits
  <2>. QED  BY <2>1, <2>4
<1>3. CASE t.kind = "Join"
  <2>. DEFINE new == {x \in use : FindColumnBinding(x[1]) \notin ToSet(t.cols)}
  <2>1. use = {} \/ \E x \in t.extra : use = {x}
    BY <1>3 DEF Uses
  <2>2. PICK more : more = SetToSeq(new)
    OBVIOUS
  <2>3. /\ n.cols = t.cols \o [i \in DOMAIN more |-> FindColumnBinding(more[i][1])]
        /\ n.shows = t.shows \o [i \in DOMAIN more |-> more[i][3]]
    BY <1>0, <1>3, <2>2 DEF Asked, NodeFields
  <2>4. t.cols \in Seq(Names) /\ t.shows \in Seq(Columns) /\ DOMAIN t.cols = 1..Len(t.cols)
    <3>1. t.cols \in Seq(Names) /\ t.shows \in Seq(Columns)
      BY FitsFacts
    <3>. QED  BY <3>1
  <2>5. CASE new = {}
    <3>1. more = << >>
      <4>. HIDE DEF new
      <4>. QED  BY <2>2, <2>5, SequenceOfFew
    <3>2. n.cols = t.cols /\ n.shows = t.shows
      <4>1. [i \in DOMAIN more |-> FindColumnBinding(more[i][1])] = << >> /\ [i \in DOMAIN more |-> more[i][3]] = << >>
        BY <3>1
      <4>. QED  BY <2>3, <2>4, <4>1
    <3>3. \A x \in use : \E i \in 1..Len(t.cols) : Lower(NameIn(column_map, x[1])) = Lower(t.cols[i])
      BY <2>4, <2>5 DEF FindColumnBinding, NameIn, ToSet
    <3>4. use \subseteq t.extra
      BY <2>1
    <3>. QED  BY <1>1, <3>2, <3>3, <3>4, NothingMore
  <2>6. CASE new # {}
    <3>1. PICK x \in t.extra : use = {x} /\ new = {x}
      BY <2>1, <2>6
    <3>2. PICK name : name = NameIn(column_map, x[1]) /\ name = FindColumnBinding(x[1])
      BY DEF FindColumnBinding, NameIn
    <3>3. more = <<x>>
      <4>. HIDE DEF new
      <4>. QED  BY <2>2, <3>1, SequenceOfFew
    <3>4. [i \in DOMAIN more |-> FindColumnBinding(more[i][1])] = <<name>> /\ [i \in DOMAIN more |-> more[i][3]] = <<x[3]>>
      <4>1. DOMAIN more = 1..1 /\ more[1] = x
        BY <3>3
      <4>. QED  BY <3>2, <4>1
    <3>5. \A i \in 1..Len(t.cols) : Lower(t.cols[i]) # Lower(name)
      <4>1. \A i \in 1..Len(t.cols) : Lower(name) = Lower(t.cols[i]) => name = t.cols[i]
        BY <1>3, <1>4, <3>1, <3>2
      <4>2. \A i \in 1..Len(t.cols) : t.cols[i] # name
        BY <2>4, <3>1, <3>2 DEF ToSet
      <4>. QED  BY <4>1, <4>2
    <3>6. n.cols = t.cols \o <<name>> /\ n.shows = t.shows \o <<x[3]>>
      BY <2>3, <3>4
    <3>7. AskedRow(n, t, {x}, column_map, R)
      BY <1>1, <3>2, <3>5, <3>6, OneMore
    <3>. QED  BY <3>1, <3>7
  <2>. QED  BY <2>5, <2>6
<1>. QED  BY <1>2, <1>3

\* Requests that are answered with names of tables T.
AllIn(requests, n, T) ==
    /\ n \in Nat /\ Len(requests) = n
    /\ \A k \in 1..n : /\ RequestTyped(requests[k]) /\ requests[k].base.table_index \in T
                       /\ \A j \in 1..Len(requests[k].candidates) : requests[k].candidates[j].table_index \in T

LEMMA MintIn ==
    ASSUME NEW T, NEW requests, NEW n, AllIn(requests, n, T), n <= MaxColumns, NEW cs, cs = Mint(requests)
    PROVE  /\ cs \in Seq(ColStructs) /\ Len(cs) = n /\ KeysApart(cs)
           /\ \A i \in 1..Len(cs) : /\ cs[i].table_index \in T
                                    /\ \/ cs[i].table_index = requests[i].base.table_index
                                       \/ \E j \in 1..Len(requests[i].candidates) : cs[i] = requests[i].candidates[j]
<1>1. MintedWell(cs, requests, n)
  BY MintTyped DEF AllIn
<1>2. cs \in Seq(ColStructs) /\ Len(cs) = n /\ KeysApart(cs)
  BY <1>1 DEF MintedWell, KeysApart
<1>3. ASSUME NEW i \in 1..n
      PROVE  /\ cs[i].table_index \in T
             /\ \/ cs[i].table_index = requests[i].base.table_index
                \/ \E j \in 1..Len(requests[i].candidates) : cs[i] = requests[i].candidates[j]
  <2>1. \/ \E k \in 1..Len(requests[i].candidates) : cs[i] = requests[i].candidates[k]
        \/ cs[i].table_index = requests[i].base.table_index
    BY <1>1 DEF MintedWell
  <2>. QED  BY <2>1 DEF AllIn
<1>. QED  BY <1>2, <1>3

\* An expression of a projection.
ItemTyped(item) == item.alias \in Words

LEMMA ExpressionFacts ==
    ASSUME BuilderInv, NEW t, NEW D, Covered(t, D), NEW item \in Items(t)
    PROVE  /\ item.alias \in Words
           /\ item.kind = "ref" => item.at \in 1..Len(t.bindings) /\ t.means[item.at] # None /\ t.bindings[item.at] \in D
           /\ item.kind # "computed" => item.at \in 1..Len(t.bindings)
<1>1. Aliases \subseteq Words /\ << >> \in Words
  BY AliasesTyped, LiteralWords
<1>2. DOMAIN t.means = 1..Len(t.bindings) /\ DOMAIN t.means = 1..Len(t.means)
  BY DEF Covered
<1>3. \/ \E i \in {j \in DOMAIN t.means : t.means[j] # None}, a \in Aliases : item = [kind |-> "ref", at |-> i, alias |-> a]
      \/ \E a \in Aliases : item = [kind |-> "computed", at |-> 0, alias |-> a]
      \/ \E i \in DOMAIN t.means : item = [kind |-> "compress", at |-> i, alias |-> << >>]
  BY DEF Items
<1>. QED  BY <1>1, <1>2, <1>3 DEF Covered

\* What the column of an expression is called: what the user says, or what the column it refers to is called.
LEMMA ItemRequest ==
    ASSUME index \in Int, NEW item, ItemTyped(item), NEW k \in 1..MaxColumns, NEW b,
           item.kind = "ref" => column_map[b] \in ColStructs,
           NEW r, r = ProjectionColumn(item, b, k)
    PROVE  /\ RequestTyped(r) /\ r.base.table_index = index
           /\ \A j \in 1..Len(r.candidates) :
                r.candidates[j].table_index = index \/ (item.kind = "ref" /\ r.candidates[j] = column_map[b])
<1>1. k - 1 \in 0..MaxColumns /\ k - 1 \in 0..(2 * MaxColumns)
  BY MaxColumnsTyped
<1>. DEFINE word == IF item.alias = << >> THEN <<"scalar", Digit(k - 1)>> ELSE item.alias
            computed == ColStruct(index, <<"expr">>, word)
            origin == SanitizeIdentifierFragment(StripTablePrefix(ToUniqueColumnName(column_map[b])))
            again == ColStruct(index, origin, << >>)
<1>2. CASE item.kind # "ref"
  <2>1. r = Request(<<computed>>, computed, "alias", k - 1)
    BY <1>2 DEF ProjectionColumn
  <2>2. <<"expr">> \in Words /\ word \in Words
    BY <1>1, LiteralWords DEF ItemTyped
  <2>3. computed \in ColStructs /\ computed.table_index = index
    BY <2>2, ColStructTyped
  <2>4. PICK c : c = computed
    OBVIOUS
  <2>5. RequestFor(r, index)
    <3>. HIDE DEF computed
    <3>. QED  BY <1>1, <2>1, <2>3, <2>4, OneCandidate
  <2>. QED  BY <2>5 DEF RequestFor
<1>3. CASE item.kind = "ref" /\ item.alias # << >> /\ SanitizeIdentifierFragment(item.alias) # origin
  <2>1. r = MakeDedupedColumn(index, item.alias, << >>, k - 1)
    BY <1>3 DEF ProjectionColumn
  <2>2. item.alias \in Words /\ << >> \in Words
    BY LiteralWords DEF ItemTyped
  <2>3. RequestFor(r, index)
    BY <1>1, <2>1, <2>2, DedupedFor
  <2>. QED  BY <2>3 DEF RequestFor
<1>4. CASE item.kind = "ref" /\ ~(item.alias # << >> /\ SanitizeIdentifierFragment(item.alias) # origin)
  <2>1. PICK desc, e : desc = column_map[b] /\ e = again
    OBVIOUS
  <2>2. r = Request(<<desc, e>>, e, "column_name", k - 1)
    BY <1>4, <2>1 DEF ProjectionColumn
  <2>3. origin \in Words
    <3>1. ToUniqueColumnName(column_map[b]) \in Names
      BY <1>4, BaseTyped
    <3>2. ToUniqueColumnName(column_map[b])[2] \in Words
      BY <3>1, NameTyped
    <3>3. PICK w : w = StripTablePrefix(ToUniqueColumnName(column_map[b])) /\ w \in Words
      BY <3>2 DEF StripTablePrefix
    <3>4. SanitizeIdentifierFragment(w) \in Words
      <4>1. PICK name : name = <<index, SanitizeIdentifierFragment(w)>>
        OBVIOUS
      <4>. QED  BY <3>3, <4>1, WordMapped
    <3>. QED  BY <3>3, <3>4
  <2>4. e \in ColStructs /\ e.table_index = index /\ e.alias = << >>
    <3>1. PICK o : o = origin /\ o \in Words
      BY <2>3
    <3>2. e = ColStruct(index, o, << >>) /\ << >> \in Words
      BY <2>1, <3>1, LiteralWords
    <3>. QED  BY <3>1, <3>2, ColStructTyped
  <2>5. r.candidates = <<desc, e>> /\ r.base = e /\ r.suffixed = "column_name" /\ r.seed = k - 1
    BY <2>2 DEF Request
  <2>6. DOMAIN <<desc, e>> = 1..2 /\ Len(<<desc, e>>) = 2 /\ <<desc, e>>[1] = desc /\ <<desc, e>>[2] = e
    OBVIOUS
  <2>7. DOMAIN r.candidates = 1..Len(r.candidates) /\ Len(r.candidates) = 2 /\ Len(r.candidates) \in Nat
    BY <2>5, <2>6
  <2>8. \A j \in 1..Len(r.candidates) : r.candidates[j] = desc \/ r.candidates[j] = e
    BY <2>5, <2>6, <2>7
  <2>9. desc \in ColStructs
    BY <1>4, <2>1
  <2>. QED  BY <1>1, <1>4, <2>1, <2>4, <2>5, <2>7, <2>8, <2>9 DEF RequestTyped
<1>. QED  BY <1>2, <1>3, <1>4

\* The columns of a projection: what they mean, what they show and what they are called.
Projects(items, n, means, shows, cs) ==
    /\ means = [i \in DOMAIN items |-> IF items[i].kind = "computed" THEN <<serial, i>> ELSE n.means[items[i].at]]
    /\ shows = [i \in DOMAIN items |-> IF items[i].kind = "computed" THEN <<serial, i>>
                                       ELSE Denotes(FindColumnBinding(n.bindings[items[i].at]), n.cols, n.shows)]
    /\ cs = Mint([i \in DOMAIN items |-> ProjectionColumn(items[i], n.bindings[items[i].at], i)])
\* The items of a projection over n, which has the columns of a subtree.
ItemsOver(items, n, R) ==
    /\ RowFits(n.bindings, n.means, n.cols, n.shows, column_map, R) /\ Paired(n.bindings, n.means)
    /\ items \in Seq({items[i] : i \in DOMAIN items}) /\ Len(items) <= MaxColumns
    /\ \A i \in 1..Len(items) :
        /\ ItemTyped(items[i])
        /\ items[i].kind # "computed" => items[i].at \in 1..Len(n.bindings) /\ n.bindings[items[i].at] \in DOMAIN column_map

\* What a binding of one of the columns is called.
LEMMA NamedInRow ==
    ASSUME NEW bindings, NEW means, NEW cols, NEW shows, NEW R,
           RowFits(bindings, means, cols, shows, column_map, R), MapTyped(column_map), NEW i \in 1..Len(bindings),
           bindings[i] \in DOMAIN column_map
    PROVE  /\ column_map[bindings[i]] \in ColStructs /\ column_map[bindings[i]].table_index \in R
           /\ Denotes(FindColumnBinding(bindings[i]), cols, shows) \in Columns
           /\ means[i] # None => Denotes(FindColumnBinding(bindings[i]), cols, shows) = means[i]
<1>1. PICK pos : Located(bindings, means, cols, shows, column_map, R, pos)
  BY LocatedOne
<1>2. FindColumnBinding(bindings[i]) = NameIn(column_map, bindings[i])
  BY DEF FindColumnBinding, NameIn
<1>3. means[i] # None => Denotes(FindColumnBinding(bindings[i]), cols, shows) = means[i]
  BY <1>1, <1>2, LocatedReads
<1>4. Row(cols, shows) /\ i \in 1..Len(cols) /\ cols[i][1] \in R /\ Lower(NameIn(column_map, bindings[i])) = Lower(cols[i])
  BY DEF RowFits
<1>5. Denotes(FindColumnBinding(bindings[i]), cols, shows) \in Columns
  BY <1>4, DenotesTyped
<1>6. column_map[bindings[i]] \in ColStructs
  BY DEF MapTyped
<1>7. NameIn(column_map, bindings[i]) \in Names /\ NameIn(column_map, bindings[i])[1] = column_map[bindings[i]].table_index
  BY <1>6, BaseTyped DEF NameIn
<1>8. cols[i] \in Names
  BY <1>4 DEF Row
<1>9. column_map[bindings[i]].table_index = cols[i][1]
  <2>1. PICK a, b : a = NameIn(column_map, bindings[i]) /\ b = cols[i]
    OBVIOUS
  <2>2. Lower(a)[1] = a[1] /\ Lower(b)[1] = b[1]
    BY <1>7, <1>8, <2>1, NameTyped
  <2>. QED  BY <1>4, <1>7, <2>1, <2>2
<1>. QED  BY <1>3, <1>4, <1>5, <1>6, <1>9

\* What they are: a row; those that keep their names are columns of the subtree.
RowOfItems(items, n, means, shows, cs, R) ==
    /\ NewRow(Bound(index, Len(items)), means, cs, shows, R \cup New)
    /\ Len(cs) = Len(items)
    /\ \A i \in 1..Len(items) : cs[i].table_index \in R =>
        shows[i] = Denotes(ToUniqueColumnName(cs[i]), n.cols, n.shows)

LEMMA ProjectedRow ==
    ASSUME BuilderInv, index' = index + 1, NEW R, OverTop(R), NEW n, NEW items, ItemsOver(items, n, R),
           NEW means, NEW shows, NEW cs, Projects(items, n, means, shows, cs)
    PROVE  RowOfItems(items, n, means, shows, cs, R)
<1>1. /\ index \in Int /\ serial \in Int /\ Later /\ index \in New /\ index < index'
      /\ Len(items) \in Nat /\ DOMAIN items = 1..Len(items) /\ MapTyped(column_map)
      /\ \A t \in R : t \in Int /\ t < index
  <2>1. index \in Int /\ serial \in Int
    BY DEF BuilderInv
  <2>2. Later /\ index \in New /\ index < index'
    BY <2>1 DEF New, Later
  <2>3. Len(items) \in Nat /\ DOMAIN items = 1..Len(items)
    <3>1. items \in Seq({items[i] : i \in DOMAIN items})
      BY DEF ItemsOver
    <3>. QED  BY <3>1
  <2>. QED  BY <2>1, <2>2, <2>3 DEF OverTop
<1>2. ASSUME NEW i \in 1..Len(items), items[i].kind # "computed"
      PROVE  /\ column_map[n.bindings[items[i].at]] \in ColStructs
             /\ column_map[n.bindings[items[i].at]].table_index \in R
             /\ Denotes(FindColumnBinding(n.bindings[items[i].at]), n.cols, n.shows) \in Columns
             /\ n.means[items[i].at] # None =>
                    Denotes(FindColumnBinding(n.bindings[items[i].at]), n.cols, n.shows) = n.means[items[i].at]
             /\ n.means[items[i].at] \in Columns
  <2>1. items[i].at \in 1..Len(n.bindings) /\ n.bindings[items[i].at] \in DOMAIN column_map
    BY <1>2 DEF ItemsOver
  <2>2. RowFits(n.bindings, n.means, n.cols, n.shows, column_map, R) /\ Paired(n.bindings, n.means)
    BY DEF ItemsOver
  <2>3. n.means[items[i].at] \in Columns
    BY <2>1, <2>2 DEF Paired
  <2>4. PICK j : j = items[i].at
    OBVIOUS
  <2>5. /\ column_map[n.bindings[j]] \in ColStructs /\ column_map[n.bindings[j]].table_index \in R
        /\ Denotes(FindColumnBinding(n.bindings[j]), n.cols, n.shows) \in Columns
        /\ n.means[j] # None => Denotes(FindColumnBinding(n.bindings[j]), n.cols, n.shows) = n.means[j]
    BY <1>1, <2>1, <2>2, <2>4, NamedInRow
  <2>. QED  BY <2>3, <2>4, <2>5
<1>3. \A i \in 1..Len(items) : <<serial, i>> \in Columns
  BY <1>1 DEF Columns
<1>4. /\ Len(means) = Len(items) /\ means \in Seq(Columns) /\ shows \in Seq(Columns) /\ Len(shows) = Len(items)
      /\ Holds(means, shows)
  <2>1. \A i \in 1..Len(items) : means[i] \in Columns /\ shows[i] \in Columns /\ (means[i] # None => shows[i] = means[i])
    BY <1>1, <1>2, <1>3 DEF Projects
  <2>2. DOMAIN means = 1..Len(items) /\ DOMAIN shows = 1..Len(items)
    BY <1>1 DEF Projects
  <2>3. means = [i \in 1..Len(items) |-> means[i]] /\ shows = [i \in 1..Len(items) |-> shows[i]]
    BY <1>1, <2>2 DEF Projects
  <2>4. means \in [1..Len(items) -> Columns] /\ shows \in [1..Len(items) -> Columns]
    BY <2>1, <2>3
  <2>5. means \in Seq(Columns) /\ Len(means) = Len(items) /\ shows \in Seq(Columns) /\ Len(shows) = Len(items)
    BY <1>1, <2>4, FunctionIsSequence
  <2>. QED  BY <2>1, <2>5 DEF Holds
<1>5. PICK requests : requests = [i \in DOMAIN items |-> ProjectionColumn(items[i], n.bindings[items[i].at], i)]
  OBVIOUS
<1>6. ASSUME NEW i \in 1..Len(items)
      PROVE  /\ RequestTyped(requests[i]) /\ requests[i].base.table_index = index
             /\ \A j \in 1..Len(requests[i].candidates) :
                    \/ requests[i].candidates[j].table_index = index
                    \/ items[i].kind = "ref" /\ requests[i].candidates[j] = column_map[n.bindings[items[i].at]]
  <2>1. i \in 1..MaxColumns
    BY <1>1, MaxColumnsTyped DEF ItemsOver
  <2>2. ItemTyped(items[i]) /\ (items[i].kind = "ref" => column_map[n.bindings[items[i].at]] \in ColStructs)
    BY <1>2 DEF ItemsOver
  <2>3. requests[i] = ProjectionColumn(items[i], n.bindings[items[i].at], i)
    BY <1>1, <1>5
  <2>4. PICK item, b : item = items[i] /\ b = n.bindings[items[i].at]
    OBVIOUS
  <2>. QED  BY <1>1, <2>1, <2>2, <2>3, <2>4, ItemRequest
<1>7. AllIn(requests, Len(items), R \cup New)
  <2>1. \A i \in 1..Len(items) : items[i].kind = "ref" => column_map[n.bindings[items[i].at]].table_index \in R
    BY <1>2
  <2>2. Len(requests) = Len(items)
    BY <1>1, <1>5
  <2>. QED  BY <1>1, <1>6, <2>1, <2>2 DEF AllIn
<1>8. /\ cs \in Seq(ColStructs) /\ Len(cs) = Len(items) /\ KeysApart(cs)
      /\ \A i \in 1..Len(cs) :
            /\ cs[i].table_index \in R \cup New
            /\ \/ cs[i].table_index = requests[i].base.table_index
               \/ \E j \in 1..Len(requests[i].candidates) : cs[i] = requests[i].candidates[j]
  <2>1. cs = Mint(requests) /\ Len(items) <= MaxColumns
    BY <1>5 DEF Projects, ItemsOver
  <2>2. PICK m : m = Len(items)
    OBVIOUS
  <2>. QED  BY <1>7, <2>1, <2>2, MintIn
<1>9. ASSUME NEW i \in 1..Len(items), cs[i].table_index \in R
      PROVE  shows[i] = Denotes(ToUniqueColumnName(cs[i]), n.cols, n.shows)
  <2>1. cs[i].table_index # index
    BY <1>1, <1>9
  <2>2. items[i].kind = "ref" /\ cs[i] = column_map[n.bindings[items[i].at]]
    BY <1>6, <1>8, <2>1
  <2>3. shows[i] = Denotes(FindColumnBinding(n.bindings[items[i].at]), n.cols, n.shows)
    BY <1>1, <2>2 DEF Projects
  <2>. QED  BY <2>2, <2>3 DEF FindColumnBinding
<1>10. /\ Bound(index, Len(items)) \in Seq(Bindings) /\ Len(Bound(index, Len(items))) = Len(items)
       /\ NoTwice(Bound(index, Len(items))) /\ \A i \in 1..Len(items) : Bound(index, Len(items))[i][1] = index
  BY <1>1, BoundApart
<1>11. NewRow(Bound(index, Len(items)), means, cs, shows, R \cup New)
  BY <1>1, <1>4, <1>8, <1>10 DEF NewRow
<1>. QED  BY <1>8, <1>9, <1>11 DEF RowOfItems

\* A column the parent of a projection may ask for: the projection has it already, or gets it.
Told(cols, all, c, s, name, v) ==
    IF \E i \in 1..Len(c) : Lower(name) = Lower(c[i]) THEN cols = c /\ all = s
    ELSE OneColumnMore(cols, all, c, s, name, v)
\* p may be asked for; it is called name.
MayAsk(p, name, v, c, s, map, T) ==
    /\ name \in Names /\ name[1] \in T /\ v \in Columns /\ v # None
    /\ p \in DOMAIN map /\ p[1] \in T /\ NameIn(map, p) = name
    /\ \A i \in 1..Len(c) : Lower(name) = Lower(c[i]) => s[i] = v

LEMMA ToldOne ==
    ASSUME NEW b, NEW m, NEW c, NEW s, NEW map, NEW T, RowFits(b, m, c, s, map, T), Len(b) \in Nat,
           NEW p, NEW name, NEW v, MayAsk(p, name, v, c, s, map, T),
           NEW cols, NEW all, Told(cols, all, c, s, name, v)
    PROVE  RowFits(b, m, cols, all, map, T) /\ ExtraFits("Project", {<<p, v, v>>}, cols, all, map, T)
<1>1. /\ RowFits(b, m, cols, all, map, T)
      /\ \A i \in 1..Len(cols) : Lower(name) = Lower(cols[i]) => all[i] = v
      /\ \E i \in 1..Len(cols) : Lower(name) = Lower(cols[i])
  <2>1. CASE \E i \in 1..Len(c) : Lower(name) = Lower(c[i])
    BY <2>1 DEF Told, MayAsk
  <2>2. CASE ~\E i \in 1..Len(c) : Lower(name) = Lower(c[i])
    <3>1. OneColumnMore(cols, all, c, s, name, v) /\ \A i \in 1..Len(c) : Lower(c[i]) # Lower(name)
      BY <2>2 DEF Told
    <3>2. name \in Names /\ name[1] \in T /\ v \in Columns
      BY DEF MayAsk
    <3>3. PICK k : k = Len(c)
      OBVIOUS
    <3>4. /\ RowFits(b, m, cols, all, map, T)
          /\ k \in Nat /\ Len(cols) = k + 1
          /\ \A i \in 1..k : cols[i] = c[i] /\ all[i] = s[i]
          /\ cols[k + 1] = name /\ all[k + 1] = v
      BY <3>1, <3>2, <3>3, RowFitsMore
    <3>5. k + 1 \in 1..Len(cols) /\ \A i \in 1..Len(cols) : i \in 1..k \/ i = k + 1
      <4>1. PICK l : l = Len(cols)
        OBVIOUS
      <4>2. l = k + 1 /\ k \in Nat
        BY <3>4, <4>1
      <4>3. k + 1 \in 1..l /\ \A i \in 1..l : i \in 1..k \/ i = k + 1
        BY <4>2
      <4>. QED  BY <4>1, <4>3
    <3>6. \A i \in 1..Len(cols) : Lower(name) = Lower(cols[i]) => all[i] = v
      BY <3>1, <3>3, <3>4, <3>5
    <3>. QED  BY <3>4, <3>5, <3>6
  <2>. QED  BY <2>1, <2>2
<1>2. PICK x : x = <<p, v, v>>
  OBVIOUS
<1>3. x[1] = p /\ x[2] = v /\ x[3] = v
  BY <1>2
<1>4. ExtraFits("Project", {x}, cols, all, map, T)
  BY <1>1, <1>3 DEF ExtraFits, MayAsk
<1>. QED  BY <1>1, <1>2, <1>4

\* The columns the parent of a projection may ask for: one at most.
LEMMA ExtrasFew ==
    ASSUME NEW t, NEW D, Covered(t, D), NEW R, Fits(t, column_map, R), D = DOMAIN column_map,
           NEW use \in Uses(t), NEW extra \in Extras(t, use)
    PROVE  /\ extra = {} \/ \E p \in Reachable(t, use) : extra = {p}
           /\ \A p \in Reachable(t, use) : p[2] # None /\ p[2] \in Columns /\ p[1] \in D /\ p[1][1] \in R
<1>1. ExtraFits(t.kind, t.extra, t.cols, t.shows, column_map, R) /\ use \subseteq t.extra
  BY DEF Fits, Uses
<1>2. ASSUME NEW p \in Reachable(t, use) PROVE p[2] # None /\ p[2] \in Columns /\ p[1] \in D /\ p[1][1] \in R
  <2>1. CASE p \in Refs(t)
    <3>1. PICK i \in DOMAIN t.bindings : t.means[i] # None /\ p = <<t.bindings[i], t.means[i]>>
      BY <2>1 DEF Refs
    <3>2. i \in 1..Len(t.bindings) /\ i \in 1..Len(t.means) /\ t.means[i] \in Columns
      BY DEF Covered
    <3>3. t.bindings[i][1] \in R
      BY <3>2 DEF Fits, RowFits
    <3>. QED  BY <3>1, <3>2, <3>3 DEF Covered
  <2>2. CASE p \in {<<x[1], x[2]>> : x \in use}
    <3>1. PICK x \in use : p = <<x[1], x[2]>>
      BY <2>2
    <3>. QED  BY <1>1, <3>1 DEF ExtraFits
  <2>. QED  BY <2>1, <2>2 DEF Reachable
<1>3. extra = {} \/ \E p \in Reachable(t, use) : extra = {p}
  <2>1. CASE extra = {} \/ \E p \in Refs(t) : extra = {p}
    BY <2>1 DEF Reachable
  <2>2. CASE t.kind = "Project" /\ extra = {<<x[1], x[2]>> : x \in use}
    <3>1. \A x, y \in use : x = y
      BY <1>1, <2>2 DEF ExtraFits
    <3>2. extra \subseteq Reachable(t, use)
      BY <2>2 DEF Reachable
    <3>3. CASE use = {}
      BY <2>2, <3>3
    <3>4. CASE use # {}
      <4>1. PICK x \in use : TRUE
        BY <3>4
      <4>2. use = {x}
        BY <3>1, <4>1
      <4>3. extra = {<<x[1], x[2]>>}
        BY <2>2, <4>2
      <4>. QED  BY <3>2, <4>3
    <3>. QED  BY <3>3, <3>4
  <2>. QED  BY <2>1, <2>2 DEF Extras
<1>. QED  BY <1>2, <1>3

\* What a projection has to do with the columns its parent may ask for.
Widened(extra, n, cs, shows, cols, all, more) ==
    LET shown(x) == Denotes(FindColumnBinding(x[1]), n.cols, n.shows)
        told == {x \in extra : Lower(FindColumnBinding(x[1])) \notin {Lower(NamesOf(cs)[i]) : i \in DOMAIN cs}}
        hidden == SetToSeq(told) IN
    /\ cols = NamesOf(cs) \o [i \in DOMAIN hidden |-> FindColumnBinding(hidden[i][1])]
    /\ all = shows \o [i \in DOMAIN hidden |-> shown(hidden[i])]
    /\ more = {<<x[1], x[2], shown(x)>> : x \in extra}

LEMMA NothingTold ==
    ASSUME NEW n, NEW cs \in Seq(ColStructs), NEW shows \in Seq(Columns), NEW cols, NEW all, NEW more,
           Widened({}, n, cs, shows, cols, all, more)
    PROVE  cols = NamesOf(cs) /\ all = shows /\ more = {}
<1>1. {x \in {} : Lower(FindColumnBinding(x[1])) \notin {Lower(NamesOf(cs)[i]) : i \in DOMAIN cs}} = {}
  OBVIOUS
<1>2. SetToSeq({x \in {} : Lower(FindColumnBinding(x[1])) \notin {Lower(NamesOf(cs)[i]) : i \in DOMAIN cs}}) = << >>
  BY <1>1, SequenceOfFew
<1>3. PICK names : names = NamesOf(cs) /\ names \in Seq(Names)
  BY NamesOfTyped
<1>4. cols = names \o << >> /\ all = shows \o << >> /\ more = {}
  BY <1>2, <1>3 DEF Widened
<1>. QED  BY <1>3, <1>4

LEMMA OneTold ==
    ASSUME NEW n, NEW cs \in Seq(ColStructs), NEW shows \in Seq(Columns), NEW cols, NEW all, NEW more,
           NEW p, Widened({p}, n, cs, shows, cols, all, more),
           NEW name, name = FindColumnBinding(p[1]), NEW v, v = Denotes(name, n.cols, n.shows)
    PROVE  Told(cols, all, NamesOf(cs), shows, name, v) /\ more = {<<p[1], p[2], v>>}
<1>. DEFINE told == {x \in {p} : Lower(FindColumnBinding(x[1])) \notin {Lower(NamesOf(cs)[i]) : i \in DOMAIN cs}}
            hidden == SetToSeq(told)
<1>1. PICK names : names = NamesOf(cs) /\ names \in Seq(Names) /\ Len(names) = Len(cs)
  BY NamesOfTyped
<1>2. DOMAIN cs = 1..Len(names)
  BY <1>1
<1>3. /\ cols = names \o [i \in DOMAIN hidden |-> FindColumnBinding(hidden[i][1])]
      /\ all = shows \o [i \in DOMAIN hidden |-> Denotes(FindColumnBinding(hidden[i][1]), n.cols, n.shows)]
      /\ more = {<<p[1], p[2], v>>}
  BY <1>1 DEF Widened
<1>4. CASE \E i \in 1..Len(names) : Lower(name) = Lower(names[i])
  <2>1. told = {}
    BY <1>1, <1>2, <1>4
  <2>2. hidden = << >>
    <3>. HIDE DEF told
    <3>. QED  BY <2>1, SequenceOfFew
  <2>3. cols = names \o << >> /\ all = shows \o << >>
    <3>1. PICK h : h = hidden
      OBVIOUS
    <3>2. h = << >>
      BY <2>2, <3>1
    <3>3. [i \in DOMAIN h |-> FindColumnBinding(h[i][1])] = << >>
      BY <3>2
    <3>4. [i \in DOMAIN h |-> Denotes(FindColumnBinding(h[i][1]), n.cols, n.shows)] = << >>
      BY <3>2
    <3>5. cols = names \o [i \in DOMAIN h |-> FindColumnBinding(h[i][1])] /\ all = shows \o [i \in DOMAIN h |-> Denotes(FindColumnBinding(h[i][1]), n.cols, n.shows)]
      BY <1>3, <3>1
    <3>. QED  BY <3>3, <3>4, <3>5
  <2>4. cols = names /\ all = shows
    BY <1>1, <2>3
  <2>. QED  BY <1>1, <1>3, <1>4, <2>4 DEF Told
<1>5. CASE ~\E i \in 1..Len(names) : Lower(name) = Lower(names[i])
  <2>1. told = {p}
    BY <1>1, <1>2, <1>5
  <2>2. hidden = <<p>>
    <3>. HIDE DEF told
    <3>. QED  BY <2>1, SequenceOfFew
  <2>3. [i \in DOMAIN hidden |-> FindColumnBinding(hidden[i][1])] = <<name>>
        /\ [i \in DOMAIN hidden |-> Denotes(FindColumnBinding(hidden[i][1]), n.cols, n.shows)] = <<v>>
    <3>1. DOMAIN hidden = 1..1 /\ hidden[1] = p
      BY <2>2
    <3>2. [i \in DOMAIN hidden |-> FindColumnBinding(hidden[i][1])] = <<FindColumnBinding(p[1])>>
      BY <3>1
    <3>3. [i \in DOMAIN hidden |-> Denotes(FindColumnBinding(hidden[i][1]), n.cols, n.shows)]
            = <<Denotes(FindColumnBinding(p[1]), n.cols, n.shows)>>
      BY <3>1
    <3>. QED  BY <3>2, <3>3
  <2>4. OneColumnMore(cols, all, names, shows, name, v)
    BY <1>3, <2>3 DEF OneColumnMore
  <2>. QED  BY <1>1, <1>3, <1>5, <2>4 DEF Told
<1>. QED  BY <1>4, <1>5

\* The columns asked for come after those of the projection.
LEMMA WidenedLonger ==
    ASSUME NEW S, NEW cs \in Seq(S), NEW extra, extra = {} \/ \E p : extra = {p}, NEW n, NEW shows,
           NEW cols, NEW all, NEW more, Widened(extra, n, cs, shows, cols, all, more)
    PROVE  Len(cs) <= Len(cols)
<1>. DEFINE told == {x \in extra : Lower(FindColumnBinding(x[1])) \notin {Lower(NamesOf(cs)[i]) : i \in DOMAIN cs}}
<1>1. PICK hidden : hidden = SetToSeq(told)
  OBVIOUS
<1>2. cols = NamesOf(cs) \o [i \in DOMAIN hidden |-> FindColumnBinding(hidden[i][1])]
  BY <1>1 DEF Widened
<1>3. PICK T, names : names = NamesOf(cs) /\ names \in Seq(T) /\ Len(names) = Len(cs) /\ Len(cs) \in Nat
  BY NamesSequence, LengthOfNames
<1>4. hidden = << >> \/ \E p : hidden = <<p>>
  <2>1. told = {} \/ \E p : told = {p}
    OBVIOUS
  <2>. HIDE DEF told
  <2>. QED  BY <1>1, <2>1, SequenceOfFew
<1>5. PICK U, f : f = [i \in DOMAIN hidden |-> FindColumnBinding(hidden[i][1])] /\ f \in Seq(U)
  <2>1. \E m \in Nat : DOMAIN hidden = 1..m
    BY <1>4
  <2>2. PICK m \in Nat : DOMAIN hidden = 1..m
    BY <2>1
  <2>. DEFINE U == {FindColumnBinding(hidden[i][1]) : i \in 1..m}
  <2>3. [i \in DOMAIN hidden |-> FindColumnBinding(hidden[i][1])] \in [1..m -> U]
    BY <2>2
  <2>. HIDE DEF U
  <2>4. [i \in DOMAIN hidden |-> FindColumnBinding(hidden[i][1])] \in Seq(U)
    BY <2>3, FunctionIsSequence
  <2>. QED  BY <2>4
<1>6. Len(names \o f) = Len(names) + Len(f) /\ Len(f) \in Nat
  BY <1>3, <1>5, LengthOfBoth
<1>. QED  BY <1>2, <1>3, <1>5, <1>6

\* A node of a projection.
ProjectNode(node, kind, items, means, cols, all, more) ==
    /\ node.kind = kind /\ node.bindings = Bound(index, Len(items)) /\ node.means = means
    /\ node.cols = cols /\ node.shows = all /\ node.stale = {} /\ node.extra = more

LEMMA ProjectedFits ==
    ASSUME BuilderInv, index' = index + 1, NEW R, OverTop(R), Covered(Top, DOMAIN column_map),
           NEW use \in Uses(Top), NEW extra \in Extras(Top, use), NEW n, n = Asked(Top, use),
           NEW items, ItemsOver(items, n, R), NEW means, NEW shows, NEW cs, Projects(items, n, means, shows, cs),
           NEW cols, NEW all, NEW more, Widened(extra, n, cs, shows, cols, all, more),
           NEW kind, kind # "Project" => extra = {},
           NEW node, ProjectNode(node, kind, items, means, cols, all, more), Len(node.cols) <= MaxColumns,
           NEW map, map = Registered(Bound(index, Len(items)), cs)
    PROVE  UnaryBuilt(node, map, R, ReadAll(Reachable(Top, use), n))
<1>1. Fits(Top, column_map, R) /\ MapTyped(column_map) /\ \A t \in R : t \in Int /\ t < index
  BY DEF OverTop
<1>2. AskedRow(n, Top, use, column_map, R)
  BY <1>1, AskedFits
<1>3. /\ NewRow(Bound(index, Len(items)), means, cs, shows, R \cup New)
      /\ Len(cs) = Len(items)
      /\ \A i \in 1..Len(items) : cs[i].table_index \in R =>
            shows[i] = Denotes(ToUniqueColumnName(cs[i]), n.cols, n.shows)
  <2>1. /\ BuilderInv /\ index' = index + 1 /\ OverTop(R) /\ ItemsOver(items, n, R)
        /\ Projects(items, n, means, shows, cs)
    OBVIOUS
  <2>2. RowOfItems(items, n, means, shows, cs, R)
    BY ONLY <2>1, ProjectedRow
  <2>. QED  BY <2>2 DEF RowOfItems
<1>4. Later /\ index \in Int /\ \A t \in New : t \notin R
  <2>1. index \in Int
    BY DEF BuilderInv
  <2>2. Later
    BY <2>1 DEF Later
  <2>3. \A t \in New : index <= t /\ t \in Int
    BY <2>1, <2>2, NewTyped
  <2>4. \A t \in New : t \notin R
    BY <1>1, <2>1, <2>3
  <2>. QED  BY <2>1, <2>2, <2>4
<1>5. PICK b : b = Bound(index, Len(items))
  OBVIOUS
<1>6. /\ RowFits(b, means, NamesOf(cs), shows, map, R \cup New)
      /\ Agrees(column_map, map, New) /\ MapTyped(map) /\ Grown(map)
  BY <1>1, <1>3, <1>4, <1>5, NewRowFits
<1>7. /\ cs \in Seq(ColStructs) /\ shows \in Seq(Columns) /\ Len(shows) = Len(cs) /\ Len(b) \in Nat
  BY <1>3, <1>5 DEF NewRow
<1>8. Row(n.cols, n.shows) /\ Finds(Reachable(Top, use), n.cols, n.shows, column_map)
  BY <1>2 DEF AskedRow, RowFits
<1>9. RightReads(ReadAll(Reachable(Top, use), n))
  BY <1>8, FindsReads
<1>10. RowFits(b, means, cols, all, map, R \cup New) /\ ExtraFits(kind, more, cols, all, map, R \cup New)
  <2>1. CASE extra = {}
    <3>1. cols = NamesOf(cs) /\ all = shows /\ more = {}
      BY <1>7, <2>1, NothingTold
    <3>2. ExtraFits(kind, more, cols, all, map, R \cup New)
      BY <3>1 DEF ExtraFits
    <3>. QED  BY <1>6, <3>1, <3>2
  <2>2. CASE extra # {}
    <3>1. kind = "Project"
      BY <2>2
    <3>2. PICK p \in Reachable(Top, use) : extra = {p}
      BY <1>1, <2>2, ExtrasFew
    <3>3. p[2] # None /\ p[2] \in Columns /\ p[1] \in DOMAIN column_map /\ p[1][1] \in R
      BY <1>1, ExtrasFew
    <3>4. PICK name, v : name = FindColumnBinding(p[1]) /\ v = Denotes(name, n.cols, n.shows)
      OBVIOUS
    <3>5. name = NameIn(column_map, p[1])
      BY <3>4 DEF FindColumnBinding, NameIn
    <3>6. PICK i \in 1..Len(n.cols) : Lower(name) = Lower(n.cols[i]) /\ n.shows[i] = p[2]
      BY <1>8, <3>3, <3>5 DEF Finds
    <3>7. v = p[2]
      BY <1>8, <3>4, <3>6, DenotesOne
    <3>8. name \in Names
      BY <1>1, <3>3, <3>5, BaseTyped DEF MapTyped, NameIn
    <3>9. name[1] \in R
      <4>1. n.cols[i] \in Names /\ n.cols[i][1] \in R
        BY <1>2, <3>6 DEF AskedRow, RowFits, Row
      <4>2. PICK other : other = n.cols[i]
        OBVIOUS
      <4>3. Lower(name)[1] = name[1] /\ Lower(other)[1] = other[1]
        BY <3>8, <4>1, <4>2, NameTyped
      <4>. QED  BY <3>6, <4>1, <4>2, <4>3
    <3>10. p[1] \in DOMAIN map /\ map[p[1]] = column_map[p[1]]
      BY <1>4, <1>6, <3>3 DEF Agrees
    <3>11. ASSUME NEW j \in 1..Len(NamesOf(cs)), Lower(name) = Lower(NamesOf(cs)[j]) PROVE shows[j] = v
      <4>1. j \in 1..Len(cs) /\ Lower(NamesOf(cs)[j]) = Lower(ToUniqueColumnName(cs[j])) /\ NamesOf(cs)[j] \in Names
            /\ NamesOf(cs)[j][1] = cs[j].table_index
        BY <1>7, NamesOfTyped
      <4>2. PICK other : other = NamesOf(cs)[j]
        OBVIOUS
      <4>3. Lower(name)[1] = name[1] /\ Lower(other)[1] = other[1]
        BY <3>8, <4>1, <4>2, NameTyped
      <4>4. cs[j].table_index \in R
        BY <3>9, <3>11, <4>1, <4>2, <4>3
      <4>5. shows[j] = Denotes(ToUniqueColumnName(cs[j]), n.cols, n.shows)
        BY <1>3, <4>1, <4>4
      <4>6. Lower(name) = Lower(ToUniqueColumnName(cs[j]))
        BY <3>11, <4>1
      <4>7. Denotes(name, n.cols, n.shows) = Denotes(ToUniqueColumnName(cs[j]), n.cols, n.shows)
        BY <4>6, DenotesEqual
      <4>. QED  BY <3>4, <4>5, <4>7
    <3>12. MayAsk(p[1], name, v, NamesOf(cs), shows, map, R \cup New)
      <4>1. NameIn(map, p[1]) = name
        BY <3>5, <3>10 DEF NameIn
      <4>. QED  BY <3>3, <3>7, <3>8, <3>9, <3>10, <3>11, <4>1 DEF MayAsk
    <3>13. Widened({p}, n, cs, shows, cols, all, more)
      BY <3>2
    <3>14. Told(cols, all, NamesOf(cs), shows, name, v) /\ more = {<<p[1], p[2], v>>}
      BY <1>7, <3>4, <3>13, OneTold
    <3>15. PICK q, c : q = p[1] /\ c = NamesOf(cs)
      OBVIOUS
    <3>16. more = {<<q, v, v>>}
      BY <3>7, <3>14, <3>15
    <3>17. RowFits(b, means, cols, all, map, R \cup New) /\ ExtraFits("Project", {<<q, v, v>>}, cols, all, map, R \cup New)
      <4>1. RowFits(b, means, c, shows, map, R \cup New) /\ MayAsk(q, name, v, c, shows, map, R \cup New)
            /\ Told(cols, all, c, shows, name, v)
        BY <1>6, <3>12, <3>14, <3>15
      <4>. QED  BY <1>7, <4>1, ToldOne
    <3>. QED  BY <3>1, <3>16, <3>17
  <2>. QED  BY <2>1, <2>2
<1>11. Fits(node, map, R \cup New)
  BY <1>5, <1>10 DEF ProjectNode, Fits, StaleFits
<1>12. Agrees(column_map, map, R \cup New)
  BY <1>6, AgreesWider
<1>. QED  BY <1>6, <1>9, <1>11, <1>12 DEF UnaryBuilt

\* A projection that is left out: its columns are those of the subtree, under new bindings.
Renamed(node, n, kind, k) ==
    /\ node.kind = kind /\ node.bindings = Bound(index, k) /\ node.means = n.means
    /\ node.cols = n.cols /\ node.shows = n.shows /\ node.stale = {} /\ node.extra = n.extra

LEMMA SkippedFits ==
    ASSUME BuilderInv, index' = index + 1, NEW R, OverTop(R), NEW n,
           RowFits(n.bindings, n.means, n.cols, n.shows, column_map, R), Paired(n.bindings, n.means),
           ExtraFits(n.kind, n.extra, n.cols, n.shows, column_map, R),
           NEW k, k = Len(n.bindings), ToSet(n.bindings) \subseteq DOMAIN column_map,
           NEW kind, kind = n.kind \/ kind \notin {"Project", "Join"},
           NEW node, Renamed(node, n, kind, k), Len(node.cols) <= MaxColumns,
           NEW cs, cs = [i \in 1..k |-> column_map[n.bindings[i]]],
           NEW map, map = Registered(Bound(index, k), cs)
    PROVE  UnaryBuilt(node, map, R, {})
<1>1. /\ index \in Int /\ Later /\ index \in New /\ k \in Nat /\ MapTyped(column_map)
      /\ \A t \in R : t \in Int /\ t < index
  <2>1. index \in Int /\ MapTyped(column_map) /\ (\A t \in R : t \in Int /\ t < index) /\ k \in Nat
    <3>1. n.bindings \in Seq(Bindings)
      BY DEF Paired
    <3>2. k \in Nat
      BY <3>1
    <3>. QED  BY <3>2 DEF BuilderInv, OverTop
  <2>2. Later /\ index \in New
    BY <2>1 DEF Later, New
  <2>. QED  BY <2>1, <2>2
<1>2. R \cap New = {}
  BY <1>1, NewTyped
<1>3. PICK b : b = Bound(index, k)
  OBVIOUS
<1>4. DOMAIN b = 1..Len(b) /\ Len(b) = k /\ NoTwice(b) /\ \A i \in 1..k : b[i] = <<index, i>> /\ b[i][1] = index
  <2>1. b \in Seq(Bindings) /\ Len(b) = k /\ NoTwice(b) /\ \A i \in 1..k : b[i] = <<index, i>> /\ b[i][1] = index
    BY <1>1, <1>3, BoundApart
  <2>. QED  BY <2>1
<1>5. ASSUME NEW i \in 1..k PROVE n.bindings[i] \in DOMAIN column_map /\ cs[i] = column_map[n.bindings[i]] /\ cs[i] \in ColStructs
  <2>1. DOMAIN n.bindings = 1..k
    BY DEF Paired
  <2>2. n.bindings[i] \in DOMAIN column_map
    BY <2>1 DEF ToSet
  <2>. QED  BY <1>1, <2>2 DEF MapTyped
<1>6. Entered(column_map, b, cs, New)
  BY <1>1, <1>4, <1>5 DEF Entered
<1>7. /\ \A i \in 1..k : b[i] \in DOMAIN map /\ map[b[i]] = cs[i]
      /\ Agrees(column_map, map, New)
      /\ MapTyped(map)
      /\ \A x \in DOMAIN map : x \in DOMAIN column_map \/ \E i \in 1..k : x = b[i]
  <2>1. map = Updated(column_map, Entering(b, cs))
    BY <1>3 DEF Registered
  <2>2. PICK l : l = Len(b)
    OBVIOUS
  <2>3. /\ \A i \in 1..l : b[i] \in DOMAIN map /\ map[b[i]] = cs[i]
        /\ Agrees(column_map, map, New)
        /\ MapTyped(map)
        /\ \A x \in DOMAIN map : x \in DOMAIN column_map \/ \E i \in 1..l : x = b[i]
    <3>1. /\ \A i \in 1..Len(b) : b[i] \in DOMAIN map /\ map[b[i]] = cs[i]
          /\ Agrees(column_map, map, New)
          /\ MapTyped(map)
          /\ \A x \in DOMAIN map : x \in DOMAIN column_map \/ \E i \in 1..Len(b) : x = b[i]
      BY ONLY <1>6, <2>1, EnteredMap
    <3>. QED  BY <2>2, <3>1
  <2>4. l = k
    BY <1>4, <2>2
  <2>. QED  BY <2>3, <2>4
<1>8. Grown(map)
  BY <1>1, <1>4, <1>7 DEF Grown
<1>9. /\ Row(n.cols, n.shows) /\ k <= Len(n.cols)
      /\ \A i \in 1..Len(n.cols) : n.cols[i][1] \in R
      /\ \A i \in 1..k : /\ i \in 1..Len(n.cols)
                         /\ n.means[i] # None => n.shows[i] = n.means[i]
                         /\ Lower(NameIn(column_map, n.bindings[i])) = Lower(n.cols[i])
  BY <1>5 DEF RowFits
<1>10. RowFits(b, n.means, n.cols, n.shows, map, R \cup New)
  <2>1. \A i \in 1..k : NameIn(map, b[i]) = NameIn(column_map, n.bindings[i])
    BY <1>5, <1>7 DEF NameIn
  <2>2. \A i \in 1..Len(b) :
           /\ b[i][1] \in R \cup New
           /\ n.means[i] # None => n.shows[i] = n.means[i]
           /\ b[i] \in DOMAIN map => Lower(NameIn(map, b[i])) = Lower(n.cols[i])
    BY <1>1, <1>4, <1>9, <2>1
  <2>3. \A i \in 1..Len(n.cols) : n.cols[i][1] \in R \cup New
    BY <1>9
  <2>. QED  BY <1>1, <1>4, <1>9, <2>2, <2>3, RowFitsFolds
<1>11. ExtraFits(kind, n.extra, n.cols, n.shows, map, R \cup New)
  <2>1. ExtraFits(kind, n.extra, n.cols, n.shows, column_map, R)
    BY DEF ExtraFits
  <2>2. PICK extra, c, s : extra = n.extra /\ c = n.cols /\ s = n.shows
    OBVIOUS
  <2>3. PICK T : T = R \cup New /\ R \subseteq T
    OBVIOUS
  <2>4. ExtraFits(kind, extra, c, s, map, T)
    BY <1>2, <1>7, <2>1, <2>2, <2>3, ExtraFitsAgree
  <2>. QED  BY <2>2, <2>3, <2>4
<1>12. Fits(node, map, R \cup New)
  BY <1>3, <1>10, <1>11 DEF Renamed, Fits, StaleFits
<1>13. Agrees(column_map, map, R \cup New)
  BY <1>7, AgreesWider
<1>. QED  BY <1>7, <1>8, <1>12, <1>13 DEF UnaryBuilt, RightReads

\* The subtree with what is asked of it.
LEMMA AskedParts ==
    ASSUME NEW t, NEW D, Covered(t, D), NEW use, NEW n, n = Asked(t, use)
    PROVE  /\ DOMAIN n = NodeFields /\ n.kind = t.kind /\ n.bindings = t.bindings /\ n.means = t.means
           /\ n.from = t.from /\ n.delims = t.delims /\ n.extra = t.extra
           /\ Paired(n.bindings, n.means)
<1>1. DOMAIN t = NodeFields
  BY DEF Covered
<1>2. /\ DOMAIN n = NodeFields /\ n.kind = t.kind /\ n.bindings = t.bindings /\ n.means = t.means
      /\ n.from = t.from /\ n.delims = t.delims /\ n.extra = t.extra
  BY <1>1 DEF Asked, NodeFields
<1>. QED  BY <1>2 DEF Covered, Paired

LEMMA ItemsFit ==
    ASSUME BuilderInv, Covered(Top, DOMAIN column_map), NEW n, n.bindings = Top.bindings, n.means = Top.means,
           NEW R, RowFits(n.bindings, n.means, n.cols, n.shows, column_map, R),
           NEW items \in Seq(Items(Top)), Len(items) <= MaxColumns,
           \A i \in DOMAIN items : items[i].kind = "compress" => n.bindings[items[i].at] \in DOMAIN column_map
    PROVE  ItemsOver(items, n, R)
<1>1. /\ DOMAIN items = 1..Len(items) /\ \A i \in 1..Len(items) : items[i] \in Items(Top)
  OBVIOUS
<1>2. items \in Seq({items[i] : i \in DOMAIN items})
  OBVIOUS
<1>3. \A i \in 1..Len(items) :
        /\ items[i].alias \in Words
        /\ items[i].kind = "ref" => items[i].at \in 1..Len(Top.bindings) /\ Top.bindings[items[i].at] \in DOMAIN column_map
        /\ items[i].kind # "computed" => items[i].at \in 1..Len(Top.bindings)
  BY <1>1, ExpressionFacts
<1>4. \A i \in 1..Len(items) : items[i].kind \in {"ref", "compress", "computed"}
  BY <1>1 DEF Items
<1>5. Paired(n.bindings, n.means)
  BY DEF Covered, Paired
<1>. QED  BY <1>1, <1>2, <1>3, <1>4, <1>5 DEF ItemsOver, ItemTyped

LEMMA ProjectFits ==
    ASSUME FitInv, BuilderInv', NEW use \in Uses(Top), NEW extra \in Extras(Top, use), NEW root \in BOOLEAN,
           NEW items \in Strings(Items(Top), 1, menu.width), Project(items, root, use, extra)
    PROVE  FitInv'
<1>0. BuilderInv /\ index \in Int /\ serial \in Int
  BY DEF FitInv, BuilderInv
<1>1. items \in Seq(Items(Top)) /\ Len(items) \in Nat /\ DOMAIN items = 1..Len(items)
  <2>1. menu.width \in Nat
    BY <1>0, MenusAssumption DEF BuilderInv
  <2>. QED  BY <2>1, StringsTyped
<1>2. Asks("Project", 1, use) /\ Named /\ (root => extra = {})
  BY DEF Project
<1>3. Covered(Top, DOMAIN column_map) /\ Finished(1)
  BY <1>0, <1>2, AsksFacts
<1>4. index' = index + 1 /\ Later
  BY <1>0, <1>2 DEF Asks, Starts, Later
<1>. DEFINE n == Asked(Top, use)
<1>5. /\ DOMAIN n = NodeFields /\ n.kind = Top.kind /\ n.bindings = Top.bindings /\ n.means = Top.means
      /\ n.from = Top.from /\ n.delims = Top.delims /\ n.extra = Top.extra
      /\ Paired(n.bindings, n.means)
  BY <1>3, AskedParts
<1>6. ASSUME NEW R, OverTop(R) PROVE AskedRow(n, Top, use, column_map, R)
  BY <1>3, <1>6, AskedFits DEF OverTop
<1>7. CASE Skipped(items, n, root, extra)
  <2>1. Build(1, {n.bindings[items[i].at] : i \in DOMAIN items},
              [n EXCEPT !.bindings = Bound(index, Len(items)), !.stale = {}, !.kind = IF root THEN "Root" ELSE @],
              Registered(Bound(index, Len(items)), [i \in DOMAIN items |-> column_map[n.bindings[items[i].at]]]), {})
    BY <1>7, Zenon DEF Project
  <2>2. PICK k, top, needed, kind, cs, node, map :
          /\ k = Len(top.bindings) /\ top = n /\ needed = {top.bindings[items[i].at] : i \in DOMAIN items}
          /\ kind = (IF root THEN "Root" ELSE n.kind)
          /\ node = [top EXCEPT !.bindings = Bound(index, Len(items)), !.stale = {}, !.kind = kind]
          /\ cs = [i \in DOMAIN items |-> column_map[top.bindings[items[i].at]]]
          /\ map = Registered(Bound(index, Len(items)), cs)
    OBVIOUS
  <2>3. Build(1, needed, node, map, {})
    BY <2>1, <2>2
  <2>4. Len(items) = Len(top.bindings) /\ \A i \in DOMAIN items : items[i].at = i
    BY <1>7, <2>2 DEF Skipped, InOrder
  <2>5. /\ DOMAIN top = NodeFields /\ Paired(top.bindings, top.means) /\ top.from = Top.from /\ top.delims = Top.delims
    BY <1>5, <2>2
  <2>6. /\ DOMAIN node = NodeFields /\ node.from = Top.from /\ Top.delims \subseteq node.delims
        /\ Renamed(node, top, kind, k)
    BY <2>2, <2>4, <2>5 DEF NodeFields, Renamed
  <2>7. cs = [i \in 1..k |-> column_map[top.bindings[i]]] /\ map = Registered(Bound(index, k), cs)
    BY <1>1, <2>2, <2>4
  <2>8. needed = ToSet(top.bindings)
    <3>1. DOMAIN top.bindings = 1..Len(top.bindings)
      BY <2>5 DEF Paired
    <3>. QED  BY <1>1, <2>2, <2>4, <3>1 DEF ToSet
  <2>9. kind = top.kind \/ kind \notin {"Project", "Join"}
    BY <2>2
  <2>10. k = Len(top.bindings)
    BY <2>2
  <2>11. ASSUME NEW R, OverTop(R) PROVE AskedRow(top, Top, use, column_map, R)
    BY <1>6, <2>2, <2>11
  <2>. HIDE DEF n
  <2>12. ASSUME NEW R, OverTop(R), needed \subseteq DOMAIN column_map, Len(node.cols) <= MaxColumns
         PROVE  UnaryBuilt(node, map, R, {})
    <3>1. /\ RowFits(top.bindings, top.means, top.cols, top.shows, column_map, R)
          /\ ExtraFits(top.kind, top.extra, top.cols, top.shows, column_map, R)
      BY <2>11, <2>12 DEF AskedRow
    <3>2. ToSet(top.bindings) \subseteq DOMAIN column_map /\ Paired(top.bindings, top.means)
      BY <2>5, <2>8, <2>12
    <3>. QED  BY <1>0, <1>4, <2>6, <2>7, <2>9, <2>10, <2>12, <3>1, <3>2, SkippedFits
  <2>. QED  BY <1>2, <1>3, <1>4, <2>3, <2>6, <2>12, UnaryFits
<1>8. CASE ~Skipped(items, n, root, extra)
  <2>. DEFINE means == [i \in DOMAIN items |-> IF items[i].kind = "computed" THEN <<serial, i>> ELSE n.means[items[i].at]]
              shows == [i \in DOMAIN items |-> IF items[i].kind = "computed" THEN <<serial, i>>
                            ELSE Denotes(FindColumnBinding(n.bindings[items[i].at]), n.cols, n.shows)]
              cs == Mint([i \in DOMAIN items |-> ProjectionColumn(items[i], n.bindings[items[i].at], i)])
              told == {x \in extra : Lower(FindColumnBinding(x[1])) \notin {Lower(NamesOf(cs)[i]) : i \in DOMAIN cs}}
              hidden == SetToSeq(told)
              shown(x) == Denotes(FindColumnBinding(x[1]), n.cols, n.shows)
              cols == NamesOf(cs) \o [i \in DOMAIN hidden |-> FindColumnBinding(hidden[i][1])]
              all == shows \o [i \in DOMAIN hidden |-> shown(hidden[i])]
              more == {<<x[1], x[2], shown(x)>> : x \in extra}
              kind == IF root THEN "Root" ELSE "Project"
              compressed == {i \in DOMAIN items : items[i].kind = "compress"}
              needed == Keys(Reachable(Top, use)) \cup {n.bindings[items[i].at] : i \in compressed}
  <2>1. Build(1, needed,
              [Node(kind, <<n>>, Bound(index, Len(items)), means, cols, all) EXCEPT !.extra = more],
              Registered(Bound(index, Len(items)), cs), ReadAll(Reachable(Top, use), n))
    BY <1>8, Zenon DEF Project
  <2>2. Projects(items, n, means, shows, cs) /\ Widened(extra, n, cs, shows, cols, all, more)
    BY Zenon DEF Projects, Widened
  <2>3. \A i \in compressed : n.bindings[items[i].at] \in needed
    OBVIOUS
  <2>4. PICK top, m, s, c, k, a, e, w, ne : /\ top = n /\ m = means /\ s = shows /\ c = cs /\ k = cols /\ a = all /\ e = more
                                        /\ w = kind /\ ne = needed
    OBVIOUS
  <2>. HIDE DEF means, shows, cs, cols, all, more, kind, needed
  <2>5. PICK plain, node, map : /\ plain = Node(w, <<top>>, Bound(index, Len(items)), m, k, a)
                                /\ node = [plain EXCEPT !.extra = e] /\ map = Registered(Bound(index, Len(items)), c)
    OBVIOUS
  <2>6. Build(1, ne, node, map, ReadAll(Reachable(Top, use), top))
    BY <2>1, <2>4, <2>5
  <2>7. Projects(items, top, m, s, c) /\ Widened(extra, top, c, s, k, a, e)
    BY <2>2, <2>4
  <2>8. w # "Project" => extra = {}
    BY <1>2, <2>4 DEF kind
  <2>9. top = Asked(Top, use) /\ \A R : OverTop(R) => AskedRow(top, Top, use, column_map, R)
    BY <1>6, <2>4
  <2>10. /\ DOMAIN top = NodeFields /\ top.bindings = Top.bindings /\ top.means = Top.means
         /\ top.from = Top.from /\ top.delims = Top.delims
    BY <1>5, <2>4
  <2>11. \A i \in DOMAIN items : items[i].kind = "compress" => top.bindings[items[i].at] \in ne
    BY <2>3, <2>4
  <2>. HIDE DEF n
  <2>12. PICK b : b = Bound(index, Len(items))
    OBVIOUS
  <2>13. /\ DOMAIN plain = NodeFields
         /\ plain.kind = w /\ plain.bindings = b /\ plain.means = m /\ plain.cols = k
         /\ plain.shows = a /\ plain.stale = {} /\ plain.from = top.from /\ plain.delims = top.delims
    <3>1. IsUnary(plain, w, top, b, m, k, a)
      BY <2>5, <2>12 DEF IsUnary
    <3>. QED  BY <3>1, UnaryNode
  <2>14. /\ DOMAIN node = NodeFields /\ node.from = Top.from /\ Top.delims \subseteq node.delims
         /\ ProjectNode(node, w, items, m, k, a, e) /\ node.cols = k
    BY <2>5, <2>10, <2>12, <2>13 DEF NodeFields, ProjectNode
  <2>15. Len(items) <= Len(k) \/ ~ \E R : OverTop(R)
    <3>1. SUFFICES ASSUME NEW R, OverTop(R) PROVE Len(items) <= Len(k)
      OBVIOUS
    <3>2. extra = {} \/ \E p : extra = {p}
      BY <1>3, <3>1, ExtrasFew DEF OverTop
    <3>3. PICK requests : requests = [i \in DOMAIN items |-> ProjectionColumn(items[i], top.bindings[items[i].at], i)]
      OBVIOUS
    <3>4. c = Mint(requests) /\ Len(requests) = Len(items)
      BY <1>1, <2>7, <3>3 DEF Projects
    <3>5. PICK S : c \in Seq(S)
      BY <1>1, <3>4, MintTyped
    <3>6. Len(c) = Len(items)
      BY <1>1, <3>4, MintTyped
    <3>7. Len(c) <= Len(k)
      BY <2>7, <3>2, <3>5, WidenedLonger
    <3>. QED  BY <3>6, <3>7
  <2>16. ASSUME NEW R, OverTop(R), ne \subseteq DOMAIN column_map, Len(node.cols) <= MaxColumns
         PROVE  UnaryBuilt(node, map, R, ReadAll(Reachable(Top, use), top))
    <3>1. RowFits(top.bindings, top.means, top.cols, top.shows, column_map, R)
      BY <2>9, <2>16 DEF AskedRow
    <3>2. Len(items) <= MaxColumns
      <4>1. Len(items) <= Len(k) /\ Len(k) <= MaxColumns
        BY <2>14, <2>15, <2>16
      <4>2. PICK x, y : x = Len(items) /\ y = Len(k)
        OBVIOUS
      <4>. QED  BY <1>1, <2>14, <2>15, <2>16, MaxColumnsTyped
    <3>3. ItemsOver(items, top, R)
      BY <1>0, <1>1, <1>3, <2>10, <2>11, <2>16, <3>1, <3>2, ItemsFit
    <3>. QED  BY <1>0, <1>3, <1>4, <2>5, <2>7, <2>8, <2>9, <2>14, <2>16, <3>3, ProjectedFits
  <2>. QED  BY <1>2, <1>3, <1>4, <2>6, <2>14, <2>16, UnaryFits
<1>. QED  BY <1>7, <1>8

\* The k-th element of s, then t, then u.
AmongParts(x, s, t, u, k) ==
    \/ k \in 1..Len(s) /\ x = s[k]
    \/ \E j \in 1..Len(t) : k = Len(s) + j /\ x = t[j]
    \/ \E j \in 1..Len(u) : k = Len(s) + Len(t) + j /\ x = u[j]

\* w is s, then t, then u.
InThree(w, s, t, u, S) == s \in Seq(S) /\ t \in Seq(S) /\ u \in Seq(S) /\ w = s \o t \o u
ThreeOf(w, s, t, u) ==
    /\ Len(w) = Len(s) + Len(t) + Len(u)
    /\ Len(s) \in Nat /\ Len(t) \in Nat /\ Len(u) \in Nat
    /\ \A k \in 1..Len(w) : AmongParts(w[k], s, t, u, k)

LEMMA ThreeParts ==
    ASSUME NEW S, NEW s, NEW t, NEW u, NEW w, InThree(w, s, t, u, S)
    PROVE  w \in Seq(S) /\ ThreeOf(w, s, t, u)
<1>0. s \in Seq(S) /\ t \in Seq(S) /\ u \in Seq(S) /\ w = s \o t \o u
  BY DEF InThree
<1>1. PICK v : v = s \o t
  OBVIOUS
<1>2. v \in Seq(S) /\ PartsOf(v, s, t)
  BY <1>0, <1>1, Parts DEF BothIn
<1>3. w = v \o u
  BY <1>0, <1>1
<1>4. w \in Seq(S) /\ PartsOf(w, v, u)
  BY <1>0, <1>2, <1>3, Parts DEF BothIn
<1>5. PICK a, b, c, d, e : a = Len(s) /\ b = Len(t) /\ c = Len(u) /\ d = Len(v) /\ e = Len(w)
  OBVIOUS
<1>6. /\ a \in Nat /\ b \in Nat /\ c \in Nat /\ d = a + b /\ e = d + c /\ d \in Nat
      /\ \A k \in 1..(a + b) : \/ k \in 1..a /\ v[k] = s[k]
                               \/ k \notin 1..a /\ k - a \in 1..b /\ v[k] = t[k - a]
      /\ \A k \in 1..(d + c) : \/ k \in 1..d /\ w[k] = v[k]
                               \/ k \notin 1..d /\ k - d \in 1..c /\ w[k] = u[k - d]
  BY <1>2, <1>4, <1>5 DEF PartsOf
<1>7. ASSUME NEW k \in 1..e
      PROVE  \/ k \in 1..a /\ w[k] = s[k]
             \/ \E j \in 1..b : k = a + j /\ w[k] = t[j]
             \/ \E j \in 1..c : k = a + b + j /\ w[k] = u[j]
  <2>1. CASE k \in 1..d /\ w[k] = v[k]
    <3>1. k \in 1..(a + b)
      BY <1>6, <2>1
    <3>2. CASE k \in 1..a /\ v[k] = s[k]
      BY <2>1, <3>2
    <3>3. CASE k \notin 1..a /\ k - a \in 1..b /\ v[k] = t[k - a]
      <4>1. PICK j : j = k - a
        OBVIOUS
      <4>2. j \in 1..b /\ k = a + j /\ w[k] = t[j]
        BY <1>6, <2>1, <3>3, <4>1
      <4>. QED  BY <4>2
    <3>. QED  BY <1>6, <3>1, <3>2, <3>3
  <2>2. CASE k - d \in 1..c /\ w[k] = u[k - d]
    <3>1. PICK j : j = k - d
      OBVIOUS
    <3>2. j \in 1..c /\ k = a + b + j /\ w[k] = u[j]
      BY <1>6, <2>2, <3>1
    <3>. QED  BY <3>2
  <2>. QED  BY <1>6, <2>1, <2>2
<1>8. \A k \in 1..Len(w) : AmongParts(w[k], s, t, u, k)
  BY <1>5, <1>7 DEF AmongParts
<1>9. Len(w) = Len(s) + Len(t) + Len(u) /\ Len(s) \in Nat /\ Len(t) \in Nat /\ Len(u) \in Nat
  BY <1>5, <1>6
<1>. QED  BY <1>4, <1>8, <1>9 DEF ThreeOf

\* The bindings of an aggregate: of three table indices.
OfThreeTables(new, p, q, r) == /\ p \in Nat /\ q \in Nat /\ r \in Nat
                               /\ new = Bound(index, p) \o Bound(index + 1, q) \o Bound(index + 2, r)
LEMMA ThreeTables ==
    ASSUME BuilderInv, index' = index + 3, NEW p, NEW q, NEW r, NEW new, OfThreeTables(new, p, q, r)
    PROVE  /\ new \in Seq(Bindings) /\ Len(new) = p + q + r /\ NoTwice(new)
           /\ \A k \in 1..(p + q + r) : new[k][1] \in New
<1>0. index \in Int /\ p \in Nat /\ q \in Nat /\ r \in Nat
  BY DEF BuilderInv, OfThreeTables
<1>1. index \in Int /\ index + 1 \in Int /\ index + 2 \in Int
  BY <1>0
<1>2. PICK b, c, d : b = Bound(index, p) /\ c = Bound(index + 1, q) /\ d = Bound(index + 2, r)
  OBVIOUS
<1>3. /\ b \in Seq(Bindings) /\ Len(b) = p /\ \A i \in 1..p : b[i] = <<index, i>>
      /\ c \in Seq(Bindings) /\ Len(c) = q /\ \A i \in 1..q : c[i] = <<index + 1, i>>
      /\ d \in Seq(Bindings) /\ Len(d) = r /\ \A i \in 1..r : d[i] = <<index + 2, i>>
  BY <1>0, <1>1, <1>2, BoundTyped
<1>4. new = b \o c \o d
  BY <1>2 DEF OfThreeTables
<1>5. new \in Seq(Bindings) /\ Len(new) = p + q + r /\ \A k \in 1..Len(new) : AmongParts(new[k], b, c, d, k)
  <2>1. b \in Seq(Bindings) /\ c \in Seq(Bindings) /\ d \in Seq(Bindings)
    BY <1>3
  <2>2. new \in Seq(Bindings) /\ Len(new) = Len(b) + Len(c) + Len(d) /\ \A k \in 1..Len(new) : AmongParts(new[k], b, c, d, k)
    <3>1. InThree(new, b, c, d, Bindings)
      BY <1>4, <2>1 DEF InThree
    <3>2. new \in Seq(Bindings) /\ ThreeOf(new, b, c, d)
      BY <3>1, ThreeParts
    <3>. QED  BY <3>2 DEF ThreeOf
  <2>. QED  BY <1>3, <2>2
<1>6. ASSUME NEW k \in 1..(p + q + r)
      PROVE  \/ new[k][1] = index /\ new[k][2] = k
             \/ new[k][1] = index + 1 /\ new[k][2] = k - p
             \/ new[k][1] = index + 2 /\ new[k][2] = k - p - q
  <2>0. /\ \A i \in 1..p : b[i][1] = index /\ b[i][2] = i
        /\ \A i \in 1..q : c[i][1] = index + 1 /\ c[i][2] = i
        /\ \A i \in 1..r : d[i][1] = index + 2 /\ d[i][2] = i
    BY <1>3
  <2>1. AmongParts(new[k], b, c, d, k)
    BY <1>5
  <2>2. \/ k \in 1..p /\ new[k] = b[k]
        \/ \E j \in 1..q : k = p + j /\ new[k] = c[j]
        \/ \E j \in 1..r : k = p + q + j /\ new[k] = d[j]
    BY <1>0, <1>3, <2>1 DEF AmongParts
  <2>3. CASE k \in 1..p /\ new[k] = b[k]
    BY <2>0, <2>3
  <2>4. ASSUME NEW j \in 1..q, k = p + j, new[k] = c[j] PROVE new[k][1] = index + 1 /\ new[k][2] = k - p
    <3>1. j = k - p
      BY <1>0, <2>4
    <3>. QED  BY <2>0, <2>4, <3>1
  <2>5. ASSUME NEW j \in 1..r, k = p + q + j, new[k] = d[j] PROVE new[k][1] = index + 2 /\ new[k][2] = k - p - q
    <3>1. j = k - p - q
      BY <1>0, <2>5
    <3>. QED  BY <2>0, <2>5, <3>1
  <2>. QED  BY <2>2, <2>3, <2>4, <2>5
<1>7. NoTwice(new)
  <2>1. SUFFICES ASSUME NEW i \in 1..(p + q + r), NEW k \in 1..(p + q + r), new[i] = new[k] PROVE i = k
    BY <1>5 DEF NoTwice
  <2>2. PICK m \in Int, n \in Int : m = i /\ n = k /\ m \in 1..(p + q + r) /\ n \in 1..(p + q + r)
    OBVIOUS
  <2>4. /\ \/ new[m][1] = index /\ new[m][2] = m
           \/ new[m][1] = index + 1 /\ new[m][2] = m - p
           \/ new[m][1] = index + 2 /\ new[m][2] = m - p - q
        /\ \/ new[n][1] = index /\ new[n][2] = n
           \/ new[n][1] = index + 1 /\ new[n][2] = n - p
           \/ new[n][1] = index + 2 /\ new[n][2] = n - p - q
        /\ new[m][1] = new[n][1] /\ new[m][2] = new[n][2]
    BY <1>6, <2>1, <2>2
  <2>5. m = n \/ m - p = n - p \/ m - p - q = n - p - q
    <3>1. index # index + 1 /\ index # index + 2 /\ index + 1 # index + 2
      BY <1>1
    <3>. QED  BY <2>4, <3>1, Zenon
  <2>6. m = n
    BY <1>0, <2>5
  <2>. QED  BY <2>2, <2>6
<1>8. \A k \in 1..(p + q + r) : new[k][1] \in New
  <2>1. index \in New /\ index + 1 \in New /\ index + 2 \in New
    BY <1>1 DEF New
  <2>. QED  BY <1>6, <2>1
<1>. QED  BY <1>5, <1>7, <1>8

\* Requests of three kinds.
PartFor(s, m) == Len(s) = m /\ m \in Nat /\ DOMAIN s = 1..m /\ \A i \in 1..m : \E ti \in New : RequestFor(s[i], ti)

LEMMA PartsAllIn ==
    ASSUME NEW s, NEW p, PartFor(s, p), NEW t, NEW q, PartFor(t, q), NEW u, NEW r, PartFor(u, r),
           NEW S, s \in Seq(S), t \in Seq(S), u \in Seq(S), NEW w, w = s \o t \o u
    PROVE  AllIn(w, p + q + r, New)
<1>1. Len(w) = p + q + r /\ p + q + r \in Nat /\ \A k \in 1..Len(w) : AmongParts(w[k], s, t, u, k)
  <2>1. Len(w) = Len(s) + Len(t) + Len(u) /\ \A k \in 1..Len(w) : AmongParts(w[k], s, t, u, k)
    <3>1. InThree(w, s, t, u, S)
      BY DEF InThree
    <3>2. ThreeOf(w, s, t, u)
      BY <3>1, ThreeParts
    <3>. QED  BY <3>2 DEF ThreeOf
  <2>2. Len(s) = p /\ Len(t) = q /\ Len(u) = r /\ p \in Nat /\ q \in Nat /\ r \in Nat
    BY DEF PartFor
  <2>. QED  BY <2>1, <2>2
<1>2. ASSUME NEW k \in 1..(p + q + r) PROVE \E ti \in New : RequestFor(w[k], ti)
  <2>1. AmongParts(w[k], s, t, u, k)
    BY <1>1
  <2>. QED  BY <2>1 DEF AmongParts, PartFor
<1>3. ASSUME NEW k \in 1..(p + q + r)
      PROVE  /\ RequestTyped(w[k]) /\ w[k].base.table_index \in New
             /\ \A j \in 1..Len(w[k].candidates) : w[k].candidates[j].table_index \in New
  BY <1>2 DEF RequestFor
<1>. QED  BY <1>1, <1>3 DEF AllIn

\* Groups: columns of a subtree, and expressions.
GroupKeys(groups) == {i \in DOMAIN groups : groups[i] # 0}
Grouped(groups, n, R) ==
    /\ RowFits(n.bindings, n.means, n.cols, n.shows, column_map, R) /\ Paired(n.bindings, n.means)
    /\ Len(groups) \in Nat /\ DOMAIN groups = 1..Len(groups)
    /\ \A i \in GroupKeys(groups) :
        /\ groups[i] \in 1..Len(n.bindings) /\ n.means[groups[i]] # None
        /\ n.bindings[groups[i]] \in DOMAIN column_map
GroupSources(groups, n) == [i \in GroupKeys(groups) |-> n.bindings[groups[i]]]
Latest(groups, n) ==
    {i \in GroupKeys(groups) : \A j \in GroupKeys(groups) : n.bindings[groups[j]] = n.bindings[groups[i]] => j <= i}
\* What the columns of an aggregate mean and show.
Aggregates(groups, n, new, means, shows) ==
    /\ means = [i \in DOMAIN new |-> IF i \in GroupKeys(groups) THEN n.means[groups[i]] ELSE <<serial, i>>]
    /\ shows = [i \in DOMAIN new |-> IF i \in GroupKeys(groups)
                    THEN Denotes(FindColumnBinding(n.bindings[groups[i]]), n.cols, n.shows) ELSE <<serial, i>>]

LEMMA GroupReads ==
    ASSUME NEW R, OverTop(R), NEW n, NEW groups, Grouped(groups, n, R), NEW i \in GroupKeys(groups)
    PROVE  /\ Denotes(FindColumnBinding(n.bindings[groups[i]]), n.cols, n.shows) = n.means[groups[i]]
           /\ n.means[groups[i]] \in Columns /\ n.bindings[groups[i]][1] \in R
           /\ i \in 1..Len(groups)
<1>1. PICK j : j = groups[i]
  OBVIOUS
<1>2. j \in 1..Len(n.bindings) /\ n.means[j] # None /\ n.bindings[j] \in DOMAIN column_map
  BY <1>1 DEF Grouped
<1>3. RowFits(n.bindings, n.means, n.cols, n.shows, column_map, R) /\ MapTyped(column_map) /\ Paired(n.bindings, n.means)
  BY DEF Grouped, OverTop
<1>4. Denotes(FindColumnBinding(n.bindings[j]), n.cols, n.shows) = n.means[j]
  BY <1>2, <1>3, NamedInRow
<1>5. n.means[j] \in Columns
  BY <1>2, <1>3 DEF Paired
<1>6. n.bindings[j][1] \in R
  BY <1>2, <1>3 DEF RowFits
<1>7. i \in 1..Len(groups)
  BY DEF Grouped, GroupKeys
<1>. QED  BY <1>1, <1>4, <1>5, <1>6, <1>7

LEMMA AggregateRow ==
    ASSUME serial \in Int, NEW R, OverTop(R), NEW n, NEW groups, Grouped(groups, n, R),
           NEW new \in Seq(Bindings), NoTwice(new), \A i \in 1..Len(new) : new[i][1] \in New,
           NEW means, NEW shows, Aggregates(groups, n, new, means, shows),
           NEW cs \in Seq(ColStructs), KeysApart(cs), Len(cs) = Len(new), \A i \in 1..Len(cs) : cs[i].table_index \in New
    PROVE  NewRow(new, means, cs, shows, New) /\ means \in Seq(Columns)
<1>1. PICK m \in Nat : m = Len(new) /\ DOMAIN new = 1..m
  OBVIOUS
<1>2. ASSUME NEW i \in 1..m PROVE means[i] \in Columns /\ shows[i] \in Columns /\ shows[i] = means[i]
  <2>1. <<serial, i>> \in Columns
    BY DEF Columns
  <2>2. CASE i \in GroupKeys(groups)
    BY <1>1, <2>2, GroupReads DEF Aggregates
  <2>3. CASE i \notin GroupKeys(groups)
    BY <1>1, <2>1, <2>3 DEF Aggregates
  <2>. QED  BY <2>2, <2>3
<1>3. means \in [1..m -> Columns] /\ shows \in [1..m -> Columns]
  <2>1. means = [i \in 1..m |-> means[i]] /\ shows = [i \in 1..m |-> shows[i]]
    BY <1>1 DEF Aggregates
  <2>. QED  BY <1>2, <2>1
<1>4. means \in Seq(Columns) /\ Len(means) = m /\ shows \in Seq(Columns) /\ Len(shows) = m
  BY <1>3, FunctionIsSequence
<1>5. Holds(means, shows)
  BY <1>2, <1>4 DEF Holds
<1>. QED  BY <1>1, <1>4, <1>5 DEF NewRow

\* Which names the columns that were grouped have from now on.
LEMMA RemappedFacts ==
    ASSUME NEW R, OverTop(R), NEW n, NEW groups, Grouped(groups, n, R),
           NEW cs \in Seq(ColStructs), Len(groups) <= Len(cs), NEW m, m = Remapped(GroupSources(groups, n), cs)
    PROVE  /\ \A b \in DOMAIN m : m[b] \in ColStructs /\ b[1] \in R /\ b \in DOMAIN column_map
           /\ \A i \in Latest(groups, n) : n.bindings[groups[i]] \in DOMAIN m /\ m[n.bindings[groups[i]]] = cs[i]
<1>. DEFINE keys == GroupKeys(groups)
            source(i) == n.bindings[groups[i]]
            sources == GroupSources(groups, n)
<1>1. keys \subseteq 1..Len(groups) /\ Len(groups) \in Nat
  BY DEF Grouped, GroupKeys
<1>2. DOMAIN sources = keys /\ \A i \in keys : sources[i] = source(i)
  BY DEF GroupSources
<1>3. DOMAIN m = {source(i) : i \in keys}
  BY <1>2 DEF Remapped
<1>4. \A b \in DOMAIN m : m[b] = cs[CHOOSE i \in keys : sources[i] = b /\ \A j \in keys : sources[j] = b => j <= i]
  BY <1>2 DEF Remapped
<1>5. ASSUME NEW b \in DOMAIN m PROVE \E i \in keys : sources[i] = b /\ \A j \in keys : sources[j] = b => j <= i
  <2>. DEFINE T == {i \in keys : sources[i] = b}
  <2>1. T \subseteq 1..Len(groups) /\ T # {}
    BY <1>1, <1>2, <1>3
  <2>2. PICK i \in T : \A j \in T : j <= i
    <3>. HIDE DEF T
    <3>. QED  BY <1>1, <2>1, LastOne
  <2>. QED  BY <2>2
<1>6. ASSUME NEW b \in DOMAIN m
      PROVE  \E i \in keys : m[b] = cs[i] /\ sources[i] = b /\ \A j \in keys : sources[j] = b => j <= i
  <2>1. PICK i : i = CHOOSE k \in keys : sources[k] = b /\ \A j \in keys : sources[j] = b => j <= k
    OBVIOUS
  <2>2. i \in keys /\ sources[i] = b /\ \A j \in keys : sources[j] = b => j <= i
    BY <1>5, <2>1
  <2>3. m[b] = cs[i]
    BY <1>4, <2>1
  <2>. QED  BY <2>2, <2>3
<1>7. ASSUME NEW b \in DOMAIN m PROVE m[b] \in ColStructs /\ b[1] \in R /\ b \in DOMAIN column_map
  <2>1. PICK i \in keys : m[b] = cs[i] /\ source(i) = b
    BY <1>2, <1>6
  <2>2. i \in 1..Len(groups)
    BY <1>1
  <2>3. cs[i] \in ColStructs
    <3>1. PICK k, l : k = Len(groups) /\ l = Len(cs)
      OBVIOUS
    <3>2. k \in Nat /\ l \in Nat /\ k <= l /\ i \in 1..k /\ \A j \in 1..l : cs[j] \in ColStructs
      BY <1>1, <2>2, <3>1
    <3>. QED  BY <3>2
  <2>4. source(i)[1] \in R /\ source(i) \in DOMAIN column_map
    BY GroupReads DEF Grouped
  <2>. QED  BY <2>1, <2>3, <2>4
<1>8. ASSUME NEW i \in Latest(groups, n) PROVE source(i) \in DOMAIN m /\ m[source(i)] = cs[i]
  <2>1. i \in keys /\ \A j \in keys : source(j) = source(i) => j <= i
    BY DEF Latest
  <2>2. source(i) \in DOMAIN m
    BY <1>3, <2>1
  <2>3. PICK k \in keys : m[source(i)] = cs[k] /\ sources[k] = source(i) /\ \A j \in keys : sources[j] = source(i) => j <= k
    BY <1>6, <2>2
  <2>4. k <= i /\ i <= k
    BY <1>2, <2>1, <2>3
  <2>5. k \in Int /\ i \in Int
    BY <1>1, <2>1
  <2>. QED  BY <2>2, <2>3, <2>4, <2>5
<1>. QED  BY <1>7, <1>8

AggregateNode(node, groups, n, new, means, cs, shows) ==
    /\ node.bindings = new /\ node.means = means /\ node.cols = NamesOf(cs) /\ node.shows = shows /\ node.extra = {}
    /\ node.stale = {<<n.bindings[groups[i]], n.means[groups[i]], new[i]>> : i \in Latest(groups, n)}

LEMMA AggregatedFits ==
    ASSUME BuilderInv, Later, NEW R, OverTop(R), NEW n, NEW groups, Grouped(groups, n, R),
           NEW new \in Seq(Bindings), NEW means, NEW shows, Aggregates(groups, n, new, means, shows),
           NEW cs, NewRow(new, means, cs, shows, New), Len(groups) <= Len(new), Len(new) <= MaxColumns, Len(cs) = Len(new),
           NEW node, AggregateNode(node, groups, n, new, means, cs, shows), Len(node.cols) <= MaxColumns,
           NEW map, map = Updated(Registered(new, cs), Remapped(GroupSources(groups, n), cs)),
           NEW seen, RightReads(seen)
    PROVE  UnaryBuilt(node, map, R, seen)
<1>1. MapTyped(column_map) /\ (\A t \in R : t \in Int /\ t < index) /\ index \in Int
  BY DEF OverTop, BuilderInv
<1>2. R \cap New = {}
  BY <1>1, NewTyped
<1>3. PICK base : base = Registered(new, cs)
  OBVIOUS
<1>4. /\ RowFits(new, means, NamesOf(cs), shows, base, New)
      /\ Agrees(column_map, base, New) /\ MapTyped(base) /\ Grown(base)
      /\ \A i \in 1..Len(new) : new[i] \in DOMAIN base /\ base[new[i]] = cs[i]
  BY <1>1, <1>3, NewRowFits
<1>5. cs \in Seq(ColStructs)
  BY DEF NewRow
<1>6. PICK m : m = Remapped(GroupSources(groups, n), cs)
  OBVIOUS
<1>7. /\ \A b \in DOMAIN m : m[b] \in ColStructs /\ b[1] \in R /\ b \in DOMAIN column_map
      /\ \A i \in Latest(groups, n) : n.bindings[groups[i]] \in DOMAIN m /\ m[n.bindings[groups[i]]] = cs[i]
  BY <1>5, <1>6, RemappedFacts
<1>8. /\ DOMAIN map = DOMAIN base \cup DOMAIN m
      /\ \A b \in DOMAIN map : map[b] = IF b \in DOMAIN m THEN m[b] ELSE base[b]
  BY <1>3, <1>6 DEF Updated
<1>9. Agrees(base, map, R)
  BY <1>7, <1>8 DEF Agrees
<1>10. Agrees(column_map, map, R \cup New)
  BY <1>4, <1>9 DEF Agrees
<1>11. MapTyped(map)
  BY <1>4, <1>7, <1>8 DEF MapTyped
<1>12. Grown(map)
  BY <1>4, <1>7, <1>8 DEF Grown
<1>13. PICK cols : cols = NamesOf(cs)
  OBVIOUS
<1>14. Len(new) \in Nat
  OBVIOUS
<1>15. RowFits(new, means, cols, shows, map, R \cup New)
  <2>1. PICK T : T = R \cup New /\ New \subseteq T /\ New \cap R = {}
    BY <1>2
  <2>2. RowFits(new, means, cols, shows, base, New)
    BY <1>4, <1>13
  <2>3. RowFits(new, means, cols, shows, map, T)
    BY <1>9, <1>14, <2>1, <2>2, RowFitsAgree
  <2>. QED  BY <2>1, <2>3
<1>16. StaleFits(node.stale, new, cols, shows, map, R \cup New)
  <2>1. ASSUME NEW x \in node.stale
        PROVE  /\ x[1] \in DOMAIN map /\ x[1][1] \in R \cup New /\ x[2] # None
               /\ \E i \in 1..Len(new) : new[i] = x[3]
               /\ \A i \in 1..Len(new) : new[i] = x[3] => Lower(NameIn(map, x[1])) = Lower(cols[i]) /\ shows[i] = x[2]
    <3>1. PICK i \in Latest(groups, n) : x = <<n.bindings[groups[i]], n.means[groups[i]], new[i]>>
      BY DEF AggregateNode
    <3>2. i \in GroupKeys(groups)
      BY DEF Latest
    <3>3. /\ Denotes(FindColumnBinding(n.bindings[groups[i]]), n.cols, n.shows) = n.means[groups[i]]
          /\ n.bindings[groups[i]][1] \in R /\ i \in 1..Len(groups)
      BY <3>2, GroupReads
    <3>4. n.means[groups[i]] # None
      BY <3>2 DEF Grouped
    <3>5. i \in 1..Len(new)
      <4>1. PICK k, l : k = Len(groups) /\ l = Len(new)
        OBVIOUS
      <4>2. k \in Nat /\ l \in Nat /\ k <= l /\ i \in 1..k
        BY <1>14, <3>3, <4>1 DEF Grouped
      <4>. QED  BY <4>1, <4>2
    <3>6. PICK b : b = n.bindings[groups[i]]
      OBVIOUS
    <3>7. x[1] = b /\ x[2] = n.means[groups[i]] /\ x[3] = new[i]
      BY <3>1, <3>6
    <3>8. b \in DOMAIN map /\ map[b] = cs[i]
      BY <1>7, <1>8, <3>6
    <3>9. cols[i] = ToUniqueColumnName(cs[i]) /\ NameIn(map, b) = ToUniqueColumnName(cs[i])
      <4>1. i \in 1..Len(cs)
        BY <3>5
      <4>. QED  BY <1>5, <1>13, <3>8, <4>1, NamesOfTyped DEF NameIn
    <3>10. shows[i] = n.means[groups[i]]
      BY <3>2, <3>3, <3>5 DEF Aggregates
    <3>11. \A j \in 1..Len(new) : new[j] = new[i] => j = i
      BY <3>5 DEF NewRow, NoTwice
    <3>. QED  BY <3>3, <3>4, <3>5, <3>6, <3>7, <3>8, <3>9, <3>10, <3>11
  <2>. QED  BY <2>1 DEF StaleFits
<1>17. Fits(node, map, R \cup New)
  BY <1>13, <1>15, <1>16 DEF Fits, ExtraFits, AggregateNode
<1>. QED  BY <1>10, <1>11, <1>12, <1>17 DEF UnaryBuilt

\* A statement that is refused for another reason: nothing is built.
LEMMA RefusedFits ==
    ASSUME FitInv, BuilderInv', Later, menu' = menu, work' = work, column_map' = column_map, reads' = reads, Named
    PROVE  FitInv'
<1>1. CASE ~ColumnsOfItsOwn
  BY <1>1 DEF FitInv, ColumnsOfItsOwn
<1>2. CASE ColumnsOfItsOwn
  <2>1. BuilderInv /\ index \in Int /\ index' \in Int /\ index <= index'
    BY DEF FitInv, BuilderInv, Later
  <2>2. RightReads(reads)
    BY <1>2 DEF FitInv, Faithful
  <2>3. PICK A : Truth(A)
    BY <1>2 DEF FitInv, Faithful
  <2>4. Sound(work, A, index, column_map, delim_get_source_col_names, materialized_cte_body_column_names)
    BY <2>3 DEF Truth
  <2>5. Sound(work, A, index', column_map, delim_get_source_col_names, materialized_cte_body_column_names)
    BY <2>1, <2>4, SoundLater
  <2>6. Faithful'
    BY <2>2, <2>5 DEF Faithful, Truth, Named
  <2>7. "Reuse" \notin menu.kinds => FreshIn(work, index', column_map)
    <3>1. "Reuse" \notin menu.kinds => FreshIn(work, index, column_map)
      BY <1>2 DEF FitInv
    <3>. QED  BY <2>1, <3>1 DEF FreshIn
  <2>. QED  BY <2>6, <2>7 DEF FitInv
<1>. QED  BY <1>1, <1>2

GroupRequest(groups, n, i) ==
    IF i \in GroupKeys(groups)
    THEN MakeDedupedColumn(index, column_map[n.bindings[groups[i]]].column_name, column_map[n.bindings[groups[i]]].alias, i - 1)
    ELSE MakeDedupedColumn(index, <<"expr">>, <<"grp", Digit(i - 1)>>, i - 1)
Argument(n) ==
    IF n.bindings # << >> /\ n.means[1] # None THEN <<"sum">> \o StripTablePrefix(FindColumnBinding(n.bindings[1]))
    ELSE <<"count">>
AggRequest(aggs, n, i) == MakeDedupedColumn(index + 1, IF aggs[i] = << >> THEN Argument(n) ELSE aggs[i], << >>, i - 1)
GroupingRequest(i) == MakeDedupedColumn(index + 2, <<"expr">>, <<"grouping", Digit(i - 1)>>, i - 1)

LEMMA ArgumentTyped ==
    ASSUME MapTyped(column_map), NEW n, NEW D, Covered(n, D), D = DOMAIN column_map
    PROVE  Argument(n) \in Words
<1>1. CASE n.bindings # << >> /\ n.means[1] # None
  <2>1. PICK b : b = n.bindings[1]
    OBVIOUS
  <2>2. b \in DOMAIN column_map
    <3>1. n.bindings \in Seq(Bindings) /\ Len(n.means) = Len(n.bindings)
      BY DEF Covered
    <3>2. 1 \in 1..Len(n.means)
      BY <1>1, <3>1
    <3>. QED  BY <1>1, <2>1, <3>2 DEF Covered
  <2>3. FindColumnBinding(b) \in Names
    BY <2>2, BaseTyped DEF MapTyped, FindColumnBinding
  <2>4. PICK w : w = StripTablePrefix(FindColumnBinding(b))
    OBVIOUS
  <2>5. w \in Seq(Characters)
    BY <2>3, <2>4, NameTyped DEF StripTablePrefix, Words
  <2>6. "sum" \in Characters
    BY NamesAssumption
  <2>7. <<"sum">> \o w \in Seq(Characters)
    BY <2>5, <2>6
  <2>8. Argument(n) = <<"sum">> \o w
    BY <1>1, <2>1, <2>4 DEF Argument
  <2>. QED  BY <2>7, <2>8 DEF Words
<1>2. CASE ~(n.bindings # << >> /\ n.means[1] # None)
  BY <1>2, LiteralWords DEF Argument
<1>. QED  BY <1>1, <1>2

LEMMA GroupRequestFor ==
    ASSUME BuilderInv, NEW R, OverTop(R), NEW n, NEW groups, Grouped(groups, n, R), NEW i \in 1..MaxColumns
    PROVE  RequestFor(GroupRequest(groups, n, i), index)
<1>1. i - 1 \in 0..MaxColumns /\ i - 1 \in 0..(2 * MaxColumns) /\ index \in Int
  BY MaxColumnsTyped DEF BuilderInv
<1>2. CASE i \in GroupKeys(groups)
  <2>1. PICK c : c = column_map[n.bindings[groups[i]]]
    OBVIOUS
  <2>2. c \in ColStructs
    BY <1>2, <2>1 DEF Grouped, OverTop, MapTyped
  <2>3. PICK w, a : w = c.column_name /\ a = c.alias
    OBVIOUS
  <2>4. w \in Words /\ a \in Words
    BY <2>2, <2>3 DEF ColStructs
  <2>5. GroupRequest(groups, n, i) = MakeDedupedColumn(index, w, a, i - 1)
    BY <1>2, <2>1, <2>3 DEF GroupRequest
  <2>. QED  BY <1>1, <2>4, <2>5, DedupedFor
<1>3. CASE i \notin GroupKeys(groups)
  <2>1. PICK w, a : w = <<"expr">> /\ a = <<"grp", Digit(i - 1)>>
    OBVIOUS
  <2>2. w \in Words /\ a \in Words
    BY <1>1, <2>1, LiteralWords
  <2>3. GroupRequest(groups, n, i) = MakeDedupedColumn(index, w, a, i - 1)
    BY <1>3, <2>1 DEF GroupRequest
  <2>. QED  BY <1>1, <2>2, <2>3, DedupedFor
<1>. QED  BY <1>2, <1>3

LEMMA OtherRequestsFor ==
    ASSUME BuilderInv, NEW n, Argument(n) \in Words, NEW aggs, NEW i \in 1..MaxColumns
    PROVE  /\ aggs[i] \in Words => RequestFor(AggRequest(aggs, n, i), index + 1)
           /\ RequestFor(GroupingRequest(i), index + 2)
<1>0. index \in Int
  BY DEF BuilderInv
<1>1. i - 1 \in 0..MaxColumns /\ i - 1 \in 0..(2 * MaxColumns) /\ index + 1 \in Int /\ index + 2 \in Int
  BY <1>0, MaxColumnsTyped
<1>2. ASSUME aggs[i] \in Words PROVE RequestFor(AggRequest(aggs, n, i), index + 1)
  <2>1. PICK w, e, ti : w = (IF aggs[i] = << >> THEN Argument(n) ELSE aggs[i]) /\ e = << >> /\ ti = index + 1
    OBVIOUS
  <2>2. w \in Words /\ e \in Words /\ ti \in Int
    BY <1>1, <1>2, <2>1, LiteralWords
  <2>3. AggRequest(aggs, n, i) = MakeDedupedColumn(ti, w, e, i - 1)
    BY <2>1 DEF AggRequest
  <2>. QED  BY <1>1, <2>1, <2>2, <2>3, DedupedFor
<1>3. RequestFor(GroupingRequest(i), index + 2)
  <2>1. PICK w, a, ti : w = <<"expr">> /\ a = <<"grouping", Digit(i - 1)>> /\ ti = index + 2
    OBVIOUS
  <2>2. w \in Words /\ a \in Words /\ ti \in Int
    BY <1>1, <2>1, LiteralWords
  <2>3. GroupingRequest(i) = MakeDedupedColumn(ti, w, a, i - 1)
    BY <2>1 DEF GroupingRequest
  <2>. QED  BY <1>1, <2>1, <2>2, <2>3, DedupedFor
<1>. QED  BY <1>2, <1>3

\* A function from the first numbers is a sequence.
LEMMA RequestsPart ==
    ASSUME NEW m \in Nat, m <= MaxColumns, NEW s, DOMAIN s = 1..m, s = [i \in 1..m |-> s[i]],
           \A i \in 1..m : \E ti \in New : RequestFor(s[i], ti)
    PROVE  PartFor(s, m)
<1>. DEFINE S == {s[i] : i \in 1..m}
<1>1. s \in [1..m -> S]
  OBVIOUS
<1>2. Len(s) = m
  <2>. HIDE DEF S
  <2>. QED  BY <1>1, FunctionIsSequence
<1>. QED  BY <1>2 DEF PartFor

\* What an aggregate asks for: a name for each group, each aggregate and each GROUPING.
AggregateRequests(w, groups, aggs, r, n) ==
    w = [i \in DOMAIN groups |-> GroupRequest(groups, n, i)] \o [i \in DOMAIN aggs |-> AggRequest(aggs, n, i)]
            \o [i \in 1..r |-> GroupingRequest(i)]
\* p, q and r of them.
Counts(groups, aggs, p, q, r) ==
    /\ p \in Nat /\ q \in Nat /\ r \in Nat
    /\ DOMAIN groups = 1..p /\ DOMAIN aggs = 1..q

LEMMA RequestsLength ==
    ASSUME NEW groups, NEW aggs, NEW p, NEW q, NEW r, Counts(groups, aggs, p, q, r), NEW n,
           NEW w, AggregateRequests(w, groups, aggs, r, n)
    PROVE  Len(w) = p + q + r /\ p + q + r \in Nat
<1>. DEFINE s == [i \in 1..p |-> GroupRequest(groups, n, i)]
            t == [i \in 1..q |-> AggRequest(aggs, n, i)]
            u == [i \in 1..r |-> GroupingRequest(i)]
            S == {s[i] : i \in 1..p} \cup {t[i] : i \in 1..q} \cup {u[i] : i \in 1..r}
<1>1. w = s \o t \o u /\ p \in Nat /\ q \in Nat /\ r \in Nat
  BY DEF AggregateRequests, Counts
<1>2. s \in [1..p -> S] /\ t \in [1..q -> S] /\ u \in [1..r -> S]
  OBVIOUS
<1>. HIDE DEF s, t, u, S
<1>3. s \in Seq(S) /\ Len(s) = p /\ t \in Seq(S) /\ Len(t) = q /\ u \in Seq(S) /\ Len(u) = r
  BY <1>1, <1>2, FunctionIsSequence
<1>4. InThree(w, s, t, u, S)
  BY <1>1, <1>3 DEF InThree
<1>5. ThreeOf(w, s, t, u)
  BY <1>4, ThreeParts
<1>. QED  BY <1>1, <1>3, <1>5 DEF ThreeOf

LEMMA AggregateMinted ==
    ASSUME BuilderInv, index' = index + 3, NEW R, OverTop(R), NEW n, NEW groups, Grouped(groups, n, R),
           Argument(n) \in Words, NEW aggs, NEW p, NEW q, NEW r, Counts(groups, aggs, p, q, r),
           \A i \in 1..q : aggs[i] \in Words, p + q + r <= MaxColumns,
           NEW w, AggregateRequests(w, groups, aggs, r, n), NEW cs, cs = Mint(w)
    PROVE  /\ cs \in Seq(ColStructs) /\ Len(cs) = p + q + r /\ KeysApart(cs)
           /\ \A i \in 1..Len(cs) : cs[i].table_index \in New
<1>. DEFINE s == [i \in 1..p |-> GroupRequest(groups, n, i)]
            t == [i \in 1..q |-> AggRequest(aggs, n, i)]
            u == [i \in 1..r |-> GroupingRequest(i)]
            S == {s[i] : i \in 1..p} \cup {t[i] : i \in 1..q} \cup {u[i] : i \in 1..r}
<1>1. w = s \o t \o u /\ p \in Nat /\ q \in Nat /\ r \in Nat
  BY DEF AggregateRequests, Counts
<1>2. s \in [1..p -> S] /\ t \in [1..q -> S] /\ u \in [1..r -> S]
  OBVIOUS
<1>3. MaxColumns \in Nat /\ p <= MaxColumns /\ q <= MaxColumns /\ r <= MaxColumns
      /\ (\A i \in 1..p : i \in 1..MaxColumns) /\ (\A i \in 1..q : i \in 1..MaxColumns) /\ (\A i \in 1..r : i \in 1..MaxColumns)
  BY <1>1, MaxColumnsTyped
<1>4. index \in New /\ index + 1 \in New /\ index + 2 \in New
  <2>1. index \in Int
    BY DEF BuilderInv
  <2>. QED  BY <2>1 DEF New
<1>5. \A i \in 1..p : \E ti \in New : RequestFor(s[i], ti)
  BY <1>3, <1>4, GroupRequestFor
<1>6. \A i \in 1..q : \E ti \in New : RequestFor(t[i], ti)
  BY <1>3, <1>4, OtherRequestsFor
<1>7. \A i \in 1..r : \E ti \in New : RequestFor(u[i], ti)
  BY <1>3, <1>4, OtherRequestsFor
<1>8. DOMAIN s = 1..p /\ DOMAIN t = 1..q /\ DOMAIN u = 1..r
      /\ s = [i \in 1..p |-> s[i]] /\ t = [i \in 1..q |-> t[i]] /\ u = [i \in 1..r |-> u[i]]
  OBVIOUS
<1>. HIDE DEF s, t, u, S
<1>9. s \in Seq(S) /\ t \in Seq(S) /\ u \in Seq(S)
  BY <1>1, <1>2, FunctionIsSequence
<1>10. PartFor(s, p) /\ PartFor(t, q) /\ PartFor(u, r)
  BY <1>1, <1>3, <1>5, <1>6, <1>7, <1>8, RequestsPart
<1>11. AllIn(w, p + q + r, New)
  BY <1>1, <1>9, <1>10, PartsAllIn
<1>12. PICK m : m = p + q + r
  OBVIOUS
<1>13. /\ cs \in Seq(ColStructs) /\ Len(cs) = m /\ KeysApart(cs)
       /\ \A i \in 1..Len(cs) : cs[i].table_index \in New
  BY <1>11, <1>12, MintIn
<1>. QED  BY <1>12, <1>13

LEMMA AggregateFits ==
    ASSUME FitInv, BuilderInv', NEW use \in Uses(Top), NEW groups \in Strings(Positions(Top) \cup {0}, 0, menu.width),
           NEW aggs \in Strings(Aliases, 0, 1), NEW groupings \in 0..1, NEW many \in BOOLEAN,
           Aggregate(groups, aggs, groupings, many, use)
    PROVE  FitInv'
<1>0. BuilderInv /\ index \in Int /\ serial \in Int
  BY DEF FitInv, BuilderInv
<1>1. groups \in Seq(Positions(Top) \cup {0}) /\ Len(groups) \in Nat /\ DOMAIN groups = 1..Len(groups)
  <2>1. menu.width \in Nat
    BY <1>0, MenusAssumption DEF BuilderInv
  <2>. QED  BY <2>1, StringsTyped
<1>2. aggs \in Seq(Words) /\ Len(aggs) \in Nat /\ DOMAIN aggs = 1..Len(aggs) /\ groupings \in Nat
  <2>1. Aliases \subseteq Words
    BY <1>0, AliasesTyped
  <2>2. aggs \in Seq(Aliases) /\ Len(aggs) \in Nat /\ DOMAIN aggs = 1..Len(aggs)
    BY StringsTyped
  <2>. QED  BY <2>1, <2>2
<1>3. Asks("Aggregate", 3, use) /\ Named
  BY Zenon DEF Aggregate
<1>4. Covered(Top, DOMAIN column_map) /\ Finished(1)
  BY <1>0, <1>3, AsksFacts
<1>5. index' = index + 3 /\ Later
  BY <1>0, <1>3 DEF Asks, Starts, Later
<1>. DEFINE n == Asked(Top, use)
            refs == Reachable(Top, use)
            keys == {i \in DOMAIN groups : groups[i] # 0}
            source(i) == n.bindings[groups[i]]
            group(i) ==
                IF i \in keys THEN MakeDedupedColumn(index, column_map[source(i)].column_name, column_map[source(i)].alias, i - 1)
                ELSE MakeDedupedColumn(index, <<"expr">>, <<"grp", Digit(i - 1)>>, i - 1)
            argument == IF n.bindings # << >> /\ n.means[1] # None THEN <<"sum">> \o StripTablePrefix(FindColumnBinding(n.bindings[1]))
                        ELSE <<"count">>
            agg(i) == MakeDedupedColumn(index + 1, IF aggs[i] = << >> THEN argument ELSE aggs[i], << >>, i - 1)
            new == Bound(index, Len(groups)) \o Bound(index + 1, Len(aggs)) \o Bound(index + 2, groupings)
            cs == Mint([i \in DOMAIN groups |-> group(i)] \o [i \in DOMAIN aggs |-> agg(i)] \o
                       [i \in 1..groupings |-> MakeDedupedColumn(index + 2, <<"expr">>, <<"grouping", Digit(i - 1)>>, i - 1)])
            mean(i) == IF i \in keys THEN n.means[groups[i]] ELSE <<serial, i>>
            show(i) == IF i \in keys THEN Denotes(FindColumnBinding(source(i)), n.cols, n.shows) ELSE <<serial, i>>
            sources == [i \in keys |-> source(i)]
            latest == {i \in keys : \A j \in keys : source(j) = source(i) => j <= i}
            node == Node("Aggregate", <<n>>, new, [i \in DOMAIN new |-> mean(i)], NamesOf(cs), [i \in DOMAIN new |-> show(i)])
<1>6. \/ UNCHANGED <<menu, work, column_map, reads>>
      \/ Build(1, Keys(refs),
               [node EXCEPT !.stale = {<<source(i), n.means[groups[i]], new[i]>> : i \in latest}],
               Updated(Registered(new, cs), Remapped(sources, cs)), ReadAll(refs, n))
  BY Zenon DEF Aggregate
<1>7. CASE UNCHANGED <<menu, work, column_map, reads>>
  <2>1. menu' = menu /\ work' = work /\ column_map' = column_map /\ reads' = reads
    BY <1>7
  <2>. QED  BY <1>3, <1>5, <2>1, RefusedFits
<1>8. CASE Build(1, Keys(refs),
               [node EXCEPT !.stale = {<<source(i), n.means[groups[i]], new[i]>> : i \in latest}],
               Updated(Registered(new, cs), Remapped(sources, cs)), ReadAll(refs, n))
  <2>1. PICK top : top = n
    OBVIOUS
  <2>2. /\ DOMAIN top = NodeFields /\ top.bindings = Top.bindings /\ top.means = Top.means
        /\ top.from = Top.from /\ top.delims = Top.delims
        /\ Paired(top.bindings, top.means)
    BY <1>4, <2>1, AskedParts
  <2>3. PICK requests : AggregateRequests(requests, groups, aggs, groupings, top) /\ cs = Mint(requests)
    <3>1. \A i : group(i) = GroupRequest(groups, top, i)
      BY <2>1 DEF GroupRequest, GroupKeys
    <3>2. argument = Argument(top)
      BY <2>1 DEF Argument
    <3>. HIDE DEF argument
    <3>3. \A i : agg(i) = AggRequest(aggs, top, i)
      BY <3>2 DEF AggRequest
    <3>. HIDE DEF group, agg
    <3>4. /\ [i \in DOMAIN groups |-> group(i)] = [i \in DOMAIN groups |-> GroupRequest(groups, top, i)]
          /\ [i \in DOMAIN aggs |-> agg(i)] = [i \in DOMAIN aggs |-> AggRequest(aggs, top, i)]
      BY <3>1, <3>3
    <3>5. [i \in 1..groupings |-> MakeDedupedColumn(index + 2, <<"expr">>, <<"grouping", Digit(i - 1)>>, i - 1)]
            = [i \in 1..groupings |-> GroupingRequest(i)]
      BY DEF GroupingRequest
    <3>. QED  BY <3>4, <3>5, Zenon DEF AggregateRequests
  <2>4. PICK b, m, s, c : b = new /\ m = [i \in DOMAIN new |-> mean(i)] /\ s = [i \in DOMAIN new |-> show(i)] /\ c = cs
    OBVIOUS
  <2>5. Aggregates(groups, top, b, m, s)
    BY <2>1, <2>4, Zenon DEF Aggregates, GroupKeys
  <2>6. PICK plain, last, map :
            /\ plain = Node("Aggregate", <<top>>, b, m, NamesOf(c), s)
            /\ last = [plain EXCEPT !.stale = {<<top.bindings[groups[i]], top.means[groups[i]], b[i]>> : i \in Latest(groups, top)}]
            /\ map = Updated(Registered(b, c), Remapped(GroupSources(groups, top), c))
    OBVIOUS
  <2>7. latest = Latest(groups, top) /\ sources = GroupSources(groups, top)
    BY <2>1 DEF Latest, GroupKeys, GroupSources
  <2>8. Build(1, Keys(refs), last, map, ReadAll(refs, top))
    <3>. HIDE DEF new, cs, latest, sources, refs, n
    <3>1. /\ [i \in DOMAIN new |-> mean(i)] = m /\ [i \in DOMAIN new |-> show(i)] = s
          /\ new = b /\ cs = c /\ n = top
      BY <2>1, <2>4
    <3>2. node = plain
      BY <2>6, <3>1, Zenon
    <3>3. {<<source(i), n.means[groups[i]], new[i]>> : i \in latest}
            = {<<top.bindings[groups[i]], top.means[groups[i]], b[i]>> : i \in Latest(groups, top)}
      BY <2>7, <3>1
    <3>. HIDE DEF node
    <3>4. [node EXCEPT !.stale = {<<source(i), n.means[groups[i]], new[i]>> : i \in latest}] = last
      BY <2>6, <3>2, <3>3
    <3>5. Updated(Registered(new, cs), Remapped(sources, cs)) = map
      BY <2>6, <2>7, <3>1
    <3>. QED  BY <1>8, <3>1, <3>4, <3>5
  <2>9. top = Asked(Top, use) /\ c = Mint(requests)
    BY <2>1, <2>3, <2>4
  <2>10. PICK p, q : p = Len(groups) /\ q = Len(aggs)
    OBVIOUS
  <2>11. Counts(groups, aggs, p, q, groupings)
    BY <1>1, <1>2, <2>10 DEF Counts
  <2>12. b = Bound(index, p) \o Bound(index + 1, q) \o Bound(index + 2, groupings)
    BY <2>4, <2>10
  <2>. HIDE DEF n, refs, keys, source, group, argument, agg, new, cs, mean, show, sources, latest, node
  <2>13. /\ DOMAIN plain = NodeFields
         /\ plain.kind = "Aggregate" /\ plain.bindings = b /\ plain.means = m /\ plain.cols = NamesOf(c)
         /\ plain.shows = s /\ plain.extra = {} /\ plain.from = top.from /\ plain.delims = top.delims
    <3>1. IsUnary(plain, "Aggregate", top, b, m, NamesOf(c), s)
      BY <2>6 DEF IsUnary
    <3>. QED  BY <3>1, UnaryNode
  <2>14. /\ DOMAIN last = NodeFields /\ last.from = Top.from /\ Top.delims \subseteq last.delims
         /\ AggregateNode(last, groups, top, b, m, c, s) /\ last.cols = NamesOf(c)
    BY <2>2, <2>6, <2>13 DEF NodeFields, AggregateNode
  <2>15. Len(requests) = p + q + groupings /\ p + q + groupings \in Nat
    BY <2>3, <2>11, RequestsLength
  <2>16. Len(NamesOf(c)) = p + q + groupings
    <3>1. PICK S : c \in Seq(S)
      BY <2>9, <2>15, MintTyped
    <3>2. Len(c) = Len(requests)
      BY <2>9, <2>15, MintTyped
    <3>3. Len(NamesOf(c)) = Len(c)
      BY <3>1, LengthOfNames
    <3>. QED  BY <2>15, <3>2, <3>3
  <2>17. b \in Seq(Bindings) /\ Len(b) = p + q + groupings /\ NoTwice(b) /\ \A i \in 1..Len(b) : b[i][1] \in New
    <3>1. OfThreeTables(b, p, q, groupings)
      BY <2>11, <2>12 DEF Counts, OfThreeTables
    <3>2. \A k \in 1..(p + q + groupings) : b[k][1] \in New
      BY <1>0, <1>5, <3>1, ThreeTables
    <3>3. b \in Seq(Bindings) /\ Len(b) = p + q + groupings /\ NoTwice(b)
      BY <1>0, <1>5, <3>1, ThreeTables
    <3>. QED  BY <3>2, <3>3
  <2>18. ASSUME NEW R, OverTop(R), Len(last.cols) <= MaxColumns
         PROVE  UnaryBuilt(last, map, R, ReadAll(refs, top))
    <3>1. AskedRow(top, Top, use, column_map, R)
      BY <1>4, <2>9, <2>18, AskedFits DEF OverTop
    <3>2. RowFits(top.bindings, top.means, top.cols, top.shows, column_map, R)
      BY <3>1 DEF AskedRow
    <3>3. Grouped(groups, top, R)
      <4>1. ASSUME NEW i \in GroupKeys(groups)
            PROVE  groups[i] \in 1..Len(Top.bindings) /\ Top.means[groups[i]] # None /\ Top.bindings[groups[i]] \in DOMAIN column_map
        <5>1. groups[i] \in Positions(Top) \cup {0} /\ groups[i] # 0
          BY <1>1 DEF GroupKeys
        <5>2. groups[i] \in DOMAIN Top.means /\ Top.means[groups[i]] # None
          BY <5>1 DEF Positions
        <5>. QED  BY <1>4, <5>2 DEF Covered
      <4>. QED  BY <1>1, <2>2, <3>2, <4>1 DEF Grouped
    <3>4. Argument(top) \in Words
      <4>1. Argument(Top) \in Words
        BY <1>4, <2>18, ArgumentTyped DEF OverTop
      <4>. QED  BY <2>2, <4>1 DEF Argument
    <3>5. p + q + groupings <= MaxColumns /\ \A i \in 1..q : aggs[i] \in Words
      BY <1>2, <2>10, <2>14, <2>16, <2>18
    <3>6. /\ c \in Seq(ColStructs) /\ Len(c) = p + q + groupings /\ KeysApart(c)
          /\ \A i \in 1..Len(c) : c[i].table_index \in New
      BY <1>0, <1>5, <2>3, <2>9, <2>11, <2>18, <3>3, <3>4, <3>5, AggregateMinted
    <3>7. NewRow(b, m, c, s, New)
      BY <1>0, <2>5, <2>17, <2>18, <3>3, <3>6, AggregateRow
    <3>8. Row(top.cols, top.shows) /\ Finds(refs, top.cols, top.shows, column_map)
      BY <3>1 DEF AskedRow, RowFits, refs
    <3>9. RightReads(ReadAll(refs, top))
      BY <3>8, FindsReads
    <3>10. Len(groups) <= Len(b) /\ Len(b) <= MaxColumns /\ Len(c) = Len(b)
      <4>1. Len(groups) = p /\ Len(b) = p + q + groupings /\ p \in Nat /\ q \in Nat
        BY <2>10, <2>11, <2>17 DEF Counts
      <4>2. p <= p + q + groupings
        BY <1>2, <4>1
      <4>. QED  BY <2>17, <3>5, <3>6, <4>1, <4>2
    <3>. QED  BY <1>0, <1>5, <2>5, <2>6, <2>14, <2>17, <2>18, <3>3, <3>7, <3>9, <3>10, AggregatedFits
  <2>. QED  BY <1>3, <1>4, <1>5, <2>8, <2>14, <2>18, UnaryFits
<1>. QED  BY <1>6, <1>7, <1>8

-----------------------------------------------------------------------------
(* Operators over two subtrees.                                            *)

\* What is known of the subtrees, whose tables are P and Q.
OverBoth(P, Q) ==
    /\ Fits(Below, column_map, P) /\ Fits(Top, column_map, Q) /\ MapTyped(column_map)
    /\ P \cap Q = {} /\ \A t \in P \cup Q : t \in Int /\ t < index

LEMMA BinaryFits ==
    ASSUME FitInv, BuilderInv', Later, Finished(2),
           NEW needed, NEW node, NEW map, NEW seen, Build(2, needed, node, map, seen), Named,
           DOMAIN node = NodeFields, node.from = Below.from, Top.delims \cup Below.delims \subseteq node.delims,
           ColumnsOfItsOwn => \A P, Q : OverBoth(P, Q) /\ needed \subseteq DOMAIN column_map /\ Len(node.cols) <= MaxColumns
                    => UnaryBuilt(node, map, P \cup Q, seen)
    PROVE  FitInv'
<1>1. BuilderInv
  BY DEF FitInv
<1>2. /\ 2 \in 0..Len(work) /\ Len(work) \in 1..Len(work) /\ Top = work[Len(work)] /\ ~IsFrame(Top)
      /\ Len(work) - 1 \in 1..Len(work) /\ Below = work[Len(work) - 1] /\ ~IsFrame(Below)
      /\ Len(work) \in Nat
  <2>1. Finished(1) /\ Covered(Below, DOMAIN column_map)
    BY <1>1, BelowFacts
  <2>2. ~IsFrame(Below)
    BY <2>1, NodeNoFrame
  <2>3. Len(work) - 1 \in 1..Len(work) /\ Below = work[Len(work) - 1] /\ 2 \in 0..Len(work)
    BY <1>1, BelowFacts
  <2>4. Len(work) \in 1..Len(work) /\ Top = work[Len(work)] /\ ~IsFrame(Top) /\ Len(work) \in Nat
    BY <1>1, <2>1, TopFacts
  <2>. QED  BY <2>2, <2>3, <2>4
<1>3. ~IsFrame(node)
  BY DEF IsFrame, NodeFields
<1>4. ASSUME ColumnsOfItsOwn, NEW A, Ready(A), needed \subseteq DOMAIN column_map, Len(node.cols) <= MaxColumns
      PROVE  Built(2, node, map, A, A[Len(work) - 1] \cup A[Len(work)] \cup New, seen)
  <2>1. Truth(A)
    BY <1>4 DEF Ready
  <2>2. PICK P, Q : P = A[Len(work) - 1] /\ Q = A[Len(work)]
    OBVIOUS
  <2>3. /\ Fits(Below, column_map, P) /\ MapTyped(column_map) /\ \A t \in P : t \in Int /\ t < index
    BY <1>1, <1>2, <2>1, <2>2, AreaFacts
  <2>4. /\ Fits(Top, column_map, Q) /\ \A t \in Q : t \in Int /\ t < index
    BY <1>1, <1>2, <2>1, <2>2, AreaFacts
  <2>5. P \cap Q = {}
    <3>1. Len(work) - 1 # Len(work)
      BY <1>2
    <3>2. A[Len(work) - 1] \cap A[Len(work)] = {}
      BY <1>1, <1>2, <2>1, <3>1, AreaFacts
    <3>. QED  BY <2>2, <3>2
  <2>6. OverBoth(P, Q)
    BY <2>3, <2>4, <2>5 DEF OverBoth
  <2>7. UnaryBuilt(node, map, P \cup Q, seen)
    BY <1>4, <2>6
  <2>8. Placing(work, A, index, index', Len(work) - 2, node, P \cup Q \cup New)
    BY <1>1, <1>3, <2>1, <2>2, BinaryPlaced
  <2>. QED  BY <2>2, <2>7, <2>8 DEF UnaryBuilt, Built
<1>. QED  BY <1>2, <1>4, BuildKeepsFit

LEMMA BinaryParts ==
    ASSUME NEW kind, NEW l, NEW r, NEW bindings, NEW means, NEW cols, NEW shows, NEW node,
           node = Node(kind, <<l, r>>, bindings, means, cols, shows)
    PROVE  /\ DOMAIN node = NodeFields
           /\ node.kind = kind /\ node.bindings = bindings /\ node.means = means /\ node.cols = cols
           /\ node.shows = shows /\ node.stale = {} /\ node.extra = {}
           /\ node.from = l.from /\ node.delims = l.delims \cup r.delims
<1>1. PICK kids : kids = <<l, r>>
  OBVIOUS
<1>2. kids # << >> /\ kids[1] = l /\ UNION {kids[i].delims : i \in DOMAIN kids} = l.delims \cup r.delims
  BY <1>1, KidsDelims
<1>3. node = Node(kind, kids, bindings, means, cols, shows)
  BY <1>1
<1>. QED  BY <1>2, <1>3 DEF Node, NodeFields

\* An operator without names of its own.
LEMMA NoNewNamesHere ==
    ASSUME MapTyped(column_map), NEW R, NEW node, Fits(node, column_map, R), Len(node.bindings) \in Nat,
           NEW seen, RightReads(seen)
    PROVE  UnaryBuilt(node, column_map, R, seen)
<1>1. Agrees(column_map, column_map, {}) /\ R \cap {} = {} /\ R \subseteq R \cup New
  BY SameMap
<1>2. Fits(node, column_map, R \cup New)
  BY <1>1, FitsAgree
<1>3. Agrees(column_map, column_map, R \cup New) /\ Grown(column_map)
  BY DEF Agrees, Grown
<1>. QED  BY <1>2, <1>3 DEF UnaryBuilt

\* The two subtrees are beside each other.
LEMMA BothBeside ==
    ASSUME NEW P, NEW Q, OverBoth(P, Q), NEW D, Covered(Below, D), Covered(Top, D)
    PROVE  Beside(Below.bindings, Below.means, Below.cols, Below.shows, P, Top.bindings, Top.means, Top.cols, Top.shows, Q,
                  column_map)
<1>1. RowFits(Below.bindings, Below.means, Below.cols, Below.shows, column_map, P) /\ Paired(Below.bindings, Below.means)
  BY FitsFacts DEF OverBoth
<1>2. RowFits(Top.bindings, Top.means, Top.cols, Top.shows, column_map, Q) /\ Paired(Top.bindings, Top.means)
  BY FitsFacts DEF OverBoth
<1>. QED  BY <1>1, <1>2 DEF Beside, OverBoth

\* All columns of a row, by their names.
LEMMA WholeByName ==
    ASSUME NEW cols, NEW shows, Row(cols, shows)
    PROVE  ByName(cols, cols, shows) = shows
<1>1. PICK n \in Nat : n = Len(cols) /\ DOMAIN cols = 1..n /\ shows \in Seq(Columns) /\ Len(shows) = n
  BY DEF Row
<1>2. /\ ByName(cols, cols, shows) \in Seq(Columns) /\ Len(ByName(cols, cols, shows)) = n
      /\ \A k \in 1..n : ByName(cols, cols, shows)[k] = Denotes(cols[k], cols, shows)
  BY <1>1, ByNameTyped
<1>3. \A k \in 1..n : Denotes(cols[k], cols, shows) = shows[k]
  BY <1>1, DenotesOne
<1>4. PICK s : s = ByName(cols, cols, shows)
  OBVIOUS
<1>5. s = shows
  BY <1>1, <1>2, <1>3, <1>4
<1>. QED  BY <1>4, <1>5

LEMMA NothingRead == RightReads({})
  BY DEF RightReads

LEMMA CrossProductFits ==
    ASSUME FitInv, BuilderInv', NEW product \in {"CrossProduct", "CrossNothing"}, CrossProduct(product)
    PROVE  FitInv'
<1>0. BuilderInv
  BY DEF FitInv
<1>1. PICK l, r, cols, shows : l = Below /\ r = Top /\ cols = l.cols \o r.cols /\ shows = l.shows \o r.shows
  OBVIOUS
<1>2. PICK b, m, s, node :
        /\ b = l.bindings \o r.bindings /\ m = l.means \o r.means /\ s = ByName(cols, cols, shows)
        /\ node = Node("Cross", <<l, r>>, b, m, cols, s)
  OBVIOUS
<1>3. /\ Binary(product, 0) /\ (product = "CrossProduct" <=> EmitsItsBindings(l) /\ EmitsItsBindings(r))
      /\ Build(2, {}, node, column_map, {}) /\ Named
  BY <1>1, <1>2, Zenon DEF CrossProduct
<1>4. Covered(l, DOMAIN column_map) /\ Covered(r, DOMAIN column_map) /\ Finished(2) /\ index' = index + 0 /\ product \in menu.kinds
  <2>1. Covered(l, DOMAIN column_map) /\ Covered(r, DOMAIN column_map)
    BY <1>0, <1>1, <1>3, BinaryFacts
  <2>2. Finished(2) /\ index' = index + 0 /\ product \in menu.kinds
    <3>1. \/ product = "CrossProduct" /\ Starts(product, 0) /\ Finished(2)
          \/ product = "CrossNothing" /\ Starts(product, 0) /\ Finished(2)
      BY <1>3 DEF Binary
    <3>. QED  BY <3>1 DEF Starts, Offered
  <2>. QED  BY <2>1, <2>2
<1>5. Later
  BY <1>0, <1>4, WidthLater
<1>6. /\ DOMAIN node = NodeFields /\ node.bindings = b /\ node.means = m /\ node.cols = cols /\ node.shows = s
      /\ node.stale = {} /\ node.extra = {} /\ node.from = l.from /\ node.delims = l.delims \cup r.delims
  <2>1. node = Node("Cross", <<l, r>>, b, m, cols, s)
    BY <1>2
  <2>. QED  BY <2>1, BinaryParts
<1>7. ASSUME ColumnsOfItsOwn, NEW P, NEW Q, OverBoth(P, Q), Len(node.cols) <= MaxColumns
      PROVE  UnaryBuilt(node, column_map, P \cup Q, {})
  <2>1. Beside(l.bindings, l.means, l.cols, l.shows, P, r.bindings, r.means, r.cols, r.shows, Q, column_map)
    BY <1>1, <1>4, <1>7, BothBeside
  <2>2. Len(l.bindings) = Len(l.cols)
    BY <1>3, <1>4, <1>7 DEF ColumnsOfItsOwn, EmitsItsBindings
  <2>3. RowFits(b, m, cols, shows, column_map, P \cup Q)
    BY <1>1, <1>2, <2>1, <2>2, RowFitsTogether
  <2>4. s = shows
    <3>1. Row(cols, shows)
      BY <2>3 DEF RowFits
    <3>. QED  BY <1>2, <3>1, WholeByName
  <2>5. Fits(node, column_map, P \cup Q)
    BY <1>6, <1>7, <2>3, <2>4, PlainFits
  <2>6. Len(node.bindings) \in Nat
    BY <1>2, <1>4, <1>6, BothInRow
  <2>. QED  BY <1>7, <2>5, <2>6, NothingRead, NoNewNamesHere DEF OverBoth
<1>. QED  BY <1>1, <1>3, <1>4, <1>5, <1>6, <1>7, BinaryFits

LEMMA PositionalJoinFits ==
    ASSUME FitInv, BuilderInv', PositionalJoin
    PROVE  FitInv'
<1>0. BuilderInv
  BY DEF FitInv
<1>1. PICK l, r, cols, shows : l = Below /\ r = Top /\ cols = l.cols \o r.cols /\ shows = l.shows \o r.shows
  OBVIOUS
<1>2. PICK b, m, names, s, node :
        /\ b = l.bindings \o r.bindings /\ m = l.means \o r.means /\ names = OutputColumnNames(b)
        /\ s = ByName(names, cols, shows)
        /\ node = Node("PositionalJoin", <<l, r>>, b, m, names, s)
  OBVIOUS
<1>3. /\ Binary("PositionalJoin", 0)
      /\ Build(2, ToSet(b), node, column_map, {}) /\ Named
  BY <1>1, <1>2, Zenon DEF PositionalJoin
<1>4. Covered(l, DOMAIN column_map) /\ Covered(r, DOMAIN column_map) /\ Finished(2) /\ index' = index + 0
  <2>1. Binary("PositionalJoin", 0)
    BY <1>3
  <2>2. Covered(Top, DOMAIN column_map) /\ Covered(Below, DOMAIN column_map)
    BY <1>0, <2>1, BinaryFacts
  <2>. QED  BY <1>1, <2>1, <2>2 DEF Binary, Starts
<1>5. Later
  BY <1>0, <1>4, WidthLater
<1>6. /\ DOMAIN node = NodeFields /\ node.bindings = b /\ node.means = m /\ node.cols = names /\ node.shows = s
      /\ node.stale = {} /\ node.extra = {} /\ node.from = l.from /\ node.delims = l.delims \cup r.delims
  <2>1. node = Node("PositionalJoin", <<l, r>>, b, m, names, s)
    BY <1>2
  <2>. QED  BY <2>1, BinaryParts
<1>7. ASSUME NEW P, NEW Q, OverBoth(P, Q), ToSet(b) \subseteq DOMAIN column_map, Len(node.cols) <= MaxColumns
      PROVE  UnaryBuilt(node, column_map, P \cup Q, {})
  <2>1. Beside(l.bindings, l.means, l.cols, l.shows, P, r.bindings, r.means, r.cols, r.shows, Q, column_map)
    BY <1>1, <1>4, <1>7, BothBeside
  <2>2. PICK pos : Located(b, m, cols, shows, column_map, P \cup Q, pos)
    BY <1>1, <1>2, <2>1, LocatedPair
  <2>3. InRow(b, m, DOMAIN column_map)
    BY <1>2, <1>4, BothInRow
  <2>4. b \in Seq(Bindings) /\ m \in Seq(Columns) /\ Len(m) = Len(b)
    BY <2>3 DEF InRow
  <2>5. Pick(b, All(b)) = b /\ Pick(m, All(b)) = m /\ All(b) \in Seq(1..Len(b)) /\ NoTwice(All(b))
    BY <2>4, AllPicked
  <2>6. PICK at : at = All(b)
    OBVIOUS
  <2>7. MapTyped(column_map)
    BY <1>7 DEF OverBoth
  <2>8. RowFits(Pick(b, at), Pick(m, at), names, ByName(names, cols, shows), column_map, P \cup Q)
    BY <1>2, <1>7, <2>2, <2>4, <2>5, <2>6, <2>7, SelectedFits DEF Paired
  <2>9. RowFits(b, m, names, s, column_map, P \cup Q)
    BY <1>2, <2>5, <2>6, <2>8
  <2>10. Fits(node, column_map, P \cup Q)
    BY <1>6, <1>7, <2>9, PlainFits
  <2>11. Len(node.bindings) \in Nat
    BY <1>6, <2>4
  <2>. QED  BY <2>7, <2>10, <2>11, NothingRead, NoNewNamesHere
<1>. QED  BY <1>1, <1>3, <1>4, <1>5, <1>6, <1>7, BinaryFits

-----------------------------------------------------------------------------
(* Joins: which columns they keep, and how they select them.               *)

ShiftBy(s, p) == [i \in DOMAIN s |-> p + s[i]]

IsShift(t, s, p, q) == p \in Nat /\ q \in Nat /\ s \in Seq(1..q) /\ t = ShiftBy(s, p)
ShiftedTo(t, s, p, q) ==
    /\ t \in Seq(1..(p + q)) /\ t \in Seq(Int) /\ Len(t) = Len(s) /\ Len(s) \in Nat
    /\ \A i \in 1..Len(s) : s[i] \in 1..q /\ t[i] = p + s[i]

LEMMA ShiftTyped ==
    ASSUME NEW p, NEW q, NEW s, NEW t, IsShift(t, s, p, q)
    PROVE  ShiftedTo(t, s, p, q)
<1>0. p \in Nat /\ q \in Nat /\ s \in Seq(1..q) /\ t = ShiftBy(s, p)
  BY DEF IsShift
<1>1. PICK n \in Nat : n = Len(s) /\ DOMAIN s = 1..n /\ \A i \in 1..n : s[i] \in 1..q
  BY <1>0
<1>2. t = [i \in 1..n |-> p + s[i]]
  BY <1>0, <1>1 DEF ShiftBy
<1>3. \A i \in 1..n : p + s[i] \in 1..(p + q)
  <2>1. SUFFICES ASSUME NEW i \in 1..n PROVE p + s[i] \in 1..(p + q)
    OBVIOUS
  <2>2. PICK j \in 1..q : j = s[i]
    BY <1>1
  <2>. QED  BY <1>0, <2>2
<1>4. t \in [1..n -> 1..(p + q)]
  BY <1>2, <1>3
<1>5. t \in Seq(1..(p + q)) /\ Len(t) = n
  <2>1. PICK S : S = 1..(p + q)
    OBVIOUS
  <2>2. t \in [1..n -> S]
    BY <1>4, <2>1
  <2>3. t \in Seq(S) /\ Len(t) = n
    BY ONLY <2>2, n \in Nat, FunctionIsSequence
  <2>. QED  BY <2>1, <2>3
<1>6. t \in [1..n -> Int]
  BY <1>0, <1>2, <1>3
<1>7. t \in Seq(Int)
  BY <1>6
<1>. QED  BY <1>1, <1>2, <1>5, <1>7 DEF ShiftedTo

LEMMA ShiftedApart ==
    ASSUME NEW p \in Nat, NEW q \in Nat, NEW s \in Seq(1..q), NoTwice(s), NEW t, t = ShiftBy(s, p)
    PROVE  NoTwice(t)
<1>1. Len(t) = Len(s) /\ \A i \in 1..Len(s) : s[i] \in 1..q /\ t[i] = p + s[i]
  <2>1. IsShift(t, s, p, q)
    BY DEF IsShift
  <2>. QED  BY <2>1, ShiftTyped DEF ShiftedTo
<1>2. ASSUME NEW i \in 1..Len(s), NEW k \in 1..Len(s), t[i] = t[k] PROVE i = k
  <2>1. PICK m \in 1..q, n \in 1..q : m = s[i] /\ n = s[k]
    BY <1>1
  <2>2. p + m = p + n
    BY <1>1, <1>2, <2>1
  <2>3. s[i] = s[k]
    BY <2>1, <2>2
  <2>. QED  BY <2>3 DEF NoTwice
<1>. QED  BY <1>1, <1>2 DEF NoTwice

\* Positions in the first input, then positions in the second one.
LEMMA BothApart ==
    ASSUME NEW p \in Nat, NEW q \in Nat, NEW left \in Seq(1..p), NoTwice(left), NEW right \in Seq(1..q), NoTwice(right),
           NEW w, w = left \o ShiftBy(right, p)
    PROVE  NoTwice(w)
<1>1. PICK t : t = ShiftBy(right, p)
  OBVIOUS
<1>2. t \in Seq(Int) /\ Len(t) = Len(right) /\ \A i \in 1..Len(right) : right[i] \in 1..q /\ t[i] = p + right[i]
  <2>1. IsShift(t, right, p, q)
    BY <1>1 DEF IsShift
  <2>. QED  BY <2>1, ShiftTyped DEF ShiftedTo
<1>3. NoTwice(t)
  BY <1>1, ShiftedApart
<1>4. left \in Seq(Int) /\ t \in Seq(Int)
  <2>1. 1..p \subseteq Int
    OBVIOUS
  <2>. QED  BY <1>2, <2>1
<1>5. PartsOf(w, left, t)
  BY <1>1, <1>4, Parts DEF BothIn
<1>6. PICK a \in Nat, c \in Nat : a = Len(left) /\ c = Len(t)
  BY <1>5 DEF PartsOf
<1>7. ASSUME NEW k \in 1..(a + c)
      PROVE  \/ k \in 1..a /\ w[k] = left[k] /\ w[k] \in 1..p
             \/ k \notin 1..a /\ k - a \in 1..c /\ w[k] = t[k - a] /\ w[k] \in Int /\ w[k] > p
  <2>1. CASE k \in 1..a /\ w[k] = left[k]
    BY <1>6, <2>1
  <2>2. CASE k \notin 1..a /\ k - a \in 1..c /\ w[k] = t[k - a]
    <3>1. PICK j \in 1..c : j = k - a
      BY <2>2
    <3>2. t[j] = p + right[j] /\ right[j] \in 1..q
      BY <1>2, <1>6
    <3>. QED  BY <2>2, <3>1, <3>2
  <2>. QED  BY <1>5, <1>6, <2>1, <2>2 DEF PartsOf
<1>8. ASSUME NEW i \in 1..(a + c), NEW k \in 1..(a + c), w[i] = w[k] PROVE i = k
  <2>1. \/ i \in 1..a /\ w[i] = left[i] /\ w[i] \in 1..p
        \/ i \notin 1..a /\ i - a \in 1..c /\ w[i] = t[i - a] /\ w[i] \in Int /\ w[i] > p
    BY <1>7
  <2>2. \/ k \in 1..a /\ w[k] = left[k] /\ w[k] \in 1..p
        \/ k \notin 1..a /\ k - a \in 1..c /\ w[k] = t[k - a] /\ w[k] \in Int /\ w[k] > p
    BY <1>7
  <2>3. CASE i \in 1..a /\ w[i] = left[i] /\ w[i] \in 1..p
    <3>1. k \in 1..a /\ w[k] = left[k]
      BY <1>8, <2>2, <2>3
    <3>. QED  BY <1>6, <1>8, <2>3, <3>1 DEF NoTwice
  <2>4. CASE i \notin 1..a /\ i - a \in 1..c /\ w[i] = t[i - a] /\ w[i] \in Int /\ w[i] > p
    <3>1. k - a \in 1..c /\ w[k] = t[k - a]
      BY <1>8, <2>2, <2>4
    <3>2. PICK m \in 1..c, n \in 1..c : m = i - a /\ n = k - a
      BY <2>4, <3>1
    <3>3. m = n
      BY <1>3, <1>6, <1>8, <2>4, <3>1, <3>2 DEF NoTwice
    <3>. QED  BY <3>2, <3>3
  <2>. QED  BY <2>1, <2>3, <2>4
<1>. QED  BY <1>5, <1>6, <1>8 DEF PartsOf, NoTwice

LEMMA KeptApart ==
    ASSUME NEW l, NEW r, NEW p \in Nat, p = Len(l.bindings), NEW q \in Nat, NEW type,
           NEW left \in Seq(1..p), NoTwice(left), NEW right \in Seq(1..q), NoTwice(right),
           NEW kept, kept = Kept(type, l, r, left, right)
    PROVE  NoTwice(kept)
<1>1. PICK t : t = ShiftBy(right, p)
  OBVIOUS
<1>2. kept = t \/ kept = left \/ kept = left \o t
  BY <1>1 DEF Kept, ShiftBy
<1>3. NoTwice(t)
  BY <1>1, ShiftedApart
<1>4. PICK w : w = left \o ShiftBy(right, p)
  OBVIOUS
<1>5. NoTwice(w)
  BY <1>4, BothApart
<1>. QED  BY <1>1, <1>2, <1>3, <1>4, <1>5

-----------------------------------------------------------------------------
\* The k-th name selected is that of the k-th column kept.
NamedAt(names, kept, cols, pos) ==
    /\ Len(names) = Len(kept) /\ Len(kept) \in Nat /\ DOMAIN names = 1..Len(kept)
    /\ \A k \in 1..Len(kept) : names[k] = cols[pos[kept[k]]]

Sides(cols, pos, b, c, d, e) ==
    /\ c \in Seq(Names) /\ e \in Seq(Names) /\ Len(b) \in Nat /\ Len(d) \in Nat
    /\ PartsOf(cols, c, e) /\ Shifted(b, c, d, e, pos)

LEMMA NamedLeft ==
    ASSUME NEW cols, NEW pos, NEW b, NEW c, NEW d, NEW e, Sides(cols, pos, b, c, d, e),
           NEW left \in Seq(1..Len(b)), NEW s, s = Pick(c, left)
    PROVE  NamedAt(s, left, cols, pos) /\ s \in Seq(Names)
<1>1. \A i \in 1..Len(b) : i \in 1..Len(c) /\ pos[i] = i /\ cols[i] = c[i]
  BY DEF Sides, Shifted, PartsOf
<1>2. left \in Seq(1..Len(c))
  <2>1. \A k \in 1..Len(left) : left[k] \in 1..Len(c)
    BY <1>1
  <2>. QED  BY <2>1
<1>3. s \in Seq(Names) /\ Len(s) = Len(left) /\ \A k \in 1..Len(left) : s[k] = c[left[k]]
  BY <1>2, PickTyped DEF Sides
<1>4. \A k \in 1..Len(left) : left[k] \in 1..Len(b)
  OBVIOUS
<1>. QED  BY <1>1, <1>3, <1>4 DEF NamedAt

LEMMA NamedRight ==
    ASSUME NEW cols, NEW pos, NEW b, NEW c, NEW d, NEW e, Sides(cols, pos, b, c, d, e),
           NEW right \in Seq(1..Len(d)), NEW s, s = Pick(e, right), NEW t, t = ShiftBy(right, Len(b))
    PROVE  NamedAt(s, t, cols, pos) /\ s \in Seq(Names)
<1>1. \A j \in 1..Len(d) : j \in 1..Len(e) /\ pos[Len(b) + j] = Len(c) + j /\ cols[Len(c) + j] = e[j]
  BY DEF Sides, Shifted, PartsOf
<1>2. right \in Seq(1..Len(e))
  <2>1. \A k \in 1..Len(right) : right[k] \in 1..Len(e)
    BY <1>1
  <2>. QED  BY <2>1
<1>3. s \in Seq(Names) /\ Len(s) = Len(right) /\ \A k \in 1..Len(right) : s[k] = e[right[k]]
  BY <1>2, PickTyped DEF Sides
<1>4. Len(t) = Len(right) /\ Len(right) \in Nat /\ \A k \in 1..Len(right) : right[k] \in 1..Len(d) /\ t[k] = Len(b) + right[k]
  <2>1. IsShift(t, right, Len(b), Len(d))
    BY DEF IsShift, Sides
  <2>. QED  BY <2>1, ShiftTyped DEF ShiftedTo
<1>5. \A k \in 1..Len(right) : s[k] = cols[pos[t[k]]]
  <2>1. SUFFICES ASSUME NEW k \in 1..Len(right) PROVE s[k] = cols[pos[t[k]]]
    OBVIOUS
  <2>2. PICK j \in 1..Len(d) : j = right[k] /\ t[k] = Len(b) + j /\ s[k] = e[j]
    BY <1>3, <1>4
  <2>. QED  BY <1>1, <2>2
<1>6. DOMAIN s = 1..Len(right)
  BY <1>3
<1>. QED  BY <1>3, <1>4, <1>5, <1>6 DEF NamedAt

LEMMA NamedBoth ==
    ASSUME NEW cols, NEW pos, NEW s \in Seq(Names), NEW left \in Seq(Int), NamedAt(s, left, cols, pos),
           NEW t \in Seq(Names), NEW right \in Seq(Int), NamedAt(t, right, cols, pos), NEW names, names = s \o t,
           NEW kept, kept = left \o right
    PROVE  NamedAt(names, kept, cols, pos)
<1>1. names \in Seq(Names) /\ PartsOf(names, s, t)
  BY Parts DEF BothIn
<1>2. kept \in Seq(Int) /\ PartsOf(kept, left, right)
  BY Parts DEF BothIn
<1>3. PICK p \in Nat, q \in Nat : p = Len(left) /\ q = Len(right)
  OBVIOUS
<1>4. /\ Len(s) = p /\ Len(t) = q /\ Len(names) = p + q /\ Len(kept) = p + q
      /\ \A k \in 1..p : s[k] = cols[pos[left[k]]]
      /\ \A k \in 1..q : t[k] = cols[pos[right[k]]]
      /\ \A k \in 1..(p + q) : \/ k \in 1..p /\ names[k] = s[k]
                               \/ k \notin 1..p /\ k - p \in 1..q /\ names[k] = t[k - p]
      /\ \A k \in 1..(p + q) : \/ k \in 1..p /\ kept[k] = left[k]
                               \/ k \notin 1..p /\ k - p \in 1..q /\ kept[k] = right[k - p]
  BY <1>1, <1>2, <1>3 DEF PartsOf, NamedAt
<1>5. \A k \in 1..(p + q) : names[k] = cols[pos[kept[k]]]
  <2>1. SUFFICES ASSUME NEW k \in 1..(p + q) PROVE names[k] = cols[pos[kept[k]]]
    OBVIOUS
  <2>2. CASE k \in 1..p
    <3>1. k - p \notin 1..q
      BY <2>2
    <3>. QED  BY <1>4, <2>2, <3>1
  <2>3. CASE k \notin 1..p
    <3>1. PICK j \in 1..q : j = k - p /\ names[k] = t[j] /\ kept[k] = right[j]
      BY <1>4, <2>3
    <3>. QED  BY <1>4, <3>1
  <2>. QED  BY <2>2, <2>3
<1>6. Len(names) = Len(kept) /\ Len(kept) \in Nat /\ DOMAIN names = 1..Len(kept)
  BY <1>1, <1>4
<1>7. \A k \in 1..Len(kept) : names[k] = cols[pos[kept[k]]]
  BY <1>4, <1>5
<1>. QED  BY <1>6, <1>7 DEF NamedAt

\* What a join with a projection map selects.
LEMMA SelectedNames ==
    ASSUME NEW l, NEW r, NEW cols, NEW pos, Sides(cols, pos, l.bindings, l.cols, r.bindings, r.cols),
           NEW left \in Seq(1..Len(l.bindings)), NEW right \in Seq(1..Len(r.bindings)), NEW type, type # "MARK",
           NEW kept, kept = Kept(type, l, r, left, right), NEW selected,
           selected = IF type \in RightOnly THEN Pick(r.cols, right)
                      ELSE Pick(l.cols, left) \o IF type \in LeftOnly THEN << >> ELSE Pick(r.cols, right)
    PROVE  NamedAt(selected, kept, cols, pos)
<1>1. PICK s, t, shifted : s = Pick(l.cols, left) /\ t = Pick(r.cols, right) /\ shifted = ShiftBy(right, Len(l.bindings))
  OBVIOUS
<1>2. NamedAt(s, left, cols, pos) /\ s \in Seq(Names)
  BY <1>1, NamedLeft
<1>3. NamedAt(t, shifted, cols, pos) /\ t \in Seq(Names)
  BY <1>1, NamedRight
<1>4. left \in Seq(Int) /\ shifted \in Seq(Int)
  <2>1. PICK p \in Nat, q \in Nat : p = Len(l.bindings) /\ q = Len(r.bindings)
    BY DEF Sides
  <2>2. IsShift(shifted, right, p, q)
    BY <1>1, <2>1 DEF IsShift
  <2>3. shifted \in Seq(Int)
    BY <2>2, ShiftTyped DEF ShiftedTo
  <2>4. 1..p \subseteq Int
    OBVIOUS
  <2>. QED  BY <2>1, <2>3, <2>4
<1>5. CASE type \in RightOnly
  <2>1. selected = t /\ kept = shifted
    BY <1>1, <1>5 DEF Kept, ShiftBy
  <2>. QED  BY <1>3, <2>1
<1>6. CASE type \in LeftOnly
  <2>1. type \notin RightOnly
    BY <1>6 DEF LeftOnly, RightOnly
  <2>2. selected = s \o << >> /\ kept = left
    BY <1>1, <1>6, <2>1 DEF Kept, LeftOnly
  <2>3. s \o << >> = s
    BY <1>2
  <2>4. selected = s
    BY <2>2, <2>3
  <2>. QED  BY <1>2, <2>2, <2>4
<1>7. CASE type \notin RightOnly /\ type \notin LeftOnly
  <2>1. selected = s \o t
    BY <1>1, <1>7
  <2>2. kept = left \o shifted
    BY <1>1, <1>7 DEF Kept, ShiftBy
  <2>. QED  BY <1>2, <1>3, <1>4, <2>1, <2>2, NamedBoth
<1>. QED  BY <1>5, <1>6, <1>7

\* What is known of two subtrees that are to be joined, the second of which is on top.
OverTwo(l, P, Q) ==
    /\ Fits(l, column_map, P) /\ Fits(Top, column_map, Q) /\ MapTyped(column_map)
    /\ Covered(l, DOMAIN column_map) /\ Covered(Top, DOMAIN column_map)
    /\ P \cap Q = {} /\ \A t \in P \cup Q : t \in Int /\ t < index

\* The columns of two subtrees, in one row.
InOneRow(l, b, m, cols, shows) ==
    /\ b = l.bindings \o Top.bindings /\ m = l.means \o Top.means
    /\ cols = l.cols \o Top.cols /\ shows = l.shows \o Top.shows

LEMMA TwoBeside ==
    ASSUME NEW l, NEW P, NEW Q, OverTwo(l, P, Q)
    PROVE  Beside(l.bindings, l.means, l.cols, l.shows, P, Top.bindings, Top.means, Top.cols, Top.shows, Q, column_map)
<1>1. RowFits(l.bindings, l.means, l.cols, l.shows, column_map, P) /\ Paired(l.bindings, l.means)
  BY FitsFacts DEF OverTwo
<1>2. RowFits(Top.bindings, Top.means, Top.cols, Top.shows, column_map, Q) /\ Paired(Top.bindings, Top.means)
  BY FitsFacts DEF OverTwo
<1>. QED  BY <1>1, <1>2 DEF Beside, OverTwo

LEMMA TwoOverTop ==
    ASSUME NEW l, NEW P, NEW Q, OverTwo(l, P, Q)
    PROVE  OverTop(P \cup Q)
<1>1. Fits(Top, column_map, Q) /\ Covered(Top, DOMAIN column_map)
  BY DEF OverTwo
<1>2. Len(Top.bindings) \in Nat
  BY <1>1, FitsFacts
<1>3. Agrees(column_map, column_map, {}) /\ Q \cap {} = {} /\ Q \subseteq P \cup Q
  BY SameMap
<1>4. Fits(Top, column_map, P \cup Q)
  BY <1>1, <1>2, <1>3, FitsAgree
<1>. QED  BY <1>4 DEF OverTop, OverTwo

LEMMA TwoLocated ==
    ASSUME NEW l, NEW P, NEW Q, OverTwo(l, P, Q), NEW b, NEW m, NEW cols, NEW shows, InOneRow(l, b, m, cols, shows)
    PROVE  /\ Paired(b, m) /\ InRow(b, m, DOMAIN column_map) /\ Len(b) = Len(l.bindings) + Len(Top.bindings)
           /\ \E pos : /\ Located(b, m, cols, shows, column_map, P \cup Q, pos)
                       /\ Sides(cols, pos, l.bindings, l.cols, Top.bindings, Top.cols)
<1>1. Beside(l.bindings, l.means, l.cols, l.shows, P, Top.bindings, Top.means, Top.cols, Top.shows, Q, column_map)
  BY TwoBeside
<1>2. InRow(b, m, DOMAIN column_map) /\ Len(b) = Len(l.bindings) + Len(Top.bindings)
  BY BothInRow DEF OverTwo, InOneRow
<1>3. PICK pos : /\ Located(l.bindings \o Top.bindings, l.means \o Top.means, l.cols \o Top.cols, l.shows \o Top.shows,
                            column_map, P \cup Q, pos)
                 /\ Shifted(l.bindings, l.cols, Top.bindings, Top.cols, pos)
  BY <1>1, LocatedPair
<1>4. Located(b, m, cols, shows, column_map, P \cup Q, pos)
  BY <1>3 DEF InOneRow
<1>5. l.cols \in Seq(Names) /\ Top.cols \in Seq(Names) /\ Len(l.bindings) \in Nat /\ Len(Top.bindings) \in Nat
  BY FitsFacts DEF OverTwo
<1>6. PartsOf(cols, l.cols, Top.cols)
  <2>1. BothIn(Names, l.cols, Top.cols)
    BY <1>5 DEF BothIn
  <2>2. PartsOf(l.cols \o Top.cols, l.cols, Top.cols)
    BY <2>1, Parts
  <2>. QED  BY <2>2 DEF InOneRow
<1>7. Sides(cols, pos, l.bindings, l.cols, Top.bindings, Top.cols)
  BY <1>3, <1>5, <1>6 DEF Sides
<1>. QED  BY <1>2, <1>4, <1>7 DEF Paired, InRow

\* What its conditions refer to is found.
LEMMA TwoReads ==
    ASSUME NEW l, NEW P, NEW Q, OverTwo(l, P, Q), NEW type, NEW seen,
           seen = ReadAll(Referred(type, l, Top), BothSides(l, Top))
    PROVE  RightReads(seen)
<1>1. PICK r : r = Top
  OBVIOUS
<1>2. Beside(l.bindings, l.means, l.cols, l.shows, P, r.bindings, r.means, r.cols, r.shows, Q, column_map)
  BY <1>1, TwoBeside
<1>3. PICK cols, shows : cols = l.cols \o r.cols /\ shows = l.shows \o r.shows
  OBVIOUS
<1>4. PICK b, m : InOneRow(l, b, m, cols, shows)
  BY <1>1, <1>3 DEF InOneRow
<1>5. Row(cols, shows)
  BY <1>4, TwoLocated DEF Located
<1>6. l.cols \in Seq(Names) /\ r.cols \in Seq(Names) /\ l.shows \in Seq(Columns) /\ r.shows \in Seq(Columns)
      /\ Len(l.shows) = Len(l.cols) /\ Len(r.shows) = Len(r.cols)
  BY <1>1, FitsFacts DEF OverTwo
<1>7. PartsOf(cols, l.cols, r.cols) /\ PartsOf(shows, l.shows, r.shows)
  <2>1. BothIn(Names, l.cols, r.cols) /\ BothIn(Columns, l.shows, r.shows)
    BY <1>6 DEF BothIn
  <2>. QED  BY <1>3, <2>1, Parts
<1>8. Finds(Refs(l), l.cols, l.shows, column_map) /\ Finds(l.stale, l.cols, l.shows, column_map)
  BY RefsFound DEF OverTwo
<1>9. Finds(Refs(r), r.cols, r.shows, column_map) /\ Finds(r.stale, r.cols, r.shows, column_map)
  BY <1>1, RefsFound DEF OverTwo
<1>10. /\ Finds(Refs(l), cols, shows, column_map) /\ Finds(l.stale, cols, shows, column_map)
       /\ Finds(Refs(r), cols, shows, column_map) /\ Finds(r.stale, cols, shows, column_map)
  <2>1. /\ PartsOf(cols, l.cols, r.cols) /\ PartsOf(shows, l.shows, r.shows)
        /\ Len(l.shows) = Len(l.cols) /\ Len(r.shows) = Len(r.cols)
    BY <1>6, <1>7
  <2>2. Finds(Refs(l), cols, shows, column_map)
    BY ONLY <1>8, <2>1, FindsWider
  <2>3. Finds(l.stale, cols, shows, column_map)
    BY ONLY <1>8, <2>1, FindsWider
  <2>4. Finds(Refs(r), cols, shows, column_map)
    BY ONLY <1>9, <2>1, FindsWider
  <2>5. Finds(r.stale, cols, shows, column_map)
    BY ONLY <1>9, <2>1, FindsWider
  <2>. QED  BY <2>2, <2>3, <2>4, <2>5
<1>11. PICK refs : refs = Referred(type, l, r)
  OBVIOUS
<1>12. refs \subseteq (Refs(l) \cup Refs(r)) \cup (l.stale \cup r.stale)
  BY <1>11 DEF Referred
<1>13. Finds((Refs(l) \cup Refs(r)) \cup (l.stale \cup r.stale), cols, shows, column_map)
  BY <1>10, FindsUnion
<1>14. Finds(refs, cols, shows, column_map)
  BY <1>12, <1>13, FindsPart
<1>15. PICK node : node = BothSides(l, r)
  OBVIOUS
<1>16. node.cols = cols /\ node.shows = shows
  BY <1>3, <1>15 DEF BothSides
<1>. QED  BY <1>1, <1>5, <1>11, <1>14, <1>15, <1>16, FindsReads

\* A projection map selects what its bindings' names would.
LEMMA SelectedAlike ==
    ASSUME NEW cols, NEW shows, NEW pos, NEW kept, NEW selected, NamedAt(selected, kept, cols, pos),
           NEW names \in Seq(Names), Len(names) = Len(kept),
           \A k \in 1..Len(kept) : Lower(names[k]) = Lower(cols[pos[kept[k]]])
    PROVE  ByName(selected, cols, shows) = ByName(names, cols, shows)
<1>1. DOMAIN selected = DOMAIN names /\ DOMAIN names = 1..Len(kept)
  BY DEF NamedAt
<1>2. \A k \in DOMAIN selected : Lower(selected[k]) = Lower(names[k])
  BY <1>1 DEF NamedAt
<1>. QED  BY <1>1, <1>2, ByNameEqual

\* The columns a join keeps, and those its parent may ask for.
JoinRow(b, m, cols, shows, kept, names, R) ==
    /\ RowFits(Pick(b, kept), Pick(m, kept), names, ByName(names, cols, shows), column_map, R)
    /\ Paired(Pick(b, kept), Pick(m, kept)) /\ Len(Pick(b, kept)) = Len(names)
    /\ Len(names) = Len(kept)
    /\ names \in Seq(Names) /\ ByName(names, cols, shows) \in Seq(Columns)
    /\ Len(ByName(names, cols, shows)) = Len(names)
PrunedOf(b, m, cols, shows, kept) ==
    {<<b[i], m[i], Denotes(FindColumnBinding(b[i]), cols, shows)>> :
        i \in {i \in DOMAIN b : m[i] # None /\ ~\E k \in DOMAIN kept : kept[k] = i}}

LEMMA PrunedFit ==
    ASSUME NEW b, NEW m, NEW cols, NEW shows, NEW R, NEW pos, Located(b, m, cols, shows, column_map, R, pos),
           InRow(b, m, DOMAIN column_map), MapTyped(column_map), NEW kept \in Seq(1..Len(b)), NEW names, NEW seen,
           Len(names) = Len(kept), \A k \in 1..Len(kept) : Lower(names[k]) = Lower(cols[pos[kept[k]]])
    PROVE  ExtraFits("Join", PrunedOf(b, m, cols, shows, kept), names, seen, column_map, R)
<1>1. /\ Row(cols, shows)
      /\ pos \in [1..Len(b) -> 1..Len(cols)]
      /\ \A i, j \in 1..Len(b) : pos[i] = pos[j] => i = j
      /\ \A i \in 1..Len(cols) : cols[i][1] \in R
      /\ \A i \in 1..Len(b) : /\ b[i][1] \in R /\ m[i] # None => shows[pos[i]] = m[i]
                              /\ b[i] \in DOMAIN column_map => Lower(NameIn(column_map, b[i])) = Lower(cols[pos[i]])
  BY DEF Located
<1>2. /\ b \in Seq(Bindings) /\ m \in Seq(Columns) /\ Len(m) = Len(b) /\ Len(b) \in Nat
      /\ \A i \in 1..Len(m) : m[i] # None => b[i] \in DOMAIN column_map
  BY DEF InRow
<1>3. \A i, j \in 1..Len(cols) : Lower(cols[i]) = Lower(cols[j]) => i = j
  BY <1>1 DEF Row, Apart
<1>4. ASSUME NEW x \in PrunedOf(b, m, cols, shows, kept)
      PROVE  \E i \in 1..Len(b) : /\ x[1] = b[i] /\ x[2] = m[i] /\ x[3] = Denotes(FindColumnBinding(b[i]), cols, shows)
                                  /\ m[i] # None /\ \A k \in 1..Len(kept) : kept[k] # i
  <2>1. PICK i \in DOMAIN b : /\ x = <<b[i], m[i], Denotes(FindColumnBinding(b[i]), cols, shows)>>
                              /\ m[i] # None /\ ~\E k \in DOMAIN kept : kept[k] = i
    BY DEF PrunedOf
  <2>2. i \in 1..Len(b) /\ x[1] = b[i] /\ x[2] = m[i] /\ x[3] = Denotes(FindColumnBinding(b[i]), cols, shows)
    BY <1>2, <2>1
  <2>. QED  BY <2>1, <2>2
<1>5. ASSUME NEW i \in 1..Len(b), m[i] # None
      PROVE  /\ b[i] \in DOMAIN column_map /\ Lower(NameIn(column_map, b[i])) = Lower(cols[pos[i]])
             /\ pos[i] \in 1..Len(cols)
             /\ NameIn(column_map, b[i])[1] \in R
             /\ Denotes(FindColumnBinding(b[i]), cols, shows) = m[i] /\ m[i] \in Columns
  <2>1. b[i] \in DOMAIN column_map /\ Lower(NameIn(column_map, b[i])) = Lower(cols[pos[i]]) /\ pos[i] \in 1..Len(cols)
    BY <1>1, <1>2, <1>5
  <2>2. NameIn(column_map, b[i])[1] \in R
    <3>1. NameIn(column_map, b[i]) \in Names
      BY <2>1, BaseTyped DEF NameIn, MapTyped
    <3>2. cols[pos[i]] \in Names /\ cols[pos[i]][1] \in R
      BY <1>1, <2>1 DEF Row
    <3>3. Lower(NameIn(column_map, b[i]))[1] = NameIn(column_map, b[i])[1]
      BY <3>1, NameTyped
    <3>4. Lower(cols[pos[i]])[1] = cols[pos[i]][1]
      BY <3>2, NameTyped
    <3>. QED  BY <2>1, <3>2, <3>3, <3>4
  <2>3. Denotes(NameIn(column_map, b[i]), cols, shows) = m[i]
    BY <1>5, <2>1, LocatedReads
  <2>. QED  BY <1>2, <2>1, <2>2, <2>3 DEF FindColumnBinding, NameIn
<1>6. ASSUME NEW x \in PrunedOf(b, m, cols, shows, kept)
      PROVE  /\ x[1] \in DOMAIN column_map /\ x[1][1] \in R /\ NameIn(column_map, x[1])[1] \in R
             /\ x[3] = x[2] /\ x[2] # None /\ x[2] \in Columns
             /\ \A k \in 1..Len(names) : Lower(NameIn(column_map, x[1])) # Lower(names[k])
  <2>1. PICK i \in 1..Len(b) : /\ x[1] = b[i] /\ x[2] = m[i] /\ x[3] = Denotes(FindColumnBinding(b[i]), cols, shows)
                               /\ m[i] # None /\ \A k \in 1..Len(kept) : kept[k] # i
    BY <1>4, <1>6
  <2>2. ASSUME NEW k \in 1..Len(names), Lower(NameIn(column_map, b[i])) = Lower(names[k]) PROVE FALSE
    <3>1. PICK j \in 1..Len(b) : j = kept[k] /\ j # i
      BY <2>1
    <3>2. Lower(cols[pos[i]]) = Lower(cols[pos[j]]) /\ pos[i] \in 1..Len(cols) /\ pos[j] \in 1..Len(cols)
      BY <1>1, <1>5, <2>1, <2>2, <3>1
    <3>. QED  BY <1>1, <1>3, <3>1, <3>2
  <2>3. \A k \in 1..Len(names) : Lower(NameIn(column_map, x[1])) # Lower(names[k])
    BY <2>1, <2>2, Zenon
  <2>4. b[i][1] \in R
    BY Zenon DEF Located
  <2>. QED  BY <1>5, <2>1, <2>3, <2>4
<1>7. ASSUME NEW x \in PrunedOf(b, m, cols, shows, kept), NEW y \in PrunedOf(b, m, cols, shows, kept),
             Lower(NameIn(column_map, x[1])) = Lower(NameIn(column_map, y[1]))
      PROVE  x[2] = y[2] /\ x[1] = y[1]
  <2>1. PICK i \in 1..Len(b) : x[1] = b[i] /\ x[2] = m[i] /\ m[i] # None
    BY <1>4, <1>7
  <2>2. PICK j \in 1..Len(b) : y[1] = b[j] /\ y[2] = m[j] /\ m[j] # None
    BY <1>4, <1>7
  <2>3. Lower(cols[pos[i]]) = Lower(cols[pos[j]]) /\ pos[i] \in 1..Len(cols) /\ pos[j] \in 1..Len(cols)
    BY <1>5, <1>7, <2>1, <2>2
  <2>. QED  BY <1>1, <1>3, <2>1, <2>2, <2>3
<1>. QED  BY <1>6, <1>7 DEF ExtraFits

\* With a projection map, what is selected are the columns it keeps.
MapsWhatItKeeps(type, l, left, right, kept) ==
    type # "MARK" /\ (Len(left) < Len(l.bindings) \/ Len(right) < Len(Top.bindings)) =>
        /\ left \in Seq(1..Len(l.bindings)) /\ right \in Seq(1..Len(Top.bindings))
        /\ kept = Kept(type, l, Top, left, right)
\* The parts of a join.
JoinNode(node, l, b, m, c, s, extra) ==
    /\ DOMAIN node = NodeFields /\ node.kind = "Join"
    /\ node.bindings = b /\ node.means = m /\ node.cols = c /\ node.shows = s
    /\ node.stale = {} /\ node.extra = extra /\ node.from = l.from /\ node.delims = l.delims \cup Top.delims

IsBinary(node, kind, l, r, b, m, c, s) == node = Node(kind, <<l, r>>, b, m, c, s)
LEMMA BinaryNode ==
    ASSUME NEW node, NEW kind, NEW l, NEW r, NEW b, NEW m, NEW c, NEW s, IsBinary(node, kind, l, r, b, m, c, s)
    PROVE  /\ DOMAIN node = NodeFields
           /\ node.kind = kind /\ node.bindings = b /\ node.means = m /\ node.cols = c
           /\ node.shows = s /\ node.stale = {} /\ node.extra = {}
           /\ node.from = l.from /\ node.delims = l.delims \cup r.delims
<1>1. node = Node(kind, <<l, r>>, b, m, c, s)
  BY DEF IsBinary
<1>. QED  BY <1>1, BinaryParts

\* What a join is built from, and what it is.
JoinFrom(l, P, Q, b, m, cols, shows, type, left, right, kept, node) ==
    /\ OverTwo(l, P, Q) /\ InOneRow(l, b, m, cols, shows)
    /\ kept \in Seq(1..Len(b)) /\ NoTwice(kept)
    /\ ToSet(Pick(b, kept)) \subseteq DOMAIN column_map /\ MapsWhatItKeeps(type, l, left, right, kept)
    /\ node = Joined(type, l, Top, left, right, kept)
JoinOf(l, P, Q, b, m, cols, shows, type, kept, node) ==
    \E names :
        /\ JoinRow(b, m, cols, shows, kept, names, P \cup Q)
        /\ ExtraFits("Join", PrunedOf(b, m, cols, shows, kept), names, ByName(names, cols, shows), column_map, P \cup Q)
        /\ type = "MARK" =>
               JoinNode(node, l, Pick(b, kept) \o Bound(index, 1), Pick(m, kept) \o Fresh(1), names \o NamesOf(<<Mark>>),
                        ByName(names, cols, shows) \o Fresh(1), {})
        /\ type # "MARK" =>
               \E extra \in {{}, PrunedOf(b, m, cols, shows, kept)} :
                   JoinNode(node, l, Pick(b, kept), Pick(m, kept), names, ByName(names, cols, shows), extra)

\* The columns a join keeps are selected by names that denote them.
LEMMA JoinedRow ==
    ASSUME NEW l, NEW P, NEW Q, NEW b, NEW m, NEW cols, NEW shows, NEW type, NEW left, NEW right, NEW kept, NEW node,
           JoinFrom(l, P, Q, b, m, cols, shows, type, left, right, kept, node)
    PROVE  JoinOf(l, P, Q, b, m, cols, shows, type, kept, node)
<1>0. /\ OverTwo(l, P, Q) /\ InOneRow(l, b, m, cols, shows)
      /\ kept \in Seq(1..Len(b)) /\ NoTwice(kept)
      /\ ToSet(Pick(b, kept)) \subseteq DOMAIN column_map /\ MapsWhatItKeeps(type, l, left, right, kept)
      /\ node = Joined(type, l, Top, left, right, kept)
  BY DEF JoinFrom
<1>1. PICK r : r = Top
  OBVIOUS
<1>. DEFINE names == OutputColumnNames(Pick(b, kept))
            mapped == type # "MARK" /\ (Len(left) < Len(l.bindings) \/ Len(right) < Len(r.bindings))
            selected == IF type \in RightOnly THEN Pick(r.cols, right)
                        ELSE Pick(l.cols, left) \o IF type \in LeftOnly THEN << >> ELSE Pick(r.cols, right)
            mark == IF type = "MARK" THEN <<Mark>> ELSE << >>
            pruned == {i \in DOMAIN b : m[i] # None /\ ~\E k \in DOMAIN kept : kept[k] = i}
            asked == {<<b[i], m[i], Denotes(FindColumnBinding(b[i]), cols, shows)>> : i \in pruned}
<1>2. b = l.bindings \o r.bindings /\ m = l.means \o r.means /\ cols = l.cols \o r.cols /\ shows = l.shows \o r.shows
  BY <1>0, <1>1 DEF InOneRow
<1>3. node = [Node("Join", <<l, r>>, Pick(b, kept) \o Bound(index, Len(mark)), Pick(m, kept) \o Fresh(Len(mark)),
                   names \o NamesOf(mark), ByName(IF mapped THEN selected ELSE names, cols, shows) \o Fresh(Len(mark)))
                EXCEPT !.extra = IF type \in LeftOnly \cup RightOnly \cup {"MARK"} THEN {} ELSE asked]
  BY <1>0, <1>1, <1>2, Zenon DEF Joined
<1>4. /\ Paired(b, m) /\ InRow(b, m, DOMAIN column_map) /\ MapTyped(column_map)
  BY <1>0, TwoLocated DEF OverTwo
<1>5. PICK pos : Located(b, m, cols, shows, column_map, P \cup Q, pos) /\ Sides(cols, pos, l.bindings, l.cols, r.bindings, r.cols)
  BY <1>0, <1>1, TwoLocated
<1>6. PICK na : na = names
  OBVIOUS
<1>7. /\ RowFits(Pick(b, kept), Pick(m, kept), na, ByName(na, cols, shows), column_map, P \cup Q)
      /\ Len(na) = Len(kept) /\ Len(Pick(b, kept)) = Len(kept)
      /\ na \in Seq(Names) /\ Paired(Pick(b, kept), Pick(m, kept))
      /\ \A k \in 1..Len(kept) : Lower(na[k]) = Lower(cols[pos[kept[k]]])
  BY <1>0, <1>4, <1>5, <1>6, SelectedFits
<1>8. ByName(na, cols, shows) \in Seq(Columns) /\ Len(ByName(na, cols, shows)) = Len(na)
  <2>1. Row(cols, shows)
    BY <1>5 DEF Located
  <2>2. Len(na) \in Nat /\ DOMAIN na = 1..Len(na)
    BY <1>7
  <2>. QED  BY <2>1, <2>2, ByNameTyped
<1>9. JoinRow(b, m, cols, shows, kept, na, P \cup Q)
  BY <1>7, <1>8 DEF JoinRow
<1>10. asked = PrunedOf(b, m, cols, shows, kept)
  BY Zenon DEF PrunedOf
<1>11. ExtraFits("Join", PrunedOf(b, m, cols, shows, kept), na, ByName(na, cols, shows), column_map, P \cup Q)
  BY <1>0, <1>4, <1>5, <1>7, PrunedFit
<1>12. ByName(IF mapped THEN selected ELSE names, cols, shows) = ByName(na, cols, shows)
  <2>. HIDE DEF selected, names
  <2>1. CASE mapped
    <3>1. left \in Seq(1..Len(l.bindings)) /\ right \in Seq(1..Len(r.bindings)) /\ kept = Kept(type, l, r, left, right)
      BY <1>0, <1>1, <2>1 DEF MapsWhatItKeeps
    <3>2. PICK sel : sel = selected
      OBVIOUS
    <3>3. NamedAt(sel, kept, cols, pos)
      BY <1>5, <2>1, <3>1, <3>2, SelectedNames DEF selected
    <3>4. ByName(sel, cols, shows) = ByName(na, cols, shows)
      BY <1>7, <3>3, SelectedAlike
    <3>. QED  BY <2>1, <3>2, <3>4
  <2>2. CASE ~mapped
    BY <1>6, <2>2
  <2>. QED  BY <2>1, <2>2
<1>13. PICK pb, pm, sh, prunes : /\ pb = Pick(b, kept) /\ pm = Pick(m, kept) /\ sh = ByName(na, cols, shows)
                                 /\ prunes = PrunedOf(b, m, cols, shows, kept)
  OBVIOUS
<1>14. PICK extra : extra = IF type \in LeftOnly \cup RightOnly \cup {"MARK"} THEN {} ELSE prunes
  OBVIOUS
<1>15. node = [Node("Join", <<l, r>>, pb \o Bound(index, Len(mark)), pm \o Fresh(Len(mark)),
                    na \o NamesOf(mark), sh \o Fresh(Len(mark))) EXCEPT !.extra = extra]
  <2>. HIDE DEF names, mapped, selected, mark, asked
  <2>. QED  BY <1>3, <1>6, <1>10, <1>12, <1>13, <1>14
<1>16. ASSUME type = "MARK" PROVE JoinNode(node, l, pb \o Bound(index, 1), pm \o Fresh(1), na \o NamesOf(<<Mark>>), sh \o Fresh(1), {})
  <2>1. mark = <<Mark>> /\ Len(mark) = 1 /\ extra = {}
    BY <1>14, <1>16
  <2>2. PICK d, e, f, g : d = pb \o Bound(index, 1) /\ e = pm \o Fresh(1) /\ f = na \o NamesOf(<<Mark>>) /\ g = sh \o Fresh(1)
    OBVIOUS
  <2>3. PICK plain : plain = Node("Join", <<l, r>>, d, e, f, g)
    OBVIOUS
  <2>4. node = [plain EXCEPT !.extra = {}]
    <3>. HIDE DEF mark
    <3>. QED  BY <1>15, <2>1, <2>2, <2>3
  <2>5. /\ DOMAIN plain = NodeFields /\ plain.kind = "Join" /\ plain.bindings = d /\ plain.means = e /\ plain.cols = f
        /\ plain.shows = g /\ plain.stale = {} /\ plain.from = l.from /\ plain.delims = l.delims \cup r.delims
    <3>1. IsBinary(plain, "Join", l, r, d, e, f, g)
      BY <2>3 DEF IsBinary
    <3>. QED  BY <3>1, BinaryNode
  <2>6. JoinNode(node, l, d, e, f, g, {})
    BY <1>1, <2>4, <2>5 DEF JoinNode, NodeFields
  <2>. QED  BY <2>2, <2>6
<1>17. ASSUME type # "MARK" PROVE JoinNode(node, l, pb, pm, na, sh, extra)
  <2>1. mark = << >> /\ Len(mark) = 0
    BY <1>17
  <2>2. Bound(index, 0) = << >> /\ Fresh(0) = << >> /\ NamesOf(<< >>) = << >>
    BY DEF Bound, Fresh, NamesOf
  <2>3. /\ pb \in Seq(Bindings) /\ pm \in Seq(Columns) /\ na \in Seq(Names) /\ sh \in Seq(Columns)
    BY <1>7, <1>8, <1>13 DEF Paired
  <2>4. /\ pb \o Bound(index, Len(mark)) = pb /\ pm \o Fresh(Len(mark)) = pm /\ na \o NamesOf(mark) = na
        /\ sh \o Fresh(Len(mark)) = sh
    <3>1. pb \o << >> = pb /\ pm \o << >> = pm /\ na \o << >> = na /\ sh \o << >> = sh
      BY <2>3
    <3>. HIDE DEF mark
    <3>. QED  BY <2>1, <2>2, <3>1
  <2>5. PICK plain : plain = Node("Join", <<l, r>>, pb, pm, na, sh)
    OBVIOUS
  <2>6. node = [plain EXCEPT !.extra = extra]
    <3>. HIDE DEF mark
    <3>. QED  BY <1>15, <2>4, <2>5
  <2>7. /\ DOMAIN plain = NodeFields /\ plain.kind = "Join" /\ plain.bindings = pb /\ plain.means = pm /\ plain.cols = na
        /\ plain.shows = sh /\ plain.stale = {} /\ plain.from = l.from /\ plain.delims = l.delims \cup r.delims
    <3>1. IsBinary(plain, "Join", l, r, pb, pm, na, sh)
      BY <2>5 DEF IsBinary
    <3>. QED  BY <3>1, BinaryNode
  <2>. QED  BY <1>1, <2>6, <2>7 DEF JoinNode, NodeFields
<1>18. extra \in {{}, prunes}
  BY <1>14
<1>. HIDE DEF names, mapped, selected, mark, pruned, asked
<1>. QED  BY <1>9, <1>11, <1>13, <1>16, <1>17, <1>18 DEF JoinOf

\* A join fits what it keeps; a MARK join has a column of its own.
JoinedWell(node, map, R) ==
    /\ Agrees(column_map, map, R \cup New) /\ MapTyped(map) /\ Grown(map)
    /\ Fits(node, map, R \cup New)

LEMMA MarkTyped ==
    ASSUME index \in Int
    PROVE  OfIndex(<<Mark>>, 1)
<1>1. <<"expr">> \in Words /\ <<"mark">> \in Words
  BY LiteralWords
<1>2. PICK c : c = Mark
  OBVIOUS
<1>3. c \in ColStructs /\ c.table_index = index
  BY <1>1, <1>2, ColStructTyped DEF Mark
<1>4. <<c>> \in Seq(ColStructs) /\ Len(<<c>>) = 1 /\ \A i \in 1..1 : <<c>>[i] = c
  BY <1>3
<1>5. KeysApart(<<c>>)
  BY <1>4 DEF KeysApart
<1>. QED  BY <1>2, <1>3, <1>4, <1>5 DEF OfIndex

LEMMA JoinedParts ==
    ASSUME NEW l, NEW r, NEW type, NEW left, NEW right, NEW kept, NEW node, node = Joined(type, l, r, left, right, kept)
    PROVE  DOMAIN node = NodeFields /\ node.from = l.from /\ node.delims = l.delims \cup r.delims /\ node.stale = {}
<1>1. PICK b, m, c, s, extra : node = [Node("Join", <<l, r>>, b, m, c, s) EXCEPT !.extra = extra]
  BY Zenon DEF Joined
<1>2. PICK plain : plain = Node("Join", <<l, r>>, b, m, c, s)
  OBVIOUS
<1>3. IsBinary(plain, "Join", l, r, b, m, c, s)
  BY <1>2 DEF IsBinary
<1>4. DOMAIN plain = NodeFields /\ plain.from = l.from /\ plain.delims = l.delims \cup r.delims /\ plain.stale = {}
  BY <1>3, BinaryNode
<1>5. node = [plain EXCEPT !.extra = extra]
  BY <1>1, <1>2
<1>. QED  BY <1>4, <1>5 DEF NodeFields

LEMMA JoinedFits ==
    ASSUME BuilderInv, index' = index + 1, NEW l, NEW P, NEW Q, OverTwo(l, P, Q),
           NEW b, NEW m, NEW cols, NEW shows, InOneRow(l, b, m, cols, shows),
           NEW type, NEW left, NEW right, NEW kept \in Seq(1..Len(b)), NoTwice(kept),
           ToSet(Pick(b, kept)) \subseteq DOMAIN column_map, MapsWhatItKeeps(type, l, left, right, kept),
           NEW node, node = Joined(type, l, Top, left, right, kept), Len(node.cols) <= MaxColumns,
           NEW map, map = WithMark(type)
    PROVE  JoinedWell(node, map, P \cup Q)
<1>0. index \in Int /\ index' \in Int /\ index < index' /\ Later
  <2>1. index \in Int
    BY DEF BuilderInv
  <2>. QED  BY <2>1 DEF Later
<1>1. PICK names :
             /\ JoinRow(b, m, cols, shows, kept, names, P \cup Q)
             /\ ExtraFits("Join", PrunedOf(b, m, cols, shows, kept), names, ByName(names, cols, shows), column_map, P \cup Q)
             /\ type = "MARK" =>
                    JoinNode(node, l, Pick(b, kept) \o Bound(index, 1), Pick(m, kept) \o Fresh(1), names \o NamesOf(<<Mark>>),
                             ByName(names, cols, shows) \o Fresh(1), {})
             /\ type # "MARK" =>
                    \E extra \in {{}, PrunedOf(b, m, cols, shows, kept)} :
                        JoinNode(node, l, Pick(b, kept), Pick(m, kept), names, ByName(names, cols, shows), extra)
  <2>1. JoinFrom(l, P, Q, b, m, cols, shows, type, left, right, kept, node)
    BY DEF JoinFrom
  <2>2. JoinOf(l, P, Q, b, m, cols, shows, type, kept, node)
    BY <2>1, JoinedRow
  <2>. QED  BY <2>2, Zenon DEF JoinOf
<1>2. PICK pb, pm, sh, prunes, R : /\ pb = Pick(b, kept) /\ pm = Pick(m, kept) /\ sh = ByName(names, cols, shows)
                                   /\ prunes = PrunedOf(b, m, cols, shows, kept) /\ R = P \cup Q
  OBVIOUS
<1>3. /\ RowFits(pb, pm, names, sh, column_map, R) /\ Paired(pb, pm) /\ Len(pb) = Len(names)
  BY <1>1, <1>2 DEF JoinRow
<1>4. OverTop(R) /\ MapTyped(column_map)
  BY <1>2, TwoOverTop DEF OverTop
<1>5. CASE type = "MARK"
  <2>1. JoinNode(node, l, pb \o Bound(index, 1), pm \o Fresh(1), names \o NamesOf(<<Mark>>), sh \o Fresh(1), {})
    BY <1>1, <1>2, <1>5
  <2>2. PICK cs : cs = <<Mark>>
    OBVIOUS
  <2>3. OfIndex(cs, 1)
    BY <1>0, <2>2, MarkTyped
  <2>4. map = Registered(Bound(index, 1), cs)
    BY <1>5, <2>2 DEF WithMark
  <2>5. /\ Agrees(column_map, map, New) /\ MapTyped(map) /\ Grown(map)
        /\ Beside(pb, pm, names, sh, R, Bound(index, 1), Fresh(1), NamesOf(cs), Fresh(1), New, map)
    BY <1>0, <1>3, <1>4, <2>3, <2>4, NewBeside
  <2>6. RowFits(pb \o Bound(index, 1), pm \o Fresh(1), names \o NamesOf(cs), sh \o Fresh(1), map, R \cup New)
    BY <1>3, <2>5, RowFitsTogether
  <2>7. RowFits(node.bindings, node.means, node.cols, node.shows, map, R \cup New) /\ node.stale = {} /\ node.extra = {}
    BY <2>1, <2>2, <2>6 DEF JoinNode
  <2>8. Fits(node, map, R \cup New)
    BY <2>7, PlainFits
  <2>9. Agrees(column_map, map, R \cup New)
    BY <2>5, AgreesWider
  <2>. QED  BY <1>2, <2>1, <2>5, <2>8, <2>9 DEF JoinedWell
<1>6. CASE type # "MARK"
  <2>1. PICK extra \in {{}, prunes} : JoinNode(node, l, pb, pm, names, sh, extra)
    BY <1>1, <1>2, <1>6
  <2>2. map = column_map
    BY <1>6 DEF WithMark
  <2>3. ExtraFits("Join", prunes, names, sh, column_map, R)
    BY <1>1, <1>2
  <2>4. ExtraFits("Join", {}, names, sh, column_map, R)
    BY DEF ExtraFits
  <2>5. ExtraFits(node.kind, node.extra, node.cols, node.shows, column_map, R)
    BY <2>1, <2>3, <2>4 DEF JoinNode
  <2>6. RowFits(node.bindings, node.means, node.cols, node.shows, column_map, R) /\ node.stale = {}
    BY <1>3, <2>1 DEF JoinNode
  <2>7. Fits(node, column_map, R)
    BY <2>5, <2>6 DEF Fits, StaleFits
  <2>8. Len(node.bindings) \in Nat
    BY <1>3, <2>1 DEF JoinNode, Paired
  <2>9. UnaryBuilt(node, column_map, R, {})
    BY <1>4, <2>7, <2>8, NothingRead, NoNewNamesHere
  <2>. QED  BY <1>2, <2>1, <2>2, <2>9 DEF JoinedWell, UnaryBuilt
<1>. QED  BY <1>5, <1>6

LEMMA JoinFits ==
    ASSUME FitInv, BuilderInv', NEW type, NEW left \in Maps(Below), NEW right \in Maps(Top), Join(type, left, right)
    PROVE  FitInv'
<1>0. BuilderInv
  BY DEF FitInv
<1>1. PICK l, kept, b, m, cols, shows : l = Below /\ kept = Kept(type, l, Top, left, right) /\ InOneRow(l, b, m, cols, shows)
  BY DEF InOneRow
<1>2. PICK node, map, needed, seen :
        /\ needed = Keys(Referred(type, l, Top)) \cup ToSet(Pick(b, kept))
        /\ node = Joined(type, l, Top, left, right, kept) /\ map = WithMark(type)
        /\ seen = ReadAll(Referred(type, l, Top), BothSides(l, Top))
        /\ Binary("Join", 1)
        /\ Build(2, needed, node, map, seen) /\ Named
  BY <1>1 DEF Join, InOneRow
<1>3. Finished(2) /\ index' = index + 1 /\ Covered(Below, DOMAIN column_map) /\ Covered(Top, DOMAIN column_map)
  <2>1. Binary("Join", 1)
    BY <1>2
  <2>. QED  BY <1>0, <2>1, BinaryFacts DEF Binary, Starts
<1>4. Later
  BY <1>0, <1>3, WidthLater
<1>5. /\ left \in Seq(1..Len(l.bindings)) /\ NoTwice(left) /\ Len(l.bindings) \in Nat
      /\ right \in Seq(1..Len(Top.bindings)) /\ NoTwice(right) /\ Len(Top.bindings) \in Nat
  BY <1>1, <1>3, MapsApart, PositionsTyped
<1>6. kept \in Seq(1..(Len(l.bindings) + Len(Top.bindings)))
  BY <1>1, <1>5, KeptTyped
<1>7. NoTwice(kept)
  <2>1. PICK p \in Nat, q \in Nat : p = Len(l.bindings) /\ q = Len(Top.bindings)
    BY <1>5
  <2>2. left \in Seq(1..p) /\ right \in Seq(1..q)
    BY <1>5, <2>1
  <2>. QED  BY <1>1, <1>5, <2>1, <2>2, KeptApart
<1>8. MapsWhatItKeeps(type, l, left, right, kept)
  BY <1>1, <1>5 DEF MapsWhatItKeeps
<1>9. kept \in Seq(1..Len(b))
  <2>1. Len(b) = Len(l.bindings) + Len(Top.bindings)
    BY <1>1, <1>3, BothInRow DEF InOneRow
  <2>. QED  BY <1>6, <2>1
<1>10. DOMAIN node = NodeFields /\ node.from = l.from /\ node.delims = l.delims \cup Top.delims
  BY <1>2, JoinedParts
<1>11. ASSUME NEW P, NEW Q, OverBoth(P, Q), needed \subseteq DOMAIN column_map, Len(node.cols) <= MaxColumns
       PROVE  UnaryBuilt(node, map, P \cup Q, seen)
  <2>1. OverTwo(l, P, Q)
    BY <1>1, <1>3, <1>11 DEF OverTwo, OverBoth
  <2>2. ToSet(Pick(b, kept)) \subseteq DOMAIN column_map
    BY <1>2, <1>11
  <2>3. JoinedWell(node, map, P \cup Q)
    BY <1>0, <1>1, <1>2, <1>3, <1>7, <1>8, <1>9, <1>11, <2>1, <2>2, JoinedFits
  <2>4. RightReads(seen)
    BY <1>2, <2>1, TwoReads
  <2>. QED  BY <2>3, <2>4 DEF UnaryBuilt, JoinedWell
<1>12. node.from = Below.from /\ Top.delims \cup Below.delims \subseteq node.delims
  BY <1>1, <1>10
<1>. QED  BY <1>2, <1>3, <1>4, <1>10, <1>11, <1>12, BinaryFits

-----------------------------------------------------------------------------
(* Operators whose second subtree is done.                                 *)

LEMMA ClosedStack ==
    ASSUME BuilderInv, NEW kind, Closes(kind)
    PROVE  /\ Len(work) \in Nat /\ Len(work) \in 1..Len(work) /\ Len(work) - 1 \in 1..Len(work) /\ Len(work) - 2 \in 0..Len(work)
           /\ 2 \in 0..Len(work)
           /\ Top = work[Len(work)] /\ ~IsFrame(Top) /\ NodeOf(work[Len(work)]) = Top /\ Covered(Top, DOMAIN column_map)
           /\ Below = work[Len(work) - 1] /\ IsFrame(Below) /\ Below.kind = kind /\ NodeOf(work[Len(work) - 1]) = Below.node
           /\ Covered(Below.node, DOMAIN column_map) /\ Covered(Below.node, DOMAIN Below.scope) /\ FrameTyped(Below)
           /\ index \in Int /\ serial \in Int
<1>1. /\ Finished(1) /\ 2 \in 0..Len(work) /\ Len(work) - 1 \in 1..Len(work)
      /\ IsFrame(Below) /\ Below = work[Len(work) - 1] /\ Below.kind = kind
      /\ NodeOf(work[Len(work) - 1]) = Below.node
      /\ FrameTyped(Below) /\ Covered(Below.node, DOMAIN column_map) /\ Covered(Below.node, DOMAIN Below.scope)
  BY ClosesFacts
<1>2. /\ Len(work) \in Nat /\ Len(work) \in 1..Len(work) /\ Top = work[Len(work)] /\ NodeOf(work[Len(work)]) = Top
      /\ ~IsFrame(Top) /\ Covered(Top, DOMAIN column_map)
  BY <1>1, TopFacts
<1>3. Len(work) - 2 \in 0..Len(work)
  BY <1>1, <1>2
<1>. QED  BY <1>1, <1>2, <1>3 DEF BuilderInv

\* The node takes the place of the operator and of its second subtree.
Closed(A, x, Q) ==
    /\ ~IsFrame(x) /\ x.from = Below.node.from
    /\ \A t \in Q : t \in A[Len(work)] \/ t \in Area(work, A, Len(work) - 1) \/ t \in Held(Below) \/ t \in New
    /\ Below.node.delims \subseteq x.delims
    /\ \A t \in Top.delims : t \in x.delims \/ t \in Held(Below)

LEMMA ClosedPlaced ==
    ASSUME BuilderInv, Later, NEW A, Truth(A), NEW kind, Closes(kind), NEW x, NEW Q, Closed(A, x, Q)
    PROVE  Placing(work, A, index, index', Len(work) - 2, x, Q)
<1>1. /\ Len(work) \in Nat /\ Len(work) \in 1..Len(work) /\ Len(work) - 1 \in 1..Len(work) /\ Len(work) - 2 \in 0..Len(work)
      /\ Top = work[Len(work)] /\ ~IsFrame(Top) /\ NodeOf(work[Len(work)]) = Top
      /\ Below = work[Len(work) - 1] /\ NodeOf(work[Len(work) - 1]) = Below.node
      /\ index \in Int
  BY ClosedStack
<1>2. PICK n \in Nat, m \in Nat, k \in Nat : n = Len(work) /\ m = n - 2 /\ k = n - 1
  <2>1. Len(work) - 2 \in Nat /\ Len(work) - 1 \in Nat
    BY <1>1
  <2>. QED  BY <1>1, <2>1
<1>3. Layout(work, A, index)
  BY DEF Truth, Sound
<1>4. /\ \A i \in 1..n : \A t \in Area(work, A, i) \cup Held(work[i]) : t \in Int /\ t < index
      /\ \A i, j \in 1..n : \A t \in Held(work[i]) : t \in Held(work[j]) => i = j
  BY <1>2, <1>3 DEF Layout
<1>5. Area(work, A, n) = A[n] /\ k \in 1..n /\ n \in 1..n /\ m = k - 1 /\ k \in (m + 1)..n /\ n \in (m + 1)..n
  BY <1>1, <1>2 DEF Area, IsSetOp
<1>6. ASSUME NEW t \in Q
      PROVE  t \in Int /\ \/ index <= t /\ t < index'
                          \/ \E j \in (m + 1)..n : t \in Area(work, A, j) \/ t \in Held(work[j])
  <2>1. CASE t \in A[n]
    BY <1>4, <1>5, <2>1
  <2>2. CASE t \in Area(work, A, k) \/ t \in Held(work[k])
    BY <1>4, <1>5, <2>2
  <2>3. CASE t \in New
    BY <1>1, <2>3, NewTyped
  <2>. QED  BY <1>1, <1>2, <2>1, <2>2, <2>3 DEF Closed
<1>7. ASSUME NEW j \in (m + 1)..n, NEW i \in 1..m, NEW t \in Held(work[i]), t \in NodeOf(work[j]).delims
      PROVE  t \in x.delims
  <2>1. j = k \/ j = n
    BY <1>2
  <2>2. CASE j = k
    BY <1>1, <1>2, <1>7, <2>2 DEF Closed
  <2>3. CASE j = n
    <3>1. t \in x.delims \/ t \in Held(work[k])
      BY <1>1, <1>2, <1>7, <2>3 DEF Closed
    <3>2. i \in 1..n /\ i # k
      BY <1>2
    <3>. QED  BY <1>4, <1>5, <1>7, <3>1, <3>2
  <2>. QED  BY <2>1, <2>2, <2>3
<1>8. x.from = NodeOf(work[k]).from /\ ~IsFrame(x)
  BY <1>1, <1>2 DEF Closed
<1>9. m \in 0..n /\ index \in Int /\ index' \in Int /\ index <= index'
  BY <1>1, <1>2 DEF Later
<1>. QED  BY <1>2, <1>5, <1>6, <1>7, <1>8, <1>9 DEF Placing

LEMMA CteQueryFits ==
    ASSUME FitInv, BuilderInv', CteQuery
    PROVE  FitInv'
<1>0. BuilderInv
  BY DEF FitInv
<1>1. PICK node : node = [Top EXCEPT !.from = Below.node.from, !.delims = @ \cup Below.node.delims]
  OBVIOUS
<1>2. Closes("MaterializedCte") /\ index' = index + 0 /\ Build(2, {}, node, column_map, {}) /\ Named
  <2>1. Closes("MaterializedCte") /\ index' = index /\ Build(2, {}, node, column_map, {}) /\ Named
    BY ONLY <1>1, CteQuery, Zenon DEF CteQuery
  <2>2. index \in Int
    BY ONLY <1>0 DEF BuilderInv
  <2>. QED  BY <2>1, <2>2
<1>3. /\ 2 \in 0..Len(work) /\ Len(work) \in 1..Len(work) /\ ~IsFrame(Top) /\ Covered(Top, DOMAIN column_map) /\ Top = work[Len(work)]
  BY <1>0, <1>2, ClosedStack
<1>4. Later
  BY <1>0, <1>2, WidthLater
<1>5. /\ DOMAIN node = NodeFields /\ node.bindings = Top.bindings /\ node.means = Top.means /\ node.cols = Top.cols
      /\ node.shows = Top.shows /\ node.stale = Top.stale /\ node.extra = Top.extra /\ node.kind = Top.kind
      /\ node.from = Below.node.from /\ node.delims = Top.delims \cup Below.node.delims
  <2>1. DOMAIN Top = NodeFields
    BY <1>3 DEF Covered
  <2>. QED  BY <1>1, <2>1 DEF NodeFields
<1>6. ASSUME NEW A, Ready(A) PROVE Built(2, node, column_map, A, A[Len(work)], {})
  <2>1. Truth(A)
    BY <1>6 DEF Ready
  <2>2. Fits(Top, column_map, A[Len(work)]) /\ MapTyped(column_map)
    BY <1>0, <1>3, <2>1, AreaFacts
  <2>3. Fits(node, column_map, A[Len(work)])
    BY <1>5, <2>2 DEF Fits
  <2>4. Closed(A, node, A[Len(work)])
    BY <1>5 DEF Closed, IsFrame, NodeFields
  <2>5. Placing(work, A, index, index', Len(work) - 2, node, A[Len(work)])
    BY <1>0, <1>2, <1>4, <2>1, <2>4, ClosedPlaced
  <2>6. Agrees(column_map, column_map, A[Len(work)]) /\ Grown(column_map)
    BY DEF Agrees, Grown
  <2>. QED  BY <2>2, <2>3, <2>5, <2>6, NothingRead DEF Built
<1>. QED  BY <1>2, <1>3, <1>4, <1>6, BuildKeepsFit

\* The rows of a recursive CTE have the columns that its second part was given.
LEMMA RecursiveRow ==
    ASSUME index \in Int, serial \in Int, NEW f, FrameTyped(f), NEW R, Fits(f.node, column_map, R), NEW D, Covered(f.node, D),
           NEW copies, HandedOn(f, column_map, copies), f.kind = "RecursiveCte",
           NEW n, n = Len(f.node.bindings), NEW cs, cs = Copied(f.at, f.node.cols),
           NEW means, means = [i \in 1..n |-> Again(f.node.means[i])],
           NEW names, names = NamesOf(cs),
           NEW shows, shows = [i \in DOMAIN names |-> Again(f.node.shows[i])]
    PROVE  /\ RowFits(Bound(f.at, n), means, names, shows, column_map, {f.at})
           /\ Len(names) <= MaxColumns
<1>1. f.at \in Int
  BY DEF FrameTyped
<1>2. /\ f.node.cols \in Seq(Names) /\ f.node.shows \in Seq(Columns) /\ Len(f.node.shows) = Len(f.node.cols)
      /\ Len(f.node.cols) \in Nat /\ Len(f.node.cols) <= MaxColumns
      /\ n \in Nat /\ n <= Len(f.node.cols)
      /\ f.node.means \in Seq(Columns) /\ Len(f.node.means) = n
      /\ Holds(f.node.means, f.node.shows)
  BY FitsFacts
<1>3. /\ cs \in Seq(ColStructs) /\ Len(cs) = Len(f.node.cols) /\ KeysApart(cs)
      /\ \A k \in 1..Len(cs) : cs[k].table_index = f.at
  BY <1>1, <1>2, CopiedFacts
<1>4. Len(names) = Len(cs) /\ Len(cs) \in Nat
  BY <1>3, LengthOfNames
<1>5. DOMAIN names = 1..Len(f.node.shows)
  BY <1>2, <1>3 DEF NamesOf
<1>6. PICK ms, ss : ms = f.node.means /\ ss = f.node.shows
  OBVIOUS
<1>7. HoldsSome(ms, ss) /\ Len(ms) = n /\ Len(ss) = Len(cs)
  BY <1>2, <1>3, <1>6 DEF HoldsSome
<1>8. means = AgainAll(ms) /\ shows = AgainAll(ss)
  BY <1>2, <1>5, <1>6 DEF AgainAll
<1>9. means \in Seq(Columns) /\ Len(means) = n /\ shows \in Seq(Columns) /\ Len(shows) = Len(cs) /\ Holds(means, shows)
  BY <1>7, <1>8, AgainHolds
<1>10. PICK b : b = Bound(f.at, n)
  OBVIOUS
<1>11. Len(b) = n /\ \A i \in 1..n : b[i] = <<f.at, i>>
  BY <1>1, <1>2, <1>10, BoundTyped
<1>12. \A i \in 1..n : column_map[<<f.at, i>>] = cs[i]
  BY DEF HandedOn
<1>13. NewColumns(b, means, cs, shows, column_map, {f.at})
  <2>1. \A i \in 1..n : b[i][1] = f.at /\ column_map[b[i]] = cs[i]
    <3>1. ASSUME NEW i \in 1..n PROVE b[i][1] = f.at /\ column_map[b[i]] = cs[i]
      <4>1. b[i] = <<f.at, i>> /\ column_map[<<f.at, i>>] = cs[i]
        BY <1>11, <1>12
      <4>. QED  BY ONLY <4>1
    <3>. QED  BY <3>1
  <2>2. /\ Len(b) \in Nat /\ Len(means) = Len(b) /\ Len(b) <= Len(cs)
        /\ \A i \in 1..Len(b) : b[i][1] \in {f.at} /\ column_map[b[i]] = cs[i]
    BY <1>2, <1>3, <1>9, <1>11, <2>1
  <2>. QED  BY <1>3, <1>9, <2>2 DEF NewColumns
<1>14. RowFits(b, means, NamesOf(cs), shows, column_map, {f.at})
  BY <1>13, FreshRow
<1>. QED  BY <1>2, <1>3, <1>4, <1>10, <1>14

LEMMA RecursiveStepFits ==
    ASSUME FitInv, BuilderInv', RecursiveStep
    PROVE  FitInv'
<1>0. BuilderInv
  BY DEF FitInv
<1>1. PICK f, n, cs : f = Below /\ n = Len(f.node.bindings) /\ cs = Copied(f.at, f.node.cols)
  OBVIOUS
<1>2. PICK means, names : means = [i \in 1..n |-> Again(f.node.means[i])] /\ names = NamesOf(cs)
  OBVIOUS
<1>3. PICK shows : shows = [i \in DOMAIN names |-> Again(f.node.shows[i])]
  OBVIOUS
<1>4. PICK b, node, seen : /\ b = Bound(f.at, n) /\ IsBinary(node, "RecursiveCte", f.node, Top, b, means, names, shows)
                           /\ seen = ReadByPosition(f.node) \cup ReadByPosition(Top)
  BY DEF IsBinary
<1>5. Closes("RecursiveCte") /\ Real(Top) /\ index' = index + 0 /\ Build(2, {}, node, column_map, seen) /\ Named
  <2>1. Closes("RecursiveCte") /\ Real(Top) /\ index' = index /\ Named
    BY ONLY RecursiveStep, Zenon DEF RecursiveStep
  <2>2. Build(2, {}, node, column_map, seen)
    BY ONLY <1>1, <1>2, <1>3, <1>4, RecursiveStep, Zenon DEF RecursiveStep, IsBinary
  <2>3. index \in Int
    BY ONLY <1>0 DEF BuilderInv
  <2>. QED  BY <2>1, <2>2, <2>3
<1>6. /\ 2 \in 0..Len(work) /\ Len(work) \in 1..Len(work) /\ Len(work) - 1 \in 1..Len(work)
      /\ ~IsFrame(Top) /\ Covered(Top, DOMAIN column_map) /\ Top = work[Len(work)]
      /\ Below = work[Len(work) - 1] /\ IsFrame(Below) /\ Below.kind = "RecursiveCte" /\ FrameTyped(Below)
      /\ index \in Int /\ serial \in Int
  BY <1>0, <1>5, ClosedStack
<1>7. Later
  BY <1>0, <1>5, WidthLater
<1>8. /\ DOMAIN node = NodeFields /\ node.bindings = b /\ node.means = means /\ node.cols = names
      /\ node.shows = shows /\ node.stale = {} /\ node.extra = {}
      /\ node.from = f.node.from /\ node.delims = f.node.delims \cup Top.delims
  BY <1>4, BinaryNode
<1>9. ASSUME NEW A, Ready(A) PROVE Built(2, node, column_map, A, {f.at}, seen)
  <2>1. Truth(A)
    BY <1>9 DEF Ready
  <2>2. Fits(Top, column_map, A[Len(work)]) /\ MapTyped(column_map)
    BY <1>0, <1>6, <2>1, AreaFacts
  <2>3. ~IsSetOp(Below) /\ Held(Below) = {f.at}
    BY <1>1, <1>6 DEF IsSetOp, SetOps, Held
  <2>4. /\ Fits(f.node, column_map, A[Len(work) - 1]) /\ Covered(f.node, DOMAIN column_map)
        /\ HandedOn(f, column_map, materialized_cte_body_column_names)
    BY <1>0, <1>1, <1>6, <2>1, <2>3, FrameFits
  <2>5. RowFits(b, means, names, shows, column_map, {f.at}) /\ Len(names) <= MaxColumns
    BY <1>1, <1>2, <1>3, <1>4, <1>6, <2>4, RecursiveRow
  <2>6. Fits(node, column_map, {f.at})
    BY <1>8, <2>5, PlainFits
  <2>7. RightReads(seen)
    <3>1. Real(f.node)
      BY <1>1, <1>6, <2>4 DEF HandedOn
    <3>2. RightReads(ReadByPosition(f.node))
      BY <2>4, <3>1, PositionsRead
    <3>3. RightReads(ReadByPosition(Top))
      BY <1>5, <1>6, <2>2, PositionsRead
    <3>. QED  BY <1>4, <3>2, <3>3 DEF RightReads
  <2>8. Closed(A, node, {f.at})
    BY <1>1, <1>8, <2>3 DEF Closed, IsFrame, NodeFields
  <2>9. Placing(work, A, index, index', Len(work) - 2, node, {f.at})
    BY <1>0, <1>5, <1>7, <2>1, <2>8, ClosedPlaced
  <2>10. Agrees(column_map, column_map, {f.at}) /\ Grown(column_map)
    BY DEF Agrees, Grown
  <2>. QED  BY <2>2, <2>6, <2>7, <2>9, <2>10 DEF Built
<1>. QED  BY <1>5, <1>6, <1>7, <1>9, BuildKeepsFit

\* s: those of the first k elements of seq that are in T.
AmongFirst(s, seq, k, S, T) ==
    /\ s \in Seq(S) /\ NoTwice(s)
    /\ \A j \in 1..Len(s) : s[j] \in T /\ \E i \in 1..k : s[j] = seq[i]

LEMMA AmongOneMore ==
    ASSUME NEW S, NEW seq \in Seq(S), NoTwice(seq), NEW T, NEW k \in Nat, k + 1 <= Len(seq),
           NEW s, AmongFirst(s, seq, k, S, T), NEW t, t = IF seq[k + 1] \in T THEN Append(s, seq[k + 1]) ELSE s
    PROVE  AmongFirst(t, seq, k + 1, S, T)
<1>1. k + 1 \in 1..Len(seq) /\ seq[k + 1] \in S /\ \A i \in 1..k : i \in 1..(k + 1) /\ i \in 1..Len(seq) /\ i # k + 1
  OBVIOUS
<1>2. CASE seq[k + 1] \notin T
  BY <1>1, <1>2 DEF AmongFirst
<1>3. CASE seq[k + 1] \in T
  <2>1. PICK n \in Nat, v \in S : n = Len(s) /\ v = seq[k + 1]
    BY <1>1 DEF AmongFirst
  <2>2. t \in Seq(S) /\ Len(t) = n + 1 /\ t[n + 1] = v /\ \A j \in 1..n : t[j] = s[j]
    BY <1>1, <1>3, <2>1 DEF AmongFirst
  <2>3. \A j \in 1..n : s[j] \in T /\ s[j] # v /\ \E i \in 1..(k + 1) : s[j] = seq[i]
    <3>1. ASSUME NEW j \in 1..n PROVE s[j] \in T /\ s[j] # v /\ \E i \in 1..(k + 1) : s[j] = seq[i]
      <4>1. PICK i \in 1..k : s[j] = seq[i]
        BY <2>1 DEF AmongFirst
      <4>2. s[j] # v
        BY <1>1, <2>1, <4>1 DEF NoTwice
      <4>. QED  BY <1>1, <2>1, <4>1, <4>2 DEF AmongFirst
    <3>. QED  BY <3>1
  <2>4. \A i, j \in 1..(n + 1) : t[i] = t[j] => i = j
    <3>1. \A i, j \in 1..n : s[i] = s[j] => i = j
      BY <2>1 DEF AmongFirst, NoTwice
    <3>2. \A i \in 1..(n + 1) : i \in 1..n \/ i = n + 1
      OBVIOUS
    <3>. QED  BY <2>2, <2>3, <3>1, <3>2
  <2>5. \A j \in 1..(n + 1) : t[j] \in T /\ \E i \in 1..(k + 1) : t[j] = seq[i]
    <3>1. \A i \in 1..(n + 1) : i \in 1..n \/ i = n + 1
      OBVIOUS
    <3>. QED  BY <1>1, <1>3, <2>1, <2>2, <2>3, <3>1
  <2>. QED  BY <2>2, <2>4, <2>5 DEF AmongFirst, NoTwice
<1>. QED  BY <1>2, <1>3

\* What Among returns are elements of the set, none of them twice when none was.
LEMMA AmongApart ==
    ASSUME NEW S, NEW seq \in Seq(S), NoTwice(seq), NEW T
    PROVE  NoTwice(Among(seq, T)) /\ \A k \in 1..Len(Among(seq, T)) : Among(seq, T)[k] \in T
<1>. DEFINE kept == CHOOSE f : Keeps(f, seq, T)
<1>1. Among(seq, T) = kept[Len(seq)]
  BY DEF Among, Keeps
<1>2. Keeps(kept, seq, T)
  BY KeepsExists
<1>. HIDE DEF kept
<1>. DEFINE U == {k \in Nat : k <= Len(seq) => AmongFirst(kept[k], seq, k, S, T)}
<1>3. Len(seq) \in Nat
  OBVIOUS
<1>4. 0 \in U
  <2>1. 0 \in 0..Len(seq)
    BY <1>3
  <2>2. kept[0] = << >>
    BY <1>2, <2>1, KeepsUnfolds
  <2>3. PICK s : s = << >>
    OBVIOUS
  <2>4. s \in Seq(S) /\ Len(s) = 0
    BY <2>3
  <2>5. AmongFirst(s, seq, 0, S, T)
    BY <2>4 DEF AmongFirst, NoTwice
  <2>. QED  BY <2>2, <2>3, <2>5
<1>5. ASSUME NEW k \in Nat, k \in U PROVE k + 1 \in U
  <2>1. SUFFICES ASSUME k + 1 <= Len(seq) PROVE AmongFirst(kept[k + 1], seq, k + 1, S, T)
    OBVIOUS
  <2>2. k + 1 \in 0..Len(seq) /\ k + 1 # 0 /\ k + 1 \in 1..Len(seq) /\ k + 1 - 1 = k
    BY <1>3, <2>1
  <2>3. kept[k + 1] = IF k + 1 = 0 THEN << >> ELSE IF seq[k + 1] \in T THEN Append(kept[k + 1 - 1], seq[k + 1]) ELSE kept[k + 1 - 1]
    BY <1>2, <2>2, KeepsUnfolds
  <2>4. AmongFirst(kept[k], seq, k, S, T)
    BY <1>3, <1>5, <2>1
  <2>5. kept[k + 1] = IF seq[k + 1] \in T THEN Append(kept[k], seq[k + 1]) ELSE kept[k]
    BY <2>2, <2>3
  <2>. QED  BY <2>1, <2>4, <2>5, AmongOneMore
<1>. HIDE DEF U
<1>6. Nat \subseteq U
  BY <1>4, <1>5, InductionOnNat
<1>7. AmongFirst(kept[Len(seq)], seq, Len(seq), S, T)
  BY <1>3, <1>6 DEF U
<1>. QED  BY <1>1, <1>7 DEF AmongFirst

\* The outer side of a delim join, and its inner side.
LEMMA DelimSides ==
    ASSUME BuilderInv, Closes("DelimJoin"), NEW A, Truth(A)
    PROVE  /\ OverTwo(Below.node, A[Len(work) - 1], A[Len(work)]) /\ Held(Below) = Below.promised
           /\ Area(work, A, Len(work) - 1) = A[Len(work) - 1]
<1>1. /\ Len(work) \in 1..Len(work) /\ Len(work) - 1 \in 1..Len(work) /\ Len(work) \in Nat
      /\ Top = work[Len(work)] /\ ~IsFrame(Top) /\ Covered(Top, DOMAIN column_map)
      /\ Below = work[Len(work) - 1] /\ IsFrame(Below) /\ Below.kind = "DelimJoin"
      /\ Covered(Below.node, DOMAIN column_map) /\ index \in Int
  BY ClosedStack
<1>2. ~IsSetOp(Below) /\ Held(Below) = Below.promised
  BY <1>1 DEF IsSetOp, SetOps, Held
<1>3. Fits(Below.node, column_map, A[Len(work) - 1])
  BY <1>1, <1>2, FrameFits
<1>4. /\ Fits(Top, column_map, A[Len(work)]) /\ MapTyped(column_map)
      /\ \A t \in A[Len(work)] : t \in Int /\ t < index
      /\ Area(work, A, Len(work)) = A[Len(work)]
  BY <1>1, AreaFacts
<1>5. Area(work, A, Len(work) - 1) = A[Len(work) - 1]
  BY <1>1, <1>2 DEF Area
<1>6. Layout(work, A, index)
  BY DEF Truth, Sound
<1>7. \A t \in A[Len(work) - 1] : t \in Int /\ t < index
  BY <1>1, <1>5, <1>6 DEF Layout
<1>8. Len(work) - 1 # Len(work)
  BY <1>1
<1>9. A[Len(work) - 1] \cap A[Len(work)] = {}
  BY <1>1, <1>4, <1>5, <1>6, <1>8 DEF Layout
<1>. QED  BY <1>1, <1>2, <1>3, <1>4, <1>5, <1>7, <1>9 DEF OverTwo

\* A delim join keeps the columns that have names.
DelimFrom(l, b, m, cols, shows, type, kept, node) ==
    /\ InOneRow(l, b, m, cols, shows) /\ kept \in Seq(1..Len(b)) /\ NoTwice(kept)
    /\ ToSet(Pick(b, kept)) \subseteq DOMAIN column_map
    /\ node = Joined(type, l, Top, All(l.bindings), All(Top.bindings), kept)

LEMMA DelimKept ==
    ASSUME NEW l, NEW P, NEW Q, OverTwo(l, P, Q), NEW b, NEW m, NEW cols, NEW shows, InOneRow(l, b, m, cols, shows),
           NEW type, NEW named, named = {k \in DOMAIN b : b[k] \in DOMAIN column_map},
           NEW kept, kept = Among(Kept(type, l, Top, All(l.bindings), All(Top.bindings)), named),
           NEW node, node = Joined(type, l, Top, All(l.bindings), All(Top.bindings), kept)
    PROVE  DelimFrom(l, b, m, cols, shows, type, kept, node)
<1>1. PICK left, right, all : /\ left = All(l.bindings) /\ right = All(Top.bindings)
                              /\ all = Kept(type, l, Top, left, right)
  OBVIOUS
<1>2. Covered(l, DOMAIN column_map) /\ Covered(Top, DOMAIN column_map)
  BY DEF OverTwo
<1>3. /\ left \in Seq(1..Len(l.bindings)) /\ NoTwice(left) /\ Len(l.bindings) \in Nat
      /\ right \in Seq(1..Len(Top.bindings)) /\ NoTwice(right) /\ Len(Top.bindings) \in Nat
  BY <1>1, <1>2, MapsApart, PositionsTyped
<1>4. all \in Seq(1..(Len(l.bindings) + Len(Top.bindings)))
  BY <1>1, <1>3, KeptTyped
<1>5. NoTwice(all)
  <2>1. PICK p \in Nat, q \in Nat : p = Len(l.bindings) /\ q = Len(Top.bindings)
    BY <1>3
  <2>2. left \in Seq(1..p) /\ right \in Seq(1..q)
    BY <1>3, <2>1
  <2>. QED  BY <1>1, <1>3, <2>1, <2>2, KeptApart
<1>6. Len(b) = Len(l.bindings) + Len(Top.bindings) /\ Len(b) \in Nat
  <2>1. Len(b) = Len(l.bindings) + Len(Top.bindings) /\ Paired(b, m)
    BY TwoLocated
  <2>2. b \in Seq(Bindings)
    BY <2>1 DEF Paired
  <2>3. Len(b) \in Nat
    BY <2>2
  <2>4. Len(b) = Len(l.bindings) + Len(Top.bindings)
    BY <2>1
  <2>. QED  BY <2>3, <2>4
<1>7. PICK S : S = 1..Len(b)
  OBVIOUS
<1>8. all \in Seq(S) /\ kept = Among(all, named)
  BY <1>1, <1>4, <1>6, <1>7
<1>9. kept \in Seq(S)
  BY <1>8, AmongTyped
<1>10. NoTwice(kept) /\ \A k \in 1..Len(kept) : kept[k] \in named
  BY <1>5, <1>8, AmongApart
<1>11. ToSet(Pick(b, kept)) \subseteq DOMAIN column_map
  <2>1. DOMAIN kept = 1..Len(kept)
    BY <1>9
  <2>. QED  BY <1>10, <2>1 DEF ToSet, Pick
<1>. QED  BY <1>7, <1>9, <1>10, <1>11 DEF DelimFrom

LEMMA DelimJoinFits ==
    ASSUME FitInv, BuilderInv', NEW type, DelimJoin(type)
    PROVE  FitInv'
<1>0. BuilderInv
  BY DEF FitInv
<1>1. PICK l, b, m, cols, shows : l = Below.node /\ InOneRow(l, b, m, cols, shows)
  BY DEF InOneRow
<1>2. PICK left, right, named : left = All(l.bindings) /\ right = All(Top.bindings) /\ named = {k \in DOMAIN b : b[k] \in DOMAIN column_map}
  OBVIOUS
<1>3. PICK kept, map : kept = Among(Kept(type, l, Top, left, right), named) /\ map = WithMark(type)
  OBVIOUS
<1>4. PICK plain, needed, seen :
        /\ plain = Joined(type, l, Top, left, right, kept)
        /\ needed = Keys(Referred(type, l, Top)) /\ seen = ReadAll(Referred(type, l, Top), BothSides(l, Top))
  OBVIOUS
<1>5. PICK node : node = [plain EXCEPT !.kind = "DelimJoin", !.delims = l.delims, !.extra = {}]
  OBVIOUS
<1>6. Closes("DelimJoin") /\ Top.delims = Below.promised /\ index' = index + 1 /\ Build(2, needed, node, map, seen) /\ Named
  <2>1. Closes("DelimJoin") /\ Top.delims = Below.promised /\ index' = index + 1 /\ Named
    BY ONLY DelimJoin(type), Zenon DEF DelimJoin
  <2>2. Build(2, needed, node, map, seen)
    BY ONLY <1>1, <1>2, <1>3, <1>4, <1>5, DelimJoin(type), Zenon DEF DelimJoin, InOneRow
  <2>. QED  BY <2>1, <2>2
<1>7. 2 \in 0..Len(work)
  BY <1>0, <1>6, ClosedStack
<1>8. Later
  BY <1>0, <1>6, WidthLater
<1>9. DOMAIN plain = NodeFields /\ plain.from = l.from /\ plain.delims = l.delims \cup Top.delims /\ plain.stale = {}
  BY <1>4, JoinedParts
<1>10. /\ DOMAIN node = NodeFields /\ node.bindings = plain.bindings /\ node.means = plain.means /\ node.cols = plain.cols
       /\ node.shows = plain.shows /\ node.stale = {} /\ node.extra = {}
       /\ node.from = l.from /\ node.delims = l.delims
  BY <1>5, <1>9 DEF NodeFields
<1>11. ASSUME NEW A, Ready(A), Len(node.cols) <= MaxColumns
       PROVE  Built(2, node, map, A, A[Len(work) - 1] \cup A[Len(work)] \cup New, seen)
  <2>1. Truth(A)
    BY <1>11 DEF Ready
  <2>2. PICK P, Q, all : P = A[Len(work) - 1] /\ Q = A[Len(work)] /\ all = P \cup Q \cup New
    OBVIOUS
  <2>3. OverTwo(l, P, Q) /\ Held(Below) = Below.promised /\ Area(work, A, Len(work) - 1) = P
    BY <1>0, <1>1, <1>6, <2>1, <2>2, DelimSides
  <2>4. DelimFrom(l, b, m, cols, shows, type, kept, plain)
    BY <1>1, <1>2, <1>3, <1>4, <2>3, DelimKept
  <2>5. MapsWhatItKeeps(type, l, left, right, kept)
    <3>1. Covered(l, DOMAIN column_map) /\ Covered(Top, DOMAIN column_map)
      BY <2>3 DEF OverTwo
    <3>2. Len(left) = Len(l.bindings) /\ Len(right) = Len(Top.bindings) /\ Len(l.bindings) \in Nat /\ Len(Top.bindings) \in Nat
      BY <1>2, <3>1 DEF All, Covered
    <3>. QED  BY <3>2 DEF MapsWhatItKeeps
  <2>6. Len(plain.cols) <= MaxColumns
    BY <1>10, <1>11
  <2>7. JoinedWell(plain, map, P \cup Q)
    <3>1. /\ InOneRow(l, b, m, cols, shows) /\ kept \in Seq(1..Len(b)) /\ NoTwice(kept)
          /\ ToSet(Pick(b, kept)) \subseteq DOMAIN column_map
      BY <2>4 DEF DelimFrom
    <3>. QED  BY <1>0, <1>3, <1>4, <1>6, <2>3, <2>5, <2>6, <3>1, JoinedFits
  <2>8. Agrees(column_map, map, all) /\ MapTyped(map) /\ Grown(map) /\ Fits(plain, map, all)
    BY <2>2, <2>7 DEF JoinedWell
  <2>9. Fits(node, map, all)
    <3>1. RowFits(node.bindings, node.means, node.cols, node.shows, map, all)
      BY <1>10, <2>8 DEF Fits
    <3>. QED  BY <1>10, <1>11, <3>1, PlainFits
  <2>10. RightReads(seen)
    BY <1>4, <2>3, TwoReads
  <2>11. Closed(A, node, all)
    BY <1>1, <1>6, <1>10, <2>2, <2>3 DEF Closed, IsFrame, NodeFields
  <2>12. Placing(work, A, index, index', Len(work) - 2, node, all)
    BY <1>0, <1>6, <1>8, <2>1, <2>11, ClosedPlaced
  <2>. QED  BY <2>2, <2>8, <2>9, <2>10, <2>12 DEF Built
<1>. QED  BY <1>6, <1>7, <1>8, <1>11, BuildKeepsFit

\* The columns of a set operation are those of its first branch, under the names of its own table.
SetOpFrom(l, scope, R, n, at, cs, b, map) ==
    /\ Fits(l, scope, R) /\ Covered(l, DOMAIN scope) /\ Real(l) /\ MapTyped(scope)
    /\ n = Len(l.bindings) /\ at \in Int
    /\ cs = Mint([i \in 1..n |-> MakeDedupedColumn(at, scope[l.bindings[i]].column_name, scope[l.bindings[i]].alias, 1)])
    /\ b = Bound(at, n) /\ map = Updated(scope, Entering(b, cs))
SetOpOf(l, scope, R, n, at, cs, b, map) ==
    /\ n \in Nat
    /\ RowFits(b, Fresh(n), NamesOf(cs), Fresh(n), map, {at})
    /\ Len(NamesOf(cs)) <= MaxColumns
    /\ Agrees(scope, map, {at}) /\ MapTyped(map)
    /\ \A x \in DOMAIN map : x \in DOMAIN scope \/ x[1] = at

LEMMA SetOpRow ==
    ASSUME serial \in Int, NEW l, NEW scope, NEW R, NEW n, NEW at, NEW cs, NEW b, NEW map,
           SetOpFrom(l, scope, R, n, at, cs, b, map)
    PROVE  SetOpOf(l, scope, R, n, at, cs, b, map)
<1>0. PICK requests :
        /\ requests = [i \in 1..n |-> MakeDedupedColumn(at, scope[l.bindings[i]].column_name, scope[l.bindings[i]].alias, 1)]
        /\ cs = Mint(requests)
  BY DEF SetOpFrom
<1>00. /\ Fits(l, scope, R) /\ Covered(l, DOMAIN scope) /\ Real(l) /\ MapTyped(scope)
       /\ n = Len(l.bindings) /\ at \in Int /\ b = Bound(at, n) /\ map = Updated(scope, Entering(b, cs))
  BY DEF SetOpFrom
<1>1. n \in Nat /\ n <= Len(l.cols) /\ Len(l.cols) \in Nat /\ Len(l.cols) <= MaxColumns /\ MaxColumns \in Nat
  BY <1>00, FitsFacts, MaxColumnsTyped
<1>2. n <= MaxColumns
  BY <1>1
<1>3. ASSUME NEW i \in 1..n PROVE RequestFor(requests[i], at)
  <2>1. l.bindings[i] \in DOMAIN scope
    BY <1>00, <1>1 DEF Covered, Real
  <2>2. scope[l.bindings[i]].column_name \in Words /\ scope[l.bindings[i]].alias \in Words
    BY <1>00, <2>1 DEF MapTyped, ColStructs
  <2>3. 1 \in 0..MaxColumns
    BY MaxColumnsTyped
  <2>4. requests[i] = MakeDedupedColumn(at, scope[l.bindings[i]].column_name, scope[l.bindings[i]].alias, 1)
    BY <1>0
  <2>. QED  BY <1>00, <2>2, <2>3, <2>4, DedupedFor
<1>4. Len(requests) = n
  BY <1>0, <1>1
<1>5. AllFor(requests, n, at)
  BY <1>1, <1>3, <1>4 DEF AllFor
<1>6. cs \in Seq(ColStructs) /\ Len(cs) = n /\ KeysApart(cs) /\ \A i \in 1..Len(cs) : cs[i].table_index = at
  BY <1>0, <1>2, <1>5, MintFor
<1>7. b \in Seq(Bindings) /\ Len(b) = n /\ NoTwice(b) /\ \A i \in 1..n : b[i][1] = at
  BY <1>00, <1>1, BoundApart
<1>8. Entered(scope, b, cs, {at})
  BY <1>00, <1>1, <1>6, <1>7 DEF Entered
<1>9. /\ \A i \in 1..n : b[i] \in DOMAIN map /\ map[b[i]] = cs[i]
      /\ Agrees(scope, map, {at}) /\ MapTyped(map)
      /\ \A x \in DOMAIN map : x \in DOMAIN scope \/ \E i \in 1..n : x = b[i]
  <2>1. /\ \A i \in 1..Len(b) : b[i] \in DOMAIN map /\ map[b[i]] = cs[i]
        /\ Agrees(scope, map, {at}) /\ MapTyped(map)
        /\ \A x \in DOMAIN map : x \in DOMAIN scope \/ \E i \in 1..Len(b) : x = b[i]
    BY <1>00, <1>8, EnteredMap
  <2>. QED  BY <1>7, <2>1
<1>10. PICK s : s = Fresh(n)
  OBVIOUS
<1>11. s \in Seq(Columns) /\ Len(s) = n /\ Holds(s, s)
  BY <1>1, <1>10, FreshHolds
<1>12. NewColumns(b, s, cs, s, map, {at})
  <2>1. /\ Len(b) \in Nat /\ Len(s) = Len(b) /\ Len(b) <= Len(cs)
        /\ \A i \in 1..Len(cs) : cs[i].table_index \in {at}
        /\ \A i \in 1..Len(b) : b[i][1] \in {at} /\ map[b[i]] = cs[i]
    BY <1>1, <1>6, <1>7, <1>9, <1>11
  <2>. QED  BY <1>6, <1>11, <2>1 DEF NewColumns
<1>13. RowFits(b, s, NamesOf(cs), s, map, {at})
  BY <1>12, FreshRow
<1>14. Len(NamesOf(cs)) = n
  BY <1>6, LengthOfNames
<1>15. \A x \in DOMAIN map : x \in DOMAIN scope \/ x[1] = at
  BY <1>7, <1>9
<1>. QED  BY <1>1, <1>2, <1>9, <1>10, <1>13, <1>14, <1>15 DEF SetOpOf

\* Both branches hold what the plan means at each position.
Branch(l, map, P, n) == Fits(l, map, P) /\ Covered(l, DOMAIN map) /\ Real(l) /\ n = Len(l.bindings)

LEMMA BranchHolds ==
    ASSUME NEW l, NEW map, NEW P, NEW n, Branch(l, map, P, n)
    PROVE  \A i \in 1..n : l.shows[i] = l.means[i]
<1>1. Len(l.means) = n /\ Holds(l.means, l.shows) /\ l.means \in Seq(Columns)
  BY FitsFacts DEF Branch
<1>. QED  BY <1>1 DEF Branch, Holds, Real

LEMMA SetOpRightFits ==
    ASSUME FitInv, BuilderInv', NEW kind \in SetOps, SetOpRight(kind)
    PROVE  FitInv'
<1>0. BuilderInv
  BY DEF FitInv
<1>1. PICK f, l, r, n, at : /\ f = Below /\ l = f.node /\ r = Top /\ n = Len(l.bindings)
                            /\ at = IF f.next > index THEN f.next ELSE index
  OBVIOUS
<1>2. PICK cs : cs = Mint([i \in 1..n |-> MakeDedupedColumn(at, f.scope[l.bindings[i]].column_name, f.scope[l.bindings[i]].alias, 1)])
  OBVIOUS
<1>3. PICK b, map, shows, seen :
        /\ b = Bound(at, n) /\ map = Updated(f.scope, Entering(b, cs))
        /\ shows = [i \in 1..n |-> IF l.shows[i] = l.means[i] /\ r.shows[i] = r.means[i] THEN <<serial, i>> ELSE None]
        /\ seen = ReadByPosition(l) \cup ReadByPosition(r)
  OBVIOUS
<1>4. PICK node : IsBinary(node, "SetOp", l, r, b, Fresh(n), NamesOf(cs), shows)
  BY DEF IsBinary
<1>5. /\ Closes(kind) /\ Len(r.bindings) = n /\ Real(r) /\ index' = at + 1
      /\ Build(2, {}, node, map, seen) /\ Named
  <2>1. Closes(kind) /\ Len(r.bindings) = n /\ Real(r) /\ index' = at + 1 /\ Named
    BY ONLY <1>1, SetOpRight(kind), Zenon DEF SetOpRight
  <2>2. Build(2, {}, node, map, seen)
    BY ONLY <1>1, <1>2, <1>3, <1>4, SetOpRight(kind), Zenon DEF SetOpRight, IsBinary
  <2>. QED  BY <2>1, <2>2
<1>6. /\ 2 \in 0..Len(work) /\ Len(work) \in 1..Len(work) /\ Len(work) - 1 \in 1..Len(work) /\ Len(work) \in Nat
      /\ ~IsFrame(r) /\ Covered(r, DOMAIN column_map) /\ r = work[Len(work)]
      /\ f = work[Len(work) - 1] /\ IsFrame(f) /\ f.kind = kind /\ FrameTyped(f)
      /\ Covered(l, DOMAIN f.scope) /\ index \in Int /\ serial \in Int
  BY <1>0, <1>1, <1>5, ClosedStack
<1>7. at \in Int /\ index <= at /\ f.next <= at /\ f.next \in Int /\ index' \in Int /\ at < index'
  BY <1>1, <1>5, <1>6 DEF FrameTyped
<1>8. Later /\ at \in New
  <2>1. PICK i \in Int, j \in Int, k \in Int : i = index /\ j = index' /\ k = at /\ i <= k /\ k < j
    BY <1>6, <1>7
  <2>2. New = i..(j - 1)
    BY <2>1 DEF New
  <2>3. \A p, q, t \in Int : p <= t /\ t < q => t \in p..(q - 1) /\ p <= q
    OBVIOUS
  <2>. QED  BY <2>1, <2>2, <2>3 DEF Later
<1>9. /\ DOMAIN node = NodeFields /\ node.bindings = b /\ node.means = Fresh(n) /\ node.cols = NamesOf(cs)
      /\ node.shows = shows /\ node.stale = {} /\ node.extra = {}
      /\ node.from = l.from /\ node.delims = l.delims \cup r.delims
  BY <1>4, BinaryNode
<1>10. IsSetOp(f) /\ ~IsFrame(node)
  BY <1>6, <1>9 DEF IsSetOp, IsFrame, NodeFields
<1>11. ASSUME NEW A, Truth(A)
       PROVE  /\ Building(Len(work) - 2, node, map, A, {at}, Len(work) - 1, f.scope, seen)
              /\ \A x \in DOMAIN map : x \in DOMAIN f.scope \/ x[1] = at
  <2>1. Fits(r, column_map, A[Len(work)])
    BY <1>0, <1>6, <1>11, AreaFacts
  <2>2. AllFit(work, Len(work) - 1, f.scope, A, delim_get_source_col_names, materialized_cte_body_column_names)
    BY <1>6, <1>10, <1>11 DEF Truth, Sound, ScopesFit
  <2>3. MapTyped(f.scope)
    BY <2>2 DEF AllFit
  <2>4. Fits(l, f.scope, A[Len(work) - 1]) /\ Real(l)
    <3>1. ItemFits(work, Len(work) - 1, Len(work), column_map, A, delim_get_source_col_names, materialized_cte_body_column_names)
      BY <1>6, <1>11 DEF Truth, Sound, AllFit
    <3>. QED  BY <1>1, <1>6, <1>10, <3>1 DEF ItemFits
  <2>5. /\ n \in Nat
        /\ RowFits(b, Fresh(n), NamesOf(cs), Fresh(n), map, {at})
        /\ Len(NamesOf(cs)) <= MaxColumns
        /\ Agrees(f.scope, map, {at}) /\ MapTyped(map)
        /\ \A x \in DOMAIN map : x \in DOMAIN f.scope \/ x[1] = at
    <3>1. PICK R : R = A[Len(work) - 1]
      OBVIOUS
    <3>2. SetOpFrom(l, f.scope, R, n, at, cs, b, map)
      BY <1>1, <1>2, <1>3, <1>6, <1>7, <2>3, <2>4, <3>1 DEF SetOpFrom
    <3>3. SetOpOf(l, f.scope, R, n, at, cs, b, map)
      BY <1>6, <3>2, SetOpRow
    <3>. QED  BY <3>3 DEF SetOpOf
  <2>6. shows = Fresh(n)
    <3>1. Branch(l, f.scope, A[Len(work) - 1], n)
      BY <1>1, <1>6, <2>4 DEF Branch
    <3>2. Branch(r, column_map, A[Len(work)], n)
      BY <1>5, <1>6, <2>1 DEF Branch
    <3>3. \A i \in 1..n : l.shows[i] = l.means[i]
      BY <3>1, BranchHolds
    <3>4. \A i \in 1..n : r.shows[i] = r.means[i]
      BY <3>2, BranchHolds
    <3>5. shows = [i \in 1..n |-> <<serial, i>>]
      BY <1>3, <3>3, <3>4
    <3>. QED  BY <3>5 DEF Fresh
  <2>7. Fits(node, map, {at})
    BY <1>9, <2>5, <2>6, PlainFits
  <2>8. RightReads(seen)
    <3>1. RightReads(ReadByPosition(l))
      BY <1>6, <2>4, PositionsRead
    <3>2. RightReads(ReadByPosition(r))
      BY <1>5, <1>6, <2>1, PositionsRead
    <3>. QED  BY <1>3, <3>1, <3>2 DEF RightReads
  <2>9. Closed(A, node, {at})
    BY <1>1, <1>8, <1>9, <1>10 DEF Closed
  <2>10. Placing(work, A, index, index', Len(work) - 2, node, {at})
    BY <1>0, <1>5, <1>8, <1>11, <2>9, ClosedPlaced
  <2>11. Len(work) - 1 \in (Len(work) - 2)..Len(work)
    BY <1>6
  <2>. QED  BY <2>2, <2>5, <2>7, <2>8, <2>10, <2>11 DEF Building
<1>12. menu' = menu
  BY <1>5 DEF Build
<1>13. CASE ~ColumnsOfItsOwn
  BY <1>12, <1>13 DEF FitInv, ColumnsOfItsOwn
<1>14. CASE ColumnsOfItsOwn
  <2>1. PICK A : Truth(A)
    BY <1>14 DEF FitInv, Faithful
  <2>2. RightReads(reads)
    BY <1>14 DEF FitInv, Faithful
  <2>3. Building(Len(work) - 2, node, map, A, {at}, Len(work) - 1, f.scope, seen)
    BY <1>11, <2>1
  <2>4. Faithful'
    BY <1>0, <1>5, <1>6, <1>8, <2>1, <2>2, <2>3, BuildFits DEF Later
  <2>5. ASSUME "Reuse" \notin menu.kinds PROVE FreshIn(work, index, column_map)'
    <3>1. FreshIn(work, index, column_map)
      BY <1>14, <2>5 DEF FitInv
    <3>2. \A x \in DOMAIN f.scope : x[1] \in Int /\ x[1] < f.next
      BY <1>6, <1>10, <3>1 DEF FreshIn
    <3>3. \A x \in DOMAIN map : x \in DOMAIN f.scope \/ x[1] = at
      BY <1>11, <2>1
    <3>4. \A x \in DOMAIN map : x \in DOMAIN column_map \/ (x[1] \in Int /\ x[1] < index')
      BY <1>7, <3>2, <3>3
    <3>. QED  BY <1>0, <1>5, <1>6, <1>8, <1>10, <3>1, <3>4, BuildFresh DEF Later
  <2>. QED  BY <1>12, <1>14, <2>4, <2>5 DEF FitInv, ColumnsOfItsOwn
<1>. QED  BY <1>13, <1>14

-----------------------------------------------------------------------------
(* Operators that are entered.                                             *)

\* v is w with the operator f entered, whose first subtree is the last item of w.
Opening(v, w, f) ==
    /\ Len(w) \in Nat /\ Len(w) > 0 /\ Len(v) = Len(w) /\ v[Len(w)] = f /\ \A i \in 1..(Len(w) - 1) : v[i] = w[i]
    /\ IsFrame(f) /\ NodeOf(f) = w[Len(w)] /\ ~IsFrame(w[Len(w)])
\* The tables it takes are new; a set operation may start again from the first table of its subtree.
Takes(f, ix, iy) ==
    /\ ix \in Int /\ iy \in Int
    /\ IF IsSetOp(f) THEN iy = ix \/ iy = NodeOf(f).from
       ELSE ix <= iy /\ \A t \in Held(f) : t \in Int /\ ix <= t /\ t < iy

LEMMA OpeningSame ==
    ASSUME NEW w, NEW v, NEW f, Opening(v, w, f), NEW A
    PROVE  /\ \A j \in 1..Len(w) : NodeOf(v[j]) = NodeOf(w[j])
           /\ \A i \in 1..Len(w) : i # Len(w) => v[i] = w[i] /\ Area(v, A, i) = Area(w, A, i)
           /\ Held(w[Len(w)]) = {} /\ v[Len(w)] = f /\ Len(v) = Len(w) /\ Len(w) \in 1..Len(w)
           /\ Area(v, A, Len(w)) \subseteq Area(w, A, Len(w)) /\ (IsSetOp(f) => Area(v, A, Len(w)) = {} /\ Held(f) = {})
<1>1. PICK n \in Nat : n = Len(w)
  BY DEF Opening
<1>2. n \in 1..n /\ \A i \in 1..n : i # n => i \in 1..(n - 1)
  BY <1>1 DEF Opening
<1>3. NodeOf(w[n]) = w[n] /\ Held(w[n]) = {} /\ ~IsSetOp(w[n])
  BY <1>1 DEF Opening, NodeOf, Held, IsSetOp
<1>4. v[n] = f /\ NodeOf(f) = w[n] /\ \A i \in 1..n : i # n => v[i] = w[i]
  BY <1>1, <1>2 DEF Opening
<1>5. \A j \in 1..n : NodeOf(v[j]) = NodeOf(w[j])
  BY <1>3, <1>4
<1>6. \A i \in 1..n : i # n => Area(v, A, i) = Area(w, A, i)
  BY <1>4 DEF Area
<1>7. Area(v, A, n) \subseteq Area(w, A, n) /\ (IsSetOp(f) => Area(v, A, n) = {} /\ Held(f) = {})
  BY <1>3, <1>4 DEF Area, Held
<1>8. Len(v) = n
  BY <1>1 DEF Opening
<1>. QED  BY <1>1, <1>2, <1>3, <1>4, <1>5, <1>6, <1>7, <1>8

LEMMA OpeningLayout ==
    ASSUME NEW w, NEW v, NEW f, Opening(v, w, f), NEW A, NEW ix, NEW iy, Layout(w, A, ix), Takes(f, ix, iy)
    PROVE  Layout(v, A, iy)
<1>0. PICK n \in Nat : n = Len(w) /\ n > 0
  BY DEF Opening
<1>1. /\ \A j \in 1..n : NodeOf(v[j]) = NodeOf(w[j])
      /\ \A i \in 1..n : i # n => v[i] = w[i] /\ Area(v, A, i) = Area(w, A, i)
      /\ Held(w[n]) = {} /\ v[n] = f /\ Len(v) = n /\ n \in 1..n
      /\ Area(v, A, n) \subseteq Area(w, A, n) /\ (IsSetOp(f) => Area(v, A, n) = {} /\ Held(f) = {})
  <2>1. /\ \A j \in 1..Len(w) : NodeOf(v[j]) = NodeOf(w[j])
        /\ \A i \in 1..Len(w) : i # Len(w) => v[i] = w[i] /\ Area(v, A, i) = Area(w, A, i)
        /\ Held(w[Len(w)]) = {} /\ v[Len(w)] = f /\ Len(v) = Len(w) /\ Len(w) \in 1..Len(w)
        /\ Area(v, A, Len(w)) \subseteq Area(w, A, Len(w)) /\ (IsSetOp(f) => Area(v, A, Len(w)) = {} /\ Held(f) = {})
    BY ONLY Opening(v, w, f), OpeningSame
  <2>. QED  BY <1>0, <2>1
<1>2. /\ \A i \in 1..n : \A t \in Area(w, A, i) \cup Held(w[i]) :
            t \in Int /\ t < ix /\ \A j \in (i + 1)..n : t < NodeOf(w[j]).from
      /\ \A i, j \in 1..n : \A t \in Area(w, A, i) : t \in Area(w, A, j) => i = j
      /\ \A k, i \in 1..n : \A t \in Held(w[k]) :
            /\ t \in Held(w[i]) => i = k
            /\ t \in Area(w, A, i) => i > k /\ w[k].kind = "DelimJoin" /\ t \in NodeOf(w[i]).delims
  BY <1>0 DEF Layout
<1>3. \A i \in 1..n : Area(v, A, i) \subseteq Area(w, A, i)
  BY <1>1
<1>4. ASSUME NEW i \in 1..n, NEW t \in Area(v, A, i) \cup Held(v[i])
      PROVE  t \in Int /\ t < iy /\ \A j \in (i + 1)..n : t < NodeOf(v[j]).from
  <2>1. CASE i # n
    <3>1. t \in Area(w, A, i) \cup Held(w[i])
      BY <1>1, <1>4, <2>1
    <3>2. t \in Int /\ t < ix /\ \A j \in (i + 1)..n : t < NodeOf(w[j]).from
      BY <1>2, <3>1
    <3>3. n \in (i + 1)..n /\ t < NodeOf(w[n]).from /\ NodeOf(w[n]) = NodeOf(f)
      <4>1. n \in (i + 1)..n
        BY <2>1
      <4>. QED  BY <1>1, <3>2, <4>1
    <3>4. t < iy
      BY <3>2, <3>3 DEF Takes
    <3>5. \A j \in (i + 1)..n : j \in 1..n
      OBVIOUS
    <3>. QED  BY <1>1, <3>2, <3>4, <3>5
  <2>2. CASE i = n
    <3>1. \A j \in (i + 1)..n : FALSE
      BY <2>2
    <3>2. ~IsSetOp(f)
      BY <1>1, <1>4, <2>2
    <3>3. CASE t \in Held(f)
      BY <3>1, <3>2, <3>3 DEF Takes
    <3>4. CASE t \in Area(w, A, n)
      BY <1>1, <1>2, <3>1, <3>2, <3>4 DEF Takes
    <3>. QED  BY <1>1, <1>4, <2>2, <3>3, <3>4
  <2>. QED  BY <2>1, <2>2
<1>5. \A i, j \in 1..n : \A t \in Area(v, A, i) : t \in Area(v, A, j) => i = j
  BY <1>2, <1>3
<1>6. ASSUME NEW k \in 1..n, NEW i \in 1..n, NEW t \in Held(v[k])
      PROVE  /\ t \in Held(v[i]) => i = k
             /\ t \in Area(v, A, i) => i > k /\ v[k].kind = "DelimJoin" /\ t \in NodeOf(v[i]).delims
  <2>0. \A s \in Held(f) : s \in Int /\ ix <= s /\ ix \in Int
    BY <1>1 DEF Takes
  <2>1. CASE k # n
    <3>1. t \in Held(w[k]) /\ v[k] = w[k] /\ t \in Int /\ t < ix
      BY <1>1, <1>2, <1>6, <2>1
    <3>2. t \notin Held(f)
      BY <2>0, <3>1
    <3>3. t \in Held(v[i]) => i = k
      BY <1>1, <1>2, <3>1, <3>2
    <3>4. t \in Area(v, A, i) => i > k /\ v[k].kind = "DelimJoin" /\ t \in NodeOf(v[i]).delims
      BY <1>1, <1>2, <1>3, <3>1
    <3>. QED  BY <3>3, <3>4
  <2>2. CASE k = n
    <3>1. t \in Int /\ ix <= t /\ ix \in Int
      BY <1>1, <1>6, <2>0, <2>2
    <3>2. t \notin Area(v, A, i)
      BY <1>2, <1>3, <3>1
    <3>3. i # n => t \notin Held(v[i])
      BY <1>1, <1>2, <3>1
    <3>. QED  BY <2>2, <3>2, <3>3
  <2>. QED  BY <2>1, <2>2
<1>. QED  BY <1>1, <1>4, <1>5, <1>6 DEF Layout

\* What an operator hands to its second subtree has names there.
Handing(f, map, sources, copies) ==
    IF IsSetOp(f) THEN Real(f.node)
    ELSE IF f.kind = "DelimJoin" THEN Promises(f, map, {}, sources) ELSE HandedOn(f, map, copies)
\* The map differs, and more is written down, for the tables Q only, which are new.
Newer(ix, map, other, Q, sources, others, copies, more) ==
    /\ ix \in Int /\ \A t \in Q : t \in Int /\ ix <= t
    /\ Agrees(map, other, Q) /\ MapTyped(other)
    /\ \A t \in Int : t \notin Q => SameAt(t, sources, others) /\ SameAt(t, copies, more)

LEMMA OpeningFits ==
    ASSUME NEW w, NEW v, NEW f, Opening(v, w, f), NodesTyped(w), NEW A, NEW ix, Layout(w, A, ix),
           NEW map, NEW other, NEW Q, NEW sources, NEW others, NEW copies, NEW more,
           Newer(ix, map, other, Q, sources, others, copies, more),
           AllFit(w, Len(w), map, A, sources, copies), IsSetOp(f) => f.scope = map, Handing(f, other, others, more)
    PROVE  AllFit(v, Len(w), other, A, others, more) /\ SameFor(w, Len(w), sources, others, copies, more)
<1>0. PICK n \in Nat : n = Len(w) /\ n > 0
  BY DEF Opening
<1>1. /\ \A j \in 1..n : NodeOf(v[j]) = NodeOf(w[j])
      /\ \A i \in 1..n : i # n => v[i] = w[i] /\ Area(v, A, i) = Area(w, A, i)
      /\ v[n] = f /\ n \in 1..n
  <2>1. /\ \A j \in 1..Len(w) : NodeOf(v[j]) = NodeOf(w[j])
        /\ \A i \in 1..Len(w) : i # Len(w) => v[i] = w[i] /\ Area(v, A, i) = Area(w, A, i)
        /\ Held(w[Len(w)]) = {} /\ v[Len(w)] = f /\ Len(v) = Len(w) /\ Len(w) \in 1..Len(w)
        /\ Area(v, A, Len(w)) \subseteq Area(w, A, Len(w)) /\ (IsSetOp(f) => Area(v, A, Len(w)) = {} /\ Held(f) = {})
    BY ONLY Opening(v, w, f), OpeningSame
  <2>. QED  BY <1>0, <2>1
<1>2. IsFrame(f) /\ NodeOf(f) = w[n] /\ ~IsFrame(w[n])
  BY <1>0 DEF Opening
<1>3. \A i \in 1..n : \A t \in Area(w, A, i) \cup Held(w[i]) : t \in Int /\ t < ix
  BY <1>0 DEF Layout
<1>4. \A i \in 1..n : \A t \in Area(w, A, i) \cup Held(w[i]) : t \in Int /\ t \notin Q
  BY <1>3 DEF Newer
<1>5. \A i \in 1..n : \A t \in Held(w[i]) : SameAt(t, sources, others) /\ SameAt(t, copies, more)
  BY <1>4 DEF Newer
<1>6. ASSUME NEW i \in 1..n, i # n PROVE ItemFits(v, i, n, other, A, others, more)
  <2>1. ItemFits(w, i, n, map, A, sources, copies) /\ Len(NodeOf(w[i]).bindings) \in Nat
    BY <1>0 DEF AllFit, NodesTyped
  <2>2. Used(v, i, n) = Used(w, i, n)
    <3>1. \A j \in (i + 1)..n : j \in 1..n
      OBVIOUS
    <3>. QED  BY <1>1, <3>1 DEF Used
  <2>3. HeldStays(w, v, i, n, n, Q)
    BY <1>4, <2>2 DEF HeldStays
  <2>4. v[i] = w[i] /\ \A t \in Area(w, A, i) : t \notin Q
    BY <1>1, <1>4, <1>6
  <2>5. Stays(w, v, i, n, n, A, A, map, other, Q, sources, others, copies, more)
    BY <1>5, <2>1, <2>3, <2>4 DEF Stays, Newer
  <2>. QED  BY <2>1, <2>5, ItemFitsAgree
<1>7. ItemFits(v, n, n, other, A, others, more)
  <2>1. NodeOf(w[n]) = w[n] /\ f.node = w[n] /\ Area(w, A, n) = A[n] /\ ~IsSetOp(w[n])
    BY <1>2 DEF NodeOf, Area, IsSetOp
  <2>2. Fits(w[n], map, A[n])
    <3>1. ItemFits(w, n, n, map, A, sources, copies)
      BY <1>0, <1>1 DEF AllFit
    <3>. QED  BY <2>1, <3>1 DEF ItemFits
  <2>3. CASE IsSetOp(f)
    BY <1>1, <2>1, <2>2, <2>3 DEF ItemFits, Handing
  <2>4. CASE ~IsSetOp(f)
    <3>1. A[n] \cap Q = {} /\ Len(w[n].bindings) \in Nat
      BY <1>0, <1>1, <1>4, <2>1 DEF NodesTyped
    <3>2. Fits(w[n], other, A[n])
      BY <2>2, <3>1, FitsAgree DEF Newer
    <3>3. Used(v, n, n) = {}
      <4>1. \A j \in (n + 1)..n : FALSE
        OBVIOUS
      <4>. QED  BY <4>1 DEF Used
    <3>. QED  BY <1>1, <1>2, <2>4, <3>2, <3>3 DEF ItemFits, Handing
  <2>. QED  BY <2>3, <2>4
<1>8. AllFit(v, n, other, A, others, more)
  BY <1>6, <1>7 DEF AllFit, Newer
<1>. QED  BY <1>0, <1>5, <1>8 DEF SameFor

LEMMA OpeningSound ==
    ASSUME NEW w, NEW v, NEW f, Opening(v, w, f), NodesTyped(w), NEW A, NEW ix, NEW iy, Takes(f, ix, iy),
           NEW map, NEW other, NEW Q, NEW sources, NEW others, NEW copies, NEW more,
           Newer(ix, map, other, Q, sources, others, copies, more),
           Sound(w, A, ix, map, sources, copies), IsSetOp(f) => f.scope = map /\ other = map, Handing(f, other, others, more)
    PROVE  Sound(v, A, iy, other, others, more)
<1>0. PICK n \in Nat, m \in Nat : n = Len(w) /\ n > 0 /\ m = n - 1
  <2>1. Len(w) \in Nat /\ Len(w) - 1 \in Nat
    BY DEF Opening
  <2>. QED  BY <2>1 DEF Opening
<1>1. Layout(w, A, ix) /\ AllFit(w, n, map, A, sources, copies) /\ ScopesFit(w, A, sources, copies)
  BY <1>0 DEF Sound
<1>2. Layout(v, A, iy)
  BY <1>1, OpeningLayout
<1>3. AllFit(v, n, other, A, others, more) /\ SameFor(w, n, sources, others, copies, more)
  BY <1>0, <1>1, OpeningFits
<1>4. Len(v) = n /\ v[n] = f /\ SamePrefix(v, w, A, A, m)
  BY <1>0 DEF Opening, SamePrefix
<1>5. SameFor(w, m, sources, others, copies, more)
  <2>1. \A i \in 1..m : i \in 1..n
    BY <1>0
  <2>. QED  BY <1>3, <2>1 DEF SameFor
<1>6. ASSUME NEW k \in 1..n, IsSetOp(v[k]) PROVE AllFit(v, k, v[k].scope, A, others, more)
  <2>1. CASE k = n
    BY <1>3, <1>4, <1>6, <2>1
  <2>2. CASE k # n
    <3>1. k \in 1..m /\ m <= Len(w) /\ Len(w) \in Nat
      BY <1>0, <2>2
    <3>. QED  BY <1>1, <1>4, <1>5, <1>6, <3>1, ScopesFitPrefix
  <2>. QED  BY <2>1, <2>2
<1>7. ScopesFit(v, A, others, more)
  BY <1>4, <1>6 DEF ScopesFit
<1>. QED  BY <1>2, <1>3, <1>4, <1>7 DEF Sound

\* What is to be shown of an operator that is entered.
Entry(frame, map) ==
    /\ Newer(index, column_map, map, New, delim_get_source_col_names, delim_get_source_col_names',
             materialized_cte_body_column_names, materialized_cte_body_column_names')
    /\ IsSetOp(frame) => map = column_map
    /\ Handing(frame, map, delim_get_source_col_names', materialized_cte_body_column_names')
    /\ Grown(map)

LEMMA OpensFits ==
    ASSUME FitInv, BuilderInv', Finished(1),
           NEW kind, NEW at, NEW keys, NEW promised, NEW frame, frame = Frame(kind, Top, at, keys, promised), NEW map,
           Opens(kind, frame, map), Takes(frame, index, index'), index <= index' \/ "Reuse" \in menu.kinds,
           ColumnsOfItsOwn => \A R : OverTop(R) => Entry(frame, map)
    PROVE  FitInv'
<1>0. BuilderInv
  BY DEF FitInv
<1>1. /\ NodesTyped(work) /\ Len(work) \in Nat /\ IsStack(work) /\ index \in Int
      /\ Len(work) \in 1..Len(work) /\ Top = work[Len(work)] /\ ~IsFrame(Top) /\ 1 \in 0..Len(work)
  BY <1>0, NodesTypedNow, TopFacts
<1>2. /\ IsFrame(frame) /\ NodeOf(frame) = Top /\ frame.scope = column_map /\ frame.next = index
  BY FrameFacts
<1>3. Replaced(work', work, 1, frame) /\ column_map' = map /\ menu' = menu /\ reads' = {}
  BY DEF Opens, Replaced, Front
<1>4. Opening(work', work, frame)
  <2>1. /\ Len(work') = Len(work) - 1 + 1 /\ work'[Len(work')] = frame
        /\ \A i \in 1..(Len(work) - 1) : work'[i] = work[i]
    BY <1>1, <1>3, Stacked
  <2>2. Len(work') = Len(work) /\ Len(work) > 0
    BY <1>1, <2>1
  <2>. QED  BY <1>1, <1>2, <2>1, <2>2 DEF Opening
<1>5. CASE ~ColumnsOfItsOwn
  BY <1>3, <1>5 DEF FitInv, ColumnsOfItsOwn
<1>6. CASE ColumnsOfItsOwn
  <2>1. PICK A : Truth(A)
    BY <1>6 DEF FitInv, Faithful
  <2>2. OverTop(A[Len(work)])
    BY <1>0, <1>1, <2>1, AreaFacts DEF OverTop
  <2>3. Entry(frame, map)
    BY <1>6, <2>2
  <2>4. Truth(A)'
    <3>1. Sound(work, A, index, column_map, delim_get_source_col_names, materialized_cte_body_column_names)
      BY <2>1 DEF Truth
    <3>2. /\ Newer(index, column_map, map, New, delim_get_source_col_names, delim_get_source_col_names',
                   materialized_cte_body_column_names, materialized_cte_body_column_names')
          /\ IsSetOp(frame) => frame.scope = column_map /\ map = column_map
          /\ Handing(frame, map, delim_get_source_col_names', materialized_cte_body_column_names')
      BY <1>2, <2>3 DEF Entry
    <3>3. Sound(work', A, index', map, delim_get_source_col_names', materialized_cte_body_column_names')
      BY <1>1, <1>4, <3>1, <3>2, OpeningSound
    <3>. QED  BY <1>3, <3>3 DEF Truth
  <2>5. Faithful'
    BY <1>3, <2>4, NothingRead DEF Faithful, RightReads
  <2>6. ASSUME "Reuse" \notin menu.kinds PROVE FreshIn(work, index, column_map)'
    <3>1. FreshIn(work, index, column_map) /\ index <= index' /\ index' \in Int
      BY <1>6, <2>6 DEF FitInv, Takes
    <3>2. \A b \in DOMAIN map : b[1] \in Int /\ b[1] < index'
      BY <1>1, <2>3, <3>1 DEF FreshIn, Entry, Grown
    <3>3. ASSUME NEW k \in 1..Len(work'), IsSetOp(work'[k])
          PROVE  \A b \in DOMAIN work'[k].scope : b[1] \in Int /\ b[1] < work'[k].next
      <4>1. Len(work') = Len(work) /\ work'[Len(work)] = frame
        BY <1>4 DEF Opening
      <4>2. CASE k = Len(work)
        BY <1>2, <3>1, <4>1, <4>2 DEF FreshIn
      <4>3. CASE k # Len(work)
        <5>1. k \in 1..(Len(work) - 1) /\ k \in 1..Len(work)
          BY <1>1, <4>1, <4>3
        <5>2. work'[k] = work[k]
          BY <1>4, <5>1 DEF Opening
        <5>. QED  BY <3>1, <3>3, <5>1, <5>2 DEF FreshIn
      <4>. QED  BY <4>2, <4>3
    <3>. QED  BY <1>3, <3>2, <3>3 DEF FreshIn
  <2>. QED  BY <1>3, <1>6, <2>5, <2>6 DEF FitInv, ColumnsOfItsOwn
<1>. QED  BY <1>5, <1>6

\* Names that are left as they are.
LEMMA NothingNewer ==
    ASSUME index \in Int, index' \in Int, MapTyped(column_map), Named
    PROVE  Newer(index, column_map, column_map, New, delim_get_source_col_names, delim_get_source_col_names',
                 materialized_cte_body_column_names, materialized_cte_body_column_names')
<1>1. \A t \in New : t \in Int /\ index <= t
  BY DEF New
<1>2. /\ delim_get_source_col_names' = delim_get_source_col_names
      /\ materialized_cte_body_column_names' = materialized_cte_body_column_names
  BY DEF Named
<1>3. Agrees(column_map, column_map, New)
  BY DEF Agrees
<1>. QED  BY <1>1, <1>2, <1>3 DEF Newer, SameAt

LEMMA SetOpLeftFits ==
    ASSUME FitInv, BuilderInv', NEW kind \in SetOps, NEW reuse \in {r \in BOOLEAN : r => "Reuse" \in menu.kinds},
           SetOpLeft(kind, reuse)
    PROVE  FitInv'
<1>0. BuilderInv
  BY DEF FitInv
<1>1. PICK frame, width :
        /\ frame = Frame(kind, Top, 0, << >>, {}) /\ width = IF reuse THEN 0 - (index - Top.from) ELSE 0
  OBVIOUS
<1>2. /\ Starts(kind, width) /\ Finished(1) /\ Real(Top)
      /\ Opens(kind, frame, column_map) /\ Named
  BY ONLY <1>1, SetOpLeft(kind, reuse), Zenon DEF SetOpLeft
<1>3. index \in Int /\ Top.from \in Int
  BY <1>0, <1>2, TopFacts DEF BuilderInv, Covered
<1>4. index' = index + width
  BY <1>2 DEF Starts
<1>5. index' = (IF reuse THEN Top.from ELSE index) /\ index' \in Int
  BY <1>1, <1>3, <1>4
<1>6. /\ IsFrame(frame) /\ NodeOf(frame) = Top /\ frame.node = Top /\ frame.kind = kind
  BY <1>1, FrameFacts
<1>7. IsSetOp(frame)
  BY <1>6 DEF IsSetOp
<1>8. Takes(frame, index, index')
  BY <1>3, <1>5, <1>6, <1>7 DEF Takes
<1>9. index <= index' \/ "Reuse" \in menu.kinds
  BY <1>3, <1>5
<1>10. ASSUME NEW R, OverTop(R) PROVE Entry(frame, column_map)
  <2>1. MapTyped(column_map)
    BY <1>10 DEF OverTop
  <2>2. Newer(index, column_map, column_map, New, delim_get_source_col_names, delim_get_source_col_names',
              materialized_cte_body_column_names, materialized_cte_body_column_names')
    BY <1>2, <1>3, <1>5, <2>1, NothingNewer
  <2>3. Handing(frame, column_map, delim_get_source_col_names', materialized_cte_body_column_names')
    BY <1>2, <1>6, <1>7 DEF Handing
  <2>. QED  BY <2>2, <2>3 DEF Entry, Grown
<1>. QED  BY <1>1, <1>2, <1>8, <1>9, <1>10, OpensFits

\* What is written down for the table t.
LEMMA WrittenDown ==
    ASSUME NEW t, NEW v, NEW old, NEW new, new = Updated(old, [u \in {t} |-> v])
    PROVE  t \in DOMAIN new /\ new[t] = v /\ \A u : u # t => SameAt(u, old, new)
  BY DEF Updated, SameAt

\* The columns of a body are handed to its references.
LEMMA BodyWritten ==
    ASSUME BuilderInv, index' = index + 1, NEW kind \in {"MaterializedCte", "RecursiveCte"},
           NEW frame, frame = Frame(kind, Top, index, << >>, {}),
           materialized_cte_body_column_names' = Updated(materialized_cte_body_column_names, [ti \in {index} |-> Top.cols]),
           UNCHANGED delim_get_source_col_names, NEW map, Agrees(column_map, map, New), MapTyped(map)
    PROVE  /\ ~IsSetOp(frame) /\ Takes(frame, index, index') /\ Later
           /\ frame.kind = kind /\ frame.at = index /\ frame.node = Top
           /\ Newer(index, column_map, map, New, delim_get_source_col_names, delim_get_source_col_names',
                    materialized_cte_body_column_names, materialized_cte_body_column_names')
           /\ index \in DOMAIN materialized_cte_body_column_names' /\ materialized_cte_body_column_names'[index] = Top.cols
<1>0. index \in Int
  BY DEF BuilderInv
<1>1. index \in Int /\ index' \in Int /\ index <= index' /\ index < index'
  BY <1>0
<1>2. /\ IsFrame(frame) /\ frame.kind = kind /\ frame.at = index /\ frame.node = Top
  BY FrameFacts
<1>3. ~IsSetOp(frame) /\ Held(frame) = {index}
  BY <1>2 DEF IsSetOp, SetOps, Held
<1>4. Takes(frame, index, index')
  BY <1>1, <1>3 DEF Takes
<1>5. New = {index}
  BY <1>1 DEF New
<1>6. /\ index \in DOMAIN materialized_cte_body_column_names' /\ materialized_cte_body_column_names'[index] = Top.cols
      /\ \A u : u # index => SameAt(u, materialized_cte_body_column_names, materialized_cte_body_column_names')
  <2>1. PICK old, new, t, v :
            /\ old = materialized_cte_body_column_names /\ new = materialized_cte_body_column_names'
            /\ t = index /\ v = Top.cols
    OBVIOUS
  <2>2. new = Updated(old, [u \in {t} |-> v])
    BY <2>1
  <2>3. t \in DOMAIN new /\ new[t] = v /\ \A u : u # t => SameAt(u, old, new)
    BY ONLY <2>2, WrittenDown
  <2>. QED  BY <2>1, <2>3
<1>7. Newer(index, column_map, map, New, delim_get_source_col_names, delim_get_source_col_names',
            materialized_cte_body_column_names, materialized_cte_body_column_names')
  BY <1>1, <1>5, <1>6 DEF Newer, SameAt
<1>. QED  BY <1>1, <1>2, <1>3, <1>4, <1>6, <1>7 DEF Later

LEMMA CteBodyFits ==
    ASSUME FitInv, BuilderInv', CteBody
    PROVE  FitInv'
<1>0. BuilderInv
  BY DEF FitInv
<1>1. PICK frame, kind : frame = Frame("MaterializedCte", Top, index, << >>, {}) /\ kind = "MaterializedCte"
  OBVIOUS
<1>2. /\ Unary(kind, 1) /\ Opens(kind, frame, column_map)
      /\ materialized_cte_body_column_names' = Updated(materialized_cte_body_column_names, [ti \in {index} |-> Top.cols])
      /\ UNCHANGED delim_get_source_col_names
  BY ONLY <1>1, CteBody, Zenon DEF CteBody
<1>3. Finished(1) /\ index' = index + 1
  BY <1>2 DEF Unary, Starts
<1>4. Agrees(column_map, column_map, New) /\ Grown(column_map)
  BY DEF Agrees, Grown
<1>5. ASSUME MapTyped(column_map)
      PROVE  /\ ~IsSetOp(frame) /\ Takes(frame, index, index') /\ Later
             /\ frame.kind = kind /\ frame.at = index /\ frame.node = Top
             /\ Newer(index, column_map, column_map, New, delim_get_source_col_names, delim_get_source_col_names',
                    materialized_cte_body_column_names, materialized_cte_body_column_names')
             /\ index \in DOMAIN materialized_cte_body_column_names' /\ materialized_cte_body_column_names'[index] = Top.cols
  BY <1>0, <1>1, <1>2, <1>3, <1>4, <1>5, BodyWritten
<1>6. Takes(frame, index, index') /\ index <= index'
  <2>0. index \in Int
    BY <1>0 DEF BuilderInv
  <2>1. index \in Int /\ index' \in Int /\ index <= index' /\ index < index'
    BY <1>3, <2>0
  <2>2. IsFrame(frame) /\ frame.kind = kind /\ frame.at = index
    BY <1>1, FrameFacts
  <2>3. ~IsSetOp(frame) /\ Held(frame) = {index}
    BY <1>1, <2>2 DEF IsSetOp, SetOps, Held
  <2>. QED  BY <2>1, <2>3 DEF Takes
<1>7. ASSUME NEW R, OverTop(R) PROVE Entry(frame, column_map)
  <2>1. MapTyped(column_map)
    BY <1>7 DEF OverTop
  <2>2. Handing(frame, column_map, delim_get_source_col_names', materialized_cte_body_column_names')
    BY <1>1, <1>5, <2>1 DEF Handing, HandedOn
  <2>. QED  BY <1>4, <1>5, <2>1, <2>2 DEF Entry
<1>. QED  BY <1>1, <1>2, <1>3, <1>6, <1>7, OpensFits

LEMMA RecursiveAnchorFits ==
    ASSUME FitInv, BuilderInv', RecursiveAnchor
    PROVE  FitInv'
<1>0. BuilderInv
  BY DEF FitInv
<1>1. PICK cs, n, kind : cs = Copied(index, Top.cols) /\ n = Len(Top.bindings) /\ kind = "RecursiveCte"
  OBVIOUS
<1>2. PICK frame, b, map : /\ frame = Frame("RecursiveCte", Top, index, << >>, {})
                           /\ b = Bound(index, n) /\ map = Registered(b, cs)
  OBVIOUS
<1>3. /\ Unary(kind, 1) /\ Real(Top) /\ Opens(kind, frame, map)
      /\ materialized_cte_body_column_names' = Updated(materialized_cte_body_column_names, [ti \in {index} |-> Top.cols])
      /\ UNCHANGED delim_get_source_col_names
  BY ONLY <1>1, <1>2, RecursiveAnchor, Zenon DEF RecursiveAnchor
<1>4. Finished(1) /\ index' = index + 1
  BY <1>3 DEF Unary, Starts
<1>5. Covered(Top, DOMAIN column_map) /\ index \in Int
  BY <1>0, <1>3, UnaryFacts
<1>6. index' \in Int /\ index <= index' /\ index < index'
  BY <1>4, <1>5
<1>7. Takes(frame, index, index')
  <2>1. IsFrame(frame) /\ frame.kind = kind /\ frame.at = index
    BY <1>1, <1>2, FrameFacts
  <2>2. ~IsSetOp(frame) /\ Held(frame) = {index}
    BY <1>1, <2>1 DEF IsSetOp, SetOps, Held
  <2>. QED  BY <1>5, <1>6, <2>2 DEF Takes
<1>8. ASSUME NEW R, OverTop(R) PROVE Entry(frame, map)
  <2>1. Fits(Top, column_map, R) /\ MapTyped(column_map)
    BY <1>8 DEF OverTop
  <2>2. /\ Top.cols \in Seq(Names) /\ Len(Top.cols) \in Nat /\ Len(Top.cols) <= MaxColumns
        /\ n \in Nat /\ n <= Len(Top.cols)
    BY <1>1, <1>5, <2>1, FitsFacts
  <2>3. cs \in Seq(ColStructs) /\ Len(cs) = Len(Top.cols)
    BY <1>1, <1>5, <2>2, CopiedFacts
  <2>4. b \in Seq(Bindings) /\ Len(b) = n /\ NoTwice(b) /\ \A i \in 1..n : b[i] = <<index, i>> /\ b[i][1] = index
    BY <1>2, <1>5, <2>2, BoundApart
  <2>5. index \in New
    <3>1. PICK i \in Int, j \in Int : i = index /\ j = index' /\ j = i + 1
      BY <1>4, <1>5
    <3>2. New = i..(j - 1)
      BY <3>1 DEF New
    <3>3. i \in i..(j - 1)
      BY ONLY <3>1, i \in Int, j \in Int
    <3>. QED  BY <3>1, <3>2, <3>3
  <2>6. Entered(column_map, b, cs, New)
    <3>1. \A i \in 1..n : cs[i] \in ColStructs
      BY <2>2, <2>3
    <3>. QED  BY <2>1, <2>2, <2>4, <2>5, <3>1 DEF Entered
  <2>7. /\ \A i \in 1..Len(b) : b[i] \in DOMAIN map /\ map[b[i]] = cs[i]
        /\ Agrees(column_map, map, New) /\ MapTyped(map)
        /\ \A x \in DOMAIN map : x \in DOMAIN column_map \/ \E i \in 1..Len(b) : x = b[i]
    BY <1>2, <2>6, EnteredMap DEF Registered
  <2>8. /\ ~IsSetOp(frame)
        /\ frame.kind = kind /\ frame.at = index /\ frame.node = Top
        /\ Newer(index, column_map, map, New, delim_get_source_col_names, delim_get_source_col_names',
                 materialized_cte_body_column_names, materialized_cte_body_column_names')
        /\ index \in DOMAIN materialized_cte_body_column_names' /\ materialized_cte_body_column_names'[index] = Top.cols
    BY <1>0, <1>1, <1>2, <1>3, <1>4, <2>7, BodyWritten
  <2>9. \A i \in 1..Len(Top.bindings) : <<index, i>> \in DOMAIN map /\ map[<<index, i>>] = Copied(index, Top.cols)[i]
    BY <1>1, <2>4, <2>7
  <2>10. Handing(frame, map, delim_get_source_col_names', materialized_cte_body_column_names')
    BY <1>1, <1>3, <2>8, <2>9 DEF Handing, HandedOn
  <2>11. Grown(map)
    BY <1>5, <1>6, <2>4, <2>7 DEF Grown
  <2>. QED  BY <2>8, <2>10, <2>11 DEF Entry
<1>9. /\ FitInv /\ BuilderInv' /\ Finished(1) /\ frame = Frame(kind, Top, index, << >>, {}) /\ Opens(kind, frame, map)
      /\ Takes(frame, index, index') /\ (index <= index' \/ "Reuse" \in menu.kinds)
      /\ \A R : OverTop(R) => Entry(frame, map)
  BY <1>1, <1>2, <1>3, <1>4, <1>6, <1>7, <1>8
<1>. QED  BY ONLY <1>9, OpensFits

\* A few positions.
LEMMA FewStrings ==
    ASSUME NEW S, NEW s \in Strings(S, 1, 2)
    PROVE  s \in Seq(S) /\ Len(s) \in 1..2 /\ DOMAIN s = 1..Len(s)
<1>1. PICK k \in 1..2 : s \in [1..k -> S]
  BY DEF Strings
<1>. QED  BY <1>1

\* The keys of a delim join.
KeysOf(keys, n, at) ==
    /\ Len(at) \in 1..2 /\ DOMAIN at = 1..Len(at) /\ Len(keys) = Len(at) /\ DOMAIN keys = 1..Len(at)
    /\ \A k \in 1..Len(at) : /\ at[k] \in 1..Len(n.bindings) /\ keys[k] = <<n.bindings[at[k]], n.means[at[k]]>>
                             /\ n.means[at[k]] # None

LEMMA KeysRead ==
    ASSUME NEW R, OverTop(R), Covered(Top, DOMAIN column_map), NEW at, NEW keys, KeysOf(keys, Top, at), NEW k \in 1..Len(at)
    PROVE  /\ keys[k][1] \in DOMAIN column_map
           /\ Denotes(FindColumnBinding(keys[k][1]), Top.cols, Top.shows) = keys[k][2]
<1>1. PICK i \in 1..Len(Top.bindings) : i = at[k] /\ keys[k] = <<Top.bindings[i], Top.means[i]>> /\ Top.means[i] # None
  BY DEF KeysOf
<1>2. Top.bindings[i] \in DOMAIN column_map
  BY <1>1 DEF Covered
<1>3. RowFits(Top.bindings, Top.means, Top.cols, Top.shows, column_map, R)
  BY DEF OverTop, Fits
<1>4. PICK pos : Located(Top.bindings, Top.means, Top.cols, Top.shows, column_map, R, pos)
  BY <1>3, LocatedOne
<1>5. Denotes(NameIn(column_map, Top.bindings[i]), Top.cols, Top.shows) = Top.means[i]
  BY <1>1, <1>2, <1>4, LocatedReads
<1>. QED  BY <1>1, <1>2, <1>5 DEF FindColumnBinding, NameIn

\* n keys that have names.
KeysFound(keys, n) ==
    /\ MapTyped(column_map) /\ n \in 1..2 /\ Len(keys) = n /\ DOMAIN keys = 1..n
    /\ \A k \in 1..n : keys[k][1] \in DOMAIN column_map

LEMMA DelimColumnsFor ==
    ASSUME NEW keys, NEW n, KeysFound(keys, n), NEW ti \in Int, NEW cs, cs = DelimColumns(ti, keys)
    PROVE  /\ cs \in Seq(ColStructs) /\ Len(cs) = n /\ KeysApart(cs)
           /\ \A i \in 1..Len(cs) : cs[i].table_index = ti
<1>0. /\ MapTyped(column_map) /\ n \in 1..2 /\ Len(keys) = n /\ DOMAIN keys = 1..n
      /\ \A k \in 1..n : keys[k][1] \in DOMAIN column_map
  BY DEF KeysFound
<1>1. PICK requests : requests = [k \in DOMAIN keys |-> MakeDedupedColumn(ti, column_map[keys[k][1]].column_name, << >>, k - 1)]
  OBVIOUS
<1>2. n \in Nat /\ n <= MaxColumns
  BY <1>0, MaxColumnsTyped
<1>3. ASSUME NEW k \in 1..n PROVE RequestFor(requests[k], ti)
  <2>1. column_map[keys[k][1]].column_name \in Words /\ << >> \in Words
    BY <1>0, LiteralWords DEF MapTyped, ColStructs
  <2>2. k - 1 \in 0..MaxColumns
    <3>1. k \in 1..MaxColumns
      BY <1>2, MaxColumnsTyped
    <3>. QED  BY <3>1, MaxColumnsTyped
  <2>3. requests[k] = MakeDedupedColumn(ti, column_map[keys[k][1]].column_name, << >>, k - 1)
    BY <1>0, <1>1
  <2>. QED  BY <2>1, <2>2, <2>3, DedupedFor
<1>4. Len(requests) = n
  BY <1>0, <1>1, <1>2
<1>5. AllFor(requests, n, ti)
  BY <1>2, <1>3, <1>4 DEF AllFor
<1>6. cs = Mint(requests)
  BY <1>1 DEF DelimColumns
<1>. QED  BY <1>2, <1>5, <1>6, MintFor

\* The names that a delim join enters for its keys, at the tables promised.
KeysNamed(promised, keys, n, map) ==
    /\ KeysFound(keys, n) /\ \A ti \in promised : ti \in Int
    /\ map = Updated(column_map, [b \in promised \X (1..n) |-> DelimColumns(b[1], keys)[b[2]]])

LEMMA DelimNames ==
    ASSUME NEW promised, NEW keys, NEW n, NEW map, KeysNamed(promised, keys, n, map)
    PROVE  /\ Agrees(column_map, map, promised) /\ MapTyped(map)
           /\ \A b \in DOMAIN map : b \in DOMAIN column_map \/ b[1] \in promised
           /\ \A ti \in promised : \A k \in 1..n : <<ti, k>> \in DOMAIN map /\ map[<<ti, k>>].table_index = ti
           /\ \A ti \in promised : \A k, l \in 1..n : Key(map[<<ti, k>>]) = Key(map[<<ti, l>>]) => k = l
<1>1. PICK new : new = [b \in promised \X (1..n) |-> DelimColumns(b[1], keys)[b[2]]]
  OBVIOUS
<1>2. /\ DOMAIN map = DOMAIN column_map \cup (promised \X (1..n))
      /\ \A b \in promised \X (1..n) : map[b] = DelimColumns(b[1], keys)[b[2]]
      /\ \A b \in DOMAIN column_map : b \notin promised \X (1..n) => map[b] = column_map[b]
  <2>1. map = Updated(column_map, new) /\ DOMAIN new = promised \X (1..n)
    BY <1>1 DEF KeysNamed
  <2>2. \A b \in promised \X (1..n) : new[b] = DelimColumns(b[1], keys)[b[2]]
    BY <1>1
  <2>. QED  BY <2>1, <2>2 DEF Updated
<1>3. ASSUME NEW ti \in promised
      PROVE  /\ DelimColumns(ti, keys) \in Seq(ColStructs) /\ Len(DelimColumns(ti, keys)) = n /\ KeysApart(DelimColumns(ti, keys))
             /\ \A i \in 1..n : DelimColumns(ti, keys)[i].table_index = ti
  <2>1. PICK cs : cs = DelimColumns(ti, keys)
    OBVIOUS
  <2>2. KeysFound(keys, n) /\ ti \in Int /\ n \in 1..2
    BY DEF KeysNamed, KeysFound
  <2>3. /\ cs \in Seq(ColStructs) /\ Len(cs) = n /\ KeysApart(cs)
        /\ \A i \in 1..Len(cs) : cs[i].table_index = ti
    BY ONLY <2>1, <2>2, DelimColumnsFor
  <2>. QED  BY <2>1, <2>3
<1>4. ASSUME NEW ti \in promised, NEW k \in 1..n
      PROVE  /\ <<ti, k>> \in DOMAIN map /\ map[<<ti, k>>] = DelimColumns(ti, keys)[k]
             /\ DelimColumns(ti, keys)[k] \in ColStructs
  <2>1. <<ti, k>> \in promised \X (1..n)
    OBVIOUS
  <2>2. <<ti, k>>[1] = ti /\ <<ti, k>>[2] = k
    OBVIOUS
  <2>3. <<ti, k>> \in DOMAIN map /\ map[<<ti, k>>] = DelimColumns(ti, keys)[k]
    BY <1>2, <2>1, <2>2
  <2>4. \A cs \in Seq(ColStructs) : Len(cs) = n => cs[k] \in ColStructs
    OBVIOUS
  <2>. QED  BY <1>3, <2>3, <2>4
<1>5. \A b \in promised \X (1..n) : b[1] \in promised /\ b[2] \in 1..n /\ b = <<b[1], b[2]>>
  OBVIOUS
<1>6. Agrees(column_map, map, promised)
  BY <1>2, <1>5 DEF Agrees
<1>7. MapTyped(map)
  <2>1. ASSUME NEW b \in DOMAIN map PROVE map[b] \in ColStructs
    <3>1. CASE b \in promised \X (1..n)
      BY <1>4, <1>5, <3>1
    <3>2. CASE b \notin promised \X (1..n)
      BY <1>2, <3>2 DEF KeysNamed, KeysFound, MapTyped
    <3>. QED  BY <3>1, <3>2
  <2>. QED  BY <2>1 DEF MapTyped
<1>8. \A ti \in promised : \A k, l \in 1..n : Key(map[<<ti, k>>]) = Key(map[<<ti, l>>]) => k = l
  BY <1>3, <1>4 DEF KeysApart
<1>9. \A ti \in promised : \A k \in 1..n : <<ti, k>> \in DOMAIN map /\ map[<<ti, k>>].table_index = ti
  BY <1>3, <1>4
<1>10. \A b \in DOMAIN map : b \in DOMAIN column_map \/ b[1] \in promised
  BY <1>2, <1>5
<1>. QED  BY <1>6, <1>7, <1>8, <1>9, <1>10

\* What DELIM_GETs read is written down for them.
LEMMA SourcesWritten ==
    ASSUME NEW promised, NEW v, NEW old, NEW new, new = Updated(old, [ti \in promised |-> v])
    PROVE  /\ \A ti \in promised : ti \in DOMAIN new /\ new[ti] = v
           /\ \A t : t \notin promised => SameAt(t, old, new)
  BY DEF Updated, SameAt

\* The DELIM_GETs of the inner side will find the keys.
LEMMA DelimPromises ==
    ASSUME NEW R, OverTop(R), Covered(Top, DOMAIN column_map), NEW at, NEW keys, KeysOf(keys, Top, at),
           NEW f, f.promised \subseteq Int, f.keys = keys, f.node = Top,
           NEW map, KeysNamed(f.promised, keys, Len(at), map),
           NEW names, DOMAIN names = 1..Len(at), \A k \in 1..Len(at) : names[k] = FindColumnBinding(keys[k][1]),
           NEW sources, \A ti \in f.promised : ti \in DOMAIN sources /\ sources[ti] = names
    PROVE  Promises(f, map, {}, sources)
<1>1. /\ \A ti \in f.promised : \A k \in 1..Len(at) : <<ti, k>> \in DOMAIN map /\ map[<<ti, k>>].table_index = ti
      /\ \A ti \in f.promised : \A k, l \in 1..Len(at) : Key(map[<<ti, k>>]) = Key(map[<<ti, l>>]) => k = l
  BY DelimNames
<1>2. ASSUME NEW k \in 1..Len(at) PROVE Denotes(names[k], f.node.cols, f.node.shows) = f.keys[k][2]
  BY <1>2, KeysRead
<1>3. Len(f.keys) = Len(at)
  BY DEF KeysOf
<1>. QED  BY <1>1, <1>2, <1>3 DEF Promises

LEMMA DelimOuterFits ==
    ASSUME FitInv, BuilderInv', NEW at \in Strings(Positions(Top), 1, 2), NEW gets \in 1..2, DelimOuter(at, gets)
    PROVE  FitInv'
<1>0. BuilderInv
  BY DEF FitInv
<1>1. at \in Seq(Positions(Top)) /\ Len(at) \in 1..2 /\ DOMAIN at = 1..Len(at)
  BY FewStrings
<1>2. PICK keys, promised :
        /\ keys = [k \in DOMAIN at |-> <<Top.bindings[at[k]], Top.means[at[k]]>>]
        /\ promised = index..(index + gets - 1)
  OBVIOUS
<1>3. PICK frame, columns, map, names :
        /\ frame = Frame("DelimJoin", Top, index, keys, promised)
        /\ columns = [b \in promised \X (1..Len(at)) |-> DelimColumns(b[1], keys)[b[2]]]
        /\ map = Updated(column_map, columns)
        /\ names = [k \in DOMAIN at |-> FindColumnBinding(keys[k][1])]
  OBVIOUS
<1>4. /\ Unary("DelimJoin", gets) /\ \A k \in DOMAIN at : Top.means[at[k]] # None
      /\ Opens("DelimJoin", frame, map)
      /\ delim_get_source_col_names' = Updated(delim_get_source_col_names, [ti \in promised |-> names])
      /\ UNCHANGED materialized_cte_body_column_names
  BY ONLY <1>2, <1>3, DelimOuter(at, gets), Zenon DEF DelimOuter
<1>5. /\ Finished(1) /\ index' = index + gets /\ gets \in Int
  BY <1>4 DEF Unary, Starts
<1>6. Covered(Top, DOMAIN column_map) /\ index \in Int
  BY <1>0, <1>4, <1>5, UnaryFacts
<1>7. PICK i \in Int, j \in Int : i = index /\ j = index' /\ j = i + gets
  BY <1>5, <1>6
<1>8. New = promised /\ promised = i..(j - 1) /\ i <= j
  BY <1>2, <1>7 DEF New
<1>9. \A t \in promised : t \in Int /\ i <= t /\ t < j
  BY <1>7, <1>8
<1>10. /\ DOMAIN frame = FrameFields /\ IsFrame(frame) /\ NodeOf(frame) = Top
       /\ frame.kind = "DelimJoin" /\ frame.node = Top /\ frame.keys = keys /\ frame.promised = promised
  BY <1>3, FrameFacts
<1>11. ~IsSetOp(frame) /\ Held(frame) = promised
  BY <1>10 DEF IsSetOp, SetOps, Held
<1>12. Takes(frame, index, index')
  BY <1>7, <1>8, <1>9, <1>11 DEF Takes
<1>13. index <= index'
  BY <1>7, <1>8
<1>14. KeysOf(keys, Top, at)
  <2>1. Top.means \in Seq(Columns) /\ Len(Top.means) = Len(Top.bindings)
    BY <1>6 DEF Covered
  <2>2. \A k \in 1..Len(at) : at[k] \in Positions(Top)
    BY <1>1
  <2>3. \A k \in 1..Len(at) : at[k] \in 1..Len(Top.bindings)
    BY <2>1, <2>2 DEF Positions
  <2>4. DOMAIN keys = 1..Len(at) /\ \A k \in 1..Len(at) : keys[k] = <<Top.bindings[at[k]], Top.means[at[k]]>>
    BY <1>1, <1>2
  <2>5. Len(at) \in Nat
    BY <1>1
  <2>6. Len(keys) = Len(at)
    BY <1>1, <1>2, <2>5
  <2>. QED  BY <1>1, <1>4, <2>3, <2>4, <2>6 DEF KeysOf
<1>15. ASSUME NEW R, OverTop(R) PROVE Entry(frame, map)
  <2>1. MapTyped(column_map)
    BY <1>15 DEF OverTop
  <2>2. \A k \in 1..Len(at) : keys[k][1] \in DOMAIN column_map
    BY <1>6, <1>14, <1>15, KeysRead
  <2>3. KeysFound(keys, Len(at))
    BY <1>1, <1>14, <2>1, <2>2 DEF KeysFound, KeysOf
  <2>4. KeysNamed(promised, keys, Len(at), map)
    BY <1>3, <1>9, <2>3 DEF KeysNamed
  <2>5. /\ Agrees(column_map, map, promised) /\ MapTyped(map)
        /\ \A b \in DOMAIN map : b \in DOMAIN column_map \/ b[1] \in promised
    BY <2>4, DelimNames
  <2>6. /\ \A ti \in promised : ti \in DOMAIN delim_get_source_col_names' /\ delim_get_source_col_names'[ti] = names
        /\ \A t : t \notin promised => SameAt(t, delim_get_source_col_names, delim_get_source_col_names')
    <3>1. PICK new : new = delim_get_source_col_names' /\ new = Updated(delim_get_source_col_names, [ti \in promised |-> names])
      BY <1>4
    <3>2. /\ \A ti \in promised : ti \in DOMAIN new /\ new[ti] = names
          /\ \A t : t \notin promised => SameAt(t, delim_get_source_col_names, new)
      BY ONLY <3>1, SourcesWritten
    <3>. QED  BY <3>1, <3>2
  <2>7. \A t : SameAt(t, materialized_cte_body_column_names, materialized_cte_body_column_names')
    BY <1>4 DEF SameAt
  <2>8. Newer(index, column_map, map, New, delim_get_source_col_names, delim_get_source_col_names',
              materialized_cte_body_column_names, materialized_cte_body_column_names')
    BY <1>6, <1>7, <1>8, <1>9, <2>5, <2>6, <2>7 DEF Newer
  <2>9. Promises(frame, map, {}, delim_get_source_col_names')
    <3>1. DOMAIN names = 1..Len(at) /\ \A k \in 1..Len(at) : names[k] = FindColumnBinding(keys[k][1])
      BY <1>1, <1>3
    <3>2. frame.promised \subseteq Int
      BY <1>9, <1>10
    <3>. QED  BY <1>6, <1>10, <1>14, <1>15, <2>4, <2>6, <3>1, <3>2, DelimPromises
  <2>10. Grown(map)
    BY <1>7, <1>9, <2>5 DEF Grown
  <2>. QED  BY <1>10, <1>11, <2>8, <2>9, <2>10 DEF Entry, Handing
<1>16. /\ FitInv /\ BuilderInv' /\ Finished(1) /\ frame = Frame("DelimJoin", Top, index, keys, promised)
       /\ Opens("DelimJoin", frame, map) /\ Takes(frame, index, index') /\ (index <= index' \/ "Reuse" \in menu.kinds)
       /\ \A R : OverTop(R) => Entry(frame, map)
  BY <1>3, <1>4, <1>5, <1>12, <1>13, <1>15
<1>. QED  BY ONLY <1>16, OpensFits

-----------------------------------------------------------------------------
(* Every step, and what follows.                                           *)

LEMMA FinishFits ==
    ASSUME FitInv, BuilderInv', Finish
    PROVE  FitInv'
<1>1. /\ menu' = menu /\ work' = work /\ index' = index /\ serial' = serial /\ column_map' = column_map
      /\ reads' = {} /\ Named
  BY DEF Finish
<1>2. CASE ~ColumnsOfItsOwn
  BY <1>1, <1>2 DEF FitInv, ColumnsOfItsOwn
<1>3. CASE ColumnsOfItsOwn
  <2>1. PICK A : Truth(A)
    BY <1>3 DEF FitInv, Faithful
  <2>2. Truth(A)'
    BY <1>1, <2>1 DEF Truth, Named
  <2>3. Faithful'
    BY <1>1, <2>2, NothingRead DEF Faithful, RightReads
  <2>4. "Reuse" \notin menu.kinds => FreshIn(work, index, column_map)'
    BY <1>1, <1>3 DEF FitInv
  <2>. QED  BY <1>1, <1>3, <2>3, <2>4 DEF FitInv, ColumnsOfItsOwn
<1>. QED  BY <1>2, <1>3

LEMMA ScanFits ==
    ASSUME FitInv, BuilderInv', Scan
    PROVE  FitInv'
<1>1. CASE \E table \in menu.tables : \E picked \in Increasing(Len(BaseTables[table])) : Get(table, picked)
  BY <1>1, GetFits
<1>2. CASE GetNothing \/ ValuesWithoutColumns
  BY <1>2, DummiesFit
<1>3. CASE DummyScan \/ EmptyResult
  BY <1>3, OtherLeavesFit
<1>4. CASE \E n \in 1..menu.width : Values(n)
  BY <1>4, ValuesFits
<1>5. CASE \E i \in DOMAIN work : IsFrame(work[i]) /\ work[i].kind \in {"MaterializedCte", "RecursiveCte"} /\ CteRef(work[i])
  BY <1>5, CteRefFits
<1>6. CASE Delims # {} /\ \E ti \in Missing : DelimGet(work[Owner], ti)
  BY <1>6, DelimGetFits
<1>. QED  BY <1>1, <1>2, <1>3, <1>4, <1>5, <1>6, Zenon DEF Scan

LEMMA TransformFits ==
    ASSUME FitInv, BuilderInv', Transform
    PROVE  FitInv'
<1>1. CASE \E at \in Maps(Top) : Filter(at)
  BY <1>1, FilterFits
<1>2. CASE \E at \in Maps(Top) : Rows("Order", at)
  BY <1>2, RowsFits
<1>3. CASE \E kind \in {"Limit", "TopN", "Distinct", "Sample"} : Rows(kind, All(Top.bindings))
  BY <1>3, RowsFits
<1>4. CASE \E n \in 1..menu.width : Unnest(n)
  BY <1>4, UnnestFits
<1>5. CASE \E aliases \in Strings(Aliases, 1, menu.width) : Window(aliases)
  BY <1>5, WindowFits
<1>6. CASE \E own \in Strings(menu.aliases, 1, 2), passed \in Increasing(Len(Top.bindings)) : Lateral(own, passed)
  BY <1>6, LateralFits
<1>7. CASE \E use \in Uses(Top) : \E extra \in Extras(Top, use), root \in BOOLEAN,
              items \in Strings(Items(Top), 1, menu.width) : Project(items, root, use, extra)
  BY <1>7, ProjectFits
<1>8. CASE \E use \in Uses(Top), groups \in Strings(Positions(Top) \cup {0}, 0, menu.width),
              aggs \in Strings(Aliases, 0, 1), groupings \in 0..1, many \in BOOLEAN :
              Aggregate(groups, aggs, groupings, many, use)
  BY <1>8, AggregateFits
<1>9. CASE Insert
  BY <1>9, InsertFits
<1>. QED  BY <1>1, <1>2, <1>3, <1>4, <1>5, <1>6, <1>7, <1>8, <1>9, Zenon DEF Transform

LEMMA CombineFits ==
    ASSUME FitInv, BuilderInv', Combine
    PROVE  FitInv'
<1>1. CASE \E type \in menu.types, left \in Maps(Below), right \in Maps(Top) : Join(type, left, right)
  BY <1>1, JoinFits
<1>2. CASE \E product \in {"CrossProduct", "CrossNothing"} : CrossProduct(product)
  BY <1>2, CrossProductFits
<1>3. CASE PositionalJoin
  BY <1>3, PositionalJoinFits
<1>4. CASE \E kind \in SetOps : SetOpRight(kind)
  BY <1>4, SetOpRightFits
<1>5. CASE CteQuery \/ RecursiveStep
  BY <1>5, CteQueryFits, RecursiveStepFits
<1>6. CASE \E type \in menu.types \ RightOnly : DelimJoin(type)
  BY <1>6, DelimJoinFits
<1>. QED  BY <1>1, <1>2, <1>3, <1>4, <1>5, <1>6, Zenon DEF Combine

LEMMA OpenFits ==
    ASSUME FitInv, BuilderInv', Open
    PROVE  FitInv'
<1>1. CASE \E kind \in SetOps, reuse \in {r \in BOOLEAN : r => "Reuse" \in menu.kinds} : SetOpLeft(kind, reuse)
  BY <1>1, SetOpLeftFits
<1>2. CASE CteBody \/ RecursiveAnchor
  BY <1>2, CteBodyFits, RecursiveAnchorFits
<1>3. CASE \E at \in Strings(Positions(Top), 1, 2), gets \in 1..2 : DelimOuter(at, gets)
  BY <1>3, DelimOuterFits
<1>. QED  BY <1>1, <1>2, <1>3, Zenon DEF Open

\* FitInv is inductive: in every state the build of a plan reaches, every finished subtree on the
\* stack has a set of table indices of its own, column_map names each of its columns after the CTE
\* that holds it, and every operator half way through its children (a delim join whose reads were
\* renamed, a CTE or a recursion whose body is being built, a set operation with one side done)
\* still holds what it will put back into column_map.
THEOREM FitInductive == BuilderSpec => []FitInv
<1>1. BuilderInv /\ BuilderInit => FitInv
  <2>1. SUFFICES ASSUME BuilderInv, BuilderInit PROVE FitInv
    OBVIOUS
  <2>2. work = << >> /\ reads = {} /\ column_map = << >>
    BY <2>1, Zenon DEF BuilderInit
  <2>3. PICK n \in Nat : n = Len(work) /\ n = 0
    BY <2>2
  <2>4. \A i \in 1..n : FALSE
    BY <2>3
  <2>5. \A b \in DOMAIN column_map : FALSE
    BY <2>2
  <2>6. PICK A : A = << >>
    OBVIOUS
  <2>7. Layout(work, A, index)
    BY <2>3, <2>4 DEF Layout
  <2>8. AllFit(work, Len(work), column_map, A, delim_get_source_col_names, materialized_cte_body_column_names)
    BY <2>3, <2>4, <2>5 DEF AllFit, MapTyped
  <2>9. ScopesFit(work, A, delim_get_source_col_names, materialized_cte_body_column_names)
    BY <2>3, <2>4 DEF ScopesFit
  <2>10. Faithful
    BY <2>2, <2>7, <2>8, <2>9, NothingRead DEF Faithful, Truth, Sound
  <2>11. FreshIn(work, index, column_map)
    BY <2>3, <2>4, <2>5 DEF FreshIn
  <2>. QED  BY <2>1, <2>10, <2>11 DEF FitInv
<1>2. FitInv /\ BuilderInv' /\ [BuilderNext]_builderVars => FitInv'
  <2>1. CASE FitInv /\ BuilderInv' /\ BuilderNext
    BY <2>1, ScanFits, TransformFits, CombineFits, OpenFits, FinishFits, Zenon DEF BuilderNext
  <2>2. CASE FitInv /\ BuilderInv' /\ UNCHANGED builderVars
    <3>1. /\ menu' = menu /\ work' = work /\ index' = index /\ serial' = serial /\ column_map' = column_map
          /\ reads' = reads /\ Named
      BY <2>2, Zenon DEF builderVars, Named
    <3>2. index \in Int
      BY <2>2 DEF FitInv, BuilderInv
    <3>3. Later
      BY <3>1, <3>2 DEF Later
    <3>. QED  BY <2>2, <3>1, <3>3, RefusedFits
  <2>. QED  BY <2>1, <2>2
<1>3. BuilderSpec => []BuilderInv
  BY BuilderInductive
<1>. QED  BY <1>1, <1>2, <1>3, PTL DEF BuilderSpec

\* For any tables, menus and bounds and every plan of columns of its own: whatever was removed from,
\* restored to or renamed in column_map in between, every BOUND_COLUMN_REF that FindColumnBinding
\* turns into the column of a CTE gets the name of the very column the plan's binding means.
THEOREM ExpressionsReadThePlan == BuilderSpec => []ReadsWhatThePlanMeans
<1>1. FitInv => ReadsWhatThePlanMeans
  BY DEF FitInv, Faithful, RightReads, ReadsWhatThePlanMeans
<1>. QED  BY <1>1, FitInductive, PTL

\* For any tables, menus and bounds and every plan of columns of its own: when an operator has been
\* built, its CTE has its columns in the plan's order, and what FindColumnBinding returns for each
\* binding it offers its parent is a name that this CTE has, of the column the plan means.
THEOREM NamesMeanTheirColumns == BuilderSpec => []NamesDenoteTheirColumns
<1>1. FitInv => NamesDenoteTheirColumns
  <2>1. SUFFICES ASSUME FitInv, ColumnsOfItsOwn, Len(work) \in DOMAIN work, ~IsFrame(work[Len(work)])
                 PROVE  /\ DOMAIN work[Len(work)].cols = DOMAIN work[Len(work)].shows
                        /\ \A i \in DOMAIN work[Len(work)].bindings :
                            work[Len(work)].means[i] # None =>
                                /\ work[Len(work)].shows[i] = work[Len(work)].means[i]
                                /\ Denotes(FindColumnBinding(work[Len(work)].bindings[i]), work[Len(work)].cols,
                                           work[Len(work)].shows) = work[Len(work)].means[i]
    BY DEF NamesDenoteTheirColumns
  <2>2. BuilderInv
    BY <2>1 DEF FitInv
  <2>3. PICK node : node = work[Len(work)]
    OBVIOUS
  <2>4. PICK A : Truth(A)
    BY <2>1 DEF FitInv, Faithful
  <2>5. PICK n \in Nat : n = Len(work)
    BY <2>2, NodesTypedNow
  <2>6. n \in 1..n /\ n \in 1..Len(work)
    <3>1. DOMAIN work = 1..n
      BY <2>2, <2>5, NodesTypedNow DEF IsStack
    <3>. QED  BY <2>1, <2>5, <3>1
  <2>7. Fits(node, column_map, A[n]) /\ Covered(node, DOMAIN column_map)
    BY <2>1, <2>2, <2>3, <2>4, <2>5, <2>6, AreaFacts
  <2>8. /\ node.cols \in Seq(Names) /\ node.shows \in Seq(Columns) /\ Len(node.shows) = Len(node.cols)
        /\ node.bindings \in Seq(Bindings) /\ Holds(node.means, node.shows) /\ Len(node.means) = Len(node.bindings)
        /\ RowFits(node.bindings, node.means, node.cols, node.shows, column_map, A[n])
    BY <2>7, FitsFacts DEF Paired
  <2>9. PICK pos : Located(node.bindings, node.means, node.cols, node.shows, column_map, A[n], pos)
    BY <2>8, LocatedOne
  <2>10. ASSUME NEW i \in 1..Len(node.bindings), node.means[i] # None
         PROVE  /\ node.shows[i] = node.means[i]
                /\ Denotes(FindColumnBinding(node.bindings[i]), node.cols, node.shows) = node.means[i]
    <3>1. node.bindings[i] \in DOMAIN column_map
      BY <2>7, <2>8, <2>10 DEF Covered
    <3>2. Denotes(NameIn(column_map, node.bindings[i]), node.cols, node.shows) = node.means[i]
      BY <2>9, <2>10, <3>1, LocatedReads
    <3>3. node.shows[i] = node.means[i]
      BY <2>8, <2>10 DEF Holds
    <3>. QED  BY <3>2, <3>3 DEF NameIn, FindColumnBinding
  <2>11. DOMAIN node.cols = DOMAIN node.shows /\ DOMAIN node.bindings = 1..Len(node.bindings)
    BY <2>8
  <2>. QED  BY <2>3, <2>10, <2>11
<1>. QED  BY <1>1, FitInductive, PTL
==============================================================================
