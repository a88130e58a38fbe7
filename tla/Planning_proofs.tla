--------------------------- MODULE Planning_proofs ---------------------------
(***************************************************************************)
(* From a statement to the plan, and from the plan to the tree: proofs     *)
(* about nested plannings (PlanningScope) and about the bindings and names *)
(* of the builder (AstBuilder), for any connections, texts and plans.      *)
(*                                                                         *)
(* What a planning may do depends on what it is nested in: the depth       *)
(* counts the PlanQuery frames of the stack, the guard of lpts_check says  *)
(* that one of the frames is in the hook, and below a second frame there   *)
(* is either the hook or a text that plans others.                         *)
(*                                                                         *)
(* Every binding of the plan has a name when it is asked for, and names    *)
(* that are minted together differ.  AstBuilder_proofs builds on the last  *)
(* part: that a name denotes its column and no other.                      *)
(***************************************************************************)
EXTENDS PlanningScope, AstBuilder, InductionLemmas, FiniteSetTheorems, SequenceTheorems, TLAPS

-----------------------------------------------------------------------------
(* Nested plannings.                                                       *)

\* The texts that may be planned, LPTS's own ones among them.
SomeText == {text \in [kind : {"select", "explain", "pragma"}, items : Seq(TextItems)] : WellFormed(text)}

\* What BoundItems may hold: the items of the text, and those of the views among them.
Body(view) == {[item |-> view.texts[1].items[j], own |-> FALSE] : j \in DOMAIN view.texts[1].items}
Bindable(text) ==
    {Own(text.items[i]) : i \in DOMAIN text.items}
    \cup UNION {Body(text.items[i]) : i \in {k \in DOMAIN text.items : text.items[k].kind = "view"}}

Stages == {"bind", "refused", "planned", "optimized", "check", "translated", "replan", "compared",
           "combine"}
BoundClocks == [clock : Clocks, own : BOOLEAN, is : {"internal", "duckdb", "constant"}]
PlanningFrame ==
    [kind : {"statement", "PlanQuery", "serialized"}, text : SomeText, native : BOOLEAN, at : Stages,
     next : Nat, bound : Seq(BoundClocks), explained : BOOLEAN, rewritten : SomeText,
     checked : BOOLEAN]

\* One planning.  Only a text with a clock of its own binds one; what LPTS translates has kept
\* its clocks, also before its optimizers are done, and a statement has none of LPTS's.
FrameInv(f) ==
    /\ f \in PlanningFrame
    /\ \A i \in DOMAIN f.bound : f.bound[i].own => HasClock(f.text)
    /\ f.kind = "PlanQuery" /\ ~f.native => ClocksAreCalls(f)
    /\ f.kind = "statement" => \A i \in DOMAIN f.bound : f.bound[i].is # "internal"

\* A text whose planning has another one in it.
Nests(text) == text.kind = "explain" \/ PlansQueries(text) \/ Hides(text)

\* The plannings of a connection: all that happens in one statement, innermost last.
Typed(stk) == stk \in Seq(PlanningFrame) /\ \A i \in DOMAIN stk : FrameInv(stk[i])
Nested(stk) ==
    /\ \A i \in DOMAIN stk : stk[i].kind = "statement" <=> i = 1
    /\ Len(stk) > 1 => InHook(stk[1]) \/ Nests(stk[1].text)
\* The hook of lpts_check is never in itself.  It is given a plan other than the statement's own
\* only if a view hides that the statement plans others.
OneCheck(stk) ==
    /\ \A i, j \in DOMAIN stk : InHook(stk[i]) /\ InHook(stk[j]) => i = j
    /\ \A i \in DOMAIN stk : InHook(stk[i]) \/ stk[i].checked => i = 1 \/ Hides(stk[1].text)
Guarded(stk, guard) == guard = (\E i \in DOMAIN stk : InHook(stk[i]))
StackInv(stk, depth, guard) ==
    Typed(stk) /\ Nested(stk) /\ OneCheck(stk) /\ Guarded(stk, guard) /\ depth = InScope(stk)
PlanningInv ==
    /\ frames \in [Connections -> Seq(PlanningFrame)] /\ lpts_planning_depth \in [Connections -> Nat]
    /\ in_rewrite \in [Connections -> BOOLEAN]
    /\ \A c \in Connections : StackInv(frames[c], lpts_planning_depth[c], in_rewrite[c])

\* The depth of a thread is the number of PlanQuery calls it is in, and the guard of lpts_check is
\* set exactly inside the hook, of which there is at most one: also after any exception
\* (LptsPlanningScope, RewriteGuard).
ScopesInStep ==
    \A c \in Connections :
        /\ lpts_planning_depth[c] = InScope(frames[c])
        /\ in_rewrite[c] <=> \E i \in DOMAIN frames[c] : InHook(frames[c][i])
        /\ \A i, j \in DOMAIN frames[c] : InHook(frames[c][i]) /\ InHook(frames[c][j]) => i = j
------------------------------------------------------------------------------
(* Texts.                                                                  *)

\* An item that is not a clock has a text.
LEMMA ItemFacts ==
    ASSUME NEW item \in TextItems
    PROVE  /\ item.kind \in {"clock", "lpts_query", "json_serialize_plan", "view", "text"}
           /\ item.clock \in Clocks \cup {""} /\ item.texts \in Seq(Texts)
           /\ item.kind = "clock" => item.clock \in Clocks
           /\ item.kind # "clock" => item.texts[1] \in SomeText
<1>1. /\ item \in [kind : {"clock", "lpts_query", "json_serialize_plan", "view", "text"},
                   clock : Clocks \cup {""}, texts : Seq(Texts)]
      /\ IF item.kind = "clock" THEN item.clock \in Clocks ELSE item.texts # << >>
  BY DEF TextItems
<1>2. item.texts \in Seq(Texts)
  BY <1>1
<1>3. item.kind # "clock" => item.texts[1] \in Texts
  <2>. SUFFICES ASSUME item.kind # "clock" PROVE item.texts[1] \in Texts
    OBVIOUS
  <2>1. item.texts # << >>
    BY <1>1
  <2>. QED  BY <2>1, <1>2
<1>4. Texts \subseteq SomeText
  BY TextsAssumption DEF WellFormed, SomeText
<1>. QED  BY <1>1, <1>2, <1>3, <1>4

\* A text is a sequence of items, the first of an EXPLAIN a text.
LEMMA TextFacts ==
    ASSUME NEW text \in SomeText
    PROVE  /\ text.kind \in {"select", "explain", "pragma"}
           /\ text.items \in Seq(TextItems) /\ Len(text.items) \in Nat
           /\ DOMAIN text.items = 1..Len(text.items)
           /\ \A i \in DOMAIN text.items : text.items[i] \in TextItems
           /\ text.kind = "explain" =>
                 1 \in DOMAIN text.items /\ text.items[1].kind = "text"
<1>1. /\ text.kind \in {"select", "explain", "pragma"} /\ text.items \in Seq(TextItems)
      /\ text.kind = "explain" => text.items # << >> /\ text.items[1].kind = "text"
  BY DEF SomeText, WellFormed
<1>2. /\ Len(text.items) \in Nat /\ DOMAIN text.items = 1..Len(text.items)
      /\ \A i \in DOMAIN text.items : text.items[i] \in TextItems
      /\ text.items # << >> => 1 \in DOMAIN text.items
  BY <1>1 
<1>. QED  BY <1>1, <1>2

\* What may be bound is an item of the text or of a view in it.
LEMMA BindableFacts ==
    ASSUME NEW text \in SomeText, NEW b \in Bindable(text)
    PROVE  /\ b.item \in TextItems /\ b.own \in BOOLEAN
           /\ b.own => \E i \in DOMAIN text.items : b.item = text.items[i]
           /\ ~b.own => \E i \in DOMAIN text.items :
                 /\ text.items[i].kind = "view"
                 /\ \E j \in DOMAIN text.items[i].texts[1].items :
                       b.item = text.items[i].texts[1].items[j]
<1>1. CASE b \in {Own(text.items[i]) : i \in DOMAIN text.items}
  <2>1. PICK i \in DOMAIN text.items : b = Own(text.items[i])
    BY <1>1
  <2>2. b.item = text.items[i] /\ b.own = TRUE
    BY <2>1 DEF Own
  <2>3. b.item \in TextItems
    BY <2>2, TextFacts
  <2>. QED  BY <2>2, <2>3
<1>2. CASE b \in UNION {Body(text.items[i]) : i \in {k \in DOMAIN text.items : text.items[k].kind = "view"}}
  <2>1. PICK i \in DOMAIN text.items : text.items[i].kind = "view" /\ b \in Body(text.items[i])
    BY <1>2
  <2>2. PICK j \in DOMAIN text.items[i].texts[1].items :
              b = [item |-> text.items[i].texts[1].items[j], own |-> FALSE]
    BY <2>1 DEF Body
  <2>3. b.item = text.items[i].texts[1].items[j] /\ b.own = FALSE
    BY <2>2
  <2>4. text.items[i] \in TextItems
    BY TextFacts
  <2>5. text.items[i].texts[1] \in SomeText
    BY <2>1, <2>4, ItemFacts
  <2>6. text.items[i].texts[1].items[j] \in TextItems
    BY <2>5, TextFacts
  <2>. QED  BY <2>1, <2>3, <2>6
<1>. QED  BY <1>1, <1>2 DEF Bindable

\* Binding goes through the items of the text and of its views, and no others.
LEMMA BoundItemsIn ==
    ASSUME NEW text \in SomeText
    PROVE  BoundItems(text) \in Seq(Bindable(text))
<1>1. CASE text.kind = "explain"
  <2>1. BoundItems(text) = << >>
    BY <1>1 DEF BoundItems
  <2>. QED  BY <2>1
<1>2. CASE text.kind # "explain"
  <2>. DEFINE part(i) == IF text.items[i].kind = "view"
                         THEN LET body == text.items[i].texts[1].items
                              IN  [j \in DOMAIN body |-> [item |-> body[j], own |-> FALSE]]
                         ELSE <<Own(text.items[i])>>
  <2>1. BoundItems(text) = FlattenSeq([i \in DOMAIN text.items |-> part(i)])
    BY <1>2 DEF BoundItems
  <2>2. ASSUME NEW i \in DOMAIN text.items PROVE part(i) \in Seq(Bindable(text))
    <3>1. CASE text.items[i].kind = "view"
      <4>. DEFINE body == text.items[i].texts[1].items
      <4>1. text.items[i].texts[1] \in SomeText
        BY <3>1, TextFacts, ItemFacts
      <4>2. DOMAIN body = 1..Len(body) /\ Len(body) \in Nat
        BY <4>1, TextFacts
      <4>3. \A j \in DOMAIN body : [item |-> body[j], own |-> FALSE] \in Body(text.items[i])
        BY DEF Body
      <4>4. Body(text.items[i]) \subseteq Bindable(text)
        BY <3>1 DEF Bindable
      <4>. HIDE DEF body
      <4>5. [j \in DOMAIN body |-> [item |-> body[j], own |-> FALSE]] \in Seq(Bindable(text))
        BY <4>2, <4>3, <4>4
      <4>6. part(i) = [j \in DOMAIN body |-> [item |-> body[j], own |-> FALSE]]
        BY <3>1 DEF body
      <4>. QED  BY <4>5, <4>6
    <3>2. CASE text.items[i].kind # "view"
      <4>1. Own(text.items[i]) \in Bindable(text)
        BY DEF Bindable
      <4>2. PICK one \in Bindable(text) : one = Own(text.items[i])
        BY <4>1
      <4>3. part(i) = <<one>>
        BY <3>2, <4>2
      <4>. HIDE DEF part
      <4>. QED  BY <4>3
    <3>. QED  BY <3>1, <3>2
  <2>. HIDE DEF part
  <2>3. DOMAIN text.items = 1..Len(text.items) /\ Len(text.items) \in Nat
    BY TextFacts
  <2>4. [i \in DOMAIN text.items |-> part(i)] \in Seq(Seq(Bindable(text)))
    BY <2>2, <2>3
  <2>. QED  BY <2>1, <2>4, FlattenTyped
<1>. QED  BY <1>1, <1>2

\* The query LPTS writes for a plan is one that can be planned.
LEMMA RewrittenTyped ==
    ASSUME NEW f \in PlanningFrame
    PROVE  Rewritten(f) \in SomeText
<1>. DEFINE call(i) == Item("clock", IF f.bound[i].is = "internal" THEN "now" ELSE f.bound[i].clock, << >>)
            part(i) == IF f.bound[i].is = "constant" THEN << >> ELSE <<call(i)>>
            items == FlattenSeq([i \in DOMAIN f.bound |-> part(i)])
<1>1. /\ f.bound \in Seq(BoundClocks) /\ DOMAIN f.bound = 1..Len(f.bound) /\ Len(f.bound) \in Nat
  BY DEF PlanningFrame
<1>2. ASSUME NEW i \in DOMAIN f.bound PROVE part(i) \in Seq(TextItems)
  <2>1. f.bound[i].clock \in Clocks
    <3>1. f.bound[i] \in BoundClocks
      BY <1>1
    <3>. QED  BY <3>1 DEF BoundClocks
  <2>2. "now" \in Clocks
    BY DEF Clocks
  <2>3. << >> \in Seq(Texts)
    OBVIOUS
  <2>4. call(i) \in TextItems
    BY <2>1, <2>2, <2>3 DEF Item, TextItems
  <2>. HIDE DEF call
  <2>. QED  BY <2>4
<1>3. Rewritten(f) = Text("select", items)
  BY DEF Rewritten
<1>. HIDE DEF part
<1>4. [i \in DOMAIN f.bound |-> part(i)] \in Seq(Seq(TextItems))
  BY <1>1, <1>2
<1>5. items \in Seq(TextItems)
  BY <1>4, FlattenTyped
<1>. HIDE DEF items
<1>. QED  BY <1>3, <1>5 DEF Text, SomeText, WellFormed

------------------------------------------------------------------------------
(* Scopes.                                                                 *)

\* The scopes of a stack can be counted.
LEMMA ScopesFinite ==
    ASSUME NEW stk \in Seq(PlanningFrame)
    PROVE  /\ IsFiniteSet({i \in DOMAIN stk : stk[i].kind = "PlanQuery"})
           /\ InScope(stk) \in Nat
<1>1. DOMAIN stk = 1..Len(stk) /\ Len(stk) \in Nat
  OBVIOUS
<1>2. IsFiniteSet(DOMAIN stk)
  BY <1>1, FS_Interval
<1>. DEFINE scopes == {i \in DOMAIN stk : stk[i].kind = "PlanQuery"}
<1>3. scopes \in SUBSET DOMAIN stk
  OBVIOUS
<1>. HIDE DEF scopes
<1>4. IsFiniteSet(scopes)
  BY <1>2, <1>3, FS_Subset
<1>5. Cardinality(scopes) \in Nat
  BY <1>4, FS_CardinalityType
<1>6. InScope(stk) = Cardinality(scopes)
  BY DEF InScope, scopes
<1>. QED  BY <1>4, <1>5, <1>6 DEF scopes

\* An empty stack has none.
LEMMA ScopesOfNone == InScope(<< >>) = 0
<1>1. {i \in DOMAIN << >> : << >>[i].kind = "PlanQuery"} = {}
  OBVIOUS
<1>. QED  BY <1>1, FS_EmptySet DEF InScope

\* They are those of any stack with plannings of the same kinds.
LEMMA ScopesSame ==
    ASSUME NEW a, NEW b, DOMAIN a = DOMAIN b, \A i \in DOMAIN a : a[i].kind = b[i].kind
    PROVE  InScope(a) = InScope(b)
<1>1. {i \in DOMAIN a : a[i].kind = "PlanQuery"} = {i \in DOMAIN b : b[i].kind = "PlanQuery"}
  OBVIOUS
<1>. QED  BY <1>1 DEF InScope

\* The scopes of the first k plannings and of the others.
LEMMA ScopesSplit ==
    ASSUME NEW stk \in Seq(PlanningFrame), NEW k \in 0..Len(stk)
    PROVE  InScope(stk) = InScope(SubSeq(stk, 1, k)) + InScope(SubSeq(stk, k + 1, Len(stk)))
<1>. DEFINE kept == SubSeq(stk, 1, k)
            left == SubSeq(stk, k + 1, Len(stk))
            In(s) == {i \in DOMAIN s : s[i].kind = "PlanQuery"}
            low == {i \in In(stk) : i <= k}
            high == {i \in In(stk) : i > k}
            shift == [i \in In(left) |-> i + k]
<1>1. /\ DOMAIN stk = 1..Len(stk) /\ Len(stk) \in Nat /\ k \in Nat /\ k <= Len(stk)
      /\ kept \in Seq(PlanningFrame) /\ left \in Seq(PlanningFrame)
  OBVIOUS
<1>2. /\ Len(kept) = k /\ DOMAIN kept = 1..k
      /\ \A i \in 1..k : kept[i] = stk[i]
  BY <1>1
<1>3. /\ Len(left) = Len(stk) - k /\ DOMAIN left = 1..(Len(stk) - k)
      /\ \A i \in 1..(Len(stk) - k) : left[i] = stk[i + k]
  <2>1. left = [i \in 1..(Len(stk) - k) |-> stk[i + k]]
    <3>1. Len(stk) - (k + 1) + 1 = Len(stk) - k
      BY <1>1
    <3>2. \A i \in 1..(Len(stk) - k) : k + 1 + i - 1 = i + k
      BY <1>1
    <3>. QED  BY <1>1, <3>1, <3>2, SubSeqProperties
  <2>. HIDE DEF left
  <2>2. Len(stk) - k \in Nat
    BY <1>1
  <2>. QED  BY <2>1, <2>2
<1>4. IsFiniteSet(In(stk)) /\ IsFiniteSet(In(left)) /\ IsFiniteSet(In(kept))
  BY <1>1, ScopesFinite
<1>. HIDE DEF kept, left
<1>5. In(kept) = low
  BY <1>1, <1>2
<1>6. shift \in Bijection(In(left), high)
  <2>1. \A i \in In(left) : i + k \in high
    BY <1>1, <1>3
  <2>2. \A i \in high : i - k \in In(left)
    BY <1>1, <1>3
  <2>3. shift \in [In(left) -> high]
    BY <2>1
  <2>4. \A i, j \in In(left) : shift[i] = shift[j] => i = j
    BY <1>1, <1>3
  <2>5. \A i \in high : shift[i - k] = i
    BY <2>2, <1>1
  <2>. HIDE DEF shift, In, high
  <2>6. shift \in Injection(In(left), high)
    BY <2>3, <2>4 DEF Injection, IsInjective
  <2>7. shift \in Surjection(In(left), high)
    BY <2>2, <2>3, <2>5 DEF Surjection
  <2>. QED  BY <2>6, <2>7 DEF Bijection
<1>7. Cardinality(high) = Cardinality(In(left)) /\ IsFiniteSet(high)
  <2>1. ExistsBijection(In(left), high)
    BY <1>6 DEF ExistsBijection
  <2>. HIDE DEF In, high
  <2>. QED  BY <1>4, <2>1, FS_Bijection
<1>8. In(stk) = low \cup high /\ low \cap high = {}
  BY <1>1
<1>9. Cardinality(In(stk)) = Cardinality(In(kept)) + Cardinality(In(left))
  <2>. HIDE DEF In, low, high
  <2>1. Cardinality(low \cup high) = Cardinality(low) + Cardinality(high) - Cardinality(low \cap high)
    BY <1>4, <1>5, <1>7, FS_Union
  <2>2. Cardinality(low \cap high) = 0
    BY <1>8, FS_EmptySet
  <2>3. Cardinality(low) \in Nat /\ Cardinality(high) \in Nat
    BY <1>4, <1>5, <1>7, FS_CardinalityType
  <2>. QED  BY <2>1, <2>2, <2>3, <1>5, <1>7, <1>8
<1>10. InScope(stk) = Cardinality(In(stk)) /\ InScope(kept) = Cardinality(In(kept)) /\ InScope(left) = Cardinality(In(left))
  BY DEF InScope
<1>. HIDE DEF In
<1>11. InScope(stk) = InScope(kept) + InScope(left)
  BY <1>9, <1>10
<1>. QED  BY <1>11 DEF kept, left

\* One planning is in scope or is not.
LEMMA ScopesOfOne ==
    ASSUME NEW f \in PlanningFrame
    PROVE  InScope(<<f>>) = IF f.kind = "PlanQuery" THEN 1 ELSE 0
<1>1. DOMAIN <<f>> = {1} /\ <<f>>[1] = f
  OBVIOUS
<1>2. CASE f.kind = "PlanQuery"
  <2>1. {i \in DOMAIN <<f>> : <<f>>[i].kind = "PlanQuery"} = {1}
    BY <1>1, <1>2
  <2>. QED  BY <2>1, <1>2, FS_Singleton DEF InScope
<1>3. CASE f.kind # "PlanQuery"
  <2>1. {i \in DOMAIN <<f>> : <<f>>[i].kind = "PlanQuery"} = {}
    BY <1>1, <1>3
  <2>. QED  BY <2>1, <1>3, FS_EmptySet DEF InScope
<1>. QED  BY <1>2, <1>3

\* A planning that starts adds its own.
LEMMA ScopesAppended ==
    ASSUME NEW stk \in Seq(PlanningFrame), NEW f \in PlanningFrame
    PROVE  InScope(Append(stk, f)) = InScope(stk) + (IF f.kind = "PlanQuery" THEN 1 ELSE 0)
<1>1. /\ Append(stk, f) \in Seq(PlanningFrame) /\ Len(Append(stk, f)) = Len(stk) + 1
      /\ Len(stk) \in 0..Len(Append(stk, f))
      /\ SubSeq(Append(stk, f), 1, Len(stk)) = stk
  OBVIOUS
<1>2. SubSeq(Append(stk, f), Len(stk) + 1, Len(Append(stk, f))) = <<f>>
  <2>1. PICK more \in Seq(PlanningFrame) : more = Append(stk, f)
    BY <1>1
  <2>2. Len(more) = Len(stk) + 1 /\ more[Len(more)] = f /\ Len(stk) \in Nat
    BY <2>1
  <2>3. SubSeq(more, Len(more), Len(more)) = <<more[Len(more)]>>
    <3>1. PICK n \in 1..Len(more) : n = Len(more)
      BY <2>1, <2>2
    <3>2. SubSeq(more, n, n) = SubSeq(more, n, n - 1) \o <<more[n]>>
      BY <2>1, <3>1, SubSeqRecursiveSecond
    <3>3. SubSeq(more, n, n - 1) = << >>
      BY <3>1, SubSeqEmpty
    <3>4. << >> \o <<more[n]>> = <<more[n]>>
      <4>1. PICK one \in PlanningFrame : one = more[n]
        BY <2>1, <3>1
      <4>. QED  BY <4>1
    <3>. QED  BY <3>1, <3>2, <3>3, <3>4
  <2>. QED  BY <2>1, <2>2, <2>3
<1>3. InScope(Append(stk, f)) =
         InScope(SubSeq(Append(stk, f), 1, Len(stk)))
         + InScope(SubSeq(Append(stk, f), Len(stk) + 1, Len(Append(stk, f))))
  BY <1>1, ScopesSplit
<1>. QED  BY <1>1, <1>2, <1>3, ScopesOfOne

\* There is one where PlanQuery is.
LEMMA ScopesPositive ==
    ASSUME NEW stk \in Seq(PlanningFrame), NEW i \in DOMAIN stk, stk[i].kind = "PlanQuery"
    PROVE  InScope(stk) > 0
<1>. DEFINE scopes == {j \in DOMAIN stk : stk[j].kind = "PlanQuery"}
<1>1. i \in scopes
  OBVIOUS
<1>2. IsFiniteSet(scopes)
  BY ScopesFinite
<1>3. InScope(stk) = Cardinality(scopes)
  BY DEF InScope
<1>. HIDE DEF scopes
<1>4. Cardinality(scopes) # 0
  BY <1>1, <1>2, FS_EmptySet
<1>5. InScope(stk) \in Nat
  BY ScopesFinite
<1>. QED  BY <1>3, <1>4, <1>5

------------------------------------------------------------------------------
(* Stacks of plannings.                                                    *)

\* A planning that starts satisfies the invariant of one.
LEMMA FreshPlanning ==
    ASSUME NEW kind \in {"statement", "PlanQuery", "serialized"}, NEW text \in SomeText,
           NEW native \in BOOLEAN
    PROVE  /\ FrameInv(Planning(kind, text, native)) /\ Planning(kind, text, native) \in PlanningFrame
           /\ Planning(kind, text, native).kind = kind /\ Planning(kind, text, native).text = text
           /\ ~InHook(Planning(kind, text, native)) /\ ~Planning(kind, text, native).checked
<1>. DEFINE none == Text("select", << >>)
<1>1. none \in SomeText
  <2>1. << >> \in Seq(TextItems)
    OBVIOUS
  <2>. QED  BY <2>1 DEF Text, SomeText, WellFormed
<1>. HIDE DEF none
<1>2. PICK p : p = Planning(kind, text, native)
  OBVIOUS
<1>3. p = [kind |-> kind, text |-> text, native |-> native, at |-> "bind", next |-> 1, bound |-> << >>,
           explained |-> FALSE, rewritten |-> none, checked |-> FALSE]
  BY <1>2 DEF Planning, none
<1>4. << >> \in Seq(BoundClocks) /\ DOMAIN << >> = {}
  OBVIOUS
<1>5. p \in PlanningFrame
  BY <1>1, <1>3, <1>4 DEF PlanningFrame, Stages
<1>6. p.kind = kind /\ p.text = text /\ p.bound = << >> /\ p.at = "bind" /\ p.checked = FALSE
  BY <1>3
<1>7. FrameInv(p) /\ ~InHook(p)
  BY <1>4, <1>5, <1>6 DEF FrameInv, ClocksAreCalls, InHook
<1>. QED  BY <1>2, <1>5, <1>6, <1>7

\* The types in StackInv.
LEMMA StackFacts ==
    ASSUME NEW stk, NEW depth, NEW guard, StackInv(stk, depth, guard)
    PROVE  /\ stk \in Seq(PlanningFrame) /\ Len(stk) \in Nat /\ DOMAIN stk = 1..Len(stk)
           /\ stk # << >> => Len(stk) \in DOMAIN stk /\ 1 \in DOMAIN stk
           /\ \A i \in DOMAIN stk : stk[i] \in PlanningFrame /\ FrameInv(stk[i])
           /\ depth = InScope(stk) /\ depth \in Nat
           /\ guard \in BOOLEAN
<1>1. stk \in Seq(PlanningFrame) /\ \A i \in DOMAIN stk : FrameInv(stk[i])
  BY DEF StackInv, Typed
<1>2. guard \in BOOLEAN /\ depth = InScope(stk)
  BY Zenon DEF StackInv, Guarded
<1>3. depth \in Nat
  BY <1>1, <1>2, ScopesFinite
<1>. QED  BY <1>1, <1>2, <1>3

\* The innermost planning goes on.
LEMMA ReplaceTop ==
    ASSUME NEW stk, NEW depth, NEW guard, StackInv(stk, depth, guard), stk # << >>,
           NEW g, FrameInv(g), g.kind = stk[Len(stk)].kind, g.text = stk[Len(stk)].text,
           InHook(g) =>
              InHook(stk[Len(stk)]) \/ (~guard /\ (Len(stk) = 1 \/ Hides(stk[1].text))),
           g.checked => stk[Len(stk)].checked \/ InHook(stk[Len(stk)])
    PROVE  StackInv([stk EXCEPT ![Len(stk)] = g], depth,
                    IF InHook(stk[Len(stk)]) \/ InHook(g) THEN InHook(g) ELSE guard)
<1>1. /\ stk \in Seq(PlanningFrame) /\ Len(stk) \in Nat /\ DOMAIN stk = 1..Len(stk)
      /\ Len(stk) \in DOMAIN stk /\ 1 \in DOMAIN stk
  BY StackFacts
<1>2. PICK n \in DOMAIN stk : n = Len(stk)
  BY <1>1
<1>3. PICK new : new = [stk EXCEPT ![n] = g]
  OBVIOUS
<1>4. g \in PlanningFrame
  BY DEF FrameInv
<1>5. /\ new \in Seq(PlanningFrame) /\ Len(new) = Len(stk) /\ DOMAIN new = DOMAIN stk
      /\ new[n] = g /\ \A i \in DOMAIN stk : i # n => new[i] = stk[i]
  BY <1>1, <1>3, <1>4
<1>6. Typed(new)
  BY <1>5 DEF StackInv, Typed
<1>7. \A i \in DOMAIN stk : new[i].kind = stk[i].kind /\ new[i].text = stk[i].text
  BY <1>2, <1>5
<1>8. Nested(new)
  <2>1. \A i \in DOMAIN stk : stk[i].kind = "statement" <=> i = 1
    BY DEF StackInv, Nested
  <2>2. Len(new) > 1 => new[1] = stk[1] /\ (InHook(stk[1]) \/ Nests(stk[1].text))
    BY <1>1, <1>2, <1>5 DEF StackInv, Nested
  <2>. QED  BY <2>1, <2>2, <1>5, <1>7 DEF Nested
<1>9. OneCheck(new)
  <2>1. \A i, j \in DOMAIN stk : InHook(stk[i]) /\ InHook(stk[j]) => i = j
    BY DEF StackInv, OneCheck
  <2>2. \A i \in DOMAIN stk : InHook(stk[i]) \/ stk[i].checked => i = 1 \/ Hides(stk[1].text)
    BY DEF StackInv, OneCheck
  <2>3. ~guard => \A i \in DOMAIN stk : ~InHook(stk[i])
    BY DEF StackInv, Guarded
  <2>4. \A i, j \in DOMAIN stk : InHook(new[i]) /\ InHook(new[j]) => i = j
    BY <1>2, <1>5, <2>1, <2>3
  <2>5. \A i \in DOMAIN stk : InHook(new[i]) \/ new[i].checked => i = 1 \/ Hides(stk[1].text)
    BY <1>2, <1>5, <2>2
  <2>6. new[1].text = stk[1].text
    BY <1>1, <1>7
  <2>. QED  BY <1>5, <2>4, <2>5, <2>6 DEF OneCheck
<1>10. Guarded(new, IF InHook(stk[n]) \/ InHook(g) THEN InHook(g) ELSE guard)
  <2>1. guard = (\E i \in DOMAIN stk : InHook(stk[i]))
    BY Zenon DEF StackInv, Guarded
  <2>2. \A i, j \in DOMAIN stk : InHook(stk[i]) /\ InHook(stk[j]) => i = j
    BY DEF StackInv, OneCheck
  <2>3. CASE InHook(g)
    <3>1. \E i \in DOMAIN new : InHook(new[i])
      BY <1>5, <2>3
    <3>. QED  BY <3>1, <2>3, Zenon DEF Guarded, InHook
  <2>4. CASE ~InHook(g) /\ InHook(stk[n])
    <3>1. \A i \in DOMAIN new : ~InHook(new[i])
      BY <1>5, <2>2, <2>4
    <3>2. (\E i \in DOMAIN new : InHook(new[i])) = InHook(g)
      <4>1. (\E i \in DOMAIN new : InHook(new[i])) = FALSE
        BY <3>1
      <4>2. InHook(g) = FALSE
        BY <2>4 DEF InHook
      <4>. QED  BY <4>1, <4>2
    <3>. QED  BY <3>2, <2>4 DEF Guarded
  <2>5. CASE ~InHook(g) /\ ~InHook(stk[n])
    <3>1. \A i \in DOMAIN new : InHook(new[i]) <=> InHook(stk[i])
      BY <1>5, <2>5
    <3>2. guard = (\E i \in DOMAIN new : InHook(new[i]))
      BY <3>1, <2>1, <1>5
    <3>. QED  BY <3>2, <2>5, Zenon DEF Guarded
  <2>. QED  BY <2>3, <2>4, <2>5
<1>11. depth = InScope(new)
  <2>1. InScope(new) = InScope(stk)
    BY <1>5, <1>7, ScopesSame
  <2>. QED  BY <2>1, StackFacts
<1>12. StackInv(new, depth, IF InHook(stk[n]) \/ InHook(g) THEN InHook(g) ELSE guard)
  BY <1>6, <1>8, <1>9, <1>10, <1>11 DEF StackInv
<1>. QED  BY <1>2, <1>3, <1>12

\* A planning starts in the innermost one.
LEMMA Push ==
    ASSUME NEW stk, NEW depth, NEW guard, StackInv(stk, depth, guard), stk # << >>,
           InHook(stk[1]) \/ Nests(stk[1].text),
           NEW kind \in {"PlanQuery", "serialized"}, NEW text \in SomeText, NEW native \in BOOLEAN
    PROVE  StackInv(Append(stk, Planning(kind, text, native)),
                    depth + (IF kind = "PlanQuery" THEN 1 ELSE 0), guard)
<1>1. /\ stk \in Seq(PlanningFrame) /\ Len(stk) \in Nat /\ DOMAIN stk = 1..Len(stk)
      /\ Len(stk) \in DOMAIN stk /\ 1 \in DOMAIN stk
  BY StackFacts
<1>2. PICK p \in PlanningFrame : p = Planning(kind, text, native)
  BY FreshPlanning
<1>3. FrameInv(p) /\ p.kind = kind /\ p.text = text /\ ~InHook(p) /\ ~p.checked
  BY <1>2, FreshPlanning
<1>4. PICK new : new = Append(stk, p)
  OBVIOUS
<1>5. /\ new \in Seq(PlanningFrame) /\ Len(new) = Len(stk) + 1 /\ DOMAIN new = 1..(Len(stk) + 1)
      /\ new[Len(stk) + 1] = p /\ \A i \in DOMAIN stk : new[i] = stk[i]
  BY <1>1, <1>4
<1>6. Typed(new)
  BY <1>1, <1>3, <1>5 DEF StackInv, Typed
<1>7. Nested(new)
  <2>1. \A i \in DOMAIN stk : stk[i].kind = "statement" <=> i = 1
    BY DEF StackInv, Nested
  <2>2. \A i \in DOMAIN new : new[i].kind = "statement" <=> i = 1
    BY <2>1, <1>1, <1>3, <1>5
  <2>3. new[1] = stk[1]
    BY <1>1, <1>5
  <2>. QED  BY <2>2, <2>3 DEF Nested
<1>8. OneCheck(new)
  <2>1. \A i, j \in DOMAIN stk : InHook(stk[i]) /\ InHook(stk[j]) => i = j
    BY DEF StackInv, OneCheck
  <2>2. \A i \in DOMAIN stk : InHook(stk[i]) \/ stk[i].checked => i = 1 \/ Hides(stk[1].text)
    BY DEF StackInv, OneCheck
  <2>3. \A i \in DOMAIN new : InHook(new[i]) \/ new[i].checked => i \in DOMAIN stk
    BY <1>1, <1>3, <1>5
  <2>4. \A i, j \in DOMAIN new : InHook(new[i]) /\ InHook(new[j]) => i = j
    BY <2>1, <2>3, <1>5
  <2>5. \A i \in DOMAIN new : InHook(new[i]) \/ new[i].checked => i = 1 \/ Hides(stk[1].text)
    BY <2>2, <2>3, <1>5
  <2>6. new[1] = stk[1]
    BY <1>1, <1>5
  <2>. QED  BY <2>4, <2>5, <2>6 DEF OneCheck
<1>9. Guarded(new, guard)
  <2>1. guard = (\E i \in DOMAIN stk : InHook(stk[i]))
    BY Zenon DEF StackInv, Guarded
  <2>2. (\E i \in DOMAIN stk : InHook(stk[i])) <=> (\E i \in DOMAIN new : InHook(new[i]))
    BY <1>1, <1>3, <1>5
  <2>. QED  BY <2>1, <2>2 DEF Guarded
<1>10. InScope(new) = depth + (IF kind = "PlanQuery" THEN 1 ELSE 0)
  <2>1. InScope(new) = InScope(stk) + (IF p.kind = "PlanQuery" THEN 1 ELSE 0)
    BY <1>1, <1>4, ScopesAppended
  <2>2. depth = InScope(stk)
    BY StackFacts
  <2>. QED  BY <2>1, <2>2, <1>3
<1>11. StackInv(new, depth + (IF kind = "PlanQuery" THEN 1 ELSE 0), guard)
  BY <1>6, <1>7, <1>8, <1>9, <1>10 DEF StackInv
<1>. QED  BY <1>2, <1>4, <1>11

\* Only the first k plannings are left.
LEMMA Cut ==
    ASSUME NEW stk, NEW depth, NEW guard, StackInv(stk, depth, guard), NEW k \in 0..Len(stk)
    PROVE  StackInv(SubSeq(stk, 1, k), InScope(SubSeq(stk, 1, k)),
                    \E i \in DOMAIN SubSeq(stk, 1, k) : InHook(SubSeq(stk, 1, k)[i]))
<1>1. /\ stk \in Seq(PlanningFrame) /\ Len(stk) \in Nat /\ DOMAIN stk = 1..Len(stk)
      /\ k \in Nat /\ k <= Len(stk)
  BY StackFacts
<1>2. PICK new : new = SubSeq(stk, 1, k)
  OBVIOUS
<1>3. /\ new \in Seq(PlanningFrame) /\ Len(new) = k /\ DOMAIN new = 1..k
      /\ \A i \in 1..k : new[i] = stk[i] /\ i \in DOMAIN stk
  BY <1>1, <1>2
<1>4. Typed(new)
  BY <1>3 DEF StackInv, Typed
<1>5. Nested(new)
  BY <1>1, <1>3 DEF StackInv, Nested
<1>6. OneCheck(new)
  BY <1>1, <1>3 DEF StackInv, OneCheck
<1>7. Guarded(new, \E i \in DOMAIN new : InHook(new[i]))
  BY DEF Guarded
<1>8. StackInv(new, InScope(new), \E i \in DOMAIN new : InHook(new[i]))
  BY <1>4, <1>5, <1>6, <1>7 DEF StackInv
<1>. QED  BY <1>2, <1>8

------------------------------------------------------------------------------
(* Steps of a connection.                                                  *)

\* A step of one connection leaves the stacks of the others alone.
LEMMA Elsewhere ==
    ASSUME PlanningInv, NEW c \in Connections, NEW stk, NEW depth, NEW guard,
           frames' = [frames EXCEPT ![c] = stk],
           lpts_planning_depth' = [lpts_planning_depth EXCEPT ![c] = depth],
           in_rewrite' = [in_rewrite EXCEPT ![c] = guard], StackInv(stk, depth, guard)
    PROVE  PlanningInv'
<1>1. stk \in Seq(PlanningFrame) /\ depth \in Nat /\ guard \in BOOLEAN
  BY StackFacts
<1>2. /\ frames' \in [Connections -> Seq(PlanningFrame)] /\ lpts_planning_depth' \in [Connections -> Nat]
      /\ in_rewrite' \in [Connections -> BOOLEAN]
  BY <1>1 DEF PlanningInv
<1>3. ASSUME NEW d \in Connections
      PROVE  StackInv(frames'[d], lpts_planning_depth'[d], in_rewrite'[d])
  <2>1. CASE d = c
    <3>1. frames'[d] = stk /\ lpts_planning_depth'[d] = depth /\ in_rewrite'[d] = guard
      BY <2>1 DEF PlanningInv
    <3>. QED  BY <3>1
  <2>2. CASE d # c
    <3>1. /\ frames'[d] = frames[d] /\ lpts_planning_depth'[d] = lpts_planning_depth[d]
          /\ in_rewrite'[d] = in_rewrite[d]
      BY <2>2 DEF PlanningInv
    <3>2. StackInv(frames[d], lpts_planning_depth[d], in_rewrite[d])
      BY DEF PlanningInv
    <3>. QED  BY <3>1, <3>2
  <2>. QED  BY <2>1, <2>2
<1>. QED  BY <1>2, <1>3 DEF PlanningInv

\* What a step leaves alone, in the form the lemmas ask for.
LEMMA Unchanging ==
    ASSUME PlanningInv, NEW c \in Connections
    PROVE  /\ lpts_planning_depth = [lpts_planning_depth EXCEPT ![c] = lpts_planning_depth[c]]
           /\ in_rewrite = [in_rewrite EXCEPT ![c] = in_rewrite[c]]
BY DEF PlanningInv

\* The innermost planning is one, with its text.
LEMMA PlannerFacts ==
    ASSUME PlanningInv, NEW c \in Connections, frames[c] # << >>
    PROVE  /\ StackInv(frames[c], lpts_planning_depth[c], in_rewrite[c])
           /\ Planner(c) \in PlanningFrame /\ FrameInv(Planner(c))
           /\ Planner(c).text \in SomeText /\ Planner(c).rewritten \in SomeText
           /\ frames[c][1].text \in SomeText
           /\ lpts_planning_depth[c] \in Nat /\ in_rewrite[c] \in BOOLEAN
           /\ Len(frames[c]) \in Nat /\ Len(frames[c]) >= 1
<1>1. StackInv(frames[c], lpts_planning_depth[c], in_rewrite[c])
  BY DEF PlanningInv
<1>2. /\ Len(frames[c]) \in Nat /\ Len(frames[c]) \in DOMAIN frames[c] /\ 1 \in DOMAIN frames[c]
      /\ Len(frames[c]) >= 1
  BY <1>1, StackFacts
<1>3. Planner(c) \in PlanningFrame /\ FrameInv(Planner(c)) /\ frames[c][1] \in PlanningFrame
  BY <1>1, <1>2, StackFacts DEF Planner
<1>4. Planner(c).text \in SomeText /\ Planner(c).rewritten \in SomeText /\ frames[c][1].text \in SomeText
  BY <1>3 DEF PlanningFrame
<1>5. lpts_planning_depth[c] \in Nat /\ in_rewrite[c] \in BOOLEAN
  BY DEF PlanningInv
<1>. QED  BY <1>1, <1>2, <1>3, <1>4, <1>5

\* What a planning may become: nothing of what it is for changes, and the hook of lpts_check is
\* entered only as LptsCheckOptimize does.
GoesOn(stk, guard, g) ==
    /\ FrameInv(g) /\ g.kind = stk[Len(stk)].kind /\ g.text = stk[Len(stk)].text
    /\ InHook(g) => InHook(stk[Len(stk)]) \/ (~guard /\ (Len(stk) = 1 \/ Hides(stk[1].text)))
    /\ g.checked => stk[Len(stk)].checked \/ InHook(stk[Len(stk)])

GuardWith(f, g, guard) == IF InHook(f) \/ InHook(g) THEN InHook(g) ELSE guard

\* The innermost planning goes on: its stack.
LEMMA CallerStays ==
    ASSUME PlanningInv, NEW c \in Connections, frames[c] # << >>, NEW g,
           GoesOn(frames[c], in_rewrite[c], g)
    PROVE  /\ StackInv(Set(c, g), lpts_planning_depth[c], GuardWith(Planner(c), g, in_rewrite[c]))
           /\ Set(c, g) # << >>
           /\ Set(c, g)[1] = IF Len(frames[c]) = 1 THEN g ELSE frames[c][1]
<1>1. StackInv(frames[c], lpts_planning_depth[c], in_rewrite[c])
  BY PlannerFacts
<1>2. StackInv([frames[c] EXCEPT ![Len(frames[c])] = g], lpts_planning_depth[c],
               IF InHook(frames[c][Len(frames[c])]) \/ InHook(g) THEN InHook(g) ELSE in_rewrite[c])
  BY <1>1, ReplaceTop DEF GoesOn
<1>3. frames[c] \in Seq(PlanningFrame) /\ g \in PlanningFrame
  BY DEF PlanningInv, GoesOn, FrameInv
<1>4. /\ [frames[c] EXCEPT ![Len(frames[c])] = g] # << >>
      /\ [frames[c] EXCEPT ![Len(frames[c])] = g][1] = IF Len(frames[c]) = 1 THEN g ELSE frames[c][1]
  BY <1>3
<1>. QED  BY <1>2, <1>4 DEF Set, Planner, GuardWith

\* The innermost planning goes on: the step.
LEMMA GoingOn ==
    ASSUME PlanningInv, NEW c \in Connections, frames[c] # << >>, NEW g,
           GoesOn(frames[c], in_rewrite[c], g),
           frames' = [frames EXCEPT ![c] = Set(c, g)],
           UNCHANGED lpts_planning_depth,
           in_rewrite' = [in_rewrite EXCEPT ![c] = GuardWith(Planner(c), g, in_rewrite[c])]
    PROVE  PlanningInv'
<1>1. StackInv(Set(c, g), lpts_planning_depth[c], GuardWith(Planner(c), g, in_rewrite[c]))
  BY CallerStays
<1>2. lpts_planning_depth' = [lpts_planning_depth EXCEPT ![c] = lpts_planning_depth[c]]
  BY Unchanging
<1>. QED  BY <1>1, <1>2, Elsewhere

\* A number that is not 1.
LEMMA MoreThanOne ==
    ASSUME NEW n \in Nat, n >= 1, n # 1
    PROVE  n > 1
OBVIOUS

\* A planning that calls another one is in the hook or its text nests.
LEMMA CallerNests ==
    ASSUME PlanningInv, NEW c \in Connections, frames[c] # << >>, NEW g,
           GoesOn(frames[c], in_rewrite[c], g),
           Len(frames[c]) = 1 => InHook(g) \/ Nests(g.text)
    PROVE  InHook(Set(c, g)[1]) \/ Nests(Set(c, g)[1].text)
<1>1. /\ StackInv(Set(c, g), lpts_planning_depth[c], GuardWith(Planner(c), g, in_rewrite[c]))
      /\ Set(c, g) # << >>
      /\ Set(c, g)[1] = IF Len(frames[c]) = 1 THEN g ELSE frames[c][1]
  BY CallerStays
<1>2. Len(frames[c]) \in Nat /\ Len(frames[c]) >= 1
  BY PlannerFacts
<1>3. Len(frames[c]) > 1 => InHook(frames[c][1]) \/ Nests(frames[c][1].text)
  BY PlannerFacts DEF StackInv, Nested
<1>4. CASE Len(frames[c]) = 1
  BY <1>4, <1>1
<1>5. CASE Len(frames[c]) # 1
  <2>1. Set(c, g)[1] = frames[c][1]
    BY <1>5, <1>1
  <2>2. Len(frames[c]) > 1
    BY <1>2, <1>5, MoreThanOne
  <2>. QED  BY <2>1, <2>2, <1>3
<1>. QED  BY <1>4, <1>5

\* The innermost planning calls another one.
LEMMA Calling ==
    ASSUME PlanningInv, NEW c \in Connections, frames[c] # << >>, NEW g,
           GoesOn(frames[c], in_rewrite[c], g),
           Len(frames[c]) = 1 => InHook(g) \/ Nests(g.text),
           NEW kind \in {"PlanQuery", "serialized"}, NEW text \in SomeText, NEW native \in BOOLEAN,
           frames' = [frames EXCEPT ![c] = Append(Set(c, g), Planning(kind, text, native))],
           lpts_planning_depth' =
              [lpts_planning_depth EXCEPT ![c] = @ + (IF kind = "PlanQuery" THEN 1 ELSE 0)],
           in_rewrite' = [in_rewrite EXCEPT ![c] = GuardWith(Planner(c), g, in_rewrite[c])]
    PROVE  PlanningInv'
<1>1. /\ StackInv(Set(c, g), lpts_planning_depth[c], GuardWith(Planner(c), g, in_rewrite[c]))
      /\ Set(c, g) # << >>
  BY CallerStays
<1>2. InHook(Set(c, g)[1]) \/ Nests(Set(c, g)[1].text)
  BY CallerNests
<1>3. StackInv(Append(Set(c, g), Planning(kind, text, native)),
               lpts_planning_depth[c] + (IF kind = "PlanQuery" THEN 1 ELSE 0),
               GuardWith(Planner(c), g, in_rewrite[c]))
  BY <1>1, <1>2, Push
<1>4. lpts_planning_depth' =
         [lpts_planning_depth EXCEPT ![c] = lpts_planning_depth[c] + (IF kind = "PlanQuery" THEN 1 ELSE 0)]
  OBVIOUS
<1>. QED  BY <1>3, <1>4, Elsewhere

------------------------------------------------------------------------------
(* Binding.                                                                *)

\* The next item of a text: only an item of its own is a clock of its own, and one that plans shows
\* in the text or hides in a view.
LEMMA HereFacts ==
    ASSUME PlanningInv, NEW c \in Connections, NEW kind, Binds(c, kind)
    PROVE  /\ frames[c] # << >> /\ Planner(c).at = "bind"
           /\ Here(c).item \in TextItems /\ Here(c).own \in BOOLEAN /\ Here(c).item.kind = kind
           /\ kind = "clock" /\ Here(c).own => HasClock(Planner(c).text)
           /\ kind \in {"lpts_query", "json_serialize_plan"} => Nests(Planner(c).text)
<1>1. frames[c] # << >> /\ Planner(c).at = "bind"
  BY DEF Binds, At
<1>2. PICK text \in SomeText : text = Planner(c).text
  BY <1>1, PlannerFacts
<1>3. PICK i \in DOMAIN BoundItems(text) : i = Planner(c).next /\ BoundItems(text)[i].item.kind = kind
  BY <1>2 DEF Binds
<1>4. PICK b \in Bindable(text) : b = BoundItems(text)[i]
  BY BoundItemsIn
<1>5. Here(c) = b
  BY <1>2, <1>3, <1>4 DEF Here
<1>6. b.item \in TextItems /\ b.own \in BOOLEAN /\ b.item.kind = kind
  BY <1>3, <1>4, BindableFacts
<1>7. CASE b.own
  <2>1. PICK j \in DOMAIN text.items : b.item = text.items[j]
    BY <1>7, BindableFacts
  <2>2. kind = "clock" => HasClock(text)
    BY <2>1, <1>6 DEF HasClock
  <2>3. kind \in {"lpts_query", "json_serialize_plan"} => PlansQueries(text)
    BY <2>1, <1>6 DEF PlansQueries
  <2>. QED  BY <2>2, <2>3, <1>1, <1>2, <1>5, <1>6 DEF Nests
<1>8. CASE ~b.own
  <2>1. PICK j \in DOMAIN text.items :
              /\ text.items[j].kind = "view"
              /\ \E k \in DOMAIN text.items[j].texts[1].items : b.item = text.items[j].texts[1].items[k]
    BY <1>8, BindableFacts
  <2>2. kind \in {"lpts_query", "json_serialize_plan"} => PlansQueries(text.items[j].texts[1])
    BY <2>1, <1>6 DEF PlansQueries
  <2>3. kind \in {"lpts_query", "json_serialize_plan"} => Hides(text)
    BY <2>1, <2>2 DEF Hides
  <2>. QED  BY <1>8, <2>3, <1>1, <1>2, <1>5, <1>6 DEF Nests
<1>. QED  BY <1>7, <1>8

\* A planning whose plan stays as it is.
LEMMA SamePlan ==
    ASSUME NEW f, FrameInv(f), NEW g \in PlanningFrame,
           g.kind = f.kind, g.text = f.text, g.native = f.native, g.bound = f.bound
    PROVE  FrameInv(g)
BY DEF FrameInv, ClocksAreCalls

\* Going on to the next item changes nothing else.
LEMMA FurtherFacts ==
    ASSUME PlanningInv, NEW c \in Connections, frames[c] # << >>
    PROVE  GoesOn(frames[c], in_rewrite[c], Further(c))
           /\ InHook(Further(c)) = InHook(Planner(c)) /\ Further(c).text = Planner(c).text
<1>1. PICK f \in PlanningFrame : f = Planner(c) /\ FrameInv(f)
  BY PlannerFacts
<1>2. PICK g : g = [f EXCEPT !.next = @ + 1]
  OBVIOUS
<1>3. g \in PlanningFrame
  BY <1>2 DEF PlanningFrame
<1>4. /\ g.kind = f.kind /\ g.text = f.text /\ g.native = f.native /\ g.bound = f.bound
      /\ g.at = f.at /\ g.checked = f.checked
  BY <1>2 DEF PlanningFrame
<1>5. FrameInv(g) /\ InHook(g) = InHook(f)
  BY <1>1, <1>3, <1>4, SamePlan DEF InHook
<1>6. Further(c) = g /\ f = frames[c][Len(frames[c])]
  BY <1>1, <1>2 DEF Further, Planner
<1>. QED  BY <1>1, <1>4, <1>5, <1>6 DEF GoesOn

\* The frame on top of the stack is a statement only outside of every scope.
LEMMA OutOfScope ==
    ASSUME PlanningInv, NEW c \in Connections, frames[c] # << >>
    PROVE  /\ Planner(c).kind = "statement" => lpts_planning_depth[c] = 0
           /\ Planner(c).kind = "PlanQuery" => lpts_planning_depth[c] > 0
<1>1. PICK stk \in Seq(PlanningFrame) : stk = frames[c] /\ lpts_planning_depth[c] = InScope(stk)
  BY PlannerFacts, StackFacts
<1>2. Len(stk) \in DOMAIN stk /\ Len(stk) \in Nat /\ Planner(c) = stk[Len(stk)]
  BY <1>1, PlannerFacts DEF Planner
<1>3. CASE Planner(c).kind = "PlanQuery"
  <2>1. InScope(stk) > 0
    BY <1>2, <1>3, ScopesPositive
  <2>. QED  BY <2>1, <1>1, <1>3
<1>4. CASE Planner(c).kind = "statement"
  <2>1. \A i \in DOMAIN stk : stk[i].kind = "statement" <=> i = 1
    BY <1>1, PlannerFacts DEF StackInv, Nested
  <2>2. Len(stk) = 1
    BY <2>1, <1>2, <1>4
  <2>3. \A i \in DOMAIN stk : stk[i].kind # "PlanQuery"
    BY <2>1, <2>2
  <2>4. {i \in DOMAIN stk : stk[i].kind = "PlanQuery"} = {}
    BY <2>3
  <2>5. InScope(stk) = 0
    BY <2>4, FS_EmptySet DEF InScope
  <2>. QED  BY <2>5, <1>1, <1>4
<1>. QED  BY <1>3, <1>4

\* BindClock: what the clock becomes is what a planning of this kind may hold.
LEMMA StepBindClock ==
    ASSUME PlanningInv, NEW c \in Connections, BindClock(c)
    PROVE  PlanningInv'
<1>1. /\ frames[c] # << >> /\ Planner(c).at = "bind"
      /\ Here(c).item \in TextItems /\ Here(c).own \in BOOLEAN /\ Here(c).item.kind = "clock"
      /\ Here(c).own => HasClock(Planner(c).text)
  BY HereFacts DEF BindClock
<1>2. PICK f \in PlanningFrame : f = Planner(c) /\ FrameInv(f)
  BY <1>1, PlannerFacts
<1>3. Here(c).item.clock \in Clocks
  BY <1>1, ItemFacts
<1>4. PICK b : b = BoundClock(c, Here(c).item, Here(c).own)
  OBVIOUS
<1>5. /\ b.clock = Here(c).item.clock /\ b.own = Here(c).own
      /\ b.is = IF f.kind = "PlanQuery" /\ b.own /\ b.clock = "now" THEN "internal"
                ELSE IF b.clock = "current_timestamp" /\ lpts_planning_depth[c] > 0 THEN "internal"
                ELSE "duckdb"
  BY <1>2, <1>4 DEF BoundClock, LptsGetSQLValueFunction
<1>6. b \in BoundClocks
  <2>1. b.is \in {"internal", "duckdb", "constant"}
    BY <1>5
  <2>2. b = [clock |-> b.clock, own |-> b.own, is |-> b.is]
    BY <1>4 DEF BoundClock
  <2>. QED  BY <2>1, <2>2, <1>1, <1>3, <1>5 DEF BoundClocks
<1>7. /\ f.kind = "statement" => lpts_planning_depth[c] = 0
      /\ f.kind = "PlanQuery" => lpts_planning_depth[c] > 0
  BY <1>1, <1>2, OutOfScope
<1>8. PICK g : g = [f EXCEPT !.next = @ + 1, !.bound = Append(@, b)]
  OBVIOUS
<1>9. f.bound \in Seq(BoundClocks)
  BY DEF PlanningFrame
<1>10. Append(f.bound, b) \in Seq(BoundClocks)
  BY <1>6, <1>9
<1>11. /\ g \in PlanningFrame /\ g.kind = f.kind /\ g.text = f.text /\ g.native = f.native
       /\ g.bound = Append(f.bound, b) /\ g.at = f.at /\ g.checked = f.checked
  <2>1. PICK bound \in Seq(BoundClocks) : bound = Append(f.bound, b)
    BY <1>10
  <2>2. PICK next \in Nat : next = f.next + 1
    BY DEF PlanningFrame
  <2>3. g = [f EXCEPT !.next = next, !.bound = bound]
    BY <1>8, <2>1, <2>2
  <2>4. g \in PlanningFrame
    BY <2>3 DEF PlanningFrame
  <2>. QED  BY <2>1, <2>3, <2>4 DEF PlanningFrame
<1>12. \A i \in DOMAIN g.bound : (i \in DOMAIN f.bound /\ g.bound[i] = f.bound[i]) \/ g.bound[i] = b
  BY <1>9, <1>10, <1>11, <1>6
<1>13. FrameInv(g)
  <2>1. \A i \in DOMAIN g.bound : g.bound[i].own => HasClock(g.text)
    BY <1>1, <1>2, <1>5, <1>11, <1>12 DEF FrameInv
  <2>2. g.kind = "PlanQuery" /\ ~g.native => ClocksAreCalls(g)
    <3>1. SUFFICES ASSUME g.kind = "PlanQuery", ~g.native PROVE ClocksAreCalls(g)
      OBVIOUS
    <3>2. ClocksAreCalls(f)
      BY <3>1, <1>2, <1>11 DEF FrameInv
    <3>3. b.own \/ b.clock = "current_timestamp" =>
             IF b.clock = "current_date" THEN b.is = "duckdb" ELSE b.is = "internal"
      BY <3>1, <1>3, <1>5, <1>7, <1>11 DEF Clocks
    <3>. QED  BY <3>2, <3>3, <1>12 DEF ClocksAreCalls
  <2>3. g.kind = "statement" => \A i \in DOMAIN g.bound : g.bound[i].is # "internal"
    <3>1. SUFFICES ASSUME g.kind = "statement" PROVE \A i \in DOMAIN g.bound : g.bound[i].is # "internal"
      OBVIOUS
    <3>2. \A i \in DOMAIN f.bound : f.bound[i].is # "internal"
      BY <3>1, <1>2, <1>11 DEF FrameInv
    <3>3. b.is # "internal"
      BY <3>1, <1>5, <1>7, <1>11
    <3>. QED  BY <3>2, <3>3, <1>12
  <2>. QED  BY <1>11, <2>1, <2>2, <2>3 DEF FrameInv
<1>14. InHook(g) = InHook(f) /\ ~InHook(f)
  BY <1>1, <1>2, <1>11 DEF InHook
<1>15. GoesOn(frames[c], in_rewrite[c], g)
  BY <1>2, <1>11, <1>13, <1>14 DEF GoesOn, Planner
<1>16. frames' = [frames EXCEPT ![c] = Set(c, g)]
  BY <1>2, <1>4, <1>8 DEF BindClock, Further
<1>17. in_rewrite' = [in_rewrite EXCEPT ![c] = GuardWith(Planner(c), g, in_rewrite[c])]
  BY <1>2, <1>14, Unchanging DEF BindClock, GuardWith
<1>. QED  BY <1>1, <1>15, <1>16, <1>17, GoingOn DEF BindClock

\* BindLptsQuery: the planner nests.
LEMMA StepBindLptsQuery ==
    ASSUME PlanningInv, NEW c \in Connections, BindLptsQuery(c)
    PROVE  PlanningInv'
<1>1. /\ frames[c] # << >> /\ Planner(c).at = "bind"
      /\ Here(c).item \in TextItems /\ Here(c).item.kind = "lpts_query"
      /\ Nests(Planner(c).text)
  BY HereFacts DEF BindLptsQuery
<1>2. PICK text \in SomeText : text = Here(c).item.texts[1]
  BY <1>1, ItemFacts
<1>3. PICK g : g = Further(c)
  OBVIOUS
<1>4. /\ GoesOn(frames[c], in_rewrite[c], g) /\ InHook(g) = InHook(Planner(c))
      /\ g.text = Planner(c).text
  BY <1>1, <1>3, FurtherFacts
<1>5. ~InHook(Planner(c))
  BY <1>1 DEF InHook
<1>6. frames' = [frames EXCEPT ![c] = Append(Set(c, g), Planning("PlanQuery", text, FALSE))]
  BY <1>2, <1>3 DEF BindLptsQuery, PlanQuery
<1>7. lpts_planning_depth' = [lpts_planning_depth EXCEPT ![c] = @ + (IF "PlanQuery" = "PlanQuery" THEN 1 ELSE 0)]
  BY DEF BindLptsQuery, PlanQuery
<1>8. in_rewrite' = [in_rewrite EXCEPT ![c] = GuardWith(Planner(c), g, in_rewrite[c])]
  BY <1>4, <1>5, Unchanging DEF BindLptsQuery, GuardWith
<1>9. Nests(g.text)
  BY <1>1, <1>4
<1>. QED  BY <1>1, <1>4, <1>6, <1>7, <1>8, <1>9, Calling

\* SerializePlan: DuckDB's own planner nests, outside of a new scope.
LEMMA StepSerializePlan ==
    ASSUME PlanningInv, NEW c \in Connections, SerializePlan(c)
    PROVE  PlanningInv'
<1>1. /\ frames[c] # << >> /\ Planner(c).at = "bind"
      /\ Here(c).item \in TextItems /\ Here(c).item.kind = "json_serialize_plan"
      /\ Nests(Planner(c).text)
  BY HereFacts DEF SerializePlan
<1>2. PICK text \in SomeText : text = Here(c).item.texts[1]
  BY <1>1, ItemFacts
<1>3. PICK g : g = Further(c)
  OBVIOUS
<1>4. /\ GoesOn(frames[c], in_rewrite[c], g) /\ InHook(g) = InHook(Planner(c))
      /\ g.text = Planner(c).text
  BY <1>1, <1>3, FurtherFacts
<1>5. ~InHook(Planner(c))
  BY <1>1 DEF InHook
<1>6. frames' = [frames EXCEPT ![c] = Append(Set(c, g), Planning("serialized", text, FALSE))]
  BY <1>2, <1>3 DEF SerializePlan
<1>7. lpts_planning_depth' = [lpts_planning_depth EXCEPT ![c] = @ + (IF "serialized" = "PlanQuery" THEN 1 ELSE 0)]
  <2>1. lpts_planning_depth[c] + 0 = lpts_planning_depth[c]
    BY DEF PlanningInv
  <2>2. lpts_planning_depth' = [lpts_planning_depth EXCEPT ![c] = lpts_planning_depth[c]]
    BY Unchanging DEF SerializePlan
  <2>. QED  BY <2>1, <2>2
<1>8. in_rewrite' = [in_rewrite EXCEPT ![c] = GuardWith(Planner(c), g, in_rewrite[c])]
  BY <1>4, <1>5, Unchanging DEF SerializePlan, GuardWith
<1>9. Nests(g.text)
  BY <1>1, <1>4
<1>. QED  BY <1>1, <1>4, <1>6, <1>7, <1>8, <1>9, Calling

------------------------------------------------------------------------------
(* Optimizing.                                                             *)

\* Folding changes what a clock is and nothing else.
LEMMA FoldedFacts ==
    ASSUME NEW bound \in Seq(BoundClocks)
    PROVE  /\ Folded(bound) \in Seq(BoundClocks) /\ DOMAIN Folded(bound) = DOMAIN bound
           /\ \A i \in DOMAIN bound :
                 /\ Folded(bound)[i].own = bound[i].own /\ Folded(bound)[i].clock = bound[i].clock
                 /\ Folded(bound)[i].is = IF bound[i].is = "duckdb" THEN "constant" ELSE bound[i].is
<1>. DEFINE fold(i) == IF bound[i].is = "duckdb" THEN [bound[i] EXCEPT !.is = "constant"] ELSE bound[i]
<1>1. DOMAIN bound = 1..Len(bound) /\ Len(bound) \in Nat /\ \A i \in DOMAIN bound : bound[i] \in BoundClocks
  OBVIOUS
<1>2. ASSUME NEW i \in DOMAIN bound
      PROVE  /\ fold(i) \in BoundClocks /\ fold(i).own = bound[i].own /\ fold(i).clock = bound[i].clock
             /\ fold(i).is = IF bound[i].is = "duckdb" THEN "constant" ELSE bound[i].is
  <2>1. PICK b \in BoundClocks : b = bound[i]
    BY <1>1
  <2>2. [b EXCEPT !.is = "constant"] \in BoundClocks
    BY DEF BoundClocks
  <2>. QED  BY <2>1, <2>2 DEF BoundClocks
<1>3. Folded(bound) = [i \in DOMAIN bound |-> fold(i)]
  BY DEF Folded
<1>. HIDE DEF fold
<1>4. /\ DOMAIN Folded(bound) = DOMAIN bound /\ \A i \in DOMAIN bound : Folded(bound)[i] = fold(i)
  BY <1>3
<1>5. Folded(bound) \in Seq(BoundClocks)
  BY <1>1, <1>2, <1>3
<1>. QED  BY <1>2, <1>4, <1>5

\* A plan without a clock of the text itself may be optimized as DuckDB does.
LEMMA FoldedPlan ==
    ASSUME NEW f, FrameInv(f), NEW g \in PlanningFrame,
           g.kind = f.kind, g.text = f.text, g.native = f.native, g.bound = Folded(f.bound),
           f.kind = "PlanQuery" /\ ~f.native => ~HasWallClockFunctionSQL(f.text)
    PROVE  FrameInv(g)
<1>1. f \in PlanningFrame /\ f.bound \in Seq(BoundClocks)
  BY DEF FrameInv, PlanningFrame
<1>2. /\ DOMAIN g.bound = DOMAIN f.bound
      /\ \A i \in DOMAIN f.bound :
            /\ g.bound[i].own = f.bound[i].own /\ g.bound[i].clock = f.bound[i].clock
            /\ g.bound[i].is = IF f.bound[i].is = "duckdb" THEN "constant" ELSE f.bound[i].is
  BY <1>1, FoldedFacts
<1>3. \A i \in DOMAIN f.bound : f.bound[i].own => HasClock(f.text)
  BY DEF FrameInv
<1>4. \A i \in DOMAIN g.bound : g.bound[i].own => HasClock(g.text)
  BY <1>2, <1>3
<1>5. g.kind = "PlanQuery" /\ ~g.native => ClocksAreCalls(g)
  <2>1. SUFFICES ASSUME g.kind = "PlanQuery", ~g.native PROVE ClocksAreCalls(g)
    OBVIOUS
  <2>2. ClocksAreCalls(f) /\ ~HasClock(f.text)
    BY <2>1 DEF FrameInv, HasWallClockFunctionSQL
  <2>3. \A i \in DOMAIN f.bound : ~f.bound[i].own
    BY <2>2, <1>3
  <2>4. ASSUME NEW i \in DOMAIN g.bound, g.bound[i].own \/ g.bound[i].clock = "current_timestamp"
        PROVE  IF g.bound[i].clock = "current_date" THEN g.bound[i].is = "duckdb" ELSE g.bound[i].is = "internal"
    <3>1. i \in DOMAIN f.bound /\ f.bound[i].clock = "current_timestamp"
      BY <2>3, <2>4, <1>2
    <3>2. f.bound[i].is = "internal"
      BY <3>1, <2>2 DEF ClocksAreCalls
    <3>. QED  BY <3>1, <3>2, <1>2
  <2>. QED  BY <2>4 DEF ClocksAreCalls
<1>6. g.kind = "statement" => \A i \in DOMAIN g.bound : g.bound[i].is # "internal"
  BY <1>2 DEF FrameInv
<1>. QED  BY <1>4, <1>5, <1>6 DEF FrameInv

\* LptsOptimizeConservative: a text with a clock is not folded.
LEMMA StepLptsOptimizeConservative ==
    ASSUME PlanningInv, NEW c \in Connections, LptsOptimizeConservative(c)
    PROVE  PlanningInv'
<1>1. /\ frames[c] # << >> /\ Planner(c).at = "bind"
  BY DEF LptsOptimizeConservative, AllBound, At
<1>2. PICK f \in PlanningFrame : f = Planner(c) /\ FrameInv(f)
  BY <1>1, PlannerFacts
<1>3. f.bound \in Seq(BoundClocks)
  BY DEF PlanningFrame
<1>4. PICK bound \in Seq(BoundClocks) :
         bound = IF HasWallClockFunctionSQL(f.text) THEN f.bound ELSE Folded(f.bound)
  BY <1>3, FoldedFacts
<1>5. PICK at \in {"refused", "planned"} : at = IF f.text.kind = "explain" THEN "refused" ELSE "planned"
  OBVIOUS
<1>6. PICK g : g = [f EXCEPT !.at = at, !.bound = bound]
  OBVIOUS
<1>7. at \in Stages /\ at # "bind"
  BY <1>5 DEF Stages
<1>8. /\ g \in PlanningFrame /\ g.kind = f.kind /\ g.text = f.text /\ g.native = f.native
      /\ g.bound = bound /\ g.at = at /\ g.checked = f.checked
  <2>1. g \in PlanningFrame
    BY <1>6, <1>7 DEF PlanningFrame
  <2>. QED  BY <2>1, <1>6 DEF PlanningFrame
<1>9. FrameInv(g)
  <2>1. CASE HasWallClockFunctionSQL(f.text)
    BY <2>1, <1>2, <1>4, <1>8, SamePlan
  <2>2. CASE ~HasWallClockFunctionSQL(f.text)
    <3>1. g.bound = Folded(f.bound)
      BY <2>2, <1>4, <1>8
    <3>. QED  BY <2>2, <3>1, <1>2, <1>8, FoldedPlan
  <2>. QED  BY <2>1, <2>2
<1>10. ~InHook(g) /\ ~InHook(f)
  BY <1>1, <1>2, <1>5, <1>8 DEF InHook
<1>11. GoesOn(frames[c], in_rewrite[c], g)
  BY <1>2, <1>8, <1>9, <1>10 DEF GoesOn, Planner
<1>12. frames' = [frames EXCEPT ![c] = Set(c, g)]
  BY <1>2, <1>4, <1>5, <1>6 DEF LptsOptimizeConservative
<1>13. in_rewrite' = [in_rewrite EXCEPT ![c] = GuardWith(Planner(c), g, in_rewrite[c])]
  BY <1>2, <1>10, Unchanging DEF LptsOptimizeConservative, GuardWith
<1>. QED  BY <1>1, <1>11, <1>12, <1>13, GoingOn DEF LptsOptimizeConservative

\* LptsExplainSqlOptimize: the text that is explained is planned inside.
LEMMA StepLptsExplainSqlOptimize ==
    ASSUME PlanningInv, NEW c \in Connections, LptsExplainSqlOptimize(c)
    PROVE  PlanningInv'
<1>1. /\ frames[c] # << >> /\ Planner(c).at = "bind" /\ Planner(c).text.kind = "explain"
  BY DEF LptsExplainSqlOptimize, AllBound, At
<1>2. PICK f \in PlanningFrame : f = Planner(c) /\ FrameInv(f)
  BY <1>1, PlannerFacts
<1>3. PICK g : g = [f EXCEPT !.explained = TRUE]
  OBVIOUS
<1>4. /\ g \in PlanningFrame /\ g.kind = f.kind /\ g.text = f.text /\ g.native = f.native
      /\ g.bound = f.bound /\ g.at = f.at /\ g.checked = f.checked
  <2>1. g \in PlanningFrame
    BY <1>3 DEF PlanningFrame
  <2>. QED  BY <2>1, <1>3 DEF PlanningFrame
<1>5. FrameInv(g) /\ ~InHook(g) /\ ~InHook(f)
  BY <1>1, <1>2, <1>4, SamePlan DEF InHook
<1>6. GoesOn(frames[c], in_rewrite[c], g)
  BY <1>2, <1>4, <1>5 DEF GoesOn, Planner
<1>7. PICK text \in SomeText : text = f.text.items[1].texts[1]
  <2>1. f.text \in SomeText
    BY DEF PlanningFrame
  <2>2. f.text.items[1] \in TextItems /\ f.text.items[1].kind = "text"
    BY <2>1, <1>1, <1>2, TextFacts
  <2>. QED  BY <2>2, ItemFacts
<1>8. Nests(g.text)
  BY <1>1, <1>2, <1>4 DEF Nests
<1>9. frames' = [frames EXCEPT ![c] = Append(Set(c, g), Planning("PlanQuery", text, FALSE))]
  BY <1>2, <1>3, <1>7 DEF LptsExplainSqlOptimize, PlanQuery
<1>10. lpts_planning_depth' = [lpts_planning_depth EXCEPT ![c] = @ + (IF "PlanQuery" = "PlanQuery" THEN 1 ELSE 0)]
  BY DEF LptsExplainSqlOptimize, PlanQuery
<1>11. in_rewrite' = [in_rewrite EXCEPT ![c] = GuardWith(Planner(c), g, in_rewrite[c])]
  BY <1>2, <1>5, Unchanging DEF LptsExplainSqlOptimize, GuardWith
<1>. QED  BY <1>1, <1>6, <1>8, <1>9, <1>10, <1>11, Calling

\* Optimize: DuckDB folds what LPTS will translate only if the text has no clock.
LEMMA StepOptimize ==
    ASSUME PlanningInv, NEW c \in Connections, Optimize(c)
    PROVE  PlanningInv'
<1>1. /\ frames[c] # << >> /\ Planner(c).at = "bind"
  BY DEF Optimize, AllBound, At
<1>2. PICK f \in PlanningFrame : f = Planner(c) /\ FrameInv(f)
  BY <1>1, PlannerFacts
<1>3. PICK bound \in Seq(BoundClocks) : bound = Folded(f.bound)
  <2>1. f.bound \in Seq(BoundClocks)
    BY DEF PlanningFrame
  <2>. QED  BY <2>1, FoldedFacts
<1>4. PICK g : g = [f EXCEPT !.at = "optimized", !.bound = bound]
  OBVIOUS
<1>5. /\ g \in PlanningFrame /\ g.kind = f.kind /\ g.text = f.text /\ g.native = f.native
      /\ g.bound = bound /\ g.at = "optimized" /\ g.checked = f.checked
  <2>1. g \in PlanningFrame
    BY <1>4 DEF PlanningFrame, Stages
  <2>. QED  BY <2>1, <1>4 DEF PlanningFrame
<1>6. f.kind = "PlanQuery" /\ ~f.native => ~HasWallClockFunctionSQL(f.text)
  BY <1>2 DEF Optimize, LptsOptimizePlan
<1>7. FrameInv(g)
  BY <1>2, <1>3, <1>5, <1>6, FoldedPlan
<1>8. ~InHook(g) /\ ~InHook(f)
  BY <1>1, <1>2, <1>5 DEF InHook
<1>9. GoesOn(frames[c], in_rewrite[c], g)
  BY <1>2, <1>5, <1>7, <1>8 DEF GoesOn, Planner
<1>10. frames' = [frames EXCEPT ![c] = Set(c, g)]
  BY <1>2, <1>3, <1>4 DEF Optimize
<1>11. in_rewrite' = [in_rewrite EXCEPT ![c] = GuardWith(Planner(c), g, in_rewrite[c])]
  BY <1>2, <1>8, Unchanging DEF Optimize, GuardWith
<1>. QED  BY <1>1, <1>9, <1>10, <1>11, GoingOn DEF Optimize

------------------------------------------------------------------------------
(* lpts_check.                                                             *)

\* A planning that reaches another stage has the same plan.
LEMMA AtFacts ==
    ASSUME NEW f \in PlanningFrame, FrameInv(f), NEW at \in Stages
    PROVE  LET g == [f EXCEPT !.at = at]
           IN  /\ FrameInv(g) /\ g.kind = f.kind /\ g.text = f.text /\ g.at = at
               /\ g.checked = f.checked
<1>1. PICK g : g = [f EXCEPT !.at = at]
  OBVIOUS
<1>2. g \in PlanningFrame
  BY <1>1 DEF PlanningFrame
<1>3. /\ g.kind = f.kind /\ g.text = f.text /\ g.native = f.native
      /\ g.bound = f.bound /\ g.at = at /\ g.checked = f.checked
  BY <1>1 DEF PlanningFrame
<1>4. FrameInv(g)
  BY <1>2, <1>3, SamePlan
<1>. QED  BY <1>1, <1>3, <1>4

\* LptsCheckOptimize: it enters for the statement's own plan, or a view hid that it is not.
LEMMA StepLptsCheckOptimize ==
    ASSUME PlanningInv, NEW c \in Connections, LptsCheckOptimize(c)
    PROVE  PlanningInv'
<1>1. /\ frames[c] # << >> /\ Planner(c).at = "optimized"
  BY DEF LptsCheckOptimize, At
<1>2. PICK f \in PlanningFrame : f = Planner(c) /\ FrameInv(f)
  BY <1>1, PlannerFacts
<1>3. ~InHook(f)
  BY <1>1, <1>2 DEF InHook
<1>4. CASE Checks(c)
  <2>1. PICK g : g = [f EXCEPT !.at = "check"]
    OBVIOUS
  <2>2. FrameInv(g) /\ g.kind = f.kind /\ g.text = f.text /\ g.at = "check" /\ g.checked = f.checked
    BY <2>1, <1>2, AtFacts DEF Stages
  <2>3. InHook(g)
    BY <2>2 DEF InHook
  <2>4. /\ ~in_rewrite[c] /\ frames[c][1].text.kind = "select" /\ ~PlansQueries(frames[c][1].text)
    BY <1>4 DEF Checks
  <2>5. Len(frames[c]) = 1 \/ Hides(frames[c][1].text)
    <3>1. StackInv(frames[c], lpts_planning_depth[c], in_rewrite[c])
      BY <1>1, PlannerFacts
    <3>2. 1 \in DOMAIN frames[c]
      BY <1>1, <3>1, StackFacts
    <3>3. ~InHook(frames[c][1])
      BY <3>1, <3>2, <2>4 DEF StackInv, Guarded
    <3>4. Len(frames[c]) > 1 => Nests(frames[c][1].text)
      BY <3>1, <3>3 DEF StackInv, Nested
    <3>5. Nests(frames[c][1].text) => Hides(frames[c][1].text)
      BY <2>4 DEF Nests
    <3>6. Len(frames[c]) \in Nat /\ Len(frames[c]) >= 1
      BY <1>1, PlannerFacts
    <3>7. Len(frames[c]) # 1 => Len(frames[c]) > 1
      BY <3>6, MoreThanOne
    <3>. QED  BY <3>4, <3>5, <3>7
  <2>6. GoesOn(frames[c], in_rewrite[c], g)
    BY <1>2, <2>2, <2>4, <2>5 DEF GoesOn, Planner
  <2>7. frames' = [frames EXCEPT ![c] = Append(Set(c, g), Planning("PlanQuery", frames[c][1].text, FALSE))]
    BY <1>2, <1>4, <2>1 DEF LptsCheckOptimize, PlanQuery
  <2>8. lpts_planning_depth' = [lpts_planning_depth EXCEPT ![c] = @ + (IF "PlanQuery" = "PlanQuery" THEN 1 ELSE 0)]
    BY <1>4 DEF LptsCheckOptimize, PlanQuery
  <2>9. in_rewrite' = [in_rewrite EXCEPT ![c] = GuardWith(Planner(c), g, in_rewrite[c])]
    <3>1. GuardWith(Planner(c), g, in_rewrite[c]) = TRUE
      BY <2>3, <2>2 DEF GuardWith, InHook
    <3>. QED  BY <3>1, <1>4 DEF LptsCheckOptimize
  <2>10. frames[c][1].text \in SomeText
    BY <1>1, PlannerFacts
  <2>. QED  BY <1>1, <2>3, <2>6, <2>7, <2>8, <2>9, <2>10, Calling
<1>5. CASE ~Checks(c)
  <2>1. PICK g : g = [f EXCEPT !.at = "planned"]
    OBVIOUS
  <2>2. FrameInv(g) /\ g.kind = f.kind /\ g.text = f.text /\ g.at = "planned" /\ g.checked = f.checked
    BY <2>1, <1>2, AtFacts DEF Stages
  <2>3. ~InHook(g)
    BY <2>2 DEF InHook
  <2>4. GoesOn(frames[c], in_rewrite[c], g)
    BY <1>2, <2>2, <2>3 DEF GoesOn, Planner
  <2>5. frames' = [frames EXCEPT ![c] = Set(c, g)]
    BY <1>2, <1>5, <2>1 DEF LptsCheckOptimize
  <2>6. in_rewrite' = [in_rewrite EXCEPT ![c] = GuardWith(Planner(c), g, in_rewrite[c])]
    BY <1>2, <1>3, <1>5, <2>3, Unchanging DEF LptsCheckOptimize, GuardWith
  <2>7. UNCHANGED lpts_planning_depth
    BY <1>5 DEF LptsCheckOptimize
  <2>. QED  BY <1>1, <2>4, <2>5, <2>6, <2>7, GoingOn
<1>. QED  BY <1>4, <1>5

\* PlanRewritten: the hook stays entered while the rewritten query is planned.
LEMMA StepPlanRewritten ==
    ASSUME PlanningInv, NEW c \in Connections, PlanRewritten(c)
    PROVE  PlanningInv'
<1>1. /\ frames[c] # << >> /\ Planner(c).at = "translated"
  BY DEF PlanRewritten, At
<1>2. PICK f \in PlanningFrame : f = Planner(c) /\ FrameInv(f)
  BY <1>1, PlannerFacts
<1>3. PICK g : g = [f EXCEPT !.at = "replan"]
  OBVIOUS
<1>4. FrameInv(g) /\ g.kind = f.kind /\ g.text = f.text /\ g.at = "replan" /\ g.checked = f.checked
  BY <1>3, <1>2, AtFacts DEF Stages
<1>5. InHook(g) /\ InHook(f)
  BY <1>1, <1>2, <1>4 DEF InHook
<1>6. GoesOn(frames[c], in_rewrite[c], g)
  BY <1>2, <1>4, <1>5 DEF GoesOn, Planner
<1>7. PICK text \in SomeText : text = f.rewritten
  BY DEF PlanningFrame
<1>8. frames' = [frames EXCEPT ![c] = Append(Set(c, g), Planning("PlanQuery", text, FALSE))]
  BY <1>2, <1>3, <1>7 DEF PlanRewritten, PlanQuery
<1>9. lpts_planning_depth' = [lpts_planning_depth EXCEPT ![c] = @ + (IF "PlanQuery" = "PlanQuery" THEN 1 ELSE 0)]
  BY DEF PlanRewritten, PlanQuery
<1>10. in_rewrite' = [in_rewrite EXCEPT ![c] = GuardWith(Planner(c), g, in_rewrite[c])]
  <2>1. GuardWith(Planner(c), g, in_rewrite[c]) = in_rewrite[c]
    <3>1. InHook(frames[c][Len(frames[c])]) /\ Len(frames[c]) \in DOMAIN frames[c]
      BY <1>1, <1>2, <1>5, PlannerFacts, StackFacts DEF Planner
    <3>2. in_rewrite[c] = TRUE
      BY <1>1, <3>1, PlannerFacts DEF StackInv, Guarded
    <3>3. GuardWith(Planner(c), g, in_rewrite[c]) = TRUE
      BY <1>4 DEF GuardWith, InHook
    <3>. QED  BY <3>2, <3>3
  <2>. QED  BY <2>1, Unchanging DEF PlanRewritten
<1>. QED  BY <1>1, <1>5, <1>6, <1>8, <1>9, <1>10, Calling

\* PlanRecursiveCheck: the same for the two queries planned as one.
LEMMA StepPlanRecursiveCheck ==
    ASSUME PlanningInv, NEW c \in Connections, PlanRecursiveCheck(c)
    PROVE  PlanningInv'
<1>1. /\ frames[c] # << >> /\ Planner(c).at = "compared"
  BY DEF PlanRecursiveCheck, At
<1>2. PICK f \in PlanningFrame : f = Planner(c) /\ FrameInv(f)
  BY <1>1, PlannerFacts
<1>3. PICK g : g = [f EXCEPT !.at = "combine"]
  OBVIOUS
<1>4. FrameInv(g) /\ g.kind = f.kind /\ g.text = f.text /\ g.at = "combine" /\ g.checked = f.checked
  BY <1>3, <1>2, AtFacts DEF Stages
<1>5. InHook(g) /\ InHook(f)
  BY <1>1, <1>2, <1>4 DEF InHook
<1>6. GoesOn(frames[c], in_rewrite[c], g)
  BY <1>2, <1>4, <1>5 DEF GoesOn, Planner
<1>7. PICK text \in SomeText : text = Text("select", frames[c][1].text.items \o f.rewritten.items)
  <2>1. frames[c][1].text.items \in Seq(TextItems) /\ f.rewritten.items \in Seq(TextItems)
    BY <1>1, <1>2, PlannerFacts, TextFacts
  <2>2. PICK items \in Seq(TextItems) : items = frames[c][1].text.items \o f.rewritten.items
    <3>1. PICK a \in Seq(TextItems), b \in Seq(TextItems) :
             a = frames[c][1].text.items /\ b = f.rewritten.items
      BY <2>1
    <3>2. a \o b \in Seq(TextItems)
      OBVIOUS
    <3>. QED  BY <3>1, <3>2
  <2>3. Text("select", items) \in SomeText
    BY DEF Text, SomeText, WellFormed
  <2>. QED  BY <2>2, <2>3
<1>8. frames' = [frames EXCEPT ![c] = Append(Set(c, g), Planning("PlanQuery", text, TRUE))]
  BY <1>2, <1>3, <1>7 DEF PlanRecursiveCheck, PlanQuery
<1>9. lpts_planning_depth' = [lpts_planning_depth EXCEPT ![c] = @ + (IF "PlanQuery" = "PlanQuery" THEN 1 ELSE 0)]
  BY DEF PlanRecursiveCheck, PlanQuery
<1>10. in_rewrite' = [in_rewrite EXCEPT ![c] = GuardWith(Planner(c), g, in_rewrite[c])]
  <2>1. GuardWith(Planner(c), g, in_rewrite[c]) = in_rewrite[c]
    <3>1. InHook(frames[c][Len(frames[c])]) /\ Len(frames[c]) \in DOMAIN frames[c]
      BY <1>1, <1>2, <1>5, PlannerFacts, StackFacts DEF Planner
    <3>2. in_rewrite[c] = TRUE
      BY <1>1, <3>1, PlannerFacts DEF StackInv, Guarded
    <3>3. GuardWith(Planner(c), g, in_rewrite[c]) = TRUE
      BY <1>4 DEF GuardWith, InHook
    <3>. QED  BY <3>2, <3>3
  <2>. QED  BY <2>1, Unchanging DEF PlanRecursiveCheck
<1>. QED  BY <1>1, <1>5, <1>6, <1>8, <1>9, <1>10, Calling

\* EndCheck: the hook is left and its plan counts as checked.
LEMMA StepEndCheck ==
    ASSUME PlanningInv, NEW c \in Connections, EndCheck(c)
    PROVE  PlanningInv'
<1>1. /\ frames[c] # << >> /\ Planner(c).at = "compared"
  BY DEF EndCheck, At
<1>2. PICK f \in PlanningFrame : f = Planner(c) /\ FrameInv(f)
  BY <1>1, PlannerFacts
<1>3. PICK g : g = [f EXCEPT !.at = "planned", !.checked = TRUE]
  OBVIOUS
<1>4. /\ g \in PlanningFrame /\ g.kind = f.kind /\ g.text = f.text /\ g.native = f.native
      /\ g.bound = f.bound /\ g.at = "planned"
  <2>1. g \in PlanningFrame
    BY <1>3 DEF PlanningFrame, Stages
  <2>. QED  BY <2>1, <1>3 DEF PlanningFrame
<1>5. FrameInv(g) /\ ~InHook(g) /\ InHook(f)
  BY <1>1, <1>2, <1>4, SamePlan DEF InHook
<1>6. GoesOn(frames[c], in_rewrite[c], g)
  BY <1>2, <1>4, <1>5 DEF GoesOn, Planner
<1>7. frames' = [frames EXCEPT ![c] = Set(c, g)]
  BY <1>2, <1>3 DEF EndCheck
<1>8. in_rewrite' = [in_rewrite EXCEPT ![c] = GuardWith(Planner(c), g, in_rewrite[c])]
  <2>1. GuardWith(Planner(c), g, in_rewrite[c]) = FALSE
    BY <1>2, <1>5, <1>4 DEF GuardWith, InHook
  <2>. QED  BY <2>1 DEF EndCheck
<1>. QED  BY <1>1, <1>6, <1>7, <1>8, GoingOn DEF EndCheck

------------------------------------------------------------------------------
(* Plannings that end.                                                     *)

\* One planning less.
LEMMA ScopesFront ==
    ASSUME NEW stk \in Seq(PlanningFrame), NEW k \in 1..Len(stk)
    PROVE  /\ SubSeq(stk, 1, k) = Append(SubSeq(stk, 1, k - 1), stk[k])
           /\ InScope(SubSeq(stk, 1, k)) =
                 InScope(SubSeq(stk, 1, k - 1)) + (IF stk[k].kind = "PlanQuery" THEN 1 ELSE 0)
<1>1. /\ Len(stk) \in Nat /\ k \in Nat /\ k >= 1 /\ k <= Len(stk) /\ k - 1 \in Nat
      /\ stk[k] \in PlanningFrame
  OBVIOUS
<1>2. PICK a \in Seq(PlanningFrame), b \in Seq(PlanningFrame) : a = SubSeq(stk, 1, k) /\ b = SubSeq(stk, 1, k - 1)
  <2>1. PICK l \in 0..Len(stk) : l = k - 1
    BY <1>1
  <2>2. SubSeq(stk, 1, k) \in Seq(PlanningFrame) /\ SubSeq(stk, 1, l) \in Seq(PlanningFrame)
    BY <1>1
  <2>. QED  BY <2>1, <2>2
<1>3. /\ Len(a) = k /\ \A i \in 1..k : a[i] = stk[i]
      /\ Len(b) = k - 1 /\ \A i \in 1..(k - 1) : b[i] = stk[i]
  BY <1>1, <1>2
<1>4. a = Append(b, stk[k])
  BY <1>1, <1>3
<1>5. InScope(a) = InScope(b) + (IF stk[k].kind = "PlanQuery" THEN 1 ELSE 0)
  BY <1>1, <1>4, ScopesAppended
<1>. QED  BY <1>2, <1>4, <1>5

\* Before a statement and after it nothing is under way.
LEMMA EmptyStack == StackInv(<< >>, 0, FALSE)
<1>1. PICK none \in Seq(PlanningFrame) : none = << >>
  <2>1. << >> \in Seq(PlanningFrame)
    OBVIOUS
  <2>. QED  BY <2>1, Zenon
<1>2. DOMAIN none = {} /\ Len(none) = 0
  <2>1. Len(none) = 0
    BY <1>1
  <2>2. DOMAIN none = 1..Len(none)
    OBVIOUS
  <2>. QED  BY <2>1, <2>2
<1>3. Typed(none)
  BY <1>2 DEF Typed
<1>4. Nested(none)
  BY <1>2 DEF Nested
<1>5. OneCheck(none)
  BY <1>2 DEF OneCheck
<1>6. Guarded(none, FALSE)
  BY <1>2 DEF Guarded
<1>. QED  BY <1>1, <1>3, <1>4, <1>5, <1>6, ScopesOfNone DEF StackInv

\* A caller resumes in the stage that follows its call.
LEMMA ResumedFacts ==
    ASSUME NEW caller \in PlanningFrame, FrameInv(caller), NEW done \in PlanningFrame
    PROVE  LET g == Resumed(caller, done)
           IN  /\ FrameInv(g) /\ g.kind = caller.kind /\ g.text = caller.text
               /\ g.checked = caller.checked /\ InHook(g) = InHook(caller)
<1>1. PICK g : g = Resumed(caller, done)
  OBVIOUS
<1>2. PICK rewritten \in SomeText : rewritten = Rewritten(done)
  BY RewrittenTyped
<1>3. CASE caller.at = "check"
  <2>1. g = [caller EXCEPT !.at = "translated", !.rewritten = rewritten]
    BY <1>1, <1>2, <1>3 DEF Resumed
  <2>2. g \in PlanningFrame
    BY <2>1 DEF PlanningFrame, Stages
  <2>3. /\ g.kind = caller.kind /\ g.text = caller.text /\ g.native = caller.native
        /\ g.bound = caller.bound /\ g.at = "translated" /\ g.checked = caller.checked
    BY <2>1 DEF PlanningFrame
  <2>4. FrameInv(g) /\ InHook(g) = InHook(caller)
    BY <2>2, <2>3, <1>3, SamePlan DEF InHook
  <2>. QED  BY <2>3, <2>4, <1>1
<1>4. CASE caller.at \in {"replan", "combine"}
  <2>1. g = [caller EXCEPT !.at = "compared"]
    BY <1>1, <1>4 DEF Resumed
  <2>2. FrameInv(g) /\ g.kind = caller.kind /\ g.text = caller.text /\ g.at = "compared" /\ g.checked = caller.checked
    BY <2>1, AtFacts DEF Stages
  <2>3. InHook(g) = InHook(caller)
    BY <2>2, <1>4 DEF InHook
  <2>. QED  BY <2>2, <2>3, <1>1
<1>5. CASE caller.at # "check" /\ caller.at \notin {"replan", "combine"}
  <2>1. g = caller
    BY <1>1, <1>5 DEF Resumed
  <2>. QED  BY <2>1, <1>1
<1>. QED  BY <1>3, <1>4, <1>5

\* What is left of a stack whose innermost planning ends outside of the hook.
LEMMA EndedFacts ==
    ASSUME NEW stk, NEW depth, NEW guard, StackInv(stk, depth, guard), stk # << >>,
           ~InHook(stk[Len(stk)])
    PROVE  StackInv(Front(stk),
                    IF stk[Len(stk)].kind = "PlanQuery" THEN LeaveScope(depth) ELSE depth, guard)
<1>1. /\ stk \in Seq(PlanningFrame) /\ Len(stk) \in Nat /\ DOMAIN stk = 1..Len(stk)
      /\ Len(stk) \in DOMAIN stk /\ depth = InScope(stk)
  BY StackFacts
<1>2. PICK n \in 1..Len(stk) : n = Len(stk)
  BY <1>1
<1>3. n - 1 \in 0..Len(stk)
  BY <1>1
<1>4. PICK rest \in Seq(PlanningFrame) : rest = SubSeq(stk, 1, n - 1)
  <2>1. PICK k \in 0..Len(stk) : k = n - 1
    BY <1>3
  <2>2. SubSeq(stk, 1, k) \in Seq(PlanningFrame)
    BY <1>1
  <2>. QED  BY <2>1, <2>2
<1>5. Len(rest) = n - 1 /\ DOMAIN rest = 1..(n - 1) /\ \A i \in 1..(n - 1) : rest[i] = stk[i]
  BY <1>1, <1>2, <1>4
<1>6. StackInv(rest, InScope(rest), \E i \in DOMAIN rest : InHook(rest[i]))
  BY <1>3, <1>4, Cut
<1>7. guard = (\E i \in DOMAIN rest : InHook(rest[i]))
  <2>1. guard = (\E i \in DOMAIN stk : InHook(stk[i]))
    BY Zenon DEF StackInv, Guarded
  <2>2. (\E i \in DOMAIN stk : InHook(stk[i])) <=> (\E i \in DOMAIN rest : InHook(rest[i]))
    BY <1>1, <1>2, <1>5
  <2>. QED  BY <2>1, <2>2
<1>8. InScope(rest) = IF stk[n].kind = "PlanQuery" THEN LeaveScope(depth) ELSE depth
  <2>1. SubSeq(stk, 1, n) = stk
    BY <1>1, <1>2
  <2>2. InScope(stk) = InScope(rest) + (IF stk[n].kind = "PlanQuery" THEN 1 ELSE 0)
    <3>1. InScope(SubSeq(stk, 1, n)) =
             InScope(SubSeq(stk, 1, n - 1)) + (IF stk[n].kind = "PlanQuery" THEN 1 ELSE 0)
      BY <1>1, ScopesFront
    <3>. QED  BY <3>1, <2>1, <1>4
  <2>3. InScope(rest) \in Nat
    BY ScopesFinite
  <2>4. CASE stk[n].kind = "PlanQuery"
    <3>1. InScope(stk) = InScope(rest) + 1
      BY <2>2, <2>4
    <3>2. InScope(rest) = depth - 1
      BY <3>1, <2>3, <1>1
    <3>. QED  BY <3>2, <2>4 DEF LeaveScope
  <2>5. CASE stk[n].kind # "PlanQuery"
    <3>1. InScope(stk) = InScope(rest) + 0
      BY <2>2, <2>5
    <3>2. InScope(rest) = depth
      BY <3>1, <2>3, <1>1
    <3>. QED  BY <3>2, <2>5
  <2>. QED  BY <2>4, <2>5
<1>9. Front(stk) = rest
  BY <1>2, <1>4 DEF Front
<1>. QED  BY <1>2, <1>6, <1>7, <1>8, <1>9

\* Return: the scope that is left is the one that was entered.
LEMMA StepReturn ==
    ASSUME PlanningInv, NEW c \in Connections, Return(c)
    PROVE  PlanningInv'
<1>1. /\ frames[c] # << >> /\ Planner(c).at = "planned"
  BY DEF Return, At
<1>2. PICK f \in PlanningFrame : f = Planner(c) /\ FrameInv(f)
  BY <1>1, PlannerFacts
<1>3. ~InHook(f)
  BY <1>1, <1>2 DEF InHook
<1>4. PICK depth : depth = IF f.kind = "PlanQuery" THEN LeaveScope(lpts_planning_depth[c]) ELSE lpts_planning_depth[c]
  OBVIOUS
<1>5. PICK rest : rest = Front(frames[c])
  OBVIOUS
<1>6. StackInv(rest, depth, in_rewrite[c])
  <2>1. StackInv(frames[c], lpts_planning_depth[c], in_rewrite[c]) /\ f = frames[c][Len(frames[c])]
    BY <1>1, <1>2, PlannerFacts DEF Planner
  <2>2. StackInv(Front(frames[c]),
                 IF frames[c][Len(frames[c])].kind = "PlanQuery" THEN LeaveScope(lpts_planning_depth[c])
                 ELSE lpts_planning_depth[c], in_rewrite[c])
    BY <2>1, <1>1, <1>3, EndedFacts
  <2>. QED  BY <2>1, <2>2, <1>4, <1>5
<1>7. lpts_planning_depth' = [lpts_planning_depth EXCEPT ![c] = depth]
  BY <1>2, <1>4 DEF Return
<1>8. in_rewrite' = [in_rewrite EXCEPT ![c] = in_rewrite[c]]
  BY Unchanging DEF Return
<1>9. CASE rest = << >>
  <2>1. frames' = [frames EXCEPT ![c] = rest]
    BY <1>5, <1>9 DEF Return
  <2>. QED  BY <2>1, <1>6, <1>7, <1>8, Elsewhere
<1>10. CASE rest # << >>
  <2>1. PICK caller \in PlanningFrame : caller = rest[Len(rest)] /\ FrameInv(caller)
    BY <1>6, <1>10, StackFacts
  <2>2. PICK g : g = Resumed(caller, f)
    OBVIOUS
  <2>3. /\ FrameInv(g) /\ g.kind = caller.kind /\ g.text = caller.text
        /\ g.checked = caller.checked /\ InHook(g) = InHook(caller)
    BY <2>1, <2>2, ResumedFacts
  <2>4. StackInv([rest EXCEPT ![Len(rest)] = g], depth,
                 IF InHook(rest[Len(rest)]) \/ InHook(g) THEN InHook(g) ELSE in_rewrite[c])
    BY <1>6, <1>10, <2>1, <2>3, ReplaceTop
  <2>5. (IF InHook(rest[Len(rest)]) \/ InHook(g) THEN InHook(g) ELSE in_rewrite[c]) = in_rewrite[c]
    <3>1. CASE InHook(caller)
      <4>1. Len(rest) \in DOMAIN rest /\ InHook(rest[Len(rest)])
        BY <3>1, <2>1, <1>6, <1>10, StackFacts
      <4>2. in_rewrite[c] = TRUE
        BY <4>1, <1>6 DEF StackInv, Guarded
      <4>3. InHook(g) = TRUE
        BY <3>1, <2>3 DEF InHook
      <4>. QED  BY <4>2, <4>3
    <3>2. CASE ~InHook(caller)
      BY <3>2, <2>1, <2>3
    <3>. QED  BY <3>1, <3>2
  <2>6. frames' = [frames EXCEPT ![c] = [rest EXCEPT ![Len(rest)] = g]]
    BY <1>2, <1>5, <1>10, <2>1, <2>2 DEF Return
  <2>. QED  BY <2>4, <2>5, <2>6, <1>7, <1>8, Elsewhere
<1>. QED  BY <1>9, <1>10

\* Throw: whatever is unwound, the depth and the guard are those of the plannings that are left.
LEMMA StepThrow ==
    ASSUME PlanningInv, NEW c \in Connections, Throw(c)
    PROVE  PlanningInv'
<1>1. frames[c] # << >>
  BY DEF Throw
<1>2. PICK stk \in Seq(PlanningFrame) : /\ stk = frames[c]
                                /\ StackInv(stk, lpts_planning_depth[c], in_rewrite[c])
  BY <1>1, PlannerFacts, StackFacts
<1>3. lpts_planning_depth[c] = InScope(stk) /\ Len(stk) \in Nat /\ DOMAIN stk = 1..Len(stk)
  BY <1>2, StackFacts
<1>4. ASSUME NEW kept, NEW left, Unwind(c, kept, left),
             StackInv(kept, InScope(kept), \E i \in DOMAIN kept : InHook(kept[i])),
             InScope(stk) - InScope(left) = InScope(kept)
      PROVE  PlanningInv'
  <2>1. frames' = [frames EXCEPT ![c] = kept]
    BY <1>4 DEF Unwind
  <2>2. lpts_planning_depth' = [lpts_planning_depth EXCEPT ![c] = InScope(kept)]
    BY <1>3, <1>4 DEF Unwind, Unwound
  <2>3. in_rewrite' = [in_rewrite EXCEPT ![c] = \E i \in DOMAIN kept : InHook(kept[i])]
    BY <1>4 DEF Unwind
  <2>. QED  BY <2>1, <2>2, <2>3, <1>4, Elsewhere
<1>5. CASE Catcher(c) = {}
  <2>1. Unwind(c, << >>, stk)
    BY <1>2, <1>5 DEF Throw
  <2>2. InScope(stk) - InScope(stk) = InScope(<< >>)
    <3>1. InScope(stk) \in Nat
      BY ScopesFinite
    <3>. QED  BY <3>1, ScopesOfNone
  <2>3. StackInv(<< >>, InScope(<< >>), \E i \in DOMAIN << >> : InHook(<< >>[i]))
    <3>1. (\E i \in DOMAIN << >> : InHook(<< >>[i])) = FALSE
      OBVIOUS
    <3>. QED  BY <3>1, EmptyStack, ScopesOfNone
  <2>. QED  BY <2>1, <2>2, <2>3, <1>4
<1>6. CASE Catcher(c) # {}
  <2>. DEFINE k == CHOOSE i \in Catcher(c) : \A j \in Catcher(c) : j <= i
  <2>1. k \in Catcher(c)
    <3>1. Catcher(c) \subseteq 1..Len(stk)
      BY <1>2, <1>3 DEF Catcher
    <3>2. \E i \in Catcher(c) : \A j \in Catcher(c) : j <= i
      BY <3>1, <1>3, <1>6, LastOne
    <3>. QED  BY <3>2
  <2>2. /\ k \in 1..Len(stk)
        /\ stk[k].kind = "serialized" \/ (InHook(stk[k]) /\ settings[c].log)
    BY <2>1, <1>2, <1>3 DEF Catcher
  <2>3. IF InHook(stk[k]) /\ settings[c].log
        THEN Unwind(c, Append(SubSeq(stk, 1, k - 1), [stk[k] EXCEPT !.at = "planned"]),
                    SubSeq(stk, k + 1, Len(stk)))
        ELSE Unwind(c, SubSeq(stk, 1, k - 1), SubSeq(stk, k + 1, Len(stk)))
    BY <1>2, <1>6 DEF Throw
  <2>. HIDE DEF k
  <2>4. PICK left : left = SubSeq(stk, k + 1, Len(stk))
    OBVIOUS
  <2>5. /\ k \in Nat /\ k >= 1 /\ k <= Len(stk) /\ k \in 0..Len(stk) /\ k - 1 \in 0..Len(stk)
        /\ k \in DOMAIN stk
    BY <2>2, <1>3
  <2>6. PICK cut \in Seq(PlanningFrame), kept \in Seq(PlanningFrame) :
           cut = SubSeq(stk, 1, k) /\ kept = SubSeq(stk, 1, k - 1)
    <3>1. PICK l \in 0..Len(stk) : l = k - 1
      BY <2>5
    <3>2. SubSeq(stk, 1, k) \in Seq(PlanningFrame) /\ SubSeq(stk, 1, l) \in Seq(PlanningFrame)
      BY <1>3, <2>5
    <3>. QED  BY <3>1, <3>2
  <2>7. /\ Len(cut) = k /\ DOMAIN cut = 1..k /\ \A i \in 1..k : cut[i] = stk[i]
        /\ Len(kept) = k - 1 /\ \A i \in 1..(k - 1) : kept[i] = stk[i]
    BY <2>5, <2>6
  <2>8. InScope(stk) - InScope(left) = InScope(cut)
    <3>1. InScope(stk) = InScope(cut) + InScope(left)
      BY <2>4, <2>5, <2>6, ScopesSplit
    <3>2. left \in Seq(PlanningFrame)
      BY <2>4, <2>5, <1>3
    <3>3. InScope(cut) \in Nat /\ InScope(left) \in Nat /\ InScope(stk) \in Nat
      BY <3>2, ScopesFinite
    <3>. QED  BY <3>1, <3>3
  <2>9. InScope(cut) = InScope(kept) + (IF stk[k].kind = "PlanQuery" THEN 1 ELSE 0)
    BY <2>2, <2>6, ScopesFront
  <2>10. CASE InHook(stk[k]) /\ settings[c].log
    <3>1. stk[k] \in PlanningFrame /\ FrameInv(stk[k])
      BY <1>2, <2>5, StackFacts
    <3>2. PICK g : g = [stk[k] EXCEPT !.at = "planned"]
      OBVIOUS
    <3>3. /\ FrameInv(g) /\ g.kind = stk[k].kind /\ g.text = stk[k].text /\ g.at = "planned"
          /\ g.checked = stk[k].checked
      BY <3>1, <3>2, AtFacts DEF Stages
    <3>4. ~InHook(g) /\ InHook(g) = FALSE
      BY <3>3 DEF InHook
    <3>5. StackInv(cut, InScope(cut), \E i \in DOMAIN cut : InHook(cut[i]))
      BY <1>2, <2>5, <2>6, Cut
    <3>6. cut # << >> /\ cut[Len(cut)] = stk[k]
      BY <2>5, <2>7
    <3>7. StackInv([cut EXCEPT ![Len(cut)] = g], InScope(cut),
                   IF InHook(cut[Len(cut)]) \/ InHook(g) THEN InHook(g)
                   ELSE \E i \in DOMAIN cut : InHook(cut[i]))
      BY <3>3, <3>4, <3>5, <3>6, ReplaceTop
    <3>8. PICK new : new = Append(kept, g)
      OBVIOUS
    <3>9. new = [cut EXCEPT ![Len(cut)] = g]
      <4>1. g \in PlanningFrame
        BY <3>3 DEF FrameInv
      <4>2. /\ new \in Seq(PlanningFrame) /\ Len(new) = k /\ new[k] = g
            /\ \A i \in 1..(k - 1) : new[i] = kept[i]
        BY <4>1, <3>8, <2>5, <2>7
      <4>3. PICK other \in Seq(PlanningFrame) : other = [cut EXCEPT ![k] = g]
        <5>1. k \in DOMAIN cut
          BY <2>5, <2>7
        <5>2. [cut EXCEPT ![k] = g] \in Seq(PlanningFrame)
          BY <4>1, <5>1
        <5>. QED  BY <5>2
      <4>4. Len(other) = k /\ other[k] = g /\ \A i \in 1..(k - 1) : other[i] = cut[i]
        BY <4>3, <2>5, <2>7
      <4>5. \A i \in 1..k : new[i] = other[i]
        <5>1. \A i \in 1..(k - 1) : cut[i] = kept[i]
          BY <2>5, <2>7
        <5>2. \A i \in 1..k : i = k \/ i \in 1..(k - 1)
          BY <2>5
        <5>. QED  BY <4>2, <4>4, <5>1, <5>2
      <4>6. new = other
        BY <4>2, <4>4, <4>5
      <4>. QED  BY <4>3, <4>6, <2>7
    <3>10. StackInv(new, InScope(cut), FALSE)
      <4>1. (IF InHook(cut[Len(cut)]) \/ InHook(g) THEN InHook(g)
             ELSE \E i \in DOMAIN cut : InHook(cut[i])) = FALSE
        BY <3>4, <3>6, <2>10
      <4>. QED  BY <4>1, <3>7, <3>9
    <3>11. InScope(new) = InScope(cut) /\ (\E i \in DOMAIN new : InHook(new[i])) = FALSE
      BY <3>10 DEF StackInv, Guarded
    <3>12. Unwind(c, new, left)
      BY <2>3, <2>4, <2>6, <2>10, <3>2, <3>8
    <3>13. StackInv(new, InScope(new), \E i \in DOMAIN new : InHook(new[i]))
      BY <3>10, <3>11
    <3>. QED  BY <3>11, <3>12, <3>13, <2>8, <1>4
  <2>11. CASE ~(InHook(stk[k]) /\ settings[c].log)
    <3>1. stk[k].kind = "serialized"
      BY <2>2, <2>11
    <3>2. InScope(cut) = InScope(kept)
      <4>1. InScope(kept) \in Nat
        BY ScopesFinite
      <4>2. InScope(cut) = InScope(kept) + 0
        BY <2>9, <3>1
      <4>. QED  BY <4>1, <4>2
    <3>3. Unwind(c, kept, left)
      BY <2>3, <2>4, <2>6, <2>11
    <3>4. StackInv(kept, InScope(kept), \E i \in DOMAIN kept : InHook(kept[i]))
      BY <1>2, <2>5, <2>6, Cut
    <3>5. InScope(stk) - InScope(left) = InScope(kept)
      BY <2>8, <3>2
    <3>. QED  BY <3>3, <3>4, <3>5, <1>4
  <2>. QED  BY <2>10, <2>11
<1>. QED  BY <1>5, <1>6

\* One planning is a stack.
LEMMA SingletonTyped ==
    ASSUME NEW f \in PlanningFrame
    PROVE  <<f>> \in Seq(PlanningFrame)
OBVIOUS

\* Submit: a statement is the first planning of its stack.
LEMMA StepSubmit ==
    ASSUME PlanningInv, NEW c \in Connections, Submit(c)
    PROVE  PlanningInv'
<1>1. frames[c] = << >>
  BY DEF Submit
<1>2. PICK text \in Statements : frames' = [frames EXCEPT ![c] = <<Planning("statement", text, FALSE)>>]
  BY DEF Submit
<1>3. text \in SomeText
  BY TextsAssumption DEF WellFormed, SomeText
<1>4. PICK p \in PlanningFrame : p = Planning("statement", text, FALSE)
  BY <1>3, FreshPlanning
<1>5. FrameInv(p) /\ p.kind = "statement" /\ ~InHook(p) /\ ~p.checked
  BY <1>3, <1>4, FreshPlanning
<1>6. StackInv(<< >>, lpts_planning_depth[c], in_rewrite[c])
  BY <1>1 DEF PlanningInv
<1>7. lpts_planning_depth[c] = 0
  BY <1>6, ScopesOfNone DEF StackInv
<1>8. in_rewrite[c] = FALSE
  <2>1. in_rewrite[c] = (\E i \in DOMAIN << >> : InHook(<< >>[i]))
    BY <1>6, Zenon DEF StackInv, Guarded
  <2>2. (\E i \in DOMAIN << >> : InHook(<< >>[i])) = FALSE
    OBVIOUS
  <2>. QED  BY <2>1, <2>2
<1>9. StackInv(<<p>>, 0, FALSE)
  <2>1. PICK stk \in Seq(PlanningFrame) : stk = <<p>>
    BY SingletonTyped
  <2>2. DOMAIN stk = {1} /\ stk[1] = p /\ Len(stk) = 1
    BY <2>1
  <2>3. Typed(stk) /\ Nested(stk) /\ OneCheck(stk)
    BY <2>2, <1>5 DEF Typed, Nested, OneCheck
  <2>4. Guarded(stk, FALSE)
    BY <2>2, <1>5 DEF Guarded
  <2>5. InScope(stk) = 0
    BY <2>1, <1>5, ScopesOfOne
  <2>. QED  BY <2>1, <2>3, <2>4, <2>5 DEF StackInv
<1>10. frames' = [frames EXCEPT ![c] = <<p>>]
  BY <1>2, <1>4
<1>11. /\ lpts_planning_depth' = [lpts_planning_depth EXCEPT ![c] = 0]
       /\ in_rewrite' = [in_rewrite EXCEPT ![c] = FALSE]
  BY <1>7, <1>8, Unchanging DEF Submit
<1>. QED  BY <1>9, <1>10, <1>11, Elsewhere
------------------------------------------------------------------------------

\* Nothing is under way at first.
LEMMA InitPlanning == PlanningInit => PlanningInv
<1>. SUFFICES ASSUME PlanningInit PROVE PlanningInv
  OBVIOUS
<1>1. << >> \in Seq(PlanningFrame)
  OBVIOUS
<1>2. /\ frames \in [Connections -> Seq(PlanningFrame)] /\ lpts_planning_depth \in [Connections -> Nat]
      /\ in_rewrite \in [Connections -> BOOLEAN]
  BY <1>1 DEF PlanningInit
<1>3. \A c \in Connections : frames[c] = << >> /\ lpts_planning_depth[c] = 0 /\ in_rewrite[c] = FALSE
  BY DEF PlanningInit
<1>4. \A c \in Connections : StackInv(frames[c], lpts_planning_depth[c], in_rewrite[c])
  BY <1>3, EmptyStack
<1>. QED  BY <1>2, <1>4 DEF PlanningInv

\* Every step keeps the invariant.
LEMMA NextPlanning == PlanningInv /\ [PlanningNext]_planningVars => PlanningInv'
<1>. SUFFICES ASSUME PlanningInv, [PlanningNext]_planningVars PROVE PlanningInv'
  OBVIOUS
<1>1. CASE UNCHANGED planningVars
  BY <1>1 DEF planningVars, PlanningInv
<1>2. CASE PlanningNext
  <2>1. PICK c \in Connections :
           \/ Submit(c) \/ BindClock(c) \/ BindLptsQuery(c) \/ SerializePlan(c)
           \/ LptsOptimizeConservative(c) \/ LptsExplainSqlOptimize(c) \/ Optimize(c)
           \/ LptsCheckOptimize(c) \/ PlanRewritten(c) \/ PlanRecursiveCheck(c) \/ EndCheck(c)
           \/ Return(c) \/ Throw(c)
    BY <1>2 DEF PlanningNext
  <2>2. CASE Submit(c)  BY <2>2, StepSubmit
  <2>3. CASE BindClock(c)  BY <2>3, StepBindClock
  <2>4. CASE BindLptsQuery(c)  BY <2>4, StepBindLptsQuery
  <2>5. CASE SerializePlan(c)  BY <2>5, StepSerializePlan
  <2>6. CASE LptsOptimizeConservative(c)  BY <2>6, StepLptsOptimizeConservative
  <2>7. CASE LptsExplainSqlOptimize(c)  BY <2>7, StepLptsExplainSqlOptimize
  <2>8. CASE Optimize(c)  BY <2>8, StepOptimize
  <2>9. CASE LptsCheckOptimize(c)  BY <2>9, StepLptsCheckOptimize
  <2>10. CASE PlanRewritten(c)  BY <2>10, StepPlanRewritten
  <2>11. CASE PlanRecursiveCheck(c)  BY <2>11, StepPlanRecursiveCheck
  <2>12. CASE EndCheck(c)  BY <2>12, StepEndCheck
  <2>13. CASE Return(c)  BY <2>13, StepReturn
  <2>14. CASE Throw(c)  BY <2>14, StepThrow
  <2>. QED  BY <2>1, <2>2, <2>3, <2>4, <2>5, <2>6, <2>7, <2>8, <2>9, <2>10, <2>11, <2>12, <2>13, <2>14
<1>. QED  BY <1>1, <1>2

\* It implies that plans fit their readers.
LEMMA PlansFit == PlanningInv => PlansFitTheirReaders
<1>. SUFFICES ASSUME PlanningInv PROVE PlansFitTheirReaders
  OBVIOUS
<1>1. ASSUME NEW c \in Connections
      PROVE  /\ \A i \in DOMAIN frames[c] : FrameInv(frames[c][i])
             /\ \A i \in DOMAIN frames[c] : frames[c][i].checked => i = 1 \/ Hides(frames[c][1].text)
  BY DEF PlanningInv, StackInv, Typed, OneCheck
<1>2. ASSUME NEW f \in Plannings
      PROVE  FrameInv(f)
  <2>1. PICK c \in Connections : f \in ToSet(frames[c])
    BY DEF Plannings
  <2>2. PICK i \in DOMAIN frames[c] : f = frames[c][i]
    BY <2>1 DEF ToSet
  <2>. QED  BY <2>2, <1>1
<1>3. \A f \in Plannings :
         /\ Translated(f) => ClocksAreCalls(f)
         /\ f.kind = "statement" => \A i \in DOMAIN f.bound : f.bound[i].is # "internal"
  BY <1>2 DEF FrameInv, Translated
<1>. QED  BY <1>1, <1>3 DEF PlansFitTheirReaders

\* Planning keeps its invariant, for any connections and any texts they plan.
THEOREM PlanningAlways == PlanningSpec => []PlanningInv
<1>1. PlanningInit => PlanningInv
  BY InitPlanning
<1>2. PlanningInv /\ [PlanningNext]_planningVars => PlanningInv'
  BY NextPlanning
<1>. QED  BY <1>1, <1>2, PTL DEF PlanningSpec

\* Whatever is nested in what, on whatever thread, and wherever it throws: every plan fits the one
\* it is made for (PlanQuery, LptsOptimizePlan, LptsCheckOptimize).
THEOREM PlansFitTheirReadersAlways == PlanningSpec => []PlansFitTheirReaders
<1>1. PlanningInv => PlansFitTheirReaders
  BY PlansFit
<1>. QED  BY <1>1, PlanningAlways, PTL

\* Depth and guard are those of the plannings under way, always.
THEOREM ScopesInStepAlways == PlanningSpec => []ScopesInStep
<1>1. PlanningInv => ScopesInStep
  BY DEF PlanningInv, StackInv, Guarded, OneCheck, ScopesInStep
<1>. QED  BY <1>1, PlanningAlways, PTL

Bindings == Int \X Int
Columns == Seq(Int)

-----------------------------------------------------------------------------
(* Maps, sequences and picks of them.                                      *)

LEMMA FunctionIsSequence ==
    ASSUME NEW S, NEW n \in Nat, NEW f \in [1..n -> S]
    PROVE  f \in Seq(S) /\ Len(f) = n
  OBVIOUS

LEMMA BoundTyped ==
    ASSUME NEW ti \in Int, NEW n \in Nat
    PROVE  /\ Bound(ti, n) \in Seq(Bindings) /\ Len(Bound(ti, n)) = n
           /\ \A i \in 1..n : Bound(ti, n)[i] = <<ti, i>>
<1>1. \A i \in 1..n : <<ti, i>> \in Bindings
  BY DEF Bindings
<1>. QED  BY <1>1 DEF Bound

LEMMA FreshTyped ==
    ASSUME NEW n \in Nat, serial \in Int
    PROVE  Fresh(n) \in Seq(Columns) /\ Len(Fresh(n)) = n
<1>1. \A i \in 1..n : <<serial, i>> \in Columns
  BY DEF Columns
<1>. QED  BY <1>1 DEF Fresh

LEMMA PickTyped ==
    ASSUME NEW S, NEW seq \in Seq(S), NEW at \in Seq(1..Len(seq))
    PROVE  /\ Pick(seq, at) \in Seq(S) /\ Len(Pick(seq, at)) = Len(at)
           /\ \A k \in 1..Len(at) : at[k] \in 1..Len(seq) /\ Pick(seq, at)[k] = seq[at[k]]
  BY DEF Pick

\* What a map is updated with does not take anything from it.
LEMMA UpdatedDomain ==
    ASSUME NEW map, NEW new
    PROVE  DOMAIN Updated(map, new) = DOMAIN map \cup DOMAIN new
  BY DEF Updated

LEMMA EnteringDomain ==
    ASSUME NEW bindings, NEW cs
    PROVE  DOMAIN Entering(bindings, cs) = {bindings[i] : i \in DOMAIN bindings}
  BY DEF Entering, ToSet

\* The columns entered are those of the new bindings and what the map had.
LEMMA RegisteredDomain ==
    ASSUME NEW bindings, NEW cs
    PROVE  DOMAIN Registered(bindings, cs) = DOMAIN column_map \cup {bindings[i] : i \in DOMAIN bindings}
<1>1. DOMAIN Entering(bindings, cs) = {bindings[i] : i \in DOMAIN bindings}
  BY EnteringDomain
<1>2. PICK entered : entered = Entering(bindings, cs)
  OBVIOUS
<1>3. DOMAIN Updated(column_map, entered) = DOMAIN column_map \cup DOMAIN entered
  BY UpdatedDomain
<1>. QED  BY <1>1, <1>2, <1>3 DEF Registered
-----------------------------------------------------------------------------
(* Subtrees and operators whose bindings have names.                       *)

NodeFields == {"kind", "bindings", "means", "cols", "shows", "from", "delims", "stale", "extra"}
FrameFields == {"kind", "node", "at", "keys", "promised", "scope", "next"}

\* The names D are enough for whoever refers to a column of node: each has one, unless it is a dummy.
Covered(node, D) ==
    /\ DOMAIN node = NodeFields
    /\ node.bindings \in Seq(Bindings) /\ node.means \in Seq(Columns)
    /\ Len(node.means) = Len(node.bindings)
    /\ \A i \in 1..Len(node.means) : node.means[i] # None => node.bindings[i] \in D
    /\ \A x \in node.stale : x[1] \in D
    /\ \A x \in node.extra : x[1] \in D
    /\ node.from \in Int

\* What an open operator handed to its second subtree, and will register or look up there.
Handed(f, D) ==
    /\ \A ti \in f.promised, n \in 1..Len(f.keys) : <<ti, n>> \in D
    /\ f.kind = "RecursiveCte" => \A n \in 1..Len(f.node.bindings) : <<f.at, n>> \in D
FrameTyped(f) ==
    /\ DOMAIN f = FrameFields
    /\ f.at \in Int /\ f.next \in Int /\ Len(f.keys) \in Nat /\ f.promised \subseteq Int

ItemIn(item, D) ==
    /\ Covered(NodeOf(item), D)
    /\ IsFrame(item) => FrameTyped(item) /\ Handed(item, D)

LEMMA CoveredGrows ==
    ASSUME NEW node, NEW D, Covered(node, D), NEW E, D \subseteq E
    PROVE  Covered(node, E)
  BY DEF Covered

LEMMA ItemGrows ==
    ASSUME NEW item, NEW D, ItemIn(item, D), NEW E, D \subseteq E
    PROVE  ItemIn(item, E)
<1>1. Covered(NodeOf(item), E)
  BY CoveredGrows DEF ItemIn
<1>2. IsFrame(item) => FrameTyped(item) /\ Handed(item, E)
  BY DEF ItemIn, Handed
<1>. QED  BY <1>1, <1>2 DEF ItemIn

\* A subtree is no open operator.
LEMMA NodeNoFrame ==
    ASSUME NEW node, NEW D, Covered(node, D)
    PROVE  ~IsFrame(node) /\ NodeOf(node) = node /\ ItemIn(node, D)
<1>1. "promised" \notin NodeFields
  BY DEF NodeFields
<1>2. ~IsFrame(node)
  BY <1>1 DEF Covered, IsFrame
<1>. QED  BY <1>2 DEF NodeOf, ItemIn

LEMMA NodeCovered ==
    ASSUME NEW D, NEW kind, NEW kids, NEW bindings \in Seq(Bindings), NEW means \in Seq(Columns),
           NEW cols, NEW shows, Len(means) = Len(bindings),
           \A i \in 1..Len(means) : means[i] # None => bindings[i] \in D,
           index \in Int, kids = << >> \/ kids[1].from \in Int
    PROVE  Covered(Node(kind, kids, bindings, means, cols, shows), D)
<1>1. PICK from \in Int : from = IF kids = << >> THEN index ELSE kids[1].from
  OBVIOUS
<1>2. PICK delims : delims = UNION {kids[i].delims : i \in DOMAIN kids}
  OBVIOUS
<1>3. Node(kind, kids, bindings, means, cols, shows) =
        [kind |-> kind, bindings |-> bindings, means |-> means, cols |-> cols, shows |-> shows,
         from |-> from, delims |-> delims, stale |-> {}, extra |-> {}]
  BY <1>1, <1>2 DEF Node
<1>4. PICK node : node = Node(kind, kids, bindings, means, cols, shows)
  OBVIOUS
<1>5. DOMAIN node = NodeFields
  BY <1>3, <1>4 DEF NodeFields
<1>6. /\ node.bindings = bindings /\ node.means = means /\ node.from = from
      /\ node.stale = {} /\ node.extra = {}
  BY <1>3, <1>4
<1>7. Covered(node, D)
  BY <1>5, <1>6, <1>1 DEF Covered
<1>. QED  BY <1>4, <1>7

\* Fields the names do not depend on.
LEMMA CoveredAs ==
    ASSUME NEW node, NEW D, Covered(node, D), NEW other,
           DOMAIN other = NodeFields,
           other.bindings = node.bindings, other.means = node.means,
           \A x \in other.stale : x[1] \in D, \A x \in other.extra : x[1] \in D,
           other.from \in Int
    PROVE  Covered(other, D)
  BY DEF Covered
-----------------------------------------------------------------------------
(* The stack of subtrees and open operators.                               *)

IsStack(w) == w \in Seq({w[i] : i \in DOMAIN w})
ItemsIn(w, n, D) == \A i \in 1..n : ItemIn(w[i], D)
WorkIn(w, D) == ItemsIn(w, Len(w), D)
\* When an operator is left, what is below it has a name in the map it was entered with.
ScopesCover(w) ==
    \A k \in 1..Len(w) : IsFrame(w[k]) =>
        /\ Covered(w[k].node, DOMAIN w[k].scope)
        /\ ItemsIn(w, k - 1, DOMAIN w[k].scope)
\* v: w with x in the place of its last n items.
Replaced(v, w, n, x) == v = Append(SubSeq(w, 1, Len(w) - n), x)
HasDummy(w) == \E i \in DOMAIN w : None \in ToSet(NodeOf(w[i]).means)

BuilderInv ==
    /\ menu \in BuilderMenus
    /\ index \in Int /\ serial \in Int
    /\ IsStack(work) /\ WorkIn(work, DOMAIN column_map) /\ ScopesCover(work)
    /\ status = "no binding" => HasDummy(work)

LEMMA Stacked ==
    ASSUME NEW w, IsStack(w), NEW n \in 0..Len(w), NEW x, NEW v,
           Replaced(v, w, n, x)
    PROVE  /\ Len(w) \in Nat /\ IsStack(v) /\ Len(v) = Len(w) - n + 1 /\ v[Len(v)] = x
           /\ \A i \in 1..(Len(w) - n) : v[i] = w[i]
<1>. DEFINE S == {w[i] : i \in DOMAIN w} \cup {x}
<1>1. w \in Seq(S)
  <2>1. PICK R : R = {w[i] : i \in DOMAIN w}
    OBVIOUS
  <2>2. w \in Seq(R) /\ R \subseteq S
    BY <2>1 DEF IsStack
  <2>. HIDE DEF S
  <2>. QED  BY <2>2
<1>2. x \in S
  OBVIOUS
<1>. HIDE DEF S
<1>3. PICK short : short = SubSeq(w, 1, Len(w) - n)
  OBVIOUS
<1>4. /\ short \in Seq(S) /\ Len(short) = Len(w) - n
      /\ \A i \in 1..(Len(w) - n) : short[i] = w[i]
  BY <1>1, <1>3
<1>5. /\ v \in Seq(S) /\ Len(v) = Len(w) - n + 1 /\ v[Len(v)] = x
      /\ \A i \in 1..(Len(w) - n) : v[i] = w[i]
  BY <1>2, <1>3, <1>4 DEF Replaced
<1>6. v \in Seq({v[i] : i \in DOMAIN v})
  <2>1. PICK R : R = {v[i] : i \in DOMAIN v}
    OBVIOUS
  <2>2. \A i \in 1..Len(v) : v[i] \in R
    <3>1. DOMAIN v = 1..Len(v)
      BY <1>5
    <3>. QED  BY <2>1, <3>1
  <2>3. v \in Seq(R)
    BY <1>5, <2>2
  <2>. QED  BY <2>1, <2>3
<1>7. Len(w) \in Nat
  BY <1>1
<1>. QED  BY <1>5, <1>6, <1>7 DEF IsStack

LEMMA StackedIn ==
    ASSUME NEW w, IsStack(w), ScopesCover(w), NEW n \in 0..Len(w), NEW x, NEW v, Replaced(v, w, n, x),
           NEW E, ItemsIn(w, Len(w) - n, E), ItemIn(x, E),
           IsFrame(x) => Covered(x.node, DOMAIN x.scope) /\ ItemsIn(w, Len(w) - n, DOMAIN x.scope)
    PROVE  IsStack(v) /\ WorkIn(v, E) /\ ScopesCover(v)
<1>1. /\ Len(w) \in Nat /\ IsStack(v) /\ Len(v) = Len(w) - n + 1 /\ v[Len(v)] = x
      /\ \A i \in 1..(Len(w) - n) : v[i] = w[i]
  BY Stacked
<1>2. ASSUME NEW i \in 1..Len(v) PROVE ItemIn(v[i], E)
  <2>1. CASE i = Len(v)
    BY <1>1, <2>1
  <2>2. CASE i # Len(v)
    <3>1. i \in 1..(Len(w) - n)
      BY <1>1, <2>2
    <3>. QED  BY <1>1, <3>1 DEF ItemsIn
  <2>. QED  BY <2>1, <2>2
<1>3. ASSUME NEW k \in 1..Len(v), IsFrame(v[k])
      PROVE  Covered(v[k].node, DOMAIN v[k].scope) /\ ItemsIn(v, k - 1, DOMAIN v[k].scope)
  <2>1. \A i \in 1..(k - 1) : i \in 1..(Len(w) - n) /\ v[i] = w[i]
    BY <1>1
  <2>2. CASE k = Len(v)
    BY <1>1, <1>3, <2>1, <2>2 DEF ItemsIn
  <2>3. CASE k # Len(v)
    <3>1. k \in 1..(Len(w) - n) /\ k \in 1..Len(w)
      <4>1. /\ k \in Int /\ Len(v) \in Int /\ Len(w) \in Int /\ n \in Int
            /\ 1 <= k /\ k <= Len(v) /\ 0 <= n /\ n <= Len(w)
        BY <1>1
      <4>2. Len(v) = Len(w) - n + 1
        BY <1>1
      <4>. QED  BY <4>1, <4>2, <2>3
    <3>2. v[k] = w[k]
      BY <1>1, <3>1
    <3>. QED  BY <1>3, <2>1, <3>1, <3>2 DEF ScopesCover, ItemsIn
  <2>. QED  BY <2>2, <2>3
<1>. QED  BY <1>1, <1>2, <1>3 DEF WorkIn, ItemsIn, ScopesCover

LEMMA WorkFacts ==
    ASSUME BuilderInv
    PROVE  Len(work) \in Nat /\ DOMAIN work = 1..Len(work)
<1>1. PICK S : S = {work[i] : i \in DOMAIN work}
  OBVIOUS
<1>2. work \in Seq(S)
  BY <1>1 DEF BuilderInv, IsStack
<1>. QED  BY <1>2

LEMMA ItemAt ==
    ASSUME BuilderInv, NEW i \in 1..Len(work)
    PROVE  ItemIn(work[i], DOMAIN column_map)
  BY DEF BuilderInv, WorkIn, ItemsIn

\* An operator takes its subtrees' place: it has to be covered, and what is below it still to be.
LEMMA BuildKeeps ==
    ASSUME BuilderInv, status = "build", index' \in Int,
           NEW n \in 0..Len(work), NEW needed, NEW node, NEW map, NEW seen,
           Build(n, needed, node, map, seen),
           needed \subseteq DOMAIN column_map \/ HasDummy(work),
           ItemsIn(work, Len(work) - n, DOMAIN map),
           Covered(node, DOMAIN map)
    PROVE  BuilderInv'
<1>1. menu' \in BuilderMenus /\ index' \in Int /\ serial' \in Int
  <2>1. menu' = menu /\ serial' = serial + 1
    BY DEF Build
  <2>. QED  BY <2>1 DEF BuilderInv
<1>2. CASE needed \subseteq DOMAIN column_map
  <2>1. /\ work' = Append(SubSeq(work, 1, Len(work) - n), node) /\ column_map' = map
        /\ status' = IF node.kind \in {"Insert", "Root"} THEN "built" ELSE status
    BY <1>2 DEF Build
  <2>2. ~IsFrame(node) /\ ItemIn(node, DOMAIN map)
    BY NodeNoFrame
  <2>3. IsStack(work') /\ WorkIn(work', DOMAIN map) /\ ScopesCover(work')
    BY <2>1, <2>2, StackedIn DEF BuilderInv, Replaced
  <2>4. status' # "no binding"
    BY <2>1
  <2>. QED  BY <1>1, <2>1, <2>3, <2>4 DEF BuilderInv
<1>3. CASE ~(needed \subseteq DOMAIN column_map)
  <2>1. work' = work /\ column_map' = column_map
    BY <1>3 DEF Build
  <2>2. HasDummy(work)
    BY <1>3
  <2>. QED  BY <1>1, <2>1, <2>2 DEF BuilderInv
<1>. QED  BY <1>2, <1>3

\* The usual case: nothing is forgotten.
LEMMA BuildGrows ==
    ASSUME BuilderInv, status = "build", index' \in Int,
           NEW n \in 0..Len(work), NEW needed, NEW node, NEW map, NEW seen,
           Build(n, needed, node, map, seen),
           needed \subseteq DOMAIN column_map \/ HasDummy(work),
           DOMAIN column_map \subseteq DOMAIN map,
           Covered(node, DOMAIN map)
    PROVE  BuilderInv'
<1>1. ASSUME NEW i \in 1..(Len(work) - n) PROVE ItemIn(work[i], DOMAIN map)
  <2>1. i \in 1..Len(work)
    BY WorkFacts
  <2>2. ItemIn(work[i], DOMAIN column_map)
    BY <2>1 DEF BuilderInv, WorkIn, ItemsIn
  <2>. QED  BY <2>2, ItemGrows
<1>2. ItemsIn(work, Len(work) - n, DOMAIN map)
  BY <1>1 DEF ItemsIn
<1>. QED  BY <1>2, BuildKeeps
-----------------------------------------------------------------------------
(* What the guards give.                                                   *)

LEMMA StartsFacts ==
    ASSUME BuilderInv, NEW kind, NEW width \in Int, Starts(kind, width)
    PROVE  status = "build" /\ index' \in Int
  BY DEF BuilderInv, Starts, Offered

LEMMA TopFacts ==
    ASSUME BuilderInv, Finished(1)
    PROVE  /\ Len(work) \in Nat /\ 1 \in 0..Len(work) /\ Len(work) \in 1..Len(work)
           /\ Top = work[Len(work)] /\ NodeOf(work[Len(work)]) = Top /\ ~IsFrame(Top)
           /\ Covered(Top, DOMAIN column_map)
<1>1. Len(work) \in Nat /\ 1 <= Len(work)
  BY WorkFacts DEF Finished
<1>2. ~IsFrame(work[Len(work)])
  BY <1>1 DEF Finished
<1>3. ItemIn(work[Len(work)], DOMAIN column_map)
  BY <1>1, ItemAt
<1>. QED  BY <1>1, <1>2, <1>3 DEF Top, NodeOf, ItemIn

LEMMA BelowFacts ==
    ASSUME BuilderInv, Finished(2)
    PROVE  /\ Len(work) \in Nat /\ 2 \in 0..Len(work) /\ Len(work) - 1 \in 1..Len(work) /\ Finished(1)
           /\ Below = work[Len(work) - 1] /\ NodeOf(work[Len(work) - 1]) = Below
           /\ Covered(Below, DOMAIN column_map)
<1>1. Len(work) \in Nat /\ 2 <= Len(work)
  BY WorkFacts DEF Finished
<1>2. \A i \in (Len(work) - 1)..Len(work) : ~IsFrame(work[i])
  BY <1>1 DEF Finished
<1>3. Finished(1)
  BY <1>1, <1>2 DEF Finished
<1>4. ~IsFrame(work[Len(work) - 1])
  BY <1>1, <1>2
<1>5. ItemIn(work[Len(work) - 1], DOMAIN column_map)
  BY <1>1, ItemAt
<1>. QED  BY <1>1, <1>3, <1>4, <1>5 DEF Below, NodeOf, ItemIn

LEMMA ClosesFacts ==
    ASSUME BuilderInv, NEW kind, Closes(kind)
    PROVE  /\ status = "build" /\ Finished(1) /\ 2 \in 0..Len(work) /\ Len(work) - 1 \in 1..Len(work)
           /\ IsFrame(Below) /\ Below = work[Len(work) - 1] /\ Below.kind = kind
           /\ NodeOf(work[Len(work) - 1]) = Below.node
           /\ FrameTyped(Below) /\ Handed(Below, DOMAIN column_map)
           /\ Covered(Below.node, DOMAIN column_map)
           /\ Covered(Below.node, DOMAIN Below.scope)
           /\ ItemsIn(work, Len(work) - 2, DOMAIN Below.scope)
<1>1. /\ status = "build" /\ Finished(1) /\ Len(work) > 1 /\ IsFrame(Below) /\ Below.kind = kind
  BY DEF Closes
<1>2. Len(work) \in Nat
  BY WorkFacts
<1>3. 2 \in 0..Len(work) /\ Len(work) - 1 \in 1..Len(work) /\ Len(work) - 1 - 1 = Len(work) - 2
  BY <1>1, <1>2
<1>4. Below = work[Len(work) - 1]
  BY DEF Below
<1>5. ItemIn(Below, DOMAIN column_map)
  BY <1>3, <1>4, ItemAt
<1>6. Covered(Below.node, DOMAIN Below.scope) /\ ItemsIn(work, Len(work) - 2, DOMAIN Below.scope)
  BY <1>1, <1>3, <1>4 DEF BuilderInv, ScopesCover
<1>. QED  BY <1>1, <1>3, <1>4, <1>5, <1>6 DEF ItemIn, NodeOf

LEMMA RefsNamed ==
    ASSUME NEW node, NEW D, Covered(node, D)
    PROVE  Keys(Refs(node)) \subseteq D
<1>1. DOMAIN node.bindings = 1..Len(node.means)
  BY DEF Covered
<1>. QED  BY <1>1 DEF Covered, Keys, Refs

\* A binding without a name is a dummy's.
LEMMA NamedOrDummy ==
    ASSUME BuilderInv, NEW i \in 1..Len(work), NEW k \in 1..Len(NodeOf(work[i]).bindings)
    PROVE  NodeOf(work[i]).bindings[k] \in DOMAIN column_map \/ HasDummy(work)
<1>1. ItemIn(work[i], DOMAIN column_map)
  BY ItemAt
<1>2. PICK node : node = NodeOf(work[i])
  OBVIOUS
<1>3. Covered(node, DOMAIN column_map)
  BY <1>1, <1>2 DEF ItemIn
<1>4. k \in 1..Len(node.means)
  BY <1>2, <1>3 DEF Covered
<1>5. node.means[k] # None => node.bindings[k] \in DOMAIN column_map
  BY <1>3, <1>4 DEF Covered
<1>6. ASSUME node.means[k] = None PROVE HasDummy(work)
  <2>1. DOMAIN node.means = 1..Len(node.means)
    BY <1>3 DEF Covered
  <2>2. None \in ToSet(node.means)
    BY <1>4, <1>6, <2>1 DEF ToSet
  <2>3. i \in DOMAIN work
    BY WorkFacts
  <2>. QED  BY <1>2, <2>2, <2>3 DEF HasDummy
<1>. QED  BY <1>2, <1>5, <1>6

-----------------------------------------------------------------------------
(* Leaves.                                                                 *)

LEMMA LeafKeeps ==
    ASSUME BuilderInv, NEW kind, NEW bindings \in Seq(Bindings), NEW means \in Seq(Columns),
           Len(means) = Len(bindings), NEW cs, NEW width \in Int,
           Leaf(kind, bindings, means, cs, width)
    PROVE  BuilderInv'
<1>1. Starts(kind, width)
      /\ Build(0, {}, Node(kind, << >>, bindings, means, NamesOf(cs), means), Registered(bindings, cs), {})
  BY DEF Leaf
<1>2. status = "build" /\ index' \in Int
  BY <1>1, StartsFacts
<1>3. DOMAIN Registered(bindings, cs) = DOMAIN column_map \cup {bindings[i] : i \in DOMAIN bindings}
  BY RegisteredDomain
<1>4. \A i \in 1..Len(means) : bindings[i] \in DOMAIN Registered(bindings, cs)
  BY <1>3
<1>5. Covered(Node(kind, << >>, bindings, means, NamesOf(cs), means), DOMAIN Registered(bindings, cs))
  BY <1>4, NodeCovered DEF BuilderInv
<1>6. 0 \in 0..Len(work)
  BY WorkFacts
<1>7. DOMAIN column_map \subseteq DOMAIN Registered(bindings, cs)
  BY <1>3
<1>. QED  BY <1>1, <1>2, <1>5, <1>6, <1>7, BuildGrows

LEMMA GetKeeps ==
    ASSUME BuilderInv, NEW table \in menu.tables, NEW picked \in Increasing(Len(BaseTables[table])),
           Get(table, picked)
    PROVE  BuilderInv'
<1>1. Len(picked) \in Nat
  <2>1. Len(BaseTables[table]) \in Nat
    BY MenusAssumption DEF BuilderInv
  <2>2. PICK k \in 1..Len(BaseTables[table]) : picked \in [1..k -> 1..Len(BaseTables[table])]
    BY DEF Increasing
  <2>. QED  BY <2>1, <2>2
<1>2. Bound(index, Len(picked)) \in Seq(Bindings) /\ Len(Bound(index, Len(picked))) = Len(picked)
  BY <1>1, BoundTyped DEF BuilderInv
<1>3. Fresh(Len(picked)) \in Seq(Columns) /\ Len(Fresh(Len(picked))) = Len(picked)
  BY <1>1, FreshTyped DEF BuilderInv
<1>4. PICK cs : Leaf("Get", Bound(index, Len(picked)), Fresh(Len(picked)), cs, 1)
  BY DEF Get
<1>. QED  BY <1>2, <1>3, <1>4, LeafKeeps

LEMMA ValuesKeeps ==
    ASSUME BuilderInv, NEW n \in 1..menu.width, Values(n)
    PROVE  BuilderInv'
<1>1. n \in Nat
  <2>1. menu.width \in Nat
    BY MenusAssumption DEF BuilderInv
  <2>. QED  BY <2>1
<1>2. Bound(index, n) \in Seq(Bindings) /\ Len(Bound(index, n)) = n
  BY <1>1, BoundTyped DEF BuilderInv
<1>3. Fresh(n) \in Seq(Columns) /\ Len(Fresh(n)) = n
  BY <1>1, FreshTyped DEF BuilderInv
<1>4. PICK cs : Leaf("Values", Bound(index, n), Fresh(n), cs, 1)
  BY DEF Values
<1>. QED  BY <1>2, <1>3, <1>4, LeafKeeps

LEMMA OtherLeavesKeep ==
    ASSUME BuilderInv, DummyScan \/ EmptyResult
    PROVE  BuilderInv'
<1>1. <<index, 1>> \in Bindings /\ <<index + 1, 1>> \in Bindings
  <2>1. index \in Int
    BY DEF BuilderInv
  <2>. QED  BY <2>1 DEF Bindings
<1>2. CASE DummyScan
  <2>1. PICK cs : Leaf("DummyScan", <<<<index, 1>>>>, Fresh(1), cs, 1)
    BY <1>2 DEF DummyScan
  <2>2. <<<<index, 1>>>> \in Seq(Bindings) /\ Len(<<<<index, 1>>>>) = 1
    BY <1>1
  <2>3. Fresh(1) \in Seq(Columns) /\ Len(Fresh(1)) = 1
    BY FreshTyped DEF BuilderInv
  <2>. QED  BY <2>1, <2>2, <2>3, LeafKeeps
<1>3. CASE EmptyResult
  <2>1. PICK both, rows, cs :
          both = <<<<index, 1>>, <<index + 1, 1>>>> /\ rows = Fresh(2) /\ Leaf("EmptyResult", both, rows, cs, 2)
    BY <1>3 DEF EmptyResult
  <2>2. both \in Seq(Bindings) /\ Len(both) = 2
    BY <1>1, <2>1
  <2>3. rows \in Seq(Columns) /\ Len(rows) = 2
    BY <2>1, FreshTyped DEF BuilderInv
  <2>4. Leaf("EmptyResult", both, rows, cs, 2)
    BY <2>1
  <2>. QED  BY <2>2, <2>3, <2>4, LeafKeeps
<1>. QED  BY <1>2, <1>3

\* Leaves that register nothing.
LEMMA DummiesKeep ==
    ASSUME BuilderInv, GetNothing \/ ValuesWithoutColumns
    PROVE  BuilderInv'
<1>1. index \in Int /\ 0 \in 0..Len(work)
  <2>1. index \in Int
    BY DEF BuilderInv
  <2>. QED  BY <2>1, WorkFacts
<1>2. CASE GetNothing
  <2>1. PICK one, dummy : one = <<<<index, 1>>>> /\ dummy = <<None>>
    OBVIOUS
  <2>2. PICK cols, shows :
          /\ Starts("GetNothing", 1)
          /\ Build(0, {}, Node("Get", << >>, one, dummy, cols, shows), column_map, {})
    BY <1>2, <2>1 DEF GetNothing
  <2>3. one \in Seq(Bindings) /\ Len(one) = 1
    <3>1. <<index, 1>> \in Bindings
      BY <1>1 DEF Bindings
    <3>. QED  BY <2>1, <3>1
  <2>4. dummy \in Seq(Columns) /\ Len(dummy) = 1 /\ dummy[1] = None
    <3>1. None \in Columns
      BY DEF None, Columns
    <3>. QED  BY <2>1, <3>1
  <2>5. \A i \in 1..Len(dummy) : dummy[i] = None
    BY <2>4
  <2>6. Covered(Node("Get", << >>, one, dummy, cols, shows), DOMAIN column_map)
    BY <1>1, <2>3, <2>4, <2>5, NodeCovered
  <2>7. status = "build" /\ index' \in Int
    BY <2>2, StartsFacts
  <2>. QED  BY <1>1, <2>2, <2>6, <2>7, BuildGrows
<1>3. CASE ValuesWithoutColumns
  <2>1. PICK none : none = << >>
    OBVIOUS
  <2>2. PICK cols, shows :
          /\ Starts("NoValues", 1)
          /\ Build(0, {}, Node("Values", << >>, none, none, cols, shows), column_map, {})
    BY <1>3, <2>1 DEF ValuesWithoutColumns
  <2>3. none \in Seq(Bindings) /\ none \in Seq(Columns) /\ Len(none) = 0
    BY <2>1
  <2>4. \A i \in 1..Len(none) : none[i] # None => none[i] \in DOMAIN column_map
    BY <2>3
  <2>5. Covered(Node("Values", << >>, none, none, cols, shows), DOMAIN column_map)
    BY <1>1, <2>3, <2>4, NodeCovered
  <2>6. status = "build" /\ index' \in Int
    BY <2>2, StartsFacts
  <2>. QED  BY <1>1, <2>2, <2>5, <2>6, BuildGrows
<1>. QED  BY <1>2, <1>3

LEMMA AgainTyped ==
    ASSUME serial \in Int, NEW v \in Columns
    PROVE  Again(v) \in Columns
<1>1. None \in Columns /\ <<serial>> \in Seq(Int)
  BY DEF None, Columns
<1>2. <<serial>> \o v \in Columns
  BY <1>1 DEF Columns
<1>. QED  BY <1>1, <1>2 DEF Again

\* The columns of a body, once more.
LEMMA AgainEach ==
    ASSUME serial \in Int, NEW node, NEW D, Covered(node, D), NEW n, n = Len(node.bindings)
    PROVE  /\ n \in Nat /\ [i \in 1..n |-> Again(node.means[i])] \in Seq(Columns)
           /\ Len([i \in 1..n |-> Again(node.means[i])]) = n
<1>1. n \in Nat /\ \A i \in 1..n : node.means[i] \in Columns
  BY DEF Covered
<1>2. \A i \in 1..n : Again(node.means[i]) \in Columns
  BY <1>1, AgainTyped
<1>. QED  BY <1>1, <1>2

LEMMA CteRefKeeps ==
    ASSUME BuilderInv, NEW i \in DOMAIN work, IsFrame(work[i]), CteRef(work[i])
    PROVE  BuilderInv'
<1>1. PICK f, n : f = work[i] /\ n = Len(f.node.bindings)
  OBVIOUS
<1>2. Covered(f.node, DOMAIN column_map)
  BY <1>1, WorkFacts, ItemAt DEF ItemIn, NodeOf
<1>3. PICK means : means = [k \in 1..n |-> Again(f.node.means[k])]
  OBVIOUS
<1>4. n \in Nat /\ means \in Seq(Columns) /\ Len(means) = n
  <2>1. serial \in Int
    BY DEF BuilderInv
  <2>. QED  BY <1>1, <1>2, <1>3, <2>1, AgainEach
<1>5. PICK cs, cols, shows :
        /\ Starts("CteRef", 1)
        /\ Build(0, {}, Node("CteRef", << >>, Bound(index, n), means, cols, shows), Registered(Bound(index, n), cs), {})
  BY <1>1, <1>3 DEF CteRef
<1>6. /\ index \in Int /\ Bound(index, n) \in Seq(Bindings) /\ Len(Bound(index, n)) = n
  BY <1>4, BoundTyped DEF BuilderInv
<1>7. PICK bindings : bindings = Bound(index, n)
  OBVIOUS
<1>8. DOMAIN Registered(bindings, cs) = DOMAIN column_map \cup {bindings[k] : k \in DOMAIN bindings}
  BY RegisteredDomain
<1>9. DOMAIN bindings = 1..Len(means)
  BY <1>4, <1>6, <1>7
<1>10. \A k \in 1..Len(means) : bindings[k] \in DOMAIN Registered(bindings, cs)
  BY <1>8, <1>9
<1>11. Covered(Node("CteRef", << >>, bindings, means, cols, shows), DOMAIN Registered(bindings, cs))
  BY <1>4, <1>6, <1>7, <1>10, NodeCovered
<1>12. status = "build" /\ index' \in Int
  BY <1>5, StartsFacts
<1>13. 0 \in 0..Len(work) /\ DOMAIN column_map \subseteq DOMAIN Registered(bindings, cs)
  BY <1>8, WorkFacts
<1>. QED  BY <1>5, <1>7, <1>11, <1>12, <1>13, BuildGrows

\* The open delim join that an open DELIM_GET belongs to.
LEMMA OwnerFacts ==
    ASSUME BuilderInv, Delims # {}
    PROVE  Owner \in 1..Len(work) /\ IsFrame(work[Owner]) /\ work[Owner].kind = "DelimJoin"
<1>1. Len(work) \in Nat /\ Delims \subseteq 1..Len(work)
  BY WorkFacts DEF Delims
<1>2. \E i \in Delims : \A j \in Delims : j <= i
  BY <1>1, LastOne
<1>3. Owner \in Delims
  BY <1>2 DEF Owner
<1>. QED  BY <1>1, <1>3 DEF Delims

LEMMA DelimGetKeeps ==
    ASSUME BuilderInv, Delims # {}, NEW ti \in Missing, DelimGet(work[Owner], ti)
    PROVE  BuilderInv'
<1>1. PICK f, n : f = work[Owner] /\ n = Len(f.keys)
  OBVIOUS
<1>2. FrameTyped(f) /\ Handed(f, DOMAIN column_map)
  BY <1>1, OwnerFacts, ItemAt DEF ItemIn
<1>3. ti \in f.promised
  BY <1>1 DEF Missing
<1>4. n \in Nat /\ ti \in Int /\ \A k \in 1..n : <<ti, k>> \in DOMAIN column_map
  BY <1>1, <1>2, <1>3 DEF FrameTyped, Handed
<1>5. PICK bindings, means : bindings = Bound(ti, n) /\ means = Fresh(n)
  OBVIOUS
<1>6. /\ bindings \in Seq(Bindings) /\ Len(bindings) = n /\ means \in Seq(Columns) /\ Len(means) = n
      /\ \A k \in 1..n : bindings[k] = <<ti, k>>
  BY <1>4, <1>5, BoundTyped, FreshTyped DEF BuilderInv
<1>7. \A k \in 1..n : bindings[k] \in DOMAIN column_map
  BY <1>4, <1>6
<1>8. ToSet(bindings) \subseteq DOMAIN column_map
  <2>1. DOMAIN bindings = 1..n
    BY <1>4, <1>6
  <2>. QED  BY <1>7, <2>1 DEF ToSet
<1>9. PICK cols, node, seen :
        /\ node = Node("DelimGet", << >>, bindings, means, cols, means)
        /\ Starts("DelimJoin", 0)
        /\ Build(0, ToSet(bindings), [node EXCEPT !.delims = {ti}], column_map, seen)
  BY <1>1, <1>5 DEF DelimGet
<1>10. Covered(node, DOMAIN column_map)
  BY <1>6, <1>7, <1>9, NodeCovered DEF BuilderInv
<1>11. Covered([node EXCEPT !.delims = {ti}], DOMAIN column_map)
  BY <1>10 DEF Covered, NodeFields
<1>12. status = "build" /\ index' \in Int /\ 0 \in 0..Len(work)
  BY <1>9, StartsFacts, WorkFacts
<1>. QED  BY <1>8, <1>9, <1>11, <1>12, BuildGrows
-----------------------------------------------------------------------------
(* Operators over one subtree.                                             *)

LEMMA UnaryFacts ==
    ASSUME BuilderInv, NEW kind, NEW width \in Int, Unary(kind, width)
    PROVE  /\ status = "build" /\ index' \in Int /\ Finished(1) /\ index \in Int /\ serial \in Int
           /\ 1 \in 0..Len(work) /\ Len(work) \in 1..Len(work) /\ NodeOf(work[Len(work)]) = Top
           /\ Covered(Top, DOMAIN column_map)
<1>1. Starts(kind, width) /\ Finished(1)
  BY DEF Unary
<1>2. index \in Int /\ serial \in Int
  BY DEF BuilderInv
<1>. QED  BY <1>1, <1>2, StartsFacts, TopFacts

LEMMA PositionsTyped ==
    ASSUME NEW node, NEW D, Covered(node, D)
    PROVE  /\ Len(node.bindings) \in Nat /\ All(node.bindings) \in Seq(1..Len(node.bindings))
           /\ Increasing(Len(node.bindings)) \subseteq Seq(1..Len(node.bindings))
           /\ Maps(node) \subseteq Seq(1..Len(node.bindings))
<1>1. PICK n \in Nat : n = Len(node.bindings) /\ DOMAIN node.bindings = 1..n
  BY DEF Covered
<1>2. All(node.bindings) \in Seq(1..n)
  BY <1>1 DEF All
<1>3. Increasing(n) \subseteq Seq(1..n)
  <2>1. ASSUME NEW s \in Increasing(n) PROVE s \in Seq(1..n)
    <3>1. PICK k \in 1..n : s \in [1..k -> 1..n]
      BY DEF Increasing
    <3>2. k \in Nat
      BY <1>1
    <3>. QED  BY <3>1, <3>2
  <2>. QED  BY <2>1
<1>4. Maps(node) \subseteq Seq(1..n)
  BY <1>1, <1>2, <1>3 DEF Maps
<1>. QED  BY <1>1, <1>2, <1>3, <1>4

\* The columns an operator keeps of its subtree.
LEMMA PickCovered ==
    ASSUME NEW node, NEW D, Covered(node, D), NEW at \in Seq(1..Len(node.bindings))
    PROVE  /\ Pick(node.bindings, at) \in Seq(Bindings) /\ Pick(node.means, at) \in Seq(Columns)
           /\ Len(Pick(node.bindings, at)) = Len(at) /\ Len(Pick(node.means, at)) = Len(at)
           /\ \A i \in 1..Len(at) : Pick(node.means, at)[i] # None => Pick(node.bindings, at)[i] \in D
<1>1. /\ node.bindings \in Seq(Bindings) /\ node.means \in Seq(Columns)
      /\ at \in Seq(1..Len(node.means)) /\ Len(node.means) = Len(node.bindings)
  BY DEF Covered
<1>2. /\ Pick(node.bindings, at) \in Seq(Bindings) /\ Len(Pick(node.bindings, at)) = Len(at)
      /\ \A k \in 1..Len(at) : at[k] \in 1..Len(node.means) /\ Pick(node.bindings, at)[k] = node.bindings[at[k]]
  BY <1>1, PickTyped
<1>3. /\ Pick(node.means, at) \in Seq(Columns) /\ Len(Pick(node.means, at)) = Len(at)
      /\ \A k \in 1..Len(at) : Pick(node.means, at)[k] = node.means[at[k]]
  BY <1>1, PickTyped
<1>4. \A i \in 1..Len(node.means) : node.means[i] # None => node.bindings[i] \in D
  BY DEF Covered
<1>. QED  BY <1>2, <1>3, <1>4

\* A node that keeps some columns of its only subtree, and what that one's parents may still refer to.
LEMMA KeepsColumns ==
    ASSUME NEW n, NEW D, Covered(n, D), NEW at \in Seq(1..Len(n.bindings)), index \in Int,
           NEW kind, NEW cols, NEW shows
    PROVE  Covered([Node(kind, <<n>>, Pick(n.bindings, at), Pick(n.means, at), cols, shows)
                      EXCEPT !.stale = Passed(n, at)], D)
<1>1. PICK node : node = Node(kind, <<n>>, Pick(n.bindings, at), Pick(n.means, at), cols, shows)
  OBVIOUS
<1>2. n.from \in Int /\ \A x \in Passed(n, at) : x[1] \in D
  BY DEF Covered, Passed
<1>3. PICK kids : kids = <<n>> /\ kids[1].from \in Int
  <2>1. <<n>>[1] = n
    OBVIOUS
  <2>. QED  BY <1>2, <2>1
<1>4. Covered(node, D)
  BY <1>1, <1>3, PickCovered, NodeCovered
<1>5. PICK other : other = [node EXCEPT !.stale = Passed(n, at)]
  OBVIOUS
<1>6. /\ DOMAIN other = NodeFields /\ other.bindings = node.bindings /\ other.means = node.means
      /\ other.from = node.from /\ other.extra = node.extra /\ other.stale = Passed(n, at)
  BY <1>4, <1>5 DEF Covered, NodeFields
<1>7. Covered(other, D)
  BY <1>2, <1>4, <1>6 DEF Covered
<1>. QED  BY <1>1, <1>5, <1>7

LEMMA StaleNamed ==
    ASSUME NEW node, NEW D, Covered(node, D)
    PROVE  Keys(Refs(node) \cup node.stale) \subseteq D
<1>1. Keys(Refs(node)) \subseteq D /\ \A x \in node.stale : x[1] \in D
  BY RefsNamed DEF Covered
<1>. QED  BY <1>1 DEF Keys

LEMMA FilterKeeps ==
    ASSUME BuilderInv, NEW at \in Maps(Top), Filter(at)
    PROVE  BuilderInv'
<1>1. PICK n : n = Top
  OBVIOUS
<1>2. PICK node, cols, shows, seen :
        /\ node = [Node("Filter", <<n>>, Pick(n.bindings, at), Pick(n.means, at), cols, shows) EXCEPT !.stale = Passed(n, at)]
        /\ Unary("Filter", 0)
        /\ Build(1, Keys(Refs(n) \cup n.stale), node, column_map, seen)
  BY <1>1 DEF Filter
<1>3. /\ status = "build" /\ index' \in Int /\ index \in Int /\ 1 \in 0..Len(work)
      /\ Covered(n, DOMAIN column_map)
  BY <1>1, <1>2, UnaryFacts
<1>4. at \in Seq(1..Len(n.bindings))
  BY <1>1, <1>3, PositionsTyped
<1>5. Covered(node, DOMAIN column_map)
  BY <1>2, <1>3, <1>4, KeepsColumns
<1>6. Keys(Refs(n) \cup n.stale) \subseteq DOMAIN column_map
  BY <1>3, StaleNamed
<1>. QED  BY <1>2, <1>3, <1>5, <1>6, BuildGrows

\* The bindings an operator looks up to select by name: what has none is a dummy.
LEMMA LookedUp ==
    ASSUME BuilderInv, NEW i \in 1..Len(work), NEW n, n = NodeOf(work[i]),
           NEW at \in Seq(1..Len(n.bindings)), Covered(n, DOMAIN column_map)
    PROVE  ToSet(Pick(n.bindings, at)) \subseteq DOMAIN column_map \/ HasDummy(work)
<1>1. n.bindings \in Seq(Bindings)
  BY DEF Covered
<1>2. /\ Pick(n.bindings, at) \in Seq(Bindings) /\ Len(Pick(n.bindings, at)) = Len(at)
      /\ \A k \in 1..Len(at) : at[k] \in 1..Len(n.bindings) /\ Pick(n.bindings, at)[k] = n.bindings[at[k]]
  BY <1>1, PickTyped
<1>3. ASSUME ~HasDummy(work), NEW k \in 1..Len(at) PROVE Pick(n.bindings, at)[k] \in DOMAIN column_map
  BY <1>2, <1>3, NamedOrDummy
<1>4. DOMAIN Pick(n.bindings, at) = 1..Len(at)
  BY <1>2
<1>. QED  BY <1>3, <1>4 DEF ToSet

LEMMA RowsKeeps ==
    ASSUME BuilderInv, NEW kind, NEW at \in Maps(Top) \cup {All(Top.bindings)}, Rows(kind, at)
    PROVE  BuilderInv'
<1>1. PICK n : n = Top
  OBVIOUS
<1>2. PICK node, cols, shows, needed, seen :
        /\ node = [Node(kind, <<n>>, Pick(n.bindings, at), Pick(n.means, at), cols, shows) EXCEPT !.stale = Passed(n, at)]
        /\ Unary(kind, 0)
        /\ needed = Keys(Refs(n) \cup n.stale) \cup ToSet(Pick(n.bindings, at))
        /\ Build(1, needed, node, column_map, seen)
  BY <1>1 DEF Rows
<1>3. /\ status = "build" /\ index' \in Int /\ index \in Int /\ 1 \in 0..Len(work)
      /\ Len(work) \in 1..Len(work) /\ NodeOf(work[Len(work)]) = n
      /\ Covered(n, DOMAIN column_map)
  BY <1>1, <1>2, UnaryFacts
<1>4. at \in Seq(1..Len(n.bindings))
  BY <1>1, <1>3, PositionsTyped
<1>5. Covered(node, DOMAIN column_map)
  BY <1>2, <1>3, <1>4, KeepsColumns
<1>6. Keys(Refs(n) \cup n.stale) \subseteq DOMAIN column_map
  BY <1>3, StaleNamed
<1>7. ToSet(Pick(n.bindings, at)) \subseteq DOMAIN column_map \/ HasDummy(work)
  BY <1>3, <1>4, LookedUp
<1>8. needed \subseteq DOMAIN column_map \/ HasDummy(work)
  BY <1>2, <1>6, <1>7
<1>. QED  BY <1>2, <1>3, <1>5, <1>8, BuildGrows

\* Columns in order: each has a name or is a dummy.
InRow(bindings, means, D) ==
    /\ bindings \in Seq(Bindings) /\ means \in Seq(Columns) /\ Len(means) = Len(bindings)
    /\ \A i \in 1..Len(means) : means[i] # None => bindings[i] \in D

LEMMA RowOf ==
    ASSUME NEW node, NEW D, Covered(node, D)
    PROVE  InRow(node.bindings, node.means, D)
  BY DEF Covered, InRow

LEMMA RowGrows ==
    ASSUME NEW b, NEW m, NEW D, InRow(b, m, D), NEW E, D \subseteq E
    PROVE  InRow(b, m, E)
  BY DEF InRow

LEMMA RowOfNew ==
    ASSUME NEW ti \in Int, NEW n \in Nat, serial \in Int, NEW D, \A i \in 1..n : <<ti, i>> \in D
    PROVE  InRow(Bound(ti, n), Fresh(n), D)
  BY BoundTyped, FreshTyped DEF InRow

LEMMA Concatenation ==
    ASSUME NEW S, NEW s \in Seq(S), NEW t \in Seq(S)
    PROVE  s \o t \in Seq(S) /\ Len(s \o t) = Len(s) + Len(t)
  OBVIOUS

LEMMA RowsTogether ==
    ASSUME NEW b, NEW m, NEW c, NEW k, NEW D, InRow(b, m, D), InRow(c, k, D)
    PROVE  InRow(b \o c, m \o k, D)
<1>1. /\ b \in Seq(Bindings) /\ c \in Seq(Bindings) /\ m \in Seq(Columns) /\ k \in Seq(Columns)
      /\ Len(m) = Len(b) /\ Len(k) = Len(c)
  BY DEF InRow
<1>2. PICK bc, mk : bc = b \o c /\ mk = m \o k
  OBVIOUS
<1>3. /\ bc \in Seq(Bindings) /\ mk \in Seq(Columns) /\ Len(bc) = Len(b) + Len(c) /\ Len(mk) = Len(b) + Len(c)
  <2>1. bc \in Seq(Bindings) /\ Len(bc) = Len(b) + Len(c)
    BY <1>1, <1>2, Concatenation
  <2>2. mk \in Seq(Columns) /\ Len(mk) = Len(m) + Len(k)
    BY <1>1, <1>2, Concatenation
  <2>. QED  BY <1>1, <2>1, <2>2
<1>4. ASSUME NEW i \in 1..Len(mk), mk[i] # None PROVE bc[i] \in D
  <2>1. CASE i <= Len(b)
    <3>1. i \in 1..Len(m) /\ mk[i] = m[i] /\ bc[i] = b[i]
      BY <1>1, <1>2, <1>3, <2>1
    <3>. QED  BY <1>4, <3>1 DEF InRow
  <2>2. CASE ~(i <= Len(b))
    <3>1. i - Len(b) \in 1..Len(k) /\ mk[i] = k[i - Len(b)] /\ bc[i] = c[i - Len(b)]
      BY <1>1, <1>2, <1>3, <2>2
    <3>. QED  BY <1>4, <3>1 DEF InRow
  <2>. QED  BY <2>1, <2>2
<1>. QED  BY <1>2, <1>3, <1>4 DEF InRow

LEMMA NodeInRow ==
    ASSUME NEW D, NEW kind, NEW kids, NEW b, NEW m, InRow(b, m, D), NEW cols, NEW shows,
           index \in Int, kids = << >> \/ kids[1].from \in Int
    PROVE  Covered(Node(kind, kids, b, m, cols, shows), D)
  BY NodeCovered DEF InRow

LEMMA FirstKid ==
    ASSUME NEW n, NEW D, Covered(n, D)
    PROVE  <<n>>[1].from \in Int /\ \A r : <<n, r>>[1].from \in Int
<1>1. n.from \in Int
  BY DEF Covered
<1>. QED  BY <1>1

LEMMA AllNamed ==
    ASSUME BuilderInv, NEW i \in 1..Len(work), NEW n, n = NodeOf(work[i]), Covered(n, DOMAIN column_map)
    PROVE  ToSet(n.bindings) \subseteq DOMAIN column_map \/ HasDummy(work)
<1>1. DOMAIN n.bindings = 1..Len(n.bindings)
  BY DEF Covered
<1>2. ASSUME ~HasDummy(work), NEW k \in 1..Len(n.bindings) PROVE n.bindings[k] \in DOMAIN column_map
  BY <1>2, NamedOrDummy
<1>. QED  BY <1>1, <1>2 DEF ToSet

\* New columns get names.
LEMMA NewNamed ==
    ASSUME index \in Int, NEW n \in Nat, NEW cs
    PROVE  /\ DOMAIN column_map \subseteq DOMAIN Registered(Bound(index, n), cs)
           /\ \A i \in 1..n : <<index, i>> \in DOMAIN Registered(Bound(index, n), cs)
<1>1. PICK bindings : bindings = Bound(index, n)
  OBVIOUS
<1>2. DOMAIN bindings = 1..n /\ \A i \in 1..n : bindings[i] = <<index, i>>
  <2>1. bindings \in Seq(Bindings) /\ Len(bindings) = n /\ \A i \in 1..n : bindings[i] = <<index, i>>
    BY <1>1, BoundTyped
  <2>. QED  BY <2>1
<1>3. DOMAIN Registered(bindings, cs) = DOMAIN column_map \cup {bindings[i] : i \in DOMAIN bindings}
  BY RegisteredDomain
<1>. QED  BY <1>1, <1>2, <1>3

LEMMA AddingKeeps ==
    ASSUME BuilderInv, NEW kind, NEW more \in Nat, NEW cs, Adding(kind, more, cs)
    PROVE  BuilderInv'
<1>1. PICK n, map : n = Top /\ map = Registered(Bound(index, more), cs)
  OBVIOUS
<1>2. PICK node, cols, shows, seen :
        /\ node = Node(kind, <<n>>, n.bindings \o Bound(index, more), n.means \o Fresh(more), cols, shows)
        /\ Unary(kind, 1)
        /\ Build(1, ToSet(n.bindings), node, map, seen)
  BY <1>1 DEF Adding
<1>3. /\ status = "build" /\ index' \in Int /\ index \in Int /\ serial \in Int /\ 1 \in 0..Len(work)
      /\ Len(work) \in 1..Len(work) /\ NodeOf(work[Len(work)]) = n
      /\ Covered(n, DOMAIN column_map)
  BY <1>1, <1>2, UnaryFacts
<1>4. DOMAIN column_map \subseteq DOMAIN map /\ \A i \in 1..more : <<index, i>> \in DOMAIN map
  BY <1>1, <1>3, NewNamed
<1>5. InRow(n.bindings \o Bound(index, more), n.means \o Fresh(more), DOMAIN map)
  BY <1>3, <1>4, RowOf, RowGrows, RowOfNew, RowsTogether
<1>6. Covered(node, DOMAIN map)
  BY <1>2, <1>3, <1>5, NodeInRow, FirstKid
<1>7. ToSet(n.bindings) \subseteq DOMAIN column_map \/ HasDummy(work)
  BY <1>3, AllNamed
<1>. QED  BY <1>2, <1>3, <1>4, <1>6, <1>7, BuildGrows

LEMMA LateralKeeps ==
    ASSUME BuilderInv, NEW own, Len(own) \in Nat, NEW passed \in Increasing(Len(Top.bindings)), Lateral(own, passed)
    PROVE  BuilderInv'
<1>1. PICK n, more : n = Top /\ more = Len(own)
  OBVIOUS
<1>2. PICK node, cols, shows, seen, cs, map :
        /\ map = Registered(Bound(index, more), cs)
        /\ node = Node("Lateral", <<n>>, Bound(index, more) \o Pick(n.bindings, passed),
                       Fresh(more) \o Pick(n.means, passed), cols, shows)
        /\ Unary("Lateral", 1)
        /\ Build(1, ToSet(n.bindings), node, map, seen)
  BY <1>1 DEF Lateral
<1>3. /\ status = "build" /\ index' \in Int /\ index \in Int /\ serial \in Int /\ 1 \in 0..Len(work)
      /\ Len(work) \in 1..Len(work) /\ NodeOf(work[Len(work)]) = n
      /\ Covered(n, DOMAIN column_map)
  BY <1>1, <1>2, UnaryFacts
<1>4. DOMAIN column_map \subseteq DOMAIN map /\ \A i \in 1..more : <<index, i>> \in DOMAIN map
  BY <1>1, <1>2, <1>3, NewNamed
<1>5. InRow(Pick(n.bindings, passed), Pick(n.means, passed), DOMAIN map)
  <2>1. passed \in Seq(1..Len(n.bindings))
    BY <1>1, <1>3, PositionsTyped
  <2>2. InRow(Pick(n.bindings, passed), Pick(n.means, passed), DOMAIN column_map)
    BY <1>3, <2>1, PickCovered DEF InRow
  <2>. QED  BY <1>4, <2>2, RowGrows
<1>6. InRow(Bound(index, more) \o Pick(n.bindings, passed), Fresh(more) \o Pick(n.means, passed), DOMAIN map)
  BY <1>1, <1>3, <1>4, <1>5, RowOfNew, RowsTogether
<1>7. Covered(node, DOMAIN map)
  BY <1>2, <1>3, <1>6, NodeInRow, FirstKid
<1>8. ToSet(n.bindings) \subseteq DOMAIN column_map \/ HasDummy(work)
  BY <1>3, AllNamed
<1>. QED  BY <1>2, <1>3, <1>4, <1>7, <1>8, BuildGrows

LEMMA InsertKeeps ==
    ASSUME BuilderInv, Insert
    PROVE  BuilderInv'
<1>1. PICK n, none : n = Top /\ none = << >>
  OBVIOUS
<1>2. PICK node, seen :
        /\ node = Node("Insert", <<n>>, none, none, none, none)
        /\ Unary("Insert", 0)
        /\ Build(1, {}, node, column_map, seen)
  BY <1>1 DEF Insert
<1>3. /\ status = "build" /\ index' \in Int /\ index \in Int /\ 1 \in 0..Len(work)
      /\ Covered(n, DOMAIN column_map)
  BY <1>1, <1>2, UnaryFacts
<1>4. InRow(none, none, DOMAIN column_map)
  BY <1>1 DEF InRow
<1>5. Covered(node, DOMAIN column_map)
  BY <1>2, <1>3, <1>4, NodeInRow, FirstKid
<1>. QED  BY <1>2, <1>3, <1>5, BuildGrows
-----------------------------------------------------------------------------
(* Projections and aggregates.                                             *)

\* A join asked for more columns has the same bindings.
LEMMA AskedSame ==
    ASSUME NEW n, NEW D, Covered(n, D), NEW use
    PROVE  /\ Covered(Asked(n, use), D)
           /\ Asked(n, use).bindings = n.bindings /\ Asked(n, use).means = n.means
           /\ Asked(n, use).extra = n.extra /\ Asked(n, use).from = n.from
<1>1. CASE n.kind # "Join"
  BY <1>1 DEF Asked
<1>2. CASE n.kind = "Join"
  <2>1. PICK cols, shows : Asked(n, use) = [n EXCEPT !.cols = @ \o cols, !.shows = @ \o shows]
    BY <1>2 DEF Asked
  <2>2. PICK m : m = Asked(n, use)
    OBVIOUS
  <2>3. /\ DOMAIN m = DOMAIN n /\ m.bindings = n.bindings /\ m.means = n.means
        /\ m.extra = n.extra /\ m.from = n.from /\ m.stale = n.stale
    BY <2>1, <2>2 DEF Covered, NodeFields
  <2>4. Covered(m, D)
    BY <2>3 DEF Covered
  <2>. QED  BY <2>2, <2>3, <2>4
<1>. QED  BY <1>1, <1>2

LEMMA AsksFacts ==
    ASSUME BuilderInv, NEW kind, NEW width \in Int, NEW use, Asks(kind, width, use)
    PROVE  /\ status = "build" /\ index' \in Int /\ Finished(1) /\ index \in Int /\ serial \in Int
           /\ 1 \in 0..Len(work) /\ Len(work) \in 1..Len(work) /\ NodeOf(work[Len(work)]) = Top
           /\ Covered(Top, DOMAIN column_map)
<1>1. Starts(kind, width) /\ Finished(1)
  BY DEF Asks
<1>2. index \in Int /\ serial \in Int
  BY DEF BuilderInv
<1>. QED  BY <1>1, <1>2, StartsFacts, TopFacts

\* What an expression over a subtree may refer to, and what its parent may ask for, has a name.
LEMMA UseNamed ==
    ASSUME NEW n, NEW D, Covered(n, D), NEW use \in Uses(n)
    PROVE  /\ Keys(Reachable(n, use)) \subseteq D
           /\ \A extra \in Extras(n, use) : \A x \in extra : x[1] \in D
<1>1. \A x \in n.extra : x[1] \in D
  BY DEF Covered
<1>2. \A x \in use : x[1] \in D
  BY <1>1 DEF Uses
<1>3. Keys(Refs(n)) \subseteq D
  BY RefsNamed
<1>4. Keys(Reachable(n, use)) \subseteq D
  BY <1>2, <1>3 DEF Keys, Reachable
<1>5. ASSUME NEW extra \in Extras(n, use), NEW x \in extra PROVE x[1] \in D
  <2>1. \/ extra = {} \/ \E p \in Refs(n) : extra = {p}
        \/ extra = {<<y[1], y[2]>> : y \in use}
    BY DEF Extras
  <2>2. CASE \E p \in Refs(n) : extra = {p}
    BY <1>3, <1>5, <2>2 DEF Keys
  <2>3. CASE extra = {<<y[1], y[2]>> : y \in use}
    BY <1>2, <1>5, <2>3
  <2>. QED  BY <1>5, <2>1, <2>2, <2>3
<1>. QED  BY <1>4, <1>5

LEMMA StringsTyped ==
    ASSUME NEW S, NEW low \in Nat, NEW high \in Nat, NEW s \in Strings(S, low, high)
    PROVE  s \in Seq(S) /\ Len(s) \in Nat /\ DOMAIN s = 1..Len(s)
<1>1. PICK k \in low..high : s \in [1..k -> S]
  BY DEF Strings
<1>2. k \in Nat
  BY <1>1
<1>. QED  BY <1>1, <1>2

\* A projection of some expressions.
LEMMA ProjectedKeeps ==
    ASSUME BuilderInv, NEW use \in Uses(Top), Asks("Project", 1, use),
           NEW items \in Seq(Items(Top)), NEW means,
           means = [i \in DOMAIN items |-> IF items[i].kind = "computed" THEN <<serial, i>>
                                            ELSE Top.means[items[i].at]],
           NEW more, \A x \in more : x[1] \in DOMAIN column_map,
           NEW kind, NEW cs, NEW cols, NEW shows, NEW seen,
           NEW needed, needed \subseteq DOMAIN column_map \/ HasDummy(work),
           Build(1, needed,
                 [Node(kind, <<Asked(Top, use)>>, Bound(index, Len(items)), means, cols, shows) EXCEPT !.extra = more],
                 Registered(Bound(index, Len(items)), cs), seen)
    PROVE  BuilderInv'
<1>1. /\ status = "build" /\ index' \in Int /\ index \in Int /\ serial \in Int /\ 1 \in 0..Len(work)
      /\ Covered(Top, DOMAIN column_map)
  BY AsksFacts
<1>2. PICK top, n, count, map :
        /\ top = Top /\ n = Asked(Top, use) /\ count = Len(items)
        /\ map = Registered(Bound(index, count), cs)
  OBVIOUS
<1>3. count \in Nat /\ DOMAIN items = 1..count
  BY <1>2
<1>4. DOMAIN column_map \subseteq DOMAIN map /\ \A i \in 1..count : <<index, i>> \in DOMAIN map
  BY <1>1, <1>2, <1>3, NewNamed
<1>5. means \in Seq(Columns) /\ Len(means) = count
  <2>1. ASSUME NEW i \in 1..count PROVE means[i] \in Columns
    <3>1. items[i] \in Items(Top)
      BY <1>3
    <3>2. means[i] = IF items[i].kind = "computed" THEN <<serial, i>> ELSE Top.means[items[i].at]
      BY <1>3
    <3>3. items[i].kind = "computed" \/ items[i].at \in DOMAIN Top.means
      BY <3>1 DEF Items
    <3>4. CASE items[i].kind = "computed"
      BY <1>1, <1>3, <3>2, <3>4 DEF Columns
    <3>5. CASE items[i].kind # "computed"
      <4>1. Top.means \in Seq(Columns)
        BY <1>1 DEF Covered
      <4>. QED  BY <3>2, <3>3, <3>5, <4>1
    <3>. QED  BY <3>4, <3>5
  <2>2. means \in [1..count -> Columns]
    BY <1>3, <2>1
  <2>. QED  BY <1>3, <2>2, FunctionIsSequence
<1>6. InRow(Bound(index, count), means, DOMAIN map)
  <2>1. /\ Bound(index, count) \in Seq(Bindings) /\ Len(Bound(index, count)) = count
        /\ \A i \in 1..count : Bound(index, count)[i] = <<index, i>>
    BY <1>1, <1>3, BoundTyped
  <2>. QED  BY <1>4, <1>5, <2>1 DEF InRow
<1>7. Covered(n, DOMAIN column_map)
  BY <1>1, <1>2, AskedSame
<1>8. PICK node : node = Node(kind, <<n>>, Bound(index, count), means, cols, shows)
  OBVIOUS
<1>9. Covered(node, DOMAIN map)
  BY <1>1, <1>6, <1>7, <1>8, NodeInRow, FirstKid
<1>10. \A x \in more : x[1] \in DOMAIN map
  BY <1>4
<1>11. PICK last : last = [node EXCEPT !.extra = more]
  OBVIOUS
<1>12. /\ DOMAIN last = NodeFields /\ last.bindings = node.bindings /\ last.means = node.means
       /\ last.from = node.from /\ last.stale = node.stale /\ last.extra = more
  BY <1>9, <1>11 DEF Covered, NodeFields
<1>13. Covered(last, DOMAIN map)
  BY <1>9, <1>10, <1>12 DEF Covered
<1>14. Build(1, needed, last, map, seen)
  BY <1>2, <1>8, <1>11
<1>. QED  BY <1>1, <1>4, <1>13, <1>14, BuildGrows

\* A projection that is left out.
LEMMA SkippedKeeps ==
    ASSUME BuilderInv, NEW use \in Uses(Top), Asks("Project", 1, use),
           NEW items, Len(items) \in Nat, DOMAIN items = 1..Len(items), NEW n, n = Asked(Top, use),
           InOrder(items, n), NEW needed, needed = {n.bindings[items[i].at] : i \in DOMAIN items},
           NEW kind, NEW cs, NEW seen,
           Build(1, needed, [n EXCEPT !.bindings = Bound(index, Len(items)), !.stale = {}, !.kind = kind],
                 Registered(Bound(index, Len(items)), cs), seen)
    PROVE  BuilderInv'
<1>1. /\ status = "build" /\ index' \in Int /\ index \in Int /\ 1 \in 0..Len(work)
      /\ Len(work) \in 1..Len(work) /\ NodeOf(work[Len(work)]) = Top
      /\ Covered(Top, DOMAIN column_map)
  BY AsksFacts
<1>2. Covered(n, DOMAIN column_map) /\ n.bindings = Top.bindings /\ n.extra = Top.extra
  BY <1>1, AskedSame
<1>3. PICK count, map : count = Len(items) /\ map = Registered(Bound(index, count), cs)
  OBVIOUS
<1>4. count = Len(n.bindings) /\ \A i \in 1..count : items[i].at = i
  BY <1>3 DEF InOrder
<1>5. DOMAIN column_map \subseteq DOMAIN map /\ \A i \in 1..count : <<index, i>> \in DOMAIN map
  BY <1>1, <1>3, NewNamed
<1>6. needed \subseteq DOMAIN column_map \/ HasDummy(work)
  <2>1. ASSUME ~HasDummy(work), NEW i \in 1..count PROVE n.bindings[items[i].at] \in DOMAIN column_map
    <3>1. items[i].at = i /\ i \in 1..Len(Top.bindings)
      BY <1>2, <1>4
    <3>2. Top.bindings[i] \in DOMAIN column_map
      BY <1>1, <2>1, <3>1, NamedOrDummy
    <3>. QED  BY <1>2, <3>1, <3>2
  <2>. QED  BY <1>3, <2>1
<1>7. PICK last : last = [n EXCEPT !.bindings = Bound(index, count), !.stale = {}, !.kind = kind]
  OBVIOUS
<1>8. /\ DOMAIN last = NodeFields /\ last.bindings = Bound(index, count) /\ last.means = n.means
      /\ last.from = n.from /\ last.stale = {} /\ last.extra = n.extra
  BY <1>2, <1>7 DEF Covered, NodeFields
<1>9. /\ Bound(index, count) \in Seq(Bindings) /\ Len(Bound(index, count)) = count
      /\ \A i \in 1..count : Bound(index, count)[i] = <<index, i>>
  BY <1>1, <1>3, BoundTyped
<1>10. /\ n.means \in Seq(Columns) /\ Len(n.means) = count /\ n.from \in Int
       /\ \A x \in n.extra : x[1] \in DOMAIN map
  BY <1>2, <1>4, <1>5 DEF Covered
<1>11. Covered(last, DOMAIN map)
  BY <1>5, <1>8, <1>9, <1>10 DEF Covered
<1>12. Build(1, needed, last, map, seen)
  BY <1>3, <1>7
<1>. QED  BY <1>1, <1>5, <1>6, <1>11, <1>12, BuildGrows

LEMMA ProjectKeeps ==
    ASSUME BuilderInv, NEW use \in Uses(Top), NEW extra \in Extras(Top, use), NEW root \in BOOLEAN,
           NEW items \in Strings(Items(Top), 1, menu.width), Project(items, root, use, extra)
    PROVE  BuilderInv'
<1>1. items \in Seq(Items(Top)) /\ Len(items) \in Nat /\ DOMAIN items = 1..Len(items)
  <2>1. menu.width \in Nat
    BY MenusAssumption DEF BuilderInv
  <2>. QED  BY <2>1, StringsTyped
<1>2. Asks("Project", 1, use)
  BY DEF Project
<1>3. Covered(Top, DOMAIN column_map)
  BY <1>2, AsksFacts
<1>. DEFINE n == Asked(Top, use)
<1>4. n.means = Top.means
  BY <1>3, AskedSame
<1>5. CASE Skipped(items, n, root, extra)
  <2>1. Build(1, {n.bindings[items[i].at] : i \in DOMAIN items},
              [n EXCEPT !.bindings = Bound(index, Len(items)), !.stale = {}, !.kind = IF root THEN "Root" ELSE @],
              Registered(Bound(index, Len(items)), [i \in DOMAIN items |-> column_map[n.bindings[items[i].at]]]), {})
    BY <1>5, Zenon DEF Project
  <2>2. InOrder(items, n)
    BY <1>5 DEF Skipped
  <2>3. PICK top, needed, kind, cs :
          /\ top = n /\ needed = {top.bindings[items[i].at] : i \in DOMAIN items}
          /\ Build(1, needed, [top EXCEPT !.bindings = Bound(index, Len(items)), !.stale = {}, !.kind = kind],
                   Registered(Bound(index, Len(items)), cs), {})
    BY <2>1
  <2>. HIDE DEF n
  <2>4. top = Asked(Top, use) /\ InOrder(items, top)
    BY <2>2, <2>3 DEF n
  <2>. QED  BY <1>1, <1>2, <2>3, <2>4, SkippedKeeps
<1>6. CASE ~Skipped(items, n, root, extra)
  <2>. DEFINE means == [i \in DOMAIN items |-> IF items[i].kind = "computed" THEN <<serial, i>>
                                               ELSE n.means[items[i].at]]
              more == {<<x[1], x[2], Denotes(FindColumnBinding(x[1]), n.cols, n.shows)>> : x \in extra}
              compressed == {i \in DOMAIN items : items[i].kind = "compress"}
              needed == Keys(Reachable(Top, use)) \cup {n.bindings[items[i].at] : i \in compressed}
  <2>1. PICK kind, cs, cols, shows, seen :
           Build(1, needed,
                 [Node(kind, <<n>>, Bound(index, Len(items)), means, cols, shows) EXCEPT !.extra = more],
                 Registered(Bound(index, Len(items)), cs), seen)
    BY <1>6, Zenon DEF Project
  <2>2. \A x \in more : x[1] \in DOMAIN column_map
    <3>1. \A x \in extra : x[1] \in DOMAIN column_map
      BY <1>3, UseNamed
    <3>. QED  BY <3>1
  <2>3. PICK m : m = more
    OBVIOUS
  <2>4. PICK f : f = means
    OBVIOUS
  <2>5. f = [i \in DOMAIN items |-> IF items[i].kind = "computed" THEN <<serial, i>>
                                     ELSE Top.means[items[i].at]]
    BY <1>4, <2>4
  <2>8. needed \subseteq DOMAIN column_map \/ HasDummy(work)
    <3>1. Keys(Reachable(Top, use)) \subseteq DOMAIN column_map /\ n.bindings = Top.bindings
      BY <1>3, UseNamed, AskedSame
    <3>2. ASSUME ~HasDummy(work), NEW i \in compressed PROVE n.bindings[items[i].at] \in DOMAIN column_map
      <4>1. items[i] \in Items(Top) /\ items[i].kind = "compress"
        BY <1>1
      <4>2. items[i].at \in DOMAIN Top.means
        BY <4>1 DEF Items
      <4>3. items[i].at \in 1..Len(Top.bindings)
        BY <1>3, <4>2 DEF Covered
      <4>4. Len(work) \in 1..Len(work) /\ NodeOf(work[Len(work)]) = Top
        BY <1>2, AsksFacts
      <4>. QED  BY <1>3, <3>1, <3>2, <4>3, <4>4, NamedOrDummy
    <3>. QED  BY <3>1, <3>2
  <2>9. PICK looked : looked = needed
    OBVIOUS
  <2>. HIDE DEF means, more, needed
  <2>6. Build(1, looked,
              [Node(kind, <<Asked(Top, use)>>, Bound(index, Len(items)), f, cols, shows) EXCEPT !.extra = m],
              Registered(Bound(index, Len(items)), cs), seen)
    BY <2>1, <2>3, <2>4, <2>9
  <2>7. \A x \in m : x[1] \in DOMAIN column_map
    BY <2>2, <2>3
  <2>. QED  BY <1>1, <1>2, <2>5, <2>6, <2>7, <2>8, <2>9, ProjectedKeeps
<1>. QED  BY <1>5, <1>6

\* The groups of an aggregate are columns that have names.
LEMMA GroupsNamed ==
    ASSUME Covered(Top, DOMAIN column_map), NEW groups \in Seq(Positions(Top) \cup {0}),
           NEW i \in DOMAIN groups, groups[i] # 0
    PROVE  Top.means[groups[i]] \in Columns /\ Top.bindings[groups[i]] \in DOMAIN column_map
<1>1. groups[i] \in Positions(Top)
  OBVIOUS
<1>2. groups[i] \in DOMAIN Top.means /\ Top.means[groups[i]] # None
  BY <1>1 DEF Positions
<1>3. Top.means \in Seq(Columns) /\ DOMAIN Top.means = 1..Len(Top.means)
  BY DEF Covered
<1>. QED  BY <1>2, <1>3 DEF Covered

LEMMA AggregatedKeeps ==
    ASSUME BuilderInv, NEW use \in Uses(Top), Asks("Aggregate", 3, use),
           NEW groups \in Seq(Positions(Top) \cup {0}), NEW new \in Seq(Bindings), NEW means,
           means = [i \in DOMAIN new |-> IF i \in {j \in DOMAIN groups : groups[j] # 0} THEN Top.means[groups[i]]
                                         ELSE <<serial, i>>],
           NEW stale, \A x \in stale : x[1] \in DOMAIN column_map,
           NEW cs, NEW cols, NEW shows, NEW remapped, NEW seen,
           Build(1, Keys(Reachable(Top, use)),
                 [Node("Aggregate", <<Asked(Top, use)>>, new, means, cols, shows) EXCEPT !.stale = stale],
                 Updated(Registered(new, cs), remapped), seen)
    PROVE  BuilderInv'
<1>1. /\ status = "build" /\ index' \in Int /\ index \in Int /\ serial \in Int /\ 1 \in 0..Len(work)
      /\ Covered(Top, DOMAIN column_map)
  BY AsksFacts
<1>2. PICK n, map : n = Asked(Top, use) /\ map = Updated(Registered(new, cs), remapped)
  OBVIOUS
<1>3. DOMAIN Registered(new, cs) = DOMAIN column_map \cup {new[i] : i \in DOMAIN new}
  BY RegisteredDomain
<1>4. DOMAIN map = DOMAIN Registered(new, cs) \cup DOMAIN remapped
  BY <1>2, UpdatedDomain
<1>5. DOMAIN column_map \subseteq DOMAIN map /\ \A i \in DOMAIN new : new[i] \in DOMAIN map
  BY <1>3, <1>4
<1>6. Len(new) \in Nat /\ DOMAIN new = 1..Len(new)
  OBVIOUS
<1>7. means \in Seq(Columns) /\ Len(means) = Len(new)
  <2>1. ASSUME NEW i \in 1..Len(new) PROVE means[i] \in Columns
    <3>1. means[i] = IF i \in {j \in DOMAIN groups : groups[j] # 0} THEN Top.means[groups[i]] ELSE <<serial, i>>
      BY <1>6
    <3>2. CASE i \in {j \in DOMAIN groups : groups[j] # 0}
      <4>1. i \in DOMAIN groups /\ groups[i] # 0
        BY <3>2
      <4>. QED  BY <1>1, <3>1, <3>2, <4>1, GroupsNamed
    <3>3. CASE ~(i \in {j \in DOMAIN groups : groups[j] # 0})
      <4>1. <<serial, i>> \in Columns
        BY <1>1, <1>6 DEF Columns
      <4>. QED  BY <3>1, <3>3, <4>1
    <3>. QED  BY <3>2, <3>3
  <2>2. means \in [1..Len(new) -> Columns]
    BY <1>6, <2>1
  <2>. QED  BY <1>6, <2>2, FunctionIsSequence
<1>8. InRow(new, means, DOMAIN map)
  BY <1>5, <1>6, <1>7 DEF InRow
<1>9. Covered(n, DOMAIN column_map)
  BY <1>1, <1>2, AskedSame
<1>10. PICK node : node = Node("Aggregate", <<n>>, new, means, cols, shows)
  OBVIOUS
<1>11. Covered(node, DOMAIN map)
  BY <1>1, <1>8, <1>9, <1>10, NodeInRow, FirstKid
<1>12. \A x \in stale : x[1] \in DOMAIN map
  BY <1>5
<1>13. PICK last : last = [node EXCEPT !.stale = stale]
  OBVIOUS
<1>14. /\ DOMAIN last = NodeFields /\ last.bindings = node.bindings /\ last.means = node.means
       /\ last.from = node.from /\ last.stale = stale /\ last.extra = node.extra
  BY <1>11, <1>13 DEF Covered, NodeFields
<1>15. Covered(last, DOMAIN map)
  BY <1>11, <1>12, <1>14 DEF Covered
<1>16. Keys(Reachable(Top, use)) \subseteq DOMAIN column_map
  BY <1>1, UseNamed
<1>17. Build(1, Keys(Reachable(Top, use)), last, map, seen)
  BY <1>2, <1>10, <1>13
<1>. QED  BY <1>1, <1>5, <1>15, <1>16, <1>17, BuildGrows

\* A statement that is refused for another reason.
LEMMA RefusedKeeps ==
    ASSUME BuilderInv, index' \in Int, serial' \in Int, menu' = menu, work' = work, column_map' = column_map,
           status' # "no binding"
    PROVE  BuilderInv'
<1>1. /\ menu \in BuilderMenus /\ IsStack(work) /\ WorkIn(work, DOMAIN column_map) /\ ScopesCover(work)
  BY DEF BuilderInv
<1>2. /\ menu' \in BuilderMenus /\ IsStack(work') /\ WorkIn(work', DOMAIN column_map') /\ ScopesCover(work')
  BY <1>1
<1>. QED  BY <1>2, Zenon DEF BuilderInv

LEMMA NewGroups ==
    ASSUME index \in Int, NEW p \in Nat, NEW q \in Nat, NEW r \in Nat
    PROVE  Bound(index, p) \o Bound(index + 1, q) \o Bound(index + 2, r) \in Seq(Bindings)
<1>1. /\ Bound(index, p) \in Seq(Bindings) /\ Bound(index + 1, q) \in Seq(Bindings)
      /\ Bound(index + 2, r) \in Seq(Bindings)
  BY BoundTyped
<1>2. Bound(index, p) \o Bound(index + 1, q) \in Seq(Bindings)
  BY <1>1, Concatenation
<1>. QED  BY <1>1, <1>2, Concatenation

LEMMA AggregateKeeps ==
    ASSUME BuilderInv, NEW use \in Uses(Top), NEW groups \in Strings(Positions(Top) \cup {0}, 0, menu.width),
           NEW aggs \in Strings(Aliases, 0, 1), NEW groupings \in 0..1, NEW many \in BOOLEAN,
           Aggregate(groups, aggs, groupings, many, use)
    PROVE  BuilderInv'
<1>1. groups \in Seq(Positions(Top) \cup {0}) /\ Len(groups) \in Nat
  <2>1. menu.width \in Nat
    BY MenusAssumption DEF BuilderInv
  <2>. QED  BY <2>1, StringsTyped
<1>2. Len(aggs) \in Nat /\ groupings \in Nat
  BY StringsTyped
<1>3. Asks("Aggregate", 3, use)
  BY Zenon DEF Aggregate
<1>4. Covered(Top, DOMAIN column_map) /\ index \in Int /\ index' \in Int
  BY <1>3, AsksFacts
<1>. DEFINE n == Asked(Top, use)
            keys == {i \in DOMAIN groups : groups[i] # 0}
            new == Bound(index, Len(groups)) \o Bound(index + 1, Len(aggs)) \o Bound(index + 2, groupings)
            means == [i \in DOMAIN new |-> IF i \in keys THEN n.means[groups[i]] ELSE <<serial, i>>]
            latest == {i \in keys : \A j \in keys : n.bindings[groups[j]] = n.bindings[groups[i]] => j <= i}
            stale == {<<n.bindings[groups[i]], n.means[groups[i]], new[i]>> : i \in latest}
<1>5. n.means = Top.means /\ n.bindings = Top.bindings
  BY <1>4, AskedSame
<1>6. new \in Seq(Bindings)
  BY <1>1, <1>2, <1>4, NewGroups
<1>7. \A x \in stale : x[1] \in DOMAIN column_map
  <2>. HIDE DEF n
  <2>1. \A i \in keys : n.bindings[groups[i]] \in DOMAIN column_map
    BY <1>1, <1>4, <1>5, GroupsNamed
  <2>. QED  BY <2>1
<1>8. CASE \E cs, cols, shows, remapped, seen :
             Build(1, Keys(Reachable(Top, use)),
                   [Node("Aggregate", <<n>>, new, means, cols, shows) EXCEPT !.stale = stale],
                   Updated(Registered(new, cs), remapped), seen)
  <2>1. PICK cs, cols, shows, remapped, seen :
             Build(1, Keys(Reachable(Top, use)),
                   [Node("Aggregate", <<n>>, new, means, cols, shows) EXCEPT !.stale = stale],
                   Updated(Registered(new, cs), remapped), seen)
    BY <1>8
  <2>2. PICK b : b = new
    OBVIOUS
  <2>3. PICK f : f = means
    OBVIOUS
  <2>4. PICK old : old = stale
    OBVIOUS
  <2>5. f = [i \in DOMAIN b |-> IF i \in {j \in DOMAIN groups : groups[j] # 0} THEN Top.means[groups[i]]
                                ELSE <<serial, i>>]
    BY <1>5, <2>2, <2>3
  <2>. HIDE DEF new, means, stale
  <2>6. Build(1, Keys(Reachable(Top, use)),
              [Node("Aggregate", <<Asked(Top, use)>>, b, f, cols, shows) EXCEPT !.stale = old],
              Updated(Registered(b, cs), remapped), seen)
    BY <2>1, <2>2, <2>3, <2>4
  <2>7. b \in Seq(Bindings) /\ \A x \in old : x[1] \in DOMAIN column_map
    BY <1>6, <1>7, <2>2, <2>4
  <2>. QED  BY <1>1, <1>3, <2>5, <2>6, <2>7, AggregatedKeeps
<1>9. CASE /\ status' = "duplicate key" /\ serial' = serial + 1
           /\ menu' = menu /\ work' = work /\ column_map' = column_map
  <2>1. serial \in Int
    BY DEF BuilderInv
  <2>2. serial' = serial + 1
    BY <1>9, Zenon
  <2>3. serial + 1 \in Int
    BY <2>1
  <2>4. serial' \in Int
    BY <2>2, <2>3, Zenon
  <2>. QED  BY <1>4, <1>9, <2>4, RefusedKeeps
<1>10. \/ \E cs, cols, shows, remapped, seen :
             Build(1, Keys(Reachable(Top, use)),
                   [Node("Aggregate", <<n>>, new, means, cols, shows) EXCEPT !.stale = stale],
                   Updated(Registered(new, cs), remapped), seen)
       \/ /\ status' = "duplicate key" /\ serial' = serial + 1
          /\ menu' = menu /\ work' = work /\ column_map' = column_map
  BY Zenon DEF Aggregate
<1>. QED  BY <1>8, <1>9, <1>10
-----------------------------------------------------------------------------
(* Operators over two subtrees.                                            *)

LEMMA BinaryFacts ==
    ASSUME BuilderInv, NEW kind, NEW width \in Int, Binary(kind, width)
    PROVE  /\ status = "build" /\ index' \in Int /\ index \in Int /\ serial \in Int /\ 2 \in 0..Len(work)
           /\ Len(work) \in 1..Len(work) /\ NodeOf(work[Len(work)]) = Top
           /\ Len(work) - 1 \in 1..Len(work) /\ NodeOf(work[Len(work) - 1]) = Below
           /\ Covered(Top, DOMAIN column_map) /\ Covered(Below, DOMAIN column_map)
<1>1. Starts(kind, width) /\ Finished(2)
  BY DEF Binary
<1>2. index \in Int /\ serial \in Int
  BY DEF BuilderInv
<1>3. Finished(1) /\ 2 \in 0..Len(work) /\ Len(work) - 1 \in 1..Len(work)
      /\ NodeOf(work[Len(work) - 1]) = Below /\ Covered(Below, DOMAIN column_map)
  BY <1>1, BelowFacts
<1>4. status = "build" /\ index' \in Int
  BY <1>1, StartsFacts
<1>5. /\ Len(work) \in 1..Len(work) /\ NodeOf(work[Len(work)]) = Top /\ Covered(Top, DOMAIN column_map)
  BY <1>3, TopFacts
<1>. QED  BY <1>2, <1>3, <1>4, <1>5

\* The columns of two subtrees, in one row.
LEMMA BothInRow ==
    ASSUME NEW l, NEW r, NEW D, Covered(l, D), Covered(r, D)
    PROVE  /\ InRow(l.bindings \o r.bindings, l.means \o r.means, D)
           /\ Len(l.bindings) \in Nat /\ Len(r.bindings) \in Nat
           /\ Len(l.bindings \o r.bindings) = Len(l.bindings) + Len(r.bindings)
<1>1. InRow(l.bindings, l.means, D) /\ InRow(r.bindings, r.means, D)
  BY RowOf
<1>2. l.bindings \in Seq(Bindings) /\ r.bindings \in Seq(Bindings)
  BY DEF Covered
<1>3. Len(l.bindings \o r.bindings) = Len(l.bindings) + Len(r.bindings)
  BY <1>2, Concatenation
<1>. QED  BY <1>1, <1>2, <1>3, RowsTogether

LEMMA SecondPart ==
    ASSUME NEW S, NEW s \in Seq(S), NEW t \in Seq(S), NEW k \in 1..Len(s \o t), k \notin 1..Len(s)
    PROVE  k - Len(s) \in 1..Len(t) /\ (s \o t)[k] = t[k - Len(s)]
<1>1. Len(s) \in Nat /\ Len(t) \in Nat /\ Len(s \o t) = Len(s) + Len(t)
  OBVIOUS
<1>2. k - Len(s) \in 1..Len(t)
  BY <1>1
<1>. QED  BY <1>1, <1>2

LEMMA BothNamed ==
    ASSUME BuilderInv, NEW i \in 1..Len(work), NEW l, l = NodeOf(work[i]),
           NEW j \in 1..Len(work), NEW r, r = NodeOf(work[j]),
           Covered(l, DOMAIN column_map), Covered(r, DOMAIN column_map)
    PROVE  HasDummy(work) \/ \A k \in 1..Len(l.bindings \o r.bindings) : (l.bindings \o r.bindings)[k] \in DOMAIN column_map
<1>1. l.bindings \in Seq(Bindings) /\ r.bindings \in Seq(Bindings)
  BY DEF Covered
<1>2. ASSUME ~HasDummy(work), NEW k \in 1..Len(l.bindings \o r.bindings)
      PROVE  (l.bindings \o r.bindings)[k] \in DOMAIN column_map
  <2>1. CASE k \in 1..Len(l.bindings)
    <3>1. (l.bindings \o r.bindings)[k] = l.bindings[k]
      BY <1>1, <2>1
    <3>2. l.bindings[k] \in DOMAIN column_map
      BY <1>2, <2>1, NamedOrDummy
    <3>. QED  BY <3>1, <3>2
  <2>2. CASE k \notin 1..Len(l.bindings)
    <3>1. k - Len(l.bindings) \in 1..Len(r.bindings)
          /\ (l.bindings \o r.bindings)[k] = r.bindings[k - Len(l.bindings)]
      <4>1. PICK s \in Seq(Bindings), t \in Seq(Bindings) : s = l.bindings /\ t = r.bindings
        BY <1>1
      <4>2. k \in 1..Len(s \o t) /\ k \notin 1..Len(s)
        BY <2>2, <4>1
      <4>3. k - Len(s) \in 1..Len(t) /\ (s \o t)[k] = t[k - Len(s)]
        BY <4>2, SecondPart
      <4>. QED  BY <4>1, <4>3
    <3>2. r.bindings[k - Len(l.bindings)] \in DOMAIN column_map
      BY <1>2, <3>1, NamedOrDummy
    <3>. QED  BY <3>1, <3>2
  <2>. QED  BY <2>1, <2>2
<1>. QED  BY <1>2

LEMMA PickInRow ==
    ASSUME NEW b, NEW m, NEW D, InRow(b, m, D), NEW at \in Seq(1..Len(b))
    PROVE  InRow(Pick(b, at), Pick(m, at), D)
<1>1. /\ b \in Seq(Bindings) /\ m \in Seq(Columns) /\ at \in Seq(1..Len(m)) /\ Len(m) = Len(b)
  BY DEF InRow
<1>2. /\ Pick(b, at) \in Seq(Bindings) /\ Len(Pick(b, at)) = Len(at)
      /\ \A k \in 1..Len(at) : at[k] \in 1..Len(m) /\ Pick(b, at)[k] = b[at[k]]
  BY <1>1, PickTyped
<1>3. /\ Pick(m, at) \in Seq(Columns) /\ Len(Pick(m, at)) = Len(at)
      /\ \A k \in 1..Len(at) : Pick(m, at)[k] = m[at[k]]
  BY <1>1, PickTyped
<1>4. \A i \in 1..Len(m) : m[i] # None => b[i] \in D
  BY DEF InRow
<1>. QED  BY <1>2, <1>3, <1>4 DEF InRow

LEMMA Wider ==
    ASSUME NEW p \in Nat, NEW q \in Nat, NEW s \in Seq(1..p)
    PROVE  s \in Seq(1..(p + q))
<1>1. 1..p \subseteq 1..(p + q)
  OBVIOUS
<1>2. PICK S, T : S = 1..p /\ T = 1..(p + q)
  OBVIOUS
<1>3. s \in Seq(S) /\ S \subseteq T
  BY <1>1, <1>2
<1>4. s \in Seq(T)
  BY <1>3
<1>. QED  BY <1>2, <1>4

LEMMA KeptTyped ==
    ASSUME NEW l, NEW r, Len(l.bindings) \in Nat, Len(r.bindings) \in Nat, NEW type,
           NEW left \in Seq(1..Len(l.bindings)), NEW right \in Seq(1..Len(r.bindings))
    PROVE  Kept(type, l, r, left, right) \in Seq(1..(Len(l.bindings) + Len(r.bindings)))
<1>1. PICK p \in Nat, q \in Nat : p = Len(l.bindings) /\ q = Len(r.bindings)
  OBVIOUS
<1>2. left \in Seq(1..(p + q))
  BY <1>1, Wider
<1>3. PICK shifted : shifted = [i \in DOMAIN right |-> Len(l.bindings) + right[i]]
  OBVIOUS
<1>4. shifted \in Seq(1..(p + q))
  <2>1. PICK n \in Nat : n = Len(right) /\ DOMAIN right = 1..n
    OBVIOUS
  <2>2. \A i \in 1..n : right[i] \in 1..q
    BY <1>1, <2>1
  <2>3. \A i \in 1..n : p + right[i] \in 1..(p + q)
    BY <2>2
  <2>4. shifted \in [1..n -> 1..(p + q)]
    BY <1>1, <1>3, <2>1, <2>3
  <2>. QED  BY <2>1, <2>4, FunctionIsSequence
<1>5. left \o shifted \in Seq(1..(p + q))
  BY <1>2, <1>4, Concatenation
<1>6. Kept(type, l, r, left, right) \in {shifted, left, left \o shifted}
  BY <1>3 DEF Kept
<1>. QED  BY <1>1, <1>2, <1>4, <1>5, <1>6

LEMMA WithMarkNamed ==
    ASSUME index \in Int, NEW type
    PROVE  /\ DOMAIN column_map \subseteq DOMAIN WithMark(type)
           /\ type = "MARK" => <<index, 1>> \in DOMAIN WithMark(type)
<1>1. CASE type = "MARK"
  <2>1. PICK cs : cs = <<Mark>>
    OBVIOUS
  <2>2. DOMAIN column_map \subseteq DOMAIN Registered(Bound(index, 1), cs)
        /\ <<index, 1>> \in DOMAIN Registered(Bound(index, 1), cs)
    BY NewNamed
  <2>3. WithMark(type) = Registered(Bound(index, 1), cs)
    BY <1>1, <2>1 DEF WithMark
  <2>. QED  BY <2>2, <2>3
<1>2. CASE type # "MARK"
  BY <1>2 DEF WithMark
<1>. QED  BY <1>1, <1>2

LEMMA JoinedCovered ==
    ASSUME index \in Int, serial \in Int, NEW l, NEW r,
           Covered(l, DOMAIN column_map), Covered(r, DOMAIN column_map),
           NEW type, NEW left, NEW right, NEW kept \in Seq(1..(Len(l.bindings) + Len(r.bindings)))
    PROVE  Covered(Joined(type, l, r, left, right, kept), DOMAIN WithMark(type))
<1>. DEFINE bindings == l.bindings \o r.bindings
            means == l.means \o r.means
            cols == l.cols \o r.cols
            shows == l.shows \o r.shows
            mark == IF type = "MARK" THEN <<Mark>> ELSE << >>
            pruned == {i \in DOMAIN bindings : means[i] # None /\ ~\E k \in DOMAIN kept : kept[k] = i}
            asked == {<<bindings[i], means[i], Denotes(FindColumnBinding(bindings[i]), cols, shows)>> : i \in pruned}
<1>1. PICK other, seen, extra :
        /\ extra = IF type \in LeftOnly \cup RightOnly \cup {"MARK"} THEN {} ELSE asked
        /\ Joined(type, l, r, left, right, kept) =
             [Node("Join", <<l, r>>, Pick(bindings, kept) \o Bound(index, Len(mark)),
                   Pick(means, kept) \o Fresh(Len(mark)), other, seen)
                EXCEPT !.extra = extra]
  BY Zenon DEF Joined
<1>2. InRow(bindings, means, DOMAIN column_map) /\ kept \in Seq(1..Len(bindings))
  BY BothInRow
<1>3. DOMAIN column_map \subseteq DOMAIN WithMark(type)
  BY WithMarkNamed
<1>4. InRow(Pick(bindings, kept), Pick(means, kept), DOMAIN WithMark(type))
  BY <1>2, <1>3, PickInRow, RowGrows
<1>6. Len(mark) = IF type = "MARK" THEN 1 ELSE 0
  OBVIOUS
<1>7. PICK n \in Nat : n = Len(mark) /\ (n = 0 \/ (n = 1 /\ type = "MARK"))
  BY <1>6
<1>8. \A i \in 1..n : <<index, i>> \in DOMAIN WithMark(type)
  <2>1. \A i \in 1..n : i = 1 /\ type = "MARK"
    BY <1>7
  <2>. QED  BY <2>1, WithMarkNamed
<1>9. InRow(Pick(bindings, kept) \o Bound(index, n), Pick(means, kept) \o Fresh(n), DOMAIN WithMark(type))
  BY <1>4, <1>8, RowOfNew, RowsTogether
<1>10. \A x \in asked : x[1] \in DOMAIN WithMark(type)
  <2>1. DOMAIN bindings = 1..Len(means)
    BY <1>2 DEF InRow
  <2>2. \A i \in pruned : bindings[i] \in DOMAIN WithMark(type)
    BY <1>2, <1>3, <2>1 DEF InRow
  <2>3. ASSUME NEW x \in asked PROVE x[1] \in DOMAIN WithMark(type)
    <3>1. PICK i \in pruned : x = <<bindings[i], means[i], Denotes(FindColumnBinding(bindings[i]), cols, shows)>>
      OBVIOUS
    <3>2. x[1] = bindings[i]
      BY <3>1
    <3>. QED  BY <2>2, <3>2
  <2>. QED  BY <2>3, Zenon
<1>. HIDE DEF asked, bindings, means, mark
<1>11. extra = {} \/ extra = asked
  BY <1>1
<1>12. PICK node : node = Node("Join", <<l, r>>, Pick(bindings, kept) \o Bound(index, n), Pick(means, kept) \o Fresh(n), other, seen)
  OBVIOUS
<1>13. Covered(node, DOMAIN WithMark(type))
  <2>1. <<l, r>>[1].from \in Int
    BY FirstKid
  <2>. QED  BY <1>9, <1>12, <2>1, NodeInRow
<1>14. PICK last : last = [node EXCEPT !.extra = extra]
  OBVIOUS
<1>15. /\ DOMAIN last = NodeFields /\ last.bindings = node.bindings /\ last.means = node.means
       /\ last.from = node.from /\ last.stale = node.stale /\ last.extra = extra
  BY <1>13, <1>14 DEF Covered, NodeFields
<1>16. \A x \in extra : x[1] \in DOMAIN WithMark(type)
  BY <1>10, <1>11
<1>17. Covered(last, DOMAIN WithMark(type))
  BY <1>13, <1>15, <1>16 DEF Covered
<1>. QED  BY <1>1, <1>7, <1>12, <1>14, <1>17

LEMMA BothRefsNamed ==
    ASSUME NEW l, NEW r, NEW D, Covered(l, D), Covered(r, D)
    PROVE  \A type : Keys(Referred(type, l, r)) \subseteq D
<1>1. Keys(Refs(l) \cup l.stale) \subseteq D /\ Keys(Refs(r) \cup r.stale) \subseteq D
  BY StaleNamed
<1>. QED  BY <1>1 DEF Keys, Referred

LEMMA JoinKeeps ==
    ASSUME BuilderInv, NEW type, NEW left \in Maps(Below), NEW right \in Maps(Top), Join(type, left, right)
    PROVE  BuilderInv'
<1>1. PICK l, r, kept : l = Below /\ r = Top /\ kept = Kept(type, l, r, left, right)
  OBVIOUS
<1>2. PICK needed, seen :
        /\ needed = Keys(Referred(type, l, r)) \cup ToSet(Pick(l.bindings \o r.bindings, kept))
        /\ Binary("Join", 1)
        /\ Build(2, needed, Joined(type, l, r, left, right, kept), WithMark(type), seen)
  BY <1>1 DEF Join
<1>3. /\ status = "build" /\ index' \in Int /\ index \in Int /\ serial \in Int /\ 2 \in 0..Len(work)
      /\ Len(work) \in 1..Len(work) /\ NodeOf(work[Len(work)]) = r
      /\ Len(work) - 1 \in 1..Len(work) /\ NodeOf(work[Len(work) - 1]) = l
      /\ Covered(r, DOMAIN column_map) /\ Covered(l, DOMAIN column_map)
  BY <1>1, <1>2, BinaryFacts
<1>4. left \in Seq(1..Len(l.bindings)) /\ right \in Seq(1..Len(r.bindings))
  BY <1>1, <1>3, PositionsTyped
<1>5. /\ InRow(l.bindings \o r.bindings, l.means \o r.means, DOMAIN column_map)
      /\ Len(l.bindings) \in Nat /\ Len(r.bindings) \in Nat
      /\ Len(l.bindings \o r.bindings) = Len(l.bindings) + Len(r.bindings)
  BY <1>3, BothInRow
<1>6. kept \in Seq(1..(Len(l.bindings) + Len(r.bindings)))
  BY <1>1, <1>4, <1>5, KeptTyped
<1>7. Covered(Joined(type, l, r, left, right, kept), DOMAIN WithMark(type))
  BY <1>3, <1>6, JoinedCovered
<1>8. HasDummy(work) \/ \A k \in 1..Len(l.bindings \o r.bindings) : (l.bindings \o r.bindings)[k] \in DOMAIN column_map
  BY <1>3, BothNamed
<1>9. HasDummy(work) \/ ToSet(Pick(l.bindings \o r.bindings, kept)) \subseteq DOMAIN column_map
  <2>1. PICK both : both = l.bindings \o r.bindings
    OBVIOUS
  <2>2. both \in Seq(Bindings) /\ kept \in Seq(1..Len(both))
    BY <1>5, <1>6, <2>1 DEF InRow
  <2>3. /\ Pick(both, kept) \in Seq(Bindings) /\ Len(Pick(both, kept)) = Len(kept)
        /\ \A k \in 1..Len(kept) : kept[k] \in 1..Len(both) /\ Pick(both, kept)[k] = both[kept[k]]
    BY <2>2, PickTyped
  <2>4. DOMAIN Pick(both, kept) = 1..Len(kept)
    BY <2>3
  <2>5. CASE \A k \in 1..Len(both) : both[k] \in DOMAIN column_map
    BY <2>1, <2>3, <2>4, <2>5 DEF ToSet
  <2>. QED  BY <1>8, <2>1, <2>5
<1>10. Keys(Referred(type, l, r)) \subseteq DOMAIN column_map
  BY <1>3, BothRefsNamed
<1>11. needed \subseteq DOMAIN column_map \/ HasDummy(work)
  BY <1>2, <1>9, <1>10
<1>12. DOMAIN column_map \subseteq DOMAIN WithMark(type)
  BY <1>3, WithMarkNamed
<1>. QED  BY <1>2, <1>3, <1>7, <1>11, <1>12, BuildGrows

LEMMA ProductKeeps ==
    ASSUME BuilderInv, (\E product \in {"CrossProduct", "CrossNothing"} : CrossProduct(product)) \/ PositionalJoin
    PROVE  BuilderInv'
<1>1. PICK l, r : l = Below /\ r = Top
  OBVIOUS
<1>2. PICK node, needed, kind, of, cols, shows :
        /\ node = Node(kind, <<l, r>>, l.bindings \o r.bindings, l.means \o r.means, cols, shows)
        /\ needed = {} \/ needed = ToSet(l.bindings \o r.bindings)
        /\ Binary(of, 0)
        /\ Build(2, needed, node, column_map, {})
  <2>1. CASE \E product \in {"CrossProduct", "CrossNothing"} : CrossProduct(product)
    BY <1>1, <2>1 DEF CrossProduct
  <2>2. CASE PositionalJoin
    BY <1>1, <2>2 DEF PositionalJoin
  <2>. QED  BY <2>1, <2>2
<1>3. /\ status = "build" /\ index' \in Int /\ index \in Int /\ 2 \in 0..Len(work)
      /\ Len(work) \in 1..Len(work) /\ NodeOf(work[Len(work)]) = r
      /\ Len(work) - 1 \in 1..Len(work) /\ NodeOf(work[Len(work) - 1]) = l
      /\ Covered(r, DOMAIN column_map) /\ Covered(l, DOMAIN column_map)
  BY <1>1, <1>2, BinaryFacts
<1>4. InRow(l.bindings \o r.bindings, l.means \o r.means, DOMAIN column_map)
  BY <1>3, BothInRow
<1>5. Covered(node, DOMAIN column_map)
  <2>1. <<l, r>>[1].from \in Int
    BY <1>3, FirstKid
  <2>. QED  BY <1>2, <1>3, <1>4, <2>1, NodeInRow
<1>6. HasDummy(work) \/ \A k \in 1..Len(l.bindings \o r.bindings) : (l.bindings \o r.bindings)[k] \in DOMAIN column_map
  BY <1>3, BothNamed
<1>7. needed \subseteq DOMAIN column_map \/ HasDummy(work)
  <2>1. PICK both : both = l.bindings \o r.bindings
    OBVIOUS
  <2>2. DOMAIN both = 1..Len(both)
    BY <1>4, <2>1 DEF InRow
  <2>. QED  BY <1>2, <1>6, <2>1, <2>2 DEF ToSet
<1>. QED  BY <1>2, <1>3, <1>5, <1>7, BuildGrows
-----------------------------------------------------------------------------
(* Operators that do something between their two subtrees.                 *)

\* The recursion of Among.
Keeps(kept, seq, T) ==
    kept = [k \in 0..Len(seq) |-> IF k = 0 THEN << >> ELSE IF seq[k] \in T THEN Append(kept[k - 1], seq[k]) ELSE kept[k - 1]]

LEMMA KeepsUnfolds ==
    ASSUME NEW kept, NEW seq, NEW T, Keeps(kept, seq, T), NEW k \in 0..Len(seq)
    PROVE  kept[k] = IF k = 0 THEN << >> ELSE IF seq[k] \in T THEN Append(kept[k - 1], seq[k]) ELSE kept[k - 1]
<1>. DEFINE e(j) == IF j = 0 THEN << >> ELSE IF seq[j] \in T THEN Append(kept[j - 1], seq[j]) ELSE kept[j - 1]
<1>1. kept = [j \in 0..Len(seq) |-> e(j)]
  BY DEF Keeps
<1>. HIDE DEF e
<1>2. kept[k] = e(k)
  BY <1>1
<1>. QED  BY <1>2 DEF e

LEMMA KeepsExists ==
    ASSUME NEW S, NEW seq \in Seq(S), NEW T
    PROVE  \E kept : Keeps(kept, seq, T)
<1>0. PICK n \in Nat : n = Len(seq)
  OBVIOUS
<1>1. PICK Q : Q = Seq(S)
  OBVIOUS
<1>2. PICK step : step = [k \in 1..n |-> [s \in Q |-> IF seq[k] \in T THEN Append(s, seq[k]) ELSE s]]
  OBVIOUS
<1>3. \A k \in 1..n, s \in Q : (IF seq[k] \in T THEN Append(s, seq[k]) ELSE s) \in Q
  BY <1>0, <1>1
<1>4. step \in [1..n -> [Q -> Q]] /\ << >> \in Q
  <2>1. \A k \in 1..n : [s \in Q |-> IF seq[k] \in T THEN Append(s, seq[k]) ELSE s] \in [Q -> Q]
    BY <1>3
  <2>. QED  BY <1>0, <1>1, <1>2, <2>1
<1>5. PICK f \in [0..n -> Q] : f[0] = << >> /\ \A k \in 1..n : f[k] = step[k][f[k - 1]]
  BY <1>4, Recursion
<1>6. ASSUME NEW k \in 1..n
      PROVE  f[k] = IF seq[k] \in T THEN Append(f[k - 1], seq[k]) ELSE f[k - 1]
  <2>1. f[k - 1] \in Q
    BY <1>5
  <2>2. f[k] = step[k][f[k - 1]]
    BY <1>5
  <2>3. step[k] = [s \in Q |-> IF seq[k] \in T THEN Append(s, seq[k]) ELSE s]
    BY <1>2
  <2>. QED  BY <2>1, <2>2, <2>3
<1>7. Keeps(f, seq, T)
  <2>1. \A k \in 0..n : k # 0 => k \in 1..n
    OBVIOUS
  <2>2. \A k \in 0..n : f[k] = IF k = 0 THEN << >> ELSE IF seq[k] \in T THEN Append(f[k - 1], seq[k]) ELSE f[k - 1]
    BY <1>5, <1>6, <2>1
  <2>. QED  BY <1>0, <1>1, <1>5, <2>2 DEF Keeps
<1>. QED  BY <1>7

\* What Among returns is a sequence over the same set.
LEMMA AmongTyped ==
    ASSUME NEW S, NEW seq \in Seq(S), NEW T
    PROVE  Among(seq, T) \in Seq(S)
<1>. DEFINE kept == CHOOSE f : Keeps(f, seq, T)
<1>1. Among(seq, T) = kept[Len(seq)]
  BY DEF Among, Keeps
<1>2. Keeps(kept, seq, T)
  BY KeepsExists
<1>. HIDE DEF kept
<1>. DEFINE U == {k \in Nat : k <= Len(seq) => kept[k] \in Seq(S)}
<1>3. Len(seq) \in Nat
  OBVIOUS
<1>4. 0 \in U
  <2>1. 0 \in 0..Len(seq)
    BY <1>3
  <2>2. kept[0] = << >>
    BY <1>2, <2>1, KeepsUnfolds
  <2>3. kept[0] \in Seq(S)
    BY <2>2
  <2>. QED  BY <2>3
<1>5. ASSUME NEW k \in Nat, k \in U PROVE k + 1 \in U
  <2>1. SUFFICES ASSUME k + 1 <= Len(seq) PROVE kept[k + 1] \in Seq(S)
    OBVIOUS
  <2>2. k + 1 \in 0..Len(seq) /\ k + 1 # 0 /\ k + 1 \in 1..Len(seq) /\ k + 1 - 1 = k
    BY <1>3, <2>1
  <2>3. kept[k + 1] = IF k + 1 = 0 THEN << >> ELSE IF seq[k + 1] \in T THEN Append(kept[k + 1 - 1], seq[k + 1]) ELSE kept[k + 1 - 1]
    BY <1>2, <2>2, KeepsUnfolds
  <2>4. kept[k] \in Seq(S) /\ seq[k + 1] \in S
    BY <1>5, <2>1, <2>2
  <2>5. Append(kept[k], seq[k + 1]) \in Seq(S)
    BY <2>4
  <2>6. kept[k + 1] = IF seq[k + 1] \in T THEN Append(kept[k], seq[k + 1]) ELSE kept[k]
    BY <2>2, <2>3
  <2>. QED  BY <2>4, <2>5, <2>6
<1>. HIDE DEF U
<1>6. Nat \subseteq U
  BY <1>4, <1>5, InductionOnNat
<1>. QED  BY <1>1, <1>3, <1>6 DEF U

LEMMA FrameFacts ==
    ASSUME NEW kind, NEW node, NEW at, NEW keys, NEW promised, NEW f, f = Frame(kind, node, at, keys, promised)
    PROVE  /\ DOMAIN f = FrameFields /\ IsFrame(f) /\ NodeOf(f) = node
           /\ f.kind = kind /\ f.node = node /\ f.at = at /\ f.keys = keys /\ f.promised = promised
           /\ f.scope = column_map /\ f.next = index
<1>1. f = [kind |-> kind, node |-> node, at |-> at, keys |-> keys, promised |-> promised,
           scope |-> column_map, next |-> index]
  BY DEF Frame
<1>2. DOMAIN f = FrameFields
  BY <1>1 DEF FrameFields
<1>3. IsFrame(f)
  BY <1>2 DEF IsFrame, FrameFields
<1>. QED  BY <1>1, <1>2, <1>3 DEF NodeOf

LEMMA ItemsGrow ==
    ASSUME NEW w, NEW n, NEW D, ItemsIn(w, n, D), NEW E, D \subseteq E
    PROVE  ItemsIn(w, n, E)
  BY ItemGrows DEF ItemsIn

\* An operator is entered: the names of what is below it are those it will find when it is left.
LEMMA OpensKeeps ==
    ASSUME BuilderInv, status = "build", Finished(1), index' \in Int,
           NEW kind, NEW at \in Int, NEW keys, Len(keys) \in Nat, NEW promised, promised \subseteq Int,
           NEW frame, frame = Frame(kind, Top, at, keys, promised), NEW map,
           Opens(kind, frame, map), DOMAIN column_map \subseteq DOMAIN map, Handed(frame, DOMAIN map)
    PROVE  BuilderInv'
<1>1. /\ Len(work) \in Nat /\ 1 \in 0..Len(work) /\ Covered(Top, DOMAIN column_map)
  BY TopFacts
<1>2. /\ DOMAIN frame = FrameFields /\ IsFrame(frame) /\ NodeOf(frame) = Top
      /\ frame.at = at /\ frame.keys = keys /\ frame.promised = promised
      /\ frame.node = Top /\ frame.scope = column_map /\ frame.next = index
  BY FrameFacts
<1>3. index \in Int /\ serial \in Int
  BY DEF BuilderInv
<1>4. FrameTyped(frame)
  BY <1>2, <1>3 DEF FrameTyped
<1>5. Covered(Top, DOMAIN map)
  BY <1>1, CoveredGrows
<1>6. ItemIn(frame, DOMAIN map)
  BY <1>2, <1>4, <1>5 DEF ItemIn
<1>7. ItemsIn(work, Len(work) - 1, DOMAIN column_map)
  <2>1. \A i \in 1..(Len(work) - 1) : i \in 1..Len(work)
    BY <1>1
  <2>. QED  BY <2>1, ItemAt DEF ItemsIn
<1>8. ItemsIn(work, Len(work) - 1, DOMAIN map)
  BY <1>7, ItemsGrow
<1>9. Replaced(work', work, 1, frame)
  BY DEF Opens, Replaced, Front
<1>10. IsStack(work) /\ ScopesCover(work)
  BY DEF BuilderInv
<1>11. IsStack(work') /\ WorkIn(work', DOMAIN map) /\ ScopesCover(work')
  BY <1>1, <1>2, <1>6, <1>7, <1>8, <1>9, <1>10, StackedIn
<1>12. column_map' = map /\ serial' = serial + 1 /\ menu' = menu /\ status' = status
  BY DEF Opens
<1>13. serial' \in Int /\ menu' \in BuilderMenus
  BY <1>3, <1>12 DEF BuilderInv
<1>14. status' # "no binding"
  BY <1>12
<1>. QED  BY <1>11, <1>12, <1>13, <1>14 DEF BuilderInv

\* Only a delim join and a recursive CTE hand anything to their second subtree.
LEMMA NothingHanded ==
    ASSUME NEW kind, kind # "RecursiveCte", NEW node, NEW at, NEW f, f = Frame(kind, node, at, << >>, {}), NEW D
    PROVE  Handed(f, D)
<1>1. f.kind = kind /\ f.promised = {}
  BY FrameFacts
<1>. QED  BY <1>1 DEF Handed

LEMMA SetOpLeftKeeps ==
    ASSUME BuilderInv, NEW kind \in SetOps, NEW reuse \in BOOLEAN, SetOpLeft(kind, reuse)
    PROVE  BuilderInv'
<1>1. PICK frame, width :
        /\ frame = Frame(kind, Top, 0, << >>, {})
        /\ width = IF reuse THEN 0 - (index - Top.from) ELSE 0
        /\ Starts(kind, width) /\ Finished(1)
        /\ Opens(kind, frame, column_map)
  BY DEF SetOpLeft
<1>2. index \in Int /\ Top.from \in Int
  BY <1>1, TopFacts DEF BuilderInv, Covered
<1>3. width \in Int
  BY <1>1, <1>2
<1>4. status = "build" /\ index' \in Int
  BY <1>1, <1>3, StartsFacts
<1>5. kind # "RecursiveCte"
  BY DEF SetOps
<1>6. Handed(frame, DOMAIN column_map)
  BY <1>1, <1>5, NothingHanded
<1>7. Len(<< >>) \in Nat /\ 0 \in Int /\ {} \subseteq Int
  OBVIOUS
<1>. QED  BY <1>1, <1>4, <1>6, <1>7, OpensKeeps

LEMMA CteBodyKeeps ==
    ASSUME BuilderInv, CteBody
    PROVE  BuilderInv'
<1>1. PICK frame :
        /\ frame = Frame("MaterializedCte", Top, index, << >>, {})
        /\ Unary("MaterializedCte", 1)
        /\ Opens("MaterializedCte", frame, column_map)
  BY DEF CteBody
<1>2. status = "build" /\ index' \in Int /\ Finished(1) /\ index \in Int
  BY <1>1, UnaryFacts
<1>3. Handed(frame, DOMAIN column_map)
  BY <1>1, NothingHanded
<1>4. Len(<< >>) \in Nat /\ {} \subseteq Int
  OBVIOUS
<1>. QED  BY <1>1, <1>2, <1>3, <1>4, OpensKeeps

LEMMA RecursiveAnchorKeeps ==
    ASSUME BuilderInv, RecursiveAnchor
    PROVE  BuilderInv'
<1>1. PICK n : n = Len(Top.bindings)
  OBVIOUS
<1>2. PICK frame, cs, map :
        /\ frame = Frame("RecursiveCte", Top, index, << >>, {})
        /\ Unary("RecursiveCte", 1)
        /\ map = Registered(Bound(index, n), cs)
        /\ Opens("RecursiveCte", frame, map)
  BY <1>1 DEF RecursiveAnchor
<1>3. /\ status = "build" /\ index' \in Int /\ Finished(1) /\ index \in Int /\ Covered(Top, DOMAIN column_map)
  BY <1>2, UnaryFacts
<1>4. n \in Nat
  BY <1>1, <1>3 DEF Covered
<1>5. DOMAIN column_map \subseteq DOMAIN map /\ \A i \in 1..n : <<index, i>> \in DOMAIN map
  BY <1>2, <1>3, <1>4, NewNamed
<1>6. Handed(frame, DOMAIN map)
  <2>1. frame.promised = {} /\ frame.at = index /\ frame.node = Top
    BY <1>2, FrameFacts
  <2>. QED  BY <1>1, <1>5, <2>1 DEF Handed
<1>7. Len(<< >>) \in Nat /\ {} \subseteq Int
  OBVIOUS
<1>. QED  BY <1>2, <1>3, <1>5, <1>6, <1>7, OpensKeeps

LEMMA DelimOuterKeeps ==
    ASSUME BuilderInv, NEW at \in Strings(Positions(Top), 1, 2), NEW gets \in 1..2, DelimOuter(at, gets)
    PROVE  BuilderInv'
<1>1. Len(at) \in Nat /\ DOMAIN at = 1..Len(at)
  BY StringsTyped
<1>2. PICK n, keys, promised, frame, columns, map :
        /\ keys = [k \in DOMAIN at |-> <<n.bindings[at[k]], n.means[at[k]]>>]
        /\ promised = index..(index + gets - 1)
        /\ frame = Frame("DelimJoin", Top, index, keys, promised)
        /\ columns = [b \in promised \X (1..Len(at)) |-> DelimColumns(b[1], keys)[b[2]]]
        /\ map = Updated(column_map, columns)
        /\ Unary("DelimJoin", gets)
        /\ Opens("DelimJoin", frame, map)
  BY DEF DelimOuter
<1>3. gets \in Int
  OBVIOUS
<1>4. status = "build" /\ index' \in Int /\ Finished(1) /\ index \in Int
  BY <1>2, <1>3, UnaryFacts
<1>5. Len(keys) = Len(at) /\ promised \subseteq Int
  BY <1>1, <1>2, <1>4
<1>6. DOMAIN map = DOMAIN column_map \cup (promised \X (1..Len(at)))
  BY <1>2, UpdatedDomain
<1>7. Handed(frame, DOMAIN map)
  <2>1. frame.promised = promised /\ frame.keys = keys /\ frame.kind = "DelimJoin"
    BY <1>2, FrameFacts
  <2>. QED  BY <1>5, <1>6, <2>1 DEF Handed
<1>. QED  BY <1>1, <1>2, <1>4, <1>5, <1>6, <1>7, OpensKeeps

\* The second branch of a set operation is done: the names are those the first branch left.
LEMMA SetOpRightKeeps ==
    ASSUME BuilderInv, NEW kind, SetOpRight(kind)
    PROVE  BuilderInv'
<1>1. PICK f, l, r, n, at :
        /\ f = Below /\ l = f.node /\ r = Top /\ n = Len(l.bindings)
        /\ at = IF f.next > index THEN f.next ELSE index
  OBVIOUS
<1>2. PICK cs, map, cols, shows, seen :
        /\ map = Updated(f.scope, Entering(Bound(at, n), cs))
        /\ Closes(kind) /\ index' = at + 1
        /\ Build(2, {}, Node("SetOp", <<l, r>>, Bound(at, n), Fresh(n), cols, shows), map, seen)
  BY <1>1 DEF SetOpRight
<1>3. /\ status = "build" /\ 2 \in 0..Len(work) /\ FrameTyped(f) /\ Covered(l, DOMAIN column_map)
      /\ ItemsIn(work, Len(work) - 2, DOMAIN f.scope)
  BY <1>1, <1>2, ClosesFacts
<1>4. index \in Int /\ serial \in Int
  BY DEF BuilderInv
<1>5. at \in Int /\ n \in Nat
  BY <1>1, <1>3, <1>4 DEF FrameTyped, Covered
<1>6. PICK bindings : bindings = Bound(at, n)
  OBVIOUS
<1>7. DOMAIN bindings = 1..n /\ \A i \in 1..n : bindings[i] = <<at, i>>
  <2>1. bindings \in Seq(Bindings) /\ Len(bindings) = n /\ \A i \in 1..n : bindings[i] = <<at, i>>
    BY <1>5, <1>6, BoundTyped
  <2>. QED  BY <2>1
<1>8. DOMAIN map = DOMAIN f.scope \cup {bindings[i] : i \in DOMAIN bindings}
  <2>1. DOMAIN Entering(bindings, cs) = {bindings[i] : i \in DOMAIN bindings}
    BY EnteringDomain
  <2>2. DOMAIN map = DOMAIN f.scope \cup DOMAIN Entering(bindings, cs)
    BY <1>2, <1>6, UpdatedDomain
  <2>. QED  BY <2>1, <2>2
<1>9. \A i \in 1..n : <<at, i>> \in DOMAIN map
  BY <1>7, <1>8
<1>10. InRow(bindings, Fresh(n), DOMAIN map)
  BY <1>4, <1>5, <1>6, <1>9, RowOfNew
<1>11. Covered(Node("SetOp", <<l, r>>, bindings, Fresh(n), cols, shows), DOMAIN map)
  <2>1. <<l, r>>[1].from \in Int
    BY <1>3, FirstKid
  <2>. QED  BY <1>4, <1>10, <2>1, NodeInRow
<1>12. DOMAIN f.scope \subseteq DOMAIN map
  BY <1>8
<1>13. ItemsIn(work, Len(work) - 2, DOMAIN map)
  BY <1>3, <1>12, ItemsGrow
<1>14. index' \in Int
  BY <1>2, <1>5
<1>15. Build(2, {}, Node("SetOp", <<l, r>>, bindings, Fresh(n), cols, shows), map, seen)
  BY <1>2, <1>6
<1>. QED  BY <1>3, <1>11, <1>13, <1>14, <1>15, BuildKeeps

LEMMA CteQueryKeeps ==
    ASSUME BuilderInv, CteQuery
    PROVE  BuilderInv'
<1>1. PICK top, last :
        /\ top = Top /\ last = [top EXCEPT !.from = Below.node.from, !.delims = @ \cup Below.node.delims]
        /\ Closes("MaterializedCte") /\ index' = index
        /\ Build(2, {}, last, column_map, {})
  BY DEF CteQuery
<1>2. /\ status = "build" /\ Finished(1) /\ 2 \in 0..Len(work) /\ Covered(Below.node, DOMAIN column_map)
  BY <1>1, ClosesFacts
<1>3. Covered(top, DOMAIN column_map) /\ Below.node.from \in Int /\ index \in Int
  BY <1>1, <1>2, TopFacts DEF Covered, BuilderInv
<1>4. /\ DOMAIN last = NodeFields /\ last.bindings = top.bindings /\ last.means = top.means
      /\ last.from = Below.node.from /\ last.stale = top.stale /\ last.extra = top.extra
  BY <1>1, <1>3 DEF Covered, NodeFields
<1>5. Covered(last, DOMAIN column_map)
  BY <1>3, <1>4 DEF Covered
<1>6. index' \in Int
  BY <1>1, <1>3
<1>. QED  BY <1>1, <1>2, <1>5, <1>6, BuildGrows

\* The second part of a recursive CTE is done: its columns got their names before it.
LEMMA RecursiveStepKeeps ==
    ASSUME BuilderInv, RecursiveStep
    PROVE  BuilderInv'
<1>1. PICK f, r, n : f = Below /\ r = Top /\ n = Len(f.node.bindings)
  OBVIOUS
<1>2. PICK means, cols, shows, seen :
        /\ means = [i \in 1..n |-> Again(f.node.means[i])]
        /\ Closes("RecursiveCte") /\ index' = index
        /\ Build(2, {}, Node("RecursiveCte", <<f.node, r>>, Bound(f.at, n), means, cols, shows), column_map, seen)
  BY <1>1 DEF RecursiveStep
<1>3. /\ status = "build" /\ 2 \in 0..Len(work) /\ FrameTyped(f) /\ Covered(f.node, DOMAIN column_map)
      /\ Handed(f, DOMAIN column_map) /\ f.kind = "RecursiveCte"
  BY <1>1, <1>2, ClosesFacts
<1>4. index \in Int /\ serial \in Int
  BY DEF BuilderInv
<1>5. n \in Nat /\ means \in Seq(Columns) /\ Len(means) = n
  <2>1. PICK body : body = f.node
    OBVIOUS
  <2>2. means = [i \in 1..n |-> Again(body.means[i])]
    BY <1>2, <2>1
  <2>3. Covered(body, DOMAIN column_map) /\ n = Len(body.bindings)
    BY <1>1, <1>3, <2>1
  <2>. QED  BY <1>4, <2>2, <2>3, AgainEach
<1>6. f.at \in Int /\ \A i \in 1..n : <<f.at, i>> \in DOMAIN column_map
  BY <1>1, <1>3 DEF FrameTyped, Handed
<1>7. PICK bindings : bindings = Bound(f.at, n)
  OBVIOUS
<1>8. bindings \in Seq(Bindings) /\ Len(bindings) = n /\ \A i \in 1..n : bindings[i] = <<f.at, i>>
  BY <1>5, <1>6, <1>7, BoundTyped
<1>9. InRow(bindings, means, DOMAIN column_map)
  BY <1>5, <1>6, <1>8 DEF InRow
<1>10. Covered(Node("RecursiveCte", <<f.node, r>>, bindings, means, cols, shows), DOMAIN column_map)
  <2>1. <<f.node, r>>[1].from \in Int
    BY <1>3, FirstKid
  <2>. QED  BY <1>4, <1>9, <2>1, NodeInRow
<1>11. index' \in Int
  BY <1>2, <1>4
<1>12. Build(2, {}, Node("RecursiveCte", <<f.node, r>>, bindings, means, cols, shows), column_map, seen)
  BY <1>2, <1>7
<1>. QED  BY <1>3, <1>10, <1>11, <1>12, BuildGrows

LEMMA DelimJoinKeeps ==
    ASSUME BuilderInv, NEW type, DelimJoin(type)
    PROVE  BuilderInv'
<1>1. PICK l, r, left, right : l = Below.node /\ r = Top /\ left = All(l.bindings) /\ right = All(r.bindings)
  OBVIOUS
<1>2. PICK named, kept, node, last, needed, seen :
        /\ kept = Among(Kept(type, l, r, left, right), named)
        /\ node = Joined(type, l, r, left, right, kept)
        /\ last = [node EXCEPT !.kind = "DelimJoin", !.delims = l.delims, !.extra = {}]
        /\ needed = Keys(Referred(type, l, r))
        /\ Closes("DelimJoin") /\ index' = index + 1
        /\ Build(2, needed, last, WithMark(type), seen)
  BY <1>1 DEF DelimJoin
<1>3. /\ status = "build" /\ Finished(1) /\ 2 \in 0..Len(work) /\ Covered(l, DOMAIN column_map)
  BY <1>1, <1>2, ClosesFacts
<1>4. index \in Int /\ serial \in Int /\ Covered(r, DOMAIN column_map)
  BY <1>1, <1>3, TopFacts DEF BuilderInv
<1>5. /\ left \in Seq(1..Len(l.bindings)) /\ right \in Seq(1..Len(r.bindings))
      /\ Len(l.bindings) \in Nat /\ Len(r.bindings) \in Nat
  BY <1>1, <1>3, <1>4, PositionsTyped
<1>6. Kept(type, l, r, left, right) \in Seq(1..(Len(l.bindings) + Len(r.bindings)))
  BY <1>5, KeptTyped
<1>7. kept \in Seq(1..(Len(l.bindings) + Len(r.bindings)))
  BY <1>2, <1>6, AmongTyped
<1>8. Covered(node, DOMAIN WithMark(type))
  BY <1>2, <1>3, <1>4, <1>7, JoinedCovered
<1>9. /\ DOMAIN last = NodeFields /\ last.bindings = node.bindings /\ last.means = node.means
      /\ last.from = node.from /\ last.stale = node.stale /\ last.extra = {}
  BY <1>2, <1>8 DEF Covered, NodeFields
<1>10. Covered(last, DOMAIN WithMark(type))
  BY <1>8, <1>9 DEF Covered
<1>11. needed \subseteq DOMAIN column_map
  BY <1>2, <1>3, <1>4, BothRefsNamed
<1>12. DOMAIN column_map \subseteq DOMAIN WithMark(type)
  BY <1>4, WithMarkNamed
<1>13. index' \in Int
  BY <1>2, <1>4
<1>. QED  BY <1>2, <1>3, <1>10, <1>11, <1>12, <1>13, BuildGrows
-----------------------------------------------------------------------------
(* Every step.                                                             *)

LEMMA ScanKeeps ==
    ASSUME BuilderInv, Scan
    PROVE  BuilderInv'
<1>1. CASE \E table \in menu.tables : \E picked \in Increasing(Len(BaseTables[table])) : Get(table, picked)
  BY <1>1, GetKeeps
<1>2. CASE GetNothing \/ ValuesWithoutColumns
  BY <1>2, DummiesKeep
<1>3. CASE DummyScan \/ EmptyResult
  BY <1>3, OtherLeavesKeep
<1>4. CASE \E n \in 1..menu.width : Values(n)
  BY <1>4, ValuesKeeps
<1>5. CASE \E i \in DOMAIN work : IsFrame(work[i]) /\ work[i].kind \in {"MaterializedCte", "RecursiveCte"} /\ CteRef(work[i])
  BY <1>5, CteRefKeeps
<1>6. CASE Delims # {} /\ \E ti \in Missing : DelimGet(work[Owner], ti)
  BY <1>6, DelimGetKeeps
<1>. QED  BY <1>1, <1>2, <1>3, <1>4, <1>5, <1>6, Zenon DEF Scan

LEMMA TransformKeeps ==
    ASSUME BuilderInv, Transform
    PROVE  BuilderInv'
<1>1. menu.width \in Nat
  BY MenusAssumption DEF BuilderInv
<1>2. CASE \E at \in Maps(Top) : Filter(at)
  BY <1>2, FilterKeeps
<1>3. CASE \E at \in Maps(Top) : Rows("Order", at)
  BY <1>3, RowsKeeps
<1>4. CASE \E kind \in {"Limit", "TopN", "Distinct", "Sample"} : Rows(kind, All(Top.bindings))
  BY <1>4, RowsKeeps
<1>5. CASE \E n \in 1..menu.width : Unnest(n)
  <2>1. PICK n \in 1..menu.width : Unnest(n)
    BY <1>5
  <2>2. n \in Nat
    BY <1>1
  <2>3. PICK cs : Adding("Unnest", n, cs)
    BY <2>1 DEF Unnest
  <2>. QED  BY <2>2, <2>3, AddingKeeps
<1>6. CASE \E aliases \in Strings(Aliases, 1, menu.width) : Window(aliases)
  <2>1. PICK aliases \in Strings(Aliases, 1, menu.width) : Window(aliases)
    BY <1>6
  <2>2. Len(aliases) \in Nat
    BY <1>1, StringsTyped
  <2>3. PICK cs : Adding("Window", Len(aliases), cs)
    BY <2>1 DEF Window
  <2>. QED  BY <2>2, <2>3, AddingKeeps
<1>7. CASE \E own \in Strings(menu.aliases, 1, 2), passed \in Increasing(Len(Top.bindings)) : Lateral(own, passed)
  <2>1. PICK own \in Strings(menu.aliases, 1, 2), passed \in Increasing(Len(Top.bindings)) : Lateral(own, passed)
    BY <1>7
  <2>2. Len(own) \in Nat
    BY StringsTyped
  <2>. QED  BY <2>1, <2>2, LateralKeeps
<1>8. CASE \E use \in Uses(Top) : \E extra \in Extras(Top, use), root \in BOOLEAN,
              items \in Strings(Items(Top), 1, menu.width) : Project(items, root, use, extra)
  BY <1>8, ProjectKeeps
<1>9. CASE \E use \in Uses(Top), groups \in Strings(Positions(Top) \cup {0}, 0, menu.width),
              aggs \in Strings(Aliases, 0, 1), groupings \in 0..1, many \in BOOLEAN :
              Aggregate(groups, aggs, groupings, many, use)
  BY <1>9, AggregateKeeps
<1>10. CASE Insert
  BY <1>10, InsertKeeps
<1>. QED  BY <1>2, <1>3, <1>4, <1>5, <1>6, <1>7, <1>8, <1>9, <1>10, Zenon DEF Transform

LEMMA CombineKeeps ==
    ASSUME BuilderInv, Combine
    PROVE  BuilderInv'
<1>1. CASE \E type \in menu.types, left \in Maps(Below), right \in Maps(Top) : Join(type, left, right)
  BY <1>1, JoinKeeps
<1>2. CASE (\E product \in {"CrossProduct", "CrossNothing"} : CrossProduct(product)) \/ PositionalJoin
  BY <1>2, ProductKeeps
<1>3. CASE \E kind \in SetOps : SetOpRight(kind)
  BY <1>3, SetOpRightKeeps
<1>4. CASE CteQuery \/ RecursiveStep
  BY <1>4, CteQueryKeeps, RecursiveStepKeeps
<1>5. CASE \E type \in menu.types \ RightOnly : DelimJoin(type)
  BY <1>5, DelimJoinKeeps
<1>. QED  BY <1>1, <1>2, <1>3, <1>4, <1>5, Zenon DEF Combine

LEMMA OpenKeeps ==
    ASSUME BuilderInv, Open
    PROVE  BuilderInv'
<1>1. CASE \E kind \in SetOps, reuse \in {r \in BOOLEAN : r => "Reuse" \in menu.kinds} : SetOpLeft(kind, reuse)
  BY <1>1, SetOpLeftKeeps
<1>2. CASE CteBody \/ RecursiveAnchor
  BY <1>2, CteBodyKeeps, RecursiveAnchorKeeps
<1>3. CASE \E at \in Strings(Positions(Top), 1, 2), gets \in 1..2 : DelimOuter(at, gets)
  BY <1>3, DelimOuterKeeps
<1>. QED  BY <1>1, <1>2, <1>3, Zenon DEF Open

LEMMA FinishKeeps ==
    ASSUME BuilderInv, Finish
    PROVE  BuilderInv'
<1>1. /\ menu' = menu /\ work' = work /\ index' = index /\ serial' = serial /\ column_map' = column_map
      /\ status' # "no binding"
  BY DEF Finish
<1>2. index' \in Int /\ serial' \in Int
  BY <1>1 DEF BuilderInv
<1>. QED  BY <1>1, <1>2, RefusedKeeps

\* Every plan starts with nothing in its maps and nothing that could need them, and each operator that
\* enters the plan or is completed leaves every column that may still be asked for in column_map or in
\* the map it restores (AstBuilder::RecursiveTraversal and its Translate functions).
THEOREM BuilderInductive == BuilderSpec => []BuilderInv
<1>1. BuilderInit => BuilderInv
  <2>1. SUFFICES ASSUME BuilderInit PROVE BuilderInv
    OBVIOUS
  <2>2. /\ menu \in BuilderMenus /\ index = 1 /\ serial = 0 /\ status = "build" /\ work = << >>
    BY <2>1 DEF BuilderInit
  <2>3. Len(work) = 0 /\ IsStack(work)
    BY <2>2 DEF IsStack
  <2>4. WorkIn(work, DOMAIN column_map) /\ ScopesCover(work)
    BY <2>3 DEF WorkIn, ItemsIn, ScopesCover
  <2>. QED  BY <2>2, <2>3, <2>4 DEF BuilderInv
<1>2. BuilderInv /\ [BuilderNext]_builderVars => BuilderInv'
  <2>1. CASE BuilderInv /\ BuilderNext
    BY <2>1, ScanKeeps, TransformKeeps, CombineKeeps, OpenKeeps, FinishKeeps, Zenon DEF BuilderNext
  <2>2. CASE BuilderInv /\ UNCHANGED builderVars
    BY <2>2, Zenon DEF BuilderInv, builderVars
  <2>. QED  BY <2>1, <2>2
<1>. QED  BY <1>1, <1>2, PTL DEF BuilderSpec

\* A plan is refused for want of a name only when it scans a table function of which no column is
\* read: for any tables, any menu of plans and plans of any depth, FindColumnBinding finds every other
\* column, whatever scopes of set operations, CTEs and delim joins were entered and left in between.
THEOREM ColumnsHaveNames == BuilderSpec => []EveryColumnHasAName
<1>1. BuilderInv => EveryColumnHasAName
  BY Zenon DEF BuilderInv, EveryColumnHasAName, HasDummy
<1>. QED  BY <1>1, BuilderInductive, PTL

-----------------------------------------------------------------------------
(* Names.                                                                  *)

Names == Int \X Words
ColStructs == [table_index : Int, column_name : Words, alias : Words]
\* A name as DuckDB compares it.
Key(c) == Lower(ToUniqueColumnName(c))

LEMMA LiteralWords ==
    /\ << >> \in Words
    /\ \A w \in {"c", "count", "dummy", "expr", "grouping", "grp", "mark", "scalar", "sum", "unnest", "window"} :
            <<w>> \in Words
    /\ \A w \in {"c", "grouping", "grp", "scalar", "unnest", "window"}, n \in 0..(2 * MaxColumns) :
            <<w, Digit(n)>> \in Words
<1>1. {"a", "_", "c", "count", "dummy", "expr", "grouping", "grp", "mark", "scalar", "sum", "unnest", "window"}
        \subseteq Characters
  BY NamesAssumption
<1>2. \A n \in 0..(2 * MaxColumns) : Digit(n) \in Characters
  BY NamesAssumption DEF Digit
<1>3. << >> \in Words
  BY DEF Words
<1>4. \A x \in Characters : <<x>> \in Words
  BY DEF Words
<1>5. \A x \in Characters, y \in Characters : <<x, y>> \in Words
  BY DEF Words
<1>6. \A w \in {"c", "count", "dummy", "expr", "grouping", "grp", "mark", "scalar", "sum", "unnest", "window"} :
        w \in Characters
  BY <1>1
<1>7. \A w \in {"c", "grouping", "grp", "scalar", "unnest", "window"} : w \in Characters
  BY <1>1
<1>. QED  BY <1>2, <1>3, <1>4, <1>5, <1>6, <1>7

\* Sanitizing and folding case go character by character and leave digits alone.
LEMMA WordMapped ==
    ASSUME NEW w \in Words, NEW ti \in Int, NEW name, name = <<ti, SanitizeIdentifierFragment(w)>>
    PROVE  /\ SanitizeIdentifierFragment(w) \in Words /\ Len(SanitizeIdentifierFragment(w)) = Len(w)
           /\ name \in Names /\ name[1] = ti
           /\ Lower(name)[1] = ti
           /\ DOMAIN Lower(name)[2] = 1..Len(w)
           /\ \A i \in 1..Len(w) : w[i] \notin {"A", "$", "#"} => Lower(name)[2][i] = w[i]
<1>1. \A i \in 1..Len(w) : w[i] \in Characters
  BY DEF Words
<1>2. \A i \in 1..Len(w) : (IF w[i] \in {"$", "#"} THEN "_" ELSE w[i]) \in Characters
  BY <1>1, NamesAssumption
<1>3. DOMAIN w = 1..Len(w) /\ Len(w) \in Nat
  BY DEF Words
<1>4. PICK x : x = SanitizeIdentifierFragment(w)
  OBVIOUS
<1>5. /\ x \in [1..Len(w) -> Characters]
      /\ \A i \in 1..Len(w) : x[i] = IF w[i] \in {"$", "#"} THEN "_" ELSE w[i]
  BY <1>2, <1>3, <1>4 DEF SanitizeIdentifierFragment
<1>6. x \in Words /\ Len(x) = Len(w)
  BY <1>3, <1>5, FunctionIsSequence DEF Words
<1>7. name[1] = ti /\ name[2] = x /\ DOMAIN x = 1..Len(w)
  BY <1>4, <1>5
<1>8. \A i \in 1..Len(w) : Lower(name)[2][i] = IF x[i] = "A" THEN "a" ELSE x[i]
  BY <1>7 DEF Lower
<1>9. ASSUME NEW i \in 1..Len(w), w[i] \notin {"A", "$", "#"} PROVE Lower(name)[2][i] = w[i]
  BY <1>5, <1>8, <1>9
<1>10. Lower(name)[1] = ti /\ DOMAIN Lower(name)[2] = 1..Len(w)
  BY <1>7 DEF Lower
<1>. QED  BY <1>4, <1>6, <1>7, <1>9, <1>10 DEF Names

LEMMA BaseTyped ==
    ASSUME NEW c \in ColStructs
    PROVE  /\ Base(c) \in Words /\ c.table_index \in Int
           /\ ToUniqueColumnName(c) \in Names /\ ToUniqueColumnName(c)[1] = c.table_index
           /\ Key(c)[1] = c.table_index
<1>1. Base(c) \in Words /\ c.table_index \in Int
  BY DEF Base, ColStructs
<1>. QED  BY <1>1, WordMapped DEF ToUniqueColumnName, Key

LEMMA NameTyped ==
    ASSUME NEW name \in Names
    PROVE  Lower(name)[1] = name[1] /\ name[1] \in Int /\ name[2] \in Words
  BY DEF Lower, Names

LEMMA ColStructTyped ==
    ASSUME NEW ti \in Int, NEW name \in Words, NEW alias \in Words
    PROVE  /\ ColStruct(ti, name, alias) \in ColStructs /\ ColStruct(ti, name, alias).table_index = ti
           /\ ColStruct(ti, name, alias).alias = alias
  BY DEF ColStruct, ColStructs

\* A request whose names are of table ti, except that its first candidate may be of another one.
RequestTyped(r) ==
    /\ DOMAIN r.candidates = 1..Len(r.candidates) /\ Len(r.candidates) \in Nat
    /\ \A k \in 1..Len(r.candidates) : r.candidates[k] \in ColStructs
    /\ r.base \in ColStructs
    /\ r.suffixed = "column_name" => r.base.alias = << >>
    /\ r.seed \in 0..MaxColumns

LEMMA DedupedTyped ==
    ASSUME NEW ti \in Int, NEW name \in Words, NEW alias \in Words, NEW seed \in 0..MaxColumns, NEW r,
           r = MakeDedupedColumn(ti, name, alias, seed)
    PROVE  /\ RequestTyped(r) /\ r.base.table_index = ti
           /\ \A k \in 1..Len(r.candidates) : r.candidates[k].table_index = ti
<1>1. PICK c : c = ColStruct(ti, name, alias)
  OBVIOUS
<1>2. c \in ColStructs /\ c.table_index = ti /\ c.alias = alias
  BY <1>1, ColStructTyped
<1>3. /\ r.candidates = <<c>> /\ r.base = c /\ r.seed = seed
      /\ r.suffixed = IF alias = << >> THEN "column_name" ELSE "alias"
  BY <1>1 DEF MakeDedupedColumn, Request
<1>. QED  BY <1>2, <1>3 DEF RequestTyped

\* A name with a suffix: what the suffix is shows.
LEMMA SuffixedTyped ==
    ASSUME NEW r, RequestTyped(r), NEW n \in 0..(2 * MaxColumns)
    PROVE  /\ Suffixed(r, n) \in ColStructs /\ Suffixed(r, n).table_index = r.base.table_index
           /\ Base(Suffixed(r, n)) = Base(r.base) \o <<Digit(n)>>
<1>1. PICK base, d : base = r.base /\ d = Digit(n)
  OBVIOUS
<1>2. base \in ColStructs /\ (r.suffixed = "column_name" => base.alias = << >>)
  BY <1>1 DEF RequestTyped
<1>3. d \in Characters
  BY <1>1, NamesAssumption DEF Digit
<1>4. Base(base) \in Words /\ base.column_name \in Words /\ base.alias \in Words /\ base.table_index \in Int
  BY <1>2, BaseTyped DEF ColStructs
<1>5. /\ Base(base) \o <<d>> \in Words /\ base.column_name \o <<d>> \in Words
      /\ Base(base) \o <<d>> # << >>
  BY <1>3, <1>4 DEF Words
<1>6. CASE r.suffixed = "column_name"
  <2>1. PICK c : c = [base EXCEPT !.column_name = @ \o <<d>>]
    OBVIOUS
  <2>2. /\ c \in ColStructs /\ c.table_index = base.table_index /\ c.alias = << >>
        /\ c.column_name = base.column_name \o <<d>>
    BY <1>2, <1>5, <1>6, <2>1 DEF ColStructs
  <2>3. Base(base) = base.column_name /\ Base(c) = base.column_name \o <<d>>
    BY <1>2, <1>6, <2>2 DEF Base
  <2>4. Suffixed(r, n) = c
    BY <1>1, <1>6, <2>1 DEF Suffixed
  <2>. QED  BY <1>1, <2>2, <2>3, <2>4
<1>7. CASE r.suffixed # "column_name"
  <2>1. PICK c : c = [base EXCEPT !.alias = Base(base) \o <<d>>]
    OBVIOUS
  <2>2. c \in ColStructs /\ c.table_index = base.table_index /\ c.alias = Base(base) \o <<d>>
    BY <1>2, <1>5, <2>1 DEF ColStructs
  <2>3. Base(c) = Base(base) \o <<d>>
    BY <1>5, <2>2 DEF Base
  <2>4. Suffixed(r, n) = c
    BY <1>1, <1>7, <2>1 DEF Suffixed
  <2>. QED  BY <1>1, <2>2, <2>3, <2>4
<1>. QED  BY <1>6, <1>7

\* Two suffixes make two names.
LEMMA SuffixedApart ==
    ASSUME NEW r, RequestTyped(r), NEW m \in 0..(2 * MaxColumns), NEW n \in 0..(2 * MaxColumns),
           Key(Suffixed(r, m)) = Key(Suffixed(r, n))
    PROVE  m = n
<1>1. PICK base : base = Base(r.base) /\ base \in Words
  BY BaseTyped DEF RequestTyped
<1>2. ASSUME NEW k \in 0..(2 * MaxColumns)
      PROVE  Key(Suffixed(r, k))[2][Len(base) + 1] = Digit(k)
  <2>1. /\ Suffixed(r, k) \in ColStructs /\ Base(Suffixed(r, k)) = base \o <<Digit(k)>>
    BY <1>1, SuffixedTyped
  <2>2. Digit(k) \in Characters \ {"A", "$", "#"}
    BY NamesAssumption DEF Digit
  <2>3. PICK w : w = base \o <<Digit(k)>>
    OBVIOUS
  <2>4. w \in Words /\ Len(w) = Len(base) + 1 /\ w[Len(base) + 1] = Digit(k) /\ Len(base) \in Nat
    BY <1>1, <2>2, <2>3 DEF Words
  <2>5. PICK name : name = ToUniqueColumnName(Suffixed(r, k))
    OBVIOUS
  <2>7. PICK ti \in Int : name = <<ti, SanitizeIdentifierFragment(w)>>
    BY <2>1, <2>3, <2>5, BaseTyped DEF ToUniqueColumnName
  <2>6. Lower(name)[2][Len(base) + 1] = Digit(k)
    BY <2>2, <2>4, <2>7, WordMapped
  <2>. QED  BY <2>5, <2>6 DEF Key
<1>3. Digit(m) = Digit(n)
  BY <1>2
<1>. QED  BY <1>3, NamesAssumption DEF Digit

\* One of the candidates of a request, or the name with a suffix.
LEMMA CandidateTyped ==
    ASSUME NEW r, RequestTyped(r), NEW k \in 1..(Len(r.candidates) + MaxColumns + 1)
    PROVE  /\ Candidate(r, k) \in ColStructs
           /\ \/ k \in 1..Len(r.candidates) /\ Candidate(r, k) = r.candidates[k]
              \/ Candidate(r, k).table_index = r.base.table_index
<1>1. Len(r.candidates) \in Nat /\ MaxColumns \in Nat /\ r.seed \in 0..MaxColumns
  BY NamesAssumption DEF RequestTyped
<1>2. CASE k <= Len(r.candidates)
  <2>1. k \in 1..Len(r.candidates) /\ Candidate(r, k) = r.candidates[k]
    BY <1>1, <1>2 DEF Candidate
  <2>. QED  BY <2>1 DEF RequestTyped
<1>3. CASE ~(k <= Len(r.candidates))
  <2>1. PICK n : n = r.seed + k - Len(r.candidates) - 1
    OBVIOUS
  <2>2. n \in 0..(2 * MaxColumns) /\ Candidate(r, k) = Suffixed(r, n)
    BY <1>1, <1>3, <2>1 DEF Candidate
  <2>. QED  BY <2>2, SuffixedTyped
<1>. QED  BY <1>2, <1>3

\* What a request gets is one of its candidates, and none of the names seen.
LEMMA ChosenFresh ==
    ASSUME NEW r, RequestTyped(r), NEW seen, IsFiniteSet(seen), Cardinality(seen) <= MaxColumns
    PROVE  \E k \in 1..(Len(r.candidates) + MaxColumns + 1) :
                Chosen(r, seen) = Candidate(r, k) /\ Key(Chosen(r, seen)) \notin seen
<1>1. PICK c \in Nat, L \in Nat : c = Cardinality(seen) /\ L = Len(r.candidates) /\ c <= MaxColumns
  BY FS_CardinalityType DEF RequestTyped
<1>2. MaxColumns \in Nat /\ r.seed \in 0..MaxColumns
  BY NamesAssumption DEF RequestTyped
<1>. DEFINE free == {k \in 1..(Len(r.candidates) + Cardinality(seen) + 1) :
                        Lower(ToUniqueColumnName(Candidate(r, k))) \notin seen}
<1>3. free # {}
  <2>1. SUFFICES ASSUME free = {} PROVE FALSE
    OBVIOUS
  <2>2. \A k \in 1..(L + c + 1) : Key(Candidate(r, k)) \in seen
    BY <1>1, <2>1 DEF Key
  <2>3. \A n \in 0..c : r.seed + n \in 0..(2 * MaxColumns) /\ Candidate(r, L + 1 + n) = Suffixed(r, r.seed + n)
    <3>1. ASSUME NEW n \in 0..c
          PROVE  r.seed + n \in 0..(2 * MaxColumns) /\ Candidate(r, L + 1 + n) = Suffixed(r, r.seed + n)
      <4>1. ~(L + 1 + n <= Len(r.candidates)) /\ r.seed + (L + 1 + n) - Len(r.candidates) - 1 = r.seed + n
        BY <1>1, <1>2
      <4>2. r.seed + n \in 0..(2 * MaxColumns)
        BY <1>1, <1>2
      <4>. QED  BY <4>1, <4>2 DEF Candidate
    <3>. QED  BY <3>1
  <2>4. \A n \in 0..c : Key(Suffixed(r, r.seed + n)) \in seen
    <3>1. \A n \in 0..c : L + 1 + n \in 1..(L + c + 1)
      BY <1>1
    <3>. QED  BY <2>2, <2>3, <3>1
  <2>5. PICK f \in [0..c -> seen] : \A n \in 0..c : f[n] = Key(Suffixed(r, r.seed + n))
    <3>1. PICK f : f = [n \in 0..c |-> Key(Suffixed(r, r.seed + n))]
      OBVIOUS
    <3>. QED  BY <2>4, <3>1
  <2>6. IsFiniteSet(0..c) /\ Cardinality(0..c) = c + 1
    BY <1>1, FS_Interval
  <2>7. PICK m \in 0..c, n \in 0..c : m # n /\ f[m] = f[n]
    BY <1>1, <2>6, FS_PigeonHole
  <2>8. r.seed + m = r.seed + n
    BY <2>3, <2>5, <2>7, SuffixedApart
  <2>. QED  BY <1>2, <2>7, <2>8
<1>4. free \subseteq Nat
  BY <1>1
<1>5. PICK k \in free : \A j \in free : k <= j
  <2>. HIDE DEF free
  <2>. QED  BY <1>3, <1>4, LeastNumber
<1>6. PICK m : m = CHOOSE i \in free : \A j \in free : i <= j
  OBVIOUS
<1>7. m \in free
  <2>. HIDE DEF free
  <2>. QED  BY <1>5, <1>6
<1>8. Chosen(r, seen) = Candidate(r, m)
  BY <1>6 DEF Chosen
<1>9. m \in 1..(Len(r.candidates) + MaxColumns + 1) /\ Key(Candidate(r, m)) \notin seen
  BY <1>1, <1>2, <1>7 DEF Key
<1>. QED  BY <1>8, <1>9

-----------------------------------------------------------------------------
(* Several requests, one after the other.                                  *)

SeenIn(e) == {Lower(ToUniqueColumnName(e[i])) : i \in DOMAIN e}
Minted(requests, k, e) == Append(e, Chosen(requests[k], SeenIn(e)))
Mints(made, requests, n) ==
    made = [k \in 0..n |-> IF k = 0 THEN << >> ELSE
                LET earlier == made[k - 1] IN
                Append(earlier, Chosen(requests[k], {Lower(ToUniqueColumnName(earlier[i])) : i \in DOMAIN earlier}))]

LEMMA MintUnfolds ==
    ASSUME NEW made, NEW requests, NEW n \in Nat, Mints(made, requests, n)
    PROVE  made[0] = << >> /\ \A k \in 1..n : made[k] = Minted(requests, k, made[k - 1])
<1>. DEFINE e(k) == IF k = 0 THEN << >> ELSE Minted(requests, k, made[k - 1])
<1>1. made = [k \in 0..n |-> e(k)]
  BY DEF Mints, Minted, SeenIn
<1>. HIDE DEF e
<1>2. \A k \in 0..n : made[k] = e(k)
  BY <1>1
<1>3. made[0] = e(0) /\ \A k \in 1..n : made[k] = e(k) /\ k # 0
  BY <1>2
<1>. QED  BY <1>3 DEF e

\* Lists of growing length, whatever they are made of.
MintedTo(f, requests, m) ==
    /\ DOMAIN f = 0..m
    /\ f[0] = << >> /\ \A k \in 1..m : f[k] = Minted(requests, k, f[k - 1])

MintsTo(f, requests, n) == f[0] = << >> /\ \A k \in 1..n : f[k] = Minted(requests, k, f[k - 1])

LEMMA MintedLengths ==
    ASSUME NEW f, NEW requests, NEW n \in Nat, MintsTo(f, requests, n)
    PROVE  \A k \in 0..n : \E S : f[k] \in Seq(S) /\ Len(f[k]) = k
<1>. DEFINE T == {k \in Nat : k <= n => \E S : f[k] \in Seq(S) /\ Len(f[k]) = k}
<1>1. 0 \in T
  <2>1. f[0] \in Seq({}) /\ Len(f[0]) = 0
    BY DEF MintsTo
  <2>2. \E S : f[0] \in Seq(S) /\ Len(f[0]) = 0
    BY <2>1
  <2>. QED  BY <2>2
<1>2. ASSUME NEW k \in Nat, k \in T PROVE k + 1 \in T
  <2>1. SUFFICES ASSUME k + 1 <= n PROVE \E S : f[k + 1] \in Seq(S) /\ Len(f[k + 1]) = k + 1
    OBVIOUS
  <2>2. PICK S : f[k] \in Seq(S) /\ Len(f[k]) = k
    BY <1>2, <2>1
  <2>3. k + 1 \in 1..n /\ k + 1 - 1 = k
    BY <2>1
  <2>4. f[k + 1] = Minted(requests, k + 1, f[k])
    BY <2>3 DEF MintsTo
  <2>5. PICK x : f[k + 1] = Append(f[k], x)
    BY <2>4 DEF Minted
  <2>6. PICK R : R = S \cup {x}
    OBVIOUS
  <2>7. f[k] \in Seq(R) /\ x \in R
    <3>1. S \subseteq R /\ x \in R
      BY <2>6
    <3>. QED  BY <2>2, <3>1
  <2>8. f[k + 1] \in Seq(R) /\ Len(f[k + 1]) = k + 1
    BY <2>2, <2>5, <2>7
  <2>. QED  BY <2>8
<1>. HIDE DEF T
<1>3. Nat \subseteq T
  BY <1>1, <1>2, InductionOnNat
<1>. QED  BY <1>3 DEF T

LEMMA MintExists ==
    ASSUME NEW requests, NEW n \in Nat
    PROVE  \E made : Mints(made, requests, n)
<1>. DEFINE T == {m \in Nat : \E f : MintedTo(f, requests, m)}
<1>1. 0 \in T
  <2>1. PICK f : f = [k \in 0..0 |-> << >>]
    OBVIOUS
  <2>2. MintedTo(f, requests, 0)
    BY <2>1 DEF MintedTo
  <2>. QED  BY <2>2
<1>2. ASSUME NEW m \in Nat, m \in T PROVE m + 1 \in T
  <2>1. PICK f : MintedTo(f, requests, m)
    BY <1>2
  <2>2. PICK x : x = Minted(requests, m + 1, f[m])
    OBVIOUS
  <2>3. PICK g : g = [k \in 0..(m + 1) |-> IF k = m + 1 THEN x ELSE f[k]]
    OBVIOUS
  <2>4. /\ DOMAIN g = 0..(m + 1) /\ g[m + 1] = x
        /\ \A k \in 0..m : g[k] = f[k]
    BY <2>3
  <2>5. g[0] = << >>
    BY <2>1, <2>4 DEF MintedTo
  <2>6. ASSUME NEW k \in 1..(m + 1) PROVE g[k] = Minted(requests, k, g[k - 1])
    <3>1. k - 1 \in 0..m /\ g[k - 1] = f[k - 1]
      BY <2>4
    <3>2. CASE k = m + 1
      <4>1. k - 1 = m
        BY <3>2
      <4>. QED  BY <2>2, <2>4, <3>1, <3>2, <4>1
    <3>3. CASE k # m + 1
      <4>1. k \in 1..m /\ k \in 0..m
        BY <3>3
      <4>2. f[k] = Minted(requests, k, f[k - 1])
        BY <2>1, <4>1 DEF MintedTo
      <4>. QED  BY <2>4, <3>1, <4>1, <4>2
    <3>. QED  BY <3>2, <3>3
  <2>7. MintedTo(g, requests, m + 1)
    BY <2>4, <2>5, <2>6 DEF MintedTo
  <2>. QED  BY <2>7
<1>. HIDE DEF T
<1>3. n \in T
  BY <1>1, <1>2, InductionOnNat
<1>4. PICK f : MintedTo(f, requests, n)
  BY <1>3 DEF T
<1>. DEFINE e(k) == IF k = 0 THEN << >> ELSE Minted(requests, k, f[k - 1])
<1>5. DOMAIN f = 0..n /\ \A k \in 0..n : f[k] = e(k)
  <2>1. \A k \in 0..n : k = 0 \/ k \in 1..n
    OBVIOUS
  <2>. QED  BY <1>4, <2>1 DEF MintedTo
<1>6. f = [k \in 0..n |-> f[k]]
  <2>1. PICK h : h = [k \in 0..n |-> Minted(requests, k, f[k - 1])]
    OBVIOUS
  <2>2. PICK g : g = [k \in 0..n |-> IF k = 0 THEN << >> ELSE h[k]]
    OBVIOUS
  <2>. QED  BY <1>4 DEF MintedTo
<1>7. f = [k \in 0..n |-> e(k)]
  BY <1>5, <1>6
<1>8. Mints(f, requests, n)
  BY <1>7 DEF Mints, Minted, SeenIn
<1>. QED  BY <1>8

\* No two columns have one name.
Apart(cols) == \A i, j \in 1..Len(cols) : Lower(cols[i]) = Lower(cols[j]) => i = j
\* The columns minted are among what was asked for, and no two have one name.
MintedWell(cs, requests, n) ==
    /\ cs \in Seq(ColStructs) /\ Len(cs) = n
    /\ \A i \in 1..n :
        \/ \E k \in 1..Len(requests[i].candidates) : cs[i] = requests[i].candidates[k]
        \/ cs[i].table_index = requests[i].base.table_index
    /\ \A i, j \in 1..n : Key(cs[i]) = Key(cs[j]) => i = j

LEMMA SeenFinite ==
    ASSUME NEW S, NEW e \in Seq(S), Len(e) <= MaxColumns
    PROVE  IsFiniteSet(SeenIn(e)) /\ Cardinality(SeenIn(e)) <= MaxColumns
<1>1. PICK n \in Nat : n = Len(e) /\ DOMAIN e = 1..n
  OBVIOUS
<1>2. PICK f : f = [i \in 1..n |-> Lower(ToUniqueColumnName(e[i]))]
  OBVIOUS
<1>3. f \in Surjection(1..n, SeenIn(e))
  <2>1. \A i \in 1..n : f[i] \in SeenIn(e)
    BY <1>1, <1>2 DEF SeenIn
  <2>2. \A x \in SeenIn(e) : \E i \in 1..n : f[i] = x
    BY <1>1, <1>2 DEF SeenIn
  <2>3. f \in [1..n -> SeenIn(e)]
    BY <1>2, <2>1
  <2>. QED  BY <2>2, <2>3 DEF Surjection
<1>4. IsFiniteSet(1..n) /\ Cardinality(1..n) = n
  BY FS_Interval
<1>5. IsFiniteSet(SeenIn(e)) /\ Cardinality(SeenIn(e)) <= n
  BY <1>3, <1>4, FS_Surjection
<1>6. Cardinality(SeenIn(e)) \in Nat /\ MaxColumns \in Nat
  BY <1>5, FS_CardinalityType, NamesAssumption
<1>. QED  BY <1>1, <1>5, <1>6

LEMMA MintStep ==
    ASSUME NEW requests, NEW n \in Nat, n + 1 <= MaxColumns, RequestTyped(requests[n + 1]),
           NEW e, MintedWell(e, requests, n), NEW cs, cs = Minted(requests, n + 1, e)
    PROVE  MintedWell(cs, requests, n + 1)
<1>1. PICK r, c : r = requests[n + 1] /\ c = Chosen(r, SeenIn(e))
  OBVIOUS
<1>2. e \in Seq(ColStructs) /\ Len(e) = n /\ MaxColumns \in Nat
  BY NamesAssumption DEF MintedWell
<1>3. IsFiniteSet(SeenIn(e)) /\ Cardinality(SeenIn(e)) <= MaxColumns
  BY <1>2, SeenFinite
<1>4. PICK k \in 1..(Len(r.candidates) + MaxColumns + 1) : c = Candidate(r, k) /\ Key(c) \notin SeenIn(e)
  BY <1>1, <1>3, ChosenFresh
<1>5. /\ c \in ColStructs
      /\ (\E l \in 1..Len(r.candidates) : c = r.candidates[l]) \/ c.table_index = r.base.table_index
  BY <1>1, <1>4, CandidateTyped
<1>6. cs = Append(e, c)
  BY <1>1 DEF Minted
<1>7. /\ cs \in Seq(ColStructs) /\ Len(cs) = n + 1 /\ cs[n + 1] = c
      /\ \A i \in 1..n : cs[i] = e[i]
  BY <1>2, <1>5, <1>6
<1>8. \A i \in 1..(n + 1) : i = n + 1 \/ i \in 1..n
  OBVIOUS
<1>9. \A i \in 1..n : Key(e[i]) \in SeenIn(e)
  BY <1>2 DEF SeenIn, Key
<1>10. \A i, j \in 1..(n + 1) : Key(cs[i]) = Key(cs[j]) => i = j
  <2>1. \A i, j \in 1..n : Key(e[i]) = Key(e[j]) => i = j
    BY DEF MintedWell
  <2>. QED  BY <1>4, <1>7, <1>8, <1>9, <2>1
<1>11. ASSUME NEW i \in 1..(n + 1)
       PROVE  \/ \E l \in 1..Len(requests[i].candidates) : cs[i] = requests[i].candidates[l]
              \/ cs[i].table_index = requests[i].base.table_index
  <2>1. CASE i = n + 1
    BY <1>1, <1>5, <1>7, <2>1
  <2>2. CASE i \in 1..n
    BY <1>7, <2>2 DEF MintedWell
  <2>. QED  BY <1>8, <2>1, <2>2
<1>. QED  BY <1>7, <1>10, <1>11 DEF MintedWell

\* Mint returns one column for each request, all with names of their own.
LEMMA MintTyped ==
    ASSUME NEW requests, NEW n \in Nat, n = Len(requests)
    PROVE  /\ \E S : Mint(requests) \in Seq(S)
           /\ Len(Mint(requests)) = n
           /\ n <= MaxColumns /\ (\A k \in 1..n : RequestTyped(requests[k])) => MintedWell(Mint(requests), requests, n)
<1>. DEFINE made == CHOOSE f : Mints(f, requests, Len(requests))
<1>1. Mint(requests) = made[n]
  BY DEF Mint, Mints
<1>2. Mints(made, requests, n)
  BY MintExists
<1>. HIDE DEF made
<1>3. made[0] = << >> /\ \A k \in 1..n : made[k] = Minted(requests, k, made[k - 1])
  BY <1>2, MintUnfolds
<1>4. \E S : made[n] \in Seq(S) /\ Len(made[n]) = n
  <2>1. PICK f : f = made
    OBVIOUS
  <2>2. \A k \in 0..n : \E S : f[k] \in Seq(S) /\ Len(f[k]) = k
    <3>1. MintsTo(f, requests, n)
      BY <1>3, <2>1 DEF MintsTo
    <3>. QED  BY <3>1, MintedLengths
  <2>3. n \in 0..n
    OBVIOUS
  <2>. QED  BY <2>1, <2>2, <2>3
<1>5. ASSUME n <= MaxColumns, \A k \in 1..n : RequestTyped(requests[k])
      PROVE  MintedWell(made[n], requests, n)
  <2>3. n <= MaxColumns /\ MaxColumns \in Nat
    BY <1>5, NamesAssumption
  <2>. DEFINE T == {k \in Nat : k <= n => MintedWell(made[k], requests, k)}
  <2>1. 0 \in T
    <3>1. MintedWell(<< >>, requests, 0)
      BY DEF MintedWell
    <3>. QED  BY <1>3, <3>1
  <2>2. ASSUME NEW k \in Nat, k \in T PROVE k + 1 \in T
    <3>1. SUFFICES ASSUME k + 1 <= n PROVE MintedWell(made[k + 1], requests, k + 1)
      OBVIOUS
    <3>2. k + 1 \in 1..n /\ k + 1 - 1 = k /\ k + 1 <= MaxColumns
      BY <2>3, <3>1
    <3>3. made[k + 1] = Minted(requests, k + 1, made[k])
      BY <1>3, <3>2
    <3>4. MintedWell(made[k], requests, k) /\ RequestTyped(requests[k + 1])
      BY <1>5, <2>2, <3>1, <3>2
    <3>. QED  BY <3>2, <3>3, <3>4, MintStep
  <2>. HIDE DEF T
  <2>4. n \in T
    BY <2>1, <2>2, InductionOnNat
  <2>. QED  BY <2>4 DEF T
<1>. QED  BY <1>1, <1>4, <1>5

LEMMA NamesOfTyped ==
    ASSUME NEW cs \in Seq(ColStructs)
    PROVE  /\ NamesOf(cs) \in Seq(Names) /\ Len(NamesOf(cs)) = Len(cs)
           /\ \A i \in 1..Len(cs) : /\ NamesOf(cs)[i] = ToUniqueColumnName(cs[i])
                                    /\ NamesOf(cs)[i][1] = cs[i].table_index
                                    /\ Lower(NamesOf(cs)[i]) = Key(cs[i])
<1>1. DOMAIN cs = 1..Len(cs) /\ Len(cs) \in Nat /\ \A i \in 1..Len(cs) : cs[i] \in ColStructs
  OBVIOUS
<1>2. \A i \in 1..Len(cs) : ToUniqueColumnName(cs[i]) \in Names /\ ToUniqueColumnName(cs[i])[1] = cs[i].table_index
  BY <1>1, BaseTyped
<1>3. PICK names : names = NamesOf(cs)
  OBVIOUS
<1>4. names = [i \in 1..Len(cs) |-> ToUniqueColumnName(cs[i])]
  BY <1>1, <1>3 DEF NamesOf
<1>5. names \in [1..Len(cs) -> Names]
  BY <1>2, <1>4
<1>6. names \in Seq(Names) /\ Len(names) = Len(cs)
  BY <1>1, <1>5, FunctionIsSequence
<1>7. \A i \in 1..Len(cs) : names[i] = ToUniqueColumnName(cs[i])
  BY <1>4
<1>. QED  BY <1>2, <1>3, <1>6, <1>7 DEF Key

-----------------------------------------------------------------------------
(* What a name denotes among columns.                                      *)

Row(cols, shows) ==
    /\ cols \in Seq(Names) /\ shows \in Seq(Columns) /\ Len(shows) = Len(cols)
    /\ Apart(cols)
NoTwice(at) == \A j, k \in 1..Len(at) : at[j] = at[k] => j = k

LEMMA DenotesOne ==
    ASSUME NEW cols, NEW shows, Row(cols, shows), NEW i \in 1..Len(cols), NEW name, Lower(name) = Lower(cols[i])
    PROVE  Denotes(name, cols, shows) = shows[i]
<1>. DEFINE at == {j \in DOMAIN cols : Lower(cols[j]) = Lower(name)}
<1>1. DOMAIN cols = 1..Len(cols)
  BY DEF Row
<1>2. at = {i}
  BY <1>1 DEF Row, Apart
<1>3. Cardinality(at) = 1
  BY <1>2, FS_Singleton
<1>4. (CHOOSE j \in at : TRUE) = i
  BY <1>2
<1>. QED  BY <1>3, <1>4 DEF Denotes

LEMMA DenotesTyped ==
    ASSUME NEW cols, NEW shows, Row(cols, shows), NEW name
    PROVE  Denotes(name, cols, shows) \in Columns
<1>. DEFINE at == {j \in DOMAIN cols : Lower(cols[j]) = Lower(name)}
<1>1. DOMAIN cols = 1..Len(cols) /\ Len(cols) \in Nat /\ \A i \in 1..Len(cols) : shows[i] \in Columns
  BY DEF Row
<1>2. None \in Columns
  BY DEF None, Columns
<1>3. IsFiniteSet(at)
  <2>1. IsFiniteSet(1..Len(cols)) /\ at \subseteq 1..Len(cols)
    BY <1>1, FS_Interval
  <2>. QED  BY <2>1, FS_Subset
<1>4. CASE Cardinality(at) = 1
  <2>1. PICK x : at = {x}
    <3>. HIDE DEF at
    <3>. QED  BY <1>3, <1>4, FS_Singleton
  <2>2. x \in 1..Len(cols) /\ (CHOOSE j \in at : TRUE) = x
    BY <1>1, <2>1
  <2>3. Denotes(name, cols, shows) = shows[x]
    BY <1>4, <2>2 DEF Denotes
  <2>. QED  BY <1>1, <2>2, <2>3
<1>5. CASE Cardinality(at) # 1
  BY <1>2, <1>5 DEF Denotes
<1>. QED  BY <1>4, <1>5

LEMMA DenotesEqual ==
    ASSUME NEW cols, NEW shows, NEW name, NEW other, Lower(name) = Lower(other)
    PROVE  Denotes(name, cols, shows) = Denotes(other, cols, shows)
  BY DEF Denotes

LEMMA ByNameTyped ==
    ASSUME NEW cols, NEW shows, Row(cols, shows), NEW names, NEW n \in Nat, DOMAIN names = 1..n
    PROVE  /\ ByName(names, cols, shows) \in Seq(Columns) /\ Len(ByName(names, cols, shows)) = n
           /\ \A k \in 1..n : ByName(names, cols, shows)[k] = Denotes(names[k], cols, shows)
<1>1. PICK f : f = ByName(names, cols, shows)
  OBVIOUS
<1>2. f = [k \in 1..n |-> Denotes(names[k], cols, shows)]
  BY <1>1 DEF ByName
<1>3. \A k \in 1..n : Denotes(names[k], cols, shows) \in Columns
  BY DenotesTyped
<1>4. f \in [1..n -> Columns]
  BY <1>2, <1>3
<1>5. f \in Seq(Columns) /\ Len(f) = n
  BY <1>4, FunctionIsSequence
<1>. QED  BY <1>1, <1>2, <1>5

LEMMA ByNameEqual ==
    ASSUME NEW cols, NEW shows, NEW names, NEW others, DOMAIN names = DOMAIN others,
           \A k \in DOMAIN names : Lower(names[k]) = Lower(others[k])
    PROVE  ByName(names, cols, shows) = ByName(others, cols, shows)
<1>1. \A k \in DOMAIN names : Denotes(names[k], cols, shows) = Denotes(others[k], cols, shows)
  BY DenotesEqual
<1>. QED  BY <1>1 DEF ByName

\* u is s and then t.
PartsOf(u, s, t) ==
    /\ Len(u) = Len(s) + Len(t)
    /\ Len(s) \in Nat /\ Len(t) \in Nat
    /\ \A i \in 1..Len(s) : u[i] = s[i]
    /\ \A j \in 1..Len(t) : u[Len(s) + j] = t[j]
    /\ \A k \in 1..(Len(s) + Len(t)) :
        \/ k \in 1..Len(s) /\ u[k] = s[k]
        \/ k \notin 1..Len(s) /\ k - Len(s) \in 1..Len(t) /\ u[k] = t[k - Len(s)]
BothIn(S, s, t) == s \in Seq(S) /\ t \in Seq(S)

LEMMA Parts ==
    ASSUME NEW S, NEW s, NEW t, BothIn(S, s, t)
    PROVE  s \o t \in Seq(S) /\ PartsOf(s \o t, s, t)
<1>0. s \in Seq(S) /\ t \in Seq(S)
  BY DEF BothIn
<1>1. s \o t \in Seq(S) /\ Len(s \o t) = Len(s) + Len(t) /\ Len(s) \in Nat /\ Len(t) \in Nat
  BY <1>0
<1>2. \A i \in 1..Len(s) : (s \o t)[i] = s[i]
  BY <1>0
<1>3. \A j \in 1..Len(t) : (s \o t)[Len(s) + j] = t[j]
  BY <1>0
<1>4. \A k \in 1..(Len(s) + Len(t)) : k \notin 1..Len(s) => k - Len(s) \in 1..Len(t) /\ (s \o t)[k] = t[k - Len(s)]
  BY <1>0
<1>. QED  BY <1>1, <1>2, <1>3, <1>4 DEF PartsOf

\* Two rows, whose names are of different tables.
RowsApart(c, s, d, t) ==
    Row(c, s) /\ Row(d, t) /\ \A i \in 1..Len(c), j \in 1..Len(d) : c[i][1] # d[j][1]

LEMMA RowConcatenated ==
    ASSUME NEW c, NEW s, NEW d, NEW t, RowsApart(c, s, d, t)
    PROVE  Row(c \o d, s \o t) /\ PartsOf(c \o d, c, d) /\ PartsOf(s \o t, s, t) /\ Len(s) = Len(c) /\ Len(t) = Len(d)
<1>0. Row(c, s) /\ Row(d, t) /\ \A i \in 1..Len(c), j \in 1..Len(d) : c[i][1] # d[j][1]
  BY DEF RowsApart
<1>1. PICK e, u, m, n : e = c \o d /\ u = s \o t /\ m = Len(c) /\ n = Len(d)
  OBVIOUS
<1>2. /\ c \in Seq(Names) /\ d \in Seq(Names) /\ s \in Seq(Columns) /\ t \in Seq(Columns)
      /\ Len(s) = m /\ Len(t) = n /\ m \in Nat /\ n \in Nat
  BY <1>0, <1>1 DEF Row
<1>9. e \in Seq(Names) /\ PartsOf(e, c, d) /\ u \in Seq(Columns) /\ PartsOf(u, s, t)
  <2>1. BothIn(Names, c, d) /\ BothIn(Columns, s, t)
    BY <1>2 DEF BothIn
  <2>. QED  BY <1>1, <2>1, Parts
<1>3. /\ Len(e) = m + n
      /\ \A i \in 1..m : e[i] = c[i]
      /\ \A j \in 1..n : e[m + j] = d[j]
  BY <1>1, <1>9 DEF PartsOf
<1>4. Len(u) = m + n
  BY <1>2, <1>9 DEF PartsOf
<1>5. Apart(e)
  <2>1. SUFFICES ASSUME NEW i \in 1..(m + n), NEW j \in 1..(m + n), Lower(e[i]) = Lower(e[j]) PROVE i = j
    BY <1>3 DEF Apart
  <2>2. \A k \in 1..m : Lower(e[k])[1] = c[k][1] /\ e[k] = c[k]
    BY <1>1, <1>2, <1>3, NameTyped
  <2>3. \A k \in 1..(m + n) : k \notin 1..m => k - m \in 1..n /\ e[k] = d[k - m]
    <3>1. \A k \in 1..(m + n) : k \notin 1..m => k - m \in 1..n /\ m + (k - m) = k
      BY <1>2
    <3>. QED  BY <1>3, <3>1
  <2>4. \A k \in 1..n : Lower(d[k])[1] = d[k][1]
    BY <1>1, <1>2, NameTyped
  <2>5. CASE i \in 1..m /\ j \in 1..m
    BY <1>0, <1>1, <2>1, <2>2, <2>5 DEF Row, Apart
  <2>6. CASE i \notin 1..m /\ j \notin 1..m
    <3>0. PICK p \in 1..n, q \in 1..n : p = i - m /\ q = j - m /\ e[i] = d[p] /\ e[j] = d[q]
      BY <2>3, <2>6
    <3>1. p = q
      BY <1>0, <1>1, <2>1, <3>0 DEF Row, Apart
    <3>. QED  BY <1>2, <3>0, <3>1
  <2>7. CASE i \in 1..m /\ j \notin 1..m
    BY <1>0, <1>1, <2>1, <2>2, <2>3, <2>4, <2>7
  <2>8. CASE i \notin 1..m /\ j \in 1..m
    BY <1>0, <1>1, <2>1, <2>2, <2>3, <2>4, <2>8
  <2>. QED  BY <2>5, <2>6, <2>7, <2>8
<1>. QED  BY <1>1, <1>2, <1>3, <1>4, <1>5, <1>9 DEF Row

-----------------------------------------------------------------------------
(* Bindings and the columns of a row that stand for them.                  *)

NameIn(map, b) == ToUniqueColumnName(map[b])
MapTyped(map) == \A b \in DOMAIN map : map[b] \in ColStructs
\* The column at pos[i] is what bindings[i] stands for; all tables are in R.
Located(bindings, means, cols, shows, map, R, pos) ==
    /\ Row(cols, shows)
    /\ pos \in [1..Len(bindings) -> 1..Len(cols)]
    /\ \A i, j \in 1..Len(bindings) : pos[i] = pos[j] => i = j
    /\ \A i \in 1..Len(cols) : cols[i][1] \in R
    /\ \A i \in 1..Len(bindings) :
        /\ bindings[i][1] \in R
        /\ means[i] # None => shows[pos[i]] = means[i]
        /\ bindings[i] \in DOMAIN map => Lower(NameIn(map, bindings[i])) = Lower(cols[pos[i]])
\* The columns are in the order of the bindings; there may be more of them.
RowFits(bindings, means, cols, shows, map, R) ==
    /\ Row(cols, shows)
    /\ Len(bindings) <= Len(cols)
    /\ \A i \in 1..Len(cols) : cols[i][1] \in R
    /\ \A i \in 1..Len(bindings) :
        /\ i \in 1..Len(cols) /\ bindings[i][1] \in R
        /\ means[i] # None => shows[i] = means[i]
        /\ bindings[i] \in DOMAIN map => Lower(NameIn(map, bindings[i])) = Lower(cols[i])
Paired(bindings, means) == bindings \in Seq(Bindings) /\ means \in Seq(Columns) /\ Len(means) = Len(bindings)

LEMMA RowFitsFolds ==
    ASSUME NEW bindings, NEW means, NEW cols, NEW shows, NEW map, NEW R,
           Row(cols, shows), Len(bindings) \in Nat, Len(bindings) <= Len(cols),
           \A i \in 1..Len(cols) : cols[i][1] \in R,
           \A i \in 1..Len(bindings) :
                /\ bindings[i][1] \in R
                /\ means[i] # None => shows[i] = means[i]
                /\ bindings[i] \in DOMAIN map => Lower(NameIn(map, bindings[i])) = Lower(cols[i])
    PROVE  RowFits(bindings, means, cols, shows, map, R)
<1>1. Len(cols) \in Nat
  BY DEF Row
<1>2. \A i \in 1..Len(bindings) : i \in 1..Len(cols)
  BY <1>1
<1>. QED  BY <1>2 DEF RowFits

\* In particular each binding has the column at its own position.
LEMMA LocatedOne ==
    ASSUME NEW bindings, NEW means, NEW cols, NEW shows, NEW map, NEW R,
           RowFits(bindings, means, cols, shows, map, R)
    PROVE  \E pos : /\ Located(bindings, means, cols, shows, map, R, pos)
                    /\ \A i \in 1..Len(bindings) : pos[i] = i
<1>1. PICK pos : pos = [i \in 1..Len(bindings) |-> i]
  OBVIOUS
<1>2. \A i \in 1..Len(bindings) : pos[i] = i
  BY <1>1
<1>3. pos \in [1..Len(bindings) -> 1..Len(cols)]
  BY <1>1 DEF RowFits
<1>4. Located(bindings, means, cols, shows, map, R, pos)
  BY <1>2, <1>3 DEF Located, RowFits
<1>. QED  BY <1>2, <1>4

\* Who looks a binding up by its name reads what it stands for.
LEMMA LocatedReads ==
    ASSUME NEW bindings, NEW means, NEW cols, NEW shows, NEW map, NEW R, NEW pos,
           Located(bindings, means, cols, shows, map, R, pos), NEW i \in 1..Len(bindings),
           bindings[i] \in DOMAIN map
    PROVE  /\ Denotes(NameIn(map, bindings[i]), cols, shows) = shows[pos[i]]
           /\ means[i] # None => Denotes(NameIn(map, bindings[i]), cols, shows) = means[i]
<1>1. pos[i] \in 1..Len(cols) /\ Lower(NameIn(map, bindings[i])) = Lower(cols[pos[i]]) /\ Row(cols, shows)
  BY DEF Located
<1>2. Denotes(NameIn(map, bindings[i]), cols, shows) = shows[pos[i]]
  BY <1>1, DenotesOne
<1>. QED  BY <1>2 DEF Located

\* Two maps have the same names for the bindings of all tables but those in Q.
Agrees(map, other, Q) ==
    \A b : b[1] \notin Q => /\ b \in DOMAIN map <=> b \in DOMAIN other
                            /\ b \in DOMAIN map => other[b] = map[b]

LEMMA RowFitsAgree ==
    ASSUME NEW bindings, NEW means, NEW cols, NEW shows, NEW map, NEW R,
           RowFits(bindings, means, cols, shows, map, R), Len(bindings) \in Nat,
           NEW other, NEW Q, Agrees(map, other, Q), R \cap Q = {}, NEW T, R \subseteq T
    PROVE  RowFits(bindings, means, cols, shows, other, T)
<1>1. /\ Row(cols, shows)
      /\ Len(bindings) <= Len(cols)
      /\ \A i \in 1..Len(cols) : cols[i][1] \in R
      /\ \A i \in 1..Len(bindings) :
            /\ i \in 1..Len(cols) /\ bindings[i][1] \in R
            /\ means[i] # None => shows[i] = means[i]
            /\ bindings[i] \in DOMAIN map => Lower(NameIn(map, bindings[i])) = Lower(cols[i])
  BY DEF RowFits
<1>2. ASSUME NEW i \in 1..Len(bindings), bindings[i] \in DOMAIN other
      PROVE  Lower(NameIn(other, bindings[i])) = Lower(cols[i])
  <2>1. bindings[i][1] \notin Q
    BY <1>1
  <2>2. bindings[i] \in DOMAIN map /\ other[bindings[i]] = map[bindings[i]]
    BY <1>2, <2>1 DEF Agrees
  <2>. QED  BY <1>1, <2>2 DEF NameIn
<1>. QED  BY <1>1, <1>2, RowFitsFolds

\* Some of the columns, selected by their positions.
LEMMA RowFitsPick ==
    ASSUME NEW bindings, NEW means, NEW cols, NEW shows, NEW map, NEW R,
           RowFits(bindings, means, cols, shows, map, R), Paired(bindings, means),
           NEW at \in Seq(1..Len(bindings)), NoTwice(at)
    PROVE  RowFits(Pick(bindings, at), Pick(means, at), Pick(cols, at), Pick(shows, at), map, R)
<1>1. /\ Row(cols, shows)
      /\ Len(bindings) <= Len(cols)
      /\ \A i \in 1..Len(cols) : cols[i][1] \in R
      /\ \A i \in 1..Len(bindings) :
            /\ i \in 1..Len(cols) /\ bindings[i][1] \in R
            /\ means[i] # None => shows[i] = means[i]
            /\ bindings[i] \in DOMAIN map => Lower(NameIn(map, bindings[i])) = Lower(cols[i])
  BY DEF RowFits
<1>2. PICK b, m, c, s : b = Pick(bindings, at) /\ m = Pick(means, at) /\ c = Pick(cols, at) /\ s = Pick(shows, at)
  OBVIOUS
<1>3. Len(at) \in Nat /\ \A k \in 1..Len(at) : at[k] \in 1..Len(bindings)
  OBVIOUS
<1>4. Len(b) = Len(at) /\ \A k \in 1..Len(at) : b[k] = bindings[at[k]]
  BY <1>2, PickTyped DEF Paired
<1>5. \A k \in 1..Len(at) : m[k] = means[at[k]]
  <2>1. at \in Seq(1..Len(means)) /\ means \in Seq(Columns)
    BY DEF Paired
  <2>. QED  BY <1>2, <2>1, PickTyped
<1>6. at \in Seq(1..Len(cols)) /\ Len(shows) = Len(cols) /\ cols \in Seq(Names) /\ shows \in Seq(Columns)
  <2>1. \A k \in 1..Len(at) : at[k] \in 1..Len(cols)
    BY <1>1, <1>3
  <2>2. at \in Seq(1..Len(cols))
    <3>1. DOMAIN at = 1..Len(at)
      OBVIOUS
    <3>2. at \in [1..Len(at) -> 1..Len(cols)]
      BY <2>1, <3>1
    <3>. QED  BY <1>3, <3>2
  <2>. QED  BY <1>1, <2>2 DEF Row
<1>7. c \in Seq(Names) /\ Len(c) = Len(at) /\ \A k \in 1..Len(at) : c[k] = cols[at[k]]
  BY <1>2, <1>6, PickTyped
<1>8. s \in Seq(Columns) /\ Len(s) = Len(at) /\ \A k \in 1..Len(at) : s[k] = shows[at[k]]
  <2>1. at \in Seq(1..Len(shows))
    BY <1>6
  <2>. QED  BY <1>2, <1>6, <2>1, PickTyped
<1>9. Apart(c)
  BY <1>1, <1>3, <1>7 DEF Row, Apart, NoTwice
<1>10. Row(c, s)
  BY <1>7, <1>8, <1>9 DEF Row
<1>11. \A i \in 1..Len(c) : c[i][1] \in R
  BY <1>1, <1>3, <1>7
<1>12. \A i \in 1..Len(b) :
            /\ b[i][1] \in R
            /\ m[i] # None => s[i] = m[i]
            /\ b[i] \in DOMAIN map => Lower(NameIn(map, b[i])) = Lower(c[i])
  <2>1. ASSUME NEW i \in 1..Len(b)
        PROVE  /\ b[i][1] \in R
               /\ m[i] # None => s[i] = m[i]
               /\ b[i] \in DOMAIN map => Lower(NameIn(map, b[i])) = Lower(c[i])
    <3>1. PICK j \in 1..Len(bindings) : j = at[i] /\ i \in 1..Len(at)
      BY <1>3, <1>4
    <3>2. b[i] = bindings[j] /\ m[i] = means[j] /\ c[i] = cols[j] /\ s[i] = shows[j]
      BY <1>4, <1>5, <1>7, <1>8, <3>1
    <3>. QED  BY <1>1, <3>2
  <2>. QED  BY <2>1
<1>13. RowFits(b, m, c, s, map, R)
  BY <1>3, <1>4, <1>7, <1>10, <1>11, <1>12, RowFitsFolds
<1>. QED  BY <1>2, <1>13

\* Some of the columns, selected by the names of their bindings.
Looked(names, map, bindings, at) == names = [k \in 1..Len(at) |-> NameIn(map, bindings[at[k]])]

LEMMA RowFitsByName ==
    ASSUME NEW bindings, NEW means, NEW cols, NEW shows, NEW map, NEW R, NEW pos,
           Located(bindings, means, cols, shows, map, R, pos), Paired(bindings, means), MapTyped(map),
           NEW at \in Seq(1..Len(bindings)), NoTwice(at),
           \A k \in 1..Len(at) : bindings[at[k]] \in DOMAIN map,
           NEW names, Looked(names, map, bindings, at)
    PROVE  /\ RowFits(Pick(bindings, at), Pick(means, at), names, ByName(names, cols, shows), map, R)
           /\ Len(names) = Len(at) /\ Len(Pick(bindings, at)) = Len(at)
           /\ names \in Seq(Names) /\ Paired(Pick(bindings, at), Pick(means, at))
           /\ \A k \in 1..Len(at) : /\ Lower(names[k]) = Lower(cols[pos[at[k]]])
                                    /\ ByName(names, cols, shows)[k] = shows[pos[at[k]]]
<1>1. PICK b, m, s : b = Pick(bindings, at) /\ m = Pick(means, at) /\ s = ByName(names, cols, shows)
  OBVIOUS
<1>2. Len(at) \in Nat /\ \A k \in 1..Len(at) : at[k] \in 1..Len(bindings)
  OBVIOUS
<1>3. b \in Seq(Bindings) /\ Len(b) = Len(at) /\ \A k \in 1..Len(at) : b[k] = bindings[at[k]]
  BY <1>1, PickTyped DEF Paired
<1>4. m \in Seq(Columns) /\ Len(m) = Len(at) /\ \A k \in 1..Len(at) : m[k] = means[at[k]]
  <2>1. at \in Seq(1..Len(means)) /\ means \in Seq(Columns)
    BY DEF Paired
  <2>. QED  BY <1>1, <2>1, PickTyped
<1>5. \A k \in 1..Len(at) : names[k] \in Names
  BY BaseTyped DEF MapTyped, NameIn, Looked
<1>6. names \in Seq(Names) /\ Len(names) = Len(at)
  <2>1. names \in [1..Len(at) -> Names]
    BY <1>5 DEF Looked
  <2>. QED  BY <1>2, <2>1, FunctionIsSequence
<1>7. Row(cols, shows)
  BY DEF Located
<1>8. s \in Seq(Columns) /\ Len(s) = Len(at) /\ \A k \in 1..Len(at) : s[k] = Denotes(names[k], cols, shows)
  <2>1. DOMAIN names = 1..Len(at)
    BY <1>6
  <2>. QED  BY <1>1, <1>2, <1>7, <2>1, ByNameTyped
<1>9. \A k \in 1..Len(at) : pos[at[k]] \in 1..Len(cols) /\ Lower(names[k]) = Lower(cols[pos[at[k]]])
  BY <1>2 DEF Located, Looked
<1>10. \A k \in 1..Len(at) : s[k] = shows[pos[at[k]]]
  <2>1. ASSUME NEW k \in 1..Len(at) PROVE s[k] = shows[pos[at[k]]]
    <3>1. PICK p \in 1..Len(cols) : p = pos[at[k]]
      BY <1>9
    <3>2. Lower(names[k]) = Lower(cols[p])
      BY <1>9, <3>1
    <3>3. Denotes(names[k], cols, shows) = shows[p]
      BY <1>7, <3>2, DenotesOne
    <3>. QED  BY <1>8, <3>1, <3>3
  <2>. QED  BY <2>1
<1>11. Apart(names)
  <2>1. SUFFICES ASSUME NEW j \in 1..Len(at), NEW k \in 1..Len(at), Lower(names[j]) = Lower(names[k]) PROVE j = k
    BY <1>6 DEF Apart
  <2>5. PICK p \in 1..Len(cols), q \in 1..Len(cols) : p = pos[at[j]] /\ q = pos[at[k]]
    BY <1>9
  <2>4. Lower(cols[p]) = Lower(cols[q])
    BY <1>9, <2>1, <2>5
  <2>2. pos[at[j]] = pos[at[k]]
    BY <1>7, <2>4, <2>5 DEF Row, Apart
  <2>3. at[j] = at[k]
    BY <1>2, <2>2 DEF Located
  <2>. QED  BY <2>3 DEF NoTwice
<1>12. Row(names, s)
  BY <1>6, <1>8, <1>11 DEF Row
<1>13. \A k \in 1..Len(names) : names[k][1] \in R
  <2>1. ASSUME NEW k \in 1..Len(at) PROVE names[k][1] \in R
    <3>1. PICK i \in 1..Len(cols) : Lower(names[k]) = Lower(cols[i])
      BY <1>9
    <3>2. cols[i] \in Names /\ names[k] \in Names
      BY <1>5, <1>7 DEF Row
    <3>4. Lower(names[k])[1] = names[k][1] /\ Lower(cols[i])[1] = cols[i][1]
      BY <3>2, NameTyped
    <3>3. names[k][1] = cols[i][1]
      BY <3>1, <3>4
    <3>. QED  BY <3>3 DEF Located
  <2>. QED  BY <1>6, <2>1
<1>14. \A i \in 1..Len(b) :
            /\ b[i][1] \in R
            /\ m[i] # None => s[i] = m[i]
            /\ b[i] \in DOMAIN map => Lower(NameIn(map, b[i])) = Lower(names[i])
  <2>1. ASSUME NEW i \in 1..Len(b)
        PROVE  /\ b[i][1] \in R
               /\ m[i] # None => s[i] = m[i]
               /\ b[i] \in DOMAIN map => Lower(NameIn(map, b[i])) = Lower(names[i])
    <3>1. PICK j \in 1..Len(bindings) : j = at[i] /\ i \in 1..Len(at)
      BY <1>2, <1>3
    <3>2. b[i] = bindings[j] /\ m[i] = means[j] /\ s[i] = shows[pos[j]] /\ names[i] = NameIn(map, b[i])
      BY <1>3, <1>4, <1>10, <3>1 DEF Looked
    <3>3. bindings[j][1] \in R /\ (means[j] # None => shows[pos[j]] = means[j])
      BY DEF Located
    <3>. QED  BY <3>2, <3>3
  <2>. QED  BY <2>1
<1>15. RowFits(b, m, names, s, map, R)
  BY <1>2, <1>3, <1>6, <1>12, <1>13, <1>14, RowFitsFolds
<1>16. Paired(b, m)
  BY <1>3, <1>4 DEF Paired
<1>. QED  BY <1>1, <1>3, <1>6, <1>9, <1>10, <1>15, <1>16

KeysApart(cs) == \A i, j \in 1..Len(cs) : Key(cs[i]) = Key(cs[j]) => i = j
\* Columns cs hold what the bindings mean; there may be more of them.
Holds(means, shows) == \A i \in 1..Len(means) : means[i] # None => shows[i] = means[i]

\* Columns an operator adds: their bindings are mapped to them.
NewColumns(bindings, means, cs, shows, map, R) ==
    /\ Len(bindings) \in Nat /\ Len(means) = Len(bindings)
    /\ cs \in Seq(ColStructs) /\ KeysApart(cs) /\ Len(bindings) <= Len(cs)
    /\ shows \in Seq(Columns) /\ Len(shows) = Len(cs) /\ Holds(means, shows)
    /\ \A i \in 1..Len(cs) : cs[i].table_index \in R
    /\ \A i \in 1..Len(bindings) : bindings[i][1] \in R /\ map[bindings[i]] = cs[i]

LEMMA FreshRow ==
    ASSUME NEW bindings, NEW means, NEW cs, NEW shows, NEW map, NEW R,
           NewColumns(bindings, means, cs, shows, map, R)
    PROVE  RowFits(bindings, means, NamesOf(cs), shows, map, R)
<1>1. PICK c : c = NamesOf(cs)
  OBVIOUS
<1>2. /\ Len(bindings) \in Nat /\ Len(means) = Len(bindings)
      /\ cs \in Seq(ColStructs) /\ KeysApart(cs) /\ Len(bindings) <= Len(cs)
      /\ shows \in Seq(Columns) /\ Len(shows) = Len(cs) /\ Holds(means, shows)
      /\ \A i \in 1..Len(cs) : cs[i].table_index \in R
      /\ \A i \in 1..Len(bindings) : bindings[i][1] \in R /\ map[bindings[i]] = cs[i]
  BY DEF NewColumns
<1>3. /\ c \in Seq(Names) /\ Len(c) = Len(cs)
      /\ \A i \in 1..Len(cs) : /\ c[i] = ToUniqueColumnName(cs[i])
                               /\ c[i][1] = cs[i].table_index
                               /\ Lower(c[i]) = Key(cs[i])
  BY <1>1, <1>2, NamesOfTyped
<1>4. Apart(c)
  BY <1>2, <1>3 DEF Apart, KeysApart
<1>5. Row(c, shows)
  BY <1>2, <1>3, <1>4 DEF Row
<1>6. \A i \in 1..Len(c) : c[i][1] \in R
  BY <1>2, <1>3
<1>7. ASSUME NEW i \in 1..Len(bindings)
      PROVE  /\ bindings[i][1] \in R
             /\ means[i] # None => shows[i] = means[i]
             /\ bindings[i] \in DOMAIN map => Lower(NameIn(map, bindings[i])) = Lower(c[i])
  <2>1. i \in 1..Len(cs) /\ i \in 1..Len(means)
    BY <1>2
  <2>2. NameIn(map, bindings[i]) = c[i]
    BY <1>2, <1>3, <2>1 DEF NameIn
  <2>. QED  BY <1>2, <2>1, <2>2 DEF Holds
<1>8. RowFits(bindings, means, c, shows, map, R)
  BY <1>2, <1>3, <1>5, <1>6, <1>7, RowFitsFolds
<1>. QED  BY <1>1, <1>8

\* Two inputs of different tables.
Beside(b, m, c, s, P, d, k, e, t, Q, map) ==
    /\ RowFits(b, m, c, s, map, P) /\ Paired(b, m)
    /\ RowFits(d, k, e, t, map, Q) /\ Paired(d, k)
    /\ P \cap Q = {}
\* Where what the bindings of two inputs stand for is among the columns of both.
Shifted(b, c, d, e, pos) ==
    /\ \A i \in 1..Len(b) : i \in 1..Len(c) /\ pos[i] = i
    /\ \A j \in 1..Len(d) : j \in 1..Len(e) /\ pos[Len(b) + j] = Len(c) + j

LEMMA LocatedPair ==
    ASSUME NEW b, NEW m, NEW c, NEW s, NEW map, NEW P, NEW d, NEW k, NEW e, NEW t, NEW Q,
           Beside(b, m, c, s, P, d, k, e, t, Q, map)
    PROVE  \E pos : Located(b \o d, m \o k, c \o e, s \o t, map, P \cup Q, pos) /\ Shifted(b, c, d, e, pos)
<1>1. PICK bd, mk, ce, st : bd = b \o d /\ mk = m \o k /\ ce = c \o e /\ st = s \o t
  OBVIOUS
<1>2. /\ b \in Seq(Bindings) /\ d \in Seq(Bindings) /\ m \in Seq(Columns) /\ k \in Seq(Columns)
      /\ Len(m) = Len(b) /\ Len(k) = Len(d) /\ Len(b) \in Nat /\ Len(d) \in Nat
  BY DEF Beside, Paired
<1>3. /\ Row(c, s) /\ Len(b) <= Len(c)
      /\ \A i \in 1..Len(c) : c[i][1] \in P
      /\ \A i \in 1..Len(b) :
            /\ i \in 1..Len(c) /\ b[i][1] \in P
            /\ m[i] # None => s[i] = m[i]
            /\ b[i] \in DOMAIN map => Lower(NameIn(map, b[i])) = Lower(c[i])
  <2>1. RowFits(b, m, c, s, map, P)
    BY DEF Beside
  <2>. QED  BY <2>1 DEF RowFits
<1>4. /\ Row(e, t) /\ Len(d) <= Len(e)
      /\ \A i \in 1..Len(e) : e[i][1] \in Q
      /\ \A i \in 1..Len(d) :
            /\ i \in 1..Len(e) /\ d[i][1] \in Q
            /\ k[i] # None => t[i] = k[i]
            /\ d[i] \in DOMAIN map => Lower(NameIn(map, d[i])) = Lower(e[i])
  <2>1. RowFits(d, k, e, t, map, Q)
    BY DEF Beside
  <2>. QED  BY <2>1 DEF RowFits
<1>5. \A i \in 1..Len(c), j \in 1..Len(e) : c[i][1] # e[j][1]
  BY <1>3, <1>4 DEF Beside
<1>6. /\ Row(ce, st)
      /\ Len(c) \in Nat /\ Len(e) \in Nat
      /\ Len(ce) = Len(c) + Len(e)
      /\ \A i \in 1..Len(c) : ce[i] = c[i] /\ st[i] = s[i]
      /\ \A j \in 1..Len(e) : ce[Len(c) + j] = e[j] /\ st[Len(c) + j] = t[j]
  <2>1. RowsApart(c, s, e, t)
    BY <1>3, <1>4, <1>5 DEF RowsApart
  <2>2. Row(ce, st) /\ PartsOf(ce, c, e) /\ PartsOf(st, s, t) /\ Len(s) = Len(c) /\ Len(t) = Len(e)
    BY <1>1, <2>1, RowConcatenated
  <2>. QED  BY <2>2 DEF PartsOf
<1>7. /\ bd \in Seq(Bindings) /\ Len(bd) = Len(b) + Len(d)
      /\ \A i \in 1..(Len(b) + Len(d)) :
            \/ i \in 1..Len(b) /\ bd[i] = b[i]
            \/ i \notin 1..Len(b) /\ i - Len(b) \in 1..Len(d) /\ bd[i] = d[i - Len(b)]
  <2>1. BothIn(Bindings, b, d)
    BY <1>2 DEF BothIn
  <2>. QED  BY <1>1, <2>1, Parts DEF PartsOf
<1>8. /\ mk \in Seq(Columns) /\ Len(mk) = Len(b) + Len(d)
      /\ \A i \in 1..(Len(b) + Len(d)) :
            \/ i \in 1..Len(b) /\ mk[i] = m[i]
            \/ i \notin 1..Len(b) /\ i - Len(b) \in 1..Len(d) /\ mk[i] = k[i - Len(b)]
  <2>1. BothIn(Columns, m, k)
    BY <1>2 DEF BothIn
  <2>2. mk \in Seq(Columns) /\ PartsOf(mk, m, k)
    BY <1>1, <2>1, Parts
  <2>. QED  BY <1>2, <2>2 DEF PartsOf
<1>9. ASSUME NEW i \in 1..Len(ce) PROVE ce[i][1] \in P \cup Q
  <2>1. CASE i \in 1..Len(c)
    BY <1>3, <1>6, <2>1
  <2>2. CASE i \notin 1..Len(c)
    <3>1. PICK j \in 1..Len(e) : i = Len(c) + j
      <4>1. i - Len(c) \in 1..Len(e) /\ i = Len(c) + (i - Len(c))
        BY <1>6, <2>2
      <4>. QED  BY <4>1
    <3>2. ce[i] = e[j]
      BY <1>6, <3>1
    <3>. QED  BY <1>4, <3>2
  <2>. QED  BY <2>1, <2>2
<1>. DEFINE at(i) == IF i \in 1..Len(b) THEN i ELSE Len(c) + (i - Len(b))
<1>10. PICK pos : pos = [i \in 1..Len(bd) |-> at(i)]
  OBVIOUS
<1>11. /\ \A i \in 1..Len(b) : i \in 1..Len(bd) /\ pos[i] = i
       /\ \A j \in 1..Len(d) : Len(b) + j \in 1..Len(bd) /\ pos[Len(b) + j] = Len(c) + j
  <2>1. \A i \in 1..Len(b) : i \in 1..Len(bd)
    BY <1>2, <1>7
  <2>2. \A j \in 1..Len(d) : Len(b) + j \in 1..Len(bd) /\ Len(b) + j \notin 1..Len(b) /\ Len(b) + j - Len(b) = j
    BY <1>2, <1>7
  <2>. QED  BY <1>10, <2>1, <2>2
<1>12. \A i \in 1..Len(bd) : \/ i \in 1..Len(b)
                             \/ i \notin 1..Len(b) /\ i - Len(b) \in 1..Len(d) /\ i = Len(b) + (i - Len(b))
  BY <1>2, <1>7
<1>13. pos \in [1..Len(bd) -> 1..Len(ce)]
  <2>1. ASSUME NEW i \in 1..Len(bd) PROVE at(i) \in 1..Len(ce)
    <3>1. CASE i \in 1..Len(b)
      BY <1>2, <1>3, <1>6, <3>1
    <3>2. CASE i \notin 1..Len(b)
      BY <1>4, <1>6, <1>12, <3>2
    <3>. QED  BY <3>1, <3>2
  <2>. HIDE DEF at
  <2>. QED  BY <1>10, <2>1
<1>14. ASSUME NEW i \in 1..Len(bd), NEW j \in 1..Len(bd), pos[i] = pos[j] PROVE i = j
  <2>1. \A h \in 1..Len(bd) : pos[h] = at(h)
    BY <1>10
  <2>2. \A h \in 1..Len(b) : h <= Len(c)
    BY <1>2, <1>3, <1>6
  <2>. QED  BY <1>2, <1>6, <1>12, <1>14, <2>1, <2>2
<1>15. ASSUME NEW i \in 1..Len(bd)
       PROVE  /\ bd[i][1] \in P \cup Q
              /\ mk[i] # None => st[pos[i]] = mk[i]
              /\ bd[i] \in DOMAIN map => Lower(NameIn(map, bd[i])) = Lower(ce[pos[i]])
  <2>1. CASE i \in 1..Len(b)
    <3>1. bd[i] = b[i] /\ mk[i] = m[i] /\ ce[pos[i]] = c[i] /\ st[pos[i]] = s[i]
      BY <1>3, <1>6, <1>7, <1>8, <1>11, <2>1
    <3>. QED  BY <1>3, <2>1, <3>1
  <2>2. CASE i \notin 1..Len(b)
    <3>1. PICK j \in 1..Len(d) : i = Len(b) + j /\ bd[i] = d[j] /\ mk[i] = k[j]
      BY <1>7, <1>8, <1>12, <2>2
    <3>2. j \in 1..Len(e) /\ pos[i] = Len(c) + j
      BY <1>4, <1>11, <3>1
    <3>3. ce[pos[i]] = e[j] /\ st[pos[i]] = t[j]
      BY <1>6, <3>1, <3>2
    <3>. QED  BY <1>4, <3>1, <3>3
  <2>. QED  BY <2>1, <2>2
<1>. HIDE DEF at
<1>16. PICK T : T = P \cup Q
  OBVIOUS
<1>17. Located(bd, mk, ce, st, map, T, pos)
  BY <1>6, <1>9, <1>13, <1>14, <1>15, <1>16 DEF Located
<1>18. Shifted(b, c, d, e, pos)
  BY <1>3, <1>4, <1>11 DEF Shifted
<1>. QED  BY <1>1, <1>16, <1>17, <1>18

\* Two rows of different tables; the first has no column but those of its bindings.
LEMMA RowFitsTogether ==
    ASSUME NEW b, NEW m, NEW c, NEW s, NEW map, NEW P, NEW d, NEW k, NEW e, NEW t, NEW Q,
           Beside(b, m, c, s, P, d, k, e, t, Q, map), Len(b) = Len(c)
    PROVE  RowFits(b \o d, m \o k, c \o e, s \o t, map, P \cup Q)
<1>1. PICK bd, mk, ce, st, T : bd = b \o d /\ mk = m \o k /\ ce = c \o e /\ st = s \o t /\ T = P \cup Q
  OBVIOUS
<1>2. PICK pos : Located(bd, mk, ce, st, map, T, pos) /\ Shifted(b, c, d, e, pos)
  BY <1>1, LocatedPair
<1>3. Len(b) \in Nat /\ Len(d) \in Nat /\ Len(bd) = Len(b) + Len(d)
  <2>1. BothIn(Bindings, b, d)
    BY DEF Beside, Paired, BothIn
  <2>. QED  BY <1>1, <2>1, Parts DEF PartsOf
<1>4. \A i \in 1..Len(bd) : i \in 1..Len(b) \/ (i - Len(b) \in 1..Len(d) /\ i = Len(b) + (i - Len(b)))
  BY <1>3
<1>5. \A i \in 1..Len(bd) : pos[i] = i
  BY <1>2, <1>4 DEF Shifted
<1>6. RowFits(bd, mk, ce, st, map, T)
  <2>1. Row(ce, st) /\ Len(bd) \in Nat /\ Len(ce) \in Nat
    BY <1>2, <1>3 DEF Located, Row
  <2>2. \A i \in 1..Len(bd) : i \in 1..Len(ce)
    BY <1>2, <1>5 DEF Located
  <2>3. Len(bd) <= Len(ce)
    <3>1. Len(bd) # 0 => Len(bd) \in 1..Len(bd)
      BY <2>1
    <3>. QED  BY <2>1, <2>2, <3>1
  <2>. QED  BY <1>2, <1>5, <2>1, <2>2, <2>3 DEF Located, RowFits
<1>. QED  BY <1>1, <1>6

\* One more column, of a name no other has.
OneColumnMore(e, t, c, s, name, v) == e = c \o <<name>> /\ t = s \o <<v>>

LEMMA RowFitsMore ==
    ASSUME NEW b, NEW m, NEW c, NEW s, NEW map, NEW R, RowFits(b, m, c, s, map, R), Len(b) \in Nat,
           NEW name \in Names, name[1] \in R, \A i \in 1..Len(c) : Lower(c[i]) # Lower(name), NEW v \in Columns,
           NEW e, NEW t, OneColumnMore(e, t, c, s, name, v)
    PROVE  /\ RowFits(b, m, e, t, map, R)
           /\ Len(c) \in Nat /\ Len(e) = Len(c) + 1
           /\ \A i \in 1..Len(c) : e[i] = c[i] /\ t[i] = s[i]
           /\ e[Len(c) + 1] = name /\ t[Len(c) + 1] = v
<1>1. e = c \o <<name>> /\ t = s \o <<v>>
  BY DEF OneColumnMore
<1>2. /\ Row(c, s) /\ Len(b) <= Len(c)
      /\ \A i \in 1..Len(c) : c[i][1] \in R
      /\ \A i \in 1..Len(b) :
            /\ i \in 1..Len(c) /\ b[i][1] \in R
            /\ m[i] # None => s[i] = m[i]
            /\ b[i] \in DOMAIN map => Lower(NameIn(map, b[i])) = Lower(c[i])
  BY DEF RowFits
<1>3. c \in Seq(Names) /\ s \in Seq(Columns) /\ Len(s) = Len(c) /\ Len(c) \in Nat
  BY <1>2 DEF Row
<1>4. /\ e \in Seq(Names) /\ Len(e) = Len(c) + 1 /\ e[Len(c) + 1] = name
      /\ \A i \in 1..Len(c) : e[i] = c[i]
  <2>1. PICK w : w = <<name>>
    OBVIOUS
  <2>3. w \in Seq(Names) /\ Len(w) = 1 /\ w[1] = name
    BY <2>1
  <2>2. e = c \o w
    BY <1>1, <2>1
  <2>4. BothIn(Names, c, w)
    BY <1>3, <2>3 DEF BothIn
  <2>5. e \in Seq(Names) /\ PartsOf(e, c, w)
    BY <2>2, <2>4, Parts
  <2>6. 1 \in 1..Len(w)
    BY <2>3
  <2>. QED  BY <1>3, <2>3, <2>5, <2>6 DEF PartsOf
<1>5. /\ t \in Seq(Columns) /\ Len(t) = Len(c) + 1 /\ t[Len(c) + 1] = v
      /\ \A i \in 1..Len(c) : t[i] = s[i]
  <2>1. PICK w : w = <<v>>
    OBVIOUS
  <2>3. w \in Seq(Columns) /\ Len(w) = 1 /\ w[1] = v
    BY <2>1
  <2>2. t = s \o w
    BY <1>1, <2>1
  <2>4. BothIn(Columns, s, w)
    BY <1>3, <2>3 DEF BothIn
  <2>5. t \in Seq(Columns) /\ PartsOf(t, s, w)
    BY <2>2, <2>4, Parts
  <2>6. 1 \in 1..Len(w)
    BY <2>3
  <2>. QED  BY <1>3, <2>3, <2>5, <2>6 DEF PartsOf
<1>6. \A i \in 1..Len(e) : i \in 1..Len(c) \/ i = Len(c) + 1
  BY <1>3, <1>4
<1>7. Apart(e)
  <2>1. SUFFICES ASSUME NEW i \in 1..Len(e), NEW j \in 1..Len(e), Lower(e[i]) = Lower(e[j]) PROVE i = j
    BY DEF Apart
  <2>2. CASE i \in 1..Len(c) /\ j \in 1..Len(c)
    BY <1>2, <1>4, <2>1, <2>2 DEF Row, Apart
  <2>3. CASE ~(i \in 1..Len(c) /\ j \in 1..Len(c))
    BY <1>4, <1>6, <2>1, <2>3
  <2>. QED  BY <2>2, <2>3
<1>8. Row(e, t)
  BY <1>4, <1>5, <1>7 DEF Row
<1>9. \A i \in 1..Len(e) : e[i][1] \in R
  BY <1>2, <1>4, <1>6
<1>10. \A i \in 1..Len(b) : /\ b[i][1] \in R
                            /\ m[i] # None => t[i] = m[i]
                            /\ b[i] \in DOMAIN map => Lower(NameIn(map, b[i])) = Lower(e[i])
  BY <1>2, <1>4, <1>5
<1>11. Len(b) <= Len(e)
  BY <1>2, <1>3, <1>4
<1>12. RowFits(b, m, e, t, map, R)
  BY <1>8, <1>9, <1>10, <1>11, RowFitsFolds
<1>. QED  BY <1>1, <1>3, <1>4, <1>5, <1>12

-----------------------------------------------------------------------------
(* What is read.                                                           *)

\* What pairs of refs look up is in one of the columns.
Finds(refs, cols, shows, map) ==
    \A p \in refs : p[1] \in DOMAIN map =>
        \E i \in 1..Len(cols) : Lower(NameIn(map, p[1])) = Lower(cols[i]) /\ shows[i] = p[2]
RightReads(seen) == \A p \in seen : p[1] = p[2]

LEMMA FindsReads ==
    ASSUME NEW refs, NEW cols, NEW shows, Row(cols, shows), Finds(refs, cols, shows, column_map),
           NEW node, node.cols = cols, node.shows = shows
    PROVE  RightReads(ReadAll(refs, node))
<1>1. CASE Keys(refs) \subseteq DOMAIN column_map
  <2>1. ASSUME NEW p \in refs PROVE Denotes(FindColumnBinding(p[1]), cols, shows) = p[2]
    <3>1. p[1] \in DOMAIN column_map
      BY <1>1 DEF Keys
    <3>2. PICK i \in 1..Len(cols) : Lower(NameIn(column_map, p[1])) = Lower(cols[i]) /\ shows[i] = p[2]
      BY <3>1 DEF Finds
    <3>. QED  BY <3>2, DenotesOne DEF FindColumnBinding, NameIn
  <2>2. \A q \in ReadByName(refs, cols, shows) : q[1] = q[2]
    BY <2>1 DEF ReadByName
  <2>. QED  BY <1>1, <2>2 DEF ReadAll, RightReads
<1>2. CASE ~(Keys(refs) \subseteq DOMAIN column_map)
  BY <1>2 DEF ReadAll, RightReads
<1>. QED  BY <1>1, <1>2

LEMMA FindsUnion ==
    ASSUME NEW refs, NEW more, NEW cols, NEW shows, NEW map,
           Finds(refs, cols, shows, map), Finds(more, cols, shows, map)
    PROVE  Finds(refs \cup more, cols, shows, map)
  BY DEF Finds

LEMMA FindsPart ==
    ASSUME NEW refs, NEW cols, NEW shows, NEW map, Finds(refs, cols, shows, map), NEW less, less \subseteq refs
    PROVE  Finds(less, cols, shows, map)
  BY DEF Finds

\* What is found in one of two inputs is found in both.
LEMMA FindsWider ==
    ASSUME NEW refs, NEW c, NEW s, NEW e, NEW t, NEW ce, NEW st, PartsOf(ce, c, e), PartsOf(st, s, t), Len(s) = Len(c),
           Len(t) = Len(e), NEW map, Finds(refs, c, s, map) \/ Finds(refs, e, t, map)
    PROVE  Finds(refs, ce, st, map)
<1>1. SUFFICES ASSUME NEW p \in refs, p[1] \in DOMAIN map
               PROVE  \E i \in 1..Len(ce) : Lower(NameIn(map, p[1])) = Lower(ce[i]) /\ st[i] = p[2]
  BY DEF Finds
<1>2. CASE Finds(refs, c, s, map)
  <2>1. PICK i \in 1..Len(c) : Lower(NameIn(map, p[1])) = Lower(c[i]) /\ s[i] = p[2]
    BY <1>1, <1>2 DEF Finds
  <2>2. i \in 1..Len(ce) /\ ce[i] = c[i] /\ st[i] = s[i]
    BY DEF PartsOf
  <2>. QED  BY <2>1, <2>2
<1>3. CASE Finds(refs, e, t, map)
  <2>1. PICK i \in 1..Len(e) : Lower(NameIn(map, p[1])) = Lower(e[i]) /\ t[i] = p[2]
    BY <1>1, <1>3 DEF Finds
  <2>2. Len(c) + i \in 1..Len(ce) /\ ce[Len(c) + i] = e[i] /\ st[Len(c) + i] = t[i]
    BY DEF PartsOf
  <2>. QED  BY <2>1, <2>2
<1>. QED  BY <1>2, <1>3

-----------------------------------------------------------------------------
(* Nodes whose columns fit their bindings.                                 *)

\* Whoever refers to a group by the column it groups gets the group.
StaleFits(stale, bindings, cols, shows, map, R) ==
    \A x \in stale :
        /\ x[1] \in DOMAIN map /\ x[1][1] \in R /\ x[2] # None
        /\ \E i \in 1..Len(bindings) : bindings[i] = x[3]
        /\ \A i \in 1..Len(bindings) : bindings[i] = x[3] =>
                Lower(NameIn(map, x[1])) = Lower(cols[i]) /\ shows[i] = x[2]
\* A column a parent may ask for is not in the way of another one; of a join, it is one of
\* its columns or none but for the case.
ExtraFits(kind, extra, cols, shows, map, R) ==
    /\ \A x \in extra :
        /\ x[1] \in DOMAIN map /\ x[1][1] \in R /\ NameIn(map, x[1])[1] \in R
        /\ x[3] = x[2] /\ x[2] # None /\ x[2] \in Columns
        /\ \A i \in 1..Len(cols) : Lower(NameIn(map, x[1])) = Lower(cols[i]) => shows[i] = x[2]
        /\ kind = "Project" => \E i \in 1..Len(cols) : Lower(NameIn(map, x[1])) = Lower(cols[i])
        /\ kind = "Join" => \A i \in 1..Len(cols) : Lower(NameIn(map, x[1])) = Lower(cols[i]) => NameIn(map, x[1]) = cols[i]
    /\ \A x, y \in extra : Lower(NameIn(map, x[1])) = Lower(NameIn(map, y[1])) =>
            x[2] = y[2] /\ NameIn(map, x[1]) = NameIn(map, y[1])
    /\ kind = "Project" => \A x, y \in extra : x = y
Fits(node, map, R) ==
    /\ RowFits(node.bindings, node.means, node.cols, node.shows, map, R)
    /\ Len(node.cols) <= MaxColumns
    /\ StaleFits(node.stale, node.bindings, node.cols, node.shows, map, R)
    /\ ExtraFits(node.kind, node.extra, node.cols, node.shows, map, R)

LEMMA StaleFitsAgree ==
    ASSUME NEW stale, NEW bindings, NEW cols, NEW shows, NEW map, NEW R,
           StaleFits(stale, bindings, cols, shows, map, R),
           NEW other, NEW Q, Agrees(map, other, Q), R \cap Q = {}, NEW T, R \subseteq T
    PROVE  StaleFits(stale, bindings, cols, shows, other, T)
<1>1. SUFFICES ASSUME NEW x \in stale
               PROVE  /\ x[1] \in DOMAIN other /\ x[1][1] \in T /\ x[2] # None
                      /\ \E i \in 1..Len(bindings) : bindings[i] = x[3]
                      /\ \A i \in 1..Len(bindings) : bindings[i] = x[3] =>
                            Lower(NameIn(other, x[1])) = Lower(cols[i]) /\ shows[i] = x[2]
  BY DEF StaleFits
<1>2. /\ x[1] \in DOMAIN map /\ x[1][1] \in R /\ x[2] # None
      /\ \E i \in 1..Len(bindings) : bindings[i] = x[3]
      /\ \A i \in 1..Len(bindings) : bindings[i] = x[3] =>
            Lower(NameIn(map, x[1])) = Lower(cols[i]) /\ shows[i] = x[2]
  BY DEF StaleFits
<1>3. x[1] \in DOMAIN other /\ other[x[1]] = map[x[1]]
  BY <1>2 DEF Agrees
<1>. QED  BY <1>2, <1>3 DEF NameIn

LEMMA ExtraFitsAgree ==
    ASSUME NEW kind, NEW extra, NEW cols, NEW shows, NEW map, NEW R, ExtraFits(kind, extra, cols, shows, map, R),
           NEW other, NEW Q, Agrees(map, other, Q), R \cap Q = {}, NEW T, R \subseteq T
    PROVE  ExtraFits(kind, extra, cols, shows, other, T)
<1>1. \A x \in extra : x[1] \in DOMAIN other /\ NameIn(other, x[1]) = NameIn(map, x[1])
  <2>1. ASSUME NEW x \in extra PROVE x[1] \in DOMAIN other /\ NameIn(other, x[1]) = NameIn(map, x[1])
    <3>1. x[1] \in DOMAIN map /\ x[1][1] \in R
      BY DEF ExtraFits
    <3>2. x[1] \in DOMAIN other /\ other[x[1]] = map[x[1]]
      BY <3>1 DEF Agrees
    <3>. QED  BY <3>2 DEF NameIn
  <2>. QED  BY <2>1
<1>. QED  BY <1>1 DEF ExtraFits

LEMMA FitsAgree ==
    ASSUME NEW node, NEW map, NEW R, Fits(node, map, R), Len(node.bindings) \in Nat,
           NEW other, NEW Q, Agrees(map, other, Q), R \cap Q = {}, NEW T, R \subseteq T
    PROVE  Fits(node, other, T)
<1>1. RowFits(node.bindings, node.means, node.cols, node.shows, other, T)
  BY RowFitsAgree DEF Fits
<1>2. StaleFits(node.stale, node.bindings, node.cols, node.shows, other, T)
  BY StaleFitsAgree DEF Fits
<1>3. ExtraFits(node.kind, node.extra, node.cols, node.shows, other, T)
  BY ExtraFitsAgree DEF Fits
<1>. QED  BY <1>1, <1>2, <1>3 DEF Fits

LEMMA RowWider ==
    ASSUME NEW b, NEW m, NEW c, NEW s, NEW map, NEW R, RowFits(b, m, c, s, map, R), NEW T, R \subseteq T
    PROVE  RowFits(b, m, c, s, map, T)
  BY DEF RowFits

\* What the parent of a subtree refers to is found.
LEMMA RefsFound ==
    ASSUME NEW node, NEW map, NEW R, Fits(node, map, R), NEW D, Covered(node, D)
    PROVE  /\ Finds(Refs(node), node.cols, node.shows, map)
           /\ Finds(node.stale, node.cols, node.shows, map)
           /\ Finds(Refs(node) \cup node.stale, node.cols, node.shows, map)
           /\ Row(node.cols, node.shows)
<1>1. PICK b, m, c, s : b = node.bindings /\ m = node.means /\ c = node.cols /\ s = node.shows
  OBVIOUS
<1>2. RowFits(b, m, c, s, map, R) /\ StaleFits(node.stale, b, c, s, map, R)
  BY <1>1 DEF Fits
<1>3. DOMAIN b = 1..Len(b)
  BY <1>1 DEF Covered
<1>4. ASSUME NEW p \in Refs(node), p[1] \in DOMAIN map
      PROVE  \E i \in 1..Len(c) : Lower(NameIn(map, p[1])) = Lower(c[i]) /\ s[i] = p[2]
  <2>1. PICK i \in 1..Len(b) : m[i] # None /\ p = <<b[i], m[i]>>
    BY <1>1, <1>3 DEF Refs
  <2>2. p[1] = b[i] /\ p[2] = m[i]
    BY <2>1
  <2>3. i \in 1..Len(c) /\ Lower(NameIn(map, b[i])) = Lower(c[i]) /\ s[i] = m[i]
    BY <1>2, <1>4, <2>1, <2>2 DEF RowFits
  <2>. QED  BY <2>2, <2>3
<1>5. ASSUME NEW x \in node.stale
      PROVE  \E i \in 1..Len(c) : Lower(NameIn(map, x[1])) = Lower(c[i]) /\ s[i] = x[2]
  <2>1. PICK i \in 1..Len(b) : b[i] = x[3]
    BY <1>2 DEF StaleFits
  <2>2. Lower(NameIn(map, x[1])) = Lower(c[i]) /\ s[i] = x[2]
    BY <1>2, <2>1 DEF StaleFits
  <2>3. i \in 1..Len(c)
    BY <1>2 DEF RowFits
  <2>. QED  BY <2>2, <2>3
<1>6. Finds(Refs(node), c, s, map)
  BY <1>4 DEF Finds
<1>7. Finds(node.stale, c, s, map)
  BY <1>5 DEF Finds
<1>8. Row(c, s)
  BY <1>2 DEF RowFits
<1>. QED  BY <1>1, <1>6, <1>7, <1>8, FindsUnion

LEMMA NodeParts ==
    ASSUME NEW kind, NEW kids, NEW bindings, NEW means, NEW cols, NEW shows, NEW node,
           node = Node(kind, kids, bindings, means, cols, shows)
    PROVE  /\ DOMAIN node = NodeFields
           /\ node.kind = kind /\ node.bindings = bindings /\ node.means = means /\ node.cols = cols
           /\ node.shows = shows /\ node.stale = {} /\ node.extra = {}
           /\ node.from = IF kids = << >> THEN index ELSE kids[1].from
           /\ node.delims = UNION {kids[i].delims : i \in DOMAIN kids}
<1>1. PICK from, delims : /\ from = IF kids = << >> THEN index ELSE kids[1].from
                          /\ delims = UNION {kids[i].delims : i \in DOMAIN kids}
  OBVIOUS
<1>2. node = [kind |-> kind, bindings |-> bindings, means |-> means, cols |-> cols, shows |-> shows,
              from |-> from, delims |-> delims, stale |-> {}, extra |-> {}]
  BY <1>1 DEF Node
<1>3. DOMAIN node = NodeFields
  BY <1>2 DEF NodeFields
<1>. QED  BY <1>1, <1>2, <1>3

LEMMA KidsDelims ==
    /\ UNION {<< >>[i].delims : i \in DOMAIN << >>} = {}
    /\ \A n : UNION {<<n>>[i].delims : i \in DOMAIN <<n>>} = n.delims
    /\ \A l, r : UNION {<<l, r>>[i].delims : i \in DOMAIN <<l, r>>} = l.delims \cup r.delims
<1>1. DOMAIN << >> = {}
  OBVIOUS
<1>2. ASSUME NEW n PROVE UNION {<<n>>[i].delims : i \in DOMAIN <<n>>} = n.delims
  <2>1. DOMAIN <<n>> = {1} /\ <<n>>[1] = n
    OBVIOUS
  <2>. QED  BY <2>1
<1>3. ASSUME NEW l, NEW r PROVE UNION {<<l, r>>[i].delims : i \in DOMAIN <<l, r>>} = l.delims \cup r.delims
  <2>1. DOMAIN <<l, r>> = {1, 2} /\ <<l, r>>[1] = l /\ <<l, r>>[2] = r
    OBVIOUS
  <2>2. PICK kids : kids = <<l, r>>
    OBVIOUS
  <2>3. {kids[i].delims : i \in DOMAIN kids} = {l.delims, r.delims}
    BY <2>1, <2>2
  <2>4. UNION {l.delims, r.delims} = l.delims \cup r.delims
    OBVIOUS
  <2>. QED  BY <2>2, <2>3, <2>4
<1>4. UNION {<< >>[i].delims : i \in DOMAIN << >>} = {}
  BY <1>1
<1>. QED  BY <1>2, <1>3, <1>4

\* A node nobody refers to in another way than by its bindings.
LEMMA PlainFits ==
    ASSUME NEW node, NEW map, NEW R, RowFits(node.bindings, node.means, node.cols, node.shows, map, R),
           Len(node.cols) <= MaxColumns, node.stale = {}, node.extra = {}
    PROVE  Fits(node, map, R)
  BY DEF Fits, StaleFits, ExtraFits

-----------------------------------------------------------------------------
(* The stack: which tables the names of an item may have.                  *)

IsSetOp(item) == IsFrame(item) /\ item.kind \in SetOps
\* Table indices an open operator has taken for columns it hands to its second subtree.
Held(item) ==
    IF ~IsFrame(item) \/ IsSetOp(item) THEN {}
    ELSE IF item.kind = "DelimJoin" THEN item.promised ELSE {item.at}
\* A[i]: the tables of item i.  The right branch of a set operation may use those of the left one.
Area(w, A, i) == IF IsSetOp(w[i]) THEN {} ELSE A[i]
\* Tables of one item are not those of another, except that DELIM_GETs have their delim join's.
Layout(w, A, ix) ==
    /\ \A i \in 1..Len(w) : \A t \in Area(w, A, i) \cup Held(w[i]) :
        t \in Int /\ t < ix /\ \A j \in (i + 1)..Len(w) : t < NodeOf(w[j]).from
    /\ \A i, j \in 1..Len(w) : \A t \in Area(w, A, i) : t \in Area(w, A, j) => i = j
    /\ \A k, i \in 1..Len(w) : \A t \in Held(w[k]) :
        /\ t \in Held(w[i]) => i = k
        /\ t \in Area(w, A, i) => i > k /\ w[k].kind = "DelimJoin" /\ t \in NodeOf(w[i]).delims

\* x is the first to read the DELIM_GET t, of a delim join that stays open.
Opened(w, m, x, t) ==
    \E k \in 1..m : /\ t \in Held(w[k]) /\ t \in x.delims /\ w[k].kind = "DelimJoin"
                    /\ \A j \in (k + 1)..m : t \notin NodeOf(w[j]).delims
\* The first m items of w stay, and x, whose tables are Q, takes the place of the others.
Placing(w, A, ix, iy, m, x, Q) ==
    /\ ix \in Int /\ iy \in Int /\ ix <= iy /\ m \in 0..Len(w)
    /\ ~IsFrame(x)
    /\ x.from = ix \/ \E j \in (m + 1)..Len(w) : x.from = NodeOf(w[j]).from
    /\ \A t \in Q : /\ t \in Int
                    /\ \/ ix <= t /\ t < iy
                       \/ \E j \in (m + 1)..Len(w) : t \in Area(w, A, j) \/ t \in Held(w[j])
                       \/ Opened(w, m, x, t)
    /\ \A j \in (m + 1)..Len(w), k \in 1..m : \A t \in Held(w[k]) : t \in NodeOf(w[j]).delims => t \in x.delims
Extended(A, m, Q) == [i \in 1..(m + 1) |-> IF i = m + 1 THEN Q ELSE A[i]]
SamePrefix(v, w, B, A, m) == \A i \in 1..m : v[i] = w[i] /\ B[i] = A[i]

LEMMA PlacingStack ==
    ASSUME NEW w, IsStack(w), NEW m \in 0..Len(w), NEW x, NEW v, Replaced(v, w, Len(w) - m, x)
    PROVE  Len(w) \in Nat /\ Len(v) = m + 1 /\ v[m + 1] = x /\ \A i \in 1..m : v[i] = w[i]
<1>1. Len(w) \in Nat
  <2>1. PICK R : R = {w[i] : i \in DOMAIN w}
    OBVIOUS
  <2>2. w \in Seq(R)
    BY <2>1 DEF IsStack
  <2>. QED  BY <2>2
<1>2. Len(w) - m \in 0..Len(w) /\ Len(w) - (Len(w) - m) = m
  BY <1>1
<1>. QED  BY <1>1, <1>2, Stacked

\* No table of what stays is among those of what comes.
LEMMA PlacingApart ==
    ASSUME NEW w, NEW A, NEW ix, Layout(w, A, ix), NEW iy, NEW m, NEW x, NEW Q, Placing(w, A, ix, iy, m, x, Q),
           Len(w) \in Nat, NEW i \in 1..m
    PROVE  /\ \A t \in Area(w, A, i) : t \notin Q
           /\ \A t \in Held(w[i]) : t \in Q => w[i].kind = "DelimJoin" /\ t \in x.delims
<1>1. i \in 1..Len(w) /\ \A j \in (m + 1)..Len(w) : j \in 1..Len(w) /\ j # i /\ j > i
  BY DEF Placing
<1>2. ASSUME NEW t \in Area(w, A, i) PROVE t \notin Q
  <2>1. SUFFICES ASSUME t \in Q PROVE FALSE
    OBVIOUS
  <2>2. t \in Int /\ t < ix /\ ix \in Int
    BY <1>1 DEF Layout, Placing
  <2>3. (\E j \in (m + 1)..Len(w) : t \in Area(w, A, j) \/ t \in Held(w[j])) \/ Opened(w, m, x, t)
    BY <2>1, <2>2 DEF Placing
  <2>4. ASSUME NEW j \in (m + 1)..Len(w), t \in Area(w, A, j) PROVE FALSE
    BY <1>1, <2>4 DEF Layout
  <2>5. ASSUME NEW j \in (m + 1)..Len(w), t \in Held(w[j]) PROVE FALSE
    BY <1>1, <2>5 DEF Layout
  <2>6. CASE Opened(w, m, x, t)
    <3>1. PICK k \in 1..m : t \in Held(w[k]) /\ \A j \in (k + 1)..m : t \notin NodeOf(w[j]).delims
      BY <2>6 DEF Opened
    <3>2. k \in 1..Len(w)
      BY DEF Placing
    <3>3. i > k /\ t \in NodeOf(w[i]).delims
      BY <1>1, <3>1, <3>2 DEF Layout
    <3>. QED  BY <3>1, <3>3
  <2>. QED  BY <2>3, <2>4, <2>5, <2>6
<1>3. ASSUME NEW t \in Held(w[i]), t \in Q PROVE w[i].kind = "DelimJoin" /\ t \in x.delims
  <2>2. t \in Int /\ t < ix /\ ix \in Int
    BY <1>1 DEF Layout, Placing
  <2>3. (\E j \in (m + 1)..Len(w) : t \in Area(w, A, j) \/ t \in Held(w[j])) \/ Opened(w, m, x, t)
    BY <1>3, <2>2 DEF Placing
  <2>4. ASSUME NEW j \in (m + 1)..Len(w), t \in Area(w, A, j) \/ t \in Held(w[j])
        PROVE  w[i].kind = "DelimJoin" /\ t \in x.delims
    <3>1. j \in 1..Len(w) /\ j # i
      BY <1>1
    <3>2. t \in Area(w, A, j)
      BY <1>1, <1>3, <2>4, <3>1 DEF Layout
    <3>3. w[i].kind = "DelimJoin" /\ t \in NodeOf(w[j]).delims
      BY <1>1, <3>1, <3>2 DEF Layout
    <3>. QED  BY <3>3 DEF Placing
  <2>5. CASE Opened(w, m, x, t)
    <3>1. PICK k \in 1..m : t \in Held(w[k]) /\ w[k].kind = "DelimJoin" /\ t \in x.delims
      BY <2>5 DEF Opened
    <3>2. k \in 1..Len(w)
      BY DEF Placing
    <3>3. k = i
      BY <1>1, <1>3, <3>1, <3>2 DEF Layout
    <3>. QED  BY <3>1, <3>3
  <2>. QED  BY <2>3, <2>4, <2>5
<1>. QED  BY <1>2, <1>3

LEMMA PlacingLayout ==
    ASSUME NEW w, NEW A, NEW ix, Layout(w, A, ix), NEW iy, NEW m, NEW x, NEW Q, Placing(w, A, ix, iy, m, x, Q),
           IsStack(w), NEW v, Replaced(v, w, Len(w) - m, x), NEW B, B = Extended(A, m, Q)
    PROVE  Layout(v, B, iy) /\ SamePrefix(v, w, B, A, m) /\ Len(v) = m + 1 /\ v[m + 1] = x /\ B[m + 1] = Q
<1>1. PICK n : n = Len(w)
  OBVIOUS
<1>2. m \in 0..n
  BY <1>1 DEF Placing
<1>3. n \in Nat /\ Len(v) = m + 1 /\ v[m + 1] = x /\ \A i \in 1..m : v[i] = w[i]
  <2>1. m \in 0..Len(w)
    BY DEF Placing
  <2>. QED  BY <1>1, <2>1, PlacingStack
<1>4. B[m + 1] = Q /\ \A i \in 1..m : B[i] = A[i]
  BY <1>2, <1>3 DEF Extended
<1>5. \A i \in 1..Len(v) : i \in 1..m \/ i = m + 1
  BY <1>2, <1>3
<1>6. /\ ~IsFrame(x) /\ ~IsSetOp(x) /\ NodeOf(x) = x /\ Held(x) = {}
  BY DEF Placing, IsSetOp, NodeOf, Held
<1>7. /\ \A i \in 1..m : /\ i \in 1..n /\ Area(v, B, i) = Area(w, A, i) /\ Held(v[i]) = Held(w[i])
                         /\ NodeOf(v[i]) = NodeOf(w[i]) /\ v[i].kind = w[i].kind
      /\ Area(v, B, m + 1) = Q /\ Held(v[m + 1]) = {} /\ NodeOf(v[m + 1]) = x
  BY <1>2, <1>3, <1>4, <1>6 DEF Area
<1>8. \A i \in 1..m : /\ \A t \in Area(w, A, i) : t \notin Q
                      /\ \A t \in Held(w[i]) : t \in Q => w[i].kind = "DelimJoin" /\ t \in x.delims
  BY <1>1, <1>3, PlacingApart
<1>9. ix \in Int /\ iy \in Int /\ ix <= iy
  BY DEF Placing
<1>10. ASSUME NEW i \in 1..m, NEW t \in Area(w, A, i) \cup Held(w[i]) PROVE t < x.from /\ t \in Int /\ t < iy
  <2>1. t \in Int /\ t < ix /\ \A j \in (i + 1)..n : t < NodeOf(w[j]).from
    BY <1>1, <1>7 DEF Layout
  <2>2. \A j \in (m + 1)..n : j \in (i + 1)..n
    BY <1>2, <1>3
  <2>. QED  BY <1>1, <1>9, <2>1, <2>2 DEF Placing
<1>11. ASSUME NEW t \in Q PROVE t \in Int /\ t < iy
  <2>1. /\ t \in Int
        /\ \/ ix <= t /\ t < iy
           \/ \E j \in (m + 1)..n : t \in Area(w, A, j) \/ t \in Held(w[j])
           \/ Opened(w, m, x, t)
    BY <1>1 DEF Placing
  <2>2. ASSUME NEW j \in 1..n, t \in Area(w, A, j) \/ t \in Held(w[j]) PROVE t < ix
    BY <1>1, <2>2 DEF Layout
  <2>3. \A j \in (m + 1)..n : j \in 1..n
    BY <1>2, <1>3
  <2>4. Opened(w, m, x, t) => t < ix
    BY <1>7, <2>2 DEF Opened
  <2>. QED  BY <1>9, <2>1, <2>2, <2>3, <2>4
<1>12. ASSUME NEW i \in 1..Len(v), NEW t \in Area(v, B, i) \cup Held(v[i])
       PROVE  t \in Int /\ t < iy /\ \A j \in (i + 1)..Len(v) : t < NodeOf(v[j]).from
  <2>1. CASE i \in 1..m
    <3>1. t \in Area(w, A, i) \cup Held(w[i])
      BY <1>7, <2>1
    <3>2. \A j \in (i + 1)..n : t < NodeOf(w[j]).from
      BY <1>1, <1>7, <2>1, <3>1 DEF Layout
    <3>3. ASSUME NEW j \in (i + 1)..Len(v) PROVE t < NodeOf(v[j]).from
      <4>1. CASE j = m + 1
        BY <1>7, <1>10, <2>1, <3>1, <4>1
      <4>2. CASE j # m + 1
        <5>1. j \in 1..m /\ j \in (i + 1)..n
          BY <1>2, <1>3, <4>2
        <5>. QED  BY <1>7, <3>2, <5>1
      <4>. QED  BY <4>1, <4>2
    <3>. QED  BY <1>10, <2>1, <3>1, <3>3
  <2>2. CASE i = m + 1
    <3>1. t \in Q
      BY <1>7, <2>2
    <3>2. \A j \in (i + 1)..Len(v) : FALSE
      BY <1>2, <1>3, <2>2
    <3>. QED  BY <1>11, <3>1, <3>2
  <2>. QED  BY <1>5, <2>1, <2>2
<1>13. ASSUME NEW i \in 1..Len(v), NEW j \in 1..Len(v), NEW t \in Area(v, B, i), t \in Area(v, B, j) PROVE i = j
  <2>1. CASE i \in 1..m /\ j \in 1..m
    BY <1>1, <1>7, <1>13, <2>1 DEF Layout
  <2>2. CASE ~(i \in 1..m /\ j \in 1..m)
    BY <1>5, <1>7, <1>8, <1>13, <2>2
  <2>. QED  BY <2>1, <2>2
<1>14. ASSUME NEW k \in 1..Len(v), NEW i \in 1..Len(v), NEW t \in Held(v[k])
       PROVE  /\ t \in Held(v[i]) => i = k
              /\ t \in Area(v, B, i) => i > k /\ v[k].kind = "DelimJoin" /\ t \in NodeOf(v[i]).delims
  <2>1. k \in 1..m /\ t \in Held(w[k])
    BY <1>5, <1>7
  <2>2. CASE i \in 1..m
    BY <1>1, <1>7, <2>1, <2>2 DEF Layout
  <2>3. CASE i = m + 1
    <3>1. m + 1 > k
      BY <1>2, <2>1
    <3>. QED  BY <1>7, <1>8, <2>1, <2>3, <3>1
  <2>. QED  BY <1>5, <2>2, <2>3
<1>15. Layout(v, B, iy)
  BY <1>12, <1>13, <1>14 DEF Layout
<1>. QED  BY <1>3, <1>4, <1>15 DEF SamePrefix

-----------------------------------------------------------------------------
(* What holds of the items of the stack, under a map of names.             *)

\* The DELIM_GETs a delim join has promised read its keys, and have names of their own as long as
\* they are not used.
Promises(f, map, used, sources) ==
    \A ti \in f.promised :
        /\ ti \in DOMAIN sources
        /\ \A k \in 1..Len(f.keys) : Denotes(sources[ti][k], f.node.cols, f.node.shows) = f.keys[k][2]
        /\ ti \notin used =>
            /\ \A k \in 1..Len(f.keys) : <<ti, k>> \in DOMAIN map /\ map[<<ti, k>>].table_index = ti
            /\ \A k, l \in 1..Len(f.keys) : Key(map[<<ti, k>>]) = Key(map[<<ti, l>>]) => k = l
\* References to a CTE copy the columns of its body.
HandedOn(f, map, copies) ==
    /\ f.at \in DOMAIN copies /\ copies[f.at] = f.node.cols
    /\ f.kind = "RecursiveCte" =>
            /\ Real(f.node)
            /\ \A i \in 1..Len(f.node.bindings) :
                    <<f.at, i>> \in DOMAIN map /\ map[<<f.at, i>>] = Copied(f.at, f.node.cols)[i]
\* DELIM_GETs above item i that have been read, among the first k items.
Used(w, i, k) == UNION {NodeOf(w[j]).delims : j \in (i + 1)..k}
ItemFits(w, i, k, map, A, sources, copies) ==
    IF IsSetOp(w[i]) THEN Fits(w[i].node, w[i].scope, A[i]) /\ Real(w[i].node)
    ELSE /\ Fits(NodeOf(w[i]), map, A[i])
         /\ IsFrame(w[i]) => IF w[i].kind = "DelimJoin" THEN Promises(w[i], map, Used(w, i, k), sources)
                             ELSE HandedOn(w[i], map, copies)
AllFit(w, k, map, A, sources, copies) ==
    MapTyped(map) /\ \A i \in 1..k : ItemFits(w, i, k, map, A, sources, copies)
\* When a set operation is left, what is below it fits the map it was entered with.
ScopesFit(w, A, sources, copies) ==
    \A k \in 1..Len(w) : IsSetOp(w[k]) => AllFit(w, k, w[k].scope, A, sources, copies)
Sound(w, A, ix, map, sources, copies) ==
    Layout(w, A, ix) /\ AllFit(w, Len(w), map, A, sources, copies) /\ ScopesFit(w, A, sources, copies)
\* What was written down for the table t is still there.
SameAt(t, sources, others) == t \in DOMAIN sources => t \in DOMAIN others /\ others[t] = sources[t]
SameFor(w, m, sources, others, copies, more) ==
    \A i \in 1..m : \A t \in Held(w[i]) : SameAt(t, sources, others) /\ SameAt(t, copies, more)
NodesTyped(w) == \A i \in 1..Len(w) : Len(NodeOf(w[i]).bindings) \in Nat

\* What item i holds is not among the tables Q, unless it is read by now.
HeldStays(w, v, i, k, l, Q) ==
    \A t \in Held(w[i]) :
        IF w[i].kind = "DelimJoin" THEN t \in Q \/ t \in Used(w, i, k) => t \in Used(v, i, l) ELSE t \notin Q

\* A map that has other names for the tables Q only.
Stays(w, v, i, k, l, A, B, map, other, Q, sources, others, copies, more) ==
    /\ v[i] = w[i] /\ B[i] = A[i] /\ Len(NodeOf(w[i]).bindings) \in Nat
    /\ Agrees(map, other, Q) /\ \A t \in Area(w, A, i) : t \notin Q
    /\ HeldStays(w, v, i, k, l, Q)
    /\ \A t \in Held(w[i]) : SameAt(t, sources, others) /\ SameAt(t, copies, more)

LEMMA ItemFitsAgree ==
    ASSUME NEW w, NEW v, NEW i, NEW k, NEW l, NEW A, NEW B, NEW map, NEW other, NEW Q,
           NEW sources, NEW others, NEW copies, NEW more,
           Stays(w, v, i, k, l, A, B, map, other, Q, sources, others, copies, more),
           ItemFits(w, i, k, map, A, sources, copies)
    PROVE  ItemFits(v, i, l, other, B, others, more)
<1>0. /\ v[i] = w[i] /\ B[i] = A[i] /\ Len(NodeOf(w[i]).bindings) \in Nat
      /\ Agrees(map, other, Q) /\ \A t \in Area(w, A, i) : t \notin Q
      /\ HeldStays(w, v, i, k, l, Q)
      /\ \A t \in Held(w[i]) : SameAt(t, sources, others) /\ SameAt(t, copies, more)
  BY DEF Stays
<1>1. CASE IsSetOp(w[i])
  BY <1>0, <1>1 DEF ItemFits
<1>2. CASE ~IsSetOp(w[i])
  <2>1. Fits(NodeOf(w[i]), map, A[i]) /\ A[i] \cap Q = {}
    BY <1>0, <1>2 DEF ItemFits, Area
  <2>2. Fits(NodeOf(v[i]), other, B[i])
    BY <1>0, <2>1, FitsAgree
  <2>3. CASE IsFrame(w[i]) /\ w[i].kind = "DelimJoin"
    <3>1. Promises(w[i], map, Used(w, i, k), sources) /\ Held(w[i]) = w[i].promised
      BY <1>2, <2>3 DEF ItemFits, Held
    <3>2. ASSUME NEW ti \in w[i].promised
          PROVE  /\ ti \in DOMAIN others
                 /\ \A n \in 1..Len(w[i].keys) : Denotes(others[ti][n], w[i].node.cols, w[i].node.shows) = w[i].keys[n][2]
                 /\ ti \notin Used(v, i, l) =>
                    /\ \A n \in 1..Len(w[i].keys) : <<ti, n>> \in DOMAIN other /\ other[<<ti, n>>].table_index = ti
                    /\ \A n, h \in 1..Len(w[i].keys) : Key(other[<<ti, n>>]) = Key(other[<<ti, h>>]) => n = h
      <4>1. ti \in DOMAIN others /\ others[ti] = sources[ti]
        BY <1>0, <3>1 DEF Promises, SameAt
      <4>2. ASSUME ti \notin Used(v, i, l)
            PROVE  \A n \in 1..Len(w[i].keys) : <<ti, n>> \in DOMAIN map =>
                        <<ti, n>> \in DOMAIN other /\ other[<<ti, n>>] = map[<<ti, n>>]
        <5>1. ti \notin Q
          BY <1>0, <2>3, <3>1, <4>2 DEF HeldStays
        <5>2. \A n : <<ti, n>>[1] = ti
          OBVIOUS
        <5>. QED  BY <1>0, <5>1, <5>2 DEF Agrees
      <4>3. ti \notin Used(v, i, l) => ti \notin Used(w, i, k)
        BY <1>0, <2>3, <3>1 DEF HeldStays
      <4>. QED  BY <3>1, <4>1, <4>2, <4>3 DEF Promises
    <3>3. Promises(w[i], other, Used(v, i, l), others)
      BY <3>2 DEF Promises
    <3>. QED  BY <1>0, <1>2, <2>2, <2>3, <3>3 DEF ItemFits
  <2>4. CASE IsFrame(w[i]) /\ w[i].kind # "DelimJoin"
    <3>1. HandedOn(w[i], map, copies) /\ Held(w[i]) = {w[i].at}
      BY <1>2, <2>4 DEF ItemFits, Held
    <3>2. w[i].at \in DOMAIN more /\ more[w[i].at] = copies[w[i].at] /\ w[i].at \notin Q
      BY <1>0, <2>4, <3>1 DEF HeldStays, HandedOn, SameAt
    <3>3. \A n : <<w[i].at, n>>[1] = w[i].at
      OBVIOUS
    <3>4. \A n : <<w[i].at, n>> \in DOMAIN map =>
                    <<w[i].at, n>> \in DOMAIN other /\ other[<<w[i].at, n>>] = map[<<w[i].at, n>>]
      BY <1>0, <3>2, <3>3 DEF Agrees
    <3>5. HandedOn(w[i], other, more)
      BY <3>1, <3>2, <3>4 DEF HandedOn
    <3>. QED  BY <1>0, <1>2, <2>2, <2>4, <3>5 DEF ItemFits
  <2>5. CASE ~IsFrame(w[i])
    BY <1>0, <1>2, <2>2, <2>5 DEF ItemFits
  <2>. QED  BY <2>3, <2>4, <2>5
<1>. QED  BY <1>1, <1>2

LEMMA SameMap ==
    ASSUME NEW map
    PROVE  Agrees(map, map, {})
  BY DEF Agrees

\* What is said of the first items of the stack depends on no other.
LEMMA AllFitBelow ==
    ASSUME NEW w, NEW v, NEW A, NEW B, NEW m \in Nat, SamePrefix(v, w, B, A, m), NEW k \in 0..m,
           m <= Len(w), NodesTyped(w), Len(w) \in Nat,
           NEW map, NEW sources, NEW others, NEW copies, NEW more, AllFit(w, k, map, A, sources, copies),
           SameFor(w, m, sources, others, copies, more)
    PROVE  AllFit(v, k, map, B, others, more)
<1>1. ASSUME NEW i \in 1..k PROVE ItemFits(v, i, k, map, B, others, more)
  <2>1. i \in 1..m /\ i \in 1..Len(w)
    OBVIOUS
  <2>2. v[i] = w[i] /\ B[i] = A[i] /\ Len(NodeOf(w[i]).bindings) \in Nat
    BY <2>1 DEF SamePrefix, NodesTyped
  <2>3. ItemFits(w, i, k, map, A, sources, copies)
    BY DEF AllFit
  <2>4. Used(v, i, k) = Used(w, i, k)
    <3>1. \A j \in (i + 1)..k : v[j] = w[j]
      BY <2>1 DEF SamePrefix
    <3>. QED  BY <3>1 DEF Used
  <2>5. \A t \in Held(w[i]) : SameAt(t, sources, others) /\ SameAt(t, copies, more)
    BY <2>1 DEF SameFor
  <2>6. \A t \in Area(w, A, i) : t \notin {}
    OBVIOUS
  <2>7. HeldStays(w, v, i, k, k, {})
    BY <2>4 DEF HeldStays
  <2>8. Stays(w, v, i, k, k, A, B, map, map, {}, sources, others, copies, more)
    BY <2>2, <2>5, <2>6, <2>7, SameMap DEF Stays
  <2>. QED  BY <2>3, <2>8, ItemFitsAgree
<1>. QED  BY <1>1 DEF AllFit

\* The items below m, and x in the place of the others, under a map that has other names for Q only.
LEMMA AllFitReplaced ==
    ASSUME NEW w, NEW A, NEW ix, Layout(w, A, ix), NEW iy, NEW m, NEW x, NEW Q, Placing(w, A, ix, iy, m, x, Q),
           Len(w) \in Nat, NodesTyped(w), NEW v, NEW B, SamePrefix(v, w, B, A, m),
           Len(v) = m + 1, v[m + 1] = x, B[m + 1] = Q,
           NEW k \in m..Len(w), NEW map, NEW sources, NEW copies, AllFit(w, k, map, A, sources, copies),
           NEW other, Agrees(map, other, Q), MapTyped(other), Fits(x, other, Q)
    PROVE  AllFit(v, m + 1, other, B, sources, copies)
<1>0. m \in 0..Len(w) /\ ~IsFrame(x) /\ NodeOf(x) = x /\ ~IsSetOp(x)
  BY DEF Placing, NodeOf, IsSetOp
<1>1. ASSUME NEW i \in 1..m PROVE ItemFits(v, i, m + 1, other, B, sources, copies)
  <2>1. v[i] = w[i] /\ B[i] = A[i] /\ Len(NodeOf(w[i]).bindings) \in Nat /\ i \in 1..k
    BY <1>0 DEF SamePrefix, NodesTyped
  <2>2. ItemFits(w, i, k, map, A, sources, copies)
    BY <2>1 DEF AllFit
  <2>3. \A t \in Area(w, A, i) : t \notin Q
    BY PlacingApart
  <2>4. \A t \in Held(w[i]) : t \in Q => w[i].kind = "DelimJoin" /\ t \in x.delims
    BY PlacingApart
  <2>5. x.delims \subseteq Used(v, i, m + 1)
    <3>1. m + 1 \in (i + 1)..(m + 1) /\ NodeOf(v[m + 1]).delims = x.delims
      BY <1>0
    <3>. QED  BY <3>1 DEF Used
  <2>6. ASSUME NEW t \in Held(w[i]), t \in Used(w, i, k) PROVE t \in Used(v, i, m + 1)
    <3>1. PICK j \in (i + 1)..k : t \in NodeOf(w[j]).delims
      BY <2>6 DEF Used
    <3>2. CASE j <= m
      <4>1. j \in (i + 1)..(m + 1) /\ v[j] = w[j]
        BY <1>0, <3>1, <3>2 DEF SamePrefix
      <4>. QED  BY <3>1, <4>1 DEF Used
    <3>3. CASE j > m
      <4>1. j \in (m + 1)..Len(w)
        BY <1>0, <3>1, <3>3
      <4>2. t \in x.delims
        BY <2>6, <3>1, <4>1 DEF Placing
      <4>. QED  BY <2>5, <4>2
    <3>. QED  BY <1>0, <3>1, <3>2, <3>3
  <2>7. HeldStays(w, v, i, k, m + 1, Q)
    BY <2>4, <2>5, <2>6 DEF HeldStays
  <2>8. Stays(w, v, i, k, m + 1, A, B, map, other, Q, sources, sources, copies, copies)
    BY <2>1, <2>3, <2>7 DEF Stays, SameAt
  <2>. QED  BY <2>2, <2>8, ItemFitsAgree
<1>2. ItemFits(v, m + 1, m + 1, other, B, sources, copies)
  BY <1>0 DEF ItemFits
<1>3. \A i \in 1..(m + 1) : i \in 1..m \/ i = m + 1
  BY <1>0
<1>. QED  BY <1>1, <1>2, <1>3 DEF AllFit

LEMMA SameEntries ==
    ASSUME NEW w, NEW m, NEW sources, NEW copies
    PROVE  SameFor(w, m, sources, sources, copies, copies)
  BY DEF SameFor, SameAt

\* What the lower items were entered with does not change.
LEMMA ScopesFitPrefix ==
    ASSUME NEW w, NEW v, NEW A, NEW B, NEW m \in Nat, SamePrefix(v, w, B, A, m), m <= Len(w), Len(w) \in Nat,
           NodesTyped(w), NEW sources, NEW others, NEW copies, NEW more, ScopesFit(w, A, sources, copies),
           SameFor(w, m, sources, others, copies, more), NEW k \in 1..m, IsSetOp(v[k])
    PROVE  AllFit(v, k, v[k].scope, B, others, more)
<1>1. v[k] = w[k] /\ k \in 1..Len(w) /\ k \in 0..m
  BY DEF SamePrefix
<1>2. AllFit(w, k, w[k].scope, A, sources, copies)
  BY <1>1 DEF ScopesFit
<1>. QED  BY <1>1, <1>2, AllFitBelow

LEMMA SoundReplaced ==
    ASSUME NEW w, NEW A, NEW ix, NEW map, NEW sources, NEW copies, Sound(w, A, ix, map, sources, copies),
           IsStack(w), NodesTyped(w), NEW iy, NEW m, NEW x, NEW Q, Placing(w, A, ix, iy, m, x, Q),
           NEW v, Replaced(v, w, Len(w) - m, x), NEW k \in m..Len(w), NEW scope, AllFit(w, k, scope, A, sources, copies),
           NEW other, Agrees(scope, other, Q), MapTyped(other), Fits(x, other, Q)
    PROVE  Sound(v, Extended(A, m, Q), iy, other, sources, copies)
<1>1. PICK B : B = Extended(A, m, Q)
  OBVIOUS
<1>2. Layout(w, A, ix) /\ ScopesFit(w, A, sources, copies)
  BY DEF Sound
<1>3. Layout(v, B, iy) /\ SamePrefix(v, w, B, A, m) /\ Len(v) = m + 1 /\ v[m + 1] = x /\ B[m + 1] = Q
  BY <1>1, <1>2, PlacingLayout
<1>4. m \in 0..Len(w) /\ ~IsFrame(x)
  BY DEF Placing
<1>5. Len(w) \in Nat
  BY <1>4, PlacingStack
<1>6. AllFit(v, m + 1, other, B, sources, copies)
  BY <1>2, <1>3, <1>5, AllFitReplaced
<1>7. ScopesFit(v, B, sources, copies)
  <2>1. SUFFICES ASSUME NEW j \in 1..Len(v), IsSetOp(v[j]) PROVE AllFit(v, j, v[j].scope, B, sources, copies)
    BY DEF ScopesFit
  <2>2. j # m + 1
    BY <1>3, <1>4, <2>1 DEF IsSetOp
  <2>3. j \in 1..m /\ m \in Nat /\ m <= Len(w)
    BY <1>3, <1>4, <1>5, <2>2
  <2>. QED  BY <1>2, <1>3, <1>5, <2>1, <2>3, SameEntries, ScopesFitPrefix
<1>. QED  BY <1>1, <1>3, <1>6, <1>7 DEF Sound
==============================================================================
