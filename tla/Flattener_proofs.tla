--------------------------- MODULE Flattener_proofs ---------------------------
(***************************************************************************)
(* Proofs about AstFlattener, for any set of plans.  A CTE's name is taken *)
(* from the counter when the CTE is built, and the CTE is put into the     *)
(* list when its reader asks for it; between the two it is in the hands of *)
(* one activation only.  A name that a join may still rename is owned: the *)
(* activation that will read it has it, and no CTE, map or text has.  Any  *)
(* other name that something holds is in the list, or is the one that a    *)
(* recursive CTE is about to get.                                          *)
(***************************************************************************)
EXTENDS Flattener, FiniteSetTheorems, SequenceTheorems, TLAPS

\* How far an activation has got, and what it has by then.
Shape(f) ==
    /\ f.at \in {"enter", "walk", "source"} => f.kid = 0 /\ f.got = << >>
    /\ f.at = "step" => f.mode = "flat" /\ Len(f.got) = 2
    /\ f.at = "kids" => f.kid <= Len(f.tree.kids) /\ (f.mode = "flat" => Len(f.got) = f.kid)

\* One that has called for a child has one.
HasKid(f) == f.at = "kids" => f.kid < Len(f.tree.kids)

\* The way an activation has its callees work: the step of a recursion is inlined.
Callee(f) == IF f.at = "step" THEN "inline" ELSE f.mode

\* Below an inlined activation everything is inlined: steps do not nest.
NestingInv ==
    /\ \A p \in DOMAIN stack : Shape(stack[p])
    /\ \A p \in DOMAIN stack : p < Len(stack) \/ returned => HasKid(stack[p])
    /\ \A p \in DOMAIN stack : p = 1 => stack[p].mode = "flat"
    /\ \A p, q \in DOMAIN stack : q = p + 1 => stack[q].mode = Callee(stack[p])
    /\ \A p, q \in DOMAIN stack : p < q /\ Callee(stack[p]) = "inline" => stack[q].mode = "inline"
    /\ outcome = "running" <=> stack # << >> \/ returned
    /\ outcome # "running" => ~returned

\* What came back is a CTE and not a text.
FlatRet == returned /\ (stack # << >> => Callee(Top) = "flat")

Unmarked(t) == IsName(t) /\ ~t.right
Unlisted(id, nodes) == \A k \in DOMAIN nodes : nodes[k].name.id # id

\* Every name that was taken is in the list, on its way back or kept for a recursive CTE.
Numbered(nodes, n) ==
    /\ \A k \in DOMAIN nodes : IsName(nodes[k].name) /\ nodes[k].name.id < n
    /\ \A j, k \in DOMAIN nodes : nodes[j].name.id = nodes[k].name.id => j = k
NamesInv ==
    /\ Numbered(cte_nodes, node_count)
    /\ FlatRet =>
          Unmarked(ret.name) /\ ret.name.id < node_count /\ Unlisted(ret.name.id, cte_nodes)
    /\ \A p \in DOMAIN stack : stack[p].at = "step" =>
          /\ Unmarked(stack[p].got[2])
          /\ stack[p].got[2].id < node_count /\ Unlisted(stack[p].got[2].id, cte_nodes)

Listed(t, nodes) == \E j \in DOMAIN nodes : nodes[j].name = t
Pending(t, stk) == \E p \in DOMAIN stk : stk[p].at = "step" /\ stk[p].got[2] = t
Owns(f) == f.mode = "flat" /\ f.at = "kids"
Free(id, stk) ==
    \A p \in DOMAIN stk : Owns(stk[p]) => \A i \in DOMAIN stk[p].got : stk[p].got[i].id # id

\* A name that may be read any number of times, and is never renamed.
SafeRef(t, stk, nodes) ==
    IsName(t) => ~t.right /\ Free(t.id, stk) /\ (Listed(t, nodes) \/ Pending(t, stk))
SafeText(text, stk, nodes) == \A n \in DOMAIN text : SafeRef(text[n], stk, nodes)
Owned(f, nodes) == Owns(f) => \A i \in DOMAIN f.got : Unmarked(f.got[i]) /\ Listed(f.got[i], nodes)
Holds(f, stk, nodes) ==
    /\ Owned(f, nodes)
    /\ f.mode = "inline" => /\ SafeText(f.got, stk, nodes)
                            /\ \A n \in DOMAIN f.saved : SafeText(f.saved[n], stk, nodes)
    /\ f.mode = "flat" /\ f.at = "right" => SafeText(f.got, stk, nodes)
    /\ f.at = "step" => SafeRef(f.got[1], stk, nodes)

BodiesSafe(map, stk, nodes) == \A id \in DOMAIN map : SafeText(map[id], stk, nodes)
SourcesSafe(map, stk, nodes) == \A id \in DOMAIN map : SafeRef(map[id], stk, nodes)
HoldersInv ==
    outcome = "running" =>
        /\ BodiesSafe(body_info, stack, cte_nodes)
        /\ SourcesSafe(delim_source, stack, cte_nodes)
        /\ BodiesSafe(inline_delim, stack, cte_nodes)
        /\ \A p \in DOMAIN stack : Holds(stack[p], stack, cte_nodes)
        /\ returned /\ ~FlatRet => SafeText(ret.body, stack, cte_nodes)

Alone(stk) ==
    \A p, q \in DOMAIN stk : Owns(stk[p]) /\ Owns(stk[q]) =>
        \A i \in DOMAIN stk[p].got, j \in DOMAIN stk[q].got :
            stk[p].got[i].id = stk[q].got[j].id => p = q /\ i = j

\* What a CTE reads is before it and no one's own; what a join has renamed has one reader.
Before(t, k, nodes) == \E j \in 1..(k - 1) : nodes[j].name = t
Itself(t, c) == t = c.name /\ c.body[Len(c.body)].op = "RecursiveCte"
ReadOf(t, nodes) == \E k \in DOMAIN nodes : \E i \in DOMAIN nodes[k].body : nodes[k].body[i] = t
ReadsWell(nodes, stk) ==
    /\ \A k \in DOMAIN nodes : \A i \in DOMAIN nodes[k].body : IsName(nodes[k].body[i]) =>
          /\ Before(nodes[k].body[i], k, nodes) \/ Itself(nodes[k].body[i], nodes[k])
          /\ Free(nodes[k].body[i].id, stk)
    /\ \A k, m \in DOMAIN nodes : \A i \in DOMAIN nodes[k].body, j \in DOMAIN nodes[m].body :
          /\ nodes[k].body[i] = nodes[m].body[j]
          /\ IsName(nodes[k].body[i]) /\ nodes[k].body[i].right
          => k = m
\* What may join them.
ReadsListed(body, stk, nodes) ==
    \A n \in DOMAIN body : IsName(body[n]) =>
        /\ Free(body[n].id, stk) /\ Listed(body[n], nodes)
        /\ body[n].right => ~ReadOf(body[n], nodes)
ReadersInv ==
    /\ ReadsWell(cte_nodes, stack)
    /\ FlatRet => ReadsListed(ret.body, stack, cte_nodes)
    /\ ~final.right
------------------------------------------------------------------------------
(* Trees, names and frames.                                                *)

LEMMA TreeFacts ==
    ASSUME NEW t \in Trees
    PROVE  /\ t.kind \in Kinds /\ t.id \in Nat /\ t.kids \in Seq(Trees) /\ t.flags \subseteq Flags
           /\ Len(t.kids) \in Nat /\ Len(t.kids) \in Arity(t)
           /\ \A k \in 1..Len(t.kids) : t.kids[k] \in Trees
           /\ t # NoTree
<1>1. t \in Tree /\ Len(t.kids) \in Arity(t) /\ t # NoTree
  BY TreesAssumption
<1>2. t.kids \in Seq(Trees)
  BY <1>1 DEF Tree
<1>. QED  BY <1>1, <1>2 DEF Tree

\* How many children a node of some kind has.
LEMMA KidsOf ==
    ASSUME NEW t \in Trees
    PROVE  /\ t.kind \in {"Join", "PositionalJoin", "SetOperation", "MaterializedCte", "DelimJoin",
                          "RecursiveCte"} =>
                 Len(t.kids) = 2 /\ t.kids[1] \in Trees /\ t.kids[2] \in Trees
           /\ t.kind = "Union" => Len(t.kids) >= 1
           /\ t.kind \in {"Filter", "Project", "Aggregate"} => Len(t.kids) = 1
<1>1. /\ Len(t.kids) \in Nat /\ Len(t.kids) \in Arity(t)
      /\ \A k \in 1..Len(t.kids) : t.kids[k] \in Trees
  BY TreeFacts
<1>2. t.kind \in {"Join", "PositionalJoin", "SetOperation", "MaterializedCte", "DelimJoin",
                  "RecursiveCte"} => Len(t.kids) = 2
  BY <1>1 DEF Arity
<1>3. t.kind = "Union" => Len(t.kids) >= 1
  BY <1>1 DEF Arity
<1>4. t.kind \in {"Filter", "Project", "Aggregate"} => Len(t.kids) = 1
  BY <1>1 DEF Arity
<1>. QED  BY <1>1, <1>2, <1>3, <1>4

LEMMA TokenFacts ==
    /\ \A n \in Nat : Name(n) \in Token /\ IsName(Name(n)) /\ Name(n).id = n /\ ~Name(n).right
                      /\ Unmarked(Name(n))
    /\ \A t \in Trees : /\ Op(t) \in Token /\ ~IsName(Op(t)) /\ Op(t).op \in Kinds
                        /\ t.kind # "Union" => Op(t).op = t.kind
    /\ Distinct \in Token /\ ~IsName(Distinct)
    /\ Garbled \in Token /\ ~IsName(Garbled)
    /\ \A t \in Token : /\ Marked(t) \in Token /\ Marked(t).right
                        /\ Marked(t).id = t.id /\ Marked(t).op = t.op
                        /\ t.id \in Nat /\ t.right \in BOOLEAN
    /\ \A t, u \in Token : t = u <=> t.op = u.op /\ t.id = u.id /\ t.right = u.right
<1>1. \A n \in Nat : Name(n) \in Token /\ IsName(Name(n)) /\ Name(n).id = n /\ ~Name(n).right
                     /\ Unmarked(Name(n))
  BY DEF Name, Token, IsName, Unmarked
<1>2. ASSUME NEW t \in Trees
      PROVE  /\ Op(t) \in Token /\ ~IsName(Op(t)) /\ Op(t).op \in Kinds
             /\ t.kind # "Union" => Op(t).op = t.kind
  <2>1. t.kind \in Kinds /\ t.id \in Nat
    BY TreeFacts
  <2>2. "ref" \notin Kinds
    BY DEF Kinds
  <2>3. Operation(t) \in Kinds /\ (t.kind # "Union" => Operation(t) = t.kind)
    BY <2>1 DEF Operation, Kinds
  <2>4. PICK o : o = Operation(t)
    OBVIOUS
  <2>. QED  BY <2>1, <2>2, <2>3, <2>4 DEF Op, Token, IsName
<1>3. Distinct \in Token /\ ~IsName(Distinct) /\ Garbled \in Token /\ ~IsName(Garbled)
  BY DEF Distinct, Garbled, Token, IsName
<1>4. \A t \in Token : /\ Marked(t) \in Token /\ Marked(t).right
                       /\ Marked(t).id = t.id /\ Marked(t).op = t.op
                       /\ t.id \in Nat /\ t.right \in BOOLEAN
  BY DEF Marked, Token
<1>5. \A t, u \in Token : t = u <=> t.op = u.op /\ t.id = u.id /\ t.right = u.right
  BY DEF Token
<1>. QED  BY <1>1, <1>2, <1>3, <1>4, <1>5

LEMMA CteFacts ==
    /\ \A c \in CteNode : /\ c.name \in Token /\ c.body \in Seq(Token)
                          /\ c.materialized \in BOOLEAN /\ c.hint \in BOOLEAN
                          /\ c.broadcast \in SUBSET {"left", "right"}
    /\ \A name \in Token : \A body \in Seq(Token) :
          /\ Cte(name, body) \in CteNode
          /\ Cte(name, body).name = name /\ Cte(name, body).body = body
    /\ \A body \in Seq(Token) : Text(body) \in CteNode /\ Text(body).body = body
<1>1. \A c \in CteNode : /\ c.name \in Token /\ c.body \in Seq(Token)
                         /\ c.materialized \in BOOLEAN /\ c.hint \in BOOLEAN
                         /\ c.broadcast \in SUBSET {"left", "right"}
  BY DEF CteNode
<1>2. \A name \in Token : \A body \in Seq(Token) :
          /\ Cte(name, body) \in CteNode
          /\ Cte(name, body).name = name /\ Cte(name, body).body = body
  BY DEF Cte, CteNode
<1>3. Name(0) \in Token
  BY TokenFacts
<1>. QED  BY <1>1, <1>2, <1>3 DEF Text

LEMMA FrameFacts ==
    ASSUME NEW f \in Frame
    PROVE  /\ f.tree \in Trees /\ f.mode \in Both /\ f.kid \in Nat /\ f.got \in Seq(Token)
           /\ f.cur \in Trees /\ f.slot \in [Slots -> Trees \cup {NoTree}]
           /\ f.saved \in Seq(Seq(Token))
           /\ f.at \in {"enter", "body", "outer", "left", "right", "anchor", "step", "walk",
                        "source", "kids"}
BY DEF Frame

LEMMA NewFrameTyped ==
    ASSUME NEW t \in Trees, NEW mode \in Both
    PROVE  /\ NewFrame(t, mode) \in Frame
           /\ NewFrame(t, mode).at = "enter" /\ NewFrame(t, mode).mode = mode
           /\ NewFrame(t, mode).kid = 0 /\ NewFrame(t, mode).got = << >>
           /\ NewFrame(t, mode).saved = << >>
<1>1. << >> \in Seq(Token) /\ << >> \in Seq(Seq(Token))
  OBVIOUS
<1>2. [s \in Slots |-> NoTree] \in [Slots -> Trees \cup {NoTree}]
  OBVIOUS
<1>. QED  BY <1>1, <1>2 DEF NewFrame, Frame

------------------------------------------------------------------------------
(* The stack.                                                              *)

LEMMA StackFacts ==
    ASSUME TypeOK, stack # << >>
    PROVE  /\ Len(stack) \in Nat /\ Len(stack) >= 1 /\ DOMAIN stack = 1..Len(stack)
           /\ Top \in Frame /\ Top = stack[Len(stack)]
           /\ Below \in Seq(Frame) /\ Len(Below) = Len(stack) - 1
           /\ \A p \in 1..(Len(stack) - 1) : Below[p] = stack[p]
           /\ \A p \in 1..Len(stack) : stack[p] \in Frame
<1>1. /\ stack \in Seq(Frame) /\ Len(stack) \in Nat /\ Len(stack) >= 1
      /\ DOMAIN stack = 1..Len(stack)
      /\ \A p \in 1..Len(stack) : stack[p] \in Frame
  BY DEF TypeOK
<1>2. Top \in Frame /\ Top = stack[Len(stack)]
  BY <1>1 DEF Top
<1>3. /\ Below \in Seq(Frame) /\ Len(Below) = Len(stack) - 1
      /\ \A p \in 1..(Len(stack) - 1) : Below[p] = stack[p]
  BY <1>1, SubSeqProperties DEF Below
<1>. QED  BY <1>1, <1>2, <1>3

LEMMA LastReplaced ==
    ASSUME NEW F, NEW b \in Seq(F), NEW f \in F, NEW n \in Nat, Len(b) = n - 1, n >= 1
    PROVE  /\ Append(b, f) \in Seq(F) /\ Len(Append(b, f)) = n
           /\ DOMAIN Append(b, f) = 1..n /\ Append(b, f)[n] = f
           /\ \A p \in 1..(n - 1) : Append(b, f)[p] = b[p]
           /\ Append(b, f) # << >>
<1>1. /\ Append(b, f) \in Seq(F) /\ Len(Append(b, f)) = Len(b) + 1
      /\ Append(b, f)[Len(b) + 1] = f
      /\ \A p \in 1..Len(b) : Append(b, f)[p] = b[p]
  OBVIOUS
<1>2. Len(b) + 1 = n
  OBVIOUS
<1>. QED  BY <1>1, <1>2

LEMMA StayStack ==
    ASSUME TypeOK, stack # << >>, NEW f \in Frame, stack' = Append(Below, f)
    PROVE  /\ stack' \in Seq(Frame) /\ Len(stack') = Len(stack) /\ DOMAIN stack' = DOMAIN stack
           /\ stack'[Len(stack)] = f
           /\ \A p \in 1..(Len(stack) - 1) : stack'[p] = stack[p]
           /\ stack' # << >>
<1>1. /\ Len(stack) \in Nat /\ Len(stack) >= 1 /\ DOMAIN stack = 1..Len(stack)
      /\ Below \in Seq(Frame) /\ Len(Below) = Len(stack) - 1
      /\ \A p \in 1..(Len(stack) - 1) : Below[p] = stack[p]
  BY StackFacts
<1>2. PICK b \in Seq(Frame), n \in Nat : b = Below /\ n = Len(stack)
  BY <1>1
<1>. SUFFICES ASSUME Len(b) = n - 1, n >= 1
              PROVE  /\ Append(b, f) \in Seq(Frame) /\ Len(Append(b, f)) = n
                     /\ DOMAIN Append(b, f) = 1..n /\ Append(b, f)[n] = f
                     /\ \A p \in 1..(n - 1) : Append(b, f)[p] = b[p]
                     /\ Append(b, f) # << >>
  BY <1>1, <1>2
<1>. QED  BY LastReplaced

LEMMA CallStack ==
    ASSUME TypeOK, stack # << >>, NEW f \in Frame, NEW g \in Frame,
           stack' = Below \o <<f, g>>
    PROVE  /\ stack' \in Seq(Frame) /\ Len(stack') = Len(stack) + 1
           /\ DOMAIN stack' = 1..(Len(stack) + 1)
           /\ stack'[Len(stack)] = f /\ stack'[Len(stack) + 1] = g
           /\ \A p \in 1..(Len(stack) - 1) : stack'[p] = stack[p]
           /\ stack' # << >>
<1>1. /\ Len(stack) \in Nat /\ Len(stack) >= 1 /\ DOMAIN stack = 1..Len(stack)
      /\ Below \in Seq(Frame) /\ Len(Below) = Len(stack) - 1
      /\ \A p \in 1..(Len(stack) - 1) : Below[p] = stack[p]
  BY StackFacts
<1>2. <<f, g>> \in Seq(Frame) /\ Len(<<f, g>>) = 2 /\ <<f, g>>[1] = f /\ <<f, g>>[2] = g
  OBVIOUS
<1>3. /\ stack' \in Seq(Frame) /\ Len(stack') = Len(Below) + 2
      /\ stack'[Len(Below) + 1] = f /\ stack'[Len(Below) + 2] = g
      /\ \A p \in 1..Len(Below) : stack'[p] = Below[p]
  BY <1>1, <1>2
<1>. QED  BY <1>1, <1>3

LEMMA ReturnStack ==
    ASSUME TypeOK, stack # << >>, stack' = Below
    PROVE  /\ stack' \in Seq(Frame) /\ Len(stack') = Len(stack) - 1
           /\ DOMAIN stack' = 1..(Len(stack) - 1)
           /\ \A p \in 1..(Len(stack) - 1) : stack'[p] = stack[p]
           /\ stack' # << >> => Top' = stack[Len(stack) - 1] /\ Len(stack) > 1
<1>1. /\ Len(stack) \in Nat /\ Len(stack) >= 1
      /\ Below \in Seq(Frame) /\ Len(Below) = Len(stack) - 1
      /\ \A p \in 1..(Len(stack) - 1) : Below[p] = stack[p]
  BY StackFacts
<1>2. stack' # << >> => Len(stack') >= 1
  BY <1>1
<1>. QED  BY <1>1, <1>2 DEF Top

------------------------------------------------------------------------------
(* Types.                                                                  *)

LEMMA BindTyped ==
    ASSUME NEW S, NEW map, \A k \in DOMAIN map : map[k] \in S, NEW id, NEW value \in S
    PROVE  \A k \in DOMAIN Bind(map, id, value) : Bind(map, id, value)[k] \in S
BY DEF Bind

LEMMA SavedTyped ==
    ASSUME NEW S, NEW map, \A k \in DOMAIN map : map[k] \in S, NEW id
    PROVE  Saved(map, id) \in Seq(S)
BY DEF Saved

LEMMA RestoreTyped ==
    ASSUME NEW S, NEW map, \A k \in DOMAIN map : map[k] \in S, NEW id, NEW saved \in Seq(S)
    PROVE  \A k \in DOMAIN Restore(map, id, saved) : Restore(map, id, saved)[k] \in S
<1>1. CASE saved = << >>
  BY <1>1 DEF Restore, Unbind
<1>2. CASE saved # << >>
  <2>1. saved[1] \in S
    BY <1>2
  <2>. QED  BY <1>2, <2>1, BindTyped DEF Restore
<1>. QED  BY <1>1, <1>2

LEMMA TypedStep ==
    ASSUME TypeOK, UNCHANGED argVars,
           node_count' \in Nat, cte_nodes' \in Seq(CteNode), has_recursive_cte' \in BOOLEAN,
           \A id \in DOMAIN body_info' : body_info'[id] \in Seq(Token),
           \A id \in DOMAIN delim_source' : delim_source'[id] \in Token,
           \A id \in DOMAIN inline_delim' : inline_delim'[id] \in Seq(Token),
           stack' \in Seq(Frame), ret' \in CteNode, returned' \in BOOLEAN,
           final' \in Token, outcome' \in {"running", "done", "refused", "error"}
    PROVE  TypeOK'
BY DEF TypeOK, argVars

\* A step that calls, with the node appended to the list if it appends one.
LEMMA TypedCall ==
    ASSUME TypeOK, stack # << >>, NEW f \in Frame, NEW t \in Trees, NEW mode \in Both,
           Call(f, t, mode), UNCHANGED <<argVars, final, outcome>>,
           node_count' \in Nat, cte_nodes' \in Seq(CteNode), has_recursive_cte' \in BOOLEAN,
           \A id \in DOMAIN body_info' : body_info'[id] \in Seq(Token),
           \A id \in DOMAIN delim_source' : delim_source'[id] \in Token,
           \A id \in DOMAIN inline_delim' : inline_delim'[id] \in Seq(Token)
    PROVE  TypeOK'
<1>1. /\ stack' = Below \o <<f, NewFrame(t, mode)>> /\ returned' = FALSE /\ ret' = ret
      /\ NewFrame(t, mode) \in Frame
  BY NewFrameTyped DEF Call
<1>2. stack' \in Seq(Frame)
  BY <1>1, CallStack
<1>3. ret' \in CteNode /\ final' \in Token /\ outcome' \in {"running", "done", "refused", "error"}
  BY <1>1 DEF TypeOK
<1>. QED  BY <1>1, <1>2, <1>3, TypedStep

LEMMA TypedStay ==
    ASSUME TypeOK, stack # << >>, NEW f \in Frame, Stay(f), UNCHANGED <<argVars, final, outcome>>,
           UNCHANGED <<has_recursive_cte, mapVars>>,
           node_count' \in Nat, cte_nodes' \in Seq(CteNode)
    PROVE  TypeOK'
<1>1. stack' = Append(Below, f) /\ returned' = FALSE /\ ret' = ret
  BY DEF Stay
<1>2. stack' \in Seq(Frame)
  BY <1>1, StayStack
<1>3. /\ ret' \in CteNode /\ final' \in Token
      /\ outcome' \in {"running", "done", "refused", "error"}
      /\ has_recursive_cte' \in BOOLEAN
  BY <1>1 DEF TypeOK
<1>4. /\ \A id \in DOMAIN body_info' : body_info'[id] \in Seq(Token)
      /\ \A id \in DOMAIN delim_source' : delim_source'[id] \in Token
      /\ \A id \in DOMAIN inline_delim' : inline_delim'[id] \in Seq(Token)
  BY DEF TypeOK, mapVars
<1>. QED  BY <1>1, <1>2, <1>3, <1>4, TypedStep

LEMMA TypedReturn ==
    ASSUME TypeOK, stack # << >>, NEW node \in CteNode, Return(node),
           UNCHANGED <<argVars, final, outcome>>,
           node_count' \in Nat, cte_nodes' \in Seq(CteNode), has_recursive_cte' \in BOOLEAN,
           \A id \in DOMAIN body_info' : body_info'[id] \in Seq(Token),
           \A id \in DOMAIN delim_source' : delim_source'[id] \in Token,
           \A id \in DOMAIN inline_delim' : inline_delim'[id] \in Seq(Token)
    PROVE  TypeOK'
<1>1. stack' = Below /\ returned' = TRUE /\ ret' = node
  BY DEF Return
<1>2. stack' \in Seq(Frame)
  BY <1>1, ReturnStack
<1>3. final' \in Token /\ outcome' \in {"running", "done", "refused", "error"}
  BY DEF TypeOK
<1>. QED  BY <1>1, <1>2, <1>3, TypedStep

LEMMA TypedThrow ==
    ASSUME TypeOK, NEW exception \in {"refused", "error"}, Throw(exception)
    PROVE  TypeOK'
<1>1. << >> \in Seq(Frame)
  OBVIOUS
<1>. QED  BY <1>1 DEF Throw, TypeOK, argVars, listVars, mapVars

\* What no step has to prove again.
LEMMA Typed ==
    ASSUME TypeOK
    PROVE  /\ node_count \in Nat /\ cte_nodes \in Seq(CteNode) /\ has_recursive_cte \in BOOLEAN
           /\ \A id \in DOMAIN body_info : body_info[id] \in Seq(Token)
           /\ \A id \in DOMAIN delim_source : delim_source[id] \in Token
           /\ \A id \in DOMAIN inline_delim : inline_delim[id] \in Seq(Token)
           /\ ret \in CteNode /\ ret.name \in Token /\ ret.body \in Seq(Token)
           /\ node_count + 1 \in Nat
<1>1. ret \in CteNode
  BY DEF TypeOK
<1>. QED  BY <1>1, CteFacts DEF TypeOK

LEMMA PushTyped ==
    ASSUME TypeOK, NEW node \in CteNode, Push(node)
    PROVE  cte_nodes' \in Seq(CteNode)
BY DEF Push, TypeOK

\* A child of the activation on top.
LEMMA TopKid ==
    ASSUME TypeOK, stack # << >>,
           Top.tree.kind \in {"Join", "PositionalJoin", "SetOperation", "MaterializedCte",
                              "DelimJoin", "RecursiveCte"}
    PROVE  /\ Top.tree \in Trees /\ Top.tree.kids[1] \in Trees /\ Top.tree.kids[2] \in Trees
           /\ Len(Top.tree.kids) = 2
<1>1. Top \in Frame
  BY StackFacts
<1>2. Top.tree \in Trees
  BY <1>1, FrameFacts
<1>. QED  BY <1>2, KidsOf

LEMMA TypeMaterialized ==
    ASSUME TypeOK, EnterMaterialized \/ BodyDone \/ InlineBodyDone \/ OuterDone \/ EnterCteRef
    PROVE  TypeOK'
<1>1. stack # << >>
  BY DEF EnterMaterialized, BodyDone, InlineBodyDone, OuterDone, EnterCteRef, At, BackAt
<1>2. Top \in Frame /\ Top.tree \in Trees /\ Top.mode \in Both /\ Top.saved \in Seq(Seq(Token))
  BY <1>1, StackFacts, FrameFacts
<1>3. CASE EnterMaterialized
  <2>1. [Top EXCEPT !.at = "body"] \in Frame /\ Top.tree.kids[1] \in Trees
    BY <1>1, <1>2, <1>3, TopKid DEF EnterMaterialized, At, Frame
  <2>. QED  BY <1>1, <1>2, <1>3, <2>1, Typed, TypedCall DEF EnterMaterialized, listVars, mapVars
<1>4. CASE BodyDone
  <2>1. [Top EXCEPT !.at = "outer"] \in Frame /\ Top.tree.kids[2] \in Trees
    BY <1>1, <1>2, <1>4, TopKid DEF BodyDone, BackAt, Frame
  <2>2. cte_nodes' \in Seq(CteNode)
    <3>1. [ret EXCEPT !.materialized = "force" \in Top.tree.flags] \in CteNode
      <4>1. \A c \in CteNode : \A b \in BOOLEAN : [c EXCEPT !.materialized = b] \in CteNode
        BY DEF CteNode
      <4>2. ("force" \in Top.tree.flags) \in BOOLEAN
        OBVIOUS
      <4>. QED  BY <4>1, <4>2, Typed
    <3>. QED  BY <1>4, <3>1, PushTyped DEF BodyDone
  <2>3. \A id \in DOMAIN body_info' : body_info'[id] \in Seq(Token)
    <3>1. <<ret.name>> \in Seq(Token)
      BY Typed
    <3>. QED  BY <1>4, <3>1, Typed, BindTyped DEF BodyDone
  <2>. QED  BY <1>1, <1>4, <2>1, <2>2, <2>3, Typed, TypedCall DEF BodyDone, Both
<1>5. CASE InlineBodyDone
  <2>1. Saved(body_info, Top.tree.id) \in Seq(Seq(Token))
    BY Typed, SavedTyped
  <2>2. /\ [Top EXCEPT !.at = "outer", !.saved = Saved(body_info, Top.tree.id)] \in Frame
        /\ Top.tree.kids[2] \in Trees
    BY <1>1, <1>2, <1>5, <2>1, TopKid DEF InlineBodyDone, BackAt, Frame
  <2>3. \A id \in DOMAIN body_info' : body_info'[id] \in Seq(Token)
    BY <1>5, Typed, BindTyped DEF InlineBodyDone
  <2>. QED  BY <1>1, <1>5, <2>2, <2>3, Typed, TypedCall DEF InlineBodyDone, Both, listVars
<1>6. CASE OuterDone
  <2>1. \A id \in DOMAIN body_info' : body_info'[id] \in Seq(Token)
    BY <1>2, <1>6, Typed, RestoreTyped DEF OuterDone
  <2>. QED  BY <1>1, <1>6, <2>1, Typed, TypedReturn DEF OuterDone, listVars
<1>7. CASE EnterCteRef
  <2>1. CASE Top.tree.id \notin DOMAIN body_info
    BY <1>7, <2>1, TypedThrow DEF EnterCteRef
  <2>2. CASE Top.tree.id \in DOMAIN body_info
    <3>1. body_info[Top.tree.id] \in Seq(Token) /\ Name(node_count) \in Token
      BY <2>2, Typed, TokenFacts
    <3>2. /\ Cte(Name(node_count), body_info[Top.tree.id]) \in CteNode
          /\ Text(body_info[Top.tree.id]) \in CteNode
      BY <3>1, CteFacts
    <3>. QED  BY <1>1, <1>7, <2>2, <3>2, Typed, TypedReturn DEF EnterCteRef, mapVars
  <2>. QED  BY <2>1, <2>2
<1>. QED  BY <1>3, <1>4, <1>5, <1>6, <1>7

LEMMA MarkTyped ==
    ASSUME NEW nodes \in Seq(CteNode), NEW name \in Token
    PROVE  /\ MarkRight(nodes, name) \in Seq(CteNode)
           /\ DOMAIN MarkRight(nodes, name) = DOMAIN nodes
           /\ Len(MarkRight(nodes, name)) = Len(nodes)
           /\ \A k \in DOMAIN nodes :
                 /\ MarkRight(nodes, name)[k].body = nodes[k].body
                 /\ MarkRight(nodes, name)[k].hint = nodes[k].hint
                 /\ \/ MarkRight(nodes, name)[k].name = nodes[k].name
                    \/ /\ MarkRight(nodes, name)[k].name = Marked(name) /\ nodes[k].name = name
                       /\ dialect = "DUCKDB"
           /\ RightName(nodes, name) \in Token
<1>1. RightName(nodes, name) \in Token
  BY TokenFacts DEF RightName
<1>2. ASSUME NEW c \in CteNode, NEW token \in Token
      PROVE  /\ [c EXCEPT !.name = token] \in CteNode
             /\ [c EXCEPT !.name = token].body = c.body
             /\ [c EXCEPT !.name = token].hint = c.hint
             /\ [c EXCEPT !.name = token].name = token
  BY DEF CteNode
<1>3. \A k \in DOMAIN nodes : nodes[k] \in CteNode
  OBVIOUS
<1>4. Marked(name) \in Token
  BY TokenFacts
<1>. DEFINE marked == [k \in DOMAIN nodes |->
                         IF nodes[k].name = name /\ \A j \in 1..(k - 1) : nodes[j].name # name
                         THEN [nodes[k] EXCEPT !.name = Marked(name)] ELSE nodes[k]]
<1>5. \A k \in DOMAIN nodes :
         /\ marked[k] \in CteNode /\ marked[k].body = nodes[k].body
         /\ marked[k].hint = nodes[k].hint
         /\ \/ marked[k].name = nodes[k].name
            \/ marked[k].name = Marked(name) /\ nodes[k].name = name
  BY <1>2, <1>3, <1>4
<1>6. DOMAIN nodes = 1..Len(nodes) /\ Len(nodes) \in Nat
  OBVIOUS
<1>7. DOMAIN marked = DOMAIN nodes
  OBVIOUS
<1>. HIDE DEF marked
<1>8. \A S : \A f : DOMAIN f = 1..Len(nodes) /\ (\A k \in 1..Len(nodes) : f[k] \in S) /\ f = [k \in 1..Len(nodes) |-> f[k]]
                    => f \in Seq(S) /\ Len(f) = Len(nodes)
  BY <1>6
<1>9. marked = [k \in 1..Len(nodes) |-> marked[k]]
  BY <1>6 DEF marked
<1>10. marked \in Seq(CteNode) /\ Len(marked) = Len(nodes)
  BY <1>5, <1>6, <1>7, <1>8, <1>9
<1>11. MarkRight(nodes, name) = IF dialect # "DUCKDB" THEN nodes ELSE marked
  BY DEF MarkRight, marked
<1>. QED  BY <1>1, <1>3, <1>5, <1>7, <1>10, <1>11

LEMMA TypeDelim ==
    ASSUME TypeOK, NestingInv,
           \/ EnterDelimJoin \/ LeftDone \/ RightDone \/ InlineLeftDone \/ InlineRightDone
           \/ EnterDelimGet \/ EnterInlineDelimGet
    PROVE  TypeOK'
<1>1. stack # << >>
  BY DEF EnterDelimJoin, LeftDone, RightDone, InlineLeftDone, InlineRightDone, EnterDelimGet,
         EnterInlineDelimGet, At, BackAt
<1>2. /\ Top \in Frame /\ Top.tree \in Trees /\ Top.mode \in Both /\ Top.got \in Seq(Token)
      /\ Top.saved \in Seq(Seq(Token)) /\ Op(Top.tree) \in Token
  BY <1>1, StackFacts, FrameFacts, TokenFacts
<1>3. CASE EnterDelimJoin
  <2>1. [Top EXCEPT !.at = "left"] \in Frame /\ Top.tree.kids[1] \in Trees
    BY <1>1, <1>2, <1>3, TopKid DEF EnterDelimJoin, At, Frame
  <2>. QED  BY <1>1, <1>2, <1>3, <2>1, Typed, TypedCall DEF EnterDelimJoin, listVars, mapVars
<1>4. CASE LeftDone
  <2>1. <<ret.name>> \in Seq(Token)
    BY Typed
  <2>2. [Top EXCEPT !.at = "right", !.got = <<ret.name>>] \in Frame /\ Top.tree.kids[2] \in Trees
    BY <1>1, <1>2, <1>4, <2>1, TopKid DEF LeftDone, BackAt, Frame
  <2>3. cte_nodes' \in Seq(CteNode)
    BY <1>4, Typed, PushTyped DEF LeftDone
  <2>4. \A id \in DOMAIN delim_source' : delim_source'[id] \in Token
    BY <1>4, Typed, BindTyped DEF LeftDone
  <2>. QED  BY <1>1, <1>4, <2>2, <2>3, <2>4, Typed, TypedCall DEF LeftDone, Both
<1>5. CASE RightDone
  <2>1. Append(cte_nodes, ret) \in Seq(CteNode)
    BY Typed
  <2>2. PICK nodes \in Seq(CteNode) : nodes = Append(cte_nodes, ret)
    BY <2>1
  <2>3. /\ MarkRight(nodes, ret.name) \in Seq(CteNode) /\ RightName(nodes, ret.name) \in Token
    BY Typed, MarkTyped
  <2>4. Top.got \o <<RightName(nodes, ret.name), Op(Top.tree)>> \in Seq(Token)
    BY <1>2, <2>3
  <2>5. Cte(Name(node_count), Top.got \o <<RightName(nodes, ret.name), Op(Top.tree)>>) \in CteNode
    BY <2>4, Typed, TokenFacts, CteFacts
  <2>6. /\ cte_nodes' = MarkRight(nodes, ret.name)
        /\ Return(Cte(Name(node_count), Top.got \o <<RightName(nodes, ret.name), Op(Top.tree)>>))
    BY <1>5, <2>2 DEF RightDone
  <2>. QED  BY <1>1, <1>5, <2>3, <2>5, <2>6, Typed, TypedReturn DEF RightDone, mapVars
<1>6. CASE InlineLeftDone
  <2>1. Saved(inline_delim, Top.tree.id) \in Seq(Seq(Token))
    BY Typed, SavedTyped
  <2>2. /\ [Top EXCEPT !.at = "right", !.got = ret.body,
                       !.saved = Saved(inline_delim, Top.tree.id)] \in Frame
        /\ Top.tree.kids[2] \in Trees
    BY <1>1, <1>2, <1>6, <2>1, Typed, TopKid DEF InlineLeftDone, BackAt, Frame
  <2>3. \A id \in DOMAIN inline_delim' : inline_delim'[id] \in Seq(Token)
    BY <1>6, Typed, BindTyped DEF InlineLeftDone
  <2>. QED  BY <1>1, <1>6, <2>2, <2>3, Typed, TypedCall DEF InlineLeftDone, Both, listVars
<1>7. CASE InlineRightDone
  <2>1. Top.got \o ret.body \o <<Op(Top.tree)>> \in Seq(Token)
    BY <1>2, Typed
  <2>2. Text(Top.got \o ret.body \o <<Op(Top.tree)>>) \in CteNode
    BY <2>1, CteFacts
  <2>3. \A id \in DOMAIN inline_delim' : inline_delim'[id] \in Seq(Token)
    BY <1>2, <1>7, Typed, RestoreTyped DEF InlineRightDone
  <2>. QED  BY <1>1, <1>7, <2>2, <2>3, Typed, TypedReturn DEF InlineRightDone, listVars
<1>8. CASE EnterDelimGet
  <2>1. CASE Top.tree.id \notin DOMAIN delim_source
    BY <1>8, <2>1, TypedThrow DEF EnterDelimGet
  <2>2. CASE Top.tree.id \in DOMAIN delim_source
    <3>1. <<delim_source[Top.tree.id], Distinct>> \in Seq(Token)
      BY <2>2, Typed, TokenFacts
    <3>2. Cte(Name(node_count), <<delim_source[Top.tree.id], Distinct>>) \in CteNode
      BY <3>1, Typed, TokenFacts, CteFacts
    <3>. QED  BY <1>1, <1>8, <2>2, <3>2, Typed, TypedReturn DEF EnterDelimGet, mapVars
  <2>. QED  BY <2>1, <2>2
<1>9. CASE EnterInlineDelimGet
  <2>1. CASE Top.tree.id \notin DOMAIN inline_delim
    BY <1>9, <2>1, TypedThrow DEF EnterInlineDelimGet
  <2>2. CASE Top.tree.id \in DOMAIN inline_delim
    <3>1. Append(inline_delim[Top.tree.id], Distinct) \in Seq(Token)
      BY <2>2, Typed, TokenFacts
    <3>2. Text(Append(inline_delim[Top.tree.id], Distinct)) \in CteNode
      BY <3>1, CteFacts
    <3>. QED  BY <1>1, <1>9, <2>2, <3>2, Typed, TypedReturn
              DEF EnterInlineDelimGet, mapVars, listVars
  <2>. QED  BY <2>1, <2>2
<1>. QED  BY <1>3, <1>4, <1>5, <1>6, <1>7, <1>8, <1>9

LEMMA TypeRecursive ==
    ASSUME TypeOK, NestingInv, EnterRecursive \/ AnchorDone \/ StepDone \/ EnterUnsupported
    PROVE  TypeOK'
<1>1. stack # << >>
  BY DEF EnterRecursive, AnchorDone, StepDone, EnterUnsupported, At, BackAt
<1>2. /\ Top \in Frame /\ Top.tree \in Trees /\ Top.mode \in Both /\ Top.got \in Seq(Token)
      /\ Op(Top.tree) \in Token
  BY <1>1, StackFacts, FrameFacts, TokenFacts
<1>3. CASE EnterRecursive
  <2>1. [Top EXCEPT !.at = "anchor"] \in Frame /\ Top.tree.kids[1] \in Trees
    BY <1>1, <1>2, <1>3, TopKid DEF EnterRecursive, At, Frame
  <2>. QED  BY <1>1, <1>2, <1>3, <2>1, Typed, TypedCall DEF EnterRecursive, listVars, mapVars, Both
<1>4. CASE AnchorDone
  <2>1. <<ret.name, Name(node_count)>> \in Seq(Token) /\ <<Name(node_count)>> \in Seq(Token)
    BY Typed, TokenFacts
  <2>2. /\ [Top EXCEPT !.at = "step", !.got = <<ret.name, Name(node_count)>>] \in Frame
        /\ Top.tree.kids[2] \in Trees
    BY <1>1, <1>2, <1>4, <2>1, TopKid DEF AnchorDone, BackAt, Frame
  <2>3. cte_nodes' \in Seq(CteNode)
    BY <1>4, Typed, PushTyped DEF AnchorDone
  <2>4. \A id \in DOMAIN body_info' : body_info'[id] \in Seq(Token)
    BY <1>4, <2>1, Typed, BindTyped DEF AnchorDone
  <2>5. \A id \in DOMAIN inline_delim' : inline_delim'[id] \in Seq(Token)
    BY <1>4 DEF AnchorDone
  <2>. QED  BY <1>1, <1>4, <2>2, <2>3, <2>4, <2>5, Typed, TypedCall DEF AnchorDone, Both
<1>5. CASE StepDone
  <2>1. Top.got[1] \in Token /\ Top.got[2] \in Token
    <3>1. Top.at = "step" /\ Top = stack[Len(stack)] /\ Len(stack) \in DOMAIN stack
      BY <1>1, <1>5, StackFacts DEF StepDone, BackAt
    <3>2. Len(Top.got) = 2
      BY <3>1 DEF NestingInv, Shape
    <3>. QED  BY <1>2, <3>2
  <2>2. /\ <<Top.got[1]>> \o ret.body \o <<Op(Top.tree)>> \in Seq(Token)
        /\ <<Top.got[2]>> \in Seq(Token)
    BY <1>2, <2>1, Typed
  <2>3. /\ Cte(Top.got[2], <<Top.got[1]>> \o ret.body \o <<Op(Top.tree)>>) \in CteNode
        /\ Cte(Name(node_count), <<Top.got[2]>>) \in CteNode
    BY <2>1, <2>2, Typed, TokenFacts, CteFacts
  <2>4. cte_nodes' \in Seq(CteNode)
    BY <1>5, <2>3, PushTyped DEF StepDone
  <2>. QED  BY <1>1, <1>5, <2>3, <2>4, Typed, TypedReturn DEF StepDone, mapVars
<1>6. CASE EnterUnsupported
  BY <1>6, TypedThrow DEF EnterUnsupported
<1>. QED  BY <1>3, <1>4, <1>5, <1>6

LEMMA BlockTyped ==
    ASSUME NEW slot \in [Slots -> Trees \cup {NoTree}], NEW source \in Seq(Token)
    PROVE  Block(source, slot) \in Seq(Token)
<1>. DEFINE lost == IF Vanishes(slot) /\ PROJ_TOP \in Filled(slot) THEN {AGG} ELSE {}
            part(s) == IF s \in Filled(slot) \ lost THEN <<Clause(slot, s)>> ELSE << >>
<1>1. ASSUME NEW s PROVE part(s) \in Seq(Token)
  <2>1. CASE s \in Filled(slot)
    <3>1. slot[s] \in Trees
      BY <2>1 DEF Filled
    <3>2. Clause(slot, s) \in Token
      BY <3>1, TokenFacts DEF Clause
    <3>. QED  BY <3>2
  <2>2. CASE s \notin Filled(slot)
    BY <2>2
  <2>. QED  BY <2>1, <2>2
<1>2. Block(source, slot) =
        source \o part(FILTER) \o part(PROJ_BOTTOM) \o part(AGG) \o part(HAVING)
               \o part(PROJ_TOP) \o part(ORDER) \o part(LIMIT)
  BY DEF Block
<1>. HIDE DEF part
<1>. QED  BY <1>1, <1>2

LEMMA SlotFacts ==
    ASSUME NEW t \in Trees, NEW slot, SlotOf(t, slot) # {}
    PROVE  t.kids[1] \in Trees
<1>1. Len(t.kids) = 1
  BY DEF SlotOf
<1>. QED  BY <1>1, TreeFacts

LEMMA TypeOrdinary ==
    ASSUME TypeOK, NestingInv, EnterOrdinary \/ WalkDown \/ WalkEnd \/ SourceDone
    PROVE  TypeOK'
<1>1. stack # << >>
  BY DEF EnterOrdinary, WalkDown, WalkEnd, SourceDone, At, BackAt
<1>2. /\ Top \in Frame /\ Top.tree \in Trees /\ Top.mode \in Both /\ Top.got \in Seq(Token)
      /\ Top.cur \in Trees /\ Top.slot \in [Slots -> Trees \cup {NoTree}]
      /\ Op(Top.cur) \in Token
  BY <1>1, StackFacts, FrameFacts, TokenFacts
<1>3. \A a \in {"walk", "kids", "source"} : [Top EXCEPT !.at = a] \in Frame
  BY <1>2 DEF Frame
<1>4. CASE EnterOrdinary
  <2>1. [Top EXCEPT !.at = IF merge_pipeline THEN "walk" ELSE "kids"] \in Frame
    BY <1>3
  <2>. QED  BY <1>1, <1>4, <2>1, Typed, TypedStay DEF EnterOrdinary, listVars
<1>5. CASE WalkDown
  <2>1. Top.cur.kids[1] \in Trees
    BY <1>2, <1>5, SlotFacts DEF WalkDown
  <2>2. PICK s : s = Least(SlotOf(Top.cur, Top.slot))
    OBVIOUS
  <2>3. [Top EXCEPT !.slot[s] = Top.cur, !.cur = Top.cur.kids[1]] \in Frame
    <3>1. [Top.slot EXCEPT ![s] = Top.cur] \in [Slots -> Trees \cup {NoTree}]
      BY <1>2
    <3>. QED  BY <1>2, <2>1, <3>1 DEF Frame
  <2>. QED  BY <1>1, <1>5, <2>2, <2>3, Typed, TypedStay DEF WalkDown, listVars
<1>6. CASE WalkEnd
  <2>1. CASE ~Fuses(Top.slot, Top.cur) \/ (Absorbs(Top.cur) /\ GroupsByPosition(Top.slot))
    BY <1>1, <1>3, <1>6, <2>1, Typed, TypedStay DEF WalkEnd
  <2>2. CASE /\ ~(~Fuses(Top.slot, Top.cur) \/ (Absorbs(Top.cur) /\ GroupsByPosition(Top.slot)))
             /\ Absorbs(Top.cur)
    <3>1. Block(<<Op(Top.cur)>>, Top.slot) \in Seq(Token)
      <4>1. <<Op(Top.cur)>> \in Seq(Token)
        BY <1>2
      <4>. QED  BY <1>2, <4>1, BlockTyped
    <3>2. Cte(Name(node_count), Block(<<Op(Top.cur)>>, Top.slot)) \in CteNode
      BY <3>1, Typed, TokenFacts, CteFacts
    <3>. QED  BY <1>1, <1>6, <2>2, <3>2, Typed, TypedReturn DEF WalkEnd, mapVars
  <2>3. CASE /\ ~(~Fuses(Top.slot, Top.cur) \/ (Absorbs(Top.cur) /\ GroupsByPosition(Top.slot)))
             /\ ~Absorbs(Top.cur)
    BY <1>1, <1>2, <1>3, <1>6, <2>3, Typed, TypedCall DEF WalkEnd, mapVars, Both
  <2>. QED  BY <2>1, <2>2, <2>3
<1>7. CASE SourceDone
  <2>1. cte_nodes' \in Seq(CteNode)
    BY <1>7, Typed, PushTyped DEF SourceDone
  <2>2. CASE GroupsByPosition(Top.slot)
    BY <1>1, <1>3, <1>7, <2>1, <2>2, Typed, TypedStay DEF SourceDone
  <2>3. CASE ~GroupsByPosition(Top.slot)
    <3>1. Block(<<ret.name>>, Top.slot) \in Seq(Token)
      <4>1. <<ret.name>> \in Seq(Token)
        BY Typed
      <4>. QED  BY <1>2, <4>1, BlockTyped
    <3>2. Cte(Name(node_count), Block(<<ret.name>>, Top.slot)) \in CteNode
      BY <3>1, Typed, TokenFacts, CteFacts
    <3>. QED  BY <1>1, <1>7, <2>1, <2>3, <3>2, Typed, TypedReturn DEF SourceDone, mapVars
  <2>. QED  BY <2>2, <2>3
<1>. QED  BY <1>4, <1>5, <1>6, <1>7

\* The CTEs of a union's chain before the last: their readers are still to come.
UnionLeft(n, got, k) == IF k = 1 THEN got[1] ELSE Name(n + k - 1)
UnionOf(t, n, got, k) == <<UnionLeft(n, got, k), got[k + 1], Op(t)>>
UnionNodes(t, n, got) ==
    [k \in 1..(IF Len(got) < 3 THEN 0 ELSE Len(got) - 2) |-> Cte(Name(n + k), UnionOf(t, n, got, k))]

LEMMA UnionTyped ==
    ASSUME NEW t \in Trees, NEW n \in Nat, NEW got \in Seq(Token)
    PROVE  /\ \A k \in 1..(Len(got) - 1) :
                 /\ UnionLeft(n, got, k) \in Token
                 /\ got[k + 1] \in Token
                 /\ UnionOf(t, n, got, k) \in Seq(Token)
           /\ UnionNodes(t, n, got) \in Seq(CteNode)
           /\ Len(UnionNodes(t, n, got)) = IF Len(got) < 3 THEN 0 ELSE Len(got) - 2
           /\ \A k \in 1..(Len(got) - 2) :
                 /\ UnionNodes(t, n, got)[k].name = Name(n + k)
                 /\ UnionNodes(t, n, got)[k].body = UnionOf(t, n, got, k)
<1>1. Len(got) \in Nat /\ \A k \in 1..Len(got) : got[k] \in Token
  OBVIOUS
<1>2. ASSUME NEW k \in 1..(Len(got) - 1)
      PROVE  /\ UnionLeft(n, got, k) \in Token
             /\ got[k + 1] \in Token
             /\ UnionOf(t, n, got, k) \in Seq(Token)
  <2>1. got[1] \in Token /\ got[k + 1] \in Token /\ n + k - 1 \in Nat
    BY <1>1
  <2>2. UnionLeft(n, got, k) \in Token
    BY <2>1, TokenFacts DEF UnionLeft
  <2>. QED  BY <2>1, <2>2, TokenFacts DEF UnionOf
<1>3. PICK m \in Nat : m = IF Len(got) < 3 THEN 0 ELSE Len(got) - 2
  BY <1>1
<1>4. ASSUME NEW k \in 1..m
      PROVE  /\ Cte(Name(n + k), UnionOf(t, n, got, k)) \in CteNode
             /\ Cte(Name(n + k), UnionOf(t, n, got, k)).name = Name(n + k)
             /\ Cte(Name(n + k), UnionOf(t, n, got, k)).body = UnionOf(t, n, got, k)
  <2>1. k \in 1..(Len(got) - 1) /\ n + k \in Nat
    BY <1>1, <1>3
  <2>. QED  BY <1>2, <2>1, TokenFacts, CteFacts
<1>5. UnionNodes(t, n, got) = [k \in 1..m |-> Cte(Name(n + k), UnionOf(t, n, got, k))]
  BY <1>3 DEF UnionNodes
<1>6. UnionNodes(t, n, got) \in Seq(CteNode) /\ Len(UnionNodes(t, n, got)) = m
  BY <1>4, <1>5
<1>7. \A k \in 1..(Len(got) - 2) : k \in 1..m
  BY <1>1, <1>3
<1>. QED  BY <1>2, <1>3, <1>4, <1>5, <1>6, <1>7

LEMMA UnionStep ==
    ASSUME TypeOK, NestingInv, BuildUnion
    PROVE  /\ Len(Top.got) >= 1
           /\ cte_nodes' = cte_nodes \o UnionNodes(Top.tree, node_count, Top.got)
           /\ Return(Cte(Name(node_count),
                         IF Len(Top.got) = 1 THEN Append(Top.got, Op(Top.tree))
                         ELSE UnionOf(Top.tree, node_count, Top.got, Len(Top.got) - 1)))
           /\ node_count' = node_count + (IF Len(Top.got) < 3 THEN 1 ELSE Len(Top.got) - 1)
<1>1. stack # << >> /\ Top.mode = "flat" /\ Top.at = "kids" /\ Top.kid = Len(Top.tree.kids)
      /\ Top.tree.kind = "Union"
  BY DEF BuildUnion, AllKids, At, Flat
<1>2. Top = stack[Len(stack)] /\ Len(stack) \in DOMAIN stack /\ Top.tree \in Trees
  BY <1>1, StackFacts, FrameFacts
<1>3. Len(Top.got) = Top.kid
  BY <1>1, <1>2 DEF NestingInv, Shape
<1>4. Len(Top.got) >= 1
  BY <1>1, <1>2, <1>3, KidsOf
<1>. QED  BY <1>4 DEF BuildUnion, UnionNodes, UnionOf, UnionLeft

LEMMA TypeBuild ==
    ASSUME TypeOK, NestingInv,
           \/ EnterInlineOrdinary \/ NextKid \/ KidDone \/ InlineKidDone
           \/ BuildNode \/ BuildJoin \/ BuildUnion \/ BuildInline
    PROVE  TypeOK'
<1>1. stack # << >>
  BY DEF EnterInlineOrdinary, NextKid, KidDone, InlineKidDone, BuildNode, BuildJoin, BuildUnion,
         BuildInline, AllKids, At, BackAt
<1>2. /\ Top \in Frame /\ Top.tree \in Trees /\ Top.mode \in Both /\ Top.got \in Seq(Token)
      /\ Top.kid \in Nat /\ Op(Top.tree) \in Token
      /\ Top = stack[Len(stack)] /\ Len(stack) \in DOMAIN stack
  BY <1>1, StackFacts, FrameFacts, TokenFacts
<1>3. CASE EnterInlineOrdinary
  <2>1. [Top EXCEPT !.at = "kids"] \in Frame
    BY <1>2 DEF Frame
  <2>. QED  BY <1>1, <1>3, <2>1, Typed, TypedStay DEF EnterInlineOrdinary, listVars
<1>4. CASE NextKid
  <2>1. Top.tree.kids[Top.kid + 1] \in Trees
    BY <1>2, <1>4, TreeFacts DEF NextKid
  <2>. QED  BY <1>1, <1>2, <1>4, <2>1, Typed, TypedCall DEF NextKid, listVars, mapVars
<1>5. CASE KidDone
  <2>1. [Top EXCEPT !.kid = @ + 1, !.got = Append(@, ret.name)] \in Frame
    <3>1. Append(Top.got, ret.name) \in Seq(Token) /\ Top.kid + 1 \in Nat
      BY <1>2, Typed
    <3>. QED  BY <1>2, <3>1 DEF Frame
  <2>2. cte_nodes' \in Seq(CteNode)
    BY <1>5, Typed, PushTyped DEF KidDone
  <2>. QED  BY <1>1, <1>5, <2>1, <2>2, Typed, TypedStay DEF KidDone
<1>6. CASE InlineKidDone
  <2>1. PICK between \in Seq(Token) :
            Stay([Top EXCEPT !.kid = @ + 1, !.got = @ \o ret.body \o between])
    <3>1. <<Op(Top.tree)>> \in Seq(Token) /\ << >> \in Seq(Token)
      BY <1>2
    <3>. QED  BY <1>6, <3>1 DEF InlineKidDone
  <2>2. [Top EXCEPT !.kid = @ + 1, !.got = @ \o ret.body \o between] \in Frame
    <3>1. Top.got \o ret.body \o between \in Seq(Token) /\ Top.kid + 1 \in Nat
      BY <1>2, Typed
    <3>. QED  BY <1>2, <3>1 DEF Frame
  <2>. QED  BY <1>1, <1>6, <2>1, <2>2, Typed, TypedStay DEF InlineKidDone, listVars
<1>7. CASE BuildNode
  <2>1. PICK hint \in BOOLEAN :
            Return([Cte(Name(node_count), Append(Top.got, Op(Top.tree))) EXCEPT !.hint = hint])
    <3>. DEFINE h == \/ Top.tree.kind = "Get" /\ dialect = "SPARK" /\ "delta" \in Top.tree.flags
                     \/ Top.tree.kind \in {"Filter", "Project", "Aggregate"} /\ Back.hint
    <3>1. h \in BOOLEAN
      OBVIOUS
    <3>. QED  BY <1>7, <3>1 DEF BuildNode
  <2>2. Cte(Name(node_count), Append(Top.got, Op(Top.tree))) \in CteNode
    <3>1. Append(Top.got, Op(Top.tree)) \in Seq(Token)
      BY <1>2
    <3>. QED  BY <3>1, Typed, TokenFacts, CteFacts
  <2>3. [Cte(Name(node_count), Append(Top.got, Op(Top.tree))) EXCEPT !.hint = hint] \in CteNode
    BY <2>2 DEF CteNode
  <2>. QED  BY <1>1, <1>7, <2>1, <2>3, Typed, TypedReturn DEF BuildNode, mapVars
<1>8. CASE BuildJoin
  <2>1. Top.got[1] \in Token /\ Top.got[2] \in Token
    <3>1. /\ Top.mode = "flat" /\ Top.at = "kids" /\ Top.kid = Len(Top.tree.kids)
          /\ Top.tree.kind \in {"Join", "PositionalJoin"}
      BY <1>8 DEF BuildJoin, AllKids, At, Flat
    <3>2. Len(Top.got) = 2
      BY <1>1, <1>2, <3>1, TopKid DEF NestingInv, Shape
    <3>. QED  BY <1>2, <3>2
  <2>2. MarkRight(cte_nodes, Top.got[2]) \in Seq(CteNode) /\ RightName(cte_nodes, Top.got[2]) \in Token
    BY <2>1, Typed, MarkTyped
  <2>3. PICK sides \in SUBSET {"left", "right"} :
           Return([Cte(Name(node_count),
                       Append(<<Top.got[1], RightName(cte_nodes, Top.got[2])>>, Op(Top.tree)))
                      EXCEPT !.broadcast = sides])
    BY <1>8 DEF BuildJoin
  <2>4. PICK body : body = Append(<<Top.got[1], RightName(cte_nodes, Top.got[2])>>, Op(Top.tree))
    OBVIOUS
  <2>5. body \in Seq(Token)
    BY <1>2, <2>1, <2>2, <2>4
  <2>6. Cte(Name(node_count), body) \in CteNode
    BY <2>5, Typed, TokenFacts, CteFacts
  <2>7. [Cte(Name(node_count), body) EXCEPT !.broadcast = sides] \in CteNode
    BY <2>6 DEF CteNode
  <2>8. cte_nodes' = MarkRight(cte_nodes, Top.got[2])
    BY <1>8 DEF BuildJoin
  <2>. QED  BY <1>1, <1>8, <2>2, <2>3, <2>4, <2>7, <2>8, Typed, TypedReturn DEF BuildJoin, mapVars
<1>9. CASE BuildUnion
  <2>1. /\ Len(Top.got) >= 1
        /\ cte_nodes' = cte_nodes \o UnionNodes(Top.tree, node_count, Top.got)
        /\ Return(Cte(Name(node_count),
                      IF Len(Top.got) = 1 THEN Append(Top.got, Op(Top.tree))
                      ELSE UnionOf(Top.tree, node_count, Top.got, Len(Top.got) - 1)))
        /\ node_count' = node_count + (IF Len(Top.got) < 3 THEN 1 ELSE Len(Top.got) - 1)
    BY <1>9, UnionStep
  <2>2. PICK body : body = IF Len(Top.got) = 1 THEN Append(Top.got, Op(Top.tree))
                           ELSE UnionOf(Top.tree, node_count, Top.got, Len(Top.got) - 1)
    OBVIOUS
  <2>3. Append(Top.got, Op(Top.tree)) \in Seq(Token)
    BY <1>2
  <2>4. Len(Top.got) # 1 => UnionOf(Top.tree, node_count, Top.got, Len(Top.got) - 1) \in Seq(Token)
    <3>1. Len(Top.got) # 1 => Len(Top.got) - 1 \in 1..(Len(Top.got) - 1)
      <4>1. Len(Top.got) \in Nat
        BY <1>2
      <4>2. \A m \in Nat : m >= 1 /\ m # 1 => m - 1 \in 1..(m - 1)
        OBVIOUS
      <4>. QED  BY <2>1, <4>1, <4>2
    <3>. QED  BY <1>2, <3>1, Typed, UnionTyped
  <2>5. Cte(Name(node_count), body) \in CteNode
    BY <2>2, <2>3, <2>4, Typed, TokenFacts, CteFacts
  <2>6. UnionNodes(Top.tree, node_count, Top.got) \in Seq(CteNode)
    BY <1>2, Typed, UnionTyped
  <2>7. cte_nodes' \in Seq(CteNode)
    BY <2>1, <2>6, Typed
  <2>8. node_count' \in Nat
    BY <1>2, <2>1, Typed
  <2>9. UNCHANGED <<argVars, has_recursive_cte, mapVars, final, outcome>>
    BY <1>9 DEF BuildUnion
  <2>. QED  BY <1>1, <2>1, <2>2, <2>5, <2>7, <2>8, <2>9, Typed, TypedReturn DEF mapVars
<1>10. CASE BuildInline
  <2>1. Text(Append(Top.got, Op(Top.tree))) \in CteNode
    <3>1. Append(Top.got, Op(Top.tree)) \in Seq(Token)
      BY <1>2
    <3>. QED  BY <3>1, CteFacts
  <2>. QED  BY <1>1, <1>10, <2>1, Typed, TypedReturn DEF BuildInline, listVars, mapVars
<1>. QED  BY <1>3, <1>4, <1>5, <1>6, <1>7, <1>8, <1>9, <1>10

LEMMA TypeInit == Init => TypeOK
<1>. SUFFICES ASSUME Init PROVE TypeOK
  OBVIOUS
<1>1. /\ dialect \in Dialects /\ root \in Trees /\ merge_pipeline \in BOOLEAN
  <2>1. PICK call \in Calls : /\ root = call.root /\ dialect = call.dialect
                              /\ merge_pipeline = (call.merge_pipeline /\ call.dialect # "SPARK")
    BY DEF Init
  <2>2. call.root \in Trees /\ call.dialect \in Dialects
    BY CallsAssumption
  <2>3. (call.merge_pipeline /\ call.dialect # "SPARK") \in BOOLEAN
    OBVIOUS
  <2>. QED  BY <2>1, <2>2, <2>3
<1>2. stack \in Seq(Frame) /\ cte_nodes \in Seq(CteNode)
  BY <1>1, NewFrameTyped DEF Init, Both
<1>3. ret \in CteNode /\ final \in Token
  <2>1. << >> \in Seq(Token)
    OBVIOUS
  <2>. QED  BY <2>1, CteFacts, TokenFacts DEF Init
<1>4. /\ DOMAIN body_info = {} /\ DOMAIN delim_source = {} /\ DOMAIN inline_delim = {}
  BY DEF Init
<1>. QED  BY <1>1, <1>2, <1>3, <1>4 DEF TypeOK, Init

LEMMA TypeStep == TypeOK /\ NestingInv /\ [Next]_vars => TypeOK'
<1>. SUFFICES ASSUME TypeOK, NestingInv, [Next]_vars PROVE TypeOK'
  OBVIOUS
<1>1. CASE Finish
  <2>1. cte_nodes' \in Seq(CteNode)
    BY <1>1, Typed, PushTyped DEF Finish
  <2>. QED  BY <1>1, <2>1, Typed DEF Finish, TypeOK, argVars, mapVars
<1>2. CASE UNCHANGED vars
  BY <1>2 DEF vars, argVars, listVars, mapVars, callVars, TypeOK
<1>. QED  BY <1>1, <1>2, TypeMaterialized, TypeDelim, TypeRecursive, TypeOrdinary, TypeBuild DEF Next

------------------------------------------------------------------------------
(* The shape of the stack.                                                 *)

LEMMA Widened ==
    ASSUME NEW S, NEW T, S \subseteq T, NEW b \in Seq(S)
    PROVE  b \in Seq(T)
OBVIOUS

LEMMA StayShape ==
    ASSUME TypeOK, stack # << >>, NEW f, Stay(f)
    PROVE  /\ Len(stack) \in Nat /\ Len(stack) >= 1 /\ DOMAIN stack = 1..Len(stack)
           /\ Len(stack') = Len(stack) /\ DOMAIN stack' = 1..Len(stack)
           /\ stack'[Len(stack)] = f
           /\ \A p \in 1..(Len(stack) - 1) : stack'[p] = stack[p]
           /\ stack' # << >> /\ ~returned' /\ ret' = ret
<1>1. /\ Len(stack) \in Nat /\ Len(stack) >= 1 /\ DOMAIN stack = 1..Len(stack)
      /\ Below \in Seq(Frame) /\ Len(Below) = Len(stack) - 1
      /\ \A p \in 1..(Len(stack) - 1) : Below[p] = stack[p]
  BY StackFacts
<1>2. PICK F : F = Frame \cup {f}
  OBVIOUS
<1>3. Below \in Seq(F) /\ f \in F
  BY <1>1, <1>2, Widened
<1>4. PICK b \in Seq(F), n \in Nat : b = Below /\ n = Len(stack)
  BY <1>1, <1>3
<1>5. /\ Append(b, f) \in Seq(F) /\ Len(Append(b, f)) = n
      /\ DOMAIN Append(b, f) = 1..n /\ Append(b, f)[n] = f
      /\ \A p \in 1..(n - 1) : Append(b, f)[p] = b[p]
      /\ Append(b, f) # << >>
  <2>1. Len(b) = n - 1 /\ n >= 1
    BY <1>1, <1>4
  <2>. QED  BY <1>3, <2>1, LastReplaced
<1>6. stack' = Append(b, f) /\ returned' = FALSE /\ ret' = ret
  BY <1>4 DEF Stay
<1>. QED  BY <1>1, <1>4, <1>5, <1>6

LEMMA CallShape ==
    ASSUME TypeOK, stack # << >>, NEW f, NEW t, NEW mode, Call(f, t, mode)
    PROVE  /\ Len(stack) \in Nat /\ Len(stack) >= 1 /\ DOMAIN stack = 1..Len(stack)
           /\ Len(stack') = Len(stack) + 1 /\ DOMAIN stack' = 1..(Len(stack) + 1)
           /\ stack'[Len(stack)] = f /\ stack'[Len(stack) + 1] = NewFrame(t, mode)
           /\ \A p \in 1..(Len(stack) - 1) : stack'[p] = stack[p]
           /\ stack' # << >> /\ ~returned' /\ ret' = ret
<1>1. /\ Len(stack) \in Nat /\ Len(stack) >= 1 /\ DOMAIN stack = 1..Len(stack)
      /\ Below \in Seq(Frame) /\ Len(Below) = Len(stack) - 1
      /\ \A p \in 1..(Len(stack) - 1) : Below[p] = stack[p]
  BY StackFacts
<1>2. PICK g : g = NewFrame(t, mode)
  OBVIOUS
<1>3. PICK F : F = Frame \cup {f, g}
  OBVIOUS
<1>4. Below \in Seq(F) /\ f \in F /\ g \in F
  BY <1>1, <1>3, Widened
<1>5. <<f, g>> \in Seq(F) /\ Len(<<f, g>>) = 2 /\ <<f, g>>[1] = f /\ <<f, g>>[2] = g
  BY <1>4
<1>6. stack' = Below \o <<f, g>> /\ returned' = FALSE /\ ret' = ret
  BY <1>2 DEF Call
<1>7. /\ stack' \in Seq(F) /\ Len(stack') = Len(Below) + 2
      /\ stack'[Len(Below) + 1] = f /\ stack'[Len(Below) + 2] = g
      /\ \A p \in 1..Len(Below) : stack'[p] = Below[p]
  BY <1>4, <1>5, <1>6
<1>. QED  BY <1>1, <1>2, <1>6, <1>7

LEMMA ReturnShape ==
    ASSUME TypeOK, stack # << >>, NEW node, Return(node)
    PROVE  /\ Len(stack) \in Nat /\ Len(stack) >= 1 /\ DOMAIN stack = 1..Len(stack)
           /\ Len(stack') = Len(stack) - 1 /\ DOMAIN stack' = 1..(Len(stack) - 1)
           /\ \A p \in 1..(Len(stack) - 1) : stack'[p] = stack[p]
           /\ stack' # << >> => Top' = stack[Len(stack) - 1] /\ Len(stack) > 1
           /\ returned' /\ ret' = node
<1>1. stack' = Below /\ returned' = TRUE /\ ret' = node
  BY DEF Return
<1>2. /\ Len(stack) \in Nat /\ Len(stack) >= 1 /\ DOMAIN stack = 1..Len(stack)
  BY StackFacts
<1>3. /\ Len(stack') = Len(stack) - 1 /\ DOMAIN stack' = 1..(Len(stack) - 1)
      /\ \A p \in 1..(Len(stack) - 1) : stack'[p] = stack[p]
      /\ stack' # << >> => Top' = stack[Len(stack) - 1] /\ Len(stack) > 1
  BY <1>1, ReturnStack
<1>. QED  BY <1>1, <1>2, <1>3

LEMMA NestStay ==
    ASSUME TypeOK, NestingInv, stack # << >>, NEW f, Stay(f), outcome' = outcome,
           f.mode = Top.mode, Shape(f)
    PROVE  NestingInv'
<1>1. PICK n \in Nat : /\ n = Len(stack) /\ n >= 1 /\ DOMAIN stack = 1..n /\ DOMAIN stack' = 1..n
                       /\ stack'[n] = f /\ \A p \in 1..(n - 1) : stack'[p] = stack[p]
                       /\ stack[n].mode = f.mode
  BY StayShape DEF Top
<1>2. stack' # << >> /\ ~returned'
  BY StayShape
<1>3. /\ \A p \in DOMAIN stack' : Shape(stack'[p])
      /\ \A p \in DOMAIN stack' : p = 1 => stack'[p].mode = "flat"
  BY <1>1 DEF NestingInv
<1>7. \A p \in DOMAIN stack' : p < Len(stack') \/ returned' => HasKid(stack'[p])
  <2>1. Len(stack') = n
    BY <1>1, StayShape
  <2>. QED  BY <1>1, <1>2, <2>1 DEF NestingInv
<1>4. \A p, q \in DOMAIN stack' : q = p + 1 => stack'[q].mode = Callee(stack'[p])
  BY <1>1 DEF NestingInv
<1>5. \A p, q \in DOMAIN stack' : p < q /\ Callee(stack'[p]) = "inline" => stack'[q].mode = "inline"
  BY <1>1 DEF NestingInv
<1>6. /\ outcome' = "running" <=> stack' # << >> \/ returned'
      /\ outcome' # "running" => ~returned'
  BY <1>2 DEF NestingInv
<1>. QED  BY <1>3, <1>4, <1>5, <1>6, <1>7 DEF NestingInv

LEMMA NestCall ==
    ASSUME TypeOK, NestingInv, stack # << >>, NEW f, NEW t, NEW mode, Call(f, t, mode),
           outcome' = outcome, f.mode = Top.mode, Shape(f), HasKid(f), mode = Callee(f)
    PROVE  NestingInv'
<1>1. PICK g : g = NewFrame(t, mode)
  OBVIOUS
<1>2. g.mode = mode /\ g.at = "enter" /\ g.kid = 0 /\ g.got = << >>
  BY <1>1 DEF NewFrame
<1>3. Shape(g) /\ Callee(g) = g.mode
  BY <1>2 DEF Shape, Callee
<1>4. PICK n \in Nat : /\ n = Len(stack) /\ n >= 1 /\ DOMAIN stack = 1..n
                       /\ DOMAIN stack' = 1..(n + 1)
                       /\ stack'[n] = f /\ stack'[n + 1] = g
                       /\ \A p \in 1..(n - 1) : stack'[p] = stack[p]
                       /\ stack[n].mode = f.mode
  BY <1>1, CallShape DEF Top
<1>5. stack' # << >> /\ ~returned'
  BY CallShape
<1>6. f.mode = "inline" => Callee(f) = "inline"
  <2>1. f.at = "step" => f.mode = "flat"
    BY DEF Shape
  <2>. QED  BY <2>1 DEF Callee
<1>7. /\ \A p \in DOMAIN stack' : Shape(stack'[p])
      /\ \A p \in DOMAIN stack' : p = 1 => stack'[p].mode = "flat"
  BY <1>3, <1>4 DEF NestingInv
<1>8. \A p, q \in DOMAIN stack' : q = p + 1 => stack'[q].mode = Callee(stack'[p])
  BY <1>2, <1>4 DEF NestingInv
<1>9. ASSUME NEW p \in DOMAIN stack', NEW q \in DOMAIN stack', p < q, Callee(stack'[p]) = "inline"
      PROVE  stack'[q].mode = "inline"
  <2>1. CASE p = n
    BY <1>2, <1>4, <1>9, <2>1
  <2>2. CASE p < n
    <3>1. stack'[p] = stack[p] /\ p \in DOMAIN stack
      BY <1>4, <2>2
    <3>2. stack[n].mode = "inline"
      BY <1>4, <1>9, <2>2, <3>1 DEF NestingInv
    <3>3. (q \in DOMAIN stack /\ q < n) \/ q = n \/ q = n + 1
      BY <1>4
    <3>. QED  BY <1>2, <1>4, <1>6, <1>9, <3>1, <3>2, <3>3 DEF NestingInv
  <2>3. p = n \/ p < n
    BY <1>4, <1>9
  <2>. QED  BY <2>1, <2>2, <2>3
<1>10. /\ outcome' = "running" <=> stack' # << >> \/ returned'
       /\ outcome' # "running" => ~returned'
  BY <1>5 DEF NestingInv
<1>11. \A p \in DOMAIN stack' : p < Len(stack') \/ returned' => HasKid(stack'[p])
  <2>1. Len(stack') = n + 1
    BY <1>4, CallShape
  <2>. QED  BY <1>4, <1>5, <2>1 DEF NestingInv
<1>. QED  BY <1>7, <1>8, <1>9, <1>10, <1>11 DEF NestingInv

LEMMA NestReturn ==
    ASSUME TypeOK, NestingInv, stack # << >>, NEW node, Return(node), outcome' = outcome
    PROVE  NestingInv'
<1>1. PICK n \in Nat : /\ n >= 1 /\ DOMAIN stack = 1..n /\ DOMAIN stack' = 1..(n - 1)
                       /\ \A p \in 1..(n - 1) : stack'[p] = stack[p]
  BY ReturnShape
<1>2. returned'
  BY ReturnShape
<1>3. /\ \A p \in DOMAIN stack' : p \in DOMAIN stack /\ stack'[p] = stack[p]
  BY <1>1
<1>4. outcome' = "running"
  BY DEF NestingInv
<1>5. \A p \in DOMAIN stack' : HasKid(stack'[p])
  <2>1. Len(stack) \in Nat /\ DOMAIN stack' = 1..(Len(stack) - 1)
    BY ReturnShape
  <2>. QED  BY <1>3, <2>1 DEF NestingInv
<1>. QED  BY <1>2, <1>3, <1>4, <1>5 DEF NestingInv

LEMMA NestThrow ==
    ASSUME NEW exception \in {"refused", "error"}, Throw(exception)
    PROVE  NestingInv'
<1>1. stack' = << >> /\ ~returned' /\ outcome' # "running" /\ DOMAIN stack' = {}
  BY DEF Throw
<1>. QED  BY <1>1 DEF NestingInv

\* What came back is a CTE exactly when the activation that ends was not inlined.
LEMMA FlatReturn ==
    ASSUME TypeOK, NestingInv, stack # << >>, NEW node, Return(node)
    PROVE  FlatRet' <=> Top.mode = "flat"
<1>1. /\ Len(stack) \in Nat /\ Len(stack) >= 1 /\ DOMAIN stack = 1..Len(stack)
      /\ Len(stack') = Len(stack) - 1 /\ DOMAIN stack' = 1..(Len(stack) - 1)
      /\ stack' # << >> => Top' = stack[Len(stack) - 1] /\ Len(stack) > 1
      /\ returned' /\ Top = stack[Len(stack)]
  BY ReturnShape DEF Top
<1>2. CASE stack' # << >>
  <2>1. Top.mode = Callee(stack[Len(stack) - 1])
    BY <1>1, <1>2 DEF NestingInv
  <2>2. FlatRet' <=> Callee(Top') = "flat"
    BY <1>1, <1>2 DEF FlatRet, Callee
  <2>. QED  BY <1>1, <1>2, <2>1, <2>2
<1>3. CASE stack' = << >>
  <2>1. Len(stack) = 1
    <3>1. PICK n \in Nat : n = Len(stack)
      BY <1>1
    <3>2. 1..(n - 1) = {}
      <4>1. DOMAIN stack' = {}
        BY <1>3
      <4>. QED  BY <1>1, <3>1, <4>1
    <3>3. n >= 1
      BY <1>1, <3>1
    <3>4. ~(n - 1 >= 1)
      <4>1. n - 1 >= 1 => 1 \in 1..(n - 1)
        BY <3>1
      <4>. QED  BY <3>2, <4>1
    <3>. QED  BY <3>1, <3>3, <3>4
  <2>2. Top.mode = "flat"
    BY <1>1, <2>1 DEF NestingInv
  <2>. QED  BY <1>1, <1>3, <2>2 DEF FlatRet
<1>. QED  BY <1>2, <1>3

\* Where a CTE comes back there is no recursive step below.
LEMMA NoStepBelow ==
    ASSUME TypeOK, NestingInv, stack # << >>, Top.mode = "flat"
    PROVE  \A p \in DOMAIN stack : stack[p].at = "step" => p = Len(stack)
<1>1. /\ Len(stack) \in Nat /\ Len(stack) >= 1 /\ DOMAIN stack = 1..Len(stack)
      /\ Top = stack[Len(stack)]
  BY StackFacts
<1>2. ASSUME NEW p \in DOMAIN stack, stack[p].at = "step", p # Len(stack) PROVE FALSE
  <2>1. p < Len(stack)
    BY <1>1, <1>2
  <2>2. Callee(stack[p]) = "inline"
    BY <1>2 DEF Callee
  <2>. QED  BY <1>1, <2>1, <2>2 DEF NestingInv
<1>. QED  BY <1>2

\* What the steps need to know of the activation on top.
LEMMA TopFacts ==
    ASSUME TypeOK, stack # << >>
    PROVE  /\ Top \in Frame /\ Top.tree \in Trees /\ Top.mode \in Both /\ Top.kid \in Nat
           /\ Top.got \in Seq(Token) /\ Top.saved \in Seq(Seq(Token))
           /\ Top = stack[Len(stack)] /\ Len(stack) \in DOMAIN stack
           /\ Len(Top.got) \in Nat
           /\ \A i \in DOMAIN Top.got : Top.got[i] \in Token
           /\ Op(Top.tree) \in Token /\ ~IsName(Op(Top.tree)) /\ Op(Top.tree).op \in Kinds
           /\ Top.tree.kind # "Union" => Op(Top.tree).op = Top.tree.kind
<1>1. /\ Top \in Frame /\ Top = stack[Len(stack)] /\ Len(stack) \in DOMAIN stack
  BY StackFacts
<1>2. /\ Top.tree \in Trees /\ Top.mode \in Both /\ Top.kid \in Nat
      /\ Top.got \in Seq(Token) /\ Top.saved \in Seq(Seq(Token))
  BY <1>1, FrameFacts
<1>. QED  BY <1>1, <1>2, TokenFacts

LEMMA NestMaterialized ==
    ASSUME TypeOK, NestingInv,
           EnterMaterialized \/ BodyDone \/ InlineBodyDone \/ OuterDone \/ EnterCteRef
    PROVE  NestingInv'
<1>1. stack # << >>
  BY DEF EnterMaterialized, BodyDone, InlineBodyDone, OuterDone, EnterCteRef, At, BackAt
<1>2. Top \in Frame
  BY <1>1, TopFacts
<1>3. CASE EnterMaterialized
  <2>1. PICK f : f = [Top EXCEPT !.at = "body"]
    OBVIOUS
  <2>2. f.mode = Top.mode /\ f.at = "body"
    BY <1>2, <2>1 DEF Frame
  <2>3. Shape(f) /\ HasKid(f) /\ Top.mode = Callee(f)
    BY <2>2 DEF Shape, HasKid, Callee
  <2>4. Call(f, Top.tree.kids[1], Top.mode) /\ outcome' = outcome
    BY <1>3, <2>1 DEF EnterMaterialized
  <2>. QED  BY <1>1, <2>2, <2>3, <2>4, NestCall
<1>4. CASE BodyDone
  <2>1. PICK f : f = [Top EXCEPT !.at = "outer"]
    OBVIOUS
  <2>2. f.mode = Top.mode /\ f.at = "outer" /\ Top.mode = "flat"
    BY <1>2, <1>4, <2>1 DEF Frame, BodyDone, BackAt, Flat
  <2>3. Shape(f) /\ HasKid(f) /\ "flat" = Callee(f)
    BY <2>2 DEF Shape, HasKid, Callee
  <2>4. Call(f, Top.tree.kids[2], "flat") /\ outcome' = outcome
    BY <1>4, <2>1 DEF BodyDone
  <2>. QED  BY <1>1, <2>2, <2>3, <2>4, NestCall
<1>5. CASE InlineBodyDone
  <2>1. PICK f : f = [Top EXCEPT !.at = "outer", !.saved = Saved(body_info, Top.tree.id)]
    OBVIOUS
  <2>2. f.mode = Top.mode /\ f.at = "outer" /\ Top.mode = "inline"
    BY <1>2, <1>5, <2>1 DEF Frame, InlineBodyDone, BackAt, Inline
  <2>3. Shape(f) /\ HasKid(f) /\ "inline" = Callee(f)
    BY <2>2 DEF Shape, HasKid, Callee
  <2>4. Call(f, Top.tree.kids[2], "inline") /\ outcome' = outcome
    BY <1>5, <2>1 DEF InlineBodyDone
  <2>. QED  BY <1>1, <2>2, <2>3, <2>4, NestCall
<1>6. CASE OuterDone
  BY <1>1, <1>6, NestReturn DEF OuterDone
<1>7. CASE EnterCteRef
  <2>1. CASE Top.tree.id \notin DOMAIN body_info
    BY <1>7, <2>1, NestThrow DEF EnterCteRef
  <2>2. CASE Top.tree.id \in DOMAIN body_info
    BY <1>1, <1>7, <2>2, NestReturn DEF EnterCteRef
  <2>. QED  BY <2>1, <2>2
<1>. QED  BY <1>3, <1>4, <1>5, <1>6, <1>7

LEMMA NestDelim ==
    ASSUME TypeOK, NestingInv,
           \/ EnterDelimJoin \/ LeftDone \/ RightDone \/ InlineLeftDone \/ InlineRightDone
           \/ EnterDelimGet \/ EnterInlineDelimGet
    PROVE  NestingInv'
<1>1. stack # << >>
  BY DEF EnterDelimJoin, LeftDone, RightDone, InlineLeftDone, InlineRightDone, EnterDelimGet,
         EnterInlineDelimGet, At, BackAt
<1>2. Top \in Frame
  BY <1>1, TopFacts
<1>3. CASE EnterDelimJoin
  <2>1. PICK f : f = [Top EXCEPT !.at = "left"]
    OBVIOUS
  <2>2. f.mode = Top.mode /\ f.at = "left"
    BY <1>2, <2>1 DEF Frame
  <2>3. Shape(f) /\ HasKid(f) /\ Top.mode = Callee(f)
    BY <2>2 DEF Shape, HasKid, Callee
  <2>4. Call(f, Top.tree.kids[1], Top.mode) /\ outcome' = outcome
    BY <1>3, <2>1 DEF EnterDelimJoin
  <2>. QED  BY <1>1, <2>2, <2>3, <2>4, NestCall
<1>4. CASE LeftDone
  <2>1. PICK f : f = [Top EXCEPT !.at = "right", !.got = <<ret.name>>]
    OBVIOUS
  <2>2. f.mode = Top.mode /\ f.at = "right" /\ Top.mode = "flat"
    BY <1>2, <1>4, <2>1 DEF Frame, LeftDone, BackAt, Flat
  <2>3. Shape(f) /\ HasKid(f) /\ "flat" = Callee(f)
    BY <2>2 DEF Shape, HasKid, Callee
  <2>4. Call(f, Top.tree.kids[2], "flat") /\ outcome' = outcome
    BY <1>4, <2>1 DEF LeftDone
  <2>. QED  BY <1>1, <2>2, <2>3, <2>4, NestCall
<1>5. CASE RightDone
  <2>1. PICK node : Return(node)
    BY <1>5 DEF RightDone
  <2>2. outcome' = outcome
    BY <1>5 DEF RightDone
  <2>. QED  BY <1>1, <2>1, <2>2, NestReturn
<1>6. CASE InlineLeftDone
  <2>1. PICK f : f = [Top EXCEPT !.at = "right", !.got = ret.body,
                                 !.saved = Saved(inline_delim, Top.tree.id)]
    OBVIOUS
  <2>2. f.mode = Top.mode /\ f.at = "right" /\ Top.mode = "inline"
    BY <1>2, <1>6, <2>1 DEF Frame, InlineLeftDone, BackAt, Inline
  <2>3. Shape(f) /\ HasKid(f) /\ "inline" = Callee(f)
    BY <2>2 DEF Shape, HasKid, Callee
  <2>4. Call(f, Top.tree.kids[2], "inline") /\ outcome' = outcome
    BY <1>6, <2>1 DEF InlineLeftDone
  <2>. QED  BY <1>1, <2>2, <2>3, <2>4, NestCall
<1>7. CASE InlineRightDone
  BY <1>1, <1>7, NestReturn DEF InlineRightDone
<1>8. CASE EnterDelimGet
  <2>1. CASE Top.tree.id \notin DOMAIN delim_source
    BY <1>8, <2>1, NestThrow DEF EnterDelimGet
  <2>2. CASE Top.tree.id \in DOMAIN delim_source
    BY <1>1, <1>8, <2>2, NestReturn DEF EnterDelimGet
  <2>. QED  BY <2>1, <2>2
<1>9. CASE EnterInlineDelimGet
  <2>1. CASE Top.tree.id \notin DOMAIN inline_delim
    BY <1>9, <2>1, NestThrow DEF EnterInlineDelimGet
  <2>2. CASE Top.tree.id \in DOMAIN inline_delim
    BY <1>1, <1>9, <2>2, NestReturn DEF EnterInlineDelimGet
  <2>. QED  BY <2>1, <2>2
<1>. QED  BY <1>3, <1>4, <1>5, <1>6, <1>7, <1>8, <1>9

LEMMA NestRecursive ==
    ASSUME TypeOK, NestingInv, EnterRecursive \/ AnchorDone \/ StepDone \/ EnterUnsupported
    PROVE  NestingInv'
<1>1. stack # << >>
  BY DEF EnterRecursive, AnchorDone, StepDone, EnterUnsupported, At, BackAt
<1>2. Top \in Frame
  BY <1>1, TopFacts
<1>3. CASE EnterRecursive
  <2>1. PICK f : f = [Top EXCEPT !.at = "anchor"]
    OBVIOUS
  <2>2. f.mode = Top.mode /\ f.at = "anchor" /\ Top.mode = "flat"
    BY <1>2, <1>3, <2>1 DEF Frame, EnterRecursive, At, Flat
  <2>3. Shape(f) /\ HasKid(f) /\ "flat" = Callee(f)
    BY <2>2 DEF Shape, HasKid, Callee
  <2>4. Call(f, Top.tree.kids[1], "flat") /\ outcome' = outcome
    BY <1>3, <2>1 DEF EnterRecursive
  <2>. QED  BY <1>1, <2>2, <2>3, <2>4, NestCall
<1>4. CASE AnchorDone
  <2>1. PICK f : f = [Top EXCEPT !.at = "step", !.got = <<ret.name, Name(node_count)>>]
    OBVIOUS
  <2>2. /\ f.mode = Top.mode /\ f.at = "step" /\ Top.mode = "flat"
        /\ f.got = <<ret.name, Name(node_count)>>
    BY <1>2, <1>4, <2>1 DEF Frame, AnchorDone, BackAt, Flat
  <2>3. Shape(f) /\ HasKid(f) /\ "inline" = Callee(f)
    BY <2>2 DEF Shape, HasKid, Callee
  <2>4. Call(f, Top.tree.kids[2], "inline") /\ outcome' = outcome
    BY <1>4, <2>1 DEF AnchorDone
  <2>. QED  BY <1>1, <2>2, <2>3, <2>4, NestCall
<1>5. CASE StepDone
  BY <1>1, <1>5, NestReturn DEF StepDone
<1>6. CASE EnterUnsupported
  BY <1>6, NestThrow DEF EnterUnsupported
<1>. QED  BY <1>3, <1>4, <1>5, <1>6

LEMMA NestOrdinary ==
    ASSUME TypeOK, NestingInv, EnterOrdinary \/ WalkDown \/ WalkEnd \/ SourceDone
    PROVE  NestingInv'
<1>1. stack # << >>
  BY DEF EnterOrdinary, WalkDown, WalkEnd, SourceDone, At, BackAt
<1>2. /\ Top \in Frame /\ Top = stack[Len(stack)] /\ Len(stack) \in DOMAIN stack
      /\ Top.tree \in Trees /\ Len(Top.tree.kids) \in Nat
  BY <1>1, TopFacts, TreeFacts
<1>3. Top.mode = "flat" /\ Top.at \in {"enter", "walk", "source"}
  BY DEF EnterOrdinary, WalkDown, WalkEnd, SourceDone, At, BackAt, Flat
<1>4. Top.kid = 0 /\ Top.got = << >>
  BY <1>2, <1>3 DEF NestingInv, Shape
<1>5. ASSUME NEW a \in {"walk", "kids", "source"}
      PROVE  /\ [Top EXCEPT !.at = a].mode = Top.mode
             /\ Shape([Top EXCEPT !.at = a])
             /\ Callee([Top EXCEPT !.at = a]) = "flat"
             /\ a = "source" => HasKid([Top EXCEPT !.at = a])
  <2>1. PICK f : f = [Top EXCEPT !.at = a]
    OBVIOUS
  <2>2. f.mode = Top.mode /\ f.at = a /\ f.kid = 0 /\ f.got = << >> /\ f.tree = Top.tree
    BY <1>2, <1>4, <2>1 DEF Frame
  <2>3. Shape(f) /\ Callee(f) = "flat" /\ (a = "source" => HasKid(f))
    BY <1>2, <1>3, <2>2 DEF Shape, HasKid, Callee
  <2>. QED  BY <2>1, <2>2, <2>3
<1>6. CASE EnterOrdinary
  <2>1. PICK a \in {"walk", "kids"} : Stay([Top EXCEPT !.at = a])
    BY <1>6 DEF EnterOrdinary
  <2>2. outcome' = outcome
    BY <1>6 DEF EnterOrdinary
  <2>. QED  BY <1>1, <1>5, <2>1, <2>2, NestStay
<1>7. CASE WalkDown
  <2>1. PICK f : f = [Top EXCEPT !.slot[Least(SlotOf(Top.cur, Top.slot))] = Top.cur,
                                 !.cur = Top.cur.kids[1]]
    OBVIOUS
  <2>2. f.mode = Top.mode /\ f.at = Top.at /\ f.kid = 0 /\ f.got = << >> /\ f.tree = Top.tree
    BY <1>2, <1>4, <2>1 DEF Frame
  <2>3. Shape(f)
    BY <1>3, <2>2 DEF Shape
  <2>4. Stay(f) /\ outcome' = outcome
    BY <1>7, <2>1 DEF WalkDown
  <2>. QED  BY <1>1, <2>2, <2>3, <2>4, NestStay
<1>8. CASE WalkEnd
  <2>1. outcome' = outcome
    BY <1>8 DEF WalkEnd
  <2>2. \/ Stay([Top EXCEPT !.at = "kids"])
        \/ Return(Cte(Name(node_count), Block(<<Op(Top.cur)>>, Top.slot)))
        \/ Call([Top EXCEPT !.at = "source"], Top.cur, "flat")
    BY <1>8 DEF WalkEnd
  <2>3. CASE Stay([Top EXCEPT !.at = "kids"])
    BY <1>1, <1>5, <2>1, <2>3, NestStay
  <2>4. CASE Return(Cte(Name(node_count), Block(<<Op(Top.cur)>>, Top.slot)))
    BY <1>1, <2>1, <2>4, NestReturn
  <2>5. CASE Call([Top EXCEPT !.at = "source"], Top.cur, "flat")
    BY <1>1, <1>5, <2>1, <2>5, NestCall
  <2>. QED  BY <2>2, <2>3, <2>4, <2>5
<1>9. CASE SourceDone
  <2>1. outcome' = outcome
    BY <1>9 DEF SourceDone
  <2>2. CASE GroupsByPosition(Top.slot)
    BY <1>1, <1>5, <1>9, <2>1, <2>2, NestStay DEF SourceDone
  <2>3. CASE ~GroupsByPosition(Top.slot)
    BY <1>1, <1>9, <2>1, <2>3, NestReturn DEF SourceDone
  <2>. QED  BY <2>2, <2>3
<1>. QED  BY <1>6, <1>7, <1>8, <1>9

LEMMA NestBuild ==
    ASSUME TypeOK, NestingInv,
           \/ EnterInlineOrdinary \/ NextKid \/ KidDone \/ InlineKidDone
           \/ BuildNode \/ BuildJoin \/ BuildUnion \/ BuildInline
    PROVE  NestingInv'
<1>1. stack # << >>
  BY DEF EnterInlineOrdinary, NextKid, KidDone, InlineKidDone, BuildNode, BuildJoin, BuildUnion,
         BuildInline, AllKids, At, BackAt
<1>2. /\ Top \in Frame /\ Top = stack[Len(stack)] /\ Len(stack) \in DOMAIN stack
      /\ Top.tree \in Trees /\ Len(Top.tree.kids) \in Nat /\ Top.kid \in Nat
      /\ Top.got \in Seq(Token)
  BY <1>1, TopFacts, TreeFacts
<1>3. Shape(Top)
  BY <1>2 DEF NestingInv
<1>4. CASE EnterInlineOrdinary
  <2>1. PICK f : f = [Top EXCEPT !.at = "kids"]
    OBVIOUS
  <2>2. Top.at = "enter" /\ Top.mode = "inline"
    BY <1>4 DEF EnterInlineOrdinary, At, Inline
  <2>3. f.mode = Top.mode /\ f.at = "kids" /\ f.kid = Top.kid /\ f.got = Top.got /\ f.tree = Top.tree
    BY <1>2, <2>1 DEF Frame
  <2>4. Shape(f)
    BY <1>2, <1>3, <2>2, <2>3 DEF Shape
  <2>5. Stay(f) /\ outcome' = outcome
    BY <1>4, <2>1 DEF EnterInlineOrdinary
  <2>. QED  BY <1>1, <2>3, <2>4, <2>5, NestStay
<1>5. CASE NextKid
  <2>1. Top.at = "kids"
    BY <1>5 DEF NextKid, At
  <2>2. Top.mode = Callee(Top)
    BY <2>1 DEF Callee
  <2>3. HasKid(Top)
    BY <1>5 DEF NextKid, HasKid
  <2>. QED  BY <1>1, <1>3, <1>5, <2>2, <2>3, NestCall DEF NextKid
<1>6. CASE KidDone \/ InlineKidDone
  <2>1. PICK got : /\ Top.mode = "flat" => Len(got) = Len(Top.got) + 1
                   /\ Stay([Top EXCEPT !.kid = @ + 1, !.got = got])
    <3>1. CASE KidDone
      <4>1. Len(Append(Top.got, ret.name)) = Len(Top.got) + 1
        BY <1>2
      <4>. QED  BY <3>1, <4>1 DEF KidDone
    <3>2. CASE InlineKidDone
      <4>1. Top.mode = "inline"
        BY <3>2 DEF InlineKidDone, BackAt, Inline
      <4>. QED  BY <3>2, <4>1 DEF InlineKidDone
    <3>. QED  BY <1>6, <3>1, <3>2
  <2>2. PICK f : f = [Top EXCEPT !.kid = @ + 1, !.got = got]
    OBVIOUS
  <2>3. /\ f.mode = Top.mode /\ f.at = Top.at /\ f.kid = Top.kid + 1 /\ f.got = got
        /\ f.tree = Top.tree
    BY <1>2, <2>2 DEF Frame
  <2>4. Top.at = "kids"
    BY <1>6 DEF KidDone, InlineKidDone, BackAt
  <2>5. Top.kid < Len(Top.tree.kids)
    <3>1. HasKid(Top)
      BY <1>2, <1>6 DEF NestingInv, KidDone, InlineKidDone, BackAt
    <3>. QED  BY <2>4, <3>1 DEF HasKid
  <2>6. Shape(f)
    BY <1>2, <1>3, <2>1, <2>3, <2>4, <2>5 DEF Shape
  <2>7. outcome' = outcome
    BY <1>6 DEF KidDone, InlineKidDone
  <2>. QED  BY <1>1, <2>1, <2>2, <2>3, <2>6, <2>7, NestStay
<1>7. CASE BuildNode
  <2>1. PICK node : Return(node)
    BY <1>7 DEF BuildNode
  <2>. QED  BY <1>1, <1>7, <2>1, NestReturn DEF BuildNode
<1>8. CASE BuildJoin
  <2>1. PICK node : Return(node)
    BY <1>8 DEF BuildJoin
  <2>. QED  BY <1>1, <1>8, <2>1, NestReturn DEF BuildJoin
<1>9. CASE BuildUnion
  <2>1. PICK node : Return(node)
    BY <1>9 DEF BuildUnion
  <2>. QED  BY <1>1, <1>9, <2>1, NestReturn DEF BuildUnion
<1>10. CASE BuildInline
  BY <1>1, <1>10, NestReturn DEF BuildInline
<1>. QED  BY <1>4, <1>5, <1>6, <1>7, <1>8, <1>9, <1>10

LEMMA NestingStep == TypeOK /\ NestingInv /\ [Next]_vars => NestingInv'
<1>. SUFFICES ASSUME TypeOK, NestingInv, [Next]_vars PROVE NestingInv'
  OBVIOUS
<1>1. CASE Finish
  BY <1>1 DEF Finish, NestingInv
<1>2. CASE UNCHANGED vars
  BY <1>2 DEF vars, callVars, NestingInv
<1>. QED  BY <1>1, <1>2, NestMaterialized, NestDelim, NestRecursive, NestOrdinary, NestBuild DEF Next

------------------------------------------------------------------------------
(* Names.                                                                  *)

LEMMA NodesFacts ==
    ASSUME NEW nodes \in Seq(CteNode)
    PROVE  /\ Len(nodes) \in Nat /\ DOMAIN nodes = 1..Len(nodes)
           /\ \A k \in DOMAIN nodes : /\ nodes[k] \in CteNode /\ nodes[k].name \in Token
                                      /\ nodes[k].name.id \in Nat /\ nodes[k].body \in Seq(Token)
<1>1. \A k \in DOMAIN nodes : nodes[k] \in CteNode
  OBVIOUS
<1>. QED  BY <1>1, CteFacts, TokenFacts

LEMMA AppendFacts ==
    ASSUME NEW S, NEW nodes \in Seq(S), NEW c \in S
    PROVE  /\ Append(nodes, c) \in Seq(S)
           /\ DOMAIN Append(nodes, c) = 1..(Len(nodes) + 1)
           /\ Len(Append(nodes, c)) = Len(nodes) + 1
           /\ \A k \in DOMAIN nodes : k \in DOMAIN Append(nodes, c) /\ Append(nodes, c)[k] = nodes[k]
           /\ Append(nodes, c)[Len(nodes) + 1] = c
           /\ \A k \in DOMAIN Append(nodes, c) : k \in DOMAIN nodes \/ k = Len(nodes) + 1
           /\ Len(nodes) + 1 \notin DOMAIN nodes
           /\ Len(nodes) + 1 \in DOMAIN Append(nodes, c)
OBVIOUS

LEMMA NumberedMore ==
    ASSUME NEW nodes \in Seq(CteNode), NEW n \in Nat, NEW m \in Nat, Numbered(nodes, n), m >= n
    PROVE  /\ Numbered(nodes, m)
           /\ \A x \in Nat : x >= n => Unlisted(x, nodes)
<1>1. \A k \in DOMAIN nodes : nodes[k].name.id \in Nat
  BY NodesFacts
<1>. QED  BY <1>1 DEF Numbered, Unlisted

LEMMA NumberedAppend ==
    ASSUME NEW nodes \in Seq(CteNode), NEW n \in Nat, Numbered(nodes, n), NEW c \in CteNode,
           IsName(c.name), c.name.id < n, Unlisted(c.name.id, nodes)
    PROVE  /\ Numbered(Append(nodes, c), n)
           /\ \A x : Unlisted(x, nodes) /\ x # c.name.id => Unlisted(x, Append(nodes, c))
<1>1. PICK longer : longer = Append(nodes, c)
  OBVIOUS
<1>2. /\ \A k \in DOMAIN nodes : k \in DOMAIN longer /\ longer[k] = nodes[k]
      /\ longer[Len(nodes) + 1] = c
      /\ \A k \in DOMAIN longer : k \in DOMAIN nodes \/ k = Len(nodes) + 1
  BY <1>1, AppendFacts
<1>3. /\ \A k \in DOMAIN longer : IsName(longer[k].name) /\ longer[k].name.id < n
      /\ \A j, k \in DOMAIN longer : longer[j].name.id = longer[k].name.id => j = k
  BY <1>2 DEF Numbered, Unlisted
<1>4. \A x : Unlisted(x, nodes) /\ x # c.name.id => Unlisted(x, longer)
  BY <1>2 DEF Unlisted
<1>. QED  BY <1>1, <1>3, <1>4 DEF Numbered

LEMMA NumberedMark ==
    ASSUME NEW nodes \in Seq(CteNode), NEW n \in Nat, Numbered(nodes, n), NEW name \in Token,
           IsName(name)
    PROVE  /\ Numbered(MarkRight(nodes, name), n)
           /\ \A x : Unlisted(x, nodes) => Unlisted(x, MarkRight(nodes, name))
<1>1. PICK marked : marked = MarkRight(nodes, name)
  OBVIOUS
<1>2. /\ DOMAIN marked = DOMAIN nodes
      /\ \A k \in DOMAIN nodes : \/ marked[k].name = nodes[k].name
                                 \/ marked[k].name = Marked(name) /\ nodes[k].name = name
  BY <1>1, MarkTyped
<1>3. Marked(name).id = name.id /\ IsName(Marked(name))
  BY TokenFacts DEF IsName
<1>4. \A k \in DOMAIN nodes : /\ marked[k].name.id = nodes[k].name.id
                              /\ IsName(nodes[k].name) => IsName(marked[k].name)
  BY <1>2, <1>3
<1>. QED  BY <1>1, <1>2, <1>4 DEF Numbered, Unlisted

LEMMA NumberedUnion ==
    ASSUME NEW nodes \in Seq(CteNode), NEW n \in Nat, Numbered(nodes, n),
           NEW t \in Trees, NEW got \in Seq(Token), Len(got) >= 1,
           NEW m, m = n + (IF Len(got) < 3 THEN 1 ELSE Len(got) - 1)
    PROVE  /\ Numbered(nodes \o UnionNodes(t, n, got), m) /\ m \in Nat /\ n < m
           /\ Unlisted(n, nodes \o UnionNodes(t, n, got))
<1>1. PICK g \in Nat : g = Len(got)
  OBVIOUS
<1>2. PICK added \in Seq(CteNode) : added = UnionNodes(t, n, got)
  BY UnionTyped
<1>3. /\ Len(added) = (IF g < 3 THEN 0 ELSE g - 2)
      /\ \A k \in 1..(g - 2) : added[k].name = Name(n + k)
  BY <1>1, <1>2, UnionTyped
<1>4. PICK l \in Nat, a \in Nat : l = Len(nodes) /\ a = Len(added)
  OBVIOUS
<1>5. PICK longer : longer = nodes \o added
  OBVIOUS
<1>6. /\ DOMAIN longer = 1..(l + a) /\ DOMAIN nodes = 1..l
      /\ \A k \in 1..l : longer[k] = nodes[k]
      /\ \A k \in 1..a : longer[l + k] = added[k]
  BY <1>4, <1>5
<1>7. m \in Nat /\ n < m /\ n + a < m /\ \A k \in 1..a : k \in 1..(g - 2)
  BY <1>1, <1>3, <1>4
<1>8. ASSUME NEW k \in 1..a
      PROVE  longer[l + k].name.id = n + k /\ IsName(longer[l + k].name)
  <2>1. longer[l + k].name = Name(n + k) /\ n + k \in Nat
    <3>1. k \in 1..(g - 2) /\ n + k \in Nat
      BY <1>7
    <3>2. added[k].name = Name(n + k)
      BY <1>3, <3>1
    <3>3. longer[l + k] = added[k]
      BY <1>6
    <3>. QED  BY <3>1, <3>2, <3>3
  <2>. QED  BY <2>1, TokenFacts
<1>9. \A k \in 1..l : /\ longer[k].name.id \in Nat /\ longer[k].name.id < n
                      /\ IsName(longer[k].name)
  BY <1>6, NodesFacts DEF Numbered
<1>10. ASSUME NEW k \in DOMAIN longer
       PROVE  \/ k \in 1..l /\ longer[k].name.id < n /\ longer[k].name.id \in Nat
              \/ k \notin 1..l /\ longer[k].name.id = n + (k - l) /\ k - l \in 1..a
  <2>1. CASE k \in 1..l
    BY <1>9, <2>1
  <2>2. CASE k \notin 1..l
    <3>1. k - l \in 1..a /\ k = l + (k - l)
      BY <1>6, <2>2
    <3>2. PICK i \in 1..a : i = k - l
      BY <3>1
    <3>. QED  BY <1>8, <2>2, <3>1, <3>2
  <2>. QED  BY <2>1, <2>2
<1>11. \A k \in DOMAIN longer : IsName(longer[k].name)
  <2>1. \A k \in DOMAIN longer : k \in 1..l \/ \E i \in 1..a : k = l + i
    <3>1. \A k \in 1..(l + a) : k \notin 1..l => k - l \in 1..a /\ k = l + (k - l)
      OBVIOUS
    <3>. QED  BY <1>6, <3>1
  <2>. QED  BY <1>8, <1>9, <2>1
<1>12. \A k \in DOMAIN longer : longer[k].name.id < m /\ longer[k].name.id # n
  BY <1>7, <1>10
<1>13. \A j, k \in DOMAIN longer : longer[j].name.id = longer[k].name.id => j = k
  <2>. SUFFICES ASSUME NEW j \in DOMAIN longer, NEW k \in DOMAIN longer,
                       longer[j].name.id = longer[k].name.id
                PROVE  j = k
    OBVIOUS
  <2>1. CASE j \in 1..l /\ k \in 1..l
    BY <1>6, <2>1 DEF Numbered
  <2>2. CASE j \notin 1..l /\ k \notin 1..l
    <3>1. n + (j - l) = n + (k - l) /\ j \in Int /\ k \in Int
      BY <1>6, <1>10, <2>2
    <3>. QED  BY <3>1
  <2>3. CASE j \in 1..l /\ k \notin 1..l
    BY <1>10, <2>3
  <2>4. CASE j \notin 1..l /\ k \in 1..l
    BY <1>10, <2>4
  <2>. QED  BY <2>1, <2>2, <2>3, <2>4
<1>. QED  BY <1>2, <1>5, <1>7, <1>11, <1>12, <1>13 DEF Numbered, Unlisted

\* The name of a CTE that comes back, and the list it joins.
LEMMA RetFacts ==
    ASSUME TypeOK, NamesInv, FlatRet
    PROVE  /\ Unmarked(ret.name) /\ IsName(ret.name) /\ ret.name.id < node_count
           /\ ret.name.id \in Nat /\ ~ret.name.right
           /\ Unlisted(ret.name.id, cte_nodes)
           /\ ret \in CteNode /\ ret.name \in Token /\ ret.body \in Seq(Token)
           /\ Append(cte_nodes, ret) \in Seq(CteNode)
           /\ Numbered(Append(cte_nodes, ret), node_count)
           /\ Numbered(Append(cte_nodes, ret), node_count + 1)
           /\ Unlisted(node_count, Append(cte_nodes, ret))
<1>1. ret \in CteNode /\ ret.name \in Token /\ ret.body \in Seq(Token)
      /\ cte_nodes \in Seq(CteNode) /\ node_count \in Nat /\ node_count + 1 \in Nat
  BY Typed
<1>2. /\ Unmarked(ret.name) /\ ret.name.id < node_count /\ Unlisted(ret.name.id, cte_nodes)
      /\ Numbered(cte_nodes, node_count)
  BY DEF NamesInv
<1>3. IsName(ret.name) /\ ~ret.name.right /\ ret.name.id \in Nat
  BY <1>1, <1>2, TokenFacts DEF Unmarked
<1>4. Append(cte_nodes, ret) \in Seq(CteNode)
  BY <1>1
<1>5. Numbered(Append(cte_nodes, ret), node_count)
  BY <1>1, <1>2, <1>3, NumberedAppend
<1>6. /\ Numbered(Append(cte_nodes, ret), node_count + 1)
      /\ Unlisted(node_count, Append(cte_nodes, ret))
  <2>1. PICK nodes \in Seq(CteNode), n \in Nat : nodes = Append(cte_nodes, ret) /\ n = node_count
    BY <1>1, <1>4
  <2>2. n + 1 >= n /\ n + 1 \in Nat
    OBVIOUS
  <2>3. Numbered(nodes, n)
    BY <1>5, <2>1
  <2>4. Numbered(nodes, n + 1)
    BY <2>2, <2>3, NumberedMore
  <2>5. \A x \in Nat : x >= n => Unlisted(x, nodes)
    BY <2>3, NumberedMore
  <2>6. n >= n
    OBVIOUS
  <2>. QED  BY <2>1, <2>4, <2>5, <2>6
<1>. QED  BY <1>1, <1>2, <1>3, <1>4, <1>5, <1>6

LEMMA BackFlat ==
    ASSUME NEW kinds, NEW point, point # "step", BackAt(Flat, kinds, point)
    PROVE  FlatRet /\ Top.mode = "flat" /\ Top.at = point /\ Top.tree.kind \in kinds /\ stack # << >>
BY DEF BackAt, Flat, FlatRet, Callee

LEMMA BackInline ==
    ASSUME NEW kinds, NEW point, point # "step", BackAt(Inline, kinds, point)
    PROVE  /\ ~FlatRet /\ Top.mode = "inline" /\ Top.at = point /\ Top.tree.kind \in kinds
           /\ stack # << >> /\ returned
BY DEF BackAt, Inline, FlatRet, Callee

\* Steps that neither take a name nor list one.
LEMMA NamesCall ==
    ASSUME TypeOK, NamesInv, stack # << >>, NEW f, f.at # "step", NEW t, NEW mode,
           Call(f, t, mode), UNCHANGED <<node_count, cte_nodes>>
    PROVE  NamesInv'
<1>1. PICK g : g = NewFrame(t, mode)
  OBVIOUS
<1>2. g.at # "step"
  BY <1>1 DEF NewFrame
<1>3. PICK n \in Nat : /\ n >= 1 /\ DOMAIN stack = 1..n /\ DOMAIN stack' = 1..(n + 1)
                       /\ stack'[n] = f /\ stack'[n + 1] = g
                       /\ \A p \in 1..(n - 1) : stack'[p] = stack[p]
  BY <1>1, CallShape
<1>4. ~returned'
  BY CallShape
<1>5. \A p \in DOMAIN stack' : stack'[p].at = "step" => p \in DOMAIN stack /\ stack'[p] = stack[p]
  BY <1>2, <1>3
<1>. QED  BY <1>4, <1>5 DEF NamesInv, FlatRet

LEMMA NamesStay ==
    ASSUME TypeOK, NamesInv, stack # << >>, NEW f, f.at # "step", Stay(f),
           UNCHANGED <<node_count, cte_nodes>>
    PROVE  NamesInv'
<1>1. PICK n \in Nat : /\ n >= 1 /\ DOMAIN stack = 1..n /\ DOMAIN stack' = 1..n
                       /\ stack'[n] = f /\ \A p \in 1..(n - 1) : stack'[p] = stack[p]
  BY StayShape
<1>2. ~returned'
  BY StayShape
<1>3. \A p \in DOMAIN stack' : stack'[p].at = "step" => p \in DOMAIN stack /\ stack'[p] = stack[p]
  BY <1>1
<1>. QED  BY <1>2, <1>3 DEF NamesInv, FlatRet

LEMMA NamesReturn ==
    ASSUME TypeOK, NestingInv, NamesInv, stack # << >>, NEW node, Return(node),
           UNCHANGED <<node_count, cte_nodes>>, FlatRet' => FlatRet /\ ret' = ret
    PROVE  NamesInv'
<1>1. PICK n \in Nat : /\ n >= 1 /\ DOMAIN stack = 1..n /\ DOMAIN stack' = 1..(n - 1)
                       /\ \A p \in 1..(n - 1) : stack'[p] = stack[p]
  BY ReturnShape
<1>2. \A p \in DOMAIN stack' : p \in DOMAIN stack /\ stack'[p] = stack[p]
  BY <1>1
<1>. QED  BY <1>2 DEF NamesInv

LEMMA NamesInline ==
    ASSUME TypeOK, NestingInv, NamesInv, stack # << >>, NEW node, Return(node),
           UNCHANGED <<node_count, cte_nodes>>, Top.mode = "inline"
    PROVE  NamesInv'
<1>1. ~FlatRet'
  BY FlatReturn
<1>. QED  BY <1>1, NamesReturn

\* Steps of the activations that are not inlined.
LEMMA NamesFlatCall ==
    ASSUME TypeOK, NestingInv, stack # << >>, Top.mode = "flat", NEW f, f.at # "step",
           NEW t, NEW mode, Call(f, t, mode), Numbered(cte_nodes, node_count)'
    PROVE  NamesInv'
<1>1. PICK g : g = NewFrame(t, mode)
  OBVIOUS
<1>2. g.at # "step"
  BY <1>1 DEF NewFrame
<1>3. PICK n \in Nat : /\ n >= 1 /\ n = Len(stack) /\ DOMAIN stack = 1..n
                       /\ DOMAIN stack' = 1..(n + 1)
                       /\ stack'[n] = f /\ stack'[n + 1] = g
                       /\ \A p \in 1..(n - 1) : stack'[p] = stack[p]
  BY <1>1, CallShape
<1>4. ~returned'
  BY CallShape
<1>5. \A p \in DOMAIN stack : stack[p].at = "step" => p = n
  BY <1>3, NoStepBelow
<1>6. \A p \in DOMAIN stack' : stack'[p].at # "step"
  BY <1>2, <1>3, <1>5
<1>. QED  BY <1>4, <1>6 DEF NamesInv, FlatRet

LEMMA NamesFlatStay ==
    ASSUME TypeOK, NestingInv, stack # << >>, Top.mode = "flat", NEW f, f.at # "step",
           Stay(f), Numbered(cte_nodes, node_count)'
    PROVE  NamesInv'
<1>1. PICK n \in Nat : /\ n >= 1 /\ n = Len(stack) /\ DOMAIN stack = 1..n /\ DOMAIN stack' = 1..n
                       /\ stack'[n] = f /\ \A p \in 1..(n - 1) : stack'[p] = stack[p]
  BY StayShape
<1>2. ~returned'
  BY StayShape
<1>3. \A p \in DOMAIN stack : stack[p].at = "step" => p = n
  BY <1>1, NoStepBelow
<1>4. \A p \in DOMAIN stack' : stack'[p].at # "step"
  BY <1>1, <1>3
<1>. QED  BY <1>2, <1>4 DEF NamesInv, FlatRet

LEMMA NamesFlatReturn ==
    ASSUME TypeOK, NestingInv, stack # << >>, Top.mode = "flat", NEW node, Return(node),
           Numbered(cte_nodes, node_count)', Unmarked(node.name), node.name.id < node_count',
           Unlisted(node.name.id, cte_nodes')
    PROVE  NamesInv'
<1>1. PICK n \in Nat : /\ n >= 1 /\ n = Len(stack) /\ DOMAIN stack = 1..n
                       /\ DOMAIN stack' = 1..(n - 1)
                       /\ \A p \in 1..(n - 1) : stack'[p] = stack[p]
  BY ReturnShape
<1>2. ret' = node
  BY ReturnShape
<1>3. \A p \in DOMAIN stack : stack[p].at = "step" => p = n
  BY <1>1, NoStepBelow
<1>4. \A p \in DOMAIN stack' : stack'[p].at # "step"
  BY <1>1, <1>3
<1>. QED  BY <1>2, <1>4 DEF NamesInv

\* A CTE is built with the next name.
LEMMA NamesCounted ==
    ASSUME TypeOK, NestingInv, NamesInv, stack # << >>, Top.mode = "flat", NEW node \in CteNode,
           node.name = Name(node_count), Return(node), UNCHANGED cte_nodes,
           node_count' = node_count + 1
    PROVE  NamesInv'
<1>1. cte_nodes \in Seq(CteNode) /\ node_count \in Nat /\ node_count + 1 \in Nat
  BY Typed
<1>2. Numbered(cte_nodes, node_count)
  BY DEF NamesInv
<1>3. Numbered(cte_nodes, node_count + 1) /\ Unlisted(node_count, cte_nodes)
  BY <1>1, <1>2, NumberedMore
<1>4. Unmarked(node.name) /\ node.name.id = node_count
  BY <1>1, TokenFacts
<1>5. Numbered(cte_nodes, node_count)'
  BY <1>3
<1>6. Unlisted(node.name.id, cte_nodes')
  BY <1>3, <1>4
<1>7. node.name.id < node_count'
  BY <1>1, <1>4
<1>. QED  BY <1>4, <1>5, <1>6, <1>7, NamesFlatReturn

LEMMA NamesThrow ==
    ASSUME NamesInv, NEW exception \in {"refused", "error"}, Throw(exception)
    PROVE  NamesInv'
<1>1. /\ DOMAIN stack' = {} /\ ~returned' /\ UNCHANGED <<node_count, cte_nodes>>
  BY DEF Throw, listVars
<1>. QED  BY <1>1 DEF NamesInv, FlatRet

\* What an activation owns when its kids are done.
LEMMA OwnedNames ==
    ASSUME TypeOK, NestingInv, HoldersInv, stack # << >>, Owns(Top)
    PROVE  \A i \in DOMAIN Top.got :
              /\ Unmarked(Top.got[i]) /\ IsName(Top.got[i]) /\ ~Top.got[i].right
              /\ Listed(Top.got[i], cte_nodes)
<1>1. Top = stack[Len(stack)] /\ Len(stack) \in DOMAIN stack
  BY TopFacts
<1>2. outcome = "running"
  BY DEF NestingInv
<1>3. Owned(Top, cte_nodes)
  BY <1>1, <1>2 DEF HoldersInv, Holds
<1>. QED  BY <1>3 DEF Owned, Unmarked

LEMMA NamesMaterialized ==
    ASSUME TypeOK, NestingInv, NamesInv,
           EnterMaterialized \/ BodyDone \/ InlineBodyDone \/ OuterDone \/ EnterCteRef
    PROVE  NamesInv'
<1>1. stack # << >>
  BY DEF EnterMaterialized, BodyDone, InlineBodyDone, OuterDone, EnterCteRef, At, BackAt
<1>2. Top \in Frame /\ Top.mode \in Both /\ node_count \in Nat
  BY <1>1, TopFacts, Typed
<1>3. CASE EnterMaterialized
  <2>1. PICK f : f = [Top EXCEPT !.at = "body"]
    OBVIOUS
  <2>2. f.at # "step"
    BY <1>2, <2>1 DEF Frame
  <2>3. /\ Call(f, Top.tree.kids[1], Top.mode) /\ UNCHANGED <<node_count, cte_nodes>>
    BY <1>3, <2>1 DEF EnterMaterialized, listVars
  <2>. QED  BY <1>1, <2>2, <2>3, NamesCall
<1>4. CASE BodyDone
  <2>1. PICK f : f = [Top EXCEPT !.at = "outer"]
    OBVIOUS
  <2>2. f.at # "step"
    BY <1>2, <2>1 DEF Frame
  <2>3. FlatRet /\ Top.mode = "flat"
    BY <1>4, BackFlat DEF BodyDone
  <2>4. PICK node : node = [ret EXCEPT !.materialized = "force" \in Top.tree.flags]
    OBVIOUS
  <2>5. node \in CteNode /\ node.name = ret.name
    <3>1. ("force" \in Top.tree.flags) \in BOOLEAN
      OBVIOUS
    <3>. QED  BY <2>3, <2>4, <3>1, RetFacts DEF CteNode
  <2>6. cte_nodes' = Append(cte_nodes, node) /\ node_count' = node_count
    BY <1>4, <2>4 DEF BodyDone, Push
  <2>7. cte_nodes \in Seq(CteNode) /\ Numbered(cte_nodes, node_count)
    BY Typed DEF NamesInv
  <2>8. IsName(node.name) /\ node.name.id < node_count /\ Unlisted(node.name.id, cte_nodes)
    BY <2>3, <2>5, RetFacts
  <2>9. Numbered(Append(cte_nodes, node), node_count)
    BY <1>2, <2>5, <2>7, <2>8, NumberedAppend
  <2>10. Numbered(cte_nodes, node_count)'
    BY <2>6, <2>9
  <2>11. Call(f, Top.tree.kids[2], "flat")
    BY <1>4, <2>1 DEF BodyDone
  <2>. QED  BY <1>1, <2>2, <2>3, <2>10, <2>11, NamesFlatCall
<1>5. CASE InlineBodyDone
  <2>1. PICK f : f = [Top EXCEPT !.at = "outer", !.saved = Saved(body_info, Top.tree.id)]
    OBVIOUS
  <2>2. f.at # "step"
    BY <1>2, <2>1 DEF Frame
  <2>3. /\ Call(f, Top.tree.kids[2], "inline") /\ UNCHANGED <<node_count, cte_nodes>>
    BY <1>5, <2>1 DEF InlineBodyDone, listVars
  <2>. QED  BY <1>1, <2>2, <2>3, NamesCall
<1>6. CASE OuterDone
  <2>2. Return(ret) /\ UNCHANGED <<node_count, cte_nodes>>
    BY <1>6 DEF OuterDone, listVars
  <2>3. CASE Top.mode = "inline"
    BY <1>1, <2>2, <2>3, NamesInline
  <2>4. CASE Top.mode = "flat"
    <3>1. FlatRet
      BY <1>6, <2>4 DEF OuterDone, BackAt, FlatRet, Callee
    <3>2. FlatRet' => FlatRet /\ ret' = ret
      BY <2>2, <3>1 DEF Return
    <3>. QED  BY <1>1, <2>2, <3>2, NamesReturn
  <2>. QED  BY <1>2, <2>3, <2>4 DEF Both
<1>7. CASE EnterCteRef
  <2>1. CASE Top.tree.id \notin DOMAIN body_info
    BY <1>7, <2>1, NamesThrow DEF EnterCteRef
  <2>2. CASE Top.tree.id \in DOMAIN body_info /\ Top.mode = "flat"
    <3>1. PICK node : node = Cte(Name(node_count), body_info[Top.tree.id])
      OBVIOUS
    <3>2. node \in CteNode /\ node.name = Name(node_count)
      BY <1>2, <2>2, <3>1, Typed, TokenFacts, CteFacts
    <3>3. Return(node) /\ UNCHANGED cte_nodes /\ node_count' = node_count + 1
      BY <1>7, <2>2, <3>1 DEF EnterCteRef
    <3>. QED  BY <1>1, <2>2, <3>2, <3>3, NamesCounted
  <2>3. CASE Top.tree.id \in DOMAIN body_info /\ Top.mode = "inline"
    <3>1. Return(Text(body_info[Top.tree.id])) /\ UNCHANGED <<node_count, cte_nodes>>
      BY <1>7, <2>3 DEF EnterCteRef
    <3>. QED  BY <1>1, <2>3, <3>1, NamesInline
  <2>. QED  BY <1>2, <2>1, <2>2, <2>3 DEF Both
<1>. QED  BY <1>3, <1>4, <1>5, <1>6, <1>7

LEMMA NamesDelim ==
    ASSUME TypeOK, NestingInv, NamesInv,
           \/ EnterDelimJoin \/ LeftDone \/ RightDone \/ InlineLeftDone \/ InlineRightDone
           \/ EnterDelimGet \/ EnterInlineDelimGet
    PROVE  NamesInv'
<1>1. stack # << >>
  BY DEF EnterDelimJoin, LeftDone, RightDone, InlineLeftDone, InlineRightDone, EnterDelimGet,
         EnterInlineDelimGet, At, BackAt
<1>2. Top \in Frame /\ node_count \in Nat /\ Top.got \in Seq(Token) /\ Op(Top.tree) \in Token
  BY <1>1, TopFacts, Typed
<1>3. CASE EnterDelimJoin
  <2>1. PICK f : f = [Top EXCEPT !.at = "left"]
    OBVIOUS
  <2>2. f.at # "step"
    BY <1>2, <2>1 DEF Frame
  <2>3. /\ Call(f, Top.tree.kids[1], Top.mode) /\ UNCHANGED <<node_count, cte_nodes>>
    BY <1>3, <2>1 DEF EnterDelimJoin, listVars
  <2>. QED  BY <1>1, <2>2, <2>3, NamesCall
<1>4. CASE LeftDone
  <2>1. PICK f : f = [Top EXCEPT !.at = "right", !.got = <<ret.name>>]
    OBVIOUS
  <2>2. f.at # "step"
    BY <1>2, <2>1 DEF Frame
  <2>3. FlatRet /\ Top.mode = "flat"
    BY <1>4, BackFlat DEF LeftDone
  <2>4. cte_nodes' = Append(cte_nodes, ret) /\ node_count' = node_count
    BY <1>4 DEF LeftDone, Push
  <2>5. Numbered(cte_nodes, node_count)'
    BY <2>3, <2>4, RetFacts
  <2>6. Call(f, Top.tree.kids[2], "flat")
    BY <1>4, <2>1 DEF LeftDone
  <2>. QED  BY <1>1, <2>2, <2>3, <2>5, <2>6, NamesFlatCall
<1>5. CASE RightDone
  <2>1. FlatRet /\ Top.mode = "flat"
    BY <1>5, BackFlat DEF RightDone
  <2>2. PICK nodes \in Seq(CteNode) : nodes = Append(cte_nodes, ret)
    BY <2>1, RetFacts
  <2>3. /\ Numbered(nodes, node_count + 1) /\ Unlisted(node_count, nodes)
        /\ ret.name \in Token /\ IsName(ret.name) /\ node_count + 1 \in Nat
    BY <2>1, <2>2, Typed, RetFacts
  <2>4. /\ Numbered(MarkRight(nodes, ret.name), node_count + 1)
        /\ Unlisted(node_count, MarkRight(nodes, ret.name))
    BY <2>3, NumberedMark
  <2>5. PICK body : body = Top.got \o <<RightName(nodes, ret.name), Op(Top.tree)>>
    OBVIOUS
  <2>6. PICK node : node = Cte(Name(node_count), body)
    OBVIOUS
  <2>7. /\ cte_nodes' = MarkRight(nodes, ret.name) /\ node_count' = node_count + 1
        /\ Return(node)
    BY <1>5, <2>2, <2>5, <2>6 DEF RightDone
  <2>8. node.name = Name(node_count)
    BY <2>6 DEF Cte
  <2>9. Unmarked(node.name) /\ node.name.id = node_count
    BY <1>2, <2>8, TokenFacts
  <2>10. Numbered(cte_nodes, node_count)' /\ Unlisted(node.name.id, cte_nodes')
    BY <2>4, <2>7, <2>9
  <2>11. node.name.id < node_count'
    BY <1>2, <2>7, <2>9
  <2>. QED  BY <1>1, <2>1, <2>7, <2>9, <2>10, <2>11, NamesFlatReturn
<1>6. CASE InlineLeftDone
  <2>1. PICK f : f = [Top EXCEPT !.at = "right", !.got = ret.body,
                                 !.saved = Saved(inline_delim, Top.tree.id)]
    OBVIOUS
  <2>2. f.at # "step"
    BY <1>2, <2>1 DEF Frame
  <2>3. /\ Call(f, Top.tree.kids[2], "inline") /\ UNCHANGED <<node_count, cte_nodes>>
    BY <1>6, <2>1 DEF InlineLeftDone, listVars
  <2>. QED  BY <1>1, <2>2, <2>3, NamesCall
<1>7. CASE InlineRightDone
  <2>1. Top.mode = "inline"
    BY <1>7, BackInline DEF InlineRightDone
  <2>2. PICK node : Return(node)
    BY <1>7 DEF InlineRightDone
  <2>3. UNCHANGED <<node_count, cte_nodes>>
    BY <1>7 DEF InlineRightDone, listVars
  <2>. QED  BY <1>1, <2>1, <2>2, <2>3, NamesInline
<1>8. CASE EnterDelimGet
  <2>1. CASE Top.tree.id \notin DOMAIN delim_source
    BY <1>8, <2>1, NamesThrow DEF EnterDelimGet
  <2>2. CASE Top.tree.id \in DOMAIN delim_source
    <3>1. PICK node : node = Cte(Name(node_count), <<delim_source[Top.tree.id], Distinct>>)
      OBVIOUS
    <3>2. node \in CteNode /\ node.name = Name(node_count)
      <4>1. <<delim_source[Top.tree.id], Distinct>> \in Seq(Token)
        BY <2>2, Typed, TokenFacts
      <4>2. Name(node_count) \in Token
        BY <1>2, TokenFacts
      <4>3. PICK body : body = <<delim_source[Top.tree.id], Distinct>>
        OBVIOUS
      <4>. QED  BY <3>1, <4>1, <4>2, <4>3, CteFacts
    <3>3. /\ Return(node) /\ UNCHANGED cte_nodes /\ node_count' = node_count + 1
          /\ Top.mode = "flat"
      BY <1>8, <2>2, <3>1 DEF EnterDelimGet, At, Flat
    <3>. QED  BY <1>1, <3>2, <3>3, NamesCounted
  <2>. QED  BY <2>1, <2>2
<1>9. CASE EnterInlineDelimGet
  <2>1. CASE Top.tree.id \notin DOMAIN inline_delim
    BY <1>9, <2>1, NamesThrow DEF EnterInlineDelimGet
  <2>2. CASE Top.tree.id \in DOMAIN inline_delim
    <3>1. PICK node : Return(node)
      BY <1>9, <2>2 DEF EnterInlineDelimGet
    <3>2. UNCHANGED <<node_count, cte_nodes>> /\ Top.mode = "inline"
      BY <1>9, <2>2 DEF EnterInlineDelimGet, listVars, At, Inline
    <3>. QED  BY <1>1, <3>1, <3>2, NamesInline
  <2>. QED  BY <2>1, <2>2
<1>. QED  BY <1>3, <1>4, <1>5, <1>6, <1>7, <1>8, <1>9

\* The name the recursive CTE is about to get is the counter's next.
LEMMA AnchorNames ==
    ASSUME TypeOK, NestingInv, NamesInv, AnchorDone
    PROVE  /\ FlatRet /\ Top.mode = "flat" /\ stack # << >>
           /\ cte_nodes' = Append(cte_nodes, ret) /\ node_count' = node_count + 1
           /\ Len(stack) \in Nat /\ Len(stack) >= 1 /\ DOMAIN stack = 1..Len(stack)
           /\ DOMAIN stack' = 1..(Len(stack) + 1)
           /\ stack'[Len(stack)].at = "step" /\ stack'[Len(stack)].mode = "flat"
           /\ stack'[Len(stack)].got = <<ret.name, Name(node_count)>>
           /\ stack'[Len(stack) + 1] = NewFrame(Top.tree.kids[2], "inline")
           /\ \A p \in 1..(Len(stack) - 1) : stack'[p] = stack[p] /\ stack[p].at # "step"
           /\ ~returned'
<1>1. FlatRet /\ Top.mode = "flat" /\ stack # << >>
  BY BackFlat DEF AnchorDone
<1>2. PICK f : f = [Top EXCEPT !.at = "step", !.got = <<ret.name, Name(node_count)>>]
  OBVIOUS
<1>3. Top \in Frame
  BY <1>1, TopFacts
<1>4. f.at = "step" /\ f.mode = "flat" /\ f.got = <<ret.name, Name(node_count)>>
  BY <1>1, <1>2, <1>3 DEF Frame
<1>5. /\ Call(f, Top.tree.kids[2], "inline")
      /\ cte_nodes' = Append(cte_nodes, ret) /\ node_count' = node_count + 1
  BY <1>2 DEF AnchorDone, Push
<1>6. /\ Len(stack) \in Nat /\ Len(stack) >= 1 /\ DOMAIN stack = 1..Len(stack)
      /\ DOMAIN stack' = 1..(Len(stack) + 1)
      /\ stack'[Len(stack)] = f
      /\ stack'[Len(stack) + 1] = NewFrame(Top.tree.kids[2], "inline")
      /\ \A p \in 1..(Len(stack) - 1) : stack'[p] = stack[p]
      /\ ~returned'
  BY <1>1, <1>5, CallShape
<1>7. \A p \in DOMAIN stack : stack[p].at = "step" => p = Len(stack)
  BY <1>1, NoStepBelow
<1>8. \A p \in 1..(Len(stack) - 1) : stack[p].at # "step"
  BY <1>6, <1>7
<1>. QED  BY <1>1, <1>4, <1>5, <1>6, <1>8

LEMMA StepFacts ==
    ASSUME TypeOK, NestingInv, NamesInv, StepDone
    PROVE  /\ stack # << >> /\ Top.mode = "flat" /\ Top.at = "step" /\ ~FlatRet /\ returned
           /\ Top.got[1] \in Token /\ Top.got[2] \in Token
           /\ Unmarked(Top.got[2]) /\ IsName(Top.got[2]) /\ Top.got[2].id < node_count
           /\ ~Top.got[2].right
           /\ Unlisted(Top.got[2].id, cte_nodes)
           /\ \A p \in DOMAIN stack : stack[p].at = "step" => p = Len(stack)
<1>1. stack # << >> /\ Top.at = "step" /\ returned
  BY DEF StepDone, BackAt
<1>2. Top = stack[Len(stack)] /\ Len(stack) \in DOMAIN stack /\ Top.got \in Seq(Token)
  BY <1>1, TopFacts
<1>3. Len(Top.got) = 2 /\ Top.mode = "flat"
  BY <1>1, <1>2 DEF NestingInv, Shape
<1>4. Top.got[1] \in Token /\ Top.got[2] \in Token
  BY <1>2, <1>3
<1>5. /\ Unmarked(Top.got[2]) /\ Top.got[2].id < node_count
      /\ Unlisted(Top.got[2].id, cte_nodes)
  BY <1>1, <1>2 DEF NamesInv
<1>6. ~FlatRet
  BY <1>1 DEF FlatRet, Callee
<1>7. \A p \in DOMAIN stack : stack[p].at = "step" => p = Len(stack)
  BY <1>1, <1>3, NoStepBelow
<1>. QED  BY <1>1, <1>3, <1>4, <1>5, <1>6, <1>7 DEF Unmarked

LEMMA NamesRecursive ==
    ASSUME TypeOK, NestingInv, NamesInv,
           EnterRecursive \/ AnchorDone \/ StepDone \/ EnterUnsupported
    PROVE  NamesInv'
<1>1. stack # << >>
  BY DEF EnterRecursive, AnchorDone, StepDone, EnterUnsupported, At, BackAt
<1>2. Top \in Frame /\ node_count \in Nat /\ cte_nodes \in Seq(CteNode) /\ node_count + 1 \in Nat
  BY <1>1, TopFacts, Typed
<1>3. CASE EnterRecursive
  <2>1. PICK f : f = [Top EXCEPT !.at = "anchor"]
    OBVIOUS
  <2>2. f.at # "step"
    BY <1>2, <2>1 DEF Frame
  <2>3. /\ Call(f, Top.tree.kids[1], "flat") /\ UNCHANGED <<node_count, cte_nodes>>
    BY <1>3, <2>1 DEF EnterRecursive, listVars
  <2>. QED  BY <1>1, <2>2, <2>3, NamesCall
<1>4. CASE AnchorDone
  <2>1. /\ FlatRet /\ cte_nodes' = Append(cte_nodes, ret) /\ node_count' = node_count + 1
        /\ ~returned'
    BY <1>4, AnchorNames
  <2>2. Numbered(cte_nodes, node_count)' /\ Unlisted(node_count, cte_nodes')
    BY <2>1, RetFacts
  <2>3. Unmarked(Name(node_count)) /\ Name(node_count).id = node_count
    BY <1>2, TokenFacts
  <2>4. NewFrame(Top.tree.kids[2], "inline").at # "step"
    BY DEF NewFrame
  <2>5. ASSUME NEW p \in DOMAIN stack', stack'[p].at = "step"
        PROVE  stack'[p].got[2] = Name(node_count)
    <3>1. PICK n \in Nat : n = Len(stack) /\ n >= 1
      BY <1>4, AnchorNames
    <3>2. p \in 1..(n - 1) \/ p = n \/ p = n + 1
      <4>1. DOMAIN stack' = 1..(n + 1)
        BY <1>4, <3>1, AnchorNames
      <4>. QED  BY <4>1
    <3>3. p \notin 1..(n - 1) /\ p # n + 1
      BY <1>4, <2>4, <2>5, <3>1, AnchorNames
    <3>4. stack'[n].got = <<ret.name, Name(node_count)>>
      BY <1>4, <3>1, AnchorNames
    <3>. QED  BY <3>2, <3>3, <3>4
  <2>6. \A p \in DOMAIN stack' : stack'[p].at = "step" =>
          /\ Unmarked(stack'[p].got[2])
          /\ stack'[p].got[2].id < node_count' /\ Unlisted(stack'[p].got[2].id, cte_nodes')
    BY <1>2, <2>1, <2>2, <2>3, <2>5
  <2>. QED  BY <2>1, <2>2, <2>6 DEF NamesInv, FlatRet
<1>5. CASE StepDone
  <2>1. PICK own \in Token : own = Top.got[2]
    BY <1>5, StepFacts
  <2>2. /\ Top.mode = "flat" /\ IsName(own) /\ own.id < node_count /\ Unlisted(own.id, cte_nodes)
    BY <1>5, <2>1, StepFacts
  <2>3. PICK body : body = <<Top.got[1]>> \o ret.body \o <<Op(Top.tree)>>
    OBVIOUS
  <2>4. PICK c : c = Cte(own, body)
    OBVIOUS
  <2>5. body \in Seq(Token)
    <3>1. Top.got[1] \in Token /\ ret.body \in Seq(Token) /\ Op(Top.tree) \in Token
      BY <1>1, <1>5, StepFacts, Typed, TopFacts
    <3>. QED  BY <2>3, <3>1
  <2>6. c \in CteNode /\ c.name = own
    BY <2>4, <2>5, CteFacts
  <2>7. Numbered(cte_nodes, node_count)
    BY DEF NamesInv
  <2>8. PICK nodes \in Seq(CteNode) : nodes = Append(cte_nodes, c)
    <3>1. Append(cte_nodes, c) \in Seq(CteNode)
      BY <1>2, <2>6
    <3>. QED  BY <3>1
  <2>9. Numbered(nodes, node_count)
    BY <1>2, <2>2, <2>6, <2>7, <2>8, NumberedAppend
  <2>10. node_count + 1 >= node_count /\ node_count >= node_count
    BY <1>2
  <2>11. Numbered(nodes, node_count + 1)
    BY <1>2, <2>9, <2>10, NumberedMore
  <2>12. \A x \in Nat : x >= node_count => Unlisted(x, nodes)
    BY <1>2, <2>9, <2>10, NumberedMore
  <2>13. PICK node : node = Cte(Name(node_count), <<own>>)
    OBVIOUS
  <2>14. node.name = Name(node_count)
    BY <2>13 DEF Cte
  <2>15. Unmarked(node.name) /\ node.name.id = node_count
    BY <1>2, <2>14, TokenFacts
  <2>16. /\ cte_nodes' = nodes /\ node_count' = node_count + 1 /\ Return(node)
    BY <1>5, <2>1, <2>3, <2>4, <2>8, <2>13 DEF StepDone, Push
  <2>17. Numbered(cte_nodes, node_count)' /\ Unlisted(node.name.id, cte_nodes')
    BY <1>2, <2>10, <2>11, <2>12, <2>15, <2>16
  <2>18. node.name.id < node_count'
    BY <1>2, <2>15, <2>16
  <2>. QED  BY <1>1, <2>2, <2>15, <2>16, <2>17, <2>18, NamesFlatReturn
<1>6. CASE EnterUnsupported
  BY <1>6, NamesThrow DEF EnterUnsupported
<1>. QED  BY <1>3, <1>4, <1>5, <1>6

LEMMA NamesOrdinary ==
    ASSUME TypeOK, NestingInv, NamesInv, EnterOrdinary \/ WalkDown \/ WalkEnd \/ SourceDone
    PROVE  NamesInv'
<1>1. stack # << >> /\ Top.mode = "flat"
  BY DEF EnterOrdinary, WalkDown, WalkEnd, SourceDone, At, BackAt, Flat
<1>2. /\ Top \in Frame /\ node_count \in Nat
      /\ Top.cur \in Trees /\ Top.slot \in [Slots -> Trees \cup {NoTree}]
      /\ Op(Top.cur) \in Token
  BY <1>1, TopFacts, FrameFacts, TokenFacts, Typed
<1>3. \A a \in {"walk", "kids", "source"} : [Top EXCEPT !.at = a].at # "step"
  BY <1>2 DEF Frame
<1>4. CASE EnterOrdinary
  <2>1. PICK a \in {"walk", "kids"} : Stay([Top EXCEPT !.at = a])
    BY <1>4 DEF EnterOrdinary
  <2>2. UNCHANGED <<node_count, cte_nodes>>
    BY <1>4 DEF EnterOrdinary, listVars
  <2>. QED  BY <1>1, <1>3, <2>1, <2>2, NamesStay
<1>5. CASE WalkDown
  <2>1. PICK f : f = [Top EXCEPT !.slot[Least(SlotOf(Top.cur, Top.slot))] = Top.cur,
                                 !.cur = Top.cur.kids[1]]
    OBVIOUS
  <2>2. f.at = "walk"
    BY <1>2, <1>5, <2>1 DEF Frame, WalkDown, At
  <2>3. Stay(f) /\ UNCHANGED <<node_count, cte_nodes>>
    BY <1>5, <2>1 DEF WalkDown, listVars
  <2>. QED  BY <1>1, <2>2, <2>3, NamesStay
<1>6. CASE WalkEnd
  <2>1. \/ Stay([Top EXCEPT !.at = "kids"]) /\ UNCHANGED <<node_count, cte_nodes>>
        \/ /\ Return(Cte(Name(node_count), Block(<<Op(Top.cur)>>, Top.slot)))
           /\ node_count' = node_count + 1 /\ UNCHANGED cte_nodes
        \/ /\ Call([Top EXCEPT !.at = "source"], Top.cur, "flat")
           /\ UNCHANGED <<node_count, cte_nodes>>
    BY <1>6 DEF WalkEnd
  <2>2. CASE Stay([Top EXCEPT !.at = "kids"]) /\ UNCHANGED <<node_count, cte_nodes>>
    BY <1>1, <1>3, <2>2, NamesStay
  <2>3. CASE /\ Return(Cte(Name(node_count), Block(<<Op(Top.cur)>>, Top.slot)))
             /\ node_count' = node_count + 1 /\ UNCHANGED cte_nodes
    <3>1. PICK node : node = Cte(Name(node_count), Block(<<Op(Top.cur)>>, Top.slot))
      OBVIOUS
    <3>2. node \in CteNode /\ node.name = Name(node_count)
      <4>1. <<Op(Top.cur)>> \in Seq(Token)
        BY <1>2
      <4>2. Block(<<Op(Top.cur)>>, Top.slot) \in Seq(Token)
        BY <1>2, <4>1, BlockTyped
      <4>. QED  BY <1>2, <3>1, <4>2, TokenFacts, CteFacts
    <3>. QED  BY <1>1, <2>3, <3>1, <3>2, NamesCounted
  <2>4. CASE /\ Call([Top EXCEPT !.at = "source"], Top.cur, "flat")
             /\ UNCHANGED <<node_count, cte_nodes>>
    BY <1>1, <1>3, <2>4, NamesCall
  <2>. QED  BY <2>1, <2>2, <2>3, <2>4
<1>7. CASE SourceDone
  <2>1. FlatRet
    BY <1>7, BackFlat DEF SourceDone
  <2>2. cte_nodes' = Append(cte_nodes, ret)
    BY <1>7 DEF SourceDone, Push
  <2>3. CASE GroupsByPosition(Top.slot)
    <3>1. Stay([Top EXCEPT !.at = "kids"]) /\ node_count' = node_count
      BY <1>7, <2>3 DEF SourceDone
    <3>2. Numbered(cte_nodes, node_count)'
      BY <2>1, <2>2, <3>1, RetFacts
    <3>. QED  BY <1>1, <1>3, <3>1, <3>2, NamesFlatStay
  <2>4. CASE ~GroupsByPosition(Top.slot)
    <3>1. PICK node : node = Cte(Name(node_count), Block(<<ret.name>>, Top.slot))
      OBVIOUS
    <3>2. node.name = Name(node_count)
      BY <3>1 DEF Cte
    <3>3. Return(node) /\ node_count' = node_count + 1
      BY <1>7, <2>4, <3>1 DEF SourceDone
    <3>4. Unmarked(node.name) /\ node.name.id = node_count
      BY <1>2, <3>2, TokenFacts
    <3>5. Numbered(cte_nodes, node_count)' /\ Unlisted(node.name.id, cte_nodes')
      BY <2>1, <2>2, <3>3, <3>4, RetFacts
    <3>6. node.name.id < node_count'
      BY <1>2, <3>3, <3>4
    <3>. QED  BY <1>1, <3>3, <3>4, <3>5, <3>6, NamesFlatReturn
  <2>. QED  BY <2>3, <2>4
<1>. QED  BY <1>4, <1>5, <1>6, <1>7

\* What the activation that builds a CTE has got.
LEMMA GotFacts ==
    ASSUME TypeOK, NestingInv, NEW kinds, AllKids(Flat, kinds)
    PROVE  /\ stack # << >> /\ Top.mode = "flat" /\ Top.at = "kids" /\ Owns(Top)
           /\ Top.got \in Seq(Token) /\ Len(Top.got) = Len(Top.tree.kids)
           /\ Top.tree.kind \in kinds
           /\ Top.tree.kind \in {"Join", "PositionalJoin"} =>
                 Len(Top.got) = 2 /\ Top.got[1] \in Token /\ Top.got[2] \in Token
<1>1. /\ stack # << >> /\ Top.mode = "flat" /\ Top.at = "kids" /\ Top.kid = Len(Top.tree.kids)
      /\ Top.tree.kind \in kinds
  BY DEF AllKids, At, Flat
<1>2. /\ Top.got \in Seq(Token) /\ Top = stack[Len(stack)] /\ Len(stack) \in DOMAIN stack
  BY <1>1, TopFacts
<1>3. Len(Top.got) = Len(Top.tree.kids)
  BY <1>1, <1>2 DEF NestingInv, Shape
<1>4. Top.tree.kind \in {"Join", "PositionalJoin"} => Len(Top.got) = 2
  BY <1>1, <1>3, TopKid
<1>. QED  BY <1>1, <1>2, <1>3, <1>4 DEF Owns

LEMMA NamesBuild ==
    ASSUME TypeOK, NestingInv, NamesInv, HoldersInv,
           \/ EnterInlineOrdinary \/ NextKid \/ KidDone \/ InlineKidDone
           \/ BuildNode \/ BuildJoin \/ BuildUnion \/ BuildInline
    PROVE  NamesInv'
<1>1. stack # << >>
  BY DEF EnterInlineOrdinary, NextKid, KidDone, InlineKidDone, BuildNode, BuildJoin, BuildUnion,
         BuildInline, AllKids, At, BackAt
<1>2. /\ Top \in Frame /\ node_count \in Nat /\ Top.got \in Seq(Token) /\ Op(Top.tree) \in Token
      /\ node_count + 1 \in Nat /\ cte_nodes \in Seq(CteNode) /\ Top.tree \in Trees
      /\ Numbered(cte_nodes, node_count)
  BY <1>1, TopFacts, Typed DEF NamesInv
<1>3. CASE EnterInlineOrdinary
  <2>1. PICK f : f = [Top EXCEPT !.at = "kids"]
    OBVIOUS
  <2>2. f.at # "step"
    BY <1>2, <2>1 DEF Frame
  <2>3. Stay(f) /\ UNCHANGED <<node_count, cte_nodes>>
    BY <1>3, <2>1 DEF EnterInlineOrdinary, listVars
  <2>. QED  BY <1>1, <2>2, <2>3, NamesStay
<1>4. CASE NextKid
  <2>1. Top.at # "step"
    BY <1>4 DEF NextKid, At
  <2>2. UNCHANGED <<node_count, cte_nodes>>
    BY <1>4 DEF NextKid, listVars
  <2>. QED  BY <1>1, <1>4, <2>1, <2>2, NamesCall DEF NextKid
<1>5. CASE KidDone
  <2>1. PICK f : f = [Top EXCEPT !.kid = @ + 1, !.got = Append(@, ret.name)]
    OBVIOUS
  <2>2. f.at # "step" /\ FlatRet /\ Top.mode = "flat"
    <3>1. FlatRet /\ Top.mode = "flat" /\ Top.at = "kids"
      BY <1>5, BackFlat DEF KidDone
    <3>. QED  BY <1>2, <2>1, <3>1 DEF Frame
  <2>3. /\ Stay(f) /\ cte_nodes' = Append(cte_nodes, ret) /\ node_count' = node_count
    BY <1>5, <2>1 DEF KidDone, Push
  <2>4. Numbered(cte_nodes, node_count)'
    BY <2>2, <2>3, RetFacts
  <2>. QED  BY <1>1, <2>2, <2>3, <2>4, NamesFlatStay
<1>6. CASE InlineKidDone
  <2>1. PICK got : Stay([Top EXCEPT !.kid = @ + 1, !.got = got])
    BY <1>6 DEF InlineKidDone
  <2>2. PICK f : f = [Top EXCEPT !.kid = @ + 1, !.got = got]
    OBVIOUS
  <2>3. f.at # "step"
    BY <1>2, <1>6, <2>2 DEF Frame, InlineKidDone, BackAt
  <2>4. UNCHANGED <<node_count, cte_nodes>>
    BY <1>6 DEF InlineKidDone, listVars
  <2>. QED  BY <1>1, <2>1, <2>2, <2>3, <2>4, NamesStay
<1>7. CASE BuildNode
  <2>1. PICK body \in Seq(Token) : body = Append(Top.got, Op(Top.tree))
    <3>1. Append(Top.got, Op(Top.tree)) \in Seq(Token)
      BY <1>2
    <3>. QED  BY <3>1
  <2>2. PICK hint \in BOOLEAN : Return([Cte(Name(node_count), body) EXCEPT !.hint = hint])
    <3>. DEFINE h == \/ Top.tree.kind = "Get" /\ dialect = "SPARK" /\ "delta" \in Top.tree.flags
                     \/ Top.tree.kind \in {"Filter", "Project", "Aggregate"} /\ Back.hint
    <3>1. h \in BOOLEAN
      OBVIOUS
    <3>. QED  BY <1>7, <2>1, <3>1 DEF BuildNode
  <2>3. PICK node : node = [Cte(Name(node_count), body) EXCEPT !.hint = hint]
    OBVIOUS
  <2>4. Cte(Name(node_count), body) \in CteNode /\ Cte(Name(node_count), body).name = Name(node_count)
    BY <1>2, TokenFacts, CteFacts
  <2>5. node \in CteNode /\ node.name = Name(node_count)
    BY <2>3, <2>4 DEF CteNode
  <2>6. /\ Top.mode = "flat" /\ UNCHANGED cte_nodes /\ node_count' = node_count + 1
    BY <1>7, GotFacts DEF BuildNode
  <2>. QED  BY <1>1, <2>2, <2>3, <2>5, <2>6, NamesCounted
<1>8. CASE BuildJoin
  <2>1. /\ Top.mode = "flat" /\ Top.got[2] \in Token /\ Owns(Top) /\ Len(Top.got) = 2
    BY <1>8, GotFacts DEF BuildJoin
  <2>2. IsName(Top.got[2])
    BY <1>1, <1>2, <2>1, OwnedNames
  <2>3. PICK body, sides : Return([Cte(Name(node_count), body) EXCEPT !.broadcast = sides])
    BY <1>8 DEF BuildJoin
  <2>4. PICK node : node = [Cte(Name(node_count), body) EXCEPT !.broadcast = sides]
    OBVIOUS
  <2>5. node.name = Name(node_count)
    BY <2>4 DEF Cte
  <2>6. cte_nodes' = MarkRight(cte_nodes, Top.got[2]) /\ node_count' = node_count + 1
    BY <1>8 DEF BuildJoin
  <2>7. Numbered(cte_nodes, node_count + 1) /\ Unlisted(node_count, cte_nodes)
    <3>1. node_count + 1 >= node_count /\ node_count >= node_count
      BY <1>2
    <3>2. Numbered(cte_nodes, node_count + 1)
      BY <1>2, <3>1, NumberedMore
    <3>3. \A x \in Nat : x >= node_count => Unlisted(x, cte_nodes)
      BY <1>2, <3>1, NumberedMore
    <3>. QED  BY <1>2, <3>1, <3>2, <3>3
  <2>8. /\ Numbered(MarkRight(cte_nodes, Top.got[2]), node_count + 1)
        /\ Unlisted(node_count, MarkRight(cte_nodes, Top.got[2]))
    BY <1>2, <2>1, <2>2, <2>7, NumberedMark
  <2>9. Unmarked(node.name) /\ node.name.id = node_count
    BY <1>2, <2>5, TokenFacts
  <2>10. Numbered(cte_nodes, node_count)' /\ Unlisted(node.name.id, cte_nodes')
    BY <2>6, <2>8, <2>9
  <2>11. node.name.id < node_count'
    BY <1>2, <2>6, <2>9
  <2>. QED  BY <1>1, <2>1, <2>3, <2>4, <2>9, <2>10, <2>11, NamesFlatReturn
<1>9. CASE BuildUnion
  <2>1. Top.mode = "flat"
    BY <1>9, GotFacts DEF BuildUnion
  <2>2. PICK node : Return(node) /\ node.name = Name(node_count)
    <3>1. Cte(Name(node_count),
                      IF Len(Top.got) = 1 THEN Append(Top.got, Op(Top.tree))
                      ELSE UnionOf(Top.tree, node_count, Top.got, Len(Top.got) - 1)).name
              = Name(node_count)
      BY DEF Cte
    <3>. QED  BY <1>9, <3>1, UnionStep
  <2>3. /\ Len(Top.got) >= 1
        /\ cte_nodes' = cte_nodes \o UnionNodes(Top.tree, node_count, Top.got)
        /\ node_count' = node_count + (IF Len(Top.got) < 3 THEN 1 ELSE Len(Top.got) - 1)
    BY <1>9, UnionStep
  <2>4. PICK m : m = node_count + (IF Len(Top.got) < 3 THEN 1 ELSE Len(Top.got) - 1)
    OBVIOUS
  <2>5. /\ Numbered(cte_nodes \o UnionNodes(Top.tree, node_count, Top.got), m)
        /\ node_count < m
        /\ Unlisted(node_count, cte_nodes \o UnionNodes(Top.tree, node_count, Top.got))
    BY <1>2, <2>3, <2>4, NumberedUnion
  <2>6. Unmarked(node.name) /\ node.name.id = node_count
    BY <1>2, <2>2, TokenFacts
  <2>7. Numbered(cte_nodes, node_count)' /\ Unlisted(node.name.id, cte_nodes')
    BY <2>3, <2>4, <2>5, <2>6
  <2>8. node.name.id < node_count'
    BY <2>3, <2>4, <2>5, <2>6
  <2>. QED  BY <1>1, <2>1, <2>2, <2>6, <2>7, <2>8, NamesFlatReturn
<1>10. CASE BuildInline
  <2>1. PICK node : Return(node)
    BY <1>10 DEF BuildInline
  <2>2. Top.mode = "inline" /\ UNCHANGED <<node_count, cte_nodes>>
    BY <1>10 DEF BuildInline, AllKids, At, Inline, listVars
  <2>. QED  BY <1>1, <2>1, <2>2, NamesInline
<1>. QED  BY <1>3, <1>4, <1>5, <1>6, <1>7, <1>8, <1>9, <1>10

LEMMA NamesStep == TypeOK /\ NestingInv /\ NamesInv /\ HoldersInv /\ [Next]_vars => NamesInv'
<1>. SUFFICES ASSUME TypeOK, NestingInv, NamesInv, HoldersInv, [Next]_vars PROVE NamesInv'
  OBVIOUS
<1>1. CASE Finish
  <2>1. FlatRet
    BY <1>1 DEF Finish, FlatRet
  <2>2. Numbered(cte_nodes, node_count)'
    BY <1>1, <2>1, RetFacts DEF Finish, Push
  <2>3. ~returned' /\ DOMAIN stack' = {}
    BY <1>1 DEF Finish
  <2>. QED  BY <2>2, <2>3 DEF NamesInv, FlatRet
<1>2. CASE UNCHANGED vars
  BY <1>2 DEF vars, listVars, callVars, NamesInv, FlatRet, Top
<1>. QED  BY <1>1, <1>2, NamesMaterialized, NamesDelim, NamesRecursive, NamesOrdinary, NamesBuild
     DEF Next

------------------------------------------------------------------------------
(* What is held, owned and read, when the stack and the list change.       *)

LEMMA ListedFacts ==
    ASSUME NEW nodes, NEW n, Numbered(nodes, n), NEW t, Listed(t, nodes)
    PROVE  /\ IsName(t) /\ t.id < n
           /\ \A x : Unlisted(x, nodes) => t.id # x
BY DEF Listed, Numbered, Unlisted

LEMMA ListedAppend ==
    ASSUME NEW nodes \in Seq(CteNode), NEW c \in CteNode
    PROVE  /\ \A t : Listed(t, nodes) => Listed(t, Append(nodes, c))
           /\ Listed(c.name, Append(nodes, c))
<1>1. PICK longer : longer = Append(nodes, c)
  OBVIOUS
<1>2. /\ \A k \in DOMAIN nodes : k \in DOMAIN longer /\ longer[k] = nodes[k]
      /\ longer[Len(nodes) + 1] = c /\ Len(nodes) + 1 \in DOMAIN longer
  BY <1>1, AppendFacts
<1>3. \A t : Listed(t, nodes) => Listed(t, longer)
  BY <1>2 DEF Listed
<1>4. Listed(c.name, longer)
  BY <1>2 DEF Listed
<1>. QED  BY <1>1, <1>3, <1>4

\* A name that a join renames is in the list under its new name, the others under theirs.
LEMMA ListedMark ==
    ASSUME NEW nodes \in Seq(CteNode), NEW n, Numbered(nodes, n), NEW name \in Token
    PROVE  /\ \A t : Listed(t, nodes) /\ t.id # name.id => Listed(t, MarkRight(nodes, name))
           /\ Listed(name, nodes) => Listed(RightName(nodes, name), MarkRight(nodes, name))
           /\ RightName(nodes, name).id = name.id
<1>1. PICK marked : marked = MarkRight(nodes, name)
  OBVIOUS
<1>2. /\ DOMAIN marked = DOMAIN nodes
      /\ \A k \in DOMAIN nodes : \/ marked[k].name = nodes[k].name
                                 \/ marked[k].name = Marked(name) /\ nodes[k].name = name
  BY <1>1, MarkTyped
<1>3. \A t : Listed(t, nodes) /\ t.id # name.id => Listed(t, marked)
  BY <1>2 DEF Listed
<1>4. RightName(nodes, name).id = name.id
  BY TokenFacts DEF RightName
<1>5. ASSUME Listed(name, nodes) PROVE Listed(RightName(nodes, name), marked)
  <2>1. CASE dialect # "DUCKDB"
    BY <1>1, <1>5, <2>1 DEF MarkRight, RightName
  <2>2. CASE dialect = "DUCKDB"
    <3>1. Len(nodes) \in Nat /\ DOMAIN nodes = 1..Len(nodes)
      OBVIOUS
    <3>2. PICK m \in DOMAIN nodes : nodes[m].name = name
      BY <1>5 DEF Listed
    <3>3. \A j \in 1..(m - 1) : nodes[j].name # name
      <4>1. \A j \in 1..(m - 1) : j \in DOMAIN nodes /\ j # m
        BY <3>1
      <4>. QED  BY <3>2, <4>1 DEF Numbered
    <3>4. marked[m] = [nodes[m] EXCEPT !.name = Marked(name)]
      BY <1>1, <2>2, <3>2, <3>3 DEF MarkRight
    <3>5. nodes[m] \in CteNode
      OBVIOUS
    <3>6. marked[m].name = Marked(name)
      BY <3>4, <3>5 DEF CteNode
    <3>7. RightName(nodes, name) = Marked(name)
      BY <2>2, <3>2 DEF RightName
    <3>. QED  BY <1>2, <3>2, <3>6, <3>7 DEF Listed
  <2>. QED  BY <2>1, <2>2
<1>. QED  BY <1>1, <1>3, <1>4, <1>5

LEMMA FreeKept ==
    ASSUME NEW stk, NEW stk2,
           \A p \in DOMAIN stk2 : Owns(stk2[p]) /\ stk2[p].got # << >> =>
              p \in DOMAIN stk /\ Owns(stk[p]) /\ stk2[p].got = stk[p].got
    PROVE  /\ \A id : Free(id, stk) => Free(id, stk2)
           /\ Alone(stk) => Alone(stk2)
<1>1. DOMAIN << >> = {}
  OBVIOUS
<1>2. \A p \in DOMAIN stk2 : \A i \in DOMAIN stk2[p].got : Owns(stk2[p]) =>
          p \in DOMAIN stk /\ Owns(stk[p]) /\ stk2[p].got = stk[p].got
  BY <1>1
<1>. QED  BY <1>2 DEF Free, Alone

\* What held a safe name may go on holding it.
Carries(stk, nodes, stk2, nodes2) ==
    \A t \in Token : SafeRef(t, stk, nodes) => SafeRef(t, stk2, nodes2)

LEMMA CarriesIf ==
    ASSUME NEW stk, NEW nodes, NEW stk2, NEW nodes2,
           \A id : Free(id, stk) => Free(id, stk2),
           \A t \in Token : Free(t.id, stk) /\ Listed(t, nodes) => Listed(t, nodes2),
           \A t \in Token : Pending(t, stk) => Pending(t, stk2) \/ Listed(t, nodes2)
    PROVE  Carries(stk, nodes, stk2, nodes2)
BY DEF Carries, SafeRef

LEMMA TextCarried ==
    ASSUME NEW stk, NEW nodes, NEW stk2, NEW nodes2, Carries(stk, nodes, stk2, nodes2),
           NEW text \in Seq(Token), SafeText(text, stk, nodes)
    PROVE  SafeText(text, stk2, nodes2)
<1>1. \A n \in DOMAIN text : text[n] \in Token
  OBVIOUS
<1>. QED  BY <1>1 DEF Carries, SafeText

LEMMA BodiesCarried ==
    ASSUME NEW stk, NEW nodes, NEW stk2, NEW nodes2, Carries(stk, nodes, stk2, nodes2),
           NEW map, \A id \in DOMAIN map : map[id] \in Seq(Token), BodiesSafe(map, stk, nodes)
    PROVE  BodiesSafe(map, stk2, nodes2)
BY TextCarried DEF BodiesSafe

LEMMA SourcesCarried ==
    ASSUME NEW stk, NEW nodes, NEW stk2, NEW nodes2, Carries(stk, nodes, stk2, nodes2),
           NEW map, \A id \in DOMAIN map : map[id] \in Token, SourcesSafe(map, stk, nodes)
    PROVE  SourcesSafe(map, stk2, nodes2)
BY DEF SourcesSafe, Carries

LEMMA HoldsCarried ==
    ASSUME NEW stk, NEW nodes, NEW stk2, NEW nodes2, Carries(stk, nodes, stk2, nodes2),
           NEW f \in Frame, Shape(f), Holds(f, stk, nodes), Owned(f, nodes2)
    PROVE  Holds(f, stk2, nodes2)
<1>1. f.got \in Seq(Token) /\ \A n \in DOMAIN f.saved : f.saved[n] \in Seq(Token)
  BY FrameFacts
<1>2. SafeText(f.got, stk, nodes) => SafeText(f.got, stk2, nodes2)
  BY <1>1, TextCarried
<1>3. \A n \in DOMAIN f.saved : SafeText(f.saved[n], stk, nodes) => SafeText(f.saved[n], stk2, nodes2)
  BY <1>1, TextCarried
<1>4. f.at = "step" => (SafeRef(f.got[1], stk, nodes) => SafeRef(f.got[1], stk2, nodes2))
  <2>1. f.at = "step" => f.got[1] \in Token
    BY <1>1 DEF Shape
  <2>. QED  BY <2>1 DEF Carries
<1>. QED  BY <1>2, <1>3, <1>4 DEF Holds

LEMMA TextFacts ==
    ASSUME NEW stk, NEW nodes
    PROVE  /\ SafeText(<< >>, stk, nodes)
           /\ \A a, b \in Seq(Token) : SafeText(a, stk, nodes) /\ SafeText(b, stk, nodes)
                 => SafeText(a \o b, stk, nodes)
           /\ \A t : SafeRef(t, stk, nodes) => SafeText(<<t>>, stk, nodes)
           /\ \A t : ~IsName(t) => SafeText(<<t>>, stk, nodes)
<1>1. SafeText(<< >>, stk, nodes)
  BY DEF SafeText
<1>2. ASSUME NEW a \in Seq(Token), NEW b \in Seq(Token),
             SafeText(a, stk, nodes), SafeText(b, stk, nodes)
      PROVE  SafeText(a \o b, stk, nodes)
  <2>1. PICK c : c = a \o b
    OBVIOUS
  <2>2. \A n \in DOMAIN c : \/ n \in DOMAIN a /\ c[n] = a[n]
                            \/ n - Len(a) \in DOMAIN b /\ c[n] = b[n - Len(a)]
    BY <2>1
  <2>3. \A n \in DOMAIN c : SafeRef(c[n], stk, nodes)
    BY <1>2, <2>2 DEF SafeText
  <2>. QED  BY <2>1, <2>3 DEF SafeText
<1>3. \A t : SafeRef(t, stk, nodes) => SafeText(<<t>>, stk, nodes)
  BY DEF SafeText
<1>4. \A t : ~IsName(t) => SafeRef(t, stk, nodes)
  BY DEF SafeRef
<1>. QED  BY <1>1, <1>2, <1>3, <1>4

LEMMA BindSafe ==
    ASSUME NEW stk, NEW nodes, NEW map, NEW id, NEW value
    PROVE  /\ BodiesSafe(map, stk, nodes) /\ SafeText(value, stk, nodes)
                 => BodiesSafe(Bind(map, id, value), stk, nodes)
           /\ SourcesSafe(map, stk, nodes) /\ SafeRef(value, stk, nodes)
                 => SourcesSafe(Bind(map, id, value), stk, nodes)
BY DEF BodiesSafe, SourcesSafe, Bind

LEMMA SavedSafe ==
    ASSUME NEW stk, NEW nodes, NEW map, NEW id, BodiesSafe(map, stk, nodes)
    PROVE  \A n \in DOMAIN Saved(map, id) : SafeText(Saved(map, id)[n], stk, nodes)
BY DEF BodiesSafe, Saved

LEMMA RestoreSafe ==
    ASSUME NEW stk, NEW nodes, NEW map, NEW id, BodiesSafe(map, stk, nodes),
           NEW saved \in Seq(Seq(Token)), \A n \in DOMAIN saved : SafeText(saved[n], stk, nodes)
    PROVE  BodiesSafe(Restore(map, id, saved), stk, nodes)
<1>1. CASE saved = << >>
  BY <1>1 DEF Restore, Unbind, BodiesSafe
<1>2. CASE saved # << >>
  <2>1. 1 \in DOMAIN saved
    BY <1>2
  <2>. QED  BY <1>2, <2>1, BindSafe DEF Restore
<1>. QED  BY <1>1, <1>2

LEMMA ReadsKept ==
    ASSUME NEW nodes, NEW stk, NEW stk2, ReadsWell(nodes, stk),
           \A k \in DOMAIN nodes : \A i \in DOMAIN nodes[k].body :
              IsName(nodes[k].body[i]) /\ Free(nodes[k].body[i].id, stk)
                 => Free(nodes[k].body[i].id, stk2)
    PROVE  ReadsWell(nodes, stk2)
BY DEF ReadsWell

\* A CTE reads names of the list, or its own.
LEMMA ReadsNames ==
    ASSUME NEW nodes \in Seq(CteNode), NEW stk, ReadsWell(nodes, stk)
    PROVE  \A k \in DOMAIN nodes : \A i \in DOMAIN nodes[k].body :
              IsName(nodes[k].body[i]) => Listed(nodes[k].body[i], nodes)
<1>1. DOMAIN nodes = 1..Len(nodes) /\ Len(nodes) \in Nat
  OBVIOUS
<1>2. \A k \in DOMAIN nodes : \A j \in 1..(k - 1) : j \in DOMAIN nodes
  BY <1>1
<1>3. \A k \in DOMAIN nodes : \A t : Before(t, k, nodes) => Listed(t, nodes)
  BY <1>2 DEF Before, Listed
<1>4. \A k \in DOMAIN nodes : \A t : Itself(t, nodes[k]) => Listed(t, nodes)
  BY DEF Itself, Listed
<1>. QED  BY <1>3, <1>4 DEF ReadsWell

LEMMA ReadsAppend ==
    ASSUME NEW nodes \in Seq(CteNode), NEW c \in CteNode, NEW stk, ReadsWell(nodes, stk),
           \A i \in DOMAIN c.body : IsName(c.body[i]) =>
              /\ Free(c.body[i].id, stk)
              /\ Listed(c.body[i], nodes) \/ Itself(c.body[i], c)
              /\ c.body[i].right => ~ReadOf(c.body[i], nodes)
    PROVE  ReadsWell(Append(nodes, c), stk)
<1>1. PICK longer : longer = Append(nodes, c)
  OBVIOUS
<1>2. PICK l \in Nat : l = Len(nodes) /\ DOMAIN nodes = 1..l
  OBVIOUS
<1>3. /\ \A k \in DOMAIN nodes : k \in DOMAIN longer /\ longer[k] = nodes[k]
      /\ longer[l + 1] = c /\ DOMAIN longer = 1..(l + 1)
  BY <1>1, <1>2, AppendFacts
<1>4. ASSUME NEW k \in DOMAIN nodes, NEW t, Before(t, k, nodes) PROVE Before(t, k, longer)
  <2>1. \A j \in 1..(k - 1) : j \in DOMAIN nodes
    BY <1>2
  <2>. QED  BY <1>3, <1>4, <2>1 DEF Before
<1>5. ASSUME NEW t, Listed(t, nodes) PROVE Before(t, l + 1, longer)
  <2>1. PICK j \in DOMAIN nodes : nodes[j].name = t
    BY <1>5 DEF Listed
  <2>2. j \in 1..((l + 1) - 1) /\ longer[j].name = t
    BY <1>2, <1>3, <2>1
  <2>. QED  BY <2>2 DEF Before
<1>6. ASSUME NEW k \in DOMAIN longer, NEW i \in DOMAIN longer[k].body, IsName(longer[k].body[i])
      PROVE  /\ Before(longer[k].body[i], k, longer) \/ Itself(longer[k].body[i], longer[k])
             /\ Free(longer[k].body[i].id, stk)
  <2>1. CASE k \in DOMAIN nodes
    <3>1. longer[k] = nodes[k]
      BY <1>3, <2>1
    <3>. QED  BY <1>4, <1>6, <2>1, <3>1 DEF ReadsWell
  <2>2. CASE k = l + 1
    <3>1. longer[k] = c
      BY <1>3, <2>2
    <3>. QED  BY <1>5, <1>6, <2>2, <3>1
  <2>. QED  BY <1>2, <1>3, <2>1, <2>2
<1>7. ASSUME NEW k \in DOMAIN longer, NEW m \in DOMAIN longer,
             NEW i \in DOMAIN longer[k].body, NEW j \in DOMAIN longer[m].body,
             longer[k].body[i] = longer[m].body[j],
             IsName(longer[k].body[i]), longer[k].body[i].right
      PROVE  k = m
  <2>1. (k \in DOMAIN nodes \/ k = l + 1) /\ (m \in DOMAIN nodes \/ m = l + 1)
    BY <1>2, <1>3
  <2>2. CASE k \in DOMAIN nodes /\ m \in DOMAIN nodes
    <3>1. longer[k] = nodes[k] /\ longer[m] = nodes[m]
      BY <1>3, <2>2
    <3>. QED  BY <1>7, <2>2, <3>1 DEF ReadsWell
  <2>3. CASE k \in DOMAIN nodes /\ m = l + 1
    <3>1. longer[k] = nodes[k] /\ longer[m] = c
      BY <1>3, <2>3
    <3>2. ReadOf(c.body[j], nodes)
      BY <1>7, <2>3, <3>1 DEF ReadOf
    <3>. QED  BY <1>7, <3>1, <3>2
  <2>4. CASE k = l + 1 /\ m \in DOMAIN nodes
    <3>1. longer[k] = c /\ longer[m] = nodes[m]
      BY <1>3, <2>4
    <3>2. ReadOf(c.body[i], nodes)
      BY <1>7, <2>4, <3>1 DEF ReadOf
    <3>. QED  BY <1>7, <3>1, <3>2
  <2>. QED  BY <2>1, <2>2, <2>3, <2>4
<1>. QED  BY <1>1, <1>6, <1>7 DEF ReadsWell

LEMMA ReadsMark ==
    ASSUME NEW nodes \in Seq(CteNode), NEW name \in Token, NEW stk, ReadsWell(nodes, stk),
           \A k \in DOMAIN nodes : \A i \in DOMAIN nodes[k].body :
              IsName(nodes[k].body[i]) => nodes[k].body[i].id # name.id
    PROVE  /\ ReadsWell(MarkRight(nodes, name), stk)
           /\ \A t : IsName(t) /\ t.id = name.id => ~ReadOf(t, MarkRight(nodes, name))
<1>1. PICK marked : marked = MarkRight(nodes, name)
  OBVIOUS
<1>2. /\ DOMAIN marked = DOMAIN nodes
      /\ \A k \in DOMAIN nodes : /\ marked[k].body = nodes[k].body
                                 /\ \/ marked[k].name = nodes[k].name
                                    \/ marked[k].name = Marked(name) /\ nodes[k].name = name
  BY <1>1, MarkTyped
<1>3. \A k \in DOMAIN nodes : \A j \in 1..(k - 1) : j \in DOMAIN nodes
  <2>1. DOMAIN nodes = 1..Len(nodes) /\ Len(nodes) \in Nat
    OBVIOUS
  <2>. QED  BY <2>1
<1>4. ASSUME NEW k \in DOMAIN nodes, NEW t, t.id # name.id
      PROVE  /\ Before(t, k, nodes) => Before(t, k, marked)
             /\ Itself(t, nodes[k]) => Itself(t, marked[k])
  <2>1. Before(t, k, nodes) => Before(t, k, marked)
    BY <1>2, <1>3, <1>4 DEF Before
  <2>2. Itself(t, nodes[k]) => Itself(t, marked[k])
    BY <1>2, <1>4 DEF Itself
  <2>. QED  BY <2>1, <2>2
<1>5. ReadsWell(marked, stk)
  BY <1>2, <1>4 DEF ReadsWell
<1>6. \A t : IsName(t) /\ t.id = name.id => ~ReadOf(t, marked)
  BY <1>2 DEF ReadOf
<1>. QED  BY <1>1, <1>5, <1>6

------------------------------------------------------------------------------
(* Custody: what is held, what is owned and what is read.                  *)

CustodyInv == HoldersInv /\ Alone(stack) /\ ReadersInv

\* The list loses no name.
Grows(nodes, nodes2) == \A t : Listed(t, nodes) => Listed(t, nodes2)
\* An activation owns what it owned.
SameGot(f) == Owns(f) /\ f.got # << >> => Owns(Top) /\ f.got = Top.got
\* What a step has to leave to those that are not its own.
Carried ==
    /\ Alone(stack')
    /\ Carries(stack, cte_nodes, stack', cte_nodes')
    /\ \A p \in 1..(Len(stack) - 1) : Holds(stack[p], stack', cte_nodes')
    /\ BodiesSafe(body_info, stack', cte_nodes')
    /\ SourcesSafe(delim_source, stack', cte_nodes')
    /\ BodiesSafe(inline_delim, stack', cte_nodes')

LEMMA Running ==
    ASSUME TypeOK, NestingInv, CustodyInv, stack # << >>
    PROVE  /\ outcome = "running"
           /\ BodiesSafe(body_info, stack, cte_nodes)
           /\ SourcesSafe(delim_source, stack, cte_nodes)
           /\ BodiesSafe(inline_delim, stack, cte_nodes)
           /\ \A p \in DOMAIN stack : Holds(stack[p], stack, cte_nodes) /\ Shape(stack[p])
           /\ Holds(Top, stack, cte_nodes) /\ Shape(Top)
           /\ returned /\ ~FlatRet => SafeText(ret.body, stack, cte_nodes)
           /\ FlatRet => ReadsListed(ret.body, stack, cte_nodes)
           /\ ReadsWell(cte_nodes, stack) /\ Alone(stack) /\ ~final.right
<1>1. outcome = "running" /\ \A p \in DOMAIN stack : Shape(stack[p])
  BY DEF NestingInv
<1>2. /\ BodiesSafe(body_info, stack, cte_nodes)
      /\ SourcesSafe(delim_source, stack, cte_nodes)
      /\ BodiesSafe(inline_delim, stack, cte_nodes)
      /\ \A p \in DOMAIN stack : Holds(stack[p], stack, cte_nodes)
      /\ returned /\ ~FlatRet => SafeText(ret.body, stack, cte_nodes)
  BY <1>1 DEF CustodyInv, HoldersInv
<1>3. Top = stack[Len(stack)] /\ Len(stack) \in DOMAIN stack
  BY TopFacts
<1>4. /\ FlatRet => ReadsListed(ret.body, stack, cte_nodes)
      /\ ReadsWell(cte_nodes, stack) /\ Alone(stack) /\ ~final.right
  BY DEF CustodyInv, ReadersInv
<1>. QED  BY <1>1, <1>2, <1>3, <1>4

LEMMA CarriedIf ==
    ASSUME TypeOK, NestingInv, CustodyInv, stack # << >>, Alone(stack'),
           Carries(stack, cte_nodes, stack', cte_nodes'),
           \A p \in 1..(Len(stack) - 1) : Owned(stack[p], cte_nodes')
    PROVE  Carried
<1>1. /\ BodiesSafe(body_info, stack, cte_nodes)
      /\ SourcesSafe(delim_source, stack, cte_nodes)
      /\ BodiesSafe(inline_delim, stack, cte_nodes)
      /\ \A p \in DOMAIN stack : Holds(stack[p], stack, cte_nodes) /\ Shape(stack[p])
  BY Running
<1>2. /\ BodiesSafe(body_info, stack', cte_nodes')
      /\ BodiesSafe(inline_delim, stack', cte_nodes')
  BY <1>1, Typed, BodiesCarried
<1>3. SourcesSafe(delim_source, stack', cte_nodes')
  BY <1>1, Typed, SourcesCarried
<1>4. ASSUME NEW p \in 1..(Len(stack) - 1) PROVE Holds(stack[p], stack', cte_nodes')
  <2>1. p \in DOMAIN stack /\ stack[p] \in Frame
    BY StackFacts
  <2>2. Holds(stack[p], stack, cte_nodes) /\ Shape(stack[p]) /\ Owned(stack[p], cte_nodes')
    BY <1>1, <1>4, <2>1
  <2>. QED  BY <2>1, <2>2, HoldsCarried
<1>. QED  BY <1>2, <1>3, <1>4 DEF Carried

LEMMA OwnedGrows ==
    ASSUME NEW nodes, NEW nodes2, Grows(nodes, nodes2), NEW f, Owned(f, nodes)
    PROVE  Owned(f, nodes2)
BY DEF Grows, Owned

LEMMA LowerOwned ==
    ASSUME TypeOK, NestingInv, CustodyInv, stack # << >>, Grows(cte_nodes, cte_nodes')
    PROVE  \A p \in 1..(Len(stack) - 1) : Owned(stack[p], cte_nodes')
<1>1. \A p \in 1..(Len(stack) - 1) : p \in DOMAIN stack
  BY StackFacts
<1>2. \A p \in 1..(Len(stack) - 1) : Owned(stack[p], cte_nodes)
  BY <1>1, Running DEF Holds
<1>. QED  BY <1>2, OwnedGrows

LEMMA MovedStay ==
    ASSUME TypeOK, NestingInv, CustodyInv, stack # << >>, NEW f, Stay(f), SameGot(f),
           Top.at # "step", Grows(cte_nodes, cte_nodes')
    PROVE  Carried /\ \A id : Free(id, stack) => Free(id, stack')
<1>1. PICK n \in Nat : /\ n >= 1 /\ n = Len(stack) /\ DOMAIN stack = 1..n /\ DOMAIN stack' = 1..n
                       /\ stack'[n] = f /\ \A p \in 1..(n - 1) : stack'[p] = stack[p]
                       /\ stack[n] = Top
  BY StayShape DEF Top
<1>2. \A p \in DOMAIN stack' : Owns(stack'[p]) /\ stack'[p].got # << >> =>
         p \in DOMAIN stack /\ Owns(stack[p]) /\ stack'[p].got = stack[p].got
  BY <1>1 DEF SameGot
<1>3. (\A id : Free(id, stack) => Free(id, stack')) /\ Alone(stack')
  BY <1>2, FreeKept DEF CustodyInv
<1>4. \A t : Pending(t, stack) => Pending(t, stack')
  BY <1>1 DEF Pending
<1>5. Carries(stack, cte_nodes, stack', cte_nodes')
  BY <1>3, <1>4, CarriesIf DEF Grows
<1>. QED  BY <1>3, <1>5, LowerOwned, CarriedIf

LEMMA MovedCall ==
    ASSUME TypeOK, NestingInv, CustodyInv, stack # << >>, NEW f, NEW t, NEW mode,
           Call(f, t, mode), SameGot(f), Top.at # "step", Grows(cte_nodes, cte_nodes')
    PROVE  Carried /\ \A id : Free(id, stack) => Free(id, stack')
<1>1. PICK g : g = NewFrame(t, mode)
  OBVIOUS
<1>2. ~Owns(g)
  BY <1>1 DEF NewFrame, Owns
<1>3. PICK n \in Nat : /\ n >= 1 /\ n = Len(stack) /\ DOMAIN stack = 1..n
                       /\ DOMAIN stack' = 1..(n + 1)
                       /\ stack'[n] = f /\ stack'[n + 1] = g
                       /\ \A p \in 1..(n - 1) : stack'[p] = stack[p]
                       /\ stack[n] = Top
  BY <1>1, CallShape DEF Top
<1>4. \A p \in DOMAIN stack' : Owns(stack'[p]) /\ stack'[p].got # << >> =>
         p \in DOMAIN stack /\ Owns(stack[p]) /\ stack'[p].got = stack[p].got
  BY <1>2, <1>3 DEF SameGot
<1>5. (\A id : Free(id, stack) => Free(id, stack')) /\ Alone(stack')
  BY <1>4, FreeKept DEF CustodyInv
<1>6. \A u : Pending(u, stack) => Pending(u, stack')
  BY <1>3 DEF Pending
<1>7. Carries(stack, cte_nodes, stack', cte_nodes')
  BY <1>5, <1>6, CarriesIf DEF Grows
<1>. QED  BY <1>5, <1>7, LowerOwned, CarriedIf

\* The name that was kept for a recursive CTE is in the list.
Settled == Top.at = "step" => Listed(Top.got[2], cte_nodes')

LEMMA PoppedFrees ==
    ASSUME TypeOK, CustodyInv, stack # << >>, NEW node, Return(node)
    PROVE  /\ \A id : Free(id, stack) => Free(id, stack')
           /\ Alone(stack')
           /\ Owns(Top) => \A i \in DOMAIN Top.got : Free(Top.got[i].id, stack')
<1>1. PICK n \in Nat : /\ n >= 1 /\ n = Len(stack) /\ DOMAIN stack = 1..n
                       /\ DOMAIN stack' = 1..(n - 1)
                       /\ \A p \in 1..(n - 1) : stack'[p] = stack[p]
                       /\ stack[n] = Top
  BY ReturnShape DEF Top
<1>2. \A p \in DOMAIN stack' : Owns(stack'[p]) /\ stack'[p].got # << >> =>
         p \in DOMAIN stack /\ Owns(stack[p]) /\ stack'[p].got = stack[p].got
  BY <1>1
<1>3. (\A id : Free(id, stack) => Free(id, stack')) /\ Alone(stack')
  BY <1>2, FreeKept DEF CustodyInv
<1>4. Owns(Top) => \A i \in DOMAIN Top.got : Free(Top.got[i].id, stack')
  <2>1. \A p \in DOMAIN stack' : stack'[p] = stack[p] /\ p # n /\ p \in DOMAIN stack
    BY <1>1
  <2>2. Alone(stack) /\ n \in DOMAIN stack
    BY <1>1 DEF CustodyInv
  <2>. QED  BY <1>1, <2>1, <2>2 DEF Free, Alone
<1>. QED  BY <1>3, <1>4

LEMMA MovedReturn ==
    ASSUME TypeOK, NestingInv, CustodyInv, stack # << >>, NEW node, Return(node), Settled,
           Grows(cte_nodes, cte_nodes')
    PROVE  Carried /\ \A id : Free(id, stack) => Free(id, stack')
<1>1. PICK n \in Nat : /\ n >= 1 /\ n = Len(stack) /\ DOMAIN stack = 1..n
                       /\ DOMAIN stack' = 1..(n - 1)
                       /\ \A p \in 1..(n - 1) : stack'[p] = stack[p]
                       /\ stack[n] = Top
  BY ReturnShape DEF Top
<1>2. (\A id : Free(id, stack) => Free(id, stack')) /\ Alone(stack')
  BY PoppedFrees
<1>3. \A u : Pending(u, stack) => Pending(u, stack') \/ Listed(u, cte_nodes')
  BY <1>1 DEF Pending, Settled
<1>4. Carries(stack, cte_nodes, stack', cte_nodes')
  BY <1>2, <1>3, CarriesIf DEF Grows
<1>. QED  BY <1>2, <1>4, LowerOwned, CarriedIf

\* The step itself.
LEMMA KeepStay ==
    ASSUME TypeOK, NestingInv, CustodyInv, Carried, stack # << >>, NEW f, Stay(f),
           UNCHANGED <<mapVars, final, outcome>>,
           Holds(f, stack', cte_nodes'), ReadsWell(cte_nodes', stack')
    PROVE  CustodyInv'
<1>1. PICK n \in Nat : /\ n >= 1 /\ n = Len(stack) /\ DOMAIN stack' = 1..n
                       /\ stack'[n] = f /\ \A p \in 1..(n - 1) : stack'[p] = stack[p]
  BY StayShape
<1>2. ~returned'
  BY StayShape
<1>3. \A p \in DOMAIN stack' : Holds(stack'[p], stack', cte_nodes')
  BY <1>1 DEF Carried
<1>4. HoldersInv'
  BY <1>2, <1>3 DEF Carried, HoldersInv, mapVars
<1>5. ReadersInv'
  BY <1>2, Running DEF ReadersInv, FlatRet
<1>. QED  BY <1>4, <1>5 DEF Carried, CustodyInv

LEMMA NewHolds ==
    ASSUME NEW t, NEW mode, NEW stk, NEW nodes
    PROVE  Holds(NewFrame(t, mode), stk, nodes)
<1>1. PICK g : g = NewFrame(t, mode)
  OBVIOUS
<1>2. g.at = "enter" /\ g.got = << >> /\ g.saved = << >>
  BY <1>1 DEF NewFrame
<1>3. Holds(g, stk, nodes)
  BY <1>2 DEF Holds, Owned, Owns, SafeText
<1>. QED  BY <1>1, <1>3

LEMMA KeepCall ==
    ASSUME TypeOK, NestingInv, CustodyInv, Carried, stack # << >>, NEW f, NEW t, NEW mode,
           Call(f, t, mode), UNCHANGED <<final, outcome>>,
           BodiesSafe(body_info', stack', cte_nodes'),
           SourcesSafe(delim_source', stack', cte_nodes'),
           BodiesSafe(inline_delim', stack', cte_nodes'),
           Holds(f, stack', cte_nodes'), ReadsWell(cte_nodes', stack')
    PROVE  CustodyInv'
<1>1. PICK g : g = NewFrame(t, mode)
  OBVIOUS
<1>2. PICK n \in Nat : /\ n >= 1 /\ n = Len(stack) /\ DOMAIN stack' = 1..(n + 1)
                       /\ stack'[n] = f /\ stack'[n + 1] = g
                       /\ \A p \in 1..(n - 1) : stack'[p] = stack[p]
  BY <1>1, CallShape
<1>3. ~returned'
  BY CallShape
<1>4. Holds(g, stack', cte_nodes')
  BY <1>1, NewHolds
<1>5. \A p \in DOMAIN stack' : Holds(stack'[p], stack', cte_nodes')
  BY <1>2, <1>4 DEF Carried
<1>6. HoldersInv'
  BY <1>3, <1>5 DEF HoldersInv
<1>7. ReadersInv'
  BY <1>3, Running DEF ReadersInv, FlatRet
<1>. QED  BY <1>6, <1>7 DEF Carried, CustodyInv

LEMMA KeepReturn ==
    ASSUME TypeOK, NestingInv, CustodyInv, Carried, stack # << >>, NEW node, Return(node),
           UNCHANGED <<final, outcome>>,
           BodiesSafe(body_info', stack', cte_nodes'),
           SourcesSafe(delim_source', stack', cte_nodes'),
           BodiesSafe(inline_delim', stack', cte_nodes'),
           ReadsWell(cte_nodes', stack'),
           Top.mode = "flat" => ReadsListed(node.body, stack', cte_nodes'),
           Top.mode # "flat" => SafeText(node.body, stack', cte_nodes')
    PROVE  CustodyInv'
<1>1. PICK n \in Nat : /\ n >= 1 /\ n = Len(stack) /\ DOMAIN stack' = 1..(n - 1)
                       /\ \A p \in 1..(n - 1) : stack'[p] = stack[p]
  BY ReturnShape
<1>2. ret' = node
  BY ReturnShape
<1>3. FlatRet' <=> Top.mode = "flat"
  BY FlatReturn
<1>4. \A p \in DOMAIN stack' : Holds(stack'[p], stack', cte_nodes')
  BY <1>1 DEF Carried
<1>5. HoldersInv'
  BY <1>2, <1>3, <1>4 DEF HoldersInv
<1>6. ReadersInv'
  BY <1>2, <1>3, Running DEF ReadersInv
<1>. QED  BY <1>5, <1>6 DEF Carried, CustodyInv

LEMMA KeepThrow ==
    ASSUME CustodyInv, NEW exception \in {"refused", "error"}, Throw(exception)
    PROVE  CustodyInv'
<1>1. /\ DOMAIN stack' = {} /\ ~returned' /\ UNCHANGED <<cte_nodes, final>> /\ outcome' # "running"
  BY DEF Throw, listVars
<1>2. \A p \in DOMAIN stack' : Owns(stack'[p]) /\ stack'[p].got # << >> =>
         p \in DOMAIN stack /\ Owns(stack[p]) /\ stack'[p].got = stack[p].got
  BY <1>1
<1>3. \A id : Free(id, stack')
  BY <1>1 DEF Free
<1>4. Alone(stack')
  BY <1>1 DEF Alone
<1>5. ReadsWell(cte_nodes', stack')
  BY <1>1, <1>3, ReadsKept DEF CustodyInv, ReadersInv
<1>. QED  BY <1>1, <1>4, <1>5 DEF CustodyInv, HoldersInv, ReadersInv, FlatRet

\* Steps that only move: nothing is listed, nothing is held that was not.
LEMMA ReadsMoved ==
    ASSUME TypeOK, NestingInv, CustodyInv, stack # << >>, UNCHANGED cte_nodes,
           \A id : Free(id, stack) => Free(id, stack')
    PROVE  ReadsWell(cte_nodes', stack')
BY ReadsKept, Running

LEMMA SameGrows == UNCHANGED cte_nodes => Grows(cte_nodes, cte_nodes')
BY DEF Grows

LEMMA HoldsMoved ==
    ASSUME Carried, NEW f \in Frame, Shape(f), Holds(f, stack, cte_nodes),
           Grows(cte_nodes, cte_nodes')
    PROVE  Holds(f, stack', cte_nodes')
<1>1. Owned(f, cte_nodes')
  BY OwnedGrows DEF Holds
<1>. QED  BY <1>1, HoldsCarried DEF Carried

LEMMA QuietCall ==
    ASSUME TypeOK, NestingInv, CustodyInv, stack # << >>, NEW f \in Frame, Shape(f), NEW t, NEW mode,
           Call(f, t, mode), SameGot(f), Top.at # "step", Holds(f, stack, cte_nodes),
           UNCHANGED <<cte_nodes, mapVars, final, outcome>>
    PROVE  CustodyInv'
<1>1. Grows(cte_nodes, cte_nodes')
  BY SameGrows
<1>2. Carried /\ \A id : Free(id, stack) => Free(id, stack')
  BY <1>1, MovedCall
<1>3. Holds(f, stack', cte_nodes')
  BY <1>1, <1>2, HoldsMoved
<1>4. ReadsWell(cte_nodes', stack')
  BY <1>2, ReadsMoved
<1>5. /\ BodiesSafe(body_info', stack', cte_nodes')
      /\ SourcesSafe(delim_source', stack', cte_nodes')
      /\ BodiesSafe(inline_delim', stack', cte_nodes')
  BY <1>2 DEF Carried, mapVars
<1>. QED  BY <1>2, <1>3, <1>4, <1>5, KeepCall

LEMMA QuietStay ==
    ASSUME TypeOK, NestingInv, CustodyInv, stack # << >>, NEW f \in Frame, Shape(f), Stay(f),
           SameGot(f), Top.at # "step", Holds(f, stack, cte_nodes),
           UNCHANGED <<cte_nodes, mapVars, final, outcome>>
    PROVE  CustodyInv'
<1>1. Grows(cte_nodes, cte_nodes')
  BY SameGrows
<1>2. Carried /\ \A id : Free(id, stack) => Free(id, stack')
  BY <1>1, MovedStay
<1>3. Holds(f, stack', cte_nodes')
  BY <1>1, <1>2, HoldsMoved
<1>4. ReadsWell(cte_nodes', stack')
  BY <1>2, ReadsMoved
<1>. QED  BY <1>2, <1>3, <1>4, KeepStay

\* The text that comes back from an inlined activation.
LEMMA InlineReturn ==
    ASSUME TypeOK, NestingInv, CustodyInv, stack # << >>, Top.mode = "inline", NEW node \in CteNode,
           Return(node), SafeText(node.body, stack, cte_nodes),
           UNCHANGED <<cte_nodes, delim_source, final, outcome>>,
           BodiesSafe(body_info', stack, cte_nodes), BodiesSafe(inline_delim', stack, cte_nodes),
           \A id \in DOMAIN body_info' : body_info'[id] \in Seq(Token),
           \A id \in DOMAIN inline_delim' : inline_delim'[id] \in Seq(Token)
    PROVE  CustodyInv'
<1>1. Grows(cte_nodes, cte_nodes')
  BY SameGrows
<1>2. Settled
  <2>1. Shape(Top)
    BY Running
  <2>. QED  BY <2>1 DEF Shape, Settled
<1>3. Carried /\ \A id : Free(id, stack) => Free(id, stack')
  BY <1>1, <1>2, MovedReturn
<1>4. Carries(stack, cte_nodes, stack', cte_nodes')
  BY <1>3 DEF Carried
<1>5. node.body \in Seq(Token)
  BY CteFacts
<1>6. SafeText(node.body, stack', cte_nodes')
  BY <1>4, <1>5, TextCarried
<1>7. ReadsWell(cte_nodes', stack')
  BY <1>3, ReadsMoved
<1>8. BodiesSafe(body_info', stack', cte_nodes')
  BY <1>4, BodiesCarried
<1>9. BodiesSafe(inline_delim', stack', cte_nodes')
  BY <1>4, BodiesCarried
<1>10. SourcesSafe(delim_source', stack', cte_nodes')
  BY <1>3 DEF Carried
<1>. QED  BY <1>3, <1>6, <1>7, <1>8, <1>9, <1>10, KeepReturn

\* A CTE that reads what is in the list, and does not join it yet.
LEMMA FlatBuilt ==
    ASSUME TypeOK, NestingInv, CustodyInv, stack # << >>, Top.mode = "flat", Top.at # "step",
           NEW node, Return(node), ReadsListed(node.body, stack', cte_nodes),
           UNCHANGED <<cte_nodes, mapVars, final, outcome>>
    PROVE  CustodyInv'
<1>1. Grows(cte_nodes, cte_nodes') /\ Settled
  BY SameGrows DEF Settled
<1>2. Carried /\ \A id : Free(id, stack) => Free(id, stack')
  BY <1>1, MovedReturn
<1>3. ReadsListed(node.body, stack', cte_nodes')
  OBVIOUS
<1>4. ReadsWell(cte_nodes', stack')
  BY <1>2, ReadsMoved
<1>5. /\ BodiesSafe(body_info', stack', cte_nodes')
      /\ SourcesSafe(delim_source', stack', cte_nodes')
      /\ BodiesSafe(inline_delim', stack', cte_nodes')
  BY <1>2 DEF Carried, mapVars
<1>. QED  BY <1>2, <1>3, <1>4, <1>5, KeepReturn

\* Where nothing is pending, what is safe to read is in the list.
LEMMA SafeListed ==
    ASSUME TypeOK, NestingInv, stack # << >>, Top.mode = "flat", Top.at # "step",
           NEW text, SafeText(text, stack, cte_nodes),
           NEW stk, \A id : Free(id, stack) => Free(id, stk)
    PROVE  ReadsListed(text, stk, cte_nodes)
<1>1. Top = stack[Len(stack)]
  BY TopFacts
<1>2. \A p \in DOMAIN stack : stack[p].at # "step"
  BY <1>1, NoStepBelow
<1>3. \A t : ~Pending(t, stack)
  BY <1>2 DEF Pending
<1>. QED  BY <1>3 DEF ReadsListed, SafeText, SafeRef

LEMMA RetFree ==
    ASSUME TypeOK, NestingInv, NamesInv, CustodyInv, FlatRet, stack # << >>
    PROVE  /\ Free(ret.name.id, stack)
           /\ \A t : Listed(t, cte_nodes) => t.id # ret.name.id
<1>1. Unlisted(ret.name.id, cte_nodes) /\ Numbered(cte_nodes, node_count)
  BY RetFacts DEF NamesInv
<1>2. \A t : Listed(t, cte_nodes) => t.id # ret.name.id
  BY <1>1, ListedFacts
<1>3. \A p \in DOMAIN stack : Owned(stack[p], cte_nodes)
  BY Running DEF Holds
<1>4. Free(ret.name.id, stack)
  BY <1>2, <1>3 DEF Free, Owned
<1>. QED  BY <1>2, <1>4

\* The CTE that came back joins the list.
LEMMA Pushed ==
    ASSUME TypeOK, NestingInv, NamesInv, CustodyInv, FlatRet, stack # << >>, NEW node \in CteNode,
           node.name = ret.name, node.body = ret.body, cte_nodes' = Append(cte_nodes, node)
    PROVE  /\ Grows(cte_nodes, cte_nodes')
           /\ Listed(ret.name, cte_nodes')
           /\ ReadsWell(cte_nodes', stack)
           /\ (\A id : Free(id, stack) => Free(id, stack')) =>
                 /\ SafeRef(ret.name, stack', cte_nodes')
                 /\ ReadsWell(cte_nodes', stack')
<1>1. cte_nodes \in Seq(CteNode)
  BY Typed
<1>2. PICK nodes : nodes = Append(cte_nodes, node)
  OBVIOUS
<1>3. Grows(cte_nodes, nodes) /\ Listed(ret.name, nodes)
  BY <1>1, <1>2, ListedAppend DEF Grows
<1>4. ReadsListed(node.body, stack, cte_nodes) /\ ReadsWell(cte_nodes, stack)
  BY Running
<1>5. ReadsWell(nodes, stack)
  BY <1>1, <1>2, <1>4, ReadsAppend DEF ReadsListed
<1>6. ASSUME \A id : Free(id, stack) => Free(id, stack')
      PROVE  SafeRef(ret.name, stack', nodes) /\ ReadsWell(nodes, stack')
  <2>1. ReadsWell(nodes, stack')
    BY <1>5, <1>6, ReadsKept
  <2>2. Free(ret.name.id, stack') /\ ~ret.name.right
    BY <1>6, RetFree, RetFacts
  <2>. QED  BY <1>3, <2>1, <2>2 DEF SafeRef
<1>. QED  BY <1>2, <1>3, <1>5, <1>6

\* The activation on top, further on in its function.
LEMMA MovedOn ==
    ASSUME TypeOK, NestingInv, CustodyInv, stack # << >>,
           NEW a \in {"body", "outer", "left", "anchor"}
    PROVE  /\ [Top EXCEPT !.at = a] \in Frame /\ Shape([Top EXCEPT !.at = a])
           /\ SameGot([Top EXCEPT !.at = a]) /\ Holds([Top EXCEPT !.at = a], stack, cte_nodes)
<1>1. Top \in Frame /\ Holds(Top, stack, cte_nodes)
  BY TopFacts, Running
<1>2. PICK f : f = [Top EXCEPT !.at = a]
  OBVIOUS
<1>3. f \in Frame /\ f.at = a /\ f.mode = Top.mode /\ f.got = Top.got /\ f.saved = Top.saved
  BY <1>1, <1>2 DEF Frame
<1>4. Shape(f) /\ SameGot(f)
  BY <1>3 DEF Shape, SameGot, Owns
<1>5. Holds(f, stack, cte_nodes)
  BY <1>1, <1>3 DEF Holds, Owned, Owns
<1>. QED  BY <1>2, <1>3, <1>4, <1>5

LEMMA KeepMaterialized ==
    ASSUME TypeOK, TypeOK', NestingInv, NamesInv, CustodyInv,
           EnterMaterialized \/ BodyDone \/ InlineBodyDone \/ OuterDone \/ EnterCteRef
    PROVE  CustodyInv'
<1>1. stack # << >>
  BY DEF EnterMaterialized, BodyDone, InlineBodyDone, OuterDone, EnterCteRef, At, BackAt
<1>2. Top \in Frame /\ Top.mode \in Both /\ node_count \in Nat /\ Top.saved \in Seq(Seq(Token))
  BY <1>1, TopFacts, Typed
<1>3. CASE EnterMaterialized
  <2>1. PICK f : f = [Top EXCEPT !.at = "body"]
    OBVIOUS
  <2>2. f \in Frame /\ Shape(f) /\ SameGot(f) /\ Holds(f, stack, cte_nodes)
    BY <1>1, <2>1, MovedOn
  <2>3. /\ Call(f, Top.tree.kids[1], Top.mode) /\ Top.at # "step"
        /\ UNCHANGED <<cte_nodes, mapVars, final, outcome>>
    BY <1>3, <2>1 DEF EnterMaterialized, At, listVars
  <2>. QED  BY <1>1, <2>2, <2>3, QuietCall
<1>4. CASE BodyDone
  <2>1. PICK f : f = [Top EXCEPT !.at = "outer"]
    OBVIOUS
  <2>2. f \in Frame /\ Shape(f) /\ SameGot(f) /\ Holds(f, stack, cte_nodes)
    BY <1>1, <2>1, MovedOn
  <2>3. FlatRet /\ Top.mode = "flat" /\ Top.at = "body"
    BY <1>4, BackFlat DEF BodyDone
  <2>4. PICK node : node = [ret EXCEPT !.materialized = "force" \in Top.tree.flags]
    OBVIOUS
  <2>5. node \in CteNode /\ node.name = ret.name /\ node.body = ret.body
    <3>1. ("force" \in Top.tree.flags) \in BOOLEAN
      OBVIOUS
    <3>. QED  BY <2>3, <2>4, <3>1, RetFacts DEF CteNode
  <2>6. /\ cte_nodes' = Append(cte_nodes, node) /\ Call(f, Top.tree.kids[2], "flat")
        /\ body_info' = Bind(body_info, Top.tree.id, <<ret.name>>)
        /\ UNCHANGED <<delim_source, inline_delim, final, outcome>>
    BY <1>4, <2>1, <2>4 DEF BodyDone, Push
  <2>7. Grows(cte_nodes, cte_nodes')
    BY <1>1, <2>3, <2>5, <2>6, Pushed
  <2>8. Carried /\ \A id : Free(id, stack) => Free(id, stack')
    BY <1>1, <2>2, <2>3, <2>6, <2>7, MovedCall
  <2>9. SafeRef(ret.name, stack', cte_nodes') /\ ReadsWell(cte_nodes', stack')
    BY <1>1, <2>3, <2>5, <2>6, <2>8, Pushed
  <2>10. BodiesSafe(body_info', stack', cte_nodes')
    BY <2>6, <2>8, <2>9, TextFacts, BindSafe DEF Carried
  <2>11. /\ SourcesSafe(delim_source', stack', cte_nodes')
         /\ BodiesSafe(inline_delim', stack', cte_nodes')
    BY <2>6, <2>8 DEF Carried
  <2>12. Holds(f, stack', cte_nodes')
    BY <2>2, <2>7, <2>8, HoldsMoved
  <2>. QED  BY <1>1, <2>6, <2>8, <2>9, <2>10, <2>11, <2>12, KeepCall
<1>5. CASE InlineBodyDone
  <2>1. PICK f : f = [Top EXCEPT !.at = "outer", !.saved = Saved(body_info, Top.tree.id)]
    OBVIOUS
  <2>2. Top.mode = "inline" /\ ~FlatRet /\ returned /\ Top.at = "body"
    BY <1>5, BackInline DEF InlineBodyDone
  <2>3. /\ f \in Frame /\ f.at = "outer" /\ f.mode = "inline" /\ f.got = Top.got
        /\ f.saved = Saved(body_info, Top.tree.id)
    <3>1. Saved(body_info, Top.tree.id) \in Seq(Seq(Token))
      BY Typed, SavedTyped
    <3>. QED  BY <1>2, <2>1, <2>2, <3>1 DEF Frame
  <2>4. Shape(f) /\ SameGot(f)
    BY <2>3 DEF Shape, SameGot, Owns
  <2>5. Holds(f, stack, cte_nodes)
    <3>1. SafeText(Top.got, stack, cte_nodes)
      BY <1>1, <2>2, Running DEF Holds
    <3>2. \A n \in DOMAIN f.saved : SafeText(f.saved[n], stack, cte_nodes)
      BY <1>1, <2>3, Running, SavedSafe
    <3>. QED  BY <2>3, <3>1, <3>2 DEF Holds, Owned, Owns
  <2>6. /\ Call(f, Top.tree.kids[2], "inline")
        /\ body_info' = Bind(body_info, Top.tree.id, ret.body)
        /\ UNCHANGED <<cte_nodes, delim_source, inline_delim, final, outcome>>
    BY <1>5, <2>1 DEF InlineBodyDone, listVars
  <2>7. Grows(cte_nodes, cte_nodes')
    BY <2>6, SameGrows
  <2>8. Carried /\ \A id : Free(id, stack) => Free(id, stack')
    BY <1>1, <2>2, <2>4, <2>6, <2>7, MovedCall
  <2>9. SafeText(ret.body, stack', cte_nodes')
    <3>1. SafeText(ret.body, stack, cte_nodes) /\ ret.body \in Seq(Token)
      BY <1>1, <2>2, Running, Typed
    <3>. QED  BY <2>8, <3>1, TextCarried DEF Carried
  <2>10. BodiesSafe(body_info', stack', cte_nodes')
    BY <2>6, <2>8, <2>9, BindSafe DEF Carried
  <2>11. /\ SourcesSafe(delim_source', stack', cte_nodes')
         /\ BodiesSafe(inline_delim', stack', cte_nodes')
    BY <2>6, <2>8 DEF Carried
  <2>12. Holds(f, stack', cte_nodes')
    BY <2>3, <2>4, <2>5, <2>7, <2>8, HoldsMoved
  <2>13. ReadsWell(cte_nodes', stack')
    BY <1>1, <2>6, <2>8, ReadsMoved
  <2>. QED  BY <1>1, <2>6, <2>8, <2>10, <2>11, <2>12, <2>13, KeepCall
<1>6. CASE OuterDone
  <2>1. /\ Return(ret) /\ UNCHANGED <<cte_nodes, delim_source, inline_delim, final, outcome>>
        /\ Top.at = "outer" /\ returned
    BY <1>6 DEF OuterDone, listVars, BackAt
  <2>2. CASE Top.mode = "flat"
    <3>1. FlatRet /\ UNCHANGED mapVars
      BY <1>6, <2>1, <2>2 DEF OuterDone, FlatRet, Callee, mapVars
    <3>2. \A id : Free(id, stack) => Free(id, stack')
      BY <1>1, <2>1, PoppedFrees
    <3>3. ReadsListed(ret.body, stack, cte_nodes)
      BY <1>1, <3>1, Running
    <3>4. ReadsListed(ret.body, stack', cte_nodes)
      BY <3>2, <3>3 DEF ReadsListed
    <3>. QED  BY <1>1, <2>1, <2>2, <3>1, <3>4, FlatBuilt
  <2>3. CASE Top.mode = "inline"
    <3>1. ~FlatRet
      BY <1>1, <2>1, <2>3 DEF FlatRet, Callee
    <3>2. SafeText(ret.body, stack, cte_nodes) /\ ret \in CteNode
      BY <1>1, <2>1, <3>1, Running, Typed
    <3>3. body_info' = Restore(body_info, Top.tree.id, Top.saved)
      BY <1>6, <2>3 DEF OuterDone
    <3>4. \A n \in DOMAIN Top.saved : SafeText(Top.saved[n], stack, cte_nodes)
      BY <1>1, <2>3, Running DEF Holds
    <3>5. BodiesSafe(body_info, stack, cte_nodes) /\ BodiesSafe(inline_delim, stack, cte_nodes)
      BY <1>1, Running
    <3>6. BodiesSafe(body_info', stack, cte_nodes)
      BY <1>2, <3>3, <3>4, <3>5, RestoreSafe
    <3>7. BodiesSafe(inline_delim', stack, cte_nodes)
      BY <2>1, <3>5
    <3>8. /\ \A id \in DOMAIN body_info' : body_info'[id] \in Seq(Token)
          /\ \A id \in DOMAIN inline_delim' : inline_delim'[id] \in Seq(Token)
      BY DEF TypeOK
    <3>. QED  BY <1>1, <2>1, <2>3, <3>2, <3>6, <3>7, <3>8, InlineReturn
  <2>. QED  BY <1>2, <2>2, <2>3 DEF Both
<1>7. CASE EnterCteRef
  <2>1. CASE Top.tree.id \notin DOMAIN body_info
    BY <1>7, <2>1, KeepThrow DEF EnterCteRef
  <2>2. CASE Top.tree.id \in DOMAIN body_info
    <3>1. PICK text \in Seq(Token) : text = body_info[Top.tree.id]
      BY <2>2, Typed
    <3>2. SafeText(text, stack, cte_nodes)
      BY <1>1, <2>2, <3>1, Running DEF BodiesSafe
    <3>3. Top.at = "enter" /\ UNCHANGED <<cte_nodes, mapVars, final, outcome>>
      BY <1>7, <2>2 DEF EnterCteRef, At
    <3>4. CASE Top.mode = "flat"
      <4>1. PICK node : node = Cte(Name(node_count), text)
        OBVIOUS
      <4>2. node.body = text
        BY <4>1 DEF Cte
      <4>3. Return(node)
        BY <1>7, <2>2, <3>1, <3>4, <4>1 DEF EnterCteRef
      <4>4. \A id : Free(id, stack) => Free(id, stack')
        BY <1>1, <4>3, PoppedFrees
      <4>5. ReadsListed(node.body, stack', cte_nodes)
        BY <1>1, <3>2, <3>3, <3>4, <4>2, <4>4, SafeListed
      <4>. QED  BY <1>1, <3>3, <3>4, <4>3, <4>5, FlatBuilt
    <3>5. CASE Top.mode = "inline"
      <4>1. PICK node : node = Text(text)
        OBVIOUS
      <4>2. node \in CteNode /\ node.body = text
        BY <4>1, CteFacts
      <4>3. Return(node)
        BY <1>7, <2>2, <3>1, <3>5, <4>1 DEF EnterCteRef
      <4>4. UNCHANGED <<delim_source, body_info, inline_delim>>
        BY <3>3 DEF mapVars
      <4>5. BodiesSafe(body_info', stack, cte_nodes) /\ BodiesSafe(inline_delim', stack, cte_nodes)
        BY <1>1, <4>4, Running
      <4>6. /\ \A id \in DOMAIN body_info' : body_info'[id] \in Seq(Token)
            /\ \A id \in DOMAIN inline_delim' : inline_delim'[id] \in Seq(Token)
        BY DEF TypeOK
      <4>. QED  BY <1>1, <3>2, <3>3, <3>5, <4>2, <4>3, <4>4, <4>5, <4>6, InlineReturn
    <3>. QED  BY <1>2, <3>4, <3>5 DEF Both
  <2>. QED  BY <2>1, <2>2
<1>. QED  BY <1>3, <1>4, <1>5, <1>6, <1>7

LEMMA ReadsFacts ==
    ASSUME NEW stk, NEW nodes
    PROVE  /\ \A a, b \in Seq(Token) : ReadsListed(a, stk, nodes) /\ ReadsListed(b, stk, nodes)
                 => ReadsListed(a \o b, stk, nodes)
           /\ \A t : /\ Free(t.id, stk) /\ Listed(t, nodes)
                     /\ t.right => ~ReadOf(t, nodes)
                     => ReadsListed(<<t>>, stk, nodes)
           /\ \A t : ~IsName(t) => ReadsListed(<<t>>, stk, nodes)
<1>1. ASSUME NEW a \in Seq(Token), NEW b \in Seq(Token),
             ReadsListed(a, stk, nodes), ReadsListed(b, stk, nodes)
      PROVE  ReadsListed(a \o b, stk, nodes)
  <2>1. PICK c : c = a \o b
    OBVIOUS
  <2>2. \A n \in DOMAIN c : \/ n \in DOMAIN a /\ c[n] = a[n]
                            \/ n - Len(a) \in DOMAIN b /\ c[n] = b[n - Len(a)]
    BY <2>1
  <2>3. ReadsListed(c, stk, nodes)
    BY <1>1, <2>2 DEF ReadsListed
  <2>. QED  BY <2>1, <2>3
<1>2. \A t : /\ Free(t.id, stk) /\ Listed(t, nodes)
             /\ t.right => ~ReadOf(t, nodes)
             => ReadsListed(<<t>>, stk, nodes)
  BY DEF ReadsListed
<1>3. \A t : ~IsName(t) => ReadsListed(<<t>>, stk, nodes)
  BY DEF ReadsListed
<1>. QED  BY <1>1, <1>2, <1>3

LEMMA SafeReads ==
    ASSUME NEW stk, \A p \in DOMAIN stk : stk[p].at # "step", NEW nodes, NEW text,
           SafeText(text, stk, nodes)
    PROVE  ReadsListed(text, stk, nodes)
<1>1. \A t : ~Pending(t, stk)
  BY DEF Pending
<1>. QED  BY <1>1 DEF ReadsListed, SafeText, SafeRef

\* Below a flat activation that ends there is no step.
LEMMA NoStepReturn ==
    ASSUME TypeOK, NestingInv, stack # << >>, Top.mode = "flat", NEW node, Return(node)
    PROVE  \A p \in DOMAIN stack' : stack'[p].at # "step"
<1>1. PICK n \in Nat : /\ n >= 1 /\ n = Len(stack) /\ DOMAIN stack = 1..n
                       /\ DOMAIN stack' = 1..(n - 1)
                       /\ \A p \in 1..(n - 1) : stack'[p] = stack[p]
  BY ReturnShape
<1>2. \A p \in DOMAIN stack : stack[p].at = "step" => p = n
  BY <1>1, NoStepBelow
<1>. QED  BY <1>1, <1>2

\* The CTE that came back joins the list and is renamed for the join above it.
LEMMA PushedMarked ==
    ASSUME TypeOK, NestingInv, NamesInv, CustodyInv, FlatRet, stack # << >>,
           NEW nodes \in Seq(CteNode), nodes = Append(cte_nodes, ret),
           cte_nodes' = MarkRight(nodes, ret.name)
    PROVE  /\ Grows(cte_nodes, cte_nodes')
           /\ ReadsWell(cte_nodes', stack)
           /\ Listed(RightName(nodes, ret.name), cte_nodes')
           /\ RightName(nodes, ret.name).id = ret.name.id
           /\ RightName(nodes, ret.name) \in Token /\ IsName(RightName(nodes, ret.name))
           /\ ~ReadOf(RightName(nodes, ret.name), cte_nodes')
<1>1. cte_nodes \in Seq(CteNode) /\ ret \in CteNode /\ ret.name \in Token /\ IsName(ret.name)
  BY Typed, RetFacts
<1>2. ReadsListed(ret.body, stack, cte_nodes) /\ ReadsWell(cte_nodes, stack)
  BY Running
<1>3. ReadsWell(nodes, stack)
  BY <1>1, <1>2, ReadsAppend DEF ReadsListed
<1>4. \A t : Listed(t, cte_nodes) => t.id # ret.name.id /\ Listed(t, nodes)
  BY <1>1, RetFree, ListedAppend
<1>5. \A k \in DOMAIN nodes : \A i \in DOMAIN nodes[k].body :
         IsName(nodes[k].body[i]) => nodes[k].body[i].id # ret.name.id
  <2>1. ASSUME NEW k \in DOMAIN nodes
        PROVE  (k \in DOMAIN cte_nodes /\ nodes[k] = cte_nodes[k]) \/ nodes[k] = ret
    BY <1>1, AppendFacts
  <2>2. \A k \in DOMAIN cte_nodes : \A i \in DOMAIN cte_nodes[k].body :
            IsName(cte_nodes[k].body[i]) => Listed(cte_nodes[k].body[i], cte_nodes)
    BY <1>1, <1>2, ReadsNames
  <2>3. \A i \in DOMAIN ret.body : IsName(ret.body[i]) => Listed(ret.body[i], cte_nodes)
    BY <1>2 DEF ReadsListed
  <2>. QED  BY <1>4, <2>1, <2>2, <2>3
<1>6. Numbered(nodes, node_count)
  BY RetFacts
<1>7. /\ \A t : Listed(t, nodes) /\ t.id # ret.name.id => Listed(t, cte_nodes')
      /\ Listed(ret.name, nodes) => Listed(RightName(nodes, ret.name), cte_nodes')
      /\ RightName(nodes, ret.name).id = ret.name.id
  BY <1>1, <1>6, ListedMark
<1>8. Listed(ret.name, nodes)
  BY <1>1, ListedAppend
<1>9. Grows(cte_nodes, cte_nodes')
  BY <1>4, <1>7 DEF Grows
<1>10. /\ ReadsWell(cte_nodes', stack)
       /\ \A t : IsName(t) /\ t.id = ret.name.id => ~ReadOf(t, cte_nodes')
  BY <1>1, <1>3, <1>5, ReadsMark
<1>11. RightName(nodes, ret.name) \in Token /\ IsName(RightName(nodes, ret.name))
  BY <1>1, TokenFacts DEF RightName, IsName
<1>. QED  BY <1>7, <1>8, <1>9, <1>10, <1>11

LEMMA KeepLeft ==
    ASSUME TypeOK, TypeOK', NestingInv, NamesInv, CustodyInv, LeftDone
    PROVE  CustodyInv'
<1>1. FlatRet /\ Top.mode = "flat" /\ Top.at = "left" /\ stack # << >>
  BY BackFlat DEF LeftDone
<1>2. PICK f : f = [Top EXCEPT !.at = "right", !.got = <<ret.name>>]
  OBVIOUS
<1>3. f \in Frame /\ f.at = "right" /\ f.mode = "flat" /\ f.got = <<ret.name>>
  <2>1. <<ret.name>> \in Seq(Token) /\ Top \in Frame
    BY <1>1, Typed, TopFacts
  <2>. QED  BY <1>1, <1>2, <2>1 DEF Frame
<1>4. SameGot(f)
  BY <1>3 DEF SameGot, Owns
<1>5. /\ cte_nodes' = Append(cte_nodes, ret) /\ Call(f, Top.tree.kids[2], "flat")
      /\ delim_source' = Bind(delim_source, Top.tree.id, ret.name)
      /\ UNCHANGED <<body_info, inline_delim, final, outcome>>
  BY <1>2 DEF LeftDone, Push
<1>6. ret \in CteNode
  BY Typed
<1>7. Grows(cte_nodes, cte_nodes')
  BY <1>1, <1>5, <1>6, Pushed
<1>8. Carried /\ \A id : Free(id, stack) => Free(id, stack')
  BY <1>1, <1>4, <1>5, <1>7, MovedCall
<1>9. SafeRef(ret.name, stack', cte_nodes') /\ ReadsWell(cte_nodes', stack')
  BY <1>1, <1>5, <1>6, <1>8, Pushed
<1>10. SourcesSafe(delim_source', stack', cte_nodes')
  BY <1>5, <1>8, <1>9, BindSafe DEF Carried
<1>11. /\ BodiesSafe(body_info', stack', cte_nodes')
       /\ BodiesSafe(inline_delim', stack', cte_nodes')
  BY <1>5, <1>8 DEF Carried
<1>12. Holds(f, stack', cte_nodes')
  <2>1. SafeText(f.got, stack', cte_nodes')
    BY <1>3, <1>9, TextFacts
  <2>. QED  BY <1>3, <2>1 DEF Holds, Owned, Owns
<1>. QED  BY <1>1, <1>5, <1>8, <1>9, <1>10, <1>11, <1>12, KeepCall

LEMMA KeepRight ==
    ASSUME TypeOK, TypeOK', NestingInv, NamesInv, CustodyInv, RightDone
    PROVE  CustodyInv'
<1>1. FlatRet /\ Top.mode = "flat" /\ Top.at = "right" /\ stack # << >>
  BY BackFlat DEF RightDone
<1>2. PICK nodes \in Seq(CteNode) : nodes = Append(cte_nodes, ret)
  BY <1>1, RetFacts
<1>3. PICK right : right = RightName(nodes, ret.name)
  OBVIOUS
<1>4. PICK node : node = Cte(Name(node_count), Top.got \o <<right, Op(Top.tree)>>)
  OBVIOUS
<1>5. /\ cte_nodes' = MarkRight(nodes, ret.name) /\ Return(node)
      /\ UNCHANGED <<mapVars, final, outcome>>
  BY <1>2, <1>3, <1>4 DEF RightDone
<1>6. /\ Grows(cte_nodes, cte_nodes') /\ ReadsWell(cte_nodes', stack)
      /\ Listed(right, cte_nodes') /\ right.id = ret.name.id
      /\ right \in Token /\ IsName(right) /\ ~ReadOf(right, cte_nodes')
  BY <1>1, <1>2, <1>3, <1>5, PushedMarked
<1>7. Settled
  BY <1>1 DEF Settled
<1>8. Carried /\ \A id : Free(id, stack) => Free(id, stack')
  BY <1>1, <1>5, <1>6, <1>7, MovedReturn
<1>9. ReadsWell(cte_nodes', stack')
  BY <1>6, <1>8, ReadsKept
<1>10. Top.got \in Seq(Token) /\ Op(Top.tree) \in Token /\ ~IsName(Op(Top.tree))
  BY <1>1, TopFacts
<1>11. ReadsListed(Top.got, stack', cte_nodes')
  <2>1. SafeText(Top.got, stack, cte_nodes)
    BY <1>1, Running DEF Holds
  <2>2. SafeText(Top.got, stack', cte_nodes')
    BY <1>8, <1>10, <2>1, TextCarried DEF Carried
  <2>3. \A p \in DOMAIN stack' : stack'[p].at # "step"
    BY <1>1, <1>5, NoStepReturn
  <2>. QED  BY <2>2, <2>3, SafeReads
<1>12. Free(right.id, stack')
  BY <1>1, <1>6, <1>8, RetFree
<1>13. ReadsListed(<<right>>, stack', cte_nodes') /\ ReadsListed(<<Op(Top.tree)>>, stack', cte_nodes')
  BY <1>6, <1>10, <1>12, ReadsFacts
<1>14. ReadsListed(<<right>> \o <<Op(Top.tree)>>, stack', cte_nodes')
  <2>1. <<right>> \in Seq(Token) /\ <<Op(Top.tree)>> \in Seq(Token)
    BY <1>6, <1>10
  <2>. QED  BY <1>13, <2>1, ReadsFacts
<1>15. <<right, Op(Top.tree)>> = <<right>> \o <<Op(Top.tree)>> /\ <<right, Op(Top.tree)>> \in Seq(Token)
  BY <1>6, <1>10
<1>16. node.body = Top.got \o <<right, Op(Top.tree)>>
  BY <1>4 DEF Cte
<1>17. ReadsListed(node.body, stack', cte_nodes')
  BY <1>10, <1>11, <1>14, <1>15, <1>16, ReadsFacts
<1>18. /\ BodiesSafe(body_info', stack', cte_nodes')
       /\ SourcesSafe(delim_source', stack', cte_nodes')
       /\ BodiesSafe(inline_delim', stack', cte_nodes')
  BY <1>5, <1>8 DEF Carried, mapVars
<1>. QED  BY <1>1, <1>5, <1>8, <1>9, <1>17, <1>18, KeepReturn

LEMMA KeepInlineDelim ==
    ASSUME TypeOK, TypeOK', NestingInv, NamesInv, CustodyInv, InlineLeftDone \/ InlineRightDone
    PROVE  CustodyInv'
<1>1. stack # << >> /\ Top.mode = "inline" /\ ~FlatRet /\ returned /\ Top.at \in {"left", "right"}
  BY BackInline DEF InlineLeftDone, InlineRightDone
<1>2. /\ Top \in Frame /\ Top.got \in Seq(Token) /\ Top.saved \in Seq(Seq(Token))
      /\ Op(Top.tree) \in Token /\ ~IsName(Op(Top.tree))
  BY <1>1, TopFacts
<1>3. /\ SafeText(Top.got, stack, cte_nodes)
      /\ \A n \in DOMAIN Top.saved : SafeText(Top.saved[n], stack, cte_nodes)
      /\ SafeText(ret.body, stack, cte_nodes)
      /\ BodiesSafe(body_info, stack, cte_nodes) /\ BodiesSafe(inline_delim, stack, cte_nodes)
  BY <1>1, Running DEF Holds
<1>4. ret.body \in Seq(Token)
  BY Typed
<1>5. CASE InlineLeftDone
  <2>1. PICK f : f = [Top EXCEPT !.at = "right", !.got = ret.body,
                                 !.saved = Saved(inline_delim, Top.tree.id)]
    OBVIOUS
  <2>2. /\ f \in Frame /\ f.at = "right" /\ f.mode = "inline" /\ f.got = ret.body
        /\ f.saved = Saved(inline_delim, Top.tree.id)
    <3>1. Saved(inline_delim, Top.tree.id) \in Seq(Seq(Token))
      BY Typed, SavedTyped
    <3>. QED  BY <1>1, <1>2, <1>4, <2>1, <3>1 DEF Frame
  <2>3. Shape(f) /\ SameGot(f)
    BY <2>2 DEF Shape, SameGot, Owns
  <2>4. Holds(f, stack, cte_nodes)
    <3>1. \A n \in DOMAIN f.saved : SafeText(f.saved[n], stack, cte_nodes)
      BY <1>3, <2>2, SavedSafe
    <3>. QED  BY <1>3, <2>2, <3>1 DEF Holds, Owned, Owns
  <2>5. /\ Call(f, Top.tree.kids[2], "inline")
        /\ inline_delim' = Bind(inline_delim, Top.tree.id, ret.body)
        /\ UNCHANGED <<cte_nodes, delim_source, body_info, final, outcome>>
    BY <1>5, <2>1 DEF InlineLeftDone, listVars
  <2>6. Grows(cte_nodes, cte_nodes')
    BY <2>5, SameGrows
  <2>7. Carried /\ \A id : Free(id, stack) => Free(id, stack')
    BY <1>1, <2>3, <2>5, <2>6, MovedCall
  <2>8. SafeText(ret.body, stack', cte_nodes')
    BY <1>3, <1>4, <2>7, TextCarried DEF Carried
  <2>9. BodiesSafe(inline_delim', stack', cte_nodes')
    BY <2>5, <2>7, <2>8, BindSafe DEF Carried
  <2>10. /\ SourcesSafe(delim_source', stack', cte_nodes')
         /\ BodiesSafe(body_info', stack', cte_nodes')
    BY <2>5, <2>7 DEF Carried
  <2>11. Holds(f, stack', cte_nodes')
    BY <2>2, <2>3, <2>4, <2>6, <2>7, HoldsMoved
  <2>12. ReadsWell(cte_nodes', stack')
    BY <1>1, <2>5, <2>7, ReadsMoved
  <2>. QED  BY <1>1, <2>5, <2>7, <2>9, <2>10, <2>11, <2>12, KeepCall
<1>6. CASE InlineRightDone
  <2>1. PICK node : node = Text(Top.got \o ret.body \o <<Op(Top.tree)>>)
    OBVIOUS
  <2>2. <<Op(Top.tree)>> \in Seq(Token) /\ Top.got \o ret.body \in Seq(Token)
        /\ Top.got \o ret.body \o <<Op(Top.tree)>> \in Seq(Token)
    BY <1>2, <1>4
  <2>3. SafeText(<<Op(Top.tree)>>, stack, cte_nodes)
    BY <1>2, TextFacts
  <2>4. SafeText(Top.got \o ret.body, stack, cte_nodes)
    BY <1>2, <1>3, <1>4, TextFacts
  <2>5. SafeText(Top.got \o ret.body \o <<Op(Top.tree)>>, stack, cte_nodes)
    BY <2>2, <2>3, <2>4, TextFacts
  <2>6. node \in CteNode /\ node.body = Top.got \o ret.body \o <<Op(Top.tree)>>
    BY <2>1, <2>2, CteFacts
  <2>7. /\ Return(node) /\ inline_delim' = Restore(inline_delim, Top.tree.id, Top.saved)
        /\ UNCHANGED <<cte_nodes, delim_source, body_info, final, outcome>>
    BY <1>6, <2>1 DEF InlineRightDone, listVars
  <2>8. BodiesSafe(inline_delim', stack, cte_nodes)
    BY <1>2, <1>3, <2>7, RestoreSafe
  <2>9. BodiesSafe(body_info', stack, cte_nodes)
    BY <1>3, <2>7
  <2>10. /\ \A id \in DOMAIN body_info' : body_info'[id] \in Seq(Token)
         /\ \A id \in DOMAIN inline_delim' : inline_delim'[id] \in Seq(Token)
    BY DEF TypeOK
  <2>. QED  BY <1>1, <2>5, <2>6, <2>7, <2>8, <2>9, <2>10, InlineReturn
<1>. QED  BY <1>5, <1>6

LEMMA KeepDelim ==
    ASSUME TypeOK, TypeOK', NestingInv, NamesInv, CustodyInv,
           \/ EnterDelimJoin \/ LeftDone \/ RightDone \/ InlineLeftDone \/ InlineRightDone
           \/ EnterDelimGet \/ EnterInlineDelimGet
    PROVE  CustodyInv'
<1>1. CASE EnterDelimJoin
  <2>1. PICK f : f = [Top EXCEPT !.at = "left"]
    OBVIOUS
  <2>2. stack # << >> /\ Top.at # "step"
    BY <1>1 DEF EnterDelimJoin, At
  <2>3. f \in Frame /\ Shape(f) /\ SameGot(f) /\ Holds(f, stack, cte_nodes)
    BY <2>1, <2>2, MovedOn
  <2>4. /\ Call(f, Top.tree.kids[1], Top.mode)
        /\ UNCHANGED <<cte_nodes, mapVars, final, outcome>>
    BY <1>1, <2>1 DEF EnterDelimJoin, listVars
  <2>. QED  BY <2>2, <2>3, <2>4, QuietCall
<1>2. CASE EnterDelimGet
  <2>1. stack # << >> /\ Top.at # "step" /\ Top.mode = "flat"
    BY <1>2 DEF EnterDelimGet, At, Flat
  <2>2. CASE Top.tree.id \notin DOMAIN delim_source
    BY <1>2, <2>2, KeepThrow DEF EnterDelimGet
  <2>3. CASE Top.tree.id \in DOMAIN delim_source
    <3>1. PICK source \in Token : source = delim_source[Top.tree.id]
      BY <2>3, Typed
    <3>2. PICK node : node = Cte(Name(node_count), <<source, Distinct>>)
      OBVIOUS
    <3>3. Return(node) /\ UNCHANGED <<cte_nodes, mapVars, final, outcome>>
      BY <1>2, <2>3, <3>1, <3>2 DEF EnterDelimGet
    <3>4. SafeRef(source, stack, cte_nodes)
      BY <2>1, <2>3, <3>1, Running DEF SourcesSafe
    <3>5. Distinct \in Token /\ ~IsName(Distinct)
      BY TokenFacts
    <3>6. SafeText(<<source, Distinct>>, stack, cte_nodes)
      <4>1. <<source>> \in Seq(Token) /\ <<Distinct>> \in Seq(Token)
        BY <3>5
      <4>2. SafeText(<<source>> \o <<Distinct>>, stack, cte_nodes)
        BY <3>4, <3>5, <4>1, TextFacts
      <4>3. <<source, Distinct>> = <<source>> \o <<Distinct>>
        OBVIOUS
      <4>. QED  BY <4>2, <4>3
    <3>7. node.body = <<source, Distinct>>
      BY <3>2 DEF Cte
    <3>8. \A id : Free(id, stack) => Free(id, stack')
      BY <2>1, <3>3, PoppedFrees
    <3>9. ReadsListed(node.body, stack', cte_nodes)
      BY <2>1, <3>6, <3>7, <3>8, SafeListed
    <3>. QED  BY <2>1, <3>3, <3>9, FlatBuilt
  <2>. QED  BY <2>2, <2>3
<1>3. CASE EnterInlineDelimGet
  <2>1. stack # << >> /\ Top.at # "step" /\ Top.mode = "inline"
    BY <1>3 DEF EnterInlineDelimGet, At, Inline
  <2>2. CASE Top.tree.id \notin DOMAIN inline_delim
    BY <1>3, <2>2, KeepThrow DEF EnterInlineDelimGet
  <2>3. CASE Top.tree.id \in DOMAIN inline_delim
    <3>1. PICK text \in Seq(Token) : text = inline_delim[Top.tree.id]
      BY <2>3, Typed
    <3>2. Distinct \in Token /\ ~IsName(Distinct)
      BY TokenFacts
    <3>3. SafeText(text, stack, cte_nodes)
      BY <2>1, <2>3, <3>1, Running DEF BodiesSafe
    <3>4. Append(text, Distinct) = text \o <<Distinct>> /\ <<Distinct>> \in Seq(Token)
          /\ Append(text, Distinct) \in Seq(Token)
      BY <3>2
    <3>5. SafeText(Append(text, Distinct), stack, cte_nodes)
      BY <3>2, <3>3, <3>4, TextFacts
    <3>6. PICK node : node = Text(Append(text, Distinct))
      OBVIOUS
    <3>7. node \in CteNode /\ node.body = Append(text, Distinct)
      BY <3>4, <3>6, CteFacts
    <3>8. Return(node) /\ UNCHANGED <<cte_nodes, mapVars, final, outcome>>
      BY <1>3, <2>3, <3>1, <3>6 DEF EnterInlineDelimGet, listVars
    <3>9. UNCHANGED <<delim_source, body_info, inline_delim>>
      BY <3>8 DEF mapVars
    <3>10. BodiesSafe(body_info', stack, cte_nodes) /\ BodiesSafe(inline_delim', stack, cte_nodes)
      BY <2>1, <3>9, Running
    <3>11. /\ \A id \in DOMAIN body_info' : body_info'[id] \in Seq(Token)
           /\ \A id \in DOMAIN inline_delim' : inline_delim'[id] \in Seq(Token)
      BY DEF TypeOK
    <3>. QED  BY <2>1, <3>5, <3>7, <3>8, <3>9, <3>10, <3>11, InlineReturn
  <2>. QED  BY <2>2, <2>3
<1>. QED  BY <1>1, <1>2, <1>3, KeepLeft, KeepRight, KeepInlineDelim

LEMMA UnlistedFree ==
    ASSUME TypeOK, NestingInv, NamesInv, CustodyInv, stack # << >>, NEW id, Unlisted(id, cte_nodes)
    PROVE  Free(id, stack) /\ \A t : Listed(t, cte_nodes) => t.id # id
<1>1. \A t : Listed(t, cte_nodes) => t.id # id
  BY DEF Listed, Unlisted
<1>2. \A p \in DOMAIN stack : Owned(stack[p], cte_nodes)
  BY Running DEF Holds
<1>3. Free(id, stack)
  BY <1>1, <1>2 DEF Free, Owned
<1>. QED  BY <1>1, <1>3

LEMMA KeepAnchor ==
    ASSUME TypeOK, TypeOK', NestingInv, NamesInv, CustodyInv, AnchorDone
    PROVE  CustodyInv'
<1>1. FlatRet /\ Top.mode = "flat" /\ Top.at = "anchor" /\ stack # << >>
  BY BackFlat DEF AnchorDone
<1>2. PICK own : own = Name(node_count)
  OBVIOUS
<1>3. own \in Token /\ IsName(own) /\ ~own.right /\ own.id = node_count /\ node_count \in Nat
  BY <1>2, Typed, TokenFacts
<1>4. PICK f : f = [Top EXCEPT !.at = "step", !.got = <<ret.name, own>>]
  OBVIOUS
<1>5. ret \in CteNode /\ ret.name \in Token
  BY Typed
<1>6. f \in Frame /\ f.at = "step" /\ f.mode = "flat" /\ f.got = <<ret.name, own>>
  <2>1. <<ret.name, own>> \in Seq(Token) /\ Top \in Frame
    BY <1>1, <1>3, <1>5, TopFacts
  <2>. QED  BY <1>1, <1>4, <2>1 DEF Frame
<1>7. SameGot(f)
  BY <1>6 DEF SameGot, Owns
<1>8. /\ cte_nodes' = Append(cte_nodes, ret) /\ Call(f, Top.tree.kids[2], "inline")
      /\ body_info' = Bind(body_info, Top.tree.id, <<own>>) /\ inline_delim' = << >>
      /\ UNCHANGED <<delim_source, final, outcome>>
  BY <1>2, <1>4 DEF AnchorDone, Push
<1>9. Grows(cte_nodes, cte_nodes')
  BY <1>1, <1>5, <1>8, Pushed
<1>10. Carried /\ \A id : Free(id, stack) => Free(id, stack')
  BY <1>1, <1>7, <1>8, <1>9, MovedCall
<1>11. SafeRef(ret.name, stack', cte_nodes') /\ ReadsWell(cte_nodes', stack')
  BY <1>1, <1>5, <1>8, <1>10, Pushed
<1>12. SafeRef(own, stack', cte_nodes')
  <2>1. Unlisted(node_count, cte_nodes)
    BY <1>3, NumberedMore, Typed DEF NamesInv
  <2>2. Free(own.id, stack')
    BY <1>1, <1>3, <1>10, <2>1, UnlistedFree
  <2>3. Pending(own, stack')
    <3>1. stack'[Len(stack)] = f /\ Len(stack) \in DOMAIN stack'
      BY <1>1, <1>8, CallShape
    <3>. QED  BY <1>6, <3>1 DEF Pending
  <2>. QED  BY <1>3, <2>2, <2>3 DEF SafeRef
<1>13. SafeText(<<own>>, stack', cte_nodes')
  BY <1>12, TextFacts
<1>14. BodiesSafe(body_info', stack', cte_nodes')
  BY <1>8, <1>10, <1>13, BindSafe DEF Carried
<1>15. BodiesSafe(inline_delim', stack', cte_nodes')
  BY <1>8 DEF BodiesSafe
<1>16. SourcesSafe(delim_source', stack', cte_nodes')
  BY <1>8, <1>10 DEF Carried
<1>17. Holds(f, stack', cte_nodes')
  BY <1>6, <1>11 DEF Holds, Owned, Owns
<1>. QED  BY <1>1, <1>8, <1>10, <1>11, <1>14, <1>15, <1>16, <1>17, KeepCall

\* The recursive CTE: its anchor, the text of its step, and the name it has in that text.
LEMMA StepBody ==
    ASSUME NEW nodes, NEW stk, NEW anchor \in Token, NEW text \in Seq(Token), NEW t \in Trees,
           t.kind = "RecursiveCte", NEW own \in Token,
           NEW c \in CteNode, c.name = own, c.body = <<anchor>> \o text \o <<Op(t)>>,
           SafeRef(anchor, stk, nodes), SafeText(text, stk, nodes),
           \A u : Pending(u, stk) => u = own
    PROVE  \A i \in DOMAIN c.body : IsName(c.body[i]) =>
              /\ Free(c.body[i].id, stk) /\ ~c.body[i].right
              /\ Listed(c.body[i], nodes) \/ Itself(c.body[i], c)
<1>1. Op(t) \in Token /\ ~IsName(Op(t)) /\ Op(t).op = "RecursiveCte"
  BY TokenFacts
<1>0. PICK first \in Seq(Token) : first = <<anchor>>
  <2>1. <<anchor>> \in Seq(Token)
    OBVIOUS
  <2>. QED  BY <2>1
<1>2. PICK front \in Seq(Token) : front = first \o text
  <2>1. first \o text \in Seq(Token)
    OBVIOUS
  <2>. QED  BY <2>1
<1>3. SafeText(front, stk, nodes)
  <2>1. SafeText(first, stk, nodes)
    BY <1>0, TextFacts
  <2>. QED  BY <1>2, <2>1, TextFacts
<1>4. /\ c.body = front \o <<Op(t)>> /\ <<Op(t)>> \in Seq(Token)
      /\ c.body[Len(c.body)] = Op(t)
  <2>1. c.body = front \o <<Op(t)>>
    BY <1>0, <1>2
  <2>2. PICK e \in Token : e = Op(t)
    BY <1>1
  <2>3. (front \o <<e>>)[Len(front \o <<e>>)] = e /\ <<e>> \in Seq(Token)
    OBVIOUS
  <2>. QED  BY <2>1, <2>2, <2>3
<1>5. SafeText(c.body, stk, nodes)
  <2>1. SafeText(<<Op(t)>>, stk, nodes)
    BY <1>1, TextFacts
  <2>. QED  BY <1>3, <1>4, <2>1, TextFacts
<1>6. \A u : u = own => Itself(u, c)
  BY <1>1, <1>4 DEF Itself
<1>. QED  BY <1>5, <1>6 DEF SafeText, SafeRef

LEMMA KeepStep ==
    ASSUME TypeOK, TypeOK', NestingInv, NamesInv, CustodyInv, StepDone
    PROVE  CustodyInv'
<1>1. /\ stack # << >> /\ Top.mode = "flat" /\ Top.at = "step" /\ ~FlatRet /\ returned
      /\ Top.got[1] \in Token /\ Top.got[2] \in Token
      /\ IsName(Top.got[2]) /\ ~Top.got[2].right
      /\ Unlisted(Top.got[2].id, cte_nodes)
      /\ \A p \in DOMAIN stack : stack[p].at = "step" => p = Len(stack)
  BY StepFacts
<1>2. PICK own \in Token : own = Top.got[2]
  BY <1>1
<1>3. PICK anchor \in Token : anchor = Top.got[1]
  BY <1>1
<1>4. Top.tree \in Trees /\ Top.tree.kind = "RecursiveCte" /\ Top = stack[Len(stack)]
  BY <1>1, TopFacts DEF StepDone, BackAt
<1>5. PICK text \in Seq(Token) : text = ret.body
  BY Typed
<1>6. PICK c : c = Cte(own, <<anchor>> \o text \o <<Op(Top.tree)>>)
  OBVIOUS
<1>7. c \in CteNode /\ c.name = own /\ c.body = <<anchor>> \o text \o <<Op(Top.tree)>>
  <2>1. <<anchor>> \o text \o <<Op(Top.tree)>> \in Seq(Token)
    BY <1>1, TopFacts
  <2>. QED  BY <1>6, <2>1, CteFacts
<1>8. PICK node : node = Cte(Name(node_count), <<own>>)
  OBVIOUS
<1>9. node.body = <<own>>
  BY <1>8 DEF Cte
<1>10. /\ cte_nodes' = Append(cte_nodes, c) /\ Return(node)
       /\ UNCHANGED <<mapVars, final, outcome>>
  BY <1>2, <1>3, <1>5, <1>6, <1>8 DEF StepDone, Push
<1>11. cte_nodes \in Seq(CteNode)
  BY Typed
<1>12. Grows(cte_nodes, cte_nodes') /\ Listed(own, cte_nodes')
  BY <1>7, <1>10, <1>11, ListedAppend DEF Grows
<1>13. Settled
  BY <1>2, <1>12 DEF Settled
<1>14. Carried /\ \A id : Free(id, stack) => Free(id, stack')
  BY <1>1, <1>10, <1>12, <1>13, MovedReturn
<1>15. SafeRef(anchor, stack, cte_nodes) /\ SafeText(text, stack, cte_nodes)
  BY <1>1, <1>3, <1>5, Running DEF Holds
<1>16. \A u : Pending(u, stack) => u = own
  BY <1>1, <1>2, <1>4 DEF Pending
<1>17. \A i \in DOMAIN c.body : IsName(c.body[i]) =>
          /\ Free(c.body[i].id, stack) /\ ~c.body[i].right
          /\ Listed(c.body[i], cte_nodes) \/ Itself(c.body[i], c)
  BY <1>4, <1>7, <1>15, <1>16, StepBody
<1>18. ReadsWell(cte_nodes, stack)
  BY <1>1, Running
<1>19. ReadsWell(cte_nodes', stack)
  BY <1>7, <1>10, <1>11, <1>17, <1>18, ReadsAppend
<1>20. ReadsWell(cte_nodes', stack')
  BY <1>14, <1>19, ReadsKept
<1>21. Free(own.id, stack')
  BY <1>1, <1>2, <1>14, UnlistedFree
<1>22. ReadsListed(node.body, stack', cte_nodes')
  BY <1>1, <1>2, <1>9, <1>12, <1>21, ReadsFacts
<1>23. /\ BodiesSafe(body_info', stack', cte_nodes')
       /\ SourcesSafe(delim_source', stack', cte_nodes')
       /\ BodiesSafe(inline_delim', stack', cte_nodes')
  BY <1>10, <1>14 DEF Carried, mapVars
<1>. QED  BY <1>1, <1>10, <1>14, <1>20, <1>22, <1>23, KeepReturn

LEMMA KeepRecursive ==
    ASSUME TypeOK, TypeOK', NestingInv, NamesInv, CustodyInv,
           EnterRecursive \/ AnchorDone \/ StepDone \/ EnterUnsupported
    PROVE  CustodyInv'
<1>1. CASE EnterRecursive
  <2>1. PICK f : f = [Top EXCEPT !.at = "anchor"]
    OBVIOUS
  <2>2. stack # << >> /\ Top.at # "step"
    BY <1>1 DEF EnterRecursive, At
  <2>3. f \in Frame /\ Shape(f) /\ SameGot(f) /\ Holds(f, stack, cte_nodes)
    BY <2>1, <2>2, MovedOn
  <2>4. /\ Call(f, Top.tree.kids[1], "flat")
        /\ UNCHANGED <<cte_nodes, mapVars, final, outcome>>
    BY <1>1, <2>1 DEF EnterRecursive, listVars
  <2>. QED  BY <2>2, <2>3, <2>4, QuietCall
<1>2. CASE EnterUnsupported
  BY <1>2, KeepThrow DEF EnterUnsupported
<1>. QED  BY <1>1, <1>2, KeepAnchor, KeepStep

\* The clauses of a fused SELECT read nothing but its source.
LEMMA BlockReads ==
    ASSUME NEW slot \in [Slots -> Trees \cup {NoTree}], NEW source \in Seq(Token),
           NEW stk, NEW nodes, ReadsListed(source, stk, nodes)
    PROVE  ReadsListed(Block(source, slot), stk, nodes)
<1>. DEFINE lost == IF Vanishes(slot) /\ PROJ_TOP \in Filled(slot) THEN {AGG} ELSE {}
            part(s) == IF s \in Filled(slot) \ lost THEN <<Clause(slot, s)>> ELSE << >>
            Fine(text) == text \in Seq(Token) /\ ReadsListed(text, stk, nodes)
<1>1. ASSUME NEW s PROVE Fine(part(s))
  <2>1. CASE s \in Filled(slot)
    <3>1. slot[s] \in Trees
      BY <2>1 DEF Filled
    <3>2. Clause(slot, s) \in Token /\ ~IsName(Clause(slot, s))
      BY <3>1, TokenFacts DEF Clause
    <3>3. ReadsListed(<<Clause(slot, s)>>, stk, nodes) /\ <<Clause(slot, s)>> \in Seq(Token)
      BY <3>2, ReadsFacts
    <3>4. Fine(<< >>)
      BY DEF ReadsListed
    <3>. QED  BY <3>3, <3>4
  <2>2. CASE s \notin Filled(slot)
    <3>1. part(s) = << >> /\ Fine(<< >>)
      BY <2>2 DEF ReadsListed
    <3>. QED  BY <3>1
  <2>. QED  BY <2>1, <2>2
<1>2. Block(source, slot) =
        source \o part(FILTER) \o part(PROJ_BOTTOM) \o part(AGG) \o part(HAVING)
               \o part(PROJ_TOP) \o part(ORDER) \o part(LIMIT)
  BY DEF Block
<1>3. ASSUME NEW a, NEW b, Fine(a), Fine(b) PROVE Fine(a \o b)
  <2>1. a \o b \in Seq(Token)
    BY <1>3
  <2>2. ReadsListed(a \o b, stk, nodes)
    BY <1>3, ReadsFacts
  <2>. QED  BY <2>1, <2>2
<1>4. Fine(source)
  OBVIOUS
<1>. HIDE DEF part, Fine
<1>5. Fine(source \o part(FILTER) \o part(PROJ_BOTTOM) \o part(AGG))
  BY <1>1, <1>3, <1>4
<1>6. Fine(Block(source, slot))
  BY <1>1, <1>2, <1>3, <1>5
<1>. QED  BY <1>6 DEF Fine

\* An activation that has got nothing yet, further on in its function.
LEMMA WalkedOn ==
    ASSUME NEW f \in Frame, f.mode = "flat", f.kid = 0, f.got = << >>,
           f.at \in {"walk", "source", "kids"}
    PROVE  Shape(f) /\ SameGot(f) /\ \A stk, nodes : Holds(f, stk, nodes)
<1>1. Len(f.tree.kids) \in Nat /\ Len(f.got) = 0
  BY FrameFacts, TreeFacts
<1>2. Shape(f)
  BY <1>1 DEF Shape
<1>3. SameGot(f) /\ \A stk, nodes : Owned(f, nodes) /\ Holds(f, stk, nodes)
  BY DEF Holds, Owned, SameGot
<1>. QED  BY <1>2, <1>3

LEMMA KeepWalk ==
    ASSUME TypeOK, TypeOK', NestingInv, NamesInv, CustodyInv, EnterOrdinary \/ WalkDown
    PROVE  CustodyInv'
<1>1. stack # << >> /\ Top.mode = "flat" /\ Top.at \in {"enter", "walk"}
  BY DEF EnterOrdinary, WalkDown, At, Flat
<1>2. Top \in Frame /\ Shape(Top)
  BY <1>1, TopFacts, Running
<1>3. Top.kid = 0 /\ Top.got = << >>
  BY <1>1, <1>2 DEF Shape
<1>4. CASE EnterOrdinary
  <2>1. PICK a \in {"walk", "kids"} : Stay([Top EXCEPT !.at = a])
    BY <1>4 DEF EnterOrdinary
  <2>2. PICK f : f = [Top EXCEPT !.at = a]
    OBVIOUS
  <2>3. f \in Frame /\ f.mode = "flat" /\ f.kid = 0 /\ f.got = << >> /\ f.at = a
    BY <1>1, <1>2, <1>3, <2>2 DEF Frame
  <2>4. Shape(f) /\ SameGot(f) /\ Holds(f, stack, cte_nodes)
    BY <2>3, WalkedOn
  <2>5. Stay(f) /\ UNCHANGED <<cte_nodes, mapVars, final, outcome>>
    BY <1>4, <2>1, <2>2 DEF EnterOrdinary, listVars
  <2>. QED  BY <1>1, <2>3, <2>4, <2>5, QuietStay
<1>5. CASE WalkDown
  <2>1. PICK f : f = [Top EXCEPT !.slot[Least(SlotOf(Top.cur, Top.slot))] = Top.cur,
                                 !.cur = Top.cur.kids[1]]
    OBVIOUS
  <2>2. Stay(f) /\ UNCHANGED <<cte_nodes, mapVars, final, outcome>> /\ Top.at = "walk"
    BY <1>5, <2>1 DEF WalkDown, listVars, At
  <2>3. f.mode = "flat" /\ f.kid = 0 /\ f.got = << >> /\ f.at = "walk"
    BY <1>1, <1>2, <1>3, <2>1, <2>2 DEF Frame
  <2>4. f \in Frame
    <3>1. stack'[Len(stack)] = f /\ Len(stack) \in 1..Len(stack) /\ Len(stack') = Len(stack)
      BY <1>1, <2>2, StayShape
    <3>2. stack' \in Seq(Frame)
      BY DEF TypeOK
    <3>. QED  BY <3>1, <3>2
  <2>5. Shape(f) /\ SameGot(f) /\ Holds(f, stack, cte_nodes)
    BY <2>3, <2>4, WalkedOn
  <2>. QED  BY <1>1, <2>2, <2>4, <2>5, QuietStay
<1>. QED  BY <1>4, <1>5

LEMMA KeepWalkEnd ==
    ASSUME TypeOK, TypeOK', NestingInv, NamesInv, CustodyInv, WalkEnd
    PROVE  CustodyInv'
<1>1. stack # << >> /\ Top.mode = "flat" /\ Top.at = "walk"
  BY DEF WalkEnd, At, Flat
<1>2. Top \in Frame /\ Shape(Top) /\ Top.slot \in [Slots -> Trees \cup {NoTree}] /\ Top.cur \in Trees
  BY <1>1, TopFacts, FrameFacts, Running
<1>3. Top.kid = 0 /\ Top.got = << >>
  BY <1>1, <1>2 DEF Shape
<1>4. UNCHANGED <<cte_nodes, mapVars, final, outcome>>
  BY DEF WalkEnd
<1>5. \/ Stay([Top EXCEPT !.at = "kids"])
      \/ Return(Cte(Name(node_count), Block(<<Op(Top.cur)>>, Top.slot)))
      \/ Call([Top EXCEPT !.at = "source"], Top.cur, "flat")
  BY DEF WalkEnd
<1>6. CASE Stay([Top EXCEPT !.at = "kids"])
  <2>1. PICK f : f = [Top EXCEPT !.at = "kids"]
    OBVIOUS
  <2>2. f \in Frame /\ f.mode = "flat" /\ f.kid = 0 /\ f.got = << >> /\ f.at = "kids"
    BY <1>1, <1>2, <1>3, <2>1 DEF Frame
  <2>3. Shape(f) /\ SameGot(f) /\ Holds(f, stack, cte_nodes) /\ Stay(f)
    BY <1>6, <2>1, <2>2, WalkedOn
  <2>. QED  BY <1>1, <1>4, <2>2, <2>3, QuietStay
<1>7. CASE Return(Cte(Name(node_count), Block(<<Op(Top.cur)>>, Top.slot)))
  <2>1. PICK node : node = Cte(Name(node_count), Block(<<Op(Top.cur)>>, Top.slot))
    OBVIOUS
  <2>2. node.body = Block(<<Op(Top.cur)>>, Top.slot)
    BY <2>1 DEF Cte
  <2>3. <<Op(Top.cur)>> \in Seq(Token) /\ ~IsName(Op(Top.cur))
    BY <1>2, TokenFacts
  <2>4. ReadsListed(<<Op(Top.cur)>>, stack', cte_nodes)
    BY <2>3, ReadsFacts
  <2>5. ReadsListed(node.body, stack', cte_nodes)
    BY <1>2, <2>2, <2>3, <2>4, BlockReads
  <2>. QED  BY <1>1, <1>4, <1>7, <2>1, <2>5, FlatBuilt
<1>8. CASE Call([Top EXCEPT !.at = "source"], Top.cur, "flat")
  <2>1. PICK f : f = [Top EXCEPT !.at = "source"]
    OBVIOUS
  <2>2. f \in Frame /\ f.mode = "flat" /\ f.kid = 0 /\ f.got = << >> /\ f.at = "source"
    BY <1>1, <1>2, <1>3, <2>1 DEF Frame
  <2>3. Shape(f) /\ SameGot(f) /\ Holds(f, stack, cte_nodes) /\ Call(f, Top.cur, "flat")
    BY <1>8, <2>1, <2>2, WalkedOn
  <2>. QED  BY <1>1, <1>4, <2>2, <2>3, QuietCall
<1>. QED  BY <1>5, <1>6, <1>7, <1>8

LEMMA KeepSource ==
    ASSUME TypeOK, TypeOK', NestingInv, NamesInv, CustodyInv, SourceDone
    PROVE  CustodyInv'
<1>1. FlatRet /\ Top.mode = "flat" /\ Top.at = "source" /\ stack # << >>
  BY BackFlat DEF SourceDone
<1>2. Top \in Frame /\ Shape(Top) /\ Top.slot \in [Slots -> Trees \cup {NoTree}]
  BY <1>1, TopFacts, FrameFacts, Running
<1>3. Top.kid = 0 /\ Top.got = << >>
  BY <1>1, <1>2 DEF Shape
<1>4. ret \in CteNode /\ ret.name \in Token /\ IsName(ret.name) /\ ~ret.name.right
  BY <1>1, Typed, RetFacts
<1>5. cte_nodes' = Append(cte_nodes, ret) /\ UNCHANGED <<mapVars, final, outcome>>
  BY DEF SourceDone, Push
<1>6. Grows(cte_nodes, cte_nodes') /\ Settled
  BY <1>1, <1>4, <1>5, Pushed DEF Settled
<1>7. CASE GroupsByPosition(Top.slot)
  <2>1. PICK f : f = [Top EXCEPT !.at = "kids"]
    OBVIOUS
  <2>2. f \in Frame /\ f.mode = "flat" /\ f.kid = 0 /\ f.got = << >> /\ f.at = "kids"
    BY <1>1, <1>2, <1>3, <2>1 DEF Frame
  <2>3. SameGot(f) /\ Holds(f, stack', cte_nodes')
    BY <2>2, WalkedOn
  <2>4. Stay(f)
    BY <1>7, <2>1 DEF SourceDone
  <2>5. Carried /\ \A id : Free(id, stack) => Free(id, stack')
    BY <1>1, <1>6, <2>3, <2>4, MovedStay
  <2>6. ReadsWell(cte_nodes', stack')
    BY <1>1, <1>4, <1>5, <2>5, Pushed
  <2>. QED  BY <1>1, <1>5, <2>3, <2>4, <2>5, <2>6, KeepStay
<1>8. CASE ~GroupsByPosition(Top.slot)
  <2>1. PICK node : node = Cte(Name(node_count), Block(<<ret.name>>, Top.slot))
    OBVIOUS
  <2>2. node.body = Block(<<ret.name>>, Top.slot)
    BY <2>1 DEF Cte
  <2>3. Return(node)
    BY <1>8, <2>1 DEF SourceDone
  <2>4. Carried /\ \A id : Free(id, stack) => Free(id, stack')
    BY <1>1, <1>6, <2>3, MovedReturn
  <2>5. SafeRef(ret.name, stack', cte_nodes') /\ ReadsWell(cte_nodes', stack')
    BY <1>1, <1>4, <1>5, <2>4, Pushed
  <2>6. Free(ret.name.id, stack') /\ Listed(ret.name, cte_nodes')
    BY <1>1, <1>4, <1>5, <2>5, Pushed DEF SafeRef
  <2>7. ReadsListed(<<ret.name>>, stack', cte_nodes') /\ <<ret.name>> \in Seq(Token)
    BY <1>4, <2>6, ReadsFacts
  <2>8. ReadsListed(node.body, stack', cte_nodes')
    BY <1>2, <2>2, <2>7, BlockReads
  <2>9. /\ BodiesSafe(body_info', stack', cte_nodes')
        /\ SourcesSafe(delim_source', stack', cte_nodes')
        /\ BodiesSafe(inline_delim', stack', cte_nodes')
    BY <1>5, <2>4 DEF Carried, mapVars
  <2>. QED  BY <1>1, <1>5, <2>3, <2>4, <2>5, <2>8, <2>9, KeepReturn
<1>. QED  BY <1>7, <1>8

LEMMA KeepOrdinary ==
    ASSUME TypeOK, TypeOK', NestingInv, NamesInv, CustodyInv,
           EnterOrdinary \/ WalkDown \/ WalkEnd \/ SourceDone
    PROVE  CustodyInv'
BY KeepWalk, KeepWalkEnd, KeepSource

\* Where a flat activation is on top, and is not in a step, nothing is pending.
LEMMA NothingPending ==
    ASSUME TypeOK, NestingInv, stack # << >>, Top.mode = "flat", Top.at # "step"
    PROVE  \A t : ~Pending(t, stack)
<1>1. Top = stack[Len(stack)]
  BY TopFacts
<1>2. \A p \in DOMAIN stack : stack[p].at # "step"
  BY <1>1, NoStepBelow
<1>. QED  BY <1>2 DEF Pending

\* The activation on top gets one more name of its own.
LEMMA OneMoreOwned ==
    ASSUME TypeOK, stack # << >>, Owns(Top), NEW name \in Token, Free(name.id, stack),
           Alone(stack), NEW f, Owns(f), f.got = Append(Top.got, name), Stay(f)
    PROVE  /\ Alone(stack')
           /\ \A id : Free(id, stack) /\ id # name.id => Free(id, stack')
<1>1. PICK n \in Nat : /\ n >= 1 /\ n = Len(stack) /\ DOMAIN stack = 1..n /\ DOMAIN stack' = 1..n
                       /\ stack'[n] = f /\ \A p \in 1..(n - 1) : stack'[p] = stack[p]
                       /\ stack[n] = Top
  BY StayShape DEF Top
<1>2. PICK got \in Seq(Token) : got = Top.got
  BY TopFacts
<1>3. PICK m \in Nat : m = Len(got) /\ DOMAIN got = 1..m
  BY <1>2
<1>4. DOMAIN f.got = 1..(m + 1) /\ f.got[m + 1] = name /\ \A i \in 1..m : f.got[i] = got[i]
  BY <1>2, <1>3
<1>5. ASSUME NEW p \in DOMAIN stack', Owns(stack'[p]), NEW i \in DOMAIN stack'[p].got
      PROVE  /\ p \in DOMAIN stack /\ Owns(stack[p])
             /\ \/ i \in DOMAIN stack[p].got /\ stack'[p].got[i] = stack[p].got[i]
                \/ p = n /\ i = m + 1 /\ stack'[p].got[i] = name
  <2>1. CASE p = n
    <3>1. i \in 1..m \/ i = m + 1
      BY <1>1, <1>4, <1>5, <2>1
    <3>. QED  BY <1>1, <1>2, <1>3, <1>4, <2>1, <3>1
  <2>2. CASE p # n
    <3>1. p \in 1..(n - 1)
      BY <1>1, <2>2
    <3>. QED  BY <1>1, <1>5, <3>1
  <2>. QED  BY <2>1, <2>2
<1>6. \A id : Free(id, stack) /\ id # name.id => Free(id, stack')
  BY <1>5 DEF Free
<1>7. Alone(stack')
  <2>1. SUFFICES ASSUME NEW p \in DOMAIN stack', NEW q \in DOMAIN stack',
                        Owns(stack'[p]), Owns(stack'[q]),
                        NEW i \in DOMAIN stack'[p].got, NEW j \in DOMAIN stack'[q].got,
                        stack'[p].got[i].id = stack'[q].got[j].id
                 PROVE  p = q /\ i = j
    BY DEF Alone
  <2>2. /\ p \in DOMAIN stack /\ Owns(stack[p])
        /\ \/ i \in DOMAIN stack[p].got /\ stack'[p].got[i] = stack[p].got[i]
           \/ p = n /\ i = m + 1 /\ stack'[p].got[i] = name
    BY <1>5, <2>1
  <2>3. /\ q \in DOMAIN stack /\ Owns(stack[q])
        /\ \/ j \in DOMAIN stack[q].got /\ stack'[q].got[j] = stack[q].got[j]
           \/ q = n /\ j = m + 1 /\ stack'[q].got[j] = name
    BY <1>5, <2>1
  <2>. QED  BY <2>1, <2>2, <2>3 DEF Free, Alone
<1>. QED  BY <1>6, <1>7

LEMMA KeepKid ==
    ASSUME TypeOK, TypeOK', NestingInv, NamesInv, CustodyInv, KidDone
    PROVE  CustodyInv'
<1>1. FlatRet /\ Top.mode = "flat" /\ Top.at = "kids" /\ stack # << >>
  BY BackFlat DEF KidDone
<1>2. Owns(Top)
  BY <1>1 DEF Owns
<1>3. /\ ret \in CteNode /\ ret.name \in Token /\ IsName(ret.name) /\ ~ret.name.right
      /\ Unmarked(ret.name) /\ cte_nodes \in Seq(CteNode)
  BY <1>1, Typed, RetFacts
<1>4. Top \in Frame /\ Top.got \in Seq(Token) /\ Top.kid \in Nat
  BY <1>1, TopFacts
<1>5. PICK f : f = [Top EXCEPT !.kid = @ + 1, !.got = Append(@, ret.name)]
  OBVIOUS
<1>6. f.mode = "flat" /\ f.at = "kids" /\ f.got = Append(Top.got, ret.name)
  BY <1>1, <1>4, <1>5 DEF Frame
<1>7. Owns(f)
  BY <1>6 DEF Owns
<1>8. /\ cte_nodes' = Append(cte_nodes, ret) /\ Stay(f)
      /\ UNCHANGED <<mapVars, final, outcome>>
  BY <1>5 DEF KidDone, Push
<1>9. Free(ret.name.id, stack) /\ \A t : Listed(t, cte_nodes) => t.id # ret.name.id
  BY <1>1, RetFree
<1>10. Alone(stack)
  BY DEF CustodyInv
<1>11. /\ Alone(stack')
       /\ \A id : Free(id, stack) /\ id # ret.name.id => Free(id, stack')
  BY <1>1, <1>2, <1>3, <1>6, <1>7, <1>8, <1>9, <1>10, OneMoreOwned
<1>12. Grows(cte_nodes, cte_nodes') /\ Listed(ret.name, cte_nodes')
  BY <1>1, <1>3, <1>8, Pushed
<1>13. Carries(stack, cte_nodes, stack', cte_nodes')
  <2>1. \A t : ~Pending(t, stack)
    BY <1>1, NothingPending
  <2>. QED  BY <1>9, <1>11, <1>12, <2>1 DEF Carries, SafeRef, Grows
<1>14. Carried
  BY <1>1, <1>11, <1>12, <1>13, LowerOwned, CarriedIf
<1>15. ReadsWell(cte_nodes, stack')
  <2>1. ReadsWell(cte_nodes, stack)
    BY <1>1, Running
  <2>2. \A k \in DOMAIN cte_nodes : \A i \in DOMAIN cte_nodes[k].body :
            IsName(cte_nodes[k].body[i]) => Listed(cte_nodes[k].body[i], cte_nodes)
    BY <1>3, <2>1, ReadsNames
  <2>. QED  BY <1>9, <1>11, <2>1, <2>2, ReadsKept
<1>16. ReadsWell(cte_nodes', stack')
  <2>1. ReadsListed(ret.body, stack, cte_nodes)
    BY <1>1, Running
  <2>2. \A i \in DOMAIN ret.body : IsName(ret.body[i]) =>
           /\ Free(ret.body[i].id, stack') /\ Listed(ret.body[i], cte_nodes)
           /\ ret.body[i].right => ~ReadOf(ret.body[i], cte_nodes)
    BY <1>9, <1>11, <2>1 DEF ReadsListed
  <2>. QED  BY <1>3, <1>8, <1>15, <2>2, ReadsAppend
<1>17. Holds(f, stack', cte_nodes')
  <2>1. \A i \in DOMAIN Top.got : Unmarked(Top.got[i]) /\ Listed(Top.got[i], cte_nodes')
    BY <1>1, <1>2, <1>12, Running DEF Holds, Owned, Grows
  <2>2. PICK m \in Nat : m = Len(Top.got) /\ DOMAIN Top.got = 1..m
    BY <1>4
  <2>3. /\ DOMAIN f.got = 1..(m + 1) /\ f.got[m + 1] = ret.name
        /\ \A i \in 1..m : f.got[i] = Top.got[i]
    BY <1>3, <1>4, <1>6, <2>2
  <2>4. \A i \in DOMAIN f.got : i \in 1..m \/ i = m + 1
    BY <2>3
  <2>5. \A i \in DOMAIN f.got : Unmarked(f.got[i]) /\ Listed(f.got[i], cte_nodes')
    BY <1>3, <1>12, <2>1, <2>2, <2>3, <2>4
  <2>. QED  BY <1>6, <2>5 DEF Holds, Owned
<1>. QED  BY <1>1, <1>8, <1>14, <1>16, <1>17, KeepStay

LEMMA KeepInlineKids ==
    ASSUME TypeOK, TypeOK', NestingInv, NamesInv, CustodyInv,
           EnterInlineOrdinary \/ NextKid \/ InlineKidDone
    PROVE  CustodyInv'
<1>1. stack # << >> /\ Top.at # "step"
  BY DEF EnterInlineOrdinary, NextKid, InlineKidDone, At, BackAt
<1>2. /\ Top \in Frame /\ Top.got \in Seq(Token) /\ Top.kid \in Nat
      /\ Op(Top.tree) \in Token /\ ~IsName(Op(Top.tree)) /\ Top.tree \in Trees
  BY <1>1, TopFacts
<1>3. Holds(Top, stack, cte_nodes) /\ Shape(Top)
  BY <1>1, Running
<1>4. CASE EnterInlineOrdinary
  <2>1. PICK f : f = [Top EXCEPT !.at = "kids"]
    OBVIOUS
  <2>2. Top.mode = "inline" /\ Top.at = "enter"
    BY <1>4 DEF EnterInlineOrdinary, At, Inline
  <2>3. /\ f \in Frame /\ f.mode = "inline" /\ f.at = "kids" /\ f.kid = Top.kid
        /\ f.got = Top.got /\ f.saved = Top.saved
    BY <1>2, <2>1, <2>2 DEF Frame
  <2>4. Shape(f)
    <3>1. Top.kid = 0 /\ Len(f.tree.kids) \in Nat
      BY <1>3, <2>2, <2>3, FrameFacts, TreeFacts DEF Shape
    <3>. QED  BY <2>3, <3>1 DEF Shape
  <2>5. SameGot(f) /\ Holds(f, stack, cte_nodes)
    BY <1>3, <2>2, <2>3 DEF SameGot, Holds, Owned, Owns
  <2>6. Stay(f) /\ UNCHANGED <<cte_nodes, mapVars, final, outcome>>
    BY <1>4, <2>1 DEF EnterInlineOrdinary, listVars
  <2>. QED  BY <1>1, <2>3, <2>4, <2>5, <2>6, QuietStay
<1>5. CASE NextKid
  <2>1. Call(Top, Top.tree.kids[Top.kid + 1], Top.mode)
        /\ UNCHANGED <<cte_nodes, mapVars, final, outcome>>
    BY <1>5 DEF NextKid, listVars
  <2>2. SameGot(Top)
    BY DEF SameGot
  <2>. QED  BY <1>1, <1>2, <1>3, <2>1, <2>2, QuietCall
<1>6. CASE InlineKidDone
  <2>1. Top.mode = "inline" /\ ~FlatRet /\ returned /\ Top.at = "kids"
    BY <1>6, BackInline DEF InlineKidDone
  <2>0. PICK between : between = IF Top.tree.kind = "Union" /\ Top.kid \in 1..(Len(Top.tree.kids) - 2)
                                 THEN <<Op(Top.tree)>> ELSE << >>
    OBVIOUS
  <2>2. between \in Seq(Token) /\ SafeText(between, stack, cte_nodes)
    <3>1. <<Op(Top.tree)>> \in Seq(Token) /\ << >> \in Seq(Token)
      BY <1>2
    <3>2. SafeText(<<Op(Top.tree)>>, stack, cte_nodes) /\ SafeText(<< >>, stack, cte_nodes)
      BY <1>2, TextFacts
    <3>. QED  BY <2>0, <3>1, <3>2
  <2>3. PICK f : f = [Top EXCEPT !.kid = @ + 1, !.got = @ \o ret.body \o between]
    OBVIOUS
  <2>4. Stay(f) /\ UNCHANGED <<cte_nodes, mapVars, final, outcome>>
    BY <1>6, <2>0, <2>3 DEF InlineKidDone, listVars
  <2>5. ret.body \in Seq(Token) /\ SafeText(ret.body, stack, cte_nodes)
    BY <1>1, <2>1, Running, Typed
  <2>6. /\ f.mode = "inline" /\ f.at = "kids" /\ f.saved = Top.saved
        /\ f.got = Top.got \o ret.body \o between
    BY <1>2, <2>1, <2>3 DEF Frame
  <2>7. f \in Frame /\ Shape(f)
    <3>1. stack'[Len(stack)] = f /\ Len(stack) \in DOMAIN stack' /\ Len(stack) \in 1..Len(stack')
      BY <1>1, <2>4, StayShape
    <3>2. stack' \in Seq(Frame)
      BY DEF TypeOK
    <3>3. NestingInv'
      BY <1>6, NestBuild
    <3>4. f \in Frame
      BY <3>1, <3>2
    <3>. QED  BY <3>1, <3>3, <3>4 DEF NestingInv
  <2>8. Holds(f, stack, cte_nodes)
    <3>1. /\ SafeText(Top.got, stack, cte_nodes)
          /\ \A n \in DOMAIN Top.saved : SafeText(Top.saved[n], stack, cte_nodes)
      BY <1>3, <2>1 DEF Holds
    <3>2. Top.got \o ret.body \in Seq(Token)
      BY <1>2, <2>5
    <3>3. SafeText(Top.got \o ret.body, stack, cte_nodes)
      BY <1>2, <2>5, <3>1, TextFacts
    <3>4. SafeText(f.got, stack, cte_nodes)
      BY <2>2, <2>6, <3>2, <3>3, TextFacts
    <3>. QED  BY <2>6, <3>1, <3>4 DEF Holds, Owned, Owns
  <2>9. SameGot(f)
    BY <2>6 DEF SameGot, Owns
  <2>. QED  BY <1>1, <2>4, <2>7, <2>8, <2>9, QuietStay
<1>. QED  BY <1>4, <1>5, <1>6

\* What the activation on top owned, when it ends: no one owns it, and it is unmarked.
LEMMA OwnReads ==
    ASSUME TypeOK, NestingInv, CustodyInv, stack # << >>, Owns(Top), NEW node, Return(node)
    PROVE  ReadsListed(Top.got, stack', cte_nodes)
<1>1. HoldersInv
  BY DEF CustodyInv
<1>2. \A i \in DOMAIN Top.got : ~Top.got[i].right /\ Listed(Top.got[i], cte_nodes)
  BY <1>1, OwnedNames
<1>3. \A i \in DOMAIN Top.got : Free(Top.got[i].id, stack')
  BY PoppedFrees
<1>. QED  BY <1>2, <1>3 DEF ReadsListed

LEMMA KeepBuildNode ==
    ASSUME TypeOK, TypeOK', NestingInv, NamesInv, CustodyInv, BuildNode
    PROVE  CustodyInv'
<1>1. stack # << >> /\ Top.mode = "flat" /\ Top.at = "kids" /\ Owns(Top) /\ Top.got \in Seq(Token)
  BY GotFacts DEF BuildNode
<1>2. Op(Top.tree) \in Token /\ ~IsName(Op(Top.tree))
  BY <1>1, TopFacts
<1>3. PICK node : /\ Return(node) /\ node.body = Append(Top.got, Op(Top.tree))
  <2>1. PICK hint : Return([Cte(Name(node_count), Append(Top.got, Op(Top.tree)))
                               EXCEPT !.hint = hint])
    BY DEF BuildNode
  <2>2. PICK node : node = [Cte(Name(node_count), Append(Top.got, Op(Top.tree)))
                               EXCEPT !.hint = hint]
    OBVIOUS
  <2>3. node.body = Append(Top.got, Op(Top.tree))
    BY <2>2 DEF Cte
  <2>. QED  BY <2>1, <2>2, <2>3
<1>4. UNCHANGED <<cte_nodes, mapVars, final, outcome>>
  BY DEF BuildNode
<1>5. ReadsListed(Top.got, stack', cte_nodes)
  BY <1>1, <1>3, OwnReads
<1>6. ReadsListed(<<Op(Top.tree)>>, stack', cte_nodes) /\ <<Op(Top.tree)>> \in Seq(Token)
  BY <1>2, ReadsFacts
<1>7. node.body = Top.got \o <<Op(Top.tree)>>
  BY <1>1, <1>2, <1>3
<1>8. ReadsListed(node.body, stack', cte_nodes)
  BY <1>1, <1>5, <1>6, <1>7, ReadsFacts
<1>. QED  BY <1>1, <1>3, <1>4, <1>8, FlatBuilt

LEMMA KeepBuildInline ==
    ASSUME TypeOK, TypeOK', NestingInv, NamesInv, CustodyInv, BuildInline
    PROVE  CustodyInv'
<1>1. stack # << >> /\ Top.mode = "inline"
  BY DEF BuildInline, AllKids, At, Inline
<1>2. Op(Top.tree) \in Token /\ ~IsName(Op(Top.tree)) /\ Top.got \in Seq(Token)
  BY <1>1, TopFacts
<1>3. PICK text \in Seq(Token) : text = Append(Top.got, Op(Top.tree))
  <2>1. Append(Top.got, Op(Top.tree)) \in Seq(Token)
    BY <1>2
  <2>. QED  BY <2>1
<1>4. SafeText(text, stack, cte_nodes)
  <2>1. SafeText(Top.got, stack, cte_nodes)
    BY <1>1, Running DEF Holds
  <2>2. SafeText(<<Op(Top.tree)>>, stack, cte_nodes)
    BY <1>2, TextFacts
  <2>3. text = Top.got \o <<Op(Top.tree)>> /\ <<Op(Top.tree)>> \in Seq(Token)
    BY <1>2, <1>3
  <2>. QED  BY <1>2, <2>1, <2>2, <2>3, TextFacts
<1>5. PICK node : node = Text(text)
  OBVIOUS
<1>6. node \in CteNode /\ node.body = text
  BY <1>5, CteFacts
<1>7. Return(node) /\ UNCHANGED <<cte_nodes, mapVars, final, outcome>>
  BY <1>3, <1>5 DEF BuildInline, listVars
<1>8. UNCHANGED <<cte_nodes, delim_source, body_info, inline_delim, final, outcome>>
  BY <1>7 DEF mapVars
<1>9. BodiesSafe(body_info', stack, cte_nodes) /\ BodiesSafe(inline_delim', stack, cte_nodes)
  BY <1>1, <1>8, Running
<1>10. /\ \A id \in DOMAIN body_info' : body_info'[id] \in Seq(Token)
       /\ \A id \in DOMAIN inline_delim' : inline_delim'[id] \in Seq(Token)
  BY DEF TypeOK
<1>. QED  BY <1>1, <1>4, <1>6, <1>7, <1>8, <1>9, <1>10, InlineReturn

\* The right side of a join is renamed when no one but the join has its name.
LEMMA JoinMarks ==
    ASSUME TypeOK, NestingInv, NamesInv, CustodyInv, stack # << >>, Owns(Top),
           Len(Top.got) = 2, NEW node, Return(node), NEW right \in Token, right = Top.got[2],
           cte_nodes' = MarkRight(cte_nodes, right)
    PROVE  /\ Carried /\ ReadsWell(cte_nodes', stack')
           /\ Listed(Top.got[1], cte_nodes')
           /\ Listed(RightName(cte_nodes, right), cte_nodes')
           /\ RightName(cte_nodes, right).id = right.id
           /\ IsName(RightName(cte_nodes, right))
           /\ ~ReadOf(RightName(cte_nodes, right), cte_nodes')
<1>1. cte_nodes \in Seq(CteNode) /\ Numbered(cte_nodes, node_count) /\ Alone(stack) /\ HoldersInv
  BY Typed DEF NamesInv, CustodyInv
<1>2. /\ Top.got \in Seq(Token) /\ 1 \in DOMAIN Top.got /\ 2 \in DOMAIN Top.got
      /\ Top = stack[Len(stack)] /\ Len(stack) \in DOMAIN stack
      /\ Top.got[1] \in Token
  BY TopFacts
<1>3. /\ Listed(right, cte_nodes) /\ Listed(Top.got[1], cte_nodes)
      /\ IsName(right)
  BY <1>1, <1>2, OwnedNames
<1>4. /\ \A t : Listed(t, cte_nodes) /\ t.id # right.id => Listed(t, cte_nodes')
      /\ Listed(RightName(cte_nodes, right), cte_nodes')
      /\ RightName(cte_nodes, right).id = right.id
  BY <1>1, <1>3, ListedMark
<1>5. \A id : Free(id, stack) => id # right.id
  BY <1>2 DEF Free
<1>6. Alone(stack') /\ \A id : Free(id, stack) => Free(id, stack')
  BY PoppedFrees
<1>7. Carries(stack, cte_nodes, stack', cte_nodes')
  <2>1. \A t : ~Pending(t, stack)
    BY NothingPending DEF Owns
  <2>. QED  BY <1>4, <1>5, <1>6, <2>1 DEF Carries, SafeRef
<1>8. \A p \in 1..(Len(stack) - 1) : Owned(stack[p], cte_nodes')
  <2>1. SUFFICES ASSUME NEW p \in 1..(Len(stack) - 1), Owns(stack[p]),
                        NEW i \in DOMAIN stack[p].got
                 PROVE  Unmarked(stack[p].got[i]) /\ Listed(stack[p].got[i], cte_nodes')
    BY DEF Owned
  <2>2. p \in DOMAIN stack /\ p # Len(stack)
    BY StackFacts
  <2>3. Unmarked(stack[p].got[i]) /\ Listed(stack[p].got[i], cte_nodes)
    BY <2>1, <2>2, Running DEF Holds, Owned
  <2>4. stack[p].got[i].id # right.id
    BY <1>1, <1>2, <2>1, <2>2 DEF Alone
  <2>. QED  BY <1>4, <2>3, <2>4
<1>9. Carried
  BY <1>6, <1>7, <1>8, CarriedIf
<1>10. ReadsWell(cte_nodes, stack)
  BY Running
<1>11. \A k \in DOMAIN cte_nodes : \A i \in DOMAIN cte_nodes[k].body :
          IsName(cte_nodes[k].body[i]) => cte_nodes[k].body[i].id # right.id
  BY <1>5, <1>10 DEF ReadsWell
<1>12. /\ ReadsWell(cte_nodes', stack)
       /\ \A t : IsName(t) /\ t.id = right.id => ~ReadOf(t, cte_nodes')
  BY <1>1, <1>10, <1>11, ReadsMark
<1>13. ReadsWell(cte_nodes', stack')
  BY <1>6, <1>12, ReadsKept
<1>14. IsName(RightName(cte_nodes, right))
  BY <1>3, TokenFacts DEF RightName, IsName
<1>15. Listed(Top.got[1], cte_nodes')
  <2>1. Top.got[1].id # right.id
    BY <1>1, <1>2 DEF Alone
  <2>. QED  BY <1>3, <1>4, <2>1
<1>. QED  BY <1>4, <1>9, <1>12, <1>13, <1>14, <1>15

LEMMA KeepBuildJoin ==
    ASSUME TypeOK, TypeOK', NestingInv, NamesInv, CustodyInv, BuildJoin
    PROVE  CustodyInv'
<1>1. /\ stack # << >> /\ Top.mode = "flat" /\ Owns(Top) /\ Top.got \in Seq(Token)
      /\ Len(Top.got) = 2
  BY GotFacts DEF BuildJoin
<1>2. PICK left \in Token : left = Top.got[1]
  BY <1>1
<1>3. PICK right \in Token : right = Top.got[2]
  BY <1>1
<1>4. PICK renamed \in Token : renamed = RightName(cte_nodes, right)
  BY Typed, MarkTyped
<1>5. PICK op \in Token : op = Op(Top.tree) /\ ~IsName(op)
  BY <1>1, TopFacts
<1>6. PICK node : Return(node) /\ node.body = Append(<<left, renamed>>, op)
  <2>1. PICK broadcast : Return([Cte(Name(node_count), Append(<<left, renamed>>, op))
                                    EXCEPT !.broadcast = broadcast])
    BY <1>2, <1>3, <1>4, <1>5 DEF BuildJoin
  <2>2. PICK node : node = [Cte(Name(node_count), Append(<<left, renamed>>, op))
                               EXCEPT !.broadcast = broadcast]
    OBVIOUS
  <2>3. node.body = Append(<<left, renamed>>, op)
    BY <2>2 DEF Cte
  <2>. QED  BY <2>1, <2>2, <2>3
<1>7. cte_nodes' = MarkRight(cte_nodes, right) /\ UNCHANGED <<mapVars, final, outcome>>
  BY <1>3 DEF BuildJoin
<1>8. /\ Carried /\ ReadsWell(cte_nodes', stack')
      /\ Listed(left, cte_nodes') /\ Listed(renamed, cte_nodes')
      /\ renamed.id = right.id /\ IsName(renamed) /\ ~ReadOf(renamed, cte_nodes')
  BY <1>1, <1>2, <1>3, <1>4, <1>6, <1>7, JoinMarks
<1>9. Free(left.id, stack') /\ Free(right.id, stack') /\ ~left.right
  <2>1. 1 \in DOMAIN Top.got /\ 2 \in DOMAIN Top.got
    BY <1>1
  <2>2. HoldersInv
    BY DEF CustodyInv
  <2>3. ~left.right
    BY <1>1, <1>2, <2>1, <2>2, OwnedNames
  <2>. QED  BY <1>1, <1>2, <1>3, <1>6, <2>1, <2>3, PoppedFrees
<1>10. /\ ReadsListed(<<left>>, stack', cte_nodes') /\ ReadsListed(<<renamed>>, stack', cte_nodes')
       /\ ReadsListed(<<op>>, stack', cte_nodes')
  BY <1>5, <1>8, <1>9, ReadsFacts
<1>11. <<left>> \in Seq(Token) /\ <<renamed>> \in Seq(Token) /\ <<op>> \in Seq(Token)
       /\ <<left>> \o <<renamed>> \in Seq(Token)
  OBVIOUS
<1>12. node.body = (<<left>> \o <<renamed>>) \o <<op>>
  BY <1>6
<1>13. ReadsListed(<<left>> \o <<renamed>>, stack', cte_nodes')
  BY <1>10, <1>11, ReadsFacts
<1>14. ReadsListed(node.body, stack', cte_nodes')
  BY <1>10, <1>11, <1>12, <1>13, ReadsFacts
<1>15. /\ BodiesSafe(body_info', stack', cte_nodes')
       /\ SourcesSafe(delim_source', stack', cte_nodes')
       /\ BodiesSafe(inline_delim', stack', cte_nodes')
  BY <1>7, <1>8 DEF Carried, mapVars
<1>. QED  BY <1>1, <1>6, <1>7, <1>8, <1>14, <1>15, KeepReturn

\* A chain of unions: each of the new CTEs reads two names that are in the list by then.
LEMMA ConcatFacts ==
    ASSUME NEW nodes \in Seq(CteNode), NEW more \in Seq(CteNode)
    PROVE  /\ \A k \in DOMAIN nodes : k \in DOMAIN (nodes \o more) /\ (nodes \o more)[k] = nodes[k]
           /\ \A k \in DOMAIN more : /\ Len(nodes) + k \in DOMAIN (nodes \o more)
                                     /\ (nodes \o more)[Len(nodes) + k] = more[k]
           /\ \A k \in DOMAIN (nodes \o more) :
                 k \in DOMAIN nodes \/ k - Len(nodes) \in DOMAIN more
OBVIOUS

LEMMA ListedConcat ==
    ASSUME NEW nodes \in Seq(CteNode), NEW more \in Seq(CteNode)
    PROVE  /\ \A t : Listed(t, nodes) => Listed(t, nodes \o more)
           /\ \A k \in DOMAIN more : Listed(more[k].name, nodes \o more)
<1>1. PICK longer : longer = nodes \o more
  OBVIOUS
<1>2. /\ \A k \in DOMAIN nodes : k \in DOMAIN longer /\ longer[k] = nodes[k]
      /\ \A k \in DOMAIN more : /\ Len(nodes) + k \in DOMAIN longer
                                /\ longer[Len(nodes) + k] = more[k]
  BY <1>1, ConcatFacts
<1>3. \A t : Listed(t, nodes) => Listed(t, longer)
  BY <1>2 DEF Listed
<1>4. \A k \in DOMAIN more : Listed(more[k].name, longer)
  BY <1>2 DEF Listed
<1>. QED  BY <1>1, <1>3, <1>4

LEMMA ReadsConcat ==
    ASSUME NEW nodes \in Seq(CteNode), NEW more \in Seq(CteNode), NEW stk, ReadsWell(nodes, stk),
           \A k \in DOMAIN more : \A i \in DOMAIN more[k].body : IsName(more[k].body[i]) =>
              /\ Free(more[k].body[i].id, stk) /\ ~more[k].body[i].right
              /\ Listed(more[k].body[i], nodes) \/ Before(more[k].body[i], k, more)
    PROVE  ReadsWell(nodes \o more, stk)
<1>1. PICK longer : longer = nodes \o more
  OBVIOUS
<1>2. PICK l \in Nat : l = Len(nodes) /\ DOMAIN nodes = 1..l
  OBVIOUS
<1>3. PICK m \in Nat : m = Len(more) /\ DOMAIN more = 1..m
  OBVIOUS
<1>4. /\ \A k \in DOMAIN nodes : k \in DOMAIN longer /\ longer[k] = nodes[k]
      /\ \A k \in DOMAIN more : /\ l + k \in DOMAIN longer /\ longer[l + k] = more[k]
      /\ \A k \in DOMAIN longer : k \in DOMAIN nodes \/ k - l \in DOMAIN more
      /\ DOMAIN longer = 1..(l + m)
  <2>1. DOMAIN longer = 1..(l + m)
    BY <1>1, <1>2, <1>3
  <2>. QED  BY <1>1, <1>2, <2>1, ConcatFacts
<1>5. ASSUME NEW k \in DOMAIN nodes, NEW t, Before(t, k, nodes) PROVE Before(t, k, longer)
  <2>1. \A j \in 1..(k - 1) : j \in DOMAIN nodes
    BY <1>2
  <2>. QED  BY <1>4, <1>5, <2>1 DEF Before
<1>6. ASSUME NEW k \in DOMAIN more, NEW t, Listed(t, nodes) PROVE Before(t, l + k, longer)
  <2>1. PICK j \in DOMAIN nodes : nodes[j].name = t
    BY <1>6 DEF Listed
  <2>2. j \in 1..((l + k) - 1) /\ longer[j].name = t
    BY <1>2, <1>3, <1>4, <2>1
  <2>. QED  BY <2>2 DEF Before
<1>7. ASSUME NEW k \in DOMAIN more, NEW t, Before(t, k, more) PROVE Before(t, l + k, longer)
  <2>1. PICK j \in 1..(k - 1) : more[j].name = t
    BY <1>7 DEF Before
  <2>2. j \in DOMAIN more /\ l + j \in 1..((l + k) - 1)
    BY <1>2, <1>3, <2>1
  <2>3. longer[l + j].name = t
    BY <1>4, <2>1, <2>2
  <2>. QED  BY <2>2, <2>3 DEF Before
<1>8. ASSUME NEW k \in DOMAIN longer, k \notin DOMAIN nodes
      PROVE  /\ \A i \in DOMAIN longer[k].body : IsName(longer[k].body[i]) =>
                   /\ Free(longer[k].body[i].id, stk) /\ ~longer[k].body[i].right
                   /\ Before(longer[k].body[i], k, longer)
  <2>1. PICK j \in DOMAIN more : j = k - l
    BY <1>4, <1>8
  <2>2. k = l + j
    BY <1>2, <1>3, <1>4, <2>1
  <2>3. longer[k] = more[j]
    BY <1>4, <2>2
  <2>4. \A t : Listed(t, nodes) \/ Before(t, j, more) => Before(t, k, longer)
    BY <1>6, <1>7, <2>2
  <2>. QED  BY <2>3, <2>4
<1>9. ASSUME NEW k \in DOMAIN longer, NEW i \in DOMAIN longer[k].body, IsName(longer[k].body[i])
      PROVE  /\ Before(longer[k].body[i], k, longer) \/ Itself(longer[k].body[i], longer[k])
             /\ Free(longer[k].body[i].id, stk)
  <2>1. CASE k \in DOMAIN nodes
    <3>1. longer[k] = nodes[k]
      BY <1>4, <2>1
    <3>. QED  BY <1>5, <1>9, <2>1, <3>1 DEF ReadsWell
  <2>2. CASE k \notin DOMAIN nodes
    BY <1>8, <1>9, <2>2
  <2>. QED  BY <2>1, <2>2
<1>10. ASSUME NEW k \in DOMAIN longer, NEW q \in DOMAIN longer,
              NEW i \in DOMAIN longer[k].body, NEW j \in DOMAIN longer[q].body,
              longer[k].body[i] = longer[q].body[j],
              IsName(longer[k].body[i]), longer[k].body[i].right
       PROVE  k = q
  <2>1. k \in DOMAIN nodes /\ q \in DOMAIN nodes
    BY <1>8, <1>10
  <2>2. longer[k] = nodes[k] /\ longer[q] = nodes[q]
    BY <1>4, <2>1
  <2>. QED  BY <1>10, <2>1, <2>2 DEF ReadsWell
<1>. QED  BY <1>1, <1>9, <1>10 DEF ReadsWell

\* What the k-th union of a chain reads: its input, and the union before it.
LEMMA UnionReads ==
    ASSUME NEW t \in Trees, NEW n \in Nat, NEW got \in Seq(Token), NEW k \in 1..(Len(got) - 1)
    PROVE  \A i \in DOMAIN UnionOf(t, n, got, k) : IsName(UnionOf(t, n, got, k)[i]) =>
              \/ \E j \in DOMAIN got : UnionOf(t, n, got, k)[i] = got[j]
              \/ /\ k > 1 /\ k - 1 \in 1..(Len(got) - 2)
                 /\ UnionOf(t, n, got, k)[i] = Name(n + k - 1)
<1>0. PICK l \in Nat : l = Len(got) /\ DOMAIN got = 1..l
  OBVIOUS
<1>1. 1 \in DOMAIN got /\ k + 1 \in DOMAIN got /\ (k > 1 => k - 1 \in 1..(Len(got) - 2))
  <2>1. k \in Nat /\ k >= 1 /\ k <= l - 1
    BY <1>0
  <2>2. 1 \in 1..l /\ k + 1 \in 1..l
    BY <2>1
  <2>3. k > 1 => k - 1 \in 1..(l - 2)
    BY <2>1
  <2>4. l - 2 = Len(got) - 2
    BY <1>0
  <2>. QED  BY <1>0, <2>2, <2>3, <2>4
<1>10. k = 1 \/ k > 1
  OBVIOUS
<1>2. ~IsName(Op(t))
  BY TokenFacts
<1>3. PICK body : body = UnionOf(t, n, got, k)
  OBVIOUS
<1>4. PICK left : left = UnionLeft(n, got, k)
  OBVIOUS
<1>5. PICK right : right = got[k + 1]
  OBVIOUS
<1>6. body = <<left, right, Op(t)>>
  BY <1>3, <1>4, <1>5 DEF UnionOf
<1>7. \A i \in DOMAIN body : body[i] = left \/ body[i] = right \/ body[i] = Op(t)
  BY <1>6
<1>8. left = got[1] \/ (k > 1 /\ left = Name(n + k - 1))
  BY <1>4, <1>10 DEF UnionLeft
<1>. QED  BY <1>1, <1>2, <1>3, <1>5, <1>7, <1>8

LEMMA KeepBuildUnion ==
    ASSUME TypeOK, TypeOK', NestingInv, NamesInv, CustodyInv, BuildUnion
    PROVE  CustodyInv'
<1>1. /\ stack # << >> /\ Top.mode = "flat" /\ Top.at = "kids" /\ Owns(Top)
      /\ Top.got \in Seq(Token)
  BY GotFacts DEF BuildUnion
<1>2. PICK got \in Seq(Token) : got = Top.got
  BY <1>1
<1>3. PICK t \in Trees : t = Top.tree
  BY <1>1, TopFacts
<1>4. PICK n \in Nat : n = node_count
  BY Typed
<1>5. PICK more \in Seq(CteNode) : more = UnionNodes(t, n, got)
  BY UnionTyped
<1>6. PICK body : body = IF Len(got) = 1 THEN Append(got, Op(t))
                         ELSE UnionOf(t, n, got, Len(got) - 1)
  OBVIOUS
<1>7. PICK node : node = Cte(Name(n), body)
  OBVIOUS
<1>8. /\ Len(got) >= 1 /\ cte_nodes' = cte_nodes \o more /\ Return(node)
  BY <1>2, <1>3, <1>4, <1>5, <1>6, <1>7, UnionStep
<1>9. node.body = body
  BY <1>7 DEF Cte
<1>10. UNCHANGED <<mapVars, final, outcome>>
  BY DEF BuildUnion
<1>11. cte_nodes \in Seq(CteNode) /\ HoldersInv
  BY Typed DEF CustodyInv
<1>12. /\ Len(got) \in Nat
       /\ \A k \in DOMAIN more : /\ k \in Nat /\ k \in 1..(Len(got) - 2) /\ k \in 1..(Len(got) - 1)
                                 /\ more[k].name = Name(n + k)
                                 /\ more[k].body = UnionOf(t, n, got, k)
       /\ \A k \in 1..(Len(got) - 2) : k \in DOMAIN more
  <2>1. Len(got) \in Nat /\ Len(more) = (IF Len(got) < 3 THEN 0 ELSE Len(got) - 2)
    BY <1>5, UnionTyped
  <2>2. DOMAIN more = 1..Len(more)
    OBVIOUS
  <2>3. \A k \in DOMAIN more : k \in Nat /\ k \in 1..(Len(got) - 2) /\ k \in 1..(Len(got) - 1)
    BY <2>1, <2>2
  <2>4. \A k \in 1..(Len(got) - 2) : k \in DOMAIN more
    BY <2>1, <2>2
  <2>5. \A k \in 1..(Len(got) - 2) : more[k].name = Name(n + k) /\ more[k].body = UnionOf(t, n, got, k)
    BY <1>5, UnionTyped
  <2>. QED  BY <2>1, <2>3, <2>4, <2>5
<1>13. Grows(cte_nodes, cte_nodes') /\ \A k \in DOMAIN more : Listed(more[k].name, cte_nodes')
  BY <1>8, <1>11, ListedConcat DEF Grows
<1>14. Settled
  BY <1>1 DEF Settled
<1>15. Carried /\ \A id : Free(id, stack) => Free(id, stack')
  BY <1>1, <1>8, <1>13, <1>14, MovedReturn
<1>16. \A i \in DOMAIN got : /\ ~got[i].right /\ Listed(got[i], cte_nodes)
                             /\ Free(got[i].id, stack')
  <2>1. \A i \in DOMAIN Top.got : ~Top.got[i].right /\ Listed(Top.got[i], cte_nodes)
    BY <1>1, <1>11, OwnedNames
  <2>2. \A i \in DOMAIN Top.got : Free(Top.got[i].id, stack')
    BY <1>1, <1>8, PoppedFrees
  <2>. QED  BY <1>2, <2>1, <2>2
<1>17. \A k \in Nat : k >= n => Free(k, stack')
  <2>1. \A k \in Nat : k >= n => Unlisted(k, cte_nodes)
    BY <1>4, <1>11, NumberedMore DEF NamesInv
  <2>. QED  BY <1>1, <1>15, <2>1, UnlistedFree
<1>18. ASSUME NEW k \in 1..(Len(got) - 1), NEW i \in DOMAIN UnionOf(t, n, got, k),
              IsName(UnionOf(t, n, got, k)[i])
       PROVE  /\ Free(UnionOf(t, n, got, k)[i].id, stack') /\ ~UnionOf(t, n, got, k)[i].right
              /\ \/ Listed(UnionOf(t, n, got, k)[i], cte_nodes)
                 \/ k > 1 /\ k - 1 \in DOMAIN more
                    /\ UnionOf(t, n, got, k)[i] = more[k - 1].name
  <2>1. PICK x : x = UnionOf(t, n, got, k)[i]
    OBVIOUS
  <2>2. \/ \E j \in DOMAIN got : x = got[j]
        \/ k > 1 /\ k - 1 \in 1..(Len(got) - 2) /\ x = Name(n + k - 1)
    BY <1>18, <2>1, UnionReads
  <2>3. CASE \E j \in DOMAIN got : x = got[j]
    BY <1>16, <2>1, <2>3
  <2>4. CASE k > 1 /\ k - 1 \in 1..(Len(got) - 2) /\ x = Name(n + k - 1)
    <3>1. n + k - 1 \in Nat /\ n + k - 1 >= n /\ n + (k - 1) = n + k - 1
      BY <1>12, <2>4
    <3>2. x.id = n + k - 1 /\ ~x.right
      BY <2>4, <3>1, TokenFacts
    <3>3. k - 1 \in DOMAIN more /\ x = more[k - 1].name
      BY <1>12, <2>4, <3>1
    <3>. QED  BY <1>17, <2>1, <2>4, <3>1, <3>2, <3>3
  <2>. QED  BY <2>2, <2>3, <2>4
<1>19. ReadsWell(cte_nodes', stack')
  <2>1. ReadsWell(cte_nodes, stack')
    BY <1>1, <1>15, Running, ReadsKept
  <2>2. ASSUME NEW k \in DOMAIN more, NEW i \in DOMAIN more[k].body, IsName(more[k].body[i])
        PROVE  /\ Free(more[k].body[i].id, stack') /\ ~more[k].body[i].right
               /\ Listed(more[k].body[i], cte_nodes) \/ Before(more[k].body[i], k, more)
    <3>1. k \in 1..(Len(got) - 1) /\ more[k].body = UnionOf(t, n, got, k) /\ k \in Nat
      BY <1>12
    <3>2. k > 1 => k - 1 \in 1..(k - 1)
      BY <3>1
    <3>. QED  BY <1>18, <2>2, <3>1, <3>2 DEF Before
  <2>. QED  BY <1>8, <1>11, <2>1, <2>2, ReadsConcat
<1>20. ReadsListed(body, stack', cte_nodes')
  <2>1. CASE Len(got) = 1
    <3>1. ReadsListed(got, stack', cte_nodes')
      BY <1>13, <1>16 DEF ReadsListed, Grows
    <3>2. ~IsName(Op(t)) /\ Op(t) \in Token
      BY TokenFacts
    <3>3. ReadsListed(<<Op(t)>>, stack', cte_nodes')
      BY <3>2, ReadsFacts
    <3>4. body = got \o <<Op(t)>> /\ <<Op(t)>> \in Seq(Token)
      BY <1>6, <2>1, <3>2
    <3>. QED  BY <3>1, <3>3, <3>4, ReadsFacts
  <2>2. CASE Len(got) # 1
    <3>1. body = UnionOf(t, n, got, Len(got) - 1)
      BY <1>6, <2>2
    <3>0. Len(got) - 1 \in 1..(Len(got) - 1)
      <4>1. Len(got) \in Nat /\ Len(got) >= 1 /\ Len(got) # 1
        BY <1>8, <1>12, <2>2
      <4>2. \A l \in Nat : l >= 1 /\ l # 1 => l - 1 \in 1..(l - 1)
        OBVIOUS
      <4>. QED  BY <4>1, <4>2
    <3>2. \A i \in DOMAIN body : IsName(body[i]) =>
             Free(body[i].id, stack') /\ ~body[i].right /\ Listed(body[i], cte_nodes')
      BY <1>13, <1>18, <3>0, <3>1 DEF Grows
    <3>. QED  BY <3>2 DEF ReadsListed
  <2>. QED  BY <2>1, <2>2
<1>21. /\ BodiesSafe(body_info', stack', cte_nodes')
       /\ SourcesSafe(delim_source', stack', cte_nodes')
       /\ BodiesSafe(inline_delim', stack', cte_nodes')
  BY <1>10, <1>15 DEF Carried, mapVars
<1>. QED  BY <1>1, <1>8, <1>9, <1>10, <1>15, <1>19, <1>20, <1>21, KeepReturn

LEMMA KeepBuild ==
    ASSUME TypeOK, TypeOK', NestingInv, NamesInv, CustodyInv,
           \/ EnterInlineOrdinary \/ NextKid \/ KidDone \/ InlineKidDone
           \/ BuildNode \/ BuildJoin \/ BuildUnion \/ BuildInline
    PROVE  CustodyInv'
BY KeepKid, KeepInlineKids, KeepBuildNode, KeepBuildJoin, KeepBuildUnion, KeepBuildInline

LEMMA KeepFinish ==
    ASSUME TypeOK, TypeOK', NestingInv, NamesInv, CustodyInv, Finish
    PROVE  CustodyInv'
<1>1. /\ stack = << >> /\ returned /\ FlatRet
      /\ cte_nodes' = Append(cte_nodes, ret) /\ final' = ret.name /\ outcome' = "done"
      /\ ~returned' /\ stack' = stack
  BY DEF Finish, FlatRet, Push
<1>2. ret \in CteNode /\ cte_nodes \in Seq(CteNode) /\ ~ret.name.right
  BY <1>1, Typed, RetFacts
<1>3. ReadsListed(ret.body, stack, cte_nodes) /\ ReadsWell(cte_nodes, stack) /\ Alone(stack)
  BY <1>1 DEF CustodyInv, ReadersInv
<1>4. ReadsWell(Append(cte_nodes, ret), stack)
  BY <1>2, <1>3, ReadsAppend DEF ReadsListed
<1>5. HoldersInv'
  BY <1>1 DEF HoldersInv
<1>6. ReadersInv'
  BY <1>1, <1>2, <1>4 DEF ReadersInv, FlatRet
<1>. QED  BY <1>1, <1>3, <1>5, <1>6 DEF CustodyInv

LEMMA CustodyStep ==
    ASSUME TypeOK, NestingInv, NamesInv, CustodyInv, [Next]_vars
    PROVE  CustodyInv'
<1>1. TypeOK'
  BY TypeStep
<1>2. CASE UNCHANGED vars
  <2>1. UNCHANGED <<cte_nodes, body_info, delim_source, inline_delim, stack, ret, returned,
                    final, outcome>>
    BY <1>2 DEF vars, listVars, mapVars, callVars
  <2>2. FlatRet' = FlatRet
    BY <2>1 DEF FlatRet, Top
  <2>3. HoldersInv'
    BY <2>1, <2>2 DEF CustodyInv, HoldersInv
  <2>4. ReadersInv'
    BY <2>1, <2>2 DEF CustodyInv, ReadersInv
  <2>. QED  BY <2>1, <2>3, <2>4 DEF CustodyInv
<1>3. CASE EnterMaterialized \/ BodyDone \/ InlineBodyDone \/ OuterDone \/ EnterCteRef
  BY <1>1, <1>3, KeepMaterialized
<1>4. CASE \/ EnterDelimJoin \/ LeftDone \/ RightDone \/ InlineLeftDone \/ InlineRightDone
           \/ EnterDelimGet \/ EnterInlineDelimGet
  BY <1>1, <1>4, KeepDelim
<1>5. CASE EnterRecursive \/ AnchorDone \/ StepDone \/ EnterUnsupported
  BY <1>1, <1>5, KeepRecursive
<1>6. CASE EnterOrdinary \/ WalkDown \/ WalkEnd \/ SourceDone
  BY <1>1, <1>6, KeepOrdinary
<1>7. CASE \/ EnterInlineOrdinary \/ NextKid \/ KidDone \/ InlineKidDone
           \/ BuildNode \/ BuildJoin \/ BuildUnion \/ BuildInline
  BY <1>1, <1>7, KeepBuild
<1>8. CASE Finish
  BY <1>1, <1>8, KeepFinish
<1>. QED  BY <1>2, <1>3, <1>4, <1>5, <1>6, <1>7, <1>8 DEF Next

------------------------------------------------------------------------------
(* The invariant of the walk, and what it says of the list.                *)

FlattenerInv == TypeOK /\ NestingInv /\ NamesInv /\ CustodyInv

LEMMA FlattenerInit == Init => FlattenerInv
<1>. SUFFICES ASSUME Init PROVE FlattenerInv
  OBVIOUS
<1>1. TypeOK
  BY TypeInit
<1>2. /\ cte_nodes = << >> /\ body_info = << >> /\ delim_source = << >> /\ inline_delim = << >>
      /\ ~returned /\ final = Name(0) /\ outcome = "running" /\ node_count = 0
  BY DEF Init
<1>3. PICK f : f = NewFrame(root, "flat")
  OBVIOUS
<1>4. f.mode = "flat" /\ f.at = "enter" /\ f.kid = 0 /\ f.got = << >> /\ f.saved = << >>
  BY <1>3 DEF NewFrame
<1>5. stack = <<f>>
  BY <1>3 DEF Init
<1>6. Len(stack) = 1 /\ DOMAIN stack = {1} /\ stack[1] = f /\ stack # << >>
  BY <1>5
<1>7. NestingInv
  BY <1>2, <1>4, <1>6 DEF NestingInv, Shape, HasKid
<1>8. DOMAIN cte_nodes = {} /\ DOMAIN body_info = {} /\ DOMAIN delim_source = {}
      /\ DOMAIN inline_delim = {}
  BY <1>2
<1>9. NamesInv
  BY <1>2, <1>4, <1>6, <1>8 DEF NamesInv, Numbered, FlatRet
<1>10. HoldersInv
  BY <1>2, <1>3, <1>4, <1>6, <1>8, NewHolds DEF HoldersInv, BodiesSafe, SourcesSafe
<1>11. Alone(stack)
  BY <1>4, <1>6 DEF Alone, Owns
<1>12. ReadersInv
  BY <1>2, <1>8, TokenFacts DEF ReadersInv, ReadsWell, FlatRet
<1>. QED  BY <1>1, <1>7, <1>9, <1>10, <1>11, <1>12 DEF FlattenerInv, CustodyInv

\* The walk keeps it, whatever the plan.
THEOREM FlattenerInvariant == Spec => []FlattenerInv
<1>1. Init => FlattenerInv
  BY FlattenerInit
<1>2. FlattenerInv /\ [Next]_vars => FlattenerInv'
  <2>. SUFFICES ASSUME FlattenerInv, [Next]_vars PROVE FlattenerInv'
    OBVIOUS
  <2>1. TypeOK /\ NestingInv /\ NamesInv /\ CustodyInv /\ HoldersInv
    BY DEF FlattenerInv, CustodyInv
  <2>2. TypeOK'
    BY <2>1, TypeStep
  <2>3. NestingInv'
    BY <2>1, NestingStep
  <2>4. NamesInv'
    BY <2>1, NamesStep
  <2>5. CustodyInv'
    BY <2>1, CustodyStep
  <2>. QED  BY <2>2, <2>3, <2>4, <2>5 DEF FlattenerInv
<1>. QED  BY <1>1, <1>2, PTL DEF Spec

\* The members of AstFlattener, its maps and its activations have the types of the code, also
\* where the text of a step, a local WITH and a chain of operators hold one another.
THEOREM FlattenerTyped == Spec => []TypeOK
<1>1. FlattenerInv => TypeOK
  BY DEF FlattenerInv
<1>. QED  BY <1>1, FlattenerInvariant, PTL

\* No two CTEs of a statement have one name, for any plan: node_count only grows, and a name
\* that was taken and is not in the list yet is in the hands of one activation.
THEOREM NamesAreUnique == Spec => []UniqueNames
<1>1. FlattenerInv => UniqueNames
  BY DEF FlattenerInv, NamesInv, Numbered, UniqueNames
<1>. QED  BY <1>1, FlattenerInvariant, PTL

\* For any plan, a CTE reads CTEs that stand before it, by the names they have when the list
\* is written: a join renames only names that nothing but its own activation holds.
THEOREM ReadsAreEarlier == Spec => []ReadsEarlier
<1>1. FlattenerInv => ReadsEarlier
  <2>. SUFFICES ASSUME FlattenerInv PROVE ReadsEarlier
    OBVIOUS
  <2>1. ReadsWell(cte_nodes, stack)
    BY DEF FlattenerInv, CustodyInv, ReadersInv
  <2>. QED  BY <2>1 DEF ReadsWell, ReadsEarlier, Before, Itself
<1>. QED  BY <1>1, FlattenerInvariant, PTL

\* What MarkRightSideMaterialized claims in its comment, for any plan: a CTE that it renames
\* is read by the join and by nothing else.
THEOREM JoinsOwnTheirRightSide == Spec => []RightSideReadOnce
<1>1. FlattenerInv => RightSideReadOnce
  <2>. SUFFICES ASSUME FlattenerInv, NEW j \in DOMAIN cte_nodes, cte_nodes[j].name.right
                PROVE  /\ Cardinality({k \in DOMAIN cte_nodes : Reads(k, cte_nodes[j].name)}) <= 1
                       /\ final # cte_nodes[j].name
    BY DEF RightSideReadOnce
  <2>1. ReadsWell(cte_nodes, stack) /\ ~final.right /\ IsName(cte_nodes[j].name)
    BY DEF FlattenerInv, CustodyInv, ReadersInv, NamesInv, Numbered
  <2>2. PICK name : name = cte_nodes[j].name
    OBVIOUS
  <2>3. PICK readers : readers = {k \in DOMAIN cte_nodes : Reads(k, name)}
    OBVIOUS
  <2>4. \A k, m \in readers : k = m
    <3>1. ASSUME NEW k \in readers, NEW m \in readers PROVE k = m
      <4>1. PICK i \in DOMAIN cte_nodes[k].body : cte_nodes[k].body[i] = name
        BY <2>3 DEF Reads
      <4>2. PICK h \in DOMAIN cte_nodes[m].body : cte_nodes[m].body[h] = name
        BY <2>3 DEF Reads
      <4>. QED  BY <2>1, <2>2, <2>3, <4>1, <4>2 DEF ReadsWell
    <3>. QED  BY <3>1
  <2>5. Cardinality(readers) <= 1
    <3>1. CASE readers = {}
      BY <3>1, FS_EmptySet
    <3>2. CASE readers # {}
      <4>1. PICK k : k \in readers
        BY <3>2
      <4>2. readers = {k}
        BY <2>4, <4>1
      <4>. QED  BY <4>2, FS_Singleton
    <3>. QED  BY <3>1, <3>2
  <2>. QED  BY <2>1, <2>2, <2>3, <2>5
<1>. QED  BY <1>1, FlattenerInvariant, PTL

=============================================================================
