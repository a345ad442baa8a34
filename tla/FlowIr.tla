--------------------------------- MODULE FlowIr ---------------------------------
(***************************************************************************)
(* LLVM modules with control flow, as the optimiser's passes over whole    *)
(* functions see them: functions, blocks, PHI nodes, calls, allocas; what  *)
(* such a module means; and what LLVM itself offers to the passes          *)
(* (dominators, natural loops, replacement of uses, the verifier).         *)
(*                                                                         *)
(* A module is a sequence of functions [name, internal, param, layout,     *)
(* code]: labels in layout order, entry first, and code by label.  A value *)
(* is named by a number.  Functions that are not in the sequence are       *)
(* external.                                                               *)
(***************************************************************************)
EXTENDS IrArith, IrOperand, SequencesExt

CONSTANTS GlobalsInit, \* initial words by global and index
          Fuel         \* steps after which a run is given up

Undef == [k |-> "undef"]     \* UndefValue and PoisonValue
IsUndef(x) == x.k = "undef"

--------------------------------------------------------------------------------
(* Structure.                                                              *)

Blocks(f) == ToSet(f.layout)
Entry(f)  == Head(f.layout)

Terminator(i) == i.op \in {"br", "condbr", "ret"}
Successors(f, b) ==
  LET t == Last(f.code[b])
  IN CASE t.op = "br"     -> <<t.to>>
       [] t.op = "condbr" -> <<t.then, t.else>>
       [] OTHER           -> <<>>

Edges(f, p, b)  == Cardinality({k \in DOMAIN Successors(f, p) : Successors(f, p)[k] = b})
Preds(f, b)     == {p \in Blocks(f) : Edges(f, p, b) > 0}
NumPreds(f, b)  == FoldSet(LAMBDA p, n : n + Edges(f, p, b), 0, Preds(f, b))

(* What n steps make of a set.                                             *)
Closure(from, grown, n) ==
  LET set[k \in 0 .. n] == IF k = 0 THEN from ELSE grown[set[k - 1]]
  IN set[n]

(* What is reached from the entry without passing through a block of cut.  *)
ReachedAvoiding(f, cut) ==
  LET grown == [s \in SUBSET Blocks(f) |->
                  s \cup (UNION {ToSet(Successors(f, p)) : p \in s} \ cut)]
  IN Closure({Entry(f)} \ cut, grown, Len(f.layout))
Reachable(f)       == ReachedAvoiding(f, {})
Dominates(f, a, b) == b \notin ReachedAvoiding(f, {a})

Phis(f, b) == {k \in DOMAIN f.code[b] : f.code[b][k].op = "phi"}
Instructions(f) == UNION {ToSet(f.code[b]) : b \in Blocks(f)}
BlockOf(f, id)  == CHOOSE b \in Blocks(f) : \E i \in ToSet(f.code[b]) : i.id = id
IndexOf(f, id)  == CHOOSE n \in DOMAIN f.code[BlockOf(f, id)] :
                     f.code[BlockOf(f, id)][n].id = id
Inst(f, id)     == f.code[BlockOf(f, id)][IndexOf(f, id)]
Defined(f, id)  == id = f.param \/ \E i \in Instructions(f) : i.id = id

(* Operands, by field; those of a PHI node by edge.                        *)
Fields(i)   == DOMAIN i \cap {"x", "y", "p", "c"}
Operands(i) == {i[a] : a \in Fields(i)} \cup
               (IF i.op = "phi" THEN {e.v : e \in ToSet(i.in)} ELSE {})
Uses(f, id) == {i \in Instructions(f) : Val(id) \in Operands(i)}

(* The elements of a sequence at some of its positions, in their order.    *)
(* (SelectSeq is not known to the provers.)                                *)
Kept(s, K) ==
  LET kept[n \in 0 .. Len(s)] ==
        IF n = 0 THEN <<>>
        ELSE IF n \in K THEN Append(kept[n - 1], s[n]) ELSE kept[n - 1]
  IN kept[Len(s)]

(* replaceAllUsesWith, of the values that new maps to others;              *)
(* eraseFromParent.                                                        *)
Replaced(x, new) == IF x.k = "val" /\ x.v \in DOMAIN new THEN new[x.v] ELSE x
ReplaceIn(i, new) ==
  [a \in DOMAIN i |->
     CASE a \in Fields(i) -> Replaced(i[a], new)
       [] a = "in" -> [k \in DOMAIN i.in |-> [i.in[k] EXCEPT !.v = Replaced(@, new)]]
       [] OTHER -> i[a]]
ReplaceUses(f, new) ==
  [f EXCEPT !.code = [b \in DOMAIN @ |-> [n \in DOMAIN @[b] |-> ReplaceIn(@[b][n], new)]]]
Erase(f, ids) ==
  [f EXCEPT !.code =
     [b \in DOMAIN @ |-> Kept(@[b], {n \in DOMAIN @[b] : @[b][n].id \notin ids})]]
InsertBeforeEnd(f, b, i) ==
  [f EXCEPT !.code[b] = Front(@) \o <<i, Last(@)>>]

(* Does instruction d come before instruction u on every path to u?        *)
DefinedBefore(f, d, u) ==
  \/ d = f.param
  \/ LET bd == BlockOf(f, d)  bu == BlockOf(f, u)
     IN IF bd = bu THEN IndexOf(f, d) < IndexOf(f, u) ELSE Dominates(f, bd, bu)

--------------------------------------------------------------------------------
(* What every module in memory is, while a pass is at work on it too: the  *)
(* blocks of a function have labels of their own, end in terminators and   *)
(* lead to blocks of the function; instructions have names of their own,   *)
(* below next; there is a main.                                            *)

NoBlock == "none"            \* the null pointer

Instruction(i) ==
  /\ {"op", "id"} \subseteq DOMAIN i
  /\ i.op = "br" => "to" \in DOMAIN i
  /\ i.op = "condbr" => {"then", "else"} \subseteq DOMAIN i
  /\ i.op = "call" => "callee" \in DOMAIN i

BlocksEnd(f) ==
  \A b \in Blocks(f) :
    /\ f.code[b] \in Seq(ToSet(f.code[b])) /\ f.code[b] # <<>>
    /\ \A n \in DOMAIN f.code[b] : Instruction(f.code[b][n])
    /\ Terminator(Last(f.code[b]))
    /\ ToSet(Successors(f, b)) \subseteq Blocks(f)

LabelsDiffer(f) ==
  /\ {"name", "layout", "code"} \subseteq DOMAIN f
  /\ f.layout \in Seq(Blocks(f)) /\ f.layout # <<>>
  /\ \A j, k \in DOMAIN f.layout : f.layout[j] = f.layout[k] => j = k
  /\ DOMAIN f.code = Blocks(f) /\ NoBlock \notin Blocks(f)

NamesDiffer(f) ==
  \A b, c \in Blocks(f) : \A n \in DOMAIN f.code[b], m \in DOMAIN f.code[c] :
    f.code[b][n].id = f.code[c][m].id => b = c /\ n = m

Ids(f) == {i.id : i \in Instructions(f)}

WellFormed(m, next) ==
  /\ next \in Nat /\ m \in Seq(ToSet(m))
  /\ \E k \in DOMAIN m : m[k].name = "main"
  /\ \A k \in DOMAIN m :
       /\ LabelsDiffer(m[k]) /\ BlocksEnd(m[k]) /\ NamesDiffer(m[k])
       /\ Ids(m[k]) \subseteq 0 .. next - 1
       /\ \A l \in DOMAIN m \ {k} : Ids(m[k]) \cap Ids(m[l]) = {}

--------------------------------------------------------------------------------
(* verifyModule.                                                           *)

IncomingFrom(i, p) == {e \in ToSet(i.in) : e.b = p}
PhiFits(f, b, i) ==
  /\ {e.b : e \in ToSet(i.in)} = Preds(f, b)
  /\ \A p \in Preds(f, b) :
       /\ Cardinality({k \in DOMAIN i.in : i.in[k].b = p}) = Edges(f, p, b)
       /\ Cardinality(IncomingFrom(i, p)) = 1

PhiUseDominated(f, e) ==
  e.v.k = "val" =>
    \/ e.v.v = f.param
    \/ e.b \notin Reachable(f)
    \/ Dominates(f, BlockOf(f, e.v.v), e.b)

UsesDominated(f, b, i) ==
  IF i.op = "phi" THEN \A e \in ToSet(i.in) : PhiUseDominated(f, e)
  ELSE \A x \in Operands(i) : x.k = "val" => DefinedBefore(f, x.v, i.id)

FunctionVerifies(f) ==
  /\ Preds(f, Entry(f)) = {}
  /\ \A b \in Blocks(f) :
       LET code == f.code[b]
       IN /\ code # <<>>
          /\ \A n \in DOMAIN code :
               /\ Terminator(code[n]) <=> n = Len(code)
               /\ code[n].op = "phi" =>
                    /\ PhiFits(f, b, code[n])
                    /\ n = 1 \/ code[n - 1].op = "phi"
               /\ \A x \in Operands(code[n]) : x.k = "val" => Defined(f, x.v)
               /\ b \in Reachable(f) => UsesDominated(f, b, code[n])

(* That a branch's target exists is not LLVM's to check: it cannot be      *)
(* otherwise.                                                              *)
Verifies(m) ==
  /\ \A k \in DOMAIN m : \A b \in Blocks(m[k]) :
       /\ m[k].code[b] # <<>>
       /\ ToSet(Successors(m[k], b)) \subseteq Blocks(m[k])
  /\ \A k \in DOMAIN m : FunctionVerifies(m[k])

--------------------------------------------------------------------------------
(* What a module does when main is called with an argument.  A frame is a  *)
(* function at work; memory maps <<0, a global>> or <<depth of the frame,   *)
(* an alloca>> to cells; what is shown is every external call and what main returns.  A   *)
(* value that LLVM leaves undefined is NoWord; acting on one is undefined  *)
(* behaviour.                                                              *)

NoWord == -1

Callee(m, name)   == m[CHOOSE k \in DOMAIN m : m[k].name = name]
IsDefined(m, name) == \E k \in DOMAIN m : m[k].name = name

NewFrame(f, arg, into) ==
  [f |-> f, b |-> Entry(f), n |-> 1, vals |-> f.param :> arg, into |-> into]

Operand(fr, x) ==
  CASE x.k = "val"   -> fr.vals[x.v]
    [] x.k = "const" -> Wrap(x.c)
    [] x.k = "glob"  -> <<<<0, x.s>>, 0>>
    [] x.k = "undef" -> NoWord

Top(s)            == Last(s.frames)
Continue(s, fr)   == [s EXCEPT !.frames = Append(Front(@), [fr EXCEPT !.n = @ + 1])]
Assign(s, i, v)   == Continue(s, [Top(s) EXCEPT !.vals = (i.id :> v) @@ @])
Misbehave(s)      == [s EXCEPT !.status = "undefined"]

(* An edge: the PHI nodes take their values together.                      *)
Enter(s, to) ==
  LET fr == Top(s)
      phis == Phis(fr.f, to)
      incoming(k) == CHOOSE e \in ToSet(fr.f.code[to][k].in) : e.b = fr.b
      new == [id \in {fr.f.code[to][k].id : k \in phis} |->
                Operand(fr, incoming(CHOOSE k \in phis : fr.f.code[to][k].id = id).v)]
  IN [s EXCEPT !.frames =
        Append(Front(@), [fr EXCEPT !.b = to, !.n = 1 + Cardinality(phis),
                                    !.vals = new @@ @])]

(* What an external function answers depends on what happened before.      *)
External(s, i, arg) ==
  Assign([s EXCEPT !.shown = Append(@, <<i.callee, arg>>)], i, Wrap(Len(s.shown)))

Return(s, v) ==
  IF Len(s.frames) = 1
    THEN [s EXCEPT !.shown = Append(@, <<"main", v>>), !.status = "done"]
    ELSE LET back == [s EXCEPT !.frames = Front(@)]
         IN Assign(back, [id |-> Top(s).into], v)

Step(m, s) ==
  LET fr == Top(s)
      i  == fr.f.code[fr.b][fr.n]
      x  == Operand(fr, i.x)
      y  == Operand(fr, i.y)
      at == Operand(fr, i.p)
  IN CASE i.op \in {"binary", "icmp"} ->
            IF x = NoWord \/ y = NoWord THEN Assign(s, i, NoWord)
            ELSE IF i.op = "icmp" THEN Assign(s, i, Bool(Compare(i.pred, x, y)))
            ELSE IF Undefined(i.bin, x, y) THEN Misbehave(s)
            ELSE Assign(s, i, IrBinary(i.bin, x, y))
       [] i.op = "alloca" ->
            LET base == <<Len(s.frames), i.id>>
            IN Assign([s EXCEPT !.mem = (base :> [c \in 0 .. i.cells - 1 |-> NoWord]) @@ @],
                      i, <<base, 0>>)
       [] i.op = "gep" ->
            IF x = NoWord THEN Misbehave(s) ELSE Assign(s, i, <<at[1], at[2] + x>>)
       [] i.op \in {"load", "store"} ->
            IF at[2] \notin DOMAIN s.mem[at[1]] THEN Misbehave(s)
            ELSE IF i.op = "load" THEN Assign(s, i, s.mem[at[1]][at[2]])
            ELSE Continue([s EXCEPT !.mem[at[1]][at[2]] = x], fr)
       [] i.op = "call" ->
            IF IsDefined(m, i.callee)
              THEN [s EXCEPT !.frames = Append(@, NewFrame(Callee(m, i.callee), x, i.id))]
              ELSE External(s, i, x)
       [] i.op = "br"     -> Enter(s, i.to)
       [] i.op = "condbr" ->
            LET c == Operand(fr, i.c)
            IN IF c = NoWord THEN Misbehave(s)
               ELSE Enter(s, IF c # 0 THEN i.then ELSE i.else)
       [] i.op = "ret"    -> Return(s, x)

Outcome(m, arg) ==
  LET run[n \in 0 .. Fuel] ==
        IF n = 0 THEN [frames |-> <<NewFrame(Callee(m, "main"), arg, 0)>>,
                       mem |-> [at \in {0} \X DOMAIN GlobalsInit |-> GlobalsInit[at[2]]], shown |-> <<>>, status |-> "running"]
        ELSE LET s == run[n - 1]
             IN IF s.status = "running" THEN Step(m, s) ELSE s
  IN run[Fuel]

(* now does what before did, wherever that is defined; before must come to *)
(* an end.                                                                 *)
SameWord(v, w) == v = NoWord \/ v = w
Refines(now, before) ==
  \/ before.status = "undefined"
  \/ /\ before.status = "done" /\ now.status = "done"
     /\ Len(now.shown) = Len(before.shown)
     /\ \A k \in DOMAIN before.shown :
          /\ now.shown[k][1] = before.shown[k][1]
          /\ SameWord(before.shown[k][2], now.shown[k][2])
     /\ \A g \in DOMAIN GlobalsInit : \A c \in DOMAIN GlobalsInit[g] :
          SameWord(before.mem[<<0, g>>][c], now.mem[<<0, g>>][c])
================================================================================
