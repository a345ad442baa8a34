------------------------------ MODULE BlockPasses ------------------------------
(***************************************************************************)
(* The optimiser's passes over the instructions of a basic block, and the  *)
(* pipeline of 4/main.cpp that runs them: ConstantPropagation,             *)
(* ConstantFolding, CommonSubexpressionElimination, DeadCodeElimination,   *)
(* InstructionCombining, StrengthReduction.                                *)
(*                                                                         *)
(* Each pass walks every block, rewrites uses at once and collects in      *)
(* instToErase what is erased when the walk of the block is over.  An      *)
(* action is one iteration of the walk or one erasure.                     *)
(*                                                                         *)
(* The module being optimised is a sequence of blocks that run in order, as *)
(* the blocks of a function without branches do; the last one returns.     *)
(* Instructions are named by numbers, 0 is the function's argument.  All   *)
(* integers have one width, and nsw is not told apart.                     *)
(***************************************************************************)
EXTENDS Folding, SequencesExt

CONSTANTS Modules,   \* modules before optimisation
          Pipelines, \* sequences of names of passes
          Scalars, Arrays,  \* the globals
          InitOf,    \* initialisers: words by global and index
          Inputs     \* arguments

VARIABLES source,      \* the module as it was read
          blocks,      \* the module now
          pipeline, pass,  \* the passes, and the position in them
          stage,       \* "begin" a pass, "visit" or "erase" in block bb,
                       \* "trapped" when the compiler dies
          bb, pos,
          instToErase,
          globals,     \* constantValues' keys, or used_GVs
          exprMap,     \* the expressions of the block: [bin, x, y, id]
          toEraseSet,  \* InstructionCombining's
          fresh        \* the next instruction's name

vars == <<source, blocks, pipeline, pass, stage, bb, pos, instToErase, globals,
          exprMap, toEraseSet, fresh>>

--------------------------------------------------------------------------------
(* Uses.                                                                   *)

Operands(i) == DOMAIN i \cap {"x", "y", "p"}

User(u) == blocks[u[1]][u[2]]
Uses(id) ==
  {u \in UNION {{b} \X (DOMAIN blocks[b]) \X {"x", "y", "p"} : b \in DOMAIN blocks} :
     u[3] \in Operands(User(u)) /\ User(u)[u[3]] = Val(id)}

(* replaceAllUsesWith.                                                     *)
ReplaceUses(m, id, new) ==
  [b \in DOMAIN m |-> [n \in DOMAIN m[b] |->
    [f \in DOMAIN m[b][n] |->
       IF f \in Operands(m[b][n]) /\ m[b][n][f] = Val(id) THEN new
                                                          ELSE m[b][n][f]]]]

Binary(id, bin, l, r) ==
  [op |-> "binary", id |-> id, bin |-> bin, x |-> l, y |-> r]

Inst == blocks[bb][pos]

--------------------------------------------------------------------------------
(* The walk.                                                               *)

Name      == pipeline[pass]
Backwards == Name = "DeadCodeElimination"

Visiting(name) ==
  stage = "visit" /\ Name = name /\ pos \in DOMAIN blocks[bb]

Visited(m, erased) ==
  /\ blocks' = m
  /\ instToErase' = instToErase \o erased
  /\ pos' = IF Backwards THEN pos - 1 ELSE pos + 1
  /\ UNCHANGED <<source, pipeline, pass, stage, bb, globals>>

Leave      == Visited(blocks, <<>>)
Replace(x) == Visited(ReplaceUses(blocks, Inst.id, x), <<Inst.id>>)

UnusedTables == UNCHANGED <<exprMap, toEraseSet, fresh>>

--------------------------------------------------------------------------------
(* ConstantPropagation: loads of scalars to which no instruction stores.   *)

Accessed(op) ==
  {g \in Scalars \cup Arrays :
     \E b \in DOMAIN blocks : \E n \in DOMAIN blocks[b] :
       blocks[b][n].op = op /\ blocks[b][n].p = Glob(g)}

ConstantGlobals == Scalars \ Accessed("store")

PropagateLoad ==
  /\ Visiting("ConstantPropagation")
  /\ IF Inst.op = "load" /\ Inst.p.k = "glob" /\ Inst.p.s \in globals
       THEN Replace(ConstOf(InitOf[Inst.p.s][0]))
       ELSE Leave
  /\ UnusedTables

--------------------------------------------------------------------------------
(* ConstantFolding: see Folding for what takes an instruction's place.     *)

FoldConstant ==
  /\ Visiting("ConstantFolding")
  /\ ~DividesByZero(Inst)
  /\ IF Inst.op \in {"binary", "icmp"} /\ Folded(Inst) # {}
       THEN \E x \in Folded(Inst) : Replace(x)
       ELSE Leave
  /\ UnusedTables

(* The compiler itself divides by zero.                                    *)
CrashFolding ==
  /\ Visiting("ConstantFolding")
  /\ DividesByZero(Inst)
  /\ stage' = "trapped"
  /\ UNCHANGED <<source, blocks, pipeline, pass, bb, pos, instToErase, globals,
                 exprMap, toEraseSet, fresh>>

--------------------------------------------------------------------------------
(* CommonSubexpressionElimination, by opcode and operands in their order.  *)

Same(e, i) == e.bin = i.bin /\ e.x = i.x /\ e.y = i.y

EliminateCommon ==
  /\ Visiting("CommonSubexpressionElimination")
  /\ IF Inst.op # "binary" THEN Leave /\ UNCHANGED exprMap
     ELSE IF \E e \in exprMap : Same(e, Inst)
       THEN /\ \E e \in exprMap : Same(e, Inst) /\ Replace(Val(e.id))
            /\ UNCHANGED exprMap
     ELSE Leave /\ exprMap' = exprMap \cup {Inst}
  /\ UNCHANGED <<toEraseSet, fresh>>

--------------------------------------------------------------------------------
(* DeadCodeElimination: arithmetic nobody uses, and stores to a global that *)
(* no load names directly.                                                 *)

UsedGVs == Accessed("load")

DeadBinary ==
  Inst.op = "binary" /\ \A u \in Uses(Inst.id) : User(u).id \in ToSet(instToErase)
DeadStore ==
  Inst.op = "store" /\ Inst.p.k = "glob" /\ Inst.p.s \notin globals

EliminateDead ==
  /\ Visiting("DeadCodeElimination")
  /\ IF DeadBinary \/ DeadStore THEN Visited(blocks, <<Inst.id>>) ELSE Leave
  /\ UnusedTables

--------------------------------------------------------------------------------
(* InstructionCombining: (v + c1) + c2, where v + c1 has no other use, is  *)
(* replaced by v + (c1 + c2) just before it.                               *)

Other(i, f) == IF f = "x" THEN i.y ELSE i.x

AddsInto(u) ==
  /\ IsBin(Inst, {"add"}) /\ (IsConst(Inst.x) \/ IsConst(Inst.y))
  /\ Inst.id \notin toEraseSet
  /\ u[1] = bb
  /\ IsBin(User(u), {"add"}) /\ IsConst(Other(User(u), u[3]))

(* hasOneUse: its value is not needed elsewhere.                           *)
CombinesInto(u) == AddsInto(u) /\ Uses(Inst.id) = {u}

Merged(u) ==
  LET const == IF IsConst(Inst.x) THEN Inst.x ELSE Inst.y
      base  == IF IsConst(Inst.x) THEN Inst.y ELSE Inst.x
  IN Binary(fresh, "add", base, ConstOf(const.c + Other(User(u), u[3]).c))

CombineAdds ==
  /\ Visiting("InstructionCombining")
  /\ \/ /\ \E u \in Uses(Inst.id) :
             /\ CombinesInto(u)
             /\ Visited([ReplaceUses(blocks, User(u).id, Val(fresh))
                           EXCEPT ![bb] = InsertAt(@, u[2], Merged(u))],
                        <<User(u).id, Inst.id>>)
             /\ toEraseSet' = toEraseSet \cup {User(u).id, Inst.id}
        /\ fresh' = fresh + 1
     \/ /\ ~\E u \in Uses(Inst.id) : CombinesInto(u)
        /\ Leave /\ UNCHANGED <<toEraseSet, fresh>>
  /\ UNCHANGED exprMap

--------------------------------------------------------------------------------
(* StrengthReduction.  The new instruction goes to the end of the block.   *)

PowerOf2(x) == IsConst(x) /\ \E k \in 0 .. Bits - 2 : x.c = 2^k
Log2(x)     == CHOOSE k \in 0 .. Bits - 2 : x.c = 2^k
Negative(x) == IsConst(x) /\ x.c < 0

Cheaper(i) ==
  CASE IsBin(i, {"mul"}) /\ PowerOf2(i.y) ->
         {Binary(fresh, "shl", i.x, Const(Log2(i.y)))}
    [] IsBin(i, {"mul"}) /\ ~IsConst(i.y) /\ PowerOf2(i.x) ->
         {Binary(fresh, "shl", i.y, Const(Log2(i.x)))}
    [] IsBin(i, {"udiv"}) /\ PowerOf2(i.y) ->
         {Binary(fresh, "lshr", i.x, Const(Log2(i.y)))}
    [] IsBin(i, {"urem"}) /\ PowerOf2(i.y) ->
         {Binary(fresh, "and", i.x, Const(i.y.c - 1))}
    [] OTHER -> {}

Reduced(i) ==
  IF i.op # "binary" \/ Negative(i.x) \/ Negative(i.y) THEN {} ELSE Cheaper(i)

ReduceStrength ==
  /\ Visiting("StrengthReduction")
  /\ \/ \E new \in Reduced(Inst) :
          /\ Visited([ReplaceUses(blocks, Inst.id, Val(fresh))
                        EXCEPT ![bb] = Append(@, new)], <<Inst.id>>)
          /\ fresh' = fresh + 1
     \/ Reduced(Inst) = {} /\ Leave /\ UNCHANGED fresh
  /\ UNCHANGED <<exprMap, toEraseSet>>

--------------------------------------------------------------------------------
(* The pipeline.                                                           *)

Init ==
  /\ source \in Modules
  /\ blocks = source
  /\ pipeline \in Pipelines
  /\ pass = 1
  /\ stage = "begin"
  /\ bb = 1 /\ pos = 1
  /\ instToErase = <<>>
  /\ globals = {} /\ exprMap = {} /\ toEraseSet = {}
  /\ fresh = 1 + Len(FlattenSeq(source))

FirstPos(b) == IF Backwards THEN Len(blocks[b]) ELSE 1

(* A pass starts: what it collects about the globals of the whole module.  *)
BeginPass ==
  /\ stage = "begin" /\ pass <= Len(pipeline)
  /\ globals' = CASE Name = "ConstantPropagation" -> ConstantGlobals
                  [] Name = "DeadCodeElimination" -> UsedGVs
                  [] OTHER -> {}
  /\ toEraseSet' = {}
  /\ exprMap' = {}
  /\ stage' = "visit"
  /\ bb' = 1 /\ pos' = FirstPos(1)
  /\ UNCHANGED <<source, blocks, pipeline, pass, instToErase, fresh>>

EndOfWalk ==
  /\ stage = "visit" /\ pos \notin DOMAIN blocks[bb]
  /\ stage' = "erase"
  /\ UNCHANGED <<source, blocks, pipeline, pass, bb, pos, instToErase, globals,
                 exprMap, toEraseSet, fresh>>

EraseNext ==
  /\ stage = "erase" /\ instToErase # <<>>
  /\ blocks' = [blocks EXCEPT
       ![bb] = SelectSeq(@, LAMBDA i : i.id # Head(instToErase))]
  /\ instToErase' = Tail(instToErase)
  /\ UNCHANGED <<source, pipeline, pass, stage, bb, pos, globals, exprMap,
                 toEraseSet, fresh>>

BlockDone ==
  /\ stage = "erase" /\ instToErase = <<>>
  /\ IF bb < Len(blocks)
       THEN stage' = "visit" /\ bb' = bb + 1 /\ pos' = FirstPos(bb + 1) /\ UNCHANGED pass
       ELSE stage' = "begin" /\ pass' = pass + 1 /\ bb' = 1 /\ pos' = 1
  /\ exprMap' = {}
  /\ UNCHANGED <<source, blocks, pipeline, instToErase, globals, toEraseSet, fresh>>

Next ==
  \/ BeginPass
  \/ PropagateLoad
  \/ FoldConstant \/ CrashFolding
  \/ EliminateCommon
  \/ EliminateDead
  \/ CombineAdds
  \/ ReduceStrength
  \/ EndOfWalk \/ EraseNext \/ BlockDone

Spec == Init /\ [][Next]_vars

--------------------------------------------------------------------------------
(* What a module does.                                                     *)

Terminator(i) == i.op \in {"br", "ret"}

(* Blocks end in a terminator and nowhere else; definitions come first.    *)
WellFormed(m) ==
  LET flat == FlattenSeq(m)
      before(n) == {0} \cup {flat[k].id : k \in 1 .. n - 1}
  IN /\ \A b \in DOMAIN m : \A n \in DOMAIN m[b] : Terminator(m[b][n]) <=> n = Len(m[b])
     /\ \A n \in DOMAIN flat : \A f \in Operands(flat[n]) :
          flat[n][f].k = "val" => flat[n][f].v \in before(n)

(* A running function: its values, the globals, what it has shown to its   *)
(* callers so far, and whether it has done something undefined.            *)
Value(s, x) ==
  CASE x.k = "val"   -> s.vals[x.v]
    [] x.k = "const" -> Wrap(x.c)
    [] x.k = "glob"  -> <<x.s, 0>>

Define(s, i, v) == [s EXCEPT !.vals = (i.id :> v) @@ @]

Step(s, i) ==
  CASE i.op = "binary" ->
         LET l == Value(s, i.x)  r == Value(s, i.y)
         IN IF Undefined(i.bin, l, r) THEN [s EXCEPT !.undefined = TRUE]
            ELSE Define(s, i, IrBinary(i.bin, l, r))
    [] i.op = "icmp" -> Define(s, i, Bool(Compare(i.pred, Value(s, i.x), Value(s, i.y))))
    [] i.op = "gep"  -> Define(s, i, <<i.p.s, Value(s, i.x)>>)
    [] i.op \in {"load", "store"} ->
         LET at == Value(s, i.p)
         IN IF at[2] \notin DOMAIN s.mem[at[1]] THEN [s EXCEPT !.undefined = TRUE]
            ELSE IF i.op = "load" THEN Define(s, i, s.mem[at[1]][at[2]])
            ELSE [s EXCEPT !.mem[at[1]][at[2]] = Value(s, i.x)]
    [] i.op = "ret" -> [s EXCEPT !.shown = Append(@, Value(s, i.x))]
    [] i.op = "br"  -> s

(* The function called twice with the argument.                            *)
Outcome(m, arg) ==
  LET flat == FlattenSeq(m) \o FlattenSeq(m)
      run[n \in 0 .. Len(flat)] ==
        IF n = 0 THEN [vals |-> 0 :> arg, mem |-> InitOf, shown |-> <<>>,
                       undefined |-> FALSE]
        ELSE LET s == run[n - 1]
             IN IF s.undefined THEN s ELSE Step(s, flat[n])
  IN run[Len(flat)]

(* At every point of the pipeline the module is one the rest of the        *)
(* compiler can read, and wherever the source's behaviour is defined it    *)
(* returns what the source returns, call after call: no rewriting changes  *)
(* a value, erases a use's definition or loses a store somebody reads.     *)
(* The compiler divides by zero only for a source that does so itself.     *)
MeaningKept ==
  /\ WellFormed(blocks)
  /\ \A arg \in Inputs :
       LET before == Outcome(source, arg)  now == Outcome(blocks, arg)
       IN \/ before.undefined
          \/ stage # "trapped" /\ ~now.undefined /\ now.shown = before.shown
================================================================================
