---------------------------- MODULE FunctionInlining ----------------------------
(***************************************************************************)
(* 4/FunctionInlining.cpp: calls of functions of one block, none of them   *)
(* recursive, are inlined; internal functions that nobody uses any more    *)
(* are erased.                                                             *)
(***************************************************************************)
EXTENDS FlowIr

VARIABLES mod, fresh, stage,
          recursiveFuncs,
          callsToInline   \* names of call instructions

Idle   == recursiveFuncs = {} /\ callsToInline = <<>>

Names    == {mod[k].name : k \in DOMAIN mod}
Calls(f) == {i \in Instructions(f) : i.op = "call"}
CalleesOf(name) == {i.callee : i \in Calls(Callee(mod, name))} \cap Names

(* Strongly connected components of the call graph: the functions that     *)
(* call themselves, directly or not.                                       *)
CalledFrom(name) ==
  LET grown == [s \in SUBSET Names |-> s \cup UNION {CalleesOf(g) : g \in s}]
  IN Closure(CalleesOf(name), grown, Len(mod))
Recursive == {name \in Names : name \in CalledFrom(name)}

FindRecursive ==
  /\ stage = "graph"
  /\ recursiveFuncs' = Recursive
  /\ stage' = "calls"
  /\ UNCHANGED <<mod, fresh, callsToInline>>

Inlinable(i) ==
  /\ i.op = "call" /\ i.callee \in Names \ recursiveFuncs
  /\ Len(Callee(mod, i.callee).layout) <= 1

CollectCalls ==
  /\ stage = "calls"
  /\ LET found(c) == Kept(c, {n \in DOMAIN c : Inlinable(c[n])})
         calls(f) == IF f.name \in recursiveFuncs THEN <<>>
                     ELSE FlattenSeq([k \in DOMAIN f.layout |-> found(f.code[f.layout[k]])])
         all      == FlattenSeq([k \in DOMAIN mod |-> calls(mod[k])])
     IN callsToInline' = [k \in DOMAIN all |-> all[k].id]
  /\ stage' = "inline"
  /\ UNCHANGED <<mod, fresh, recursiveFuncs>>

(* InlineFunction, for a callee of one block: its instructions under new   *)
(* names in the place of the call, its allocas in the entry block.         *)
Renamed(x, g, arg, shift) ==
  CASE x = Val(g.param) -> arg
    [] x.k = "val"      -> Val(shift[x.v])
    [] OTHER            -> x
Clone(i, g, arg, shift) ==
  [a \in DOMAIN i |-> CASE a \in Fields(i) -> Renamed(i[a], g, arg, shift)
                        [] a = "id" -> shift[i.id]
                        [] OTHER -> i[a]]

Inlined(f, call, g) ==
  LET body  == g.code[Entry(g)]
      shift == [id \in {body[k].id : k \in DOMAIN body} |->
                  fresh + (CHOOSE k \in DOMAIN body : body[k].id = id) - 1]
      copy  == [k \in DOMAIN body |-> Clone(body[k], g, call.x, shift)]
      local == {k \in 1 .. Len(copy) - 1 : copy[k].op = "alloca"}
      moved == Kept(copy, local)
      rest  == Kept(copy, (1 .. Len(copy) - 1) \ local)
      b     == BlockOf(f, call.id)
      n     == IndexOf(f, call.id)
      code  == [f.code EXCEPT ![b] = SubSeq(@, 1, n - 1) \o rest \o SubSeq(@, n, Len(@))]
      h     == [f EXCEPT !.code = [code EXCEPT ![Entry(f)] = moved \o @]]
  IN Erase(ReplaceUses(h, call.id :> Last(copy).x), {call.id})

InlineNext ==
  /\ stage = "inline" /\ callsToInline # <<>>
  /\ LET id == Head(callsToInline)
         k  == CHOOSE j \in DOMAIN mod : \E i \in Calls(mod[j]) : i.id = id
         g  == Callee(mod, Inst(mod[k], id).callee)
     IN /\ mod' = [mod EXCEPT ![k] = Inlined(@, Inst(@, id), g)]
        /\ fresh' = fresh + Len(g.code[Entry(g)])
  /\ callsToInline' = Tail(callsToInline)
  /\ UNCHANGED <<stage, recursiveFuncs>>

(* use_empty: no call is left, in any function.                            *)
UseEmpty(name) == \A k \in DOMAIN mod : \A i \in Calls(mod[k]) : i.callee # name
Removable(f)   == f.name # "main" /\ f.internal /\ UseEmpty(f.name)

(* (RemoveUnused does not wait until all calls are inlined.)               *)
RemoveUnused ==
  /\ stage = "inline"
  /\ mod' = Kept(mod, {k \in DOMAIN mod : ~Removable(mod[k])})
  /\ stage' = IF callsToInline = <<>> THEN "done" ELSE "inline"
  /\ recursiveFuncs' = {}
  /\ UNCHANGED <<fresh, callsToInline>>

RemoveFunctions ==
  /\ stage = "inline" /\ callsToInline = <<>>
  /\ mod' = Kept(mod, {k \in DOMAIN mod : ~Removable(mod[k])})
  /\ stage' = "done"
  /\ recursiveFuncs' = {}
  /\ UNCHANGED <<fresh, callsToInline>>

Next == FindRecursive \/ CollectCalls \/ InlineNext \/ RemoveFunctions
================================================================================
