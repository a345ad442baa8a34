--------------------------------- MODULE Mem2Reg ---------------------------------
(***************************************************************************)
(* 4/Mem2Reg.cpp: the promotion of allocas to values.                      *)
(*                                                                         *)
(* For every function, as long as its entry block has allocas that are     *)
(* only loaded and stored: those with one store or in one block are        *)
(* rewritten directly, PHI nodes are placed for the others, the renamer    *)
(* walks the control-flow graph, PHI nodes that merge one value are        *)
(* removed and those of unreached edges completed.                         *)
(*                                                                         *)
(* The order in which the users of a value and the entries of a DenseMap   *)
(* are visited is a free choice.                                           *)
(***************************************************************************)
EXTENDS FlowIr

VARIABLES mod, fi,      \* the module and the function at work
          fresh,        \* name of the next instruction
          stage,        \* where in promoteMemoryToRegister
          worklist,     \* RenamePassWorkList; the goto's operands on top
          allocas,      \* Allocas, by number; num is the one at work
          num,
          info,         \* its AllocaInfo, and the loads still to visit
          newPhis,      \* NewPhiNodes: [b, no, id]
          visited,
          round         \* PHI nodes left in this round, and EliminatedAPHI

NoInfo  == [pending |-> {}]
NoRound == [pending |-> {}, eliminated |-> FALSE]

Idle ==
  /\ allocas = <<>> /\ num = 1 /\ info = NoInfo
  /\ newPhis = {} /\ visited = {} /\ round = NoRound

F       == mod[fi]
SetF(f) == mod' = [mod EXCEPT ![fi] = f]
AI      == allocas[num]

Accesses(op, a) == {i.id : i \in {j \in Instructions(F) : j.op = op /\ j.p = Val(a)}}
Loads(a)  == Accesses("load", a)
Stores(a) == Accesses("store", a)
Home(id)  == BlockOf(F, id)
Stored(s) == Inst(F, s).x

--------------------------------------------------------------------------------
(* What may be promoted: variables whose address goes nowhere, loaded and  *)
(* stored as a whole.  No array is, but one without a use is promotable.   *)

IsAllocaPromotable(i) ==
  /\ i.op = "alloca"
  /\ \A u \in Uses(F, i.id) :
       /\ u.op \in {"load", "store"} /\ i.cells = 1
       /\ u.p = Val(i.id) /\ (u.op = "store" => u.x # Val(i.id))

FindAllocas ==
  LET code  == F.code[Entry(F)]
      found == Kept(code, {n \in 1 .. Len(code) - 1 : IsAllocaPromotable(code[n])})
  IN /\ stage = "find"
     /\ IF found = <<>>
          THEN /\ stage' = IF fi < Len(mod) THEN "find" ELSE "done"
               /\ fi' = IF fi < Len(mod) THEN fi + 1 ELSE 1
               /\ allocas' = <<>>
          ELSE /\ stage' = "scan"
               /\ allocas' = [k \in DOMAIN found |-> found[k].id]
               /\ UNCHANGED fi
     /\ num' = 1 /\ info' = NoInfo
     /\ newPhis' = {} /\ visited' = {} /\ round' = NoRound
     /\ UNCHANGED <<mod, fresh, worklist>>

--------------------------------------------------------------------------------
(* One alloca after the other.                                             *)

Scanning == stage = "scan" /\ num <= Len(allocas)

(* RemoveFromAllocasList: the last alloca takes the number.                *)
RemoveFromAllocasList ==
  /\ allocas' = Front([allocas EXCEPT ![num] = Last(allocas)])
  /\ info' = NoInfo
  /\ stage' = "scan"
  /\ UNCHANGED <<fi, num, newPhis, worklist, visited, round, fresh>>

DropUnused ==
  /\ Scanning /\ Uses(F, AI) = {}
  /\ SetF(Erase(F, {AI}))
  /\ RemoveFromAllocasList

IsInstruction(x) == x.k = "val" /\ x.v # F.param

(* AnalyzeAlloca, and which of the three ways it goes.                     *)
Otherwise(i) == IF i.oneBlock THEN "block" ELSE "place"

AnalyzeAlloca ==
  /\ Scanning /\ Uses(F, AI) # {}
  /\ LET homes == {Home(id) : id \in Loads(AI) \cup Stores(AI)}
         single == Cardinality(Stores(AI)) = 1
     IN \E only \in IF Stores(AI) = {} THEN {0} ELSE Stores(AI) :
          LET i == [onlyStore |-> only,
                    storingGlobalVal |-> only # 0 /\ ~IsInstruction(Stored(only)),
                    using    |-> IF single THEN {} ELSE {Home(l) : l \in Loads(AI)},
                    oneBlock |-> Cardinality(homes) = 1,
                    pending  |-> Loads(AI)]
          IN info' = i /\ stage' = IF single THEN "single" ELSE Otherwise(i)
  /\ UNCHANGED <<mod, fresh, fi, allocas, num, newPhis, worklist,
                 visited, round>>

(* LargeBlockInfo numbers the accesses of a block in their order, which    *)
(* erasing some of them does not change.                                   *)
Before(i, j) == IndexOf(F, i) < IndexOf(F, j)

(* A load takes the value x; poison if that is the load itself.            *)
TakeValue(l, x) ==
  SetF(Erase(ReplaceUses(F, l :> IF x = Val(l) THEN Undef ELSE x), {l}))

LoadVisited(l, left) ==
  /\ info' = [info EXCEPT !.pending = @ \ {l}, !.using = @ \cup left]
  /\ UNCHANGED <<fresh, fi, stage, allocas, num, newPhis, worklist, visited, round>>

(* rewriteSingleStoreAlloca: loads that the only store dominates.          *)
(* (StoreInBlock does not ask which comes first in their block.)           *)
StoreInBlock(l) == Dominates(F, Home(info.onlyStore), Home(l))
StoreFirst(l) ==
  IF Home(l) = Home(info.onlyStore) THEN Before(info.onlyStore, l)
                                    ELSE Dominates(F, Home(info.onlyStore), Home(l))

RewriteSingleStore ==
  /\ stage = "single"
  /\ \E l \in info.pending :
       IF info.storingGlobalVal \/ StoreFirst(l)
         THEN TakeValue(l, Stored(info.onlyStore)) /\ LoadVisited(l, {})
         ELSE LoadVisited(l, {Home(l)}) /\ UNCHANGED mod

EndSingleStore ==
  /\ stage = "single" /\ info.pending = {}
  /\ IF info.using = {}
       THEN SetF(Erase(F, {info.onlyStore, AI})) /\ RemoveFromAllocasList
       ELSE /\ stage' = Otherwise(info)
            /\ info' = [info EXCEPT !.pending = Loads(AI)]
            /\ UNCHANGED <<mod, fresh, fi, allocas, num, newPhis, worklist, visited,
                           round>>

(* promoteSingleBlockAlloca: a load takes what the nearest store before it *)
(* wrote; undef if there is none in the whole block.                       *)
Nearest(stores) == {s \in stores : \A t \in stores : t = s \/ Before(t, s)}

RewriteInBlock ==
  /\ stage = "block"
  /\ \E l \in info.pending :
       LET before == {s \in Stores(AI) : Before(s, l)}
       IN \/ /\ before = {} /\ Stores(AI) = {}
             /\ TakeValue(l, Undef) /\ LoadVisited(l, {})
          \/ /\ before = {} /\ Stores(AI) # {}
             /\ stage' = "place"
             /\ UNCHANGED <<mod, fresh, fi, allocas, num, info, newPhis, worklist,
                            visited, round>>
          \/ \E s \in Nearest(before) : TakeValue(l, Stored(s)) /\ LoadVisited(l, {})

EndInBlock ==
  /\ stage = "block" /\ info.pending = {}
  /\ SetF(Erase(F, {AI} \cup Stores(AI)))
  /\ RemoveFromAllocasList

--------------------------------------------------------------------------------
(* PHI nodes.                                                              *)

(* ComputeLiveInBlocks: from the blocks that read before they write,       *)
(* backwards to the blocks that write.                                     *)
ReadsFirst(b) ==
  \E n \in DOMAIN F.code[b] :
    /\ F.code[b][n].id \in Loads(AI)
    /\ \A k \in 1 .. n - 1 : F.code[b][k].id \notin Stores(AI)
DefBlocks == {Home(s) : s \in Stores(AI)}
LiveInBlocks ==
  LET grown == [s \in SUBSET Blocks(F) |->
                  s \cup (UNION {Preds(F, b) : b \in s} \ DefBlocks)]
  IN Closure({b \in info.using : b \in DefBlocks => ReadsFirst(b)}, grown, Len(F.layout))

(* ForwardIDFCalculator: the iterated dominance frontier of the defining   *)
(* blocks, within the live-in blocks.                                      *)
Frontier(b) ==
  {y \in Reachable(F) : /\ \E p \in Preds(F, y) \cap Reachable(F) : Dominates(F, b, p)
                        /\ b = y \/ ~Dominates(F, b, y)}
PhiBlocks ==
  LET defs  == DefBlocks \cap Reachable(F)
      grown == [s \in SUBSET Blocks(F) |->
                  UNION {Frontier(b) : b \in defs \cup s} \cap LiveInBlocks]
  IN Closure({}, grown, Len(F.layout))

(* QueuePhiNode, for the blocks in BBNumbers' order.                       *)
PlacePhis ==
  /\ stage = "place"
  /\ \E blocks \in {PhiBlocks} :
       LET order == Kept(F.layout, {n \in DOMAIN F.layout : F.layout[n] \in blocks})
           id == [b \in ToSet(order) |-> fresh + (CHOOSE n \in DOMAIN order : order[n] = b) - 1]
           phi(b) == [op |-> "phi", id |-> id[b], in |-> <<>>]
       IN /\ newPhis' = newPhis \cup {[b |-> b, no |-> num, id |-> id[b]] : b \in DOMAIN id}
          /\ SetF([F EXCEPT !.code = [b \in DOMAIN @ |->
                     IF b \in DOMAIN id THEN <<phi(b)>> \o @[b] ELSE @[b]]])
          /\ fresh' = fresh + Len(order)
  /\ num' = num + 1 /\ stage' = "scan" /\ info' = NoInfo
  /\ UNCHANGED <<fi, allocas, worklist, visited, round>>

StartRename ==
  /\ stage = "scan" /\ num > Len(allocas)
  /\ IF allocas = <<>> THEN stage' = "find" /\ UNCHANGED worklist
     ELSE /\ stage' = "rename"
          /\ worklist' = <<[bb |-> Entry(F), pred |-> NoBlock,
                            vals |-> [n \in DOMAIN allocas |-> Undef]]>>
  /\ UNCHANGED <<mod, fresh, fi, allocas, num, info, newPhis, visited, round>>

--------------------------------------------------------------------------------
(* RenamePass.                                                             *)

IsNewPhi(id) == \E p \in newPhis : p.id = id
(* A PHI node that is not in PhiToAllocaMap reads as the first alloca's.   *)
PhiAlloca(id) == IF IsNewPhi(id) THEN (CHOOSE p \in newPhis : p.id = id).no ELSE 1

(* The PHI nodes at the start of a block that have as many operands as the *)
(* first one.                                                              *)
Incomplete(code) ==
  IF code[1].op # "phi" \/ ~IsNewPhi(code[1].id) THEN {}
  ELSE {n \in DOMAIN code : \A k \in 1 .. n :
          code[k].op = "phi" /\ Len(code[k].in) = Len(code[1].in)}

Accessed(i) ==
  IF i.op \in {"load", "store"} THEN {n \in DOMAIN allocas : i.p = Val(allocas[n])} ELSE {}

(* The walk over a block: what alloca n holds after the first k            *)
(* instructions, if it holds vals at the start.  A stored value that was   *)
(* loaded in the block is what its load has been replaced with.            *)
Held(code, vals) ==
  LET held[k \in 0 .. Len(code), n \in DOMAIN allocas] ==
        IF k = 0 THEN vals[n]
        ELSE IF code[k].op # "store" \/ n \notin Accessed(code[k]) THEN held[k - 1, n]
        ELSE LET x == code[k].x
                 from == {j \in 1 .. k : Val(code[j].id) = x /\ code[j].op = "load"
                                                            /\ Accessed(code[j]) # {}}
             IN IF from = {} THEN x
                ELSE LET j == Max(from) IN held[j, CHOOSE a \in Accessed(code[j]) : TRUE]
  IN held

Renamed(f, b, held) ==
  LET code     == f.code[b]
      accesses == {k \in DOMAIN code : Accessed(code[k]) # {}}
      loads    == {k \in accesses : code[k].op = "load"}
      new == [id \in {code[k].id : k \in loads} |->
                LET k == CHOOSE j \in loads : code[j].id = id
                IN held[k, CHOOSE a \in Accessed(code[k]) : TRUE]]
  IN Erase(ReplaceUses(f, new), {code[k].id : k \in accesses})

(* The successors to visit, each once: the first one next.                 *)
(* (OnwardByEdge visits a successor for every edge to it.)                 *)
OnwardByEdge(bb, vals) ==
  LET s == Reverse(Successors(F, bb))
  IN [k \in DOMAIN s |-> [bb |-> s[k], pred |-> bb, vals |-> vals]]
Onward(bb, vals) ==
  LET s == Successors(F, bb)
      item(b) == [bb |-> b, pred |-> bb, vals |-> vals]
  IN CASE s = <<>> -> <<>>
       [] s # <<>> /\ s[1] = Last(s) -> <<item(s[1])>>
       [] OTHER -> <<item(s[2]), item(s[1])>>

RenameBlock ==
  /\ stage = "rename" /\ worklist # <<>>
  /\ LET r    == Last(worklist)
         code == F.code[r.bb]
         phis == Incomplete(code)
         add(n) == [code[n] EXCEPT !.in =
                      @ \o [k \in 1 .. Edges(F, r.pred, r.bb) |->
                              [b |-> r.pred, v |-> r.vals[PhiAlloca(code[n].id)]]]]
         f    == [F EXCEPT !.code[r.bb] =
                    [n \in DOMAIN code |-> IF n \in phis THEN add(n) ELSE code[n]]]
         of(n) == {k \in phis : PhiAlloca(code[k].id) = n}
         vals == [n \in DOMAIN allocas |->
                    IF of(n) = {} THEN r.vals[n] ELSE Val(code[Max(of(n))].id)]
         held == Held(f.code[r.bb], vals)
     IN IF r.bb \in visited
          THEN SetF(f) /\ worklist' = Front(worklist) /\ UNCHANGED visited
          ELSE /\ SetF(Renamed(f, r.bb, held))
               /\ worklist' = Front(worklist) \o
                    Onward(r.bb, [n \in DOMAIN allocas |-> held[Len(code), n]])
               /\ visited' = visited \cup {r.bb}
  /\ UNCHANGED <<fresh, fi, stage, allocas, num, info, newPhis, round>>

(* What still uses an alloca is in unreached blocks.                       *)
RemoveAllocas ==
  /\ stage = "rename" /\ worklist = <<>>
  /\ SetF(Erase(ReplaceUses(F, [a \in ToSet(allocas) |-> Undef]), ToSet(allocas)))
  /\ visited' = {}
  /\ stage' = "simplify"
  /\ round' = [pending |-> newPhis, eliminated |-> FALSE]
  /\ UNCHANGED <<fresh, fi, allocas, num, info, newPhis, worklist>>

--------------------------------------------------------------------------------
(* PHI nodes that merge one value.                                         *)

(* simplifyPHINode; at most one operand.                                   *)
Simplified(i) ==
  LET incoming == {e.v : e \in ToSet(i.in)} \ {Val(i.id)}
      common   == {x \in incoming : ~IsUndef(x)}
      dominates(x) == x.k # "val" \/ DefinedBefore(F, x.v, i.id)
  IN CASE common = {} -> {Undef}
       [] Cardinality(common) > 1 -> {}
       [] OTHER -> {x \in common : incoming = common \/ dominates(x)}

SimplifyPhi ==
  /\ stage = "simplify"
  /\ \E p \in round.pending :
       LET simple == Simplified(Inst(F, p.id))
       IN /\ IF simple = {}
               THEN /\ round' = [round EXCEPT !.pending = @ \ {p}]
                    /\ UNCHANGED <<mod, newPhis>>
               ELSE /\ \E x \in simple : SetF(Erase(ReplaceUses(F, p.id :> x), {p.id}))
                    /\ newPhis' = newPhis \ {p}
                    /\ round' = [pending |-> round.pending \ {p}, eliminated |-> TRUE]
  /\ UNCHANGED <<fresh, fi, stage, allocas, num, info, worklist, visited>>

EndRound ==
  /\ stage = "simplify" /\ round.pending = {}
  /\ IF round.eliminated
       THEN round' = [pending |-> newPhis, eliminated |-> FALSE] /\ UNCHANGED stage
       ELSE stage' = "fill" /\ UNCHANGED round
  /\ UNCHANGED <<mod, fresh, fi, allocas, num, info, newPhis, worklist,
                 visited>>

(* Edges from blocks that were never reached get a poison entry.           *)
MissingEntries(i, b) ==
  LET missing == Kept(F.layout,
                   {n \in DOMAIN F.layout : /\ F.layout[n] \in Preds(F, b)
                                           /\ IncomingFrom(i, F.layout[n]) = {}})
      each(p) == [k \in 1 .. Edges(F, p, b) |-> [b |-> p, v |-> Undef]]
  IN FlattenSeq([k \in DOMAIN missing |-> each(missing[k])])

Completed(b) ==
  LET code == F.code[b]
  IN IF code[1].op # "phi" \/ ~IsNewPhi(code[1].id) \/ Len(code[1].in) = NumPreds(F, b)
       THEN code
       ELSE [n \in DOMAIN code |->
               IF n \in Incomplete(code)
                 THEN [code[n] EXCEPT !.in = @ \o MissingEntries(code[1], b)]
                 ELSE code[n]]

FillEntries ==
  /\ stage = "fill"
  /\ SetF([F EXCEPT !.code = [b \in DOMAIN @ |-> Completed(b)]])
  /\ stage' = "find"
  /\ newPhis' = {}
  /\ UNCHANGED <<fresh, fi, allocas, num, info, worklist, visited, round>>

Next ==
  \/ FindAllocas
  \/ DropUnused \/ AnalyzeAlloca
  \/ RewriteSingleStore \/ EndSingleStore
  \/ RewriteInBlock \/ EndInBlock
  \/ PlacePhis \/ StartRename
  \/ RenameBlock \/ RemoveAllocas
  \/ SimplifyPhi \/ EndRound \/ FillEntries

--------------------------------------------------------------------------------
(* While the renamer walks, every edge out of a block it has visited is    *)
(* either still on the work list, once, or entered in every new PHI node   *)
(* of its target as often as it exists; edges out of other blocks are in   *)
(* neither.  An edge lost or entered twice would give a PHI node that does *)
(* not fit its predecessors.                                               *)
Pending(p, b) == {k \in DOMAIN worklist : worklist[k].pred = p /\ worklist[k].bb = b}
EdgesRecordedOnce ==
  stage = "rename" =>
    \A phi \in newPhis : \A p \in Preds(F, phi.b) :
      LET entries == {k \in DOMAIN Inst(F, phi.id).in : Inst(F, phi.id).in[k].b = p}
      IN IF p \in visited
           THEN Cardinality(entries) + Edges(F, p, phi.b) * Cardinality(Pending(p, phi.b))
                  = Edges(F, p, phi.b)
           ELSE entries = {} /\ Pending(p, phi.b) = {}
================================================================================
