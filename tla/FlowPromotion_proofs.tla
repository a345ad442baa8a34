------------------------- MODULE FlowPromotion_proofs -------------------------
(***************************************************************************)
(* What holds of the passes over whole functions between any two of their  *)
(* steps, and that mem2reg keeps it, for every module that the optimiser   *)
(* may read.                                                               *)
(*                                                                         *)
(* The module stays well formed only because what the passes remember      *)
(* between their steps (work lists, instructions to erase, PHI nodes that  *)
(* have been placed, calls to inline) is what they take it for when they   *)
(* come back to it.  Inv says so, pass by pass.                            *)
(***************************************************************************)
EXTENDS FlowPasses, FlowIr_proofs

--------------------------------------------------------------------------------
(* The function at work.                                                   *)
Fi == mod[fi]

Hunting   == {"scan", "single", "block", "place"}
Placed    == Hunting \cup {"rename"}
Promoting == Placed \cup {"simplify", "fill"}
Combining == {"fold", "collect", "merge"}
Walking   == {"find", "constants", "loops", "hoist", "crash", "trapped"} \cup Promoting \cup Combining

(* The module in memory, and the one that was read.                        *)
ModInv ==
  /\ WellFormed(mod, fresh)
  /\ WellFormed(source, FirstName(source))

(* Where the passes are when they begin.                                   *)
RestInv ==
  /\ fi \in DOMAIN mod /\ bi \in Nat \ {0} /\ pos \in Nat \ {0}
  /\ pipeline \in Seq(Known) /\ pass \in Nat \ {0}
  /\ stage \notin Walking => fi = 1
  /\ stage \notin Combining \cup {"constants", "crash", "trapped"} => bi = 1
  /\ stage \notin {"constants", "fold", "crash", "trapped"} => instToErase = {}
  /\ stage \in Hunting => visited = {}
  /\ stage = "rename" => Work(worklist, Blocks(Fi))

(* What mem2reg works on is what it takes it for.                          *)
PromoteInv ==
  stage \in Promoting =>
    /\ allocas \in Seq(0 .. fresh - 1) /\ num \in Nat \ {0}
    /\ Only(Fi, ToSet(allocas), {"alloca"})
    /\ stage \in Hunting \ {"scan"} => num <= Len(allocas)
    /\ stage \in {"single", "block"} =>
         {"onlyStore", "pending"} \subseteq DOMAIN info /\ Only(Fi, info.pending, {"load"})
    /\ stage = "single" => Only(Fi, {info.onlyStore}, {"store"})
    /\ stage = "simplify" => "pending" \in DOMAIN round /\ round.pending \subseteq newPhis

(* The PHI nodes that have been placed have no entries before the renamer  *)
(* walks.                                                                  *)
PhiInv ==
  /\ stage \in Promoting => Only(Fi, IdsOf(newPhis), {"phi"})
  /\ stage \in Placed => PhisPlaced(Fi, newPhis)
  /\ stage \in Hunting => NoEntries(Fi, newPhis)

(* Only arithmetic is erased as folded; a branch that waits for erasure    *)
(* has its successor before it.                                            *)
ConstantsInv ==
  stage = "constants" =>
    /\ Only(Fi, instToErase, {"binary", "icmp"})
    /\ bi > Len(Fi.layout) => instToErase = {}
Replaceable(c, targets, gone) ==
  /\ Len(c) > 1
  /\ c[Len(c) - 1].op = "br" /\ c[Len(c) - 1].to \in targets
  /\ c[Len(c) - 1].id \notin gone
BranchesFold(f, n, gone) ==
  /\ \A k \in DOMAIN f.layout : k >= n => Last(f.code[f.layout[k]]).id \notin gone
  /\ \A b \in Blocks(f) :
       Last(f.code[b]).id \in gone => Replaceable(f.code[b], Blocks(f), gone)
FoldInv ==
  stage = "fold" =>
    instToErase \subseteq 0 .. fresh - 1 /\ BranchesFold(Fi, bi, instToErase)

(* What is to be moved is there and no terminator.                         *)
Waits(f, id) ==
  \E b \in Blocks(f) : \E n \in DOMAIN f.code[b] :
    At(f, b, n).id = id /\ ~Terminator(At(f, b, n))
HoistInv ==
  stage = "hoist" =>
    /\ preheader \in Blocks(Fi)
    /\ worklist \in Seq(Nat) /\ nextWorklist \in Seq(Nat)
    /\ \A id \in ToSet(worklist) \cup ToSet(nextWorklist) : Waits(Fi, id)

(* What is to be inlined is there, once, and calls a function.             *)
CallOf(k, id) ==
  \E b \in Blocks(mod[k]) : \E n \in DOMAIN mod[k].code[b] :
    /\ At(mod[k], b, n).id = id /\ At(mod[k], b, n).op = "call"
    /\ \E l \in DOMAIN mod : mod[l].name = At(mod[k], b, n).callee
InlineInv ==
  stage = "inline" =>
    /\ callsToInline \in Seq(Nat)
    /\ \A j, k \in DOMAIN callsToInline : callsToInline[j] = callsToInline[k] => j = k
    /\ \A j \in DOMAIN callsToInline : \E k \in DOMAIN mod : CallOf(k, callsToInline[j])

Inv ==
  /\ ModInv /\ RestInv
  /\ PromoteInv /\ PhiInv /\ EdgesRecordedOnce
  /\ ConstantsInv /\ FoldInv /\ HoistInv /\ InlineInv

(* The passes' operators on functions are FlowIr's.                        *)
LEMMA Mem2RegIs ==
  /\ \A f : M2R!Blocks(f) = Blocks(f) /\ M2R!Entry(f) = Entry(f)
  /\ \A f, id : M2R!BlockOf(f, id) = BlockOf(f, id) /\ M2R!Inst(f, id) = Inst(f, id)
  /\ \A f, b : M2R!Successors(f, b) = Successors(f, b)
  /\ \A f, p, b : M2R!Edges(f, p, b) = Edges(f, p, b)
  /\ \A f, b : M2R!Preds(f, b) = Preds(f, b)
  /\ \A s, K : M2R!Kept(s, K) = Kept(s, K)
  /\ \A f, ids : M2R!Erase(f, ids) = Erase(f, ids)
  /\ \A f, new : M2R!ReplaceUses(f, new) = ReplaceUses(f, new)
  /\ \A s : M2R!ToSet(s) = ToSet(s) /\ M2R!Front(s) = Front(s) /\ M2R!Last(s) = Last(s)
  /\ M2R!F = Fi
<1>1. \A s : M2R!ToSet(s) = ToSet(s) /\ M2R!Front(s) = Front(s) /\ M2R!Last(s) = Last(s)
  BY DEF M2R!ToSet, ToSet, M2R!Front, Front, M2R!Last, Last
<1>2. \A f : M2R!Blocks(f) = Blocks(f) /\ M2R!Entry(f) = Entry(f)
  BY <1>1 DEF M2R!Blocks, Blocks, M2R!Entry, Entry
<1>3. \A f, id : M2R!BlockOf(f, id) = BlockOf(f, id)
  BY DEF M2R!BlockOf, BlockOf, M2R!Blocks, Blocks, M2R!ToSet, ToSet
<1>4. \A f, id : M2R!Inst(f, id) = Inst(f, id)
  BY DEF M2R!Inst, Inst, M2R!IndexOf, IndexOf, M2R!BlockOf, BlockOf, M2R!Blocks, Blocks, M2R!ToSet, ToSet
<1>5. \A f, b : M2R!Successors(f, b) = Successors(f, b)
  BY DEF M2R!Successors, Successors, M2R!Last, Last
<1>6. \A f, p, b : M2R!Edges(f, p, b) = Edges(f, p, b)
  BY DEF M2R!Edges, Edges, M2R!Successors, Successors, M2R!Last, Last, M2R!Cardinality, Cardinality
<1>7. \A f, b : M2R!Preds(f, b) = Preds(f, b)
  BY <1>2, <1>6 DEF M2R!Preds, Preds
<1>8. \A s, K : M2R!Kept(s, K) = Kept(s, K)
  BY DEF M2R!Kept, Kept
<1>9. \A f, ids : M2R!Erase(f, ids) = Erase(f, ids)
  BY DEF M2R!Erase, Erase, M2R!Kept, Kept
<1>10. \A f, new : M2R!ReplaceUses(f, new) = ReplaceUses(f, new)
  BY DEF M2R!ReplaceUses, ReplaceUses, M2R!ReplaceIn, ReplaceIn, M2R!Replaced, Replaced,
         M2R!Fields, Fields
<1>11. M2R!F = Fi
  BY DEF M2R!F, Fi
<1> QED
  BY <1>1, <1>2, <1>3, <1>4, <1>5, <1>6, <1>7, <1>8, <1>9, <1>10, <1>11

LEMMA FoldingIs ==
  /\ \A f : FOLD!Blocks(f) = Blocks(f)
  /\ \A f, ids : FOLD!Erase(f, ids) = Erase(f, ids)
  /\ \A f, new : FOLD!ReplaceUses(f, new) = ReplaceUses(f, new)
  /\ \A S : FOLD!Min(S) = Min(S)
  /\ FOLD!F = Fi
<1>1. \A f : FOLD!Blocks(f) = Blocks(f)
  BY DEF FOLD!Blocks, Blocks, FOLD!ToSet, ToSet
<1>2. \A f, ids : FOLD!Erase(f, ids) = Erase(f, ids)
  BY DEF FOLD!Erase, Erase, FOLD!Kept, Kept
<1>3. \A f, new : FOLD!ReplaceUses(f, new) = ReplaceUses(f, new)
  BY DEF FOLD!ReplaceUses, ReplaceUses, FOLD!ReplaceIn, ReplaceIn, FOLD!Replaced, Replaced, FOLD!Fields, Fields
<1>4. \A S : FOLD!Min(S) = Min(S)
  BY DEF FOLD!Min, Min
<1>5. FOLD!F = Fi
  BY DEF FOLD!F, Fi
<1> QED
  BY <1>1, <1>2, <1>3, <1>4, <1>5

LEMMA IfCombineIs ==
  /\ \A s : IFC!ToSet(s) = ToSet(s) /\ IFC!Front(s) = Front(s) /\ IFC!Last(s) = Last(s)
  /\ \A f : IFC!Blocks(f) = Blocks(f)
  /\ \A s, K : IFC!Kept(s, K) = Kept(s, K)
  /\ \A f, ids : IFC!Erase(f, ids) = Erase(f, ids)
  /\ \A f, new : IFC!ReplaceUses(f, new) = ReplaceUses(f, new)
  /\ \A f, b : IFC!Successors(f, b) = Successors(f, b)
  /\ \A f, b : IFC!Preds(f, b) = Preds(f, b)
  /\ \A f, b, i : IFC!InsertBeforeEnd(f, b, i) = InsertBeforeEnd(f, b, i)
  /\ \A f, id : IFC!Inst(f, id) = Inst(f, id)
  /\ IFC!F = Fi
<1>1. \A s : IFC!ToSet(s) = ToSet(s) /\ IFC!Front(s) = Front(s) /\ IFC!Last(s) = Last(s)
  BY DEF IFC!ToSet, ToSet, IFC!Front, Front, IFC!Last, Last
<1>2. \A f : IFC!Blocks(f) = Blocks(f)
  BY DEF IFC!Blocks, Blocks, IFC!ToSet, ToSet
<1>3. \A s, K : IFC!Kept(s, K) = Kept(s, K)
  BY DEF IFC!Kept, Kept
<1>4. \A f, ids : IFC!Erase(f, ids) = Erase(f, ids)
  BY DEF IFC!Erase, Erase, IFC!Kept, Kept
<1>5. \A f, new : IFC!ReplaceUses(f, new) = ReplaceUses(f, new)
  BY DEF IFC!ReplaceUses, ReplaceUses, IFC!ReplaceIn, ReplaceIn, IFC!Replaced, Replaced, IFC!Fields, Fields
<1>6. \A f, b : IFC!Successors(f, b) = Successors(f, b)
  BY DEF IFC!Successors, Successors, IFC!Last, Last
<1>7. \A f, b : IFC!Preds(f, b) = Preds(f, b)
  BY DEF IFC!Preds, Preds, IFC!Blocks, Blocks, IFC!ToSet, ToSet, IFC!Edges, Edges, IFC!Successors, Successors, IFC!Last, Last, IFC!Cardinality, Cardinality
<1>8. \A f, b, i : IFC!InsertBeforeEnd(f, b, i) = InsertBeforeEnd(f, b, i)
  BY DEF IFC!InsertBeforeEnd, InsertBeforeEnd, IFC!Front, Front, IFC!Last, Last
<1>9. \A f, id : IFC!Inst(f, id) = Inst(f, id)
  BY DEF IFC!Inst, Inst, IFC!IndexOf, IndexOf, IFC!BlockOf, BlockOf, IFC!Blocks, Blocks, IFC!ToSet, ToSet
<1>10. IFC!F = Fi
  BY DEF IFC!F, Fi
<1> QED
  BY <1>1, <1>2, <1>3, <1>4, <1>5, <1>6, <1>7, <1>8, <1>9, <1>10

LEMMA ExtractIs ==
  /\ \A s : LICM!ToSet(s) = ToSet(s)
  /\ \A f : LICM!Blocks(f) = Blocks(f)
  /\ \A s, K : LICM!Kept(s, K) = Kept(s, K)
  /\ \A f, ids : LICM!Erase(f, ids) = Erase(f, ids)
  /\ \A f, b, i : LICM!InsertBeforeEnd(f, b, i) = InsertBeforeEnd(f, b, i)
  /\ \A f, id : LICM!Inst(f, id) = Inst(f, id)
  /\ \A f, b : LICM!Successors(f, b) = Successors(f, b)
  /\ \A f, b : LICM!Preds(f, b) = Preds(f, b)
  /\ \A i : LICM!Terminator(i) <=> Terminator(i)
  /\ \A from, grown, n : LICM!Closure(from, grown, n) = Closure(from, grown, n)
  /\ \A s : LICM!FlattenSeq(s) = FlattenSeq(s)
  /\ \A S : LICM!SetToSeqs(S) = SetToSeqs(S)
  /\ LICM!F = Fi
<1>1. \A s : LICM!ToSet(s) = ToSet(s)
  BY DEF LICM!ToSet, ToSet
<1>2. \A f : LICM!Blocks(f) = Blocks(f)
  BY DEF LICM!Blocks, Blocks, LICM!ToSet, ToSet
<1>3. \A s, K : LICM!Kept(s, K) = Kept(s, K)
  BY DEF LICM!Kept, Kept
<1>4. \A f, ids : LICM!Erase(f, ids) = Erase(f, ids)
  BY DEF LICM!Erase, Erase, LICM!Kept, Kept
<1>5. \A f, b, i : LICM!InsertBeforeEnd(f, b, i) = InsertBeforeEnd(f, b, i)
  BY DEF LICM!InsertBeforeEnd, InsertBeforeEnd, LICM!Front, Front, LICM!Last, Last
<1>6. \A f, id : LICM!Inst(f, id) = Inst(f, id)
  BY DEF LICM!Inst, Inst, LICM!IndexOf, IndexOf, LICM!BlockOf, BlockOf, LICM!Blocks, Blocks, LICM!ToSet, ToSet
<1>7. \A f, b : LICM!Successors(f, b) = Successors(f, b)
  BY DEF LICM!Successors, Successors, LICM!Last, Last
<1>8. \A f, b : LICM!Preds(f, b) = Preds(f, b)
  BY DEF LICM!Preds, Preds, LICM!Blocks, Blocks, LICM!ToSet, ToSet, LICM!Edges, Edges, LICM!Successors, Successors, LICM!Last, Last, LICM!Cardinality, Cardinality
<1>9. \A i : LICM!Terminator(i) <=> Terminator(i)
  BY DEF LICM!Terminator, Terminator
<1>10. \A from, grown, n : LICM!Closure(from, grown, n) = Closure(from, grown, n)
  BY DEF LICM!Closure, Closure
<1>11. \A s : LICM!FlattenSeq(s) = FlattenSeq(s)
  BY DEF LICM!FlattenSeq, FlattenSeq, LICM!FlattenSeq, FlattenSeq
<1>12. \A S : LICM!SetToSeqs(S) = SetToSeqs(S)
  BY DEF LICM!SetToSeqs, SetToSeqs, LICM!Cardinality, Cardinality
<1>13. LICM!F = Fi
  BY DEF LICM!F, Fi
<1> QED
  BY <1>1, <1>2, <1>3, <1>4, <1>5, <1>6, <1>7, <1>8, <1>9, <1>10, <1>11, <1>12, <1>13

LEMMA InliningIs ==
  /\ \A s : INL!ToSet(s) = ToSet(s) /\ INL!Front(s) = Front(s) /\ INL!Last(s) = Last(s)
  /\ \A f : INL!Blocks(f) = Blocks(f) /\ INL!Entry(f) = Entry(f)
  /\ \A f : INL!Instructions(f) = Instructions(f)
  /\ \A s, K : INL!Kept(s, K) = Kept(s, K)
  /\ \A f, ids : INL!Erase(f, ids) = Erase(f, ids)
  /\ \A f, new : INL!ReplaceUses(f, new) = ReplaceUses(f, new)
  /\ \A f, id : INL!BlockOf(f, id) = BlockOf(f, id) /\ INL!IndexOf(f, id) = IndexOf(f, id)
  /\ \A f, id : INL!Inst(f, id) = Inst(f, id)
  /\ \A m, name : INL!Callee(m, name) = Callee(m, name)
  /\ \A s : INL!FlattenSeq(s) = FlattenSeq(s)
<1>1. \A s : INL!ToSet(s) = ToSet(s) /\ INL!Front(s) = Front(s) /\ INL!Last(s) = Last(s)
  BY DEF INL!ToSet, ToSet, INL!Front, Front, INL!Last, Last
<1>2. \A f : INL!Blocks(f) = Blocks(f) /\ INL!Entry(f) = Entry(f)
  BY DEF INL!Blocks, Blocks, INL!Entry, Entry, INL!ToSet, ToSet
<1>3. \A f : INL!Instructions(f) = Instructions(f)
  BY DEF INL!Instructions, Instructions, INL!Blocks, Blocks, INL!ToSet, ToSet
<1>4. \A s, K : INL!Kept(s, K) = Kept(s, K)
  BY DEF INL!Kept, Kept
<1>5. \A f, ids : INL!Erase(f, ids) = Erase(f, ids)
  BY DEF INL!Erase, Erase, INL!Kept, Kept
<1>6. \A f, new : INL!ReplaceUses(f, new) = ReplaceUses(f, new)
  BY DEF INL!ReplaceUses, ReplaceUses, INL!ReplaceIn, ReplaceIn, INL!Replaced, Replaced, INL!Fields, Fields
<1>7. \A f, id : INL!BlockOf(f, id) = BlockOf(f, id) /\ INL!IndexOf(f, id) = IndexOf(f, id)
  BY DEF INL!IndexOf, IndexOf, INL!BlockOf, BlockOf, INL!Blocks, Blocks, INL!ToSet, ToSet
<1>8. \A f, id : INL!Inst(f, id) = Inst(f, id)
  BY DEF INL!Inst, Inst, INL!IndexOf, IndexOf, INL!BlockOf, BlockOf, INL!Blocks, Blocks, INL!ToSet, ToSet
<1>9. \A m, name : INL!Callee(m, name) = Callee(m, name)
  BY DEF INL!Callee, Callee
<1>10. \A s : INL!FlattenSeq(s) = FlattenSeq(s)
  BY DEF INL!FlattenSeq, FlattenSeq, INL!FlattenSeq, FlattenSeq
<1> QED
  BY <1>1, <1>2, <1>3, <1>4, <1>5, <1>6, <1>7, <1>8, <1>9, <1>10

LEMMA Here ==
  ASSUME ModInv, fi \in DOMAIN mod
  PROVE  /\ fresh \in Nat /\ Shaped(Fi) /\ Ids(Fi) \subseteq 0 .. fresh - 1
         /\ mod \in Seq(ToSet(mod)) /\ DOMAIN mod = 1 .. Len(mod) /\ Len(mod) \in Nat
<1>1. WellFormed(mod, fresh)
  BY DEF ModInv
<1>2. fresh \in Nat /\ mod \in Seq(ToSet(mod))
  BY <1>1 DEF WellFormed
<1>3. Shaped(Fi) /\ Ids(Fi) \subseteq 0 .. fresh - 1
  BY <1>1, <1>2, FunctionOK DEF Fi
<1> QED
  BY <1>2, <1>3

LEMMA StepFunction ==
  ASSUME ModInv, fi \in DOMAIN mod, NEW g, Shaped(g), g.name = Fi.name,
         fresh' \in Nat, fresh <= fresh', Ids(g) \subseteq Ids(Fi) \cup fresh .. fresh' - 1,
         mod' = [mod EXCEPT ![fi] = g], fi' = fi, source' = source
  PROVE  ModInv' /\ Fi' = g /\ DOMAIN mod' = DOMAIN mod
<1>1. WellFormed(mod, fresh) /\ fresh \in Nat /\ mod \in Seq(ToSet(mod))
  BY DEF ModInv, WellFormed
<1>2. WellFormed([mod EXCEPT ![fi] = g], fresh')
  BY <1>1, OneFunction DEF Fi
<1>3. Fi' = g /\ DOMAIN mod' = DOMAIN mod
  BY <1>1 DEF Fi
<1>4. WellFormed(source', FirstName(source'))
  BY DEF ModInv
<1> QED
  BY <1>2, <1>3, <1>4 DEF ModInv

LEMMA TrimStep ==
  ASSUME ModInv, fi \in DOMAIN mod, NEW g, NEW gone, Trims(g, Fi, gone),
         mod' = [mod EXCEPT ![fi] = g], UNCHANGED <<fi, fresh, source>>
  PROVE  ModInv' /\ Fi' = g /\ DOMAIN mod' = DOMAIN mod
<1>1. Shaped(Fi) /\ fresh \in Nat
  BY Here
<1>2. Shaped(g) /\ Follows(g, Fi, {}, gone)
  BY DEF Trims
<1>3. Ids(g) \subseteq Ids(Fi) \cup {}
  BY <1>1, <1>2, FollowsIds
<1>4. g.name = Fi.name
  BY <1>2 DEF Follows
<1>5. fresh' \in Nat /\ fresh <= fresh' /\ fi' = fi /\ source' = source
  BY <1>1
<1>6. Ids(g) \subseteq Ids(Fi) \cup fresh .. fresh' - 1
  BY <1>3
<1> QED
  BY <1>2, <1>4, <1>5, <1>6, StepFunction

(* A module that is left alone is one whose function is trimmed by nothing. *)
LEMMA NoStep ==
  ASSUME ModInv, fi \in DOMAIN mod, mod' = mod
  PROVE  mod' = [mod EXCEPT ![fi] = Fi] /\ Trims(Fi, Fi, {})
<1>1. Shaped(Fi) /\ mod \in Seq(ToSet(mod))
  BY Here
<1> QED
  BY <1>1, TrimSelf DEF Fi

--------------------------------------------------------------------------------
(* Mem2Reg.                                                                *)

LEMMA AccessesOnly ==
  ASSUME Shaped(Fi), NEW op, NEW a
  PROVE  Only(Fi, M2R!Accesses(op, a), {op})
<1> SUFFICES ASSUME NEW b \in Blocks(Fi), NEW n \in DOMAIN Fi.code[b],
                    Fi.code[b][n].id \in M2R!Accesses(op, a)
             PROVE  Fi.code[b][n].op = op
  BY DEF Only, At
<1>1. M2R!F = Fi /\ M2R!Blocks(Fi) = Blocks(Fi)
  BY Mem2RegIs
<1>2. PICK j \in M2R!Instructions(Fi) : j.op = op /\ j.id = Fi.code[b][n].id
  BY <1>1 DEF M2R!Accesses
<1>3. PICK c \in Blocks(Fi) : j \in M2R!ToSet(Fi.code[c])
  BY <1>1 DEF M2R!Instructions
<1>4. PICK m \in DOMAIN Fi.code[c] : j = Fi.code[c][m]
  BY <1>3 DEF M2R!ToSet
<1>5. c = b /\ m = n
  BY <1>2, <1>4 DEF Shaped, NamesDiffer
<1> QED
  BY <1>2, <1>4, <1>5

M2RFrame == UNCHANGED <<frame, pipeline, walk, pos, ifc, licm, inl, psp>>

LEMMA PromoteElse ==
  ASSUME stage' \in {"find", "done"} \cup Promoting
  PROVE  ConstantsInv' /\ FoldInv' /\ HoistInv' /\ InlineInv'
BY DEF Promoting, Placed, Hunting, ConstantsInv, FoldInv, HoistInv, InlineInv

LEMMA PromoteRest ==
  ASSUME RestInv, stage \in {"find"} \cup Promoting, stage' \in {"find"} \cup Promoting,
         fi' \in DOMAIN mod', M2RFrame,
         stage' \in Hunting => visited' = {},
         stage' = "rename" => Work(worklist', Blocks(Fi'))
  PROVE  RestInv'
<1>1. UNCHANGED <<bi, pos, pipeline, pass, instToErase>>
  BY DEF M2RFrame, frame, walk
<1>2. stage' \in Walking /\ stage' \notin Combining \cup {"constants", "fold", "crash", "trapped"}
  BY DEF Walking, Promoting, Placed, Hunting, Combining
<1>3. stage \notin Combining \cup {"constants", "fold", "crash", "trapped"}
  BY DEF Walking, Promoting, Placed, Hunting, Combining
<1>4. bi = 1 /\ instToErase = {} /\ pos \in Nat \ {0} /\ pipeline \in Seq(Known) /\ pass \in Nat \ {0}
  BY <1>3 DEF RestInv
<1> QED
  BY <1>1, <1>2, <1>4 DEF RestInv

LEMMA HuntStep ==
  ASSUME Inv, stage \in Hunting, stage' \in Hunting, M2RFrame,
         NEW g, NEW gone, Trims(g, Fi, gone), Only(Fi, gone, {"alloca", "load", "store"}),
         mod' = [mod EXCEPT ![fi] = g], UNCHANGED <<fi, fresh, newPhis, visited>>
  PROVE  /\ ModInv' /\ RestInv' /\ PhiInv' /\ EdgesRecordedOnce'
         /\ ConstantsInv' /\ FoldInv' /\ HoistInv' /\ InlineInv'
         /\ Fi' = g /\ \A ids, ops : Only(Fi, ids, ops) => Only(g, ids, ops)
<1>1. ModInv /\ RestInv /\ PhiInv /\ fi \in DOMAIN mod
  BY DEF Inv, RestInv
<1>2. source' = source
  BY DEF M2RFrame, frame
<1>3. ModInv' /\ Fi' = g /\ DOMAIN mod' = DOMAIN mod
  BY <1>1, <1>2, TrimStep
<1>4. stage \in Promoting /\ stage' \in Promoting /\ stage \in Placed /\ stage' \in Placed
  BY DEF Promoting, Placed
<1>5. ConstantsInv' /\ FoldInv' /\ HoistInv' /\ InlineInv'
  BY <1>4, PromoteElse
<1>6. stage' # "rename"
  BY DEF Hunting
<1>7. RestInv'
  <2>1. visited' = {}
    BY <1>1 DEF RestInv
  <2> QED
    BY <1>1, <1>3, <1>4, <1>6, <2>1, PromoteRest
<1>8. EdgesRecordedOnce'
  BY <1>6 DEF EdgesRecordedOnce, M2R!EdgesRecordedOnce
<1>9. Shaped(Fi)
  BY <1>1, Here
<1>10. PhisPlaced(Fi, newPhis) /\ Only(Fi, IdsOf(newPhis), {"phi"}) /\ NoEntries(Fi, newPhis)
  BY <1>1, <1>4 DEF PhiInv
<1>11. PhisPlaced(g, newPhis) /\ Only(g, IdsOf(newPhis), {"phi"}) /\ NoEntries(g, newPhis)
  BY <1>9, <1>10, TrimPhis
<1>12. PhiInv'
  BY <1>3, <1>11 DEF PhiInv
<1>13. \A ids, ops : Only(Fi, ids, ops) => Only(g, ids, ops)
  BY <1>9, FollowsOnly DEF Trims
<1> QED
  BY <1>3, <1>5, <1>7, <1>8, <1>12, <1>13

(* The last alloca takes the number of the one that is dropped.            *)
LEMMA DropAlloca ==
  ASSUME PromoteInv, stage \in Hunting, num <= Len(allocas), NEW g,
         \A ids, ops : Only(Fi, ids, ops) => Only(g, ids, ops),
         M2R!RemoveFromAllocasList, Fi' = g
  PROVE  PromoteInv'
<1>1. stage' = "scan" /\ num' = num /\ fresh' = fresh
  BY DEF M2R!RemoveFromAllocasList
<1>2. stage \in Promoting /\ allocas \in Seq(0 .. fresh - 1) /\ num \in Nat \ {0}
  BY DEF PromoteInv, Promoting, Placed
<1>3. Only(g, ToSet(allocas), {"alloca"})
  BY <1>2 DEF PromoteInv
<1>4. allocas' = Front([allocas EXCEPT ![num] = Last(allocas)])
  BY Mem2RegIs DEF M2R!RemoveFromAllocasList
<1>5. num \in 1 .. Len(allocas)
  BY <1>2
<1>7. allocas' \in Seq(0 .. fresh - 1) /\ ToSet(allocas') \subseteq ToSet(allocas)
  BY <1>2, <1>4, <1>5, DropOne
<1>8. Only(g, ToSet(allocas'), {"alloca"})
  BY <1>3, <1>7 DEF Only
<1> QED
  BY <1>1, <1>2, <1>7, <1>8 DEF PromoteInv, Hunting

LEMMA TheAlloca ==
  ASSUME Inv, stage \in Hunting, num <= Len(allocas)
  PROVE  Only(Fi, {M2R!AI}, {"alloca"}) /\ Shaped(Fi) /\ PromoteInv
<1>1. PromoteInv /\ stage \in Promoting
  BY DEF Inv, Promoting, Placed
<1>2. allocas \in Seq(0 .. fresh - 1) /\ num \in Nat \ {0} /\ Only(Fi, ToSet(allocas), {"alloca"})
  BY <1>1 DEF PromoteInv
<1>3. M2R!AI \in ToSet(allocas)
  BY <1>2 DEF M2R!AI, ToSet
<1>4. Only(Fi, {M2R!AI}, {"alloca"})
  BY <1>2, <1>3 DEF Only
<1> QED
  BY <1>1, <1>4, Here DEF Inv, RestInv

LEMMA DropUnusedKeeps ==
  ASSUME Inv, M2R!DropUnused, M2RFrame
  PROVE  Inv'
<1>1. stage = "scan" /\ num <= Len(allocas) /\ M2R!RemoveFromAllocasList
  BY DEF M2R!DropUnused, M2R!Scanning
<1>2. stage \in Hunting /\ stage' \in Hunting /\ UNCHANGED <<fi, fresh, newPhis, visited>>
  BY <1>1 DEF Hunting, M2R!RemoveFromAllocasList
<1>3. PICK g : g = Erase(Fi, {M2R!AI})
  OBVIOUS
<1>4. mod' = [mod EXCEPT ![fi] = g]
  BY <1>3, Mem2RegIs DEF M2R!DropUnused, M2R!SetF
<1>5. Only(Fi, {M2R!AI}, {"alloca"}) /\ Shaped(Fi) /\ PromoteInv
  BY <1>1, <1>2, TheAlloca
<1>6. Trims(g, Fi, {M2R!AI})
  BY <1>3, <1>5, TrimErase DEF Terms
<1>7. Only(Fi, {M2R!AI}, {"alloca", "load", "store"})
  BY <1>5 DEF Only
<1>8. /\ ModInv' /\ RestInv' /\ PhiInv' /\ EdgesRecordedOnce'
      /\ ConstantsInv' /\ FoldInv' /\ HoistInv' /\ InlineInv'
      /\ Fi' = g /\ \A ids, ops : Only(Fi, ids, ops) => Only(g, ids, ops)
  BY <1>2, <1>4, <1>6, <1>7, HuntStep
<1>9. PromoteInv'
  BY <1>1, <1>2, <1>5, <1>8, DropAlloca
<1> QED
  BY <1>8, <1>9 DEF Inv

(* A step that leaves the list of allocas alone.                           *)
LEMMA SameAllocas ==
  ASSUME Inv, stage \in Hunting, stage' \in Hunting, NEW g,
         \A ids, ops : Only(Fi, ids, ops) => Only(g, ids, ops), Fi' = g,
         UNCHANGED <<fresh, allocas>>, num' \in Nat \ {0},
         stage' # "scan" => num' <= Len(allocas'),
         stage' \in {"single", "block"} =>
           {"onlyStore", "pending"} \subseteq DOMAIN info' /\ Only(Fi, info'.pending, {"load"}),
         stage' = "single" => Only(Fi, {info'.onlyStore}, {"store"})
  PROVE  PromoteInv'
<1>1. stage \in Promoting /\ stage' \in Promoting /\ PromoteInv
  BY DEF Inv, Promoting, Placed
<1>2. allocas \in Seq(0 .. fresh - 1) /\ Only(Fi, ToSet(allocas), {"alloca"})
  BY <1>1 DEF PromoteInv
<1>3. allocas' \in Seq(0 .. fresh' - 1) /\ Only(g, ToSet(allocas'), {"alloca"})
  BY <1>2
<1>4. stage' # "simplify"
  BY DEF Hunting
<1> QED
  BY <1>3, <1>4 DEF PromoteInv, Hunting

LEMMA AnalyzeAllocaKeeps ==
  ASSUME Inv, M2R!AnalyzeAlloca, M2RFrame
  PROVE  Inv'
<1> DEFINE S == M2R!Stores(M2R!AI)
           L == M2R!Loads(M2R!AI)
           single == M2R!Cardinality(S) = 1
<1> HIDE DEF S, L, single
<1>1. /\ stage = "scan" /\ num <= Len(allocas) /\ mod' = mod
      /\ UNCHANGED <<fi, fresh, newPhis, visited, allocas, num>>
  BY DEF M2R!AnalyzeAlloca, M2R!Scanning
<1>2. PICK only \in IF S = {} THEN {0} ELSE S : \E i :
        /\ i = [onlyStore |-> only,
                storingGlobalVal |-> only # 0 /\ ~M2R!IsInstruction(M2R!Stored(only)),
                using    |-> IF single THEN {} ELSE {M2R!Home(l) : l \in L},
                oneBlock |-> M2R!Cardinality({M2R!Home(id) : id \in L \cup S}) = 1,
                pending  |-> L]
        /\ info' = i /\ stage' = IF single THEN "single" ELSE M2R!Otherwise(i)
  BY Zenon DEF M2R!AnalyzeAlloca, S, L, single
<1>3. /\ {"onlyStore", "pending"} \subseteq DOMAIN info' /\ info'.onlyStore = only /\ info'.pending = L
        /\ stage' \in (IF single THEN {"single"} ELSE {"block", "place"})
  BY <1>2 DEF M2R!Otherwise
<1>4. single => S # {}
  <2>1. M2R!Cardinality({}) = Cardinality({})
    BY DEF M2R!Cardinality, Cardinality
  <2> QED
    BY <2>1, FS_EmptySet DEF single
<1>5. stage \in Hunting /\ stage' \in Hunting
  BY <1>1, <1>3 DEF Hunting
<1>6. Shaped(Fi) /\ ModInv /\ fi \in DOMAIN mod /\ num \in Nat \ {0}
  BY <1>1, <1>5, TheAlloca DEF Inv, RestInv, PromoteInv, Promoting, Placed
<1>7. Only(Fi, L, {"load"}) /\ Only(Fi, S, {"store"})
  BY <1>6, AccessesOnly DEF M2R!Stores, M2R!Loads, S, L
<1>8. mod' = [mod EXCEPT ![fi] = Fi] /\ Trims(Fi, Fi, {})
  BY <1>1, <1>6, NoStep
<1>9. Only(Fi, {}, {"alloca", "load", "store"})
  BY DEF Only
<1>10. /\ ModInv' /\ RestInv' /\ PhiInv' /\ EdgesRecordedOnce'
       /\ ConstantsInv' /\ FoldInv' /\ HoistInv' /\ InlineInv' /\ Fi' = Fi
  BY <1>1, <1>5, <1>8, <1>9, HuntStep
<1>11. stage' = "single" => Only(Fi, {info'.onlyStore}, {"store"})
  BY <1>3, <1>4, <1>7 DEF Only
<1>12. PromoteInv'
  BY <1>1, <1>3, <1>5, <1>6, <1>7, <1>10, <1>11, SameAllocas
<1> QED
  BY <1>10, <1>12 DEF Inv

LEMMA TakeValueTrims ==
  ASSUME Shaped(Fi), NEW l, NEW x, Only(Fi, {l}, {"load"}), M2R!TakeValue(l, x)
  PROVE  \E g : mod' = [mod EXCEPT ![fi] = g] /\ Trims(g, Fi, {l})
<1>1. PICK new : mod' = [mod EXCEPT ![fi] = Erase(ReplaceUses(Fi, new), {l})]
  BY Mem2RegIs DEF M2R!TakeValue, M2R!SetF
<1>2. Trims(Erase(ReplaceUses(Fi, new), {l}), Fi, {l})
  BY TrimReplaceErase DEF Terms
<1> QED
  BY <1>1, <1>2

LEMMA LoadDone ==
  ASSUME Inv, stage \in {"single", "block"}, M2RFrame, NEW l \in info.pending, NEW left,
         M2R!LoadVisited(l, left), mod' = mod \/ \E x : M2R!TakeValue(l, x)
  PROVE  Inv'
<1>1. /\ UNCHANGED <<fresh, fi, stage, allocas, num, newPhis, visited>>
      /\ info' = [info EXCEPT !.pending = @ \ {l}, !.using = @ \cup left]
  BY DEF M2R!LoadVisited
<1>2. stage \in Hunting \ {"scan"} /\ stage' \in Hunting /\ stage' = stage
  BY <1>1 DEF Hunting
<1>3. stage \in Promoting /\ PromoteInv /\ ModInv /\ fi \in DOMAIN mod
  BY <1>2 DEF Inv, RestInv, Promoting, Placed
<1>4. /\ num \in Nat \ {0} /\ num <= Len(allocas)
      /\ {"onlyStore", "pending"} \subseteq DOMAIN info /\ Only(Fi, info.pending, {"load"})
      /\ stage = "single" => Only(Fi, {info.onlyStore}, {"store"})
  BY <1>2, <1>3 DEF PromoteInv
<1>5. Shaped(Fi)
  BY <1>3, Here
<1>6. Only(Fi, {l}, {"load"})
  BY <1>4 DEF Only
<1>7. PICK g, gone : /\ mod' = [mod EXCEPT ![fi] = g] /\ Trims(g, Fi, gone)
                     /\ Only(Fi, gone, {"alloca", "load", "store"})
  <2>1. CASE mod' = mod
    <3>1. mod' = [mod EXCEPT ![fi] = Fi] /\ Trims(Fi, Fi, {})
      BY <2>1, <1>3, NoStep
    <3>2. Only(Fi, {}, {"alloca", "load", "store"})
      BY DEF Only
    <3> QED
      BY <3>1, <3>2
  <2>2. CASE \E x : M2R!TakeValue(l, x)
    <3>1. \E g : mod' = [mod EXCEPT ![fi] = g] /\ Trims(g, Fi, {l})
      BY <2>2, <1>5, <1>6, TakeValueTrims
    <3>2. Only(Fi, {l}, {"alloca", "load", "store"})
      BY <1>6 DEF Only
    <3> QED
      BY <3>1, <3>2
  <2> QED
    BY <2>1, <2>2
<1>8. /\ ModInv' /\ RestInv' /\ PhiInv' /\ EdgesRecordedOnce'
      /\ ConstantsInv' /\ FoldInv' /\ HoistInv' /\ InlineInv'
      /\ Fi' = g /\ \A ids, ops : Only(Fi, ids, ops) => Only(g, ids, ops)
  BY <1>1, <1>2, <1>7, HuntStep
<1>9. /\ {"onlyStore", "pending"} \subseteq DOMAIN info' /\ info'.onlyStore = info.onlyStore
      /\ info'.pending \subseteq info.pending
  BY <1>1, <1>4
<1>10. Only(Fi, info'.pending, {"load"})
  BY <1>4, <1>9 DEF Only
<1>11. PromoteInv'
  BY <1>1, <1>2, <1>4, <1>8, <1>9, <1>10, SameAllocas
<1> QED
  BY <1>8, <1>11 DEF Inv

LEMMA RewriteSingleStoreKeeps ==
  ASSUME Inv, M2R!RewriteSingleStore, M2RFrame
  PROVE  Inv'
<1>1. PICK l \in info.pending : \E left : /\ M2R!LoadVisited(l, left)
                                          /\ mod' = mod \/ \E x : M2R!TakeValue(l, x)
  BY DEF M2R!RewriteSingleStore
<1> QED
  BY <1>1, LoadDone DEF M2R!RewriteSingleStore

LEMMA RewriteInBlockKeeps ==
  ASSUME Inv, M2R!RewriteInBlock, M2RFrame
  PROVE  Inv'
<1>1. PICK l \in info.pending :
        \/ \E left : M2R!LoadVisited(l, left) /\ \E x : M2R!TakeValue(l, x)
        \/ /\ stage' = "place"
           /\ UNCHANGED <<mod, fresh, fi, allocas, num, info, newPhis, worklist, visited, round>>
  BY DEF M2R!RewriteInBlock
<1>2. stage = "block"
  BY DEF M2R!RewriteInBlock
<1>3. CASE \E left : M2R!LoadVisited(l, left) /\ \E x : M2R!TakeValue(l, x)
  BY <1>2, <1>3, LoadDone
<1>4. CASE /\ stage' = "place"
           /\ UNCHANGED <<mod, fresh, fi, allocas, num, info, newPhis, worklist, visited, round>>
  <2>1. stage \in Hunting \ {"scan"} /\ stage' \in Hunting
    BY <1>2, <1>4 DEF Hunting
  <2>2. stage \in Promoting /\ PromoteInv /\ ModInv /\ fi \in DOMAIN mod
    BY <2>1 DEF Inv, RestInv, Promoting, Placed
  <2>3. mod' = [mod EXCEPT ![fi] = Fi] /\ Trims(Fi, Fi, {})
    BY <1>4, <2>2, NoStep
  <2>4. Only(Fi, {}, {"alloca", "load", "store"})
    BY DEF Only
  <2>5. /\ ModInv' /\ RestInv' /\ PhiInv' /\ EdgesRecordedOnce'
        /\ ConstantsInv' /\ FoldInv' /\ HoistInv' /\ InlineInv' /\ Fi' = Fi
    BY <1>4, <2>1, <2>3, <2>4, HuntStep
  <2>6. num \in Nat \ {0} /\ num <= Len(allocas)
    BY <2>1, <2>2 DEF PromoteInv
  <2>7. PromoteInv'
    BY <1>4, <2>1, <2>5, <2>6, SameAllocas
  <2> QED
    BY <2>5, <2>7 DEF Inv
<1> QED
  BY <1>1, <1>3, <1>4

(* The alloca at work goes, with stores.                                   *)
LEMMA DropWithStores ==
  ASSUME Inv, stage \in {"single", "block"}, M2RFrame, NEW ids, Only(Fi, ids, {"store"}),
         M2R!SetF(Erase(Fi, ids \cup {M2R!AI})), M2R!RemoveFromAllocasList
  PROVE  Inv'
<1>1. stage \in Hunting \ {"scan"} /\ stage' \in Hunting /\ UNCHANGED <<fi, fresh, newPhis, visited>>
  BY DEF Hunting, M2R!RemoveFromAllocasList
<1>2. num <= Len(allocas)
  BY <1>1 DEF Inv, PromoteInv, Promoting, Placed
<1>3. PICK gone : gone = ids \cup {M2R!AI}
  OBVIOUS
<1>4. PICK g : g = Erase(Fi, gone)
  OBVIOUS
<1>5. mod' = [mod EXCEPT ![fi] = g]
  BY <1>3, <1>4 DEF M2R!SetF
<1>6. Only(Fi, {M2R!AI}, {"alloca"}) /\ Shaped(Fi) /\ PromoteInv
  BY <1>1, <1>2, TheAlloca
<1>7. Only(Fi, gone, {"alloca", "load", "store"})
  BY <1>3, <1>6 DEF Only
<1>8. Trims(g, Fi, gone)
  BY <1>4, <1>6, <1>7, TrimErase DEF Terms
<1>9. /\ ModInv' /\ RestInv' /\ PhiInv' /\ EdgesRecordedOnce'
      /\ ConstantsInv' /\ FoldInv' /\ HoistInv' /\ InlineInv'
      /\ Fi' = g /\ \A A, ops : Only(Fi, A, ops) => Only(g, A, ops)
  BY <1>1, <1>5, <1>7, <1>8, HuntStep
<1>10. PromoteInv'
  BY <1>1, <1>2, <1>6, <1>9, DropAlloca
<1> QED
  BY <1>9, <1>10 DEF Inv

LEMMA EndInBlockKeeps ==
  ASSUME Inv, M2R!EndInBlock, M2RFrame
  PROVE  Inv'
<1>1. /\ stage = "block" /\ M2R!SetF(M2R!Erase(M2R!F, {M2R!AI} \cup M2R!Stores(M2R!AI)))
      /\ M2R!RemoveFromAllocasList
  BY DEF M2R!EndInBlock
<1>2. Shaped(Fi)
  BY Here DEF Inv, RestInv
<1>3. Only(Fi, M2R!Stores(M2R!AI), {"store"})
  BY <1>2, AccessesOnly DEF M2R!Stores
<1>4. {M2R!AI} \cup M2R!Stores(M2R!AI) = M2R!Stores(M2R!AI) \cup {M2R!AI}
  OBVIOUS
<1>5. M2R!SetF(Erase(Fi, M2R!Stores(M2R!AI) \cup {M2R!AI}))
  BY <1>1, <1>4, Mem2RegIs
<1> QED
  BY <1>1, <1>3, <1>5, DropWithStores

LEMMA EndSingleStoreKeeps ==
  ASSUME Inv, M2R!EndSingleStore, M2RFrame
  PROVE  Inv'
<1>1. stage = "single"
  BY DEF M2R!EndSingleStore
<1>2. stage \in Hunting \ {"scan"} /\ stage \in Promoting
  BY <1>1 DEF Hunting, Promoting, Placed
<1>3. PromoteInv /\ ModInv /\ fi \in DOMAIN mod
  BY DEF Inv, RestInv
<1>4. /\ Only(Fi, {info.onlyStore}, {"store"}) /\ num <= Len(allocas) /\ num \in Nat \ {0}
      /\ {"onlyStore", "pending"} \subseteq DOMAIN info
  BY <1>1, <1>2, <1>3 DEF PromoteInv
<1>5. CASE info.using = {}
  <2>1. M2R!SetF(M2R!Erase(M2R!F, {info.onlyStore, M2R!AI})) /\ M2R!RemoveFromAllocasList
    BY <1>5 DEF M2R!EndSingleStore
  <2>2. {info.onlyStore, M2R!AI} = {info.onlyStore} \cup {M2R!AI}
    OBVIOUS
  <2>3. M2R!SetF(Erase(Fi, {info.onlyStore} \cup {M2R!AI}))
    BY <2>1, <2>2, Mem2RegIs
  <2> QED
    BY <1>1, <1>4, <2>1, <2>3, DropWithStores
<1>6. CASE info.using # {}
  <2>1. /\ stage' \in {"block", "place"} /\ info' = [info EXCEPT !.pending = M2R!Loads(M2R!AI)]
        /\ UNCHANGED <<mod, fresh, fi, allocas, num, newPhis, worklist, visited, round>>
    BY <1>6 DEF M2R!EndSingleStore, M2R!Otherwise
  <2>2. stage' \in Hunting
    BY <2>1 DEF Hunting
  <2>3. mod' = [mod EXCEPT ![fi] = Fi] /\ Trims(Fi, Fi, {})
    BY <2>1, <1>3, NoStep
  <2>4. Only(Fi, {}, {"alloca", "load", "store"})
    BY DEF Only
  <2>5. /\ ModInv' /\ RestInv' /\ PhiInv' /\ EdgesRecordedOnce'
        /\ ConstantsInv' /\ FoldInv' /\ HoistInv' /\ InlineInv' /\ Fi' = Fi
    BY <1>2, <2>1, <2>2, <2>3, <2>4, HuntStep
  <2>6. Only(Fi, M2R!Loads(M2R!AI), {"load"})
    BY <1>3, Here, AccessesOnly DEF M2R!Loads
  <2>7. {"onlyStore", "pending"} \subseteq DOMAIN info' /\ info'.pending = M2R!Loads(M2R!AI)
    BY <2>1, <1>4
  <2>8. PromoteInv'
    BY <1>2, <1>4, <2>1, <2>2, <2>5, <2>6, <2>7, SameAllocas
  <2> QED
    BY <2>5, <2>8 DEF Inv
<1> QED
  BY <1>5, <1>6

(* The steps after the walk.                                               *)
LEMMA LateStep ==
  ASSUME Inv, stage \in {"rename", "simplify", "fill"}, stage' \in {"simplify", "fill"}, M2RFrame,
         NEW g, NEW gone, Trims(g, Fi, gone), mod' = [mod EXCEPT ![fi] = g],
         UNCHANGED <<fi, fresh, allocas, num>>, newPhis' \subseteq newPhis,
         stage' = "simplify" => "pending" \in DOMAIN round' /\ round'.pending \subseteq newPhis'
  PROVE  Inv'
<1>1. ModInv /\ RestInv /\ PromoteInv /\ PhiInv /\ fi \in DOMAIN mod
  BY DEF Inv, RestInv
<1>2. source' = source
  BY DEF M2RFrame, frame
<1>3. ModInv' /\ Fi' = g /\ DOMAIN mod' = DOMAIN mod
  BY <1>1, <1>2, TrimStep
<1>4. /\ stage \in Promoting /\ stage' \in Promoting
      /\ stage' \notin Hunting /\ stage' \notin Placed /\ stage' # "rename"
  BY DEF Promoting, Placed, Hunting
<1>5. ConstantsInv' /\ FoldInv' /\ HoistInv' /\ InlineInv'
  BY <1>4, PromoteElse
<1>6. RestInv'
  BY <1>1, <1>3, <1>4, PromoteRest
<1>7. EdgesRecordedOnce'
  BY <1>4 DEF EdgesRecordedOnce, M2R!EdgesRecordedOnce
<1>8. Shaped(Fi) /\ Follows(g, Fi, {}, gone)
  BY <1>1, Here DEF Trims
<1>9. \A ids, ops : Only(Fi, ids, ops) => Only(g, ids, ops)
  BY <1>8, FollowsOnly
<1>10. IdsOf(newPhis') \subseteq IdsOf(newPhis)
  BY DEF IdsOf
<1>11. Only(Fi, IdsOf(newPhis), {"phi"})
  BY <1>1, <1>4 DEF PhiInv
<1>12. Only(g, IdsOf(newPhis'), {"phi"})
  BY <1>9, <1>10, <1>11 DEF Only
<1>13. PhiInv'
  BY <1>3, <1>4, <1>12 DEF PhiInv
<1>14. allocas \in Seq(0 .. fresh - 1) /\ num \in Nat \ {0} /\ Only(Fi, ToSet(allocas), {"alloca"})
  BY <1>1, <1>4 DEF PromoteInv
<1>15. Only(g, ToSet(allocas), {"alloca"})
  BY <1>9, <1>14
<1>16. stage' \notin {"single", "block"} /\ stage' \notin Hunting \ {"scan"}
  BY <1>4
<1>17. PromoteInv'
  BY <1>3, <1>14, <1>15, <1>16 DEF PromoteInv
<1> QED
  BY <1>3, <1>5, <1>6, <1>7, <1>13, <1>17 DEF Inv

LEMMA RemoveAllocasKeeps ==
  ASSUME Inv, M2R!RemoveAllocas, M2RFrame
  PROVE  Inv'
<1>1. stage = "rename" /\ stage' = "simplify" /\ UNCHANGED <<fi, fresh, allocas, num, newPhis>>
  BY DEF M2R!RemoveAllocas
<1>2. "pending" \in DOMAIN round' /\ round'.pending = newPhis
  BY DEF M2R!RemoveAllocas
<1>3. PICK new : mod' = [mod EXCEPT ![fi] = Erase(ReplaceUses(Fi, new), ToSet(allocas))]
  BY Mem2RegIs DEF M2R!RemoveAllocas, M2R!SetF
<1>4. Shaped(Fi) /\ Only(Fi, ToSet(allocas), {"alloca"})
  BY <1>1, Here DEF Inv, RestInv, PromoteInv, Promoting, Placed
<1>5. Trims(Erase(ReplaceUses(Fi, new), ToSet(allocas)), Fi, ToSet(allocas))
  BY <1>4, TrimReplaceErase DEF Terms
<1> QED
  BY <1>1, <1>2, <1>3, <1>5, LateStep

LEMMA SimplifyPhiKeeps ==
  ASSUME Inv, M2R!SimplifyPhi, M2RFrame
  PROVE  Inv'
<1>1. stage = "simplify" /\ stage' = "simplify" /\ UNCHANGED <<fi, fresh, allocas, num>>
  BY DEF M2R!SimplifyPhi
<1>2. /\ ModInv /\ fi \in DOMAIN mod /\ Shaped(Fi)
      /\ "pending" \in DOMAIN round /\ round.pending \subseteq newPhis
      /\ Only(Fi, IdsOf(newPhis), {"phi"})
  BY <1>1, Here DEF Inv, RestInv, PromoteInv, PhiInv, Promoting
<1>3. PICK p \in round.pending :
        \/ round' = [round EXCEPT !.pending = @ \ {p}] /\ UNCHANGED <<mod, newPhis>>
        \/ /\ \E x : M2R!SetF(M2R!Erase(M2R!ReplaceUses(M2R!F, x), {p.id}))
           /\ newPhis' = newPhis \ {p}
           /\ round' = [pending |-> round.pending \ {p}, eliminated |-> TRUE]
  BY DEF M2R!SimplifyPhi
<1>4. CASE round' = [round EXCEPT !.pending = @ \ {p}] /\ UNCHANGED <<mod, newPhis>>
  <2>1. mod' = [mod EXCEPT ![fi] = Fi] /\ Trims(Fi, Fi, {})
    BY <1>2, <1>4, NoStep
  <2>2. "pending" \in DOMAIN round' /\ round'.pending \subseteq newPhis'
    BY <1>2, <1>4
  <2> QED
    BY <1>1, <1>4, <2>1, <2>2, LateStep
<1>5. CASE /\ \E x : M2R!SetF(M2R!Erase(M2R!ReplaceUses(M2R!F, x), {p.id}))
           /\ newPhis' = newPhis \ {p}
           /\ round' = [pending |-> round.pending \ {p}, eliminated |-> TRUE]
  <2>1. PICK new : mod' = [mod EXCEPT ![fi] = Erase(ReplaceUses(Fi, new), {p.id})]
    BY <1>5, Mem2RegIs DEF M2R!SetF
  <2>2. p.id \in IdsOf(newPhis)
    BY <1>2 DEF IdsOf
  <2>3. Only(Fi, {p.id}, {"phi"})
    BY <1>2, <2>2 DEF Only
  <2>4. Trims(Erase(ReplaceUses(Fi, new), {p.id}), Fi, {p.id})
    BY <1>2, <2>3, TrimReplaceErase DEF Terms
  <2>5. "pending" \in DOMAIN round' /\ round'.pending \subseteq newPhis' /\ newPhis' \subseteq newPhis
    BY <1>2, <1>5
  <2> QED
    BY <1>1, <2>1, <2>4, <2>5, LateStep
<1> QED
  BY <1>3, <1>4, <1>5

LEMMA EndRoundKeeps ==
  ASSUME Inv, M2R!EndRound, M2RFrame
  PROVE  Inv'
<1>1. /\ stage = "simplify" /\ UNCHANGED <<mod, fi, fresh, allocas, num, newPhis>>
      /\ \/ round' = [pending |-> newPhis, eliminated |-> FALSE] /\ stage' = "simplify"
         \/ stage' = "fill"
  BY DEF M2R!EndRound
<1>2. mod' = [mod EXCEPT ![fi] = Fi] /\ Trims(Fi, Fi, {})
  BY <1>1, NoStep DEF Inv, RestInv
<1>3. stage' = "simplify" => "pending" \in DOMAIN round' /\ round'.pending \subseteq newPhis'
  BY <1>1
<1> QED
  BY <1>1, <1>2, <1>3, LateStep

LEMMA FillEntriesKeeps ==
  ASSUME Inv, M2R!FillEntries, M2RFrame
  PROVE  Inv'
<1>1. stage = "fill" /\ stage' = "find" /\ UNCHANGED <<fi, fresh>>
  BY DEF M2R!FillEntries
<1>2. ModInv /\ RestInv /\ fi \in DOMAIN mod /\ Shaped(Fi) /\ fresh \in Nat
  BY Here DEF Inv, RestInv
<1>3. PICK g : g = [Fi EXCEPT !.code = [b \in DOMAIN @ |-> M2R!Completed(b)]]
  OBVIOUS
<1>4. mod' = [mod EXCEPT ![fi] = g]
  BY <1>3, Mem2RegIs DEF M2R!FillEntries, M2R!SetF
<1>5. DOMAIN Fi.code = Blocks(Fi) /\ {"name", "layout", "code"} \subseteq DOMAIN Fi
  BY <1>2 DEF Shaped, LabelsDiffer
<1>6. /\ DOMAIN g = DOMAIN Fi /\ g.name = Fi.name /\ g.layout = Fi.layout
      /\ DOMAIN g.code = Blocks(Fi) /\ \A b \in Blocks(Fi) : g.code[b] = M2R!Completed(b)
  BY <1>3, <1>5
<1>7. ASSUME NEW b \in Blocks(Fi)
      PROVE  /\ g.code[b] = [n \in DOMAIN Fi.code[b] |-> g.code[b][n]]
             /\ \A n \in DOMAIN Fi.code[b] : Same(g.code[b][n], Fi.code[b][n])
  <2>1. PICK c : c = Fi.code[b] /\ c = [n \in DOMAIN c |-> c[n]] /\ \A n \in DOMAIN c : Instruction(c[n])
    BY <1>2, BlockOK
  <2>2. PICK K, x : K = M2R!Incomplete(c) /\ x = M2R!MissingEntries(c[1], b)
    OBVIOUS
  <2>3. g.code[b] = c \/ g.code[b] = [n \in DOMAIN c |->
               IF n \in K THEN [c[n] EXCEPT !.in = @ \o x] ELSE c[n]]
    <3>1. g.code[b] = IF c[1].op # "phi" \/ ~M2R!IsNewPhi(c[1].id) \/ Len(c[1].in) = M2R!NumPreds(Fi, b)
            THEN c
            ELSE [n \in DOMAIN c |->
                   IF n \in M2R!Incomplete(c)
                     THEN [c[n] EXCEPT !.in = @ \o M2R!MissingEntries(c[1], b)] ELSE c[n]]
      <4>1. M2R!F = Fi /\ g.code[b] = M2R!Completed(b)
        BY <1>6, Mem2RegIs
      <4>2. M2R!F.code[b] = c
        BY <4>1, <2>1
      <4> QED
        BY ONLY <4>1, <4>2, ZenonT(30) DEF M2R!Completed
    <3>2. PICK p : p <=> (c[1].op # "phi" \/ ~M2R!IsNewPhi(c[1].id) \/ Len(c[1].in) = M2R!NumPreds(Fi, b))
      OBVIOUS
    <3>3. g.code[b] = IF p THEN c ELSE [n \in DOMAIN c |->
                        IF n \in K THEN [c[n] EXCEPT !.in = @ \o x] ELSE c[n]]
      BY ONLY <2>2, <3>1, <3>2, Zenon
    <3> QED
      BY ONLY <3>3, Zenon
  <2>4. DOMAIN g.code[b] = DOMAIN c /\ g.code[b] = [n \in DOMAIN c |-> g.code[b][n]]
    BY <2>1, <2>3
  <2>5. ASSUME NEW n \in DOMAIN c PROVE Same(g.code[b][n], c[n])
    <3>1. g.code[b][n] = c[n] \/ g.code[b][n] = [c[n] EXCEPT !.in = @ \o x]
      BY <2>3
    <3> QED
      BY <3>1 DEF Same, Lasting
  <2> QED
    BY <2>1, <2>4, <2>5
<1>8. Follows(g, Fi, {}, {}) /\ Shaped(g)
  BY <1>2, <1>6, <1>7, Rewritten
<1>9. Ids(g) \subseteq Ids(Fi) \cup {}
  BY <1>2, <1>8, FollowsIds
<1>10. Ids(g) \subseteq Ids(Fi) \cup fresh .. fresh' - 1
  BY <1>9
<1>11. fresh' \in Nat /\ fresh <= fresh' /\ fi' = fi /\ source' = source
  BY <1>1, <1>2 DEF M2RFrame, frame
<1>12. ModInv' /\ DOMAIN mod' = DOMAIN mod
  BY <1>2, <1>4, <1>6, <1>8, <1>10, <1>11, StepFunction
<1>13. RestInv'
  BY <1>1, <1>2, <1>11, <1>12, PromoteRest DEF Promoting, Placed, Hunting
<1>14. /\ stage' \notin Promoting /\ stage' \notin Placed /\ stage' \notin Hunting
       /\ stage' # "rename"
  BY <1>1 DEF Promoting, Placed, Hunting
<1>15. PromoteInv' /\ PhiInv' /\ EdgesRecordedOnce'
  BY <1>14 DEF PromoteInv, PhiInv, EdgesRecordedOnce, M2R!EdgesRecordedOnce
<1> QED
  BY <1>1, <1>12, <1>13, <1>15, PromoteElse DEF Inv

LEMMA FindAllocasKeeps ==
  ASSUME Inv, M2R!FindAllocas, M2RFrame
  PROVE  Inv'
<1>1. stage = "find" /\ UNCHANGED <<mod, fresh, source>>
  BY DEF M2R!FindAllocas, M2RFrame, frame
<1>2. /\ ModInv /\ RestInv /\ fi \in DOMAIN mod /\ Shaped(Fi) /\ fresh \in Nat
      /\ Ids(Fi) \subseteq 0 .. fresh - 1 /\ DOMAIN mod = 1 .. Len(mod) /\ Len(mod) \in Nat
  BY Here DEF Inv, RestInv
<1>3. ModInv'
  BY <1>1, <1>2 DEF ModInv
<1>4. PICK c : c = Fi.code[Entry(Fi)]
  OBVIOUS
<1>5. /\ Entry(Fi) \in Blocks(Fi) /\ c \in Seq(ToSet(c)) /\ DOMAIN c = 1 .. Len(c)
      /\ Len(c) \in Nat
  BY <1>2, <1>4, EntryIsBlock, BlockOK
<1>6. PICK K : K = {n \in 1 .. Len(c) - 1 : M2R!IsAllocaPromotable(c[n])}
  OBVIOUS
<1>7. PICK found : found = Kept(c, K)
  OBVIOUS
<1>8. M2R!F.code[M2R!Entry(M2R!F)] = c
  BY <1>4, Mem2RegIs
<1>9. /\ IF found = <<>>
           THEN /\ stage' = IF fi < Len(mod) THEN "find" ELSE "done"
                /\ fi' = IF fi < Len(mod) THEN fi + 1 ELSE 1
           ELSE stage' = "scan" /\ allocas' = [k \in DOMAIN found |-> found[k].id] /\ fi' = fi
      /\ num' = 1 /\ newPhis' = {} /\ visited' = {}
  BY <1>6, <1>7, <1>8, Mem2RegIs DEF M2R!FindAllocas
<1>10. stage' # "rename" /\ stage' \in {"find", "done", "scan"}
  BY <1>9
<1>11. EdgesRecordedOnce' /\ ConstantsInv' /\ FoldInv' /\ HoistInv' /\ InlineInv'
  BY <1>10, PromoteElse DEF EdgesRecordedOnce, M2R!EdgesRecordedOnce, Promoting, Placed, Hunting
<1>12. CASE found = <<>>
  <2>1. /\ stage' = (IF fi < Len(mod) THEN "find" ELSE "done")
        /\ fi' = (IF fi < Len(mod) THEN fi + 1 ELSE 1) /\ mod' = mod
    BY <1>1, <1>9, <1>12
  <2>5. fi \in 1 .. Len(mod)
    BY <1>2
  <2>6. fi' \in 1 .. Len(mod)
    BY <1>2, <2>1, <2>5
  <2>7. stage' \in {"find", "done"} /\ fi' \in DOMAIN mod' /\ (stage' = "done" => fi' = 1)
    BY <1>2, <2>1, <2>6
  <2>2. stage' \notin Promoting /\ stage' \notin Placed /\ stage' \notin Hunting
    BY <2>7 DEF Promoting, Placed, Hunting
  <2>3. PromoteInv' /\ PhiInv'
    BY <2>2 DEF PromoteInv, PhiInv
  <2>8. UNCHANGED <<bi, pos, pipeline, pass, instToErase>>
    BY DEF M2RFrame, frame, walk
  <2>9. bi = 1 /\ instToErase = {}
    BY <1>1, <1>2 DEF RestInv, Combining
  <2>10. stage' \notin Walking => fi' = 1
    BY <2>7 DEF Walking
  <2>4. RestInv'
    BY <1>2, <2>2, <2>7, <2>8, <2>9, <2>10, <1>10 DEF RestInv
  <2> QED
    BY <1>3, <1>11, <2>3, <2>4 DEF Inv
<1>13. CASE found # <<>>
  <2>1. /\ stage' = "scan" /\ fi' = fi /\ allocas' = [k \in DOMAIN found |-> found[k].id]
        /\ num' = 1 /\ newPhis' = {} /\ visited' = {}
    BY <1>9, <1>13
  <2>2. Fi' = Fi /\ stage' \in Hunting /\ stage' \in Promoting
    BY <1>1, <2>1 DEF Fi, Promoting, Placed, Hunting
  <2>3. RestInv'
    BY <1>1, <1>2, <2>1, <2>2, PromoteRest
  <2>4. PICK e : Picks(e, c, K, found)
    BY <1>5, <1>7, KeptPicks
  <2>5. found \in Seq(ToSet(c)) /\ DOMAIN found = 1 .. Len(found) /\ Len(found) \in Nat
    <3>1. PICK S : S = ToSet(c) /\ c \in Seq(S)
      BY <1>5
    <3>2. found \in Seq(S)
      BY <1>7, <3>1, KeptPicks
    <3> QED
      BY <3>1, <3>2
  <2>6. ASSUME NEW k \in DOMAIN found
        PROVE  \E m \in DOMAIN c : found[k] = c[m] /\ c[m].op = "alloca"
    <3>1. PICK m : m = e[k] /\ m \in DOMAIN c \cap K /\ found[k] = c[m]
      BY <2>4, <2>5 DEF Picks
    <3>2. M2R!IsAllocaPromotable(c[m])
      BY <3>1, <1>6
    <3> QED
      BY <3>1, <3>2 DEF M2R!IsAllocaPromotable
  <2>7. ASSUME NEW m \in DOMAIN c PROVE c[m].id \in 0 .. fresh - 1
    <3>1. c[m] \in ToSet(Fi.code[Entry(Fi)])
      BY <1>4 DEF ToSet
    <3>2. c[m] \in Instructions(Fi)
      BY <3>1, <1>5 DEF Instructions
    <3>3. c[m].id \in Ids(Fi)
      BY <3>2 DEF Ids
    <3> QED
      BY <3>3, <1>2
  <2>8. \A k \in DOMAIN found : found[k].id \in 0 .. fresh - 1
    BY <2>6, <2>7
  <2>9. allocas' \in Seq(0 .. fresh - 1)
    <3>1. PICK L \in Nat : L = Len(found)
      BY <2>5
    <3>2. PICK S : S = 0 .. fresh - 1
      OBVIOUS
    <3>3. allocas' \in [1 .. L -> S]
      BY <2>1, <2>5, <2>8, <3>1, <3>2
    <3>4. [1 .. L -> S] \subseteq Seq(S)
      OBVIOUS
    <3> QED
      BY <3>2, <3>3, <3>4
  <2>10. Only(Fi, ToSet(allocas'), {"alloca"})
    <3> SUFFICES ASSUME NEW b \in Blocks(Fi), NEW n \in DOMAIN Fi.code[b], NEW k \in DOMAIN found,
                        Fi.code[b][n].id = found[k].id
                 PROVE  Fi.code[b][n].op = "alloca"
      BY <2>1 DEF Only, At, ToSet
    <3>1. PICK m \in DOMAIN c : found[k] = c[m] /\ c[m].op = "alloca"
      BY <2>6
    <3>2. b = Entry(Fi) /\ n = m
      BY <3>1, <1>2, <1>4, <1>5 DEF Shaped, NamesDiffer
    <3> QED
      BY <3>1, <3>2, <1>4
  <2>11. PromoteInv'
    BY <1>1, <2>1, <2>2, <2>9, <2>10 DEF PromoteInv, Hunting
  <2>12. PhisPlaced(Fi, {}) /\ NoEntries(Fi, {}) /\ Only(Fi, IdsOf({}), {"phi"})
    BY DEF PhisPlaced, NoEntries, Empty, Only, IdsOf, PhisLead
  <2>13. PhiInv'
    BY <2>1, <2>2, <2>12 DEF PhiInv
  <2> QED
    BY <1>3, <1>11, <2>3, <2>11, <2>13 DEF Inv
<1> QED
  BY <1>12, <1>13

LEMMA StartRenameKeeps ==
  ASSUME Inv, M2R!StartRename, M2RFrame
  PROVE  Inv'
<1>1. /\ stage = "scan" /\ UNCHANGED <<mod, fresh, fi, allocas, num, newPhis, visited, source>>
      /\ \/ stage' = "find"
         \/ stage' = "rename" /\ \E vals : worklist' = <<[bb |-> M2R!Entry(M2R!F), pred |-> M2R!NoBlock, vals |-> vals]>>
  BY DEF M2R!StartRename, M2RFrame, frame
<1>2. stage \in Hunting /\ stage \in Promoting /\ stage \in Placed
  BY <1>1 DEF Hunting, Promoting, Placed
<1>3. ModInv /\ RestInv /\ fi \in DOMAIN mod /\ Shaped(Fi) /\ PromoteInv /\ PhiInv
  BY Here DEF Inv, RestInv
<1>4. ModInv' /\ Fi' = Fi
  BY <1>1, <1>3 DEF ModInv, Fi
<1>5. CASE stage' = "find"
  <2>1. stage' \notin Promoting /\ stage' \notin Placed /\ stage' \notin Hunting
    BY <1>5 DEF Promoting, Placed, Hunting
  <2>2. PromoteInv' /\ PhiInv' /\ EdgesRecordedOnce'
    BY <1>5, <2>1 DEF PromoteInv, PhiInv, EdgesRecordedOnce, M2R!EdgesRecordedOnce
  <2>3. RestInv'
    BY <1>1, <1>2, <1>3, <1>5, <2>1, PromoteRest
  <2> QED
    BY <1>4, <1>5, <2>2, <2>3, PromoteElse DEF Inv
<1>6. CASE stage' = "rename"
  <2>1. PICK vals : worklist' = <<[bb |-> M2R!Entry(M2R!F), pred |-> M2R!NoBlock, vals |-> vals]>>
    BY <1>1, <1>6
  <2>2. stage' \in Promoting /\ stage' \in Placed /\ stage' \notin Hunting
    BY <1>6 DEF Promoting, Placed, Hunting
  <2>3. PromoteInv'
    BY <1>1, <1>2, <1>3, <1>4, <1>6, <2>2 DEF PromoteInv
  <2>4. PhisPlaced(Fi, newPhis) /\ NoEntries(Fi, newPhis) /\ Only(Fi, IdsOf(newPhis), {"phi"})
    BY <1>2, <1>3 DEF PhiInv
  <2>5. PhiInv'
    BY <1>1, <1>4, <2>2, <2>4 DEF PhiInv
  <2>6. Work(worklist', Blocks(Fi'))
    <3>1. PICK x : worklist' = <<x>> /\ x.bb = Entry(Fi)
      BY <2>1, Mem2RegIs
    <3>2. worklist' \in Seq(ToSet(worklist')) /\ DOMAIN worklist' = {1} /\ worklist'[1] = x
      BY <3>1 DEF ToSet
    <3>3. Entry(Fi) \in Blocks(Fi')
      BY <1>3, <1>4, EntryIsBlock
    <3> QED
      BY <3>1, <3>2, <3>3 DEF Work
  <2>7. RestInv'
    BY <1>1, <1>2, <1>3, <2>2, <2>6, PromoteRest
  <2>8. ASSUME NEW phi \in newPhis, NEW p \in Preds(Fi, phi.b)
        PROVE  /\ p \notin visited
               /\ {k \in DOMAIN Inst(Fi, phi.id).in : Inst(Fi, phi.id).in[k].b = p} = {}
               /\ {k \in DOMAIN worklist' : worklist'[k].pred = p /\ worklist'[k].bb = phi.b} = {}
    <3>1. PICK n \in DOMAIN Fi.code[phi.b] :
            Fi.code[phi.b][n].id = phi.id /\ Inst(Fi, phi.id) = Fi.code[phi.b][n]
      BY <1>3, <2>4, PhiIs
    <3>2. phi.b \in Blocks(Fi) /\ phi.id \in IdsOf(newPhis)
      BY <1>3, <2>4, PhiIs DEF IdsOf
    <3>3. DOMAIN Inst(Fi, phi.id).in = {}
      BY <2>4, <3>1, <3>2 DEF NoEntries, Empty
    <3>4. p # NoBlock
      BY <1>3, BlockOK DEF Preds
    <3>5. DOMAIN worklist' = {1} /\ worklist'[1].pred = NoBlock
      BY <2>1 DEF M2R!NoBlock, NoBlock
    <3>6. visited = {}
      BY <1>2, <1>3 DEF RestInv
    <3> QED
      BY <3>3, <3>4, <3>5, <3>6
  <2>9. EdgesRecordedOnce'
    <3>1. M2R!F' = Fi
      BY <1>1 DEF M2R!F, Fi
    <3>2. ASSUME NEW phi \in newPhis, NEW p \in M2R!Preds(M2R!F', phi.b)
          PROVE  /\ p \notin visited'
                 /\ {k \in DOMAIN M2R!Inst(M2R!F', phi.id).in : M2R!Inst(M2R!F', phi.id).in[k].b = p} = {}
                 /\ {k \in DOMAIN worklist' : worklist'[k].pred = p /\ worklist'[k].bb = phi.b} = {}
      BY <1>1, <2>8, <3>1, Mem2RegIs
    <3> QED
      BY <1>1, <3>2 DEF EdgesRecordedOnce, M2R!EdgesRecordedOnce, M2R!Pending
  <2> QED
    BY <1>4, <2>2, <2>3, <2>5, <2>7, <2>9, PromoteElse DEF Inv
<1> QED
  BY <1>1, <1>5, <1>6

LEMMA PlacePhisKeeps ==
  ASSUME Inv, M2R!PlacePhis, M2RFrame
  PROVE  Inv'
<1>1. /\ stage = "place" /\ num' = num + 1 /\ stage' = "scan"
      /\ UNCHANGED <<fi, allocas, worklist, visited, round, source>>
  BY DEF M2R!PlacePhis, M2RFrame, frame
<1>2. /\ stage \in Hunting /\ stage' \in Hunting /\ stage \in Promoting /\ stage' \in Promoting
      /\ stage \in Placed /\ stage' \in Placed
  BY <1>1 DEF Hunting, Promoting, Placed
<1>3. /\ ModInv /\ RestInv /\ fi \in DOMAIN mod /\ Shaped(Fi) /\ PromoteInv /\ PhiInv
      /\ fresh \in Nat /\ Ids(Fi) \subseteq 0 .. fresh - 1
  BY Here DEF Inv, RestInv
<1> DEFINE ord(B) == M2R!Kept(M2R!F.layout, {n \in DOMAIN M2R!F.layout : M2R!F.layout[n] \in B})
           ids(B) == [b \in M2R!ToSet(ord(B)) |-> fresh + (CHOOSE n \in DOMAIN ord(B) : ord(B)[n] = b) - 1]
<1>4. PICK blocks :
        /\ newPhis' = newPhis \cup {[b |-> b, no |-> num, id |-> ids(blocks)[b]] : b \in DOMAIN ids(blocks)}
        /\ M2R!SetF([M2R!F EXCEPT !.code = [b \in DOMAIN @ |->
                IF b \in DOMAIN ids(blocks)
                  THEN <<[op |-> "phi", id |-> ids(blocks)[b], in |-> <<>>]>> \o @[b] ELSE @[b]]])
        /\ fresh' = fresh + Len(ord(blocks))
  BY DEF M2R!PlacePhis
<1>5. PICK order, id : order = ord(blocks) /\ id = ids(blocks)
  OBVIOUS
<1>6. PICK K : order = Kept(Fi.layout, K) /\ id = Numbers(order, fresh)
  BY <1>5, Mem2RegIs DEF Numbers
<1> HIDE DEF ord, ids
<1>8. PICK Q : Q = {[b |-> b, no |-> num, id |-> id[b]] : b \in DOMAIN id}
  OBVIOUS
<1>9. PICK g : g = Prepend(Fi, id)
  OBVIOUS
<1>10. newPhis' = newPhis \cup Q /\ mod' = [mod EXCEPT ![fi] = g] /\ fresh' = fresh + Len(order)
  <2>1. M2R!F = Fi
    BY Mem2RegIs
  <2>2. M2R!SetF([Fi EXCEPT !.code = [b \in DOMAIN @ |->
                IF b \in DOMAIN id
                  THEN <<[op |-> "phi", id |-> id[b], in |-> <<>>]>> \o @[b] ELSE @[b]]])
    BY ONLY <1>4, <1>5, <2>1, Zenon
  <2>3. M2R!SetF(g)
    BY <1>9, <2>2 DEF Prepend, EmptyPhi
  <2> QED
    BY <1>4, <1>5, <1>8, <2>3 DEF M2R!SetF
<1>11. /\ DOMAIN id \subseteq Blocks(Fi) /\ Len(order) \in Nat
       /\ \A b \in DOMAIN id : id[b] \in fresh .. fresh + Len(order) - 1
       /\ \A b, c \in DOMAIN id : id[b] = id[c] => b = c
  <2>1. Shaped(Fi) /\ fresh \in Nat
    BY <1>3
  <2>2. Tags(id, Blocks(Fi), fresh, Len(order))
    BY ONLY <1>6, <2>1, Numbered
  <2> QED
    BY ONLY <2>2 DEF Tags
<1>12. PICK new : new = fresh .. fresh + Len(order) - 1
  OBVIOUS
<1>13. new \cap Ids(Fi) = {} /\ \A b \in DOMAIN id : id[b] \in new
  BY <1>3, <1>11, <1>12
<1>14. /\ Follows(g, Fi, new, {}) /\ Shaped(g) /\ Blocks(g) = Blocks(Fi)
       /\ \A b \in DOMAIN id : After(g.code[b], Fi.code[b], EmptyPhi(id[b]))
       /\ \A b \in Blocks(Fi) \ DOMAIN id : g.code[b] = Fi.code[b]
  <2>1. Shaped(Fi) /\ DOMAIN id \subseteq Blocks(Fi) /\ new \cap Ids(Fi) = {} /\ g = Prepend(Fi, id)
    BY <1>3, <1>9, <1>11, <1>13
  <2>2. \A b \in DOMAIN id : id[b] \in new
    BY <1>13
  <2>3. \A b, c \in DOMAIN id : id[b] = id[c] => b = c
    BY <1>11
  <2> QED
    BY ONLY <2>1, <2>2, <2>3, Prepended
<1>15. Ids(g) \subseteq Ids(Fi) \cup new /\ g.name = Fi.name
  BY <1>3, <1>14, FollowsIds DEF Follows
<1>16. fresh' \in Nat /\ fresh <= fresh' /\ new = fresh .. fresh' - 1
  BY <1>3, <1>10, <1>11, <1>12
<1>17. ModInv' /\ Fi' = g /\ DOMAIN mod' = DOMAIN mod
  BY <1>1, <1>3, <1>10, <1>14, <1>15, <1>16, StepFunction
<1>18. PhisPlaced(Fi, newPhis) /\ NoEntries(Fi, newPhis) /\ Only(Fi, IdsOf(newPhis), {"phi"})
  BY <1>2, <1>3 DEF PhiInv
<1>19. PhisPlaced(g, newPhis \cup Q) /\ NoEntries(g, newPhis \cup Q) /\ Only(g, IdsOf(newPhis \cup Q), {"phi"})
  <2>1. \A p \in Q : p.b \in DOMAIN id /\ p.id = id[p.b]
    BY <1>8
  <2>2. \A b \in DOMAIN id : \E p \in Q : p.id = id[b]
    <3> TAKE b \in DOMAIN id
    <3>1. PICK p : p = [b |-> b, no |-> num, id |-> id[b]]
      OBVIOUS
    <3>2. p \in Q /\ p.id = id[b]
      BY <1>8, <3>1
    <3> QED
      BY <3>2
  <2>3. Tagged(Q, id, new)
    BY <2>1, <2>2, <1>13 DEF Tagged
  <2>4. Prepends(g, Fi, id)
    BY <1>14 DEF Prepends
  <2>5. new \cap Ids(Fi) = {} /\ Shaped(Fi)
    BY <1>3, <1>13
  <2>6. DOMAIN id \subseteq Blocks(Fi) /\ Shaped(g) /\ Blocks(g) = Blocks(Fi)
    BY <1>11, <1>14
  <2> QED
    BY ONLY <2>3, <2>4, <2>5, <2>6, <1>18, PrependPhis
<1>20. PhiInv'
  BY <1>10, <1>17, <1>19 DEF PhiInv
<1>21. /\ allocas \in Seq(0 .. fresh - 1) /\ num \in Nat \ {0} /\ Only(Fi, ToSet(allocas), {"alloca"})
  BY <1>2, <1>3 DEF PromoteInv
<1>22. allocas \in Seq(0 .. fresh' - 1)
  <2>1. PICK S, T : S = 0 .. fresh - 1 /\ T = 0 .. fresh' - 1
    OBVIOUS
  <2>2. S \subseteq T
    <3>1. PICK u \in Nat : u = fresh
      BY <1>3
    <3>2. PICK v \in Nat : v = fresh'
      BY <1>16
    <3>3. u <= v /\ S = 0 .. u - 1 /\ T = 0 .. v - 1
      BY <3>1, <3>2, <1>16, <2>1
    <3> QED
      BY ONLY <3>3
  <2>3. allocas \in Seq(S)
    BY <1>21, <2>1
  <2>4. allocas \in Seq(T)
    BY ONLY <2>2, <2>3
  <2> QED
    BY <2>1, <2>4
<1>23. ToSet(allocas) \cap new = {}
  <2>1. ToSet(allocas) \subseteq 0 .. fresh - 1
    <3>1. PICK S : S = 0 .. fresh - 1
      OBVIOUS
    <3>2. allocas \in Seq(S)
      BY <1>21, <3>1
    <3>3. ToSet(allocas) \subseteq S
      BY ONLY <3>2 DEF ToSet
    <3> QED
      BY <3>1, <3>3
  <2>2. PICK u \in Nat : u = fresh
    BY <1>3
  <2>3. PICK v \in Nat : v = fresh'
    BY <1>16
  <2>4. ToSet(allocas) \subseteq 0 .. u - 1 /\ new = u .. v - 1
    BY <2>1, <2>2, <2>3, <1>16
  <2> QED
    BY ONLY <2>4
<1>24. Only(g, ToSet(allocas), {"alloca"})
  BY <1>3, <1>14, <1>21, <1>23, FollowsOnly
<1>25. PromoteInv'
  BY <1>1, <1>17, <1>21, <1>22, <1>24 DEF PromoteInv, Hunting
<1>26. visited' = {}
  BY <1>1, <1>2, <1>3 DEF RestInv
<1>27. RestInv'
  BY <1>1, <1>2, <1>3, <1>17, <1>26, PromoteRest
<1>28. EdgesRecordedOnce'
  BY <1>1 DEF EdgesRecordedOnce, M2R!EdgesRecordedOnce
<1> QED
  BY <1>2, <1>17, <1>20, <1>25, <1>27, <1>28, PromoteElse DEF Inv

LEMMA OneItem ==
  ASSUME NEW o, NEW x, o = <<x>>, NEW b, NEW c, x.pred = b, x.bb = c
  PROVE  Items(o, b, {c})
<1>1. o \in Seq(ToSet(o)) /\ DOMAIN o = {1} /\ o[1] = x
  BY DEF ToSet
<1>2. Waiting(o, b, c) = {1}
  BY <1>1 DEF Waiting
<1> QED
  BY <1>1, <1>2 DEF Items, One

LEMMA TwoItems ==
  ASSUME NEW o, NEW x, NEW y, o = <<x, y>>, NEW b, NEW c, NEW d, c # d,
         x.pred = b, x.bb = c, y.pred = b, y.bb = d
  PROVE  Items(o, b, {c, d})
<1>1. o \in Seq(ToSet(o)) /\ DOMAIN o = {1, 2} /\ o[1] = x /\ o[2] = y
  BY DEF ToSet
<1>2. Waiting(o, b, c) = {1} /\ Waiting(o, b, d) = {2}
  BY <1>1 DEF Waiting
<1> QED
  BY <1>1, <1>2 DEF Items, One

LEMMA OnwardIs ==
  ASSUME NEW b, NEW vals, NEW o, o = M2R!Onward(b, vals)
  PROVE  Items(o, b, ToSet(Successors(Fi, b)))
<1>1. PICK s : s = Successors(Fi, b)
  OBVIOUS
<1>2. M2R!Successors(M2R!F, b) = s
  BY <1>1, Mem2RegIs
<1>3. s \in Seq(ToSet(s)) /\ Len(s) \in 0 .. 2
  BY <1>1, SuccessorsSeq
<1>4. ToSet(s) = {s[k] : k \in 1 .. Len(s)}
  BY <1>3 DEF ToSet
<1> DEFINE item(c) == [bb |-> c, pred |-> b, vals |-> vals]
<1>5. /\ s = <<>> => o = <<>>
      /\ s # <<>> /\ s[1] = Last(s) => o = <<item(s[1])>>
      /\ s # <<>> /\ s[1] # Last(s) => o = <<item(s[2]), item(s[1])>>
  BY <1>2, Mem2RegIs, Zenon DEF M2R!Onward
<1>6. CASE s = <<>>
  <2>1. o = <<>> /\ ToSet(s) = {}
    BY <1>5, <1>6 DEF ToSet
  <2> QED
    BY <1>1, <2>1 DEF Items, ToSet
<1>7. CASE s # <<>> /\ s[1] = Last(s)
  <2>1. o = <<item(s[1])>>
    BY <1>5, <1>7
  <2>2. Len(s) = 1 \/ (Len(s) = 2 /\ s[1] = s[2])
    BY <1>3, <1>7 DEF Last
  <2>3. ToSet(s) = {s[1]}
    BY <1>4, <2>2
  <2>4. PICK x : x = item(s[1])
    OBVIOUS
  <2>5. o = <<x>> /\ x.pred = b /\ x.bb = s[1]
    BY <2>1, <2>4
  <2>6. Items(o, b, {s[1]})
    BY <2>5, OneItem
  <2> QED
    BY <1>1, <2>3, <2>6
<1>8. CASE s # <<>> /\ s[1] # Last(s)
  <2>1. o = <<item(s[2]), item(s[1])>>
    BY <1>5, <1>8
  <2>2. Len(s) = 2 /\ s[2] # s[1]
    BY <1>3, <1>8 DEF Last
  <2>6. ToSet(s) = {s[2], s[1]}
    BY <1>4, <2>2
  <2>3. PICK x, y, c, d : x = item(s[2]) /\ y = item(s[1]) /\ c = s[2] /\ d = s[1]
    OBVIOUS
  <2>4. o = <<x, y>> /\ x.pred = b /\ x.bb = c /\ y.pred = b /\ y.bb = d /\ c # d
    BY <2>1, <2>2, <2>3
  <2>5. Items(o, b, {c, d})
    BY ONLY <2>4, TwoItems
  <2> QED
    BY <1>1, <2>3, <2>5, <2>6
<1> QED
  BY <1>6, <1>7, <1>8

(* RenamePass removes loads and stores.                                    *)
LEMMA RenamedTrims ==
  ASSUME NEW h, Shaped(h), NEW b \in Blocks(h), NEW held, NEW g, g = M2R!Renamed(h, b, held)
  PROVE  \E ids : Trims(g, h, ids) /\ Only(h, ids, {"load", "store"})
<1> DEFINE code == h.code[b]
           accesses == {k \in DOMAIN code : M2R!Accessed(code[k]) # {}}
<1>1. PICK new : g = M2R!Erase(M2R!ReplaceUses(h, new), {code[k].id : k \in accesses})
  BY DEF M2R!Renamed
<1>2. PICK ids : ids = {code[k].id : k \in accesses}
  OBVIOUS
<1>3. g = Erase(ReplaceUses(h, new), ids)
  BY <1>1, <1>2, Mem2RegIs
<1>4. \A k \in accesses : code[k].op \in {"load", "store"}
  BY DEF M2R!Accessed
<1>5. Only(h, ids, {"load", "store"})
  <2> SUFFICES ASSUME NEW c \in Blocks(h), NEW n \in DOMAIN h.code[c], h.code[c][n].id \in ids
               PROVE  h.code[c][n].op \in {"load", "store"}
    BY DEF Only, At
  <2>1. PICK k \in accesses : code[k].id = h.code[c][n].id
    BY <1>2
  <2>2. c = b /\ n = k
    BY <2>1 DEF Shaped, NamesDiffer
  <2> QED
    BY <1>4, <2>1, <2>2
<1>6. Trims(g, h, ids)
  <2>1. PICK ops : ops = {"load", "store"}
    OBVIOUS
  <2>2. Only(h, ids, ops) /\ ops \cap Terms = {}
    BY <1>5, <2>1 DEF Terms
  <2> QED
    BY ONLY <1>3, <2>2, Shaped(h), TrimReplaceErase
<1> QED
  BY <1>5, <1>6

(* What EdgesRecordedOnce says of a function, with mem2reg's operators.    *)
OnceHere(f, P, w, seen) ==
  \A phi \in P : \A p \in M2R!Preds(f, phi.b) :
    LET entries == {k \in DOMAIN M2R!Inst(f, phi.id).in : M2R!Inst(f, phi.id).in[k].b = p}
        waiting == {k \in DOMAIN w : w[k].pred = p /\ w[k].bb = phi.b}
    IN IF p \in seen
         THEN M2R!Cardinality(entries) + M2R!Edges(f, p, phi.b) * M2R!Cardinality(waiting)
                = M2R!Edges(f, p, phi.b)
         ELSE entries = {} /\ waiting = {}

LEMMA OnceIs ==
  ASSUME NEW f, NEW P, NEW w, NEW seen
  PROVE  OnceHere(f, P, w, seen) <=> Once(f, P, w, seen)
<1>1. \A S : M2R!Cardinality(S) = Cardinality(S)
  BY DEF M2R!Cardinality, Cardinality
<1>2. /\ \A id : M2R!Inst(f, id) = Inst(f, id)
      /\ \A p, b : M2R!Edges(f, p, b) = Edges(f, p, b)
      /\ \A b : M2R!Preds(f, b) = Preds(f, b)
  BY Mem2RegIs
<1>3. ASSUME NEW phi, NEW p
      PROVE  /\ {k \in DOMAIN M2R!Inst(f, phi.id).in : M2R!Inst(f, phi.id).in[k].b = p} = Entries(f, phi.id, p)
             /\ {k \in DOMAIN w : w[k].pred = p /\ w[k].bb = phi.b} = Waiting(w, p, phi.b)
  BY <1>2 DEF Entries, Waiting
<1>4. ASSUME OnceHere(f, P, w, seen) PROVE Once(f, P, w, seen)
  <2> SUFFICES ASSUME NEW phi \in P, NEW p \in Preds(f, phi.b)
               PROVE  IF p \in seen
                        THEN Cardinality(Entries(f, phi.id, p)) + Edges(f, p, phi.b) * Cardinality(Waiting(w, p, phi.b))
                               = Edges(f, p, phi.b)
                        ELSE Entries(f, phi.id, p) = {} /\ Waiting(w, p, phi.b) = {}
    BY DEF Once
  <2>1. p \in M2R!Preds(f, phi.b)
    BY <1>2
  <2>2. PICK E, W : E = Entries(f, phi.id, p) /\ W = Waiting(w, p, phi.b)
    OBVIOUS
  <2>3. IF p \in seen
          THEN M2R!Cardinality(E) + M2R!Edges(f, p, phi.b) * M2R!Cardinality(W) = M2R!Edges(f, p, phi.b)
          ELSE E = {} /\ W = {}
    BY <1>3, <1>4, <2>1, <2>2, Zenon DEF OnceHere
  <2> QED
    BY ONLY <1>1, <1>2, <2>2, <2>3
<1>5. ASSUME Once(f, P, w, seen) PROVE OnceHere(f, P, w, seen)
  <2> SUFFICES ASSUME NEW phi \in P, NEW p \in M2R!Preds(f, phi.b)
               PROVE  LET entries == {k \in DOMAIN M2R!Inst(f, phi.id).in : M2R!Inst(f, phi.id).in[k].b = p}
                          waiting == {k \in DOMAIN w : w[k].pred = p /\ w[k].bb = phi.b}
                      IN IF p \in seen
                           THEN M2R!Cardinality(entries) + M2R!Edges(f, p, phi.b) * M2R!Cardinality(waiting)
                                  = M2R!Edges(f, p, phi.b)
                           ELSE entries = {} /\ waiting = {}
    BY Zenon DEF OnceHere
  <2>1. PICK E, W : E = Entries(f, phi.id, p) /\ W = Waiting(w, p, phi.b)
    OBVIOUS
  <2>2. p \in Preds(f, phi.b)
    BY <1>2
  <2>3. IF p \in seen THEN Cardinality(E) + Edges(f, p, phi.b) * Cardinality(W) = Edges(f, p, phi.b)
                      ELSE E = {} /\ W = {}
    BY <1>5, <2>1, <2>2, Zenon DEF Once
  <2>4. IF p \in seen
          THEN M2R!Cardinality(E) + M2R!Edges(f, p, phi.b) * M2R!Cardinality(W) = M2R!Edges(f, p, phi.b)
          ELSE E = {} /\ W = {}
    BY ONLY <1>1, <1>2, <2>3
  <2> QED
    BY ONLY <1>3, <2>1, <2>4, Zenon
<1> QED
  BY <1>4, <1>5

LEMMA EdgesAre ==
  ASSUME EdgesRecordedOnce, stage = "rename"
  PROVE  Once(Fi, newPhis, worklist, visited)
<1>1. OnceHere(M2R!F, newPhis, worklist, visited)
  BY Zenon DEF EdgesRecordedOnce, M2R!EdgesRecordedOnce, M2R!Pending, OnceHere
<1> QED
  BY <1>1, OnceIs, Mem2RegIs

LEMMA EdgesNext ==
  ASSUME NEW g, Fi' = g, Once(g, newPhis', worklist', visited')
  PROVE  EdgesRecordedOnce'
<1>1. M2R!F' = g
  BY DEF Fi, M2R!F
<1>2. OnceHere(g, newPhis', worklist', visited')
  BY OnceIs
<1>3. OnceHere(M2R!F', newPhis', worklist', visited')
  BY <1>1, <1>2, Zenon
<1> QED
  BY <1>3, Zenon DEF EdgesRecordedOnce, M2R!EdgesRecordedOnce, M2R!Pending, OnceHere

(* The PHI nodes of a block that get entries are all the new ones.         *)
LEMMA IncompleteHas ==
  ASSUME NEW b \in Blocks(Fi), Shaped(Fi), PhisPlaced(Fi, newPhis), Only(Fi, IdsOf(newPhis), {"phi"})
  PROVE  \A n \in DOMAIN Fi.code[b] : Fi.code[b][n].id \in IdsOf(newPhis) => n \in M2R!Incomplete(Fi.code[b])
<1> SUFFICES ASSUME NEW n \in DOMAIN Fi.code[b], Fi.code[b][n].id \in IdsOf(newPhis)
             PROVE  n \in M2R!Incomplete(Fi.code[b])
  OBVIOUS
<1>1. PICK c : c = Fi.code[b]
  OBVIOUS
<1>2. c \in Seq(ToSet(c)) /\ n \in DOMAIN c
  BY <1>1, BlockOK
<1>3. PICK L \in Nat : L = Len(c) /\ DOMAIN c = 1 .. L
  BY <1>2
<1>4. PhisLead(c, IdsOf(newPhis)) /\ c[n].id \in IdsOf(newPhis)
  BY <1>1 DEF PhisPlaced
<1>5. n \in 1 .. L /\ \A k \in 1 .. n : k \in DOMAIN c
  BY <1>2, <1>3
<1>6. \A k \in 1 .. n : c[k].id \in IdsOf(newPhis) /\ Len(c[k].in) = Len(c[n].in)
  BY <1>2, <1>4 DEF PhisLead
<1>7. \A k \in 1 .. n : c[k].op = "phi"
  BY <1>1, <1>5, <1>6 DEF Only, At
<1>8. 1 \in 1 .. n
  BY <1>5
<1>9. c[1].op = "phi" /\ c[1].id \in IdsOf(newPhis) /\ Len(c[1].in) = Len(c[n].in)
  BY <1>6, <1>7, <1>8
<1>10. M2R!IsNewPhi(c[1].id)
  BY <1>9 DEF M2R!IsNewPhi, IdsOf
<1>11. \A k \in 1 .. n : c[k].op = "phi" /\ Len(c[k].in) = Len(c[1].in)
  BY <1>6, <1>7, <1>9
<1>12. n \in M2R!Incomplete(c)
  BY <1>2, <1>9, <1>10, <1>11 DEF M2R!Incomplete
<1> QED
  BY <1>1, <1>12

(* What the renamer's last steps share.                                    *)
LEMMA RenameStep ==
  ASSUME Inv, stage = "rename", stage' = stage, M2RFrame,
         NEW g, NEW gone, Follows(g, Fi, {}, gone), Shaped(g), mod' = [mod EXCEPT ![fi] = g],
         PhisPlaced(g, newPhis),
         UNCHANGED <<fi, fresh, allocas, num, newPhis>>,
         Work(worklist', Blocks(Fi)), Once(g, newPhis, worklist', visited')
  PROVE  Inv'
<1>1. /\ ModInv /\ RestInv /\ fi \in DOMAIN mod /\ Shaped(Fi) /\ PromoteInv /\ PhiInv
      /\ fresh \in Nat /\ source' = source
  BY Here DEF Inv, RestInv, M2RFrame, frame
<1>2. /\ stage \in Promoting /\ stage \in Placed /\ stage \notin Hunting /\ stage' \notin Hunting
      /\ stage' \in Promoting /\ stage' \in Placed
  BY DEF Promoting, Placed, Hunting
<1>3. Ids(g) \subseteq Ids(Fi) \cup {} /\ g.name = Fi.name /\ Blocks(g) = Blocks(Fi)
  BY <1>1, FollowsIds DEF Follows, Blocks
<1>4. ModInv' /\ Fi' = g /\ DOMAIN mod' = DOMAIN mod
  <2>1. Ids(g) \subseteq Ids(Fi) \cup fresh .. fresh' - 1 /\ fresh' \in Nat /\ fresh <= fresh'
    BY <1>1, <1>3
  <2> QED
    BY <1>1, <1>3, <2>1, StepFunction
<1>5. Only(Fi, ToSet(allocas), {"alloca"}) /\ Only(Fi, IdsOf(newPhis), {"phi"})
  BY <1>1, <1>2 DEF PromoteInv, PhiInv
<1>6. Only(g, ToSet(allocas), {"alloca"}) /\ Only(g, IdsOf(newPhis), {"phi"})
  BY <1>1, <1>5, FollowsOnly
<1>7. PromoteInv'
  BY <1>1, <1>2, <1>4, <1>6 DEF PromoteInv
<1>8. PhiInv'
  BY <1>2, <1>4, <1>6 DEF PhiInv
<1>9. RestInv'
  BY <1>1, <1>2, <1>3, <1>4, PromoteRest
<1>10. EdgesRecordedOnce'
  BY <1>4, EdgesNext
<1> QED
  BY <1>2, <1>4, <1>7, <1>8, <1>9, <1>10, PromoteElse DEF Inv

LEMMA FollowsTwice ==
  ASSUME NEW f, NEW h, NEW g, NEW gone, Shaped(f), Follows(h, f, {}, {}), Blocks(h) = Blocks(f),
         Follows(g, h, {}, gone)
  PROVE  Follows(g, f, {}, gone)
<1>1. \A b \in Blocks(f) : Inherits(g.code[b], f.code[b], {}, gone)
  BY InheritsTwice, BlockOK DEF Follows
<1> QED
  BY <1>1 DEF Follows

(* The work list after a visit.                                            *)
LEMMA WorkOn ==
  ASSUME NEW w, NEW B, Work(w, B), NEW o, NEW b, NEW T, T \subseteq B, Items(o, b, T),
         NEW u, u = Joined(w, o)
  PROVE  Work(u, B)
<1>1. PICK S, R : w \in Seq(S) /\ o \in Seq(R)
  BY DEF Work, Items
<1>2. PICK L \in Nat : L = Len(w)
  BY <1>1
<1>3. PICK M \in Nat : M = Len(o)
  BY <1>1
<1>4. /\ u \in Seq(S \cup R) /\ Len(u) = L + M
      /\ \A k \in 1 .. L : u[k] = w[k]
      /\ \A k \in 1 .. M : u[L + k] = o[k]
  BY <1>1, <1>2, <1>3, JoinIs DEF Joined
<1>5. \A k \in 1 .. L : w[k].bb \in B
  BY <1>1, <1>2 DEF Work
<1>6. \A k \in 1 .. M : o[k].bb \in B
  BY <1>1, <1>3 DEF Items
<1>7. ASSUME NEW k \in 1 .. L + M PROVE u[k].bb \in B
  <2>1. CASE k \in 1 .. L
    BY <2>1, <1>4, <1>5
  <2>2. CASE k \notin 1 .. L
    <3>1. PICK m : m = k - L
      OBVIOUS
    <3>2. m \in 1 .. M /\ L + m = k
      BY <2>2, <3>1
    <3> QED
      BY <3>2, <1>4, <1>6
  <2> QED
    BY <2>1, <2>2
<1>8. DOMAIN u = 1 .. L + M /\ u \in Seq(ToSet(u))
  <2>1. PICK R2 : R2 = S \cup R
    OBVIOUS
  <2>2. u \in Seq(R2) /\ Len(u) = L + M
    BY <1>4, <2>1
  <2> QED
    BY ONLY <2>2, InItsSet, L \in Nat, M \in Nat
<1> QED
  BY <1>7, <1>8 DEF Work

LEMMA RenameBlockKeeps ==
  ASSUME Inv, M2R!RenameBlock, M2RFrame
  PROVE  Inv'
<1>1. /\ stage = "rename" /\ stage' = stage /\ worklist # <<>>
      /\ UNCHANGED <<fi, fresh, allocas, num, newPhis>>
  BY DEF M2R!RenameBlock
<1>2. /\ ModInv /\ RestInv /\ PhiInv /\ fi \in DOMAIN mod /\ Shaped(Fi)
      /\ stage \in Promoting /\ stage \in Placed
  BY <1>1, Here DEF Inv, RestInv, Promoting, Placed
<1>3. PhisPlaced(Fi, newPhis) /\ Only(Fi, IdsOf(newPhis), {"phi"})
  BY <1>2 DEF PhiInv
<1>4. Once(Fi, newPhis, worklist, visited)
  BY <1>1, EdgesAre DEF Inv
<1>5. Work(worklist, Blocks(Fi))
  BY <1>1, <1>2 DEF RestInv
<1>6. PICK r : r = Last(worklist)
  OBVIOUS
<1>7. PICK S : S = ToSet(worklist)
  OBVIOUS
<1>8. worklist \in Seq(S)
  BY <1>5, <1>7 DEF Work
<1>9. /\ Front(worklist) \in Seq(S) /\ Len(worklist) \in DOMAIN worklist
      /\ r = worklist[Len(worklist)]
      /\ DOMAIN Front(worklist) = DOMAIN worklist \ {Len(worklist)}
      /\ \A k \in DOMAIN Front(worklist) : Front(worklist)[k] = worklist[k]
  BY <1>1, <1>6, <1>8, Taken
<1>10. r.bb \in Blocks(Fi)
  BY <1>5, <1>9 DEF Work
<1>11. PICK b \in Blocks(Fi) : b = r.bb
  BY <1>10
<1>12. PICK p : p = r.pred
  OBVIOUS
<1>13. PICK E : E = Edges(Fi, p, b)
  OBVIOUS
<1>14. PICK N : N = M2R!Incomplete(Fi.code[b])
  OBVIOUS
<1>15. PICK h, held, vals :
         /\ EnteredIn(h, Fi, b, N, p, E)
         /\ IF b \in visited
              THEN M2R!SetF(h) /\ worklist' = Front(worklist) /\ UNCHANGED visited
              ELSE /\ M2R!SetF(M2R!Renamed(h, b, held))
                   /\ worklist' = Front(worklist) \o M2R!Onward(b, vals)
                   /\ visited' = visited \cup {b}
  <2> DEFINE code == Fi.code[b]
             add(n) == [code[n] EXCEPT !.in =
                          @ \o [k \in 1 .. E |-> [b |-> p, v |-> r.vals[M2R!PhiAlloca(code[n].id)]]]]
             d == [n \in DOMAIN code |-> IF n \in N THEN add(n) ELSE code[n]]
  <2>1. PICK h, held, vals :
          /\ h = [Fi EXCEPT !.code[b] = d]
          /\ IF b \in visited
               THEN M2R!SetF(h) /\ worklist' = Front(worklist) /\ UNCHANGED visited
               ELSE /\ M2R!SetF(M2R!Renamed(h, b, held))
                    /\ worklist' = Front(worklist) \o M2R!Onward(b, vals)
                    /\ visited' = visited \cup {b}
    <3>1. /\ M2R!F = Fi /\ M2R!Last(worklist) = r /\ M2R!Front(worklist) = Front(worklist)
          /\ M2R!Edges(Fi, p, b) = E
      BY <1>6, <1>13, Mem2RegIs
    <3> QED
      BY <1>11, <1>12, <1>14, <3>1, ZenonT(30) DEF M2R!RenameBlock
  <2>2. Entered(d, Fi.code[b], N, p, E)
    <3>1. E \in Nat
      BY <1>13, EdgesNat
    <3>2. ASSUME NEW n \in DOMAIN code \cap N PROVE Longer(d[n], code[n], p, E)
      <4>1. PICK j, i, x : j = code[n] /\ i = d[n] /\ x = r.vals[M2R!PhiAlloca(code[n].id)]
        OBVIOUS
      <4>2. i = [j EXCEPT !.in = @ \o [k \in 1 .. E |-> [b |-> p, v |-> x]]]
        BY <4>1
      <4>3. Longer(i, j, p, E)
        BY ONLY <3>1, <4>2, LongerIs
      <4> QED
        BY <4>1, <4>3
    <3> HIDE DEF add
    <3>3. DOMAIN d = DOMAIN code /\ d = [n \in DOMAIN code |-> d[n]] /\ \A n \in DOMAIN code \ N : d[n] = code[n]
      OBVIOUS
    <3> HIDE DEF d, code
    <3>4. \A n \in DOMAIN code \cap N : Longer(d[n], code[n], p, E)
      BY <3>2
    <3>5. Entered(d, code, N, p, E)
      BY <3>3, <3>4, Zenon DEF Entered
    <3> QED
      BY <3>5 DEF code
  <2> HIDE DEF d
  <2>3. EnteredIn(h, Fi, b, N, p, E)
    BY <2>1, <2>2, Zenon DEF EnteredIn
  <2> QED
    BY <2>1, <2>3
<1>16. /\ Follows(h, Fi, {}, {}) /\ Shaped(h) /\ Blocks(h) = Blocks(Fi)
       /\ \A c \in Blocks(Fi) : Successors(h, c) = Successors(Fi, c)
  BY <1>2, <1>15, EnteredFollows
<1>17. \A n \in DOMAIN Fi.code[b] : Fi.code[b][n].id \in IdsOf(newPhis) => n \in N
  BY <1>2, <1>3, <1>14, IncompleteHas
<1>18. E \in Nat
  BY <1>13, EdgesNat
<1>19. PhisPlaced(h, newPhis)
  BY <1>2, <1>3, <1>15, <1>17, <1>18, EnteredPlaced
<1>20. PICK w : w = Front(worklist)
  OBVIOUS
<1>21. Once(h, newPhis, w, visited)
  <2>1. /\ worklist \in Seq(ToSet(worklist)) /\ worklist # <<>>
        /\ b = Last(worklist).bb /\ p = Last(worklist).pred
    BY <1>1, <1>6, <1>7, <1>8, <1>11, <1>12
  <2>2. Once(h, newPhis, Front(worklist), visited)
    BY <1>2, <1>3, <1>4, <1>13, <1>15, <1>17, <2>1, Popped
  <2> QED
    BY <1>20, <2>2
<1>22. Work(w, Blocks(Fi))
  <2>1. \A k \in DOMAIN w : w[k].bb \in Blocks(Fi)
    BY <1>5, <1>9, <1>20 DEF Work
  <2>2. w \in Seq(S)
    BY <1>9, <1>20
  <2>3. w \in Seq(ToSet(w))
    BY ONLY <2>2, InItsSet
  <2> QED
    BY <2>1, <2>3 DEF Work
<1>23. CASE b \in visited
  <2>1. mod' = [mod EXCEPT ![fi] = h] /\ worklist' = w /\ visited' = visited
    BY <1>15, <1>20, <1>23 DEF M2R!SetF
  <2>2. Once(h, newPhis, worklist', visited') /\ Work(worklist', Blocks(Fi))
    BY <1>21, <1>22, <2>1
  <2> QED
    BY <1>1, <1>16, <1>19, <2>1, <2>2, RenameStep
<1>24. CASE b \notin visited
  <2>1. PICK g : g = M2R!Renamed(h, b, held)
    OBVIOUS
  <2>2. PICK o : o = M2R!Onward(b, vals)
    OBVIOUS
  <2>3. PICK u : u = Joined(w, o)
    OBVIOUS
  <2>4. mod' = [mod EXCEPT ![fi] = g] /\ worklist' = u /\ visited' = visited \cup {b}
    BY <1>15, <1>20, <1>24, <2>1, <2>2, <2>3 DEF M2R!SetF, Joined
  <2>5. PICK ids : Trims(g, h, ids) /\ Only(h, ids, {"load", "store"})
    BY <1>16, <2>1, RenamedTrims
  <2>6. Only(h, IdsOf(newPhis), {"phi"})
    BY <1>2, <1>3, <1>16, FollowsOnly
  <2>7. PhisPlaced(g, newPhis) /\ Once(g, newPhis, w, visited)
    <3>1. PICK ops : ops = {"load", "store"}
      OBVIOUS
    <3>2. Only(h, ids, ops) /\ "phi" \notin ops
      BY <2>5, <3>1
    <3>3. PhisPlaced(g, newPhis)
      BY <1>16, <1>19, <2>5, <2>6, <3>2, TrimPhis
    <3>4. Once(g, newPhis, w, visited)
      BY <1>16, <1>19, <1>21, <2>5, <2>6, <3>2, TrimOnce
    <3> QED
      BY <3>3, <3>4
  <2>8. Items(o, b, ToSet(Successors(Fi, b)))
    BY <2>2, OnwardIs
  <2>9. ToSet(Successors(Fi, b)) = ToSet(Successors(g, b)) /\ ToSet(Successors(Fi, b)) \subseteq Blocks(Fi)
    BY <1>2, <1>16, <2>5 DEF Trims, Shaped, BlocksEnd
  <2>10. Once(g, newPhis, u, visited \cup {b})
    <3>1. w \in Seq(ToSet(w)) /\ Items(o, b, ToSet(Successors(g, b)))
      BY <1>22, <2>8, <2>9 DEF Work
    <3> QED
      BY <1>24, <2>3, <2>7, <3>1, OnwardOnce
  <2>11. Work(u, Blocks(Fi))
    BY <1>22, <2>3, <2>8, <2>9, WorkOn
  <2>12. Follows(g, Fi, {}, ids) /\ Shaped(g)
    BY <1>2, <1>16, <2>5, FollowsTwice DEF Trims
  <2>13. Once(g, newPhis, worklist', visited') /\ Work(worklist', Blocks(Fi))
    BY <2>4, <2>10, <2>11
  <2> QED
    BY <1>1, <2>4, <2>7, <2>12, <2>13, RenameStep
<1> QED
  BY <1>23, <1>24

LEMMA Mem2RegKeeps ==
  ASSUME Inv, Mem2Reg
  PROVE  Inv'
<1>1. M2R!Next /\ M2RFrame
  BY DEF Mem2Reg, M2RFrame
<1>2. CASE M2R!FindAllocas
  BY <1>1, <1>2, FindAllocasKeeps
<1>3. CASE M2R!DropUnused \/ M2R!AnalyzeAlloca
  BY <1>1, <1>3, DropUnusedKeeps, AnalyzeAllocaKeeps
<1>4. CASE M2R!RewriteSingleStore \/ M2R!EndSingleStore
  BY <1>1, <1>4, RewriteSingleStoreKeeps, EndSingleStoreKeeps
<1>5. CASE M2R!RewriteInBlock \/ M2R!EndInBlock
  BY <1>1, <1>5, RewriteInBlockKeeps, EndInBlockKeeps
<1>6. CASE M2R!PlacePhis \/ M2R!StartRename
  BY <1>1, <1>6, PlacePhisKeeps, StartRenameKeeps
<1>7. CASE M2R!RenameBlock \/ M2R!RemoveAllocas
  BY <1>1, <1>7, RenameBlockKeeps, RemoveAllocasKeeps
<1>8. CASE M2R!SimplifyPhi \/ M2R!EndRound \/ M2R!FillEntries
  BY <1>1, <1>8, SimplifyPhiKeeps, EndRoundKeeps, FillEntriesKeeps
<1> QED
  BY <1>1, <1>2, <1>3, <1>4, <1>5, <1>6, <1>7, <1>8 DEF M2R!Next
================================================================================
