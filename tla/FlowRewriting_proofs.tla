------------------------- MODULE FlowRewriting_proofs -------------------------
(***************************************************************************)
(* ConstantFolding, IfCombine and ExtractLoopVariable keep Inv, for every  *)
(* module that the optimiser may read.                                     *)
(***************************************************************************)
EXTENDS FlowPromotion_proofs

--------------------------------------------------------------------------------
(* ConstantFolding.                                                        *)

(* What is said of a pass that is not at work.                             *)
LEMMA NotPromoting ==
  ASSUME stage' \notin Promoting
  PROVE  PromoteInv' /\ PhiInv' /\ EdgesRecordedOnce'
<1>1. stage' \notin Placed /\ stage' \notin Hunting /\ stage' # "rename"
  BY DEF Promoting, Placed
<1> QED
  BY <1>1 DEF PromoteInv, PhiInv, EdgesRecordedOnce, M2R!EdgesRecordedOnce

LEMMA NotElsewhere ==
  /\ stage' # "constants" => ConstantsInv'
  /\ stage' # "fold" => FoldInv'
  /\ stage' # "hoist" => HoistInv'
  /\ stage' # "inline" => InlineInv'
BY DEF ConstantsInv, FoldInv, HoistInv, InlineInv

(* A function of the module, or the first one, is the next.                *)
LEMMA NextFunctionIn ==
  ASSUME ModInv, fi \in DOMAIN mod, mod' = mod, UNCHANGED <<fresh, source>>,
         fi' = IF fi < Len(mod) THEN fi + 1 ELSE 1
  PROVE  ModInv' /\ fi' \in DOMAIN mod'
<1>1. Len(mod) \in Nat /\ DOMAIN mod = 1 .. Len(mod)
  BY Here
<1>2. fi' \in DOMAIN mod
  BY <1>1
<1> QED
  BY <1>2 DEF ModInv

FoldFrame == UNCHANGED <<frame, pipeline, fresh, worklist, m2r, ifc, licm, inl, psp>>

LEMMA ReplaceKeeps ==
  ASSUME ModInv, fi \in DOMAIN mod, NEW new, mod' = [mod EXCEPT ![fi] = ReplaceUses(Fi, new)],
         UNCHANGED <<fi, fresh, source>>
  PROVE  /\ ModInv' /\ Fi' = ReplaceUses(Fi, new) /\ DOMAIN mod' = DOMAIN mod
         /\ Follows(Fi', Fi, {}, {})
<1>1. Shaped(Fi)
  BY Here
<1>2. Trims(ReplaceUses(Fi, new), Fi, {})
  BY <1>1, TrimReplace
<1>3. ModInv' /\ Fi' = ReplaceUses(Fi, new) /\ DOMAIN mod' = DOMAIN mod
  BY <1>2, TrimStep
<1> QED
  BY <1>2, <1>3 DEF Trims

LEMMA FoldNextKeeps ==
  ASSUME Inv, FOLD!FoldNext, FoldFrame
  PROVE  Inv'
<1>1. /\ stage = "constants" /\ bi <= Len(Fi.layout) /\ UNCHANGED <<fi, bi, fresh, source, pipeline, pass, worklist, visited>>
  BY FoldingIs DEF FOLD!FoldNext, FOLD!Visiting, FoldFrame, frame, m2r
<1>2. /\ ModInv /\ RestInv /\ fi \in DOMAIN mod /\ Shaped(Fi) /\ ConstantsInv
  BY Here DEF Inv, RestInv
<1>3. bi \in Nat \ {0} /\ pos \in Nat \ {0}
  BY <1>2 DEF RestInv
<1>4. PICK b : b = Fi.layout[bi]
  OBVIOUS
<1>5. b \in Blocks(Fi) /\ Fi.layout \in Seq(Blocks(Fi))
  BY <1>1, <1>2, <1>3, <1>4 DEF Shaped, LabelsDiffer, Blocks, ToSet
<1>6. FOLD!Code = Fi.code[b]
  BY <1>4, FoldingIs DEF FOLD!Code, FOLD!Block
<1>7. Len(Fi.code[b]) \in Nat /\ DOMAIN Fi.code[b] = 1 .. Len(Fi.code[b])
  BY <1>2, <1>5, BlockOK
<1>8. PICK n : n = Min(FOLD!Left)
  OBVIOUS
<1>9. n \in DOMAIN Fi.code[b] /\ n \in Nat /\ Fi.code[b][n].op \in {"binary", "icmp"}
  <2>1. FOLD!Left \subseteq Nat /\ FOLD!Left # {}
    <3>1. FOLD!Left # {}
      BY DEF FOLD!FoldNext
    <3>2. \A k \in FOLD!Left : k \in pos .. Len(Fi.code[b])
      BY <1>6 DEF FOLD!Left
    <3>3. PICK u \in Nat : u = pos
      BY <1>3
    <3>4. PICK v \in Nat : v = Len(Fi.code[b])
      BY <1>7
    <3>5. \A k \in u .. v : k \in Nat
      OBVIOUS
    <3> QED
      BY <3>1, <3>2, <3>3, <3>4, <3>5
  <2>2. PICK T \in SUBSET Nat : T = FOLD!Left
    BY <2>1
  <2>3. \E x \in T : \A y \in T : x <= y
    BY <2>1, <2>2, LeastNumber
  <2>4. n \in T
    BY <1>8, <2>2, <2>3 DEF Min
  <2>5. n \in pos .. Len(Fi.code[b]) /\ FOLD!Foldable(Fi.code[b][n])
    BY <1>6, <2>2, <2>4 DEF FOLD!Left
  <2> QED
    BY <1>3, <1>7, <2>2, <2>4, <2>5 DEF FOLD!Foldable
<1>10. PICK id : id = Fi.code[b][n].id
  OBVIOUS
<1>11. \/ \E new : /\ mod' = [mod EXCEPT ![fi] = ReplaceUses(Fi, new)]
                   /\ instToErase' = instToErase \cup {id} /\ pos' = n + 1 /\ stage' = stage
       \/ stage' = "trapped" /\ UNCHANGED <<mod, instToErase, pos>>
  BY <1>6, <1>8, <1>10, FoldingIs DEF FOLD!FoldNext, FOLD!SetF
<1>12. CASE stage' = "trapped" /\ UNCHANGED <<mod, instToErase, pos>>
  <2>1. ModInv'
    BY <1>1, <1>2, <1>12 DEF ModInv
  <2>2. stage' \in Walking /\ stage' \notin Hunting
    BY <1>12 DEF Walking, Hunting
  <2>3. RestInv'
    BY <1>1, <1>2, <1>12, <2>2 DEF RestInv
  <2>4. stage' \notin Promoting
    BY <1>12 DEF Promoting, Placed, Hunting
  <2> QED
    BY <1>12, <2>1, <2>3, <2>4, NotPromoting, NotElsewhere DEF Inv
<1>13. CASE stage' = stage /\ pos' = n + 1
  <2>1. PICK new : /\ mod' = [mod EXCEPT ![fi] = ReplaceUses(Fi, new)]
                   /\ instToErase' = instToErase \cup {id}
    BY <1>1, <1>11, <1>13
  <2>2. ModInv' /\ DOMAIN mod' = DOMAIN mod /\ Follows(Fi', Fi, {}, {})
    BY <1>1, <1>2, <2>1, ReplaceKeeps
  <2>3. stage' = "constants" /\ stage' \in Walking /\ stage' \notin Promoting /\ stage' \notin Hunting
    BY <1>1, <1>13 DEF Walking, Promoting, Placed, Hunting
  <2>4. RestInv'
    BY <1>1, <1>2, <1>9, <1>13, <2>2, <2>3 DEF RestInv
  <2>5. Only(Fi, instToErase \cup {id}, {"binary", "icmp"})
    <3>1. Only(Fi, {id}, {"binary", "icmp"})
      BY <1>2, <1>5, <1>9, <1>10 DEF Only, At, Shaped, NamesDiffer
    <3> QED
      BY <1>1, <1>2, <3>1 DEF ConstantsInv, Only
  <2>6. Only(Fi', instToErase', {"binary", "icmp"})
    <3>1. PICK g : g = Fi'
      OBVIOUS
    <3>2. Only(g, instToErase \cup {id}, {"binary", "icmp"})
      BY <1>2, <2>2, <2>5, <3>1, FollowsOnly
    <3> QED
      BY <2>1, <3>1, <3>2
  <2>7. Len(Fi'.layout) = Len(Fi.layout) /\ ~(bi' > Len(Fi'.layout))
    BY <1>1, <1>3, <1>5, <2>2 DEF Follows
  <2>8. ConstantsInv'
    BY <2>6, <2>7 DEF ConstantsInv
  <2> QED
    BY <2>2, <2>3, <2>4, <2>8, NotPromoting, NotElsewhere DEF Inv
<1> QED
  BY <1>11, <1>12, <1>13

LEMMA EndBlockKeeps ==
  ASSUME Inv, FOLD!EndBlock, FoldFrame
  PROVE  Inv'
<1>1. /\ stage = "constants" /\ bi <= Len(Fi.layout) /\ stage' = stage /\ pos' = 1 /\ bi' = bi + 1
      /\ instToErase' = {} /\ mod' = [mod EXCEPT ![fi] = Erase(Fi, instToErase)]
      /\ UNCHANGED <<fi, fresh, source, pipeline, pass, worklist, visited>>
  BY FoldingIs DEF FOLD!EndBlock, FOLD!SetF, FOLD!Visiting, FoldFrame, frame, m2r
<1>2. /\ ModInv /\ RestInv /\ fi \in DOMAIN mod /\ Shaped(Fi) /\ ConstantsInv
  BY Here DEF Inv, RestInv
<1>3. bi \in Nat \ {0}
  BY <1>2 DEF RestInv
<1>4. Trims(Erase(Fi, instToErase), Fi, instToErase)
  <2>1. PICK ops : ops = {"binary", "icmp"}
    OBVIOUS
  <2>2. Only(Fi, instToErase, ops) /\ ops \cap Terms = {}
    BY <1>1, <1>2, <2>1 DEF ConstantsInv, Terms
  <2> QED
    BY <1>2, <2>2, TrimErase
<1>5. ModInv' /\ DOMAIN mod' = DOMAIN mod
  BY <1>1, <1>2, <1>4, TrimStep
<1>6. stage' = "constants" /\ stage' \in Walking /\ stage' \notin Promoting /\ stage' \notin Hunting
  BY <1>1 DEF Walking, Promoting, Placed, Hunting
<1>7. bi' \in Nat \ {0} /\ pos' \in Nat \ {0}
  BY <1>1, <1>3
<1>8. RestInv'
  BY <1>1, <1>2, <1>5, <1>6, <1>7 DEF RestInv
<1>9. ConstantsInv'
  BY <1>1 DEF ConstantsInv, Only
<1> QED
  BY <1>5, <1>6, <1>8, <1>9, NotPromoting, NotElsewhere DEF Inv

LEMMA EndFunctionKeeps ==
  ASSUME Inv, FOLD!EndFunction, FoldFrame
  PROVE  Inv'
<1>1. /\ stage = "constants" /\ bi > Len(Fi.layout) /\ bi' = 1
      /\ fi' = IF fi < Len(mod) THEN fi + 1 ELSE 1
      /\ stage' = IF fi < Len(mod) THEN "constants" ELSE "done"
      /\ UNCHANGED <<mod, pos, instToErase, fresh, source, pipeline, pass, worklist, visited>>
  BY FoldingIs DEF FOLD!EndFunction, FoldFrame, frame, m2r
<1>2. /\ ModInv /\ RestInv /\ fi \in DOMAIN mod /\ ConstantsInv
  BY DEF Inv, RestInv
<1>3. ModInv' /\ fi' \in DOMAIN mod'
  BY <1>1, <1>2, NextFunctionIn
<1>4. instToErase' = {}
  BY <1>1, <1>2 DEF ConstantsInv
<1>5. /\ stage' \in {"constants", "done"} /\ stage' \notin Promoting /\ stage' \notin Hunting
      /\ stage' \notin Walking => fi' = 1
  BY <1>1 DEF Walking, Promoting, Placed, Hunting
<1>6. RestInv'
  BY <1>1, <1>2, <1>3, <1>4, <1>5 DEF RestInv
<1>7. ConstantsInv'
  BY <1>4 DEF ConstantsInv, Only
<1> QED
  BY <1>3, <1>5, <1>6, <1>7, NotPromoting, NotElsewhere DEF Inv

LEMMA ConstantFoldingKeeps ==
  ASSUME Inv, ConstantFolding
  PROVE  Inv'
<1>1. FOLD!Next /\ FoldFrame
  BY DEF ConstantFolding, FoldFrame
<1> QED
  BY <1>1, FoldNextKeeps, EndBlockKeeps, EndFunctionKeeps DEF FOLD!Next

--------------------------------------------------------------------------------
(* IfCombine.                                                              *)

LEMMA LastNames ==
  ASSUME NEW f, Shaped(f), NEW b \in Blocks(f), NEW c \in Blocks(f)
  PROVE  /\ Last(f.code[b]).id = Last(f.code[c]).id => b = c
         /\ \A n \in DOMAIN f.code[c] :
              f.code[c][n].id = Last(f.code[b]).id => b = c /\ n = Len(f.code[b])
<1>1. /\ Last(f.code[b]) = f.code[b][Len(f.code[b])] /\ Len(f.code[b]) \in DOMAIN f.code[b]
      /\ Last(f.code[c]) = f.code[c][Len(f.code[c])] /\ Len(f.code[c]) \in DOMAIN f.code[c]
  BY BlockOK
<1>2. \A n \in DOMAIN f.code[b], m \in DOMAIN f.code[c] :
        f.code[b][n].id = f.code[c][m].id => b = c /\ n = m
  BY DEF Shaped, NamesDiffer
<1> QED
  BY <1>1, <1>2

(* Block n gets a new branch; the old one is to be erased.                 *)
LEMMA BranchFolds ==
  ASSUME NEW f, Shaped(f), NEW n \in DOMAIN f.layout, NEW gone, BranchesFold(f, n, gone),
         NEW b, b = f.layout[n], NEW br, br = Last(f.code[b]),
         NEW i, i.op = "br", i.to \in Blocks(f), i.id \notin Ids(f) \cup gone,
         NEW g, g.layout = f.layout, Inserted(g.code[b], f.code[b], i),
         \A c \in Blocks(f) \ {b} : g.code[c] = f.code[c]
  PROVE  BranchesFold(g, n + 1, gone \cup {br.id})
<1>1. /\ f.layout \in Seq(Blocks(f)) /\ DOMAIN f.layout \subseteq Nat
      /\ \A j, k \in DOMAIN f.layout : f.layout[j] = f.layout[k] => j = k
  BY DEF Shaped, LabelsDiffer
<1>2. b \in Blocks(f) /\ Blocks(g) = Blocks(f)
  BY <1>1 DEF Blocks, ToSet
<1>3. /\ Len(f.code[b]) \in Nat \ {0} /\ br = f.code[b][Len(f.code[b])]
      /\ Len(f.code[b]) \in DOMAIN f.code[b]
  BY <1>2, BlockOK
<1>4. br.id \in Ids(f)
  <2>1. br \in ToSet(f.code[b])
    BY <1>3 DEF ToSet
  <2>2. br \in Instructions(f)
    BY <1>2, <2>1 DEF Instructions
  <2> QED
    BY <2>2 DEF Ids
<1>5. ASSUME NEW k \in DOMAIN g.layout, k >= n + 1
      PROVE  Last(g.code[g.layout[k]]).id \notin gone \cup {br.id}
  <2>1. PICK c : c = f.layout[k]
    OBVIOUS
  <2>2. c \in Blocks(f) /\ c # b /\ k >= n
    <3>1. k \in Nat /\ n \in Nat /\ k # n
      BY <1>1, <1>5
    <3> QED
      BY <1>1, <1>5, <2>1, <3>1 DEF Blocks, ToSet
  <2>3. Last(f.code[c]).id \notin gone
    BY <2>1, <2>2 DEF BranchesFold
  <2>4. Last(f.code[c]).id # br.id
    BY <1>2, <2>2, LastNames
  <2> QED
    BY <2>1, <2>2, <2>3, <2>4
<1>6. ASSUME NEW c \in Blocks(f), Last(g.code[c]).id \in gone \cup {br.id}
      PROVE  Replaceable(g.code[c], Blocks(f), gone \cup {br.id})
  <2>1. CASE c = b
    <3>0. PICK d : d = g.code[b]
      OBVIOUS
    <3>1. PICK L \in Nat : d = g.code[b] /\ L = Len(f.code[b])
      BY <1>3, <3>0
    <3>2. L > 0 /\ Len(d) = L + 1 /\ d[L] = i
      BY <1>3, <3>1 DEF Inserted
    <3>3. Len(d) - 1 = L /\ Len(d) > 1
      BY <3>2
    <3>4. i.id # br.id
      BY <1>4
    <3> QED
      BY <2>1, <3>1, <3>2, <3>3, <3>4 DEF Replaceable
  <2>2. CASE c # b
    <3>1. PICK d : d = f.code[c] /\ d = g.code[c]
      BY <2>2
    <3>2. Last(d).id # br.id
      BY <1>2, <2>2, <3>1, LastNames
    <3>3. Replaceable(d, Blocks(f), gone)
      BY <1>6, <3>1, <3>2 DEF BranchesFold
    <3>4. Len(d) - 1 \in DOMAIN d
      <4>1. Len(d) \in Nat /\ DOMAIN d = 1 .. Len(d)
        BY <3>1, BlockOK
      <4> QED
        BY <3>3, <4>1 DEF Replaceable
    <3>5. d[Len(d) - 1].id # br.id
      BY <1>2, <2>2, <3>1, <3>4, LastNames
    <3> QED
      BY <3>1, <3>3, <3>5 DEF Replaceable
  <2> QED
    BY <2>1, <2>2
<1> QED
  BY <1>2, <1>5, <1>6 DEF BranchesFold

(* Without the old branches every block ends in its new one.               *)
LEMMA FoldedEnds ==
  ASSUME NEW f, Shaped(f), NEW n, NEW gone, BranchesFold(f, n, gone)
  PROVE  \A b \in Blocks(f) : Ends(Erase(f, gone).code[b], Blocks(f))
<1> TAKE b \in Blocks(f)
<1>1. CASE Last(f.code[b]).id \notin gone
  BY <1>1, EraseEnds
<1>2. CASE Last(f.code[b]).id \in gone
  <2>1. PICK c : c = f.code[b]
    OBVIOUS
  <2>2. c \in Seq(ToSet(c)) /\ Len(c) \in Nat \ {0} /\ DOMAIN c = 1 .. Len(c) /\ Last(c) = c[Len(c)]
    BY <2>1, BlockOK
  <2>3. Replaceable(c, Blocks(f), gone)
    BY <1>2, <2>1 DEF BranchesFold
  <2>l. PICK L \in Nat \ {0} : L = Len(c)
    BY <2>1, BlockOK
  <2>m. PICK m \in Nat : m + 1 = L
    <3>1. L - 1 \in Nat /\ (L - 1) + 1 = L
      OBVIOUS
    <3> QED
      BY <3>1
  <2>4. m = Len(c) - 1 /\ m + 1 = Len(c)
    BY <2>l, <2>m
  <2>5. m \in DOMAIN c /\ c[m].op = "br" /\ c[m].to \in Blocks(f) /\ c[m].id \notin gone
    BY <2>2, <2>3, <2>4 DEF Replaceable
  <2>6. PICK K : K = {k \in DOMAIN c : c[k].id \notin gone}
    OBVIOUS
  <2>7. m \in DOMAIN c \cap K /\ \A k \in DOMAIN c \cap K : k <= m
    <3>1. ASSUME NEW k \in DOMAIN c \cap K PROVE k <= m
      <4>1. k # Len(c) /\ k \in 1 .. Len(c)
        BY <1>2, <2>1, <2>2, <2>6
      <4> QED
        BY <2>4, <4>1
    <3> QED
      BY <2>5, <2>6, <3>1
  <2>8. Kept(c, K) # <<>> /\ Last(Kept(c, K)) = c[m]
    <3>1. PICK S : S = ToSet(c)
      OBVIOUS
    <3>2. c \in Seq(S)
      BY <2>2, <3>1
    <3>3. \A k \in DOMAIN c \cap K : k <= m
      BY <2>7
    <3>4. m \in DOMAIN c \cap K
      BY <2>7
    <3> QED
      BY ONLY <3>2, <3>3, <3>4, KeptLast
  <2>9. Erase(f, gone).code[b] = Kept(c, K)
    BY <2>1, <2>6 DEF Erase, Shaped, LabelsDiffer
  <2>10. Terminator(c[m]) /\ Targets(c[m]) \subseteq Blocks(f)
    BY <2>5 DEF Terminator, Targets
  <2> QED
    BY <2>8, <2>9, <2>10 DEF Ends
<1> QED
  BY <1>1, <1>2

IfcFrame == UNCHANGED <<frame, pipeline, worklist, pos, m2r, licm, inl, psp>>

(* One function of the module is another one now.                          *)
LEMMA StepModule ==
  ASSUME ModInv, NEW k \in DOMAIN mod, NEW g, Shaped(g), g.name = mod[k].name,
         fresh' \in Nat, fresh <= fresh', Ids(g) \subseteq Ids(mod[k]) \cup fresh .. fresh' - 1,
         mod' = [mod EXCEPT ![k] = g], source' = source
  PROVE  ModInv' /\ DOMAIN mod' = DOMAIN mod /\ mod'[k] = g
<1>1. WellFormed(mod, fresh) /\ fresh \in Nat /\ mod \in Seq(ToSet(mod))
  BY DEF ModInv, WellFormed
<1>2. WellFormed([mod EXCEPT ![k] = g], fresh')
  BY <1>1, OneFunction
<1>3. DOMAIN mod' = DOMAIN mod /\ mod'[k] = g
  BY <1>1
<1>4. WellFormed(source', FirstName(source'))
  BY DEF ModInv
<1> QED
  BY <1>2, <1>3, <1>4 DEF ModInv

LEMMA CombineStep ==
  ASSUME Inv, stage \in Combining, stage' \in Combining \cup {"crash", "done"}, IfcFrame,
         ModInv', fi' \in DOMAIN mod', bi' \in Nat \ {0},
         stage' = "done" => fi' = 1 /\ bi' = 1,
         stage' \in {"collect", "merge", "done"} => instToErase' = {},
         FoldInv'
  PROVE  Inv'
<1>1. UNCHANGED <<pipeline, pass, pos, visited>>
  BY DEF IfcFrame, frame, m2r
<1>2. RestInv
  BY DEF Inv
<1>3. /\ stage' \notin Promoting /\ stage' \notin Hunting
      /\ stage' \notin {"constants", "hoist", "inline", "rename"}
      /\ stage' \notin Walking => stage' = "done"
      /\ stage' \notin Combining \cup {"constants", "crash", "trapped"} => stage' = "done"
      /\ stage' \notin {"constants", "fold", "crash", "trapped"} => stage' \in {"collect", "merge", "done"}
  BY DEF Walking, Promoting, Placed, Hunting, Combining
<1>4. pos' \in Nat \ {0} /\ pipeline' \in Seq(Known) /\ pass' \in Nat \ {0}
  BY <1>1, <1>2 DEF RestInv
<1>5. RestInv'
  BY <1>3, <1>4 DEF RestInv
<1> QED
  BY <1>3, <1>5, NotPromoting, NotElsewhere DEF Inv

LEMMA FoldBranchKeeps ==
  ASSUME Inv, IFC!FoldBranch, IfcFrame
  PROVE  Inv'
<1>1. /\ stage = "fold" /\ bi <= Len(Fi.layout) /\ bi' = bi + 1 /\ UNCHANGED <<fi, stage, source>>
  BY IfCombineIs DEF IFC!FoldBranch, IFC!Visiting, IfcFrame, frame
<1>2. /\ ModInv /\ fi \in DOMAIN mod /\ Shaped(Fi) /\ bi \in Nat \ {0}
      /\ fresh \in Nat /\ Ids(Fi) \subseteq 0 .. fresh - 1
  BY Here DEF Inv, RestInv
<1>3. instToErase \subseteq 0 .. fresh - 1 /\ BranchesFold(Fi, bi, instToErase)
  BY <1>1 DEF Inv, FoldInv
<1>4. PICK b, br : b = Fi.layout[bi] /\ br = Last(Fi.code[b])
  OBVIOUS
<1>5. bi \in DOMAIN Fi.layout /\ b \in Blocks(Fi)
  <2>1. Fi.layout \in Seq(Blocks(Fi))
    BY <1>2 DEF Shaped, LabelsDiffer
  <2>2. bi \in DOMAIN Fi.layout
    BY <1>1, <1>2, <2>1
  <2> QED
    BY <1>4, <2>2 DEF Blocks, ToSet
<1>6. /\ stage' \in Combining \cup {"crash", "done"} /\ stage \in Combining /\ stage' = "fold"
      /\ bi' \in Nat \ {0}
  BY <1>1, <1>2 DEF Combining
<1>7. \/ UNCHANGED <<mod, fresh, instToErase>>
      \/ \E to \in IFC!Taken(br) :
           /\ mod' = [mod EXCEPT ![fi] = InsertBeforeEnd(Fi, b, [op |-> "br", id |-> fresh, to |-> to])]
           /\ fresh' = fresh + 1
           /\ instToErase' = instToErase \cup {br.id}
  BY <1>4, IfCombineIs DEF IFC!FoldBranch, IFC!SetF, IFC!Block
<1>8. CASE UNCHANGED <<mod, fresh, instToErase>>
  <2>1. Fi' = Fi /\ ModInv' /\ fi' \in DOMAIN mod'
    BY <1>1, <1>2, <1>8 DEF Fi, ModInv
  <2>2. BranchesFold(Fi, bi + 1, instToErase)
    <3>1. ASSUME NEW k \in DOMAIN Fi.layout, k >= bi + 1 PROVE k >= bi
      <4>1. k \in Nat
        BY <1>2 DEF Shaped, LabelsDiffer
      <4> QED
        BY <1>2, <3>1, <4>1
    <3> QED
      BY <1>3, <3>1 DEF BranchesFold
  <2>3. FoldInv'
    BY <1>1, <1>3, <1>8, <2>1, <2>2 DEF FoldInv
  <2> QED
    BY <1>6, <2>1, <2>3, CombineStep
<1>9. CASE ~UNCHANGED <<mod, fresh, instToErase>>
  <2>1. PICK to \in IFC!Taken(br) :
           /\ mod' = [mod EXCEPT ![fi] = InsertBeforeEnd(Fi, b, [op |-> "br", id |-> fresh, to |-> to])]
           /\ fresh' = fresh + 1
           /\ instToErase' = instToErase \cup {br.id}
    BY <1>7, <1>9
  <2>2. to \in Blocks(Fi)
    <3>1. to \in Targets(br)
      BY DEF IFC!Taken, Targets
    <3>2. Targets(br) \subseteq Blocks(Fi)
      BY <1>2, <1>4, <1>5, BlockOK DEF Ends
    <3> QED
      BY <3>1, <3>2
  <2>3. PICK i : i = [op |-> "br", id |-> fresh, to |-> to]
    OBVIOUS
  <2>4. Instruction(i) /\ i.op = "br" /\ i.to \in Blocks(Fi) /\ i.id = fresh
    BY <2>2, <2>3 DEF Instruction
  <2>5. fresh \notin 0 .. fresh - 1
    BY <1>2
  <2>6. i.id \notin Ids(Fi) /\ i.id \notin Ids(Fi) \cup instToErase
    BY <1>2, <1>3, <2>4, <2>5
  <2>7. PICK g, new : g = InsertBeforeEnd(Fi, b, i) /\ new = {i.id}
    OBVIOUS
  <2>8. /\ Follows(g, Fi, new, {}) /\ Shaped(g) /\ Blocks(g) = Blocks(Fi)
        /\ Inserted(g.code[b], Fi.code[b], i)
        /\ \A c \in Blocks(Fi) \ {b} : g.code[c] = Fi.code[c]
    BY <1>2, <1>5, <2>4, <2>6, <2>7, InsertFollows
  <2>9. g.layout = Fi.layout /\ g.name = Fi.name
    BY <2>8 DEF Follows
  <2>10. BranchesFold(g, bi + 1, instToErase \cup {br.id})
    BY <1>2, <1>3, <1>4, <1>5, <2>4, <2>6, <2>8, <2>9, BranchFolds
  <2>11. Ids(g) \subseteq Ids(Fi) \cup {i.id}
    BY <1>2, <2>7, <2>8, FollowsIds
  <2>12. ModInv' /\ Fi' = g /\ DOMAIN mod' = DOMAIN mod
    <3>1. fresh' \in Nat /\ fresh <= fresh' /\ fresh \in fresh .. fresh' - 1
      BY <1>2, <2>1
    <3>2. Ids(g) \subseteq Ids(Fi) \cup fresh .. fresh' - 1
      BY <2>4, <2>11, <3>1
    <3>3. mod' = [mod EXCEPT ![fi] = g]
      BY <2>1, <2>3, <2>7
    <3> QED
      BY <1>1, <1>2, <2>8, <2>9, <3>1, <3>2, <3>3, StepFunction
  <2>13. instToErase' \subseteq 0 .. fresh' - 1
    <3>1. br.id \in Ids(Fi)
      <4>1. br \in ToSet(Fi.code[b])
        <5>1. Len(Fi.code[b]) \in DOMAIN Fi.code[b] /\ br = Fi.code[b][Len(Fi.code[b])]
          BY <1>2, <1>4, <1>5, BlockOK
        <5> QED
          BY <5>1 DEF ToSet
      <4> QED
        BY <1>5, <4>1 DEF Ids, Instructions
    <3>2. 0 .. fresh - 1 \subseteq 0 .. fresh' - 1
      BY <1>2, <2>1
    <3> QED
      BY <1>2, <1>3, <2>1, <3>1, <3>2
  <2>14. FoldInv'
    BY <1>1, <2>1, <2>10, <2>12, <2>13 DEF FoldInv
  <2>15. fi' \in DOMAIN mod'
    BY <1>1, <1>2, <2>12
  <2> QED
    BY <1>6, <2>12, <2>14, <2>15, CombineStep
<1> QED
  BY <1>8, <1>9

LEMMA NextIn ==
  ASSUME ModInv, fi \in DOMAIN mod, NEW n, n = IF fi < Len(mod) THEN fi + 1 ELSE 1
  PROVE  n \in DOMAIN mod
<1>1. Len(mod) \in Nat /\ DOMAIN mod = 1 .. Len(mod)
  BY Here
<1> QED
  BY <1>1

LEMMA EraseBranchesKeeps ==
  ASSUME Inv, IFC!EraseBranches, IfcFrame
  PROVE  Inv'
<1>1. /\ stage = "fold" /\ mod' = [mod EXCEPT ![fi] = Erase(Fi, instToErase)]
      /\ instToErase' = {} /\ bi' = 1 /\ UNCHANGED <<fresh, source>>
      /\ fi' = IF fi < Len(mod) THEN fi + 1 ELSE 1
      /\ stage' = IF fi < Len(mod) THEN "fold" ELSE "collect"
  BY IfCombineIs DEF IFC!EraseBranches, IFC!SetF, IFC!NextFunction, IfcFrame, frame
<1>2. ModInv /\ fi \in DOMAIN mod /\ Shaped(Fi) /\ fresh \in Nat
  BY Here DEF Inv, RestInv
<1>3. BranchesFold(Fi, bi, instToErase)
  BY <1>1 DEF Inv, FoldInv
<1>4. PICK g : g = Erase(Fi, instToErase)
  OBVIOUS
<1>5. \A b \in Blocks(Fi) : Ends(Erase(Fi, instToErase).code[b], Blocks(Fi))
  BY <1>2, <1>3, FoldedEnds
<1>6. Follows(g, Fi, {}, instToErase) /\ Shaped(g)
  BY <1>2, <1>4, <1>5, EraseFollows
<1>7. Ids(g) \subseteq Ids(Fi) \cup {}
  BY <1>2, <1>6, FollowsIds
<1>8. ModInv' /\ DOMAIN mod' = DOMAIN mod
  <2>1. g.name = mod[fi].name
    BY <1>6 DEF Follows, Fi
  <2>2. fresh' \in Nat /\ fresh <= fresh'
    BY <1>1, <1>2
  <2>3. Ids(g) \subseteq Ids(mod[fi]) \cup fresh .. fresh' - 1
    BY <1>7 DEF Fi
  <2>4. mod' = [mod EXCEPT ![fi] = g] /\ source' = source
    BY <1>1, <1>4
  <2> QED
    BY <1>2, <1>6, <2>1, <2>2, <2>3, <2>4, StepModule
<1>9. fi' \in DOMAIN mod'
  BY <1>1, <1>2, <1>8, NextIn
<1>10. FoldInv'
  BY <1>1 DEF FoldInv, BranchesFold
<1>11. stage \in Combining /\ stage' \in {"fold", "collect"} /\ stage' \in Combining \cup {"crash", "done"}
  BY <1>1 DEF Combining
<1>12. bi' \in Nat \ {0} /\ stage' # "done"
  BY <1>1, <1>11
<1> QED
  BY <1>1, <1>8, <1>9, <1>10, <1>11, <1>12, CombineStep

(* Nothing but the pass's own lists.                                       *)
LEMMA CombineOn ==
  ASSUME Inv, stage \in {"collect", "merge"}, stage' \in {"collect", "merge", "crash", "done"}, IfcFrame,
         ModInv', fi' \in DOMAIN mod', UNCHANGED instToErase, bi' \in Nat \ {0},
         stage' = "done" => fi' = 1 /\ bi' = 1
  PROVE  Inv'
<1>1. instToErase' = {}
  BY DEF Inv, RestInv
<1>2. stage \in Combining /\ stage' \in Combining \cup {"crash", "done"} /\ stage' # "fold"
  BY DEF Combining
<1>3. FoldInv'
  BY <1>2, NotElsewhere
<1> QED
  BY <1>1, <1>2, <1>3, CombineStep

LEMMA CollectKeeps ==
  ASSUME Inv, IFC!CollectBlock \/ IFC!EndCollect \/ IFC!MergeFreed \/ IFC!EndMerge, IfcFrame
  PROVE  Inv'
<1>1. ModInv /\ fi \in DOMAIN mod /\ bi \in Nat \ {0} /\ UNCHANGED source
  BY DEF Inv, RestInv, IfcFrame, frame
<1>2. /\ stage \in {"collect", "merge"} /\ stage' \in {"collect", "merge", "crash", "done"}
      /\ UNCHANGED <<mod, fresh, instToErase>> /\ bi' \in {1, bi, bi + 1}
      /\ \/ stage' # "done" /\ fi' = fi
         \/ bi' = 1 /\ fi' = (IF fi < Len(mod) THEN fi + 1 ELSE 1) /\ (stage' = "done" => fi' = 1)
  BY DEF IFC!CollectBlock, IFC!EndCollect, IFC!MergeFreed, IFC!EndMerge, IFC!NextFunction,
         IFC!Visiting, IFC!Merging
<1>3. ModInv' /\ fi' \in DOMAIN mod'
  <2>1. ModInv'
    BY <1>1, <1>2 DEF ModInv
  <2>2. fi' \in DOMAIN mod
    BY <1>1, <1>2, NextIn
  <2> QED
    BY <1>2, <2>1, <2>2
<1>4. bi' \in Nat \ {0}
  BY <1>1, <1>2
<1>5. stage' = "done" => fi' = 1 /\ bi' = 1
  BY <1>2
<1> QED
  BY <1>2, <1>3, <1>4, <1>5, CombineOn

LEMMA RenameIncomingSame ==
  ASSUME NEW i, NEW old, NEW new
  PROVE  Same(IFC!RenameIncoming(i, old, new), i)
<1>1. PICK j : j = IFC!RenameIncoming(i, old, new)
  OBVIOUS
<1>2. DOMAIN j = DOMAIN i /\ \A a \in DOMAIN i : a # "in" => j[a] = i[a]
  BY <1>1 DEF IFC!RenameIncoming
<1>3. "in" \notin Lasting
  BY DEF Lasting
<1> QED
  BY <1>1, <1>2, <1>3 DEF Same

(* The PHI nodes of a block with one predecessor.                          *)
LEMMA FoldPhisTrims ==
  ASSUME NEW f, Shaped(f), NEW b \in Blocks(f), NEW h, h = IFC!FoldPhis(f, b)
  PROVE  \E ids : Trims(h, f, ids)
<1>1. PICK ids : ids = {f.code[b][n].id : n \in IFC!Phis(f, b)}
  OBVIOUS
<1>2. PICK new : new = [id \in ids |-> IFC!Inst(f, id).in[1].v]
  OBVIOUS
<1>3. h = Erase(ReplaceUses(f, new), ids)
  BY <1>1, <1>2, IfCombineIs DEF IFC!FoldPhis
<1>4. Only(f, ids, {"phi"})
  <2>1. \A n \in IFC!Phis(f, b) : n \in DOMAIN f.code[b] /\ f.code[b][n].op = "phi"
    BY DEF IFC!Phis
  <2>2. NamesDiffer(f)
    BY DEF Shaped
  <2>3. ASSUME NEW c \in Blocks(f), NEW m \in DOMAIN f.code[c], At(f, c, m).id \in ids
        PROVE  At(f, c, m).op \in {"phi"}
    <3>1. PICK n \in IFC!Phis(f, b) : f.code[b][n].id = f.code[c][m].id
      BY <1>1, <2>3 DEF At
    <3>2. n \in DOMAIN f.code[b] /\ f.code[b][n].op = "phi"
      BY <2>1
    <3>3. c = b /\ m = n
      BY <2>2, <3>1, <3>2 DEF NamesDiffer
    <3> QED
      BY <3>2, <3>3 DEF At
  <2> QED
    BY <2>3 DEF Only
<1>5. PICK ops : ops = {"phi"}
  OBVIOUS
<1>6. Only(f, ids, ops) /\ ops \cap Terms = {}
  BY <1>4, <1>5 DEF Terms
<1>7. Trims(Erase(ReplaceUses(f, new), ids), f, ids)
  BY <1>6, TrimReplaceErase
<1> QED
  BY <1>3, <1>7

LEMMA OnlyPred ==
  ASSUME NEW f, Shaped(f), NEW b \in Blocks(f), IFC!CanMerge(f, b),
         NEW p, p = CHOOSE q \in IFC!Preds(f, b) : TRUE
  PROVE  /\ p \in Blocks(f) /\ p # b
         /\ \A c \in Blocks(f) : b \in Targets(Last(f.code[c])) => c = p
<1>1. PICK q \in IFC!Preds(f, b) : IFC!Preds(f, b) = {q} /\ q # b
  BY DEF IFC!CanMerge
<1>2. Preds(f, b) = {q} /\ p = q
  BY <1>1, IfCombineIs
<1>3. \A c \in Blocks(f) : b \in Targets(Last(f.code[c])) => c \in Preds(f, b)
  BY SuccessorsAre, EdgesNat DEF Preds
<1>4. p \in Blocks(f)
  BY <1>2 DEF Preds
<1> QED
  BY <1>1, <1>2, <1>3, <1>4

LEMMA MergedKeeps ==
  ASSUME NEW f, Shaped(f), NEW b \in Blocks(f), IFC!CanMerge(f, b), NEW g, g = IFC!Merged(f, b)
  PROVE  Shaped(g) /\ g.name = f.name /\ Ids(g) \subseteq Ids(f)
<1> DEFINE p == CHOOSE q \in IFC!Preds(f, b) : TRUE
           h == IFC!FoldPhis(f, b)
           code == [h.code EXCEPT ![p] = IFC!Front(h.code[p]) \o h.code[b]]
<1>1. p = CHOOSE q \in IFC!Preds(f, b) : TRUE
  OBVIOUS
<1>3. h = IFC!FoldPhis(f, b)
  OBVIOUS
<1>10. code = [h.code EXCEPT ![p] = IFC!Front(h.code[p]) \o h.code[b]]
  OBVIOUS
<1>11. g = [f EXCEPT
              !.layout = IFC!Kept(@, {n \in DOMAIN @ : @[n] # b}),
              !.code = [l \in IFC!Blocks(f) \ {b} |->
                          [n \in DOMAIN code[l] |->
                             IF l \in IFC!ToSet(IFC!Successors(f, b))
                               THEN IFC!RenameIncoming(code[l][n], b, p) ELSE code[l][n]]]]
  BY DEF IFC!Merged
<1> HIDE DEF p, h, code
<1>2. /\ p \in Blocks(f) /\ p # b
      /\ \A c \in Blocks(f) : b \in Targets(Last(f.code[c])) => c = p
  BY <1>1, OnlyPred
<1>4. PICK ids : Trims(h, f, ids)
  BY <1>3, FoldPhisTrims
<1>5. /\ Shaped(h) /\ Blocks(h) = Blocks(f) /\ Follows(h, f, {}, ids)
      /\ \A c \in Blocks(f) : Successors(h, c) = Successors(f, c)
  BY <1>4 DEF Trims
<1>6. \A c \in Blocks(h) : b \in Targets(Last(h.code[c])) => c = p
  BY <1>2, <1>5, SuccessorsAre
<1>7. h.layout = f.layout /\ Ids(h) \subseteq Ids(f) \cup {}
  BY <1>5, FollowsIds DEF Follows
<1>8. {"name", "layout", "code"} \subseteq DOMAIN f /\ DOMAIN h.code = Blocks(f)
  BY <1>5 DEF Shaped, LabelsDiffer
<1>9. PICK u : u = Joined(Front(h.code[p]), h.code[b])
  OBVIOUS
<1>12. /\ g.layout = Kept(f.layout, {n \in DOMAIN f.layout : f.layout[n] # b})
       /\ DOMAIN g.code = Blocks(f) \ {b} /\ DOMAIN g = DOMAIN f /\ g.name = f.name
       /\ \A l \in Blocks(f) \ {b} :
            g.code[l] = [n \in DOMAIN code[l] |->
                             IF l \in IFC!ToSet(IFC!Successors(f, b))
                               THEN IFC!RenameIncoming(code[l][n], b, p) ELSE code[l][n]]
  <2>1. PICK K : K = {n \in DOMAIN f.layout : f.layout[n] # b}
    OBVIOUS
  <2>2. PICK lay : lay = IFC!Kept(f.layout, K)
    OBVIOUS
  <2>3. PICK new : new = [l \in IFC!Blocks(f) \ {b} |->
                            [n \in DOMAIN code[l] |->
                               IF l \in IFC!ToSet(IFC!Successors(f, b))
                                 THEN IFC!RenameIncoming(code[l][n], b, p) ELSE code[l][n]]]
    OBVIOUS
  <2>4. g = [f EXCEPT !.layout = lay, !.code = new]
    BY <1>11, <2>1, <2>2, <2>3
  <2>5. g.layout = lay /\ g.code = new /\ DOMAIN g = DOMAIN f /\ g.name = f.name
    BY <1>8, <2>4
  <2>6. lay = Kept(f.layout, K) /\ IFC!Blocks(f) = Blocks(f)
    BY <2>2, IfCombineIs
  <2>7. DOMAIN new = Blocks(f) \ {b}
    BY <2>3, <2>6
  <2>8. \A l \in Blocks(f) \ {b} :
            new[l] = [n \in DOMAIN code[l] |->
                             IF l \in IFC!ToSet(IFC!Successors(f, b))
                               THEN IFC!RenameIncoming(code[l][n], b, p) ELSE code[l][n]]
    BY <2>3, <2>6
  <2> QED
    BY <2>1, <2>5, <2>6, <2>7, <2>8
<1>13. \A i : Same(i, i)
  BY DEF Same
<1>14. \A l \in Blocks(f) \ {b} : Rows(g.code[l], code[l])
  <2> TAKE l \in Blocks(f) \ {b}
  <2>1. PICK d, c : d = g.code[l] /\ c = code[l]
    OBVIOUS
  <2>2. d = [n \in DOMAIN c |-> IF l \in IFC!ToSet(IFC!Successors(f, b))
                                  THEN IFC!RenameIncoming(c[n], b, p) ELSE c[n]]
    BY <1>12, <2>1
  <2>3. d = [n \in DOMAIN c |-> d[n]]
    BY <2>2
  <2>4. \A n \in DOMAIN c : Same(d[n], c[n])
    BY <1>13, <2>2, RenameIncomingSame
  <2> QED
    BY <2>1, <2>3, <2>4 DEF Rows
<1>u. code = [h.code EXCEPT ![p] = u]
  BY <1>9, <1>10, IfCombineIs DEF Joined
<1>15. \A l \in Blocks(f) \ {b, p} : Rows(g.code[l], h.code[l])
  BY <1>8, <1>u, <1>14
<1>16. Rows(g.code[p], u)
  BY <1>2, <1>8, <1>u, <1>14
<1>17. FrontJoined(u, h.code[p], h.code[b], Len(h.code[p]) - 1)
  <2>1. PICK c, d : c = h.code[p] /\ d = h.code[b]
    OBVIOUS
  <2>2. c \in Seq(ToSet(c)) /\ c # <<>> /\ d \in Seq(ToSet(d)) /\ d # <<>>
    BY <1>2, <1>5, <2>1, BlockOK DEF Ends
  <2> QED
    BY <1>9, <2>1, <2>2, FrontJoinedIs
<1>18. MergedIn(g, h, p, b)
  BY <1>5, <1>7, <1>8, <1>12, <1>15, <1>16, <1>17 DEF MergedIn
<1>19. Shaped(g) /\ Ids(g) \subseteq Ids(h)
  BY <1>2, <1>5, <1>6, <1>18, MergedShaped
<1> QED
  BY <1>7, <1>12, <1>19

LEMMA MergeBlockKeeps ==
  ASSUME Inv, IFC!MergeBlock, IfcFrame
  PROVE  Inv'
<1>1. /\ stage = "merge" /\ UNCHANGED <<fi, fresh, stage, bi, instToErase, source>>
  BY DEF IFC!MergeBlock, IFC!Merging, IfcFrame, frame
<1>2. ModInv /\ fi \in DOMAIN mod /\ bi \in Nat \ {0} /\ fresh \in Nat
  BY Here DEF Inv, RestInv
<1>3. PICK k, b : k = IFC!Owner /\ b = IFC!Target
  OBVIOUS
<1>4. \/ mod' = mod
      \/ /\ IFC!CanMerge(mod[k], b) /\ b \in Blocks(mod[k])
         /\ mod' = [mod EXCEPT ![k] = IFC!Merged(mod[k], b)]
  BY <1>3, IfCombineIs DEF IFC!MergeBlock, IFC!Freed
<1>5. ModInv' /\ DOMAIN mod' = DOMAIN mod
  <2>1. CASE mod' = mod
    BY <1>1, <1>2, <2>1 DEF ModInv
  <2>2. CASE k \notin DOMAIN mod /\ mod' = [mod EXCEPT ![k] = IFC!Merged(mod[k], b)]
    <3>1. mod = [j \in DOMAIN mod |-> mod[j]]
      BY <1>2, Here
    <3>2. mod' = mod
      BY <2>2, <3>1
    <3> QED
      BY <2>1, <3>2
  <2>3. CASE /\ k \in DOMAIN mod /\ IFC!CanMerge(mod[k], b) /\ b \in Blocks(mod[k])
             /\ mod' = [mod EXCEPT ![k] = IFC!Merged(mod[k], b)]
    <3>1. PICK g : g = IFC!Merged(mod[k], b)
      OBVIOUS
    <3>2. Shaped(mod[k])
      BY <1>2, <2>3, FunctionOK DEF ModInv
    <3>3. PICK f : f = mod[k]
      OBVIOUS
    <3>4. Shaped(g) /\ g.name = mod[k].name /\ Ids(g) \subseteq Ids(mod[k])
      BY <2>3, <3>1, <3>2, <3>3, MergedKeeps
    <3>5. fresh' \in Nat /\ fresh <= fresh' /\ source' = source
      BY <1>1, <1>2
    <3>6. mod' = [mod EXCEPT ![k] = g] /\ k \in DOMAIN mod
      BY <2>3, <3>1
    <3>7. Ids(g) \subseteq Ids(mod[k]) \cup fresh .. fresh' - 1
      BY <3>4
    <3> QED
      BY <1>2, <3>4, <3>5, <3>6, <3>7, StepModule
  <2> QED
    BY <1>4, <2>1, <2>2, <2>3
<1>6. fi' \in DOMAIN mod' /\ bi' \in Nat \ {0}
  BY <1>1, <1>2, <1>5
<1>7. stage \in {"collect", "merge"} /\ stage' \in {"collect", "merge", "crash", "done"} /\ stage' # "done"
  BY <1>1
<1> QED
  BY <1>1, <1>5, <1>6, <1>7, CombineOn

LEMMA IfCombineKeeps ==
  ASSUME Inv, IfCombine
  PROVE  Inv'
<1>1. IFC!Next /\ IfcFrame
  BY DEF IfCombine, IfcFrame
<1> QED
  BY <1>1, FoldBranchKeeps, EraseBranchesKeeps, CollectKeeps, MergeBlockKeeps DEF IFC!Next

--------------------------------------------------------------------------------
(* ExtractLoopVariable.                                                    *)

LicmFrame == UNCHANGED <<frame, pipeline, fresh, walk, pos, m2r, ifc, inl, psp>>

LEMMA LoopStep ==
  ASSUME Inv, stage \in {"loops", "hoist"}, stage' \in {"loops", "hoist", "done"}, LicmFrame,
         ModInv', fi' \in DOMAIN mod', stage' = "done" => fi' = 1, HoistInv'
  PROVE  Inv'
<1>1. UNCHANGED <<pipeline, pass, pos, bi, instToErase>>
  BY DEF LicmFrame, frame, walk
<1>2. RestInv
  BY DEF Inv
<1>3. bi = 1 /\ instToErase = {}
  BY <1>2 DEF RestInv, Combining
<1>4. pos' \in Nat \ {0} /\ pipeline' \in Seq(Known) /\ pass' \in Nat \ {0} /\ bi' = 1 /\ instToErase' = {}
  BY <1>1, <1>2, <1>3 DEF RestInv
<1>5. /\ stage' \notin Promoting /\ stage' \notin Hunting
      /\ stage' \notin {"constants", "fold", "inline", "rename"}
      /\ stage' \notin Walking => fi' = 1
  BY DEF Walking, Promoting, Placed, Hunting
<1>6. RestInv'
  BY <1>4, <1>5 DEF RestInv
<1> QED
  BY <1>5, <1>6, NotPromoting, NotElsewhere DEF Inv

LEMMA NextFunctionKeeps ==
  ASSUME Inv, LICM!NextFunction, LicmFrame
  PROVE  Inv'
<1>1. /\ stage = "loops" /\ mod' = mod /\ UNCHANGED <<fresh, source>>
      /\ fi' = IF fi < Len(mod) THEN fi + 1 ELSE 1
      /\ stage' = IF fi < Len(mod) THEN "loops" ELSE "done"
  BY DEF LICM!NextFunction, LicmFrame, frame
<1>2. ModInv /\ fi \in DOMAIN mod
  BY DEF Inv, RestInv
<1>3. ModInv' /\ fi' \in DOMAIN mod'
  BY <1>1, <1>2, NextFunctionIn
<1>4. /\ stage \in {"loops", "hoist"} /\ stage' \in {"loops", "hoist", "done"} /\ stage' # "hoist"
      /\ stage' = "done" => fi' = 1
  BY <1>1
<1> QED
  BY <1>3, <1>4, LoopStep, NotElsewhere

LEMMA LoopRoundKeeps ==
  ASSUME Inv, LICM!EndRound, LicmFrame
  PROVE  Inv'
<1>1. /\ stage = "hoist" /\ UNCHANGED <<mod, fi, fresh, source>> /\ nextWorklist' = <<>>
      /\ \/ stage' = "loops"
         \/ stage' = "hoist" /\ worklist' = nextWorklist /\ preheader' = preheader
  BY DEF LICM!EndRound, LicmFrame, frame
<1>2. ModInv /\ fi \in DOMAIN mod /\ HoistInv
  BY DEF Inv, RestInv
<1>3. ModInv' /\ fi' \in DOMAIN mod' /\ Fi' = Fi
  BY <1>1, <1>2 DEF ModInv, Fi
<1>4. HoistInv'
  <2>1. ASSUME stage' = "hoist"
        PROVE  /\ preheader \in Blocks(Fi) /\ nextWorklist \in Seq(Nat)
               /\ \A id \in ToSet(nextWorklist) : Waits(Fi, id)
    BY <1>1, <1>2 DEF HoistInv
  <2>2. ToSet(<<>>) = {}
    BY DEF ToSet
  <2>3. <<>> \in Seq(Nat)
    OBVIOUS
  <2> QED
    BY <1>1, <1>3, <2>1, <2>2, <2>3 DEF HoistInv
<1>5. stage \in {"loops", "hoist"} /\ stage' \in {"loops", "hoist", "done"} /\ (stage' = "done" => fi' = 1)
  BY <1>1
<1> QED
  BY <1>3, <1>4, <1>5, LoopStep

(* Instructions that stay still wait.                                      *)
LEMMA FollowsWaits ==
  ASSUME NEW f, Shaped(f), NEW g, NEW new, NEW gone, Follows(g, f, new, gone), Blocks(g) = Blocks(f),
         NEW id, Waits(f, id), id \notin gone
  PROVE  Waits(g, id)
<1>1. PICK b \in Blocks(f) : \E n \in DOMAIN f.code[b] : f.code[b][n].id = id /\ ~Terminator(f.code[b][n])
  BY DEF Waits, At
<1>2. PICK m \in DOMAIN f.code[b] : f.code[b][m].id = id /\ ~Terminator(f.code[b][m])
  BY <1>1
<1>3. PICK i : i = f.code[b][m] /\ i.id \notin gone
  BY <1>2
<1>4. Kin(g.code[b], i)
  BY <1>3, FollowsHas
<1>5. PICK n \in DOMAIN g.code[b] : g.code[b][n].id = id /\ g.code[b][n].op = f.code[b][m].op
  BY <1>2, <1>3, <1>4 DEF Kin
<1>6. ~Terminator(g.code[b][n])
  BY <1>2, <1>5 DEF Terminator
<1> QED
  BY <1>5, <1>6 DEF Waits, At

WaitStill(f, g) == \A id : Waits(f, id) => Waits(g, id)

(* An instruction moves to the end of a block.                             *)
LEMMA MovedWaits ==
  ASSUME NEW f, Shaped(f), NEW b \in Blocks(f), NEW n \in DOMAIN f.code[b], NEW i, i = f.code[b][n],
         ~Terminator(i), NEW p \in Blocks(f),
         NEW ids, ids = {i.id}, NEW e, e = Erase(f, ids), NEW g, g = InsertBeforeEnd(e, p, i)
  PROVE  /\ Shaped(g) /\ g.name = f.name /\ Blocks(g) = Blocks(f) /\ Ids(g) \subseteq Ids(f)
         /\ WaitStill(f, g)
<1>1. PICK ops : ops = {i.op}
  OBVIOUS
<1>2. Only(f, ids, ops) /\ ops \cap Terms = {}
  <2>1. NamesDiffer(f)
    BY DEF Shaped
  <2>2. Only(f, ids, ops)
    BY <1>1, <2>1 DEF Only, At, NamesDiffer
  <2> QED
    BY <1>1, <2>2 DEF Terms, Terminator
<1>3. Trims(e, f, ids)
  BY <1>1, <1>2, TrimErase
<1>4. Follows(e, f, {}, ids) /\ Shaped(e) /\ Blocks(e) = Blocks(f) /\ Ids(e) \cap ids = {}
  BY <1>3 DEF Trims
<1>5. i.id \notin Ids(e) /\ i.id \in Ids(f) /\ Instruction(i) /\ p \in Blocks(e)
  <2>1. Instruction(i)
    BY BlockOK
  <2>2. i.id \in Ids(f)
    BY DEF Ids, Instructions, ToSet
  <2> QED
    BY <1>1, <1>4, <2>1, <2>2
<1>6. PICK new, none : new = {i.id} /\ none = {}
  OBVIOUS
<1>7. /\ Follows(g, e, new, {}) /\ Shaped(g) /\ Blocks(g) = Blocks(e)
      /\ Inserted(g.code[p], e.code[p], i)
  BY ONLY g = InsertBeforeEnd(e, p, i), <1>4, <1>5, <1>6, InsertFollows, SMTT(30)
<1>8. Ids(e) \subseteq Ids(f) \cup {} /\ Ids(g) \subseteq Ids(e) \cup new
  BY <1>4, <1>7, FollowsIds
<1>9. ASSUME NEW id, Waits(f, id) PROVE Waits(g, id)
  <2>1. CASE id = i.id
    <3>1. PICK c, d : c = e.code[p] /\ d = g.code[p]
      OBVIOUS
    <3>2. Len(c) \in Nat \ {0}
      BY <1>4, <3>1, BlockOK
    <3>3. Len(d) \in Nat /\ DOMAIN d = 1 .. Len(d)
      <4>1. p \in Blocks(g) /\ Shaped(g)
        BY <1>5, <1>7
      <4> QED
        BY <3>1, <4>1, BlockOK
    <3>4. Len(d) = Len(c) + 1 /\ d[Len(c)] = i
      BY <1>7, <3>1 DEF Inserted
    <3>5. Len(c) \in DOMAIN d
      BY <3>2, <3>3, <3>4
    <3>6. PICK l \in DOMAIN g.code[p] : g.code[p][l] = i
      BY <3>1, <3>4, <3>5
    <3>7. p \in Blocks(g) /\ g.code[p][l].id = id /\ ~Terminator(g.code[p][l])
      BY <1>5, <1>7, <2>1, <3>6
    <3> QED
      BY <3>7 DEF Waits, At
  <2>2. CASE id # i.id
    <3>1. id \notin ids
      BY <1>1, <2>2
    <3>2. Waits(e, id)
      BY <1>4, <1>9, <3>1, FollowsWaits
    <3>3. Follows(g, e, new, none) /\ id \notin none
      BY <1>6, <1>7
    <3> QED
      BY <1>4, <1>7, <3>2, <3>3, FollowsWaits
  <2> QED
    BY <2>1, <2>2
<1>10. g.name = f.name
  BY <1>4, <1>7 DEF Follows
<1> QED
  BY <1>4, <1>5, <1>6, <1>7, <1>8, <1>9, <1>10 DEF WaitStill

LEMMA HoistKeeps ==
  ASSUME Inv, LICM!Hoist, LicmFrame
  PROVE  Inv'
<1>1. /\ stage = "hoist" /\ worklist # <<>> /\ worklist' = Tail(worklist)
      /\ UNCHANGED <<fi, stage, preheader, fresh, source>>
  BY DEF LICM!Hoist, LicmFrame, frame
<1>2. ModInv /\ fi \in DOMAIN mod /\ Shaped(Fi) /\ fresh \in Nat
  BY Here DEF Inv, RestInv
<1>3. /\ preheader \in Blocks(Fi) /\ worklist \in Seq(Nat) /\ nextWorklist \in Seq(Nat)
      /\ \A id \in ToSet(worklist) \cup ToSet(nextWorklist) : Waits(Fi, id)
  BY <1>1 DEF Inv, HoistInv
<1>4. PICK id : id = Head(worklist)
  OBVIOUS
<1>5. id \in Nat /\ id \in ToSet(worklist) /\ Tail(worklist) \in Seq(Nat)
      /\ ToSet(Tail(worklist)) \subseteq ToSet(worklist)
  <2>1. PICK w \in Seq(Nat) : w = worklist /\ w # <<>>
    BY <1>1, <1>3
  <2>2. PICK L \in Nat : L = Len(w) /\ DOMAIN w = 1 .. L /\ L > 0
    BY <2>1
  <2>3. Head(w) = w[1] /\ 1 \in DOMAIN w /\ Tail(w) \in Seq(Nat)
    BY <2>1, <2>2
  <2>4. \A k \in DOMAIN Tail(w) : k + 1 \in DOMAIN w /\ Tail(w)[k] = w[k + 1]
    BY <2>1, <2>2
  <2> QED
    BY <1>4, <2>1, <2>3, <2>4 DEF ToSet
<1>6. PICK b \in Blocks(Fi) : \E n \in DOMAIN Fi.code[b] : Fi.code[b][n].id = id /\ ~Terminator(Fi.code[b][n])
  BY <1>3, <1>5 DEF Waits, At
<1>7. PICK n \in DOMAIN Fi.code[b] : Fi.code[b][n].id = id /\ ~Terminator(Fi.code[b][n])
  BY <1>6
<1>8. PICK i : i = Fi.code[b][n]
  OBVIOUS
<1>9. Inst(Fi, id) = i /\ i.id = id
  BY <1>2, <1>7, <1>8, InstIs
<1>10. \/ /\ mod' = [mod EXCEPT ![fi] = InsertBeforeEnd(Erase(Fi, {i.id}), preheader, i)]
          /\ nextWorklist' = nextWorklist
       \/ mod' = mod /\ nextWorklist' = Append(nextWorklist, id)
  BY <1>4, <1>9, ExtractIs DEF LICM!Hoist, LICM!SetF
<1>11. /\ ModInv' /\ DOMAIN mod' = DOMAIN mod /\ Blocks(Fi') = Blocks(Fi)
       /\ \A x : Waits(Fi, x) => Waits(Fi', x)
  <2>1. CASE mod' = mod
    BY <1>1, <1>2, <2>1 DEF ModInv, Fi
  <2>2. CASE mod' = [mod EXCEPT ![fi] = InsertBeforeEnd(Erase(Fi, {i.id}), preheader, i)]
    <3>1. PICK ids, e, g : ids = {i.id} /\ e = Erase(Fi, ids) /\ g = InsertBeforeEnd(e, preheader, i)
      OBVIOUS
    <3>2. PICK p : p = preheader
      OBVIOUS
    <3>3. p \in Blocks(Fi) /\ g = InsertBeforeEnd(e, p, i) /\ ~Terminator(i)
      BY <1>3, <1>7, <1>8, <3>1, <3>2
    <3>4. PICK f : f = Fi
      OBVIOUS
    <3>5. /\ Shaped(g) /\ g.name = f.name /\ Blocks(g) = Blocks(f) /\ Ids(g) \subseteq Ids(f)
          /\ WaitStill(f, g)
      <4>1. Shaped(f) /\ b \in Blocks(f) /\ n \in DOMAIN f.code[b] /\ i = f.code[b][n] /\ p \in Blocks(f)
        BY <1>2, <1>8, <3>3, <3>4
      <4>2. e = Erase(f, ids) /\ ids = {i.id}
        BY <3>1, <3>4
      <4> QED
        BY ONLY <3>3, <4>1, <4>2, MovedWaits
    <3>6. fresh' \in Nat /\ fresh <= fresh' /\ Ids(g) \subseteq Ids(Fi) \cup fresh .. fresh' - 1
      BY <1>1, <1>2, <3>4, <3>5
    <3>7. mod' = [mod EXCEPT ![fi] = g] /\ fi' = fi /\ source' = source /\ g.name = Fi.name
      BY <1>1, <2>2, <3>1, <3>4, <3>5
    <3>8. ModInv' /\ Fi' = g /\ DOMAIN mod' = DOMAIN mod
      BY <1>2, <3>5, <3>6, <3>7, StepFunction
    <3> QED
      BY <3>4, <3>5, <3>8 DEF WaitStill
  <2> QED
    BY <1>10, <2>1, <2>2
<1>12. nextWorklist' \in Seq(Nat) /\ ToSet(nextWorklist') \subseteq ToSet(nextWorklist) \cup {id}
  <2>1. CASE nextWorklist' = nextWorklist
    BY <1>3, <2>1
  <2>2. CASE nextWorklist' = Append(nextWorklist, id)
    <3>1. PICK w \in Seq(Nat) : w = nextWorklist
      BY <1>3
    <3>2. PICK L \in Nat : L = Len(w) /\ DOMAIN w = 1 .. L
      BY <3>1
    <3>3. PICK u : u = Append(w, id)
      OBVIOUS
    <3>4. /\ u \in Seq(Nat) /\ DOMAIN u = 1 .. L + 1 /\ u[L + 1] = id
          /\ \A k \in 1 .. L : u[k] = w[k]
      BY <1>5, <3>2, <3>3
    <3>5. \A k \in 1 .. L + 1 : k \in 1 .. L \/ k = L + 1
      OBVIOUS
    <3>6. \A k \in DOMAIN u : u[k] \in ToSet(w) \cup {id}
      BY <3>2, <3>4, <3>5 DEF ToSet
    <3>7. ToSet(u) \subseteq ToSet(w) \cup {id}
      BY <3>6 DEF ToSet
    <3> QED
      BY <2>2, <3>1, <3>3, <3>4, <3>7
  <2> QED
    BY <1>10, <2>1, <2>2
<1>13. \A x \in ToSet(worklist') \cup ToSet(nextWorklist') : Waits(Fi', x)
  <2>1. \A x \in ToSet(worklist') \cup ToSet(nextWorklist') : x \in ToSet(worklist) \cup ToSet(nextWorklist)
    BY <1>1, <1>5, <1>12
  <2> QED
    BY <1>3, <1>11, <2>1
<1>14. HoistInv'
  <2>1. preheader' \in Blocks(Fi')
    BY <1>1, <1>3, <1>11
  <2> QED
    BY <1>1, <1>5, <1>12, <1>13, <2>1 DEF HoistInv
<1>15. /\ fi' \in DOMAIN mod' /\ stage \in {"loops", "hoist"} /\ stage' \in {"loops", "hoist", "done"}
       /\ (stage' = "done" => fi' = 1)
  BY <1>1, <1>2, <1>11
<1> QED
  BY <1>11, <1>14, <1>15, LoopStep

(* A loop is blocks of the function, with a block before it.               *)
LEMMA LoopIn ==
  ASSUME Shaped(Fi), NEW h \in LICM!Headers
  PROVE  /\ LICM!Loop(h) \subseteq Blocks(Fi)
         /\ \A p \in LICM!Preheaders(h) : p \in Blocks(Fi)
<1> DEFINE f == Fi
<1>1. PICK p : p \in LICM!Latches(h)
  BY DEF LICM!Headers
<1>2. LICM!Latches(h) \subseteq Preds(Fi, h) /\ \A b : Preds(Fi, b) \subseteq Blocks(Fi)
  BY ExtractIs DEF LICM!Latches, Preds
<1>3. Edges(Fi, p, h) > 0 /\ p \in Blocks(Fi)
  BY <1>1, <1>2 DEF Preds
<1>4. h \in Blocks(Fi)
  <2>1. h \in ToSet(Successors(Fi, p))
    BY <1>3, EdgesNat
  <2> QED
    BY <1>3, <2>1, SuccessorsAre, BlockOK DEF Ends
<1>5. PICK B : B = Blocks(Fi)
  OBVIOUS
<1>6. PICK from : from = {h} \cup LICM!Latches(h)
  OBVIOUS
<1>7. from \in SUBSET B
  BY <1>2, <1>4, <1>5, <1>6
<1>8. PICK grown : grown = [s \in SUBSET B |-> s \cup (UNION {Preds(Fi, b) : b \in s \ {h}} \cap LICM!Reachable(Fi))]
  OBVIOUS
<1>9. grown \in [SUBSET B -> SUBSET B]
  BY <1>2, <1>5, <1>8
<1>10. PICK n \in Nat : n = Len(Fi.layout)
  BY DEF Shaped, LabelsDiffer
<1>11. LICM!Loop(h) = Closure(from, grown, n)
  BY <1>5, <1>6, <1>8, <1>10, ExtractIs DEF LICM!Loop
<1>12. LICM!Loop(h) \subseteq B
  BY <1>7, <1>9, <1>11, ClosureWithin
<1>13. \A q \in LICM!Preheaders(h) : q \in Blocks(Fi)
  BY <1>2, ExtractIs DEF LICM!Preheaders
<1> QED
  BY <1>5, <1>12, <1>13

(* What may move of a block waits there.                                   *)
LEMMA MayMove ==
  ASSUME NEW f, Shaped(f), NEW next \in Nat, Ids(f) \subseteq 0 .. next - 1,
         NEW b \in Blocks(f), NEW t, t = LICM!IdsIn(f.code[b])
  PROVE  t \in Seq(Nat) /\ \A k \in DOMAIN t : Waits(f, t[k])
<1>1. PICK c, S : c = f.code[b] /\ S = ToSet(c)
  OBVIOUS
<1>2. c \in Seq(S)
  BY <1>1, BlockOK
<1>3. PICK K : K = {n \in DOMAIN c : LICM!Movable(c[n])}
  OBVIOUS
<1>4. PICK s : s = Kept(c, K)
  OBVIOUS
<1>5. s \in Seq(S) /\ FromKept(s, c, K)
  BY <1>2, <1>4, KeptFrom
<1>6. t = [k \in DOMAIN s |-> s[k].id]
  BY <1>1, <1>3, <1>4, ExtractIs DEF LICM!IdsIn
<1>7. PICK L \in Nat : L = Len(s) /\ DOMAIN s = 1 .. L
  BY <1>5
<1>8. ASSUME NEW k \in 1 .. L PROVE s[k].id \in Nat /\ Waits(f, s[k].id)
  <2>1. PICK n \in DOMAIN c \cap K : s[k] = c[n]
    BY <1>5, <1>7 DEF FromKept
  <2>2. ~Terminator(c[n])
    BY <1>3, <2>1, ExtractIs DEF LICM!Movable
  <2>3. Waits(f, s[k].id)
    BY <1>1, <2>1, <2>2 DEF Waits, At
  <2>4. c[n].id \in Ids(f)
    BY <1>1, <2>1 DEF Ids, Instructions, ToSet
  <2> QED
    BY <2>1, <2>3, <2>4
<1>9. t \in [1 .. L -> Nat]
  BY <1>6, <1>7, <1>8
<1> QED
  BY <1>6, <1>7, <1>8, <1>9

LEMMA EnterLoopKeeps ==
  ASSUME Inv, LICM!EnterLoop, LicmFrame
  PROVE  Inv'
<1>1. /\ stage = "loops" /\ UNCHANGED <<mod, fi, fresh, source>> /\ nextWorklist' = <<>>
  BY DEF LICM!EnterLoop, LicmFrame, frame
<1>2. ModInv /\ fi \in DOMAIN mod /\ Shaped(Fi) /\ fresh \in Nat /\ Ids(Fi) \subseteq 0 .. fresh - 1
  BY Here DEF Inv, RestInv
<1>3. ModInv' /\ fi' \in DOMAIN mod' /\ Fi' = Fi
  BY <1>1, <1>2 DEF ModInv, Fi
<1>4. PICK h \in LICM!Headers :
        \/ stage' = stage
        \/ /\ stage' = "hoist"
           /\ preheader' \in LICM!Preheaders(h)
           /\ \E seq \in SetToSeqs(LICM!Loop(h)) :
                worklist' = FlattenSeq([k \in DOMAIN seq |-> LICM!IdsIn(Fi.code[seq[k]])])
  BY ExtractIs DEF LICM!EnterLoop
<1>5. stage \in {"loops", "hoist"} /\ stage' \in {"loops", "hoist", "done"} /\ (stage' = "done" => fi' = 1)
  BY <1>1, <1>4
<1>6. CASE stage' = stage
  BY <1>1, <1>3, <1>5, <1>6, LoopStep, NotElsewhere
<1>7. CASE /\ stage' = "hoist"
           /\ preheader' \in LICM!Preheaders(h)
           /\ \E seq \in SetToSeqs(LICM!Loop(h)) :
                worklist' = FlattenSeq([k \in DOMAIN seq |-> LICM!IdsIn(Fi.code[seq[k]])])
  <2>1. LICM!Loop(h) \subseteq Blocks(Fi) /\ preheader' \in Blocks(Fi)
    BY <1>2, <1>7, LoopIn
  <2>2. PICK S : S = LICM!Loop(h) /\ S \subseteq Blocks(Fi)
    BY <2>1
  <2>3. PICK seq \in SetToSeqs(S) :
          worklist' = FlattenSeq([k \in DOMAIN seq |-> LICM!IdsIn(Fi.code[seq[k]])])
    BY <1>7, <2>2
  <2>4. PICK f : f = Fi /\ Shaped(f) /\ Ids(f) \subseteq 0 .. fresh - 1
    BY <1>2
  <2>5. seq \in Seq(S)
    BY <2>2, <2>4, OrderIs
  <2>6. PICK L \in Nat : L = Len(seq) /\ DOMAIN seq = 1 .. L
    BY <2>5
  <2>7. PICK s : s = [k \in 1 .. L |-> LICM!IdsIn(f.code[seq[k]])]
    OBVIOUS
  <2>8. ASSUME NEW k \in 1 .. L PROVE s[k] \in Seq(Nat) /\ \A l \in DOMAIN s[k] : Waits(f, s[k][l])
    <3>1. PICK b : b = seq[k] /\ b \in Blocks(f)
      BY <2>2, <2>4, <2>5, <2>6
    <3>2. PICK t : t = s[k] /\ t = LICM!IdsIn(f.code[b])
      BY <2>7, <3>1
    <3> QED
      BY <1>2, <2>4, <3>1, <3>2, MayMove
  <2>9. s \in [1 .. L -> Seq(Nat)]
    BY <2>7, <2>8
  <2>10. PICK t : t = FlattenSeq(s)
    OBVIOUS
  <2>11. t \in Seq(Nat) /\ FromRows(t, s)
    <3>1. s \in Seq(Seq(Nat))
      BY <2>9
    <3> QED
      BY <2>10, <3>1, FlattenRows
  <2>12. worklist' = t
    BY <2>3, <2>4, <2>6, <2>7, <2>10
  <2>13. DOMAIN s = 1 .. L
    BY <2>7
  <2>14. \A j \in DOMAIN t : Waits(f, t[j])
    BY <2>8, <2>11, <2>13 DEF FromRows
  <2>15. \A id \in ToSet(worklist') : Waits(Fi, id)
    BY <2>4, <2>12, <2>14 DEF ToSet
  <2>16. ToSet(nextWorklist') = {} /\ nextWorklist' \in Seq(Nat)
    <3>1. ToSet(<<>>) = {}
      BY DEF ToSet
    <3>2. <<>> \in Seq(Nat)
      OBVIOUS
    <3> QED
      BY <1>1, <3>1, <3>2
  <2>17. HoistInv'
    <3>1. preheader' \in Blocks(Fi')
      BY <1>3, <2>1
    <3>2. worklist' \in Seq(Nat)
      BY <2>11, <2>12
    <3>3. \A id \in ToSet(worklist') \cup ToSet(nextWorklist') : Waits(Fi', id)
      BY <1>3, <2>15, <2>16
    <3> QED
      BY <2>16, <3>1, <3>2, <3>3 DEF HoistInv
  <2> QED
    BY <1>3, <1>5, <2>17, LoopStep
<1> QED
  BY <1>4, <1>6, <1>7

LEMMA ExtractLoopVariableKeeps ==
  ASSUME Inv, ExtractLoopVariable
  PROVE  Inv'
BY EnterLoopKeeps, NextFunctionKeeps, HoistKeeps, LoopRoundKeeps
   DEF ExtractLoopVariable, LICM!Next, LicmFrame
================================================================================
