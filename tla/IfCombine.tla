-------------------------------- MODULE IfCombine --------------------------------
(***************************************************************************)
(* 4/IfCombine.cpp: conditional branches on constants become unconditional *)
(* ones, then blocks with a single predecessor are merged into it.         *)
(*                                                                         *)
(* blockToMerge is one list for all functions and is never emptied: for    *)
(* every function after the first the blocks merged before are used after  *)
(* they were freed.                                                        *)
(***************************************************************************)
EXTENDS FlowIr

VARIABLES mod, fi, fresh, stage,
          bi,           \* the block at work, by position in the layout
          instToErase,
          blockToMerge, \* pairs of function and label
          merging       \* how many of them this function has gone through

Idle   == bi = 1 /\ instToErase = {} /\ blockToMerge = <<>> /\ merging = 0

F       == mod[fi]
SetF(f) == mod' = [mod EXCEPT ![fi] = f]
Block   == F.layout[bi]
Visiting(s) == stage = s /\ bi <= Len(F.layout)

(* The next function; after the last one, the next of the two walks.       *)
NextFunction(here, next) ==
  /\ fi' = IF fi < Len(mod) THEN fi + 1 ELSE 1
  /\ stage' = IF fi < Len(mod) THEN here ELSE next
  /\ bi' = 1

--------------------------------------------------------------------------------
(* Branches.                                                               *)

Taken(i) ==
  IF i.op = "condbr" /\ i.c \in {Const(1), Const(0)}
    THEN {IF i.c = Const(1) THEN i.then ELSE i.else} ELSE {}

(* The new branch comes before the old one, which waits for erasure.       *)
FoldBranch ==
  /\ Visiting("fold")
  /\ LET br == Last(F.code[Block])
     IN \/ /\ Taken(br) = {}
           /\ UNCHANGED <<mod, fresh, instToErase>>
        \/ \E to \in Taken(br) :
             /\ SetF(InsertBeforeEnd(F, Block, [op |-> "br", id |-> fresh, to |-> to]))
             /\ fresh' = fresh + 1
             /\ instToErase' = instToErase \cup {br.id}
  /\ bi' = bi + 1
  /\ UNCHANGED <<fi, stage, blockToMerge, merging>>

EraseBranches ==
  /\ stage = "fold" /\ bi > Len(F.layout)
  /\ SetF(Erase(F, instToErase))
  /\ instToErase' = {}
  /\ NextFunction("fold", "collect")
  /\ UNCHANGED <<fresh, blockToMerge, merging>>

--------------------------------------------------------------------------------
(* Blocks.                                                                 *)

(* getNumUses: only branches use a block.                                  *)
CollectBlock ==
  /\ Visiting("collect")
  /\ LET br == Last(F.code[Block])
     IN blockToMerge' = IF br.op = "br" /\ NumPreds(F, br.to) = 1
                          THEN Append(blockToMerge, <<fi, br.to>>) ELSE blockToMerge
  /\ bi' = bi + 1
  /\ UNCHANGED <<mod, fi, fresh, stage, instToErase, merging>>

EndCollect ==
  /\ stage = "collect" /\ bi > Len(F.layout)
  /\ stage' = "merge"
  /\ UNCHANGED <<mod, fi, fresh, bi, instToErase, blockToMerge, merging>>

(* MergeBlockIntoPredecessor.                                              *)
CanMerge(f, b) ==
  /\ \E p \in Preds(f, b) : Preds(f, b) = {p} /\ p # b /\ ToSet(Successors(f, p)) = {b}
  /\ \A n \in Phis(f, b) : Val(f.code[b][n].id) \notin Operands(f.code[b][n])

(* FoldSingleEntryPHINodes: a PHI node's first entry.                      *)
FoldPhis(f, b) ==
  LET ids == {f.code[b][n].id : n \in Phis(f, b)}
  IN Erase(ReplaceUses(f, [id \in ids |-> Inst(f, id).in[1].v]), ids)

(* replaceSuccessorsPhiUsesWith.                                           *)
RenameIncoming(i, old, new) ==
  IF i.op = "phi"
    THEN [i EXCEPT !.in = [k \in DOMAIN @ |->
            IF @[k].b = old THEN [@[k] EXCEPT !.b = new] ELSE @[k]]]
    ELSE i

Merged(f, b) ==
  LET p == CHOOSE q \in Preds(f, b) : TRUE
      g == FoldPhis(f, b)
      code == [g.code EXCEPT ![p] = Front(@) \o g.code[b]]
  IN [f EXCEPT
        !.layout = Kept(@, {n \in DOMAIN @ : @[n] # b}),
        !.code = [l \in Blocks(f) \ {b} |->
                    [n \in DOMAIN code[l] |->
                       IF l \in ToSet(Successors(f, b))
                         THEN RenameIncoming(code[l][n], b, p) ELSE code[l][n]]]]

Merging == stage = "merge" /\ merging < Len(blockToMerge)
Owner   == blockToMerge[merging + 1][1]
Target  == blockToMerge[merging + 1][2]
Freed   == Target \notin Blocks(mod[Owner])

MergeBlock ==
  /\ Merging /\ ~Freed
  /\ IF CanMerge(mod[Owner], Target)
       THEN mod' = [mod EXCEPT ![Owner] = Merged(@, Target)]
       ELSE UNCHANGED mod
  /\ merging' = merging + 1
  /\ UNCHANGED <<fi, fresh, stage, bi, instToErase, blockToMerge>>

(* A block that was merged for an earlier function: its memory may still   *)
(* say that it has no predecessor, or the compiler dies.                   *)
MergeFreed ==
  /\ Merging /\ Freed
  /\ \/ merging' = merging + 1 /\ UNCHANGED stage
     \/ stage' = "crash" /\ UNCHANGED merging
  /\ UNCHANGED <<mod, fi, fresh, bi, instToErase, blockToMerge>>

EndMerge ==
  /\ stage = "merge" /\ merging = Len(blockToMerge)
  /\ NextFunction("collect", "done")
  /\ merging' = 0
  /\ blockToMerge' = IF fi < Len(mod) THEN blockToMerge ELSE <<>>
  /\ UNCHANGED <<mod, fresh, instToErase>>

Next ==
  \/ FoldBranch \/ EraseBranches
  \/ CollectBlock \/ EndCollect
  \/ MergeBlock \/ MergeFreed \/ EndMerge
================================================================================
