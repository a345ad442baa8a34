--------------------------- MODULE ExtractLoopVariable ---------------------------
(***************************************************************************)
(* 4/ExtractLoopVariable.cpp: instructions of a loop whose operands come   *)
(* from outside it move to the block before the loop, inner loops first.   *)
(*                                                                         *)
(* A loop is named by its header.  The blocks of a loop are taken in any   *)
(* order that follows its forward edges (the code's is one of them), and   *)
(* loops that do not contain each other in any order.                      *)
(***************************************************************************)
EXTENDS FlowIr

VARIABLES mod, fi, stage, worklist,
          loopsDone,        \* headers of the loops processed
          loop, preheader,  \* doLICM's
          nextWorklist, moved, changed

NoLoop  == {}
Idle ==
  /\ loopsDone = {} /\ loop = NoLoop /\ preheader = NoBlock
  /\ nextWorklist = <<>> /\ moved = {} /\ changed = FALSE

F       == mod[fi]
SetF(f) == mod' = [mod EXCEPT ![fi] = f]

--------------------------------------------------------------------------------
(* LoopInfo.                                                               *)

Latches(h) == {p \in Preds(F, h) \cap Reachable(F) : Dominates(F, h, p)}
Headers    == {h \in Reachable(F) : Latches(h) # {}}

(* What reaches a latch of h without passing through h.                    *)
Loop(h) ==
  LET grown == [s \in SUBSET Blocks(F) |->
                  s \cup (UNION {Preds(F, b) : b \in s \ {h}} \cap Reachable(F))]
  IN Closure({h} \cup Latches(h), grown, Len(F.layout))

(* getLoopPreheader; at most one block.                                    *)
Preheaders(h) ==
  LET outside == Preds(F, h) \ Loop(h)
  IN {p \in outside : outside = {p} /\ Len(Successors(F, p)) = 1}

InOrder(seq) ==
  \A j, k \in DOMAIN seq :
    j < k => seq[j] \notin ToSet(Successors(F, seq[k])) \/ Dominates(F, seq[j], seq[k])

(* (MovableAny takes terminators too.)                                     *)
MovableAny(i) == i.op # "phi"
Movable(i) == i.op # "phi" /\ ~Terminator(i)
IdsIn(code) == LET s == Kept(code, {n \in DOMAIN code : Movable(code[n])})
              IN [k \in DOMAIN s |-> s[k].id]

EnterLoop ==
  /\ stage = "loops"
  /\ \E h \in Headers \ loopsDone :
       /\ \A g \in Headers \ {h} : g \in Loop(h) => g \in loopsDone
       /\ loopsDone' = loopsDone \cup {h}
       /\ IF Preheaders(h) = {}
            THEN UNCHANGED <<stage, loop, preheader, worklist>>
            ELSE /\ stage' = "hoist"
                 /\ loop' = Loop(h)
                 /\ preheader' \in Preheaders(h)
                 /\ \E seq \in SetToSeqs(Loop(h)) :
                      /\ InOrder(seq)
                      /\ worklist' = FlattenSeq([k \in DOMAIN seq |-> IdsIn(F.code[seq[k]])])
  /\ nextWorklist' = <<>> /\ moved' = {} /\ changed' = FALSE
  /\ UNCHANGED <<mod, fi>>

NextFunction ==
  /\ stage = "loops" /\ Headers \subseteq loopsDone
  /\ fi' = IF fi < Len(mod) THEN fi + 1 ELSE 1
  /\ stage' = IF fi < Len(mod) THEN "loops" ELSE "done"
  /\ loopsDone' = {}
  /\ UNCHANGED <<mod, loop, preheader, worklist, nextWorklist, moved, changed>>

--------------------------------------------------------------------------------
(* doLICM.                                                                 *)

Variant(x) ==
  /\ x.k = "val" /\ x.v # F.param
  /\ BlockOf(F, x.v) \in loop /\ x.v \notin moved

MayHaveSideEffects(i) == i.op = "call"
MayReadFromMemory(i)  == i.op \in {"load", "call"}

(* A store with invariant operands may move, whatever else the loop does.  *)
CanMove(i) ==
  /\ \A x \in Operands(i) : ~Variant(x)
  /\ i.op = "store" \/ ~(MayHaveSideEffects(i) \/ MayReadFromMemory(i))

Hoist ==
  /\ stage = "hoist" /\ worklist # <<>>
  /\ LET i == Inst(F, Head(worklist))
     IN IF CanMove(i)
          THEN /\ SetF(InsertBeforeEnd(Erase(F, {i.id}), preheader, i))
               /\ moved' = moved \cup {i.id}
               /\ changed' = TRUE
               /\ UNCHANGED nextWorklist
          ELSE /\ nextWorklist' = Append(nextWorklist, i.id)
               /\ UNCHANGED <<mod, moved, changed>>
  /\ worklist' = Tail(worklist)
  /\ UNCHANGED <<fi, stage, loopsDone, loop, preheader>>

(* (EndRoundAlways does not start a round with changed = false.)           *)
EndRoundAlways ==
  /\ stage = "hoist" /\ worklist = <<>>
  /\ nextWorklist' = <<>>
  /\ IF changed
       THEN /\ worklist' = nextWorklist
            /\ UNCHANGED <<stage, loop, preheader, moved>>
       ELSE /\ stage' = "loops" /\ loop' = NoLoop /\ preheader' = NoBlock /\ moved' = {}
            /\ UNCHANGED worklist
  /\ UNCHANGED <<mod, fi, loopsDone, changed>>

EndRound ==
  /\ stage = "hoist" /\ worklist = <<>>
  /\ nextWorklist' = <<>>
  /\ changed' = FALSE
  /\ IF changed
       THEN /\ worklist' = nextWorklist
            /\ UNCHANGED <<stage, loop, preheader, moved>>
       ELSE /\ stage' = "loops" /\ loop' = NoLoop /\ preheader' = NoBlock /\ moved' = {}
            /\ UNCHANGED worklist
  /\ UNCHANGED <<mod, fi, loopsDone>>

Next == EnterLoop \/ NextFunction \/ Hoist \/ EndRound
================================================================================
