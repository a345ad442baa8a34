----------------------------- MODULE ConstantFolding -----------------------------
(***************************************************************************)
(* 4/ConstantFolding.cpp over functions with control flow: block after     *)
(* block in layout order; what was folded is erased at the end of its      *)
(* block.                                                                  *)
(***************************************************************************)
EXTENDS FlowIr, Folding

VARIABLES mod, fi, stage,
          bi,          \* the block at work, by position in the layout
          pos,         \* and the instruction
          instToErase

Idle == pos = 1

F       == mod[fi]
SetF(f) == mod' = [mod EXCEPT ![fi] = f]
Block   == F.layout[bi]
Code    == F.code[Block]
Visiting == stage = "constants" /\ bi <= Len(F.layout)

Foldable(i) == i.op \in {"binary", "icmp"} /\ (DividesByZero(i) \/ Folded(i) # {})
Left        == {n \in pos .. Len(Code) : Foldable(Code[n])}

(* The next instruction that can be folded.  The quotient of two constants *)
(* is computed by the compiler, which the processor stops when the divisor *)
(* is zero, whether or not the module ever runs the division.              *)
FoldNext ==
  /\ Visiting /\ Left # {}
  /\ LET n == Min(Left)
     IN \/ /\ ~DividesByZero(Code[n])
           /\ \E x \in Folded(Code[n]) : SetF(ReplaceUses(F, Code[n].id :> x))
           /\ instToErase' = instToErase \cup {Code[n].id}
           /\ pos' = n + 1
           /\ UNCHANGED stage
        \/ /\ DividesByZero(Code[n])
           /\ stage' = "trapped"
           /\ UNCHANGED <<mod, instToErase, pos>>
  /\ UNCHANGED <<fi, bi>>

EndBlock ==
  /\ Visiting /\ Left = {}
  /\ SetF(Erase(F, instToErase))
  /\ instToErase' = {}
  /\ bi' = bi + 1 /\ pos' = 1
  /\ UNCHANGED <<fi, stage>>

EndFunction ==
  /\ stage = "constants" /\ bi > Len(F.layout)
  /\ fi' = IF fi < Len(mod) THEN fi + 1 ELSE 1
  /\ stage' = IF fi < Len(mod) THEN "constants" ELSE "done"
  /\ bi' = 1
  /\ UNCHANGED <<mod, pos, instToErase>>

Next == FoldNext \/ EndBlock \/ EndFunction
================================================================================
