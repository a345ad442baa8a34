------------------------------ MODULE MCLinearScan ------------------------------
(* Four virtual registers compete for two physical ones.  An instruction of *)
(* each operand shape stands for the shape; what the allocator sees of it   *)
(* is the set of virtual registers it touches.                              *)
EXTENDS LinearScan

CONSTANTS v1, v2, v3, v4, MaxBlockLen

MCVReg == {v1, v2, v3, v4}

MCInsts ==
  {BrCond(v, "T", FALSE) : v \in {v1, v2, v4}}
    \cup {MCLoad("LW", v1, v2), MCLoad("LD", v3, v1), MCStore("SD", v4, v2),
          MCImm("ADDI", v2, v3, 0), MCImm("ADDI", v3, Zero, 0),
          MCReg("ADD", v1, v3, v4), MCReg("SLT", v2, v1, v3),
          LoadAddr(v3, "G"), Ret(v4), Ret(NoReg), Br("T"),
          Call("F", <<v2, v3>>, v4), Call("F", <<>>, NoReg)}

(* A function: any block of up to MaxBlockLen instructions and a short edge *)
(* block, or a block and an empty one.                                      *)
MCFunctions ==
  {<<b, <<BrCond(v1, "T", FALSE)>>>> : b \in BoundedSeq(MCInsts, MaxBlockLen)}
    \cup {<<b, <<>>, <<Br("T")>>>> : b \in BoundedSeq(MCInsts, 1)}
================================================================================
