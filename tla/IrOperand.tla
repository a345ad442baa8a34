-------------------------------- MODULE IrOperand --------------------------------
(* Operands of an LLVM IR instruction, the forms 5/EmitMIR.cpp's            *)
(* emitLoadValue takes: a value of the function, an integer constant, the   *)
(* address of a global, a constant getelementptr of one.                    *)
EXTENDS Integers

Val(v)       == [k |-> "val", v |-> v]
Const(c)     == [k |-> "const", c |-> c]
Glob(s)      == [k |-> "glob", s |-> s]
CGep(s, off) == [k |-> "cgep", s |-> s, off |-> off]
================================================================================
