------------------------------ MODULE MCCallStack ------------------------------
(* Every frame of up to one argument, two values, two of them allocas, on   *)
(* its own; and two functions that call each other and themselves.          *)
EXTENDS CallStack

MCAllocas == [size : {1, 12}, count : {1, 3}, align : {4, 16, 32}]
                \cup {[size |-> 4, count |-> 100, align |-> 16]}
MCShapes  == [arg : {0, 1}, value : {2}, alloca : BoundedSeq(MCAllocas, 2)]

Main   == [arg |-> 0, value |-> 1, alloca |-> <<[size |-> 1, count |-> 12, align |-> 16]>>]
Callee == [arg |-> 2, value |-> 1, alloca |-> <<[size |-> 4, count |-> 1, align |-> 4]>>]

MCPrograms == {<<s>> : s \in MCShapes} \cup {<<Main, Callee>>}

(* A variable and an alloca of main, an argument and a temporary of the     *)
(* other; a frame on its own is only entered and left.                      *)
MCUsed(p, f) ==
  IF Len(p) = 1 THEN {} ELSE IF f = 1 THEN {1, 2} ELSE {2, 5}
================================================================================
