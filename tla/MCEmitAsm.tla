------------------------------- MODULE MCEmitAsm -------------------------------
(* Every block of two instructions over two virtual registers, with every  *)
(* terminator, then a second block that uses what the first one left.       *)
(* Values are two-bit words whose "32-bit" half is the low bit.             *)
EXTENDS EmitAsm

CONSTANTS a, b, MaxBody, MaxArgs

MCVReg    == {a, b}
MCValue   == 0 .. 3
MCSym     == {"B0", "B1", "F", "G"}
MCLayout  == <<"B0", "B1">>
MCSymAddr == [s \in MCSym |-> 3]
MCArgRegs == <<"a0", "a1">>
MCFrameSlots == <<a, b>>

MCAlu(opc, x, y) ==
  CASE opc = "ADDI" -> (x + y) % 4
    [] opc = "SUB"  -> (x - y) % 4
    [] opc = "SLT"  -> IF x < y THEN 1 ELSE 0

MCLoadResult(opc, cell) ==
  IF opc = "LD" THEN cell ELSE IF cell % 2 = 1 THEN 3 ELSE 0
MCStoreResult(opc, cell, x) ==
  IF opc = "SD" THEN x ELSE 2 * (cell \div 2) + (x % 2)

MCBody ==
  {MCImm("ADDI", a, b, 1), MCImm("ADDI", b, Zero, 2), MCImm("ADDI", a, SP, 1)}
    \cup {MCReg("SUB", x, y, z) : x, y, z \in MCVReg}
    \cup {MCLoad("LD", a, b), MCLoad("LW", b, b), MCLoad("LW", a, a),
          MCStore("SD", a, b), MCStore("SW", b, a), LoadAddr(b, "G")}
    \cup {Call("F", s, r) : s \in BoundedSeq(MCVReg, MaxArgs), r \in {a, NoReg}}
    \cup {BrCond(a, "B1", FALSE), BrCond(b, "B1", TRUE)}

MCBlocks(body, last) ==
  {Append(s, t) : s \in BoundedSeq(body, MaxBody), t \in last}

MCPrograms ==
  {("B0" :> p) @@ ("B1" :> q) :
     p \in MCBlocks(MCBody, {Br("B1"), Ret(a), Ret(NoReg)}),
     q \in {<<MCReg("SUB", b, b, a), Ret(b)>>}}

MCInitRegs == {(a :> 1) @@ (b :> 2)}
MCInitMems == {<<3, 0, 1>> @@ (0 :> 2)}
================================================================================
