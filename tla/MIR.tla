---------------------------------- MODULE MIR ----------------------------------
(***************************************************************************)
(* The machine-level instructions the phases of the RV64 backend pass to   *)
(* each other: VInst of 5/AllocReg.h.  EmitMIR.cpp produces them over      *)
(* virtual registers, AllocReg.cpp reads which virtual registers they      *)
(* touch, EmitAsm.cpp prints them.                                         *)
(*                                                                         *)
(* An MC instruction keeps its operands in MCInst order (the destination   *)
(* first, except in a store).  Opcodes that the emitter treats alike are   *)
(* told apart only by `opc`; ADDI/XORI/SLTIU/SLLI/SRLI/SRAI are the        *)
(* immediate class, ADD..SRA the register class, LD/LW and SD/SW loads and *)
(* stores.  Branch targets, callees and symbols are members of a small     *)
(* set, never text.                                                        *)
(***************************************************************************)
EXTENDS Integers, SequencesExt

CONSTANTS VReg,    \* virtual registers (llvm::Register with isVirtual())
          NoReg,   \* the invalid register, llvm::Register()
          Sym      \* block labels, callees and global symbols

ASSUME NoRegAssumption == NoReg \notin VReg

(* Physical registers that the lowering names directly as operands.        *)
Zero == "zero"     \* X0
SP   == "sp"       \* X2

ImmOps   == {"ADDI", "XORI", "SLTIU", "SLLI", "SRLI", "SRAI"}
RegOps   == {"ADD", "SUB", "MUL", "DIV", "REM", "XOR", "SLT", "SLTU", "AND",
             "OR", "SLL", "SRL", "SRA"}
LoadOps  == {"LD", "LW"}
StoreOps == {"SD", "SW"}

(* The constructors emitMC and emitV* of EmitMIR.cpp.                      *)
MCImm(opc, rd, rs, imm) ==
  [kind |-> "MC", opc |-> opc, ops |-> <<rd, rs>>, imm |-> imm]
MCReg(opc, rd, rs1, rs2) ==
  [kind |-> "MC", opc |-> opc, ops |-> <<rd, rs1, rs2>>]
MCLoad(opc, rd, base)    == [kind |-> "MC", opc |-> opc, ops |-> <<rd, base>>]
MCStore(opc, val, base)  == [kind |-> "MC", opc |-> opc, ops |-> <<val, base>>]
LoadAddr(rd, sym) ==
  [kind |-> "MC", opc |-> "PseudoLA", ops |-> <<rd>>, sym |-> sym]

(* has_ret is ret # NoReg.                                                 *)
Call(sym, args, ret) ==
  [kind |-> "Call", sym |-> sym, args |-> args, ret |-> ret]
Ret(ret)             == [kind |-> "Ret", ret |-> ret]
Br(sym)              == [kind |-> "BrUncond", sym |-> sym]
BrCond(cond, sym, onZero) ==
  [kind |-> "BrCond", cond |-> cond, sym |-> sym, onZero |-> onZero]

(* All instructions over these registers and symbols.  What an MC          *)
(* instruction writes is the register of a value or a temporary.           *)
Operand == VReg \cup {Zero, SP}

VInst ==
  [kind : {"MC"}, opc : ImmOps, ops : VReg \X Operand, imm : Int]
    \cup [kind : {"MC"}, opc : RegOps, ops : VReg \X Operand \X Operand]
    \cup [kind : {"MC"}, opc : LoadOps, ops : VReg \X Operand]
    \cup [kind : {"MC"}, opc : StoreOps, ops : Operand \X Operand]
    \cup [kind : {"MC"}, opc : {"PseudoLA"}, ops : [{1} -> VReg], sym : Sym]
    \cup [kind : {"Call"}, sym : Sym, args : Seq(VReg), ret : VReg \cup {NoReg}]
    \cup [kind : {"Ret"}, ret : VReg \cup {NoReg}]
    \cup [kind : {"BrUncond"}, sym : Sym]
    \cup [kind : {"BrCond"}, cond : VReg, sym : Sym, onZero : BOOLEAN]

(* The operands of an MC instruction that addUsesDefs looks at.            *)
TouchedOperands(vi) ==
  CASE vi.opc \in ImmOps \cup LoadOps \cup StoreOps -> {vi.ops[1], vi.ops[2]}
    [] vi.opc \in RegOps -> {vi.ops[1], vi.ops[2], vi.ops[3]}
    [] vi.opc = "PseudoLA" -> {vi.ops[1]}

(* addUsesDefs with touchInterval's isVirtual test: the virtual registers  *)
(* whose live interval an instruction extends.                             *)
Touched(vi) ==
  VReg \cap CASE vi.kind = "MC"       -> TouchedOperands(vi)
              [] vi.kind = "Call"     -> ToSet(vi.args) \cup {vi.ret}
              [] vi.kind = "Ret"      -> {vi.ret}
              [] vi.kind = "BrCond"   -> {vi.cond}
              [] vi.kind = "BrUncond" -> {}
================================================================================
