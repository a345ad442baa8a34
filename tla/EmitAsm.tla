--------------------------------- MODULE EmitAsm ---------------------------------
(***************************************************************************)
(* RvInstEmitter of 5/EmitAsm.cpp, driven as emitFunction (EmitMIR.cpp:    *)
(* 86-109) drives it, and the RV64 machine that runs what it prints.       *)
(*                                                                         *)
(* A function is compiled block by block in layout order: the allocator of *)
(* LinearScan.tla runs on the block, then the emitter prints each of its   *)
(* instructions under the register map it got and updates that map.  When  *)
(* the text is complete it is run: registers are few, a value without a    *)
(* register lives in its spill slot, and a call clobbers every             *)
(* caller-saved register.  The run must implement VMachine.tla.            *)
(*                                                                         *)
(* The frame is FrameLayout.tla's: slots are disjoint from each other and  *)
(* from mem.  The epilogue's restoring of ra, s0 and sp is not modelled    *)
(* here; "ret" ends the run.                                               *)
(***************************************************************************)
EXTENDS MIR, FiniteSets

CONSTANTS PhysRegs, ForceSpillModes,
          Value, Programs, Entry, SPValue, SymAddr, InitRegs, InitMems,
          Alu(_, _, _), LoadResult(_, _), StoreResult(_, _, _),
          Layout,    \* the labels of a function's blocks in layout order
          ArgRegs,   \* the argument registers a0..a7, as a sequence
          FrameSlots \* vregs by the offset of their spill slot, lowest first

(* The scratch registers of emitMCInst, emitInst and emitBranchCond.  The  *)
(* second is a register of its own so that both operands can be reloaded   *)
(* at once; the mutant OneScratch of X30 forgets that.                     *)
X29 == "t4"
OneScratch == "t4"
X30 == "t5"
A0  == ArgRegs[1]

Regs == {X29, X30} \cup ToSet(ArgRegs) \cup PhysRegs   \* all caller-saved

Labels == ToSet(Layout)

(* A block as the lowering leaves it: it ends with a jump or a return, and *)
(* its branches are to blocks of the function.                             *)
Block ==
  {b \in Seq(VInst) :
     /\ b # <<>> /\ b[Len(b)].kind \in {"Ret", "BrUncond"}
     /\ \A k \in 1 .. Len(b) :
          b[k].kind \in {"BrUncond", "BrCond"} => b[k].sym \in Labels}

ASSUME EmitAsmAssumption ==
  /\ Layout \in Seq(Sym) /\ IsInjective(Layout)
  /\ Entry \in Labels
  /\ Programs \subseteq [Labels -> Block]
  /\ InitRegs \subseteq [VReg -> Value]
  /\ ArgRegs \in Seq(STRING) /\ IsInjective(ArgRegs) /\ ArgRegs # <<>>
  /\ ToSet(ArgRegs) \cap {Zero, SP, X29, X30} = {}
  /\ Zero \notin VReg /\ SP \notin VReg

VARIABLES forceSpillAll, blocks, insts, stage, idx, start, end, spilled, phys,
          pending, active, freeRegs, physMap   \* of LinearScan

VARIABLES program,   \* the function
          phase,     \* "block", "alloc", "emit" (emitFunction's loop), "run"
          curBB,     \* position in Layout of the block being compiled
          emitIdx,   \* emitInsts' loop
          emitMap,   \* RvInstEmitter::physMap_
          text,      \* the lines printed so far, by label

          regs, slots, mem,   \* the running program's registers and memory
          pc,                 \* <<label, line>>, or Done
          event               \* the last call or return, as the callee or
                              \* the caller sees it

allocVars   == <<forceSpillAll, blocks, insts, stage, idx, start, end, spilled,
                 phys, pending, active, freeRegs, physMap>>
emitVars    == <<program, phase, curBB, emitIdx, emitMap, text>>
machineVars == <<regs, slots, mem, pc, event>>
vars        == <<allocVars, emitVars, machineVars>>

Alloc == INSTANCE LinearScan
           WITH Functions <- {[i \in DOMAIN Layout |-> p[Layout[i]]] : p \in Programs}

Done == <<"done">>

--------------------------------------------------------------------------------
(* The emitter.                                                            *)

(* physOrInvalid, then the scratch register: where useReg and defReg find  *)
(* an operand or put a result.                                             *)
Loc(r, scratch, map) ==
  IF r \notin VReg THEN r ELSE IF map[r] # NoReg THEN map[r] ELSE scratch

InSlot(r, map) == r \in VReg /\ map[r] = NoReg

(* The line useReg prints for a value without a register, and              *)
(* storeIfSpilled's.                                                       *)
LoadIfSpilled(r, scratch, map) ==
  IF InSlot(r, map) THEN <<[op |-> "ldslot", rd |-> scratch, slot |-> r]>>
                    ELSE <<>>
StoreIfSpilled(r, scratch, map) ==
  IF InSlot(r, map) THEN <<[op |-> "sdslot", rs |-> scratch, slot |-> r]>>
                    ELSE <<>>

EmitMCInst(vi, map) ==
  LET o == vi.ops IN
  CASE vi.opc = "PseudoLA" ->
         <<[op |-> "la", rd |-> Loc(o[1], X29, map), sym |-> vi.sym]>>
           \o StoreIfSpilled(o[1], X29, map)
    [] vi.opc \in ImmOps ->
         LoadIfSpilled(o[2], X29, map)
           \o <<[op |-> "alui", opc |-> vi.opc, rd |-> Loc(o[1], X29, map),
                 rs |-> Loc(o[2], X29, map), imm |-> vi.imm]>>
           \o StoreIfSpilled(o[1], X29, map)
    [] vi.opc \in RegOps ->
         LoadIfSpilled(o[2], X29, map) \o LoadIfSpilled(o[3], X30, map)
           \o <<[op |-> "alu", opc |-> vi.opc, rd |-> Loc(o[1], X29, map),
                 rs |-> Loc(o[2], X29, map), rt |-> Loc(o[3], X30, map)]>>
           \o StoreIfSpilled(o[1], X29, map)
    [] vi.opc \in LoadOps ->
         LoadIfSpilled(o[2], X30, map)
           \o <<[op |-> "load", opc |-> vi.opc, rd |-> Loc(o[1], X29, map),
                 base |-> Loc(o[2], X30, map)]>>
           \o StoreIfSpilled(o[1], X29, map)
    [] vi.opc \in StoreOps ->
         LoadIfSpilled(o[1], X29, map) \o LoadIfSpilled(o[2], X30, map)
           \o <<[op |-> "store", opc |-> vi.opc, rs |-> Loc(o[1], X29, map),
                 base |-> Loc(o[2], X30, map)]>>

(* spillAllPhysBeforeCall: every mapped register to its slot, in any order.*)
SpillAllPhys(map) ==
  LET mapped == SetToSeq({v \in VReg : map[v] # NoReg})
  IN [i \in DOMAIN mapped |->
        [op |-> "sdslot", rs |-> map[mapped[i]], slot |-> mapped[i]]]

EmptyMap == [v \in VReg |-> NoReg]

(* emitInst of a call: the first arguments into a0, a1, ...; the result    *)
(* from a0.  physMap_ is empty by then, so that an argument takes two      *)
(* lines.                                                                  *)
MoveArg(args, i) ==
  LoadIfSpilled(args[i], X29, EmptyMap)
    \o <<[op |-> "mv", rd |-> ArgRegs[i], rs |-> Loc(args[i], X29, EmptyMap)]>>

MoveArgs(args) ==
  LET moved == IF Len(args) < Len(ArgRegs) THEN Len(args) ELSE Len(ArgRegs)
  IN [q \in 1 .. 2 * moved |-> MoveArg(args, (q + 1) \div 2)[2 - (q % 2)]]

EmitCall(vi) ==
  MoveArgs(vi.args)
    \o <<[op |-> "call", sym |-> vi.sym, nargs |-> Len(vi.args)]>>
    \o StoreIfSpilled(vi.ret, A0, EmptyMap)

EmitRet(vi, map) ==
  IF vi.ret = NoReg THEN <<[op |-> "ret", hasRet |-> FALSE]>>
  ELSE (IF map[vi.ret] = NoReg
          THEN <<[op |-> "ldslot", rd |-> A0, slot |-> vi.ret]>>
          ELSE <<[op |-> "mv", rd |-> A0, rs |-> map[vi.ret]]>>)
       \o <<[op |-> "ret", hasRet |-> TRUE]>>

EmitBranchCond(vi) ==
  LoadIfSpilled(vi.cond, X29, EmptyMap)
    \o <<[op |-> IF vi.onZero THEN "beqz" ELSE "bnez",
          rs |-> Loc(vi.cond, X29, EmptyMap), sym |-> vi.sym]>>

SpillsFirst(vi) == vi.kind \in {"Call", "BrUncond", "BrCond"}

(* emitInst after its spillAllPhysBeforeCall.                              *)
EmitBody(vi, map) ==
  CASE vi.kind = "MC"       -> EmitMCInst(vi, map)
    [] vi.kind = "Call"     -> EmitCall(vi)
    [] vi.kind = "Ret"      -> EmitRet(vi, map)
    [] vi.kind = "BrUncond" -> <<[op |-> "j", sym |-> vi.sym]>>
    [] vi.kind = "BrCond"   -> EmitBranchCond(vi)

MapAfter(vi, map) == IF SpillsFirst(vi) THEN EmptyMap ELSE map

(* Lines tagged with the index of their VInst and the register map they    *)
(* were printed under (what a debugger would need to find a value).        *)
Tagged(lines, k, map) ==
  [i \in DOMAIN lines |-> [line |-> lines[i], inst |-> k, map |-> map]]

EmitInst(vi, k, map) ==
  (IF SpillsFirst(vi) THEN Tagged(SpillAllPhys(map), k, map) ELSE <<>>)
    \o Tagged(EmitBody(vi, MapAfter(vi, map)), k, MapAfter(vi, map))

--------------------------------------------------------------------------------
(* emitFunction's loop over the blocks.                                    *)

Init ==
  /\ program \in Programs
  /\ Alloc!InitAllocator
  /\ blocks = [i \in DOMAIN Layout |-> program[Layout[i]]]
  /\ phase = "block"
  /\ curBB = 0
  /\ emitIdx = 1
  /\ emitMap = EmptyMap
  /\ text = [l \in Labels |-> <<>>]
  /\ regs \in {[r \in Regs |-> x] : x \in Value}
  /\ slots \in InitRegs
  /\ mem \in InitMems
  /\ pc = <<Entry, 1>>
  /\ event = <<"none">>

NextBlock ==
  /\ phase = "block" /\ blocks # <<>>
  /\ Alloc!Allocate
  /\ phase' = "alloc"
  /\ curBB' = curBB + 1
  /\ UNCHANGED <<program, emitIdx, emitMap, text, machineVars>>

(* ra.allocate(insts_) runs to its end; emit() then copies its map.        *)
AllocateBlock ==
  /\ phase = "alloc"
  /\ \/ Alloc!BuildIntervals
     \/ Alloc!SpillAll
     \/ Alloc!StartScan
     \/ \E cur \in VReg : Alloc!Visit(cur)
     \/ Alloc!Finish
  /\ IF stage' = "idle"
       THEN phase' = "emit" /\ emitIdx' = 1 /\ emitMap' = physMap'
       ELSE UNCHANGED <<phase, emitIdx, emitMap>>
  /\ UNCHANGED <<program, curBB, text, machineVars>>

(* One iteration of emitInsts' loop.                                       *)
EmitNext ==
  /\ phase = "emit" /\ emitIdx <= Len(insts)
  /\ text' = [text EXCEPT ![Layout[curBB]] =
                            @ \o EmitInst(insts[emitIdx], emitIdx, emitMap)]
  /\ emitMap' = MapAfter(insts[emitIdx], emitMap)
  /\ emitIdx' = emitIdx + 1
  /\ UNCHANGED <<program, phase, curBB, allocVars, machineVars>>

BlockDone ==
  /\ phase = "emit" /\ emitIdx > Len(insts)
  /\ phase' = IF blocks = <<>> THEN "run" ELSE "block"
  /\ UNCHANGED <<program, curBB, emitIdx, emitMap, text, allocVars, machineVars>>

--------------------------------------------------------------------------------
(* The machine, one printed line at a time.                                *)

Running(ops) == phase = "run" /\ pc # Done /\ text[pc[1]][pc[2]].line.op \in ops
Line   == text[pc[1]][pc[2]].line
NextPC == <<pc[1], pc[2] + 1>>

Reg(r) == IF r = Zero THEN 0 ELSE IF r = SP THEN SPValue ELSE regs[r]

(* What the lines that write a register write to it.                       *)
LineResult ==
  CASE Line.op = "ldslot" -> slots[Line.slot]
    [] Line.op = "la"     -> SymAddr[Line.sym]
    [] Line.op = "alui"   -> Alu(Line.opc, Reg(Line.rs), Line.imm)
    [] Line.op = "alu"    -> Alu(Line.opc, Reg(Line.rs), Reg(Line.rt))
    [] Line.op = "load"   -> LoadResult(Line.opc, mem[Reg(Line.base)])
    [] Line.op = "mv"     -> Reg(Line.rs)

RunRegister ==
  /\ Running({"ldslot", "la", "alui", "alu", "load", "mv"})
  /\ regs' = [regs EXCEPT ![Line.rd] = LineResult]
  /\ pc' = NextPC
  /\ UNCHANGED <<allocVars, emitVars, slots, mem, event>>

RunStoreSlot ==
  /\ Running({"sdslot"})
  /\ slots' = [slots EXCEPT ![Line.slot] = regs[Line.rs]]
  /\ pc' = NextPC
  /\ UNCHANGED <<allocVars, emitVars, regs, mem, event>>

RunStore ==
  /\ Running({"store"})
  /\ mem' = [mem EXCEPT ![Reg(Line.base)] =
                          StoreResult(Line.opc, @, Reg(Line.rs))]
  /\ pc' = NextPC
  /\ UNCHANGED <<allocVars, emitVars, regs, slots, event>>

(* The callee is another function of this backend: its spillIncomingArgs   *)
(* (EmitMIR.cpp:281-295) takes argument i from its register, or from       *)
(* (i - 8)*8(s0), which is where the caller's frame begins.  It returns    *)
(* with every caller-saved register changed but a0, which holds the result.*)
IncomingArg(i) ==
  IF i <= Len(ArgRegs) THEN regs[ArgRegs[i]]
                       ELSE slots[FrameSlots[i - Len(ArgRegs)]]

RunCall ==
  /\ Running({"call"})
  /\ event' = <<"call", Line.sym, [i \in 1 .. Line.nargs |-> IncomingArg(i)]>>
  /\ \E result, junk \in Value :
       regs' = [r \in Regs |-> IF r = A0 THEN result ELSE junk]
  /\ pc' = NextPC
  /\ UNCHANGED <<allocVars, emitVars, slots, mem>>

RunRet ==
  /\ Running({"ret"})
  /\ event' = IF Line.hasRet THEN <<"ret", regs[A0]>> ELSE <<"ret">>
  /\ pc' = Done
  /\ UNCHANGED <<allocVars, emitVars, regs, slots, mem>>

RunJump ==
  /\ Running({"j"})
  /\ pc' = <<Line.sym, 1>>
  /\ UNCHANGED <<allocVars, emitVars, regs, slots, mem, event>>

RunBranch ==
  /\ Running({"beqz", "bnez"})
  /\ pc' = IF (Reg(Line.rs) = 0) = (Line.op = "beqz") THEN <<Line.sym, 1>>
                                                      ELSE NextPC
  /\ UNCHANGED <<allocVars, emitVars, regs, slots, mem, event>>

Next ==
  \/ NextBlock
  \/ AllocateBlock
  \/ EmitNext
  \/ BlockDone
  \/ RunRegister
  \/ RunStoreSlot
  \/ RunStore
  \/ RunCall
  \/ RunRet
  \/ RunJump
  \/ RunBranch

(* The compiler and the compiled code are sequential: they keep going.     *)
Spec == Init /\ [][Next]_vars /\ WF_vars(Next)

--------------------------------------------------------------------------------
(* Refinement.                                                             *)

CurTag == text[pc[1]][pc[2]]

(* A call has returned and the line that saves its result is next.         *)
ResultInFlight ==
  Running({"sdslot"}) /\ Line.rs = A0

(* Where the value of a virtual register is at this line.                  *)
View(v) ==
  IF phase # "run" \/ pc = Done THEN slots[v]
  ELSE IF ResultInFlight /\ Line.slot = v THEN regs[A0]
  ELSE IF CurTag.map[v] # NoReg THEN regs[CurTag.map[v]]
  ELSE slots[v]

(* The VInst the machine is at.                                            *)
ViewAt ==
  IF pc = Done THEN Done
  ELSE IF phase # "run" THEN <<Entry, 1>>
  ELSE IF ResultInFlight THEN <<pc[1], CurTag.inst + 1>>
  ELSE <<pc[1], CurTag.inst>>

VM == INSTANCE VMachine WITH vregs <- [v \in VReg |-> View(v)], at <- ViewAt

(* The printed text does what the MIR says: every value a later            *)
(* instruction, a store, a callee or the caller sees is the one the        *)
(* virtual register machine computes, whatever the scratch registers and   *)
(* the callees do in between (EmitAsm.cpp as a whole).                     *)
ImplementsVMachine == VM!Spec

(* A callee receives the values the caller passes, all of them.            *)
CallInst == program[pc[1]][CurTag.inst]

ArgumentsReachCallee ==
  [][Running({"call"}) =>
       event'[3] = [i \in DOMAIN CallInst.args |-> View(CallInst.args[i])]]_vars
================================================================================
