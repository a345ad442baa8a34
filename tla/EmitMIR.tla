--------------------------------- MODULE EmitMIR ---------------------------------
(***************************************************************************)
(* emitModule of 5/EmitMIR.cpp: the global variables (Globals.tla), then   *)
(* FuncLowering: LLVM IR instructions into VInsts.                         *)
(*                                                                         *)
(* A function is lowered block by block, an instruction at a time, as      *)
(* emitFunction's loop does; the edges that carry PHI moves are lowered    *)
(* after their block.  Constants and addresses go through a ring of        *)
(* temporary registers whose cursor runs on over the whole function.  The  *)
(* finished code runs on the machine of VMachine.tla and must implement    *)
(* IrMachine.tla.                                                          *)
(***************************************************************************)
EXTENDS MIR, Word, IrOperand

CONSTANTS IrVal, NoVal, IrEntry, SymAddr, SPValue, InitVals, InitMems,
          IrModules,  \* pairs: a function, labels to [phis, body]; globals
          ByteBase,   \* Globals'
          Layout,     \* all labels in layout order; a function has some
          Temps,      \* tempVRegs_, the ring of eight temporaries
          EdgeLabels  \* the labels makeEdgeLabel makes, in order

ASSUME EmitMIRAssumption ==
  /\ VReg = IrVal \cup ToSet(Temps)
  /\ IrVal \cap ToSet(Temps) = {}

VARIABLES program,      \* the LLVM function
          phase,        \* "globals", "lower", "edges" or "run"
          curBB,        \* position of the block being lowered
          curInst,      \* the loop over its instructions
          tempCursor,   \* tempCursor_, modulo the ring's size
          edgeId,       \* edgeId_
          insts,        \* insts_
          pendingEdges, \* pendingEdges_
          code,         \* the code of the finished blocks and edges
          origin,       \* for each VInst of code, the instruction it is from
          instOrigin    \* the same for insts

VARIABLES vregs, mem, pc, event,   \* VMachine running code
          before        \* history: vregs when the current instruction began

VARIABLES globals, gi, initStack, directives   \* Globals'

lowerVars == <<program, phase, curBB, curInst, tempCursor, edgeId, insts,
               pendingEdges, code, origin, instOrigin>>
InitVRegs == {[v \in VReg |-> IF v \in IrVal THEN i[v] ELSE 0] : i \in InitVals}

runVars   == <<vregs, mem, pc, event, before>>
globVars  == <<globals, gi, initStack, directives>>
vars      == <<lowerVars, runVars, globVars>>

GLOB == INSTANCE Globals

VM == INSTANCE VMachine
        WITH program <- code, at <- pc, Value <- Words, Entry <- IrEntry,
             InitRegs <- InitVRegs

--------------------------------------------------------------------------------
(* Operands.                                                               *)

(* nextTempVReg, the cursor being c.                                       *)
Temp(c)    == Temps[(c % Len(Temps)) + 1]
Advance(c) == (c + 1) % Len(Temps)

LoadImm(dst, c)     == MCImm("ADDI", dst, Zero, c)
Mov(dst, src)       == MCImm("ADDI", dst, src, 0)
AddImm(dst, src, c) == MCImm("ADDI", dst, src, c)

(* emitVAddImm as its callers guard it.                                    *)
AddImmIf(dst, c) == IF c = 0 THEN <<>> ELSE <<AddImm(dst, dst, c)>>

(* emitLoadValue, with emitConstExpr: the code that puts an operand in a   *)
(* register, the register, and the cursor after it.                        *)
LoadValue(x, c) ==
  CASE x.k = "val"   -> [code |-> <<>>, reg |-> x.v, next |-> c]
    [] x.k = "const" -> [code |-> <<LoadImm(Temp(c), x.c)>>,
                         reg |-> Temp(c), next |-> Advance(c)]
    [] x.k = "glob"  -> [code |-> <<LoadAddr(Temp(c), x.s)>>,
                         reg |-> Temp(c), next |-> Advance(c)]
    [] x.k = "cgep"  -> LET base == Temp(Advance(c)) IN
                        [code |-> <<LoadAddr(base, x.s), Mov(Temp(c), base)>>
                                    \o AddImmIf(Temp(c), x.off),
                         reg |-> Temp(c), next |-> Advance(Advance(c))]

(* The operands of a call, one after the other.                            *)
LoadAll(xs, c0) ==
  LET load[k \in 0 .. Len(xs)] ==
        IF k = 0 THEN [code |-> <<>>, regs |-> <<>>, next |-> c0]
        ELSE LET l == LoadValue(xs[k], load[k - 1].next)
             IN [code |-> load[k - 1].code \o l.code,
                 regs |-> Append(load[k - 1].regs, l.reg), next |-> l.next]
  IN load[Len(xs)]

--------------------------------------------------------------------------------
(* emitInst: what each kind of instruction is lowered to.  A result is the *)
(* code, the cursor after it and the edges it leaves pending.              *)

Lowered(instrs, next) == [code |-> instrs, next |-> next, edges |-> <<>>]

BinOpcode == [add |-> "ADD", sub |-> "SUB", mul |-> "MUL", sdiv |-> "DIV",
              srem |-> "REM", and |-> "AND", or |-> "OR", xor |-> "XOR",
              shl |-> "SLL", lshr |-> "SRL", ashr |-> "SRA"]
ShiftImm  == [shl |-> "SLLI", lshr |-> "SRLI", ashr |-> "SRAI"]

LowerBinary(i, c) ==
  LET l == LoadValue(i.x, c)
      r == LoadValue(i.y, l.next)
  IN IF i.bin \in DOMAIN ShiftImm /\ i.y.k = "const"
       THEN Lowered(Append(l.code, MCImm(ShiftImm[i.bin], i.def, l.reg, Wrap(i.y.c))),
                    l.next)
       ELSE Lowered(Append(l.code \o r.code,
                           MCReg(BinOpcode[i.bin], i.def, l.reg, r.reg)),
                    r.next)

(* emitICmpInst: every predicate comes down to xor with zero test, or to a *)
(* strict comparison, swapped or negated.                                  *)
LowerICmp(i, c) ==
  LET l   == LoadValue(i.x, c)
      r   == LoadValue(i.y, l.next)
      tmp == Temp(r.next)
      eq  == Temp(Advance(r.next))
      Not(rs)          == MCImm("XORI", i.def, rs, 1)
      Less(opc, x, y)  == <<MCReg(opc, i.def, x, y)>>
      NotLess(opc, x, y) == <<MCReg(opc, tmp, x, y), Not(tmp)>>
      compare ==
        CASE i.pred = "eq"  -> <<MCReg("XOR", tmp, l.reg, r.reg),
                                 MCImm("SLTIU", i.def, tmp, 1)>>
          [] i.pred = "ne"  -> <<MCReg("XOR", tmp, l.reg, r.reg),
                                 MCImm("SLTIU", eq, tmp, 1), Not(eq)>>
          [] i.pred = "slt" -> Less("SLT", l.reg, r.reg)
          [] i.pred = "sgt" -> Less("SLT", r.reg, l.reg)
          [] i.pred = "sle" -> NotLess("SLT", r.reg, l.reg)
          [] i.pred = "sge" -> NotLess("SLT", l.reg, r.reg)
          [] i.pred = "ult" -> Less("SLTU", l.reg, r.reg)
          [] i.pred = "ugt" -> Less("SLTU", r.reg, l.reg)
          [] i.pred = "ule" -> NotLess("SLTU", r.reg, l.reg)
          [] i.pred = "uge" -> NotLess("SLTU", l.reg, r.reg)
  IN Lowered(l.code \o r.code \o compare,
             IF i.pred = "ne" THEN Advance(Advance(r.next)) ELSE Advance(r.next))

(* dst = otherwise + cond * (chosen - otherwise), with two more temps.     *)
Choose01(dst, cond, chosen, otherwise, c) ==
  <<MCReg("SUB", Temp(c), chosen, otherwise),
    MCReg("MUL", Temp(Advance(c)), cond, Temp(c)),
    MCReg("ADD", dst, otherwise, Temp(Advance(c)))>>

LowerSelect(i, c) ==
  LET l == LoadAll(<<i.c, i.x, i.y>>, c)
  IN Lowered(l.code \o Choose01(i.def, l.regs[1], l.regs[2], l.regs[3], l.next),
             Advance(Advance(l.next)))

(* llvm.smax and llvm.smin: cond = lhs < rhs picks one of the two.         *)
LowerMinMax(i, c) ==
  LET l    == LoadAll(<<i.x, i.y>>, c)
      cond == Temp(l.next)
      pick(chosen, otherwise) == Choose01(i.def, cond, chosen, otherwise, Advance(l.next))
  IN Lowered(l.code \o <<MCReg("SLT", cond, l.regs[1], l.regs[2])>>
               \o (IF i.op = "smax" THEN pick(l.regs[2], l.regs[1])
                                    ELSE pick(l.regs[1], l.regs[2])),
             Advance(Advance(Advance(l.next))))

LowerLoad(i, c) ==
  LET l == LoadValue(i.p, c)
  IN Lowered(Append(l.code, MCLoad(i.width, i.def, l.reg)), l.next)

StoreOpcode == [LW |-> "SW", LD |-> "SD", SW |-> "SW", SD |-> "SD"]
LowerStore(i, c) ==
  LET l == LoadAll(<<i.x, i.p>>, c)
  IN Lowered(Append(l.code, MCStore(StoreOpcode[i.width], l.regs[1], l.regs[2])),
             l.next)

(* emitGEPInst: constant indices are added up until a variable one comes.  *)
LowerGEP(i, c) ==
  LET base == LoadValue(i.p, c)
      step[k \in 0 .. Len(i.idx)] ==
        IF k = 0 THEN [code |-> Append(base.code, Mov(i.def, base.reg)),
                       off |-> 0, next |-> base.next]
        ELSE LET p      == step[k - 1]
                 x      == i.idx[k].i
                 stride == i.idx[k].stride
                 l      == LoadValue(x, p.next)
                 scale  == Temp(l.next)
             IN IF x.k = "const"
                  THEN [p EXCEPT !.off = @ + x.c * stride]
                  ELSE [code |-> p.code \o AddImmIf(i.def, p.off) \o l.code
                                   \o <<LoadImm(scale, stride),
                                        MCReg("MUL", scale, l.reg, scale),
                                        MCReg("ADD", i.def, i.def, scale)>>,
                        off |-> 0, next |-> Advance(l.next)]
      last == step[Len(i.idx)]
  IN Lowered(last.code \o AddImmIf(i.def, last.off), last.next)

LowerCast(i, c) ==
  LET l == LoadValue(i.x, c)
  IN Lowered(Append(l.code, Mov(i.def, l.reg)), l.next)

LowerAlloca(i, c) == Lowered(<<AddImm(i.def, SP, i.off)>>, c)

LowerCall(i, c) ==
  LET l == LoadAll(i.args, c)
  IN Lowered(Append(l.code, Call(i.callee, l.regs,
                                 IF i.def = NoVal THEN NoReg ELSE i.def)),
             l.next)

LowerRet(i, c) ==
  IF i.void THEN Lowered(<<Ret(NoReg)>>, c)
  ELSE LET l == LoadValue(i.x, c) IN Lowered(Append(l.code, Ret(l.reg)), l.next)

--------------------------------------------------------------------------------
(* Branches.  pred is the block being lowered, id the edge counter.        *)

CollectPhiMoves(pred, succ) ==
  LET phis == program[succ].phis
  IN [k \in DOMAIN phis |-> [dst |-> phis[k].def, src |-> phis[k].from[pred]]]

(* Mutant of Target: makeEdgeLabel forgets to count, so edges share a label. *)
SharedEdgeLabel(pred, succ, id) ==
  LET moves == CollectPhiMoves(pred, succ)
  IN IF moves = <<>>
       THEN [label |-> succ, edges |-> <<>>]
       ELSE [label |-> EdgeLabels[1],
             edges |-> <<[label |-> EdgeLabels[1], target |-> succ, moves |-> moves]>>]

(* Where a branch to succ goes: to succ, or to a pending edge block.       *)
Target(pred, succ, id) ==
  LET moves == CollectPhiMoves(pred, succ)
  IN IF moves = <<>>
       THEN [label |-> succ, edges |-> <<>>]
       ELSE [label |-> EdgeLabels[id + 1],
             edges |-> <<[label |-> EdgeLabels[id + 1], target |-> succ,
                          moves |-> moves]>>]

LowerBr(i, c, pred, id) ==
  LET t == Target(pred, i.to, id)
  IN [code |-> <<Br(t.label)>>, next |-> c, edges |-> t.edges]

LowerCondBr(i, c, pred, id) ==
  LET l == LoadValue(i.c, c)
      t == Target(pred, i.t, id)
      f == Target(pred, i.f, id + Len(t.edges))
  IN [code |-> l.code \o <<BrCond(l.reg, t.label, FALSE), Br(f.label)>>,
      next |-> l.next, edges |-> t.edges \o f.edges]

(* emitSwitchInst: a chain of comparisons, three temporaries for each.     *)
LowerSwitch(i, c, pred, id) ==
  LET val == LoadValue(i.x, c)
      chain[k \in 0 .. Len(i.cases)] ==
        IF k = 0 THEN [code |-> val.code, next |-> val.next, edges |-> <<>>]
        ELSE LET p    == chain[k - 1]
                 case == Temp(p.next)
                 tmp  == Temp(Advance(p.next))
                 iseq == Temp(Advance(Advance(p.next)))
                 t    == Target(pred, i.cases[k].to, id + Len(p.edges))
             IN [code |-> p.code \o <<LoadImm(case, i.cases[k].c),
                                      MCReg("XOR", tmp, val.reg, case),
                                      MCImm("SLTIU", iseq, tmp, 1),
                                      BrCond(iseq, t.label, FALSE)>>,
                 next |-> Advance(Advance(Advance(p.next))),
                 edges |-> p.edges \o t.edges]
      last == chain[Len(i.cases)]
      d    == Target(pred, i.default, id + Len(last.edges))
  IN [code |-> Append(last.code, Br(d.label)), next |-> last.next,
      edges |-> last.edges \o d.edges]

(* emitInst's dispatch.                                                    *)
LowerInst(i, c, pred, id) ==
  CASE i.op = "alloca" -> LowerAlloca(i, c)
    [] i.op = "binary" -> LowerBinary(i, c)
    [] i.op = "load"   -> LowerLoad(i, c)
    [] i.op = "store"  -> LowerStore(i, c)
    [] i.op = "call"   -> LowerCall(i, c)
    [] i.op \in {"smax", "smin"} -> LowerMinMax(i, c)
    [] i.op = "ret"    -> LowerRet(i, c)
    [] i.op = "br"     -> LowerBr(i, c, pred, id)
    [] i.op = "condbr" -> LowerCondBr(i, c, pred, id)
    [] i.op = "switch" -> LowerSwitch(i, c, pred, id)
    [] i.op = "icmp"   -> LowerICmp(i, c)
    [] i.op = "select" -> LowerSelect(i, c)
    [] i.op = "gep"    -> LowerGEP(i, c)
    [] i.op = "cast"   -> LowerCast(i, c)

(* emitPhiMoves: one copy after the other, none onto itself.               *)
PhiMoveCode(moves, c0) ==
  LET emit[k \in 0 .. Len(moves)] ==
        IF k = 0 THEN [code |-> <<>>, next |-> c0]
        ELSE LET l == LoadValue(moves[k].src, emit[k - 1].next)
             IN [code |-> emit[k - 1].code \o l.code
                            \o (IF l.reg = moves[k].dst THEN <<>>
                                ELSE <<Mov(moves[k].dst, l.reg)>>),
                 next |-> l.next]
  IN emit[Len(moves)]

--------------------------------------------------------------------------------
(* emitModule, emitFunction.                                               *)

Init ==
  /\ \E m \in IrModules : program = m[1] /\ globals = m[2]
  /\ GLOB!Idle
  /\ phase = "globals"
  /\ curBB = 1 /\ curInst = 1
  /\ tempCursor = 0 /\ edgeId = 0
  /\ insts = <<>> /\ instOrigin = <<>>
  /\ pendingEdges = <<>>
  /\ code = <<>> /\ origin = <<>>
  /\ vregs \in InitVRegs
  /\ mem \in InitMems
  /\ pc = <<IrEntry, 1>>
  /\ event = <<"none">>
  /\ before = vregs

Labels == SelectSeq(Layout, LAMBDA l : l \in DOMAIN program)
Label  == Labels[curBB]
Body   == program[Label].body

EmitGlobals ==
  /\ phase = "globals"
  /\ IF gi <= Len(globals) THEN GLOB!Next /\ UNCHANGED phase
                           ELSE phase' = "lower" /\ UNCHANGED globVars
  /\ UNCHANGED <<program, curBB, curInst, tempCursor, edgeId, insts,
                 pendingEdges, code, origin, instOrigin, runVars>>

LowerNext ==
  /\ phase = "lower" /\ curInst <= Len(Body)
  /\ LET l == LowerInst(Body[curInst], tempCursor, Label, edgeId)
     IN /\ insts' = insts \o l.code
        /\ instOrigin' = instOrigin \o [k \in DOMAIN l.code |-> <<Label, curInst>>]
        /\ tempCursor' = l.next
        /\ pendingEdges' = pendingEdges \o l.edges
        /\ edgeId' = edgeId + Len(l.edges)
  /\ curInst' = curInst + 1
  /\ UNCHANGED <<program, phase, curBB, code, origin, runVars, globVars>>

(* The block is handed over; its pending edges come next.                  *)
EmitBlock ==
  /\ phase = "lower" /\ curInst > Len(Body)
  /\ code' = code @@ (Label :> insts)
  /\ origin' = origin @@ (Label :> instOrigin)
  /\ phase' = "edges"
  /\ UNCHANGED <<program, curBB, curInst, tempCursor, edgeId, insts, instOrigin,
                 pendingEdges, runVars, globVars>>

(* An edge block: the PHI moves, then a jump to the successor.             *)
EmitEdge ==
  /\ phase = "edges" /\ pendingEdges # <<>>
  /\ LET edge  == Head(pendingEdges)
         moves == PhiMoveCode(edge.moves, tempCursor)
         lines == Append(moves.code, Br(edge.target))
     IN /\ code' = code @@ (edge.label :> lines)
        /\ origin' = origin @@
             (edge.label :> [k \in DOMAIN lines |-> <<Label, Len(Body)>>])
        /\ tempCursor' = moves.next
  /\ pendingEdges' = Tail(pendingEdges)
  /\ UNCHANGED <<program, phase, curBB, curInst, edgeId, insts, instOrigin, runVars, globVars>>

NextBlock ==
  /\ phase = "edges" /\ pendingEdges = <<>>
  /\ IF curBB < Len(Labels)
       THEN phase' = "lower" /\ curBB' = curBB + 1
       ELSE phase' = "run" /\ UNCHANGED curBB
  /\ curInst' = 1 /\ insts' = <<>> /\ instOrigin' = <<>>
  /\ UNCHANGED <<program, tempCursor, edgeId, pendingEdges, code, origin, runVars, globVars>>

(* A step of the finished code.  An instruction of the function begins     *)
(* where the code's origin changes, or at the start of a block.            *)
Begins(p) ==
  \/ p = VM!Done
  \/ p[1] \in DOMAIN program /\ (p[2] = 1 \/ origin[p[1]][p[2]] # origin[p[1]][p[2] - 1])

Run ==
  /\ phase = "run"
  /\ VM!Next
  /\ before' = IF Begins(pc') THEN vregs' ELSE before
  /\ UNCHANGED <<lowerVars, globVars>>

Next == EmitGlobals \/ LowerNext \/ EmitBlock \/ EmitEdge \/ NextBlock \/ Run

(* The compiler and the compiled code are sequential: they keep going.     *)
Spec == Init /\ [][Next]_vars /\ WF_vars(Next)

--------------------------------------------------------------------------------

(* The refinement mapping: a value of the function is what its register    *)
(* held when the instruction now running began.                            *)
IR == INSTANCE IrMachine
        WITH vals <- [v \in IrVal |-> before[v]],
             at <- IF phase # "run" THEN <<IrEntry, 1>>
                   ELSE IF pc = VM!Done THEN VM!Done
                   ELSE origin[pc[1]][pc[2]],
             IrInitVals <- InitVals, IrInitMems <- InitMems,
             IrSymAddr <- SymAddr, Frame <- SPValue

(* The lowered function computes what the LLVM function does: each         *)
(* instruction's result, every store, call and return in order, and the    *)
(* same way at every branch; the PHI nodes of a block change together and  *)
(* no temporary is taken for a second value while the first is needed      *)
(* (EmitMIR.cpp as a whole).                                               *)
ImplementsIR == IR!Spec

(* See Globals.                                                            *)
GlobalsAsDeclared == GLOB!GlobalsAsDeclared
================================================================================
