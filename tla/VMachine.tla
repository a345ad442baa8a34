-------------------------------- MODULE VMachine --------------------------------
(***************************************************************************)
(* What the MIR of one function means: a machine that executes VInsts over *)
(* an unlimited register file.  It is the specification that EmitAsm.tla   *)
(* has to implement and the target language of EmitMIR.tla.  The           *)
(* instructions are those of RV64 with virtual registers, so their meaning *)
(* is taken from the ISA; a call is one step whose result is arbitrary.    *)
(***************************************************************************)
EXTENDS MIR

CONSTANTS Value,          \* contents of a register or memory cell; 0 is one
          Entry,          \* the label of a function's first block
          SPValue,        \* the address SP holds in the function's body
          SymAddr,        \* the addresses of the global symbols
          InitRegs,       \* register files a function may start with
          InitMems,       \* memories a function may start with
          Alu(_, _, _),   \* what an opcode computes from two operand values
          LoadResult(_, _),     \* what LD and LW make of a memory cell
          StoreResult(_, _, _)  \* a cell after SD or SW of a value into it

VARIABLES program,  \* the function: block labels to sequences of VInsts
          vregs,    \* virtual registers
          mem,      \* memory apart from the register's own storage
          at,       \* <<label, index>> of the next instruction; "done" at the end
          event     \* the last call or return, as its observer sees it

vmVars == <<program, vregs, mem, at, event>>

NoEvent == <<"none">>
Done    == <<"done">>

Read(r) == IF r = Zero THEN 0 ELSE IF r = SP THEN SPValue ELSE vregs[r]
Inst    == program[at[1]][at[2]]
NextAt  == <<at[1], at[2] + 1>>

(* Whatever program is, it does not change.                                *)
Init ==
  /\ vregs \in InitRegs
  /\ mem \in InitMems
  /\ at = <<Entry, 1>>
  /\ event = NoEvent

Running(kind) == at # Done /\ Inst.kind = kind

(* The value an MC instruction that writes a register gives it.            *)
Result(vi) ==
  CASE vi.opc \in ImmOps   -> Alu(vi.opc, Read(vi.ops[2]), vi.imm)
    [] vi.opc \in RegOps   -> Alu(vi.opc, Read(vi.ops[2]), Read(vi.ops[3]))
    [] vi.opc \in LoadOps  -> LoadResult(vi.opc, mem[Read(vi.ops[2])])
    [] vi.opc = "PseudoLA" -> SymAddr[vi.sym]

Compute ==
  /\ Running("MC") /\ Inst.opc \notin StoreOps
  /\ vregs' = [vregs EXCEPT ![Inst.ops[1]] = Result(Inst)]
  /\ at' = NextAt
  /\ UNCHANGED <<program, mem, event>>

Store ==
  /\ Running("MC") /\ Inst.opc \in StoreOps
  /\ mem' = [mem EXCEPT ![Read(Inst.ops[2])] =
                          StoreResult(Inst.opc, @, Read(Inst.ops[1]))]
  /\ at' = NextAt
  /\ UNCHANGED <<program, vregs, event>>

CallStep ==
  /\ Running("Call")
  /\ event' = <<"call", Inst.sym,
                [i \in DOMAIN Inst.args |-> Read(Inst.args[i])]>>
  /\ IF Inst.ret = NoReg
       THEN UNCHANGED vregs
       ELSE \E result \in Value : vregs' = [vregs EXCEPT ![Inst.ret] = result]
  /\ at' = NextAt
  /\ UNCHANGED <<program, mem>>

Return ==
  /\ Running("Ret")
  /\ event' = IF Inst.ret = NoReg THEN <<"ret">>
                                  ELSE <<"ret", Read(Inst.ret)>>
  /\ at' = Done
  /\ UNCHANGED <<program, vregs, mem>>

Jump ==
  /\ Running("BrUncond")
  /\ at' = <<Inst.sym, 1>>
  /\ UNCHANGED <<program, vregs, mem, event>>

Branch ==
  /\ Running("BrCond")
  /\ at' = IF (Read(Inst.cond) = 0) = Inst.onZero THEN <<Inst.sym, 1>> ELSE NextAt
  /\ UNCHANGED <<program, vregs, mem, event>>

Next == Compute \/ Store \/ CallStep \/ Return \/ Jump \/ Branch

Spec == Init /\ [][Next]_vmVars
================================================================================
