-------------------------------- MODULE IrMachine --------------------------------
(***************************************************************************)
(* What an LLVM IR function means: the part of LLVM's language that        *)
(* 5/EmitMIR.cpp accepts, on one integer width.  It is the specification   *)
(* EmitMIR.tla has to implement, written from LLVM's semantics and not     *)
(* from the lowering.                                                      *)
(*                                                                         *)
(* A function maps block labels to [phis, body].  An operand is a value of *)
(* the function, a constant, a global's address or a constant getelementptr*)
(* of one.  The PHI nodes of a block take their incoming values together,  *)
(* on the edge.  Where LLVM leaves the result undefined (division by zero, *)
(* an over-long shift) any value will do.                                  *)
(***************************************************************************)
EXTENDS IrArith, IrOperand, Sequences

CONSTANTS IrVal,     \* arguments and instructions that have a value
          NoVal,     \* the def of an instruction without one
          IrEntry,   \* label of the entry block
          IrSymAddr, \* addresses of the globals
          Frame,     \* the address of the frame that holds the allocas
          IrInitVals, IrInitMems

VARIABLES program, vals, mem, at, event
irVars == <<program, vals, mem, at, event>>

IrDone == <<"done">>

ValueOf(x) ==
  CASE x.k = "val"   -> vals[x.v]
    [] x.k = "const" -> Wrap(x.c)
    [] x.k = "glob"  -> IrSymAddr[x.s]
    [] x.k = "cgep"  -> Wrap(IrSymAddr[x.s] + x.off)

(* getelementptr: the sum of index times stride.                           *)
GepOffset(idx) ==
  LET sum[k \in 0 .. Len(idx)] ==
        IF k = 0 THEN 0 ELSE sum[k - 1] + ValueOf(idx[k].i) * idx[k].stride
  IN sum[Len(idx)]

(* The values an instruction without side effects may have.                *)
Results(i) ==
  CASE i.op = "binary" ->
         LET x == ValueOf(i.x)  y == ValueOf(i.y)
         IN IF Undefined(i.bin, x, y) THEN Words ELSE {IrBinary(i.bin, x, y)}
    [] i.op = "icmp"   -> {Bool(Compare(i.pred, ValueOf(i.x), ValueOf(i.y)))}
    [] i.op = "select" -> {IF ValueOf(i.c) # 0 THEN ValueOf(i.x) ELSE ValueOf(i.y)}
    [] i.op = "smax"   -> {IF Signed(ValueOf(i.x)) < Signed(ValueOf(i.y))
                             THEN ValueOf(i.y) ELSE ValueOf(i.x)}
    [] i.op = "smin"   -> {IF Signed(ValueOf(i.x)) < Signed(ValueOf(i.y))
                             THEN ValueOf(i.x) ELSE ValueOf(i.y)}
    [] i.op = "gep"    -> {Wrap(ValueOf(i.p) + GepOffset(i.idx))}
    [] i.op = "cast"   -> {ValueOf(i.x)}
    [] i.op = "alloca" -> {Wrap(Frame + i.off)}
    [] i.op = "load"   -> {LoadResult(i.width, mem[ValueOf(i.p)])}

PureOps == {"binary", "icmp", "select", "smax", "smin", "gep", "cast", "alloca",
            "load"}

--------------------------------------------------------------------------------

Init ==
  /\ vals \in IrInitVals
  /\ mem \in IrInitMems
  /\ at = <<IrEntry, 1>>
  /\ event = <<"none">>

IrInst  == program[at[1]].body[at[2]]
IrNext  == <<at[1], at[2] + 1>>
Is(ops) == at # IrDone /\ IrInst.op \in ops

Evaluate ==
  /\ Is(PureOps)
  /\ \E r \in Results(IrInst) : vals' = [vals EXCEPT ![IrInst.def] = r]
  /\ at' = IrNext
  /\ UNCHANGED <<program, mem, event>>

StoreInst ==
  /\ Is({"store"})
  /\ mem' = [mem EXCEPT ![ValueOf(IrInst.p)] =
                          StoreResult(IrInst.width, @, ValueOf(IrInst.x))]
  /\ at' = IrNext
  /\ UNCHANGED <<program, vals, event>>

CallInst ==
  /\ Is({"call"})
  /\ event' = <<"call", IrInst.callee,
                [i \in DOMAIN IrInst.args |-> ValueOf(IrInst.args[i])]>>
  /\ IF IrInst.def = NoVal
       THEN UNCHANGED vals
       ELSE \E r \in Words : vals' = [vals EXCEPT ![IrInst.def] = r]
  /\ at' = IrNext
  /\ UNCHANGED <<program, mem>>

(* Following the edge to block l: its PHI nodes are assigned at once.      *)
PhiOf(l, v) == {k \in DOMAIN program[l].phis : program[l].phis[k].def = v}

Follow(l) ==
  /\ vals' = [v \in IrVal |->
                IF PhiOf(l, v) = {} THEN vals[v]
                ELSE ValueOf(program[l].phis[CHOOSE k \in PhiOf(l, v) : TRUE]
                               .from[at[1]])]
  /\ at' = <<l, 1>>
  /\ UNCHANGED <<program, mem, event>>

Br     == Is({"br"}) /\ Follow(IrInst.to)
CondBr == Is({"condbr"}) /\ Follow(IF ValueOf(IrInst.c) # 0 THEN IrInst.t
                                                            ELSE IrInst.f)

(* The case values of a switch differ from each other.                     *)
SwitchTarget(i) ==
  LET hits == {k \in DOMAIN i.cases : Wrap(i.cases[k].c) = ValueOf(i.x)}
  IN IF hits = {} THEN i.default ELSE i.cases[CHOOSE k \in hits : TRUE].to

Switch == Is({"switch"}) /\ Follow(SwitchTarget(IrInst))

RetInst ==
  /\ Is({"ret"})
  /\ event' = IF IrInst.void THEN <<"ret">> ELSE <<"ret", ValueOf(IrInst.x)>>
  /\ at' = IrDone
  /\ UNCHANGED <<program, vals, mem>>

Next == Evaluate \/ StoreInst \/ CallInst \/ Br \/ CondBr \/ Switch \/ RetInst

Spec == Init /\ [][Next]_irVars
================================================================================
