--------------------------------- MODULE Folding ---------------------------------
(***************************************************************************)
(* 4/ConstantFolding.cpp: what takes an instruction's place.               *)
(***************************************************************************)
EXTENDS IrArith, IrOperand

IsConst(x)   == x.k = "const"
BothConst(i) == IsConst(i.x) /\ IsConst(i.y)
ConstOf(n)   == Const(Signed(Wrap(n)))     \* ConstantInt::getSigned

Divisions == {"sdiv", "udiv"}
IsBin(i, bins) == i.op = "binary" /\ i.bin \in bins
RightIs(i, c, bins) == IsBin(i, bins) /\ i.y = Const(c) /\ ~IsConst(i.x)
LeftIs(i, c, bins)  == IsBin(i, bins) /\ i.x = Const(c) /\ ~IsConst(i.y)

(* The constants are sign-extended, for UDiv too.                          *)
FoldedConst(bin, l, r) ==
  CASE bin = "add" -> l + r
    [] bin = "sub" -> l - r
    [] bin = "mul" -> l * r
    [] bin \in Divisions -> Quotient(l, r)

(* The operand that takes an instruction's place; at most one.             *)
Folded(i) ==
  CASE IsBin(i, {"add", "sub", "mul"} \cup Divisions) /\ BothConst(i) ->
         {ConstOf(FoldedConst(i.bin, i.x.c, i.y.c))}
    [] RightIs(i, 0, {"add", "sub"}) \/ RightIs(i, 1, {"mul"} \cup Divisions) ->
         {i.x}
    [] LeftIs(i, 0, {"add"}) \/ LeftIs(i, 1, {"mul"}) -> {i.y}
    [] RightIs(i, 0, {"mul"}) \/ LeftIs(i, 0, {"mul"} \cup Divisions) -> {Const(0)}
    [] IsBin(i, {"srem"}) /\ i.y = Const(1) -> {Const(0)}
    [] i.op = "icmp" /\ BothConst(i) ->
         {Const(Bool(Compare(i.pred, Wrap(i.x.c), Wrap(i.y.c))))}
    [] OTHER -> {}

DividesByZero(i) == IsBin(i, Divisions) /\ BothConst(i) /\ i.y.c = 0
================================================================================
