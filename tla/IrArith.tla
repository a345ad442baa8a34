--------------------------------- MODULE IrArith ---------------------------------
(***************************************************************************)
(* LLVM's integer arithmetic on words of Bits bits: what the instructions  *)
(* that the optimiser rewrites and the backend lowers compute, and where   *)
(* LLVM leaves the result undefined.                                       *)
(***************************************************************************)
EXTENDS Word

(* Binary operators and comparisons.                                       *)
Undefined(op, x, y) ==
  \/ op \in {"sdiv", "srem", "udiv", "urem"} /\ y = 0
  \/ op \in {"sdiv", "srem"} /\ Signed(x) = -(2^(Bits - 1)) /\ Signed(y) = -1
  \/ op \in {"shl", "lshr", "ashr"} /\ y >= Bits

IrBinary(op, x, y) ==
  CASE op = "add"  -> Wrap(x + y)
    [] op = "sub"  -> Wrap(x - y)
    [] op = "mul"  -> Wrap(x * y)
    [] op = "sdiv" -> Wrap(Quotient(Signed(x), Signed(y)))
    [] op = "srem" -> Wrap(Signed(x) - Signed(y) * Quotient(Signed(x), Signed(y)))
    [] op = "udiv" -> x \div y
    [] op = "urem" -> x % y
    [] op = "and"  -> BitAnd(x, y)
    [] op = "or"   -> BitOr(x, y)
    [] op = "xor"  -> BitXor(x, y)
    [] op = "shl"  -> Wrap(x * 2^y)
    [] op = "lshr" -> x \div 2^y
    [] op = "ashr" -> Wrap(Signed(x) \div 2^y)

Compare(pred, x, y) ==
  CASE pred = "eq"  -> x = y
    [] pred = "ne"  -> x # y
    [] pred = "slt" -> Signed(x) < Signed(y)
    [] pred = "sgt" -> Signed(x) > Signed(y)
    [] pred = "sle" -> Signed(x) <= Signed(y)
    [] pred = "sge" -> Signed(x) >= Signed(y)
    [] pred = "ult" -> x < y
    [] pred = "ugt" -> x > y
    [] pred = "ule" -> x <= y
    [] pred = "uge" -> x >= y
================================================================================
