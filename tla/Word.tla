---------------------------------- MODULE Word ----------------------------------
(***************************************************************************)
(* Two's complement words of Bits bits and the RV64 instructions the       *)
(* backend emits, as the ISA defines them (64 is scaled to Bits).          *)
(***************************************************************************)
EXTENDS Integers

CONSTANT Bits    \* width of a register
ASSUME BitsAssumption == Bits \in Nat \ {0, 1}

Words     == 0 .. 2^Bits - 1
Wrap(n)   == n % 2^Bits
Signed(x) == IF x >= 2^(Bits - 1) THEN x - 2^Bits ELSE x
Bool(p)   == IF p THEN 1 ELSE 0

(* Bit by bit combination of two words.                                    *)
Bit(x, i) == (x \div 2^i) % 2
Bitwise(op(_, _), x, y) ==
  LET low[i \in 0 .. Bits] ==
        IF i = 0 THEN 0
        ELSE low[i - 1] + 2^(i - 1) * op(Bit(x, i - 1), Bit(y, i - 1))
  IN low[Bits]
BitXor(x, y) == Bitwise(LAMBDA p, q : (p + q) % 2, x, y)
BitAnd(x, y) == Bitwise(LAMBDA p, q : p * q, x, y)
BitOr(x, y)  == Bitwise(LAMBDA p, q : p + q - p * q, x, y)

(* Division that rounds toward zero.                                       *)
Magnitude(n)   == IF n < 0 THEN -n ELSE n
Quotient(m, n) == LET q == Magnitude(m) \div Magnitude(n)
                  IN IF (m < 0) = (n < 0) THEN q ELSE -q

(* rd of `opc rd, x, y`.  DIV and REM by zero do not trap; a shift amount  *)
(* is taken modulo the width.                                              *)
Alu(opc, x, n) ==
  LET y == Wrap(n) IN
  CASE opc \in {"ADD", "ADDI"}  -> Wrap(x + y)
    [] opc = "SUB"              -> Wrap(x - y)
    [] opc = "MUL"              -> Wrap(x * y)
    [] opc = "DIV"              -> IF y = 0 THEN Wrap(-1)
                                   ELSE Wrap(Quotient(Signed(x), Signed(y)))
    [] opc = "REM"              -> IF y = 0 THEN x
                                   ELSE Wrap(Signed(x) - Signed(y) *
                                             Quotient(Signed(x), Signed(y)))
    [] opc \in {"XOR", "XORI"}  -> BitXor(x, y)
    [] opc = "AND"              -> BitAnd(x, y)
    [] opc = "OR"               -> BitOr(x, y)
    [] opc = "SLT"              -> Bool(Signed(x) < Signed(y))
    [] opc \in {"SLTU", "SLTIU"} -> Bool(x < y)
    [] opc \in {"SLL", "SLLI"}  -> Wrap(x * 2^(y % Bits))
    [] opc \in {"SRL", "SRLI"}  -> x \div 2^(y % Bits)
    [] opc \in {"SRA", "SRAI"}  -> Wrap(Signed(x) \div 2^(y % Bits))

(* A memory cell is one register wide; LW and SW move its low half.        *)
Half == 2^(Bits \div 2)
LoadResult(opc, cell) ==
  IF opc = "LD" THEN cell
  ELSE LET low == cell % Half IN Wrap(IF 2 * low >= Half THEN low - Half ELSE low)
StoreResult(opc, cell, x) ==
  IF opc = "SD" THEN x ELSE Half * (cell \div Half) + (x % Half)
================================================================================
