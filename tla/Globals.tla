--------------------------------- MODULE Globals ---------------------------------
(***************************************************************************)
(* emitGlobals of 5/EmitMIR.cpp: the module's global variables as          *)
(* directives, and what an assembler makes of those.                       *)
(*                                                                         *)
(* A global is [name, external, size, dims, init]: an integer of size      *)
(* bytes or an array of such with the dimensions dims.  A constant is an   *)
(* integer, a sequence of elements, zeroinitializer or undef; only a       *)
(* declaration has none, so the code's second question for it is never     *)
(* answered no.  LLVM never has an array of zeros in another form than     *)
(* zeroinitializer.                                                        *)
(***************************************************************************)
EXTENDS Integers, Sequences, FiniteSets, SequencesExt

CONSTANT ByteBase  \* values of a byte

VARIABLES globals,
          gi,         \* position of the global at work
          initStack,  \* emitInit's constants, the next one first, each with
                      \* the dimensions of its type
          directives

NoInit == [k |-> "none"]
Global == globals[gi]

Product(s)       == FoldLeft(LAMBDA p, n : p * n, 1, s)
AllocSize(g, dims) == g.size * Product(dims)
IsZeroValue(c)   == c.k = "zero" \/ (c.k = "int" /\ c.v = 0)
Directive(d, n)  == [d |-> d, n |-> n]

Idle == gi = 1 /\ initStack = <<>> /\ directives = <<>>
Left == gi <= Len(globals)

SkipGlobal ==
  /\ Left /\ initStack = <<>>
  /\ Global.init = NoInit \/ Global.name = ""
  /\ gi' = gi + 1
  /\ UNCHANGED <<globals, initStack, directives>>

Header(section) ==
  <<Directive(section, 0)>>
    \o (IF Global.external THEN <<Directive("globl", Global.name)>> ELSE <<>>)
    \o <<Directive("align", 3), Directive("label", Global.name)>>

(* A global of zeros is done with its header.                              *)
EmitHeader ==
  /\ Left /\ initStack = <<>>
  /\ Global.init # NoInit /\ Global.name # ""
  /\ IF IsZeroValue(Global.init)
       THEN /\ directives' = directives \o Header("bss")
                               \o <<Directive("zero", AllocSize(Global, Global.dims))>>
            /\ gi' = gi + 1
            /\ UNCHANGED initStack
       ELSE /\ directives' = directives \o Header("data")
            /\ initStack' = <<[c |-> Global.init, dims |-> Global.dims]>>
            /\ UNCHANGED gi
  /\ UNCHANGED globals

(* An integer; .word and .quad are given it with its sign, .byte without,  *)
(* which is the same bytes.                                                *)
IntDirective(v) ==
  CASE Global.size = 4 -> Directive("word", v)
    [] Global.size = 8 -> Directive("quad", v)
    [] Global.size = 1 -> Directive("byte", v % ByteBase)
    [] OTHER           -> Directive("zero", Global.size)

ZeroElement(top) ==
  IF top.c.k = "int" /\ ~IsZeroValue(top.c) THEN IntDirective(top.c.v)
  ELSE Directive("zero", Global.size)
ConstDirective(top) ==
  IF top.c.k = "int" /\ ~IsZeroValue(top.c) THEN IntDirective(top.c.v)
  ELSE Directive("zero", AllocSize(Global, top.dims))

Elements(top) ==
  [k \in DOMAIN top.c.elems |-> [c |-> top.c.elems[k], dims |-> Tail(top.dims)]]

EmitInit ==
  /\ Left /\ initStack # <<>>
  /\ LET top  == Head(initStack)
         rest == Tail(initStack)
     IN IF top.c.k = "array"
          THEN /\ initStack' = Elements(top) \o rest
               /\ UNCHANGED <<directives, gi>>
          ELSE /\ directives' = Append(directives, ConstDirective(top))
               /\ initStack' = rest
               /\ gi' = IF rest = <<>> THEN gi + 1 ELSE gi
  /\ UNCHANGED globals

Next == SkipGlobal \/ EmitHeader \/ EmitInit

--------------------------------------------------------------------------------
(* The assembler: a sequence of bytes for each section, labels.            *)

ByteOf(v, k) == (v \div ByteBase ^ (k - 1)) % ByteBase
Bytes(v, size) == [k \in 1 .. size |-> ByteOf(v, k)]
Zeros(n)       == [k \in 1 .. n |-> 0]
Width          == [byte |-> 1, word |-> 4, quad |-> 8]

Put(s, bytes) == [s EXCEPT !.data[s.section] = @ \o bytes]

Assemble(s, line) ==
  CASE line.d \in {"bss", "data"} -> [s EXCEPT !.section = line.d]
    [] line.d = "globl" -> [s EXCEPT !.exported = @ \cup {line.n}]
    [] line.d = "align" -> Put(s, Zeros((- Len(s.data[s.section])) % 2 ^ line.n))
    [] line.d = "label" ->
         [s EXCEPT !.labels = Append(@, [name |-> line.n, section |-> s.section,
                                         at |-> Len(s.data[s.section])])]
    [] line.d = "zero"  -> Put(s, Zeros(line.n))
    [] OTHER            -> Put(s, Bytes(line.n, Width[line.d]))

Image ==
  FoldLeft(Assemble,
           [section |-> "text", data |-> [bss |-> <<>>, data |-> <<>>, text |-> <<>>],
            labels |-> <<>>, exported |-> {}],
           directives)

--------------------------------------------------------------------------------
(* The byte at offset o of a global, by the definition of its type: which  *)
(* element it is in, where that is in each dimension.                      *)
Path(g, e) ==
  [d \in DOMAIN g.dims |->
     1 + ((e \div Product(SubSeq(g.dims, d + 1, Len(g.dims)))) % g.dims[d])]
Leaf(g, e) ==
  FoldLeft(LAMBDA c, k : IF c.k = "array" THEN c.elems[k] ELSE c, g.init, Path(g, e))
ByteAllowed(g, o, b) ==
  LET leaf == Leaf(g, o \div g.size)
  IN CASE leaf.k = "zero"  -> b = 0
       [] leaf.k = "undef" -> TRUE
       [] leaf.k = "int"   -> b = ByteOf(leaf.v, 1 + (o % g.size))

Defined == {k \in DOMAIN globals : globals[k].init # NoInit /\ globals[k].name # ""}

(* When all directives are out, each defined global has one label, aligned *)
(* as its type asks, at which its section holds its initialiser's value,   *)
(* byte for byte, over its whole size and before the next label; those     *)
(* with external linkage are exported (emitGlobals, and LLVM's DataLayout).*)
GlobalsAsDeclared ==
  gi > Len(globals) =>
    LET image == Image
    IN /\ Len(image.labels) = Cardinality(Defined)
       /\ image.exported = {globals[k].name : k \in {d \in Defined : globals[d].external}}
       /\ \A k \in Defined :
            LET g    == globals[k]
                size == AllocSize(g, g.dims)
                l    == CHOOSE m \in ToSet(image.labels) : m.name = g.name
                held == image.data[l.section]
            IN /\ \E m \in ToSet(image.labels) : m.name = g.name
               /\ l.section # "text" /\ l.at % g.size = 0
               /\ l.at + size <= Len(held)
               /\ \A o \in 0 .. size - 1 : ByteAllowed(g, o, held[l.at + o + 1])
               /\ \A m \in ToSet(image.labels) :
                    m.section = l.section /\ m.at > l.at => m.at >= l.at + size
================================================================================
