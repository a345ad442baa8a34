------------------------------- MODULE FrameLayout -------------------------------
(***************************************************************************)
(* computeFrameLayoutBase of 5/EmitMIR.cpp, run by emitFunction for one    *)
(* function of the module after the other: where in its frame a function   *)
(* keeps its arguments, its SSA values, its allocas, the eight temporaries *)
(* and the saved ra and s0.                                                *)
(*                                                                         *)
(* An action is one iteration of one of its loops.  Offsets are int32_t:   *)
(* what does not fit is cut, and `overflow` remembers the functions that   *)
(* happened to.  The limit is scaled down for TLC.                         *)
(***************************************************************************)
EXTENDS Integers, Sequences

CONSTANTS Programs,   \* modules: sequences of functions' shapes
          TempSlots,  \* tempSlots_, 8 in the code
          Int32Limit  \* int32_t is -Int32Limit .. Int32Limit - 1

(* getTypeAllocSize times getArraySize, and getAlign, a power of two.      *)
Alignment == {n \in Nat : n <= 16 => n \in {1, 2, 4, 8, 16}}
Alloca == [size : Nat, count : Nat, align : Alignment]
Shape  == [arg : Nat, value : Nat, alloca : Seq(Alloca)]

ASSUME FrameLayoutAssumption ==
  /\ Programs \subseteq Seq(Shape)
  /\ TempSlots \in Nat
  /\ Int32Limit \in Nat \ {0}

(* The bytes of an alloca.                                                 *)
Bytes(a) == a.size * a.count

(* The slots of a function of shape p: arguments, values, allocas and      *)
(* temporaries, and the size of the i-th of them.                          *)
SlotCount(p) == p.arg + p.value + Len(p.alloca) + TempSlots
SlotSize(p, i) ==
  LET j == i - (p.arg + p.value)
  IN IF j \in 1 .. Len(p.alloca) THEN Bytes(p.alloca[j]) ELSE 8

VARIABLES program,  \* the module's functions
          stage,    \* the loop computeFrameLayoutBase is in
          k,        \* its index
          off,      \* the next free offset
          slots,    \* vregSpill_ and allocaOff_, in order of allocation
          layouts,  \* what the finished functions' code has been printed with
          overflow  \* history: functions for which an offset was cut

layoutVars == <<program, stage, k, off, slots, layouts, overflow>>

Fn     == Len(layouts) + 1     \* the function being laid out
Stages == {"reset", "arg", "value", "alloca", "temp", "save"}

InInt32(n) == -Int32Limit <= n /\ n < Int32Limit
Int32(n)   == IF InInt32(n) THEN n
              ELSE ((n + Int32Limit) % (2 * Int32Limit)) - Int32Limit

(* (n + a - 1) & ~(a - 1) for a power of two a.  (RoundUpToWord would      *)
(* serve slots and forget larger alignments.)                              *)
RoundUpToWord(n, a) == n + ((-n) % 8)
RoundUp(n, a) == n + ((-n) % a)

LayoutInit ==
  /\ program \in Programs
  /\ stage = "reset"
  /\ k = 0 /\ off = 0 /\ slots = <<>>
  /\ layouts = <<>>
  /\ overflow = {}

(* ResetForFunction without the end of the loop over the functions.        *)
ResetPastEnd ==
  /\ stage = "reset"
  /\ stage' = "arg"
  /\ k' = 0 /\ off' = 0 /\ slots' = <<>>
  /\ UNCHANGED <<program, layouts, overflow>>

(* resetForFunction, and off's initialisation.                             *)
ResetForFunction ==
  /\ stage = "reset" /\ Fn <= Len(program)
  /\ stage' = "arg"
  /\ k' = 0 /\ off' = 0 /\ slots' = <<>>
  /\ UNCHANGED <<program, layouts, overflow>>

(* A slot of the given size at offset n; off continues behind it.          *)
Place(n, bytes, align) ==
  /\ slots' = Append(slots, [kind |-> stage, off |-> Int32(n), size |-> bytes,
                             align |-> align])
  /\ off' = Int32(Int32(n) + Int32(bytes))
  /\ overflow' = IF InInt32(n) /\ InInt32(bytes) /\ InInt32(n + bytes)
                   THEN overflow ELSE overflow \cup {Fn}
  /\ k' = k + 1
  /\ UNCHANGED <<program, stage, layouts>>

WordCount(kind) == IF kind = "temp" THEN TempSlots ELSE program[Fn][kind]

PlaceWord ==
  /\ stage \in {"arg", "value", "temp"} /\ k < WordCount(stage)
  /\ Place(off, 8, 8)

Larger(m, n)  == IF m < n THEN n ELSE m
PlaceAlloca ==
  /\ stage = "alloca" /\ k < Len(program[Fn].alloca)
  /\ LET a     == program[Fn].alloca[k + 1]
         align == Larger(8, a.align)
     IN Place(RoundUp(off, align), Bytes(a), a.align)

NextLoop ==
  /\ \/ stage \in {"arg", "value", "temp"} /\ k = WordCount(stage)
     \/ stage = "alloca" /\ k = Len(program[Fn].alloca)
  /\ stage' = CASE stage = "arg"    -> "value"
                [] stage = "value"  -> "alloca"
                [] stage = "alloca" -> "temp"
                [] stage = "temp"   -> "save"
  /\ k' = 0
  /\ UNCHANGED <<program, off, slots, layouts, overflow>>

(* Room for ra and s0 at the top of the frame, whose size is a multiple of *)
(* sixteen (WordFrame of eight only).                                      *)
WordFrame(n) == RoundUp(n + 16, 8)
FrameSize(n) == RoundUp(n + 16, 16)

ReserveSaveArea ==
  /\ stage = "save"
  /\ LET localBytes == Int32(FrameSize(off))
     IN layouts' = Append(layouts, [slots |-> slots,
                                    localBytes |-> localBytes,
                                    saveRaOff |-> localBytes - 8,
                                    saveS0Off |-> localBytes - 16])
  /\ overflow' = IF InInt32(off + 31) THEN overflow ELSE overflow \cup {Fn}
  /\ stage' = "reset"
  /\ UNCHANGED <<program, k, off, slots>>

LayoutNext ==
  \/ ResetForFunction
  \/ PlaceWord
  \/ PlaceAlloca
  \/ NextLoop
  \/ ReserveSaveArea

LayoutSpec == LayoutInit /\ [][LayoutNext]_layoutVars

--------------------------------------------------------------------------------

Slot   == [kind : Stages, off : Int, size : Nat, align : Nat]
Layout == [slots : Seq(Slot), localBytes : Int, saveRaOff : Int, saveS0Off : Int]

LayoutTypeOK ==
  /\ program \in Programs
  /\ stage \in Stages
  /\ k \in Nat
  /\ off \in Int
  /\ slots \in Seq(Slot)
  /\ layouts \in Seq(Layout)
  /\ Len(layouts) <= Len(program)
  /\ stage # "reset" => Fn <= Len(program)

(* Slots in the order of allocation, none reaching into the next, and all  *)
(* of them below n.                                                        *)
Separate(s, n) ==
  /\ \A i \in 1 .. Len(s) : 0 <= s[i].off /\ s[i].off + s[i].size <= n
  /\ \A i, j \in 1 .. Len(s) : i < j => s[i].off + s[i].size <= s[j].off

(* In the code of a finished function nothing shares memory: the slots of  *)
(* its values, its allocas and its temporaries are apart from each other   *)
(* and from the saved s0 and ra, everything lies inside the frame the      *)
(* prologue opens, and sp stays a multiple of sixteen.  It holds unless an *)
(* offset was cut to int32_t.                                              *)
SoundFrame(l) ==
  /\ Separate(l.slots, l.saveS0Off)
  /\ l.saveS0Off + 8 <= l.saveRaOff
  /\ l.saveRaOff + 8 <= l.localBytes
  /\ l.localBytes % 16 = 0

FramesSound == \A f \in 1 .. Len(layouts) : f \notin overflow => SoundFrame(layouts[f])
================================================================================
