---------------------------- MODULE FrameLayout_proofs ----------------------------
(***************************************************************************)
(* For every module of functions, every number of temporaries and every    *)
(* width of the offsets: the frames computeFrameLayoutBase lays out are    *)
(* sound, unless an offset was cut.                                        *)
(*                                                                         *)
(* FramesSound speaks of finished functions only.  The strengthening says  *)
(* of the one being laid out that its slots so far are apart and end below *)
(* off, which is where the next one goes.                                  *)
(***************************************************************************)
EXTENDS FrameLayout, TLAPS

InProgress ==
  (stage # "reset" /\ Fn \notin overflow) => 0 <= off /\ Separate(slots, off)

LayoutInv == LayoutTypeOK /\ InProgress /\ FramesSound

--------------------------------------------------------------------------------
(* Arithmetic.                                                             *)

(* A cast that cuts nothing changes nothing; any cast yields an integer.   *)
LEMMA Int32Facts ==
  ASSUME NEW n \in Int
  PROVE  /\ Int32(n) \in Int
         /\ InInt32(n) => Int32(n) = n
  BY FrameLayoutAssumption DEF Int32, InInt32

(* Rounding up never goes down.                                            *)
LEMMA RoundUpFacts ==
  ASSUME NEW n \in Int, NEW m \in Nat \ {0}
  PROVE  RoundUp(n, m) \in Int /\ n <= RoundUp(n, m)
  BY DEF RoundUp

(* The frame has room for ra and s0 and a size that is a multiple of 16.   *)
LEMMA FrameSizeFacts ==
  ASSUME NEW n \in Int
  PROVE  /\ FrameSize(n) \in Int
         /\ n + 16 <= FrameSize(n) /\ FrameSize(n) <= n + 31
         /\ FrameSize(n) % 16 = 0
  BY DEF FrameSize, RoundUp

(* The size of an alloca, and the alignment it is placed at.               *)
LEMMA AllocaFacts ==
  ASSUME NEW x \in Alloca
  PROVE  Bytes(x) \in Nat /\ Larger(8, x.align) \in Nat \ {0} /\ x.align \in Nat
  <1>1. x.size \in Nat /\ x.count \in Nat /\ x.align \in Nat \ {0}
    BY DEF Alloca, Alignment
  <1>2. Bytes(x) \in Nat
    BY <1>1 DEF Bytes
  <1>3. Larger(8, x.align) \in Nat \ {0}
    BY <1>1 DEF Larger
  <1> QED
    BY <1>1, <1>2, <1>3

--------------------------------------------------------------------------------
(* Placing a slot behind the others.                                       *)

LEMMA SlotFacts ==
  ASSUME NEW s \in Seq(Slot)
  PROVE  \A i \in 1 .. Len(s) : s[i].off \in Int /\ s[i].size \in Nat
  <1>1. \A i \in 1 .. Len(s) : s[i] \in Slot
    OBVIOUS
  <1>2. \A x \in Slot : x.off \in Int /\ x.size \in Nat
    BY DEF Slot
  <1> QED
    BY <1>1, <1>2

LEMMA PlaceTypes ==
  ASSUME LayoutTypeOK, stage \in Stages,
         NEW n \in Int, NEW bytes \in Nat, NEW align \in Nat,
         Place(n, bytes, align), Fn <= Len(program)
  PROVE  LayoutTypeOK'
  <1>1. Int32(n) \in Int /\ Int32(bytes) \in Int
    BY Int32Facts
  <1>2. off' \in Int
    BY <1>1, Int32Facts DEF Place
  <1>3. slots' \in Seq(Slot)
    <2>1. [kind |-> stage, off |-> Int32(n), size |-> bytes, align |-> align] \in Slot
      BY <1>1 DEF Slot
    <2> QED
      BY <2>1 DEF Place, LayoutTypeOK
  <1> QED
    BY <1>2, <1>3 DEF Place, LayoutTypeOK, Fn

LEMMA PlaceSeparate ==
  ASSUME NEW s \in Seq(Slot), NEW n \in Int, NEW new \in Slot,
         Separate(s, n), 0 <= n, n <= new.off
  PROVE  Separate(Append(s, new), new.off + new.size)
  <1> DEFINE t == Append(s, new)
  <1>1. Len(t) = Len(s) + 1 /\ Len(s) \in Nat
    OBVIOUS
  <1>2. \A i \in 1 .. Len(t) : t[i] = IF i <= Len(s) THEN s[i] ELSE new
    OBVIOUS
  <1>3. \A i \in 1 .. Len(s) : s[i].off \in Int /\ s[i].size \in Nat
    BY SlotFacts
  <1>4. new.off \in Int /\ new.size \in Nat
    BY DEF Slot
  <1>5. ASSUME NEW i \in 1 .. Len(t)
        PROVE  0 <= t[i].off /\ t[i].off + t[i].size <= new.off + new.size
    <2>1. CASE i <= Len(s)
      <3>1. i \in 1 .. Len(s) /\ t[i] = s[i]
        BY <2>1, <1>1, <1>2
      <3>2. 0 <= s[i].off /\ s[i].off + s[i].size <= n
        BY <3>1 DEF Separate
      <3> QED
        BY <3>1, <3>2, <1>3, <1>4
    <2>2. CASE ~(i <= Len(s))
      BY <2>2, <1>2, <1>4
    <2> QED
      BY <2>1, <2>2
  <1>6. ASSUME NEW i \in 1 .. Len(t), NEW j \in 1 .. Len(t), i < j
        PROVE  t[i].off + t[i].size <= t[j].off
    <2>1. i \in 1 .. Len(s) /\ t[i] = s[i]
      BY <1>1, <1>2, <1>6
    <2>2. CASE j <= Len(s)
      <3>1. j \in 1 .. Len(s) /\ t[j] = s[j]
        BY <2>2, <1>1, <1>2
      <3> QED
        BY <2>1, <3>1, <1>6 DEF Separate
    <2>3. CASE ~(j <= Len(s))
      <3>1. t[j] = new
        BY <2>3, <1>2
      <3>2. s[i].off + s[i].size <= n
        BY <2>1 DEF Separate
      <3> QED
        BY <2>1, <3>1, <3>2, <1>3, <1>4
    <2> QED
      BY <2>2, <2>3
  <1> QED
    BY <1>5, <1>6 DEF Separate

(* Finished frames stay sound when nothing about them changes.             *)
LEMMA FinishedKept ==
  ASSUME FramesSound, UNCHANGED layouts, overflow \subseteq overflow'
  PROVE  FramesSound'
  BY DEF FramesSound, SoundFrame, Separate

LEMMA PlaceStep ==
  ASSUME LayoutInv, stage # "reset",
         NEW n \in Int, NEW bytes \in Nat, NEW align \in Nat,
         off <= n, Place(n, bytes, align)
  PROVE  LayoutInv'
  <1>1. LayoutTypeOK'
    BY PlaceTypes DEF LayoutInv, LayoutTypeOK
  <1>2. FramesSound'
    BY FinishedKept DEF LayoutInv, Place
  <1>3. InProgress'
    <2>1. SUFFICES ASSUME Fn \notin overflow'
                   PROVE  0 <= off' /\ Separate(slots', off')
      BY DEF InProgress, Place, Fn
    <2>2. Fn \notin overflow /\ InInt32(n) /\ InInt32(bytes) /\ InInt32(n + bytes)
      BY <2>1 DEF Place
    <2>3. Int32(n) = n /\ Int32(bytes) = bytes /\ Int32(n + bytes) = n + bytes
      BY <2>2, Int32Facts
    <2> DEFINE new == [kind |-> stage, off |-> n, size |-> bytes, align |-> align]
    <2>4. slots' = Append(slots, new) /\ off' = new.off + new.size
      BY <2>3 DEF Place
    <2>5. new \in Slot /\ slots \in Seq(Slot) /\ off \in Int
      BY DEF Slot, LayoutInv, LayoutTypeOK
    <2>6. 0 <= off /\ Separate(slots, off)
      BY <2>2 DEF LayoutInv, InProgress
    <2>7. Separate(Append(slots, new), new.off + new.size)
      BY <2>5, <2>6, PlaceSeparate
    <2> QED
      BY <2>4, <2>5, <2>6, <2>7
  <1> QED
    BY <1>1, <1>2, <1>3 DEF LayoutInv

--------------------------------------------------------------------------------
(* The steps.                                                              *)

LEMMA LayoutStarts == LayoutInit => LayoutInv
  <1> SUFFICES ASSUME LayoutInit PROVE LayoutInv
    OBVIOUS
  <1>1. LayoutTypeOK
    BY FrameLayoutAssumption DEF LayoutInit, LayoutTypeOK, Stages, Fn
  <1> QED
    BY <1>1 DEF LayoutInit, LayoutInv, InProgress, FramesSound

LEMMA ShapesHaveTypes ==
  ASSUME LayoutTypeOK, stage # "reset"
  PROVE  program[Fn] \in Shape
  BY FrameLayoutAssumption DEF LayoutTypeOK, Fn

LEMMA ResetStep == ASSUME LayoutInv, ResetForFunction PROVE LayoutInv'
  <1>1. LayoutTypeOK'
    BY DEF LayoutInv, LayoutTypeOK, ResetForFunction, Stages, Fn
  <1>2. FramesSound'
    BY FinishedKept DEF LayoutInv, ResetForFunction
  <1>3. InProgress'
    BY DEF ResetForFunction, InProgress, Separate
  <1> QED
    BY <1>1, <1>2, <1>3 DEF LayoutInv

LEMMA WordStep == ASSUME LayoutInv, PlaceWord PROVE LayoutInv'
  <1>1. off \in Int /\ stage # "reset"
    BY DEF LayoutInv, LayoutTypeOK, PlaceWord
  <1>2. Place(off, 8, 8)
    BY DEF PlaceWord
  <1> QED
    BY <1>1, <1>2, PlaceStep

LEMMA AllocaStep == ASSUME LayoutInv, PlaceAlloca PROVE LayoutInv'
  <1> DEFINE x     == program[Fn].alloca[k + 1]
             align == Larger(8, x.align)
  <1>1. stage # "reset" /\ LayoutTypeOK /\ off \in Int
    BY DEF LayoutInv, LayoutTypeOK, PlaceAlloca
  <1>2. x \in Alloca
    <2>1. program[Fn].alloca \in Seq(Alloca)
      BY <1>1, ShapesHaveTypes DEF Shape
    <2>2. k + 1 \in 1 .. Len(program[Fn].alloca)
      BY <1>1, <2>1 DEF PlaceAlloca, LayoutTypeOK
    <2> QED
      BY <2>1, <2>2
  <1>3. Bytes(x) \in Nat /\ align \in Nat \ {0} /\ x.align \in Nat
    BY <1>2, AllocaFacts
  <1>4. RoundUp(off, align) \in Int /\ off <= RoundUp(off, align)
    BY <1>1, <1>3, RoundUpFacts
  <1>5. Place(RoundUp(off, align), Bytes(x), x.align)
    BY DEF PlaceAlloca
  <1> HIDE DEF x, align
  <1> QED
    BY <1>1, <1>3, <1>4, <1>5, PlaceStep

LEMMA LoopStep == ASSUME LayoutInv, NextLoop PROVE LayoutInv'
  <1>1. stage \in {"arg", "value", "alloca", "temp"} /\ stage' \in Stages \ {"reset"}
    BY DEF NextLoop, Stages
  <1>2. LayoutTypeOK'
    BY <1>1 DEF LayoutInv, LayoutTypeOK, NextLoop, Fn
  <1>3. FramesSound'
    BY FinishedKept DEF LayoutInv, NextLoop
  <1>4. InProgress'
    BY <1>1 DEF LayoutInv, InProgress, NextLoop, Fn
  <1> QED
    BY <1>2, <1>3, <1>4 DEF LayoutInv

(* The frame a function is finished with.                                  *)
LEMMA SaveStep == ASSUME LayoutInv, ReserveSaveArea PROVE LayoutInv'
  <1> DEFINE bytes == Int32(FrameSize(off))
             new   == [slots |-> slots, localBytes |-> bytes,
                       saveRaOff |-> bytes - 8, saveS0Off |-> bytes - 16]
  <1>1. off \in Int /\ slots \in Seq(Slot) /\ layouts \in Seq(Layout)
          /\ program \in Seq(Shape) /\ Fn <= Len(program)
    BY FrameLayoutAssumption DEF LayoutInv, LayoutTypeOK, ReserveSaveArea
  <1>2. FrameSize(off) \in Int /\ bytes \in Int
    BY <1>1, FrameSizeFacts, Int32Facts
  <1>3. new \in Layout
    BY <1>1, <1>2 DEF Layout
  <1>4. layouts' = Append(layouts, new)
    BY DEF ReserveSaveArea
  <1>5. LayoutTypeOK'
    <2>1. layouts' \in Seq(Layout) /\ Len(layouts') = Len(layouts) + 1
      BY <1>1, <1>3, <1>4
    <2>2. Len(layouts') <= Len(program)
      BY <1>1, <2>1 DEF Fn
    <2> QED
      BY <2>1, <2>2 DEF LayoutInv, LayoutTypeOK, ReserveSaveArea, Stages
  <1>6. InProgress'
    BY DEF ReserveSaveArea, InProgress
  <1>7. Fn \notin overflow' => SoundFrame(new)
    <2>1. SUFFICES ASSUME Fn \notin overflow' PROVE SoundFrame(new)
      OBVIOUS
    <2>2. InInt32(off + 31) /\ Fn \notin overflow
      BY <2>1 DEF ReserveSaveArea
    <2>3. 0 <= off /\ Separate(slots, off)
      BY <2>2 DEF LayoutInv, InProgress, ReserveSaveArea
    <2>4. InInt32(FrameSize(off))
      <3>1. off <= FrameSize(off) /\ FrameSize(off) <= off + 31
        BY <1>1, <1>2, FrameSizeFacts
      <3> QED
        BY <1>1, <1>2, <2>2, <2>3, <3>1, FrameLayoutAssumption DEF InInt32
    <2>5. bytes = FrameSize(off)
      BY <1>2, <2>4, Int32Facts
    <2>6. off + 16 <= bytes /\ bytes % 16 = 0
      BY <1>1, <2>5, FrameSizeFacts
    <2>7. Separate(slots, bytes - 16)
      <3>1. \A i \in 1 .. Len(slots) : slots[i].off \in Int /\ slots[i].size \in Nat
        BY <1>1, SlotFacts
      <3>2. off <= bytes - 16
        BY <1>1, <1>2, <2>6
      <3> HIDE DEF bytes
      <3> QED
        BY <1>1, <1>2, <2>3, <3>1, <3>2 DEF Separate
    <2> HIDE DEF bytes
    <2> QED
      BY <1>2, <2>6, <2>7 DEF SoundFrame
  <1>8. FramesSound'
    <2>1. ASSUME NEW f \in 1 .. Len(layouts'), f \notin overflow'
          PROVE  SoundFrame(layouts'[f])
      <3> HIDE DEF new
      <3>1. Len(layouts') = Len(layouts) + 1 /\ Len(layouts) \in Nat
        BY <1>1, <1>3, <1>4
      <3>2. CASE f = Fn
        <4>1. layouts'[f] = new
          BY <1>1, <1>3, <1>4, <3>2 DEF Fn
        <4> QED
          BY <4>1, <2>1, <3>2, <1>7
      <3>3. CASE f # Fn
        <4>1. f \in 1 .. Len(layouts)
          BY <3>1, <3>3 DEF Fn
        <4>2. layouts'[f] = layouts[f]
          BY <1>1, <1>3, <1>4, <4>1
        <4>3. f \notin overflow
          BY <2>1 DEF ReserveSaveArea
        <4> QED
          BY <4>1, <4>2, <4>3 DEF LayoutInv, FramesSound
      <3> QED
        BY <3>2, <3>3
    <2> QED
      BY <2>1 DEF FramesSound, SoundFrame, Separate
  <1> QED
    BY <1>5, <1>6, <1>8 DEF LayoutInv

LEMMA LayoutStep == LayoutInv /\ [LayoutNext]_layoutVars => LayoutInv'
  <1> SUFFICES ASSUME LayoutInv, [LayoutNext]_layoutVars PROVE LayoutInv'
    OBVIOUS
  <1>1. CASE UNCHANGED layoutVars
    BY <1>1 DEF LayoutInv, LayoutTypeOK, InProgress, FramesSound, SoundFrame,
                Separate, Fn, layoutVars
  <1> QED
    BY <1>1, ResetStep, WordStep, AllocaStep, LoopStep, SaveStep DEF LayoutNext

--------------------------------------------------------------------------------
(* Which slots there are.  While a function is laid out, those of the      *)
(* loops before and k of the present one; in the end SlotCount of them, of *)
(* the sizes its shape tells, allocas at multiples of their alignment.     *)

StageStart(p, s) ==
  CASE s = "arg"    -> 0
    [] s = "value"  -> p.arg
    [] s = "alloca" -> p.arg + p.value
    [] s = "temp"   -> p.arg + p.value + Len(p.alloca)
    [] s = "save"   -> SlotCount(p)

Sized(s, p) == \A i \in 1 .. Len(s) : s[i].size = SlotSize(p, i)

AlignedSlot(s)  == s.kind = "alloca" /\ s.align <= 16 => s.off % s.align = 0
AlignedSlots(s) ==
  \A i \in 1 .. Len(s) : AlignedSlot(s[i]) /\ (s[i].kind = "alloca" => s[i].align \in Alignment)

ShapedSoFar ==
  stage # "reset" =>
    /\ Len(slots) = StageStart(program[Fn], stage) + k
    /\ stage = "save" => k = 0
    /\ Sized(slots, program[Fn])
    /\ Fn \notin overflow => AlignedSlots(slots)

ShapedFrame(f) ==
  LET l == layouts[f]
  IN /\ Len(l.slots) = SlotCount(program[f])
     /\ Sized(l.slots, program[f])
     /\ l.saveRaOff = l.localBytes - 8 /\ l.saveS0Off = l.localBytes - 16
     /\ f \notin overflow => 16 <= l.localBytes /\ AlignedSlots(l.slots)

ShapeInv == ShapedSoFar /\ \A f \in 1 .. Len(layouts) : ShapedFrame(f)

LEMMA ShapeFacts ==
  ASSUME NEW p \in Shape
  PROVE  /\ p.arg \in Nat /\ p.value \in Nat /\ p.alloca \in Seq(Alloca)
         /\ Len(p.alloca) \in Nat /\ TempSlots \in Nat /\ SlotCount(p) \in Nat
  BY FrameLayoutAssumption DEF Shape, SlotCount

LEMMA SlotSizeFacts ==
  ASSUME NEW p \in Shape
  PROVE  /\ \A i \in Nat : (i <= p.arg + p.value \/ i > p.arg + p.value + Len(p.alloca))
                           => SlotSize(p, i) = 8
         /\ \A j \in 1 .. Len(p.alloca) :
              SlotSize(p, p.arg + p.value + j) = Bytes(p.alloca[j])
  <1>1. p.arg \in Nat /\ p.value \in Nat /\ Len(p.alloca) \in Nat
    BY ShapeFacts
  <1>2. ASSUME NEW i \in Nat, i <= p.arg + p.value \/ i > p.arg + p.value + Len(p.alloca)
        PROVE  SlotSize(p, i) = 8
    <2>1. i - (p.arg + p.value) \notin 1 .. Len(p.alloca)
      BY <1>1, <1>2
    <2> QED
      BY <2>1 DEF SlotSize
  <1>3. ASSUME NEW j \in 1 .. Len(p.alloca)
        PROVE  SlotSize(p, p.arg + p.value + j) = Bytes(p.alloca[j])
    <2> DEFINE y  == p.arg + p.value
               i  == y + j
               at == i - y
    <2>1. at = j
      <3>1. y \in Nat /\ j \in Nat
        BY <1>1
      <3> HIDE DEF y
      <3> QED
        BY <3>1
    <2>2. SlotSize(p, i) = IF at \in 1 .. Len(p.alloca) THEN Bytes(p.alloca[at]) ELSE 8
      <3> HIDE DEF i
      <3> QED
        BY DEF SlotSize
    <2>3. SlotSize(p, i) = Bytes(p.alloca[j])
      <3> HIDE DEF at
      <3> QED
        BY <2>1, <2>2
    <2> QED
      BY <2>3
  <1> QED
    BY <1>2, <1>3

LEMMA StageStartFacts ==
  ASSUME NEW p \in Shape
  PROVE  /\ \A s \in Stages \ {"reset"} : StageStart(p, s) \in Nat
         /\ StageStart(p, "arg") = 0
         /\ StageStart(p, "value") = p.arg
         /\ StageStart(p, "alloca") = p.arg + p.value
         /\ StageStart(p, "temp") = p.arg + p.value + Len(p.alloca)
         /\ StageStart(p, "save") = SlotCount(p)
  <1>1. /\ StageStart(p, "arg") = 0
        /\ StageStart(p, "value") = p.arg
        /\ StageStart(p, "alloca") = p.arg + p.value
        /\ StageStart(p, "temp") = p.arg + p.value + Len(p.alloca)
        /\ StageStart(p, "save") = SlotCount(p)
    BY DEF StageStart
  <1>2. \A s \in Stages \ {"reset"} :
          s = "arg" \/ s = "value" \/ s = "alloca" \/ s = "temp" \/ s = "save"
    BY DEF Stages
  <1>3. /\ p.arg \in Nat /\ p.arg + p.value \in Nat
        /\ p.arg + p.value + Len(p.alloca) \in Nat /\ SlotCount(p) \in Nat
    BY ShapeFacts
  <1> QED
    BY <1>1, <1>2, <1>3

(* A step of a loop keeps the finished frames, and adds one slot.          *)
LEMMA PlaceShape ==
  ASSUME LayoutInv, ShapeInv, stage \in {"arg", "value", "alloca", "temp"},
         NEW n \in Int, NEW bytes \in Nat, NEW align \in Nat,
         Place(n, bytes, align),
         bytes = SlotSize(program[Fn], StageStart(program[Fn], stage) + k + 1),
         stage = "alloca" =>
           align \in Alignment /\ (align <= 16 => n % align = 0)
  PROVE  ShapeInv'
  <1> DEFINE p   == program[Fn]
             new == [kind |-> stage, off |-> Int32(n), size |-> bytes, align |-> align]
  <1>1. /\ slots' = Append(slots, new) /\ k' = k + 1
        /\ UNCHANGED <<program, stage, layouts>> /\ Fn' = Fn
        /\ overflow \subseteq overflow'
        /\ Fn \notin overflow' => Fn \notin overflow /\ InInt32(n)
        /\ overflow' \subseteq overflow \cup {Fn}
    BY DEF Place, Fn
  <1>2. slots \in Seq(Slot) /\ new \in Slot /\ k \in Nat
    BY Int32Facts DEF LayoutInv, LayoutTypeOK, Slot, Stages
  <1>3. p \in Shape
    BY ShapesHaveTypes DEF LayoutInv
  <1>4. StageStart(p, stage) \in Nat /\ StageStart(p, stage)' = StageStart(p, stage)
    BY <1>1, <1>3, StageStartFacts DEF Stages
  <1>5. Len(slots) = StageStart(p, stage) + k
    BY DEF ShapeInv, ShapedSoFar
  <1> HIDE DEF new
  <1>6. /\ Len(slots') = Len(slots) + 1
        /\ \A i \in 1 .. Len(slots') :
             slots'[i] = IF i <= Len(slots) THEN slots[i] ELSE new
    BY <1>1, <1>2
  <1>7. new.kind = stage /\ new.off = Int32(n) /\ new.size = bytes /\ new.align = align
    BY DEF new
  <1>8. Sized(slots', p)
    <2> SUFFICES ASSUME NEW i \in 1 .. Len(slots') PROVE slots'[i].size = SlotSize(p, i)
      BY DEF Sized
    <2>1. CASE i <= Len(slots)
      BY <1>2, <1>6, <2>1 DEF ShapeInv, ShapedSoFar, Sized
    <2>2. CASE ~(i <= Len(slots))
      <3>1. i = StageStart(p, stage) + k + 1
        BY <1>2, <1>4, <1>5, <1>6, <2>2
      <3> QED
        BY <1>6, <1>7, <2>2, <3>1
    <2> QED
      BY <2>1, <2>2
  <1>9. ASSUME Fn \notin overflow' PROVE AlignedSlots(slots')
    <2>1. AlignedSlots(slots) /\ Int32(n) = n
      BY <1>1, <1>9, Int32Facts DEF ShapeInv, ShapedSoFar
    <2>2. AlignedSlot(new) /\ (new.kind = "alloca" => new.align \in Alignment)
      BY <1>7, <2>1 DEF AlignedSlot
    <2> QED
      BY <1>2, <1>6, <2>1, <2>2 DEF AlignedSlots
  <1>10. ShapedSoFar'
    BY <1>1, <1>2, <1>4, <1>5, <1>6, <1>8, <1>9 DEF ShapedSoFar
  <1>11. \A f \in 1 .. Len(layouts) : ShapedFrame(f)'
    BY <1>1 DEF ShapeInv, ShapedFrame
  <1> QED
    BY <1>1, <1>10, <1>11 DEF ShapeInv

LEMMA WordShape == ASSUME LayoutInv, ShapeInv, PlaceWord PROVE ShapeInv'
  <1> DEFINE p == program[Fn]
  <1>1. stage \in {"arg", "value", "temp"} /\ k < WordCount(stage) /\ k \in Nat
        /\ off \in Int /\ Place(off, 8, 8)
    BY DEF PlaceWord, LayoutInv, LayoutTypeOK
  <1>2. p \in Shape
    BY <1>1, ShapesHaveTypes DEF LayoutInv
  <1>3. /\ p.arg \in Nat /\ p.value \in Nat /\ Len(p.alloca) \in Nat
        /\ p.arg + p.value \in Nat
    BY <1>2, ShapeFacts
  <1> DEFINE u == StageStart(p, stage)
             x == p.arg + p.value
             z == x + Len(p.alloca)
  <1>4. u + k + 1 \in Nat /\ (u + k + 1 <= x \/ u + k + 1 > z)
    <2>1. x \in Nat /\ z \in Nat /\ x <= z
      BY <1>3
    <2>2. CASE stage = "arg"
      <3>1. u = 0 /\ k < p.arg
        BY <1>1, <1>2, <2>2, StageStartFacts DEF WordCount
      <3>2. k + 1 <= p.arg /\ p.arg <= x
        BY <1>1, <1>3, <3>1
      <3> HIDE DEF x, z, u
      <3> QED
        BY <1>1, <1>3, <2>1, <3>1, <3>2
    <2>3. CASE stage = "value"
      <3> DEFINE m == p.arg
                 v == p.value
      <3>1. u = m /\ k < v
        BY <1>1, <1>2, <2>3, StageStartFacts DEF WordCount
      <3>2. m \in Nat /\ v \in Nat /\ x = m + v
        BY <1>3
      <3> HIDE DEF u, x, z, m, v
      <3> QED
        BY <1>1, <3>1, <3>2
    <2>4. CASE stage = "temp"
      <3>1. u = z
        BY <1>2, <2>4, StageStartFacts
      <3> HIDE DEF u, z
      <3> QED
        BY <1>1, <2>1, <3>1
    <2> QED
      BY <1>1, <2>2, <2>3, <2>4
  <1>5. 8 = SlotSize(p, u + k + 1)
    BY <1>2, <1>4, SlotSizeFacts
  <1> QED
    BY <1>1, <1>5, PlaceShape

(* Rounding up yields a multiple; of eight at least.                       *)
LEMMA RoundUpAligned ==
  ASSUME NEW n \in Int, NEW m \in Alignment, m <= 16
  PROVE  RoundUp(n, Larger(8, m)) % m = 0
  <1>1. m \in {1, 2, 4, 8, 16}
    BY DEF Alignment
  <1>2. CASE m = 16
    BY <1>2 DEF RoundUp, Larger
  <1>3. CASE m \in {1, 2, 4, 8}
    <2>1. Larger(8, m) = 8 /\ RoundUp(n, 8) \in Int /\ RoundUp(n, 8) % 8 = 0
      BY <1>3 DEF RoundUp, Larger
    <2> HIDE DEF RoundUp
    <2> QED
      BY <1>3, <2>1
  <1> QED
    BY <1>1, <1>2, <1>3

LEMMA AllocaShape == ASSUME LayoutInv, ShapeInv, PlaceAlloca PROVE ShapeInv'
  <1> DEFINE p     == program[Fn]
             x     == p.alloca[k + 1]
             align == Larger(8, x.align)
  <1>1. /\ stage = "alloca" /\ k < Len(p.alloca) /\ k \in Nat /\ off \in Int
        /\ Place(RoundUp(off, align), Bytes(x), x.align)
    BY DEF PlaceAlloca, LayoutInv, LayoutTypeOK
  <1>2. p \in Shape
    BY <1>1, ShapesHaveTypes DEF LayoutInv
  <1>3. x \in Alloca
    BY <1>1, <1>2, ShapeFacts
  <1>4. Bytes(x) \in Nat /\ align \in Nat \ {0} /\ x.align \in Nat
    BY <1>3, AllocaFacts
  <1>5. x.align \in Alignment
    BY <1>3 DEF Alloca
  <1>6. RoundUp(off, align) \in Int
    BY <1>1, <1>4, RoundUpFacts
  <1>7. x.align <= 16 => RoundUp(off, align) % x.align = 0
    BY <1>1, <1>5, RoundUpAligned
  <1>8. Bytes(x) = SlotSize(p, StageStart(p, stage) + k + 1)
    <2>1. k + 1 \in 1 .. Len(p.alloca) /\ p.arg + p.value \in Nat
      <3>1. p.arg \in Nat /\ p.value \in Nat /\ Len(p.alloca) \in Nat
        BY <1>2, ShapeFacts
      <3> HIDE DEF p
      <3> QED
        BY <1>1, <3>1
    <2>2. StageStart(p, stage) + k + 1 = p.arg + p.value + (k + 1)
      <3> DEFINE y == p.arg + p.value
      <3>1. StageStart(p, stage) = y /\ y \in Nat
        BY <1>1, <1>2, <2>1, StageStartFacts
      <3> HIDE DEF y
      <3>2. StageStart(p, stage) + k + 1 = y + (k + 1)
        BY <1>1, <3>1
      <3> QED
        BY <3>2 DEF y
    <2> QED
      BY <1>2, <2>1, <2>2, SlotSizeFacts
  <1> HIDE DEF x, align
  <1> QED
    BY <1>1, <1>4, <1>5, <1>6, <1>7, <1>8, PlaceShape

LEMMA LoopShape == ASSUME LayoutInv, ShapeInv, NextLoop PROVE ShapeInv'
  <1> DEFINE p == program[Fn]
  <1>1. /\ stage \in {"arg", "value", "alloca", "temp"} /\ k' = 0
        /\ UNCHANGED <<program, slots, layouts, overflow>> /\ Fn' = Fn
        /\ k \in Nat
    BY DEF NextLoop, Fn, LayoutInv, LayoutTypeOK
  <1>2. p \in Shape
    BY <1>1, ShapesHaveTypes DEF LayoutInv
  <1>3. stage' # "reset" /\ StageStart(p, stage)' = StageStart(p, stage) + k
    <2>1. /\ p.arg \in Nat /\ p.value \in Nat /\ Len(p.alloca) \in Nat
          /\ TempSlots \in Nat
      BY <1>2, ShapeFacts
    <2>2. CASE stage = "arg"
      BY <1>1, <1>2, <2>1, <2>2, StageStartFacts DEF NextLoop, WordCount
    <2>3. CASE stage = "value"
      BY <1>1, <1>2, <2>1, <2>3, StageStartFacts DEF NextLoop, WordCount
    <2>4. CASE stage = "alloca"
      BY <1>1, <1>2, <2>1, <2>4, StageStartFacts DEF NextLoop
    <2>5. CASE stage = "temp"
      BY <1>1, <1>2, <2>1, <2>5, StageStartFacts DEF NextLoop, WordCount, SlotCount
    <2> QED
      BY <1>1, <2>2, <2>3, <2>4, <2>5
  <1>4. ShapedSoFar'
    <2>1. Len(slots) = StageStart(p, stage) + k /\ StageStart(p, stage) \in Nat
      BY <1>1, <1>2, StageStartFacts DEF ShapeInv, ShapedSoFar, Stages
    <2> QED
      BY <1>1, <1>3, <2>1 DEF ShapeInv, ShapedSoFar
  <1> QED
    BY <1>1, <1>4 DEF ShapeInv, ShapedFrame

LEMMA SaveShape == ASSUME LayoutInv, ShapeInv, ReserveSaveArea PROVE ShapeInv'
  <1> DEFINE bytes == Int32(FrameSize(off))
             new   == [slots |-> slots, localBytes |-> bytes,
                       saveRaOff |-> bytes - 8, saveS0Off |-> bytes - 16]
  <1>1. /\ stage = "save" /\ stage' = "reset" /\ layouts' = Append(layouts, new)
        /\ UNCHANGED <<program, slots>> /\ overflow \subseteq overflow'
        /\ off \in Int /\ layouts \in Seq(Layout)
    BY DEF ReserveSaveArea, LayoutInv, LayoutTypeOK
  <1>2. /\ Len(layouts') = Len(layouts) + 1 /\ Len(layouts) \in Nat
        /\ \A f \in 1 .. Len(layouts) : layouts'[f] = layouts[f]
        /\ layouts'[Fn] = new
    <2> HIDE DEF new
    <2> QED
      BY <1>1 DEF Fn
  <1>3. ASSUME Fn \notin overflow' PROVE 16 <= bytes /\ AlignedSlots(slots)
    <2>1. InInt32(off + 31) /\ Fn \notin overflow
      BY <1>3 DEF ReserveSaveArea
    <2>2. 0 <= off
      BY <1>1, <2>1 DEF LayoutInv, InProgress
    <2>3. /\ FrameSize(off) \in Int /\ off + 16 <= FrameSize(off)
          /\ FrameSize(off) <= off + 31
      BY <1>1, FrameSizeFacts
    <2>4. bytes = FrameSize(off)
      <3>1. InInt32(FrameSize(off))
        BY <1>1, <2>1, <2>2, <2>3, FrameLayoutAssumption DEF InInt32
      <3> QED
        BY <2>3, <3>1, Int32Facts
    <2>5. AlignedSlots(slots)
      BY <1>1, <2>1 DEF ShapeInv, ShapedSoFar
    <2> QED
      BY <1>1, <2>2, <2>3, <2>4, <2>5
  <1>4. Len(slots) = SlotCount(program[Fn]) /\ Sized(slots, program[Fn])
    <2>1. program[Fn] \in Shape
      BY <1>1, ShapesHaveTypes DEF LayoutInv
    <2>2. Len(slots) = SlotCount(program[Fn]) + 0 /\ Sized(slots, program[Fn])
      BY <1>1, <2>1, StageStartFacts DEF ShapeInv, ShapedSoFar
    <2> QED
      BY <2>1, <2>2, ShapeFacts
  <1> HIDE DEF bytes
  <1>5. ASSUME NEW f, f = Fn PROVE ShapedFrame(f)'
    <2>1. layouts'[f] = new /\ program'[f] = program[Fn]
      BY <1>1, <1>2, <1>5
    <2>2. /\ new.slots = slots /\ new.localBytes = bytes
          /\ new.saveRaOff = bytes - 8 /\ new.saveS0Off = bytes - 16
      OBVIOUS
    <2> HIDE DEF new
    <2> QED
      BY <1>3, <1>4, <1>5, <2>1, <2>2 DEF ShapedFrame
  <1>6. \A f \in 1 .. Len(layouts) : ShapedFrame(f)'
    BY <1>1, <1>2 DEF ShapeInv, ShapedFrame
  <1>7. \A f \in 1 .. Len(layouts') : f = Fn \/ f \in 1 .. Len(layouts)
    BY <1>2 DEF Fn
  <1>8. \A f \in 1 .. Len(layouts') : ShapedFrame(f)'
    BY <1>5, <1>6, <1>7
  <1>9. ShapedSoFar'
    BY <1>1 DEF ShapedSoFar
  <1> QED
    BY <1>8, <1>9 DEF ShapeInv

LEMMA ShapeStarts == LayoutInit => ShapeInv
  BY DEF LayoutInit, ShapeInv, ShapedSoFar

LEMMA ShapeStep == LayoutInv /\ ShapeInv /\ [LayoutNext]_layoutVars => ShapeInv'
  <1> SUFFICES ASSUME LayoutInv, ShapeInv, [LayoutNext]_layoutVars PROVE ShapeInv'
    OBVIOUS
  <1>1. CASE ResetForFunction
    <2>1. /\ stage' = "arg" /\ k' = 0 /\ slots' = <<>>
          /\ UNCHANGED <<program, layouts, overflow>>
      BY <1>1 DEF ResetForFunction
    <2>2. ShapedSoFar'
      BY <2>1 DEF ShapedSoFar, StageStart, Sized, AlignedSlots
    <2> QED
      BY <2>1, <2>2 DEF ShapeInv, ShapedFrame
  <1>2. CASE UNCHANGED layoutVars
    BY <1>2 DEF ShapeInv, ShapedSoFar, ShapedFrame, StageStart, Fn, layoutVars
  <1> QED
    BY <1>1, <1>2, WordShape, AllocaShape, LoopShape, SaveShape DEF LayoutNext

--------------------------------------------------------------------------------

(* Laying out functions keeps every variable in its type, and never works  *)
(* on a function the module does not have.                                 *)
THEOREM LayoutTypeCorrect == LayoutSpec => []LayoutTypeOK
  <1>1. LayoutInv => LayoutTypeOK
    BY DEF LayoutInv
  <1> QED
    BY LayoutStarts, LayoutStep, <1>1, PTL DEF LayoutSpec

(* In the frame of every function nothing shares memory, for every number  *)
(* and size of arguments, values and allocas that fit an int32_t.          *)
THEOREM FramesAreSound == LayoutSpec => []FramesSound
  <1>1. LayoutInv => FramesSound
    BY DEF LayoutInv
  <1> QED
    BY LayoutStarts, LayoutStep, <1>1, PTL DEF LayoutSpec
================================================================================
