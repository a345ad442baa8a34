----------------------------- MODULE CallStack_proofs -----------------------------
(***************************************************************************)
(* Frames at run time.  For every module of functions, every size of its   *)
(* frames and of the stack, and whatever the bodies do: the frames stay    *)
(* sound, s0 is a running body's own frame pointer, and its allocas are    *)
(* aligned.                                                                *)
(*                                                                         *)
(* The invariant (MachineInv) is about the chain of frames: each ends      *)
(* where its caller's begins, and the two words at its top are its return  *)
(* address, a call in its caller, and its caller's frame pointer.  A step  *)
(* of a body writes below those words of its own frame only, which is what *)
(* SoundFrame says of the layout.                                          *)
(***************************************************************************)
EXTENDS CallStack, FrameLayout_proofs, SequenceTheorems

LEMMA StartsWithLayout == Init => LayoutInit
  BY DEF Init

LEMMA StepsKeepLayout == [Next]_vars => [LayoutNext]_layoutVars
  <1> SUFFICES ASSUME [Next]_vars PROVE [LayoutNext]_layoutVars
    OBVIOUS
  <1>1. CASE UNCHANGED vars
    BY <1>1 DEF vars
  <1>2. CASE Layouting
    BY <1>2 DEF Layouting
  <1>3. CASE Boot \/ Enter
    BY <1>3 DEF Boot, Enter
  <1>4. CASE Body
    BY <1>4 DEF Body, Write, Call, Ret
  <1>5. ASSUME NEW dst, ResumeAt(dst) PROVE [LayoutNext]_layoutVars
    BY <1>5 DEF ResumeAt
  <1> QED
    BY <1>1, <1>2, <1>3, <1>4, <1>5 DEF Next

(* While compiled functions call each other, to any depth and whatever     *)
(* their bodies do, no frame's regions overlap or leave the frame.         *)
THEOREM RunningFramesAreSound == Spec => []FramesSound
  <1>1. LayoutInv => FramesSound
    BY DEF LayoutInv
  <1>2. Init => LayoutInv
    BY StartsWithLayout, LayoutStarts
  <1>3. LayoutInv /\ [Next]_vars => LayoutInv'
    BY StepsKeepLayout, LayoutStep
  <1> QED
    BY <1>1, <1>2, <1>3, PTL DEF Spec

--------------------------------------------------------------------------------
(* Memory.                                                                 *)

(* What is read depends on the bytes read only.                            *)
LEMMA GetAgrees ==
  ASSUME NEW m1, NEW m2, NEW x \in Int, NEW n \in Nat \ {0},
         \A y \in x .. x + n - 1 : m1[y] = m2[y]
  PROVE  Get(m1, x, n) = Get(m2, x, n)
  <1>1. m1[x] = m2[x]
    OBVIOUS
  <1>2. \A i \in 0 .. n - 1 : m1[x + i] = m2[x + i]
    OBVIOUS
  <1> QED
    BY <1>1, <1>2 DEF Get

(* A word whose bytes are all there is read back.                          *)
Holds(m, x, n, w) == \A y \in x .. x + n - 1 : m[y] = <<w, y - x>>

LEMMA GetWord ==
  ASSUME NEW m, NEW x \in Int, NEW n \in Nat \ {0}, NEW w,
         0 <= x, x + n <= StackBase, Holds(m, x, n, w)
  PROVE  Get(m, x, n) = w
  <1>1. m[x] = <<w, 0>>
    BY DEF Holds
  <1>2. \A i \in 0 .. n - 1 : m[x + i] = <<w, i>>
    BY DEF Holds
  <1> QED
    BY <1>1, <1>2 DEF Get

LEMMA PutFacts ==
  ASSUME NEW m, NEW x \in Int, NEW n \in Nat \ {0}, NEW w
  PROVE  /\ DOMAIN Put(m, x, n, w) = DOMAIN m
         /\ \A y \in DOMAIN m : y \notin x .. x + n - 1 => Put(m, x, n, w)[y] = m[y]
         /\ \A y \in DOMAIN m : y \in x .. x + n - 1 => Put(m, x, n, w)[y] = <<w, y - x>>
  BY DEF Put

LEMMA PutDomain ==
  ASSUME NEW m, NEW x, NEW n, NEW w
  PROVE  DOMAIN Put(m, x, n, w) = DOMAIN m
  BY DEF Put

(* The same of words of eight bytes.                                       *)
LEMMA HoldsDouble ==
  ASSUME NEW m, NEW x \in Int, NEW w, \A y \in x .. x + 7 : m[y] = <<w, y - x>>
  PROVE  Holds(m, x, 8, w)
  <1> SUFFICES ASSUME NEW y \in x .. x + 8 - 1 PROVE m[y] = <<w, y - x>>
    BY DEF Holds
  <1>1. y \in x .. x + 7
    OBVIOUS
  <1> QED
    BY <1>1

LEMMA PutDouble ==
  ASSUME NEW m, NEW x \in Int, NEW w, NEW m2, m2 = Put(m, x, 8, w)
  PROVE  /\ DOMAIN m2 = DOMAIN m
         /\ \A y \in DOMAIN m : y \notin x .. x + 7 => m2[y] = m[y]
         /\ \A y \in DOMAIN m : y \in x .. x + 7 => m2[y] = <<w, y - x>>
  <1>1. x + 8 - 1 = x + 7
    OBVIOUS
  <1> QED
    BY <1>1, PutFacts

--------------------------------------------------------------------------------
(* The finished layouts.                                                   *)

Laid == Len(layouts) = Len(program) /\ overflow = {}

LEMMA ProgramTypes ==
  ASSUME LayoutInv
  PROVE  program \in Programs /\ program \in Seq(Shape) /\ Len(program) \in Nat
         /\ DOMAIN program = 1 .. Len(program)
  BY FrameLayoutAssumption DEF LayoutInv, LayoutTypeOK

LEMMA FrameFacts ==
  ASSUME LayoutInv, ShapeInv, Laid, NEW f \in 1 .. Len(program)
  PROVE  /\ LocalBytes(f) \in Nat /\ 16 <= LocalBytes(f) /\ LocalBytes(f) % 16 = 0
         /\ layouts[f].saveRaOff = LocalBytes(f) - 8
         /\ layouts[f].saveS0Off = LocalBytes(f) - 16
         /\ program[f] \in Shape
         /\ Len(SlotsOf(f)) = SlotCount(program[f])
         /\ AlignedSlots(SlotsOf(f))
  <1>1. f \in 1 .. Len(layouts) /\ f \notin overflow
    BY DEF Laid
  <1>2. layouts[f] \in Layout
    BY <1>1 DEF LayoutInv, LayoutTypeOK
  <1>3. layouts[f].localBytes \in Int
    BY <1>2 DEF Layout
  <1>4. ShapedFrame(f) /\ SoundFrame(layouts[f])
    BY <1>1 DEF ShapeInv, LayoutInv, FramesSound
  <1>5. 16 <= layouts[f].localBytes /\ layouts[f].localBytes % 16 = 0
    BY <1>1, <1>4 DEF ShapedFrame, SoundFrame
  <1>6. program[f] \in Shape
    BY ProgramTypes
  <1> QED
    BY <1>1, <1>3, <1>4, <1>5, <1>6 DEF ShapedFrame, LocalBytes, SlotsOf

(* Where the slots are.                                                    *)
SlotLo(f, i) == SlotsOf(f)[i].off
SlotHi(f, i) == SlotsOf(f)[i].off + SlotsOf(f)[i].size

LEMMA SlotsApart ==
  ASSUME LayoutInv, ShapeInv, Laid, NEW f \in 1 .. Len(program),
         NEW i \in 1 .. SlotCount(program[f])
  PROVE  /\ SlotLo(f, i) \in Nat /\ SlotHi(f, i) \in Nat
         /\ SlotHi(f, i) <= LocalBytes(f) - 16
         /\ SlotsOf(f)[i].size = SlotSize(program[f], i)
         /\ SlotsOf(f)[i].size \in Nat
         /\ SlotHi(f, i) = SlotLo(f, i) + SlotsOf(f)[i].size
         /\ \A j \in 1 .. SlotCount(program[f]) :
              i # j => SlotHi(f, i) <= SlotLo(f, j) \/ SlotHi(f, j) <= SlotLo(f, i)
  <1> DEFINE s == SlotsOf(f)
  <1>1. f \in 1 .. Len(layouts) /\ f \notin overflow
    BY DEF Laid
  <1>2. layouts[f] \in Layout
    BY <1>1 DEF LayoutInv, LayoutTypeOK
  <1>3. s \in Seq(Slot)
    BY <1>2 DEF Layout, SlotsOf
  <1>4. Len(s) = SlotCount(program[f]) /\ Sized(s, program[f])
    BY <1>1 DEF ShapeInv, ShapedFrame, SlotsOf
  <1>5. Separate(s, LocalBytes(f) - 16) /\ LocalBytes(f) \in Nat
    BY <1>1, FrameFacts DEF LayoutInv, FramesSound, SoundFrame, SlotsOf
  <1>6. \A j \in 1 .. Len(s) : s[j].off \in Int /\ s[j].size \in Nat
    BY <1>3, SlotFacts
  <1> HIDE DEF s
  <1>7. \A j \in 1 .. Len(s) : 0 <= s[j].off /\ s[j].off + s[j].size <= LocalBytes(f) - 16
    BY <1>5 DEF Separate
  <1>8. ASSUME NEW j \in 1 .. Len(s), i # j
        PROVE  s[i].off + s[i].size <= s[j].off \/ s[j].off + s[j].size <= s[i].off
    <2>1. i < j \/ j < i
      BY <1>3, <1>4, <1>8
    <2> QED
      BY <1>4, <1>5, <2>1 DEF Separate
  <1> QED
    BY <1>4, <1>5, <1>6, <1>7, <1>8 DEF Sized, SlotLo, SlotHi, s

(* The slots of arguments, and those a body uses.                          *)
LEMMA ArgSlots ==
  ASSUME LayoutInv, ShapeInv, Laid, NEW f \in 1 .. Len(program)
  PROVE  /\ program[f].arg \in Nat
         /\ \A i \in 1 .. program[f].arg :
              i \in 1 .. SlotCount(program[f]) /\ SlotsOf(f)[i].size = 8
  <1> DEFINE p == program[f]
  <1>1. /\ p.arg \in Nat /\ p.value \in Nat /\ Len(p.alloca) \in Nat
        /\ TempSlots \in Nat
    BY FrameFacts, ShapeFacts
  <1>2. ASSUME NEW i \in 1 .. p.arg
        PROVE  i \in 1 .. SlotCount(p) /\ SlotsOf(f)[i].size = 8
    <2>1. i \in 1 .. SlotCount(p)
      <3>1. SlotCount(p) = p.arg + p.value + Len(p.alloca) + TempSlots
        BY DEF SlotCount
      <3> HIDE DEF p
      <3> QED
        BY <1>1, <3>1
    <2>2. SlotSize(p, i) = 8
      <3>1. p \in Shape
        BY FrameFacts
      <3>2. i \in Nat /\ i <= p.arg + p.value
        BY <1>1
      <3> HIDE DEF p
      <3> QED
        BY <3>1, <3>2, SlotSizeFacts
    <2> QED
      BY <2>1, <2>2, SlotsApart
  <1> QED
    BY <1>1, <1>2

LEMMA UsedSlots ==
  ASSUME LayoutInv, ShapeInv, Laid, NEW f \in 1 .. Len(program), NEW i \in Uses(f)
  PROVE  i \in 1 .. SlotCount(program[f]) /\ i \in Nat /\ 0 < SlotsOf(f)[i].size
  <1>1. i \in 1 .. SlotCount(program[f]) /\ SlotSize(program[f], i) > 0
    BY ProgramTypes, CallStackAssumption DEF Uses
  <1> QED
    BY <1>1, SlotsApart

(* The bytes of a slot that a body reads and writes.                       *)
LEMMA WidthFacts ==
  ASSUME LayoutInv, ShapeInv, Laid, NEW f \in 1 .. Len(program),
         NEW i \in Uses(f) \cup 1 .. program[f].arg
  PROVE  /\ i \in 1 .. SlotCount(program[f])
         /\ Width(SlotsOf(f)[i]) \in Nat \ {0}
         /\ Width(SlotsOf(f)[i]) <= SlotsOf(f)[i].size
         /\ i \in 1 .. program[f].arg => Width(SlotsOf(f)[i]) = 8
  <1>1. i \in 1 .. SlotCount(program[f]) /\ 0 < SlotsOf(f)[i].size
    BY UsedSlots, ArgSlots
  <1>2. SlotsOf(f)[i].size \in Nat
    BY <1>1, SlotsApart
  <1>3. i \in 1 .. program[f].arg => SlotsOf(f)[i].size = 8
    BY ArgSlots
  <1> QED
    BY <1>1, <1>2, <1>3 DEF Width

--------------------------------------------------------------------------------
(* The chain of frames.                                                    *)

Frame  == [fn : Nat, base : Nat, ret : {"site"} \X Nat \X Nat]
Frames == 1 .. Len(frames)
End(n) == frames[n].base + LocalBytes(frames[n].fn)

(* sp and s0 while the n-th activation runs; n = 0 is main's caller.       *)
SpAt(n) == IF n = 0 THEN StackBase ELSE frames[n].base
S0At(n) == IF n = 0 THEN Addr(0) ELSE Addr(End(n))

(* r returns to a call made by the n-th activation.                        *)
ReturnsTo(n, r) ==
  IF n = 0 THEN r = Outside
  ELSE \E d \in {0} \cup Uses(frames[n].fn) : r = Site(frames[n].fn, d)

Chained ==
  /\ frames \in Seq(Frame)
  /\ \A n \in Frames :
       /\ frames[n].fn \in 1 .. Len(program)
       /\ frames[n].base % 16 = 0
       /\ End(n) = SpAt(n - 1) /\ End(n) <= StackBase
       /\ ReturnsTo(n - 1, frames[n].ret)
  /\ \A m, n \in Frames : m < n => End(n) <= frames[m].base

(* The two words at the top of each frame.                                 *)
SavedIn(m, n) ==
  /\ Get(m, End(n) - 8, 8) = frames[n].ret
  /\ Get(m, End(n) - 16, 8) = S0At(n - 1)

Running == Len(frames) > 0 /\ cur = frames[Len(frames)].fn

Control ==
  /\ at \in {<<"enter">>, <<"body">>, <<"exit">>} \/ \E d : at = <<"resume", d>>
  /\ sp = SpAt(Len(frames)) /\ s0 = S0At(Len(frames))
  /\ at = <<"enter">> => cur \in 1 .. Len(program) /\ ReturnsTo(Len(frames), ra)
  /\ at = <<"body">> => Running
  /\ at = <<"exit">> => frames = <<>> /\ ra = Outside
  /\ \A d : at = <<"resume", d>> =>
       Running /\ d \in {0} \cup Uses(cur) /\ ra = Site(cur, d)

NotBooted ==
  frames = <<>> /\ sp = StackBase /\ s0 = Addr(0) /\ ra = Outside /\ cur = 1

MachineInv ==
  /\ LayoutInv /\ ShapeInv
  /\ DOMAIN mem = 0 .. StackBase - 1
  /\ IF at = <<"boot">> THEN NotBooted
     ELSE /\ Laid /\ program[1].arg = 0 /\ 1 <= Len(program)
          /\ Chained /\ Control
          /\ \A n \in Frames : SavedIn(mem, n)

--------------------------------------------------------------------------------

LEMMA AtFacts ==
  /\ <<"boot">> # <<"enter">> /\ <<"boot">> # <<"body">> /\ <<"boot">> # <<"exit">>
  /\ <<"enter">> # <<"body">> /\ <<"enter">> # <<"exit">> /\ <<"body">> # <<"exit">>
  /\ \A d : /\ <<"resume", d>> # <<"boot">> /\ <<"resume", d>> # <<"enter">>
            /\ <<"resume", d>> # <<"body">> /\ <<"resume", d>> # <<"exit">>
  OBVIOUS

LEMMA SiteFacts ==
  /\ \A f, d : Site(f, d)[1] = "site" /\ Site(f, d)[2] = f /\ Site(f, d)[3] = d
  /\ \A f, d : f # 0 => Site(f, d) # Outside
  /\ Outside = Site(0, 0)
  BY DEF Site, Outside

(* After Boot there is nothing left to lay out.                            *)
LEMMA NoMoreLayouts ==
  ASSUME LayoutInv, Laid
  PROVE  ~LayoutNext
  <1>1. Fn = Len(program) + 1 /\ Len(program) \in Nat /\ stage = "reset"
    BY ProgramTypes DEF Laid, Fn, LayoutInv, LayoutTypeOK
  <1> QED
    BY <1>1 DEF LayoutNext, ResetForFunction, PlaceWord, PlaceAlloca, NextLoop,
                ReserveSaveArea

(* What the chain says of one frame.                                       *)
LEMMA ChainFacts ==
  ASSUME MachineInv, at # <<"boot">>, NEW n \in Frames
  PROVE  /\ frames[n].fn \in 1 .. Len(program) /\ frames[n].fn \in Nat \ {0}
         /\ frames[n].base \in Nat /\ frames[n].base % 16 = 0
         /\ LocalBytes(frames[n].fn) \in Nat /\ 16 <= LocalBytes(frames[n].fn)
         /\ End(n) \in Nat /\ End(n) = frames[n].base + LocalBytes(frames[n].fn)
         /\ End(n) <= StackBase /\ StackBase \in Nat
         /\ End(n) = SpAt(n - 1)
         /\ ReturnsTo(n - 1, frames[n].ret)
         /\ \A m \in Frames : m < n => End(n) <= frames[m].base
  <1>1. frames \in Seq(Frame) /\ frames[n].fn \in 1 .. Len(program)
    BY DEF MachineInv, Chained
  <1>2. frames[n] \in Frame
    BY <1>1 DEF Frames
  <1>3. frames[n].base \in Nat
    BY <1>2 DEF Frame
  <1>4. LocalBytes(frames[n].fn) \in Nat /\ 16 <= LocalBytes(frames[n].fn)
    BY <1>1, FrameFacts DEF MachineInv
  <1>5. End(n) \in Nat
    BY <1>3, <1>4 DEF End
  <1>6. /\ End(n) = frames[n].base + LocalBytes(frames[n].fn)
        /\ Len(program) \in Nat /\ StackBase \in Nat
    BY ProgramTypes, CallStackAssumption DEF MachineInv, End
  <1>7. /\ frames[n].base % 16 = 0
        /\ End(n) = SpAt(n - 1) /\ End(n) <= StackBase
        /\ ReturnsTo(n - 1, frames[n].ret)
        /\ \A m \in Frames : m < n => End(n) <= frames[m].base
    BY DEF MachineInv, Chained
  <1> QED
    BY <1>1, <1>3, <1>4, <1>5, <1>6, <1>7

(* The running activation's frame is at sp.                                *)
LEMMA TopFacts ==
  ASSUME MachineInv, at # <<"boot">>, Len(frames) > 0
  PROVE  /\ Len(frames) \in Frames /\ Len(frames) \in Nat
         /\ sp = frames[Len(frames)].base
         /\ End(Len(frames)) = sp + LocalBytes(frames[Len(frames)].fn)
         /\ s0 = Addr(End(Len(frames)))
         /\ \A n \in Frames : n # Len(frames) =>
              n < Len(frames) /\ End(Len(frames)) <= frames[n].base
  <1>1. Len(frames) \in Nat
    BY DEF MachineInv, Chained
  <1>2. Len(frames) \in Frames /\ Len(frames) # 0
    BY <1>1 DEF Frames
  <1>3. \A n \in Frames : n # Len(frames) => n < Len(frames)
    BY <1>1 DEF Frames
  <1> QED
    BY <1>1, <1>2, <1>3, ChainFacts DEF MachineInv, Control, SpAt, S0At

(* The saved words are unchanged when their bytes are.                     *)
LEMMA SavedAgrees ==
  ASSUME MachineInv, at # <<"boot">>, NEW n \in Frames, NEW m,
         \A y \in End(n) - 16 .. End(n) - 1 : m[y] = mem[y]
  PROVE  SavedIn(m, n)
  <1>1. End(n) \in Nat
    BY ChainFacts
  <1>2. Get(m, End(n) - 8, 8) = Get(mem, End(n) - 8, 8)
    BY <1>1, GetAgrees
  <1>3. Get(m, End(n) - 16, 8) = Get(mem, End(n) - 16, 8)
    BY <1>1, GetAgrees
  <1> QED
    BY <1>2, <1>3 DEF MachineInv, SavedIn

(* When the frames stay what they are, so does what is said of them.       *)
LEMMA SameChain ==
  ASSUME UNCHANGED <<layoutVars, frames>>
  PROVE  /\ Chained => Chained'
         /\ \A n : End(n)' = End(n) /\ SpAt(n)' = SpAt(n) /\ S0At(n)' = S0At(n)
         /\ \A n, r : ReturnsTo(n, r)' <=> ReturnsTo(n, r)
         /\ \A n, m : SavedIn(m, n) => SavedIn(m, n)'
         /\ Frames' = Frames /\ (Laid => Laid') /\ Len(frames') = Len(frames)
  <1>1. UNCHANGED <<program, layouts, overflow, frames>>
    BY DEF layoutVars
  <1>2. \A f : LocalBytes(f)' = LocalBytes(f) /\ Uses(f)' = Uses(f)
    BY <1>1 DEF LocalBytes, Uses
  <1>3. \A n : End(n)' = End(n) /\ SpAt(n)' = SpAt(n) /\ S0At(n)' = S0At(n)
    BY <1>1, <1>2 DEF End, SpAt, S0At
  <1>4. \A n, r : ReturnsTo(n, r)' <=> ReturnsTo(n, r)
    BY <1>1, <1>2 DEF ReturnsTo
  <1>5. Frames' = Frames
    BY <1>1 DEF Frames
  <1>6. Chained => Chained'
    BY <1>1, <1>3, <1>4, <1>5 DEF Chained
  <1>7. \A n, m : SavedIn(m, n) => SavedIn(m, n)'
    BY <1>1, <1>3 DEF SavedIn
  <1> QED
    BY <1>1, <1>3, <1>4, <1>5, <1>6, <1>7 DEF Laid

--------------------------------------------------------------------------------
(* The steps.                                                              *)

(* What a running body writes above its own slots it does not write.       *)
LEMMA SavedBelowTop ==
  ASSUME MachineInv, at # <<"boot">>, Len(frames) > 0, NEW m,
         \A y \in End(Len(frames)) - 16 .. StackBase - 1 : m[y] = mem[y]
  PROVE  \A n \in Frames : SavedIn(m, n)
  <1> SUFFICES ASSUME NEW n \in Frames PROVE SavedIn(m, n)
    OBVIOUS
  <1> DEFINE top == Len(frames)
  <1>1. top \in Frames /\ End(top) \in Nat /\ End(n) \in Nat
        /\ End(n) <= StackBase /\ StackBase \in Nat
    BY TopFacts, ChainFacts
  <1>2. End(top) <= End(n)
    <2>1. CASE n = top
      BY <1>1, <2>1
    <2>2. CASE n # top
      <3>1. End(top) <= frames[n].base
        BY <2>2, TopFacts
      <3>2. /\ frames[n].base \in Nat /\ LocalBytes(frames[n].fn) \in Nat
            /\ End(n) = frames[n].base + LocalBytes(frames[n].fn)
        BY ChainFacts
      <3> QED
        BY <1>1, <3>1, <3>2
    <2> QED
      BY <2>1, <2>2
  <1>3. \A y \in End(n) - 16 .. End(n) - 1 : m[y] = mem[y]
    BY <1>1, <1>2
  <1> QED
    BY <1>3, SavedAgrees

(* Where a slot of the running body lies.                                  *)
LEMMA SlotPlace ==
  ASSUME MachineInv, at # <<"boot">>, Running, NEW i \in Uses(cur)
  PROVE  /\ cur \in 1 .. Len(program)
         /\ sp + SlotLo(cur, i) \in Nat
         /\ Width(SlotsOf(cur)[i]) \in Nat \ {0}
         /\ sp + SlotLo(cur, i) + Width(SlotsOf(cur)[i]) <= End(Len(frames)) - 16
         /\ End(Len(frames)) <= StackBase /\ End(Len(frames)) \in Nat
  <1>1. cur \in 1 .. Len(program)
    BY TopFacts, ChainFacts DEF Running
  <1>2. /\ sp \in Nat /\ End(Len(frames)) = sp + LocalBytes(cur)
        /\ End(Len(frames)) <= StackBase /\ End(Len(frames)) \in Nat
    BY TopFacts, ChainFacts DEF Running
  <1>3. /\ i \in 1 .. SlotCount(program[cur])
        /\ Width(SlotsOf(cur)[i]) \in Nat \ {0}
        /\ Width(SlotsOf(cur)[i]) <= SlotsOf(cur)[i].size
    BY <1>1, WidthFacts DEF MachineInv
  <1>4. /\ SlotLo(cur, i) \in Nat /\ SlotsOf(cur)[i].size \in Nat
        /\ SlotLo(cur, i) + SlotsOf(cur)[i].size <= LocalBytes(cur) - 16
        /\ LocalBytes(cur) \in Nat
    BY <1>1, <1>3, SlotsApart, FrameFacts DEF MachineInv
  <1> DEFINE lo == SlotLo(cur, i)
             size == SlotsOf(cur)[i].size
             n == Width(SlotsOf(cur)[i])
             bytes == LocalBytes(cur)
             end == End(Len(frames))
  <1>5. /\ sp \in Nat /\ lo \in Nat /\ size \in Nat /\ n \in Nat /\ bytes \in Nat
        /\ lo + size <= bytes - 16 /\ n <= size /\ end = sp + bytes
    BY <1>2, <1>3, <1>4
  <1>6. sp + lo \in Nat /\ sp + lo + n <= end - 16
    <2> HIDE DEF lo, size, n, bytes, end
    <2> QED
      BY <1>5
  <1> QED
    BY <1>1, <1>2, <1>3, <1>6

(* A word into a slot of the running body.                                 *)
LEMMA SlotWrite ==
  ASSUME MachineInv, at # <<"boot">>, Running, NEW i \in Uses(cur), NEW w,
         NEW m, m = Put(mem, sp + SlotsOf(cur)[i].off, Width(SlotsOf(cur)[i]), w)
  PROVE  /\ DOMAIN m = DOMAIN mem
         /\ \A n \in Frames : SavedIn(m, n)
  <1> DEFINE x == sp + SlotLo(cur, i)
             n == Width(SlotsOf(cur)[i])
  <1>1. /\ x \in Nat /\ n \in Nat \ {0} /\ x + n <= End(Len(frames)) - 16
        /\ End(Len(frames)) \in Nat
    BY SlotPlace
  <1>2. m = Put(mem, x, n, w)
    BY DEF SlotLo
  <1>3. DOMAIN mem = 0 .. StackBase - 1
    BY DEF MachineInv
  <1> HIDE DEF x, n
  <1>4. \A y \in End(Len(frames)) - 16 .. StackBase - 1 : m[y] = mem[y]
    <2> SUFFICES ASSUME NEW y \in End(Len(frames)) - 16 .. StackBase - 1
                 PROVE  m[y] = mem[y]
      OBVIOUS
    <2>1. StackBase \in Nat
      BY CallStackAssumption
    <2>2. y \in DOMAIN mem /\ y \notin x .. x + n - 1
      BY <1>1, <1>3, <2>1
    <2> QED
      BY <1>1, <1>2, <2>2, PutFacts
  <1>5. Len(frames) > 0
    BY DEF Running
  <1>6. \A j \in Frames : SavedIn(m, j)
    BY <1>4, <1>5, SavedBelowTop
  <1>7. DOMAIN m = DOMAIN mem
    BY <1>2, PutDomain
  <1> QED
    BY <1>6, <1>7

LEMMA LayoutsKept ==
  ASSUME LayoutInv, ShapeInv, [LayoutNext]_layoutVars
  PROVE  LayoutInv' /\ ShapeInv'
  BY LayoutStep, ShapeStep

LEMMA WriteInv ==
  ASSUME MachineInv, at = <<"body">>, NEW i \in Uses(cur), NEW v, Write(i, v)
  PROVE  MachineInv'
  <1>1. at # <<"boot">> /\ at' = <<"body">>
    BY AtFacts DEF Write
  <1>2. Running
    BY <1>1 DEF MachineInv, Control
  <1>3. /\ UNCHANGED <<layoutVars, frames>> /\ UNCHANGED <<sp, s0, ra, cur, at>>
        /\ mem' = Put(mem, sp + SlotsOf(cur)[i].off, Width(SlotsOf(cur)[i]), Word(v))
    BY DEF Write
  <1>4. DOMAIN mem' = DOMAIN mem /\ \A n \in Frames : SavedIn(mem', n)
    BY <1>1, <1>2, <1>3, SlotWrite
  <1>5. LayoutInv' /\ ShapeInv'
    BY <1>3, LayoutsKept DEF MachineInv
  <1>6. Laid' /\ program' = program /\ Chained'
    BY <1>1, <1>3, SameChain DEF MachineInv, layoutVars
  <1>7. Control'
    BY <1>1, <1>2, <1>3, SameChain, AtFacts DEF MachineInv, Control, Running
  <1>8. \A n \in Frames' : SavedIn(mem, n)'
    BY <1>3, <1>4, SameChain DEF SavedIn
  <1> QED
    BY <1>1, <1>4, <1>5, <1>6, <1>7, <1>8 DEF MachineInv

LEMMA CallInv ==
  ASSUME MachineInv, at = <<"body">>, NEW f \in 1 .. Len(program), NEW args,
         NEW dst \in {0} \cup Uses(cur), Call(f, args, dst)
  PROVE  MachineInv'
  <1>1. at # <<"boot">> /\ at' = <<"enter">>
    BY AtFacts DEF Call
  <1>2. Running
    BY <1>1 DEF MachineInv, Control
  <1>3. /\ UNCHANGED <<layoutVars, frames>> /\ UNCHANGED <<sp, s0, mem>>
        /\ ra' = Site(cur, dst) /\ cur' = f
    BY DEF Call
  <1>4. LayoutInv' /\ ShapeInv'
    BY <1>3, LayoutsKept DEF MachineInv
  <1>5. Laid' /\ program' = program /\ Chained'
    BY <1>1, <1>3, SameChain DEF MachineInv, layoutVars
  <1>6. ReturnsTo(Len(frames), ra')
    <2>1. Len(frames) # 0 /\ cur = frames[Len(frames)].fn
      BY <1>2, TopFacts, <1>1 DEF Running
    <2> QED
      BY <1>3, <2>1 DEF ReturnsTo
  <1>7. Control'
    BY <1>1, <1>3, <1>5, <1>6, SameChain, AtFacts DEF MachineInv, Control
  <1>8. \A n \in Frames' : SavedIn(mem, n)'
    BY <1>1, <1>3, SameChain DEF MachineInv, SavedIn
  <1> QED
    BY <1>1, <1>3, <1>4, <1>5, <1>7, <1>8 DEF MachineInv

LEMMA ResumeInv ==
  ASSUME MachineInv, NEW dst \in {0} \cup Uses(cur), ResumeAt(dst)
  PROVE  MachineInv'
  <1>1. at = <<"resume", dst>> /\ at # <<"boot">> /\ at' = <<"body">>
    BY AtFacts DEF ResumeAt
  <1>2. Running
    BY <1>1 DEF MachineInv, Control
  <1>3. /\ UNCHANGED <<layoutVars, frames>> /\ UNCHANGED <<sp, s0, ra, cur>>
        /\ mem' = IF dst = 0 THEN mem
                  ELSE Put(mem, sp + SlotsOf(cur)[dst].off, Width(SlotsOf(cur)[dst]), a[1])
    BY DEF ResumeAt
  <1>4. DOMAIN mem' = DOMAIN mem /\ \A n \in Frames : SavedIn(mem', n)
    <2>1. CASE dst = 0
      BY <1>1, <1>3, <2>1 DEF MachineInv
    <2>2. CASE dst # 0
      BY <1>1, <1>2, <1>3, <2>2, SlotWrite
    <2> QED
      BY <2>1, <2>2
  <1>5. LayoutInv' /\ ShapeInv'
    BY <1>3, LayoutsKept DEF MachineInv
  <1>6. Laid' /\ program' = program /\ Chained'
    BY <1>1, <1>3, SameChain DEF MachineInv, layoutVars
  <1>7. Control'
    BY <1>1, <1>2, <1>3, SameChain, AtFacts DEF MachineInv, Control, Running
  <1>8. \A n \in Frames' : SavedIn(mem, n)'
    BY <1>3, <1>4, SameChain DEF SavedIn
  <1> QED
    BY <1>1, <1>4, <1>5, <1>6, <1>7, <1>8 DEF MachineInv

--------------------------------------------------------------------------------
(* Entering and leaving a function.                                        *)

(* A frame that frames and frames' have in common.                         *)
LEMMA CommonFrames ==
  ASSUME UNCHANGED layoutVars, NEW top \in Nat,
         \A n \in 1 .. top : frames'[n] = frames[n]
  PROVE  /\ \A n \in 1 .. top : End(n)' = End(n)
         /\ \A n \in 0 .. top : /\ SpAt(n)' = SpAt(n) /\ S0At(n)' = S0At(n)
                                /\ \A r : ReturnsTo(n, r)' <=> ReturnsTo(n, r)
         /\ program' = program /\ (Laid => Laid')
  <1>1. UNCHANGED <<program, layouts, overflow>>
    BY DEF layoutVars
  <1>2. \A f : LocalBytes(f)' = LocalBytes(f) /\ Uses(f)' = Uses(f)
    BY <1>1 DEF LocalBytes, Uses
  <1>3. \A n \in 1 .. top : End(n)' = End(n)
    BY <1>2 DEF End
  <1>4. \A n \in 0 .. top : SpAt(n)' = SpAt(n) /\ S0At(n)' = S0At(n)
    BY <1>3 DEF SpAt, S0At
  <1>5. \A n \in 0 .. top : \A r : ReturnsTo(n, r)' <=> ReturnsTo(n, r)
    BY <1>2 DEF ReturnsTo
  <1> QED
    BY <1>1, <1>3, <1>4, <1>5 DEF Laid

(* The prologue's two words.                                               *)
LEMMA SaveRegsFacts ==
  ASSUME MachineInv, at # <<"boot">>, NEW f \in 1 .. Len(program),
         NEW base \in Nat, base + LocalBytes(f) <= StackBase,
         NEW m, m = SaveRegs(mem, base, f)
  PROVE  /\ DOMAIN m = DOMAIN mem
         /\ \A y \in DOMAIN mem : base + LocalBytes(f) <= y => m[y] = mem[y]
         /\ Get(m, base + LocalBytes(f) - 8, 8) = ra
         /\ Get(m, base + LocalBytes(f) - 16, 8) = s0
  <1> DEFINE x  == base + LocalBytes(f) - 8
             z  == base + LocalBytes(f) - 16
             m1 == Put(mem, x, 8, ra)
  <1>1. /\ LocalBytes(f) \in Nat /\ 16 <= LocalBytes(f)
        /\ base + layouts[f].saveRaOff = x /\ base + layouts[f].saveS0Off = z
    BY FrameFacts DEF MachineInv
  <1>2. m = Put(m1, z, 8, s0)
    BY <1>1 DEF SaveRegs
  <1>3. x \in Nat /\ z \in Nat /\ x = z + 8 /\ x + 8 <= StackBase
        /\ base + LocalBytes(f) = x + 8
    BY <1>1
  <1>4. DOMAIN mem = 0 .. StackBase - 1 /\ StackBase \in Nat
    BY CallStackAssumption DEF MachineInv
  <1> HIDE DEF x, z
  <1>5. /\ DOMAIN m1 = DOMAIN mem
        /\ \A y \in DOMAIN mem : y \notin x .. x + 7 => m1[y] = mem[y]
        /\ \A y \in DOMAIN mem : y \in x .. x + 7 => m1[y] = <<ra, y - x>>
    <2>1. x \in Int
      BY <1>3
    <2>2. m1 = Put(mem, x, 8, ra)
      OBVIOUS
    <2> HIDE DEF m1
    <2>3. DOMAIN m1 = DOMAIN mem
      BY <2>2, PutDomain
    <2>4. ASSUME NEW y \in DOMAIN mem, y \notin x .. x + 7
          PROVE  m1[y] = mem[y]
      BY <2>1, <2>2, <2>4, PutDouble
    <2>5. ASSUME NEW y \in DOMAIN mem, y \in x .. x + 7
          PROVE  m1[y] = <<ra, y - x>>
      BY <2>1, <2>2, <2>5, PutDouble
    <2> QED
      BY <2>3, <2>4, <2>5
  <1> HIDE DEF m1
  <1>6. /\ DOMAIN m = DOMAIN mem
        /\ \A y \in DOMAIN mem : y \notin z .. z + 7 => m[y] = m1[y]
        /\ \A y \in DOMAIN mem : y \in z .. z + 7 => m[y] = <<s0, y - z>>
    <2>1. z \in Int
      BY <1>3
    <2>2. /\ DOMAIN m = DOMAIN m1
          /\ \A y \in DOMAIN m1 : y \notin z .. z + 7 => m[y] = m1[y]
          /\ \A y \in DOMAIN m1 : y \in z .. z + 7 => m[y] = <<s0, y - z>>
      BY <1>2, <2>1, PutDouble
    <2> QED
      BY <1>5, <2>2
  <1>7. \A y \in DOMAIN mem : x + 8 <= y => m[y] = mem[y]
    BY <1>3, <1>4, <1>5, <1>6
  <1>8. Get(m, x, 8) = ra
    <2>1. \A y \in x .. x + 7 : y \in DOMAIN mem /\ y \notin z .. z + 7
      BY <1>3, <1>4
    <2>2. Holds(m, x, 8, ra)
      <3>1. \A y \in x .. x + 7 : m[y] = <<ra, y - x>>
        BY <1>5, <1>6, <2>1
      <3>2. x \in Int
        BY <1>3
      <3> QED
        BY <3>1, <3>2, HoldsDouble
    <2>3. 0 <= x /\ x + 8 <= StackBase
      BY <1>3, <1>4
    <2> QED
      BY <1>3, <2>2, <2>3, GetWord
  <1>9. Get(m, z, 8) = s0
    <2>1. \A y \in z .. z + 7 : y \in DOMAIN mem
      BY <1>3, <1>4
    <2>2. Holds(m, z, 8, s0)
      <3>1. \A y \in z .. z + 7 : m[y] = <<s0, y - z>>
        BY <1>6, <2>1
      <3>2. z \in Int
        BY <1>3
      <3> QED
        BY <3>1, <3>2, HoldsDouble
    <2>3. 0 <= z /\ z + 8 <= StackBase
      BY <1>3, <1>4
    <2> QED
      BY <1>3, <2>2, <2>3, GetWord
  <1> QED
    BY <1>3, <1>6, <1>7, <1>8, <1>9 DEF x, z

(* An argument's slot holds the argument, and nothing else is written.     *)
LEMMA SpillArgsFacts ==
  ASSUME LayoutInv, ShapeInv, Laid, NEW f \in 1 .. Len(program),
         NEW base \in Nat, NEW m, DOMAIN m \subseteq Nat,
         NEW m2, m2 = SpillArgs(m, base, f)
  PROVE  /\ DOMAIN m2 = DOMAIN m
         /\ \A y \in DOMAIN m :
              (\A i \in 1 .. program[f].arg :
                 y \notin base + SlotLo(f, i) .. base + SlotLo(f, i) + 7)
                => m2[y] = m[y]
         /\ \A i \in 1 .. program[f].arg, y \in DOMAIN m :
              y \in base + SlotLo(f, i) .. base + SlotLo(f, i) + 7
                => m2[y] = <<Arg(m, base + LocalBytes(f), i), y - (base + SlotLo(f, i))>>
  <1> DEFINE slot(i)    == base + SlotLo(f, i)
             covered(y) == {i \in 1 .. program[f].arg : y \in slot(i) .. slot(i) + 7}
             last(y)    == CHOOSE i \in covered(y) : \A j \in covered(y) : j <= i
             arg(i)     == Arg(m, base + LocalBytes(f), i)
  <1>1. m2 = [y \in DOMAIN m |-> IF covered(y) = {} THEN m[y]
                                 ELSE <<arg(last(y)), y - slot(last(y))>>]
    BY DEF SpillArgs, SlotLo
  <1>2. program[f].arg \in Nat
    BY ArgSlots
  <1>3. ASSUME NEW i \in 1 .. program[f].arg, NEW j \in 1 .. program[f].arg,
               NEW y \in Nat, y \in slot(i) .. slot(i) + 7, y \in slot(j) .. slot(j) + 7
        PROVE  i = j
    <2>1. /\ SlotLo(f, i) \in Nat /\ SlotHi(f, i) = SlotLo(f, i) + 8
          /\ SlotLo(f, j) \in Nat /\ SlotHi(f, j) = SlotLo(f, j) + 8
          /\ i # j => SlotHi(f, i) <= SlotLo(f, j) \/ SlotHi(f, j) <= SlotLo(f, i)
      <3>1. /\ i \in 1 .. SlotCount(program[f]) /\ SlotsOf(f)[i].size = 8
            /\ j \in 1 .. SlotCount(program[f]) /\ SlotsOf(f)[j].size = 8
        BY ArgSlots
      <3>2. /\ SlotLo(f, i) \in Nat /\ SlotHi(f, i) = SlotLo(f, i) + 8
            /\ i # j => SlotHi(f, i) <= SlotLo(f, j) \/ SlotHi(f, j) <= SlotLo(f, i)
        BY <3>1, SlotsApart
      <3>3. SlotLo(f, j) \in Nat /\ SlotHi(f, j) = SlotLo(f, j) + 8
        BY <3>1, SlotsApart
      <3> QED
        BY <3>2, <3>3
    <2> QED
      BY <1>3, <2>1
  <1>4. ASSUME NEW i \in 1 .. program[f].arg, NEW y \in DOMAIN m,
               y \in slot(i) .. slot(i) + 7
        PROVE  covered(y) = {i} /\ last(y) = i
    <2>1. covered(y) = {i}
      BY <1>3, <1>4
    <2>2. i <= i
      BY <1>2
    <2> HIDE DEF covered
    <2> QED
      BY <2>1, <2>2
  <1>5. ASSUME NEW y \in DOMAIN m,
               \A i \in 1 .. program[f].arg : y \notin slot(i) .. slot(i) + 7
        PROVE  m2[y] = m[y]
    BY <1>1, <1>5
  <1>6. ASSUME NEW i \in 1 .. program[f].arg, NEW y \in DOMAIN m,
               y \in slot(i) .. slot(i) + 7
        PROVE  m2[y] = <<arg(i), y - slot(i)>>
    <2>1. covered(y) # {} /\ last(y) = i
      BY <1>4, <1>6
    <2> HIDE DEF covered, last, arg, slot
    <2> QED
      BY <1>1, <2>1
  <1>7. DOMAIN m2 = DOMAIN m
    <2> HIDE DEF covered, last, arg, slot
    <2> QED
      BY <1>1
  <1> QED
    BY <1>5, <1>6, <1>7

(* Where the frame of the function being entered goes.                     *)
LEMMA EnterPlace ==
  ASSUME MachineInv, at = <<"enter">>, Enter
  PROVE  /\ at # <<"boot">> /\ cur \in 1 .. Len(program) /\ cur \in Nat \ {0}
         /\ LocalBytes(cur) \in Nat /\ 16 <= LocalBytes(cur)
         /\ sp - LocalBytes(cur) \in Nat
         /\ (sp - LocalBytes(cur)) % 16 = 0
         /\ (sp - LocalBytes(cur)) + LocalBytes(cur) = sp
         /\ sp \in Nat /\ sp <= StackBase /\ StackBase \in Nat
         /\ \A n \in Frames : sp <= frames[n].base
         /\ Len(frames) \in Nat
  <1>1. at # <<"boot">>
    BY AtFacts
  <1>2. cur \in 1 .. Len(program) /\ sp = SpAt(Len(frames)) /\ Len(frames) \in Nat
    BY <1>1 DEF MachineInv, Control, Chained
  <1>3. cur \in Nat \ {0} /\ Len(program) \in Nat
    BY <1>2, ProgramTypes DEF MachineInv
  <1>4. LocalBytes(cur) \in Nat /\ 16 <= LocalBytes(cur) /\ LocalBytes(cur) % 16 = 0
    BY <1>1, <1>2, FrameFacts DEF MachineInv
  <1>5. sp \in Nat /\ sp <= StackBase /\ sp % 16 = 0 /\ StackBase \in Nat
        /\ \A n \in Frames : sp <= frames[n].base
    <2>1. CASE Len(frames) = 0
      BY <1>2, <2>1, CallStackAssumption DEF SpAt, Frames
    <2>2. CASE Len(frames) # 0
      <3>1. Len(frames) > 0
        BY <1>2, <2>2
      <3>2. /\ sp = frames[Len(frames)].base /\ Len(frames) \in Frames
            /\ End(Len(frames)) = sp + LocalBytes(frames[Len(frames)].fn)
            /\ \A n \in Frames : n # Len(frames) => End(Len(frames)) <= frames[n].base
        BY <1>1, <3>1, TopFacts
      <3>3. /\ sp \in Nat /\ sp % 16 = 0 /\ End(Len(frames)) <= StackBase
            /\ LocalBytes(frames[Len(frames)].fn) \in Nat /\ StackBase \in Nat
            /\ \A n \in Frames : frames[n].base \in Nat
        BY <1>1, <3>2, ChainFacts
      <3>4. sp <= StackBase
        BY <3>2, <3>3
      <3>5. \A n \in Frames : sp <= frames[n].base
        BY <3>2, <3>3
      <3> QED
        BY <3>3, <3>4, <3>5
    <2> QED
      BY <2>1, <2>2
  <1>6. sp - LocalBytes(cur) >= 0
    BY DEF Enter
  <1> DEFINE bytes == LocalBytes(cur)
  <1>7. /\ sp - bytes \in Nat /\ (sp - bytes) % 16 = 0 /\ (sp - bytes) + bytes = sp
    <2>1. bytes \in Nat /\ bytes % 16 = 0 /\ sp - bytes >= 0
      BY <1>4, <1>6
    <2> HIDE DEF bytes
    <2> QED
      BY <1>5, <2>1
  <1> QED
    BY <1>1, <1>2, <1>3, <1>4, <1>5, <1>7

(* Memory after the prologue: the callers' frames are what they were, and  *)
(* the two words of the new frame are ra and s0.                           *)
LEMMA EnterMemory ==
  ASSUME MachineInv, at = <<"enter">>, Enter
  PROVE  /\ DOMAIN mem' = 0 .. StackBase - 1
         /\ \A y \in DOMAIN mem : sp <= y => mem'[y] = mem[y]
         /\ Get(mem', sp - 8, 8) = ra
         /\ Get(mem', sp - 16, 8) = s0
  <1> DEFINE base == sp - LocalBytes(cur)
             m    == SaveRegs(mem, base, cur)
  <1>1. /\ at # <<"boot">> /\ cur \in 1 .. Len(program)
        /\ LocalBytes(cur) \in Nat /\ base \in Nat /\ base + LocalBytes(cur) = sp
        /\ sp \in Nat /\ sp <= StackBase /\ StackBase \in Nat
    BY EnterPlace
  <1>2. mem' = SpillArgs(m, base, cur)
    BY DEF Enter
  <1>3. DOMAIN mem = 0 .. StackBase - 1
    BY DEF MachineInv
  <1> HIDE DEF base
  <1>4. /\ DOMAIN m = DOMAIN mem
        /\ \A y \in DOMAIN mem : sp <= y => m[y] = mem[y]
        /\ Get(m, sp - 8, 8) = ra /\ Get(m, sp - 16, 8) = s0
    BY <1>1, SaveRegsFacts
  <1> HIDE DEF m
  <1>5. \A i \in 1 .. program[cur].arg :
          SlotLo(cur, i) \in Nat /\ SlotLo(cur, i) + 8 <= LocalBytes(cur) - 16
    BY <1>1, ArgSlots, SlotsApart DEF MachineInv
  <1>6. \A i \in 1 .. program[cur].arg, y \in Nat :
          sp - 16 <= y => y \notin base + SlotLo(cur, i) .. base + SlotLo(cur, i) + 7
    <2> SUFFICES ASSUME NEW i \in 1 .. program[cur].arg, NEW y \in Nat, sp - 16 <= y
                 PROVE  y \notin base + SlotLo(cur, i) .. base + SlotLo(cur, i) + 7
      OBVIOUS
    <2> DEFINE bytes == LocalBytes(cur)
    <2>1. PICK lo \in Nat : lo = SlotLo(cur, i) /\ lo + 8 <= bytes - 16
      BY <1>5
    <2>2. base + lo + 7 < y
      <3>1. bytes \in Nat /\ base \in Nat /\ sp \in Nat /\ base + bytes = sp
        BY <1>1
      <3> HIDE DEF bytes
      <3>2. base + lo + 24 <= base + bytes
        BY <2>1, <3>1
      <3> QED
        BY <3>1, <3>2
    <2>3. y \notin base + lo .. base + lo + 7
      BY <1>1, <2>2
    <2> QED
      BY <2>1, <2>3
  <1>7. DOMAIN m \subseteq Nat
    BY <1>1, <1>3, <1>4
  <1>8. /\ DOMAIN mem' = DOMAIN m
        /\ \A y \in DOMAIN m : sp - 16 <= y => mem'[y] = m[y]
    BY <1>1, <1>2, <1>6, <1>7, SpillArgsFacts DEF MachineInv
  <1>9. sp - 16 \in Nat
    <2>1. 16 <= LocalBytes(cur)
      BY <1>1, FrameFacts DEF MachineInv
    <2> QED
      BY <1>1, <2>1
  <1>10. \A y \in sp - 16 .. sp - 1 : mem'[y] = m[y]
    <2> SUFFICES ASSUME NEW y \in sp - 16 .. sp - 1 PROVE mem'[y] = m[y]
      OBVIOUS
    <2>1. y \in 0 .. StackBase - 1 /\ sp - 16 <= y
      BY <1>1, <1>9
    <2>2. y \in DOMAIN m
      BY <1>3, <1>4, <2>1
    <2> QED
      BY <1>8, <2>1, <2>2
  <1>11. Get(mem', sp - 8, 8) = Get(m, sp - 8, 8)
    <2>1. \A y \in sp - 8 .. (sp - 8) + 8 - 1 : mem'[y] = m[y]
      BY <1>1, <1>9, <1>10
    <2> QED
      BY <1>1, <2>1, GetAgrees
  <1>12. Get(mem', sp - 16, 8) = Get(m, sp - 16, 8)
    <2>1. \A y \in sp - 16 .. (sp - 16) + 8 - 1 : mem'[y] = m[y]
      BY <1>1, <1>9, <1>10
    <2> QED
      BY <1>1, <2>1, GetAgrees
  <1>13. \A y \in DOMAIN mem : sp <= y => mem'[y] = mem[y]
    BY <1>1, <1>3, <1>4, <1>8
  <1> QED
    BY <1>3, <1>4, <1>8, <1>11, <1>12, <1>13

LEMMA EnterInv == ASSUME MachineInv, Enter PROVE MachineInv'
  <1>0. PICK N \in Nat : N = Len(frames)
    <2>1. at = <<"enter">>
      BY DEF Enter
    <2> QED
      BY <2>1, EnterPlace
  <1> DEFINE base == sp - LocalBytes(cur)
             new  == [fn |-> cur, base |-> base, ret |-> ra]
  <1>1. at = <<"enter">> /\ at' = <<"body">> /\ at # <<"boot">> /\ at' # <<"boot">>
    BY AtFacts DEF Enter
  <1>2. /\ cur \in 1 .. Len(program) /\ cur \in Nat \ {0} /\ LocalBytes(cur) \in Nat
        /\ 16 <= LocalBytes(cur) /\ base \in Nat /\ base % 16 = 0
        /\ base + LocalBytes(cur) = sp /\ sp \in Nat /\ sp <= StackBase
        /\ \A n \in Frames : sp <= frames[n].base
    BY <1>1, EnterPlace
  <1>3. /\ UNCHANGED <<layoutVars, ra, cur>> /\ sp' = base
        /\ s0' = Addr(base + LocalBytes(cur)) /\ frames' = Append(frames, new)
    BY DEF Enter
  <1>4. frames \in Seq(Frame) /\ ReturnsTo(N, ra) /\ sp = SpAt(N) /\ s0 = S0At(N)
    BY <1>0, <1>1 DEF MachineInv, Control, Chained
  <1>5. new \in Frame
    <2>1. ra \in {"site"} \X Nat \X Nat
      <3>1. CASE N = 0
        BY <1>4, <3>1 DEF ReturnsTo, Outside, Site
      <3>2. CASE N # 0
        <4>1. PICK d \in {0} \cup Uses(frames[N].fn) : ra = Site(frames[N].fn, d)
          BY <1>4, <3>2 DEF ReturnsTo
        <4>2. N \in Frames
          BY <1>0, <3>2 DEF Frames
        <4>3. frames[N].fn \in 1 .. Len(program) /\ frames[N].fn \in Nat
          BY <1>1, <4>2, ChainFacts
        <4>4. d \in Nat
          BY <1>1, <4>3, UsedSlots DEF MachineInv
        <4> QED
          BY <4>1, <4>3, <4>4 DEF Site
      <3> QED
        BY <3>1, <3>2
    <2> HIDE DEF base
    <2> QED
      BY <1>2, <2>1 DEF Frame
  <1>6. /\ frames' \in Seq(Frame) /\ Len(frames') = N + 1
        /\ \A n \in 1 .. N : frames'[n] = frames[n]
        /\ frames'[N + 1] = new
    <2> HIDE DEF new
    <2> QED
      BY <1>0, <1>3, <1>4, <1>5
  <1>7. /\ \A n \in 1 .. N : End(n)' = End(n)
        /\ \A n \in 0 .. N : /\ SpAt(n)' = SpAt(n) /\ S0At(n)' = S0At(n)
                             /\ \A r : ReturnsTo(n, r)' <=> ReturnsTo(n, r)
        /\ program' = program /\ Laid'
    BY <1>1, <1>3, <1>6, CommonFrames DEF MachineInv
  <1>8. /\ frames'[N + 1].fn = cur /\ frames'[N + 1].base = base
        /\ frames'[N + 1].ret = ra
        /\ End(N + 1)' = sp /\ S0At(N + 1)' = Addr(sp) /\ SpAt(N + 1)' = base
    <2>1. layouts' = layouts
      BY <1>3 DEF layoutVars
    <2>2. frames'[N + 1].fn = cur /\ frames'[N + 1].base = base /\ frames'[N + 1].ret = ra
      BY <1>6
    <2>3. End(N + 1)' = sp
      BY <1>2, <2>1, <2>2 DEF End, LocalBytes
    <2> QED
      BY <1>2, <2>2, <2>3 DEF S0At, SpAt
  <1> HIDE DEF new, base
  <1>9. LayoutInv' /\ ShapeInv'
    BY <1>3, LayoutsKept DEF MachineInv
  <1>10. Chained'
    <2>1. ASSUME NEW n \in 1 .. N + 1
          PROVE  /\ frames'[n].fn \in 1 .. Len(program')
                 /\ frames'[n].base % 16 = 0
                 /\ End(n)' = SpAt(n - 1)' /\ End(n)' <= StackBase
                 /\ ReturnsTo(n - 1, frames[n].ret)'
      <3>1. CASE n \in 1 .. N
        <4>1. n \in Frames /\ n - 1 \in 0 .. N
          BY <1>0, <3>1 DEF Frames
        <4>2. ReturnsTo(n - 1, frames[n].ret)
          BY <1>1, <4>1, ChainFacts
        <4> QED
          BY <1>1, <1>6, <1>7, <3>1, <4>1, <4>2, ChainFacts
      <3>2. CASE n = N + 1
        <4>1. n - 1 = N /\ N \in 0 .. N
          BY <1>2, <3>2
        <4>2. ReturnsTo(N, ra)'
          BY <1>3, <1>4, <1>7, <4>1
        <4> QED
          BY <1>2, <1>4, <1>7, <1>8, <3>2, <4>1, <4>2
      <3> QED
        BY <1>2, <3>1, <3>2
    <2>2. ASSUME NEW m \in 1 .. N + 1, NEW n \in 1 .. N + 1, m < n
          PROVE  End(n)' <= frames'[m].base
      <3>1. m \in 1 .. N /\ m \in Frames /\ frames'[m] = frames[m]
        BY <1>0, <1>6, <2>2 DEF Frames
      <3>2. CASE n \in 1 .. N
        BY <1>0, <1>1, <1>6, <1>7, <2>2, <3>1, <3>2, ChainFacts DEF Frames
      <3>3. CASE n = N + 1
        BY <1>2, <1>8, <3>1, <3>3
      <3> QED
        BY <1>2, <3>2, <3>3
    <2> QED
      BY <1>6, <2>1, <2>2 DEF Chained, Frames
  <1>11. Control'
    <2>1. Len(frames') > 0 /\ Running'
      BY <1>2, <1>3, <1>6, <1>8 DEF Running
    <2>2. s0' = S0At(Len(frames))' /\ sp' = SpAt(Len(frames))'
      BY <1>2, <1>3, <1>6, <1>8
    <2> QED
      BY <1>1, <2>1, <2>2, AtFacts DEF Control
  <1>12. \A n \in Frames' : SavedIn(mem, n)'
    <2>1. /\ \A y \in DOMAIN mem : sp <= y => mem'[y] = mem[y]
          /\ Get(mem', sp - 8, 8) = ra /\ Get(mem', sp - 16, 8) = s0
          /\ DOMAIN mem = 0 .. StackBase - 1
      BY <1>1, EnterMemory DEF MachineInv
    <2>2. ASSUME NEW n \in 1 .. N PROVE SavedIn(mem, n)'
      <3>1. n \in Frames /\ n - 1 \in 0 .. N
        BY <1>0 DEF Frames
      <3>2. /\ End(n) \in Nat /\ End(n) <= StackBase /\ StackBase \in Nat
            /\ frames[n].base \in Nat /\ LocalBytes(frames[n].fn) \in Nat
            /\ End(n) = frames[n].base + LocalBytes(frames[n].fn)
            /\ 16 <= LocalBytes(frames[n].fn) /\ sp <= frames[n].base
        BY <1>1, <1>2, <3>1, ChainFacts
      <3>3. ASSUME NEW y \in End(n) - 16 .. End(n) - 1 PROVE mem'[y] = mem[y]
        <4> DEFINE e == End(n)
                   b == frames[n].base
                   l == LocalBytes(frames[n].fn)
        <4>1. /\ e \in Nat /\ e <= StackBase /\ b \in Nat /\ l \in Nat
              /\ e = b + l /\ 16 <= l /\ sp <= b /\ y \in e - 16 .. e - 1
              /\ sp \in Nat /\ StackBase \in Nat
          BY <1>2, <3>2
        <4> HIDE DEF e, b, l
        <4>2. sp <= y /\ y \in 0 .. StackBase - 1
          BY <4>1
        <4> QED
          BY <2>1, <4>2
      <3>4. SavedIn(mem', n)
        BY <1>1, <3>1, <3>3, SavedAgrees
      <3> QED
        BY <1>6, <1>7, <3>1, <3>4 DEF SavedIn
    <2>3. SavedIn(mem, N + 1)'
      <3>1. N + 1 - 1 = N /\ N \in 0 .. N
        BY <1>2
      <3> QED
        BY <1>4, <1>7, <1>8, <2>1, <3>1 DEF SavedIn
    <2>4. \A n \in Frames' : n \in 1 .. N \/ n = N + 1
      BY <1>2, <1>6 DEF Frames
    <2> QED
      BY <2>2, <2>3, <2>4
  <1>13. DOMAIN mem' = 0 .. StackBase - 1
    BY <1>1, EnterMemory
  <1> QED
    BY <1>1, <1>7, <1>9, <1>10, <1>11, <1>12, <1>13 DEF MachineInv

(* The last frame goes.                                                    *)
LEMMA FrontFacts ==
  ASSUME NEW S, NEW s \in Seq(S), Len(s) > 0
  PROVE  /\ Front(s) \in Seq(S) /\ Len(Front(s)) = Len(s) - 1
         /\ \A n \in 1 .. Len(s) - 1 : Front(s)[n] = s[n]
         /\ Len(s) = 1 => Front(s) = <<>>
  <1> DEFINE f == SubSeq(s, 1, Len(s) - 1)
  <1>1. \A i \in 1 .. Len(s) - 1 : s[i] \in S
    OBVIOUS
  <1>2. Len(s) \in Nat /\ Len(s) - 1 \in Nat
    OBVIOUS
  <1>3. 1 \in Int /\ Len(s) - 1 \in Int
    OBVIOUS
  <1>4. /\ f \in Seq(S)
        /\ Len(f) = IF 1 <= Len(s) - 1 THEN Len(s) - 1 - 1 + 1 ELSE 0
        /\ \A n \in 1 .. Len(s) - 1 : f[n] = s[n]
    BY <1>1, <1>2
  <1>5. Len(s) = 1 => f = <<>>
    BY <1>2, <1>3, SubSeqEmpty
  <1>6. Front(s) = f
    BY DEF Front
  <1> HIDE DEF f
  <1>7. Len(f) = Len(s) - 1
    <2> DEFINE n == Len(s)
    <2>1. n \in Nat /\ n > 0 /\ Len(f) = IF 1 <= n - 1 THEN n - 1 - 1 + 1 ELSE 0
      BY <1>2, <1>4
    <2> HIDE DEF n
    <2>2. Len(f) = n - 1
      BY <2>1
    <2> QED
      BY <2>2 DEF n
  <1> QED
    BY <1>4, <1>5, <1>6, <1>7

LEMMA DiscardFacts ==
  ASSUME NEW m, NEW n \in Nat
  PROVE  /\ DOMAIN Discard(m, n) = 0 .. StackBase - 1
         /\ \A y \in 0 .. StackBase - 1 : n <= y => Discard(m, n)[y] = m[y]
  BY CallStackAssumption DEF Discard

(* What the epilogue reloads.                                              *)
LEMMA EpilogueReads ==
  ASSUME MachineInv, at # <<"boot">>, Running
  PROVE  /\ cur \in 1 .. Len(program)
         /\ sp + LocalBytes(cur) = End(Len(frames))
         /\ SavedRa = frames[Len(frames)].ret
         /\ SavedS0 = S0At(Len(frames) - 1)
  <1> DEFINE N == Len(frames)
  <1>1. N \in Frames /\ cur \in 1 .. Len(program) /\ SavedIn(mem, N)
    BY TopFacts, ChainFacts DEF Running, MachineInv
  <1>2. /\ sp \in Nat /\ End(N) = sp + LocalBytes(cur) /\ LocalBytes(cur) \in Nat
    BY TopFacts, ChainFacts DEF Running
  <1>3. /\ sp + layouts[cur].saveRaOff = End(N) - 8
        /\ sp + layouts[cur].saveS0Off = End(N) - 16
    <2> DEFINE l == LocalBytes(cur)
    <2>1. layouts[cur].saveRaOff = l - 8 /\ layouts[cur].saveS0Off = l - 16
      BY <1>1, FrameFacts DEF MachineInv
    <2>2. End(N) = sp + l /\ l \in Nat
      BY <1>2
    <2> HIDE DEF l, N
    <2> QED
      BY <1>2, <2>1, <2>2
  <1> QED
    BY <1>1, <1>2, <1>3 DEF SavedRa, SavedS0, SavedIn

LEMMA RetInv ==
  ASSUME MachineInv, NEW i \in {0} \cup Uses(cur), Ret(i)
  PROVE  MachineInv'
  <1>1. at = <<"body">> /\ at # <<"boot">>
    BY AtFacts DEF Ret
  <1>2. Running
    BY <1>1 DEF MachineInv, Control
  <1>3. PICK N \in Nat : N = Len(frames)
    BY <1>1, <1>2, TopFacts DEF Running
  <1>4. /\ N \in Frames /\ N > 0 /\ N - 1 \in Nat
        /\ frames[N].fn = cur /\ frames \in Seq(Frame)
    BY <1>1, <1>2, <1>3, TopFacts DEF Running, MachineInv, Chained
  <1>5. /\ SavedRa = frames[N].ret /\ SavedS0 = S0At(N - 1)
        /\ sp + LocalBytes(cur) = End(N)
    BY <1>1, <1>2, <1>3, EpilogueReads
  <1>6. /\ End(N) \in Nat /\ End(N) <= StackBase /\ StackBase \in Nat
        /\ End(N) = SpAt(N - 1) /\ ReturnsTo(N - 1, frames[N].ret)
        /\ \A m \in Frames : m < N => End(N) <= frames[m].base
    BY <1>1, <1>4, ChainFacts
  <1>7. /\ UNCHANGED layoutVars
        /\ ra' = frames[N].ret /\ s0' = S0At(N - 1) /\ sp' = End(N)
        /\ mem' = Discard(mem, End(N)) /\ frames' = Front(frames)
    BY <1>5 DEF Ret
  <1>8. /\ frames' \in Seq(Frame) /\ Len(frames') = N - 1
        /\ \A n \in 1 .. N - 1 : frames'[n] = frames[n]
        /\ N = 1 => frames' = <<>>
    BY <1>3, <1>4, <1>7, FrontFacts
  <1>9. /\ \A n \in 1 .. N - 1 : End(n)' = End(n)
        /\ \A n \in 0 .. N - 1 : /\ SpAt(n)' = SpAt(n) /\ S0At(n)' = S0At(n)
                                 /\ \A r : ReturnsTo(n, r)' <=> ReturnsTo(n, r)
        /\ program' = program /\ Laid'
    BY <1>1, <1>4, <1>7, <1>8, CommonFrames DEF MachineInv
  <1>10. LayoutInv' /\ ShapeInv'
    BY <1>7, LayoutsKept DEF MachineInv
  <1>11. \A n \in 1 .. N - 1 : n \in Frames /\ n < N /\ n - 1 \in 0 .. N - 1
    BY <1>3 DEF Frames
  <1>12. Chained'
    <2>1. ASSUME NEW n \in 1 .. N - 1
          PROVE  /\ frames'[n].fn \in 1 .. Len(program')
                 /\ frames'[n].base % 16 = 0
                 /\ End(n)' = SpAt(n - 1)' /\ End(n)' <= StackBase
                 /\ ReturnsTo(n - 1, frames[n].ret)'
      <3>1. ReturnsTo(n - 1, frames[n].ret) /\ n - 1 \in 0 .. N - 1
        BY <1>1, <1>11, ChainFacts
      <3> QED
        BY <1>1, <1>8, <1>9, <1>11, <3>1, ChainFacts
    <2>2. ASSUME NEW m \in 1 .. N - 1, NEW n \in 1 .. N - 1, m < n
          PROVE  End(n)' <= frames'[m].base
      BY <1>1, <1>8, <1>9, <1>11, <2>2, ChainFacts
    <2> QED
      BY <1>8, <2>1, <2>2 DEF Chained, Frames
  <1>13. Control' /\ at' # <<"boot">>
    <2>1. sp' = SpAt(Len(frames))' /\ s0' = S0At(Len(frames))'
      BY <1>4, <1>6, <1>7, <1>8, <1>9
    <2>2. CASE N = 1
      <3>1. frames[N].ret = Outside
        BY <1>6, <2>2 DEF ReturnsTo
      <3>2. at' = <<"exit">>
        BY <1>5, <3>1, SiteFacts DEF Ret
      <3> QED
        BY <1>7, <1>8, <2>1, <2>2, <3>1, <3>2, AtFacts DEF Control
    <2>3. CASE N # 1
      <3>1. N - 1 # 0 /\ N - 1 \in 1 .. N - 1
        BY <1>4, <2>3
      <3>2. PICK d \in {0} \cup Uses(frames[N - 1].fn) :
              frames[N].ret = Site(frames[N - 1].fn, d)
        BY <1>6, <3>1 DEF ReturnsTo
      <3>3. frames[N - 1].fn # 0
        BY <1>1, <1>11, <3>1, ChainFacts
      <3>4. at' = <<"resume", d>> /\ cur' = frames[N - 1].fn
        BY <1>5, <3>2, <3>3, SiteFacts DEF Ret
      <3>5. Running'
        BY <1>8, <3>1, <3>4 DEF Running
      <3>6. Uses(cur)' = Uses(frames[N - 1].fn)
        BY <1>9, <3>4 DEF Uses
      <3>7. \A e : at' = <<"resume", e>> => e = d
        BY <3>4
      <3> QED
        BY <1>7, <2>1, <3>2, <3>4, <3>5, <3>6, <3>7, AtFacts DEF Control
    <2> QED
      BY <2>2, <2>3
  <1>14. DOMAIN mem' = 0 .. StackBase - 1
         /\ \A y \in 0 .. StackBase - 1 : End(N) <= y => mem'[y] = mem[y]
    BY <1>6, <1>7, DiscardFacts
  <1>15. \A n \in Frames' : SavedIn(mem, n)'
    <2>1. ASSUME NEW n \in 1 .. N - 1 PROVE SavedIn(mem, n)'
      <3> DEFINE e == End(n)
                 b == frames[n].base
                 l == LocalBytes(frames[n].fn)
                 z == End(N)
      <3>1. n \in Frames /\ n - 1 \in 0 .. N - 1
        BY <1>11
      <3>2. /\ e \in Nat /\ e <= StackBase /\ b \in Nat /\ l \in Nat /\ e = b + l
            /\ 16 <= l /\ z <= b /\ z \in Nat /\ StackBase \in Nat
        BY <1>1, <1>6, <1>11, <3>1, ChainFacts
      <3>3. \A y \in e - 16 .. e - 1 : mem'[y] = mem[y]
        <4> SUFFICES ASSUME NEW y \in e - 16 .. e - 1 PROVE mem'[y] = mem[y]
          OBVIOUS
        <4> HIDE DEF e, b, l, z
        <4>1. z <= y /\ y \in 0 .. StackBase - 1
          BY <3>2
        <4> QED
          BY <1>14, <4>1 DEF z
      <3>4. SavedIn(mem', n)
        BY <1>1, <3>1, <3>3, SavedAgrees
      <3> QED
        BY <1>8, <1>9, <3>1, <3>4 DEF SavedIn
    <2> QED
      BY <1>8, <2>1 DEF Frames
  <1> QED
    BY <1>1, <1>9, <1>10, <1>12, <1>13, <1>14, <1>15 DEF MachineInv

--------------------------------------------------------------------------------

LEMMA InitMachine == Init => MachineInv
  <1> SUFFICES ASSUME Init PROVE MachineInv
    OBVIOUS
  <1>1. LayoutInv /\ ShapeInv
    BY StartsWithLayout, LayoutStarts, ShapeStarts
  <1> QED
    BY <1>1, CallStackAssumption DEF Init, MachineInv, NotBooted

LEMMA NextMachine == MachineInv /\ [Next]_vars => MachineInv'
  <1> SUFFICES ASSUME MachineInv, [Next]_vars PROVE MachineInv'
    OBVIOUS
  <1>1. CASE UNCHANGED vars
    <2>1. UNCHANGED layoutVars /\ UNCHANGED <<sp, s0, ra, a, mem, cur, at, frames>>
      BY <1>1 DEF vars, machineVars
    <2>2. LayoutInv' /\ ShapeInv' /\ program' = program
      BY <2>1, LayoutsKept DEF MachineInv, layoutVars
    <2>3. CASE at = <<"boot">>
      BY <2>1, <2>2, <2>3 DEF MachineInv, NotBooted
    <2>4. CASE at # <<"boot">>
      <3>1. Laid' /\ Chained' /\ \A n \in Frames' : SavedIn(mem, n)'
        BY <2>1, <2>4, SameChain DEF MachineInv, SavedIn
      <3>2. Control'
        BY <2>1, <2>4, SameChain DEF MachineInv, Control, Running, Uses, layoutVars
      <3> QED
        BY <2>1, <2>2, <2>4, <3>1, <3>2 DEF MachineInv
    <2> QED
      BY <2>3, <2>4
  <1>2. CASE Layouting
    <2>1. LayoutNext /\ UNCHANGED <<sp, s0, ra, a, mem, cur, at, frames>>
      BY <1>2 DEF Layouting, machineVars
    <2>2. at = <<"boot">>
      BY <2>1, NoMoreLayouts DEF MachineInv
    <2>3. LayoutInv' /\ ShapeInv'
      BY <2>1, LayoutsKept DEF MachineInv
    <2> QED
      BY <2>1, <2>2, <2>3 DEF MachineInv, NotBooted
  <1>3. CASE Boot
    <2>1. /\ at = <<"boot">> /\ at' = <<"enter">> /\ at' # <<"boot">>
          /\ UNCHANGED layoutVars /\ UNCHANGED <<sp, s0, ra, a, mem, cur, frames>>
          /\ Laid /\ program[1].arg = 0
      BY <1>3, AtFacts DEF Boot, Laid
    <2>2. NotBooted
      BY <2>1 DEF MachineInv
    <2>3. LayoutInv' /\ ShapeInv' /\ program' = program
      BY <2>1, LayoutsKept DEF MachineInv, layoutVars
    <2>4. Len(frames) = 0 /\ Frames = {}
      BY <2>2 DEF NotBooted, Frames
    <2>5. 1 <= Len(program)
      BY <1>3, ProgramTypes DEF Boot, MachineInv
    <2>6. Chained /\ Laid'
      BY <2>1, <2>2, <2>4, SameChain DEF Chained, NotBooted
    <2>7. Control'
      BY <2>1, <2>2, <2>3, <2>4, <2>5, SameChain, AtFacts
      DEF Control, NotBooted, SpAt, S0At, ReturnsTo
    <2> QED
      BY <2>1, <2>3, <2>4, <2>5, <2>6, <2>7, SameChain DEF MachineInv
  <1>4. CASE Enter
    BY <1>4, EnterInv
  <1>5. CASE Body
    <2>1. at = <<"body">>
      BY <1>5 DEF Body
    <2>2. ASSUME NEW i \in Uses(cur), NEW v \in Value, Write(i, v) PROVE MachineInv'
      BY <2>1, <2>2, WriteInv
    <2>3. ASSUME NEW f \in 1 .. Len(program), NEW args, NEW dst \in {0} \cup Uses(cur),
                 Call(f, args, dst)
          PROVE  MachineInv'
      BY <2>1, <2>3, CallInv
    <2>4. ASSUME NEW i \in {0} \cup Uses(cur), Ret(i) PROVE MachineInv'
      BY <2>4, RetInv
    <2> QED
      BY <1>5, <2>2, <2>3, <2>4 DEF Body
  <1>6. ASSUME NEW dst \in {0} \cup Uses(cur), ResumeAt(dst) PROVE MachineInv'
    BY <1>6, ResumeInv
  <1> QED
    BY <1>1, <1>2, <1>3, <1>4, <1>5, <1>6 DEF Next

--------------------------------------------------------------------------------
(* What a running body may rely on.                                        *)

LEMMA BodyPlace ==
  ASSUME MachineInv, at = <<"body">>
  PROVE  /\ cur \in 1 .. Len(program) /\ LayoutInv /\ ShapeInv /\ Laid
         /\ sp \in Nat /\ sp % 16 = 0 /\ LocalBytes(cur) \in Nat
         /\ s0 = Addr(sp + LocalBytes(cur))
  <1>1. at # <<"boot">>
    BY AtFacts
  <1>2. Running /\ LayoutInv /\ ShapeInv /\ Laid
    BY <1>1 DEF MachineInv, Control
  <1> QED
    BY <1>1, <1>2, TopFacts, ChainFacts DEF Running

LEMMA PointerKept == MachineInv => FramePointerKept
  BY BodyPlace DEF FramePointerKept

LEMMA BodyAligned == MachineInv => AllocasAligned
  <1> SUFFICES ASSUME MachineInv, at = <<"body">>, NEW i \in 1 .. Len(SlotsOf(cur)),
                      SlotsOf(cur)[i].kind = "alloca", SlotsOf(cur)[i].align <= 16
               PROVE  (sp + SlotsOf(cur)[i].off) % SlotsOf(cur)[i].align = 0
    BY DEF AllocasAligned
  <1>1. cur \in 1 .. Len(program) /\ sp \in Nat /\ sp % 16 = 0
    BY BodyPlace
  <1> DEFINE place == SlotsOf(cur)[i].off
             align == SlotsOf(cur)[i].align
  <1>2. place % align = 0 /\ align \in Alignment
    BY <1>1, BodyPlace, FrameFacts DEF AlignedSlots, AlignedSlot
  <1>3. place \in Nat
    BY <1>1, BodyPlace, FrameFacts, SlotsApart DEF SlotLo
  <1>4. align \in {1, 2, 4, 8, 16}
    BY <1>2 DEF Alignment
  <1> HIDE DEF place, align
  <1>5. (sp + place) % align = 0
    <2>1. ASSUME NEW d \in {1, 2, 4, 8, 16}, place % d = 0 PROVE (sp + place) % d = 0
      <3>1. d = 1 \/ d = 2 \/ d = 4 \/ d = 8 \/ d = 16
        OBVIOUS
      <3>2. CASE d = 1
        BY <1>1, <1>3, <3>2
      <3>3. CASE d = 2
        BY <1>1, <1>3, <2>1, <3>3
      <3>4. CASE d = 4
        BY <1>1, <1>3, <2>1, <3>4
      <3>5. CASE d = 8
        BY <1>1, <1>3, <2>1, <3>5
      <3>6. CASE d = 16
        BY <1>1, <1>3, <2>1, <3>6
      <3> QED
        BY <3>1, <3>2, <3>3, <3>4, <3>5, <3>6
    <2> QED
      BY <1>2, <1>4, <2>1
  <1> QED
    BY <1>5 DEF place, align

(* Whatever its callees did, and however deep the recursion was, s0 is     *)
(* the address at which the running body's own frame ends: the epilogues   *)
(* below it restored the word its prologue's addi had computed.            *)
THEOREM BodiesKeepFramePointer == Spec => []FramePointerKept
  <1> QED
    BY InitMachine, NextMachine, PointerKept, PTL DEF Spec

(* For every alignment up to sp's own sixteen, an alloca of the running    *)
(* body starts at a multiple of what its getAlign asks, since the layout   *)
(* rounds its offset and every frame is a multiple of sixteen bytes.       *)
THEOREM BodiesFindAllocasAligned == Spec => []AllocasAligned
  <1> QED
    BY InitMachine, NextMachine, BodyAligned, PTL DEF Spec

--------------------------------------------------------------------------------
(***************************************************************************)
(* Compiled calls are calls.  For every module of functions, every size of *)
(* its frames and of the stack: the machine of CallStack.tla, whose        *)
(* activations have only what the memory of their frames holds, implements *)
(* the activations of Activations.tla, whose variables are their own.      *)
(*                                                                         *)
(* The one hypothesis is that the arguments are passed in registers        *)
(* (RegisterArgs): further ones the code never puts on the stack.          *)
(***************************************************************************)

RegisterArgs == \A p \in Programs : \A f \in DOMAIN p : p[f].arg <= NArgRegs

(* An activation, as memory m holds its variables.                         *)
Vars(frame) == Uses(frame.fn) \cup 1 .. program[frame.fn].arg

VarsIn(m, frame) ==
  [i \in Vars(frame) |-> Get(m, frame.base + SlotLo(frame.fn, i),
                                Width(SlotsOf(frame.fn)[i]))]

ActivationIn(m, frame) ==
  [fn |-> frame.fn, ret |-> frame.ret, vals |-> VarsIn(m, frame)]

LEMMA StackFacts ==
  Stack = [n \in 1 .. Len(frames) |-> ActivationIn(mem, frames[n])]
  BY DEF Stack, Activation, ActivationIn, VarsIn, Vars, Read, SlotLo

LEMMA NextStackFacts ==
  ASSUME UNCHANGED layoutVars
  PROVE  /\ Stack' = [n \in 1 .. Len(frames') |-> ActivationIn(mem', frames'[n])]
         /\ Arity' = Arity
  <1>1. UNCHANGED <<program, layouts>>
    BY DEF layoutVars
  <1>2. \A f : Uses(f)' = Uses(f) /\ SlotsOf(f)' = SlotsOf(f)
    BY <1>1 DEF Uses, SlotsOf
  <1>3. Stack' = [n \in 1 .. Len(frames') |-> ActivationIn(mem', frames'[n])]
    BY <1>1, <1>2 DEF Stack, Activation, ActivationIn, VarsIn, Vars, Read, SlotLo
  <1> QED
    BY <1>1, <1>3 DEF Arity

--------------------------------------------------------------------------------
(* What a variable's value depends on.                                     *)

(* Where the variables of the n-th activation lie.                         *)
LEMMA VarPlace ==
  ASSUME MachineInv, at # <<"boot">>, NEW n \in Frames, NEW i \in Vars(frames[n])
  PROVE  /\ frames[n].fn \in 1 .. Len(program) /\ frames[n].base \in Nat
         /\ i \in 1 .. SlotCount(program[frames[n].fn])
         /\ SlotLo(frames[n].fn, i) \in Nat
         /\ Width(SlotsOf(frames[n].fn)[i]) \in Nat \ {0}
         /\ SlotLo(frames[n].fn, i) + Width(SlotsOf(frames[n].fn)[i])
              <= SlotHi(frames[n].fn, i)
         /\ frames[n].base + SlotHi(frames[n].fn, i) <= End(n) - 16
         /\ SlotHi(frames[n].fn, i) \in Nat
         /\ End(n) \in Nat /\ End(n) <= StackBase /\ StackBase \in Nat
  <1> DEFINE f == frames[n].fn
             b == frames[n].base
             l == LocalBytes(f)
             lo == SlotLo(f, i)
             hi == SlotHi(f, i)
             w == Width(SlotsOf(f)[i])
             e == End(n)
             z == SlotsOf(f)[i].size
  <1>1. /\ f \in 1 .. Len(program) /\ b \in Nat /\ l \in Nat /\ e \in Nat
        /\ e = b + l /\ e <= StackBase /\ StackBase \in Nat
        /\ LayoutInv /\ ShapeInv /\ Laid
    BY ChainFacts DEF MachineInv
  <1>2. /\ i \in 1 .. SlotCount(program[f]) /\ w \in Nat \ {0} /\ w <= z
    BY <1>1, WidthFacts DEF Vars
  <1>3. lo \in Nat /\ hi \in Nat /\ hi <= l - 16 /\ hi = lo + z /\ z \in Nat
    BY <1>1, <1>2, SlotsApart
  <1>4. lo + w <= hi /\ b + hi <= e - 16
    <2> HIDE DEF f, b, l, lo, hi, w, e, z
    <2> QED
      BY <1>1, <1>2, <1>3
  <1> QED
    BY <1>1, <1>2, <1>3, <1>4

(* An activation is what it was when the bytes of its frame are.           *)
LEMMA ActivationAgrees ==
  ASSUME MachineInv, at # <<"boot">>, NEW n \in Frames, NEW m,
         \A y \in frames[n].base .. End(n) - 1 : m[y] = mem[y]
  PROVE  ActivationIn(m, frames[n]) = ActivationIn(mem, frames[n])
  <1>1. ASSUME NEW i \in Vars(frames[n])
        PROVE  Get(m, frames[n].base + SlotLo(frames[n].fn, i),
                   Width(SlotsOf(frames[n].fn)[i])) =
               Get(mem, frames[n].base + SlotLo(frames[n].fn, i),
                   Width(SlotsOf(frames[n].fn)[i]))
    <2> DEFINE b == frames[n].base
               lo == SlotLo(frames[n].fn, i)
               hi == SlotHi(frames[n].fn, i)
               w == Width(SlotsOf(frames[n].fn)[i])
               e == End(n)
    <2>1. /\ b \in Nat /\ lo \in Nat /\ hi \in Nat /\ e \in Nat
          /\ w \in Nat \ {0} /\ lo + w <= hi /\ b + hi <= e - 16
      BY VarPlace
    <2> HIDE DEF b, lo, hi, w, e
    <2>2. \A y \in b + lo .. b + lo + w - 1 : y \in b .. e - 1
      BY <2>1
    <2>3. \A y \in b + lo .. b + lo + w - 1 : m[y] = mem[y]
      BY <2>2 DEF b, e
    <2>4. b + lo \in Int
      BY <2>1
    <2>5. Get(m, b + lo, w) = Get(mem, b + lo, w)
      BY <2>1, <2>3, <2>4, GetAgrees
    <2> QED
      BY <2>5 DEF b, lo, w
  <1>2. VarsIn(m, frames[n]) = VarsIn(mem, frames[n])
    BY <1>1 DEF VarsIn
  <1> QED
    BY <1>2 DEF ActivationIn

Updated(m, n, i, w) ==
  VarsIn(m, frames[n]) = [VarsIn(mem, frames[n]) EXCEPT ![i] = w]

(* A word into a variable of the running activation: that variable is the  *)
(* word, every other one, of it and of its callers, what it was.           *)
LEMMA VariableWritten ==
  ASSUME MachineInv, at # <<"boot">>, Running, NEW i \in Uses(cur), NEW w, NEW m,
         m = Put(mem, sp + SlotsOf(cur)[i].off, Width(SlotsOf(cur)[i]), w)
  PROVE  /\ Updated(m, Len(frames), i, w)
         /\ i \in Vars(frames[Len(frames)])
         /\ \A n \in Frames : n # Len(frames) =>
              ActivationIn(m, frames[n]) = ActivationIn(mem, frames[n])
  <1> DEFINE N == Len(frames)
             x == sp + SlotLo(cur, i)
             width == Width(SlotsOf(cur)[i])
  <1>1. /\ N \in Frames /\ frames[N].fn = cur /\ frames[N].base = sp
        /\ \A n \in Frames : n # N => End(N) <= frames[n].base
    BY TopFacts DEF Running
  <1>2. /\ cur \in 1 .. Len(program) /\ x \in Nat /\ width \in Nat \ {0}
        /\ x + width <= End(N) - 16 /\ End(N) <= StackBase /\ End(N) \in Nat
    BY SlotPlace
  <1>3. m = Put(mem, x, width, w) /\ DOMAIN mem = 0 .. StackBase - 1 /\ StackBase \in Nat
    BY CallStackAssumption DEF SlotLo, MachineInv
  <1>4. i \in Vars(frames[N])
    BY <1>1 DEF Vars
  <1>5. sp \in Nat /\ LayoutInv /\ ShapeInv /\ Laid
    BY <1>1, ChainFacts DEF MachineInv
  <1>6. /\ \A y \in DOMAIN mem : y \notin x .. x + width - 1 => m[y] = mem[y]
        /\ \A y \in DOMAIN mem : y \in x .. x + width - 1 => m[y] = <<w, y - x>>
    <2> HIDE DEF x, width
    <2>1. x \in Int /\ width \in Nat \ {0}
      BY <1>2
    <2>2. ASSUME NEW y \in DOMAIN mem, y \notin x .. x + width - 1
          PROVE  m[y] = mem[y]
      BY <1>3, <2>1, <2>2, PutFacts
    <2>3. ASSUME NEW y \in DOMAIN mem, y \in x .. x + width - 1
          PROVE  m[y] = <<w, y - x>>
      BY <1>3, <2>1, <2>3, PutFacts
    <2> QED
      BY <2>2, <2>3
  <1>7. Get(m, x, width) = w
    <2> HIDE DEF x, width
    <2>1. \A y \in x .. x + width - 1 : y \in DOMAIN mem
      BY <1>2, <1>3
    <2>2. Holds(m, x, width, w)
      BY <1>6, <2>1 DEF Holds
    <2>3. 0 <= x /\ x + width <= StackBase
      BY <1>2, <1>3
    <2> QED
      BY <1>2, <2>2, <2>3, GetWord
  <1>8. ASSUME NEW j \in Vars(frames[N]), j # i
        PROVE  Get(m, sp + SlotLo(cur, j), Width(SlotsOf(cur)[j])) =
               Get(mem, sp + SlotLo(cur, j), Width(SlotsOf(cur)[j]))
    <2> DEFINE lo == SlotLo(cur, j)
               hi == SlotHi(cur, j)
               v  == Width(SlotsOf(cur)[j])
               lo2 == SlotLo(cur, i)
               hi2 == SlotHi(cur, i)
    <2>1. /\ lo \in Nat /\ hi \in Nat /\ v \in Nat \ {0} /\ lo + v <= hi
          /\ sp + hi <= End(N) - 16
          /\ j \in 1 .. SlotCount(program[cur])
      BY <1>1, VarPlace
    <2>2. /\ lo2 \in Nat /\ hi2 \in Nat /\ lo2 + width <= hi2
          /\ i \in 1 .. SlotCount(program[cur])
      BY <1>1, <1>4, VarPlace
    <2>3. hi <= lo2 \/ hi2 <= lo
      BY <1>2, <1>5, <1>8, <2>1, <2>2, SlotsApart
    <2>4. x = sp + lo2
      OBVIOUS
    <2> HIDE DEF lo, hi, v, lo2, hi2, x, width
    <2>5. \A y \in sp + lo .. sp + lo + v - 1 :
            y \notin x .. x + width - 1 /\ y \in 0 .. StackBase - 1
      <3> SUFFICES ASSUME NEW y \in sp + lo .. sp + lo + v - 1
                   PROVE  y \notin x .. x + width - 1 /\ y \in 0 .. StackBase - 1
        OBVIOUS
      <3> DEFINE e == End(N)
      <3>1. e \in Nat /\ sp + hi <= e - 16 /\ e <= StackBase
        BY <1>2, <2>1
      <3> HIDE DEF e, N
      <3>2. y \in 0 .. StackBase - 1 /\ y \in Nat
        BY <1>3, <1>5, <2>1, <3>1
      <3>3. hi <= lo2 => y < x
        BY <1>5, <2>1, <2>2, <2>4, <3>2
      <3>4. hi2 <= lo => x + width - 1 < y
        BY <1>2, <1>5, <2>1, <2>2, <2>4, <3>2
      <3> QED
        BY <1>2, <2>3, <3>2, <3>3, <3>4
    <2>6. \A y \in sp + lo .. sp + lo + v - 1 : m[y] = mem[y]
      BY <1>3, <1>6, <2>5
    <2>7. sp + lo \in Int
      BY <1>5, <2>1
    <2>8. Get(m, sp + lo, v) = Get(mem, sp + lo, v)
      BY <2>1, <2>6, <2>7, GetAgrees
    <2> QED
      BY <2>8 DEF lo, v
  <1>9. VarsIn(m, frames[N]) = [VarsIn(mem, frames[N]) EXCEPT ![i] = w]
    <2>1. \A j \in Vars(frames[N]) :
            Get(m, sp + SlotLo(cur, j), Width(SlotsOf(cur)[j])) =
            IF j = i THEN w ELSE Get(mem, sp + SlotLo(cur, j), Width(SlotsOf(cur)[j]))
      BY <1>7, <1>8
    <2> QED
      BY <1>1, <2>1 DEF VarsIn
  <1>10. ASSUME NEW n \in Frames, n # N
         PROVE  ActivationIn(m, frames[n]) = ActivationIn(mem, frames[n])
    <2> DEFINE b == frames[n].base
               e == End(n)
               z == End(N)
    <2>1. /\ b \in Nat /\ e \in Nat /\ e <= StackBase /\ z <= b
          /\ x + width <= z - 16 /\ z \in Nat
      BY <1>1, <1>2, <1>10, ChainFacts
    <2>2. \A y \in b .. e - 1 : y \notin x .. x + width - 1 /\ y \in 0 .. StackBase - 1
      <3> HIDE DEF b, e, z, x, width
      <3> QED
        BY <1>2, <1>3, <2>1
    <2>3. \A y \in b .. e - 1 : m[y] = mem[y]
      <3> HIDE DEF b, e, z, x, width
      <3> QED
        BY <1>3, <1>6, <2>2
    <2> QED
      BY <2>3, ActivationAgrees
  <1> QED
    BY <1>4, <1>9, <1>10 DEF Updated

--------------------------------------------------------------------------------
(* The abstract state, and the machine's.                                  *)

LEMMA RecordsNotEmpty ==
  /\ \A f, r, s : [fn |-> f, ret |-> r, args |-> s] # <<>>
  /\ \A t, v : [to |-> t, value |-> v] # <<>>
  OBVIOUS

(* A function on 1 .. N is a sequence of length N.                         *)
LEMMA IsSequence ==
  ASSUME NEW N \in Nat, NEW s, s = [n \in 1 .. N |-> s[n]]
  PROVE  /\ s \in Seq({s[n] : n \in 1 .. N})
         /\ Len(s) = N /\ DOMAIN s = 1 .. N
         /\ N = 0 <=> s = <<>>
  <1>1. s \in [1 .. N -> {s[n] : n \in 1 .. N}]
    OBVIOUS
  <1>2. s \in Seq({s[n] : n \in 1 .. N}) /\ DOMAIN s = 1 .. N
    BY <1>1
  <1>3. Len(s) = N
    BY <1>2
  <1> QED
    BY <1>2, <1>3

LEMMA StackLength ==
  ASSUME Len(frames) \in Nat
  PROVE  /\ Len(Stack) = Len(frames) /\ DOMAIN Stack = 1 .. Len(frames)
         /\ Stack \in Seq({Stack[n] : n \in 1 .. Len(frames)})
         /\ Len(frames) = 0 <=> Stack = <<>>
         /\ \A n \in 1 .. Len(frames) : Stack[n] = ActivationIn(mem, frames[n])
  BY StackFacts, IsSequence

(* The running activation's variables.                                     *)
LEMMA TopActivation ==
  ASSUME MachineInv, at # <<"boot">>, Running
  PROVE  /\ Stack # <<>>
         /\ Source!Last(Stack) = ActivationIn(mem, frames[Len(frames)])
         /\ Source!Last(Stack).fn = cur
         /\ Source!Last(Stack).ret = frames[Len(frames)].ret
         /\ DOMAIN Source!Last(Stack).vals = Vars(frames[Len(frames)])
         /\ Uses(cur) \subseteq Vars(frames[Len(frames)])
         /\ \A i \in Uses(cur) : Source!Last(Stack).vals[i] = Read(sp, cur, i)
  <1>1. /\ Len(frames) \in Nat /\ Len(frames) # 0 /\ Len(frames) \in 1 .. Len(frames)
        /\ frames[Len(frames)].fn = cur /\ frames[Len(frames)].base = sp
    BY TopFacts DEF Running, Frames
  <1>2. /\ Stack # <<>>
        /\ Source!Last(Stack) = ActivationIn(mem, frames[Len(frames)])
    BY <1>1, StackLength DEF Source!Last
  <1>3. Uses(cur) \subseteq Vars(frames[Len(frames)])
    BY <1>1 DEF Vars
  <1> QED
    BY <1>1, <1>2, <1>3 DEF ActivationIn, VarsIn, Read, SlotLo

--------------------------------------------------------------------------------
(* The steps.                                                              *)

LEMMA InitRefines == Init => Source!Init
  <1> SUFFICES ASSUME Init PROVE Source!Init
    OBVIOUS
  <1>1. frames = <<>> /\ at = <<"boot">>
    BY DEF Init
  <1>2. Stack = <<>>
    BY <1>1, StackLength
  <1>3. Calling = <<>> /\ Returned = <<>>
    BY <1>1, AtFacts DEF Calling, Returned
  <1> QED
    BY <1>2, <1>3 DEF Source!Init

(* The abstract stack, when the running activation's variable is written.  *)
StackUpdated(i, w) == Stack' = [Stack EXCEPT ![Len(Stack)].vals[i] = w]

LEMMA StackWritten ==
  ASSUME MachineInv, at # <<"boot">>, Running, NEW i \in Uses(cur), NEW w,
         UNCHANGED layoutVars, frames' = frames,
         mem' = Put(mem, sp + SlotsOf(cur)[i].off, Width(SlotsOf(cur)[i]), w)
  PROVE  StackUpdated(i, w)
  <1>0. PICK N \in Nat : N = Len(frames)
    BY TopFacts DEF Running
  <1>1. /\ VarsIn(mem', frames[N]) = [VarsIn(mem, frames[N]) EXCEPT ![i] = w]
        /\ i \in Vars(frames[N])
        /\ \A n \in 1 .. N : n # N =>
             ActivationIn(mem', frames[n]) = ActivationIn(mem, frames[n])
    <2>1. /\ Updated(mem', Len(frames), i, w)
          /\ i \in Vars(frames[Len(frames)])
          /\ \A n \in Frames : n # Len(frames) =>
               ActivationIn(mem', frames[n]) = ActivationIn(mem, frames[n])
      BY VariableWritten
    <2>2. /\ Frames = 1 .. N /\ frames[Len(frames)] = frames[N] /\ Len(frames) = N
      BY <1>0 DEF Frames
    <2> QED
      BY <2>1, <2>2 DEF Updated
  <1>2. /\ Stack = [n \in 1 .. N |-> ActivationIn(mem, frames[n])]
        /\ Stack' = [n \in 1 .. N |-> ActivationIn(mem', frames[n])]
        /\ Len(Stack) = N
    BY <1>0, StackFacts, StackLength, NextStackFacts
  <1>3. ActivationIn(mem', frames[N]) =
          [ActivationIn(mem, frames[N]) EXCEPT !.vals[i] = w]
    BY <1>1 DEF ActivationIn
  <1> DEFINE old(n) == ActivationIn(mem, frames[n])
             new(n) == ActivationIn(mem', frames[n])
  <1>4. /\ \A n \in 1 .. N : n # N => new(n) = old(n)
        /\ new(N) = [old(N) EXCEPT !.vals[i] = w]
        /\ Stack = [n \in 1 .. N |-> old(n)] /\ Stack' = [n \in 1 .. N |-> new(n)]
        /\ N \in 1 .. N
    <2>1. N \in 1 .. N
      BY <1>0, TopFacts DEF Running
    <2> QED
      BY <1>1, <1>2, <1>3, <2>1
  <1> HIDE DEF old, new
  <1>5. Stack' = [Stack EXCEPT ![N].vals[i] = w]
    BY <1>4
  <1> QED
    BY <1>2, <1>5 DEF StackUpdated

LEMMA WriteRefines ==
  ASSUME MachineInv, at = <<"body">>, NEW i \in Uses(cur), NEW v \in Value, Write(i, v)
  PROVE  Source!Write
  <1>1. at # <<"boot">> /\ at # <<"enter">> /\ at' = at /\ at[1] = "body"
    BY AtFacts DEF Write
  <1>2. Running
    BY <1>1 DEF MachineInv, Control
  <1>3. Calling = <<>> /\ Returned = <<>> /\ Calling' = <<>> /\ Returned' = <<>>
    BY <1>1 DEF Calling, Returned
  <1>4. /\ UNCHANGED layoutVars /\ frames' = frames
        /\ mem' = Put(mem, sp + SlotsOf(cur)[i].off, Width(SlotsOf(cur)[i]), Word(v))
    BY DEF Write
  <1>5. StackUpdated(i, Word(v))
    BY <1>1, <1>2, <1>4, StackWritten
  <1>6. /\ Stack # <<>> /\ i \in DOMAIN Source!Last(Stack).vals
    BY <1>1, <1>2, TopActivation
  <1>7. Arity' = Arity
    BY <1>4, NextStackFacts
  <1>8. Word(v) \in Words
    BY DEF Words
  <1> QED
    BY <1>3, <1>5, <1>6, <1>7, <1>8 DEF Source!Write, Source!Running, StackUpdated

LEMMA ResumeRefines ==
  ASSUME MachineInv, NEW dst \in {0} \cup Uses(cur), ResumeAt(dst)
  PROVE  Source!Resume
  <1>1. /\ at = <<"resume", dst>> /\ at[1] = "resume" /\ at # <<"boot">>
        /\ at # <<"enter">> /\ at' = <<"body">> /\ at' # <<"enter">> /\ at'[1] = "body"
    BY AtFacts DEF ResumeAt
  <1>2. Running /\ ra = Site(cur, dst)
    BY <1>1 DEF MachineInv, Control
  <1>3. /\ Calling = <<>> /\ Calling' = <<>> /\ Returned' = <<>>
        /\ Returned = [to |-> ra, value |-> a[1]]
    BY <1>1 DEF Calling, Returned
  <1>4. UNCHANGED layoutVars /\ frames' = frames
    BY DEF ResumeAt
  <1>5. /\ Returned # <<>> /\ Returned.to = Site(cur, dst) /\ Returned.value = a[1]
    BY <1>2, <1>3, RecordsNotEmpty
  <1>6. /\ Stack # <<>> /\ Source!Last(Stack).fn = cur
        /\ Uses(cur) \subseteq DOMAIN Source!Last(Stack).vals
    BY <1>1, <1>2, TopActivation
  <1>7. Arity' = Arity
    BY <1>4, NextStackFacts
  <1>8. CASE dst = 0
    <2>1. mem' = mem
      BY <1>8 DEF ResumeAt
    <2>2. Stack' = Stack
      BY <1>4, <2>1, StackFacts, NextStackFacts
    <2> QED
      BY <1>3, <1>5, <1>6, <1>7, <1>8, <2>2 DEF Source!Resume
  <1>9. CASE dst # 0
    <2>1. mem' = Put(mem, sp + SlotsOf(cur)[dst].off, Width(SlotsOf(cur)[dst]), a[1])
      BY <1>9 DEF ResumeAt
    <2>2. dst \in Uses(cur)
      BY <1>9
    <2>3. StackUpdated(dst, a[1])
      BY <1>1, <1>2, <1>4, <2>1, <2>2, StackWritten
    <2> QED
      BY <1>3, <1>5, <1>6, <1>7, <2>2, <2>3 DEF Source!Resume, StackUpdated
  <1> QED
    BY <1>8, <1>9

LEMMA CallRefines ==
  ASSUME RegisterArgs, MachineInv, at = <<"body">>,
         NEW f \in 1 .. Len(program), NEW args \in [1 .. program[f].arg -> Uses(cur)],
         NEW dst \in {0} \cup Uses(cur), Call(f, args, dst)
  PROVE  Source!Call
  <1>1. /\ at # <<"boot">> /\ at # <<"enter">> /\ at[1] = "body"
        /\ at' = <<"enter">> /\ at'[1] = "enter"
    BY AtFacts DEF Call
  <1>2. Running
    BY <1>1 DEF MachineInv, Control
  <1>3. /\ UNCHANGED layoutVars /\ frames' = frames /\ mem' = mem /\ program' = program
        /\ cur' = f /\ ra' = Site(cur, dst)
        /\ a' = [i \in 1 .. NArgRegs |->
                   IF i <= Len(args) THEN Read(sp, cur, args[i]) ELSE Junk]
    BY DEF Call, layoutVars
  <1>4. PICK n \in Nat : n = program[f].arg /\ n <= NArgRegs
    <2>1. LayoutInv /\ ShapeInv /\ Laid
      BY <1>1 DEF MachineInv
    <2>2. program \in Programs /\ f \in DOMAIN program /\ program[f].arg \in Nat
      BY <2>1, ProgramTypes, ArgSlots
    <2> QED
      BY <2>2 DEF RegisterArgs
  <1>5. /\ args \in [1 .. n -> Uses(cur)] /\ Len(args) = n
    BY <1>4
  <1> DEFINE passed == [i \in 1 .. n |-> a'[i]]
  <1>6. Calling' = [fn |-> f, ret |-> Site(cur, dst), args |-> passed]
    BY <1>1, <1>3, <1>4 DEF Calling
  <1>7. DOMAIN passed = 1 .. n /\ Len(passed) = n
    <2>1. passed = [i \in 1 .. n |-> passed[i]]
      OBVIOUS
    <2> HIDE DEF passed
    <2> QED
      BY <2>1, IsSequence
  <1>8. \A i \in 1 .. n : passed[i] = Read(sp, cur, args[i]) /\ args[i] \in Uses(cur)
    <2> SUFFICES ASSUME NEW i \in 1 .. n
                 PROVE  passed[i] = Read(sp, cur, args[i]) /\ args[i] \in Uses(cur)
      OBVIOUS
    <2>1. i \in 1 .. NArgRegs /\ i <= Len(args)
      BY <1>4, <1>5, CallStackAssumption
    <2>2. a'[i] = Read(sp, cur, args[i])
      BY <1>3, <2>1
    <2> QED
      BY <1>5, <2>2
  <1> HIDE DEF passed
  <1>9. /\ Calling = <<>> /\ Returned = <<>> /\ Returned' = <<>>
    BY <1>1 DEF Calling, Returned
  <1>10. /\ Stack # <<>> /\ Source!Last(Stack).fn = cur
         /\ Uses(cur) \subseteq DOMAIN Source!Last(Stack).vals
         /\ \A i \in Uses(cur) : Source!Last(Stack).vals[i] = Read(sp, cur, i)
    BY <1>1, <1>2, TopActivation
  <1>11. Arity' = Arity /\ Stack' = Stack
    BY <1>3, StackFacts, NextStackFacts
  <1>12. /\ Calling' # <<>> /\ Calling'.fn = f /\ Calling'.ret = Site(cur, dst)
         /\ Calling'.args = passed
    BY <1>6, RecordsNotEmpty
  <1>13. f \in DOMAIN Arity /\ Arity[f] = n
    BY <1>4 DEF Arity
  <1>14. \A j \in DOMAIN Calling'.args :
           \E i \in DOMAIN Source!Last(Stack).vals :
             Calling'.args[j] = Source!Last(Stack).vals[i]
    BY <1>7, <1>8, <1>10, <1>12
  <1>15. \E d \in {0} \cup DOMAIN Source!Last(Stack).vals :
           Calling'.ret = Site(Source!Last(Stack).fn, d)
    BY <1>10, <1>12
  <1> QED
    BY <1>7, <1>9, <1>10, <1>11, <1>12, <1>13, <1>14, <1>15
    DEF Source!Call, Source!Running, Source!Top

LEMMA BootRefines == ASSUME MachineInv, Boot PROVE Source!Boot
  <1>1. /\ at = <<"boot">> /\ at # <<"enter">> /\ at[1] = "boot"
        /\ at' = <<"enter">> /\ at'[1] = "enter"
        /\ UNCHANGED layoutVars /\ frames' = frames /\ mem' = mem /\ program' = program
        /\ cur' = cur /\ ra' = ra /\ a' = a /\ program[1].arg = 0
    BY AtFacts DEF Boot, layoutVars
  <1>2. frames = <<>> /\ cur = 1 /\ ra = Outside
    BY <1>1 DEF MachineInv, NotBooted
  <1>3. Stack = <<>> /\ Stack' = Stack /\ Arity' = Arity
    BY <1>1, <1>2, StackFacts, StackLength, NextStackFacts
  <1>4. Calling = <<>> /\ Returned = <<>> /\ Returned' = <<>>
    BY <1>1 DEF Calling, Returned
  <1> DEFINE passed == [i \in 1 .. 0 |-> a[i]]
  <1>5. passed = <<>>
    <2>1. passed = [i \in 1 .. 0 |-> passed[i]]
      OBVIOUS
    <2> HIDE DEF passed
    <2> QED
      BY <2>1, IsSequence
  <1>6. Calling' = [fn |-> 1, ret |-> Outside, args |-> passed]
    BY <1>1, <1>2 DEF Calling
  <1> HIDE DEF passed
  <1> QED
    BY <1>3, <1>4, <1>5, <1>6 DEF Source!Boot

(* The stack without its last activation.                                  *)
Extends(t, s, N) ==
  /\ s = [n \in 1 .. N |-> s[n]] /\ t = [n \in 1 .. N + 1 |-> t[n]]
  /\ \A n \in 1 .. N : t[n] = s[n]

LEMMA FrontIs ==
  ASSUME NEW N \in Nat, NEW s, NEW t, Extends(t, s, N)
  PROVE  Source!Front(t) = s /\ t # <<>> /\ Source!Last(t) = t[N + 1] /\ Len(t) = N + 1
  <1> DEFINE S == {t[n] : n \in 1 .. N + 1}
  <1>1. N + 1 \in Nat /\ N + 1 > 0
    OBVIOUS
  <1>2. t \in Seq(S) /\ Len(t) = N + 1 /\ t # <<>>
    <2> HIDE DEF S
    <2> QED
      BY <1>1, IsSequence DEF S, Extends
  <1>3. s \in Seq({s[n] : n \in 1 .. N}) /\ Len(s) = N
    BY IsSequence DEF Extends
  <1> HIDE DEF S
  <1>4. /\ Front(t) \in Seq(S) /\ Len(Front(t)) = N
        /\ \A n \in 1 .. N : Front(t)[n] = t[n]
    <2>1. N = Len(t) - 1 /\ Len(t) > 0
      BY <1>1, <1>2
    <2> QED
      BY <1>2, <2>1, FrontFacts
  <1> DEFINE u == Front(t)
  <1>5. Source!Front(t) = u
    BY DEF Source!Front, Front
  <1>6. u = s
    <2>0. u \in Seq(S) /\ Len(u) = N
      BY <1>4
    <2> HIDE DEF u
    <2>1. u = [n \in 1 .. N |-> u[n]]
      BY <2>0, LenProperties
    <2>2. \A n \in 1 .. N : u[n] = s[n]
      BY <1>4 DEF u, Extends
    <2> QED
      BY <2>1, <2>2 DEF Extends
  <1> QED
    BY <1>2, <1>5, <1>6 DEF Source!Last

(* The arguments have arrived.                                             *)
LEMMA ArgumentsArrive ==
  ASSUME RegisterArgs, MachineInv, Enter, NEW i \in 1 .. program[cur].arg
  PROVE  Get(mem', sp - LocalBytes(cur) + SlotLo(cur, i), Width(SlotsOf(cur)[i])) = a[i]
  <1> DEFINE bytes == LocalBytes(cur)
             base  == sp - LocalBytes(cur)
             m     == SaveRegs(mem, base, cur)
             lo    == SlotLo(cur, i)
  <1>1. at = <<"enter">>
    BY DEF Enter
  <1>2. /\ at # <<"boot">> /\ cur \in 1 .. Len(program)
        /\ bytes \in Nat /\ base \in Nat /\ base + bytes = sp
        /\ sp \in Nat /\ sp <= StackBase /\ StackBase \in Nat
    BY <1>1, EnterPlace
  <1>3. LayoutInv /\ ShapeInv /\ Laid /\ DOMAIN mem = 0 .. StackBase - 1
    BY <1>2 DEF MachineInv
  <1>4. i \in Nat /\ i <= NArgRegs
    <2>1. program \in Programs /\ cur \in DOMAIN program /\ program[cur].arg \in Nat
      BY <1>2, <1>3, ProgramTypes, ArgSlots
    <2>2. program[cur].arg <= NArgRegs
      BY <2>1 DEF RegisterArgs
    <2> QED
      BY <2>1, <2>2, CallStackAssumption
  <1>5. Width(SlotsOf(cur)[i]) = 8
    BY <1>2, <1>3, WidthFacts
  <1>6. lo \in Nat /\ lo + 8 <= bytes - 16
    <2>1. i \in 1 .. SlotCount(program[cur]) /\ SlotsOf(cur)[i].size = 8
      BY <1>2, <1>3, ArgSlots
    <2>2. /\ lo \in Nat /\ SlotHi(cur, i) <= bytes - 16
          /\ SlotHi(cur, i) = lo + SlotsOf(cur)[i].size
      BY <1>2, <1>3, <2>1, SlotsApart
    <2> QED
      BY <2>1, <2>2
  <1>7. mem' = SpillArgs(m, base, cur)
    BY DEF Enter
  <1> HIDE DEF base, bytes, lo
  <1>8. DOMAIN m = DOMAIN mem
    <2>1. base + LocalBytes(cur) <= StackBase
      BY <1>2 DEF bytes
    <2> QED
      BY <1>2, <2>1, SaveRegsFacts
  <1> HIDE DEF m
  <1>9. \A y \in DOMAIN m : y \in base + lo .. base + lo + 7 =>
          mem'[y] = <<Arg(m, base + bytes, i), y - (base + lo)>>
    <2>1. DOMAIN m \subseteq Nat
      BY <1>2, <1>3, <1>8
    <2> QED
      BY <1>2, <1>3, <1>7, <2>1, SpillArgsFacts DEF lo, bytes
  <1>10. Arg(m, base + bytes, i) = a[i]
    BY <1>4 DEF Arg
  <1>11. \A y \in base + lo .. base + lo + 7 : y \in DOMAIN m
    BY <1>2, <1>3, <1>6, <1>8
  <1>12. \A y \in base + lo .. base + lo + 7 : mem'[y] = <<a[i], y - (base + lo)>>
    BY <1>9, <1>10, <1>11
  <1>13. Holds(mem', base + lo, 8, a[i]) /\ base + lo \in Int
    <2> DEFINE x == base + lo
    <2>1. x \in Int
      BY <1>2, <1>6
    <2>2. \A y \in x .. x + 7 : mem'[y] = <<a[i], y - x>>
      BY <1>12
    <2> HIDE DEF x
    <2>3. Holds(mem', x, 8, a[i])
      BY <2>1, <2>2, HoldsDouble
    <2> QED
      BY <2>1, <2>3 DEF x
  <1>14. 0 <= base + lo /\ base + lo + 8 <= StackBase
    BY <1>2, <1>6
  <1>15. Get(mem', base + lo, 8) = a[i]
    BY <1>13, <1>14, GetWord
  <1> QED
    BY <1>5, <1>15 DEF base, lo

LEMMA EnterRefines == ASSUME RegisterArgs, MachineInv, Enter PROVE Source!Enter
  <1>0. PICK N \in Nat : N = Len(frames)
    <2>1. at = <<"enter">>
      BY DEF Enter
    <2> QED
      BY <2>1, EnterPlace
  <1> DEFINE new  == [fn |-> cur, base |-> sp - LocalBytes(cur), ret |-> ra]
             args == [i \in 1 .. program[cur].arg |-> a[i]]
  <1>1. /\ at = <<"enter">> /\ at # <<"boot">> /\ at[1] = "enter"
        /\ at' = <<"body">> /\ at' # <<"enter">> /\ at'[1] = "body"
        /\ UNCHANGED layoutVars /\ frames' = Append(frames, new)
    BY AtFacts DEF Enter
  <1>2. Calling = [fn |-> cur, ret |-> ra, args |-> args]
    BY <1>1 DEF Calling
  <1>3. Calling' = <<>> /\ Returned = <<>> /\ Returned' = <<>>
    BY <1>1 DEF Calling, Returned
  <1>4. /\ Len(frames') = N + 1 /\ frames'[N + 1] = new
        /\ \A n \in 1 .. N : frames'[n] = frames[n]
    <2>1. frames \in Seq(Frame)
      BY <1>1 DEF MachineInv, Chained
    <2> HIDE DEF new
    <2> QED
      BY <1>0, <1>1, <2>1
  <1>5. \A n \in 1 .. N : ActivationIn(mem', frames[n]) = ActivationIn(mem, frames[n])
    <2> SUFFICES ASSUME NEW n \in 1 .. N
                 PROVE  ActivationIn(mem', frames[n]) = ActivationIn(mem, frames[n])
      OBVIOUS
    <2> DEFINE b == frames[n].base
               e == End(n)
    <2>1. n \in Frames
      BY <1>0 DEF Frames
    <2>2. /\ sp <= b /\ b \in Nat /\ e \in Nat /\ e <= StackBase /\ StackBase \in Nat
          /\ sp \in Nat
      BY <1>1, <2>1, EnterPlace, ChainFacts
    <2>3. /\ \A y \in DOMAIN mem : sp <= y => mem'[y] = mem[y]
          /\ DOMAIN mem = 0 .. StackBase - 1
      BY <1>1, EnterMemory DEF MachineInv
    <2>4. \A y \in b .. e - 1 : mem'[y] = mem[y]
      <3> HIDE DEF b, e
      <3> QED
        BY <2>2, <2>3
    <2> QED
      BY <1>1, <2>1, <2>4, ActivationAgrees
  <1>6. /\ Stack = [n \in 1 .. N |-> ActivationIn(mem, frames[n])]
        /\ Stack' = [n \in 1 .. N + 1 |-> ActivationIn(mem', frames'[n])]
        /\ Arity' = Arity
    BY <1>0, <1>1, <1>4, StackFacts, NextStackFacts
  <1>7. /\ Source!Front(Stack') = Stack /\ Stack' # <<>>
        /\ Source!Last(Stack') = ActivationIn(mem', new)
    <2>1. Extends(Stack', Stack, N)
      BY <1>4, <1>5, <1>6 DEF Extends
    <2>2. Stack'[N + 1] = ActivationIn(mem', new)
      BY <1>4, <1>6
    <2> HIDE DEF new
    <2> QED
      BY <2>1, <2>2, FrontIs
  <1>8. /\ ActivationIn(mem', new).fn = cur /\ ActivationIn(mem', new).ret = ra
        /\ \A i \in DOMAIN args : ActivationIn(mem', new).vals[i] = args[i]
    <2>1. new.fn = cur /\ new.ret = ra /\ new.base = sp - LocalBytes(cur)
      OBVIOUS
    <2> HIDE DEF new
    <2>2. \A i \in 1 .. program[cur].arg : VarsIn(mem', new)[i] = a[i]
      <3> SUFFICES ASSUME NEW i \in 1 .. program[cur].arg
                   PROVE  VarsIn(mem', new)[i] = a[i]
        OBVIOUS
      <3>1. i \in Vars(new)
        BY <2>1 DEF Vars
      <3>2. VarsIn(mem', new)[i] =
              Get(mem', new.base + SlotLo(new.fn, i), Width(SlotsOf(new.fn)[i]))
        BY <3>1 DEF VarsIn
      <3> QED
        BY <2>1, <3>2, ArgumentsArrive
    <2> QED
      BY <2>1, <2>2 DEF ActivationIn
  <1> HIDE DEF new, args
  <1>9. Calling # <<>> /\ Calling.fn = cur /\ Calling.ret = ra /\ Calling.args = args
    BY <1>2, RecordsNotEmpty
  <1> QED
    BY <1>3, <1>6, <1>7, <1>8, <1>9 DEF Source!Enter

LEMMA RetRefines ==
  ASSUME MachineInv, NEW i \in {0} \cup Uses(cur), Ret(i)
  PROVE  Source!Return
  <1>1. at = <<"body">> /\ at # <<"boot">> /\ at # <<"enter">> /\ at[1] = "body"
    BY AtFacts DEF Ret
  <1>2. Running
    BY <1>1 DEF MachineInv, Control
  <1>3. PICK N \in Nat : N = Len(frames) /\ N \in Frames /\ N # 0 /\ N - 1 \in Nat
    BY <1>1, <1>2, TopFacts DEF Running
  <1>4. /\ SavedRa = frames[N].ret /\ sp + LocalBytes(cur) = End(N)
        /\ ReturnsTo(N - 1, frames[N].ret)
        /\ End(N) \in Nat /\ StackBase \in Nat
    BY <1>1, <1>2, <1>3, EpilogueReads, ChainFacts
  <1>5. /\ UNCHANGED layoutVars /\ ra' = frames[N].ret
        /\ mem' = Discard(mem, End(N)) /\ frames' = Front(frames)
        /\ i = 0 => frames[N].ret[3] = 0
        /\ a' = IF i = 0 THEN JunkArgs ELSE [JunkArgs EXCEPT ![1] = Read(sp, cur, i)]
    BY <1>4 DEF Ret
  <1>6. /\ Len(frames') = N - 1 /\ \A n \in 1 .. N - 1 : frames'[n] = frames[n]
    <2>1. frames \in Seq(Frame) /\ Len(frames) > 0
      BY <1>1, <1>2 DEF MachineInv, Chained, Running
    <2> QED
      BY <1>3, <1>5, <2>1, FrontFacts
  (* Where control goes. *)
  <1>7. /\ at' # <<"enter">> /\ at'[1] \in {"resume", "exit"}
        /\ \E fn \in 0 .. Len(program), d \in Nat : frames[N].ret = Site(fn, d)
    <2>1. CASE N = 1
      <3>1. frames[N].ret = Outside
        BY <1>4, <2>1 DEF ReturnsTo
      <3>2. at' = <<"exit">>
        BY <1>4, <3>1, SiteFacts DEF Ret
      <3>3. 0 \in 0 .. Len(program)
        BY <1>1, ProgramTypes DEF MachineInv
      <3> QED
        BY <3>1, <3>2, <3>3, AtFacts, SiteFacts
    <2>2. CASE N # 1
      <3>1. N - 1 \in Frames /\ N - 1 # 0
        BY <1>3, <2>2 DEF Frames
      <3> DEFINE fn == frames[N - 1].fn
      <3>2. fn \in 1 .. Len(program) /\ fn \in Nat \ {0}
        BY <1>1, <3>1, ChainFacts
      <3>3. PICK d \in {0} \cup Uses(fn) : frames[N].ret = Site(fn, d)
        BY <1>4, <3>1 DEF ReturnsTo
      <3>4. d \in Nat
        BY <1>1, <3>2, <3>3, UsedSlots DEF MachineInv
      <3>5. Site(fn, d)[1] = "site" /\ Site(fn, d) # Outside
        BY <3>2, SiteFacts
      <3>6. at' = <<"resume", SavedRa[3]>>
        BY <1>4, <3>3, <3>5 DEF Ret
      <3>7. fn \in 0 .. Len(program)
        BY <3>2
      <3> QED
        BY <3>3, <3>4, <3>6, <3>7, AtFacts
    <2> QED
      BY <2>1, <2>2
  <1>8. /\ Calling = <<>> /\ Calling' = <<>> /\ Returned = <<>>
        /\ Returned' = [to |-> ra', value |-> a'[1]]
    BY <1>1, <1>7 DEF Calling, Returned
  <1>9. Returned' # <<>> /\ Returned'.to = frames[N].ret /\ Returned'.value = a'[1]
    BY <1>5, <1>8, RecordsNotEmpty
  <1>10. /\ Stack # <<>> /\ Source!Last(Stack).ret = frames[N].ret
         /\ Uses(cur) \subseteq DOMAIN Source!Last(Stack).vals
         /\ \A j \in Uses(cur) : Source!Last(Stack).vals[j] = Read(sp, cur, j)
    BY <1>1, <1>2, <1>3, TopActivation
  (* The callers' frames keep what they hold. *)
  <1>11. \A n \in 1 .. N - 1 :
           ActivationIn(mem', frames[n]) = ActivationIn(mem, frames[n])
    <2> SUFFICES ASSUME NEW n \in 1 .. N - 1
                 PROVE  ActivationIn(mem', frames[n]) = ActivationIn(mem, frames[n])
      OBVIOUS
    <2> DEFINE b == frames[n].base
               e == End(n)
               z == End(N)
    <2>1. n \in Frames /\ n # N
      BY <1>3 DEF Frames
    <2>2. /\ z <= b /\ b \in Nat /\ e \in Nat /\ e <= StackBase /\ StackBase \in Nat
          /\ z \in Nat
      BY <1>1, <1>2, <1>3, <1>4, <2>1, TopFacts, ChainFacts DEF Running
    <2>3. \A y \in 0 .. StackBase - 1 : z <= y => mem'[y] = mem[y]
      BY <1>4, <1>5, DiscardFacts
    <2>4. \A y \in b .. e - 1 : mem'[y] = mem[y]
      <3> HIDE DEF b, e, z
      <3> QED
        BY <2>2, <2>3
    <2> QED
      BY <1>1, <2>1, <2>4, ActivationAgrees
  <1>12. Stack' = Source!Front(Stack) /\ Arity' = Arity
    <2>1. /\ Stack = [n \in 1 .. N |-> ActivationIn(mem, frames[n])]
          /\ Stack' = [n \in 1 .. N - 1 |-> ActivationIn(mem', frames'[n])]
          /\ Arity' = Arity
      BY <1>3, <1>5, <1>6, StackFacts, NextStackFacts
    <2>2. PICK M \in Nat : M = N - 1 /\ N = M + 1
      BY <1>3
    <2>3. Extends(Stack, Stack', M)
      <3> DEFINE old(n) == ActivationIn(mem, frames[n])
                 new(n) == ActivationIn(mem', frames'[n])
      <3>1. /\ Stack = [n \in 1 .. M + 1 |-> old(n)] /\ Stack' = [n \in 1 .. M |-> new(n)]
            /\ \A n \in 1 .. M : new(n) = old(n)
        BY <1>6, <1>11, <2>1, <2>2
      <3> HIDE DEF old, new
      <3> QED
        BY <3>1 DEF Extends
    <2>4. Source!Front(Stack) = Stack'
      BY <2>3, FrontIs
    <2> QED
      BY <2>1, <2>4
  (* What is returned. *)
  <1>13. \/ \E f \in {0} \cup DOMAIN Arity : Returned'.to = Site(f, 0)
         \/ \E j \in DOMAIN Source!Last(Stack).vals :
              Returned'.value = Source!Last(Stack).vals[j]
    <2>1. CASE i = 0
      <3>1. PICK fn \in 0 .. Len(program), d \in Nat : frames[N].ret = Site(fn, d)
        BY <1>7
      <3>2. d = 0
        BY <1>5, <2>1, <3>1, SiteFacts
      <3>3. fn \in {0} \cup DOMAIN Arity
        BY <1>1, ProgramTypes DEF Arity, MachineInv
      <3> QED
        BY <1>9, <3>1, <3>2, <3>3
    <2>2. CASE i # 0
      <3>1. i \in Uses(cur)
        BY <2>2
      <3>2. a'[1] = Read(sp, cur, i)
        <4>1. 1 \in DOMAIN JunkArgs
          BY CallStackAssumption DEF JunkArgs
        <4>2. a' = [JunkArgs EXCEPT ![1] = Read(sp, cur, i)]
          BY <1>5, <2>2
        <4> QED
          BY <4>1, <4>2
      <3> QED
        BY <1>9, <1>10, <3>1, <3>2
    <2> QED
      BY <2>1, <2>2
  <1> QED
    BY <1>8, <1>9, <1>10, <1>12, <1>13 DEF Source!Return, Source!Running

--------------------------------------------------------------------------------

(* The layout is done before main is called; until then no activation is.  *)
LEMMA LayoutingRefines ==
  ASSUME MachineInv, Layouting
  PROVE  UNCHANGED <<Arity, Stack, Calling, Returned>>
  <1>1. LayoutNext /\ UNCHANGED <<sp, s0, ra, a, mem, cur, at, frames>>
    BY DEF Layouting, machineVars
  <1>2. at = <<"boot">> /\ at # <<"enter">> /\ at[1] = "boot" /\ frames = <<>>
    BY <1>1, NoMoreLayouts, AtFacts DEF MachineInv, NotBooted
  <1>3. Calling = <<>> /\ Calling' = <<>> /\ Returned = <<>> /\ Returned' = <<>>
    BY <1>1, <1>2 DEF Calling, Returned
  <1>4. Stack = <<>> /\ Stack' = <<>>
    <2>1. Len(frames) = 0 /\ Len(frames') = 0
      BY <1>1, <1>2
    <2>2. Stack = [n \in 1 .. 0 |-> Stack[n]] /\ Stack' = [n \in 1 .. 0 |-> Stack'[n]]
      BY <2>1 DEF Stack
    <2> QED
      BY <2>2, IsSequence
  <1>5. program' = program
    BY <1>1 DEF LayoutNext, ResetForFunction, PlaceWord, PlaceAlloca, NextLoop,
                ReserveSaveArea, Place
  <1> QED
    BY <1>3, <1>4, <1>5 DEF Arity

LEMMA NextRefines ==
  ASSUME RegisterArgs, MachineInv, [Next]_vars
  PROVE  [Source!Next]_(Source!vars)
  <1>1. CASE UNCHANGED vars
    <2>1. UNCHANGED layoutVars /\ UNCHANGED <<sp, s0, ra, a, mem, cur, at, frames>>
      BY <1>1 DEF vars, machineVars
    <2>2. Stack' = Stack /\ Arity' = Arity
      BY <2>1, StackFacts, NextStackFacts
    <2>3. program' = program
      BY <2>1 DEF layoutVars
    <2>4. Calling' = Calling /\ Returned' = Returned
      BY <2>1, <2>3 DEF Calling, Returned
    <2> QED
      BY <2>2, <2>4 DEF Source!vars
  <1>2. CASE Layouting
    BY <1>2, LayoutingRefines DEF Source!vars
  <1>3. CASE Boot
    BY <1>3, BootRefines DEF Source!Next
  <1>4. CASE Enter
    BY <1>4, EnterRefines DEF Source!Next
  <1>5. CASE Body
    <2>1. at = <<"body">>
      BY <1>5 DEF Body
    <2>2. ASSUME NEW i \in Uses(cur), NEW v \in Value, Write(i, v) PROVE Source!Write
      BY <2>1, <2>2, WriteRefines
    <2>3. ASSUME NEW f \in 1 .. Len(program),
                 NEW args \in [1 .. program[f].arg -> Uses(cur)],
                 NEW dst \in {0} \cup Uses(cur), Call(f, args, dst)
          PROVE  Source!Call
      BY <2>1, <2>3, CallRefines
    <2>4. ASSUME NEW i \in {0} \cup Uses(cur), Ret(i) PROVE Source!Return
      BY <2>4, RetRefines
    <2> QED
      BY <1>5, <2>2, <2>3, <2>4 DEF Body, Source!Next
  <1>6. ASSUME NEW dst \in {0} \cup Uses(cur), ResumeAt(dst) PROVE Source!Next
    BY <1>6, ResumeRefines DEF Source!Next
  <1> QED
    BY <1>1, <1>2, <1>3, <1>4, <1>5, <1>6 DEF Next

(* Compiled functions call each other as the source program's do, to any   *)
(* depth and recursively: the arguments arrive, a callee leaves every      *)
(* variable of its callers alone, and it returns to the call that made it, *)
(* with its value.  Prologue, epilogue, call sequence and frame layout     *)
(* (emitPrologue, emitEpilogue, spillIncomingArgs, the call and return of  *)
(* emitInst) implement the activations.                                    *)
THEOREM CallsAreActivations ==
  ASSUME RegisterArgs
  PROVE  Spec => ImplementsActivations
  <1>1. MachineInv /\ [Next]_vars => [Source!Next]_(Source!vars)
    BY NextRefines
  <1> QED
    BY <1>1, InitMachine, NextMachine, InitRefines, PTL
    DEF Spec, ImplementsActivations, Source!Spec
================================================================================
