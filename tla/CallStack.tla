-------------------------------- MODULE CallStack --------------------------------
(***************************************************************************)
(* Calls between compiled functions: the frame layout of FrameLayout.tla   *)
(* for every function of a module, then the module's run under the calling *)
(* sequence that 5/EmitMIR.cpp (emitPrologue, spillIncomingArgs) and       *)
(* 5/EmitAsm.cpp (calls, emitEpilogue) print around the functions' bodies. *)
(*                                                                         *)
(* A body is any mixture of what bodies do: write one of its slots, call a *)
(* function of the module (itself as well), return.  Memory is bytes, and  *)
(* a byte remembers the word it is part of, so that a word overwritten in  *)
(* part reads as junk.  The run must implement Activations.tla.            *)
(***************************************************************************)
EXTENDS FrameLayout, FiniteSets, SequencesExt

CONSTANTS Value,       \* what bodies compute
          NArgRegs,    \* the registers a0, a1, ...; 8 in RV64
          StackBase,   \* sp before main, 16-byte aligned by the ABI
          Used(_, _)   \* bound: of the slots of a module's function, those
                       \* its body uses

ASSUME CallStackAssumption ==
  /\ StackBase \in Nat /\ StackBase % 16 = 0
  /\ NArgRegs \in Nat \ {0}
  /\ \A p \in Programs : \A f \in DOMAIN p : \A i \in Used(p, f) :
       i \in 1 .. SlotCount(p[f]) /\ SlotSize(p[f], i) > 0

VARIABLES sp, s0, ra, a,  \* registers
          mem,            \* the stack's bytes
          cur,            \* the function whose code runs
          at,             \* <<"boot">>, <<"enter">>, <<"body">>, <<"exit">>,
                          \* <<"resume", slot>> or <<"lost">>
          frames          \* history: the activations entered and not yet
                          \* left, [fn, base, ret], the innermost last
machineVars == <<sp, s0, ra, a, mem, cur, at, frames>>
vars == <<layoutVars, machineVars>>

(* Words.  A site is a call in the code of f, and the slot its result goes *)
(* to (0: no result), all a return address tells.                          *)
Word(v)    == <<"word", v, 0>>
Addr(n)    == <<"addr", n, 0>>
Site(f, d) == <<"site", f, d>>
Junk       == <<"junk", 0, 0>>
Outside    == Site(0, 0)

(* n bytes of word w at address x; eight or fewer in a small alloca.       *)
Put(m, x, n, w) ==
  [y \in DOMAIN m |-> IF y \in x .. x + n - 1 THEN <<w, y - x>> ELSE m[y]]
Get(m, x, n) ==
  IF 0 <= x /\ x + n <= StackBase /\ \A i \in 0 .. n - 1 : m[x + i] = <<m[x][1], i>>
    THEN m[x][1] ELSE Junk

(* Nothing may rely on a0, a1, ... once they have been read.               *)
JunkArgs == [i \in 1 .. NArgRegs |-> Junk]

(* Nor on the memory below sp, where a signal handler may run.             *)
Discard(m, n) == [x \in 0 .. StackBase - 1 |-> IF x < n THEN <<Junk, 0>> ELSE m[x]]

Uses(f)       == Used(program, f)
LocalBytes(f) == layouts[f].localBytes
SlotsOf(f)    == layouts[f].slots
Width(slot)   == IF slot.size < 8 THEN slot.size ELSE 8
Read(base, f, i) == Get(mem, base + SlotsOf(f)[i].off, Width(SlotsOf(f)[i]))

Init ==
  /\ LayoutInit
  /\ sp = StackBase /\ s0 = Addr(0) /\ ra = Outside
  /\ a = JunkArgs
  /\ mem = [x \in 0 .. StackBase - 1 |-> <<Junk, 0>>]
  /\ cur = 1
  /\ at = <<"boot">>
  /\ frames = <<>>

Layouting == LayoutNext /\ UNCHANGED machineVars

(* The C runtime calls main, which has no arguments.                       *)
Boot ==
  /\ at = <<"boot">> /\ Len(layouts) = Len(program) /\ program # <<>>
  /\ overflow = {} /\ program[1].arg = 0
  /\ at' = <<"enter">>
  /\ UNCHANGED <<layoutVars, sp, s0, ra, a, mem, cur, frames>>

(* emitPrologue, as far as the stack reaches.                              *)
SaveRegs(m, base, f) ==
  Put(Put(m, base + layouts[f].saveRaOff, 8, ra), base + layouts[f].saveS0Off, 8, s0)

(* spillIncomingArgs: each argument into its slot, from its register or    *)
(* from above the frame; a byte keeps what the last of the `sd`s wrote.    *)
Arg(m, frame, i) ==
  IF i <= NArgRegs THEN a[i] ELSE Get(m, frame + (i - NArgRegs - 1) * 8, 8)

SpillArgs(m, base, f) ==
  LET slot(i)    == base + SlotsOf(f)[i].off
      covered(y) == {i \in 1 .. program[f].arg : y \in slot(i) .. slot(i) + 7}
  IN [y \in DOMAIN m |->
        IF covered(y) = {} THEN m[y]
        ELSE LET i == CHOOSE i \in covered(y) : \A j \in covered(y) : j <= i
             IN <<Arg(m, base + LocalBytes(f), i), y - slot(i)>>]

Enter ==
  /\ at = <<"enter">> /\ sp - LocalBytes(cur) >= 0
  /\ LET base == sp - LocalBytes(cur)
     IN /\ mem' = SpillArgs(SaveRegs(mem, base, cur), base, cur)
        /\ sp' = base
        /\ s0' = Addr(base + LocalBytes(cur))
        /\ frames' = Append(frames, [fn |-> cur, base |-> base, ret |-> ra])
  /\ a' = JunkArgs
  /\ at' = <<"body">>
  /\ UNCHANGED <<layoutVars, ra, cur>>

Write(i, v) ==
  /\ at = <<"body">>
  /\ mem' = Put(mem, sp + SlotsOf(cur)[i].off, Width(SlotsOf(cur)[i]), Word(v))
  /\ UNCHANGED <<layoutVars, sp, s0, ra, a, cur, at, frames>>

(* emitInst of a call: arguments into a0, a1, ..., then ra and the jump.   *)
Call(f, args, dst) ==
  /\ at = <<"body">>
  /\ a' = [i \in 1 .. NArgRegs |-> IF i <= Len(args) THEN Read(sp, cur, args[i]) ELSE Junk]
  /\ ra' = Site(cur, dst)
  /\ cur' = f
  /\ at' = <<"enter">>
  /\ UNCHANGED <<layoutVars, sp, s0, mem, frames>>

(* emitEpilogue's two reloads.  (The mutant leaves ra as the last call the *)
(* function made set it.)                                                  *)
KeptRa == ra
SavedRa == Get(mem, sp + layouts[cur].saveRaOff, 8)
KeptS0 == s0
SavedS0 == Get(mem, sp + layouts[cur].saveS0Off, 8)

(* emitInst of a return: a0, then the epilogue.  i = 0 is a return without *)
(* a value, and no call of such a function has a result.                   *)
Ret(i) ==
  /\ at = <<"body">>
  /\ i = 0 => SavedRa[3] = 0
  /\ a' = IF i = 0 THEN JunkArgs ELSE [JunkArgs EXCEPT ![1] = Read(sp, cur, i)]
  /\ ra' = SavedRa
  /\ s0' = SavedS0
  /\ sp' = sp + LocalBytes(cur)
  /\ IF SavedRa[1] # "site" THEN at' = <<"lost">> /\ UNCHANGED cur
     ELSE IF SavedRa = Outside THEN at' = <<"exit">> /\ UNCHANGED cur
     ELSE at' = <<"resume", SavedRa[3]>> /\ cur' = SavedRa[2]
  /\ mem' = Discard(mem, sp')
  /\ frames' = Front(frames)
  /\ UNCHANGED layoutVars

(* The caller's `sd a0` behind the call, if the call has a result.         *)
ResumeAt(dst) ==
  /\ at = <<"resume", dst>>
  /\ mem' = IF dst = 0 THEN mem
            ELSE Put(mem, sp + SlotsOf(cur)[dst].off, Width(SlotsOf(cur)[dst]), a[1])
  /\ a' = JunkArgs
  /\ at' = <<"body">>
  /\ UNCHANGED <<layoutVars, sp, s0, ra, cur, frames>>

Body ==
  /\ at = <<"body">>
  /\ \/ \E i \in Uses(cur), v \in Value : Write(i, v)
     \/ \E f \in 1 .. Len(program) :
          \E args \in [1 .. program[f].arg -> Uses(cur)], dst \in {0} \cup Uses(cur) :
            Call(f, args, dst)
     \/ \E i \in {0} \cup Uses(cur) : Ret(i)

Next ==
  \/ Layouting
  \/ Boot
  \/ Enter
  \/ Body
  \/ \E dst \in {0} \cup Uses(cur) : ResumeAt(dst)

Spec == Init /\ [][Next]_vars

--------------------------------------------------------------------------------
(* The activations: their variables are what the frames' memory holds, so  *)
(* they have nothing of their own that the machine could not lose.         *)

Activation(frame) ==
  [fn |-> frame.fn, ret |-> frame.ret,
   vals |-> [i \in Uses(frame.fn) \cup 1 .. program[frame.fn].arg |->
               Read(frame.base, frame.fn, i)]]

Stack == [n \in 1 .. Len(frames) |-> Activation(frames[n])]

Calling ==
  IF at # <<"enter">> THEN <<>>
  ELSE [fn |-> cur, ret |-> ra, args |-> [i \in 1 .. program[cur].arg |-> a[i]]]

Returned ==
  IF at[1] \notin {"resume", "exit"} THEN <<>> ELSE [to |-> ra, value |-> a[1]]

Arity == [f \in 1 .. Len(program) |-> program[f].arg]
Words == {Word(v) : v \in Value}

Source == INSTANCE Activations
            WITH arity <- Arity, stack <- Stack, call <- Calling,
                 result <- Returned, Value <- Words

(* Compiled functions call each other as the source program's do, to any   *)
(* depth and recursively: arguments arrive, a callee leaves its callers'   *)
(* variables alone, and it returns to the call that made it, with its      *)
(* value (the prologue, the epilogue and the layout together).             *)
ImplementsActivations == Source!Spec

(* Wherever a body runs, s0 is the address its own frame ends at, after    *)
(* its calls have returned as well as before: spillIncomingArgs' reads     *)
(* through s0 and the epilogues of its callers depend on it.               *)
FramePointerKept == at = <<"body">> => s0 = Addr(sp + LocalBytes(cur))

(* While a body runs, its allocas are where their getAlign asks, for the   *)
(* alignments sp itself has.                                               *)
AllocasAligned ==
  at = <<"body">> =>
    \A i \in 1 .. Len(SlotsOf(cur)) :
      LET s == SlotsOf(cur)[i]
      IN s.kind = "alloca" /\ s.align <= 16 => (sp + s.off) % s.align = 0
================================================================================
