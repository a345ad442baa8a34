------------------------------- MODULE LinearScan -------------------------------
(***************************************************************************)
(* LinearScanAllocator of 5/AllocReg.cpp: the linear scan that gives the   *)
(* virtual registers of one block of instructions physical registers.      *)
(*                                                                         *)
(* emitFunction (EmitMIR.cpp:86-109) keeps ONE allocator for a function    *)
(* and calls allocate() for every basic block and every PHI edge block in  *)
(* turn, so the object's maps outlive a block.  An action is one           *)
(* instruction of buildIntervals, one iteration of the scan's loop, or the *)
(* code between them.                                                      *)
(*                                                                         *)
(* Interval is kept as four functions on VReg; start[v] = -1 says that     *)
(* intervals_ has no entry for v.  std::sort is not stable and DenseMap    *)
(* has no order, so ties are broken freely.  freeRegs is a set: the code   *)
(* takes the register pushed last, the model any.                          *)
(***************************************************************************)
EXTENDS MIR, FiniteSets

CONSTANTS PhysRegs,        \* the seven temporaries runLinearScan hands out
          ForceSpillModes, \* the values forceSpillAll_ may have: {TRUE} as shipped
          Functions        \* functions: sequences of blocks of VInsts

ASSUME LinearScanAssumption ==
  /\ PhysRegs # {}
  /\ NoReg \notin PhysRegs
  /\ ForceSpillModes \subseteq BOOLEAN
  /\ Functions \subseteq Seq(Seq(VInst))
  /\ IsFiniteSet(PhysRegs)
  /\ IsFiniteSet(VReg)     \* llvm::Register is an unsigned int

VARIABLES forceSpillAll, \* forceSpillAll_
          blocks,        \* the blocks emitFunction still has to allocate
          insts,         \* the block being allocated, or allocated last
          stage,         \* where allocate() stands
          idx,           \* buildIntervals' loop index
          start, end,    \* Interval::start, Interval::end
          spilled, phys, \* Interval::spilled, Interval::phys
          pending,       \* the part of `sorted` the loop has not reached
          active,        \* runLinearScan's active list
          freeRegs,      \* runLinearScan's freeRegs
          physMap        \* physMap_; NoReg where it has no entry

scanVars == <<start, end, spilled, phys>>
vars == <<forceSpillAll, blocks, insts, stage, idx, scanVars, pending, active,
          freeRegs, physMap>>

EmptyMap == [v \in VReg |-> NoReg]
Known    == {v \in VReg : start[v] >= 0}      \* the keys of intervals_

(* intervals_.clear(): what start holds afterwards.  (A clear() that was    *)
(* forgotten would leave the intervals of the block before.)               *)
StaleIntervals == start
NoIntervals == [v \in VReg |-> -1]

(* A new LinearScanAllocator.                                              *)
InitAllocator ==
  /\ forceSpillAll \in ForceSpillModes
  /\ insts = <<>>
  /\ stage = "idle"
  /\ idx = 0
  /\ start = [v \in VReg |-> -1]
  /\ end = [v \in VReg |-> -1]
  /\ spilled = [v \in VReg |-> FALSE]
  /\ phys = EmptyMap
  /\ pending = {}
  /\ active = {}
  /\ freeRegs = {}
  /\ physMap = EmptyMap

Init == blocks \in Functions /\ InitAllocator

(* allocate(): an empty block returns at once and leaves physMap_ as the   *)
(* block before it left it; otherwise buildIntervals clears both maps.     *)
Allocate ==
  /\ stage = "idle" /\ blocks # <<>>
  /\ blocks' = Tail(blocks)
  /\ insts' = Head(blocks)
  /\ IF Head(blocks) = <<>>
       THEN UNCHANGED <<stage, idx, scanVars, physMap>>
       ELSE /\ stage' = "build"
            /\ idx' = 0
            /\ start' = NoIntervals
            /\ end' = [v \in VReg |-> -1]
            /\ spilled' = [v \in VReg |-> FALSE]
            /\ phys' = EmptyMap
            /\ physMap' = EmptyMap
  /\ UNCHANGED <<forceSpillAll, pending, active, freeRegs>>

(* One iteration of buildIntervals' loop: touchInterval of every virtual   *)
(* register that instruction idx reads or writes.                          *)
BuildIntervals ==
  /\ stage = "build" /\ idx < Len(insts)
  /\ LET touched == Touched(insts[idx + 1])
     IN /\ start' = [v \in VReg |-> IF v \in touched /\ start[v] < 0
                                      THEN idx ELSE start[v]]
        /\ end' = [v \in VReg |-> IF v \in touched THEN idx ELSE end[v]]
  /\ idx' = idx + 1
  /\ UNCHANGED <<forceSpillAll, blocks, insts, stage, spilled, phys, pending,
                 active, freeRegs, physMap>>

(* runLinearScan with forceSpillAll_ set: every interval is spilled.       *)
SpillAll ==
  /\ stage = "build" /\ idx = Len(insts) /\ forceSpillAll
  /\ spilled' = [v \in VReg |-> v \in Known]
  /\ phys' = EmptyMap
  /\ physMap' = EmptyMap
  /\ stage' = "idle"
  /\ UNCHANGED <<forceSpillAll, blocks, insts, idx, start, end, pending,
                 active, freeRegs>>

StartScan ==
  /\ stage = "build" /\ idx = Len(insts) /\ ~forceSpillAll
  /\ pending' = Known
  /\ active' = {}
  /\ freeRegs' = PhysRegs
  /\ stage' = "scan"
  /\ UNCHANGED <<forceSpillAll, blocks, insts, idx, scanVars, physMap>>

(* `sorted` is ordered by start: cur may be the next interval of the loop. *)
NextInterval(cur) == \A v \in pending : start[cur] <= start[v]

(* expire(): the active intervals that end before cur starts ...           *)
(* (ExpiredTouching also drops those that end where cur starts.)           *)
ExpiredTouching(cur) == {v \in active : end[v] <= start[cur]}
Expired(cur) == {v \in active : end[v] < start[cur]}

(* ... give their registers back.  (LeakedExpiry: if they did not.)         *)
LeakedExpiry(cur) == freeRegs
FreeAfterExpiry(cur) == freeRegs \cup {phys[v] : v \in Expired(cur)}

(* active.back(): insertActive sorts by end.                               *)
Furthest(v) == v \in active /\ \A u \in active : end[u] <= end[v]

TakeFree(cur) ==
  /\ active' = (active \ Expired(cur)) \cup {cur}
  /\ \E r \in FreeAfterExpiry(cur) :
       /\ phys' = [phys EXCEPT ![cur] = r]
       /\ freeRegs' = FreeAfterExpiry(cur) \ {r}
  /\ UNCHANGED spilled

(* SpillFurthest without its active.pop_back().                            *)
SpillKeepingVictim(cur, victim) ==
  /\ FreeAfterExpiry(cur) = {}
  /\ Furthest(victim) /\ end[victim] > end[cur]
  /\ phys' = [phys EXCEPT ![cur] = phys[victim], ![victim] = NoReg]
  /\ spilled' = [spilled EXCEPT ![victim] = TRUE]
  /\ active' = active \cup {cur}
  /\ UNCHANGED freeRegs

SpillFurthest(cur, victim) ==
  /\ FreeAfterExpiry(cur) = {}
  /\ Furthest(victim) /\ end[victim] > end[cur]
  /\ phys' = [phys EXCEPT ![cur] = phys[victim], ![victim] = NoReg]
  /\ spilled' = [spilled EXCEPT ![victim] = TRUE]
  /\ active' = (active \ {victim}) \cup {cur}
  /\ UNCHANGED freeRegs

SpillCurrent(cur, victim) ==
  /\ FreeAfterExpiry(cur) = {}
  /\ Furthest(victim) /\ end[victim] <= end[cur]
  /\ spilled' = [spilled EXCEPT ![cur] = TRUE]
  /\ UNCHANGED <<phys, active, freeRegs>>

(* One iteration of the scan's loop over `sorted`.                         *)
Visit(cur) ==
  /\ stage = "scan" /\ cur \in pending /\ NextInterval(cur)
  /\ \/ TakeFree(cur)
     \/ \E victim \in active : SpillFurthest(cur, victim)
     \/ \E victim \in active : SpillCurrent(cur, victim)
  /\ pending' = pending \ {cur}
  /\ UNCHANGED <<forceSpillAll, blocks, insts, stage, idx, start, end, physMap>>

(* The final loop over intervals_ fills physMap_.                          *)
Finish ==
  /\ stage = "scan" /\ pending = {}
  /\ physMap' = [v \in VReg |-> IF v \in Known /\ ~spilled[v]
                                  THEN phys[v] ELSE NoReg]
  /\ stage' = "idle"
  /\ active' = {}
  /\ freeRegs' = {}
  /\ UNCHANGED <<forceSpillAll, blocks, insts, idx, scanVars, pending>>

Next ==
  \/ Allocate
  \/ BuildIntervals
  \/ SpillAll
  \/ StartScan
  \/ \E cur \in VReg : Visit(cur)
  \/ Finish

Spec == Init /\ [][Next]_vars

--------------------------------------------------------------------------------

TypeOK ==
  /\ forceSpillAll \in BOOLEAN
  /\ stage \in {"idle", "build", "scan"}
  /\ idx \in Nat
  /\ start \in [VReg -> Int]
  /\ end \in [VReg -> Int]
  /\ spilled \in [VReg -> BOOLEAN]
  /\ phys \in [VReg -> PhysRegs \cup {NoReg}]
  /\ pending \subseteq VReg
  /\ active \subseteq VReg
  /\ freeRegs \subseteq PhysRegs
  /\ physMap \in [VReg -> PhysRegs \cup {NoReg}]

(* The indices of the block's instructions that touch v.                   *)
Touches(v) == {i \in 1 .. Len(insts) : v \in Touched(insts[i])}

(* Two virtual registers that physMap() puts in one physical register are  *)
(* never needed at the same time: every instruction that touches the one   *)
(* comes before every instruction that touches the other, so the emitter   *)
(* (EmitAsm.cpp) can keep both there.  runLinearScan's expiry and its      *)
(* hand-over of a victim's register must get this right together.          *)
NoSharedRegister ==
  \A u, v \in VReg :
    (u # v /\ physMap[u] # NoReg /\ physMap[u] = physMap[v])
      => \/ \A i \in Touches(u), j \in Touches(v) : i < j
         \/ \A i \in Touches(u), j \in Touches(v) : j < i

(* An assignment is always one for the block at hand: the allocator object *)
(* is reused for all blocks of a function, and a register left over from   *)
(* the block before would be taken by useReg for a value it does not hold. *)
NoStaleAssignment ==
  insts # <<>> => \A v \in VReg : physMap[v] # NoReg => Touches(v) # {}

(* The doc's account of the allocator: a value goes to its spill slot when *)
(* allocation failed, that is when at some instruction of its interval     *)
(* more intervals were live than there are registers.                      *)
LiveAt(i) == {v \in Known : start[v] <= i /\ i <= end[v]}

SpillOnlyUnderPressure ==
  \A v \in VReg :
    spilled[v] => \E i \in start[v] .. end[v] :
                    Cardinality(LiveAt(i)) > Cardinality(PhysRegs)

(* The scan proper, without forceSpillAll_, spills only under pressure: it *)
(* neither leaks a register on expiry nor spills while one is free.        *)
ScanSpillsUnderPressure == ~forceSpillAll => SpillOnlyUnderPressure
================================================================================
