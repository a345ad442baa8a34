---------------------------- MODULE LinearScan_proofs ----------------------------
(***************************************************************************)
(* NoSharedRegister, NoStaleAssignment and ScanSpillsUnderPressure hold of *)
(* LinearScan for any registers, blocks and setting of forceSpillAll_.     *)
(***************************************************************************)
EXTENDS LinearScan, FiniteSetTheorems, TLAPS

(* What buildIntervals has covered: in the build stage the first idx       *)
(* instructions, later all of the block.                                   *)
Built(i) == i \in 1 .. Len(insts) /\ (stage = "build" => i <= idx)

Covered ==
  /\ blocks \in Seq(Seq(VInst))
  /\ insts \in Seq(VInst)
  /\ stage = "build" => idx <= Len(insts)
  /\ \A i \in 1 .. Len(insts), v \in VReg :
       (Built(i) /\ v \in Touched(insts[i])) =>
          /\ 0 <= start[v]
          /\ start[v] <= i - 1
          /\ i - 1 <= end[v]
  /\ \A v \in Known : start[v] <= end[v] /\ (stage = "build" => end[v] < idx)
  /\ insts # <<>> => \A v \in Known : Touches(v) # {}

(* While scanning: the active intervals hold distinct registers, none of   *)
(* them free; what is visited starts no later than what is pending; an     *)
(* interval that left active with its register ended before anything       *)
(* pending starts.                                                         *)
ScanInv ==
  stage = "scan" =>
    /\ pending \subseteq Known
    /\ active \subseteq Known \ pending
    /\ \A v \in active : phys[v] \in PhysRegs \ freeRegs
    /\ \A u, v \in active : phys[u] = phys[v] => u = v
    /\ \A v \in Known \ pending, p \in pending : start[v] <= start[p]
    /\ \A v \in (Known \ pending) \ active, p \in pending :
         phys[v] # NoReg => end[v] < start[p]

(* Registers are held by visited intervals only, and two intervals in one  *)
(* register do not overlap.                                                *)
Disjoint ==
  /\ \A v \in VReg : phys[v] # NoReg => v \in Known
  /\ stage = "build" => \A v \in VReg : phys[v] = NoReg
  /\ stage = "scan" => \A v \in pending : phys[v] = NoReg
  /\ \A u, v \in VReg :
       (u # v /\ phys[u] # NoReg /\ phys[u] = phys[v])
         => end[u] < start[v] \/ end[v] < start[u]

(* physMap is empty until Finish copies the registers held.                *)
MapInv ==
  /\ stage # "idle" => physMap = EmptyMap
  /\ \A v \in VReg : physMap[v] # NoReg => physMap[v] = phys[v]

IInv == TypeOK /\ Covered /\ ScanInv /\ Disjoint /\ MapInv

--------------------------------------------------------------------------------

(* The initial state satisfies the invariant.                              *)
LEMMA InitIInv == Init => IInv
  <1> SUFFICES ASSUME Init PROVE IInv
    OBVIOUS
  <1> USE LinearScanAssumption
  <1>1. TypeOK
    BY DEF Init, InitAllocator, TypeOK, EmptyMap
  <1>2. Covered
    BY DEF Init, InitAllocator, Covered, Built, Known
  <1>3. ScanInv /\ Disjoint /\ MapInv
    BY DEF Init, InitAllocator, ScanInv, Disjoint, MapInv, EmptyMap
  <1> QED
    BY <1>1, <1>2, <1>3 DEF IInv

(* allocate() starts a block with both maps empty, or returns with an      *)
(* empty block and every map as it was.                                    *)
LEMMA AllocateIInv ==
  ASSUME IInv, Allocate
  PROVE  IInv'
  <1> USE LinearScanAssumption
  <1> USE DEF IInv
  <1>0. Head(blocks) \in Seq(VInst) /\ blocks' \in Seq(Seq(VInst))
    BY DEF Allocate, Covered
  <1>1. CASE Head(blocks) = <<>>
    <2>1. TypeOK'
      BY <1>1 DEF Allocate, TypeOK, scanVars
    <2>2. insts' = <<>> /\ Len(insts') = 0 /\ stage' = "idle"
      BY <1>1 DEF Allocate
    <2>3. Covered'
      <3>1. UNCHANGED <<start, end>>
        BY <1>1 DEF Allocate, scanVars
      <3> QED
        BY <1>0, <1>1, <2>2, <3>1 DEF Allocate, Covered, Built, Known
    <2>4. ScanInv' /\ Disjoint' /\ MapInv'
      BY <1>1, <2>2
      DEF Allocate, ScanInv, Disjoint, MapInv, scanVars, Known
    <2> QED
      BY <2>1, <2>3, <2>4
  <1>2. CASE Head(blocks) # <<>>
    <2>0. /\ stage' = "build" /\ idx' = 0 /\ insts' = Head(blocks)
          /\ start' = [v \in VReg |-> -1] /\ end' = [v \in VReg |-> -1]
          /\ phys' = EmptyMap /\ physMap' = EmptyMap
      BY <1>2 DEF Allocate, NoIntervals
    <2>1. TypeOK'
      <3>1. spilled' = [v \in VReg |-> FALSE]
            /\ UNCHANGED <<forceSpillAll, pending, active, freeRegs>>
        BY <1>2 DEF Allocate
      <3> QED
        BY <2>0, <3>1 DEF TypeOK, EmptyMap
    <2>2. Covered'
      BY <1>0, <2>0 DEF Covered, Built, Known
    <2>3. ScanInv' /\ Disjoint' /\ MapInv'
      BY <2>0 DEF ScanInv, Disjoint, MapInv, EmptyMap
    <2> QED
      BY <2>1, <2>2, <2>3
  <1> QED
    BY <1>1, <1>2

(* One instruction of buildIntervals.                                      *)
LEMMA BuildIInv ==
  ASSUME IInv, BuildIntervals
  PROVE  IInv'
  <1> USE LinearScanAssumption
  <1> USE DEF IInv
  <1> DEFINE touched == Touched(insts[idx + 1])
  <1>0. /\ stage = "build" /\ idx < Len(insts) /\ idx' = idx + 1
        /\ start' = [v \in VReg |-> IF v \in touched /\ start[v] < 0
                                      THEN idx ELSE start[v]]
        /\ end' = [v \in VReg |-> IF v \in touched THEN idx ELSE end[v]]
        /\ UNCHANGED <<forceSpillAll, blocks, insts, stage, spilled, phys,
                       pending, active, freeRegs, physMap>>
    BY DEF BuildIntervals
  <1>1. idx \in Nat /\ Len(insts) \in Nat
    BY DEF TypeOK, Covered
  <1>2. TypeOK'
    BY <1>0, <1>1 DEF TypeOK
  <1>3. Covered'
    <2>1. ASSUME NEW i \in 1 .. Len(insts), NEW v \in VReg,
                 i <= idx + 1, v \in Touched(insts[i])
          PROVE  0 <= start'[v] /\ start'[v] <= i - 1 /\ i - 1 <= end'[v]
      <3>1. CASE i <= idx
        <4>1. 0 <= start[v] /\ start[v] <= i - 1 /\ i - 1 <= end[v]
          BY <1>0, <1>1, <2>1, <3>1 DEF Covered, Built
        <4>2. start'[v] = start[v] /\ end'[v] \in {end[v], idx}
          BY <1>0, <4>1 DEF TypeOK
        <4> QED
          BY <1>1, <3>1, <4>1, <4>2 DEF TypeOK
      <3>2. CASE i = idx + 1
        <4>1. v \in touched
          BY <2>1, <3>2
        <4>2. end'[v] = idx /\ start'[v] = IF start[v] < 0 THEN idx ELSE start[v]
          BY <1>0, <4>1
        <4>3. start[v] < 0 \/ start[v] <= idx
          <5>1. ASSUME start[v] >= 0 PROVE start[v] <= idx
            <6>1. start[v] <= end[v] /\ end[v] < idx
              BY <5>1, <1>0, <1>1 DEF TypeOK, Covered, Known
            <6> QED
              BY <6>1, <1>1 DEF TypeOK
          <5> QED
            BY <5>1 DEF TypeOK
        <4> QED
          BY <1>1, <3>2, <4>2, <4>3 DEF TypeOK
      <3> QED
        BY <1>1, <2>1, <3>1, <3>2
    <2>2. ASSUME NEW v \in VReg, start'[v] >= 0
          PROVE  Touches(v) # {}
      <3>1. CASE v \in touched
        BY <1>0, <1>1, <3>1 DEF Touches
      <3>2. CASE v \notin touched
        <4>1. insts # <<>>
          BY <1>0, <1>1
        <4>2. v \in Known
          BY <1>0, <2>2, <3>2 DEF Known
        <4> QED
          BY <4>1, <4>2 DEF Covered
      <3> QED
        BY <3>1, <3>2
    <2> QED
      <3>1. ASSUME NEW v \in VReg, start'[v] >= 0
            PROVE  start'[v] <= end'[v] /\ end'[v] < idx + 1
        BY <1>0, <1>1, <3>1 DEF TypeOK, Covered, Known
      <3> QED
        BY <1>0, <1>1, <2>1, <2>2, <3>1 DEF Covered, Built, Known, Touches
  <1>4. ScanInv' /\ Disjoint' /\ MapInv'
    BY <1>0 DEF ScanInv, Disjoint, MapInv
  <1> QED
    BY <1>2, <1>3, <1>4

(* forceSpillAll_: nothing is mapped.                                      *)
LEMMA SpillAllIInv ==
  ASSUME IInv, SpillAll
  PROVE  IInv'
  <1> USE LinearScanAssumption
  <1> USE DEF IInv, SpillAll
  <1>1. TypeOK'
    BY DEF TypeOK, EmptyMap, Known
  <1>2. Covered'
    BY DEF Covered, Built, Known, Touches, TypeOK
  <1>3. ScanInv' /\ Disjoint' /\ MapInv'
    BY DEF ScanInv, Disjoint, MapInv, EmptyMap
  <1> QED
    BY <1>1, <1>2, <1>3

LEMMA StartScanIInv ==
  ASSUME IInv, StartScan
  PROVE  IInv'
  <1> USE LinearScanAssumption
  <1> USE DEF IInv, StartScan, scanVars
  <1>1. TypeOK'
    BY DEF TypeOK, Known
  <1>2. Covered'
    BY DEF Covered, Built, Known, Touches, TypeOK
  <1>3. ScanInv' /\ Disjoint' /\ MapInv'
    BY DEF ScanInv, Disjoint, MapInv, Known
  <1> QED
    BY <1>1, <1>2, <1>3

LEMMA FinishIInv ==
  ASSUME IInv, Finish
  PROVE  IInv'
  <1> USE LinearScanAssumption
  <1> USE DEF IInv, Finish, scanVars
  <1>1. TypeOK'
    BY DEF TypeOK, Known
  <1>2. Covered'
    BY DEF Covered, Built, Known, Touches
  <1>3. ScanInv' /\ Disjoint' /\ MapInv'
    BY DEF ScanInv, Disjoint, MapInv, Known, TypeOK
  <1> QED
    BY <1>1, <1>2, <1>3

(* What every visit leaves alone, and the order of the scan.               *)
LEMMA VisitFrame ==
  ASSUME IInv, NEW cur \in VReg, Visit(cur)
  PROVE  /\ stage = "scan" /\ stage' = "scan" /\ cur \in pending
         /\ pending' = pending \ {cur}
         /\ UNCHANGED <<forceSpillAll, blocks, insts, idx, start, end, physMap>>
         /\ cur \in Known /\ cur \notin active /\ phys[cur] = NoReg
         /\ \A p \in pending : start[cur] <= start[p]
         /\ Known' = Known
         /\ Covered'
  <1>1. /\ stage = "scan" /\ stage' = "scan" /\ cur \in pending
        /\ pending' = pending \ {cur}
        /\ UNCHANGED <<forceSpillAll, blocks, insts, idx, start, end, physMap>>
        /\ \A p \in pending : start[cur] <= start[p]
    BY DEF Visit, NextInterval
  <1>2. cur \in Known /\ cur \notin active /\ phys[cur] = NoReg
    BY <1>1 DEF IInv, ScanInv, Disjoint
  <1>3. Known' = Known
    BY <1>1 DEF Known
  <1>4. Covered'
    BY <1>1, <1>3 DEF IInv, Covered, Built, Touches
  <1> QED
    BY <1>1, <1>2, <1>3, <1>4

(* A visited interval that is not active, or that expires now, no longer   *)
(* overlaps anything that starts at cur or later.                          *)
LEMMA EndedBeforeCur ==
  ASSUME IInv, NEW cur \in VReg, Visit(cur),
         NEW v \in VReg, phys[v] # NoReg, v \notin active \ Expired(cur)
  PROVE  /\ end[v] < start[cur]
         /\ \A p \in pending : end[v] < start[p]
  <1>1. v \in Known /\ v \notin pending
    BY VisitFrame DEF IInv, Disjoint
  <1>2. end[v] < start[cur]
    <2>1. CASE v \in active
      BY <2>1 DEF Expired
    <2>2. CASE v \notin active
      BY <1>1, <2>2, VisitFrame DEF IInv, ScanInv
    <2> QED
      BY <2>1, <2>2
  <1>3. pending \subseteq VReg
    BY DEF IInv, TypeOK
  <1>4. ASSUME NEW p \in pending PROVE end[v] < start[p]
    <2>1. start[cur] <= start[p] /\ start[cur] \in Int /\ start[p] \in Int
          /\ end[v] \in Int
      BY <1>3, VisitFrame DEF IInv, TypeOK
    <2> QED
      BY <1>2, <2>1
  <1> QED
    BY <1>2, <1>4

(* cur takes a register that was free, or that an expired interval held.   *)
LEMMA TakeFreeIInv ==
  ASSUME IInv, NEW cur \in VReg, Visit(cur), TakeFree(cur)
  PROVE  IInv'
  <1> USE LinearScanAssumption, VisitFrame
  <1>1. PICK r \in FreeAfterExpiry(cur) :
          /\ phys' = [phys EXCEPT ![cur] = r]
          /\ freeRegs' = FreeAfterExpiry(cur) \ {r}
    BY DEF TakeFree
  <1>2. /\ active' = (active \ Expired(cur)) \cup {cur}
        /\ spilled' = spilled
    BY DEF TakeFree
  <1>3. /\ FreeAfterExpiry(cur) \subseteq PhysRegs
        /\ \A v \in active \ Expired(cur) : phys[v] \notin FreeAfterExpiry(cur)
        /\ active \subseteq VReg
    <2>1. stage = "scan" /\ active \subseteq VReg /\ freeRegs \subseteq PhysRegs
          /\ phys \in [VReg -> PhysRegs \cup {NoReg}]
      BY DEF IInv, TypeOK
    <2>2. /\ \A v \in active : phys[v] \in PhysRegs /\ phys[v] \notin freeRegs
          /\ \A v, w \in active : phys[v] = phys[w] => v = w
      BY <2>1 DEF IInv, ScanInv
    <2> QED
      BY <2>1, <2>2 DEF FreeAfterExpiry, Expired
  <1>4. r \in PhysRegs /\ r # NoReg
    BY <1>1, <1>3
  <1>5. phys' \in [VReg -> PhysRegs \cup {NoReg}]
        /\ phys'[cur] = r
        /\ \A v \in VReg \ {cur} : phys'[v] = phys[v]
    BY <1>1, <1>4 DEF IInv, TypeOK
  <1>6. TypeOK'
    BY <1>1, <1>2, <1>3, <1>5 DEF IInv, TypeOK
  <1>7. ScanInv'
    <2>1. \A v \in active' : phys'[v] \in PhysRegs \ freeRegs'
      BY <1>1, <1>2, <1>3, <1>4, <1>5 DEF IInv, ScanInv
    <2>2. \A u, v \in active' : phys'[u] = phys'[v] => u = v
      BY <1>1, <1>2, <1>3, <1>5 DEF IInv, ScanInv
    <2>3. \A v \in Known \ pending', p \in pending' : start[v] <= start[p]
      BY DEF IInv, ScanInv
    <2>4. ASSUME NEW v \in (Known \ pending') \ active', NEW p \in pending',
                 phys'[v] # NoReg
          PROVE  end[v] < start[p]
      <3>1. v # cur /\ v \in VReg /\ v \notin active \ Expired(cur)
        BY <1>2 DEF Known
      <3> QED
        BY <1>5, <2>4, <3>1, EndedBeforeCur
    <2>5. pending' \subseteq Known /\ active' \subseteq Known \ pending'
      BY <1>2 DEF IInv, ScanInv
    <2> QED
      BY <2>1, <2>2, <2>3, <2>4, <2>5 DEF ScanInv
  <1>8. Disjoint'
    <2>1. ASSUME NEW u \in VReg, u # cur, phys[u] = r
          PROVE  end[u] < start[cur]
      <3>1. u \notin active \ Expired(cur)
        BY <1>1, <1>3, <2>1
      <3> QED
        BY <1>4, <2>1, <3>1, EndedBeforeCur
    <2>2. ASSUME NEW u \in VReg, NEW v \in VReg, u # v, phys'[u] # NoReg,
                 phys'[u] = phys'[v]
          PROVE  end[u] < start[v] \/ end[v] < start[u]
      BY <1>5, <2>1, <2>2 DEF IInv, Disjoint
    <2>3. \A v \in VReg : phys'[v] # NoReg => v \in Known
      BY <1>5 DEF IInv, Disjoint
    <2>4. \A v \in pending' : phys'[v] = NoReg
      BY <1>5 DEF IInv, Disjoint, TypeOK
    <2> QED
      BY <2>2, <2>3, <2>4 DEF Disjoint
  <1>9. MapInv'
    BY DEF IInv, MapInv, EmptyMap
  <1> QED
    BY <1>6, <1>7, <1>8, <1>9 DEF IInv

(* With no register free, nothing expired.                                 *)
LEMMA NothingExpired ==
  ASSUME NEW cur \in VReg, FreeAfterExpiry(cur) = {}
  PROVE  Expired(cur) = {} /\ freeRegs = {}
  BY DEF FreeAfterExpiry

(* cur takes over the register of the active interval that ends last.      *)
LEMMA SpillFurthestIInv ==
  ASSUME IInv, NEW cur \in VReg, NEW victim \in active, Visit(cur),
         SpillFurthest(cur, victim)
  PROVE  IInv'
  <1> USE LinearScanAssumption, VisitFrame, NothingExpired
  <1>1. /\ Expired(cur) = {}
        /\ phys' = [phys EXCEPT ![cur] = phys[victim], ![victim] = NoReg]
        /\ spilled' = [spilled EXCEPT ![victim] = TRUE]
        /\ active' = (active \ {victim}) \cup {cur}
        /\ freeRegs' = freeRegs
    BY DEF SpillFurthest
  <1>2. /\ victim \in VReg /\ victim # cur /\ active \subseteq VReg
        /\ phys[victim] \in PhysRegs \ freeRegs /\ phys[victim] # NoReg
    BY DEF IInv, TypeOK, ScanInv
  <1>3. phys' \in [VReg -> PhysRegs \cup {NoReg}]
        /\ phys'[cur] = phys[victim] /\ phys'[victim] = NoReg
        /\ \A v \in VReg \ {cur, victim} : phys'[v] = phys[v]
    BY <1>1, <1>2 DEF IInv, TypeOK
  <1>4. TypeOK'
    BY <1>1, <1>2, <1>3 DEF IInv, TypeOK
  <1>5. ScanInv'
    <2>1. \A v \in active' : phys'[v] \in PhysRegs \ freeRegs'
      BY <1>1, <1>2, <1>3 DEF IInv, ScanInv
    <2>2. \A u, v \in active' : phys'[u] = phys'[v] => u = v
      BY <1>1, <1>2, <1>3 DEF IInv, ScanInv
    <2>3. \A v \in Known \ pending', p \in pending' : start[v] <= start[p]
      BY DEF IInv, ScanInv
    <2>4. ASSUME NEW v \in (Known \ pending') \ active', NEW p \in pending',
                 phys'[v] # NoReg
          PROVE  end[v] < start[p]
      <3>1. v # cur /\ v # victim /\ v \in VReg /\ v \notin active
        BY <1>1, <1>3, <2>4 DEF Known
      <3> QED
        BY <1>3, <2>4, <3>1, EndedBeforeCur
    <2>5. pending' \subseteq Known /\ active' \subseteq Known \ pending'
      BY <1>1 DEF IInv, ScanInv
    <2> QED
      BY <2>1, <2>2, <2>3, <2>4, <2>5 DEF ScanInv
  <1>6. Disjoint'
    <2>1. ASSUME NEW u \in VReg, u # cur, u # victim, phys[u] = phys[victim]
          PROVE  end[u] < start[cur]
      <3>1. u \notin active
        BY <2>1 DEF IInv, ScanInv
      <3> QED
        BY <1>2, <2>1, <3>1, EndedBeforeCur
    <2>2. ASSUME NEW u \in VReg, NEW v \in VReg, u # v, phys'[u] # NoReg,
                 phys'[u] = phys'[v]
          PROVE  end[u] < start[v] \/ end[v] < start[u]
      BY <1>3, <2>1, <2>2 DEF IInv, Disjoint
    <2>3. \A v \in VReg : phys'[v] # NoReg => v \in Known
      BY <1>3 DEF IInv, Disjoint
    <2>4. \A v \in pending' : phys'[v] = NoReg
      BY <1>2, <1>3 DEF IInv, Disjoint, TypeOK
    <2> QED
      BY <2>2, <2>3, <2>4 DEF Disjoint
  <1>7. MapInv'
    BY DEF IInv, MapInv, EmptyMap
  <1> QED
    BY <1>4, <1>5, <1>6, <1>7 DEF IInv

(* cur itself goes to its slot.                                            *)
LEMMA SpillCurrentIInv ==
  ASSUME IInv, NEW cur \in VReg, NEW victim \in active, Visit(cur),
         SpillCurrent(cur, victim)
  PROVE  IInv'
  <1> USE LinearScanAssumption, VisitFrame
  <1>1. /\ spilled' = [spilled EXCEPT ![cur] = TRUE]
        /\ UNCHANGED <<phys, active, freeRegs>>
    BY DEF SpillCurrent
  <1>2. TypeOK'
    BY <1>1 DEF IInv, TypeOK
  <1>3. ScanInv'
    BY <1>1 DEF IInv, ScanInv
  <1>4. Disjoint'
    BY <1>1 DEF IInv, Disjoint
  <1>5. MapInv'
    BY <1>1 DEF IInv, MapInv, EmptyMap
  <1> QED
    BY <1>2, <1>3, <1>4, <1>5 DEF IInv

--------------------------------------------------------------------------------

LEMMA NextIInv == IInv /\ [Next]_vars => IInv'
  <1> SUFFICES ASSUME IInv, [Next]_vars PROVE IInv'
    OBVIOUS
  <1>1. CASE Allocate
    BY <1>1, AllocateIInv
  <1>2. CASE BuildIntervals
    BY <1>2, BuildIInv
  <1>3. CASE SpillAll
    BY <1>3, SpillAllIInv
  <1>4. CASE StartScan
    BY <1>4, StartScanIInv
  <1>5. ASSUME NEW cur \in VReg, Visit(cur) PROVE IInv'
    <2>1. CASE TakeFree(cur)
      BY <1>5, <2>1, TakeFreeIInv
    <2>2. ASSUME NEW victim \in active, SpillFurthest(cur, victim) PROVE IInv'
      BY <1>5, <2>2, SpillFurthestIInv
    <2>3. ASSUME NEW victim \in active, SpillCurrent(cur, victim) PROVE IInv'
      BY <1>5, <2>3, SpillCurrentIInv
    <2> QED
      BY <1>5, <2>1, <2>2, <2>3 DEF Visit
  <1>6. CASE Finish
    BY <1>6, FinishIInv
  <1>7. CASE UNCHANGED vars
    <2>1. TypeOK'
      BY <1>7 DEF IInv, TypeOK, vars, scanVars
    <2>2. Covered'
      BY <1>7 DEF IInv, Covered, Built, Known, Touches, vars, scanVars
    <2>3. ScanInv' /\ Disjoint' /\ MapInv'
      BY <1>7 DEF IInv, ScanInv, Disjoint, MapInv, Known, vars, scanVars
    <2> QED
      BY <2>1, <2>2, <2>3 DEF IInv
  <1> QED
    BY <1>1, <1>2, <1>3, <1>4, <1>5, <1>6, <1>7 DEF Next

(* Disjoint intervals that cover every touch keep the touches apart.       *)
LEMMA IInvImpliesNoSharedRegister == IInv => NoSharedRegister
  <1> SUFFICES ASSUME IInv, NEW u \in VReg, NEW v \in VReg, u # v,
                      physMap[u] # NoReg, physMap[u] = physMap[v]
               PROVE  \/ \A i \in Touches(u), j \in Touches(v) : i < j
                      \/ \A i \in Touches(u), j \in Touches(v) : j < i
    BY DEF NoSharedRegister
  <1>1. stage = "idle" /\ phys[u] # NoReg /\ phys[u] = phys[v]
    BY DEF IInv, MapInv, EmptyMap
  <1>2. end[u] < start[v] \/ end[v] < start[u]
    BY <1>1 DEF IInv, Disjoint
  <1>3. ASSUME NEW w \in VReg, NEW i \in Touches(w)
        PROVE  start[w] <= i - 1 /\ i - 1 <= end[w] /\ i \in Int
               /\ start[w] \in Int /\ end[w] \in Int
    BY <1>1 DEF IInv, Covered, Built, Touches, TypeOK
  <1>4. CASE end[u] < start[v]
    <2> SUFFICES ASSUME NEW i \in Touches(u), NEW j \in Touches(v) PROVE i < j
      OBVIOUS
    <2> QED
      BY <1>3, <1>4
  <1>5. CASE end[v] < start[u]
    <2> SUFFICES ASSUME NEW i \in Touches(u), NEW j \in Touches(v) PROVE j < i
      OBVIOUS
    <2> QED
      BY <1>3, <1>5
  <1> QED
    BY <1>2, <1>4, <1>5

(* Type correctness of the allocator.                                      *)
THEOREM TypeCorrect == Spec => []TypeOK
  <1>1. IInv => TypeOK
    BY DEF IInv
  <1> QED
    BY <1>1, InitIInv, NextIInv, PTL DEF Spec

(* Whatever the block, the number of registers and the setting of          *)
(* forceSpillAll_, values that share a register are never needed together. *)
THEOREM SharedRegistersAreSafe == Spec => []NoSharedRegister
  BY InitIInv, NextIInv, IInvImpliesNoSharedRegister, PTL DEF Spec

(* The allocator object can be reused: no assignment outlives its block.   *)
THEOREM AssignmentsAreFresh == Spec => []NoStaleAssignment
  <1>1. IInv => NoStaleAssignment
    <2> SUFFICES ASSUME IInv, insts # <<>>, NEW v \in VReg, physMap[v] # NoReg
                 PROVE  Touches(v) # {}
      BY DEF NoStaleAssignment
    <2>1. v \in Known
      BY DEF IInv, MapInv, Disjoint
    <2> QED
      BY <2>1 DEF IInv, Covered
  <1> QED
    BY <1>1, InitIInv, NextIInv, PTL DEF Spec
--------------------------------------------------------------------------------
(* Spilling.  While scanning no register is lost: each is free or held by  *)
(* an active interval.  A visit that finds none free therefore has an      *)
(* active interval for every register, all of them live where cur starts.  *)

NoneLost == PhysRegs \subseteq freeRegs \cup {phys[v] : v \in active}

(* v was spilled at a point of its interval where more intervals were live *)
(* than there are registers.                                               *)
Pressed(v) ==
  \E i \in start[v] .. end[v] : Cardinality(LiveAt(i)) > Cardinality(PhysRegs)

PressureInv ==
  /\ stage = "build" => \A v \in VReg : ~spilled[v]
  /\ stage = "scan" => NoneLost
  /\ ~forceSpillAll => \A v \in VReg : spilled[v] => Pressed(v)

(* The values an active interval per register and one more make too many.  *)
LEMMA TooManyLive ==
  ASSUME NEW L, NEW A \in SUBSET L, NEW cur \in L, cur \notin A,
         IsFiniteSet(L), NEW f,
         \A r \in PhysRegs : \E v \in A : f[v] = r,
         \A v \in A : f[v] \in PhysRegs
  PROVE  Cardinality(L) > Cardinality(PhysRegs)
  <1>1. IsFiniteSet(A)
    BY FS_Subset
  <1> DEFINE g == [v \in A |-> f[v]]
  <1>2. g \in Surjection(A, PhysRegs)
    BY DEF Surjection
  <1>3. Cardinality(PhysRegs) <= Cardinality(A)
    <2> HIDE DEF g
    <2> QED
      BY <1>1, <1>2, FS_Surjection
  <1>4. IsFiniteSet(A \cup {cur}) /\ Cardinality(A \cup {cur}) = Cardinality(A) + 1
    BY <1>1, FS_AddElement
  <1>5. A \cup {cur} \in SUBSET L
    OBVIOUS
  <1>6. Cardinality(A \cup {cur}) <= Cardinality(L)
    BY <1>5, FS_Subset
  <1>7. /\ Cardinality(A) \in Nat /\ Cardinality(L) \in Nat
        /\ Cardinality(PhysRegs) \in Nat
    BY <1>1, LinearScanAssumption, FS_CardinalityType
  <1> QED
    BY <1>3, <1>4, <1>6, <1>7

(* A visit spills only where more intervals are live than registers exist. *)
LEMMA FullAtCur ==
  ASSUME IInv, PressureInv, NEW cur \in VReg, Visit(cur),
         FreeAfterExpiry(cur) = {}
  PROVE  /\ Cardinality(LiveAt(start[cur])) > Cardinality(PhysRegs)
         /\ \A v \in active \cup {cur} : start[cur] \in start[v] .. end[v]
  <1> USE VisitFrame
  <1>1. Expired(cur) = {} /\ freeRegs = {}
    BY NothingExpired
  <1>2. /\ active \subseteq VReg /\ active \subseteq Known \ pending
        /\ start \in [VReg -> Int] /\ end \in [VReg -> Int]
    BY DEF IInv, TypeOK, ScanInv
  <1>3. ASSUME NEW v \in active PROVE start[v] <= start[cur] /\ start[cur] <= end[v]
    <2>1. start[v] <= start[cur]
      BY <1>2 DEF IInv, ScanInv
    <2>2. ~(end[v] < start[cur])
      BY <1>1 DEF Expired
    <2> QED
      BY <1>2, <2>1, <2>2
  <1>4. start[cur] <= end[cur]
    BY DEF IInv, Covered
  <1>5. \A v \in active \cup {cur} : start[cur] \in start[v] .. end[v]
    BY <1>2, <1>3, <1>4
  <1>6. active \in SUBSET LiveAt(start[cur]) /\ cur \in LiveAt(start[cur])
    BY <1>2, <1>3, <1>4 DEF LiveAt
  <1>7. IsFiniteSet(LiveAt(start[cur]))
    <2>1. LiveAt(start[cur]) \in SUBSET VReg
      BY DEF LiveAt, Known
    <2> QED
      BY <2>1, FS_Subset, LinearScanAssumption
  <1>8. \A r \in PhysRegs : \E v \in active : phys[v] = r
    BY <1>1 DEF PressureInv, NoneLost
  <1>9. \A v \in active : phys[v] \in PhysRegs
    BY DEF IInv, ScanInv
  <1>10. Cardinality(LiveAt(start[cur])) > Cardinality(PhysRegs)
    BY <1>6, <1>7, <1>8, <1>9, TooManyLive
  <1> QED
    BY <1>5, <1>10

(* What is spilled stays so, and the one newly spilled is under pressure.  *)
LEMMA VisitPressure ==
  ASSUME IInv, PressureInv, NEW cur \in VReg, Visit(cur)
  PROVE  PressureInv'
  <1> USE LinearScanAssumption, VisitFrame
  <1>1. \A i : LiveAt(i)' = LiveAt(i)
    BY DEF LiveAt
  <1>2. \A v \in VReg : Pressed(v) => Pressed(v)'
    BY <1>1 DEF Pressed
  <1>3. /\ active \subseteq VReg /\ cur \notin active
        /\ phys \in [VReg -> PhysRegs \cup {NoReg}]
        /\ spilled \in [VReg -> BOOLEAN]
    BY DEF IInv, TypeOK
  <1>4. CASE TakeFree(cur)
    <2>1. PICK r \in FreeAfterExpiry(cur) :
            /\ phys' = [phys EXCEPT ![cur] = r]
            /\ freeRegs' = FreeAfterExpiry(cur) \ {r}
      BY <1>4 DEF TakeFree
    <2>2. active' = (active \ Expired(cur)) \cup {cur} /\ spilled' = spilled
      BY <1>4 DEF TakeFree
    <2>3. phys'[cur] = r /\ \A v \in active : phys'[v] = phys[v]
      BY <1>3, <2>1
    <2>4. ASSUME NEW p \in PhysRegs PROVE p \in freeRegs' \/ \E v \in active' : phys'[v] = p
      <3>1. CASE p \in freeRegs \/ \E v \in Expired(cur) : phys[v] = p
        BY <2>1, <2>2, <2>3, <3>1 DEF FreeAfterExpiry
      <3>2. CASE \E v \in active \ Expired(cur) : phys[v] = p
        BY <2>2, <2>3, <3>2
      <3> QED
        BY <3>1, <3>2 DEF PressureInv, NoneLost
    <2>5. NoneLost'
      BY <2>4 DEF NoneLost
    <2> QED
      BY <1>2, <2>2, <2>5 DEF PressureInv
  <1>5. ASSUME NEW victim \in active, SpillFurthest(cur, victim)
        PROVE  PressureInv'
    <2>1. /\ phys' = [phys EXCEPT ![cur] = phys[victim], ![victim] = NoReg]
          /\ spilled' = [spilled EXCEPT ![victim] = TRUE]
          /\ active' = (active \ {victim}) \cup {cur}
          /\ FreeAfterExpiry(cur) = {} /\ freeRegs' = freeRegs
      BY <1>5 DEF SpillFurthest
    <2>2. /\ victim \in VReg /\ victim # cur
          /\ phys'[cur] = phys[victim]
          /\ \A v \in active \ {victim} : phys'[v] = phys[v]
      BY <1>3, <2>1
    <2>3. ASSUME NEW p \in PhysRegs PROVE p \in freeRegs' \/ \E v \in active' : phys'[v] = p
      <3>1. p \in freeRegs \/ \E v \in active : phys[v] = p
        BY DEF PressureInv, NoneLost
      <3> QED
        BY <2>1, <2>2, <3>1
    <2>4. NoneLost'
      BY <2>3 DEF NoneLost
    <2>5. Pressed(victim)'
      BY <1>1, <2>1, FullAtCur DEF Pressed
    <2>6. \A v \in VReg : spilled'[v] => spilled[v] \/ v = victim
      BY <1>3, <2>1
    <2> QED
      BY <1>2, <2>4, <2>5, <2>6 DEF PressureInv
  <1>6. ASSUME NEW victim \in active, SpillCurrent(cur, victim)
        PROVE  PressureInv'
    <2>1. /\ spilled' = [spilled EXCEPT ![cur] = TRUE]
          /\ UNCHANGED <<phys, active, freeRegs>>
          /\ FreeAfterExpiry(cur) = {}
      BY <1>6 DEF SpillCurrent
    <2>2. NoneLost'
      BY <2>1 DEF PressureInv, NoneLost
    <2>3. Pressed(cur)'
      BY <1>1, FullAtCur, <2>1 DEF Pressed
    <2>4. \A v \in VReg : spilled'[v] => spilled[v] \/ v = cur
      BY <1>3, <2>1
    <2> QED
      BY <1>2, <2>2, <2>3, <2>4 DEF PressureInv
  <1> QED
    BY <1>4, <1>5, <1>6 DEF Visit

LEMMA InitPressure == Init => PressureInv
  BY DEF Init, InitAllocator, PressureInv

LEMMA NextPressure == IInv /\ PressureInv /\ [Next]_vars => PressureInv'
  <1> SUFFICES ASSUME IInv, PressureInv, [Next]_vars PROVE PressureInv'
    OBVIOUS
  <1>0. ASSUME UNCHANGED <<start, end>>
        PROVE  \A v \in VReg : Pressed(v) => Pressed(v)'
    BY <1>0 DEF Pressed, LiveAt, Known
  <1>1. CASE Allocate
    <2>1. CASE Head(blocks) = <<>>
      BY <1>0, <1>1, <2>1 DEF Allocate, PressureInv, NoneLost, scanVars
    <2>2. CASE Head(blocks) # <<>>
      BY <1>1, <2>2 DEF Allocate, PressureInv
    <2> QED
      BY <2>1, <2>2
  <1>2. CASE BuildIntervals
    BY <1>2 DEF BuildIntervals, PressureInv
  <1>3. CASE SpillAll
    BY <1>3 DEF SpillAll, PressureInv
  <1>4. CASE StartScan
    <2>1. /\ stage = "build" /\ stage' = "scan" /\ freeRegs' = PhysRegs
          /\ UNCHANGED scanVars
      BY <1>4 DEF StartScan
    <2> QED
      BY <2>1 DEF PressureInv, NoneLost, scanVars
  <1>5. ASSUME NEW cur \in VReg, Visit(cur) PROVE PressureInv'
    BY <1>5, VisitPressure
  <1>6. CASE Finish
    <2>1. stage' = "idle" /\ UNCHANGED <<forceSpillAll, start, end, spilled>>
      BY <1>6 DEF Finish, scanVars
    <2> QED
      BY <1>0, <2>1 DEF PressureInv
  <1>7. CASE UNCHANGED vars
    <2>1. UNCHANGED <<forceSpillAll, stage, start, end, spilled, phys, active, freeRegs>>
      BY <1>7 DEF vars, scanVars
    <2> QED
      BY <1>0, <2>1 DEF PressureInv, NoneLost
  <1> QED
    BY <1>1, <1>2, <1>3, <1>4, <1>5, <1>6, <1>7 DEF Next

(* Without forceSpillAll_, and for any block and number of registers, a    *)
(* value goes to its slot only if more values than registers were live at  *)
(* some instruction of its interval: expire() gives every register back,   *)
(* and a hand-over from a victim loses none.                               *)
THEOREM ScanSpillsOnlyUnderPressure == Spec => []ScanSpillsUnderPressure
  <1>1. PressureInv => ScanSpillsUnderPressure
    BY DEF PressureInv, ScanSpillsUnderPressure, SpillOnlyUnderPressure, Pressed
  <1>2. Init => IInv /\ PressureInv
    BY InitIInv, InitPressure
  <1>3. IInv /\ PressureInv /\ [Next]_vars => IInv' /\ PressureInv'
    BY NextIInv, NextPressure
  <1> QED
    BY <1>1, <1>2, <1>3, PTL DEF Spec
================================================================================
