------------------------------ MODULE EmitAsm_proofs ------------------------------
(***************************************************************************)
(* What the compiler of EmitAsm.tla prints: for every instruction of every *)
(* block, in order, its code and nothing else.  The first half computes    *)
(* the lines of an instruction, however many operands and arguments it     *)
(* has; the second shows that the loops over blocks and instructions leave *)
(* them in the text.                                                       *)
(*                                                                         *)
(* Two hypotheses.  Shipped: the allocator spills every interval, as       *)
(* forceSpillAll_ tells it.  RegisterArguments: calls pass their arguments *)
(* in registers; further ones the emitter drops.                           *)
(***************************************************************************)
EXTENDS EmitAsm, FiniteSetTheorems, TLAPS

Shipped == ForceSpillModes = {TRUE}

RegisterArguments ==
  \A p \in Programs : \A l \in Labels : \A k \in 1 .. Len(p[l]) :
    p[l][k].kind = "Call" => Len(p[l][k].args) <= Len(ArgRegs)

--------------------------------------------------------------------------------
(* Sequences.                                                              *)

(* s is a sequence of N elements.                                          *)
IsSeq(s, N) == N \in Nat /\ s = [i \in 1 .. N |-> s[i]]

LEMMA Lengths ==
  ASSUME NEW N, NEW s, IsSeq(s, N)
  PROVE  N \in Nat /\ Len(s) = N /\ DOMAIN s = 1 .. N
  <1> DEFINE S == {s[i] : i \in 1 .. N}
  <1>1. N \in Nat /\ s \in [1 .. N -> S] /\ DOMAIN s = 1 .. N
    BY DEF IsSeq
  <1>2. s \in Seq(S)
    BY <1>1
  <1> QED
    BY <1>1, <1>2

(* u is s followed by t.                                                   *)
IsJoin(u, s, M, t, N) ==
  /\ IsSeq(u, M + N)
  /\ \A i \in 1 .. M : u[i] = s[i]
  /\ \A i \in 1 .. N : u[M + i] = t[i]

(* Joining two sequences, whatever they hold.                              *)
LEMMA Joined ==
  ASSUME NEW M, NEW N, NEW s, NEW t, IsSeq(s, M), IsSeq(t, N)
  PROVE  IsJoin(s \o t, s, M, t, N)
  <1> DEFINE S == {s[i] : i \in 1 .. M} \cup {t[i] : i \in 1 .. N}
  <1>1. M \in Nat /\ N \in Nat /\ s \in [1 .. M -> S] /\ t \in [1 .. N -> S]
    BY DEF IsSeq
  <1> HIDE DEF S
  <1>2. s \in Seq(S) /\ t \in Seq(S)
    BY <1>1
  <1>3. Len(s) = M /\ Len(t) = N
    BY Lengths
  <1>4. s \o t \in Seq(S) /\ Len(s \o t) = M + N
    BY <1>1, <1>2, <1>3
  <1>5. IsSeq(s \o t, M + N)
    BY <1>1, <1>4 DEF IsSeq
  <1> QED
    BY <1>1, <1>2, <1>3, <1>5 DEF IsJoin

LEMMA SmallSequences ==
  /\ IsSeq(<<>>, 0)
  /\ \A x : IsSeq(<<x>>, 1) /\ (<<x>>)[1] = x
  BY DEF IsSeq

LEMMA SameSequence ==
  ASSUME NEW N, NEW s, NEW t, IsSeq(s, N), IsSeq(t, N),
         \A i \in 1 .. N : s[i] = t[i]
  PROVE  s = t
  BY DEF IsSeq

LEMMA EmptyJoined ==
  ASSUME NEW N, NEW s, IsSeq(s, N)
  PROVE  <<>> \o s = s /\ s \o <<>> = s
  <1>1. N \in Nat /\ 0 + N = N /\ N + 0 = N
    BY Lengths
  <1> DEFINE u == <<>> \o s
             v == s \o <<>>
  <1>2. IsJoin(u, <<>>, 0, s, N) /\ IsJoin(v, s, N, <<>>, 0)
    BY Joined, SmallSequences
  <1> HIDE DEF u, v
  <1>3. /\ IsSeq(u, N) /\ \A i \in 1 .. N : u[i] = s[i]
        /\ IsSeq(v, N) /\ \A i \in 1 .. N : v[i] = s[i]
    BY <1>1, <1>2 DEF IsJoin
  <1>4. u = s /\ v = s
    BY <1>3, SameSequence
  <1> QED
    BY <1>4 DEF u, v

--------------------------------------------------------------------------------
(* The lines of an instruction, when no value has a register.              *)

Code(vi) == EmitBody(vi, EmptyMap)

LEMMA NothingMapped ==
  /\ \A v \in VReg : EmptyMap[v] = NoReg
  /\ \A r : InSlot(r, EmptyMap) <=> r \in VReg
  /\ \A r, x : Loc(r, x, EmptyMap) = IF r \in VReg THEN x ELSE r
  /\ \A r, x : LoadIfSpilled(r, x, EmptyMap) =
                 IF r \in VReg THEN <<[op |-> "ldslot", rd |-> x, slot |-> r]>> ELSE <<>>
  /\ \A r, x : StoreIfSpilled(r, x, EmptyMap) =
                 IF r \in VReg THEN <<[op |-> "sdslot", rs |-> x, slot |-> r]>> ELSE <<>>
  <1>1. \A v \in VReg : EmptyMap[v] = NoReg
    BY DEF EmptyMap
  <1>2. \A r : InSlot(r, EmptyMap) <=> r \in VReg
    BY <1>1 DEF InSlot
  <1> QED
    BY <1>1, <1>2 DEF Loc, LoadIfSpilled, StoreIfSpilled

(* There is nothing to spill before a call or a branch.                    *)
LEMMA SpillsNothing ==
  SpillAllPhys(EmptyMap) = <<>>
  <1> DEFINE mapped == SetToSeq({v \in VReg : EmptyMap[v] # NoReg})
  <1>1. {v \in VReg : EmptyMap[v] # NoReg} = {}
    BY NothingMapped
  <1>2. Cardinality({}) = 0
    BY FS_EmptySet
  <1>3. <<>> \in [1 .. 0 -> {}] /\ IsInjective(<<>>)
    BY DEF IsInjective
  <1>4. mapped \in [1 .. 0 -> {}]
    BY <1>1, <1>2, <1>3 DEF SetToSeq
  <1>5. DOMAIN mapped = {}
    BY <1>4
  <1> HIDE DEF mapped
  <1>6. SpillAllPhys(EmptyMap) =
          [i \in DOMAIN mapped |->
             [op |-> "sdslot", rs |-> EmptyMap[mapped[i]], slot |-> mapped[i]]]
    BY DEF SpillAllPhys, mapped
  <1> QED
    BY <1>5, <1>6

LEMMA InstPrinted ==
  ASSUME NEW vi, NEW k, NEW N, IsSeq(Code(vi), N)
  PROVE  /\ IsSeq(EmitInst(vi, k, EmptyMap), N)
         /\ \A q \in 1 .. N : EmitInst(vi, k, EmptyMap)[q] =
                               [line |-> Code(vi)[q], inst |-> k, map |-> EmptyMap]
         /\ MapAfter(vi, EmptyMap) = EmptyMap
  <1> DEFINE s == Tagged(Code(vi), k, EmptyMap)
  <1>1. MapAfter(vi, EmptyMap) = EmptyMap
    BY DEF MapAfter
  <1>2. DOMAIN Code(vi) = 1 .. N /\ N \in Nat
    BY Lengths
  <1>3. s = [q \in 1 .. N |-> [line |-> Code(vi)[q], inst |-> k, map |-> EmptyMap]]
    BY <1>2 DEF Tagged
  <1>4. Tagged(SpillAllPhys(EmptyMap), k, EmptyMap) = <<>>
    BY SpillsNothing DEF Tagged
  <1>5. EmitInst(vi, k, EmptyMap) = <<>> \o s
    BY <1>1, <1>4 DEF EmitInst, Code
  <1>6. IsSeq(s, N)
    BY <1>2, <1>3 DEF IsSeq
  <1>7. \A q \in 1 .. N : s[q] = [line |-> Code(vi)[q], inst |-> k, map |-> EmptyMap]
    BY <1>3
  <1> HIDE DEF s
  <1>8. <<>> \o s = s
    BY <1>6, EmptyJoined
  <1> QED
    BY <1>1, <1>5, <1>6, <1>7, <1>8

(* An MC instruction reloads its operands, computes, and stores its        *)
(* result: First goes to X29, Second to X30.  (Zero where it has none.)    *)
First(vi) ==
  IF vi.opc \in ImmOps \cup RegOps THEN vi.ops[2]
  ELSE IF vi.opc \in StoreOps THEN vi.ops[1] ELSE Zero
Second(vi) ==
  IF vi.opc \in RegOps THEN vi.ops[3]
  ELSE IF vi.opc \in LoadOps \cup StoreOps THEN vi.ops[2] ELSE Zero

(* Where an operand is when the instruction computes.                      *)
At29(r) == IF r \in VReg THEN X29 ELSE r
At30(r) == IF r \in VReg THEN X30 ELSE r

Middle(vi) ==
  CASE vi.opc = "PseudoLA" -> [op |-> "la", rd |-> X29, sym |-> vi.sym]
    [] vi.opc \in ImmOps ->
         [op |-> "alui", opc |-> vi.opc, rd |-> X29, rs |-> At29(First(vi)),
          imm |-> vi.imm]
    [] vi.opc \in RegOps ->
         [op |-> "alu", opc |-> vi.opc, rd |-> X29, rs |-> At29(First(vi)),
          rt |-> At30(Second(vi))]
    [] vi.opc \in LoadOps ->
         [op |-> "load", opc |-> vi.opc, rd |-> X29, base |-> At30(Second(vi))]
    [] vi.opc \in StoreOps ->
         [op |-> "store", opc |-> vi.opc, rs |-> At29(First(vi)),
          base |-> At30(Second(vi))]

Reloads(r) == IF r \in VReg THEN 1 ELSE 0
CoreAt(vi) == Reloads(First(vi)) + Reloads(Second(vi)) + 1
MCLength(vi) == CoreAt(vi) + (IF vi.opc \in StoreOps THEN 0 ELSE 1)

MCLine(vi, q) ==
  IF q <= Reloads(First(vi)) THEN [op |-> "ldslot", rd |-> X29, slot |-> First(vi)]
  ELSE IF q < CoreAt(vi) THEN [op |-> "ldslot", rd |-> X30, slot |-> Second(vi)]
  ELSE IF q = CoreAt(vi) THEN Middle(vi)
  ELSE [op |-> "sdslot", rs |-> X29, slot |-> vi.ops[1]]

LEMMA ReloadLines ==
  ASSUME NEW r, NEW x
  PROVE  LET s == LoadIfSpilled(r, x, EmptyMap)
         IN /\ IsSeq(s, Reloads(r))
            /\ \A i \in 1 .. Reloads(r) : s[i] = [op |-> "ldslot", rd |-> x, slot |-> r]
            /\ r = Zero => s = <<>>
  <1>0. Zero \notin VReg
    BY EmitAsmAssumption
  <1> DEFINE s == LoadIfSpilled(r, x, EmptyMap)
             line == [op |-> "ldslot", rd |-> x, slot |-> r]
  <1>1. CASE r \in VReg
    <2>1. s = <<line>> /\ Reloads(r) = 1 /\ r # Zero
      BY <1>0, <1>1, NothingMapped DEF Reloads
    <2> HIDE DEF s, line
    <2>2. IsSeq(s, 1) /\ s[1] = line
      BY <2>1, SmallSequences
    <2> QED
      BY <2>1, <2>2 DEF s, line
  <1>2. CASE r \notin VReg
    <2>1. s = <<>> /\ Reloads(r) = 0
      BY <1>2, NothingMapped DEF Reloads
    <2> HIDE DEF s
    <2>2. IsSeq(s, 0)
      BY <2>1, SmallSequences
    <2> QED
      BY <2>1, <2>2 DEF s
  <1> QED
    BY <1>1, <1>2

(* The kinds of operands an MC instruction has.                            *)
LEMMA MCOperands ==
  ASSUME NEW vi \in VInst, vi.kind = "MC"
  PROVE  /\ vi.opc \in ImmOps \cup RegOps \cup LoadOps \cup StoreOps \cup {"PseudoLA"}
         /\ First(vi) \in Operand /\ Second(vi) \in Operand
         /\ vi.opc \notin StoreOps => vi.ops[1] \in VReg
  <1>1. CASE vi \in [kind : {"MC"}, opc : ImmOps, ops : VReg \X Operand, imm : Int]
    BY <1>1 DEF First, Second, Operand, ImmOps, RegOps, LoadOps, StoreOps
  <1>2. CASE vi \in [kind : {"MC"}, opc : RegOps, ops : VReg \X Operand \X Operand]
    BY <1>2 DEF First, Second, Operand, ImmOps, RegOps, LoadOps, StoreOps
  <1>3. CASE vi \in [kind : {"MC"}, opc : LoadOps, ops : VReg \X Operand]
    BY <1>3 DEF First, Second, Operand, ImmOps, RegOps, LoadOps, StoreOps
  <1>4. CASE vi \in [kind : {"MC"}, opc : StoreOps, ops : Operand \X Operand]
    BY <1>4 DEF First, Second, Operand, ImmOps, RegOps, LoadOps, StoreOps
  <1>5. CASE vi \in [kind : {"MC"}, opc : {"PseudoLA"}, ops : [{1} -> VReg], sym : Sym]
    BY <1>5 DEF First, Second, Operand, ImmOps, RegOps, LoadOps, StoreOps
  <1> QED
    BY <1>1, <1>2, <1>3, <1>4, <1>5 DEF VInst

LEMMA MCUniform ==
  ASSUME NEW vi \in VInst, vi.kind = "MC"
  PROVE  Code(vi) = ((LoadIfSpilled(First(vi), X29, EmptyMap)
                        \o LoadIfSpilled(Second(vi), X30, EmptyMap))
                       \o <<Middle(vi)>>)
                      \o (IF vi.opc \in StoreOps THEN <<>>
                          ELSE <<[op |-> "sdslot", rs |-> X29, slot |-> vi.ops[1]]>>)
  <1>0. Code(vi) = EmitMCInst(vi, EmptyMap)
    BY DEF Code, EmitBody
  <1> DEFINE F == LoadIfSpilled(First(vi), X29, EmptyMap)
             S == LoadIfSpilled(Second(vi), X30, EmptyMap)
             T == <<[op |-> "sdslot", rs |-> X29, slot |-> vi.ops[1]]>>
  <1>1. /\ \A r : Loc(r, X29, EmptyMap) = At29(r) /\ Loc(r, X30, EmptyMap) = At30(r)
        /\ vi.opc \notin StoreOps => StoreIfSpilled(vi.ops[1], X29, EmptyMap) = T
        /\ vi.opc \notin StoreOps => At29(vi.ops[1]) = X29
    BY NothingMapped, MCOperands DEF At29, At30
  <1>2. <<>> \o <<Middle(vi)>> = <<Middle(vi)>> /\ <<>> \o <<>> = <<>>
    BY EmptyJoined, SmallSequences
  <1>3. /\ F \o <<>> = F /\ <<>> \o S = S
        /\ (F \o S) \o <<Middle(vi)>> = ((F \o S) \o <<Middle(vi)>>) \o <<>>
    <2> DEFINE m == Reloads(First(vi))
               n == Reloads(Second(vi))
               FS == F \o S
               FSM == FS \o <<Middle(vi)>>
    <2>1. IsSeq(F, m) /\ IsSeq(S, n)
      BY ReloadLines
    <2> HIDE DEF F, S, m, n
    <2>2. F \o <<>> = F /\ <<>> \o S = S
      BY <2>1, EmptyJoined
    <2>3. IsSeq(FS, m + n)
      BY <2>1, Joined DEF IsJoin
    <2> HIDE DEF FS
    <2>4. IsSeq(FSM, (m + n) + 1)
      BY <2>3, Joined, SmallSequences DEF IsJoin
    <2> HIDE DEF FSM
    <2>5. FSM \o <<>> = FSM
      BY <2>4, EmptyJoined
    <2> QED
      BY <2>2, <2>5 DEF FSM, FS
  <1>4. Zero \notin VReg /\ (First(vi) = Zero => F = <<>>) /\ (Second(vi) = Zero => S = <<>>)
    BY ReloadLines, EmitAsmAssumption
  <1> HIDE DEF F, S, T
  <1>5. CASE vi.opc = "PseudoLA"
    <2>1. First(vi) = Zero /\ Second(vi) = Zero
      BY <1>5 DEF First, Second, ImmOps, RegOps, LoadOps, StoreOps
    <2>2. EmitMCInst(vi, EmptyMap) = <<Middle(vi)>> \o T
      BY <1>1, <1>5 DEF EmitMCInst, Middle, ImmOps, RegOps, LoadOps, StoreOps, F, S
    <2> QED
      BY <1>0, <1>2, <1>4, <1>5, <2>1, <2>2 DEF StoreOps, F, S, T
  <1>6. CASE vi.opc \in ImmOps
    <2>1. First(vi) = vi.ops[2] /\ Second(vi) = Zero
      BY <1>6 DEF First, Second, ImmOps, RegOps, LoadOps, StoreOps
    <2>2. EmitMCInst(vi, EmptyMap) = (F \o <<Middle(vi)>>) \o T
      BY <1>1, <1>6, <2>1 DEF EmitMCInst, Middle, ImmOps, RegOps, LoadOps, StoreOps, F, S
    <2> QED
      BY <1>0, <1>3, <1>4, <1>6, <2>1, <2>2 DEF StoreOps, ImmOps, F, S, T
  <1>7. CASE vi.opc \in RegOps
    <2>1. First(vi) = vi.ops[2] /\ Second(vi) = vi.ops[3]
      BY <1>7 DEF First, Second, RegOps
    <2>2. EmitMCInst(vi, EmptyMap) = ((F \o S) \o <<Middle(vi)>>) \o T
      BY <1>1, <1>7, <2>1 DEF EmitMCInst, Middle, ImmOps, RegOps, LoadOps, StoreOps, F, S
    <2> QED
      BY <1>0, <1>7, <2>2 DEF StoreOps, RegOps, F, S, T
  <1>8. CASE vi.opc \in LoadOps
    <2>1. First(vi) = Zero /\ Second(vi) = vi.ops[2]
      BY <1>8 DEF First, Second, ImmOps, RegOps, LoadOps, StoreOps
    <2>2. EmitMCInst(vi, EmptyMap) = (S \o <<Middle(vi)>>) \o T
      BY <1>1, <1>8, <2>1 DEF EmitMCInst, Middle, ImmOps, RegOps, LoadOps, StoreOps, F, S
    <2> QED
      BY <1>0, <1>3, <1>4, <1>8, <2>1, <2>2 DEF StoreOps, LoadOps, F, S, T
  <1>9. CASE vi.opc \in StoreOps
    <2>1. First(vi) = vi.ops[1] /\ Second(vi) = vi.ops[2]
      BY <1>9 DEF First, Second, ImmOps, RegOps, LoadOps, StoreOps
    <2>2. EmitMCInst(vi, EmptyMap) = (F \o S) \o <<Middle(vi)>>
      BY <1>1, <1>9, <2>1 DEF EmitMCInst, Middle, ImmOps, RegOps, LoadOps, StoreOps, F, S
    <2> QED
      BY <1>0, <1>3, <1>9, <2>2 DEF F, S, T
  <1> QED
    BY <1>5, <1>6, <1>7, <1>8, <1>9, MCOperands

LEMMA MCCode ==
  ASSUME NEW vi \in VInst, vi.kind = "MC"
  PROVE  /\ CoreAt(vi) \in 1 .. 3
         /\ IsSeq(Code(vi), MCLength(vi))
         /\ \A q \in 1 .. MCLength(vi) : Code(vi)[q] = MCLine(vi, q)
  <1> DEFINE F == LoadIfSpilled(First(vi), X29, EmptyMap)
             S == LoadIfSpilled(Second(vi), X30, EmptyMap)
             T == IF vi.opc \in StoreOps THEN <<>>
                  ELSE <<[op |-> "sdslot", rs |-> X29, slot |-> vi.ops[1]]>>
             m == Reloads(First(vi))
             n == Reloads(Second(vi))
             t == IF vi.opc \in StoreOps THEN 0 ELSE 1
             FS == F \o S
             FSM == FS \o <<Middle(vi)>>
             all == FSM \o T
  <1>1. m \in 0 .. 1 /\ n \in 0 .. 1 /\ t \in 0 .. 1
    BY DEF Reloads
  <1>2. /\ IsSeq(F, m)
        /\ \A i \in 1 .. m : F[i] = [op |-> "ldslot", rd |-> X29, slot |-> First(vi)]
        /\ IsSeq(S, n)
        /\ \A i \in 1 .. n : S[i] = [op |-> "ldslot", rd |-> X30, slot |-> Second(vi)]
    BY ReloadLines
  <1>3. /\ IsSeq(T, t)
        /\ \A i \in 1 .. t : T[i] = [op |-> "sdslot", rs |-> X29, slot |-> vi.ops[1]]
    BY SmallSequences
  <1>4. CoreAt(vi) = m + n + 1 /\ MCLength(vi) = m + n + 1 + t
    BY DEF CoreAt, MCLength
  <1>5. Code(vi) = all
    BY MCUniform
  <1>6. \A q : MCLine(vi, q) =
               IF q <= m THEN [op |-> "ldslot", rd |-> X29, slot |-> First(vi)]
               ELSE IF q < m + n + 1
               THEN [op |-> "ldslot", rd |-> X30, slot |-> Second(vi)]
               ELSE IF q = m + n + 1 THEN Middle(vi)
               ELSE [op |-> "sdslot", rs |-> X29, slot |-> vi.ops[1]]
    BY <1>4 DEF MCLine
  <1> HIDE DEF F, S, T, m, n, t
  <1>7. IsJoin(FS, F, m, S, n)
    BY <1>2, Joined
  <1> HIDE DEF FS
  <1>8. IsJoin(FSM, FS, m + n, <<Middle(vi)>>, 1)
    <2>1. IsSeq(FS, m + n)
      BY <1>7 DEF IsJoin
    <2> QED
      BY <2>1, Joined, SmallSequences
  <1> HIDE DEF FSM
  <1>9. IsJoin(all, FSM, (m + n) + 1, T, t)
    <2>1. IsSeq(FSM, (m + n) + 1)
      BY <1>8 DEF IsJoin
    <2> QED
      BY <1>3, <2>1, Joined
  <1> HIDE DEF all
  <1>11. /\ \A i \in 1 .. m : all[i] = F[i]
         /\ \A i \in 1 .. n : all[m + i] = S[i]
         /\ all[m + n + 1] = Middle(vi)
         /\ \A i \in 1 .. t : all[m + n + 1 + i] = T[i]
    BY <1>1, <1>7, <1>8, <1>9, SmallSequences DEF IsJoin
  <1>10. \A q \in 1 .. m + n + 1 + t : all[q] = MCLine(vi, q)
    <2> SUFFICES ASSUME NEW q \in 1 .. m + n + 1 + t PROVE all[q] = MCLine(vi, q)
      OBVIOUS
    <2>1. CASE q <= m
      BY <1>1, <1>2, <1>6, <1>11, <2>1
    <2>2. CASE m < q /\ q < m + n + 1
      <3>1. q - m \in 1 .. n /\ q = m + (q - m)
        BY <1>1, <2>2
      <3>2. all[q] = S[q - m]
        BY <1>11, <3>1
      <3> QED
        BY <1>1, <1>2, <1>6, <2>2, <3>1, <3>2
    <2>3. CASE q = m + n + 1
      BY <1>1, <1>6, <1>11, <2>3
    <2>4. CASE m + n + 1 < q
      <3>1. q = m + n + 1 + 1 /\ 1 \in 1 .. t
        BY <1>1, <2>4
      <3> QED
        BY <1>1, <1>3, <1>6, <1>11, <2>4, <3>1
    <2> QED
      BY <1>1, <2>1, <2>2, <2>3, <2>4
  <1> QED
    BY <1>1, <1>4, <1>5, <1>9, <1>10 DEF IsJoin

(* The other kinds.                                                        *)
InRegisters(vi) == vi.kind = "Call" => Len(vi.args) <= Len(ArgRegs)

CallLength(vi) == 2 * Len(vi.args) + 1 + (IF vi.ret = NoReg THEN 0 ELSE 1)

CallCodeIs(c, vi) ==
  /\ IsSeq(c, CallLength(vi))
  /\ \A i \in 1 .. Len(vi.args) :
       /\ c[2 * i - 1] = [op |-> "ldslot", rd |-> X29, slot |-> vi.args[i]]
       /\ c[2 * i] = [op |-> "mv", rd |-> ArgRegs[i], rs |-> X29]
  /\ c[2 * Len(vi.args) + 1] =
       [op |-> "call", sym |-> vi.sym, nargs |-> Len(vi.args)]
  /\ vi.ret # NoReg =>
       c[2 * Len(vi.args) + 2] = [op |-> "sdslot", rs |-> A0, slot |-> vi.ret]

LEMMA CallOperands ==
  ASSUME NEW vi \in VInst, vi.kind = "Call"
  PROVE  vi.args \in Seq(VReg) /\ vi.ret \in VReg \cup {NoReg}
  BY DEF VInst

LEMMA TwoElements ==
  ASSUME NEW x, NEW y
  PROVE  /\ IsSeq(<<x>> \o <<y>>, 2)
         /\ (<<x>> \o <<y>>)[1] = x /\ (<<x>> \o <<y>>)[2] = y
  <1> DEFINE u == <<x>> \o <<y>>
  <1>1. IsJoin(u, <<x>>, 1, <<y>>, 1)
    BY Joined, SmallSequences
  <1> HIDE DEF u
  <1>2. IsSeq(u, 2) /\ u[1] = x /\ u[2] = y
    BY <1>1, SmallSequences DEF IsJoin
  <1> QED
    BY <1>2 DEF u

LEMMA MoveLines ==
  ASSUME NEW args \in Seq(VReg), NEW i \in 1 .. Len(args)
  PROVE  /\ MoveArg(args, i)[1] = [op |-> "ldslot", rd |-> X29, slot |-> args[i]]
         /\ MoveArg(args, i)[2] = [op |-> "mv", rd |-> ArgRegs[i], rs |-> X29]
  <1>1. args[i] \in VReg
    OBVIOUS
  <1>2. MoveArg(args, i) = <<[op |-> "ldslot", rd |-> X29, slot |-> args[i]]>>
                             \o <<[op |-> "mv", rd |-> ArgRegs[i], rs |-> X29]>>
    BY <1>1, NothingMapped DEF MoveArg
  <1> QED
    BY <1>2, TwoElements

LEMMA CallCode ==
  ASSUME NEW vi \in VInst, vi.kind = "Call", InRegisters(vi)
  PROVE  CallCodeIs(Code(vi), vi)
  <1> DEFINE n == Len(vi.args)
             t == IF vi.ret = NoReg THEN 0 ELSE 1
             M == MoveArgs(vi.args)
             c == <<[op |-> "call", sym |-> vi.sym, nargs |-> Len(vi.args)]>>
             T == StoreIfSpilled(vi.ret, A0, EmptyMap)
             Mc == M \o c
             all == Mc \o T
  <1>1. vi.args \in Seq(VReg) /\ n \in Nat /\ vi.ret \in VReg \cup {NoReg}
    BY CallOperands
  <1>2. n <= Len(ArgRegs) /\ Len(ArgRegs) \in Nat
    BY EmitAsmAssumption DEF InRegisters
  <1>3. M = [q \in 1 .. 2 * n |-> MoveArg(vi.args, (q + 1) \div 2)[2 - (q % 2)]]
    BY <1>1, <1>2 DEF MoveArgs
  <1>4. /\ IsSeq(M, 2 * n)
        /\ \A i \in 1 .. n :
             /\ M[2 * i - 1] = [op |-> "ldslot", rd |-> X29, slot |-> vi.args[i]]
             /\ M[2 * i] = [op |-> "mv", rd |-> ArgRegs[i], rs |-> X29]
    <2>1. IsSeq(M, 2 * n)
      BY <1>1, <1>3 DEF IsSeq
    <2>2. \A q \in 1 .. 2 * n : M[q] = MoveArg(vi.args, (q + 1) \div 2)[2 - (q % 2)]
      BY <1>3
    <2> HIDE DEF M, n
    <2> SUFFICES ASSUME NEW i \in 1 .. n
                 PROVE  /\ M[2 * i - 1] = MoveArg(vi.args, i)[1]
                        /\ M[2 * i] = MoveArg(vi.args, i)[2]
      BY <1>1, <2>1, MoveLines DEF n
    <2>3. /\ 2 * i - 1 \in 1 .. 2 * n /\ 2 * i \in 1 .. 2 * n
          /\ (2 * i - 1 + 1) \div 2 = i /\ 2 - ((2 * i - 1) % 2) = 1
          /\ (2 * i + 1) \div 2 = i /\ 2 - ((2 * i) % 2) = 2
      BY <1>1
    <2> QED
      BY <2>2, <2>3
  <1>5. /\ IsSeq(T, t)
        /\ t = 1 => T[1] = [op |-> "sdslot", rs |-> A0, slot |-> vi.ret]
        /\ t \in 0 .. 1 /\ (t = 1 <=> vi.ret # NoReg)
    <2>1. CASE vi.ret = NoReg
      BY <2>1, NothingMapped, NoRegAssumption, SmallSequences
    <2>2. CASE vi.ret # NoReg
      BY <1>1, <2>2, NothingMapped, SmallSequences
    <2> QED
      BY <2>1, <2>2
  <1>6. Code(vi) = all /\ CallLength(vi) = 2 * n + 1 + t
    BY DEF Code, EmitBody, EmitCall, CallLength
  <1>7. c[1] = [op |-> "call", sym |-> vi.sym, nargs |-> Len(vi.args)] /\ IsSeq(c, 1)
    BY SmallSequences
  <1> HIDE DEF M, T, c
  <1>8. IsJoin(Mc, M, 2 * n, c, 1)
    BY <1>4, <1>7, Joined
  <1>9. IsSeq(Mc, 2 * n + 1)
    BY <1>8 DEF IsJoin
  <1> HIDE DEF Mc
  <1>10. IsJoin(all, Mc, 2 * n + 1, T, t)
    BY <1>5, <1>9, Joined
  <1> HIDE DEF all, n, t
  <1>11. /\ IsSeq(all, 2 * n + 1 + t)
         /\ \A i \in 1 .. 2 * n : all[i] = M[i]
         /\ all[2 * n + 1] = c[1]
         /\ t = 1 => all[2 * n + 2] = T[1]
    BY <1>1, <1>5, <1>8, <1>10 DEF IsJoin
  <1>12. \A i \in 1 .. n : /\ all[2 * i - 1] = M[2 * i - 1]
                           /\ all[2 * i] = M[2 * i]
    BY <1>1, <1>11
  <1> QED
    BY <1>4, <1>5, <1>6, <1>7, <1>11, <1>12 DEF CallCodeIs, n

LEMMA RetOperand ==
  ASSUME NEW vi \in VInst, vi.kind = "Ret"
  PROVE  vi.ret \in VReg \cup {NoReg}
  <1>1. vi \in [kind : {"Ret"}, ret : VReg \cup {NoReg}]
    BY DEF VInst
  <1> QED
    BY <1>1

LEMMA RetCode ==
  ASSUME NEW vi, vi.kind = "Ret"
  PROVE  /\ vi.ret = NoReg => /\ IsSeq(Code(vi), 1)
                              /\ Code(vi)[1] = [op |-> "ret", hasRet |-> FALSE]
         /\ vi.ret \in VReg =>
              /\ IsSeq(Code(vi), 2)
              /\ Code(vi)[1] = [op |-> "ldslot", rd |-> A0, slot |-> vi.ret]
              /\ Code(vi)[2] = [op |-> "ret", hasRet |-> TRUE]
  <1>1. Code(vi) = EmitRet(vi, EmptyMap)
    BY DEF Code, EmitBody
  <1>2. CASE vi.ret = NoReg
    BY <1>1, <1>2, NoRegAssumption, SmallSequences DEF EmitRet
  <1>3. CASE vi.ret \in VReg
    <2>1. Code(vi) = <<[op |-> "ldslot", rd |-> A0, slot |-> vi.ret]>>
                       \o <<[op |-> "ret", hasRet |-> TRUE]>>
      <3>1. vi.ret # NoReg /\ EmptyMap[vi.ret] = NoReg
        BY <1>3, NothingMapped, NoRegAssumption
      <3>2. (IF EmptyMap[vi.ret] = NoReg
               THEN <<[op |-> "ldslot", rd |-> A0, slot |-> vi.ret]>>
               ELSE <<[op |-> "mv", rd |-> A0, rs |-> EmptyMap[vi.ret]]>>)
              = <<[op |-> "ldslot", rd |-> A0, slot |-> vi.ret]>>
        BY <3>1
      <3> QED
        BY <1>1, <3>1, <3>2, Zenon DEF EmitRet
    <2>2. /\ IsSeq(Code(vi), 2)
          /\ Code(vi)[1] = [op |-> "ldslot", rd |-> A0, slot |-> vi.ret]
          /\ Code(vi)[2] = [op |-> "ret", hasRet |-> TRUE]
      <3> DEFINE x == [op |-> "ldslot", rd |-> A0, slot |-> vi.ret]
                 y == [op |-> "ret", hasRet |-> TRUE]
      <3>1. Code(vi) = <<x>> \o <<y>>
        BY <2>1
      <3> HIDE DEF x, y
      <3>2. IsSeq(Code(vi), 2) /\ Code(vi)[1] = x /\ Code(vi)[2] = y
        BY <3>1, TwoElements
      <3> QED
        BY <3>2 DEF x, y
    <2> QED
      BY <1>3, <2>2, NoRegAssumption
  <1> QED
    BY <1>2, <1>3

LEMMA BranchCode ==
  ASSUME NEW vi, vi.kind = "BrCond", vi.cond \in VReg
  PROVE  /\ IsSeq(Code(vi), 2)
         /\ Code(vi)[1] = [op |-> "ldslot", rd |-> X29, slot |-> vi.cond]
         /\ Code(vi)[2] = [op |-> IF vi.onZero THEN "beqz" ELSE "bnez",
                           rs |-> X29, sym |-> vi.sym]
  <1>1. Code(vi) = <<[op |-> "ldslot", rd |-> X29, slot |-> vi.cond]>>
                     \o <<[op |-> IF vi.onZero THEN "beqz" ELSE "bnez",
                           rs |-> X29, sym |-> vi.sym]>>
    BY NothingMapped DEF Code, EmitBody, EmitBranchCond
  <1> QED
    BY <1>1, TwoElements

LEMMA JumpCode ==
  ASSUME NEW vi, vi.kind = "BrUncond"
  PROVE  IsSeq(Code(vi), 1) /\ Code(vi)[1] = [op |-> "j", sym |-> vi.sym]
  <1>1. Code(vi) = <<[op |-> "j", sym |-> vi.sym]>>
    BY DEF Code, EmitBody
  <1> QED
    BY <1>1, SmallSequences

(* Every instruction of a compiled function has lines.                     *)
LEMMA CodeFacts ==
  ASSUME NEW vi \in VInst, InRegisters(vi)
  PROVE  IsSeq(Code(vi), Len(Code(vi))) /\ Len(Code(vi)) \in Nat \ {0}
  <1> SUFFICES \E N \in Nat \ {0} : IsSeq(Code(vi), N)
    BY Lengths
  <1>1. CASE vi.kind = "MC"
    <2>1. CoreAt(vi) \in 1 .. 3 /\ IsSeq(Code(vi), MCLength(vi))
      BY <1>1, MCCode
    <2>2. MCLength(vi) \in Nat \ {0}
      BY <2>1 DEF MCLength
    <2> QED
      BY <2>1, <2>2
  <1>2. CASE vi.kind = "Call"
    <2>1. IsSeq(Code(vi), CallLength(vi)) /\ vi.args \in Seq(VReg)
      BY <1>2, CallCode, CallOperands DEF CallCodeIs
    <2>2. CallLength(vi) \in Nat \ {0}
      <3> DEFINE n == Len(vi.args)
                 t == IF vi.ret = NoReg THEN 0 ELSE 1
      <3>1. n \in Nat /\ t \in 0 .. 1 /\ CallLength(vi) = 2 * n + 1 + t
        BY <2>1 DEF CallLength
      <3> HIDE DEF n, t
      <3> QED
        BY <3>1
    <2> QED
      BY <2>1, <2>2
  <1>3. CASE vi.kind = "Ret"
    <2>1. vi.ret \in VReg \cup {NoReg}
      BY <1>3, RetOperand
    <2>2. IsSeq(Code(vi), 1) \/ IsSeq(Code(vi), 2)
      BY <1>3, <2>1, RetCode
    <2> QED
      BY <2>2
  <1>4. CASE vi.kind = "BrCond"
    <2>1. vi.cond \in VReg
      BY <1>4 DEF VInst
    <2>2. IsSeq(Code(vi), 2)
      BY <1>4, <2>1, BranchCode
    <2> QED
      BY <2>2
  <1>5. CASE vi.kind = "BrUncond"
    <2>1. IsSeq(Code(vi), 1)
      BY <1>5, JumpCode
    <2> QED
      BY <2>1
  <1> QED
    BY <1>1, <1>2, <1>3, <1>4, <1>5 DEF VInst

--------------------------------------------------------------------------------
(* The text.                                                               *)

TextLine(vi, q, k) == [line |-> Code(vi)[q], inst |-> k, map |-> EmptyMap]

(* t is what the first n instructions of block b print, with the lines of  *)
(* the k-th behind st[k].                                                  *)
PrintedAt(t, b, n, st) ==
  /\ st \in [1 .. n + 1 -> Nat] /\ st[1] = 0
  /\ IsSeq(t, st[n + 1])
  /\ \A k \in 1 .. n :
       /\ st[k + 1] = st[k] + Len(Code(b[k])) /\ st[k + 1] <= st[n + 1]
       /\ \A q \in 1 .. Len(Code(b[k])) : t[st[k] + q] = TextLine(b[k], q, k)

Printed(t, b, n) == \E st : PrintedAt(t, b, n, st)

LEMMA NothingPrinted ==
  ASSUME NEW b
  PROVE  Printed(<<>>, b, 0)
  <1> DEFINE st == [k \in 1 .. 1 |-> 0]
  <1>1. st \in [1 .. 0 + 1 -> Nat] /\ st[1] = 0 /\ st[0 + 1] = 0
    OBVIOUS
  <1> HIDE DEF st
  <1>2. PrintedAt(<<>>, b, 0, st)
    BY <1>1, SmallSequences DEF PrintedAt
  <1> QED
    BY <1>2 DEF Printed

LEMMA NextPrinted ==
  ASSUME NEW t, NEW b \in Seq(VInst), NEW n \in 0 .. Len(b), n # Len(b),
         InRegisters(b[n + 1]), Printed(t, b, n),
         \A k \in 1 .. Len(b) : InRegisters(b[k])
  PROVE  Printed(t \o EmitInst(b[n + 1], n + 1, EmptyMap), b, n + 1)
  <1> DEFINE vi == b[n + 1]
             m == Len(Code(vi))
             e == EmitInst(vi, n + 1, EmptyMap)
             u == t \o e
  <1>1. PICK st : PrintedAt(t, b, n, st)
    BY DEF Printed
  <1>2. n \in Nat /\ n + 1 \in 1 .. Len(b) /\ vi \in VInst /\ Len(b) \in Nat
    OBVIOUS
  <1>3. IsSeq(Code(vi), m) /\ m \in Nat \ {0}
    BY <1>2, CodeFacts
  <1>4. IsSeq(e, m) /\ \A q \in 1 .. m : e[q] = TextLine(vi, q, n + 1)
    BY <1>3, InstPrinted DEF TextLine
  <1>5. st \in [1 .. n + 1 -> Nat] /\ st[1] = 0 /\ st[n + 1] \in Nat /\ IsSeq(t, st[n + 1])
    BY <1>1, <1>2 DEF PrintedAt
  <1> HIDE DEF e, m
  <1>6. IsJoin(u, t, st[n + 1], e, m)
    BY <1>4, <1>5, Joined
  <1> HIDE DEF u
  <1> DEFINE st2 == [k \in 1 .. (n + 1) + 1 |-> IF k = n + 2 THEN st[n + 1] + m ELSE st[k]]
  <1>7. /\ st2 \in [1 .. (n + 1) + 1 -> Nat] /\ st2[1] = 0
        /\ st2[(n + 1) + 1] = st[n + 1] + m
        /\ \A k \in 1 .. n + 1 : st2[k] = st[k]
    BY <1>2, <1>3, <1>5
  <1> HIDE DEF st2
  <1>8. IsSeq(u, st2[(n + 1) + 1])
    BY <1>6, <1>7 DEF IsJoin
  <1>9. ASSUME NEW k \in 1 .. n + 1
        PROVE  /\ st2[k + 1] = st2[k] + Len(Code(b[k])) /\ st2[k + 1] <= st2[(n + 1) + 1]
               /\ \A q \in 1 .. Len(Code(b[k])) : u[st2[k] + q] = TextLine(b[k], q, k)
    <2>1. CASE k = n + 1
      <3>1. st2[k] = st[n + 1] /\ st2[k + 1] = st[n + 1] + m /\ b[k] = vi
        BY <1>2, <1>7, <2>1
      <3>2. \A q \in 1 .. m : u[st[n + 1] + q] = e[q]
        BY <1>6 DEF IsJoin
      <3> QED
        BY <1>2, <1>3, <1>4, <1>5, <1>7, <2>1, <3>1, <3>2 DEF m
    <2>2. CASE k \in 1 .. n
      <3>1. /\ st[k + 1] = st[k] + Len(Code(b[k])) /\ st[k + 1] <= st[n + 1]
            /\ \A q \in 1 .. Len(Code(b[k])) : t[st[k] + q] = TextLine(b[k], q, k)
        BY <1>1, <2>2 DEF PrintedAt
      <3>2. k \in 1 .. n + 1 /\ k + 1 \in 1 .. n + 1 /\ st[k] \in Nat /\ st[k + 1] \in Nat
        BY <1>2, <1>5, <2>2
      <3>3. st2[k] = st[k] /\ st2[k + 1] = st[k + 1]
        BY <1>7, <3>2
      <3>4. Len(Code(b[k])) \in Nat
        BY <1>2, CodeFacts, <2>2
      <3>5. \A q \in 1 .. Len(Code(b[k])) : u[st[k] + q] = t[st[k] + q]
        <4> TAKE q \in 1 .. Len(Code(b[k]))
        <4>1. PICK len \in Nat : len = Len(Code(b[k])) /\ st[k] + len <= st[n + 1]
          BY <3>1, <3>4
        <4>2. q \in 1 .. len /\ st[k] \in Nat /\ st[n + 1] \in Nat
          BY <1>5, <3>2, <4>1
        <4>3. st[k] + q \in 1 .. st[n + 1]
          BY <4>1, <4>2
        <4> QED
          BY <1>6, <4>3 DEF IsJoin
      <3>6. st2[k + 1] <= st2[(n + 1) + 1]
        BY <1>3, <1>5, <1>7, <3>1, <3>2, <3>3
      <3>7. \A q \in 1 .. Len(Code(b[k])) : u[st2[k] + q] = TextLine(b[k], q, k)
        BY <3>1, <3>3, <3>5
      <3> QED
        BY <3>1, <3>3, <3>6, <3>7
    <2> QED
      BY <1>2, <1>9, <2>1, <2>2
  <1>10. PrintedAt(u, b, n + 1, st2)
    BY <1>7, <1>8, <1>9 DEF PrintedAt
  <1> QED
    BY <1>10 DEF Printed, u, e

--------------------------------------------------------------------------------
(* Compiling.                                                              *)

(* How many instructions of the i-th block have been printed.              *)
Emitted(i) ==
  IF i < curBB THEN Len(program[Layout[i]])
  ELSE IF i > curBB \/ phase = "alloc" THEN 0
  ELSE IF phase = "emit" THEN emitIdx - 1 ELSE Len(program[Layout[i]])

(* The allocator is never in its scan and its map stays empty; what is     *)
(* left in blocks is what Layout has behind curBB.                         *)
Allocated ==
  /\ forceSpillAll = TRUE /\ physMap = EmptyMap /\ emitMap = EmptyMap
  /\ stage = IF phase = "alloc" THEN "build" ELSE "idle"

Position ==
  /\ phase \in {"block", "alloc", "emit", "run"}
  /\ curBB \in 0 .. Len(Layout)
  /\ blocks \in Seq(Seq(VInst)) /\ Len(blocks) = Len(Layout) - curBB
  /\ \A i \in 1 .. Len(blocks) : blocks[i] = program[Layout[curBB + i]]
  /\ phase \in {"alloc", "emit"} => curBB # 0 /\ insts = program[Layout[curBB]]
  /\ phase = "emit" => emitIdx \in 1 .. Len(insts) + 1
  /\ phase = "run" => curBB = Len(Layout)

TextInv ==
  /\ text = [l \in Labels |-> text[l]]
  /\ \A i \in 1 .. Len(Layout) : Printed(text[Layout[i]], program[Layout[i]], Emitted(i))

CompileInv == program \in Programs /\ Allocated /\ Position /\ TextInv

(* The blocks of a function.                                               *)
LEMMA LayoutFacts ==
  /\ Len(Layout) \in Nat /\ DOMAIN Layout = 1 .. Len(Layout)
  /\ \A i \in 1 .. Len(Layout) : Layout[i] \in Labels
  /\ \A i, j \in 1 .. Len(Layout) : Layout[i] = Layout[j] => i = j
  /\ \A l \in Labels : \E i \in 1 .. Len(Layout) : l = Layout[i]
  <1>1. Layout \in Seq(Sym) /\ IsInjective(Layout)
    BY EmitAsmAssumption
  <1>2. Len(Layout) \in Nat /\ DOMAIN Layout = 1 .. Len(Layout)
    BY <1>1
  <1> QED
    BY <1>1, <1>2 DEF Labels, ToSet, IsInjective

LEMMA BlockFacts ==
  ASSUME RegisterArguments, NEW p \in Programs, NEW l \in Labels
  PROVE  /\ p[l] \in Seq(VInst) /\ Len(p[l]) \in Nat \ {0}
         /\ \A k \in 1 .. Len(p[l]) : p[l][k] \in VInst /\ InRegisters(p[l][k])
         /\ p[l][Len(p[l])].kind \in {"Ret", "BrUncond"}
         /\ \A k \in 1 .. Len(p[l]) :
              p[l][k].kind \in {"BrUncond", "BrCond"} => p[l][k].sym \in Labels
  <1>1. p[l] \in Block
    BY EmitAsmAssumption
  <1>2. p[l] \in Seq(VInst) /\ p[l] # <<>>
    BY <1>1 DEF Block
  <1>3. Len(p[l]) \in Nat \ {0} /\ \A k \in 1 .. Len(p[l]) : p[l][k] \in VInst
    BY <1>2
  <1>4. \A k \in 1 .. Len(p[l]) : InRegisters(p[l][k])
    BY DEF RegisterArguments, InRegisters
  <1> QED
    BY <1>1, <1>2, <1>3, <1>4 DEF Block

LEMMA CompileStarts ==
  ASSUME Shipped, Init
  PROVE  CompileInv
  <1>1. program \in Programs /\ phase = "block" /\ curBB = 0
    BY DEF Init
  <1>2. Allocated
    BY <1>1 DEF Init, Shipped, Allocated, Alloc!InitAllocator, Alloc!EmptyMap, EmptyMap
  <1>3. blocks = [i \in 1 .. Len(Layout) |-> program[Layout[i]]]
    BY LayoutFacts DEF Init
  <1>4. \A i \in 1 .. Len(Layout) : program[Layout[i]] \in Seq(VInst)
    BY <1>1, LayoutFacts, EmitAsmAssumption DEF Block
  <1>5. blocks \in [1 .. Len(Layout) -> Seq(VInst)]
    BY <1>3, <1>4
  <1>6. blocks \in Seq(Seq(VInst)) /\ Len(blocks) = Len(Layout)
    <2>1. blocks \in Seq(Seq(VInst)) /\ DOMAIN blocks = 1 .. Len(Layout)
      BY <1>5, LayoutFacts
    <2> QED
      BY <2>1, LayoutFacts
  <1>7. Position
    BY <1>1, <1>3, <1>6, LayoutFacts DEF Position
  <1>8. TextInv
    <2>1. \A l \in Labels : text[l] = <<>>
      BY DEF Init
    <2>2. \A i \in 1 .. Len(Layout) : Emitted(i) = 0
      BY <1>1, LayoutFacts DEF Emitted
    <2> QED
      BY <2>1, <2>2, LayoutFacts, NothingPrinted DEF Init, TextInv
  <1> QED
    BY <1>1, <1>2, <1>7, <1>8 DEF CompileInv

LEMMA NextBlockCompiles ==
  ASSUME RegisterArguments, CompileInv, NextBlock
  PROVE  CompileInv'
  <1> USE DEF CompileInv
  <1>1. /\ phase = "block" /\ phase' = "alloc" /\ blocks # <<>> /\ curBB' = curBB + 1
        /\ UNCHANGED <<program, emitIdx, emitMap, text>>
        /\ blocks' = Tail(blocks) /\ insts' = Head(blocks)
    BY DEF NextBlock, Alloc!Allocate
  <1>2. /\ curBB \in Nat /\ curBB + 1 \in 1 .. Len(Layout) /\ Len(Layout) \in Nat
        /\ Head(blocks) = program[Layout[curBB + 1]]
        /\ Len(blocks') = Len(Layout) - (curBB + 1)
        /\ blocks' \in Seq(Seq(VInst))
        /\ \A i \in 1 .. Len(blocks') : blocks'[i] = program[Layout[(curBB + 1) + i]]
    <2>1. blocks \in Seq(Seq(VInst)) /\ Len(blocks) \in Nat \ {0}
      BY <1>1 DEF Position
    <2>2. /\ Len(Layout) \in Nat /\ curBB \in Nat /\ Len(blocks) = Len(Layout) - curBB
          /\ \A i \in 1 .. Len(blocks) : blocks[i] = program[Layout[curBB + i]]
      <3>1. Len(Layout) \in Nat
        BY LayoutFacts
      <3>2. curBB \in 0 .. Len(Layout)
        BY DEF Position
      <3>3. /\ Len(blocks) = Len(Layout) - curBB
            /\ \A i \in 1 .. Len(blocks) : blocks[i] = program[Layout[curBB + i]]
        BY DEF Position
      <3> QED
        BY <3>1, <3>2, <3>3
    <2>3. /\ Tail(blocks) \in Seq(Seq(VInst)) /\ Len(Tail(blocks)) = Len(blocks) - 1
          /\ Head(blocks) = blocks[1]
          /\ \A i \in 1 .. Len(blocks) - 1 : Tail(blocks)[i] = blocks[i + 1]
      BY <2>1
    <2>4. \A i \in 1 .. Len(blocks) - 1 : curBB + (i + 1) = (curBB + 1) + i
      BY <2>2
    <2>5. \A i \in 1 .. Len(blocks) - 1 : Tail(blocks)[i] = program[Layout[(curBB + 1) + i]]
      BY <2>1, <2>2, <2>3, <2>4
    <2>6. curBB + 1 \in 1 .. Len(Layout) /\ Head(blocks) = program[Layout[curBB + 1]]
      BY <2>1, <2>2, <2>3
    <2>7. Len(Tail(blocks)) = Len(Layout) - (curBB + 1)
      BY <2>1, <2>2, <2>3
    <2>8. \A i \in 1 .. Len(blocks') : blocks'[i] = program[Layout[(curBB + 1) + i]]
      BY <1>1, <2>3, <2>5
    <2> QED
      BY <1>1, <2>2, <2>3, <2>6, <2>7, <2>8
  <1>3. Head(blocks) # <<>>
    <2>1. Layout[curBB + 1] \in Labels
      BY <1>2, LayoutFacts
    <2>2. Len(Head(blocks)) # 0
      BY <1>2, <2>1, BlockFacts
    <2> QED
      BY <2>2
  <1>4. Allocated'
    BY <1>1, <1>3 DEF NextBlock, Alloc!Allocate, Allocated, Alloc!EmptyMap, EmptyMap
  <1>5. Position'
    BY <1>1, <1>2 DEF Position
  <1>6. \A i \in 1 .. Len(Layout) : Emitted(i)' = Emitted(i)
    BY <1>1, <1>2 DEF Emitted
  <1>7. TextInv'
    BY <1>1, <1>6 DEF TextInv
  <1> QED
    BY <1>1, <1>4, <1>5, <1>7

LEMMA AllocateBlockCompiles ==
  ASSUME CompileInv, AllocateBlock
  PROVE  CompileInv'
  <1> USE DEF CompileInv
  <1>1. /\ phase = "alloc" /\ stage = "build" /\ forceSpillAll = TRUE
        /\ physMap = EmptyMap /\ emitMap = EmptyMap
        /\ UNCHANGED <<program, curBB, text>>
    BY DEF AllocateBlock, Allocated
  <1>2. /\ UNCHANGED <<forceSpillAll, blocks, insts>> /\ physMap' = EmptyMap
        /\ stage' \in {"build", "idle"}
    <2>1. CASE Alloc!BuildIntervals
      BY <1>1, <2>1 DEF Alloc!BuildIntervals
    <2>2. CASE Alloc!SpillAll
      BY <1>1, <2>2 DEF Alloc!SpillAll, Alloc!EmptyMap, EmptyMap
    <2>3. CASE Alloc!StartScan \/ (\E cur \in VReg : Alloc!Visit(cur)) \/ Alloc!Finish
      BY <1>1, <2>3 DEF Alloc!StartScan, Alloc!Visit, Alloc!Finish
    <2> QED
      BY <2>1, <2>2, <2>3 DEF AllocateBlock
  <1>3. CASE stage' = "idle"
    <2>1. phase' = "emit" /\ emitIdx' = 1 /\ emitMap' = EmptyMap
      BY <1>2, <1>3 DEF AllocateBlock
    <2>2. Allocated'
      BY <1>1, <1>2, <1>3, <2>1 DEF Allocated
    <2>3. curBB # 0 /\ insts = program[Layout[curBB]] /\ curBB \in 1 .. Len(Layout)
      BY <1>1, LayoutFacts DEF Position
    <2>4. Len(insts) \in Nat
      <3>1. program[Layout[curBB]] \in Block
        BY <2>3, LayoutFacts, EmitAsmAssumption
      <3> QED
        BY <2>3, <3>1 DEF Block
    <2>5. Position'
      <3>1. 1 \in 1 .. Len(insts) + 1
        BY <2>4
      <3> QED
        BY <1>1, <1>2, <2>1, <2>3, <3>1 DEF Position
    <2>6. \A i \in 1 .. Len(Layout) : Emitted(i)' = Emitted(i)
      BY <1>1, <2>1, <2>3 DEF Emitted
    <2>7. TextInv'
      BY <1>1, <2>6 DEF TextInv
    <2> QED
      BY <1>1, <2>2, <2>5, <2>7
  <1>4. CASE stage' = "build"
    <2>1. UNCHANGED <<phase, emitIdx, emitMap>>
      BY <1>4 DEF AllocateBlock
    <2>2. Allocated'
      BY <1>1, <1>2, <1>4, <2>1 DEF Allocated
    <2>3. Position' /\ TextInv'
      BY <1>1, <1>2, <2>1 DEF Position, TextInv, Emitted
    <2> QED
      BY <1>1, <2>2, <2>3
  <1> QED
    BY <1>2, <1>3, <1>4

LEMMA EmitNextCompiles ==
  ASSUME RegisterArguments, CompileInv, EmitNext
  PROVE  CompileInv'
  <1> USE DEF CompileInv
  <1> DEFINE b == program[Layout[curBB]]
             n == emitIdx - 1
             e == EmitInst(b[n + 1], n + 1, EmptyMap)
  <1>1. /\ phase = "emit" /\ insts = b /\ emitMap = EmptyMap
        /\ UNCHANGED <<program, phase, curBB, allocVars>>
        /\ emitIdx' = emitIdx + 1
    BY DEF EmitNext, Allocated, Position
  <1>2. curBB \in 1 .. Len(Layout) /\ Layout[curBB] \in Labels /\ Len(Layout) \in Nat
    BY <1>1, LayoutFacts DEF Position
  <1>3. /\ b \in Seq(VInst) /\ Len(b) \in Nat
        /\ \A k \in 1 .. Len(b) : b[k] \in VInst /\ InRegisters(b[k])
    BY <1>2, BlockFacts
  <1>4. emitIdx \in 1 .. Len(b) /\ n \in 0 .. Len(b) /\ n # Len(b) /\ n + 1 = emitIdx
    <2>1. emitIdx \in 1 .. Len(b) + 1 /\ emitIdx <= Len(b)
      BY <1>1 DEF EmitNext, Position
    <2> QED
      BY <1>3, <2>1
  <1>5. emitMap' = EmptyMap
    BY <1>1 DEF EmitNext, MapAfter
  <1>6. text' = [text EXCEPT ![Layout[curBB]] = text[Layout[curBB]] \o e]
    BY <1>1, <1>4 DEF EmitNext
  <1>7. \A i \in 1 .. Len(Layout) :
          i = curBB => Emitted(i) = n /\ Emitted(i)' = n + 1
    BY <1>1, <1>2, <1>4 DEF Emitted
  <1>8. Printed(text[Layout[curBB]] \o e, b, n + 1)
    <2>1. Printed(text[Layout[curBB]], b, n)
      BY <1>2, <1>7 DEF TextInv
    <2>2. InRegisters(b[n + 1])
      BY <1>3, <1>4
    <2> HIDE DEF b, n
    <2> QED
      BY <1>3, <1>4, <2>1, <2>2, NextPrinted
  <1> HIDE DEF e, n
  <1>9. TextInv'
    <2>1. text = [l \in Labels |-> text[l]]
      BY DEF TextInv
    <2>2. /\ text' = [l \in Labels |-> text'[l]]
          /\ text'[Layout[curBB]] = text[Layout[curBB]] \o e
          /\ \A l \in Labels : l # Layout[curBB] => text'[l] = text[l]
      BY <1>2, <1>6, <2>1
    <2>3. ASSUME NEW i \in 1 .. Len(Layout)
          PROVE  Printed(text'[Layout[i]], program[Layout[i]], Emitted(i)')
      <3>1. CASE i = curBB
        BY <1>7, <1>8, <2>2, <3>1
      <3>2. CASE i # curBB
        <4>1. Layout[i] # Layout[curBB] /\ Layout[i] \in Labels
          BY <1>2, <3>2, LayoutFacts
        <4>2. Emitted(i)' = Emitted(i)
          BY <1>1, <1>2, <3>2 DEF Emitted
        <4> QED
          BY <2>2, <4>1, <4>2 DEF TextInv
      <3> QED
        BY <3>1, <3>2
    <2> QED
      BY <1>1, <2>2, <2>3 DEF TextInv
  <1>10. Allocated'
    BY <1>1, <1>5 DEF Allocated, allocVars
  <1>11. Position'
    <2>1. emitIdx' \in 1 .. Len(b) + 1
      BY <1>1, <1>3, <1>4
    <2>2. insts' = b /\ UNCHANGED <<program, phase, curBB, blocks>>
      BY <1>1 DEF allocVars
    <2> HIDE DEF b
    <2>3. curBB # 0 /\ b = program[Layout[curBB]]
      BY <1>2 DEF b
    <2> QED
      BY <1>1, <2>1, <2>2, <2>3 DEF Position
  <1> QED
    BY <1>1, <1>9, <1>10, <1>11

LEMMA BlockDoneCompiles ==
  ASSUME RegisterArguments, CompileInv, BlockDone
  PROVE  CompileInv'
  <1> USE DEF CompileInv
  <1>1. /\ phase = "emit" /\ phase' \in {"block", "run"}
        /\ phase' = "run" => blocks = <<>>
        /\ UNCHANGED <<program, curBB, emitIdx, emitMap, text, allocVars>>
        /\ insts = program[Layout[curBB]] /\ emitIdx > Len(insts)
    BY DEF BlockDone, Position
  <1>2. curBB \in 1 .. Len(Layout) /\ Layout[curBB] \in Labels /\ Len(Layout) \in Nat
    BY <1>1, LayoutFacts DEF Position
  <1>3. Len(insts) \in Nat /\ emitIdx = Len(insts) + 1
    <2>1. Len(insts) \in Nat /\ emitIdx \in 1 .. Len(insts) + 1
      BY <1>1, <1>2, BlockFacts DEF Position
    <2> QED
      BY <1>1, <2>1
  <1>4. \A i \in 1 .. Len(Layout) : Emitted(i)' = Emitted(i)
    BY <1>1, <1>2, <1>3 DEF Emitted
  <1>5. TextInv'
    BY <1>1, <1>4 DEF TextInv
  <1>6. Allocated'
    BY <1>1 DEF Allocated, allocVars
  <1>7. phase' = "run" => curBB = Len(Layout)
    BY <1>1, <1>2 DEF Position
  <1>8. Position'
    BY <1>1, <1>7 DEF Position, allocVars
  <1> QED
    BY <1>1, <1>5, <1>6, <1>8

RunNext ==
  RunRegister \/ RunStoreSlot \/ RunStore \/ RunCall \/ RunRet \/ RunJump \/ RunBranch

LEMMA RunKeepsText ==
  ASSUME CompileInv, RunNext
  PROVE  CompileInv' /\ UNCHANGED <<allocVars, emitVars>>
  <1>1. UNCHANGED <<allocVars, emitVars>>
    BY DEF RunNext, RunRegister, RunStoreSlot, RunStore, RunCall, RunRet, RunJump, RunBranch
  <1> QED
    BY <1>1 DEF CompileInv, Allocated, Position, TextInv, Emitted, allocVars, emitVars

(* For every function, every layout of its blocks and however long they    *)
(* are: what has been printed is the code of the instructions compiled so  *)
(* far, under a register map that stays empty (emitFunction, emitInsts).   *)
THEOREM TextIsTheCode ==
  ASSUME Shipped, RegisterArguments
  PROVE  Spec => []CompileInv
  <1>1. Init => CompileInv
    BY CompileStarts
  <1>2. CompileInv /\ [Next]_vars => CompileInv'
    <2> SUFFICES ASSUME CompileInv, [Next]_vars PROVE CompileInv'
      OBVIOUS
    <2>1. CASE UNCHANGED vars
      BY <2>1 DEF CompileInv, Allocated, Position, TextInv, Emitted, vars, allocVars,
                  emitVars
    <2>2. CASE RunNext
      BY <2>2, RunKeepsText
    <2> QED
      BY <2>1, <2>2, NextBlockCompiles, AllocateBlockCompiles, EmitNextCompiles,
         BlockDoneCompiles DEF Next, RunNext
  <1> QED
    BY <1>1, <1>2, PTL DEF Spec

--------------------------------------------------------------------------------
(***************************************************************************)
(* The printed lines do what the VInsts do.  For every function, however   *)
(* long its blocks, and every machine of EmitAsm.tla's kind: the run of    *)
(* the text implements the virtual-register machine of VMachine.tla, under *)
(* the two hypotheses of EmitAsm_proofs.tla.                               *)
(***************************************************************************)

(* Running.                                                                *)

(* An operand and a result, as the slots hold them.                        *)
SlotRead(r) == IF r = Zero THEN 0 ELSE IF r = SP THEN SPValue ELSE slots[r]
SlotResult(vi) ==
  CASE vi.opc \in ImmOps   -> Alu(vi.opc, SlotRead(vi.ops[2]), vi.imm)
    [] vi.opc \in RegOps   -> Alu(vi.opc, SlotRead(vi.ops[2]), SlotRead(vi.ops[3]))
    [] vi.opc \in LoadOps  -> LoadResult(vi.opc, mem[SlotRead(vi.ops[2])])
    [] vi.opc = "PseudoLA" -> SymAddr[vi.sym]

(* What the registers hold before the q-th line of an instruction.         *)
MCProgress(vi, q) ==
  /\ q <= CoreAt(vi) =>
       /\ q > Reloads(First(vi)) /\ First(vi) \in VReg
            => regs[X29] = slots[First(vi)]
       /\ q = CoreAt(vi) /\ Second(vi) \in VReg => regs[X30] = slots[Second(vi)]
  /\ q = CoreAt(vi) + 1 => regs[X29] = SlotResult(vi)

CallProgress(vi, q) ==
  q <= 2 * Len(vi.args) + 1 =>
    \A i \in 1 .. Len(vi.args) :
      /\ 2 * i < q => regs[ArgRegs[i]] = slots[vi.args[i]]
      /\ 2 * i = q => regs[X29] = slots[vi.args[i]]

Progress(vi, q) ==
  /\ vi.kind = "MC" => MCProgress(vi, q)
  /\ vi.kind = "Call" => CallProgress(vi, q)
  /\ vi.kind = "Ret" /\ q = 2 => regs[A0] = slots[vi.ret]
  /\ vi.kind = "BrCond" /\ q = 2 => regs[X29] = slots[vi.cond]

(* The machine is at the q-th line of the k-th instruction of block l.     *)
Pos(l, k, st, q) ==
  /\ phase = "run"
  /\ l \in Labels /\ k \in 1 .. Len(program[l])
  /\ q \in 1 .. Len(Code(program[l][k]))
  /\ PrintedAt(text[l], program[l], Len(program[l]), st)
  /\ pc = <<l, st[k] + q>>

RunInv ==
  phase = "run" /\ pc # Done =>
    \E l, k, st, q : Pos(l, k, st, q) /\ Progress(program[l][k], q)

FilesInv ==
  slots = [v \in VReg |-> slots[v]] /\ regs = [r \in Regs |-> regs[r]]

VRegs == [v \in VReg |-> View(v)]

InFlight(line) == line.op = "sdslot" /\ line.rs = A0

(* The line the machine is at.                                             *)
LEMMA Here ==
  ASSUME NEW l, NEW k, NEW st, NEW q, Pos(l, k, st, q)
  PROVE  /\ CurTag = TextLine(program[l][k], q, k)
         /\ Line = Code(program[l][k])[q]
         /\ phase = "run" /\ pc # Done /\ pc[1] = l
         /\ NextPC = <<l, st[k] + q + 1>>
         /\ \A ops : Running(ops) <=> Code(program[l][k])[q].op \in ops
  <1>1. pc = <<l, st[k] + q>> /\ phase = "run"
    BY DEF Pos
  <1>2. pc # Done
    BY <1>1 DEF Done
  <1>3. CurTag = TextLine(program[l][k], q, k)
    BY <1>1 DEF Pos, PrintedAt, CurTag
  <1>4. Line = Code(program[l][k])[q]
    BY <1>3 DEF Line, CurTag, TextLine
  <1>5. NextPC = <<l, st[k] + q + 1>>
    <2>1. /\ k \in 1 .. Len(program[l]) /\ q \in 1 .. Len(Code(program[l][k]))
          /\ st \in [1 .. Len(program[l]) + 1 -> Nat]
      BY ZenonT(30) DEF Pos, PrintedAt
    <2>2. q \in Nat
      BY ONLY <2>1, SMTT(30)
    <2>3. k \in 1 .. Len(program[l]) + 1
      BY ONLY <2>1, SMTT(30)
    <2>4. st[k] \in Nat
      BY ONLY <2>1, <2>3, SMTT(30)
    <2> QED
      BY <1>1, <2>2, <2>4 DEF NextPC
  <1> QED
    BY <1>1, <1>2, <1>3, <1>4, <1>5 DEF Running, Line

(* The virtual registers, and the instruction they are before.             *)
LEMMA Seen ==
  ASSUME FilesInv, NEW l, NEW k, NEW st, NEW q, Pos(l, k, st, q)
  PROVE  LET line == Code(program[l][k])[q]
         IN IF InFlight(line)
              THEN VRegs = [slots EXCEPT ![line.slot] = regs[A0]] /\ ViewAt = <<l, k + 1>>
              ELSE VRegs = slots /\ ViewAt = <<l, k>>
  <1> DEFINE line == Code(program[l][k])[q]
  <1>1. /\ CurTag.inst = k /\ CurTag.map = EmptyMap /\ Line = line
        /\ phase = "run" /\ pc # Done /\ pc[1] = l
        /\ Running({"sdslot"}) <=> line.op = "sdslot"
    BY Here DEF TextLine
  <1>2. ResultInFlight <=> InFlight(line)
    BY <1>1 DEF ResultInFlight, InFlight
  <1> HIDE DEF line
  <1>3. \A v \in VReg : View(v) = IF InFlight(line) /\ line.slot = v THEN regs[A0]
                                  ELSE slots[v]
    BY <1>1, <1>2, NothingMapped DEF View
  <1>4. ViewAt = IF InFlight(line) THEN <<l, k + 1>> ELSE <<l, k>>
    BY <1>1, <1>2 DEF ViewAt
  <1>5. slots = [v \in VReg |-> slots[v]]
    BY DEF FilesInv
  <1>6. InFlight(line) => VRegs = [slots EXCEPT ![line.slot] = regs[A0]]
    BY <1>3, <1>5 DEF VRegs
  <1>7. ~ InFlight(line) => VRegs = slots
    BY <1>3, <1>5 DEF VRegs
  <1> QED
    BY <1>4, <1>6, <1>7 DEF line

LEMMA SeenNext ==
  ASSUME FilesInv', NEW l, NEW k, NEW st, NEW q, Pos(l, k, st, q)', UNCHANGED program
  PROVE  LET line == Code(program[l][k])[q]
         IN IF InFlight(line)
              THEN /\ VRegs' = [slots' EXCEPT ![line.slot] = regs'[A0]]
                   /\ ViewAt' = <<l, k + 1>>
              ELSE VRegs' = slots' /\ ViewAt' = <<l, k>>
  <1> DEFINE line == Code(program[l][k])[q]
  <1>1. /\ pc' = <<l, st[k] + q>> /\ phase' = "run" /\ pc' # Done
        /\ CurTag' = TextLine(program[l][k], q, k)
    BY DEF Pos, PrintedAt, CurTag, Done
  <1>2. /\ CurTag'.inst = k /\ CurTag'.map = EmptyMap /\ CurTag'.line = line /\ Line' = line
    BY <1>1 DEF TextLine, CurTag, Line
  <1>3. ResultInFlight' <=> InFlight(line)
    BY <1>1, <1>2 DEF ResultInFlight, InFlight, Running, CurTag, Line
  <1> HIDE DEF line
  <1>4. \A v \in VReg : View(v)' = IF InFlight(line) /\ line.slot = v THEN regs'[A0]
                                   ELSE slots'[v]
    BY <1>1, <1>2, <1>3, NothingMapped DEF View
  <1>5. ViewAt' = IF InFlight(line) THEN <<l, k + 1>> ELSE <<l, k>>
    BY <1>1, <1>2, <1>3 DEF ViewAt
  <1>6. slots' = [v \in VReg |-> slots'[v]]
    BY DEF FilesInv
  <1>7. InFlight(line) => VRegs' = [slots' EXCEPT ![line.slot] = regs'[A0]]
    BY <1>4, <1>6 DEF VRegs
  <1>8. ~ InFlight(line) => VRegs' = slots'
    BY <1>4, <1>6 DEF VRegs
  <1> QED
    BY <1>5, <1>7, <1>8 DEF line

(* The argument registers are apart from the scratch registers.            *)
LEMMA RegisterFacts ==
  /\ A0 \in Regs /\ X29 \in Regs /\ X30 \in Regs
  /\ \A i \in 1 .. Len(ArgRegs) :
       /\ ArgRegs[i] \in Regs /\ ArgRegs[i] # X29 /\ ArgRegs[i] # X30
       /\ ArgRegs[i] # Zero /\ ArgRegs[i] # SP
  /\ \A i, j \in 1 .. Len(ArgRegs) : ArgRegs[i] = ArgRegs[j] => i = j
  /\ Len(ArgRegs) \in Nat \ {0}
  /\ X29 # X30 /\ A0 # X29 /\ A0 # X30
  /\ X29 # Zero /\ X29 # SP /\ X30 # Zero /\ X30 # SP
  <1>1. /\ ArgRegs \in Seq(STRING) /\ ArgRegs # <<>>
        /\ IsInjective(ArgRegs) /\ ToSet(ArgRegs) \cap {Zero, SP, X29, X30} = {}
    BY EmitAsmAssumption
  <1>2. Len(ArgRegs) \in Nat \ {0} /\ DOMAIN ArgRegs = 1 .. Len(ArgRegs)
    BY <1>1
  <1>3. \A i \in 1 .. Len(ArgRegs) : ArgRegs[i] \in ToSet(ArgRegs)
    BY <1>2 DEF ToSet
  <1>4. \A i \in 1 .. Len(ArgRegs) :
          /\ ArgRegs[i] \in Regs /\ ArgRegs[i] # X29 /\ ArgRegs[i] # X30
          /\ ArgRegs[i] # Zero /\ ArgRegs[i] # SP
    BY <1>1, <1>3 DEF Regs
  <1>5. \A i, j \in 1 .. Len(ArgRegs) : ArgRegs[i] = ArgRegs[j] => i = j
    BY <1>1, <1>2 DEF IsInjective
  <1>6. A0 = ArgRegs[1] /\ 1 \in 1 .. Len(ArgRegs)
    BY <1>2 DEF A0
  <1>7. X29 \in Regs /\ X30 \in Regs
    BY DEF Regs
  <1>8. X29 # X30 /\ X29 # Zero /\ X29 # SP /\ X30 # Zero /\ X30 # SP
    BY DEF X29, X30, Zero, SP
  <1> QED
    BY <1>2, <1>4, <1>5, <1>6, <1>7, <1>8

(* Only a call's last line stores a result that is still in a0.            *)
LEMMA MCNotInFlight ==
  ASSUME NEW vi \in VInst, vi.kind = "MC", NEW q \in 1 .. Len(Code(vi))
  PROVE  ~ InFlight(Code(vi)[q])
  <1>1. Code(vi)[q] = MCLine(vi, q)
    BY MCCode, Lengths
  <1>2. vi.opc \in ImmOps \cup RegOps \cup LoadOps \cup StoreOps \cup {"PseudoLA"}
    BY MCOperands
  <1>3. Middle(vi).op \in {"la", "alui", "alu", "load", "store"}
    BY <1>2 DEF Middle
  <1> QED
    BY <1>1, <1>3, RegisterFacts DEF MCLine, InFlight

LEMMA FirstNotInFlight ==
  ASSUME NEW vi \in VInst, InRegisters(vi)
  PROVE  ~ InFlight(Code(vi)[1])
  <1>0. 1 \in 1 .. Len(Code(vi))
    BY CodeFacts
  <1>1. CASE vi.kind = "MC"
    BY <1>0, <1>1, MCNotInFlight
  <1>2. CASE vi.kind = "Call"
    <2>1. CallCodeIs(Code(vi), vi) /\ vi.args \in Seq(VReg)
      BY <1>2, CallCode, CallOperands
    <2>2. CASE Len(vi.args) = 0
      <3>1. 2 * Len(vi.args) + 1 = 1
        BY <2>2
      <3> QED
        BY <2>1, <3>1 DEF CallCodeIs, InFlight
    <2>3. CASE Len(vi.args) # 0
      <3>1. 1 \in 1 .. Len(vi.args) /\ 2 * 1 - 1 = 1
        BY <2>1, <2>3
      <3>2. Code(vi)[1] = [op |-> "ldslot", rd |-> X29, slot |-> vi.args[1]]
        BY <2>1, <3>1 DEF CallCodeIs
      <3> QED
        BY <3>2 DEF InFlight
    <2> QED
      BY <2>2, <2>3
  <1>3. CASE vi.kind = "Ret"
    <2>1. vi.ret \in VReg \cup {NoReg}
      BY <1>3, RetOperand
    <2>2. Code(vi)[1].op \in {"ldslot", "ret"}
      <3>1. CASE vi.ret = NoReg
        <4>1. Code(vi)[1] = [op |-> "ret", hasRet |-> FALSE]
          BY <1>3, <3>1, RetCode
        <4> QED
          BY <4>1
      <3>2. CASE vi.ret \in VReg
        <4>1. Code(vi)[1] = [op |-> "ldslot", rd |-> A0, slot |-> vi.ret]
          BY <1>3, <3>2, RetCode
        <4> QED
          BY <4>1
      <3> QED
        BY <2>1, <3>1, <3>2
    <2> QED
      BY <2>2 DEF InFlight
  <1>4. CASE vi.kind = "BrCond"
    <2>1. vi.cond \in VReg
      BY <1>4 DEF VInst
    <2>2. Code(vi)[1] = [op |-> "ldslot", rd |-> X29, slot |-> vi.cond]
      BY <1>4, <2>1, BranchCode
    <2>3. Code(vi)[1].op = "ldslot"
      BY <2>2
    <2> QED
      BY <2>3 DEF InFlight
  <1>5. CASE vi.kind = "BrUncond"
    <2>1. Code(vi)[1] = [op |-> "j", sym |-> vi.sym]
      BY <1>5, JumpCode
    <2>2. Code(vi)[1].op = "j"
      BY <2>1
    <2> QED
      BY <2>2 DEF InFlight
  <1> QED
    BY <1>1, <1>2, <1>3, <1>4, <1>5 DEF VInst

(* Nothing is asked of the registers before an instruction.                *)
LEMMA FreshProgress ==
  ASSUME NEW vi \in VInst
  PROVE  Progress(vi, 1) /\ Progress(vi, 1)'
  <1>1. ASSUME vi.kind = "MC" PROVE MCProgress(vi, 1) /\ MCProgress(vi, 1)'
    <2>1. /\ First(vi) \in VReg => Reloads(First(vi)) = 1
          /\ Second(vi) \in VReg => Reloads(Second(vi)) = 1
          /\ Reloads(First(vi)) \in 0 .. 1 /\ Reloads(Second(vi)) \in 0 .. 1
          /\ CoreAt(vi) = Reloads(First(vi)) + Reloads(Second(vi)) + 1
      BY DEF Reloads, CoreAt
    <2> QED
      BY <2>1 DEF MCProgress
  <1>2. ASSUME vi.kind = "Call" PROVE CallProgress(vi, 1) /\ CallProgress(vi, 1)'
    <2>1. \A i \in 1 .. Len(vi.args) : ~(2 * i < 1) /\ 2 * i # 1
      OBVIOUS
    <2> QED
      BY <2>1 DEF CallProgress
  <1> QED
    BY <1>1, <1>2 DEF Progress

LEMMA ProgramFacts ==
  ASSUME RegisterArguments, CompileInv, NEW l \in Labels
  PROVE  /\ Len(program[l]) \in Nat \ {0}
         /\ \A k \in 1 .. Len(program[l]) :
              /\ program[l][k] \in VInst /\ InRegisters(program[l][k])
              /\ Len(Code(program[l][k])) \in Nat \ {0}
         /\ program[l][Len(program[l])].kind \in {"Ret", "BrUncond"}
         /\ \A k \in 1 .. Len(program[l]) :
              program[l][k].kind \in {"BrUncond", "BrCond"} => program[l][k].sym \in Labels
  BY BlockFacts, CodeFacts DEF CompileInv

(* From one line to the next ...                                           *)
LEMMA ToNextLine ==
  ASSUME RegisterArguments, CompileInv, NEW l, NEW k, NEW st, NEW q,
         Pos(l, k, st, q), q < Len(Code(program[l][k])),
         pc' = NextPC, UNCHANGED emitVars, FilesInv', Progress(program[l][k], q + 1)'
  PROVE  LET line == Code(program[l][k])[q + 1]
         IN /\ RunInv'
            /\ IF InFlight(line)
                 THEN /\ VRegs' = [slots' EXCEPT ![line.slot] = regs'[A0]]
                      /\ ViewAt' = <<l, k + 1>>
                 ELSE VRegs' = slots' /\ ViewAt' = <<l, k>>
  <1>1. UNCHANGED <<program, text, phase>>
    BY DEF emitVars
  <1>2. NextPC = <<l, st[k] + q + 1>>
    BY Here
  <1>3. /\ q + 1 \in 1 .. Len(Code(program[l][k]))
        /\ st[k] + q + 1 = st[k] + (q + 1)
    <2>1. l \in Labels /\ k \in 1 .. Len(program[l]) /\ q \in 1 .. Len(Code(program[l][k]))
      BY DEF Pos
    <2>2. Len(program[l]) \in Nat /\ Len(Code(program[l][k])) \in Nat
      BY <2>1, ProgramFacts
    <2>3. k \in 1 .. Len(program[l]) + 1
      BY <2>1, <2>2
    <2>4. st[k] \in Nat
      BY <2>3 DEF Pos, PrintedAt
    <2>5. PICK len \in Nat : len = Len(Code(program[l][k]))
      BY <2>2
    <2>6. q \in 1 .. len /\ q < len
      BY <2>1, <2>5
    <2>7. q + 1 \in 1 .. len /\ st[k] + q + 1 = st[k] + (q + 1)
      BY <2>4, <2>6
    <2> QED
      BY <2>5, <2>7
  <1>4. Pos(l, k, st, q + 1)'
    <2>1. pc' = <<l, st[k] + (q + 1)>>
      BY <1>2, <1>3
    <2> QED
      BY <1>1, <1>3, <2>1 DEF Pos, PrintedAt
  <1>5. RunInv'
    BY <1>1, <1>4 DEF RunInv
  <1> QED
    BY <1>1, <1>4, <1>5, SeenNext

(* ... to the next instruction ...                                         *)
LEMMA ToNextInst ==
  ASSUME RegisterArguments, CompileInv, NEW l, NEW k, NEW st, NEW q,
         Pos(l, k, st, q), q = Len(Code(program[l][k])),
         program[l][k].kind \notin {"Ret", "BrUncond"},
         pc' = NextPC, UNCHANGED emitVars, FilesInv'
  PROVE  RunInv' /\ VRegs' = slots' /\ ViewAt' = <<l, k + 1>>
  <1>1. UNCHANGED <<program, text, phase>>
    BY DEF emitVars
  <1>2. NextPC = <<l, st[k] + q + 1>>
    BY Here
  <1>3. l \in Labels /\ k \in 1 .. Len(program[l])
    BY DEF Pos
  <1>4. Len(program[l]) \in Nat /\ k # Len(program[l])
    BY <1>3, ProgramFacts
  <1>5. k + 1 \in 1 .. Len(program[l]) /\ st[k] \in Nat /\ q \in Nat
        /\ st[k + 1] = st[k] + q
    <2>1. k + 1 \in 1 .. Len(program[l]) /\ k \in 1 .. Len(program[l]) + 1
      BY <1>3, <1>4
    <2>2. q \in Nat
      BY <1>3, ProgramFacts
    <2>3. st[k] \in Nat /\ st[k + 1] = st[k] + q
      BY <1>3, <2>1 DEF Pos, PrintedAt
    <2> QED
      BY <2>1, <2>2, <2>3
  <1>6. st[k] + q + 1 = st[k + 1] + 1
    BY <1>5
  <1>7. program[l][k + 1] \in VInst /\ InRegisters(program[l][k + 1])
        /\ 1 \in 1 .. Len(Code(program[l][k + 1]))
    BY <1>3, <1>5, ProgramFacts
  <1>8. Pos(l, k + 1, st, 1)'
    BY <1>1, <1>2, <1>3, <1>5, <1>6, <1>7 DEF Pos, PrintedAt
  <1>9. RunInv'
    BY <1>1, <1>7, <1>8, FreshProgress DEF RunInv
  <1> QED
    BY <1>1, <1>7, <1>8, <1>9, SeenNext, FirstNotInFlight

(* ... to the beginning of a block.                                        *)
LEMMA ToLabel ==
  ASSUME RegisterArguments, CompileInv', phase' = "run", NEW l \in Labels,
         pc' = <<l, 1>>, UNCHANGED program, FilesInv'
  PROVE  RunInv' /\ VRegs' = slots' /\ ViewAt' = <<l, 1>>
  <1>1. PICK i \in 1 .. Len(Layout) : l = Layout[i]
    BY LayoutFacts
  <1>2. Printed(text'[l], program[l], Len(program[l]))
    <2>1. curBB' = Len(Layout) /\ Len(Layout) \in Nat
      BY LayoutFacts DEF CompileInv, Position
    <2>2. Emitted(i)' = Len(program[l])
      BY <1>1, <2>1 DEF Emitted
    <2> QED
      BY <1>1, <2>2 DEF CompileInv, TextInv
  <1>3. PICK st : PrintedAt(text'[l], program[l], Len(program[l]), st)
    BY <1>2 DEF Printed
  <1>4. /\ 1 \in 1 .. Len(program[l]) /\ 1 \in 1 .. Len(Code(program[l][1]))
        /\ program[l][1] \in VInst /\ InRegisters(program[l][1])
    <2>1. program \in Programs
      BY DEF CompileInv
    <2>2. /\ 1 \in 1 .. Len(program[l])
          /\ program[l][1] \in VInst /\ InRegisters(program[l][1])
      BY <2>1, BlockFacts
    <2> QED
      BY <2>2, CodeFacts
  <1>5. st[1] + 1 = 1
    BY <1>3 DEF PrintedAt
  <1>6. Pos(l, 1, st, 1)'
    BY <1>3, <1>4, <1>5 DEF Pos, PrintedAt
  <1>7. RunInv'
    BY <1>4, <1>6, FreshProgress DEF RunInv
  <1> QED
    BY <1>4, <1>6, <1>7, SeenNext, FirstNotInFlight

(* Registers and slots stay what they are: functions on their names.       *)
LEMMA FilesKept ==
  ASSUME FilesInv, RunNext
  PROVE  FilesInv'
  <1>1. CASE RunRegister
    BY <1>1 DEF RunRegister, FilesInv
  <1>2. CASE RunStoreSlot
    BY <1>2 DEF RunStoreSlot, FilesInv
  <1>3. CASE RunCall
    BY <1>3 DEF RunCall, FilesInv
  <1>4. CASE RunStore \/ RunRet \/ RunJump \/ RunBranch
    BY <1>4 DEF RunStore, RunRet, RunJump, RunBranch, FilesInv
  <1> QED
    BY <1>1, <1>2, <1>3, <1>4 DEF RunNext

(* What runs is the line the machine is at.                                *)
LEMMA Runs ==
  ASSUME NEW l, NEW k, NEW st, NEW q, Pos(l, k, st, q), RunNext
  PROVE  LET line == Code(program[l][k])[q]
         IN /\ line.op \in {"ldslot", "la", "alui", "alu", "load", "mv"} => RunRegister
            /\ line.op = "sdslot" => RunStoreSlot
            /\ line.op = "store" => RunStore
            /\ line.op = "call" => RunCall
            /\ line.op = "ret" => RunRet
            /\ line.op = "j" => RunJump
            /\ line.op \in {"beqz", "bnez"} => RunBranch
            /\ Line = line
            /\ UNCHANGED emitVars
  <1> DEFINE op == Code(program[l][k])[q].op
  <1>1. \A ops : Running(ops) <=> op \in ops
    BY Here
  <1> HIDE DEF op
  <1>2. /\ RunRegister => op \in {"ldslot", "la", "alui", "alu", "load", "mv"}
        /\ RunStoreSlot => op = "sdslot"
        /\ RunStore => op = "store"
        /\ RunCall => op = "call"
        /\ RunRet => op = "ret"
        /\ RunJump => op = "j"
        /\ RunBranch => op \in {"beqz", "bnez"}
    BY <1>1 DEF RunRegister, RunStoreSlot, RunStore, RunCall, RunRet, RunJump, RunBranch
  <1>3. UNCHANGED emitVars
    BY DEF RunNext, RunRegister, RunStoreSlot, RunStore, RunCall, RunRet, RunJump, RunBranch
  <1>4. Line = Code(program[l][k])[q]
    BY Here
  <1> QED
    BY <1>2, <1>3, <1>4 DEF RunNext, op

(* Reading an operand where it was reloaded to.                            *)
LEMMA OperandRead ==
  ASSUME NEW r \in Operand
  PROVE  /\ (r \in VReg => regs[X29] = slots[r]) => Reg(At29(r)) = SlotRead(r)
         /\ (r \in VReg => regs[X30] = slots[r]) => Reg(At30(r)) = SlotRead(r)
  <1>1. Zero \notin VReg /\ SP \notin VReg
    BY EmitAsmAssumption
  <1>2. CASE r \in VReg
    BY <1>1, <1>2, RegisterFacts DEF Reg, SlotRead, At29, At30
  <1>3. CASE r \in {Zero, SP}
    BY <1>1, <1>3 DEF Reg, SlotRead, At29, At30
  <1> QED
    BY <1>2, <1>3 DEF Operand

--------------------------------------------------------------------------------
(* The steps of the virtual-register machine.                              *)

LEMMA Stutters ==
  ASSUME VRegs' = VRegs, ViewAt' = ViewAt, UNCHANGED <<program, mem, event>>
  PROVE  UNCHANGED VM!vmVars
  BY DEF VM!vmVars, VRegs

LEMMA VMReads ==
  ASSUME VRegs = slots
  PROVE  \A r : VM!Read(r) = SlotRead(r)
  BY DEF VM!Read, SlotRead, VRegs, VM!Zero, VM!SP, Zero, SP

LEMMA VMAt ==
  ASSUME NEW l, NEW k, ViewAt = <<l, k>>
  PROVE  /\ VM!Inst = program[l][k] /\ VM!NextAt = <<l, k + 1>>
         /\ \A kind : VM!Running(kind) <=> program[l][k].kind = kind
  <1>1. ViewAt # VM!Done
    BY DEF VM!Done
  <1> QED
    BY <1>1 DEF VM!Inst, VM!NextAt, VM!Running

LEMMA SameResult ==
  ASSUME NEW vi \in VInst, vi.kind = "MC", vi.opc \notin StoreOps, VRegs = slots
  PROVE  VM!Result(vi) = SlotResult(vi)
  <1>0. \A r : VM!Read(r) = SlotRead(r)
    BY VMReads
  <1>1. vi.opc \in ImmOps \cup RegOps \cup LoadOps \cup {"PseudoLA"}
    BY MCOperands
  <1>2. CASE vi.opc \in ImmOps
    <2>1. /\ VM!Result(vi) = Alu(vi.opc, VM!Read(vi.ops[2]), vi.imm)
          /\ SlotResult(vi) = Alu(vi.opc, SlotRead(vi.ops[2]), vi.imm)
      BY <1>2 DEF VM!Result, SlotResult, VM!ImmOps, VM!RegOps, VM!LoadOps, ImmOps,
                  RegOps, LoadOps
    <2> QED
      BY <1>0, <2>1
  <1>3. CASE vi.opc \in RegOps
    <2>1. /\ VM!Result(vi) = Alu(vi.opc, VM!Read(vi.ops[2]), VM!Read(vi.ops[3]))
          /\ SlotResult(vi) = Alu(vi.opc, SlotRead(vi.ops[2]), SlotRead(vi.ops[3]))
      BY <1>3 DEF VM!Result, SlotResult, VM!ImmOps, VM!RegOps, VM!LoadOps, ImmOps,
                  RegOps, LoadOps
    <2> QED
      BY <1>0, <2>1
  <1>4. CASE vi.opc \in LoadOps
    <2>1. /\ VM!Result(vi) = LoadResult(vi.opc, mem[VM!Read(vi.ops[2])])
          /\ SlotResult(vi) = LoadResult(vi.opc, mem[SlotRead(vi.ops[2])])
      BY <1>4 DEF VM!Result, SlotResult, VM!ImmOps, VM!RegOps, VM!LoadOps, ImmOps,
                  RegOps, LoadOps
    <2> QED
      BY <1>0, <2>1
  <1>5. CASE vi.opc = "PseudoLA"
    BY <1>5 DEF VM!Result, SlotResult, VM!ImmOps, VM!RegOps, VM!LoadOps, ImmOps,
                RegOps, LoadOps
  <1> QED
    BY <1>1, <1>2, <1>3, <1>4, <1>5

LEMMA Computes ==
  ASSUME NEW l, NEW k, VRegs = slots, ViewAt = <<l, k>>, program[l][k] \in VInst,
         program[l][k].kind = "MC", program[l][k].opc \notin StoreOps,
         VRegs' = [slots EXCEPT ![program[l][k].ops[1]] = SlotResult(program[l][k])],
         ViewAt' = <<l, k + 1>>, UNCHANGED <<program, mem, event>>
  PROVE  VM!Compute
  <1> DEFINE vi == program[l][k]
  <1>1. VM!Inst = vi /\ VM!NextAt = <<l, k + 1>> /\ VM!Running("MC")
    BY VMAt
  <1>2. VM!Result(vi) = SlotResult(vi)
    BY SameResult
  <1>3. [v \in VReg |-> View(v)]' =
          [[v \in VReg |-> View(v)] EXCEPT ![vi.ops[1]] = VM!Result(vi)]
    BY <1>2 DEF VRegs
  <1>4. vi.opc \notin VM!StoreOps
    BY DEF VM!StoreOps, StoreOps
  <1> HIDE DEF vi
  <1> QED
    BY <1>1, <1>3, <1>4 DEF VM!Compute

LEMMA Stores ==
  ASSUME NEW l, NEW k, VRegs = slots, ViewAt = <<l, k>>,
         program[l][k].kind = "MC", program[l][k].opc \in StoreOps,
         VRegs' = slots, ViewAt' = <<l, k + 1>>, UNCHANGED <<program, event>>,
         mem' = [mem EXCEPT ![SlotRead(program[l][k].ops[2])] =
                   StoreResult(program[l][k].opc, mem[SlotRead(program[l][k].ops[2])],
                               SlotRead(program[l][k].ops[1]))]
  PROVE  VM!Store
  <1>1. VM!Inst = program[l][k] /\ VM!NextAt = <<l, k + 1>> /\ VM!Running("MC")
    BY VMAt
  <1>2. UNCHANGED [v \in VReg |-> View(v)]
    BY DEF VRegs
  <1> DEFINE vi == program[l][k]
             base == SlotRead(vi.ops[2])
             val == SlotRead(vi.ops[1])
  <1>3. VM!Read(vi.ops[2]) = base /\ VM!Read(vi.ops[1]) = val
    BY VMReads
  <1>4. vi.opc \in VM!StoreOps
    BY DEF VM!StoreOps, StoreOps
  <1>5. mem' = [mem EXCEPT ![base] = StoreResult(vi.opc, mem[base], val)]
    OBVIOUS
  <1>6. VM!Inst = vi /\ ViewAt' = VM!NextAt /\ UNCHANGED <<program, event>>
    BY <1>1
  <1> HIDE DEF vi, base, val
  <1> QED
    BY <1>1, <1>2, <1>3, <1>4, <1>5, <1>6 DEF VM!Store

LEMMA Jumps ==
  ASSUME NEW l, NEW k, ViewAt = <<l, k>>, program[l][k].kind = "BrUncond",
         VRegs' = VRegs, ViewAt' = <<program[l][k].sym, 1>>,
         UNCHANGED <<program, mem, event>>
  PROVE  VM!Jump
  BY VMAt DEF VM!Jump, VRegs

LEMMA Branches ==
  ASSUME NEW l, NEW k, VRegs = slots, ViewAt = <<l, k>>, program[l][k].kind = "BrCond",
         VRegs' = slots, UNCHANGED <<program, mem, event>>,
         ViewAt' = IF (SlotRead(program[l][k].cond) = 0) = program[l][k].onZero
                     THEN <<program[l][k].sym, 1>> ELSE <<l, k + 1>>
  PROVE  VM!Branch
  <1>1. /\ VM!Inst = program[l][k] /\ VM!NextAt = <<l, k + 1>> /\ VM!Running("BrCond")
        /\ VM!Read(program[l][k].cond) = SlotRead(program[l][k].cond)
    BY VMAt, VMReads
  <1> QED
    BY <1>1 DEF VM!Branch, VRegs

LEMMA Returns ==
  ASSUME NEW l, NEW k, VRegs = slots, ViewAt = <<l, k>>, program[l][k].kind = "Ret",
         VRegs' = slots, ViewAt' = Done, UNCHANGED <<program, mem>>,
         event' = IF program[l][k].ret = NoReg THEN <<"ret">>
                  ELSE <<"ret", SlotRead(program[l][k].ret)>>
  PROVE  VM!Return
  <1>1. /\ VM!Inst = program[l][k] /\ VM!Running("Ret")
        /\ VM!Read(program[l][k].ret) = SlotRead(program[l][k].ret)
    BY VMAt, VMReads
  <1> QED
    BY <1>1 DEF VM!Return, VRegs, VM!Done, Done

LEMMA CallsOut ==
  ASSUME NEW l, NEW k, VRegs = slots, ViewAt = <<l, k>>, program[l][k].kind = "Call",
         ViewAt' = <<l, k + 1>>, UNCHANGED <<program, mem>>,
         event' = <<"call", program[l][k].sym,
                    [i \in DOMAIN program[l][k].args |-> SlotRead(program[l][k].args[i])]>>,
         IF program[l][k].ret = NoReg THEN VRegs' = slots
           ELSE \E result \in Value : VRegs' = [slots EXCEPT ![program[l][k].ret] = result]
  PROVE  VM!CallStep
  <1>1. /\ VM!Inst = program[l][k] /\ VM!Running("Call") /\ VM!NextAt = <<l, k + 1>>
        /\ \A r : VM!Read(r) = SlotRead(r)
    BY VMAt, VMReads
  <1>2. event' = <<"call", VM!Inst.sym,
                   [i \in DOMAIN VM!Inst.args |-> VM!Read(VM!Inst.args[i])]>>
    BY <1>1
  <1>3. IF VM!Inst.ret = NoReg
          THEN UNCHANGED [v \in VReg |-> View(v)]
          ELSE \E result \in Value :
                 [v \in VReg |-> View(v)]' =
                   [[v \in VReg |-> View(v)] EXCEPT ![VM!Inst.ret] = result]
    BY <1>1 DEF VRegs
  <1> QED
    BY <1>1, <1>2, <1>3 DEF VM!CallStep

--------------------------------------------------------------------------------
(* One line at a time.                                                     *)

Refines == RunInv' /\ [VM!Next]_(VM!vmVars)

(* An operand is reloaded.                                                 *)
LEMMA MCReloads ==
  ASSUME RegisterArguments, CompileInv, FilesInv, NEW l, NEW k, NEW st, NEW q,
         Pos(l, k, st, q), Progress(program[l][k], q), program[l][k].kind = "MC",
         q < CoreAt(program[l][k]), RunNext
  PROVE  Refines
  <1> DEFINE vi == program[l][k]
             line == Code(vi)[q]
             next == Code(vi)[q + 1]
             F == First(vi)
             S == Second(vi)
             m == Reloads(F)
             n == Reloads(S)
  <1>1. l \in Labels /\ k \in 1 .. Len(program[l]) /\ q \in 1 .. Len(Code(vi))
    BY DEF Pos
  <1>2. vi \in VInst
    BY <1>1, ProgramFacts
  <1>3. /\ Len(Code(vi)) = MCLength(vi) /\ CoreAt(vi) = m + n + 1
        /\ m \in 0 .. 1 /\ n \in 0 .. 1 /\ q < CoreAt(vi)
        /\ MCLength(vi) \in CoreAt(vi) .. CoreAt(vi) + 1
        /\ F \in VReg => m = 1
        /\ S \in VReg => n = 1
    BY <1>2, MCCode, Lengths DEF CoreAt, MCLength, Reloads
  <1>4. line = IF q <= m THEN [op |-> "ldslot", rd |-> X29, slot |-> F]
               ELSE [op |-> "ldslot", rd |-> X30, slot |-> S]
    BY <1>1, <1>2, <1>3, MCCode DEF MCLine
  <1>5. line.op = "ldslot" /\ line.rd = (IF q <= m THEN X29 ELSE X30)
        /\ line.slot = (IF q <= m THEN F ELSE S)
    BY <1>4
  <1>6. q + 1 \in 1 .. Len(Code(vi)) /\ q < Len(Code(vi))
    BY <1>1, <1>3
  <1>7. ~ InFlight(line) /\ ~ InFlight(next)
    BY <1>1, <1>2, <1>6, MCNotInFlight
  <1>8. VRegs = slots /\ ViewAt = <<l, k>>
    BY <1>7, Seen
  <1>9. RunRegister /\ UNCHANGED emitVars /\ Line = line
    BY <1>5, Runs
  <1>10. regs' = [regs EXCEPT ![line.rd] = slots[line.slot]] /\ pc' = NextPC
         /\ UNCHANGED <<slots, mem, event>>
    <2>1. LineResult = slots[line.slot]
      BY <1>5, <1>9 DEF LineResult
    <2> QED
      BY <1>9, <2>1 DEF RunRegister
  <1>11. FilesInv'
    BY FilesKept
  <1>12. MCProgress(vi, q + 1)'
    <2>1. regs = [r \in Regs |-> regs[r]]
      BY DEF FilesInv
    <2>2. X29 \in Regs /\ X30 \in Regs /\ X29 # X30
      BY RegisterFacts
    <2>3. UNCHANGED <<program, slots>>
      BY <1>9, <1>10 DEF emitVars
    <2>4. q > m /\ F \in VReg => regs[X29] = slots[F]
      <3>1. MCProgress(vi, q)
        BY DEF Progress
      <3>2. q <= CoreAt(vi)
        BY <1>1, <1>3
      <3> QED
        BY <3>1, <3>2 DEF MCProgress
    <2> HIDE DEF vi, line, F, S, m, n
    <2>5. /\ q <= m => regs'[X29] = slots[F]
          /\ q > m => regs'[X29] = regs[X29] /\ regs'[X30] = slots[S]
      BY <1>1, <1>3, <1>5, <1>10, <2>1, <2>2
    <2>6. F \in VReg => regs'[X29] = slots[F]
      BY <1>1, <1>3, <2>4, <2>5
    <2>7. q + 1 = CoreAt(vi) /\ S \in VReg => regs'[X30] = slots[S]
      BY <1>1, <1>3, <2>5
    <2>8. q + 1 # CoreAt(vi) + 1
      BY <1>1, <1>3
    <2> QED
      BY <2>3, <2>6, <2>7, <2>8 DEF MCProgress, F, S, vi
  <1>13. Progress(vi, q + 1)'
    <2>1. vi' = vi
      BY <1>9 DEF emitVars
    <2> QED
      BY <1>12, <2>1 DEF Progress
  <1>14. RunInv' /\ VRegs' = slots' /\ ViewAt' = <<l, k>>
    BY <1>6, <1>7, <1>9, <1>10, <1>11, <1>13, ToNextLine
  <1>15. UNCHANGED VM!vmVars
    BY <1>8, <1>9, <1>10, <1>14, Stutters DEF emitVars
  <1> QED
    BY <1>14, <1>15 DEF Refines

(* The operands are where the core line reads them.                        *)
LEMMA CoreReads ==
  ASSUME NEW vi \in VInst, vi.kind = "MC", MCProgress(vi, CoreAt(vi))
  PROVE  /\ Reg(At29(First(vi))) = SlotRead(First(vi))
         /\ Reg(At30(Second(vi))) = SlotRead(Second(vi))
  <1>1. /\ CoreAt(vi) = Reloads(First(vi)) + Reloads(Second(vi)) + 1
        /\ Reloads(First(vi)) \in 0 .. 1 /\ Reloads(Second(vi)) \in 0 .. 1
    BY DEF CoreAt, Reloads
  <1>2. /\ First(vi) \in VReg => regs[X29] = slots[First(vi)]
        /\ Second(vi) \in VReg => regs[X30] = slots[Second(vi)]
    BY <1>1 DEF MCProgress
  <1> QED
    BY <1>2, OperandRead, MCOperands

LEMMA CoreResult ==
  ASSUME NEW vi \in VInst, vi.kind = "MC", vi.opc \notin StoreOps,
         MCProgress(vi, CoreAt(vi)), Line = Middle(vi)
  PROVE  LineResult = SlotResult(vi)
  <1>1. /\ Reg(At29(First(vi))) = SlotRead(First(vi))
        /\ Reg(At30(Second(vi))) = SlotRead(Second(vi))
    BY CoreReads
  <1>2. vi.opc \in ImmOps \cup RegOps \cup LoadOps \cup {"PseudoLA"}
    BY MCOperands
  <1>3. CASE vi.opc \in ImmOps
    <2>1. Line = [op |-> "alui", opc |-> vi.opc, rd |-> X29, rs |-> At29(First(vi)),
                  imm |-> vi.imm]
      BY <1>3 DEF Middle, ImmOps, RegOps, LoadOps, StoreOps
    <2>2. /\ Line.op = "alui" /\ Line.opc = vi.opc /\ Line.rs = At29(First(vi))
          /\ Line.imm = vi.imm
      BY <2>1
    <2>3. LineResult = Alu(vi.opc, Reg(At29(First(vi))), vi.imm)
      BY <2>2 DEF LineResult
    <2>4. First(vi) = vi.ops[2]
      BY <1>3 DEF First
    <2>5. SlotResult(vi) = Alu(vi.opc, SlotRead(vi.ops[2]), vi.imm)
      BY <1>3 DEF SlotResult, ImmOps, RegOps, LoadOps
    <2> QED
      BY <1>1, <2>3, <2>4, <2>5
  <1>4. CASE vi.opc \in RegOps
    <2>1. Line = [op |-> "alu", opc |-> vi.opc, rd |-> X29, rs |-> At29(First(vi)),
                  rt |-> At30(Second(vi))]
      BY <1>4 DEF Middle, ImmOps, RegOps, LoadOps, StoreOps
    <2>2. /\ Line.op = "alu" /\ Line.opc = vi.opc /\ Line.rs = At29(First(vi))
          /\ Line.rt = At30(Second(vi))
      BY <2>1
    <2>3. LineResult = Alu(vi.opc, Reg(At29(First(vi))), Reg(At30(Second(vi))))
      BY <2>2 DEF LineResult
    <2>4. First(vi) = vi.ops[2] /\ Second(vi) = vi.ops[3]
      BY <1>4 DEF First, Second
    <2>5. SlotResult(vi) = Alu(vi.opc, SlotRead(vi.ops[2]), SlotRead(vi.ops[3]))
      BY <1>4 DEF SlotResult, ImmOps, RegOps, LoadOps
    <2> QED
      BY <1>1, <2>3, <2>4, <2>5
  <1>5. CASE vi.opc \in LoadOps
    <2>1. Line = [op |-> "load", opc |-> vi.opc, rd |-> X29, base |-> At30(Second(vi))]
      BY <1>5 DEF Middle, ImmOps, RegOps, LoadOps, StoreOps
    <2>2. Line.op = "load" /\ Line.opc = vi.opc /\ Line.base = At30(Second(vi))
      BY <2>1
    <2>3. LineResult = LoadResult(vi.opc, mem[Reg(At30(Second(vi)))])
      BY <2>2 DEF LineResult
    <2>4. Second(vi) = vi.ops[2]
      BY <1>5 DEF Second, RegOps, LoadOps
    <2>5. SlotResult(vi) = LoadResult(vi.opc, mem[SlotRead(vi.ops[2])])
      BY <1>5 DEF SlotResult, ImmOps, RegOps, LoadOps
    <2> QED
      BY <1>1, <2>3, <2>4, <2>5
  <1>6. CASE vi.opc = "PseudoLA"
    <2>1. Line = [op |-> "la", rd |-> X29, sym |-> vi.sym]
      BY <1>6 DEF Middle, ImmOps, RegOps, LoadOps, StoreOps
    <2>2. Line.op = "la" /\ Line.sym = vi.sym
      BY <2>1
    <2> QED
      BY <1>6, <2>2 DEF LineResult, SlotResult, ImmOps, RegOps, LoadOps
  <1> QED
    BY <1>2, <1>3, <1>4, <1>5, <1>6

LEMMA CoreWrites ==
  ASSUME NEW vi \in VInst, vi.kind = "MC", vi.opc \notin StoreOps
  PROVE  Middle(vi).rd = X29 /\ Middle(vi).op \in {"la", "alui", "alu", "load"}
  <1>1. vi.opc \in ImmOps \cup RegOps \cup LoadOps \cup {"PseudoLA"}
    BY MCOperands
  <1> QED
    BY <1>1 DEF Middle, ImmOps, RegOps, LoadOps, StoreOps

(* The result is computed into the scratch register.                       *)
LEMMA MCCore ==
  ASSUME RegisterArguments, CompileInv, FilesInv, NEW l, NEW k, NEW st, NEW q,
         Pos(l, k, st, q), Progress(program[l][k], q), program[l][k].kind = "MC",
         program[l][k].opc \notin StoreOps, q = CoreAt(program[l][k]), RunNext
  PROVE  Refines
  <1> DEFINE vi == program[l][k]
             line == Code(vi)[q]
             next == Code(vi)[q + 1]
  <1>1. l \in Labels /\ k \in 1 .. Len(program[l]) /\ q \in 1 .. Len(Code(vi))
    BY DEF Pos
  <1>2. vi \in VInst
    BY <1>1, ProgramFacts
  <1>3. /\ Len(Code(vi)) = MCLength(vi) /\ CoreAt(vi) \in 1 .. 3
        /\ MCLength(vi) = CoreAt(vi) + 1
        /\ q + 1 \in 1 .. Len(Code(vi)) /\ q < Len(Code(vi))
    BY <1>2, MCCode, Lengths DEF MCLength
  <1>4. line = Middle(vi)
    <2>1. line = MCLine(vi, q)
      BY <1>1, <1>2, <1>3, MCCode
    <2>2. q = CoreAt(vi) /\ Reloads(First(vi)) \in 0 .. 1 /\ CoreAt(vi) > Reloads(First(vi))
      BY DEF CoreAt, Reloads
    <2> HIDE DEF vi, line
    <2> QED
      BY <1>3, <2>1, <2>2 DEF MCLine
  <1>5. line.rd = X29 /\ line.op \in {"la", "alui", "alu", "load"}
    BY <1>2, <1>4, CoreWrites
  <1>6. ~ InFlight(line) /\ ~ InFlight(next)
    BY <1>1, <1>2, <1>3, MCNotInFlight
  <1>7. VRegs = slots /\ ViewAt = <<l, k>>
    BY <1>6, Seen
  <1>8. RunRegister /\ UNCHANGED emitVars /\ Line = line
    BY <1>5, Runs
  <1>9. regs' = [regs EXCEPT ![X29] = SlotResult(vi)] /\ pc' = NextPC
        /\ UNCHANGED <<slots, mem, event>>
    <2>1. MCProgress(vi, CoreAt(vi))
      BY DEF Progress
    <2>2. LineResult = SlotResult(vi)
      BY <1>2, <1>4, <1>8, <2>1, CoreResult
    <2> QED
      BY <1>5, <1>8, <2>2 DEF RunRegister
  <1>10. FilesInv'
    BY FilesKept
  <1>11. Progress(vi, q + 1)'
    <2>1. regs'[X29] = SlotResult(vi)
      BY <1>9, RegisterFacts DEF FilesInv
    <2>2. UNCHANGED <<program, slots, mem>>
      BY <1>8, <1>9 DEF emitVars
    <2>3. SlotResult(vi)' = SlotResult(vi)
      BY <2>2 DEF SlotResult, SlotRead
    <2>4. ~(q + 1 <= CoreAt(vi))
      BY <1>3
    <2>5. MCProgress(vi, q + 1)'
      BY <2>1, <2>2, <2>3, <2>4 DEF MCProgress
    <2> QED
      BY <2>2, <2>5 DEF Progress
  <1>12. RunInv' /\ VRegs' = slots' /\ ViewAt' = <<l, k>>
    BY <1>3, <1>6, <1>8, <1>9, <1>10, <1>11, ToNextLine
  <1>13. UNCHANGED VM!vmVars
    BY <1>7, <1>8, <1>9, <1>12, Stutters DEF emitVars
  <1> QED
    BY <1>12, <1>13 DEF Refines

(* A store reaches the memory.                                             *)
LEMMA MCStoreRuns ==
  ASSUME RegisterArguments, CompileInv, FilesInv, NEW l, NEW k, NEW st, NEW q,
         Pos(l, k, st, q), Progress(program[l][k], q), program[l][k].kind = "MC",
         program[l][k].opc \in StoreOps, q = CoreAt(program[l][k]), RunNext
  PROVE  Refines
  <1> DEFINE vi == program[l][k]
             line == Code(vi)[q]
             base == SlotRead(vi.ops[2])
             val == SlotRead(vi.ops[1])
  <1>1. l \in Labels /\ k \in 1 .. Len(program[l]) /\ q \in 1 .. Len(Code(vi))
    BY DEF Pos
  <1>2. vi \in VInst
    BY <1>1, ProgramFacts
  <1>3. Len(Code(vi)) = MCLength(vi) /\ MCLength(vi) = q /\ CoreAt(vi) \in 1 .. 3
    BY <1>2, MCCode, Lengths DEF MCLength
  <1>4. line = Middle(vi)
    <2>1. line = MCLine(vi, q)
      BY <1>1, <1>2, <1>3, MCCode
    <2>2. q = CoreAt(vi) /\ Reloads(First(vi)) \in 0 .. 1 /\ CoreAt(vi) > Reloads(First(vi))
      BY DEF CoreAt, Reloads
    <2> HIDE DEF vi, line
    <2> QED
      BY <1>3, <2>1, <2>2 DEF MCLine
  <1>5. /\ line.op = "store" /\ line.opc = vi.opc
        /\ line.rs = At29(First(vi)) /\ line.base = At30(Second(vi))
    <2>1. line = [op |-> "store", opc |-> vi.opc, rs |-> At29(First(vi)),
                  base |-> At30(Second(vi))]
      BY <1>4 DEF Middle, ImmOps, RegOps, LoadOps, StoreOps
    <2> QED
      BY <2>1
  <1>6. ~ InFlight(line)
    BY <1>1, <1>2, MCNotInFlight
  <1>7. VRegs = slots /\ ViewAt = <<l, k>>
    BY <1>6, Seen
  <1>8. RunStore /\ UNCHANGED emitVars /\ Line = line
    <2>1. line.op = "store"
      BY <1>5
    <2> QED
      BY <2>1, Runs
  <1>9. Reg(line.base) = base /\ Reg(line.rs) = val
    <2>1. MCProgress(vi, CoreAt(vi))
      BY DEF Progress
    <2>2. /\ Reg(At29(First(vi))) = SlotRead(First(vi))
          /\ Reg(At30(Second(vi))) = SlotRead(Second(vi))
      BY <1>2, <2>1, CoreReads
    <2>3. First(vi) = vi.ops[1] /\ Second(vi) = vi.ops[2]
      BY DEF First, Second, ImmOps, RegOps, LoadOps, StoreOps
    <2> QED
      BY <1>5, <2>2, <2>3
  <1>10. /\ mem' = [mem EXCEPT ![base] = StoreResult(vi.opc, mem[base], val)]
         /\ pc' = NextPC /\ UNCHANGED <<slots, event>>
    BY <1>5, <1>8, <1>9 DEF RunStore
  <1>11. FilesInv'
    BY FilesKept
  <1>12. RunInv' /\ VRegs' = slots' /\ ViewAt' = <<l, k + 1>>
    BY <1>3, <1>8, <1>10, <1>11, ToNextInst
  <1>13. UNCHANGED <<program, event>> /\ VRegs' = slots
    BY <1>8, <1>10, <1>12 DEF emitVars
  <1>14. VM!Store
    BY <1>7, <1>10, <1>12, <1>13, Stores
  <1> QED
    BY <1>12, <1>14 DEF Refines, VM!Next

(* A result goes from the scratch register to its slot.                    *)
LEMMA MCStoresResult ==
  ASSUME RegisterArguments, CompileInv, FilesInv, NEW l, NEW k, NEW st, NEW q,
         Pos(l, k, st, q), Progress(program[l][k], q), program[l][k].kind = "MC",
         q > CoreAt(program[l][k]), RunNext
  PROVE  Refines
  <1> DEFINE vi == program[l][k]
             line == Code(vi)[q]
  <1>1. l \in Labels /\ k \in 1 .. Len(program[l]) /\ q \in 1 .. Len(Code(vi))
    BY DEF Pos
  <1>2. vi \in VInst
    BY <1>1, ProgramFacts
  <1>3. /\ Len(Code(vi)) = MCLength(vi) /\ MCLength(vi) = q /\ CoreAt(vi) \in 1 .. 3
        /\ q = CoreAt(vi) + 1 /\ vi.opc \notin StoreOps
    <2>1. /\ Len(Code(vi)) = MCLength(vi) /\ CoreAt(vi) \in 1 .. 3
          /\ MCLength(vi) = CoreAt(vi) + (IF vi.opc \in StoreOps THEN 0 ELSE 1)
      BY <1>2, MCCode, Lengths DEF MCLength
    <2>2. q \in 1 .. MCLength(vi) /\ q > CoreAt(vi)
      BY <1>1, <2>1
    <2> HIDE DEF vi
    <2> QED
      BY <2>1, <2>2
  <1>4. line = [op |-> "sdslot", rs |-> X29, slot |-> vi.ops[1]]
    <2>1. line = MCLine(vi, q)
      BY <1>1, <1>2, <1>3, MCCode
    <2>2. Reloads(First(vi)) \in 0 .. 1 /\ CoreAt(vi) > Reloads(First(vi))
      BY DEF CoreAt, Reloads
    <2> HIDE DEF vi, line
    <2> QED
      BY <1>3, <2>1, <2>2 DEF MCLine
  <1>5. line.op = "sdslot" /\ line.rs = X29 /\ line.slot = vi.ops[1]
    BY <1>4
  <1>6. ~ InFlight(line)
    BY <1>1, <1>2, MCNotInFlight
  <1>7. VRegs = slots /\ ViewAt = <<l, k>>
    BY <1>6, Seen
  <1>8. RunStoreSlot /\ UNCHANGED emitVars /\ Line = line
    BY <1>5, Runs
  <1>9. regs[X29] = SlotResult(vi)
    BY <1>3 DEF Progress, MCProgress
  <1>10. /\ slots' = [slots EXCEPT ![vi.ops[1]] = SlotResult(vi)]
         /\ pc' = NextPC /\ UNCHANGED <<mem, event>>
    BY <1>5, <1>8, <1>9 DEF RunStoreSlot
  <1>11. FilesInv'
    BY FilesKept
  <1>12. RunInv' /\ VRegs' = slots' /\ ViewAt' = <<l, k + 1>>
    BY <1>3, <1>8, <1>10, <1>11, ToNextInst
  <1>13. UNCHANGED program
    BY <1>8 DEF emitVars
  <1>14. VM!Compute
    BY <1>2, <1>3, <1>7, <1>10, <1>12, <1>13, Computes
  <1> QED
    BY <1>12, <1>14 DEF Refines, VM!Next

LEMMA MCRuns ==
  ASSUME RegisterArguments, CompileInv, FilesInv, NEW l, NEW k, NEW st, NEW q,
         Pos(l, k, st, q), Progress(program[l][k], q), program[l][k].kind = "MC", RunNext
  PROVE  Refines
  <1>1. q \in Nat /\ CoreAt(program[l][k]) \in Nat
    <2>1. l \in Labels /\ k \in 1 .. Len(program[l]) /\ q \in 1 .. Len(Code(program[l][k]))
      BY DEF Pos
    <2>2. program[l][k] \in VInst
      BY <2>1, ProgramFacts
    <2> QED
      BY <2>1, <2>2, MCCode
  <1>2. CASE q < CoreAt(program[l][k])
    BY <1>2, MCReloads
  <1>3. CASE q = CoreAt(program[l][k])
    BY <1>3, MCCore, MCStoreRuns
  <1>4. CASE q > CoreAt(program[l][k])
    BY <1>4, MCStoresResult
  <1> QED
    BY <1>1, <1>2, <1>3, <1>4

(* A line that only writes a register is not seen.                         *)
LEMMA Unseen ==
  ASSUME RegisterArguments, CompileInv, FilesInv, NEW l, NEW k, NEW st, NEW q,
         Pos(l, k, st, q), q < Len(Code(program[l][k])), RunNext,
         Code(program[l][k])[q].op \in {"ldslot", "mv"},
         Code(program[l][k])[q + 1].op # "sdslot", Progress(program[l][k], q + 1)'
  PROVE  Refines
  <1> DEFINE line == Code(program[l][k])[q]
             next == Code(program[l][k])[q + 1]
  <1>1. ~ InFlight(line) /\ ~ InFlight(next)
    BY DEF InFlight
  <1>2. VRegs = slots /\ ViewAt = <<l, k>>
    BY <1>1, Seen
  <1>3. RunRegister /\ UNCHANGED emitVars
    BY Runs
  <1>4. pc' = NextPC /\ UNCHANGED <<slots, mem, event>>
    BY <1>3 DEF RunRegister
  <1>5. FilesInv'
    BY FilesKept
  <1>6. RunInv' /\ VRegs' = slots' /\ ViewAt' = <<l, k>>
    BY <1>1, <1>3, <1>4, <1>5, ToNextLine
  <1>7. UNCHANGED VM!vmVars
    BY <1>2, <1>3, <1>4, <1>6, Stutters DEF emitVars
  <1> QED
    BY <1>6, <1>7 DEF Refines

(* What a reload puts where.                                               *)
LEMMA Loaded ==
  ASSUME FilesInv, NEW l, NEW k, NEW st, NEW q, Pos(l, k, st, q), RunNext,
         NEW rd \in Regs, NEW slot,
         Code(program[l][k])[q] = [op |-> "ldslot", rd |-> rd, slot |-> slot]
  PROVE  /\ regs'[rd] = slots[slot]
         /\ \A r \in Regs : r # rd => regs'[r] = regs[r]
         /\ UNCHANGED <<program, slots>>
  <1> DEFINE line == Code(program[l][k])[q]
  <1>1. line.op = "ldslot" /\ line.rd = rd /\ line.slot = slot
    OBVIOUS
  <1>2. RunRegister /\ Line = line /\ UNCHANGED emitVars
    BY <1>1, Runs
  <1>3. LineResult = slots[slot]
    BY <1>1, <1>2 DEF LineResult
  <1>4. regs' = [regs EXCEPT ![rd] = slots[slot]] /\ UNCHANGED <<program, slots>>
    BY <1>1, <1>2, <1>3 DEF RunRegister, emitVars
  <1> QED
    BY <1>4 DEF FilesInv

LEMMA BranchRuns ==
  ASSUME RegisterArguments, CompileInv, FilesInv, NEW l, NEW k, NEW st, NEW q,
         Pos(l, k, st, q), Progress(program[l][k], q), program[l][k].kind = "BrCond",
         RunNext
  PROVE  Refines
  <1> DEFINE vi == program[l][k]
             line == Code(vi)[q]
  <1>1. l \in Labels /\ k \in 1 .. Len(program[l]) /\ q \in 1 .. Len(Code(vi))
    BY DEF Pos
  <1>2. vi \in VInst /\ vi.cond \in VReg /\ vi.onZero \in BOOLEAN /\ vi.sym \in Labels
    <2>1. vi \in VInst /\ vi.sym \in Labels
      BY <1>1, ProgramFacts
    <2>2. vi \in [kind : {"BrCond"}, cond : VReg, sym : Sym, onZero : BOOLEAN]
      BY <2>1 DEF VInst
    <2> QED
      BY <2>1, <2>2
  <1>3. /\ Len(Code(vi)) = 2 /\ q \in 1 .. 2
        /\ Code(vi)[1] = [op |-> "ldslot", rd |-> X29, slot |-> vi.cond]
        /\ Code(vi)[2] = [op |-> IF vi.onZero THEN "beqz" ELSE "bnez",
                           rs |-> X29, sym |-> vi.sym]
    BY <1>1, <1>2, BranchCode, Lengths
  <1>4. /\ Code(vi)[2].op = (IF vi.onZero THEN "beqz" ELSE "bnez")
        /\ Code(vi)[2].rs = X29 /\ Code(vi)[2].sym = vi.sym
    BY <1>3
  <1>5. CASE q = 1
    <2>1. regs'[X29] = slots[vi.cond] /\ UNCHANGED <<program, slots>>
      BY <1>3, <1>5, Loaded, RegisterFacts
    <2>2. Progress(vi, 1 + 1)'
      BY <2>1 DEF Progress
    <2>3. Code(vi)[1].op = "ldslot" /\ Code(vi)[1 + 1].op # "sdslot" /\ 1 < Len(Code(vi))
      BY <1>3, <1>4
    <2> QED
      BY <1>5, <2>2, <2>3, Unseen
  <1>6. CASE q = 2
    <2>1. line.op \in {"beqz", "bnez"} /\ (line.op = "beqz" <=> vi.onZero)
          /\ line.rs = X29 /\ line.sym = vi.sym
      BY <1>4, <1>6
    <2>2. VRegs = slots /\ ViewAt = <<l, k>>
      BY <2>1, Seen DEF InFlight
    <2>3. RunBranch /\ UNCHANGED emitVars /\ Line = line
      BY <2>1, Runs
    <2>4. Reg(line.rs) = SlotRead(vi.cond)
      <3>1. regs[X29] = slots[vi.cond]
        BY <1>6 DEF Progress
      <3> QED
        BY <1>2, <2>1, <3>1, RegisterFacts, EmitAsmAssumption DEF Reg, SlotRead
    <2>5. /\ UNCHANGED <<slots, mem, event, program>>
          /\ pc' = IF (SlotRead(vi.cond) = 0) = vi.onZero THEN <<vi.sym, 1>> ELSE NextPC
      <3>1. (line.op = "beqz") = vi.onZero
        BY <1>2, <2>1
      <3> QED
        BY <2>1, <2>3, <2>4, <3>1 DEF RunBranch, emitVars
    <2>6. FilesInv'
      BY FilesKept
    <2>7. /\ RunInv' /\ VRegs' = slots'
          /\ ViewAt' = IF (SlotRead(vi.cond) = 0) = vi.onZero THEN <<vi.sym, 1>>
                                                            ELSE <<l, k + 1>>
      <3>1. CASE (SlotRead(vi.cond) = 0) = vi.onZero
        <4>1. pc' = <<vi.sym, 1>> /\ phase' = "run" /\ CompileInv'
          BY <2>3, <2>5, <3>1, RunKeepsText DEF Pos, emitVars
        <4> QED
          BY <1>2, <2>5, <2>6, <3>1, <4>1, ToLabel
      <3>2. CASE ~ ((SlotRead(vi.cond) = 0) = vi.onZero)
        <4>1. pc' = NextPC
          BY <2>5, <3>2
        <4> QED
          BY <1>3, <1>6, <2>3, <2>6, <3>2, <4>1, ToNextInst
      <3> QED
        BY <3>1, <3>2
    <2>8. VM!Branch
      BY <2>2, <2>5, <2>7, Branches
    <2> QED
      BY <2>7, <2>8 DEF Refines, VM!Next
  <1> QED
    BY <1>3, <1>5, <1>6

LEMMA JumpRuns ==
  ASSUME RegisterArguments, CompileInv, FilesInv, NEW l, NEW k, NEW st, NEW q,
         Pos(l, k, st, q), program[l][k].kind = "BrUncond", RunNext
  PROVE  Refines
  <1> DEFINE vi == program[l][k]
             line == Code(vi)[q]
  <1>1. l \in Labels /\ k \in 1 .. Len(program[l]) /\ q \in 1 .. Len(Code(vi))
    BY DEF Pos
  <1>2. vi.sym \in Labels
    BY <1>1, ProgramFacts
  <1>3. q = 1 /\ line = [op |-> "j", sym |-> vi.sym]
    BY <1>1, JumpCode, Lengths
  <1>4. line.op = "j" /\ line.sym = vi.sym
    BY <1>3
  <1>5. VRegs = slots /\ ViewAt = <<l, k>>
    BY <1>4, Seen DEF InFlight
  <1>6. RunJump /\ UNCHANGED emitVars /\ Line = line
    BY <1>4, Runs
  <1>7. pc' = <<vi.sym, 1>> /\ UNCHANGED <<slots, mem, event, program>> /\ phase' = "run"
    BY <1>4, <1>6 DEF RunJump, emitVars, Pos
  <1>8. FilesInv' /\ CompileInv'
    BY FilesKept, RunKeepsText
  <1>9. RunInv' /\ VRegs' = slots' /\ ViewAt' = <<vi.sym, 1>>
    BY <1>2, <1>7, <1>8, ToLabel
  <1>10. VM!Jump
    BY <1>5, <1>7, <1>9, Jumps
  <1> QED
    BY <1>9, <1>10 DEF Refines, VM!Next

LEMMA RetRuns ==
  ASSUME RegisterArguments, CompileInv, FilesInv, NEW l, NEW k, NEW st, NEW q,
         Pos(l, k, st, q), Progress(program[l][k], q), program[l][k].kind = "Ret", RunNext
  PROVE  Refines
  <1> DEFINE vi == program[l][k]
             line == Code(vi)[q]
  <1>1. l \in Labels /\ k \in 1 .. Len(program[l]) /\ q \in 1 .. Len(Code(vi))
    BY DEF Pos
  <1>2. vi.ret \in VReg \cup {NoReg}
    BY <1>1, ProgramFacts, RetOperand
  <1>3. ASSUME line.op = "ret", line.hasRet <=> vi.ret # NoReg,
               vi.ret # NoReg => regs[A0] = slots[vi.ret]
        PROVE  Refines
    <2>1. VRegs = slots /\ ViewAt = <<l, k>>
      BY <1>3, Seen DEF InFlight
    <2>2. RunRet /\ UNCHANGED emitVars /\ Line = line
      BY <1>3, Runs
    <2>3. vi.ret # NoReg => regs[A0] = SlotRead(vi.ret)
      BY <1>2, <1>3, EmitAsmAssumption DEF SlotRead
    <2>4. /\ event' = IF vi.ret = NoReg THEN <<"ret">> ELSE <<"ret", SlotRead(vi.ret)>>
          /\ pc' = Done /\ UNCHANGED <<slots, mem, program>>
      BY <1>3, <2>2, <2>3 DEF RunRet, emitVars
    <2>5. ViewAt' = Done /\ RunInv'
      BY <2>4 DEF ViewAt, RunInv
    <2>6. VRegs' = slots
      <3>1. \A v \in VReg : View(v)' = slots[v]
        BY <2>4 DEF View
      <3> QED
        BY <3>1 DEF VRegs, FilesInv
    <2>7. VM!Return
      BY <2>1, <2>4, <2>5, <2>6, Returns
    <2> QED
      BY <2>5, <2>7 DEF Refines, VM!Next
  <1>4. CASE vi.ret = NoReg
    <2>0. IsSeq(Code(vi), 1) /\ Code(vi)[1] = [op |-> "ret", hasRet |-> FALSE]
      BY <1>4, RetCode
    <2>1. Code(vi)[1].op = "ret" /\ ~ Code(vi)[1].hasRet
      BY <2>0
    <2>2. q = 1
      BY <1>1, <2>0, Lengths
    <2> QED
      BY <1>3, <1>4, <2>1, <2>2
  <1>5. CASE vi.ret \in VReg
    <2>1. /\ Len(Code(vi)) = 2 /\ q \in 1 .. 2
          /\ Code(vi)[1] = [op |-> "ldslot", rd |-> A0, slot |-> vi.ret]
          /\ Code(vi)[2] = [op |-> "ret", hasRet |-> TRUE]
      BY <1>1, <1>5, RetCode, Lengths
    <2>2. Code(vi)[1].op = "ldslot" /\ Code(vi)[2].op = "ret" /\ Code(vi)[2].hasRet
      BY <2>1
    <2>3. CASE q = 1
      <3>1. regs'[A0] = slots[vi.ret] /\ UNCHANGED <<program, slots>>
        BY <2>1, <2>3, Loaded, RegisterFacts
      <3>2. Progress(vi, 1 + 1)'
        BY <3>1 DEF Progress
      <3>3. Code(vi)[1 + 1].op # "sdslot" /\ 1 < Len(Code(vi))
        BY <2>1, <2>2
      <3> QED
        BY <2>2, <2>3, <3>2, <3>3, Unseen
    <2>4. CASE q = 2
      <3>1. line.op = "ret" /\ line.hasRet /\ vi.ret # NoReg
        BY <1>5, <2>2, <2>4, NoRegAssumption
      <3>2. regs[A0] = slots[vi.ret]
        BY <2>4 DEF Progress
      <3> QED
        BY <1>3, <3>1, <3>2
    <2> QED
      BY <2>1, <2>3, <2>4
  <1> QED
    BY <1>2, <1>4, <1>5

(* The lines of a call that move its arguments.                            *)
LEMMA ArgumentMoves ==
  ASSUME RegisterArguments, CompileInv, FilesInv, NEW l, NEW k, NEW st, NEW q,
         Pos(l, k, st, q), Progress(program[l][k], q), program[l][k].kind = "Call",
         q <= 2 * Len(program[l][k].args), RunNext
  PROVE  Refines
  <1> DEFINE vi == program[l][k]
             n == Len(vi.args)
             line == Code(vi)[q]
             next == Code(vi)[q + 1]
  <1>1. l \in Labels /\ k \in 1 .. Len(program[l]) /\ q \in 1 .. Len(Code(vi))
    BY DEF Pos
  <1>2. vi \in VInst /\ InRegisters(vi)
    BY <1>1, ProgramFacts
  <1>3. n \in Nat /\ n <= Len(ArgRegs) /\ Len(ArgRegs) \in Nat
    BY <1>2, CallOperands, RegisterFacts DEF InRegisters
  <1>4. CallCodeIs(Code(vi), vi)
    BY <1>2, CallCode
  <1>5. Len(Code(vi)) = CallLength(vi) /\ CallLength(vi) >= 2 * n + 1
    <2>1. CallLength(vi) = 2 * n + 1 + 0 \/ CallLength(vi) = 2 * n + 1 + 1
      BY DEF CallLength
    <2>2. Len(Code(vi)) = CallLength(vi)
      BY <1>4, Lengths DEF CallCodeIs
    <2> HIDE DEF n, vi
    <2> QED
      BY <1>3, <2>1, <2>2
  <1>6. /\ \A i \in 1 .. n :
             /\ Code(vi)[2 * i - 1] = [op |-> "ldslot", rd |-> X29, slot |-> vi.args[i]]
             /\ Code(vi)[2 * i] = [op |-> "mv", rd |-> ArgRegs[i], rs |-> X29]
        /\ Code(vi)[2 * n + 1].op = "call"
    BY <1>4 DEF CallCodeIs
  <1>7. /\ \A i \in 1 .. n : Code(vi)[2 * i - 1].op = "ldslot" /\ Code(vi)[2 * i].op = "mv"
        /\ \A i \in 1 .. n : Code(vi)[2 * i].rd = ArgRegs[i] /\ Code(vi)[2 * i].rs = X29
    <2> SUFFICES ASSUME NEW i \in 1 .. n
                 PROVE  /\ Code(vi)[2 * i - 1].op = "ldslot" /\ Code(vi)[2 * i].op = "mv"
                        /\ Code(vi)[2 * i].rd = ArgRegs[i] /\ Code(vi)[2 * i].rs = X29
      OBVIOUS
    <2> DEFINE reload == Code(vi)[2 * i - 1]
               move == Code(vi)[2 * i]
    <2>1. /\ reload = [op |-> "ldslot", rd |-> X29, slot |-> vi.args[i]]
          /\ move = [op |-> "mv", rd |-> ArgRegs[i], rs |-> X29]
      BY <1>6
    <2> HIDE DEF reload, move
    <2>2. reload.op = "ldslot" /\ move.op = "mv" /\ move.rd = ArgRegs[i] /\ move.rs = X29
      BY <2>1
    <2> QED
      BY <2>2 DEF reload, move
  <1>8. \A j \in 1 .. n :
          /\ 2 * j < q => regs[ArgRegs[j]] = slots[vi.args[j]]
          /\ 2 * j = q => regs[X29] = slots[vi.args[j]]
    <2>1. q <= 2 * n + 1
      BY <1>1, <1>3, <1>5
    <2> QED
      BY <2>1 DEF Progress, CallProgress
  <1>9. \A j \in 1 .. n : ArgRegs[j] \in Regs /\ ArgRegs[j] # X29
    BY <1>3, RegisterFacts
  <1>10. \A i, j \in 1 .. n : ArgRegs[i] = ArgRegs[j] => i = j
    BY <1>3, RegisterFacts
  <1>11. q \in 1 .. 2 * n /\ q < Len(Code(vi))
    BY <1>1, <1>3, <1>5
  <1>12. PICK i \in 1 .. n : q = 2 * i - 1 \/ q = 2 * i
    <2> DEFINE i == (q + 1) \div 2
    <2> HIDE DEF n
    <2>1. i \in 1 .. n /\ (q = 2 * i - 1 \/ q = 2 * i)
      BY <1>3, <1>11
    <2> QED
      BY <2>1
  <1>13. UNCHANGED <<program, slots>>
    <2>1. line.op \in {"ldslot", "mv"}
      BY <1>7, <1>12
    <2>2. RunRegister /\ UNCHANGED emitVars
      BY <2>1, Runs
    <2> QED
      BY <2>2 DEF RunRegister, emitVars
  <1>14. ASSUME \A j \in 1 .. n :
                  /\ 2 * j < q + 1 => regs'[ArgRegs[j]] = slots[vi.args[j]]
                  /\ 2 * j = q + 1 => regs'[X29] = slots[vi.args[j]],
                line.op \in {"ldslot", "mv"}, next.op # "sdslot"
         PROVE  Refines
    <2>1. CallProgress(vi, q + 1)'
      BY <1>13, <1>14 DEF CallProgress
    <2>2. Progress(vi, q + 1)'
      BY <1>13, <2>1 DEF Progress
    <2> QED
      BY <1>11, <1>14, <2>2, Unseen
  <1>15. CASE q = 2 * i - 1
    <2>1. line = [op |-> "ldslot", rd |-> X29, slot |-> vi.args[i]]
      BY <1>6, <1>15
    <2>2. /\ regs'[X29] = slots[vi.args[i]]
          /\ \A r \in Regs : r # X29 => regs'[r] = regs[r]
      BY <2>1, Loaded, RegisterFacts
    <2>3. q + 1 = 2 * i
      BY <1>11, <1>15
    <2>4. line.op = "ldslot" /\ next.op = "mv"
      BY <1>7, <1>15, <2>3
    <2>5. ASSUME NEW j \in 1 .. n
          PROVE  /\ 2 * j < q + 1 => regs'[ArgRegs[j]] = slots[vi.args[j]]
                 /\ 2 * j = q + 1 => regs'[X29] = slots[vi.args[j]]
      <3>1. regs'[ArgRegs[j]] = regs[ArgRegs[j]]
        BY <1>9, <2>2
      <3>2. 2 * j < q + 1 => 2 * j < q
        BY <1>3, <1>11, <1>15
      <3>3. 2 * j = q + 1 => j = i
        BY <1>3, <2>3
      <3> QED
        BY <1>8, <2>2, <3>1, <3>2, <3>3
    <2> QED
      BY <1>14, <2>4, <2>5
  <1>16. CASE q = 2 * i
    <2>1. line.op = "mv" /\ line.rd = ArgRegs[i] /\ line.rs = X29
      BY <1>7, <1>16
    <2>2. regs' = [regs EXCEPT ![ArgRegs[i]] = regs[X29]]
      <3>1. RunRegister /\ Line = line
        BY <2>1, Runs
      <3>2. LineResult = regs[X29]
        BY <2>1, <3>1, RegisterFacts DEF LineResult, Reg
      <3> QED
        BY <2>1, <3>1, <3>2 DEF RunRegister
    <2>3. /\ regs'[ArgRegs[i]] = slots[vi.args[i]]
          /\ \A j \in 1 .. n : j # i => regs'[ArgRegs[j]] = regs[ArgRegs[j]]
      BY <1>8, <1>9, <1>10, <1>16, <2>2 DEF FilesInv
    <2>4. next.op # "sdslot"
      <3>1. CASE i = n
        <4>1. q + 1 = 2 * n + 1
          BY <1>16, <3>1
        <4> QED
          BY <1>6, <4>1
      <3>2. CASE i # n
        <4> HIDE DEF n
        <4>1. i + 1 \in 1 .. n /\ q + 1 = 2 * (i + 1) - 1
          BY <1>3, <1>16, <3>2
        <4>2. Code(vi)[2 * (i + 1) - 1].op = "ldslot"
          BY <1>7, <4>1
        <4> QED
          BY <4>1, <4>2
      <3> QED
        BY <3>1, <3>2
    <2>5. ASSUME NEW j \in 1 .. n
          PROVE  /\ 2 * j < q + 1 => regs'[ArgRegs[j]] = slots[vi.args[j]]
                 /\ 2 * j = q + 1 => regs'[X29] = slots[vi.args[j]]
      <3>1. 2 * j < q + 1 => j = i \/ (j # i /\ 2 * j < q)
        BY <1>3, <1>16
      <3>2. 2 * j # q + 1
        BY <1>3, <1>16
      <3> QED
        BY <1>8, <2>3, <3>1, <3>2
    <2> QED
      BY <1>14, <2>1, <2>4, <2>5
  <1> QED
    BY <1>12, <1>15, <1>16

(* The call itself: the callee finds the arguments in the registers.       *)
LEMMA CallLine ==
  ASSUME RegisterArguments, CompileInv, FilesInv, NEW l, NEW k, NEW st, NEW q,
         Pos(l, k, st, q), Progress(program[l][k], q), program[l][k].kind = "Call",
         q = 2 * Len(program[l][k].args) + 1, RunNext
  PROVE  Refines
  <1> DEFINE vi == program[l][k]
             n == Len(vi.args)
             line == Code(vi)[q]
             next == Code(vi)[q + 1]
             passed == [i \in DOMAIN vi.args |-> SlotRead(vi.args[i])]
  <1>1. l \in Labels /\ k \in 1 .. Len(program[l]) /\ q \in 1 .. Len(Code(vi))
    BY DEF Pos
  <1>2. vi \in VInst /\ InRegisters(vi)
    BY <1>1, ProgramFacts
  <1>3. /\ n \in Nat /\ n <= Len(ArgRegs) /\ Len(ArgRegs) \in Nat
        /\ vi.args \in Seq(VReg) /\ DOMAIN vi.args = 1 .. n
        /\ vi.ret \in VReg \cup {NoReg}
    BY <1>2, CallOperands, RegisterFacts DEF InRegisters
  <1>4. CallCodeIs(Code(vi), vi) /\ Len(Code(vi)) = CallLength(vi)
    BY <1>2, CallCode, Lengths DEF CallCodeIs
  <1>5. line.op = "call" /\ line.sym = vi.sym /\ line.nargs = n
    <2>1. line = [op |-> "call", sym |-> vi.sym, nargs |-> n]
      BY <1>4 DEF CallCodeIs
    <2> QED
      BY <2>1
  <1>6. \A i \in 1 .. n : regs[ArgRegs[i]] = slots[vi.args[i]]
    <2>1. \A i \in 1 .. n : 2 * i < q /\ q <= 2 * n + 1
      BY <1>3
    <2> QED
      BY <2>1 DEF Progress, CallProgress
  <1>7. VRegs = slots /\ ViewAt = <<l, k>>
    BY <1>5, Seen DEF InFlight
  <1>8. RunCall /\ UNCHANGED emitVars /\ Line = line
    <2>1. line.op = "call"
      BY <1>5
    <2> QED
      BY <2>1, Runs
  <1>9. [i \in 1 .. line.nargs |-> IncomingArg(i)] = passed
    <2>1. ASSUME NEW i \in 1 .. n PROVE IncomingArg(i) = SlotRead(vi.args[i])
      <3>1. i <= Len(ArgRegs) /\ vi.args[i] \in VReg
        BY <1>3
      <3> QED
        BY <1>6, <3>1, EmitAsmAssumption DEF IncomingArg, SlotRead
    <2> QED
      BY <1>3, <1>5, <2>1
  <1> HIDE DEF passed
  <1>10. /\ event' = <<"call", vi.sym, passed>> /\ pc' = NextPC
         /\ UNCHANGED <<slots, mem, program>>
    BY <1>5, <1>8, <1>9 DEF RunCall, emitVars
  <1>11. PICK result \in Value : regs'[A0] = result
    <2>1. PICK result \in Value, junk \in Value :
            regs' = [r \in Regs |-> IF r = A0 THEN result ELSE junk]
      BY <1>8 DEF RunCall
    <2> QED
      BY <2>1, RegisterFacts
  <1>12. FilesInv'
    BY FilesKept
  <1>13. /\ RunInv' /\ ViewAt' = <<l, k + 1>>
         /\ IF vi.ret = NoReg THEN VRegs' = slots
            ELSE VRegs' = [slots EXCEPT ![vi.ret] = result]
    <2>1. CASE vi.ret = NoReg
      <3>1. CallLength(vi) = q + 0
        BY <2>1 DEF CallLength
      <3>2. q = Len(Code(vi))
        <4> HIDE DEF vi
        <4> QED
          BY <1>1, <1>4, <3>1
      <3> QED
        BY <1>8, <1>10, <1>12, <2>1, <3>2, ToNextInst
    <2>2. CASE vi.ret # NoReg
      <3>1. CallLength(vi) = q + 1
        BY <2>2 DEF CallLength
      <3>2. q < Len(Code(vi)) /\ q + 1 = 2 * n + 2
        BY <1>3, <1>4, <3>1
      <3>3. next = [op |-> "sdslot", rs |-> A0, slot |-> vi.ret]
        BY <1>4, <2>2, <3>2 DEF CallCodeIs
      <3>4. InFlight(next) /\ next.slot = vi.ret
        BY <3>3 DEF InFlight
      <3>5. Progress(vi, q + 1)'
        <4>1. ~ (q + 1 <= 2 * n + 1)
          BY <1>3
        <4> QED
          BY <1>10, <4>1 DEF Progress, CallProgress
      <3>6. /\ RunInv' /\ ViewAt' = <<l, k + 1>>
            /\ VRegs' = [slots' EXCEPT ![next.slot] = regs'[A0]]
        BY <1>8, <1>10, <1>12, <3>2, <3>4, <3>5, ToNextLine
      <3> QED
        BY <1>10, <1>11, <2>2, <3>4, <3>6
    <2> QED
      BY <2>1, <2>2
  <1>14. VM!CallStep
    BY <1>7, <1>10, <1>13, CallsOut DEF passed
  <1> QED
    BY <1>13, <1>14 DEF Refines, VM!Next

(* The result was seen from when the callee returned it.                   *)
LEMMA ResultLine ==
  ASSUME RegisterArguments, CompileInv, FilesInv, NEW l, NEW k, NEW st, NEW q,
         Pos(l, k, st, q), program[l][k].kind = "Call",
         q > 2 * Len(program[l][k].args) + 1, RunNext
  PROVE  Refines
  <1> DEFINE vi == program[l][k]
             n == Len(vi.args)
             line == Code(vi)[q]
  <1>1. l \in Labels /\ k \in 1 .. Len(program[l]) /\ q \in 1 .. Len(Code(vi))
    BY DEF Pos
  <1>2. vi \in VInst /\ InRegisters(vi)
    BY <1>1, ProgramFacts
  <1>3. n \in Nat /\ vi.ret \in VReg \cup {NoReg}
    BY <1>2, CallOperands
  <1>4. CallCodeIs(Code(vi), vi) /\ Len(Code(vi)) = CallLength(vi)
    BY <1>2, CallCode, Lengths DEF CallCodeIs
  <1>5. q = 2 * n + 2 /\ q = Len(Code(vi)) /\ vi.ret # NoReg
    <2>1. /\ vi.ret = NoReg => CallLength(vi) = 2 * n + 1 + 0
          /\ vi.ret # NoReg => CallLength(vi) = 2 * n + 1 + 1
      BY DEF CallLength
    <2>2. q > 2 * n + 1
      OBVIOUS
    <2> HIDE DEF n, vi
    <2> QED
      BY <1>1, <1>3, <1>4, <2>1, <2>2
  <1>6. line = [op |-> "sdslot", rs |-> A0, slot |-> vi.ret]
    BY <1>4, <1>5 DEF CallCodeIs
  <1>7. line.op = "sdslot" /\ line.rs = A0 /\ line.slot = vi.ret
    BY <1>6
  <1>8. VRegs = [slots EXCEPT ![vi.ret] = regs[A0]] /\ ViewAt = <<l, k + 1>>
    BY <1>7, Seen DEF InFlight
  <1>9. RunStoreSlot /\ UNCHANGED emitVars /\ Line = line
    BY <1>7, Runs
  <1>10. /\ slots' = [slots EXCEPT ![vi.ret] = regs[A0]]
         /\ pc' = NextPC /\ UNCHANGED <<mem, event, program>>
    BY <1>7, <1>9 DEF RunStoreSlot, emitVars
  <1>11. FilesInv'
    BY FilesKept
  <1>12. RunInv' /\ VRegs' = slots' /\ ViewAt' = <<l, k + 1>>
    BY <1>5, <1>9, <1>10, <1>11, ToNextInst
  <1>13. UNCHANGED VM!vmVars
    BY <1>8, <1>10, <1>12, Stutters
  <1> QED
    BY <1>12, <1>13 DEF Refines

LEMMA CallRuns ==
  ASSUME RegisterArguments, CompileInv, FilesInv, NEW l, NEW k, NEW st, NEW q,
         Pos(l, k, st, q), Progress(program[l][k], q), program[l][k].kind = "Call", RunNext
  PROVE  Refines
  <1> DEFINE n == Len(program[l][k].args)
  <1>1. q \in Nat /\ n \in Nat
    <2>1. l \in Labels /\ k \in 1 .. Len(program[l]) /\ q \in 1 .. Len(Code(program[l][k]))
      BY DEF Pos
    <2>2. program[l][k] \in VInst
      BY <2>1, ProgramFacts
    <2> QED
      BY <2>1, <2>2, CallOperands
  <1>2. CASE q <= 2 * n
    BY <1>2, ArgumentMoves
  <1>3. CASE q = 2 * n + 1
    BY <1>3, CallLine
  <1>4. CASE q > 2 * n + 1
    BY <1>4, ResultLine
  <1> HIDE DEF n
  <1> QED
    BY <1>1, <1>2, <1>3, <1>4

--------------------------------------------------------------------------------
(* The run as a whole.                                                     *)

(* While a function is compiled its run has not begun.                     *)
NotStarted == phase # "run" => pc = <<Entry, 1>> /\ event = <<"none">>

RefinementInv == CompileInv /\ FilesInv /\ RunInv /\ NotStarted

LEMMA RunRefines ==
  ASSUME RegisterArguments, RefinementInv, RunNext
  PROVE  RefinementInv' /\ [VM!Next]_(VM!vmVars)
  <1>1. CompileInv' /\ FilesInv'
    BY RunKeepsText, FilesKept DEF RefinementInv
  <1>2. phase = "run" /\ pc # Done
    BY DEF RunNext, RunRegister, RunStoreSlot, RunStore, RunCall, RunRet, RunJump,
           RunBranch, Running
  <1>3. NotStarted'
    <2>1. UNCHANGED emitVars
      BY RunKeepsText DEF RefinementInv
    <2> QED
      BY <1>2, <2>1 DEF NotStarted, emitVars
  <1>4. Refines
    <2>1. PICK l, k, st, q : Pos(l, k, st, q) /\ Progress(program[l][k], q)
      BY <1>2 DEF RefinementInv, RunInv
    <2>2. program[l][k] \in VInst
      BY <2>1, ProgramFacts DEF Pos, RefinementInv
    <2>3. program[l][k].kind \in {"MC", "Call", "Ret", "BrUncond", "BrCond"}
      BY <2>2 DEF VInst
    <2> QED
      BY <2>1, <2>3, MCRuns, CallRuns, RetRuns, JumpRuns, BranchRuns DEF RefinementInv
  <1> QED
    BY <1>1, <1>3, <1>4 DEF RefinementInv, Refines

LEMMA CompileRefines ==
  ASSUME RegisterArguments, RefinementInv, NextBlock \/ AllocateBlock \/ EmitNext \/ BlockDone
  PROVE  RefinementInv' /\ UNCHANGED VM!vmVars
  <1> USE DEF RefinementInv
  <1>1. /\ phase # "run" /\ UNCHANGED <<program, regs, slots, mem, pc, event>>
    BY DEF NextBlock, AllocateBlock, EmitNext, BlockDone, machineVars
  <1>2. CompileInv' /\ FilesInv'
    BY <1>1, NextBlockCompiles, AllocateBlockCompiles, EmitNextCompiles,
       BlockDoneCompiles DEF FilesInv
  <1>3. pc = <<Entry, 1>> /\ event = <<"none">> /\ Entry \in Labels
    BY <1>1, EmitAsmAssumption DEF NotStarted
  <1>4. VRegs = slots /\ ViewAt = <<Entry, 1>>
    BY <1>1, <1>3 DEF VRegs, View, ViewAt, FilesInv, Done
  <1>5. NotStarted'
    BY <1>1, <1>3 DEF NotStarted
  <1>6. RunInv' /\ VRegs' = slots' /\ ViewAt' = <<Entry, 1>>
    <2>1. CASE phase' # "run"
      BY <1>1, <1>2, <1>3, <2>1 DEF RunInv, VRegs, View, ViewAt, FilesInv, Done
    <2>2. CASE phase' = "run"
      BY <1>1, <1>2, <1>3, <2>2, ToLabel
    <2> QED
      BY <2>1, <2>2
  <1>7. UNCHANGED VM!vmVars
    BY <1>1, <1>4, <1>6, Stutters
  <1> QED
    BY <1>2, <1>5, <1>6, <1>7

(* Whatever a function computes, loads, stores, calls and branches on: the *)
(* printed text does what its MIR says, for every layout of its blocks,    *)
(* every machine word and every memory (EmitAsm.cpp as a whole, in the     *)
(* mode the allocator ships with).  Every register a line reads holds what *)
(* the line that reloaded it put there, and every value is in its slot     *)
(* when the next instruction, the callee or the caller looks for it.       *)
THEOREM EmittedCodeIsFaithful ==
  ASSUME Shipped, RegisterArguments
  PROVE  Spec => ImplementsVMachine
  <1>1. Init => RefinementInv /\ VM!Init
    <2> SUFFICES ASSUME Init PROVE RefinementInv /\ VM!Init
      OBVIOUS
    <2>1. CompileInv
      BY CompileStarts
    <2>2. phase = "block" /\ pc = <<Entry, 1>> /\ event = <<"none">>
      BY DEF Init
    <2>3. slots \in [VReg -> Value] /\ slots \in InitRegs /\ mem \in InitMems
      BY EmitAsmAssumption DEF Init
    <2>4. FilesInv
      BY <2>3 DEF Init, FilesInv
    <2>5. RefinementInv
      BY <2>1, <2>2, <2>4 DEF RefinementInv, RunInv, NotStarted
    <2>6. VRegs = slots /\ ViewAt = <<Entry, 1>>
      BY <2>2, <2>4 DEF VRegs, View, ViewAt, FilesInv, Done
    <2>7. VM!Init
      BY <2>2, <2>3, <2>6 DEF VM!Init, VM!NoEvent, VRegs
    <2> QED
      BY <2>5, <2>7
  <1>2. RefinementInv /\ [Next]_vars => RefinementInv' /\ [VM!Next]_(VM!vmVars)
    <2> SUFFICES ASSUME RefinementInv, [Next]_vars
                 PROVE  RefinementInv' /\ [VM!Next]_(VM!vmVars)
      OBVIOUS
    <2>1. CASE RunNext
      BY <2>1, RunRefines
    <2>2. CASE NextBlock \/ AllocateBlock \/ EmitNext \/ BlockDone
      BY <2>2, CompileRefines
    <2>3. CASE UNCHANGED vars
      <3>1. UNCHANGED <<allocVars, emitVars, machineVars>>
        BY <2>3 DEF vars
      <3>2. CompileInv' /\ FilesInv' /\ NotStarted'
        BY <3>1 DEF RefinementInv, CompileInv, Allocated, Position, TextInv, Emitted,
                    FilesInv, NotStarted, allocVars, emitVars, machineVars
      <3>4. RunInv'
        <4>1. \A l, k, st, q : Pos(l, k, st, q)' <=> Pos(l, k, st, q)
          BY <3>1 DEF Pos, emitVars, machineVars
        <4>2. \A vi, q : Progress(vi, q)' <=> Progress(vi, q)
          <5>1. \A vi : SlotResult(vi)' = SlotResult(vi)
            BY <3>1 DEF SlotResult, SlotRead, machineVars
          <5> QED
            BY <3>1, <5>1 DEF Progress, MCProgress, CallProgress, machineVars
        <4> QED
          BY <3>1, <4>1, <4>2 DEF RefinementInv, RunInv, emitVars, machineVars
      <3>3. UNCHANGED VM!vmVars
        BY <3>1 DEF VM!vmVars, View, ViewAt, ResultInFlight, Running, Line, CurTag,
                    emitVars, machineVars
      <3> QED
        BY <3>2, <3>3, <3>4 DEF RefinementInv
    <2> QED
      BY <2>1, <2>2, <2>3 DEF Next, RunNext
  <1> QED
    BY <1>1, <1>2, PTL DEF Spec, ImplementsVMachine, VM!Spec
================================================================================
