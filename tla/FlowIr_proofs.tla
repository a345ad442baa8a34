------------------------------ MODULE FlowIr_proofs ------------------------------
(***************************************************************************)
(* What the operators of FlowIr that the passes are built from do to a     *)
(* well-formed function.                                                   *)
(***************************************************************************)
EXTENDS FlowIr, FiniteSetTheorems, SequenceTheorems, TLAPS

--------------------------------------------------------------------------------
(* Induction, for sets of numbers: what the provers cannot take as a       *)
(* predicate they take as a set.                                           *)

LEMMA LeastNumber ==
  ASSUME NEW T \in SUBSET Nat, T # {}
  PROVE  \E x \in T : \A y \in T : x <= y
<1>1. PICK x \in T : \A y \in T : ~(<<y, x>> \in OpToRel(<, Nat))
  BY WFMin, NatLessThanWellFounded
<1>2. ASSUME NEW y \in T PROVE ~(y < x)
  <2>1. OpToRel(<, Nat) = {ss \in Nat \X Nat : ss[1] < ss[2]}
    BY SMT DEF OpToRel
  <2>2. ~(<<y, x>> \in {ss \in Nat \X Nat : ss[1] < ss[2]})
    BY <1>1, <2>1, Zenon
  <2> QED BY <2>2, SMT
<1> QED BY <1>2

LEMMA Induct ==
  ASSUME NEW T, 0 \in T, \A n \in Nat : n \in T => n + 1 \in T
  PROVE  \A n \in Nat : n \in T
<1> SUFFICES ASSUME NEW m \in Nat, m \notin T PROVE FALSE
  OBVIOUS
<1> DEFINE B == {n \in Nat : n \notin T}
<1>1. PICK x \in B : \A y \in B : x <= y
  BY LeastNumber
<1>2. x # 0 /\ x - 1 \in Nat /\ x - 1 \notin B
  BY <1>1
<1> QED BY <1>1, <1>2

--------------------------------------------------------------------------------
(* Kept: a map from the positions of the result to those of the sequence.  *)

Picks(e, s, K, t) ==
  /\ e \in [1 .. Len(t) -> DOMAIN s \cap K]
  /\ \A j, k \in 1 .. Len(t) : j < k => e[j] < e[k]
  /\ \A k \in 1 .. Len(t) : t[k] = s[e[k]]
  /\ \A n \in DOMAIN s \cap K : \E k \in 1 .. Len(t) : e[k] = n

KeptEq(g, s, K, n) ==
  g = [i \in 0 .. n |-> IF i = 0 THEN <<>>
                         ELSE IF i \in K THEN Append(g[i - 1], s[i]) ELSE g[i - 1]]

LEMMA KeptExists ==
  ASSUME NEW s, NEW K, NEW n \in Nat
  PROVE  \E g : KeptEq(g, s, K, n)
<1> DEFINE T == {m \in Nat : \E g : KeptEq(g, s, K, m)}
<1>1. 0 \in T
  <2>1. KeptEq([i \in 0 .. 0 |-> <<>>], s, K, 0)
    BY DEF KeptEq
  <2> QED BY <2>1
<1>2. ASSUME NEW m \in Nat, m \in T PROVE m + 1 \in T
  <2>1. PICK g : KeptEq(g, s, K, m)
    BY <1>2
  <2> DEFINE h == [i \in 0 .. m + 1 |-> IF i <= m THEN g[i]
                     ELSE IF m + 1 \in K THEN Append(g[m], s[m + 1]) ELSE g[m]]
  <2>2. ASSUME NEW i \in 0 .. m + 1
        PROVE  h[i] = IF i = 0 THEN <<>>
                      ELSE IF i \in K THEN Append(h[i - 1], s[i]) ELSE h[i - 1]
    <3>1. CASE i = 0
      BY <3>1, <2>1 DEF KeptEq
    <3>2. CASE i # 0 /\ i <= m
      <4>1. i \in 0 .. m /\ i - 1 \in 0 .. m /\ i - 1 \in 0 .. m + 1
        BY <3>2
      <4>2. h[i] = g[i] /\ h[i - 1] = g[i - 1]
        BY <4>1
      <4>3. g[i] = IF i \in K THEN Append(g[i - 1], s[i]) ELSE g[i - 1]
        BY <2>1, <3>2, <4>1 DEF KeptEq
      <4> QED BY <3>2, <4>2, <4>3
    <3>3. CASE i = m + 1
      <4>1. m \in 0 .. m + 1 /\ m + 1 \in 0 .. m + 1 /\ i - 1 = m /\ i # 0
        BY <3>3
      <4>2. h[m] = g[m] /\ h[m + 1] = IF m + 1 \in K THEN Append(g[m], s[m + 1]) ELSE g[m]
        BY <4>1
      <4> QED BY <3>3, <4>1, <4>2
    <3> QED BY <3>1, <3>2, <3>3
  <2>3. KeptEq(h, s, K, m + 1)
    BY <2>2 DEF KeptEq
  <2> HIDE DEF h
  <2> QED BY <2>3
<1>3. \A m \in Nat : m \in T
  <2> HIDE DEF T
  <2> QED BY <1>1, <1>2, Induct
<1> QED BY <1>3

LEMMA KeptPicks ==
  ASSUME NEW S, NEW s \in Seq(S), NEW K
  PROVE  Kept(s, K) \in Seq(S) /\ \E e : Picks(e, s, K, Kept(s, K))
<1> DEFINE N == Len(s)
           g == CHOOSE g : KeptEq(g, s, K, N)
<1>0. N \in Nat /\ DOMAIN s = 1 .. N
  OBVIOUS
<1>1. KeptEq(g, s, K, N)
  BY <1>0, KeptExists
<1>r. \A i \in 0 .. N : g[i] = IF i = 0 THEN <<>>
        ELSE IF i \in K THEN Append(g[i - 1], s[i]) ELSE g[i - 1]
  <2> HIDE DEF g
  <2> QED BY <1>1 DEF KeptEq
<1>2. Kept(s, K) = g[N]
  BY DEF Kept, KeptEq
<1> HIDE DEF g
<1> DEFINE Good(m, e) ==
             /\ g[m] \in Seq(S)
             /\ e \in [1 .. Len(g[m]) -> (1 .. m) \cap K]
             /\ \A j, k \in 1 .. Len(g[m]) : j < k => e[j] < e[k]
             /\ \A k \in 1 .. Len(g[m]) : g[m][k] = s[e[k]]
             /\ \A n \in (1 .. m) \cap K : \E k \in 1 .. Len(g[m]) : e[k] = n
           T == {m \in Nat : m <= N => \E e : Good(m, e)}
<1>3. 0 \in T
  <2>1. g[0] = <<>>
    BY <1>0, <1>1 DEF KeptEq
  <2>2. Good(0, <<>>)
    BY <2>1
  <2> QED BY <2>2
<1>4. ASSUME NEW m \in Nat, m \in T PROVE m + 1 \in T
  <2> SUFFICES ASSUME m + 1 <= N PROVE \E e : Good(m + 1, e)
    <3> HIDE DEF Good, N
    <3> QED OBVIOUS
  <2>1. PICK e : Good(m, e)
    <3> HIDE DEF Good
    <3>1. m <= N
      BY <1>0
    <3> HIDE DEF N
    <3> QED BY <1>4, <3>1
  <2>0. m + 1 \in 0 .. N /\ m + 1 # 0 /\ m + 1 - 1 = m
    BY <1>0
  <2>2. g[m + 1] = IF m + 1 \in K THEN Append(g[m], s[m + 1]) ELSE g[m]
    <3> HIDE DEF N
    <3> QED BY <1>r, <2>0
  <2>3. s[m + 1] \in S
    BY <1>0
  <2>l. PICK L \in Nat : L = Len(g[m])
    BY <2>1
  <2>4. CASE m + 1 \notin K
    <3>1. g[m + 1] = g[m]
      BY <2>2, <2>4
    <3>2. (1 .. m + 1) \cap K = (1 .. m) \cap K
      BY <2>4
    <3>3. Good(m + 1, e)
      BY <2>1, <3>1, <3>2
    <3> QED BY <3>3
  <2>5. CASE m + 1 \in K
    <3> DEFINE d == [k \in 1 .. L + 1 |-> IF k = L + 1 THEN m + 1 ELSE e[k]]
    <3>1. /\ g[m + 1] \in Seq(S) /\ Len(g[m + 1]) = L + 1
          /\ g[m + 1][L + 1] = s[m + 1]
          /\ \A k \in 1 .. L : g[m + 1][k] = g[m][k]
      BY <2>1, <2>2, <2>3, <2>5, <2>l, AppendProperties
    <3>2. \A k \in 1 .. L : e[k] \in (1 .. m) \cap K
      BY <2>1, <2>l
    <3>3. d \in [1 .. L + 1 -> (1 .. m + 1) \cap K]
      BY <2>5, <3>2
    <3>4. ASSUME NEW j \in 1 .. L + 1, NEW k \in 1 .. L + 1, j < k PROVE d[j] < d[k]
      <4>1. j \in 1 .. L /\ d[j] = e[j] /\ e[j] \in 1 .. m
        BY <3>2, <3>4
      <4>2. CASE k = L + 1
        BY <4>1, <4>2
      <4>3. CASE k # L + 1
        <5>1. k \in 1 .. L /\ d[k] = e[k]
          BY <4>3
        <5> QED BY <4>1, <5>1, <2>1, <2>l, <3>4
      <4> QED BY <4>2, <4>3
    <3>5. \A k \in 1 .. L + 1 : g[m + 1][k] = s[d[k]]
      <4> TAKE k \in 1 .. L + 1
      <4>1. CASE k = L + 1
        <5>1. d[L + 1] = m + 1
          BY <2>l
        <5> QED BY <4>1, <3>1, <5>1
      <4>2. CASE k # L + 1
        <5>1. k \in 1 .. L /\ d[k] = e[k]
          BY <4>2, <2>l
        <5> QED BY <5>1, <3>1, <2>1, <2>l
      <4> QED BY <4>1, <4>2
    <3>6. \A n \in (1 .. m + 1) \cap K : \E k \in 1 .. L + 1 : d[k] = n
      <4> TAKE n \in (1 .. m + 1) \cap K
      <4>1. CASE n = m + 1
        <5>1. L + 1 \in 1 .. L + 1 /\ d[L + 1] = m + 1
          BY <2>l
        <5> QED BY <4>1, <5>1
      <4>2. CASE n # m + 1
        <5>1. PICK k \in 1 .. L : e[k] = n
          BY <4>2, <2>1, <2>l
        <5>2. k \in 1 .. L + 1 /\ d[k] = e[k]
          BY <5>1, <2>l
        <5> QED BY <5>1, <5>2
      <4> QED BY <4>1, <4>2
    <3>7. Good(m + 1, d)
      BY <3>1, <3>3, <3>4, <3>5, <3>6
    <3> QED BY <3>7
  <2> QED BY <2>4, <2>5
<1>5. \A m \in Nat : m \in T
  <2> HIDE DEF T
  <2> QED BY <1>3, <1>4, Induct
<1>6. PICK e : Good(N, e)
  <2>1. \E e : Good(N, e)
    <3> HIDE DEF Good
    <3> QED BY <1>0, <1>5
  <2> QED BY <2>1
<1>7. Len(g[N]) = Len(Kept(s, K)) /\ DOMAIN s \cap K = (1 .. N) \cap K
  BY <1>0, <1>2
<1>8. Picks(e, s, K, Kept(s, K))
  BY <1>2, <1>6, <1>7 DEF Picks
<1> QED BY <1>2, <1>6, <1>8

(* The last position that is kept gives the last element.                  *)
LEMMA KeptLast ==
  ASSUME NEW S, NEW s \in Seq(S), NEW K, NEW n \in DOMAIN s \cap K,
         \A k \in DOMAIN s \cap K : k <= n
  PROVE  Kept(s, K) # <<>> /\ Last(Kept(s, K)) = s[n]
<1>1. PICK e : Picks(e, s, K, Kept(s, K))
  BY KeptPicks
<1>2. PICK t : t = Kept(s, K)
  OBVIOUS
<1>3. t \in Seq(S)
  BY <1>2, KeptPicks
<1>4. PICK L \in Nat : L = Len(t)
  BY <1>3
<1>5. PICK k \in 1 .. L : e[k] = n
  BY <1>1, <1>2, <1>4 DEF Picks
<1>6. k = L
  <2> SUFFICES ASSUME k < L PROVE FALSE
    BY <1>5
  <2>1. e[L] \in DOMAIN s \cap K /\ e[k] < e[L]
    BY <1>1, <1>2, <1>4, <1>5 DEF Picks
  <2> QED BY <2>1, <1>5
<1>7. t # <<>> /\ t[L] = s[n]
  BY <1>1, <1>2, <1>4, <1>5, <1>6 DEF Picks
<1> QED BY <1>2, <1>4, <1>7 DEF Last

--------------------------------------------------------------------------------
(* An instruction, a block and a function after a step of a pass: its      *)
(* instructions are new or, but for operands, instructions it had; those   *)
(* that are gone are named.                                                *)

Lasting == {"id", "op", "to", "then", "else", "callee"}
Same(i, j) ==
  /\ DOMAIN i = DOMAIN j
  /\ \A a \in DOMAIN i : a \in Lasting => i[a] = j[a]

Inherits(d, c, new, gone) ==
  /\ d \in Seq(ToSet(d))
  /\ \A n \in DOMAIN d : \/ d[n].id \in new /\ Instruction(d[n])
                         \/ \E m \in DOMAIN c : Same(d[n], c[m])
  /\ \A m \in DOMAIN c : c[m].id \in gone \/ \E n \in DOMAIN d : Same(d[n], c[m])
  /\ \A m, n \in DOMAIN d : d[m].id = d[n].id => m = n

Follows(g, f, new, gone) ==
  /\ DOMAIN g = DOMAIN f /\ g.name = f.name /\ g.layout = f.layout
  /\ DOMAIN g.code = Blocks(f)
  /\ \A b \in Blocks(f) : Inherits(g.code[b], f.code[b], new, gone)
  /\ \A b, c \in Blocks(f) : \A n \in DOMAIN g.code[b], m \in DOMAIN g.code[c] :
       g.code[b][n].id = g.code[c][m].id /\ g.code[b][n].id \in new => b = c

Targets(t) ==
  CASE t.op = "br"     -> {t.to}
    [] t.op = "condbr" -> {t.then, t.else}
    [] OTHER           -> {}
Ends(c, B) == c # <<>> /\ Terminator(Last(c)) /\ Targets(Last(c)) \subseteq B

Shaped(f) == LabelsDiffer(f) /\ BlocksEnd(f) /\ NamesDiffer(f)

LEMMA SameFields ==
  ASSUME NEW i, NEW j, Instruction(j), Same(i, j)
  PROVE  /\ Instruction(i) /\ i.id = j.id /\ i.op = j.op
         /\ Terminator(i) <=> Terminator(j)
         /\ Targets(i) = Targets(j)
         /\ i.op = "call" => i.callee = j.callee
<1>1. i.id = j.id /\ i.op = j.op
  BY DEF Same, Lasting, Instruction
<1>2. Instruction(i)
  BY <1>1 DEF Same, Instruction
<1>3. Terminator(i) <=> Terminator(j)
  BY <1>1 DEF Terminator
<1>4. i.op = "br" => i.to = j.to
  BY <1>1, <1>2 DEF Same, Lasting, Instruction
<1>5. i.op = "condbr" => i.then = j.then /\ i.else = j.else
  BY <1>1, <1>2 DEF Same, Lasting, Instruction
<1>6. Targets(i) = Targets(j)
  BY <1>1, <1>4, <1>5 DEF Targets
<1>7. i.op = "call" => i.callee = j.callee
  BY <1>1, <1>2 DEF Same, Lasting, Instruction
<1> QED BY <1>1, <1>2, <1>3, <1>6, <1>7

LEMMA SuccessorsAre ==
  ASSUME NEW f, NEW b
  PROVE  ToSet(Successors(f, b)) = Targets(Last(f.code[b]))
BY DEF Successors, Targets, ToSet

LEMMA BlockOK ==
  ASSUME NEW f, Shaped(f), NEW b \in Blocks(f)
  PROVE  /\ f.code[b] \in Seq(ToSet(f.code[b]))
         /\ Len(f.code[b]) \in Nat \ {0} /\ DOMAIN f.code[b] = 1 .. Len(f.code[b])
         /\ Last(f.code[b]) = f.code[b][Len(f.code[b])]
         /\ \A n \in DOMAIN f.code[b] : Instruction(f.code[b][n])
         /\ Ends(f.code[b], Blocks(f))
         /\ b \in DOMAIN f.code /\ b # NoBlock
<1>1. f.code[b] \in Seq(ToSet(f.code[b])) /\ f.code[b] # <<>>
  BY DEF Shaped, BlocksEnd
<1>2. Len(f.code[b]) \in Nat \ {0} /\ DOMAIN f.code[b] = 1 .. Len(f.code[b])
  BY <1>1
<1>3. Last(f.code[b]) = f.code[b][Len(f.code[b])]
  BY DEF Last
<1>4. \A n \in DOMAIN f.code[b] : Instruction(f.code[b][n])
  BY DEF Shaped, BlocksEnd
<1>5. Ends(f.code[b], Blocks(f))
  BY <1>1, SuccessorsAre DEF Shaped, BlocksEnd, Ends
<1> QED BY <1>1, <1>2, <1>3, <1>4, <1>5 DEF Shaped, LabelsDiffer

LEMMA SameSuccessors ==
  ASSUME NEW f, Shaped(f), NEW b \in Blocks(f), NEW g, Same(Last(g.code[b]), Last(f.code[b]))
  PROVE  Successors(g, b) = Successors(f, b)
<1>1. PICK i, j : i = Last(g.code[b]) /\ j = Last(f.code[b])
  OBVIOUS
<1>2. Instruction(j) /\ Same(i, j)
  BY <1>1, BlockOK
<1>3. i.op = j.op
  BY <1>2 DEF Same, Instruction, Lasting
<1>4. i.op = "br" => i.to = j.to
  BY <1>2, <1>3 DEF Same, Instruction, Lasting
<1>5. i.op = "condbr" => i.then = j.then /\ i.else = j.else
  BY <1>2, <1>3 DEF Same, Instruction, Lasting
<1> QED BY <1>1, <1>3, <1>4, <1>5 DEF Successors

LEMMA ShapedWhen ==
  ASSUME NEW f, LabelsDiffer(f), NamesDiffer(f),
         \A b \in Blocks(f) :
           /\ f.code[b] \in Seq(ToSet(f.code[b]))
           /\ \A n \in DOMAIN f.code[b] : Instruction(f.code[b][n])
           /\ Ends(f.code[b], Blocks(f))
  PROVE  Shaped(f)
<1>1. BlocksEnd(f)
  BY SuccessorsAre DEF BlocksEnd, Ends
<1> QED BY <1>1 DEF Shaped

LEMMA FollowsShaped ==
  ASSUME NEW f, NEW g, NEW new, NEW gone, Shaped(f), Follows(g, f, new, gone),
         new \cap Ids(f) = {},
         \A b \in Blocks(f) : Ends(g.code[b], Blocks(f))
  PROVE  Shaped(g) /\ Blocks(g) = Blocks(f)
<1>1. Blocks(g) = Blocks(f)
  BY DEF Follows, Blocks
<1>2. LabelsDiffer(g)
  BY <1>1 DEF Follows, Shaped, LabelsDiffer
<1>3. ASSUME NEW b \in Blocks(f), NEW n \in DOMAIN g.code[b]
      PROVE  \/ g.code[b][n].id \in new /\ Instruction(g.code[b][n])
             \/ \E m \in DOMAIN f.code[b] : /\ Instruction(g.code[b][n])
                                            /\ g.code[b][n].id = f.code[b][m].id
                                            /\ g.code[b][n].id \notin new
  <2>1. CASE \E m \in DOMAIN f.code[b] : Same(g.code[b][n], f.code[b][m])
    <3>1. PICK m \in DOMAIN f.code[b] : Same(g.code[b][n], f.code[b][m])
      BY <2>1
    <3>2. Instruction(g.code[b][n]) /\ g.code[b][n].id = f.code[b][m].id
      BY <3>1, SameFields, BlockOK
    <3>3. f.code[b][m].id \in Ids(f)
      BY DEF Ids, Instructions, ToSet
    <3> QED BY <3>2, <3>3
  <2> QED BY <2>1 DEF Follows, Inherits
<1>4. NamesDiffer(g)
  <2> SUFFICES ASSUME NEW b \in Blocks(f), NEW c \in Blocks(f),
                      NEW n \in DOMAIN g.code[b], NEW m \in DOMAIN g.code[c],
                      g.code[b][n].id = g.code[c][m].id
               PROVE  b = c /\ n = m
    BY <1>1 DEF NamesDiffer
  <2>1. b = c
    <3>1. CASE g.code[b][n].id \in new
      BY <3>1 DEF Follows
    <3>2. CASE g.code[b][n].id \notin new
      <4>1. PICK k \in DOMAIN f.code[b] : g.code[b][n].id = f.code[b][k].id
        BY <3>2, <1>3
      <4>2. PICK l \in DOMAIN f.code[c] : g.code[c][m].id = f.code[c][l].id
        BY <3>2, <1>3
      <4>3. f.code[b][k].id = f.code[c][l].id
        BY <4>1, <4>2
      <4>4. NamesDiffer(f)
        BY DEF Shaped
      <4> QED BY <4>3, <4>4 DEF NamesDiffer
    <3> QED BY <3>1, <3>2
  <2> QED BY <2>1 DEF Follows, Inherits
<1>5. ASSUME NEW b \in Blocks(g)
      PROVE  /\ g.code[b] \in Seq(ToSet(g.code[b]))
             /\ \A n \in DOMAIN g.code[b] : Instruction(g.code[b][n])
             /\ Ends(g.code[b], Blocks(g))
  <2>1. g.code[b] \in Seq(ToSet(g.code[b]))
    BY <1>1 DEF Follows, Inherits
  <2>2. \A n \in DOMAIN g.code[b] : Instruction(g.code[b][n])
    BY <1>1, <1>3
  <2> QED BY <1>1, <2>1, <2>2
<1> QED BY <1>1, <1>2, <1>4, <1>5, ShapedWhen

(* What is asked of instructions by name stays true of them.               *)
At(f, b, n) == f.code[b][n]
Only(f, ids, ops) ==
  \A b \in Blocks(f) : \A n \in DOMAIN f.code[b] : At(f, b, n).id \in ids => At(f, b, n).op \in ops
Has(f, b, id, op) == \E n \in DOMAIN f.code[b] : At(f, b, n).id = id /\ At(f, b, n).op = op

LEMMA FollowsIds ==
  ASSUME NEW f, NEW g, NEW new, NEW gone, Shaped(f), Follows(g, f, new, gone)
  PROVE  Ids(g) \subseteq Ids(f) \cup new
<1> SUFFICES ASSUME NEW b \in Blocks(f), NEW n \in DOMAIN g.code[b]
             PROVE  g.code[b][n].id \in Ids(f) \cup new
  BY DEF Ids, Instructions, ToSet, Follows, Blocks
<1>1. CASE \E m \in DOMAIN f.code[b] : Same(g.code[b][n], f.code[b][m])
  <2>1. PICK m \in DOMAIN f.code[b] : Same(g.code[b][n], f.code[b][m])
    BY <1>1
  <2>2. g.code[b][n].id = f.code[b][m].id
    BY <2>1, SameFields, BlockOK
  <2> QED BY <2>2 DEF Ids, Instructions, ToSet
<1> QED BY <1>1 DEF Follows, Inherits

LEMMA FollowsOnly ==
  ASSUME NEW f, NEW g, NEW new, NEW gone, Shaped(f), Follows(g, f, new, gone),
         NEW ids, NEW ops, Only(f, ids, ops), ids \cap new = {}
  PROVE  Only(g, ids, ops)
<1> SUFFICES ASSUME NEW b \in Blocks(f), NEW n \in DOMAIN g.code[b], g.code[b][n].id \in ids
             PROVE  g.code[b][n].op \in ops
  BY DEF Only, At, Follows, Blocks
<1>1. PICK m \in DOMAIN f.code[b] : Same(g.code[b][n], f.code[b][m])
  BY DEF Follows, Inherits
<1>2. g.code[b][n].id = f.code[b][m].id /\ g.code[b][n].op = f.code[b][m].op
  BY <1>1, SameFields, BlockOK
<1> QED BY <1>2 DEF Only, At

Kin(c, i) ==
  \E n \in DOMAIN c : /\ c[n].id = i.id /\ c[n].op = i.op
                      /\ c[n].op = "call" => c[n].callee = i.callee

LEMMA FollowsHas ==
  ASSUME NEW f, NEW g, NEW new, NEW gone, Shaped(f), Follows(g, f, new, gone),
         NEW b \in Blocks(f), NEW m \in DOMAIN f.code[b], NEW i, i = f.code[b][m], i.id \notin gone
  PROVE  Kin(g.code[b], i)
<1>1. PICK n \in DOMAIN g.code[b] : Same(g.code[b][n], i)
  BY DEF Follows, Inherits
<1>2. Instruction(i)
  BY BlockOK
<1> QED BY <1>1, <1>2, SameFields DEF Kin

LEMMA InstIs ==
  ASSUME NEW f, Shaped(f), NEW b \in Blocks(f), NEW n \in DOMAIN f.code[b]
  PROVE  /\ BlockOf(f, f.code[b][n].id) = b /\ IndexOf(f, f.code[b][n].id) = n
         /\ Inst(f, f.code[b][n].id) = f.code[b][n]
<1> DEFINE id == f.code[b][n].id
<1>1. f.code[b][n] \in ToSet(f.code[b])
  BY DEF ToSet
<1>2. \A c \in Blocks(f) : (\E i \in ToSet(f.code[c]) : i.id = id) => c = b
  BY DEF ToSet, Shaped, NamesDiffer
<1>3. BlockOf(f, id) = b
  BY <1>1, <1>2 DEF BlockOf
<1>4. IndexOf(f, id) = n
  BY <1>3 DEF IndexOf, Shaped, NamesDiffer
<1> QED BY <1>3, <1>4 DEF Inst

--------------------------------------------------------------------------------
(* What the passes do to blocks: erase, rewrite, insert.                   *)

LEMMA NamesOfBlock ==
  ASSUME NEW f, Shaped(f), NEW b \in Blocks(f)
  PROVE  \A m, n \in DOMAIN f.code[b] : f.code[b][m].id = f.code[b][n].id => m = n
BY DEF Shaped, NamesDiffer

LEMMA EraseBlock ==
  ASSUME NEW c, c \in Seq(ToSet(c)), NEW ids, NEW d,
         \A m, n \in DOMAIN c : c[m].id = c[n].id => m = n,
         d = Kept(c, {n \in DOMAIN c : c[n].id \notin ids})
  PROVE  /\ Inherits(d, c, {}, ids)
         /\ \A n \in DOMAIN d : d[n].id \notin ids
<1> DEFINE K == {n \in DOMAIN c : c[n].id \notin ids}
<1>1. d \in Seq(ToSet(c)) /\ \E e : Picks(e, c, K, d)
  BY KeptPicks
<1>2. PICK e : Picks(e, c, K, d)
  BY <1>1
<1>3. DOMAIN d = 1 .. Len(d) /\ Len(d) \in Nat
  BY <1>1
<1>4. \A n \in DOMAIN d : e[n] \in DOMAIN c /\ d[n] = c[e[n]] /\ c[e[n]].id \notin ids
  BY <1>2, <1>3 DEF Picks
<1>5. d \in Seq(ToSet(d))
  <2>1. \A n \in 1 .. Len(d) : d[n] \in ToSet(d)
    BY <1>3 DEF ToSet
  <2> QED BY <1>1, <2>1, <1>3, ElementOfSeq, IsASeq, LenProperties
<1>6. \A n \in DOMAIN d : \E m \in DOMAIN c : Same(d[n], c[m])
  BY <1>4 DEF Same
<1>7. ASSUME NEW m \in DOMAIN c, c[m].id \notin ids PROVE \E n \in DOMAIN d : Same(d[n], c[m])
  <2>1. m \in DOMAIN c \cap K
    BY <1>7
  <2>2. PICK n \in 1 .. Len(d) : e[n] = m
    BY <1>2, <2>1 DEF Picks
  <2> QED BY <1>3, <1>4, <2>2 DEF Same
<1>8. ASSUME NEW m \in DOMAIN d, NEW n \in DOMAIN d, d[m].id = d[n].id PROVE m = n
  <2>1. e[m] = e[n]
    BY <1>4, <1>8
  <2>2. ~(m < n) /\ ~(n < m)
    <3>1. \A k \in DOMAIN c \cap K : ~(k < k)
      OBVIOUS
    <3> QED BY <2>1, <1>2, <1>3, <3>1 DEF Picks
  <2> QED BY <2>2, <1>3
<1> QED BY <1>4, <1>5, <1>6, <1>7, <1>8 DEF Inherits

LEMMA EraseFollows ==
  ASSUME NEW f, Shaped(f), NEW ids,
         \A b \in Blocks(f) : Ends(Erase(f, ids).code[b], Blocks(f))
  PROVE  /\ Follows(Erase(f, ids), f, {}, ids)
         /\ Shaped(Erase(f, ids)) /\ Blocks(Erase(f, ids)) = Blocks(f)
         /\ Ids(Erase(f, ids)) \cap ids = {}
<1> DEFINE g == Erase(f, ids)
<1>1. DOMAIN g = DOMAIN f /\ g.name = f.name /\ g.layout = f.layout /\ DOMAIN g.code = Blocks(f)
  BY DEF Erase, Shaped, LabelsDiffer
<1>2. \A b \in Blocks(f) :
        g.code[b] = Kept(f.code[b], {n \in DOMAIN f.code[b] : f.code[b][n].id \notin ids})
  BY DEF Erase, Shaped, LabelsDiffer
<1>3. \A b \in Blocks(f) : /\ Inherits(g.code[b], f.code[b], {}, ids)
                           /\ \A n \in DOMAIN g.code[b] : g.code[b][n].id \notin ids
  <2> TAKE b \in Blocks(f)
  <2> HIDE DEF g
  <2>1. PICK c, d : c = f.code[b] /\ d = g.code[b]
    OBVIOUS
  <2>2. c \in Seq(ToSet(c)) /\ d = Kept(c, {n \in DOMAIN c : c[n].id \notin ids})
    BY <1>2, <2>1, BlockOK
  <2>3. \A m, n \in DOMAIN c : c[m].id = c[n].id => m = n
    BY <2>1, NamesOfBlock
  <2>4. Inherits(d, c, {}, ids) /\ \A n \in DOMAIN d : d[n].id \notin ids
    BY <2>2, <2>3, EraseBlock
  <2> QED BY <2>1, <2>4
<1>4. Follows(g, f, {}, ids)
  <2> HIDE DEF g
  <2> QED BY <1>1, <1>3 DEF Follows
<1>5. Shaped(g) /\ Blocks(g) = Blocks(f)
  BY <1>4, FollowsShaped
<1>6. Ids(g) \cap ids = {}
  <2> HIDE DEF g
  <2> QED BY <1>3, <1>5 DEF Ids, Instructions, ToSet
<1> QED BY <1>4, <1>5, <1>6

LEMMA EraseEnds ==
  ASSUME NEW f, Shaped(f), NEW ids, NEW b \in Blocks(f), Last(f.code[b]).id \notin ids
  PROVE  Ends(Erase(f, ids).code[b], Blocks(f)) /\ Last(Erase(f, ids).code[b]) = Last(f.code[b])
<1> DEFINE c == f.code[b]
           K == {n \in DOMAIN c : c[n].id \notin ids}
<1>1. Erase(f, ids).code[b] = Kept(c, K)
  BY DEF Erase, Shaped, LabelsDiffer
<1>2. PICK L \in Nat \ {0} : L = Len(c) /\ DOMAIN c = 1 .. L /\ Last(c) = c[L]
  BY BlockOK
<1>3. L \in DOMAIN c \cap K /\ \A k \in DOMAIN c \cap K : k <= L
  BY <1>2
<1>4. Kept(c, K) # <<>> /\ Last(Kept(c, K)) = c[L]
  <2>1. c \in Seq(ToSet(c))
    BY BlockOK
  <2> HIDE DEF c, K
  <2> QED BY <1>3, <2>1, KeptLast
<1>5. Ends(c, Blocks(f))
  BY BlockOK
<1> QED BY <1>1, <1>2, <1>4, <1>5 DEF Ends

LEMMA Rewritten ==
  ASSUME NEW f, Shaped(f), NEW g,
         DOMAIN g = DOMAIN f, g.name = f.name, g.layout = f.layout, DOMAIN g.code = Blocks(f),
         \A b \in Blocks(f) :
           /\ g.code[b] = [n \in DOMAIN f.code[b] |-> g.code[b][n]]
           /\ \A n \in DOMAIN f.code[b] : Same(g.code[b][n], f.code[b][n])
  PROVE  /\ Follows(g, f, {}, {}) /\ Shaped(g) /\ Blocks(g) = Blocks(f)
         /\ \A b \in Blocks(f) : Successors(g, b) = Successors(f, b)
<1>1. ASSUME NEW b \in Blocks(f)
      PROVE  /\ Inherits(g.code[b], f.code[b], {}, {}) /\ Ends(g.code[b], Blocks(f))
             /\ Same(Last(g.code[b]), Last(f.code[b]))
  <2> DEFINE c == f.code[b]
             d == g.code[b]
  <2>1. PICK L \in Nat \ {0} : L = Len(c) /\ DOMAIN c = 1 .. L /\ Last(c) = c[L]
    BY BlockOK
  <2>2. d = [n \in 1 .. L |-> d[n]] /\ DOMAIN d = 1 .. L
    BY <2>1
  <2>3. d \in Seq(ToSet(d)) /\ Len(d) = L /\ Last(d) = d[L]
    <3>1. \A n \in 1 .. L : d[n] \in ToSet(d)
      BY <2>2 DEF ToSet
    <3> HIDE DEF d
    <3>2. d \in [1 .. L -> ToSet(d)]
      BY <2>2, <3>1
    <3>3. d \in Seq(ToSet(d)) /\ Len(d) = L
      BY <3>2
    <3> QED BY <3>3 DEF Last
  <2>4. \A n \in 1 .. L : Same(d[n], c[n]) /\ Instruction(c[n])
    BY <2>1, BlockOK
  <2>5. \A n \in 1 .. L : d[n].id = c[n].id
    BY <2>4, SameFields
  <2>6. \A m, n \in 1 .. L : c[m].id = c[n].id => m = n
    BY <2>1, NamesOfBlock
  <2>e. Ends(c, Blocks(f))
    BY BlockOK
  <2> HIDE DEF c, d
  <2>7. Terminator(Last(d)) /\ Targets(Last(d)) = Targets(Last(c))
    <3>1. L \in 1 .. L /\ Same(Last(d), Last(c)) /\ Instruction(Last(c))
      BY <2>1, <2>3, <2>4
    <3> QED BY <3>1, <2>e, SameFields DEF Ends
  <2>8. Ends(d, Blocks(f))
    <3>1. d # <<>>
      BY <2>3
    <3> QED BY <2>e, <2>7, <3>1 DEF Ends
  <2>9. Inherits(d, c, {}, {})
    <3>1. \A m \in DOMAIN c : \E n \in DOMAIN d : Same(d[n], c[m])
      BY <2>1, <2>2, <2>4
    <3>2. \A n \in DOMAIN d : \E m \in DOMAIN c : Same(d[n], c[m])
      BY <2>1, <2>2, <2>4
    <3>3. \A m, n \in DOMAIN d : d[m].id = d[n].id => m = n
      BY <2>2, <2>5, <2>6
    <3> QED BY <2>3, <3>1, <3>2, <3>3 DEF Inherits
  <2>10. Same(Last(d), Last(c))
    <3>1. L \in 1 .. L
      OBVIOUS
    <3> QED BY <3>1, <2>1, <2>3, <2>4
  <2>11. /\ Inherits(g.code[b], f.code[b], {}, {}) /\ Ends(g.code[b], Blocks(f))
         /\ Same(Last(g.code[b]), Last(f.code[b]))
    BY <2>8, <2>9, <2>10 DEF c, d
  <2> QED BY <2>11
<1>2. Follows(g, f, {}, {})
  BY <1>1 DEF Follows
<1>3. Shaped(g) /\ Blocks(g) = Blocks(f)
  BY <1>1, <1>2, FollowsShaped
<1>4. \A b \in Blocks(f) : Successors(g, b) = Successors(f, b)
  BY <1>1, SameSuccessors
<1> QED BY <1>2, <1>3, <1>4

LEMMA ReplaceInSame == \A i, new : Same(ReplaceIn(i, new), i)
BY DEF Same, ReplaceIn, Lasting, Fields

LEMMA ReplaceUsesFollows ==
  ASSUME NEW f, Shaped(f), NEW new
  PROVE  /\ Follows(ReplaceUses(f, new), f, {}, {})
         /\ Shaped(ReplaceUses(f, new)) /\ Blocks(ReplaceUses(f, new)) = Blocks(f)
         /\ \A b \in Blocks(f) : Successors(ReplaceUses(f, new), b) = Successors(f, b)
<1> DEFINE g == ReplaceUses(f, new)
<1>1. DOMAIN g = DOMAIN f /\ g.name = f.name /\ g.layout = f.layout /\ DOMAIN g.code = Blocks(f)
  BY DEF ReplaceUses, Shaped, LabelsDiffer
<1>2. \A b \in Blocks(f) :
        g.code[b] = [n \in DOMAIN f.code[b] |-> ReplaceIn(f.code[b][n], new)]
  BY DEF ReplaceUses, Shaped, LabelsDiffer
<1>3. \A b \in Blocks(f) :
           /\ g.code[b] = [n \in DOMAIN f.code[b] |-> g.code[b][n]]
           /\ \A n \in DOMAIN f.code[b] : Same(g.code[b][n], f.code[b][n])
  <2> TAKE b \in Blocks(f)
  <2> HIDE DEF g
  <2>1. PICK c, d : c = f.code[b] /\ d = g.code[b]
    OBVIOUS
  <2>2. d = [n \in DOMAIN c |-> ReplaceIn(c[n], new)]
    BY <1>2, <2>1
  <2>3. d = [n \in DOMAIN c |-> d[n]] /\ \A n \in DOMAIN c : Same(d[n], c[n])
    BY <2>2, ReplaceInSame
  <2> QED BY <2>1, <2>3
<1> QED BY <1>1, <1>3, Rewritten

(* One block is changed.                                                   *)
LEMMA InheritsSelf ==
  ASSUME NEW f, Shaped(f), NEW b \in Blocks(f), NEW new, NEW gone
  PROVE  Inherits(f.code[b], f.code[b], new, gone)
<1>1. \A n \in DOMAIN f.code[b] : Same(f.code[b][n], f.code[b][n])
  BY DEF Same
<1> QED BY <1>1, BlockOK, NamesOfBlock DEF Inherits

LEMMA OneBlock ==
  ASSUME NEW f, Shaped(f), NEW b \in Blocks(f), NEW d, NEW new, NEW gone, NEW g,
         g = [f EXCEPT !.code[b] = d],
         Inherits(d, f.code[b], new, gone), Ends(d, Blocks(f)), new \cap Ids(f) = {}
  PROVE  Follows(g, f, new, gone) /\ Shaped(g) /\ Blocks(g) = Blocks(f)
<1>1. /\ DOMAIN g = DOMAIN f /\ g.name = f.name /\ g.layout = f.layout
      /\ DOMAIN g.code = Blocks(f)
      /\ \A c \in Blocks(f) : g.code[c] = IF c = b THEN d ELSE f.code[c]
  BY DEF Shaped, LabelsDiffer
<1>2. \A c \in Blocks(f) : Inherits(g.code[c], f.code[c], new, gone)
  BY <1>1, InheritsSelf
<1>3. \A c \in Blocks(f) : c # b =>
        \A n \in DOMAIN g.code[c] : g.code[c][n].id \notin new
  BY <1>1 DEF Ids, Instructions, ToSet
<1>4. Follows(g, f, new, gone)
  BY <1>1, <1>2, <1>3 DEF Follows
<1>5. \A c \in Blocks(f) : Ends(g.code[c], Blocks(f))
  BY <1>1, BlockOK
<1>0. Shaped(f) /\ new \cap Ids(f) = {}
  OBVIOUS
<1>6. Shaped(g) /\ Blocks(g) = Blocks(f)
  BY ONLY <1>0, <1>4, <1>5, FollowsShaped
<1> QED BY <1>4, <1>6, Zenon

(* Instructions mid are put before position n of a block.                  *)
Splice(c, n, mid) == SubSeq(c, 1, n - 1) \o mid \o SubSeq(c, n, Len(c))

SplicedAs(d, c, n, mid, L, M) ==
  /\ Len(d) = L + M
  /\ \A k \in 1 .. n - 1 : d[k] = c[k]
  /\ \A k \in 1 .. M : d[n - 1 + k] = mid[k]
  /\ \A k \in n .. L : d[k + M] = c[k]

LEMMA SpliceElements ==
  ASSUME NEW S, NEW c \in Seq(S), NEW n \in 1 .. Len(c), NEW mid \in Seq(S)
  PROVE  /\ Splice(c, n, mid) \in Seq(S)
         /\ SplicedAs(Splice(c, n, mid), c, n, mid, Len(c), Len(mid))
<1>d. PICK d : d = Splice(c, n, mid)
  OBVIOUS
<1>l. PICK L : L = Len(c)
  OBVIOUS
<1>m. PICK M : M = Len(mid)
  OBVIOUS
<1>1. L \in Nat /\ M \in Nat /\ n \in 1 .. L /\ \A i \in 1 .. L : c[i] \in S
  BY <1>l, <1>m
<1>p. PICK P \in Nat : P = n - 1
  BY <1>1
<1>q. PICK Q \in Nat : Q = L - n + 1
  BY <1>1
<1>2. PICK s1 : s1 = SubSeq(c, 1, n - 1)
  OBVIOUS
<1>3. PICK s2 : s2 = SubSeq(c, n, L)
  OBVIOUS
<1>4. s1 \in Seq(S) /\ Len(s1) = P /\ \A i \in 1 .. P : s1[i] = c[i]
  BY <1>1, <1>2, <1>p, SubSeqProperties
<1>5. s2 \in Seq(S) /\ Len(s2) = Q /\ \A i \in 1 .. Q : s2[i] = c[n + i - 1]
  BY <1>1, <1>3, <1>q, SubSeqProperties
<1>6. PICK s3 : s3 = s1 \o mid
  OBVIOUS
<1>7. /\ s3 \in Seq(S) /\ Len(s3) = Len(s1) + Len(mid)
      /\ \A i \in 1 .. Len(s1) + Len(mid) :
           s3[i] = IF i <= Len(s1) THEN s1[i] ELSE mid[i - Len(s1)]
  BY <1>4, <1>6, ConcatProperties
<1>8. d = s3 \o s2
  BY <1>2, <1>3, <1>6, <1>d, <1>l DEF Splice
<1>9. /\ d \in Seq(S) /\ Len(d) = Len(s3) + Len(s2)
      /\ \A i \in 1 .. Len(s3) + Len(s2) :
           d[i] = IF i <= Len(s3) THEN s3[i] ELSE s2[i - Len(s3)]
  <2>1. s3 \in Seq(S) /\ s2 \in Seq(S)
    BY <1>5, <1>7
  <2> QED BY ONLY <2>1, <1>8, ConcatProperties
<1>a. /\ Len(s3) = P + M /\ Len(d) = P + M + Q
      /\ \A i \in 1 .. P + M : s3[i] = IF i <= P THEN s1[i] ELSE mid[i - P]
      /\ \A i \in 1 .. P + M + Q : d[i] = IF i <= P + M THEN s3[i] ELSE s2[i - (P + M)]
  BY <1>4, <1>5, <1>7, <1>9, <1>m
<1>10. \A k \in 1 .. n - 1 : d[k] = c[k]
  <2> TAKE k \in 1 .. n - 1
  <2>1. k \in 1 .. P /\ k \in 1 .. P + M /\ k \in 1 .. P + M + Q /\ k <= P /\ k <= P + M
    BY <1>1, <1>p
  <2>2. d[k] = s3[k]
    BY <1>a, <2>1
  <2>3. s3[k] = s1[k]
    BY <1>a, <2>1
  <2>4. s1[k] = c[k]
    BY <1>4, <2>1
  <2> QED BY <2>2, <2>3, <2>4
<1>11. \A k \in 1 .. M : d[n - 1 + k] = mid[k]
  <2> TAKE k \in 1 .. M
  <2>1. PICK i \in 1 .. P + M : i = n - 1 + k /\ i - P = k
    BY <1>1, <1>p
  <2>2. i \in 1 .. P + M + Q /\ i <= P + M /\ ~(i <= P)
    BY <1>1, <1>p, <2>1
  <2>3. d[i] = s3[i]
    BY <1>a, <2>2
  <2>4. s3[i] = mid[i - P]
    BY <1>a, <2>1, <2>2
  <2> QED BY <2>1, <2>3, <2>4
<1>12. \A k \in n .. L : d[k + M] = c[k]
  <2> TAKE k \in n .. L
  <2>1. PICK i \in 1 .. P + M + Q : i = k + M /\ ~(i <= P + M)
    BY <1>1, <1>p, <1>q
  <2>2. d[i] = s2[i - (P + M)]
    BY <1>a, <2>1
  <2>3. PICK j \in 1 .. Q : j = i - (P + M) /\ n + j - 1 = k
    BY <1>1, <1>p, <1>q, <2>1
  <2>4. s2[j] = c[k]
    BY <1>5, <2>3
  <2> QED BY <2>1, <2>2, <2>3, <2>4
<1>13. Len(d) = L + M
  BY <1>1, <1>a, <1>p, <1>q
<1>14. SplicedAs(d, c, n, mid, L, M)
  BY <1>10, <1>11, <1>12, <1>13 DEF SplicedAs
<1> QED BY <1>d, <1>l, <1>m, <1>9, <1>14

(* Instructions that have names of their own, all of them in new; that     *)
(* they are in a block.                                                    *)
Fit(mid, new) ==
  /\ mid \in Seq(ToSet(mid))
  /\ \A k \in DOMAIN mid : Instruction(mid[k]) /\ mid[k].id \in new
  /\ \A j, k \in DOMAIN mid : mid[j].id = mid[k].id => j = k
Holds(d, mid) == \A k \in DOMAIN mid : \E m \in DOMAIN d : d[m] = mid[k]

LEMMA SpliceBlock ==
  ASSUME NEW c, c \in Seq(ToSet(c)), NEW B, Ends(c, B), NEW n \in 1 .. Len(c),
         \A j, k \in DOMAIN c : c[j].id = c[k].id => j = k,
         NEW new, \A k \in DOMAIN c : c[k].id \notin new,
         NEW mid, Fit(mid, new),
         NEW d, d = Splice(c, n, mid), NEW gone
  PROVE  Inherits(d, c, new, gone) /\ Ends(d, B) /\ Last(d) = Last(c) /\ Holds(d, mid)
<1> DEFINE S == ToSet(c) \cup ToSet(mid)
<1>0. /\ mid \in Seq(ToSet(mid))
      /\ \A k \in DOMAIN mid : Instruction(mid[k]) /\ mid[k].id \in new
      /\ \A j, k \in DOMAIN mid : mid[j].id = mid[k].id => j = k
  BY DEF Fit
<1>1. PICK L \in Nat : L = Len(c) /\ DOMAIN c = 1 .. L
  OBVIOUS
<1>2. PICK M \in Nat : M = Len(mid) /\ DOMAIN mid = 1 .. M
  BY <1>0
<1>3. c \in Seq(S) /\ mid \in Seq(S)
  BY <1>0, SeqMonotonic
<1>4. /\ d \in Seq(S) /\ Len(d) = L + M
      /\ \A k \in 1 .. n - 1 : d[k] = c[k]
      /\ \A k \in 1 .. M : d[n - 1 + k] = mid[k]
      /\ \A k \in n .. L : d[k + M] = c[k]
  <2>1. n \in 1 .. Len(c) /\ d = Splice(c, n, mid) /\ L = Len(c) /\ M = Len(mid)
    BY <1>1, <1>2
  <2> HIDE DEF S
  <2>2. d \in Seq(S) /\ SplicedAs(d, c, n, mid, L, M)
    BY ONLY <1>3, <2>1, SpliceElements
  <2> QED BY <2>2 DEF SplicedAs
<1>5. DOMAIN d = 1 .. L + M
  BY <1>1, <1>2, <1>4
<1>n. n \in 1 .. L
  BY <1>1
<1>6. ASSUME NEW k \in 1 .. L + M
      PROVE  \/ k \in 1 .. n - 1 /\ d[k] = c[k]
             \/ \E j \in 1 .. M : k = n - 1 + j /\ d[k] = mid[j]
             \/ \E j \in n .. L : k = j + M /\ d[k] = c[j]
  <2>1. CASE k < n
    BY <2>1, <1>n, <1>4
  <2>2. CASE k >= n /\ k < n + M
    <3>1. k - n + 1 \in 1 .. M /\ k = n - 1 + (k - n + 1)
      BY <2>2, <1>n
    <3>2. PICK j \in 1 .. M : k = n - 1 + j
      BY <3>1
    <3> QED BY <3>2, <1>4
  <2>3. CASE k >= n + M
    <3>1. k - M \in n .. L /\ k = (k - M) + M
      BY <2>3, <1>n
    <3>2. PICK j \in n .. L : k = j + M
      BY <3>1
    <3> QED BY <3>2, <1>4
  <2> QED BY <2>1, <2>2, <2>3, <1>n
<1>7. d \in Seq(ToSet(d))
  <2>1. \A k \in 1 .. L + M : d[k] \in ToSet(d)
    BY <1>5 DEF ToSet
  <2> QED BY <2>1, <1>4, <1>5, ElementOfSeq, IsASeq, LenProperties
<1>8. \A k \in DOMAIN d : \/ d[k].id \in new /\ Instruction(d[k])
                          \/ \E m \in DOMAIN c : d[k] = c[m]
  <2> TAKE k \in DOMAIN d
  <2>1. CASE k \in 1 .. n - 1 /\ d[k] = c[k]
    BY <2>1, <1>1, <1>n
  <2>2. CASE \E j \in 1 .. M : k = n - 1 + j /\ d[k] = mid[j]
    BY <2>2, <1>0, <1>2
  <2>3. CASE \E j \in n .. L : k = j + M /\ d[k] = c[j]
    <3>1. n .. L \subseteq DOMAIN c
      BY <1>1, <1>n
    <3> QED BY <2>3, <3>1
  <2> QED BY <2>1, <2>2, <2>3, <1>5, <1>6
<1>9. \A m \in DOMAIN c : \E k \in DOMAIN d : d[k] = c[m]
  <2> TAKE m \in DOMAIN c
  <2>1. CASE m < n
    BY <2>1, <1>1, <1>4, <1>5
  <2>2. CASE m >= n
    <3>1. m \in n .. L /\ m + M \in DOMAIN d
      BY <2>2, <1>1, <1>5, <1>n
    <3> QED BY <3>1, <1>4
  <2> QED BY <2>1, <2>2, <1>1, <1>n
<1>10. ASSUME NEW j \in DOMAIN d, NEW k \in DOMAIN d, d[j].id = d[k].id PROVE j = k
  <2>1. ASSUME NEW i \in 1 .. L + M
        PROVE  \/ \E t \in 1 .. M : i = n - 1 + t /\ d[i] = mid[t]
               \/ \E t \in 1 .. L : d[i] = c[t] /\ i = IF t < n THEN t ELSE t + M
    <3>1. CASE i \in 1 .. n - 1 /\ d[i] = c[i]
      <4>1. i \in 1 .. L /\ i < n
        BY <3>1, <1>n
      <4> QED BY <3>1, <4>1
    <3>2. CASE \E t \in n .. L : i = t + M /\ d[i] = c[t]
      <4>1. PICK t \in n .. L : i = t + M /\ d[i] = c[t]
        BY <3>2
      <4>2. t \in 1 .. L /\ ~(t < n)
        BY <1>n
      <4> QED BY <4>1, <4>2
    <3> QED BY <3>1, <3>2, <1>6
  <2>2. \A s \in 1 .. M, t \in 1 .. L : mid[s].id # c[t].id
    BY <1>0, <1>1, <1>2
  <2>3. CASE \E t \in 1 .. M : j = n - 1 + t /\ d[j] = mid[t]
    <3>1. PICK s \in 1 .. M : j = n - 1 + s /\ d[j] = mid[s]
      BY <2>3
    <3>4. ~\E t \in 1 .. L : d[k] = c[t]
      BY <3>1, <2>2, <1>10
    <3>2. PICK t \in 1 .. M : k = n - 1 + t /\ d[k] = mid[t]
      BY <3>4, <2>1, <1>5
    <3>3. s = t
      BY <3>1, <3>2, <1>0, <1>2, <1>10
    <3> QED BY <3>1, <3>2, <3>3
  <2>4. CASE \E t \in 1 .. L : d[j] = c[t] /\ j = IF t < n THEN t ELSE t + M
    <3>1. PICK s \in 1 .. L : d[j] = c[s] /\ j = IF s < n THEN s ELSE s + M
      BY <2>4
    <3>4. ~\E t \in 1 .. M : d[k] = mid[t]
      BY <3>1, <2>2, <1>10
    <3>2. PICK t \in 1 .. L : d[k] = c[t] /\ k = IF t < n THEN t ELSE t + M
      BY <3>4, <2>1, <1>5
    <3>3. s = t
      BY <3>1, <3>2, <1>1, <1>10
    <3> QED BY <3>1, <3>2, <3>3
  <2> QED BY <2>1, <2>3, <2>4, <1>5
<1>11. Last(d) = Last(c) /\ d # <<>>
  <2>1. L \in n .. L /\ L + M > 0
    BY <1>n
  <2>2. d[L + M] = c[L]
    BY <2>1, <1>4
  <2> QED BY <2>1, <2>2, <1>1, <1>4 DEF Last
<1>12. \A i : Same(i, i)
  BY DEF Same
<1>13. Inherits(d, c, new, gone)
  BY <1>7, <1>8, <1>9, <1>10, <1>12 DEF Inherits
<1>14. ASSUME NEW k \in DOMAIN mid PROVE \E m \in DOMAIN d : d[m] = mid[k]
  <2>1. k \in 1 .. M /\ n - 1 + k \in 1 .. L + M
    BY <1>2, <1>n
  <2> QED BY <2>1, <1>4, <1>5
<1> QED BY <1>11, <1>13, <1>14 DEF Ends, Holds

(* Function g is f with mid before position n of block b.                  *)
SplicedIn(g, f, b, n, mid) == g = [f EXCEPT !.code[b] = Splice(f.code[b], n, mid)]

LEMMA SpliceFollows ==
  ASSUME NEW f, Shaped(f), NEW b \in Blocks(f), NEW n \in DOMAIN f.code[b],
         NEW new, new \cap Ids(f) = {}, NEW mid, Fit(mid, new),
         NEW g, SplicedIn(g, f, b, n, mid)
  PROVE  /\ Follows(g, f, new, {}) /\ Shaped(g) /\ Blocks(g) = Blocks(f)
         /\ Holds(g.code[b], mid)
<1>1. PICK c, d : c = f.code[b] /\ d = Splice(c, n, mid)
  OBVIOUS
<1>2. /\ c \in Seq(ToSet(c)) /\ Ends(c, Blocks(f)) /\ n \in 1 .. Len(c)
      /\ \A j, k \in DOMAIN c : c[j].id = c[k].id => j = k
  BY <1>1, BlockOK, NamesOfBlock
<1>3. \A k \in DOMAIN c : c[k].id \notin new
  BY <1>1 DEF Ids, Instructions, ToSet
<1>4. Inherits(d, c, new, {}) /\ Ends(d, Blocks(f)) /\ Holds(d, mid)
  BY <1>1, <1>2, <1>3, SpliceBlock
<1>5. g = [f EXCEPT !.code[b] = d]
  BY <1>1 DEF SplicedIn
<1>6. g.code[b] = d
  <2>1. "code" \in DOMAIN f /\ DOMAIN f.code = Blocks(f)
    BY DEF Shaped, LabelsDiffer
  <2> QED BY <1>5, <2>1
<1> QED BY <1>1, <1>4, <1>5, <1>6, OneBlock

--------------------------------------------------------------------------------
(* Modules.                                                                *)

LEMMA FunctionOK ==
  ASSUME NEW m, NEW next \in Nat, WellFormed(m, next), NEW k \in DOMAIN m
  PROVE  /\ Shaped(m[k]) /\ Ids(m[k]) \subseteq 0 .. next - 1
         /\ \A l \in DOMAIN m \ {k} : Ids(m[k]) \cap Ids(m[l]) = {}
BY DEF WellFormed, Shaped

LEMMA OneFunction ==
  ASSUME NEW m, NEW next \in Nat, WellFormed(m, next), NEW k \in DOMAIN m,
         NEW g, Shaped(g), g.name = m[k].name,
         NEW next2 \in Nat, next <= next2, Ids(g) \subseteq Ids(m[k]) \cup next .. next2 - 1
  PROVE  WellFormed([m EXCEPT ![k] = g], next2)
<1> DEFINE n == [m EXCEPT ![k] = g]
<1>1. DOMAIN n = DOMAIN m /\ \A l \in DOMAIN m : n[l] = IF l = k THEN g ELSE m[l]
  OBVIOUS
<1>2. n \in Seq(ToSet(n))
  <2>1. PICK L \in Nat : DOMAIN m = 1 .. L
    BY DEF WellFormed
  <2>2. \A l \in 1 .. L : n[l] \in ToSet(n)
    BY <2>1, <1>1 DEF ToSet
  <2>3. n = [l \in 1 .. L |-> n[l]]
    BY <2>1, <1>1
  <2> HIDE DEF n
  <2>4. n \in [1 .. L -> ToSet(n)]
    BY <2>2, <2>3
  <2> QED BY <2>4
<1> HIDE DEF n
<1>3. \E l \in DOMAIN n : n[l].name = "main"
  <2>1. PICK l \in DOMAIN m : m[l].name = "main"
    BY DEF WellFormed
  <2> QED BY <2>1, <1>1
<1>4. \A l \in DOMAIN n : Shaped(n[l])
  BY <1>1, FunctionOK
<1>5. \A l \in DOMAIN m : Ids(m[l]) \subseteq 0 .. next - 1
  BY FunctionOK
<1>6. \A l \in DOMAIN n : Ids(n[l]) \subseteq 0 .. next2 - 1
  BY <1>1, <1>5
<1>7. \A l \in DOMAIN n \ {k} : Ids(n[l]) \cap Ids(n[k]) = {}
  <2> TAKE l \in DOMAIN n \ {k}
  <2>1. Ids(m[l]) \cap Ids(m[k]) = {} /\ Ids(m[l]) \subseteq 0 .. next - 1
    BY <1>1, FunctionOK
  <2>2. n[l] = m[l] /\ n[k] = g
    BY <1>1
  <2> QED BY <2>1, <2>2
<1>8. \A j, l \in DOMAIN n : j # l => Ids(n[j]) \cap Ids(n[l]) = {}
  <2> TAKE j, l \in DOMAIN n
  <2>1. CASE j = k \/ l = k
    BY <2>1, <1>7
  <2>2. CASE j # k /\ l # k
    BY <2>2, <1>1, FunctionOK
  <2> QED BY <2>1, <2>2
<1> QED BY <1>2, <1>3, <1>4, <1>6, <1>8 DEF WellFormed, Shaped, n

LEMMA MoreNames ==
  ASSUME NEW m, NEW next \in Nat, WellFormed(m, next), NEW next2 \in Nat, next <= next2
  PROVE  WellFormed(m, next2)
<1>1. \A k \in DOMAIN m : Ids(m[k]) \subseteq 0 .. next2 - 1
  BY FunctionOK
<1> QED BY <1>1 DEF WellFormed

(* Functions are removed, main never is.                                   *)
LEMMA FewerFunctions ==
  ASSUME NEW m, NEW next \in Nat, WellFormed(m, next), NEW K,
         \A k \in DOMAIN m : m[k].name = "main" => k \in K
  PROVE  WellFormed(Kept(m, K), next) /\ DOMAIN Kept(m, K) # {}
<1>1. PICK t : t = Kept(m, K)
  OBVIOUS
<1>2. t \in Seq(ToSet(m)) /\ \E e : Picks(e, m, K, t)
  BY <1>1, KeptPicks DEF WellFormed
<1>3. PICK e : Picks(e, m, K, t)
  BY <1>2
<1>4. PICK L \in Nat : L = Len(t) /\ DOMAIN t = 1 .. L
  BY <1>2
<1>5. \A n \in 1 .. L : e[n] \in DOMAIN m /\ t[n] = m[e[n]]
  BY <1>3, <1>4 DEF Picks
<1>6. t \in Seq(ToSet(t))
  <2>1. \A n \in 1 .. L : t[n] \in ToSet(t)
    BY <1>4 DEF ToSet
  <2>2. t \in [1 .. L -> ToSet(t)]
    BY <1>2, <1>4, <2>1
  <2> QED BY <2>2
<1>7. \E n \in DOMAIN t : t[n].name = "main"
  <2>1. PICK k \in DOMAIN m : m[k].name = "main" /\ k \in K
    BY DEF WellFormed
  <2>2. PICK n \in 1 .. L : e[n] = k
    BY <2>1, <1>3, <1>4 DEF Picks
  <2> QED BY <2>1, <2>2, <1>4, <1>5
<1>8. \A n \in DOMAIN t : Shaped(t[n]) /\ Ids(t[n]) \subseteq 0 .. next - 1
  BY <1>4, <1>5, FunctionOK
<1>9. \A j, n \in DOMAIN t : j # n => e[j] # e[n]
  <2> TAKE j, n \in DOMAIN t
  <2>1. j < n => e[j] < e[n]
    BY <1>3, <1>4 DEF Picks
  <2>2. n < j => e[n] < e[j]
    BY <1>3, <1>4 DEF Picks
  <2>3. e[j] \in Nat /\ e[n] \in Nat /\ j \in Nat /\ n \in Nat
    <3>1. DOMAIN m \subseteq Nat
      BY DEF WellFormed
    <3> QED BY <3>1, <1>4, <1>5
  <2> QED BY <2>1, <2>2, <2>3
<1>10. \A n \in DOMAIN t : \A j \in DOMAIN t \ {n} : Ids(t[n]) \cap Ids(t[j]) = {}
  BY <1>4, <1>5, <1>9, FunctionOK
<1>11. WellFormed(t, next)
  BY <1>6, <1>7, <1>8, <1>10 DEF WellFormed, Shaped
<1> QED BY <1>1, <1>7, <1>11

--------------------------------------------------------------------------------
(* FlattenSeq: a map from the positions of the result to those of the      *)
(* sequences it joins.                                                     *)

FlatEq(g, s, n) == g = [i \in 1 .. n |-> IF i = 1 THEN s[i] ELSE g[i - 1] \o s[i]]

LEMMA FlatExists ==
  ASSUME NEW s, NEW n \in Nat
  PROVE  \E g : FlatEq(g, s, n)
<1> DEFINE T == {m \in Nat : \E g : FlatEq(g, s, m)}
<1>1. 0 \in T
  <2>1. FlatEq([i \in 1 .. 0 |-> <<>>], s, 0)
    BY DEF FlatEq
  <2> QED BY <2>1
<1>2. ASSUME NEW m \in Nat, m \in T PROVE m + 1 \in T
  <2>1. PICK g : FlatEq(g, s, m)
    BY <1>2
  <2> DEFINE h == [i \in 1 .. m + 1 |-> IF i <= m THEN g[i]
                     ELSE IF m = 0 THEN s[m + 1] ELSE g[m] \o s[m + 1]]
  <2>2. ASSUME NEW i \in 1 .. m + 1
        PROVE  h[i] = IF i = 1 THEN s[i] ELSE h[i - 1] \o s[i]
    <3>1. CASE i <= m
      <4>1. i \in 1 .. m /\ h[i] = g[i] /\ i # 1 => i - 1 \in 1 .. m + 1 /\ h[i - 1] = g[i - 1]
        BY <3>1
      <4>2. i \in 1 .. m
        BY <3>1
      <4>3. g[i] = IF i = 1 THEN s[i] ELSE g[i - 1] \o s[i]
        BY <2>1, <4>2 DEF FlatEq
      <4> QED BY <3>1, <4>1, <4>2, <4>3
    <3>2. CASE i = m + 1 /\ m = 0
      BY <3>2
    <3>3. CASE i = m + 1 /\ m # 0
      <4>1. m \in 1 .. m + 1 /\ m + 1 \in 1 .. m + 1 /\ i - 1 = m /\ i # 1 /\ ~(m + 1 <= m)
        BY <3>3
      <4>2. h[m] = g[m]
        BY <4>1
      <4>3. h[m + 1] = g[m] \o s[m + 1]
        BY <3>3, <4>1
      <4> HIDE DEF h
      <4> QED BY <3>3, <4>1, <4>2, <4>3
    <3> QED BY <3>1, <3>2, <3>3
  <2>3. FlatEq(h, s, m + 1)
    BY <2>2 DEF FlatEq
  <2> HIDE DEF h
  <2> QED BY <2>3
<1>3. \A m \in Nat : m \in T
  <2> HIDE DEF T
  <2> QED BY <1>1, <1>2, Induct
<1> QED BY <1>3

Joins(t, s, n, a, b) ==
  /\ \A j \in DOMAIN t : /\ a[j] \in 1 .. n /\ b[j] \in DOMAIN s[a[j]]
                         /\ t[j] = s[a[j]][b[j]]
  /\ \A i, j \in DOMAIN t : a[i] = a[j] /\ b[i] = b[j] => i = j

LEMMA JoinsOneMore ==
  ASSUME NEW S, NEW s, NEW n \in Nat, NEW u \in Seq(S), NEW a, NEW b, Joins(u, s, n, a, b),
         s[n + 1] \in Seq(S), NEW w, w = u \o s[n + 1]
  PROVE  w \in Seq(S) /\ \E c, d : Joins(w, s, n + 1, c, d)
<1>1. PICK v \in Seq(S) : v = s[n + 1]
  OBVIOUS
<1>2. PICK L \in Nat, M \in Nat : L = Len(u) /\ M = Len(v) /\ DOMAIN u = 1 .. L /\ DOMAIN v = 1 .. M
  OBVIOUS
<1>3. /\ w \in Seq(S) /\ DOMAIN w = 1 .. L + M
      /\ \A i \in 1 .. L + M : w[i] = IF i <= L THEN u[i] ELSE v[i - L]
  <2>1. /\ w \in Seq(S) /\ Len(w) = Len(u) + Len(v)
        /\ \A i \in 1 .. Len(u) + Len(v) : w[i] = IF i <= Len(u) THEN u[i] ELSE v[i - Len(u)]
    BY <1>1, ConcatProperties
  <2> QED BY <1>2, <2>1
<1> DEFINE c == [j \in 1 .. L + M |-> IF j <= L THEN a[j] ELSE n + 1]
           d == [j \in 1 .. L + M |-> IF j <= L THEN b[j] ELSE j - L]
<1>j. \A j \in 1 .. L : /\ j \in DOMAIN u /\ a[j] \in 1 .. n /\ b[j] \in DOMAIN s[a[j]]
                       /\ u[j] = s[a[j]][b[j]]
  BY <1>2 DEF Joins
<1>4. \A j \in 1 .. L + M : j <= L => c[j] = a[j] /\ d[j] = b[j] /\ j \in 1 .. L
  OBVIOUS
<1>5. \A j \in 1 .. L + M : ~(j <= L) => c[j] = n + 1 /\ d[j] = j - L /\ d[j] \in 1 .. M
  OBVIOUS
<1> HIDE DEF c, d
<1>6. ASSUME NEW j \in 1 .. L + M
      PROVE  c[j] \in 1 .. n + 1 /\ d[j] \in DOMAIN s[c[j]] /\ w[j] = s[c[j]][d[j]]
  <2>1. CASE j <= L
    <3>1. j \in 1 .. L /\ w[j] = u[j] /\ c[j] = a[j] /\ d[j] = b[j]
      BY <2>1, <1>2, <1>3, <1>4
    <3>2. a[j] \in 1 .. n + 1
      BY <3>1, <1>j
    <3> QED BY <3>1, <3>2, <1>j
  <2>2. CASE ~(j <= L)
    BY <2>2, <1>1, <1>2, <1>3, <1>5
  <2> QED BY <2>1, <2>2
<1>7. ASSUME NEW i \in 1 .. L + M, NEW j \in 1 .. L + M, c[i] = c[j], d[i] = d[j]
      PROVE  i = j
  <2>1. CASE i <= L
    <3>0. c[i] \in 1 .. n
      BY <2>1, <1>4, <1>j
    <3>1. j <= L
      BY <3>0, <1>5, <1>7
    <3>2. i \in DOMAIN u /\ j \in DOMAIN u /\ a[i] = a[j] /\ b[i] = b[j]
      BY <2>1, <3>1, <1>2, <1>4, <1>7
    <3> QED BY <3>2 DEF Joins
  <2>2. CASE ~(i <= L)
    <3>1. ~(j <= L)
      <4> SUFFICES ASSUME j <= L PROVE FALSE
        OBVIOUS
      <4>1. c[j] \in 1 .. n
        BY <1>4, <1>j
      <4> QED BY <4>1, <2>2, <1>5, <1>7
    <3> QED BY <2>2, <3>1, <1>5, <1>7
  <2> QED BY <2>1, <2>2
<1>8. Joins(w, s, n + 1, c, d)
  BY <1>3, <1>6, <1>7 DEF Joins
<1> QED BY <1>3, <1>8

LEMMA FlattenJoins ==
  ASSUME NEW S, NEW s \in Seq(Seq(S))
  PROVE  /\ FlattenSeq(s) \in Seq(S)
         /\ \E a, b : Joins(FlattenSeq(s), s, Len(s), a, b)
<1>0. PICK N \in Nat : N = Len(s) /\ DOMAIN s = 1 .. N
  OBVIOUS
<1>e. CASE N = 0
  <2>1. FlattenSeq(s) = s /\ s = <<>>
    BY <1>0, <1>e DEF FlattenSeq
  <2>2. Joins(<<>>, s, Len(s), <<>>, <<>>)
    BY DEF Joins
  <2> QED BY <2>1, <2>2
<1>f. CASE N # 0
  <2> DEFINE g == CHOOSE g : FlatEq(g, s, N)
  <2>1. FlatEq(g, s, N)
    BY FlatExists
  <2>2. FlattenSeq(s) = g[N]
    BY <1>0, <1>f DEF FlattenSeq, FlatEq
  <2> HIDE DEF g
  <2>3. \A i \in 1 .. N : g[i] = IF i = 1 THEN s[i] ELSE g[i - 1] \o s[i]
    BY <2>1 DEF FlatEq
  <2> DEFINE T == {m \in Nat : m + 1 <= N =>
                     g[m + 1] \in Seq(S) /\ \E a, b : Joins(g[m + 1], s, m + 1, a, b)}
  <2>4. 0 \in T
    <3>1. g[1] = s[1] /\ s[1] \in Seq(S)
      BY <1>0, <1>f, <2>3
    <3>2. PICK L \in Nat : L = Len(s[1]) /\ DOMAIN s[1] = 1 .. L
      BY <3>1
    <3>3. Joins(g[1], s, 1, [j \in 1 .. L |-> 1], [j \in 1 .. L |-> j])
      BY <3>1, <3>2 DEF Joins
    <3> QED BY <3>1, <3>3
  <2>5. ASSUME NEW m \in Nat, m \in T PROVE m + 1 \in T
    <3> SUFFICES ASSUME m + 1 + 1 <= N
                 PROVE  g[m + 1 + 1] \in Seq(S) /\ \E a, b : Joins(g[m + 1 + 1], s, m + 1 + 1, a, b)
      OBVIOUS
    <3>1. PICK n \in Nat : n = m + 1 /\ n + 1 \in 1 .. N /\ n + 1 # 1 /\ n + 1 - 1 = n
      OBVIOUS
    <3>2. g[n] \in Seq(S) /\ \E a, b : Joins(g[n], s, n, a, b)
      BY <2>5, <3>1
    <3>3. PICK a, b : Joins(g[n], s, n, a, b)
      BY <3>2
    <3>4. s[n + 1] \in Seq(S)
      BY <1>0, <3>1
    <3>5. g[n + 1] = g[n] \o s[n + 1]
      <4>1. PICK q \in 1 .. N : q = n + 1
        BY <3>1
      <4>2. g[q] = g[q - 1] \o s[q]
        BY <2>3, <3>1, <4>1
      <4>3. q - 1 = n
        BY <3>1, <4>1
      <4> QED BY <4>1, <4>2, <4>3
    <3>6. g[n + 1] \in Seq(S) /\ \E c, d : Joins(g[n + 1], s, n + 1, c, d)
      BY ONLY <3>1, <3>2, <3>3, <3>4, <3>5, JoinsOneMore
    <3> QED BY <3>1, <3>6
  <2>6. \A m \in Nat : m \in T
    <3> HIDE DEF T
    <3> QED BY <2>4, <2>5, Induct
  <2>7. PICK m \in Nat : m + 1 = N
    BY <1>f
  <2>8. g[N] \in Seq(S) /\ \E a, b : Joins(g[N], s, N, a, b)
    BY <2>6, <2>7
  <2> QED BY <1>0, <2>2, <2>8
<1> QED BY <1>e, <1>f

--------------------------------------------------------------------------------
(* Edges.                                                                  *)

LEMMA SuccessorsSeq ==
  ASSUME NEW f, NEW b
  PROVE  /\ Successors(f, b) \in Seq(ToSet(Successors(f, b)))
         /\ Len(Successors(f, b)) \in 0 .. 2
<1>1. CASE Last(f.code[b]).op = "br"
  BY <1>1 DEF Successors, ToSet
<1>2. CASE Last(f.code[b]).op = "condbr"
  BY <1>2 DEF Successors, ToSet
<1>3. CASE Last(f.code[b]).op \notin {"br", "condbr"}
  BY <1>3 DEF Successors, ToSet
<1> QED BY <1>1, <1>2, <1>3

LEMMA EdgesNat ==
  ASSUME NEW f, NEW p, NEW b
  PROVE  /\ Edges(f, p, b) \in Nat
         /\ Edges(f, p, b) > 0 <=> b \in ToSet(Successors(f, p))
<1> DEFINE s == Successors(f, p)
           K == {k \in DOMAIN s : s[k] = b}
<1>1. PICK L \in Nat : DOMAIN s = 1 .. L
  BY SuccessorsSeq
<1>2. IsFiniteSet(1 .. L) /\ K \subseteq 1 .. L
  BY <1>1, FS_Interval
<1>3. IsFiniteSet(K) /\ Cardinality(K) \in Nat /\ (Cardinality(K) = 0 <=> K = {})
  <2> HIDE DEF K
  <2> QED BY <1>2, FS_Subset, FS_EmptySet, FS_CardinalityType
<1>4. K # {} <=> b \in ToSet(s)
  BY DEF ToSet
<1>5. Edges(f, p, b) = Cardinality(K)
  BY DEF Edges
<1> HIDE DEF K, s
<1> QED BY <1>3, <1>4, <1>5 DEF s

LEMMA ClosureWithin ==
  ASSUME NEW B, NEW from \in SUBSET B, NEW grown \in [SUBSET B -> SUBSET B], NEW n \in Nat
  PROVE  Closure(from, grown, n) \subseteq B
<1> DEFINE Eq(g, m) == g = [k \in 0 .. m |-> IF k = 0 THEN from ELSE grown[g[k - 1]]]
           T == {m \in Nat : \E g : Eq(g, m)}
<1>1. 0 \in T
  <2>1. Eq([k \in 0 .. 0 |-> from], 0)
    OBVIOUS
  <2> HIDE DEF Eq
  <2> QED BY <2>1
<1>2. ASSUME NEW m \in Nat, m \in T PROVE m + 1 \in T
  <2>1. PICK g : Eq(g, m)
    BY <1>2
  <2> DEFINE h == [k \in 0 .. m + 1 |-> IF k <= m THEN g[k] ELSE grown[g[m]]]
  <2>2. ASSUME NEW k \in 0 .. m + 1
        PROVE  h[k] = IF k = 0 THEN from ELSE grown[h[k - 1]]
    <3>1. CASE k = 0
      BY <3>1, <2>1
    <3>2. CASE k # 0 /\ k <= m
      <4>1. k \in 0 .. m /\ k - 1 \in 0 .. m /\ h[k] = g[k] /\ h[k - 1] = g[k - 1]
        BY <3>2
      <4> QED BY <2>1, <3>2, <4>1
    <3>3. CASE k = m + 1
      <4>1. h[m] = g[m] /\ h[m + 1] = grown[g[m]] /\ k # 0 /\ k - 1 = m
        BY <3>3
      <4> QED BY <3>3, <4>1
    <3> QED BY <3>1, <3>2, <3>3
  <2>3. Eq(h, m + 1)
    BY <2>2
  <2> HIDE DEF Eq, h
  <2> QED BY <2>3
<1>3. \A m \in Nat : m \in T
  <2> HIDE DEF T
  <2> QED BY <1>1, <1>2, Induct
<1> DEFINE set == CHOOSE g : Eq(g, n)
<1>4. Eq(set, n)
  <2> HIDE DEF Eq
  <2> QED BY <1>3
<1>5. Closure(from, grown, n) = set[n]
  BY DEF Closure
<1> HIDE DEF set
<1> DEFINE R == {m \in Nat : m <= n => set[m] \subseteq B}
<1>6. 0 \in R
  BY <1>4
<1>7. ASSUME NEW m \in Nat, m \in R PROVE m + 1 \in R
  <2> SUFFICES ASSUME m + 1 <= n PROVE set[m + 1] \subseteq B
    OBVIOUS
  <2>1. m + 1 \in 0 .. n /\ m + 1 # 0 /\ m + 1 - 1 = m /\ set[m] \in SUBSET B
    BY <1>7
  <2>2. set[m + 1] = grown[set[m]]
    BY <1>4, <2>1
  <2> QED BY <2>1, <2>2
<1>8. \A m \in Nat : m \in R
  <2> HIDE DEF R
  <2> QED BY <1>6, <1>7, Induct
<1> QED BY <1>5, <1>8

--------------------------------------------------------------------------------
(* The PHI nodes that mem2reg adds come first in their block and have the  *)
(* same number of entries.  Erasing and rewriting keeps them so.           *)

PhisLead(c, ids) ==
  \A n \in DOMAIN c : c[n].id \in ids =>
    /\ \A k \in 1 .. n : c[k].id \in ids
    /\ "in" \in DOMAIN c[n]
    /\ c[n].in \in Seq(ToSet(c[n].in))
    /\ \A e \in ToSet(c[n].in) : "b" \in DOMAIN e
    /\ \A k \in 1 .. n : Len(c[k].in) = Len(c[n].in)

SameEdges(i, j) ==
  /\ DOMAIN i.in = DOMAIN j.in
  /\ \A k \in DOMAIN j.in : i.in[k].b = j.in[k].b

PhisFrom(d, c, ids) ==
  \A n \in DOMAIN d : d[n].id \in ids =>
    \E m \in DOMAIN c : c[m].id = d[n].id /\ SameEdges(d[n], c[m])

LEMMA ReplaceInEdges ==
  ASSUME NEW i, NEW new, Instruction(i), "in" \in DOMAIN i, i.in \in Seq(ToSet(i.in)),
         \A e \in ToSet(i.in) : "b" \in DOMAIN e,
         NEW j, j = ReplaceIn(i, new)
  PROVE  /\ j.id = i.id /\ "in" \in DOMAIN j /\ j.in \in Seq(ToSet(j.in))
         /\ \A e \in ToSet(j.in) : "b" \in DOMAIN e
         /\ Len(j.in) = Len(i.in) /\ SameEdges(j, i)
<1>1. /\ j.id = i.id /\ "in" \in DOMAIN j
      /\ j.in = [k \in DOMAIN i.in |-> [i.in[k] EXCEPT !.v = Replaced(@, new)]]
  BY DEF ReplaceIn, Instruction, Fields
<1>2. PICK s, t : s = i.in /\ t = j.in
  OBVIOUS
<1>3. PICK L \in Nat : DOMAIN s = 1 .. L /\ L = Len(s)
  BY <1>2
<1>4. \A k \in 1 .. L : "b" \in DOMAIN s[k]
  BY <1>2, <1>3 DEF ToSet
<1>5. DOMAIN t = 1 .. L /\ t = [k \in 1 .. L |-> t[k]]
  BY <1>1, <1>2, <1>3
<1>6. \A k \in 1 .. L : "b" \in DOMAIN t[k] /\ t[k].b = s[k].b
  BY <1>1, <1>2, <1>3, <1>4
<1>7. t \in Seq(ToSet(t)) /\ Len(t) = L
  <2>1. \A k \in 1 .. L : t[k] \in ToSet(t)
    BY <1>5 DEF ToSet
  <2>2. t \in [1 .. L -> ToSet(t)]
    BY <1>5, <2>1
  <2> QED BY <2>2
<1>8. \A e \in ToSet(t) : "b" \in DOMAIN e
  BY <1>5, <1>6 DEF ToSet
<1> QED BY <1>1, <1>2, <1>3, <1>5, <1>6, <1>7, <1>8 DEF SameEdges

LEMMA ReplacePhis ==
  ASSUME NEW c, c \in Seq(ToSet(c)), \A n \in DOMAIN c : Instruction(c[n]),
         NEW ids, PhisLead(c, ids), NEW new,
         NEW d, d = [n \in DOMAIN c |-> ReplaceIn(c[n], new)]
  PROVE  PhisLead(d, ids) /\ PhisFrom(d, c, ids)
<1>0. PICK L \in Nat : DOMAIN c = 1 .. L
  OBVIOUS
<1>1. DOMAIN d = 1 .. L /\ \A n \in 1 .. L : d[n] = ReplaceIn(c[n], new)
  BY <1>0
<1>2. \A n \in 1 .. L : d[n].id = c[n].id
  BY <1>0, <1>1, ReplaceInSame, SameFields
<1>3. ASSUME NEW n \in 1 .. L, c[n].id \in ids
      PROVE  /\ "in" \in DOMAIN d[n] /\ d[n].in \in Seq(ToSet(d[n].in))
             /\ \A e \in ToSet(d[n].in) : "b" \in DOMAIN e
             /\ Len(d[n].in) = Len(c[n].in) /\ SameEdges(d[n], c[n])
  <2>1. PICK i, j : i = c[n] /\ j = d[n]
    OBVIOUS
  <2>2. /\ Instruction(i) /\ "in" \in DOMAIN i /\ i.in \in Seq(ToSet(i.in))
        /\ \A e \in ToSet(i.in) : "b" \in DOMAIN e
    BY <1>0, <1>3, <2>1 DEF PhisLead
  <2>3. j = ReplaceIn(i, new)
    BY <1>1, <2>1
  <2>4. /\ j.id = i.id /\ "in" \in DOMAIN j /\ j.in \in Seq(ToSet(j.in))
        /\ \A e \in ToSet(j.in) : "b" \in DOMAIN e
        /\ Len(j.in) = Len(i.in) /\ SameEdges(j, i)
    BY ONLY <2>2, <2>3, ReplaceInEdges
  <2> QED BY ONLY <2>1, <2>4
<1>4. ASSUME NEW n \in 1 .. L, c[n].id \in ids, NEW k \in 1 .. n
      PROVE  k \in 1 .. L /\ c[k].id \in ids /\ Len(c[k].in) = Len(c[n].in)
  <2>0. n \in DOMAIN c
    BY <1>0
  <2>1. c[k].id \in ids /\ Len(c[k].in) = Len(c[n].in)
    BY <2>0, <1>4 DEF PhisLead
  <2>2. k \in 1 .. L
    OBVIOUS
  <2> QED BY <2>1, <2>2
<1>5. PhisLead(d, ids)
  <2> SUFFICES ASSUME NEW n \in 1 .. L, d[n].id \in ids
               PROVE  /\ \A k \in 1 .. n : d[k].id \in ids
                      /\ "in" \in DOMAIN d[n]
                      /\ d[n].in \in Seq(ToSet(d[n].in))
                      /\ \A i \in ToSet(d[n].in) : "b" \in DOMAIN i
                      /\ \A k \in 1 .. n : Len(d[k].in) = Len(d[n].in)
    BY <1>1 DEF PhisLead
  <2>1. c[n].id \in ids
    BY <1>2
  <2>2. ASSUME NEW k \in 1 .. n PROVE d[k].id \in ids /\ Len(d[k].in) = Len(d[n].in)
    <3>1. k \in 1 .. L /\ c[k].id \in ids /\ Len(c[k].in) = Len(c[n].in)
      BY <2>1, <1>4
    <3>2. Len(d[k].in) = Len(c[k].in) /\ Len(d[n].in) = Len(c[n].in)
      BY <2>1, <3>1, <1>3
    <3> QED BY <3>1, <3>2, <1>2
  <2> QED BY <2>1, <2>2, <1>3
<1>6. PhisFrom(d, c, ids)
  BY <1>0, <1>1, <1>2, <1>3 DEF PhisFrom
<1> QED BY <1>5, <1>6

LEMMA KeepPhis ==
  ASSUME NEW c, c \in Seq(ToSet(c)), NEW ids, PhisLead(c, ids), NEW K,
         NEW d, d = Kept(c, K)
  PROVE  PhisLead(d, ids) /\ PhisFrom(d, c, ids)
<1>1. d \in Seq(ToSet(c)) /\ \E e : Picks(e, c, K, d)
  BY KeptPicks
<1>2. PICK e : Picks(e, c, K, d)
  BY <1>1
<1>3. PICK L \in Nat : DOMAIN d = 1 .. L /\ Len(d) = L
  BY <1>1
<1>4. \A n \in 1 .. L : e[n] \in DOMAIN c /\ d[n] = c[e[n]]
  BY <1>2, <1>3 DEF Picks
<1>5. \A n \in 1 .. L : \A k \in 1 .. n : e[k] \in 1 .. e[n]
  <2> TAKE n \in 1 .. L
  <2> TAKE k \in 1 .. n
  <2>1. PICK M \in Nat : DOMAIN c = 1 .. M
    OBVIOUS
  <2>2. e[k] \in 1 .. M /\ e[n] \in 1 .. M
    BY <1>4, <2>1
  <2>3. k < n => e[k] < e[n]
    BY <1>2, <1>3 DEF Picks
  <2> QED BY <2>2, <2>3
<1>6. PhisLead(d, ids)
  <2> SUFFICES ASSUME NEW n \in 1 .. L, d[n].id \in ids
               PROVE  /\ \A k \in 1 .. n : d[k].id \in ids
                      /\ "in" \in DOMAIN d[n]
                      /\ d[n].in \in Seq(ToSet(d[n].in))
                      /\ \A i \in ToSet(d[n].in) : "b" \in DOMAIN i
                      /\ \A k \in 1 .. n : Len(d[k].in) = Len(d[n].in)
    BY <1>3 DEF PhisLead
  <2>1. PICK m \in DOMAIN c : m = e[n] /\ d[n] = c[m]
    BY <1>4
  <2>2. /\ "in" \in DOMAIN c[m] /\ c[m].in \in Seq(ToSet(c[m].in))
        /\ \A i \in ToSet(c[m].in) : "b" \in DOMAIN i
        /\ \A k \in 1 .. m : c[k].id \in ids /\ Len(c[k].in) = Len(c[m].in)
    BY <2>1 DEF PhisLead
  <2>3. \A k \in 1 .. n : k \in 1 .. L /\ e[k] \in 1 .. m /\ d[k] = c[e[k]]
    BY <2>1, <1>4, <1>5
  <2> QED BY <2>1, <2>2, <2>3
<1>7. PhisFrom(d, c, ids)
  BY <1>3, <1>4 DEF PhisFrom, SameEdges
<1> QED BY <1>6, <1>7

(* Rewritten and trimmed: what most steps of the passes do to a function.  *)
Trims(g, f, gone) ==
  /\ Follows(g, f, {}, gone)
  /\ Shaped(g) /\ Blocks(g) = Blocks(f) /\ Ids(g) \cap gone = {}
  /\ \A b \in Blocks(f) : Successors(g, b) = Successors(f, b)
  /\ \A ids : (\A b \in Blocks(f) : PhisLead(f.code[b], ids)) =>
       \A b \in Blocks(f) : PhisLead(g.code[b], ids) /\ PhisFrom(g.code[b], f.code[b], ids)

Terms == {"br", "condbr", "ret"}

LEMMA TrimErase ==
  ASSUME NEW f, Shaped(f), NEW ids, NEW ops, Only(f, ids, ops), ops \cap Terms = {}
  PROVE  Trims(Erase(f, ids), f, ids)
<1>1. ASSUME NEW b \in Blocks(f) PROVE Last(f.code[b]).id \notin ids
  <2>1. Terminator(Last(f.code[b])) /\ Last(f.code[b]).op \notin ops
    BY BlockOK DEF Ends, Terminator, Terms
  <2>2. PICK L \in DOMAIN f.code[b] : Last(f.code[b]) = f.code[b][L]
    BY BlockOK
  <2> QED BY <2>1, <2>2 DEF Only, At
<1> DEFINE g == Erase(f, ids)
<1>2. \A b \in Blocks(f) : Ends(g.code[b], Blocks(f)) /\ Last(g.code[b]) = Last(f.code[b])
  BY <1>1, EraseEnds
<1>3. Follows(g, f, {}, ids) /\ Shaped(g) /\ Blocks(g) = Blocks(f) /\ Ids(g) \cap ids = {}
  BY <1>2, EraseFollows
<1>4. \A b \in Blocks(f) :
        g.code[b] = Kept(f.code[b], {n \in DOMAIN f.code[b] : f.code[b][n].id \notin ids})
  BY DEF Erase, Shaped, LabelsDiffer
<1>5. \A b \in Blocks(f) : Successors(g, b) = Successors(f, b)
  <2> HIDE DEF g
  <2> QED BY <1>2 DEF Successors
<1>6. ASSUME NEW P, \A b \in Blocks(f) : PhisLead(f.code[b], P), NEW b \in Blocks(f)
      PROVE  PhisLead(g.code[b], P) /\ PhisFrom(g.code[b], f.code[b], P)
  <2> HIDE DEF g
  <2>1. PICK c, d : c = f.code[b] /\ d = g.code[b]
    OBVIOUS
  <2>2. c \in Seq(ToSet(c)) /\ PhisLead(c, P)
    BY <2>1, <1>6, BlockOK
  <2>3. PICK K : d = Kept(c, K)
    BY <2>1, <1>4
  <2> QED BY <2>1, <2>2, <2>3, KeepPhis
<1> HIDE DEF g
<1>7. Trims(g, f, ids)
  BY <1>3, <1>5, <1>6 DEF Trims
<1> QED BY <1>7 DEF g

LEMMA TrimReplace ==
  ASSUME NEW f, Shaped(f), NEW new
  PROVE  Trims(ReplaceUses(f, new), f, {})
<1> DEFINE g == ReplaceUses(f, new)
<1>3. /\ Follows(g, f, {}, {}) /\ Shaped(g) /\ Blocks(g) = Blocks(f)
      /\ \A b \in Blocks(f) : Successors(g, b) = Successors(f, b)
  BY ReplaceUsesFollows
<1>4. \A b \in Blocks(f) :
        g.code[b] = [n \in DOMAIN f.code[b] |-> ReplaceIn(f.code[b][n], new)]
  BY DEF ReplaceUses, Shaped, LabelsDiffer
<1>6. ASSUME NEW P, \A b \in Blocks(f) : PhisLead(f.code[b], P), NEW b \in Blocks(f)
      PROVE  PhisLead(g.code[b], P) /\ PhisFrom(g.code[b], f.code[b], P)
  <2> HIDE DEF g
  <2>1. PICK c, d : c = f.code[b] /\ d = g.code[b]
    OBVIOUS
  <2>2. c \in Seq(ToSet(c)) /\ PhisLead(c, P) /\ \A n \in DOMAIN c : Instruction(c[n])
    BY <2>1, <1>6, BlockOK
  <2>3. d = [n \in DOMAIN c |-> ReplaceIn(c[n], new)]
    BY <2>1, <1>4
  <2> QED BY <2>1, <2>2, <2>3, ReplacePhis
<1> HIDE DEF g
<1>7. Trims(g, f, {})
  BY <1>3, <1>6 DEF Trims
<1> QED BY <1>7 DEF g

LEMMA SameTwice ==
  ASSUME NEW i, NEW j, NEW k, Same(i, j), Same(j, k)
  PROVE  Same(i, k)
BY DEF Same

LEMMA InheritsTwice ==
  ASSUME NEW d, NEW c, NEW a, NEW gone, Inherits(d, c, {}, gone), Inherits(c, a, {}, {}),
         \A n \in DOMAIN a : Instruction(a[n])
  PROVE  Inherits(d, a, {}, gone)
<1>1. \A n \in DOMAIN d : \E m \in DOMAIN a : Same(d[n], a[m])
  BY SameTwice DEF Inherits
<1>2. ASSUME NEW m \in DOMAIN a, a[m].id \notin gone
      PROVE  \E n \in DOMAIN d : Same(d[n], a[m])
  <2>1. PICK k \in DOMAIN c : Same(c[k], a[m])
    BY DEF Inherits
  <2>2. c[k].id = a[m].id
    BY <2>1, SameFields
  <2>3. PICK n \in DOMAIN d : Same(d[n], c[k])
    BY <1>2, <2>2 DEF Inherits
  <2> QED BY <2>1, <2>3, SameTwice
<1> QED BY <1>1, <1>2 DEF Inherits

LEMMA TrimTwice ==
  ASSUME NEW f, NEW h, NEW g, NEW gone, Shaped(f), Trims(h, f, {}), Trims(g, h, gone)
  PROVE  Trims(g, f, gone)
<1>1. Follows(g, f, {}, gone)
  <2>1. Follows(g, h, {}, gone) /\ Follows(h, f, {}, {}) /\ Blocks(h) = Blocks(f)
    BY DEF Trims
  <2>2. \A b \in Blocks(f) : Inherits(g.code[b], f.code[b], {}, gone)
    BY <2>1, InheritsTwice, BlockOK DEF Follows
  <2> QED BY <2>1, <2>2 DEF Follows
<1>2. Shaped(g) /\ Blocks(g) = Blocks(f) /\ Ids(g) \cap gone = {}
  BY DEF Trims
<1>3. \A b \in Blocks(f) : Successors(g, b) = Successors(f, b)
  BY DEF Trims
<1>4. ASSUME NEW P, \A b \in Blocks(f) : PhisLead(f.code[b], P), NEW b \in Blocks(f)
      PROVE  PhisLead(g.code[b], P) /\ PhisFrom(g.code[b], f.code[b], P)
  <2>1. Blocks(h) = Blocks(f)
    BY DEF Trims
  <2>2. \A c \in Blocks(f) : PhisLead(h.code[c], P) /\ PhisFrom(h.code[c], f.code[c], P)
    BY <1>4 DEF Trims
  <2>3. PhisLead(g.code[b], P) /\ PhisFrom(g.code[b], h.code[b], P)
    BY <2>1, <2>2 DEF Trims
  <2>4. PhisFrom(g.code[b], f.code[b], P)
    BY <2>2, <2>3 DEF PhisFrom, SameEdges
  <2> QED BY <2>3, <2>4
<1> QED BY <1>1, <1>2, <1>3, <1>4 DEF Trims

LEMMA TrimReplaceErase ==
  ASSUME NEW f, Shaped(f), NEW new, NEW ids, NEW ops, Only(f, ids, ops), ops \cap Terms = {}
  PROVE  Trims(Erase(ReplaceUses(f, new), ids), f, ids)
<1>1. PICK h : h = ReplaceUses(f, new)
  OBVIOUS
<1>2. Trims(h, f, {})
  BY <1>1, TrimReplace
<1>3. Shaped(h) /\ Only(h, ids, ops)
  BY <1>2, FollowsOnly DEF Trims
<1>4. Trims(Erase(h, ids), h, ids)
  BY <1>3, TrimErase
<1> QED BY <1>1, <1>2, <1>4, TrimTwice


--------------------------------------------------------------------------------
(* PHI nodes by name and block: new ones are in their blocks, first, and   *)
(* all alike.                                                              *)

(* PHI nodes by name and block: new ones are in their blocks, first, and   *)
(* all alike.                                                              *)
IdsOf(P) == {p.id : p \in P}
PhisPlaced(f, P) ==
  /\ \A p \in P : p.b \in Blocks(f) /\ \E n \in DOMAIN f.code[p.b] : At(f, p.b, n).id = p.id
  /\ \A b \in Blocks(f) : PhisLead(f.code[b], IdsOf(P))
Empty(c, ids) == \A n \in DOMAIN c : c[n].id \in ids => DOMAIN c[n].in = {}
NoEntries(f, P) == \A b \in Blocks(f) : Empty(f.code[b], IdsOf(P))

LEMMA TrimSelf ==
  ASSUME NEW f, Shaped(f)
  PROVE  Trims(f, f, {})
<1>1. DOMAIN f.code = Blocks(f)
  BY DEF Shaped, LabelsDiffer
<1>2. \A b \in Blocks(f) : Inherits(f.code[b], f.code[b], {}, {})
  BY InheritsSelf
<1>3. Follows(f, f, {}, {})
  BY <1>1, <1>2 DEF Follows
<1>4. ASSUME NEW b \in Blocks(f), NEW ids, PhisLead(f.code[b], ids)
      PROVE  PhisFrom(f.code[b], f.code[b], ids)
  BY <1>4 DEF PhisLead, PhisFrom, SameEdges
<1> QED
  BY <1>3, <1>4 DEF Trims

LEMMA TrimPhis ==
  ASSUME NEW f, Shaped(f), NEW g, NEW gone, Trims(g, f, gone),
         NEW P, PhisPlaced(f, P), Only(f, IdsOf(P), {"phi"}),
         NEW ops, Only(f, gone, ops), "phi" \notin ops
  PROVE  /\ PhisPlaced(g, P) /\ Only(g, IdsOf(P), {"phi"})
         /\ NoEntries(f, P) => NoEntries(g, P)
<1>1. Follows(g, f, {}, gone) /\ Blocks(g) = Blocks(f)
  BY DEF Trims
<1>2. Only(g, IdsOf(P), {"phi"})
  BY <1>1, FollowsOnly
<1>3. \A b \in Blocks(f) : PhisLead(g.code[b], IdsOf(P)) /\ PhisFrom(g.code[b], f.code[b], IdsOf(P))
  BY DEF Trims, PhisPlaced
<1>4. ASSUME NEW p \in P
      PROVE  p.b \in Blocks(g) /\ \E n \in DOMAIN g.code[p.b] : At(g, p.b, n).id = p.id
  <2>0. PICK b \in Blocks(f) : p.b = b
    BY <1>4 DEF PhisPlaced
  <2>1. PICK m \in DOMAIN f.code[b] : f.code[b][m].id = p.id
    BY <1>4, <2>0 DEF PhisPlaced, At
  <2>2. p.id \in IdsOf(P)
    BY <1>4 DEF IdsOf
  <2>3. f.code[b][m].op = "phi"
    BY <2>1, <2>2 DEF Only, At
  <2>4. f.code[b][m].id \notin gone
    BY <2>1, <2>3 DEF Only, At
  <2>5. PICK k \in DOMAIN g.code[b] : Same(g.code[b][k], f.code[b][m])
    BY <2>4, <1>1 DEF Follows, Inherits
  <2>6. Instruction(f.code[b][m])
    BY BlockOK
  <2>7. b \in Blocks(g) /\ g.code[b][k].id = p.id
    BY <2>1, <2>5, <2>6, <1>1, SameFields
  <2> QED
    BY <2>0, <2>7 DEF At
<1>5. ASSUME NoEntries(f, P) PROVE NoEntries(g, P)
  <2> SUFFICES ASSUME NEW b \in Blocks(g), NEW n \in DOMAIN g.code[b], g.code[b][n].id \in IdsOf(P)
               PROVE  DOMAIN g.code[b][n].in = {}
    BY DEF NoEntries, Empty
  <2>1. PICK m \in DOMAIN f.code[b] :
           f.code[b][m].id = g.code[b][n].id /\ SameEdges(g.code[b][n], f.code[b][m])
    BY <1>1, <1>3 DEF PhisFrom
  <2> QED
    BY <2>1, <1>1, <1>5 DEF NoEntries, Empty, SameEdges
<1> QED
  BY <1>1, <1>2, <1>3, <1>4, <1>5 DEF PhisPlaced

LEMMA PhiIs ==
  ASSUME NEW f, Shaped(f), NEW P, PhisPlaced(f, P), NEW p \in P
  PROVE  /\ p.b \in Blocks(f)
         /\ \E n \in DOMAIN f.code[p.b] : f.code[p.b][n].id = p.id /\ Inst(f, p.id) = f.code[p.b][n]
<1>1. PICK b \in Blocks(f) : b = p.b
  BY DEF PhisPlaced
<1>2. PICK n \in DOMAIN f.code[b] : f.code[b][n].id = p.id
  BY <1>1 DEF PhisPlaced, At
<1>3. Inst(f, f.code[b][n].id) = f.code[b][n]
  BY InstIs
<1> QED
  BY <1>1, <1>2, <1>3

LEMMA EntryIsBlock ==
  ASSUME NEW f, Shaped(f)
  PROVE  Entry(f) \in Blocks(f)
BY DEF Shaped, LabelsDiffer, Entry, Blocks, ToSet

LEMMA OnlyParts ==
  ASSUME NEW f, NEW A, NEW B, NEW o, NEW q, Only(f, A, o), Only(f, B, q)
  PROVE  /\ Only(f, A \cup B, o \cup q)
         /\ \A C, r : C \subseteq A /\ o \subseteq r => Only(f, C, r)
BY DEF Only

LEMMA DropOne ==
  ASSUME NEW S, NEW a \in Seq(S), NEW k \in 1 .. Len(a)
  PROVE  /\ Front([a EXCEPT ![k] = Last(a)]) \in Seq(S)
         /\ ToSet(Front([a EXCEPT ![k] = Last(a)])) \subseteq ToSet(a)
<1>1. PICK n \in Nat : n = Len(a) - 1
  OBVIOUS
<1>2. PICK s : s = [a EXCEPT ![k] = a[Len(a)]]
  OBVIOUS
<1>3. s \in Seq(S) /\ Len(s) = Len(a) /\ \A j \in 1 .. Len(a) : s[j] = a[j] \/ s[j] = a[Len(a)]
  BY <1>2
<1>4. PICK d : d = SubSeq(s, 1, n)
  OBVIOUS
<1>5. Front([a EXCEPT ![k] = Last(a)]) = d
  BY <1>1, <1>2, <1>3, <1>4 DEF Front, Last
<1>6. d \in Seq(S) /\ Len(d) = n /\ \A j \in 1 .. n : d[j] = s[j]
  BY <1>1, <1>3, <1>4
<1>7. ToSet(d) \subseteq ToSet(a)
  <2> SUFFICES ASSUME NEW j \in 1 .. n
               PROVE  d[j] \in ToSet(a)
    BY <1>6 DEF ToSet
  <2>1. j \in 1 .. Len(a) /\ Len(a) \in 1 .. Len(a) /\ DOMAIN a = 1 .. Len(a)
    BY <1>1
  <2>2. d[j] = a[j] \/ d[j] = a[Len(a)]
    BY <1>3, <1>6, <2>1
  <2> QED
    BY <2>1, <2>2 DEF ToSet
<1> QED
  BY <1>5, <1>6, <1>7

--------------------------------------------------------------------------------
(* Blocks that are given a PHI node.                                       *)

EmptyPhi(id) == [op |-> "phi", id |-> id, in |-> <<>>]

(* What a block is after a PHI node has been put before it.                *)
After(d, c, i) ==
  /\ Len(d) = Len(c) + 1 /\ d[1] = i
  /\ \A n \in 1 .. Len(c) : d[n + 1] = c[n]

LEMMA PrependOne ==
  ASSUME NEW f, Shaped(f), NEW b \in Blocks(f), NEW new, new \cap Ids(f) = {},
         NEW i, Instruction(i), i.id \in new, NEW d, d = <<i>> \o f.code[b]
  PROVE  /\ Inherits(d, f.code[b], new, {}) /\ Ends(d, Blocks(f)) /\ Last(d) = Last(f.code[b])
         /\ d \in Seq(ToSet(d)) /\ After(d, f.code[b], i)
<1>1. PICK c : c = f.code[b]
  OBVIOUS
<1>2. /\ c \in Seq(ToSet(c)) /\ Len(c) \in Nat \ {0} /\ DOMAIN c = 1 .. Len(c) /\ Ends(c, Blocks(f))
  BY <1>1, BlockOK
<1>3. PICK S : S = ToSet(c) \cup {i} /\ c \in Seq(S)
  <2>1. PICK S : S = ToSet(c) \cup {i}
    OBVIOUS
  <2>2. PICK T : T = ToSet(c)
    OBVIOUS
  <2>3. c \in Seq(T) /\ T \subseteq S
    BY <1>2, <2>1, <2>2
  <2>4. c \in Seq(S)
    BY <2>3
  <2> QED
    BY <2>1, <2>4
<1>4. PICK mid : mid = <<i>>
  OBVIOUS
<1>5. /\ mid \in Seq(S) /\ mid \in Seq(ToSet(mid)) /\ Len(mid) = 1 /\ DOMAIN mid = {1} /\ mid[1] = i
  BY <1>3, <1>4 DEF ToSet
<1>p. PICK one : one = 1
  OBVIOUS
<1>6. Splice(c, 1, mid) = d
  <2>1. SubSeq(c, 1, 0) = <<>> /\ SubSeq(c, 1, Len(c)) = c
    BY <1>2
  <2>2. <<>> \o mid = mid
    BY <1>5
  <2> QED
    BY <2>1, <2>2, <1>1, <1>4 DEF Splice
<1>7. \A k \in DOMAIN c : c[k].id \notin new
  BY <1>1 DEF Ids, Instructions, ToSet
<1>8. \A m, n \in DOMAIN c : c[m].id = c[n].id => m = n
  BY <1>1, NamesOfBlock
<1>9. one \in 1 .. Len(c) /\ d = Splice(c, one, mid)
  BY <1>2, <1>6, <1>p
<1>10. Inherits(d, c, new, {}) /\ Ends(d, Blocks(f)) /\ Last(d) = Last(c)
  <2>1. Fit(mid, new)
    BY <1>5 DEF Fit
  <2>2. c \in Seq(ToSet(c)) /\ Ends(c, Blocks(f))
    BY <1>2
  <2> QED
    BY ONLY <1>7, <1>8, <1>9, <2>1, <2>2, SpliceBlock
<1>11. SplicedAs(d, c, one, mid, Len(c), Len(mid))
  BY ONLY <1>3, <1>5, <1>9, SpliceElements
<1>12. After(d, c, i)
  BY <1>2, <1>5, <1>11, <1>p DEF SplicedAs, After
<1>13. d \in Seq(ToSet(d))
  BY <1>10 DEF Inherits
<1> QED
  BY <1>1, <1>10, <1>12, <1>13

Prepend(f, id) ==
  [f EXCEPT !.code = [b \in DOMAIN @ |->
     IF b \in DOMAIN id THEN <<EmptyPhi(id[b])>> \o @[b] ELSE @[b]]]

LEMMA Prepended ==
  ASSUME NEW f, Shaped(f), NEW id, DOMAIN id \subseteq Blocks(f),
         \A b, c \in DOMAIN id : id[b] = id[c] => b = c,
         NEW new, new \cap Ids(f) = {}, \A b \in DOMAIN id : id[b] \in new,
         NEW g, g = Prepend(f, id)
  PROVE  /\ Follows(g, f, new, {}) /\ Shaped(g) /\ Blocks(g) = Blocks(f)
         /\ \A b \in DOMAIN id : After(g.code[b], f.code[b], EmptyPhi(id[b]))
         /\ \A b \in Blocks(f) \ DOMAIN id : g.code[b] = f.code[b]
<1>1. DOMAIN f.code = Blocks(f) /\ {"name", "layout", "code"} \subseteq DOMAIN f
  BY DEF Shaped, LabelsDiffer
<1>2. /\ DOMAIN g = DOMAIN f /\ g.name = f.name /\ g.layout = f.layout
      /\ DOMAIN g.code = Blocks(f)
      /\ \A b \in Blocks(f) : g.code[b] = IF b \in DOMAIN id
            THEN <<EmptyPhi(id[b])>> \o f.code[b] ELSE f.code[b]
  BY <1>1 DEF Prepend
<1>3. ASSUME NEW b \in DOMAIN id
      PROVE  /\ Inherits(g.code[b], f.code[b], new, {}) /\ Ends(g.code[b], Blocks(f))
             /\ g.code[b] \in Seq(ToSet(g.code[b]))
             /\ After(g.code[b], f.code[b], EmptyPhi(id[b]))
  <2>1. PICK i : i = EmptyPhi(id[b])
    OBVIOUS
  <2>2. Instruction(i) /\ i.id \in new
    BY <2>1 DEF EmptyPhi, Instruction
  <2>3. g.code[b] = <<i>> \o f.code[b] /\ b \in Blocks(f)
    BY <1>2, <2>1
  <2> QED
    BY <2>1, <2>2, <2>3, PrependOne
<1>4. ASSUME NEW b \in Blocks(f)
      PROVE  Inherits(g.code[b], f.code[b], new, {}) /\ Ends(g.code[b], Blocks(f))
  <2>1. CASE b \in DOMAIN id
    BY <2>1, <1>3
  <2>2. CASE b \notin DOMAIN id
    BY <2>2, <1>2, InheritsSelf, BlockOK
  <2> QED
    BY <2>1, <2>2
<1>5. ASSUME NEW b \in Blocks(f), NEW n \in DOMAIN g.code[b], g.code[b][n].id \in new
      PROVE  b \in DOMAIN id /\ g.code[b][n].id = id[b]
  <2>0. \A m \in DOMAIN f.code[b] : f.code[b][m].id \notin new
    BY DEF Ids, Instructions, ToSet
  <2>1. b \in DOMAIN id
    BY <1>2, <1>5, <2>0
  <2>2. DOMAIN f.code[b] = 1 .. Len(f.code[b]) /\ Len(f.code[b]) \in Nat \ {0}
    BY BlockOK
  <2>3. PICK d, c : d = g.code[b] /\ c = f.code[b]
    OBVIOUS
  <2>6. PICK L \in Nat : L = Len(c)
    BY <2>2, <2>3
  <2>7. d \in Seq(ToSet(d)) /\ After(d, c, EmptyPhi(id[b]))
    BY <1>3, <2>1, <2>3
  <2>8. PICK T : T = ToSet(d)
    OBVIOUS
  <2>9. d \in Seq(T)
    BY <2>7, <2>8
  <2>4. /\ DOMAIN d = 1 .. L + 1 /\ d[1] = EmptyPhi(id[b])
        /\ \A k \in 1 .. L : d[k + 1] = c[k]
    BY ONLY <2>6, <2>7, <2>9 DEF After
  <2>5. n = 1
    <3>1. SUFFICES ASSUME n # 1 PROVE FALSE
      OBVIOUS
    <3>2. n \in 1 .. L + 1
      BY <2>3, <2>4
    <3>p. PICK k : k = n - 1
      OBVIOUS
    <3>3. k \in 1 .. L /\ k + 1 = n
      BY <3>1, <3>2, <3>p
    <3>4. d[k + 1] = c[k]
      BY <3>3, <2>4
    <3>5. k \in DOMAIN c
      BY <3>3, <2>2, <2>3, <2>6
    <3>6. c[k].id \notin new
      BY <3>5, <2>0, <2>3
    <3> QED
      BY <3>3, <3>4, <3>6, <1>5, <2>3
  <2> QED
    BY <2>1, <2>3, <2>4, <2>5 DEF EmptyPhi
<1>6. Follows(g, f, new, {})
  <2>1. \A b \in Blocks(f) : Inherits(g.code[b], f.code[b], new, {})
    BY <1>4
  <2>2. ASSUME NEW b \in Blocks(f), NEW c \in Blocks(f), NEW n \in DOMAIN g.code[b],
               NEW m \in DOMAIN g.code[c], g.code[b][n].id = g.code[c][m].id, g.code[b][n].id \in new
        PROVE  b = c
    <3>1. b \in DOMAIN id /\ c \in DOMAIN id /\ id[b] = id[c]
      BY <1>5, <2>2
    <3> QED
      BY <3>1
  <2> QED
    BY ONLY <1>2, <2>1, <2>2 DEF Follows
<1>7. Shaped(g) /\ Blocks(g) = Blocks(f)
  <2>1. Shaped(f) /\ new \cap Ids(f) = {} /\ \A b \in Blocks(f) : Ends(g.code[b], Blocks(f))
    BY <1>4
  <2> QED
    BY ONLY <1>6, <2>1, FollowsShaped
<1>8. \A b \in DOMAIN id : After(g.code[b], f.code[b], EmptyPhi(id[b]))
  BY <1>3
<1>9. \A b \in Blocks(f) \ DOMAIN id : g.code[b] = f.code[b]
  BY <1>2
<1> QED
  BY ONLY <1>6, <1>7, <1>8, <1>9

LEMMA AfterIs ==
  ASSUME NEW c, c \in Seq(ToSet(c)), NEW d, d \in Seq(ToSet(d)), NEW i, After(d, c, i),
         NEW n \in DOMAIN d, n # 1
  PROVE  n - 1 \in DOMAIN c /\ d[n] = c[n - 1] /\ n \in Nat
<1>1. PICK S, T : S = ToSet(c) /\ T = ToSet(d) /\ c \in Seq(S) /\ d \in Seq(T)
  OBVIOUS
<1>2. PICK L \in Nat : L = Len(c)
  BY <1>1
<1>3. DOMAIN d = 1 .. L + 1 /\ DOMAIN c = 1 .. L
  BY <1>1, <1>2 DEF After
<1>4. PICK k : k = n - 1
  OBVIOUS
<1>5. k \in 1 .. L /\ n = k + 1
  BY <1>3, <1>4
<1>6. d[k + 1] = c[k]
  BY <1>2, <1>5 DEF After
<1>7. d[n] = c[k] /\ k \in DOMAIN c /\ n \in Nat
  BY <1>3, <1>5, <1>6
<1> QED
  BY <1>4, <1>7

Lacks(c, ids) == \A n \in DOMAIN c : c[n].id \notin ids

LEMMA AfterLeads ==
  ASSUME NEW c, c \in Seq(ToSet(c)), NEW d, d \in Seq(ToSet(d)), NEW x, After(d, c, EmptyPhi(x)),
         NEW ids, PhisLead(c, ids), Empty(c, ids), NEW more, x \in more, Lacks(c, more)
  PROVE  PhisLead(d, ids \cup more) /\ Empty(d, ids \cup more)
<1>1. /\ d[1].id = x /\ "in" \in DOMAIN d[1] /\ d[1].in = <<>>
  BY DEF After, EmptyPhi
<1>2. \A n \in DOMAIN d : n # 1 => n - 1 \in DOMAIN c /\ d[n] = c[n - 1] /\ n \in Nat
  BY AfterIs
<1>3. ASSUME NEW n \in DOMAIN d, d[n].id \in ids \cup more
      PROVE  /\ "in" \in DOMAIN d[n] /\ d[n].in \in Seq(ToSet(d[n].in)) /\ DOMAIN d[n].in = {}
             /\ Len(d[n].in) = 0
  <2>1. CASE n = 1
    BY <2>1, <1>1
  <2>2. CASE n # 1
    <3>1. PICK k \in DOMAIN c : k = n - 1 /\ d[n] = c[k] /\ c[k].id \in ids
      BY <2>2, <1>2, <1>3 DEF Lacks
    <3>2. "in" \in DOMAIN c[k] /\ c[k].in \in Seq(ToSet(c[k].in)) /\ DOMAIN c[k].in = {}
      BY <3>1 DEF PhisLead, Empty
    <3>3. PICK s, S : s = c[k].in /\ s \in Seq(S) /\ DOMAIN s = {}
      BY <3>2
    <3>4. Len(s) = 0
      <4>1. s \in Seq(S) /\ DOMAIN s = {}
        BY <3>3
      <4>2. Len(s) \in Nat /\ DOMAIN s = 1 .. Len(s)
        BY ONLY <4>1
      <4>3. 1 \notin 1 .. Len(s)
        BY <4>1, <4>2
      <4> QED
        BY ONLY <4>2, <4>3
    <3> QED
      BY <3>1, <3>2, <3>3, <3>4
  <2> QED
    BY <2>1, <2>2
<1>4. ASSUME NEW n \in DOMAIN d, d[n].id \in ids \cup more, NEW k \in 1 .. n
      PROVE  k \in DOMAIN d /\ d[k].id \in ids \cup more
  <2>0. PICK S : d \in Seq(S)
    OBVIOUS
  <2>1. n \in Nat /\ DOMAIN d = 1 .. Len(d) /\ k \in DOMAIN d
    BY <2>0
  <2>2. CASE k = 1
    BY <2>1, <2>2, <1>1
  <2>3. CASE k # 1
    <3>1. n # 1
      BY <2>1, <2>3
    <3>2. PICK m \in DOMAIN c : m = n - 1 /\ d[n] = c[m] /\ c[m].id \in ids
      BY <3>1, <1>2, <1>4 DEF Lacks
    <3>3. PICK j \in DOMAIN c : j = k - 1 /\ d[k] = c[j]
      BY <2>1, <2>3, <1>2
    <3>4. PICK T : c \in Seq(T)
      OBVIOUS
    <3>5. j \in 1 .. m
      BY <2>1, <3>2, <3>3, <3>4
    <3>6. c[j].id \in ids
      BY <3>2, <3>5 DEF PhisLead
    <3> QED
      BY <2>1, <3>3, <3>6
  <2> QED
    BY <2>2, <2>3
<1>5. ASSUME NEW n \in DOMAIN d, d[n].id \in ids \cup more
      PROVE  /\ \A k \in 1 .. n : d[k].id \in ids \cup more
             /\ "in" \in DOMAIN d[n]
             /\ d[n].in \in Seq(ToSet(d[n].in))
             /\ \A e \in ToSet(d[n].in) : "b" \in DOMAIN e
             /\ \A k \in 1 .. n : Len(d[k].in) = Len(d[n].in)
  <2>1. \A k \in 1 .. n : k \in DOMAIN d /\ d[k].id \in ids \cup more
    BY <1>4, <1>5
  <2>2. \A k \in 1 .. n : Len(d[k].in) = 0
    BY <2>1, <1>3
  <2>3. "in" \in DOMAIN d[n] /\ d[n].in \in Seq(ToSet(d[n].in)) /\ DOMAIN d[n].in = {} /\ Len(d[n].in) = 0
    BY <1>3, <1>5
  <2>4. \A e \in ToSet(d[n].in) : "b" \in DOMAIN e
    BY <2>3 DEF ToSet
  <2> QED
    BY <2>1, <2>2, <2>3, <2>4
<1> QED
  BY <1>3, <1>5 DEF PhisLead, Empty

(* Blocks that begin with a new PHI node, the others left alone; what is   *)
(* noted of the new nodes.                                                 *)
Prepends(g, f, id) ==
  /\ \A b \in DOMAIN id : After(g.code[b], f.code[b], EmptyPhi(id[b]))
  /\ \A b \in Blocks(f) \ DOMAIN id : g.code[b] = f.code[b]
Tagged(Q, id, new) ==
  /\ \A p \in Q : p.b \in DOMAIN id /\ p.id = id[p.b] /\ p.id \in new
  /\ \A b \in DOMAIN id : \E p \in Q : p.id = id[b]

LEMMA PrependPhis ==
  ASSUME NEW f, Shaped(f), NEW id, DOMAIN id \subseteq Blocks(f),
         NEW new, new \cap Ids(f) = {},
         NEW g, Shaped(g), Blocks(g) = Blocks(f), Prepends(g, f, id),
         NEW P, PhisPlaced(f, P), NoEntries(f, P), Only(f, IdsOf(P), {"phi"}),
         NEW Q, Tagged(Q, id, new)
  PROVE  PhisPlaced(g, P \cup Q) /\ NoEntries(g, P \cup Q) /\ Only(g, IdsOf(P \cup Q), {"phi"})
<1>0. /\ \A b \in DOMAIN id : After(g.code[b], f.code[b], EmptyPhi(id[b]))
      /\ \A b \in Blocks(f) \ DOMAIN id : g.code[b] = f.code[b]
      /\ \A p \in Q : p.b \in DOMAIN id /\ p.id = id[p.b] /\ p.id \in new
      /\ \A b \in DOMAIN id : \E p \in Q : p.id = id[b]
  BY DEF Prepends, Tagged
<1>1. IdsOf(P \cup Q) = IdsOf(P) \cup IdsOf(Q) /\ \A b \in DOMAIN id : id[b] \in IdsOf(Q)
  BY <1>0 DEF IdsOf
<1>2. \A b \in Blocks(f) : Lacks(f.code[b], IdsOf(Q))
  <2>1. \A b \in Blocks(f) : \A n \in DOMAIN f.code[b] : f.code[b][n].id \notin new
    BY DEF Ids, Instructions, ToSet
  <2> QED
    BY <2>1, <1>0 DEF Lacks, IdsOf
<1>3. ASSUME NEW b \in Blocks(f)
      PROVE  /\ f.code[b] \in Seq(ToSet(f.code[b])) /\ g.code[b] \in Seq(ToSet(g.code[b]))
             /\ PhisLead(f.code[b], IdsOf(P)) /\ Empty(f.code[b], IdsOf(P))
  BY BlockOK DEF PhisPlaced, NoEntries
<1>4. ASSUME NEW b \in Blocks(f)
      PROVE  PhisLead(g.code[b], IdsOf(P \cup Q)) /\ Empty(g.code[b], IdsOf(P \cup Q))
  <2>1. PICK c, d, ids, more : c = f.code[b] /\ d = g.code[b] /\ ids = IdsOf(P) /\ more = IdsOf(Q)
    OBVIOUS
  <2>2. /\ c \in Seq(ToSet(c)) /\ d \in Seq(ToSet(d)) /\ PhisLead(c, ids) /\ Empty(c, ids)
        /\ Lacks(c, more)
    BY <1>2, <1>3, <2>1
  <2>3. CASE b \in DOMAIN id
    <3>1. PICK x : x = id[b]
      OBVIOUS
    <3>2. After(d, c, EmptyPhi(x)) /\ x \in more
      BY <2>1, <2>3, <3>1, <1>0, <1>1
    <3>3. PhisLead(d, ids \cup more) /\ Empty(d, ids \cup more)
      BY ONLY <2>2, <3>2, AfterLeads
    <3> QED
      BY <2>1, <3>3, <1>1
  <2>4. CASE b \notin DOMAIN id
    <3>1. d = c
      BY <2>1, <2>4, <1>0
    <3>2. \A n \in DOMAIN c : c[n].id \in ids \cup more => c[n].id \in ids
      BY <2>2 DEF Lacks
    <3>3. PhisLead(d, ids \cup more) /\ Empty(d, ids \cup more)
      BY ONLY <2>2, <3>1, <3>2 DEF PhisLead, Empty
    <3> QED
      BY <2>1, <3>3, <1>1
  <2> QED
    BY <2>3, <2>4
<1>5. ASSUME NEW b \in Blocks(f), NEW n \in DOMAIN f.code[b]
      PROVE  \E m \in DOMAIN g.code[b] : g.code[b][m] = f.code[b][n]
  <2>1. CASE b \in DOMAIN id
    <3>1. PICK c, d : c = f.code[b] /\ d = g.code[b]
      OBVIOUS
    <3>2. PICK S, T : c \in Seq(S) /\ d \in Seq(T)
      BY <1>3, <3>1
    <3>3. After(d, c, EmptyPhi(id[b])) /\ n \in 1 .. Len(c) /\ DOMAIN d = 1 .. Len(d)
      BY <2>1, <3>1, <3>2, <1>0
    <3>4. n + 1 \in DOMAIN d /\ d[n + 1] = c[n]
      BY <3>2, <3>3 DEF After
    <3> QED
      BY <3>1, <3>4
  <2>2. CASE b \notin DOMAIN id
    BY <2>2, <1>0
  <2> QED
    BY <2>1, <2>2
<1>6. ASSUME NEW p \in P \cup Q
      PROVE  p.b \in Blocks(g) /\ \E n \in DOMAIN g.code[p.b] : At(g, p.b, n).id = p.id
  <2>1. CASE p \in P
    <3>1. PICK b \in Blocks(f) : b = p.b
      BY <2>1 DEF PhisPlaced
    <3>2. PICK n \in DOMAIN f.code[b] : f.code[b][n].id = p.id
      BY <2>1, <3>1 DEF PhisPlaced, At
    <3>3. PICK m \in DOMAIN g.code[b] : g.code[b][m] = f.code[b][n]
      BY <1>5
    <3> QED
      BY <3>1, <3>2, <3>3 DEF At
  <2>2. CASE p \in Q
    <3>1. PICK b \in DOMAIN id : b = p.b /\ p.id = id[b]
      BY <2>2, <1>0
    <3>2. After(g.code[b], f.code[b], EmptyPhi(id[b])) /\ b \in Blocks(g)
      BY <3>1, <1>0
    <3>3. 1 \in DOMAIN g.code[b]
      BY <3>2, BlockOK
    <3> QED
      BY <3>1, <3>2, <3>3 DEF At, After, EmptyPhi
  <2> QED
    BY <2>1, <2>2
<1>7. ASSUME NEW b \in Blocks(g), NEW n \in DOMAIN g.code[b], g.code[b][n].id \in IdsOf(P \cup Q)
      PROVE  g.code[b][n].op = "phi"
  <2>1. CASE \E m \in DOMAIN f.code[b] : g.code[b][n] = f.code[b][m]
    BY <2>1, <1>1, <1>2, <1>7 DEF Only, At, Lacks
  <2>2. CASE g.code[b][n] = EmptyPhi(id[b])
    BY <2>2 DEF EmptyPhi
  <2>3. (\E m \in DOMAIN f.code[b] : g.code[b][n] = f.code[b][m]) \/ g.code[b][n] = EmptyPhi(id[b])
    <3>1. CASE b \notin DOMAIN id
      BY <3>1, <1>0
    <3>2. CASE b \in DOMAIN id
      <4>1. PICK c, d : c = f.code[b] /\ d = g.code[b]
        OBVIOUS
      <4>2. c \in Seq(ToSet(c)) /\ d \in Seq(ToSet(d)) /\ After(d, c, EmptyPhi(id[b])) /\ n \in DOMAIN d
        BY <1>0, <1>3, <3>2, <4>1
      <4>3. n # 1 => n - 1 \in DOMAIN c /\ d[n] = c[n - 1]
        BY <4>2, AfterIs
      <4>4. d[1] = EmptyPhi(id[b])
        BY <4>2 DEF After
      <4> QED
        BY <4>1, <4>3, <4>4
    <3> QED
      BY <3>1, <3>2
  <2> QED
    BY <2>1, <2>2, <2>3
<1>8. PhisPlaced(g, P \cup Q)
  BY <1>4, <1>6 DEF PhisPlaced
<1>9. NoEntries(g, P \cup Q)
  BY <1>4 DEF NoEntries
<1>10. Only(g, IdsOf(P \cup Q), {"phi"})
  BY <1>7 DEF Only, At
<1> QED
  BY <1>8, <1>9, <1>10

(* Numbers for some of the blocks, in layout order.                        *)
Numbers(order, first) ==
  [b \in ToSet(order) |-> first + (CHOOSE n \in DOMAIN order : order[n] = b) - 1]

Tags(id, B, first, n) ==
  /\ DOMAIN id \subseteq B /\ n \in Nat
  /\ \A b \in DOMAIN id : id[b] \in first .. first + n - 1
  /\ \A b, c \in DOMAIN id : id[b] = id[c] => b = c

LEMMA Numbered ==
  ASSUME NEW f, Shaped(f), NEW K, NEW order, order = Kept(f.layout, K), NEW first \in Nat,
         NEW id, id = Numbers(order, first)
  PROVE  Tags(id, Blocks(f), first, Len(order))
<1>1. order \in Seq(Blocks(f))
  <2>1. f.layout \in Seq(Blocks(f))
    BY DEF Shaped, LabelsDiffer
  <2> QED
    BY <2>1, KeptPicks
<1>2. DOMAIN order = 1 .. Len(order) /\ Len(order) \in Nat
  BY <1>1
<1>3. ToSet(order) \subseteq Blocks(f)
  BY <1>1 DEF ToSet
<1>4. PICK at : at = [b \in ToSet(order) |-> CHOOSE n \in DOMAIN order : order[n] = b]
  OBVIOUS
<1>5. ASSUME NEW b \in ToSet(order) PROVE at[b] \in DOMAIN order /\ order[at[b]] = b
  BY <1>4 DEF ToSet
<1>6. ASSUME NEW b \in ToSet(order) PROVE id[b] = first + at[b] - 1
  BY <1>4 DEF Numbers
<1>9. DOMAIN id = ToSet(order)
  BY DEF Numbers
<1>7. ASSUME NEW b \in ToSet(order) PROVE id[b] \in first .. first + Len(order) - 1
  BY <1>2, <1>5, <1>6
<1>8. ASSUME NEW b \in ToSet(order), NEW c \in ToSet(order), id[b] = id[c] PROVE b = c
  <2>1. PICK x \in Nat : x = at[b]
    BY <1>2, <1>5
  <2>3. PICK y \in Nat : y = at[c]
    BY <1>2, <1>5
  <2>4. first + x - 1 = first + y - 1
    BY <1>6, <1>8, <2>1, <2>3
  <2>2. at[b] = at[c]
    BY ONLY first \in Nat, <2>1, <2>3, <2>4
  <2> QED
    BY <2>2, <1>5
<1> QED
  BY <1>2, <1>3, <1>7, <1>8, <1>9 DEF Tags

--------------------------------------------------------------------------------
(* PHI nodes that are given entries, and the work that waits to give them  *)
(* theirs.                                                                 *)

(* PHI nodes of a block that get entries for the edges from p.             *)
Longer(i, j, p, E) ==
  /\ Same(i, j)
  /\ "in" \in DOMAIN j /\ j.in \in Seq(ToSet(j.in)) =>
       /\ i.in \in Seq(ToSet(i.in)) /\ Len(i.in) = Len(j.in) + E
       /\ \A k \in 1 .. Len(j.in) : i.in[k] = j.in[k]
       /\ \A k \in Len(j.in) + 1 .. Len(j.in) + E : "b" \in DOMAIN i.in[k] /\ i.in[k].b = p

(* Block d is c with entries for E edges from p at the positions N.        *)
Entered(d, c, N, p, E) ==
  /\ DOMAIN d = DOMAIN c /\ d = [n \in DOMAIN c |-> d[n]]
  /\ \A n \in DOMAIN c \ N : d[n] = c[n]
  /\ \A n \in DOMAIN c \cap N : Longer(d[n], c[n], p, E)

Joined(s, t) == s \o t

LEMMA JoinIs ==
  ASSUME NEW S, NEW s \in Seq(S), NEW T, NEW t \in Seq(T), NEW u, u = s \o t
  PROVE  /\ u \in Seq(S \cup T) /\ Len(u) = Len(s) + Len(t)
         /\ \A k \in 1 .. Len(s) : u[k] = s[k]
         /\ \A k \in 1 .. Len(t) : u[Len(s) + k] = t[k]
<1>1. s \in Seq(S \cup T) /\ t \in Seq(S \cup T)
  OBVIOUS
<1>2. PICK R : R = S \cup T
  OBVIOUS
<1>3. s \in Seq(R) /\ t \in Seq(R)
  BY <1>1, <1>2
<1>4. u \in Seq(R) /\ Len(u) = Len(s) + Len(t)
  BY ONLY <1>3, u = s \o t
<1>5. \A k \in 1 .. Len(s) : u[k] = s[k]
  BY ONLY <1>3, u = s \o t
<1>6. \A k \in 1 .. Len(t) : u[Len(s) + k] = t[k]
  BY ONLY <1>3, u = s \o t
<1> QED
  BY <1>2, <1>4, <1>5, <1>6

LEMMA InItsSet ==
  ASSUME NEW S, NEW s \in Seq(S)
  PROVE  s \in Seq(ToSet(s)) /\ ToSet(s) \subseteq S
BY DEF ToSet

LEMMA LongerIs ==
  ASSUME NEW j, NEW p, NEW E \in Nat, NEW x, NEW i,
         i = [j EXCEPT !.in = @ \o [k \in 1 .. E |-> [b |-> p, v |-> x]]]
  PROVE  Longer(i, j, p, E)
<1>1. Same(i, j)
  BY DEF Same, Lasting
<1>2. ASSUME "in" \in DOMAIN j, j.in \in Seq(ToSet(j.in))
      PROVE  /\ i.in \in Seq(ToSet(i.in)) /\ Len(i.in) = Len(j.in) + E
             /\ \A k \in 1 .. Len(j.in) : i.in[k] = j.in[k]
             /\ \A k \in Len(j.in) + 1 .. Len(j.in) + E : "b" \in DOMAIN i.in[k] /\ i.in[k].b = p
  <2>1. PICK e : e = [b |-> p, v |-> x]
    OBVIOUS
  <2>2. PICK t : t = [k \in 1 .. E |-> e]
    OBVIOUS
  <2>3. t \in Seq({e}) /\ Len(t) = E /\ \A k \in 1 .. E : t[k] = e
    BY ONLY <2>2, E \in Nat
  <2>4. i.in = j.in \o t
    BY <1>2, <2>1, <2>2
  <2>5. PICK S : S = ToSet(j.in)
    OBVIOUS
  <2>6. PICK s, u : s = j.in /\ u = i.in
    OBVIOUS
  <2>7. s \in Seq(S) /\ u = s \o t
    BY <1>2, <2>4, <2>5, <2>6
  <2>8. /\ u \in Seq(S \cup {e}) /\ Len(u) = Len(s) + E
        /\ \A k \in 1 .. Len(s) : u[k] = s[k]
        /\ \A k \in 1 .. E : u[Len(s) + k] = e
    <3>1. PICK T : T = {e}
      OBVIOUS
    <3>2. t \in Seq(T) /\ s \in Seq(S) /\ u = s \o t
      BY <2>3, <2>7, <3>1
    <3>3. /\ u \in Seq(S \cup T) /\ Len(u) = Len(s) + Len(t)
          /\ \A k \in 1 .. Len(s) : u[k] = s[k]
          /\ \A k \in 1 .. Len(t) : u[Len(s) + k] = t[k]
      BY ONLY <3>2, JoinIs
    <3> QED
      BY <2>3, <3>1, <3>3
  <2>9. u \in Seq(ToSet(u))
    <3>1. PICK R : R = S \cup {e}
      OBVIOUS
    <3>2. u \in Seq(R)
      BY <2>8, <3>1
    <3> QED
      BY ONLY <3>2, InItsSet
  <2>10. PICK L \in Nat : L = Len(s)
    BY ONLY <2>7
  <2>11. ASSUME NEW k \in L + 1 .. L + E PROVE u[k] = e
    <3>1. PICK m : m = k - L
      OBVIOUS
    <3>2. m \in 1 .. E /\ L + m = k
      BY <3>1
    <3> QED
      BY <3>2, <2>8, <2>10
  <2>12. "b" \in DOMAIN e /\ e.b = p
    BY <2>1
  <2>13. Len(j.in) = L
    BY <2>6, <2>10
  <2>14. \A k \in Len(j.in) + 1 .. Len(j.in) + E : "b" \in DOMAIN i.in[k] /\ i.in[k].b = p
    BY <2>6, <2>11, <2>12, <2>13
  <2>15. /\ i.in \in Seq(ToSet(i.in)) /\ Len(i.in) = Len(j.in) + E
         /\ \A k \in 1 .. Len(j.in) : i.in[k] = j.in[k]
    BY <2>6, <2>8, <2>9
  <2> QED
    BY <2>14, <2>15
<1> QED
  BY <1>1, <1>2 DEF Longer

(* New PHI nodes still lead, when all of them get the same entries.        *)
LEMMA EnteredLead ==
  ASSUME NEW c, c \in Seq(ToSet(c)), \A n \in DOMAIN c : Instruction(c[n]),
         NEW ids, PhisLead(c, ids), NEW N, \A n \in DOMAIN c : c[n].id \in ids => n \in N,
         NEW p, NEW E \in Nat, NEW d, Entered(d, c, N, p, E)
  PROVE  PhisLead(d, ids)
<1>1. PICK L \in Nat : DOMAIN c = 1 .. L
  OBVIOUS
<1>2. \A n \in DOMAIN c : d[n].id = c[n].id
  BY SameFields DEF Entered, Longer
<1>3. SUFFICES ASSUME NEW n \in DOMAIN c, c[n].id \in ids
               PROVE  /\ \A k \in 1 .. n : d[k].id \in ids
                      /\ "in" \in DOMAIN d[n]
                      /\ d[n].in \in Seq(ToSet(d[n].in))
                      /\ \A e \in ToSet(d[n].in) : "b" \in DOMAIN e
                      /\ \A k \in 1 .. n : Len(d[k].in) = Len(d[n].in)
  BY <1>2 DEF PhisLead, Entered
<1>4. \A k \in 1 .. n : k \in DOMAIN c /\ c[k].id \in ids
  BY <1>1, <1>3 DEF PhisLead
<1>5. ASSUME NEW k \in DOMAIN c, c[k].id \in ids
      PROVE  /\ "in" \in DOMAIN c[k] /\ c[k].in \in Seq(ToSet(c[k].in)) /\ Longer(d[k], c[k], p, E)
             /\ \A e \in ToSet(c[k].in) : "b" \in DOMAIN e
  BY <1>5 DEF PhisLead, Entered
<1>6. ASSUME NEW k \in DOMAIN c, c[k].id \in ids
      PROVE  /\ d[k].in \in Seq(ToSet(d[k].in)) /\ Len(d[k].in) = Len(c[k].in) + E
             /\ "in" \in DOMAIN d[k] /\ \A e \in ToSet(d[k].in) : "b" \in DOMAIN e
  <2>1. PICK i, j : i = d[k] /\ j = c[k]
    OBVIOUS
  <2>2. /\ "in" \in DOMAIN j /\ j.in \in Seq(ToSet(j.in)) /\ Longer(i, j, p, E)
        /\ \A e \in ToSet(j.in) : "b" \in DOMAIN e
    BY <1>5, <1>6, <2>1
  <2>3. /\ i.in \in Seq(ToSet(i.in)) /\ Len(i.in) = Len(j.in) + E /\ DOMAIN i = DOMAIN j
        /\ \A m \in 1 .. Len(j.in) : i.in[m] = j.in[m]
        /\ \A m \in Len(j.in) + 1 .. Len(j.in) + E : "b" \in DOMAIN i.in[m]
    BY ONLY <2>2 DEF Longer, Same
  <2>4. PICK s, u : s = j.in /\ u = i.in
    OBVIOUS
  <2>5. PICK S, U : S = ToSet(s) /\ U = ToSet(u)
    OBVIOUS
  <2>6. s \in Seq(S) /\ u \in Seq(U)
    BY <2>2, <2>3, <2>4, <2>5
  <2>7. PICK M \in Nat : M = Len(s)
    BY ONLY <2>6
  <2>8. DOMAIN u = 1 .. M + E /\ DOMAIN s = 1 .. M
    BY <2>3, <2>4, <2>6, <2>7
  <2>9. ASSUME NEW m \in DOMAIN u PROVE "b" \in DOMAIN u[m]
    <3>1. CASE m \in 1 .. M
      BY <3>1, <2>2, <2>3, <2>4, <2>7, <2>8 DEF ToSet
    <3>2. CASE m \in M + 1 .. M + E
      BY <3>2, <2>3, <2>4, <2>7
    <3> QED
      BY <3>1, <3>2, <2>8
  <2>10. \A e \in ToSet(u) : "b" \in DOMAIN e
    BY <2>9 DEF ToSet
  <2> QED
    BY <2>1, <2>2, <2>3, <2>4, <2>10
<1>7. \A k \in 1 .. n : Len(c[k].in) = Len(c[n].in)
  BY <1>3 DEF PhisLead
<1> QED
  BY <1>1, <1>2, <1>3, <1>4, <1>6, <1>7

(* What the renamer has done with an edge.                                 *)
Entries(f, id, p) == {k \in DOMAIN Inst(f, id).in : Inst(f, id).in[k].b = p}
Waiting(w, p, b)  == {k \in DOMAIN w : w[k].pred = p /\ w[k].bb = b}
Once(f, P, w, seen) ==
  \A phi \in P : \A p \in Preds(f, phi.b) :
    IF p \in seen
      THEN Cardinality(Entries(f, phi.id, p)) + Edges(f, p, phi.b) * Cardinality(Waiting(w, p, phi.b))
             = Edges(f, p, phi.b)
      ELSE Entries(f, phi.id, p) = {} /\ Waiting(w, p, phi.b) = {}
Work(w, B) == w \in Seq(ToSet(w)) /\ \A k \in DOMAIN w : w[k].bb \in B

LEMMA OneOrNone ==
  ASSUME NEW E \in Nat, NEW c \in Nat, NEW e \in Nat, E > 0, c > 0, e + E * c = E
  PROVE  e = 0 /\ c = 1
<1>1. PICK d \in Nat : c = d + 1
  <2>1. c - 1 \in Nat /\ c = (c - 1) + 1
    OBVIOUS
  <2> QED
    BY <2>1
<1>2. E * c = E * d + E
  BY <1>1
<1>3. E * d \in Nat
  OBVIOUS
<1>4. e = 0 /\ E * d = 0
  BY <1>2, <1>3
<1>5. d = 0
  BY <1>4
<1> QED
  BY <1>1, <1>4, <1>5

LEMMA SubsetCard ==
  ASSUME NEW n \in Nat, NEW T, T \subseteq 1 .. n
  PROVE  /\ IsFiniteSet(T) /\ Cardinality(T) \in Nat
         /\ Cardinality(T) = 0 <=> T = {}
<1>1. IsFiniteSet(1 .. n)
  BY FS_Interval
<1>2. IsFiniteSet(T)
  BY <1>1, FS_Subset
<1> QED
  BY <1>2, FS_CardinalityType, FS_EmptySet

(* Function h is f with such entries in block b.                           *)
EnteredIn(h, f, b, N, p, E) ==
  \E d : Entered(d, f.code[b], N, p, E) /\ h = [f EXCEPT !.code[b] = d]

LEMMA EnteredFollows ==
  ASSUME NEW f, Shaped(f), NEW b \in Blocks(f), NEW N, NEW p, NEW E, NEW h, EnteredIn(h, f, b, N, p, E)
  PROVE  /\ Follows(h, f, {}, {}) /\ Shaped(h) /\ Blocks(h) = Blocks(f)
         /\ \A c \in Blocks(f) : Successors(h, c) = Successors(f, c)
         /\ Entered(h.code[b], f.code[b], N, p, E) /\ \A c \in Blocks(f) \ {b} : h.code[c] = f.code[c]
<1>0. PICK d : Entered(d, f.code[b], N, p, E) /\ h = [f EXCEPT !.code[b] = d]
  BY DEF EnteredIn
<1>1. LabelsDiffer(f) /\ DOMAIN f.code = Blocks(f) /\ {"name", "layout", "code"} \subseteq DOMAIN f
  BY DEF Shaped, LabelsDiffer
<1>2. h.code[b] = d /\ \A c \in Blocks(f) \ {b} : h.code[c] = f.code[c]
  BY <1>0, <1>1
<1>3. DOMAIN h = DOMAIN f /\ h.name = f.name /\ h.layout = f.layout /\ DOMAIN h.code = Blocks(f)
  BY <1>0, <1>1
<1>4. ASSUME NEW c \in Blocks(f)
      PROVE  /\ h.code[c] = [n \in DOMAIN f.code[c] |-> h.code[c][n]]
             /\ \A n \in DOMAIN f.code[c] : Same(h.code[c][n], f.code[c][n])
  <2>1. CASE c = b
    <3>1. d = [n \in DOMAIN f.code[b] |-> d[n]]
      BY <1>0 DEF Entered
    <3>2. \A n \in DOMAIN f.code[b] : Same(d[n], f.code[b][n])
      BY <1>0 DEF Entered, Longer, Same
    <3> QED
      BY <2>1, <1>2, <3>1, <3>2
  <2>2. CASE c # b
    <3>1. h.code[c] = f.code[c] /\ f.code[c] \in Seq(ToSet(f.code[c]))
      BY <1>2, <2>2, BlockOK
    <3>2. f.code[c] = [n \in DOMAIN f.code[c] |-> f.code[c][n]]
      BY <3>1
    <3> QED
      BY <3>1, <3>2 DEF Same
  <2> QED
    BY <2>1, <2>2
<1>5. \A c \in Blocks(f) :
        /\ h.code[c] = [n \in DOMAIN f.code[c] |-> h.code[c][n]]
        /\ \A n \in DOMAIN f.code[c] : Same(h.code[c][n], f.code[c][n])
  BY <1>4
<1>6. /\ Follows(h, f, {}, {}) /\ Shaped(h) /\ Blocks(h) = Blocks(f)
      /\ \A c \in Blocks(f) : Successors(h, c) = Successors(f, c)
  BY ONLY <1>3, <1>5, Shaped(f), Rewritten
<1> QED
  BY <1>0, <1>2, <1>6

From(i, p) == {k \in DOMAIN i.in : i.in[k].b = p}

LEMMA EntriesAt ==
  ASSUME NEW f, Shaped(f), NEW b \in Blocks(f), NEW n \in DOMAIN f.code[b], NEW id, f.code[b][n].id = id
  PROVE  \A p : Entries(f, id, p) = From(f.code[b][n], p)
<1>1. Inst(f, id) = f.code[b][n]
  BY InstIs
<1> QED
  BY <1>1 DEF Entries, From

LEMMA LongerEntries ==
  ASSUME NEW i, NEW j, NEW p, NEW E \in Nat, Longer(i, j, p, E),
         "in" \in DOMAIN j, j.in \in Seq(ToSet(j.in)), NEW q
  PROVE  /\ q # p => From(i, q) = From(j, q)
         /\ From(j, p) = {} => Cardinality(From(i, p)) = E
         /\ IsFiniteSet(From(j, q)) /\ Cardinality(From(j, q)) \in Nat
<1>1. PICK s, u : s = j.in /\ u = i.in
  OBVIOUS
<1>2. PICK S, U : S = ToSet(s) /\ U = ToSet(u)
  OBVIOUS
<1>3. s \in Seq(S) /\ u \in Seq(U)
  BY <1>1, <1>2 DEF Longer
<1>4. PICK L \in Nat : L = Len(s)
  BY ONLY <1>3
<1>5. DOMAIN s = 1 .. L /\ DOMAIN u = 1 .. L + E
  BY <1>1, <1>3, <1>4 DEF Longer
<1>6. /\ \A k \in 1 .. L : u[k] = s[k]
      /\ \A k \in L + 1 .. L + E : u[k].b = p
  BY <1>1, <1>4 DEF Longer
<1>7. /\ \A x : From(i, x) = {k \in 1 .. L + E : u[k].b = x}
      /\ \A x : From(j, x) = {k \in 1 .. L : s[k].b = x}
  BY <1>1, <1>5 DEF From
<1>8. ASSUME q # p PROVE From(i, q) = From(j, q)
  <2>1. {k \in 1 .. L + E : u[k].b = q} = {k \in 1 .. L : s[k].b = q}
    BY ONLY <1>6, <1>8, L \in Nat, E \in Nat
  <2> QED
    BY ONLY <1>7, <2>1
<1>9. ASSUME From(j, p) = {} PROVE Cardinality(From(i, p)) = E
  <2>1. \A k \in 1 .. L : s[k].b # p
    BY <1>7, <1>9
  <2>2. {k \in 1 .. L + E : u[k].b = p} = L + 1 .. L + E
    BY ONLY <1>6, <2>1, L \in Nat, E \in Nat
  <2>3. PICK x, y : x = L + 1 /\ y = L + E
    OBVIOUS
  <2>4. x \in Int /\ y \in Int /\ E = IF x > y THEN 0 ELSE y - x + 1
    BY <2>3
  <2>5. Cardinality(x .. y) = E
    BY <2>4, FS_Interval
  <2> QED
    BY <1>7, <2>2, <2>3, <2>5
<1>10. IsFiniteSet(From(j, q)) /\ Cardinality(From(j, q)) \in Nat
  <2>1. From(j, q) \subseteq 1 .. L
    BY <1>7
  <2> QED
    BY ONLY <2>1, L \in Nat, SubsetCard
<1> QED
  BY <1>8, <1>9, <1>10

(* The last item of a work list is taken off it.                           *)
LEMMA Taken ==
  ASSUME NEW S, NEW w \in Seq(S), w # <<>>
  PROVE  /\ Front(w) \in Seq(S) /\ Len(w) \in DOMAIN w /\ Last(w) = w[Len(w)]
         /\ DOMAIN Front(w) = DOMAIN w \ {Len(w)}
         /\ \A k \in DOMAIN Front(w) : Front(w)[k] = w[k]
<1>1. PICK L \in Nat : L = Len(w)
  OBVIOUS
<1>2. L # 0 /\ DOMAIN w = 1 .. L
  BY <1>1
<1>3. PICK u : u = SubSeq(w, 1, L - 1)
  OBVIOUS
<1>4. PICK M \in Nat : M = L - 1 /\ M + 1 = L
  BY <1>2
<1>5. u \in Seq(S) /\ Len(u) = M /\ \A k \in 1 .. M : u[k] = w[k]
  BY ONLY <1>1, <1>2, <1>3, <1>4, w \in Seq(S)
<1>6. Front(w) = u
  BY <1>1, <1>3 DEF Front
<1>7. DOMAIN u = 1 .. M /\ 1 .. M = (1 .. L) \ {L}
  BY <1>4, <1>5
<1> QED
  BY <1>1, <1>2, <1>5, <1>6, <1>7 DEF Last

LEMMA WaitingFront ==
  ASSUME NEW w, w \in Seq(ToSet(w)), w # <<>>, NEW p, NEW b
  PROVE  /\ Waiting(Front(w), p, b) = Waiting(w, p, b) \ {Len(w)}
         /\ Len(w) \in Waiting(w, p, b) <=> Last(w).pred = p /\ Last(w).bb = b
         /\ IsFiniteSet(Waiting(w, p, b)) /\ Cardinality(Waiting(w, p, b)) \in Nat
<1>1. PICK S : S = ToSet(w)
  OBVIOUS
<1>2. w \in Seq(S)
  BY <1>1
<1>3. /\ Len(w) \in DOMAIN w /\ Last(w) = w[Len(w)]
      /\ DOMAIN Front(w) = DOMAIN w \ {Len(w)}
      /\ \A k \in DOMAIN Front(w) : Front(w)[k] = w[k]
  BY <1>2, Taken
<1>4. PICK L \in Nat : L = Len(w) /\ DOMAIN w = 1 .. L
  BY <1>2
<1>5. Waiting(w, p, b) \subseteq 1 .. L
  BY <1>4 DEF Waiting
<1>6. IsFiniteSet(Waiting(w, p, b)) /\ Cardinality(Waiting(w, p, b)) \in Nat
  BY ONLY <1>5, L \in Nat, SubsetCard
<1> QED
  BY <1>3, <1>6 DEF Waiting

(* A new PHI node and where it is, before and after.                       *)
LEMMA PlacedAt ==
  ASSUME NEW f, Shaped(f), NEW P, PhisPlaced(f, P), NEW phi \in P
  PROVE  /\ phi.b \in Blocks(f) /\ phi.id \in IdsOf(P)
         /\ \E n \in DOMAIN f.code[phi.b] :
              /\ f.code[phi.b][n].id = phi.id
              /\ "in" \in DOMAIN f.code[phi.b][n]
              /\ f.code[phi.b][n].in \in Seq(ToSet(f.code[phi.b][n].in))
<1>1. phi.id \in IdsOf(P)
  BY DEF IdsOf
<1>2. PICK b \in Blocks(f) : b = phi.b
  BY DEF PhisPlaced
<1>3. PICK n \in DOMAIN f.code[b] : f.code[b][n].id = phi.id
  BY <1>2 DEF PhisPlaced, At
<1>4. "in" \in DOMAIN f.code[b][n] /\ f.code[b][n].in \in Seq(ToSet(f.code[b][n].in))
  BY <1>1, <1>3 DEF PhisPlaced, PhisLead
<1> QED
  BY <1>1, <1>2, <1>3, <1>4

LEMMA SameEdgesBetween ==
  ASSUME NEW f, NEW h, Blocks(h) = Blocks(f), \A c \in Blocks(f) : Successors(h, c) = Successors(f, c)
  PROVE  /\ \A p \in Blocks(f) : \A c : Edges(h, p, c) = Edges(f, p, c)
         /\ \A c : Preds(h, c) = Preds(f, c) /\ Preds(f, c) \subseteq Blocks(f)
<1>1. \A p \in Blocks(f) : \A c : Edges(h, p, c) = Edges(f, p, c)
  BY DEF Edges
<1> QED
  BY <1>1 DEF Preds

LEMMA EnteredPlaced ==
  ASSUME NEW f, Shaped(f), NEW b \in Blocks(f), NEW P, PhisPlaced(f, P),
         NEW N, \A n \in DOMAIN f.code[b] : f.code[b][n].id \in IdsOf(P) => n \in N,
         NEW p, NEW E \in Nat, NEW h, EnteredIn(h, f, b, N, p, E)
  PROVE  PhisPlaced(h, P)
<1>1. /\ Shaped(h) /\ Blocks(h) = Blocks(f)
      /\ Entered(h.code[b], f.code[b], N, p, E) /\ \A c \in Blocks(f) \ {b} : h.code[c] = f.code[c]
  BY EnteredFollows
<1>2. f.code[b] \in Seq(ToSet(f.code[b])) /\ \A n \in DOMAIN f.code[b] : Instruction(f.code[b][n])
  BY BlockOK
<1>3. PhisLead(h.code[b], IdsOf(P))
  <2>1. PICK d, c, ids : d = h.code[b] /\ c = f.code[b] /\ ids = IdsOf(P)
    OBVIOUS
  <2>2. /\ c \in Seq(ToSet(c)) /\ PhisLead(c, ids) /\ Entered(d, c, N, p, E)
    BY <1>1, <1>2, <2>1 DEF PhisPlaced
  <2>3. \A n \in DOMAIN c : Instruction(c[n])
    BY <1>2, <2>1
  <2>4. \A n \in DOMAIN c : c[n].id \in ids => n \in N
    BY <2>1
  <2>5. PhisLead(d, ids)
    BY ONLY <2>2, <2>3, <2>4, E \in Nat, EnteredLead
  <2> QED
    BY <2>1, <2>5
<1>4. \A n \in DOMAIN f.code[b] : n \in DOMAIN h.code[b] /\ h.code[b][n].id = f.code[b][n].id
  <2> TAKE n \in DOMAIN f.code[b]
  <2>1. n \in DOMAIN h.code[b] /\ (h.code[b][n] = f.code[b][n] \/ Same(h.code[b][n], f.code[b][n]))
    BY <1>1 DEF Entered, Longer
  <2>2. Instruction(f.code[b][n])
    BY <1>2
  <2> QED
    BY <2>1, <2>2, SameFields
<1>5. ASSUME NEW q \in P
      PROVE  q.b \in Blocks(h) /\ \E n \in DOMAIN h.code[q.b] : At(h, q.b, n).id = q.id
  BY <1>1, <1>4 DEF PhisPlaced, At
<1>6. \A c \in Blocks(h) : PhisLead(h.code[c], IdsOf(P))
  BY <1>1, <1>3 DEF PhisPlaced
<1> QED
  BY <1>5, <1>6 DEF PhisPlaced

(* An item is taken off the work list and its edges are entered.           *)
LEMMA Popped ==
  ASSUME NEW f, Shaped(f), NEW P, PhisPlaced(f, P), NEW w, w \in Seq(ToSet(w)), w # <<>>,
         NEW seen, Once(f, P, w, seen), NEW b \in Blocks(f), b = Last(w).bb, NEW p, p = Last(w).pred,
         NEW N, \A n \in DOMAIN f.code[b] : f.code[b][n].id \in IdsOf(P) => n \in N,
         NEW E, E = Edges(f, p, b), NEW h, EnteredIn(h, f, b, N, p, E)
  PROVE  Once(h, P, Front(w), seen)
<1>1. /\ Follows(h, f, {}, {}) /\ Shaped(h) /\ Blocks(h) = Blocks(f)
      /\ \A c \in Blocks(f) : Successors(h, c) = Successors(f, c)
      /\ Entered(h.code[b], f.code[b], N, p, E) /\ \A c \in Blocks(f) \ {b} : h.code[c] = f.code[c]
  BY EnteredFollows
<1>2. /\ \A q \in Blocks(f) : \A c : Edges(h, q, c) = Edges(f, q, c)
      /\ \A c : Preds(h, c) = Preds(f, c) /\ Preds(f, c) \subseteq Blocks(f)
  BY <1>1, SameEdgesBetween
<1>3. E \in Nat
  BY EdgesNat
<1>4. ASSUME NEW phi \in P, NEW q \in Preds(f, phi.b)
      PROVE  IF q \in seen
               THEN Cardinality(Entries(h, phi.id, q)) + Edges(h, q, phi.b) * Cardinality(Waiting(Front(w), q, phi.b))
                      = Edges(h, q, phi.b)
               ELSE Entries(h, phi.id, q) = {} /\ Waiting(Front(w), q, phi.b) = {}
  <2>1. PICK x \in Blocks(f) : x = phi.b
    BY PlacedAt
  <2>2. PICK n \in DOMAIN f.code[x] :
          /\ f.code[x][n].id = phi.id
          /\ "in" \in DOMAIN f.code[x][n]
          /\ f.code[x][n].in \in Seq(ToSet(f.code[x][n].in))
    BY <2>1, PlacedAt
  <2>3. PICK i, j : i = h.code[x][n] /\ j = f.code[x][n]
    OBVIOUS
  <2>20. PICK id : id = phi.id
    OBVIOUS
  <2>4. \A y : Entries(f, id, y) = From(j, y)
    <3>1. Shaped(f) /\ x \in Blocks(f) /\ n \in DOMAIN f.code[x] /\ f.code[x][n].id = id
      BY <2>2, <2>20
    <3>2. \A y : Entries(f, id, y) = From(f.code[x][n], y)
      BY ONLY <3>1, EntriesAt
    <3> QED
      BY <3>2, <2>3
  <2>21. id \in IdsOf(P)
    BY <2>20 DEF IdsOf
  <2>5. ASSUME x = b PROVE n \in N /\ n \in DOMAIN h.code[x] /\ Longer(i, j, p, E)
    <3>1. n \in N
      BY <2>2, <2>5, <2>20, <2>21
    <3>2. n \in DOMAIN h.code[b] /\ Longer(h.code[b][n], f.code[b][n], p, E)
      BY <1>1, <2>2, <2>5, <3>1 DEF Entered
    <3> QED
      BY <3>1, <3>2, <2>3, <2>5
  <2>6. Instruction(j)
    BY <2>3, BlockOK
  <2>7. n \in DOMAIN h.code[x] /\ i.id = id
    <3>1. CASE x = b
      <4>1. Same(i, j) /\ n \in DOMAIN h.code[x]
        BY <2>5, <3>1 DEF Longer
      <4> QED
        BY <4>1, <3>1, <1>1, <2>2, <2>3, <2>6, <2>20, SameFields
    <3>2. CASE x # b
      BY <3>2, <1>1, <2>2, <2>3, <2>20
    <3> QED
      BY <3>1, <3>2
  <2>8. \A y : Entries(h, id, y) = From(i, y)
    <3>1. /\ Shaped(h) /\ x \in Blocks(h) /\ n \in DOMAIN h.code[x]
          /\ h.code[x][n].id = id
      BY <1>1, <2>3, <2>7
    <3>2. Inst(h, id) = h.code[x][n]
      BY ONLY <3>1, InstIs
    <3>3. \A y : Entries(h, id, y) = From(h.code[x][n], y)
      BY ONLY <3>2 DEF Entries, From
    <3> QED
      BY <3>3, <2>3
  <2>9. /\ IF q \in seen
             THEN Cardinality(From(j, q)) + Edges(f, q, x) * Cardinality(Waiting(w, q, x)) = Edges(f, q, x)
             ELSE From(j, q) = {} /\ Waiting(w, q, x) = {}
    BY <2>1, <2>4, <2>20 DEF Once
  <2>10. /\ Waiting(Front(w), q, x) = Waiting(w, q, x) \ {Len(w)}
         /\ Len(w) \in Waiting(w, q, x) <=> p = q /\ b = x
         /\ IsFiniteSet(Waiting(w, q, x)) /\ Cardinality(Waiting(w, q, x)) \in Nat
    BY WaitingFront
  <2>11. Edges(h, q, x) = Edges(f, q, x) /\ Edges(f, q, x) \in Nat /\ Edges(f, q, x) > 0
    BY <1>2, <2>1, EdgesNat DEF Preds
  <2>12. CASE ~(p = q /\ b = x)
    <3>1. Waiting(Front(w), q, x) = Waiting(w, q, x)
      BY <2>10, <2>12
    <3>2. From(i, q) = From(j, q)
      <4>1. CASE x = b
        BY <4>1, <1>3, <2>2, <2>3, <2>5, <2>12, LongerEntries
      <4>2. CASE x # b
        BY <4>2, <1>1, <2>3
      <4> QED
        BY <4>1, <4>2
    <3> QED
      BY <2>1, <2>8, <2>9, <2>11, <2>20, <3>1, <3>2
  <2>13. CASE p = q /\ b = x
    <3>1. Len(w) \in Waiting(w, q, x)
      BY <2>10, <2>13
    <3>2. q \in seen /\ Cardinality(From(j, q)) + Edges(f, q, x) * Cardinality(Waiting(w, q, x)) = Edges(f, q, x)
      BY <2>9, <3>1
    <3>3. IsFiniteSet(From(j, q)) /\ Cardinality(From(j, q)) \in Nat
      BY <2>13, <1>3, <2>2, <2>3, <2>5, LongerEntries
    <3>4. Cardinality(Waiting(w, q, x)) # 0
      BY <2>10, <3>1, FS_EmptySet
    <3>5. PICK a \in Nat : a = Cardinality(Waiting(w, q, x))
      BY <2>10
    <3>6. PICK e \in Nat : e = Cardinality(From(j, q))
      BY <3>3
    <3>7. PICK k \in Nat : k = Edges(f, q, x)
      BY <2>11
    <3>8. e + k * a = k /\ k > 0 /\ a > 0
      BY <2>11, <3>2, <3>4, <3>5, <3>6, <3>7
    <3>9. e = 0 /\ a = 1
      BY ONLY <3>8, k \in Nat, a \in Nat, e \in Nat, OneOrNone
    <3>10. From(j, p) = {}
      BY <2>13, <3>3, <3>6, <3>9, FS_EmptySet
    <3>11. Cardinality(From(i, q)) = E
      <4>1. Longer(i, j, p, E) /\ "in" \in DOMAIN j /\ j.in \in Seq(ToSet(j.in))
        BY <2>2, <2>3, <2>5, <2>13
      <4>2. From(j, p) = {} => Cardinality(From(i, p)) = E
        BY ONLY <4>1, <1>3, LongerEntries
      <4> QED
        BY <4>2, <3>10, <2>13
    <3>12. Waiting(Front(w), q, x) = {}
      <4>1. PICK y : Waiting(w, q, x) = {y}
        BY <2>10, <3>5, <3>9, FS_Singleton
      <4> QED
        BY <4>1, <3>1, <2>10
    <3>13. Cardinality(Waiting(Front(w), q, x)) = 0
      BY <3>12, FS_EmptySet
    <3>14. Cardinality(Entries(h, phi.id, q)) = k /\ Edges(h, q, phi.b) = k /\ k * 0 = 0
      BY <2>1, <2>8, <2>11, <2>13, <2>20, <3>7, <3>11
    <3> QED
      BY <2>1, <3>2, <3>13, <3>14
  <2> QED
    BY <2>12, <2>13
<1> QED
  BY <1>2, <1>4 DEF Once

(* Nothing that is trimmed away counts.                                    *)
LEMMA TrimOnce ==
  ASSUME NEW f, Shaped(f), NEW g, NEW gone, Trims(g, f, gone),
         NEW P, PhisPlaced(f, P), Only(f, IdsOf(P), {"phi"}),
         NEW ops, Only(f, gone, ops), "phi" \notin ops,
         NEW w, NEW seen, Once(f, P, w, seen)
  PROVE  Once(g, P, w, seen)
<1>1. /\ Shaped(g) /\ Blocks(g) = Blocks(f)
      /\ \A b \in Blocks(f) : Successors(g, b) = Successors(f, b)
  BY DEF Trims
<1>2. /\ \A q \in Blocks(f) : \A c : Edges(g, q, c) = Edges(f, q, c)
      /\ \A c : Preds(g, c) = Preds(f, c) /\ Preds(f, c) \subseteq Blocks(f)
  BY <1>1, SameEdgesBetween
<1>3. PhisPlaced(g, P)
  BY TrimPhis
<1>4. \A b \in Blocks(f) : PhisFrom(g.code[b], f.code[b], IdsOf(P))
  BY DEF Trims, PhisPlaced
<1>5. ASSUME NEW phi \in P, NEW q PROVE Entries(g, phi.id, q) = Entries(f, phi.id, q)
  <2>1. PICK b, id : b = phi.b /\ id = phi.id
    OBVIOUS
  <2>2. b \in Blocks(f) /\ id \in IdsOf(P)
    BY <2>1, PlacedAt
  <2>3. PICK m \in DOMAIN g.code[b] : g.code[b][m].id = id
    BY <1>1, <1>3, <2>1, PlacedAt
  <2>4. PICK n \in DOMAIN f.code[b] : f.code[b][n].id = id /\ SameEdges(g.code[b][m], f.code[b][n])
    BY <1>4, <2>2, <2>3 DEF PhisFrom
  <2>5. \A p : Entries(g, id, p) = From(g.code[b][m], p)
    BY ONLY <1>1, <2>2, <2>3, EntriesAt
  <2>6. \A p : Entries(f, id, p) = From(f.code[b][n], p)
    BY <2>2, <2>4, EntriesAt
  <2>7. From(g.code[b][m], q) = From(f.code[b][n], q)
    BY <2>4 DEF From, SameEdges
  <2> QED
    BY <2>1, <2>5, <2>6, <2>7
<1> QED
  BY <1>2, <1>5 DEF Once

One(T) == \E k : T = {k}

(* What a visit of block b puts on the work list: every successor once.    *)
Items(o, b, T) ==
  /\ o \in Seq(ToSet(o))
  /\ \A k \in DOMAIN o : o[k].pred = b /\ o[k].bb \in T
  /\ \A c \in T : One(Waiting(o, b, c))

LEMMA WaitingBoth ==
  ASSUME NEW S, NEW w \in Seq(S), NEW T, NEW o \in Seq(T), NEW u, u = Joined(w, o), NEW p, NEW b
  PROVE  /\ Waiting(o, p, b) = {} => Waiting(u, p, b) = Waiting(w, p, b)
         /\ Waiting(w, p, b) = {} /\ One(Waiting(o, p, b)) => One(Waiting(u, p, b))
<1>2. w \in Seq(S) /\ o \in Seq(T)
  OBVIOUS
<1>4. PICK L \in Nat : L = Len(w)
  BY <1>2
<1>5. PICK M \in Nat : M = Len(o)
  BY <1>2
<1>6. /\ u \in Seq(S \cup T) /\ Len(u) = L + M
      /\ \A k \in 1 .. L : u[k] = w[k]
      /\ \A k \in 1 .. M : u[L + k] = o[k]
  BY <1>2, <1>4, <1>5, JoinIs DEF Joined
<1>7. DOMAIN w = 1 .. L /\ DOMAIN o = 1 .. M /\ DOMAIN u = 1 .. L + M
  BY <1>2, <1>4, <1>5, <1>6
<1>8. ASSUME NEW k \in L + 1 .. L + M PROVE \E m \in 1 .. M : k = L + m /\ u[k] = o[m]
  <2>1. PICK m : m = k - L
    OBVIOUS
  <2>2. m \in 1 .. M /\ L + m = k
    BY <2>1
  <2>3. u[k] = o[m]
    BY <2>2, <1>6
  <2> QED
    BY <2>2, <2>3
<1>9. ASSUME Waiting(o, p, b) = {} PROVE Waiting(u, p, b) = Waiting(w, p, b)
  <2>1. \A k \in 1 .. L : k \in Waiting(u, p, b) <=> k \in Waiting(w, p, b)
    BY <1>6, <1>7 DEF Waiting
  <2>2. \A k \in L + 1 .. L + M : k \notin Waiting(u, p, b)
    BY <1>7, <1>8, <1>9 DEF Waiting
  <2>3. Waiting(u, p, b) \subseteq 1 .. L + M /\ Waiting(w, p, b) \subseteq 1 .. L
    BY <1>7 DEF Waiting
  <2>4. \A k \in 1 .. L + M : k \in 1 .. L \/ k \in L + 1 .. L + M
    OBVIOUS
  <2>5. \A k \in 1 .. L : k \in 1 .. L + M
    OBVIOUS
  <2> QED
    BY ONLY <2>1, <2>2, <2>3, <2>4, <2>5
<1>10. ASSUME Waiting(w, p, b) = {}, NEW k, Waiting(o, p, b) = {k} PROVE Waiting(u, p, b) = {L + k}
  <2>11. k \in Waiting(o, p, b)
    BY <1>10
  <2>1. k \in 1 .. M /\ o[k].pred = p /\ o[k].bb = b
    BY ONLY <1>7, <2>11 DEF Waiting
  <2>12. k \in Nat /\ L + k \in Nat
    BY <2>1
  <2>2. L + k \in 1 .. L + M /\ u[L + k] = o[k]
    BY <2>1, <1>6
  <2>3. L + k \in Waiting(u, p, b)
    BY <1>7, <2>1, <2>2 DEF Waiting
  <2>4. \A m \in 1 .. L : m \notin Waiting(u, p, b)
    BY <1>6, <1>7, <1>10 DEF Waiting
  <2>5. ASSUME NEW m \in L + 1 .. L + M, m \in Waiting(u, p, b) PROVE m = L + k
    <3>1. PICK j \in 1 .. M : m = L + j /\ u[m] = o[j]
      BY <1>8
    <3>2. j \in Waiting(o, p, b)
      BY <1>7, <2>5, <3>1 DEF Waiting
    <3>3. j = k
      BY <3>2, <1>10
    <3> QED
      BY <3>1, <3>3
  <2>6. Waiting(u, p, b) \subseteq 1 .. L + M
    BY <1>7 DEF Waiting
  <2> QED
    BY <2>3, <2>4, <2>5, <2>6
<1> QED
  BY <1>9, <1>10 DEF One

LEMMA OnwardOnce ==
  ASSUME NEW f, NEW P, NEW w, w \in Seq(ToSet(w)), NEW seen, Once(f, P, w, seen),
         NEW b, b \notin seen, NEW o, Items(o, b, ToSet(Successors(f, b))),
         NEW u, u = Joined(w, o)
  PROVE  Once(f, P, u, seen \cup {b})
<1>1. ASSUME NEW phi \in P, NEW p \in Preds(f, phi.b)
      PROVE  IF p \in seen \cup {b}
               THEN Cardinality(Entries(f, phi.id, p)) + Edges(f, p, phi.b) * Cardinality(Waiting(u, p, phi.b))
                      = Edges(f, p, phi.b)
               ELSE Entries(f, phi.id, p) = {} /\ Waiting(u, p, phi.b) = {}
  <2>1. PICK x : x = phi.b
    OBVIOUS
  <2>2. o \in Seq(ToSet(o))
    BY DEF Items
  <2>5. PICK S, T : w \in Seq(S) /\ o \in Seq(T)
    BY <2>2
  <2>6. u = Joined(w, o)
    OBVIOUS
  <2>3. CASE p # b
    <3>1. Waiting(o, p, x) = {}
      BY <2>3 DEF Items, Waiting
    <3>2. Waiting(u, p, x) = Waiting(w, p, x)
      BY ONLY <2>5, <2>6, <3>1, WaitingBoth
    <3> QED
      BY <2>1, <2>3, <3>2 DEF Once
  <2>4. CASE p = b
    <3>1. Entries(f, phi.id, p) = {} /\ Waiting(w, p, x) = {}
      BY <2>1, <2>4 DEF Once
    <3>2. x \in ToSet(Successors(f, b)) /\ Edges(f, p, x) \in Nat
      BY <2>1, <2>4, EdgesNat DEF Preds
    <3>3. One(Waiting(o, p, x))
      BY <2>4, <3>2 DEF Items
    <3>9. One(Waiting(u, p, x))
      BY ONLY <2>5, <2>6, <3>1, <3>3, WaitingBoth
    <3>4. PICK k : Waiting(u, p, x) = {k}
      BY <3>9 DEF One
    <3>5. Cardinality(Waiting(u, p, x)) = 1
      BY <3>4, FS_Singleton
    <3>6. Cardinality(Entries(f, phi.id, p)) = 0
      BY <3>1, FS_EmptySet
    <3>7. PICK E \in Nat : E = Edges(f, p, x)
      BY <3>2
    <3>8. 0 + E * 1 = E
      OBVIOUS
    <3> QED
      BY <2>1, <2>4, <3>5, <3>6, <3>7, <3>8
  <2> QED
    BY <2>3, <2>4
<1> QED
  BY <1>1 DEF Once

--------------------------------------------------------------------------------
(* An instruction that is put before the end of a block.                   *)

LEMMA SameSequence ==
  ASSUME NEW S, NEW s \in Seq(S), NEW T, NEW t \in Seq(T), NEW L \in Nat, Len(s) = L, Len(t) = L,
         \A k \in 1 .. L : s[k] = t[k]
  PROVE  s = t
<1>1. s = [k \in 1 .. L |-> s[k]] /\ t = [k \in 1 .. L |-> t[k]]
  OBVIOUS
<1> QED
  BY <1>1

(* Block d is c with i before its terminator.                              *)
Inserted(d, c, i) ==
  /\ Len(d) = Len(c) + 1 /\ Last(d) = Last(c)
  /\ \A k \in 1 .. Len(c) - 1 : d[k] = c[k]
  /\ d[Len(c)] = i

LEMMA InsertIs ==
  ASSUME NEW S, NEW c \in Seq(S), NEW L \in Nat, L > 0, Len(c) = L, NEW i \in S,
         NEW t, t = <<i, Last(c)>>, NEW mid, mid = <<i>>, NEW d, d = Joined(Front(c), t)
  PROVE  d = Splice(c, L, mid) /\ Inserted(d, c, i) /\ d \in Seq(S)
<1>1. PICK a, s : a = Front(c) /\ s = Splice(c, L, mid)
  OBVIOUS
<1>2. PICK M \in Nat : M + 1 = L /\ M = L - 1
  OBVIOUS
<1>3. a \in Seq(S) /\ Len(a) = M /\ \A k \in 1 .. M : a[k] = c[k]
  BY <1>1, <1>2 DEF Front
<1>4. c[L] \in S /\ Last(c) = c[L]
  BY DEF Last
<1>5. t \in Seq(S) /\ Len(t) = 2 /\ t[1] = i /\ t[2] = c[L]
  BY <1>1, <1>4
<1>6. /\ d \in Seq(S) /\ Len(d) = M + 2
      /\ \A k \in 1 .. M : d[k] = a[k]
      /\ \A k \in 1 .. 2 : d[M + k] = t[k]
  <2>1. d = a \o t
    BY <1>1 DEF Joined
  <2>2. PICK T : T = S
    OBVIOUS
  <2>3. a \in Seq(S) /\ t \in Seq(T)
    BY <1>3, <1>5, <2>2
  <2>4. /\ d \in Seq(S \cup T) /\ Len(d) = Len(a) + Len(t)
        /\ \A k \in 1 .. Len(a) : d[k] = a[k]
        /\ \A k \in 1 .. Len(t) : d[Len(a) + k] = t[k]
    BY ONLY <2>1, <2>3, JoinIs
  <2>5. S \cup T = S
    BY <2>2
  <2> QED
    BY <1>3, <1>5, <2>4, <2>5
<1>7. /\ d \in Seq(S) /\ Len(d) = L + 1 /\ d[L] = i /\ d[L + 1] = c[L]
      /\ \A k \in 1 .. M : d[k] = c[k]
  <2>1. d \in Seq(S) /\ Len(d) = L + 1
    BY <1>2, <1>6
  <2>2. 1 \in 1 .. 2 /\ 2 \in 1 .. 2 /\ M + 2 = L + 1
    BY <1>2
  <2>3. d[L] = i /\ d[L + 1] = c[L]
    BY <1>2, <1>5, <1>6, <2>2
  <2> QED
    BY <1>3, <1>6, <2>1, <2>3
<1>8. Inserted(d, c, i)
  BY <1>2, <1>4, <1>7 DEF Inserted, Last
<1>9. mid \in Seq(S) /\ Len(mid) = 1 /\ mid[1] = i
  BY <1>1
<1>10. s \in Seq(S) /\ SplicedAs(s, c, L, mid, L, 1)
  <2>1. L \in 1 .. Len(c) /\ Len(c) = L /\ mid \in Seq(S) /\ Len(mid) = 1
    BY <1>9
  <2>2. Splice(c, L, mid) \in Seq(S) /\ SplicedAs(Splice(c, L, mid), c, L, mid, Len(c), Len(mid))
    BY ONLY <2>1, c \in Seq(S), SpliceElements
  <2> QED
    BY <1>1, <2>1, <2>2
<1>11. /\ Len(s) = L + 1 /\ \A k \in 1 .. M : s[k] = c[k]
       /\ s[M + 1] = mid[1] /\ s[L + 1] = c[L]
  <2>1. /\ Len(s) = L + 1 /\ \A k \in 1 .. L - 1 : s[k] = c[k]
        /\ \A k \in 1 .. 1 : s[L - 1 + k] = mid[k] /\ \A j \in L .. L : s[j + 1] = c[j]
    BY <1>10 DEF SplicedAs
  <2>2. L \in L .. L /\ 1 \in 1 .. 1
    OBVIOUS
  <2> QED
    BY <1>2, <2>1, <2>2
<1>12. PICK N \in Nat : N = L + 1
  OBVIOUS
<1>13. ASSUME NEW k \in 1 .. N PROVE d[k] = s[k]
  <2>1. k \in 1 .. M \/ k = L \/ k = L + 1
    BY <1>2, <1>12
  <2> QED
    BY <1>2, <1>7, <1>9, <1>11, <2>1
<1>14. d = s
  BY <1>7, <1>10, <1>11, <1>12, <1>13, SameSequence
<1> QED
  BY <1>1, <1>7, <1>8, <1>14

LEMMA InsertFollows ==
  ASSUME NEW f, Shaped(f), NEW b \in Blocks(f), NEW i, Instruction(i), i.id \notin Ids(f),
         NEW new, new = {i.id}, NEW g, g = InsertBeforeEnd(f, b, i)
  PROVE  /\ Follows(g, f, new, {}) /\ Shaped(g) /\ Blocks(g) = Blocks(f)
         /\ Inserted(g.code[b], f.code[b], i)
         /\ \A c \in Blocks(f) \ {b} : g.code[c] = f.code[c]
<1>1. PICK c : c = f.code[b]
  OBVIOUS
<1>2. c \in Seq(ToSet(c)) /\ Len(c) \in Nat \ {0} /\ DOMAIN c = 1 .. Len(c)
  BY <1>1, BlockOK
<1>3. PICK L \in Nat : L = Len(c)
  BY <1>2
<1>4. PICK S : S = ToSet(c) \cup {i}
  OBVIOUS
<1>5. c \in Seq(S) /\ i \in S
  BY <1>2, <1>4
<1>6. PICK t, d : t = <<i, Last(c)>> /\ d = Joined(Front(c), t)
  OBVIOUS
<1>7. PICK mid : mid = <<i>>
  OBVIOUS
<1>8. d = Splice(c, L, mid) /\ Inserted(d, c, i) /\ d \in Seq(S)
  <2>1. L > 0 /\ Len(c) = L
    BY <1>2, <1>3
  <2> QED
    BY <1>5, <1>6, <1>7, <2>1, InsertIs
<1>9. g = [f EXCEPT !.code[b] = d]
  BY <1>1, <1>6 DEF InsertBeforeEnd, Joined
<1>10. SplicedIn(g, f, b, L, mid)
  BY <1>1, <1>8, <1>9 DEF SplicedIn
<1>12. L \in DOMAIN f.code[b] /\ new \cap Ids(f) = {} /\ Fit(mid, new)
  <2>1. DOMAIN mid = {1} /\ mid[1] = i /\ mid \in Seq(ToSet(mid))
    BY <1>7 DEF ToSet
  <2> QED
    BY <1>1, <1>2, <1>3, <2>1 DEF Fit
<1>13. Follows(g, f, new, {}) /\ Shaped(g) /\ Blocks(g) = Blocks(f)
  BY <1>10, <1>12, SpliceFollows
<1>14. g.code[b] = d /\ \A a \in Blocks(f) \ {b} : g.code[a] = f.code[a]
  <2>1. {"name", "layout", "code"} \subseteq DOMAIN f /\ DOMAIN f.code = Blocks(f)
    BY DEF Shaped, LabelsDiffer
  <2> QED
    BY <1>9, <2>1
<1> QED
  BY <1>1, <1>8, <1>13, <1>14

--------------------------------------------------------------------------------
(* Two blocks that become one.                                             *)

(* The first block without its terminator, then the second one.            *)
FrontJoined(u, c, d, M) ==
  /\ u # <<>> /\ u \in Seq(ToSet(u)) /\ Last(u) = Last(d)
  /\ \A n \in DOMAIN u : \/ n \in DOMAIN c /\ u[n] = c[n]
                         \/ \E m \in DOMAIN d : n = M + m /\ u[n] = d[m]

LEMMA FrontJoinedIs ==
  ASSUME NEW c, c \in Seq(ToSet(c)), c # <<>>, NEW d, d \in Seq(ToSet(d)), d # <<>>,
         NEW u, u = Joined(Front(c), d)
  PROVE  FrontJoined(u, c, d, Len(c) - 1)
<1>1. PICK L \in Nat \ {0} : L = Len(c) /\ DOMAIN c = 1 .. L
  OBVIOUS
<1>2. PICK M \in Nat : M + 1 = L
  <2>1. L - 1 \in Nat /\ (L - 1) + 1 = L
    OBVIOUS
  <2> QED
    BY <2>1
<1>3. M = Len(c) - 1
  BY <1>1, <1>2
<1>4. PICK a : a = Front(c)
  OBVIOUS
<1>5. PICK S : S = ToSet(c)
  OBVIOUS
<1>6. PICK T : T = ToSet(d)
  OBVIOUS
<1>7. a \in Seq(S) /\ Len(a) = M /\ \A k \in 1 .. M : a[k] = c[k]
  BY <1>1, <1>2, <1>3, <1>4, <1>5 DEF Front
<1>8. u = a \o d /\ d \in Seq(T)
  BY <1>4, <1>6 DEF Joined
<1>9. /\ u \in Seq(S \cup T) /\ Len(u) = Len(a) + Len(d)
      /\ \A k \in 1 .. Len(a) : u[k] = a[k]
      /\ \A k \in 1 .. Len(d) : u[Len(a) + k] = d[k]
  BY ONLY <1>7, <1>8, JoinIs
<1>10. PICK N \in Nat \ {0} : N = Len(d) /\ DOMAIN d = 1 .. N
  OBVIOUS
<1>11. PICK U : U = S \cup T
  OBVIOUS
<1>12. u \in Seq(U) /\ Len(u) = M + N /\ DOMAIN u = 1 .. M + N
  BY <1>7, <1>9, <1>10, <1>11
<1>13. u \in Seq(ToSet(u))
  BY <1>12, InItsSet
<1>14. \A k \in 1 .. M : u[k] = c[k]
  BY <1>7, <1>9
<1>15. \A k \in 1 .. N : u[M + k] = d[k]
  BY <1>7, <1>9, <1>10
<1>16. Last(u) = Last(d) /\ u # <<>>
  <2>1. N \in 1 .. N /\ M + N # 0
    OBVIOUS
  <2>2. u[M + N] = d[N]
    BY <1>15, <2>1
  <2> QED
    BY <1>10, <1>12, <2>1, <2>2 DEF Last
<1>17. ASSUME NEW n \in 1 .. M + N
       PROVE  \/ n \in 1 .. M
              \/ \E m \in 1 .. N : n = M + m
  <2>1. CASE n > M
    <3>1. n - M \in 1 .. N /\ n = M + (n - M)
      BY <2>1
    <3> QED
      BY <3>1
  <2> QED
    BY <2>1
<1>18. ASSUME NEW n \in DOMAIN u
       PROVE  \/ n \in DOMAIN c /\ u[n] = c[n]
              \/ \E m \in DOMAIN d : n = M + m /\ u[n] = d[m]
  <2>1. CASE n \in 1 .. M
    <3>1. n \in 1 .. L
      BY <1>2, <2>1
    <3> QED
      BY <1>1, <1>14, <2>1, <3>1
  <2>2. CASE \E m \in 1 .. N : n = M + m
    BY <1>10, <1>15, <2>2
  <2> QED
    BY <1>12, <1>17, <2>1, <2>2
<1> QED
  BY <1>3, <1>13, <1>16, <1>18 DEF FrontJoined

(* One for one.                                                            *)
Rows(d, c) == d = [n \in DOMAIN c |-> d[n]] /\ \A n \in DOMAIN c : Same(d[n], c[n])

LEMMA RowsAre ==
  ASSUME NEW c, c \in Seq(ToSet(c)), c # <<>>, NEW d, Rows(d, c)
  PROVE  d \in Seq(ToSet(d)) /\ d # <<>> /\ DOMAIN d = DOMAIN c /\ Same(Last(d), Last(c))
<1>1. PICK L \in Nat \ {0} : L = Len(c) /\ DOMAIN c = 1 .. L
  OBVIOUS
<1>2. d = [n \in 1 .. L |-> d[n]]
  BY <1>1 DEF Rows
<1>3. DOMAIN d = 1 .. L /\ \A n \in 1 .. L : d[n] \in ToSet(d)
  BY <1>2 DEF ToSet
<1>4. d \in Seq(ToSet(d)) /\ Len(d) = L
  BY <1>2, <1>3, ElementOfSeq, IsASeq, LenProperties
<1>5. Same(d[L], c[L])
  BY <1>1 DEF Rows
<1> QED
  BY <1>1, <1>3, <1>4, <1>5 DEF Last

(* Block b has been merged into block p.                                   *)
MergedIn(g, f, p, b) ==
  /\ {"name", "layout", "code"} \subseteq DOMAIN g
  /\ g.layout = Kept(f.layout, {n \in DOMAIN f.layout : f.layout[n] # b})
  /\ DOMAIN g.code = Blocks(f) \ {b}
  /\ \A l \in Blocks(f) \ {b, p} : Rows(g.code[l], f.code[l])
  /\ \E u : FrontJoined(u, f.code[p], f.code[b], Len(f.code[p]) - 1) /\ Rows(g.code[p], u)

LEMMA MergedLabels ==
  ASSUME NEW f, Shaped(f), NEW p \in Blocks(f), NEW b \in Blocks(f), p # b,
         NEW g, MergedIn(g, f, p, b)
  PROVE  LabelsDiffer(g) /\ Blocks(g) = Blocks(f) \ {b}
<1>1. /\ f.layout \in Seq(Blocks(f)) /\ NoBlock \notin Blocks(f)
      /\ \A j, k \in DOMAIN f.layout : f.layout[j] = f.layout[k] => j = k
  BY DEF Shaped, LabelsDiffer
<1>2. PICK K, s, t : /\ K = {n \in DOMAIN f.layout : f.layout[n] # b}
                     /\ s = f.layout /\ t = Kept(s, K)
  OBVIOUS
<1>3. PICK S : S = Blocks(f)
  OBVIOUS
<1>4. t \in Seq(S) /\ \E e : Picks(e, s, K, t)
  <2>1. s \in Seq(S)
    BY <1>1, <1>2, <1>3
  <2> QED
    BY <1>2, <2>1, KeptPicks
<1>5. PICK e : Picks(e, s, K, t)
  BY <1>4
<1>6. PICK L \in Nat : L = Len(t) /\ DOMAIN t = 1 .. L
  BY <1>4
<1>7. /\ e \in [1 .. L -> DOMAIN s \cap K]
      /\ \A j, k \in 1 .. L : j < k => e[j] < e[k]
      /\ \A k \in 1 .. L : t[k] = s[e[k]]
      /\ \A n \in DOMAIN s \cap K : \E k \in 1 .. L : e[k] = n
  BY <1>5, <1>6 DEF Picks
<1>8. \A l \in S \ {b} : \E k \in 1 .. L : t[k] = l
  <2> TAKE l \in S \ {b}
  <2>1. PICK n \in DOMAIN s : s[n] = l
    BY <1>2, <1>3 DEF Blocks, ToSet
  <2>2. n \in DOMAIN s \cap K
    BY <1>2, <2>1
  <2> QED
    BY <1>7, <2>1, <2>2
<1>9. ASSUME NEW k \in 1 .. L PROVE t[k] \in S \ {b}
  <2>1. PICK n \in DOMAIN s \cap K : e[k] = n
    BY <1>7
  <2>2. t[k] = s[n] /\ s[n] # b
    BY <1>2, <1>7, <2>1
  <2>3. s[n] \in S
    BY <1>2, <1>3 DEF Blocks, ToSet
  <2> QED
    BY <2>2, <2>3
<1>10. ToSet(t) = S \ {b}
  BY <1>6, <1>8, <1>9 DEF ToSet
<1>11. \A j, k \in 1 .. L : t[j] = t[k] => j = k
  <2> TAKE j, k \in 1 .. L
  <2> HAVE t[j] = t[k]
  <2>1. e[j] = e[k]
    <3>1. e[j] \in DOMAIN f.layout /\ e[k] \in DOMAIN f.layout
      BY ONLY j \in 1 .. L, k \in 1 .. L, <1>2, <1>7
    <3>2. f.layout[e[j]] = f.layout[e[k]]
      BY <1>2, <1>7
    <3> QED
      BY ONLY <1>1, <3>1, <3>2
  <2>2. e[j] \in Nat /\ e[k] \in Nat
    BY <1>1, <1>2, <1>7
  <2>3. ~(j < k) /\ ~(k < j)
    BY <1>7, <2>1, <2>2
  <2> QED
    BY <2>3
<1>12. Blocks(g) = S \ {b} /\ g.layout = t
  BY <1>2, <1>10 DEF Blocks, MergedIn
<1>13. t \in Seq(ToSet(t))
  BY <1>4, InItsSet
<1>14. t # <<>>
  BY <1>3, <1>6, <1>8
<1> QED
  BY <1>1, <1>3, <1>6, <1>10, <1>11, <1>12, <1>13, <1>14 DEF LabelsDiffer, MergedIn

(* What an instruction of the merged function is one of.                   *)
LEMMA MergedFrom ==
  ASSUME NEW f, Shaped(f), NEW p \in Blocks(f), NEW b \in Blocks(f), p # b,
         NEW g, MergedIn(g, f, p, b), NEW M, M = Len(f.code[p]) - 1,
         NEW l \in Blocks(f) \ {b}, NEW n \in DOMAIN g.code[l]
  PROVE  \E c \in Blocks(f) : \E m \in DOMAIN f.code[c] :
           /\ Same(g.code[l][n], f.code[c][m])
           /\ \/ c = l /\ m = n
              \/ c = b /\ l = p /\ n = M + m
<1>1. CASE l # p
  <2>1. Rows(g.code[l], f.code[l])
    BY <1>1 DEF MergedIn
  <2>2. n \in DOMAIN f.code[l] /\ Same(g.code[l][n], f.code[l][n])
    BY <2>1 DEF Rows
  <2> QED
    BY <2>2
<1>2. CASE l = p
  <2>1. PICK u : FrontJoined(u, f.code[p], f.code[b], M) /\ Rows(g.code[p], u)
    BY DEF MergedIn
  <2>2. n \in DOMAIN u /\ Same(g.code[l][n], u[n])
    BY <1>2, <2>1 DEF Rows
  <2>3. \/ n \in DOMAIN f.code[p] /\ u[n] = f.code[p][n]
        \/ \E m \in DOMAIN f.code[b] : n = M + m /\ u[n] = f.code[b][m]
    BY <2>1, <2>2 DEF FrontJoined
  <2> QED
    BY <1>2, <2>2, <2>3
<1> QED
  BY <1>1, <1>2

LEMMA MergedShaped ==
  ASSUME NEW f, Shaped(f), NEW p \in Blocks(f), NEW b \in Blocks(f), p # b,
         \A c \in Blocks(f) : b \in Targets(Last(f.code[c])) => c = p,
         NEW g, MergedIn(g, f, p, b)
  PROVE  Shaped(g) /\ Ids(g) \subseteq Ids(f)
<1>1. LabelsDiffer(g) /\ Blocks(g) = Blocks(f) \ {b}
  BY MergedLabels
<1>2. PICK M : M = Len(f.code[p]) - 1
  OBVIOUS
<1>3. \A l \in Blocks(g) : \A n \in DOMAIN g.code[l] :
        \E c \in Blocks(f) : \E m \in DOMAIN f.code[c] :
           /\ Same(g.code[l][n], f.code[c][m])
           /\ \/ c = l /\ m = n
              \/ c = b /\ l = p /\ n = M + m
  BY <1>1, <1>2, MergedFrom
<1>4. ASSUME NEW l \in Blocks(g), NEW n \in DOMAIN g.code[l]
      PROVE  \E c \in Blocks(f) : \E m \in DOMAIN f.code[c] :
               /\ g.code[l][n].id = f.code[c][m].id /\ Instruction(g.code[l][n])
               /\ \/ c = l /\ m = n
                  \/ c = b /\ l = p /\ n = M + m
  <2>0. PICK c \in Blocks(f) : \E m \in DOMAIN f.code[c] :
           /\ Same(g.code[l][n], f.code[c][m])
           /\ \/ c = l /\ m = n
              \/ c = b /\ l = p /\ n = M + m
    BY <1>3
  <2>1. PICK m \in DOMAIN f.code[c] :
           /\ Same(g.code[l][n], f.code[c][m])
           /\ \/ c = l /\ m = n
              \/ c = b /\ l = p /\ n = M + m
    BY <2>0
  <2>2. Instruction(f.code[c][m])
    BY BlockOK
  <2>3. g.code[l][n].id = f.code[c][m].id /\ Instruction(g.code[l][n])
    BY <2>1, <2>2, SameFields
  <2> QED
    BY <2>1, <2>3
<1>5. NamesDiffer(g)
  <2>1. ASSUME NEW k \in Blocks(g), NEW l \in Blocks(g), NEW i \in DOMAIN g.code[k], NEW n \in DOMAIN g.code[l],
               g.code[k][i].id = g.code[l][n].id
        PROVE  k = l /\ i = n
    <3>c. PICK c \in Blocks(f) : \E m \in DOMAIN f.code[c] :
               /\ g.code[k][i].id = f.code[c][m].id
               /\ \/ c = k /\ m = i
                  \/ c = b /\ k = p /\ i = M + m
      BY <1>4
    <3>1. PICK m \in DOMAIN f.code[c] :
               /\ g.code[k][i].id = f.code[c][m].id
               /\ \/ c = k /\ m = i
                  \/ c = b /\ k = p /\ i = M + m
      BY <3>c
    <3>d. PICK d \in Blocks(f) : \E j \in DOMAIN f.code[d] :
               /\ g.code[l][n].id = f.code[d][j].id
               /\ \/ d = l /\ j = n
                  \/ d = b /\ l = p /\ n = M + j
      BY <1>4
    <3>2. PICK j \in DOMAIN f.code[d] :
               /\ g.code[l][n].id = f.code[d][j].id
               /\ \/ d = l /\ j = n
                  \/ d = b /\ l = p /\ n = M + j
      BY <3>d
    <3>3. c = d /\ m = j
      <4>1. f.code[c][m].id = f.code[d][j].id
        BY <2>1, <3>1, <3>2
      <4>2. NamesDiffer(f)
        BY DEF Shaped
      <4> QED
        BY <4>1, <4>2 DEF NamesDiffer
    <3>4. k # b /\ l # b
      BY <1>1
    <3> QED
      BY <3>1, <3>2, <3>3, <3>4
  <2> QED
    BY <2>1 DEF NamesDiffer
<1>6. Ids(g) \subseteq Ids(f)
  <2>1. ASSUME NEW l \in Blocks(g), NEW n \in DOMAIN g.code[l] PROVE g.code[l][n].id \in Ids(f)
    BY <1>4 DEF Ids, Instructions, ToSet
  <2> QED
    BY <2>1 DEF Ids, Instructions, ToSet
<1>7. ASSUME NEW c \in Blocks(f), c # p
      PROVE  Targets(Last(f.code[c])) \subseteq Blocks(g)
  <2>1. Targets(Last(f.code[c])) \subseteq Blocks(f)
    BY BlockOK DEF Ends
  <2> QED
    BY <1>1, <1>7, <2>1
<1>8. ASSUME NEW l \in Blocks(g)
      PROVE  /\ g.code[l] \in Seq(ToSet(g.code[l]))
             /\ Ends(g.code[l], Blocks(g))
  <2>1. CASE l # p
    <3>1. PICK d, c : d = g.code[l] /\ c = f.code[l]
      OBVIOUS
    <3>2. Rows(d, c)
      BY <1>1, <2>1, <3>1 DEF MergedIn
    <3>3. /\ c \in Seq(ToSet(c)) /\ c # <<>> /\ Instruction(Last(c)) /\ Terminator(Last(c))
          /\ l \in Blocks(f)
      <4>1. l \in Blocks(f)
        BY <1>1
      <4>2. Len(c) \in DOMAIN c /\ Last(c) = c[Len(c)]
        BY <3>1, <4>1, BlockOK
      <4> QED
        BY <3>1, <4>1, <4>2, BlockOK DEF Ends
    <3>4. d \in Seq(ToSet(d)) /\ d # <<>> /\ Same(Last(d), Last(c))
      BY <3>2, <3>3, RowsAre
    <3>5. Terminator(Last(d)) /\ Targets(Last(d)) = Targets(Last(c))
      BY <3>3, <3>4, SameFields
    <3> QED
      BY <1>7, <2>1, <3>1, <3>3, <3>4, <3>5 DEF Ends
  <2>2. CASE l = p
    <3>1. PICK u : FrontJoined(u, f.code[p], f.code[b], M) /\ Rows(g.code[p], u)
      BY <1>2 DEF MergedIn
    <3>2. PICK d, c : d = g.code[p] /\ c = f.code[b]
      OBVIOUS
    <3>3. /\ u \in Seq(ToSet(u)) /\ u # <<>> /\ Last(u) = Last(c)
      BY <3>1, <3>2 DEF FrontJoined
    <3>4. Instruction(Last(c)) /\ Terminator(Last(c))
      <4>2. Len(c) \in DOMAIN c /\ Last(c) = c[Len(c)]
        BY <3>2, BlockOK
      <4> QED
        BY <3>2, <4>2, BlockOK DEF Ends
    <3>5. d \in Seq(ToSet(d)) /\ d # <<>> /\ Same(Last(d), Last(c))
      BY <3>1, <3>2, <3>3, RowsAre
    <3>6. Terminator(Last(d)) /\ Targets(Last(d)) = Targets(Last(c))
      BY <3>4, <3>5, SameFields
    <3> QED
      BY <1>7, <2>2, <3>2, <3>5, <3>6 DEF Ends
  <2> QED
    BY <2>1, <2>2
<1>9. Shaped(g)
  <2>1. \A l \in Blocks(g) :
           /\ g.code[l] \in Seq(ToSet(g.code[l]))
           /\ \A n \in DOMAIN g.code[l] : Instruction(g.code[l][n])
           /\ Ends(g.code[l], Blocks(g))
    BY <1>4, <1>8
  <2> QED
    BY ONLY <1>1, <1>5, <2>1, ShapedWhen
<1> QED
  BY <1>6, <1>9

--------------------------------------------------------------------------------
(* What is collected from several sequences.                               *)

(* Rows put one after the other have nothing that no row has.              *)
FromRows(t, s) == \A j \in DOMAIN t : \E k \in DOMAIN s : \E l \in DOMAIN s[k] : t[j] = s[k][l]

Distinct(t) == \A i, j \in DOMAIN t : t[i].id = t[j].id => i = j
RowsDiffer(s) ==
  /\ \A k \in DOMAIN s : Distinct(s[k])
  /\ \A k, l \in DOMAIN s : \A i \in DOMAIN s[k], j \in DOMAIN s[l] :
       s[k][i].id = s[l][j].id => k = l

LEMMA FlattenRows ==
  ASSUME NEW S, NEW s \in Seq(Seq(S)), NEW t, t = FlattenSeq(s)
  PROVE  t \in Seq(S) /\ FromRows(t, s) /\ (RowsDiffer(s) => Distinct(t))
<1>1. t \in Seq(S) /\ \E a, b : Joins(t, s, Len(s), a, b)
  BY FlattenJoins
<1>2. PICK a, b : Joins(t, s, Len(s), a, b)
  BY <1>1
<1>3. PICK L \in Nat : L = Len(s) /\ DOMAIN s = 1 .. L
  OBVIOUS
<1>4. /\ \A j \in DOMAIN t : /\ a[j] \in DOMAIN s /\ b[j] \in DOMAIN s[a[j]]
                             /\ t[j] = s[a[j]][b[j]]
      /\ \A i, j \in DOMAIN t : a[i] = a[j] /\ b[i] = b[j] => i = j
  BY <1>2, <1>3 DEF Joins
<1>5. FromRows(t, s)
  BY <1>4 DEF FromRows
<1>6. ASSUME RowsDiffer(s) PROVE Distinct(t)
  <2>1. ASSUME NEW i \in DOMAIN t, NEW j \in DOMAIN t, t[i].id = t[j].id PROVE i = j
    <3>1. PICK k, l : k = a[i] /\ l = a[j]
      OBVIOUS
    <3>2. PICK m, n : m = b[i] /\ n = b[j]
      OBVIOUS
    <3>3. /\ k \in DOMAIN s /\ l \in DOMAIN s /\ m \in DOMAIN s[k] /\ n \in DOMAIN s[l]
          /\ s[k][m].id = s[l][n].id
      BY <1>4, <2>1, <3>1, <3>2
    <3>4. k = l
      BY <1>6, <3>3 DEF RowsDiffer
    <3>5. m = n
      BY <1>6, <3>3, <3>4 DEF RowsDiffer, Distinct
    <3> QED
      BY <1>4, <3>1, <3>2, <3>4, <3>5
  <2> QED
    BY <2>1 DEF Distinct
<1> QED
  BY <1>1, <1>5, <1>6

(* What is kept of a sequence.                                             *)
FromKept(t, c, K) == \A j \in DOMAIN t : \E n \in DOMAIN c \cap K : t[j] = c[n]

LEMMA KeptFrom ==
  ASSUME NEW S, NEW c \in Seq(S), NEW K, NEW t, t = Kept(c, K)
  PROVE  t \in Seq(S) /\ FromKept(t, c, K) /\ (Distinct(c) => Distinct(t))
<1>1. t \in Seq(S) /\ \E e : Picks(e, c, K, t)
  BY KeptPicks
<1>2. PICK e : Picks(e, c, K, t)
  BY <1>1
<1>3. PICK L \in Nat : L = Len(t) /\ DOMAIN t = 1 .. L
  BY <1>1
<1>4. /\ e \in [1 .. L -> DOMAIN c \cap K]
      /\ \A j, k \in 1 .. L : j < k => e[j] < e[k]
      /\ \A k \in 1 .. L : t[k] = c[e[k]]
  BY <1>2, <1>3 DEF Picks
<1>5. FromKept(t, c, K)
  <2>1. ASSUME NEW j \in DOMAIN t PROVE \E n \in DOMAIN c \cap K : t[j] = c[n]
    <3>1. PICK n \in DOMAIN c \cap K : n = e[j]
      BY <1>3, <1>4
    <3> QED
      BY <1>3, <1>4, <3>1
  <2> QED
    BY <2>1 DEF FromKept
<1>6. ASSUME Distinct(c) PROVE Distinct(t)
  <2>1. ASSUME NEW i \in 1 .. L, NEW j \in 1 .. L, t[i].id = t[j].id PROVE i = j
    <3>1. PICK m, n : m = e[i] /\ n = e[j]
      OBVIOUS
    <3>2. m \in DOMAIN c /\ n \in DOMAIN c /\ c[m].id = c[n].id
      BY <1>4, <2>1, <3>1
    <3>3. m = n /\ m \in Nat /\ n \in Nat
      BY <1>6, <3>2 DEF Distinct
    <3>4. e[i] = e[j] /\ e[i] \in Nat
      BY <3>1, <3>3
    <3>5. i < j => e[i] < e[j]
      BY <1>4
    <3>6. j < i => e[j] < e[i]
      BY <1>4
    <3>7. ~(i < j) /\ ~(j < i)
      BY <3>4, <3>5, <3>6
    <3> QED
      BY <3>7
  <2> QED
    BY <1>3, <2>1 DEF Distinct
<1> QED
  BY <1>1, <1>5, <1>6

(* The blocks of a function are finitely many, and any of them in a row    *)
(* are a sequence.                                                         *)
LEMMA OrderIs ==
  ASSUME NEW f, Shaped(f), NEW S, S \subseteq Blocks(f), NEW seq \in SetToSeqs(S)
  PROVE  seq \in Seq(S)
<1>1. PICK L \in Nat : L = Len(f.layout) /\ DOMAIN f.layout = 1 .. L
  BY DEF Shaped, LabelsDiffer
<1>2. f.layout \in Seq(Blocks(f))
  BY DEF Shaped, LabelsDiffer
<1>3. f.layout \in [1 .. L -> Blocks(f)]
  BY <1>1, <1>2
<1>4. \A b \in Blocks(f) : \E k \in 1 .. L : f.layout[k] = b
  BY <1>1 DEF Blocks, ToSet
<1>5. f.layout \in Surjection(1 .. L, Blocks(f))
  BY <1>3, <1>4 DEF Surjection
<1>6. IsFiniteSet(1 .. L)
  BY FS_Interval
<1>7. IsFiniteSet(Blocks(f))
  BY <1>5, <1>6, FS_Surjection
<1>8. IsFiniteSet(S)
  BY <1>7, FS_Subset
<1>9. Cardinality(S) \in Nat
  BY <1>8, FS_CardinalityType
<1>10. PICK M \in Nat : M = Cardinality(S)
  BY <1>9
<1>11. seq \in [1 .. M -> S]
  BY <1>10 DEF SetToSeqs
<1> QED
  BY <1>11
================================================================================
