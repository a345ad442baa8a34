-------------------------- MODULE FlowPasses_proofs --------------------------
(***************************************************************************)
(* For every module that the optimiser may read, every list of passes and  *)
(* every run: whatever pass is at work, the module in memory is well       *)
(* formed, work lists name what is there, and mem2reg records every edge   *)
(* once.  For every list of passes, every sequence of edits, failures and  *)
(* runs: what the summaries on disk are of.                                *)
(***************************************************************************)
EXTENDS FlowRewriting_proofs

--------------------------------------------------------------------------------
(* The pipeline, PassSequencePredict.                                      *)

(* Between passes, in those that change nothing in memory, and where a     *)
(* pass begins.                                                            *)
Quiet == {"between", "done", "exited", "dead", "summaries", "graph", "calls"}
First == {"find", "constants", "fold", "loops"}

LEMMA QuietIs ==
  /\ \A s \in Quiet : s \notin Walking
  /\ \A s \in Quiet \cup First :
       /\ s \notin Promoting /\ s \notin Hunting
       /\ s \notin {"hoist", "inline", "rename"}
<1>1. PICK T : T = Quiet \cup First
  OBVIOUS
<1>2. ASSUME NEW s \in Quiet PROVE s \notin Walking
  BY DEF Quiet, Walking, Promoting, Placed, Hunting, Combining
<1>3. ASSUME NEW s \in Quiet \cup First
      PROVE  s \notin Promoting /\ s \notin Hunting /\ s \notin {"hoist", "inline", "rename"}
  BY DEF Quiet, First, Promoting, Placed, Hunting
<1> QED
  BY <1>2, <1>3

LEMMA QuietStep ==
  ASSUME RestInv, stage \in Quiet, stage' \in Quiet \cup First, ModInv', fi' \in DOMAIN mod',
         UNCHANGED <<fi, bi, pos, instToErase>>,
         pipeline' \in Seq(Known), pass' \in Nat \ {0}
  PROVE  Inv'
<1>1. stage \notin Walking
  BY QuietIs
<1>2. fi = 1 /\ bi = 1 /\ instToErase = {}
  BY <1>1 DEF RestInv, Walking, Combining
<1>3. pos \in Nat \ {0}
  BY DEF RestInv
<1>4. stage' \notin Promoting /\ stage' \notin Hunting /\ stage' \notin {"hoist", "inline", "rename"}
  <2>1. PICK s : s = stage'
    OBVIOUS
  <2>2. s \in Quiet \cup First
    BY <2>1
  <2>3. s \notin Promoting /\ s \notin Hunting /\ s \notin {"hoist", "inline", "rename"}
    BY <2>2, QuietIs
  <2> QED
    BY <2>1, <2>3
<1>5. fi' = 1 /\ bi' = 1 /\ instToErase' = {} /\ pos' \in Nat \ {0}
  BY <1>2, <1>3
<1>6. RestInv'
  BY <1>4, <1>5 DEF RestInv
<1>7. ConstantsInv'
  BY <1>5 DEF ConstantsInv, Only
<1>8. FoldInv'
  BY <1>5 DEF FoldInv, BranchesFold
<1> QED
  BY <1>4, <1>6, <1>7, <1>8, NotPromoting, NotElsewhere DEF Inv

LEMMA SourceOK ==
  ASSUME NEW m, NEW next, WellFormed(m, next)
  PROVE  1 \in DOMAIN m
<1>1. m \in Seq(ToSet(m)) /\ \E k \in DOMAIN m : TRUE
  BY DEF WellFormed
<1>2. PICK L \in Nat : DOMAIN m = 1 .. L
  BY <1>1
<1>3. \E k \in 1 .. L : TRUE
  BY <1>1, <1>2
<1>4. 1 \in 1 .. L
  BY <1>3
<1> QED
  BY <1>2, <1>4

LEMMA InitHolds == Init => Inv
<1> SUFFICES ASSUME Init PROVE Inv
  OBVIOUS
<1>1. PICK job \in Jobs : source = job[1] /\ pipeline = job[2]
  BY DEF Init
<1>2. WellFormed(source, FirstName(source)) /\ pipeline \in Seq(Known)
  BY <1>1, JobsAssumption
<1>3. ModInv
  BY <1>2 DEF Init, ModInv
<1>4. /\ stage = "between" /\ fi = 1 /\ bi = 1 /\ pos = 1 /\ pass = 1 /\ instToErase = {} /\ mod = source
  BY DEF Init, FOLD!Idle, IFC!Idle
<1>5. fi \in DOMAIN mod
  BY <1>2, <1>4, SourceOK
<1>6. /\ stage \notin Hunting /\ stage \notin Promoting
      /\ stage \notin {"constants", "fold", "hoist", "inline", "rename"}
  BY <1>4 DEF Promoting, Placed, Hunting
<1>7. RestInv
  BY <1>2, <1>4, <1>5, <1>6 DEF RestInv
<1>8. PromoteInv /\ PhiInv /\ EdgesRecordedOnce /\ ConstantsInv /\ FoldInv /\ HoistInv /\ InlineInv
  <2>1. stage \notin Placed
    BY <1>6 DEF Promoting
  <2> QED
    BY <1>6, <2>1 DEF PromoteInv, PhiInv, EdgesRecordedOnce, M2R!EdgesRecordedOnce, ConstantsInv,
       FoldInv, HoistInv, InlineInv
<1> QED
  BY <1>3, <1>7, <1>8 DEF Inv

LEMMA StartKeeps ==
  ASSUME Inv, StartPass
  PROVE  Inv'
<1>1. /\ stage = "between" /\ pass <= Len(pipeline) /\ stage' = FirstStage[pipeline[pass]]
      /\ UNCHANGED <<source, pass, pipeline, mod, fi, fresh, bi, pos, instToErase>>
  BY DEF StartPass, frame, passes, walk
<1>2. ModInv /\ RestInv /\ pipeline \in Seq(Known) /\ pass \in Nat \ {0} /\ fi \in DOMAIN mod
  BY DEF Inv, RestInv
<1>3. pipeline[pass] \in Known
  <2>1. pass \in DOMAIN pipeline
    BY <1>1, <1>2
  <2> QED
    BY <1>2, <2>1
<1>4. \A name \in Known : FirstStage[name] \in Quiet \cup First
  BY DEF Known, FirstStage, Quiet, First
<1>5. stage \in Quiet /\ stage' \in Quiet \cup First
  BY <1>1, <1>3, <1>4 DEF Quiet
<1>6. ModInv' /\ fi' \in DOMAIN mod'
  BY <1>1, <1>2 DEF ModInv
<1>7. pipeline' \in Seq(Known) /\ pass' \in Nat \ {0}
  BY <1>1, <1>2
<1> QED
  BY <1>1, <1>2, <1>5, <1>6, <1>7, QuietStep

LEMMA EndKeeps ==
  ASSUME Inv, EndPass \/ Exit
  PROVE  Inv'
<1>1. /\ stage \in {"between", "done"} /\ stage' \in {"between", "exited"} /\ pass' \in {pass, pass + 1}
      /\ UNCHANGED <<source, pipeline, mod, fi, fresh, bi, pos, instToErase>>
  BY DEF EndPass, Exit, frame, passes, walk
<1>2. ModInv /\ RestInv /\ pipeline \in Seq(Known) /\ pass \in Nat \ {0} /\ fi \in DOMAIN mod
  BY DEF Inv, RestInv
<1>3. stage \in Quiet /\ stage' \in Quiet \cup First
  BY <1>1 DEF Quiet
<1>4. ModInv' /\ fi' \in DOMAIN mod'
  BY <1>1, <1>2 DEF ModInv
<1>5. pipeline' \in Seq(Known) /\ pass' \in Nat \ {0}
  BY <1>1, <1>2
<1> QED
  BY <1>1, <1>2, <1>3, <1>4, <1>5, QuietStep

LEMMA AgainKeeps ==
  ASSUME Inv, Again
  PROVE  Inv'
<1>1. /\ stage \in {"exited", "dead"} /\ stage' = "between" /\ pass' = 1
      /\ pipeline' = <<Head(pipeline)>> /\ Head(pipeline) = "PassSequencePredict"
      /\ mod' = source /\ fresh' = FirstName(source)
      /\ UNCHANGED <<source, fi, bi, pos, instToErase>>
  BY DEF Again, passes, walk
<1>2. ModInv /\ RestInv
  BY DEF Inv
<1>3. WellFormed(source, FirstName(source))
  BY <1>2 DEF ModInv
<1>4. ModInv'
  BY <1>1, <1>3 DEF ModInv
<1>5. fi = 1
  <2>1. stage \in Quiet
    BY <1>1 DEF Quiet
  <2> QED
    BY <1>2, <2>1, QuietIs DEF RestInv
<1>6. fi' \in DOMAIN mod'
  BY <1>1, <1>3, <1>5, SourceOK
<1>7. pipeline' \in Seq(Known)
  <2>1. "PassSequencePredict" \in Known
    BY DEF Known, FirstStage
  <2> QED
    BY <1>1, <2>1
<1>8. stage \in Quiet /\ stage' \in Quiet \cup First /\ pass' \in Nat \ {0}
  BY <1>1 DEF Quiet
<1> QED
  BY <1>1, <1>2, <1>4, <1>6, <1>7, <1>8, QuietStep

LEMMA PredictKeeps ==
  ASSUME Inv, PassSequencePredict \/ Edit \/ Die
  PROVE  Inv'
<1>1. UNCHANGED <<source, pass, mod, fi, fresh, bi, pos, instToErase>>
  BY DEF PassSequencePredict, Edit, Die, frame, passes, walk
<1>2. ModInv /\ RestInv /\ pipeline \in Seq(Known) /\ pass \in Nat \ {0} /\ fi \in DOMAIN mod
  BY DEF Inv, RestInv
<1>3. \/ PSP!UseCached \/ PSP!StartPrompt \/ PSP!ReadSource \/ PSP!OpenSummary \/ PSP!WriteSummary
      \/ PSP!AddPasses \/ PSP!Edit \/ PSP!Die
  BY DEF PassSequencePredict, Edit, Die, PSP!Next
<1>4. ASSUME PSP!AddPasses
      PROVE  pipeline' \in Seq(Known) /\ stage' \in {"done", "dead"} /\ stage = "summaries"
  <2>1. PICK n \in 1 .. MaxNames : \E names \in [1 .. n -> PSP!Passes \cup Strangers] :
          IF \A k \in 1 .. n : names[k] \in PSP!Passes
            THEN pipeline' = pipeline \o names /\ stage' = "done"
            ELSE stage' = "dead" /\ UNCHANGED pipeline
    BY <1>4 DEF PSP!AddPasses
  <2>2. PICK names \in [1 .. n -> PSP!Passes \cup Strangers] :
          IF \A k \in 1 .. n : names[k] \in PSP!Passes
            THEN pipeline' = pipeline \o names /\ stage' = "done"
            ELSE stage' = "dead" /\ UNCHANGED pipeline
    BY <2>1
  <2>3. n \in Nat
    BY PassNamesAssumption
  <2>4. PSP!Passes \subseteq Known
    BY PassNamesAssumption DEF PSP!Passes, PSP!ToSet
  <2>5. pipeline' \in Seq(Known) /\ stage' \in {"done", "dead"} /\ stage = "summaries"
    <3>1. CASE \A k \in 1 .. n : names[k] \in PSP!Passes
      <4>1. \A k \in 1 .. n : names[k] \in Known
        BY <2>4, <3>1
      <4>2. names \in Seq(Known)
        BY <2>2, <2>3, <4>1
      <4>3. pipeline' = pipeline \o names
        BY <2>2, <3>1
      <4> QED
        BY <1>2, <1>4, <2>2, <3>1, <4>2, <4>3 DEF PSP!AddPasses
    <3>2. CASE ~\A k \in 1 .. n : names[k] \in PSP!Passes
      BY <1>2, <1>4, <2>2, <3>2 DEF PSP!AddPasses
    <3> QED
      BY <3>1, <3>2
  <2> QED
    BY <2>5
<1>5. pipeline' \in Seq(Known) /\ stage = "summaries" /\ stage' \in {"summaries", "done", "dead"}
  <2>1. CASE PSP!AddPasses
    BY <1>4, <2>1
  <2>2. CASE ~PSP!AddPasses
    BY <1>2, <1>3, <2>2 DEF PSP!UseCached, PSP!StartPrompt, PSP!ReadSource, PSP!OpenSummary,
       PSP!WriteSummary, PSP!Edit, PSP!Die, PSP!NextPass, PSP!Working
  <2> QED
    BY <2>1, <2>2
<1>6. stage \in Quiet /\ stage' \in Quiet \cup First
  BY <1>5 DEF Quiet
<1>7. ModInv' /\ fi' \in DOMAIN mod' /\ pass' \in Nat \ {0}
  BY <1>1, <1>2 DEF ModInv
<1> QED
  BY <1>1, <1>2, <1>5, <1>6, <1>7, QuietStep

--------------------------------------------------------------------------------
(* FunctionInlining.                                                       *)

InlFrame == UNCHANGED <<frame, pipeline, fi, worklist, walk, pos, m2r, ifc, licm, psp>>

Inlining == {"graph", "calls", "inline", "done"}
LEMMA InlineStep ==
  ASSUME Inv, stage \in Inlining, stage' \in Inlining, InlFrame, ModInv', InlineInv'
  PROVE  Inv'
<1>1. UNCHANGED <<fi, pipeline, pass, pos, bi, instToErase>>
  BY DEF InlFrame, frame, walk
<1>2. RestInv
  BY DEF Inv
<1>3. bi = 1 /\ instToErase = {} /\ fi = 1
  BY <1>2 DEF RestInv, Combining, Inlining, Walking, Promoting, Placed, Hunting
<1>4. pos' \in Nat \ {0} /\ pipeline' \in Seq(Known) /\ pass' \in Nat \ {0} /\ bi' = 1 /\ instToErase' = {}
  BY <1>1, <1>2, <1>3 DEF RestInv
<1>5. /\ stage' \notin Promoting /\ stage' \notin Hunting
      /\ stage' \notin {"constants", "fold", "hoist", "rename"}
  BY DEF Inlining, Promoting, Placed, Hunting
<1>6. fi' = 1 /\ 1 \in DOMAIN mod'
  BY <1>1, <1>3, SourceOK DEF ModInv
<1>7. RestInv'
  BY <1>4, <1>5, <1>6 DEF RestInv
<1> QED
  BY <1>5, <1>7, NotPromoting, NotElsewhere DEF Inv

LEMMA FindRecursiveKeeps ==
  ASSUME Inv, INL!FindRecursive, InlFrame
  PROVE  Inv'
<1>1. stage = "graph" /\ stage' = "calls" /\ UNCHANGED <<mod, fresh, source>>
  BY DEF INL!FindRecursive, InlFrame, frame
<1>2. ModInv'
  BY <1>1 DEF Inv, ModInv
<1>3. InlineInv'
  BY <1>1, NotElsewhere
<1> QED
  BY <1>1, <1>2, <1>3, InlineStep DEF Inlining

LEMMA RemoveFunctionsKeeps ==
  ASSUME Inv, INL!RemoveFunctions, InlFrame
  PROVE  Inv'
<1>1. /\ stage = "inline" /\ stage' = "done" /\ UNCHANGED <<fresh, source>>
      /\ mod' = Kept(mod, {k \in DOMAIN mod : ~INL!Removable(mod[k])})
  BY InliningIs DEF INL!RemoveFunctions, InlFrame, frame
<1>2. WellFormed(mod, fresh) /\ fresh \in Nat
  BY DEF Inv, ModInv, WellFormed
<1>3. PICK K : K = {k \in DOMAIN mod : ~INL!Removable(mod[k])}
  OBVIOUS
<1>4. \A k \in DOMAIN mod : mod[k].name = "main" => k \in K
  BY <1>3 DEF INL!Removable
<1>5. PICK m : m = mod /\ mod' = Kept(m, K)
  BY <1>1, <1>3
<1>6. WellFormed(m, fresh) /\ \A k \in DOMAIN m : m[k].name = "main" => k \in K
  BY <1>2, <1>4, <1>5
<1>7. WellFormed(Kept(m, K), fresh)
  BY <1>2, <1>6, FewerFunctions
<1>8. ModInv'
  BY <1>1, <1>5, <1>7 DEF Inv, ModInv
<1>9. InlineInv'
  BY <1>1, NotElsewhere
<1> QED
  BY <1>1, <1>8, <1>9, InlineStep DEF Inlining

(* The calls of a function that wait to be inlined.                        *)
CallsIn(t, f) ==
  t \in Seq(Instructions(f)) /\ Distinct(t) /\ \A j \in DOMAIN t : INL!Inlinable(t[j])

Found(t, c)  == t = INL!Kept(c, {n \in DOMAIN c : INL!Inlinable(c[n])})
SomeOf(t, c) == \A j \in DOMAIN t : \E n \in DOMAIN c : t[j] = c[n]

LEMMA CallsOfBlock ==
  ASSUME NEW f, Shaped(f), NEW b \in Blocks(f), NEW c, c = f.code[b], NEW t, Found(t, c)
  PROVE  CallsIn(t, f) /\ SomeOf(t, c)
<1>1. PICK K : K = {n \in DOMAIN c : INL!Inlinable(c[n])}
  OBVIOUS
<1>2. t = Kept(c, K)
  BY <1>1, InliningIs DEF Found
<1>3. PICK S : S = ToSet(c) /\ c \in Seq(S)
  BY BlockOK
<1>4. S \subseteq Instructions(f)
  BY <1>3 DEF Instructions
<1>5. Distinct(c)
  BY NamesOfBlock DEF Distinct
<1>6. t \in Seq(S) /\ FromKept(t, c, K) /\ Distinct(t)
  BY <1>2, <1>3, <1>5, KeptFrom
<1>7. t \in Seq(Instructions(f))
  BY <1>4, <1>6
<1> QED
  BY <1>1, <1>6, <1>7 DEF CallsIn, FromKept, SomeOf

LEMMA CallsOfFunction ==
  ASSUME NEW f, Shaped(f), NEW s, DOMAIN s = DOMAIN f.layout, s = [k \in DOMAIN f.layout |-> s[k]],
         \A k \in DOMAIN f.layout : Found(s[k], f.code[f.layout[k]]),
         NEW t, t = FlattenSeq(s)
  PROVE  CallsIn(t, f)
<1>1. PICK L \in Nat : L = Len(f.layout) /\ DOMAIN f.layout = 1 .. L
  BY DEF Shaped, LabelsDiffer
<1>2. PICK S : S = Instructions(f)
  OBVIOUS
<1>3. ASSUME NEW k \in 1 .. L
      PROVE  /\ f.layout[k] \in Blocks(f)
             /\ CallsIn(s[k], f)
             /\ SomeOf(s[k], f.code[f.layout[k]])
  <2>1. PICK b : b = f.layout[k] /\ b \in Blocks(f)
    BY <1>1 DEF Blocks, ToSet
  <2>2. PICK c : c = f.code[b]
    OBVIOUS
  <2>3. PICK u : u = s[k] /\ Found(u, c)
    BY <1>1, <2>1, <2>2
  <2>4. CallsIn(u, f) /\ SomeOf(u, c)
    BY <2>1, <2>2, <2>3, CallsOfBlock
  <2> QED
    BY <2>1, <2>2, <2>3, <2>4
<1>4. s \in Seq(Seq(S))
  <2>1. \A k \in 1 .. L : s[k] \in Seq(S)
    BY <1>2, <1>3 DEF CallsIn
  <2>2. s \in [1 .. L -> Seq(S)]
    BY <1>1, <2>1
  <2> QED
    BY <2>2
<1>5. RowsDiffer(s)
  <2>1. ASSUME NEW k \in 1 .. L, NEW l \in 1 .. L, NEW i \in DOMAIN s[k], NEW j \in DOMAIN s[l],
               s[k][i].id = s[l][j].id
        PROVE  k = l
    <3>1. PICK b, c : b = f.layout[k] /\ c = f.layout[l] /\ b \in Blocks(f) /\ c \in Blocks(f)
      BY <1>3
    <3>2. PICK n \in DOMAIN f.code[b] : s[k][i] = f.code[b][n]
      BY <1>3, <3>1 DEF SomeOf
    <3>3. PICK m \in DOMAIN f.code[c] : s[l][j] = f.code[c][m]
      BY <1>3, <3>1 DEF SomeOf
    <3>4. b = c
      BY <2>1, <3>1, <3>2, <3>3 DEF Shaped, NamesDiffer
    <3> QED
      BY <1>1, <3>1, <3>4 DEF Shaped, LabelsDiffer
  <2>2. DOMAIN s = 1 .. L /\ \A k \in 1 .. L : Distinct(s[k])
    BY <1>1, <1>3 DEF CallsIn
  <2> QED
    BY ONLY <2>1, <2>2, Zenon DEF RowsDiffer
<1>6. t \in Seq(S) /\ FromRows(t, s) /\ Distinct(t)
  BY <1>4, <1>5, FlattenRows
<1>7. ASSUME NEW j \in DOMAIN t PROVE INL!Inlinable(t[j])
  <2>1. PICK k \in 1 .. L : \E l \in DOMAIN s[k] : t[j] = s[k][l]
    BY <1>1, <1>6 DEF FromRows
  <2>2. PICK l \in DOMAIN s[k] : t[j] = s[k][l]
    BY <2>1
  <2>3. INL!Inlinable(s[k][l])
    BY <1>3 DEF CallsIn
  <2> QED
    BY <2>2, <2>3
<1> QED
  BY <1>2, <1>6, <1>7 DEF CallsIn

LEMMA CallsOfModule ==
  ASSUME WellFormed(mod, fresh), NEW s, s = [k \in DOMAIN mod |-> s[k]],
         \A k \in DOMAIN mod : CallsIn(s[k], mod[k]), NEW t, t = FlattenSeq(s)
  PROVE  /\ \E S : t \in Seq(S)
         /\ Distinct(t)
         /\ \A j \in DOMAIN t : INL!Inlinable(t[j]) /\ \E k \in DOMAIN mod : t[j] \in Instructions(mod[k])
<1>1. PICK L \in Nat : L = Len(mod) /\ DOMAIN mod = 1 .. L
  BY DEF WellFormed
<1>2. PICK S : S = UNION {Instructions(mod[k]) : k \in DOMAIN mod}
  OBVIOUS
<1>3. \A k \in 1 .. L : s[k] \in Seq(S)
  <2>1. ASSUME NEW k \in 1 .. L PROVE s[k] \in Seq(S)
    <3>1. PICK T : T = Instructions(mod[k])
      OBVIOUS
    <3>2. s[k] \in Seq(T) /\ T \subseteq S
      BY <1>1, <1>2, <3>1 DEF CallsIn
    <3> QED
      BY <3>2
  <2> QED
    BY <2>1
<1>4. s \in Seq(Seq(S))
  <2>1. s \in [1 .. L -> Seq(S)]
    BY <1>1, <1>3
  <2> QED
    BY <2>1
<1>5. \A k \in 1 .. L : \A i \in DOMAIN s[k] : s[k][i] \in Instructions(mod[k])
  <2>1. ASSUME NEW k \in 1 .. L, NEW i \in DOMAIN s[k] PROVE s[k][i] \in Instructions(mod[k])
    <3>1. PICK T, r : T = Instructions(mod[k]) /\ r = s[k]
      OBVIOUS
    <3>2. r \in Seq(T) /\ i \in DOMAIN r
      BY <1>1, <2>1, <3>1 DEF CallsIn
    <3> QED
      BY <3>1, <3>2
  <2> QED
    BY <2>1
<1>6. RowsDiffer(s)
  <2>1. ASSUME NEW k \in 1 .. L, NEW l \in 1 .. L, NEW i \in DOMAIN s[k], NEW j \in DOMAIN s[l],
               s[k][i].id = s[l][j].id
        PROVE  k = l
    <3>1. s[k][i].id \in Ids(mod[k]) /\ s[l][j].id \in Ids(mod[l])
      BY <1>5 DEF Ids
    <3>2. Ids(mod[k]) \cap Ids(mod[l]) # {}
      BY <2>1, <3>1
    <3> QED
      BY <1>1, <3>2 DEF WellFormed
  <2>2. DOMAIN s = 1 .. L /\ \A k \in 1 .. L : Distinct(s[k])
    BY <1>1 DEF CallsIn
  <2> QED
    BY <2>1, <2>2 DEF RowsDiffer
<1>7. t \in Seq(S) /\ FromRows(t, s) /\ Distinct(t)
  BY <1>4, <1>6, FlattenRows
<1>8. ASSUME NEW j \in DOMAIN t
      PROVE  INL!Inlinable(t[j]) /\ \E k \in DOMAIN mod : t[j] \in Instructions(mod[k])
  <2>1. DOMAIN s = 1 .. L
    BY <1>1
  <2>2. PICK k \in 1 .. L : \E l \in DOMAIN s[k] : t[j] = s[k][l]
    BY <1>7, <2>1 DEF FromRows
  <2>3. PICK l \in DOMAIN s[k] : t[j] = s[k][l]
    BY <2>2
  <2>4. INL!Inlinable(s[k][l])
    BY <1>1 DEF CallsIn
  <2>5. s[k][l] \in Instructions(mod[k])
    BY <1>5
  <2> QED
    BY <1>1, <2>3, <2>4, <2>5
<1> QED
  BY <1>7, <1>8

(* A call of one of the functions N.                                       *)
CallIn(f, id, N) ==
  \E b \in Blocks(f) : \E n \in DOMAIN f.code[b] :
    At(f, b, n).id = id /\ At(f, b, n).op = "call" /\ At(f, b, n).callee \in N
Named == {mod[l].name : l \in DOMAIN mod}

LEMMA CallOfIs == \A k, id : CallOf(k, id) <=> CallIn(mod[k], id, Named)
BY DEF CallOf, CallIn, Named

LEMMA FunctionCalls ==
  ASSUME ModInv, NEW k \in DOMAIN mod, NEW u,
         u = IF mod[k].name \in recursiveFuncs THEN <<>>
             ELSE INL!FlattenSeq([j \in DOMAIN mod[k].layout |->
                    LET c == mod[k].code[mod[k].layout[j]]
                    IN INL!Kept(c, {n \in DOMAIN c : INL!Inlinable(c[n])})])
  PROVE  CallsIn(u, mod[k])
<1>1. PICK f : f = mod[k]
  OBVIOUS
<1>2. Shaped(f)
  <2>1. WellFormed(mod, fresh) /\ fresh \in Nat
    BY DEF ModInv, WellFormed
  <2> QED
    BY <1>1, <2>1, FunctionOK
<1>3. CASE f.name \in recursiveFuncs
  <2>1. u = <<>>
    BY <1>1, <1>3
  <2>2. PICK S : S = Instructions(f)
    OBVIOUS
  <2>3. <<>> \in Seq(S) /\ DOMAIN <<>> = {}
    OBVIOUS
  <2>4. u \in Seq(Instructions(f)) /\ DOMAIN u = {}
    BY <2>1, <2>2, <2>3
  <2>5. CallsIn(u, f)
    BY ONLY <2>4 DEF CallsIn, Distinct
  <2> QED
    BY <1>1, <2>5
<1>4. CASE f.name \notin recursiveFuncs
  <2>1. PICK s : s = [j \in DOMAIN f.layout |->
                       LET c == f.code[f.layout[j]]
                       IN INL!Kept(c, {n \in DOMAIN c : INL!Inlinable(c[n])})]
    OBVIOUS
  <2>2. u = FlattenSeq(s)
    BY <1>1, <1>4, <2>1, InliningIs
  <2>3. DOMAIN s = DOMAIN f.layout /\ s = [j \in DOMAIN f.layout |-> s[j]]
    BY <2>1
  <2>4. \A j \in DOMAIN f.layout : Found(s[j], f.code[f.layout[j]])
    BY <2>1 DEF Found
  <2>5. CallsIn(u, f)
    BY ONLY <1>2, <2>2, <2>3, <2>4, CallsOfFunction
  <2> QED
    BY <1>1, <2>5
<1> QED
  BY <1>3, <1>4

LEMMA CollectCallsKeeps ==
  ASSUME Inv, INL!CollectCalls, InlFrame
  PROVE  Inv'
<1>1. stage = "calls" /\ stage' = "inline" /\ UNCHANGED <<mod, fresh, source>>
  BY DEF INL!CollectCalls, InlFrame, frame
<1>2. ModInv' /\ ModInv /\ WellFormed(mod, fresh) /\ fresh \in Nat
  BY <1>1 DEF Inv, ModInv, WellFormed
<1>3. PICK s : s = [k \in DOMAIN mod |->
                     IF mod[k].name \in recursiveFuncs THEN <<>>
                     ELSE INL!FlattenSeq([j \in DOMAIN mod[k].layout |->
                            LET c == mod[k].code[mod[k].layout[j]]
                            IN INL!Kept(c, {n \in DOMAIN c : INL!Inlinable(c[n])})])]
  OBVIOUS
<1>4. PICK t : t = FlattenSeq(s)
  OBVIOUS
<1>5. callsToInline' = [k \in DOMAIN t |-> t[k].id]
  BY <1>3, <1>4, InliningIs DEF INL!CollectCalls
<1>6. \A k \in DOMAIN mod : CallsIn(s[k], mod[k])
  BY <1>2, <1>3, FunctionCalls
<1>7. s = [k \in DOMAIN mod |-> s[k]]
  BY <1>3
<1>8. /\ \E S : t \in Seq(S)
      /\ Distinct(t)
      /\ \A j \in DOMAIN t : INL!Inlinable(t[j]) /\ \E k \in DOMAIN mod : t[j] \in Instructions(mod[k])
  BY ONLY <1>2, <1>4, <1>6, <1>7, CallsOfModule
<1>9. PICK L \in Nat : L = Len(t) /\ DOMAIN t = 1 .. L
  BY <1>8
<1>10. ASSUME NEW j \in 1 .. L
       PROVE  t[j].id \in Nat /\ \E k \in DOMAIN mod : CallOf(k, t[j].id)
  <2>1. PICK k \in DOMAIN mod : t[j] \in Instructions(mod[k])
    BY <1>8, <1>9
  <2>2. PICK b \in Blocks(mod[k]) : \E n \in DOMAIN mod[k].code[b] : t[j] = mod[k].code[b][n]
    BY <2>1 DEF Instructions, ToSet
  <2>3. PICK n \in DOMAIN mod[k].code[b] : t[j] = mod[k].code[b][n]
    BY <2>2
  <2>4. t[j].op = "call" /\ \E l \in DOMAIN mod : mod[l].name = t[j].callee
    BY <1>8, <1>9 DEF INL!Inlinable, INL!Names
  <2>5. CallOf(k, t[j].id)
    BY <2>3, <2>4 DEF CallOf, At
  <2>6. t[j].id \in Ids(mod[k])
    BY <2>1 DEF Ids
  <2>7. Ids(mod[k]) \subseteq 0 .. fresh - 1
    BY <1>2 DEF WellFormed
  <2> QED
    BY <1>2, <2>5, <2>6, <2>7
<1>11. callsToInline' \in [1 .. L -> Nat]
  BY <1>5, <1>9, <1>10
<1>12. DOMAIN callsToInline' = 1 .. L /\ \A j \in 1 .. L : callsToInline'[j] = t[j].id
  BY <1>5, <1>9
<1>13. \A j, k \in 1 .. L : t[j].id = t[k].id => j = k
  BY <1>8, <1>9 DEF Distinct
<1>14. \A j \in 1 .. L : \E k \in DOMAIN mod : CallOf(k, t[j].id)'
  BY <1>1, <1>10 DEF CallOf
<1>15. InlineInv'
  BY <1>1, <1>11, <1>12, <1>13, <1>14 DEF InlineInv
<1> QED
  BY <1>1, <1>2, <1>15, InlineStep DEF Inlining

(* A call that is not erased stays.                                        *)
CallsStay(f, g, gone) == \A id, N : CallIn(f, id, N) /\ id \notin gone => CallIn(g, id, N)

LEMMA FollowsCalls ==
  ASSUME NEW f, Shaped(f), NEW g, NEW new, NEW gone, Follows(g, f, new, gone), Blocks(g) = Blocks(f)
  PROVE  CallsStay(f, g, gone)
<1>1. ASSUME NEW id, NEW N, CallIn(f, id, N), id \notin gone PROVE CallIn(g, id, N)
  <2>1. PICK b \in Blocks(f) : \E n \in DOMAIN f.code[b] :
          /\ f.code[b][n].id = id /\ f.code[b][n].op = "call" /\ f.code[b][n].callee \in N
    BY <1>1 DEF CallIn, At
  <2>2. PICK m \in DOMAIN f.code[b] :
          /\ f.code[b][m].id = id /\ f.code[b][m].op = "call" /\ f.code[b][m].callee \in N
    BY <2>1
  <2>3. PICK i : i = f.code[b][m] /\ i.id \notin gone
    BY <1>1, <2>2
  <2>4. Kin(g.code[b], i)
    BY <2>3, FollowsHas
  <2>5. PICK n \in DOMAIN g.code[b] : /\ g.code[b][n].id = id /\ g.code[b][n].op = "call"
                                      /\ g.code[b][n].callee \in N
    BY <2>2, <2>3, <2>4 DEF Kin
  <2> QED
    BY <2>5 DEF CallIn, At
<1> QED
  BY <1>1 DEF CallsStay

(* The copies of a function's instructions have names of their own.        *)
LEMMA CloneIs ==
  ASSUME NEW i, Instruction(i), NEW g, NEW arg, NEW shift, NEW j, j = INL!Clone(i, g, arg, shift)
  PROVE  Instruction(j) /\ j.id = shift[i.id]
<1>1. INL!Fields(i) \subseteq {"x", "y", "p", "c"}
  BY DEF INL!Fields
<1>2. DOMAIN j = DOMAIN i
  BY DEF INL!Clone
<1>3. \A a \in {"op", "to", "then", "else", "callee"} : a \in DOMAIN i => j[a] = i[a]
  BY <1>1 DEF INL!Clone
<1>4. "id" \in DOMAIN i /\ "op" \in DOMAIN i
  BY DEF Instruction
<1>5. j.id = shift[i.id]
  BY <1>1, <1>4 DEF INL!Clone
<1>6. j.op = i.op
  BY <1>3, <1>4
<1> QED
  BY <1>2, <1>5, <1>6 DEF Instruction

Copies(copy, M, first) ==
  /\ M \in Nat \ {0} /\ Len(copy) = M
  /\ copy \in Seq(ToSet(copy)) /\ DOMAIN copy = 1 .. M
  /\ \A k \in 1 .. M : Instruction(copy[k]) /\ copy[k].id = first + k - 1

(* The new names.                                                          *)
Shifts(shift, body) ==
  shift = [id \in {body[k].id : k \in DOMAIN body} |->
             fresh + (CHOOSE k \in DOMAIN body : body[k].id = id) - 1]
Clones(copy, body, g, arg, shift) ==
  copy = [k \in DOMAIN body |-> INL!Clone(body[k], g, arg, shift)]

LEMMA CopyIs ==
  ASSUME NEW g, Shaped(g), NEW body, body = g.code[Entry(g)], fresh \in Nat, NEW M, M = Len(body),
         NEW shift, Shifts(shift, body), NEW arg, NEW copy, Clones(copy, body, g, arg, shift)
  PROVE  Copies(copy, M, fresh)
<1>1. PICK e \in Blocks(g) : e = Entry(g)
  BY EntryIsBlock
<1>2. M \in Nat \ {0} /\ DOMAIN body = 1 .. M /\ \A n \in DOMAIN body : Instruction(body[n])
  BY <1>1, BlockOK
<1>3. \A m, n \in DOMAIN body : body[m].id = body[n].id => m = n
  BY <1>1, NamesOfBlock
<1>4. DOMAIN copy = 1 .. M
  BY <1>2 DEF Clones
<1>5. ASSUME NEW k \in 1 .. M PROVE Instruction(copy[k]) /\ copy[k].id = fresh + k - 1
  <2>1. (CHOOSE l \in DOMAIN body : body[l].id = body[k].id) = k
    BY <1>2, <1>3
  <2>2. PICK i : i = body[k] /\ Instruction(i)
    BY <1>2
  <2>3. shift[i.id] = fresh + k - 1
    BY <1>2, <2>1, <2>2 DEF Shifts
  <2>4. PICK j : j = copy[k] /\ j = INL!Clone(i, g, arg, shift)
    BY <1>2, <2>2 DEF Clones
  <2>5. Instruction(j) /\ j.id = shift[i.id]
    BY ONLY <2>2, <2>4, CloneIs
  <2>6. copy[k] = j /\ Instruction(j) /\ j.id = fresh + k - 1
    BY <2>3, <2>4, <2>5
  <2> QED
    BY ONLY <2>6
<1>6. copy \in Seq(ToSet(copy)) /\ Len(copy) = M
  <2>1. PICK c, S : c = copy /\ S = ToSet(c) /\ DOMAIN c = 1 .. M /\ c = [k \in 1 .. M |-> c[k]]
    BY <1>2, <1>4 DEF Clones
  <2>2. \A k \in 1 .. M : c[k] \in S
    BY <2>1 DEF ToSet
  <2>3. c \in [1 .. M -> S]
    BY ONLY <2>1, <2>2
  <2>4. c \in Seq(S) /\ Len(c) = M
    BY <1>2, <2>3
  <2> QED
    BY ONLY <2>1, <2>4
<1> QED
  BY <1>2, <1>4, <1>5, <1>6 DEF Copies

LEMMA CopiesFit ==
  ASSUME NEW copy, NEW M, NEW first \in Nat, Copies(copy, M, first), NEW K, K \subseteq 1 .. M,
         NEW new, new = {first + k - 1 : k \in K}, NEW t, t = Kept(copy, K)
  PROVE  Fit(t, new)
<1>1. PICK S : S = ToSet(copy) /\ copy \in Seq(S)
  BY DEF Copies
<1>2. Distinct(copy)
  <2>0. M \in Nat
    BY DEF Copies
  <2>1. \A i, j \in 1 .. M : first + i - 1 = first + j - 1 => i = j
    BY <2>0
  <2> QED
    BY <2>1 DEF Copies, Distinct
<1>3. t \in Seq(S) /\ FromKept(t, copy, K) /\ Distinct(t)
  BY <1>1, <1>2, KeptFrom
<1>4. t \in Seq(ToSet(t))
  BY <1>3, InItsSet
<1>5. \A j \in DOMAIN t : Instruction(t[j]) /\ t[j].id \in new
  <2>1. ASSUME NEW j \in DOMAIN t PROVE Instruction(t[j]) /\ t[j].id \in new
    <3>1. PICK k \in DOMAIN copy \cap K : t[j] = copy[k]
      BY <1>3 DEF FromKept
    <3> QED
      BY <3>1 DEF Copies
  <2> QED
    BY <2>1
<1> QED
  BY <1>3, <1>4, <1>5 DEF Fit, Distinct

(* What was spliced in twice.                                              *)
LEMMA SplicedTwice ==
  ASSUME NEW f, Shaped(f), NEW b \in Blocks(f), NEW n \in DOMAIN f.code[b],
         NEW new, new \cap Ids(f) = {}, NEW mid, Fit(mid, new),
         NEW more, more \cap Ids(f) = {}, more \cap new = {}, NEW mid2, Fit(mid2, more),
         NEW g, SplicedIn(g, f, b, n, mid),
         NEW e, e = Entry(f), NEW one, one = 1, NEW h, SplicedIn(h, g, e, one, mid2)
  PROVE  /\ Shaped(h) /\ Blocks(h) = Blocks(f) /\ h.name = f.name
         /\ Ids(h) \subseteq Ids(f) \cup new \cup more
         /\ CallsStay(f, h, {})
         /\ \A ids, ops : Only(f, ids, ops) /\ ids \cap (new \cup more) = {} => Only(h, ids, ops)
<1>1. Follows(g, f, new, {}) /\ Shaped(g) /\ Blocks(g) = Blocks(f)
  BY SpliceFollows
<1>2. PICK none : none = {}
  OBVIOUS
<1>3. Follows(g, f, new, none)
  BY <1>1, <1>2
<1>4. Ids(g) \subseteq Ids(f) \cup new
  BY <1>3, FollowsIds
<1>5. e \in Blocks(g)
  BY <1>1, EntryIsBlock
<1>6. one \in DOMAIN g.code[e]
  <2>1. PICK L \in Nat \ {0} : DOMAIN g.code[e] = 1 .. L
    BY <1>1, <1>5, BlockOK
  <2> QED
    BY <2>1
<1>7. more \cap Ids(g) = {}
  BY <1>4
<1>8. Follows(h, g, more, {}) /\ Shaped(h) /\ Blocks(h) = Blocks(g)
  BY ONLY <1>1, <1>5, <1>6, <1>7, Fit(mid2, more), SplicedIn(h, g, e, one, mid2), SpliceFollows
<1>9. Follows(h, g, more, none)
  BY <1>2, <1>8
<1>10. Ids(h) \subseteq Ids(g) \cup more
  BY <1>1, <1>9, FollowsIds
<1>11. CallsStay(f, g, none) /\ CallsStay(g, h, none)
  BY <1>1, <1>3, <1>8, <1>9, FollowsCalls
<1>12. CallsStay(f, h, {})
  BY <1>2, <1>11 DEF CallsStay
<1>13. ASSUME NEW ids, NEW ops, Only(f, ids, ops), ids \cap (new \cup more) = {} PROVE Only(h, ids, ops)
  <2>1. ids \cap new = {} /\ ids \cap more = {}
    BY <1>13
  <2>2. Only(g, ids, ops)
    BY <1>3, <1>13, <2>1, FollowsOnly
  <2> QED
    BY <1>1, <1>9, <2>1, <2>2, FollowsOnly
<1>14. h.name = f.name
  BY <1>1, <1>8 DEF Follows
<1> QED
  BY <1>1, <1>4, <1>8, <1>10, <1>12, <1>13, <1>14

LEMMA SpliceFirst ==
  ASSUME NEW c, c \in Seq(ToSet(c)), Len(c) > 0, NEW mid, mid \in Seq(ToSet(mid)),
         NEW one, one = 1, NEW d, d = Joined(mid, c)
  PROVE  d = Splice(c, one, mid)
<1>1. PICK S : S = ToSet(c) \cup ToSet(mid)
  OBVIOUS
<1>2. c \in Seq(S) /\ mid \in Seq(S)
  BY <1>1
<1>3. PICK L \in Nat : L = Len(c) /\ L > 0
  BY <1>2
<1>4. PICK M \in Nat : M = Len(mid)
  BY <1>2
<1>5. PICK u : u = Splice(c, one, mid)
  OBVIOUS
<1>6. one \in 1 .. Len(c)
  BY <1>3
<1>7. u \in Seq(S) /\ SplicedAs(u, c, one, mid, L, M)
  BY <1>2, <1>3, <1>4, <1>5, <1>6, SpliceElements
<1>8. /\ d \in Seq(S \cup S) /\ Len(d) = M + L
      /\ \A k \in 1 .. M : d[k] = mid[k]
      /\ \A k \in 1 .. L : d[M + k] = c[k]
  BY <1>2, <1>3, <1>4, JoinIs DEF Joined
<1>9. /\ Len(u) = L + M /\ \A k \in 1 .. M : u[k] = mid[k]
      /\ \A k \in 1 .. L : u[k + M] = c[k]
  <2>1. /\ Len(u) = L + M
        /\ \A k \in 1 .. M : u[one - 1 + k] = mid[k]
        /\ \A k \in one .. L : u[k + M] = c[k]
    BY <1>7 DEF SplicedAs
  <2>2. \A k \in 1 .. M : one - 1 + k = k
    OBVIOUS
  <2> QED
    BY <2>1, <2>2
<1>10. d \in Seq(S) /\ L + M \in Nat /\ Len(d) = L + M
  BY <1>8
<1>11. ASSUME NEW k \in 1 .. L + M PROVE d[k] = u[k]
  <2>1. CASE k <= M
    BY <1>8, <1>9, <2>1
  <2>2. CASE k > M
    <3>1. PICK j \in 1 .. L : k = M + j /\ k = j + M
      <4>1. k - M \in 1 .. L /\ k = M + (k - M) /\ k = (k - M) + M
        BY <2>2
      <4> QED
        BY <4>1
    <3> QED
      BY <1>8, <1>9, <3>1
  <2> QED
    BY <2>1, <2>2
<1>12. PICK N \in Nat : N = L + M
  BY <1>10
<1> QED
  BY <1>5, <1>7, <1>9, <1>10, <1>11, <1>12, SameSequence

(* What is left of a function in which a call has been inlined.            *)
InlinedWell(r, f, ids, M) ==
  /\ M \in Nat /\ Shaped(r) /\ r.name = f.name
  /\ Ids(r) \subseteq Ids(f) \cup fresh .. fresh + M - 1
  /\ CallsStay(f, r, ids)

LEMMA InlinedIs ==
  ASSUME NEW f, Shaped(f), fresh \in Nat, Ids(f) \subseteq 0 .. fresh - 1,
         NEW b \in Blocks(f), NEW n \in DOMAIN f.code[b],
         NEW call, call = f.code[b][n], call.op = "call",
         NEW g, Shaped(g), NEW r, r = INL!Inlined(f, call, g), NEW M, M = Len(g.code[Entry(g)]),
         NEW ids, ids = {call.id}
  PROVE  InlinedWell(r, f, ids, M)
<1> DEFINE body   == g.code[INL!Entry(g)]
           shift  == [id \in {body[k].id : k \in DOMAIN body} |->
                        fresh + (CHOOSE k \in DOMAIN body : body[k].id = id) - 1]
           copy   == [k \in DOMAIN body |-> INL!Clone(body[k], g, call.x, shift)]
           local  == {k \in 1 .. Len(copy) - 1 : copy[k].op = "alloca"}
           others == (1 .. Len(copy) - 1) \ local
           allocs == INL!Kept(copy, local)
           rest   == INL!Kept(copy, others)
           bb     == INL!BlockOf(f, call.id)
           nn     == INL!IndexOf(f, call.id)
           code   == [f.code EXCEPT ![bb] = SubSeq(@, 1, nn - 1) \o rest \o SubSeq(@, nn, Len(@))]
           h      == [f EXCEPT !.code = [code EXCEPT ![INL!Entry(f)] = allocs \o @]]
           last   == call.id :> INL!Last(copy).x
<1>1. body = g.code[Entry(g)]
  BY InliningIs
<1>2. Shifts(shift, body)
  BY DEF Shifts
<1>3. PICK arg : arg = call.x
  OBVIOUS
<1>4. Clones(copy, body, g, arg, shift)
  BY <1>3 DEF Clones
<1>6. local = {k \in 1 .. Len(copy) - 1 : copy[k].op = "alloca"}
  OBVIOUS
<1>7. others = (1 .. Len(copy) - 1) \ local
  OBVIOUS
<1>8. allocs = Kept(copy, local) /\ rest = Kept(copy, others)
  BY InliningIs
<1>15. bb = b /\ nn = n
  BY InstIs, InliningIs
<1>16. code = [f.code EXCEPT ![bb] = SubSeq(@, 1, nn - 1) \o rest \o SubSeq(@, nn, Len(@))]
  OBVIOUS
<1>18. h = [f EXCEPT !.code = [code EXCEPT ![INL!Entry(f)] = allocs \o @]]
  OBVIOUS
<1>19. r = INL!Erase(INL!ReplaceUses(h, last), {call.id})
  BY DEF INL!Inlined
<1> HIDE DEF body, shift, copy, local, others, allocs, rest, bb, nn, code, h, last
<1>5. M \in Nat \ {0} /\ Copies(copy, M, fresh) /\ Len(copy) = M
  <2>1. PICK c, s, t : c = body /\ s = shift /\ t = copy
    OBVIOUS
  <2>2. M = Len(c) /\ c = g.code[Entry(g)]
    BY <1>1, <2>1
  <2>3. Shifts(s, c) /\ Clones(t, c, g, arg, s)
    BY <1>2, <1>4, <2>1
  <2>4. Copies(t, M, fresh)
    BY <2>2, <2>3, CopyIs
  <2> QED
    BY <2>1, <2>4 DEF Copies
<1>9. PICK new, more : new = {fresh + k - 1 : k \in others} /\ more = {fresh + k - 1 : k \in local}
  OBVIOUS
<1>10. local \subseteq 1 .. M /\ others \subseteq 1 .. M
  BY <1>5, <1>6, <1>7
<1>11. Fit(rest, new) /\ Fit(allocs, more)
  BY <1>5, <1>8, <1>9, <1>10, CopiesFit
<1>12. new \subseteq fresh .. fresh + M - 1 /\ more \subseteq fresh .. fresh + M - 1
  BY <1>5, <1>9, <1>10
<1>13. new \cap Ids(f) = {} /\ more \cap Ids(f) = {}
  BY <1>12
<1>14. more \cap new = {}
  <2>1. \A j, k \in 1 .. M : fresh + j - 1 = fresh + k - 1 => j = k
    BY <1>5
  <2> QED
    BY <1>7, <1>9, <1>10, <2>1
<1>17. PICK e \in Blocks(f) : e = Entry(f) /\ e = INL!Entry(f)
  BY EntryIsBlock, InliningIs
<1>20. PICK h1 : h1 = [f EXCEPT !.code = code]
  OBVIOUS
<1>21. "code" \in DOMAIN f /\ h1.code = code
  BY <1>20 DEF Shaped, LabelsDiffer
<1>22. r = Erase(ReplaceUses(h, last), ids)
  BY <1>19, InliningIs
<1>23. SplicedIn(h1, f, b, n, rest)
  <2>1. code = [f.code EXCEPT ![b] = Splice(f.code[b], n, rest)]
    BY <1>15, <1>16 DEF Splice
  <2> QED
    BY <1>20, <2>1 DEF SplicedIn
<1>24. PICK one : one = 1
  OBVIOUS
<1>25. Shaped(h1) /\ Blocks(h1) = Blocks(f)
  <2>1. PICK mid : mid = rest /\ Fit(mid, new) /\ SplicedIn(h1, f, b, n, mid)
    BY <1>11, <1>23
  <2>2. new \cap Ids(f) = {}
    BY <1>13
  <2>3. Shaped(f) /\ b \in Blocks(f) /\ n \in DOMAIN f.code[b]
    OBVIOUS
  <2>4. Follows(h1, f, new, {}) /\ Shaped(h1) /\ Blocks(h1) = Blocks(f)
    BY ONLY <2>1, <2>2, <2>3, SpliceFollows
  <2> QED
    BY <2>4
<1>26. SplicedIn(h, h1, e, one, allocs)
  <2>1. PICK c : c = h1.code[e] /\ c \in Seq(ToSet(c)) /\ Len(c) > 0
    BY <1>17, <1>25, BlockOK
  <2>2. allocs \in Seq(ToSet(allocs))
    BY <1>11 DEF Fit
  <2>3. PICK d : d = Joined(allocs, c)
    OBVIOUS
  <2>4. d = Splice(c, one, allocs)
    BY ONLY <1>24, <2>1, <2>2, <2>3, SpliceFirst
  <2>5. h = [f EXCEPT !.code = [code EXCEPT ![e] = d]]
    BY <1>17, <1>18, <1>21, <2>1, <2>3 DEF Joined
  <2>6. PICK c2 : c2 = [code EXCEPT ![e] = d]
    OBVIOUS
  <2>7. h = [h1 EXCEPT !.code = c2]
    BY <1>20, <2>5, <2>6
  <2>8. h = [h1 EXCEPT !.code[e] = d]
    BY <1>21, <2>6, <2>7
  <2> QED
    BY <2>1, <2>4, <2>8 DEF SplicedIn
<1>27. /\ Shaped(h) /\ Blocks(h) = Blocks(f) /\ h.name = f.name
       /\ Ids(h) \subseteq Ids(f) \cup new \cup more
       /\ CallsStay(f, h, {})
       /\ \A names, ops : Only(f, names, ops) /\ names \cap (new \cup more) = {} => Only(h, names, ops)
  <2>1. e = Entry(f)
    BY <1>17
  <2>2. Shaped(f) /\ b \in Blocks(f) /\ n \in DOMAIN f.code[b]
    OBVIOUS
  <2> QED
    BY ONLY <1>11, <1>13, <1>14, <1>23, <1>24, <1>26, <2>1, <2>2, SplicedTwice, SMTT(30)
<1>28. PICK ops : ops = {"call"}
  OBVIOUS
<1>29. Only(f, ids, ops)
  BY <1>28 DEF Only, At, Shaped, NamesDiffer
<1>30. ids \cap (new \cup more) = {}
  <2>1. call.id \in Ids(f)
    BY DEF Ids, Instructions, ToSet
  <2> QED
    BY <1>13, <2>1
<1>31. Only(h, ids, ops) /\ ops \cap Terms = {}
  BY <1>27, <1>28, <1>29, <1>30 DEF Terms
<1>32. Trims(r, h, ids)
  BY ONLY <1>22, <1>27, <1>31, TrimReplaceErase
<1>33. Follows(r, h, {}, ids) /\ Shaped(r) /\ Blocks(r) = Blocks(h)
  BY <1>32 DEF Trims
<1>34. PICK none : none = {}
  OBVIOUS
<1>35. Follows(r, h, none, ids)
  BY <1>33, <1>34
<1>36. Ids(r) \subseteq Ids(h) \cup none
  BY <1>27, <1>35, FollowsIds
<1>37. CallsStay(h, r, ids)
  BY <1>27, <1>33, <1>35, FollowsCalls
<1>38. CallsStay(f, r, ids)
  BY <1>27, <1>37 DEF CallsStay
<1>39. r.name = f.name
  BY <1>27, <1>33 DEF Follows
<1>40. Ids(r) \subseteq Ids(f) \cup fresh .. fresh + M - 1
  BY <1>12, <1>27, <1>34, <1>36
<1> QED
  BY <1>5, <1>33, <1>38, <1>39, <1>40 DEF InlinedWell

(* The instruction that is next to be inlined.                             *)
TheCall(k, b, n, id) ==
  /\ k \in DOMAIN mod /\ b \in Blocks(mod[k]) /\ n \in DOMAIN mod[k].code[b]
  /\ mod[k].code[b][n].id = id /\ mod[k].code[b][n].op = "call"
  /\ mod[k].code[b][n].callee \in Named

LEMMA CallIs ==
  ASSUME ModInv, NEW id, NEW h \in DOMAIN mod, CallOf(h, id), NEW k,
         k = CHOOSE j \in DOMAIN mod : \E i \in INL!Calls(mod[j]) : i.id = id
  PROVE  \E b, n : TheCall(k, b, n, id)
<1>1. PICK b, n : TheCall(h, b, n, id)
  <2>1. PICK b \in Blocks(mod[h]) : \E n \in DOMAIN mod[h].code[b] :
          /\ mod[h].code[b][n].id = id /\ mod[h].code[b][n].op = "call"
          /\ \E l \in DOMAIN mod : mod[l].name = mod[h].code[b][n].callee
    BY DEF CallOf, At
  <2>2. PICK n \in DOMAIN mod[h].code[b] :
          /\ mod[h].code[b][n].id = id /\ mod[h].code[b][n].op = "call"
          /\ \E l \in DOMAIN mod : mod[l].name = mod[h].code[b][n].callee
    BY <2>1
  <2> QED
    BY <2>2 DEF TheCall, Named
<1>2. PICK i : i = mod[h].code[b][n]
  OBVIOUS
<1>3. i \in Instructions(mod[h]) /\ i.id = id /\ i.op = "call"
  BY <1>1, <1>2 DEF TheCall, Instructions, ToSet
<1>4. i \in INL!Calls(mod[h])
  BY <1>3, InliningIs DEF INL!Calls
<1>5. k \in DOMAIN mod /\ \E j \in INL!Calls(mod[k]) : j.id = id
  BY <1>3, <1>4
<1>6. id \in Ids(mod[h])
  BY <1>3 DEF Ids
<1>7. id \in Ids(mod[k])
  BY <1>5, InliningIs DEF INL!Calls, Ids
<1>8. Ids(mod[h]) \cap Ids(mod[k]) # {}
  BY <1>6, <1>7
<1>9. h = k
  BY <1>5, <1>8 DEF ModInv, WellFormed
<1> QED
  BY <1>1, <1>9

LEMMA InlineNextKeeps ==
  ASSUME Inv, INL!InlineNext, InlFrame
  PROVE  Inv'
<1>1. /\ stage = "inline" /\ stage' = stage /\ callsToInline # <<>> /\ UNCHANGED source
      /\ callsToInline' = Tail(callsToInline)
  BY DEF INL!InlineNext, InlFrame, frame
<1>2. ModInv /\ fresh \in Nat /\ WellFormed(mod, fresh)
  BY DEF Inv, ModInv, WellFormed
<1>3. /\ callsToInline \in Seq(Nat)
      /\ \A j, k \in DOMAIN callsToInline : callsToInline[j] = callsToInline[k] => j = k
      /\ \A j \in DOMAIN callsToInline : \E k \in DOMAIN mod : CallOf(k, callsToInline[j])
  BY <1>1 DEF Inv, InlineInv
<1>4. PICK w \in Seq(Nat) : w = callsToInline
  BY <1>3
<1>5. PICK L \in Nat : L = Len(w) /\ DOMAIN w = 1 .. L /\ L > 0
  BY <1>1, <1>4
<1>6. PICK t : t = Tail(w)
  OBVIOUS
<1>7. /\ Head(w) = w[1] /\ 1 \in DOMAIN w /\ t \in Seq(Nat)
      /\ \A j \in DOMAIN t : j + 1 \in DOMAIN w /\ t[j] = w[j + 1] /\ j + 1 # 1 /\ j \in Nat
  BY <1>4, <1>5, <1>6
<1>8. PICK id : id = Head(w) /\ id = w[1]
  BY <1>7
<1>9. PICK k : k = CHOOSE j \in DOMAIN mod : \E i \in INL!Calls(mod[j]) : i.id = id
  OBVIOUS
<1>10. PICK b, n : TheCall(k, b, n, id)
  <2>1. PICK h \in DOMAIN mod : CallOf(h, id)
    BY <1>3, <1>4, <1>7, <1>8
  <2> QED
    BY <1>2, <1>9, <2>1, CallIs
<1>11. PICK f : f = mod[k]
  OBVIOUS
<1>12. /\ k \in DOMAIN mod /\ b \in Blocks(f) /\ n \in DOMAIN f.code[b]
       /\ f.code[b][n].id = id /\ f.code[b][n].op = "call" /\ f.code[b][n].callee \in Named
  BY <1>10, <1>11 DEF TheCall
<1>13. Shaped(f) /\ Ids(f) \subseteq 0 .. fresh - 1
  <2>1. PICK m : m = mod /\ WellFormed(m, fresh)
    BY <1>2
  <2> QED
    BY <1>2, <1>11, <1>12, <2>1, FunctionOK
<1>14. PICK call : call = f.code[b][n] /\ call.op = "call" /\ call.id = id
  BY <1>12
<1>15. Inst(f, id) = call
  BY <1>12, <1>13, <1>14, InstIs
<1>16. PICK g : g = Callee(mod, call.callee)
  OBVIOUS
<1>17. Shaped(g)
  <2>1. PICK l \in DOMAIN mod : g = mod[l]
    <3>1. \E l \in DOMAIN mod : mod[l].name = call.callee
      BY <1>12, <1>14 DEF Named
    <3> QED
      BY <1>16, <3>1 DEF Callee
  <2>2. PICK m : m = mod /\ WellFormed(m, fresh)
    BY <1>2
  <2> QED
    BY <1>2, <2>1, <2>2, FunctionOK
<1>18. PICK r : r = INL!Inlined(f, call, g)
  OBVIOUS
<1>19. PICK M : M = Len(g.code[Entry(g)])
  OBVIOUS
<1>20. mod' = [mod EXCEPT ![k] = r] /\ fresh' = fresh + M
  BY <1>4, <1>8, <1>9, <1>11, <1>12, <1>15, <1>16, <1>18, <1>19, InliningIs DEF INL!InlineNext
<1>21. PICK ids : ids = {id}
  OBVIOUS
<1>22. /\ M \in Nat /\ Shaped(r) /\ r.name = f.name
       /\ Ids(r) \subseteq Ids(f) \cup fresh .. fresh + M - 1
       /\ CallsStay(f, r, ids)
  <2>1. ids = {call.id}
    BY <1>14, <1>21
  <2>2. Shaped(f) /\ b \in Blocks(f) /\ n \in DOMAIN f.code[b] /\ call = f.code[b][n]
    BY <1>12, <1>13, <1>14
  <2>3. fresh \in Nat /\ Ids(f) \subseteq 0 .. fresh - 1
    BY <1>2, <1>13
  <2>4. call.op = "call" /\ Shaped(g) /\ r = INL!Inlined(f, call, g) /\ M = Len(g.code[Entry(g)])
    BY <1>14, <1>17, <1>18, <1>19
  <2>5. InlinedWell(r, f, ids, M)
    BY ONLY <2>1, <2>2, <2>3, <2>4, InlinedIs
  <2> QED
    BY ONLY <2>5 DEF InlinedWell
<1>23. ModInv' /\ DOMAIN mod' = DOMAIN mod /\ mod'[k] = r
  <2>1. fresh' \in Nat /\ fresh <= fresh'
    BY <1>2, <1>20, <1>22
  <2>2. Ids(r) \subseteq Ids(mod[k]) \cup fresh .. fresh' - 1
    <3>1. fresh + M - 1 = fresh' - 1
      BY <1>2, <1>20, <1>22
    <3> QED
      BY <1>11, <1>22, <3>1
  <2>3. r.name = mod[k].name
    BY <1>11, <1>22
  <2> QED
    BY <1>1, <1>2, <1>12, <1>20, <1>22, <2>1, <2>2, <2>3, StepModule
<1>24. Named' = Named
  <2>1. \A l \in DOMAIN mod : mod'[l].name = mod[l].name
    BY <1>11, <1>20, <1>22, <1>23
  <2> QED
    BY <1>23, <2>1 DEF Named
<1>25. ASSUME NEW h \in DOMAIN mod, NEW x, x # id, CallOf(h, x) PROVE CallOf(h, x)'
  <2>0. CallIn(mod'[h], x, Named') => CallOf(h, x)'
    BY DEF CallOf, CallIn, Named
  <2>1. CallIn(mod[h], x, Named)
    BY <1>25, CallOfIs
  <2>2. CASE h = k
    <3>1. CallIn(f, x, Named) /\ x \notin ids
      BY <1>11, <1>21, <1>25, <2>1, <2>2
    <3>2. CallIn(r, x, Named)
      BY <1>22, <3>1 DEF CallsStay
    <3>3. CallIn(mod'[h], x, Named')
      BY <1>23, <1>24, <2>2, <3>2
    <3> QED
      BY <2>0, <3>3
  <2>3. CASE h # k
    <3>1. mod'[h] = mod[h]
      BY <1>20, <1>25, <2>3
    <3>2. CallIn(mod'[h], x, Named')
      BY <1>24, <2>1, <3>1
    <3> QED
      BY <2>0, <3>2
  <2> QED
    BY <2>2, <2>3
<1>26. ASSUME NEW j \in DOMAIN t PROVE \E h \in DOMAIN mod : CallOf(h, t[j])'
  <2>1. t[j] # id
    BY <1>3, <1>4, <1>7, <1>8
  <2>2. PICK h \in DOMAIN mod : CallOf(h, t[j])
    BY <1>3, <1>4, <1>7
  <2> QED
    BY <1>25, <2>1, <2>2
<1>27. \A j, l \in DOMAIN t : t[j] = t[l] => j = l
  <2>1. ASSUME NEW j \in DOMAIN t, NEW l \in DOMAIN t, t[j] = t[l] PROVE j = l
    <3>1. j + 1 = l + 1
      BY <1>3, <1>4, <1>7, <2>1
    <3> QED
      BY <1>7, <3>1
  <2> QED
    BY <2>1
<1>28. callsToInline' = t
  BY <1>1, <1>4, <1>6
<1>29. InlineInv'
  BY <1>7, <1>23, <1>26, <1>27, <1>28 DEF InlineInv
<1> QED
  BY <1>1, <1>23, <1>29, InlineStep DEF Inlining

LEMMA FunctionInliningKeeps ==
  ASSUME Inv, FunctionInlining
  PROVE  Inv'
BY FindRecursiveKeeps, CollectCallsKeeps, InlineNextKeeps, RemoveFunctionsKeeps
   DEF FunctionInlining, INL!Next, InlFrame

--------------------------------------------------------------------------------
(* Every step.                                                             *)

LEMMA StutterKeeps ==
  ASSUME Inv, UNCHANGED vars
  PROVE  Inv'
<1>1. /\ UNCHANGED <<source, mod, stage, fi, fresh, worklist, pipeline, pass>>
      /\ UNCHANGED <<bi, pos, instToErase, allocas, num, info, newPhis, visited, round>>
      /\ UNCHANGED <<preheader, nextWorklist, callsToInline>>
  BY DEF vars, frame, shared, passes, m2r, walk, licm, inl
<1>2. Fi' = Fi /\ ModInv' /\ RestInv'
  BY <1>1 DEF Inv, Fi, ModInv, RestInv
<1>3. PromoteInv' /\ PhiInv'
  BY <1>1, <1>2 DEF Inv, PromoteInv, PhiInv
<1>4. EdgesRecordedOnce'
  <2>1. CASE stage = "rename"
    <3>1. PICK f : f = Fi
      OBVIOUS
    <3>2. Once(f, newPhis', worklist', visited')
      BY <1>1, <2>1, <3>1, EdgesAre DEF Inv
    <3> QED
      BY <1>2, <3>1, <3>2, EdgesNext
  <2>2. CASE stage # "rename"
    BY <1>1, <2>2 DEF EdgesRecordedOnce, M2R!EdgesRecordedOnce
  <2> QED
    BY <2>1, <2>2
<1>5. ConstantsInv' /\ FoldInv' /\ HoistInv'
  BY <1>1, <1>2 DEF Inv, ConstantsInv, FoldInv, HoistInv
<1>6. InlineInv'
  <2>1. \A k, id : CallOf(k, id) => CallOf(k, id)'
    BY <1>1 DEF CallOf
  <2> QED
    BY <1>1, <2>1 DEF Inv, InlineInv
<1> QED
  BY <1>2, <1>3, <1>4, <1>5, <1>6 DEF Inv

LEMMA NextKeeps ==
  ASSUME Inv, [Next]_vars
  PROVE  Inv'
BY StartKeeps, EndKeeps, AgainKeeps, PredictKeeps, Mem2RegKeeps, ConstantFoldingKeeps, IfCombineKeeps,
   ExtractLoopVariableKeeps, FunctionInliningKeeps, StutterKeeps
   DEF Next, Optimiser, World

(* Inv is kept by every step of every pass.                                *)
THEOREM Invariant == Spec => []Inv
BY InitHolds, NextKeeps, PTL DEF Spec

(* However a pass edits the control-flow graph and the instructions, and   *)
(* wherever it stands between two edits, blocks end in branches to blocks  *)
(* of their function and no two instructions are taken for each other.     *)
THEOREM ModulesAreWellFormed == Spec => []ModuleWellFormed
<1>1. Inv => ModuleWellFormed
  BY DEF Inv, ModInv, ModuleWellFormed
<1> QED
  BY <1>1, Invariant, PTL

(* The work lists of the hoisting and of the inlining hold no instruction  *)
(* that has been erased by the time it is taken up, nor any that became    *)
(* something else.                                                         *)
THEOREM WorkStaysThere == Spec => []WorkIsThere
<1>1. ASSUME Inv, stage = "hoist", NEW id, Waits(Fi, id)
      PROVE  \E i \in Instructions(mod[fi]) : i.id = id /\ ~Terminator(i)
  <2>1. PICK b \in Blocks(Fi) : \E n \in DOMAIN Fi.code[b] :
          Fi.code[b][n].id = id /\ ~Terminator(Fi.code[b][n])
    BY <1>1 DEF Waits, At
  <2>2. PICK n \in DOMAIN Fi.code[b] :
          Fi.code[b][n].id = id /\ ~Terminator(Fi.code[b][n])
    BY <2>1
  <2>3. Fi.code[b][n] \in Instructions(Fi)
    BY <2>2 DEF Instructions, ToSet
  <2> QED
    BY <2>2, <2>3 DEF Fi
<1>2. ASSUME Inv, stage = "hoist"
      PROVE  /\ preheader \in Blocks(mod[fi])
             /\ \A id \in ToSet(worklist) \cup ToSet(nextWorklist) : Waits(Fi, id)
  BY <1>2 DEF Inv, HoistInv, Fi
<1>3. ASSUME NEW k \in DOMAIN mod, NEW id, CallOf(k, id)
      PROVE  \E i \in Instructions(mod[k]) :
               i.id = id /\ i.op = "call" /\ IsDefined(mod, i.callee)
  <2>1. PICK b \in Blocks(mod[k]) : \E n \in DOMAIN mod[k].code[b] :
          /\ mod[k].code[b][n].id = id /\ mod[k].code[b][n].op = "call"
          /\ \E l \in DOMAIN mod : mod[l].name = mod[k].code[b][n].callee
    BY <1>3 DEF CallOf, At
  <2>2. PICK n \in DOMAIN mod[k].code[b] :
          /\ mod[k].code[b][n].id = id /\ mod[k].code[b][n].op = "call"
          /\ \E l \in DOMAIN mod : mod[l].name = mod[k].code[b][n].callee
    BY <2>1
  <2>3. mod[k].code[b][n] \in Instructions(mod[k])
    BY <2>2 DEF Instructions, ToSet
  <2> QED
    BY <2>2, <2>3 DEF IsDefined
<1>4. ASSUME Inv, stage = "inline"
      PROVE  /\ \A j, k \in DOMAIN callsToInline : callsToInline[j] = callsToInline[k] => j = k
             /\ \A id \in ToSet(callsToInline) : \E k \in DOMAIN mod : CallOf(k, id)
  BY <1>4 DEF Inv, InlineInv, ToSet
<1>5. Inv => WorkIsThere
  BY <1>1, <1>2, <1>3, <1>4 DEF WorkIsThere
<1> QED
  BY <1>5, Invariant, PTL

(* While the renamer walks over a control-flow graph of any shape, with    *)
(* branches of two edges to one block, loops and blocks that are not       *)
(* reached, no edge is lost and none is entered twice.                     *)
THEOREM EdgesAreRecordedOnce == Spec => []EdgesRecordedOnce
<1>1. Inv => EdgesRecordedOnce
  BY DEF Inv
<1> QED
  BY <1>1, Invariant, PTL

--------------------------------------------------------------------------------
(* PassSequencePredict: the summaries on disk.                             *)

(* Versions of some of the files.                                          *)
Descriptions == UNION {[S -> Nat] : S \in SUBSET PSP!HppCpp}

(* What is on disk and what has been sent.                                 *)
DiskTypeOK ==
  /\ passNo \in Nat \ {0} /\ clock \in Nat \ {0}
  /\ request \in {"none", "read", "write"}
  /\ crossed \subseteq PSP!Passes
  /\ files \in [PSP!Passes -> [PSP!HppCpp -> [v : Nat, at : Nat]]]
  /\ sent \in Descriptions
  /\ summaries \in
       [PSP!Passes -> [of : Descriptions, at : Nat]]

(* No time is later than now.                                              *)
TimesPassed ==
  \A p \in PSP!Passes :
    /\ summaries[p].at <= clock
    /\ \A f \in PSP!HppCpp : files[p][f].at <= clock

(* A prompt is for a pass without a usable summary, and contains the       *)
(* sources as they are unless one of them was edited since.                *)
PromptInv ==
  request # "none" =>
    /\ passNo <= Len(PassNames)
    /\ \/ PSP!Pass \in crossed
       \/ \A f \in DOMAIN sent : sent[f] = files[PSP!Pass][f].v
    /\ request = "read"  => ~PSP!UpToDate(PSP!Pass)
    /\ request = "write" => DOMAIN sent = PSP!HppCpp

DiskInv ==
  DiskTypeOK /\ TimesPassed /\ PromptInv /\ PSP!SummariesDescribeSources

USE PassNamesAssumption

LEMMA PassIsOne ==
  ASSUME passNo \in Nat \ {0}, passNo <= Len(PassNames)
  PROVE  PSP!Pass \in PSP!Passes
BY DEF PSP!Pass, PSP!Passes, PSP!ToSet

LEMMA NothingIsOne == PSP!Nothing \in Descriptions /\ DOMAIN PSP!Nothing = {}
<1>1. PSP!Nothing \in [{} -> Nat]
  BY DEF PSP!Nothing
<1>2. {} \in SUBSET PSP!HppCpp
  OBVIOUS
<1> QED BY <1>1, <1>2 DEF Descriptions

LEMMA DiskInvInit == Init => DiskInv
<1>1. ASSUME PSP!Idle PROVE DiskInv
  <2>1. DiskTypeOK
    BY <1>1, NothingIsOne DEF PSP!Idle, DiskTypeOK, PSP!Never
  <2>2. TimesPassed
    BY <1>1 DEF PSP!Idle, TimesPassed, PSP!Never
  <2>3. PromptInv /\ PSP!SummariesDescribeSources
    BY <1>1 DEF PSP!Idle, PromptInv, PSP!SummariesDescribeSources, PSP!UpToDate
  <2> QED BY <2>1, <2>2, <2>3 DEF DiskInv
<1> QED BY <1>1 DEF Init

LEMMA UseCachedKeeps == DiskInv /\ PSP!UseCached => DiskInv'
BY DEF DiskInv, DiskTypeOK, TimesPassed, PromptInv, PSP!UseCached, PSP!NextPass,
       PSP!SummariesDescribeSources, PSP!UpToDate, PSP!Versions

LEMMA StartPromptKeeps == DiskInv /\ PSP!StartPrompt => DiskInv'
<1> SUFFICES ASSUME DiskInv, PSP!StartPrompt PROVE DiskInv'
  OBVIOUS
<1>1. sent' \in Descriptions /\ DOMAIN sent' = {}
  BY NothingIsOne DEF PSP!StartPrompt
<1>2. ~PSP!UpToDate(PSP!Pass)' /\ PSP!Pass' = PSP!Pass
  BY DEF PSP!StartPrompt, PSP!UpToDate, PSP!Pass
<1>3. DiskTypeOK' /\ TimesPassed'
  BY <1>1 DEF DiskInv, DiskTypeOK, TimesPassed, PSP!StartPrompt
<1>4. PromptInv'
  BY <1>1, <1>2 DEF DiskInv, PromptInv, PSP!StartPrompt, PSP!Working
<1>5. PSP!SummariesDescribeSources'
  BY <1>2 DEF DiskInv, PSP!StartPrompt, PSP!SummariesDescribeSources, PSP!UpToDate,
              PSP!Versions, PSP!Pass
<1> QED BY <1>3, <1>4, <1>5 DEF DiskInv

LEMMA ReadSourceKeeps == DiskInv /\ PSP!ReadSource => DiskInv'
<1> SUFFICES ASSUME DiskInv, PSP!ReadSource PROVE DiskInv'
  OBVIOUS
<1>0. PICK f \in PSP!HppCpp \ DOMAIN sent :
        sent' = [g \in DOMAIN sent \cup {f} |->
                   IF g = f THEN files[PSP!Pass][f].v ELSE sent[g]]
  BY DEF PSP!ReadSource
<1>p. PSP!Pass \in PSP!Passes
  BY PassIsOne DEF DiskInv, DiskTypeOK, PSP!ReadSource, PSP!Working
<1>s. PICK S \in SUBSET PSP!HppCpp : sent \in [S -> Nat]
  BY DEF DiskInv, DiskTypeOK, Descriptions
<1>1. files[PSP!Pass][f].v \in Nat
  BY <1>p DEF DiskInv, DiskTypeOK
<1>2. sent' \in [S \cup {f} -> Nat]
  BY <1>0, <1>1, <1>s
<1>3. sent' \in Descriptions
  BY <1>2, <1>s DEF Descriptions
<1>4. DiskTypeOK' /\ TimesPassed'
  BY <1>3 DEF DiskInv, DiskTypeOK, TimesPassed, PSP!ReadSource
<1>5. PromptInv'
  BY <1>0, <1>s DEF DiskInv, PromptInv, PSP!ReadSource, PSP!Pass, PSP!UpToDate
<1>6. PSP!SummariesDescribeSources'
  BY DEF DiskInv, PSP!ReadSource, PSP!SummariesDescribeSources, PSP!UpToDate,
         PSP!Versions, PSP!Pass
<1> QED BY <1>4, <1>5, <1>6 DEF DiskInv

LEMMA OpenSummaryKeeps == DiskInv /\ PSP!OpenSummary => DiskInv'
<1> SUFFICES ASSUME DiskInv, PSP!OpenSummary PROVE DiskInv'
  OBVIOUS
<1>p. PSP!Pass \in PSP!Passes
  BY PassIsOne DEF DiskInv, DiskTypeOK, PSP!OpenSummary, PSP!Working
<1>2. DiskTypeOK' /\ TimesPassed'
  BY <1>p, NothingIsOne DEF DiskInv, DiskTypeOK, TimesPassed, PSP!OpenSummary
<1>3. PromptInv'
  BY DEF DiskInv, PromptInv, PSP!OpenSummary, PSP!Pass
<1>4. PSP!SummariesDescribeSources'
  BY <1>p DEF DiskInv, DiskTypeOK, PSP!OpenSummary, PSP!SummariesDescribeSources,
         PSP!UpToDate, PSP!Versions, PSP!Pass
<1> QED BY <1>2, <1>3, <1>4 DEF DiskInv

LEMMA WriteSummaryKeeps == DiskInv /\ PSP!WriteSummary => DiskInv'
<1> SUFFICES ASSUME DiskInv, PSP!WriteSummary PROVE DiskInv'
  OBVIOUS
<1>p. PSP!Pass \in PSP!Passes
  BY PassIsOne DEF DiskInv, DiskTypeOK, PSP!WriteSummary, PSP!Working
<1>2. DiskTypeOK' /\ TimesPassed'
  BY <1>p, NothingIsOne DEF DiskInv, DiskTypeOK, TimesPassed, PSP!WriteSummary, PSP!NextPass
<1>3. PromptInv'
  BY DEF PromptInv, PSP!WriteSummary
<1>4. sent = PSP!Versions(PSP!Pass) \/ PSP!Pass \in crossed
  <2>1. PICK S \in SUBSET PSP!HppCpp : sent \in [S -> Nat]
    BY DEF DiskInv, DiskTypeOK, Descriptions
  <2>2. DOMAIN sent = PSP!HppCpp
    BY DEF DiskInv, PromptInv, PSP!WriteSummary
  <2> QED BY <2>1, <2>2 DEF DiskInv, PromptInv, PSP!WriteSummary, PSP!Versions
<1>5. PSP!SummariesDescribeSources'
  BY <1>p, <1>4 DEF DiskInv, DiskTypeOK, PSP!WriteSummary, PSP!NextPass,
         PSP!SummariesDescribeSources, PSP!UpToDate, PSP!Versions, PSP!Pass
<1> QED BY <1>2, <1>3, <1>5 DEF DiskInv

LEMMA AddPassesKeeps == DiskInv /\ PSP!AddPasses => DiskInv'
<1> SUFFICES ASSUME DiskInv, PSP!AddPasses PROVE DiskInv'
  OBVIOUS
<1>1. request = "none" /\ request' = "none"
  BY DEF DiskInv, DiskTypeOK, PromptInv, PSP!AddPasses
<1>2. DiskTypeOK' /\ TimesPassed'
  BY DEF DiskInv, DiskTypeOK, TimesPassed, PSP!AddPasses
<1>3. PromptInv' /\ PSP!SummariesDescribeSources'
  BY <1>1 DEF DiskInv, PromptInv, PSP!AddPasses, PSP!SummariesDescribeSources,
              PSP!UpToDate, PSP!Versions
<1> QED BY <1>2, <1>3 DEF DiskInv

LEMMA DieKeeps == DiskInv /\ PSP!Die => DiskInv'
<1> SUFFICES ASSUME DiskInv, PSP!Die PROVE DiskInv'
  OBVIOUS
<1>1. request = "write" => PSP!Pass \in PSP!Passes
  BY PassIsOne DEF DiskInv, DiskTypeOK, PromptInv
<1>2. DiskTypeOK' /\ TimesPassed'
  BY <1>1, NothingIsOne DEF DiskInv, DiskTypeOK, TimesPassed, PSP!Die
<1>3. PromptInv' /\ PSP!SummariesDescribeSources'
  BY <1>1 DEF DiskInv, PromptInv, PSP!Die, PSP!SummariesDescribeSources,
              PSP!UpToDate, PSP!Versions
<1> QED BY <1>2, <1>3 DEF DiskInv

LEMMA EditKeeps == DiskInv /\ PSP!Edit => DiskInv'
<1> SUFFICES ASSUME DiskInv, PSP!Edit PROVE DiskInv'
  OBVIOUS
<1>0. PICK p \in PSP!Passes, f \in PSP!HppCpp, t \in {clock, clock + 1} :
        /\ files' = [files EXCEPT ![p][f] = [v |-> @.v + 1, at |-> t]]
        /\ clock' = t
        /\ crossed' = IF PSP!Sent(p, f) \/ t = summaries[p].at
                        THEN crossed \cup {p} ELSE crossed
  BY DEF PSP!Edit
<1>t. t \in Nat \ {0} /\ clock <= t
  BY DEF DiskInv, DiskTypeOK
<1>1. DiskTypeOK'
  <2>1. /\ passNo \in Nat \ {0} /\ clock \in Nat \ {0}
        /\ request \in {"none", "read", "write"}
        /\ crossed \subseteq PSP!Passes /\ sent \in Descriptions
        /\ files \in [PSP!Passes -> [PSP!HppCpp -> [v : Nat, at : Nat]]]
        /\ summaries \in [PSP!Passes -> [of : Descriptions, at : Nat]]
    BY DEF DiskInv, DiskTypeOK
  <2>2. UNCHANGED <<passNo, request, sent, summaries>>
    BY DEF PSP!Edit
  <2>3. files' \in [PSP!Passes -> [PSP!HppCpp -> [v : Nat, at : Nat]]]
    <3>1. files[p][f].v + 1 \in Nat
      BY <2>1
    <3>2. [v |-> files[p][f].v + 1, at |-> t] \in [v : Nat, at : Nat]
      BY <1>t, <3>1
    <3> QED
      BY <1>0, <2>1, <3>2
  <2>4. clock' \in Nat \ {0} /\ crossed' \subseteq PSP!Passes
    BY <1>0, <1>t, <2>1
  <2> QED
    BY <2>1, <2>2, <2>3, <2>4 DEF DiskTypeOK
<1>a. \A q \in PSP!Passes, g \in PSP!HppCpp :
        /\ files[q][g].at \in Nat /\ files'[q][g].at \in Nat
        /\ files[q][g].at <= clock
        /\ files'[q][g].at = IF q = p /\ g = f THEN t ELSE files[q][g].at
  BY <1>0, <1>t DEF DiskInv, DiskTypeOK, TimesPassed
<1>s. summaries' = summaries /\ \A q \in PSP!Passes : summaries[q].at \in Nat
  BY DEF DiskInv, DiskTypeOK, PSP!Edit
<1>2. TimesPassed'
  BY <1>0, <1>t, <1>a, <1>s DEF DiskInv, DiskTypeOK, TimesPassed
<1>3. \A q \in PSP!Passes : PSP!UpToDate(q)' => PSP!UpToDate(q)
  <2> TAKE q \in PSP!Passes
  <2>1. clock \in Nat
    BY DEF DiskInv, DiskTypeOK
  <2>2. \A g \in PSP!HppCpp : files'[q][g].at >= files[q][g].at
    BY <1>a, <1>t, <2>1
  <2>3. "hpp" \in PSP!HppCpp /\ "cpp" \in PSP!HppCpp
    BY DEF PSP!HppCpp
  <2> QED BY <1>a, <1>s, <2>2, <2>3 DEF PSP!UpToDate
<1>4. p \in crossed' \/ ~PSP!UpToDate(p)'
  <2>1. /\ clock \in Nat /\ summaries[p].at \in Nat /\ summaries' = summaries
        /\ summaries[p].at <= clock /\ crossed \subseteq PSP!Passes
    BY <1>s DEF DiskInv, DiskTypeOK, TimesPassed
  <2>2. files'[p][f].at = t
    BY <1>a
  <2>3. f = "hpp" \/ f = "cpp"
    BY DEF PSP!HppCpp
  <2>4. PSP!UpToDate(p)' => summaries[p].at >= t
    BY <2>1, <2>2, <2>3 DEF PSP!UpToDate
  <2>5. t = summaries[p].at => p \in crossed'
    BY <1>0
  <2> QED
    BY <1>t, <2>1, <2>4, <2>5
<1>5. PSP!Pass' = PSP!Pass /\ crossed \subseteq crossed'
  BY <1>0 DEF PSP!Edit, PSP!Pass
<1>6. PromptInv'
  <2> SUFFICES ASSUME request # "none"
               PROVE  \/ PSP!Pass \in crossed'
                      \/ \A g \in DOMAIN sent : sent[g] = files'[PSP!Pass][g].v
    BY <1>3, <1>5, PassIsOne DEF DiskInv, DiskTypeOK, PromptInv, PSP!Edit
  <2>1. PSP!Pass \in PSP!Passes
    BY PassIsOne DEF DiskInv, DiskTypeOK, PromptInv
  <2>2. PICK S \in SUBSET PSP!HppCpp : sent \in [S -> Nat]
    BY DEF DiskInv, DiskTypeOK, Descriptions
  <2>3. CASE PSP!Sent(p, f)
    BY <2>3, <1>0 DEF PSP!Sent
  <2>4. CASE ~PSP!Sent(p, f)
    <3>1. ASSUME NEW g \in DOMAIN sent PROVE files'[PSP!Pass][g] = files[PSP!Pass][g]
      BY <2>1, <2>2, <2>4, <3>1, <1>0 DEF DiskInv, DiskTypeOK, PSP!Sent
    <3> QED BY <3>1, <1>5 DEF DiskInv, PromptInv
  <2> QED BY <2>3, <2>4
<1>7. PSP!SummariesDescribeSources'
  <2> SUFFICES ASSUME NEW q \in PSP!Passes, PSP!UpToDate(q)'
               PROVE  \/ summaries'[q].of = PSP!Versions(q)'
                      \/ q \in crossed'
                      \/ request' = "write" /\ q = PSP!Pass'
    BY DEF PSP!SummariesDescribeSources
  <2>1. CASE q = p
    BY <2>1, <1>4
  <2>2. CASE q # p
    <3>1. files'[q] = files[q] /\ PSP!Versions(q)' = PSP!Versions(q)
      BY <2>2, <1>0 DEF DiskInv, DiskTypeOK, PSP!Versions
    <3> QED BY <3>1, <1>3, <1>5 DEF DiskInv, PSP!SummariesDescribeSources, PSP!Edit
  <2> QED BY <2>1, <2>2
<1> QED BY <1>1, <1>2, <1>6, <1>7 DEF DiskInv

(* Nothing else touches the disk.                                          *)
LEMMA DiskUntouched == DiskInv /\ UNCHANGED psp => DiskInv'
BY DEF psp, DiskInv, DiskTypeOK, TimesPassed, PromptInv, PSP!SummariesDescribeSources,
       PSP!UpToDate, PSP!Versions, PSP!Pass

LEMMA DiskInvStep == DiskInv /\ [Next]_vars => DiskInv'
<1> SUFFICES ASSUME DiskInv, [Next]_vars PROVE DiskInv'
  OBVIOUS
<1>1. CASE PassSequencePredict
  BY <1>1, UseCachedKeeps, StartPromptKeeps, ReadSourceKeeps, OpenSummaryKeeps,
     WriteSummaryKeeps, AddPassesKeeps DEF PassSequencePredict, PSP!Next
<1>2. CASE Edit \/ Die
  BY <1>2, EditKeeps, DieKeeps DEF Edit, Die
<1>3. CASE Again \/ StartPass \/ EndPass \/ Exit
  BY <1>3, DiskUntouched DEF Again, StartPass, EndPass, Exit
<1>4. CASE Mem2Reg \/ ConstantFolding \/ IfCombine \/ ExtractLoopVariable \/ FunctionInlining
  BY <1>4, DiskUntouched
     DEF Mem2Reg, ConstantFolding, IfCombine, ExtractLoopVariable, FunctionInlining
<1>5. CASE UNCHANGED vars
  BY <1>5, DiskUntouched DEF vars
<1> QED BY <1>1, <1>2, <1>3, <1>4, <1>5 DEF Next, Optimiser, World

(* Whatever is edited, fails or is run again, a summary that the optimiser *)
(* takes from its file describes the sources, but for an edit that crossed *)
(* its making or a write that was cut (PassSequencePredict.cpp, 53-90).    *)
THEOREM SummariesAreCurrent == Spec => []SummariesDescribeSources
<1>1. Spec => []DiskInv
  <2>1. Init => DiskInv
    BY DiskInvInit
  <2>2. DiskInv /\ [Next]_vars => DiskInv'
    BY DiskInvStep
  <2> QED BY <2>1, <2>2, PTL DEF Spec
<1>2. DiskInv => SummariesDescribeSources
  BY DEF DiskInv, SummariesDescribeSources
<1> QED BY <1>1, <1>2, PTL
================================================================================
