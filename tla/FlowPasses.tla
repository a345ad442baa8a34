------------------------------- MODULE FlowPasses -------------------------------
(***************************************************************************)
(* The pipeline of 4/main.cpp over whole functions: one pass after the     *)
(* other, those that main.cpp lists or those that PassSequencePredict asks *)
(* for, and the verifier at the end.  Passes within blocks that main.cpp   *)
(* lists too are BlockPasses'.                                             *)
(***************************************************************************)
EXTENDS FlowIr

CONSTANTS Jobs,       \* modules before optimisation, each with its passes
          Inputs,     \* main's arguments
          MaxRuns,    \* of the optimiser on one module
          PassNames, Strangers, MaxNames, MaxEdits  \* PassSequencePredict's


VARIABLES runs, source,  \* the module as it was read
          mod,        \* the module now
          pipeline, pass,
          stage,      \* a stage of the pass at work, "between" two, "done"
          fi, fresh, worklist,                              \* the passes'
          allocas, num, info, newPhis, visited, round, \* Mem2Reg
          bi, pos, instToErase,             \* ConstantFolding and IfCombine
          blockToMerge, merging,                            \* IfCombine
          loopsDone, loop, preheader, nextWorklist, moved, changed,
                                                            \* ExtractLoopVariable
          recursiveFuncs, callsToInline,                    \* FunctionInlining
          passNo, files, summaries, clock, request, sent, crossed,
                                                            \* PassSequencePredict
          exitCode    \* main's

M2R  == INSTANCE Mem2Reg
FOLD == INSTANCE ConstantFolding
IFC  == INSTANCE IfCombine
LICM == INSTANCE ExtractLoopVariable
INL  == INSTANCE FunctionInlining
PSP  == INSTANCE PassSequencePredict

shared == <<mod, stage, fi, fresh, worklist>>
frame  == <<runs, source, pass, exitCode>>
m2r    == <<allocas, num, info, newPhis, visited, round>>
walk   == <<bi, instToErase>>
ifc    == <<blockToMerge, merging>>
licm   == <<loopsDone, loop, preheader, nextWorklist, moved, changed>>
inl    == <<recursiveFuncs, callsToInline>>
psp    == <<passNo, files, summaries, clock, request, sent, crossed>>
passes == <<m2r, walk, pos, ifc, licm, inl>>
vars   == <<frame, pipeline, shared, passes, psp>>

Running == -1

FirstName(m) == 1 + Max(UNION {Ids(m[k]) : k \in DOMAIN m})

Init ==
  /\ \E job \in Jobs : source = job[1] /\ pipeline = job[2]
  /\ mod = source
  /\ runs = 1 /\ pass = 1
  /\ stage = "between" /\ exitCode = Running
  /\ fi = 1 /\ worklist = <<>>
  /\ fresh = FirstName(source)
  /\ M2R!Idle /\ FOLD!Idle /\ IFC!Idle /\ LICM!Idle /\ INL!Idle /\ PSP!Idle

(* StaticCallCounterPrinter counts and prints.                             *)
FirstStage ==
  [StaticCallCounterPrinter |-> "done",
   PassSequencePredict      |-> "summaries",
   Mem2Reg                  |-> "find",
   ConstantFolding          |-> "constants",
   IfCombine                |-> "fold",
   ExtractLoopVariable      |-> "loops",
   FunctionInlining         |-> "graph"]
Known == DOMAIN FirstStage

(* The passes are among these, and so are those the service asks for; the  *)
(* optimiser reads a module that LLVM accepts.                             *)
ASSUME PassNamesAssumption == PassNames \in Seq(Known) /\ MaxNames \in Nat
ASSUME JobsAssumption ==
  \A job \in Jobs : WellFormed(job[1], FirstName(job[1])) /\ job[2] \in Seq(Known)

StartPass ==
  /\ stage = "between" /\ pass <= Len(pipeline)
  /\ stage' = FirstStage[pipeline[pass]]
  /\ UNCHANGED <<frame, pipeline, mod, fi, fresh, worklist, passes, psp>>

EndPass ==
  /\ stage = "done"
  /\ stage' = "between" /\ pass' = pass + 1
  /\ UNCHANGED <<runs, source, pipeline, exitCode, mod, fi, fresh, worklist, passes, psp>>

(* The module is printed and verified.                                     *)
Exit ==
  /\ stage = "between" /\ pass > Len(pipeline)
  /\ stage' = "exited"
  /\ exitCode' = IF Verifies(mod) THEN 0 ELSE 3
  /\ UNCHANGED <<runs, source, pipeline, pass, mod, fi, fresh, worklist, passes, psp>>

Mem2Reg ==
  M2R!Next /\ UNCHANGED <<frame, pipeline, walk, pos, ifc, licm, inl, psp>>
ConstantFolding ==
  FOLD!Next /\ UNCHANGED <<frame, pipeline, fresh, worklist, m2r, ifc, licm, inl, psp>>
IfCombine ==
  IFC!Next /\ UNCHANGED <<frame, pipeline, worklist, pos, m2r, licm, inl, psp>>
ExtractLoopVariable ==
  LICM!Next /\ UNCHANGED <<frame, pipeline, fresh, walk, pos, m2r, ifc, inl, psp>>
FunctionInlining ==
  INL!Next /\ UNCHANGED <<frame, pipeline, fi, worklist, walk, pos, m2r, ifc, licm, psp>>
PassSequencePredict ==
  PSP!Next /\ UNCHANGED <<frame, mod, fi, fresh, worklist, passes>>

Optimiser ==
  \/ StartPass \/ EndPass \/ Exit
  \/ Mem2Reg \/ ConstantFolding \/ IfCombine \/ ExtractLoopVariable \/ FunctionInlining
  \/ PassSequencePredict

(* Only what PassSequencePredict leaves on disk makes another run differ.  *)
Again ==
  /\ stage \in {"exited", "dead"} /\ runs < MaxRuns
  /\ Head(pipeline) = "PassSequencePredict"
  /\ runs' = runs + 1
  /\ mod' = source /\ fresh' = FirstName(source)
  /\ pipeline' = <<Head(pipeline)>> /\ pass' = 1
  /\ stage' = "between" /\ exitCode' = Running
  /\ UNCHANGED <<source, fi, worklist, passes, psp>>

Edit == PSP!Edit /\ UNCHANGED <<frame, mod, fi, fresh, worklist, passes>>
Die == PSP!Die /\ UNCHANGED <<frame, mod, fi, fresh, worklist, passes>>
World == Edit \/ Die \/ Again

Next == Optimiser \/ World

(* The optimiser is one sequential program.                                *)
Spec == Init /\ [][Next]_vars /\ WF_vars(Optimiser)

--------------------------------------------------------------------------------
(* Between two steps that belong together (PHI nodes placed and filled, a  *)
(* branch added and the old one erased) a module means nothing.            *)
Settled ==
  newPhis = {} /\ stage \notin {"rename", "simplify", "fill", "fold"}

(* Whenever the module is settled LLVM's verifier accepts it, and for every *)
(* argument it makes the calls, returns the value and leaves the globals   *)
(* that the source does, wherever the source's are defined.                *)
FlowMeaningKept ==
  Settled =>
    /\ Verifies(mod)
    /\ \A arg \in Inputs : Refines(Outcome(mod, arg), Outcome(source, arg))

(* Whatever pass is at work, between any two of its steps, blocks end in   *)
(* branches to blocks of their function and no two instructions share a    *)
(* name: what is erased, moved, merged, copied or removed is put back      *)
(* whole.                                                                  *)
ModuleWellFormed == WellFormed(mod, fresh)

(* doLICM and FunctionInlining collect instructions first and take them up *)
(* one by one, while the module changes under their lists: an instruction  *)
(* that waits to be moved is still there, and none that ends its block; a  *)
(* call that waits to be inlined waits once, is still there and calls a    *)
(* function that has not been removed.                                     *)
WorkIsThere ==
  /\ stage = "hoist" =>
       /\ preheader \in Blocks(mod[fi])
       /\ \A id \in ToSet(worklist) \cup ToSet(nextWorklist) :
            \E i \in Instructions(mod[fi]) : i.id = id /\ ~Terminator(i)
  /\ stage = "inline" =>
       /\ \A j, k \in DOMAIN callsToInline : callsToInline[j] = callsToInline[k] => j = k
       /\ \A id \in ToSet(callsToInline) : \E k \in DOMAIN mod :
            \E i \in Instructions(mod[k]) :
              i.id = id /\ i.op = "call" /\ IsDefined(mod, i.callee)

(* See Mem2Reg and PassSequencePredict.                                    *)
EdgesRecordedOnce == M2R!EdgesRecordedOnce
SummariesDescribeSources == PSP!SummariesDescribeSources

(* Every pass comes to its end (work lists empty, rounds without a change, *)
(* promotion until nothing is left to promote), and the optimiser exits    *)
(* with a module that it has verified, unless it has been stopped: by the  *)
(* world, by a name PassSequencePredict does not know ("dead"), or by what *)
(* IfCombine finds in freed memory ("crash").  A division by a constant    *)
(* zero ("trapped") excuses nothing: the source need not run it.           *)
Optimised ==
  stage = "between" ~> (stage \in {"crash", "dead"} \/ (stage = "exited" /\ exitCode = 0))
================================================================================
