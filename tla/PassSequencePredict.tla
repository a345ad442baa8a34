--------------------------- MODULE PassSequencePredict ---------------------------
(***************************************************************************)
(* 4/llm/PassSequencePredict.cpp: a summary of every pass, from a file if  *)
(* that is newer than the pass's sources and from the service otherwise,   *)
(* then the service's choice of passes.                                    *)
(*                                                                         *)
(* Summaries stay on disk from one run of the optimiser to the next.       *)
(* Meanwhile sources are edited, the service fails, the program is killed. *)
(* A file is [v, at]: the number of times it was edited and when last.  A  *)
(* summary is [of, at]: the versions of the files that it describes, none  *)
(* if it is empty.  Time goes forward in steps that a run may fit into.    *)
(***************************************************************************)
EXTENDS Naturals, Sequences, SequencesExt

CONSTANTS PassNames, \* mPassesInfo
          Strangers, \* other names that the service may answer
          MaxNames,  \* length of its answer
          MaxEdits

VARIABLES stage, pipeline,
          passNo,       \* position of the pass at work in mPassesInfo
          files, summaries, clock,
          request,    \* "none", "read" before and "write" after the answer
          sent,       \* what of the sources the prompt contains
          crossed     \* passes with an edit between a prompt and the time of
                      \* its summary, or whose summary was cut

HppCpp == {"hpp", "cpp"}
Never  == 0
Nothing == [f \in {} |-> 0]
Passes == ToSet(PassNames)
Pass   == PassNames[passNo]

Idle ==
  /\ passNo = 1 /\ clock = 1 /\ request = "none" /\ sent = Nothing /\ crossed = {}
  /\ files = [p \in Passes |-> [f \in HppCpp |-> [v |-> 0, at |-> 1]]]
  /\ summaries = [p \in Passes |-> [of |-> Nothing, at |-> Never]]

Working     == stage = "summaries" /\ passNo <= Len(PassNames)
Versions(p) == [f \in HppCpp |-> files[p][f].v]

(* Newer than both files.  (HeaderUpToDate does not ask about the second.) *)
HeaderUpToDate(p) ==
  summaries[p].at # Never /\ summaries[p].at >= files[p]["hpp"].at
UpToDate(p) ==
  /\ summaries[p].at # Never
  /\ summaries[p].at >= files[p]["hpp"].at
  /\ summaries[p].at >= files[p]["cpp"].at

NextPass == passNo' = passNo + 1 /\ UNCHANGED <<stage, pipeline, files, clock>>

UseCached ==
  /\ Working /\ request = "none" /\ UpToDate(Pass)
  /\ NextPass
  /\ UNCHANGED <<summaries, request, sent, crossed>>

StartPrompt ==
  /\ Working /\ request = "none" /\ ~UpToDate(Pass)
  /\ request' = "read" /\ sent' = Nothing
  /\ crossed' = crossed \ {Pass}
  /\ UNCHANGED <<stage, pipeline, passNo, files, summaries, clock>>

(* The order of the arguments of format is the compiler's.                 *)
ReadSource ==
  /\ Working /\ request = "read"
  /\ \E f \in HppCpp \ DOMAIN sent :
       sent' = [g \in DOMAIN sent \cup {f} |-> IF g = f THEN files[Pass][f].v ELSE sent[g]]
  /\ UNCHANGED <<stage, pipeline, passNo, files, summaries, clock, request, crossed>>

(* The service has answered: write_file empties the file,                  *)
OpenSummary ==
  /\ Working /\ request = "read" /\ DOMAIN sent = HppCpp
  /\ request' = "write"
  /\ summaries' = [summaries EXCEPT ![Pass] = [of |-> Nothing, at |-> clock]]
  /\ UNCHANGED <<stage, pipeline, passNo, files, clock, sent, crossed>>

(* and writes the answer when it closes it.                                *)
WriteSummary ==
  /\ Working /\ request = "write"
  /\ summaries' = [summaries EXCEPT ![Pass] = [of |-> sent, at |-> clock]]
  /\ request' = "none" /\ sent' = Nothing
  /\ NextPass
  /\ UNCHANGED crossed

(* A name that is not in map gets an empty function, which throws; nothing *)
(* has been run then.                                                      *)
AddPasses ==
  /\ stage = "summaries" /\ passNo > Len(PassNames)
  /\ \E n \in 1 .. MaxNames : \E names \in [1 .. n -> Passes \cup Strangers] :
       IF \A k \in 1 .. n : names[k] \in Passes
         THEN pipeline' = pipeline \o names /\ stage' = "done"
         ELSE stage' = "dead" /\ UNCHANGED pipeline
  /\ passNo' = 1
  /\ UNCHANGED <<files, summaries, clock, request, sent, crossed>>

(* The service throws, or the program is killed.                           *)
Die ==
  /\ stage = "summaries"
  /\ stage' = "dead"
  /\ passNo' = 1 /\ request' = "none" /\ sent' = Nothing
  /\ crossed' = crossed \cup (IF request = "write" THEN {Pass} ELSE {})
  /\ UNCHANGED <<pipeline, files, summaries, clock>>

(* A source is edited.  At any other time that is the same as before the   *)
(* first pass of the next run.                                             *)
Sent(p, f) == request # "none" /\ p = Pass /\ f \in DOMAIN sent
Edits      == FoldSet(LAMBDA p, n : n + files[p]["hpp"].v + files[p]["cpp"].v, 0, Passes)

Edit ==
  /\ stage = "summaries" /\ Edits < MaxEdits
  /\ \E p \in Passes, f \in HppCpp, t \in {clock, clock + 1} :
       /\ files' = [files EXCEPT ![p][f] = [v |-> @.v + 1, at |-> t]]
       /\ clock' = t
       /\ crossed' = IF Sent(p, f) \/ t = summaries[p].at THEN crossed \cup {p} ELSE crossed
  /\ UNCHANGED <<stage, pipeline, passNo, summaries, request, sent>>

Next == UseCached \/ StartPrompt \/ ReadSource \/ OpenSummary \/ WriteSummary \/ AddPasses

--------------------------------------------------------------------------------
(* A summary that would be taken from its file describes the sources as    *)
(* they are, unless one of them was edited after it had been sent to the   *)
(* service and no later than the summary's own time, or the program died   *)
(* while it wrote the summary.                                             *)
SummariesDescribeSources ==
  \A p \in Passes :
    UpToDate(p) =>
      \/ summaries[p].of = Versions(p)
      \/ p \in crossed
      \/ request = "write" /\ p = Pass
================================================================================
