---------------------------- MODULE AutoGenerator ----------------------------
(***************************************************************************)
(* The artifact generator of the SLVSS loop (the AutoGenerator.ts part of  *)
(* src/packages/nodes-base/nodes/SovereignExtraction/                      *)
(* SovereignExtraction.node.ts).  generate(input) runs every template      *)
(* whose confidence and scale gates the input meets, in list order, adds   *)
(* a summary every 5th iteration, and logs the non-empty results in a      *)
(* bounded artifact log.                                                   *)
(*                                                                         *)
(* Data abstraction.  An artifact is the type of the template that made    *)
(* it: the template bodies only format their input into text.             *)
(* Confidences and scales are fixed point with 4 decimals (1.0 = 10000).  *)
(* The runner (SLVSSRunner) instantiates this module and calls Generate   *)
(* where tick() calls generate().                                         *)
(***************************************************************************)
EXTENDS Integers, Sequences, SequencesExt

CONSTANT LogCap   \* bound of artifactLog (100)

ASSUME LogCap \in Nat \ {0}

VARIABLES
    generationCount,
    artifactLog    \* this.artifactLog as [iteration, artifacts, type] records

\* this.templates, in their declared order.
Templates ==
    << [type |-> "workflow",          minConfidence |-> 8500, minScale |-> 10000],
       [type |-> "api_route",         minConfidence |-> 8700, minScale |-> 12500],
       [type |-> "value_scan",        minConfidence |-> 8800, minScale |-> 10000],
       [type |-> "agent_task",        minConfidence |-> 9000, minScale |-> 15000],
       [type |-> "typescript_module", minConfidence |-> 9200, minScale |-> 20000],
       [type |-> "quantum_workflow",  minConfidence |-> 9500, minScale |-> 40000] >>

Gate(t, in) == in.confidence >= t.minConfidence /\ in.scale >= t.minScale

\* Fault-injection variant: the type recorded is the first template fired.
RECURSIVE TemplateLoopFirst(_, _, _, _)
TemplateLoopFirst(in, i, arts, highest) ==
    IF i > Len(Templates) THEN <<arts, highest>>
    ELSE LET t == Templates[i] IN
         IF Gate(t, in)
         THEN TemplateLoopFirst(in, i + 1, Append(arts, t.type),
                                IF highest = "none" THEN t.type ELSE highest)
         ELSE TemplateLoopFirst(in, i + 1, arts, highest)

\* The for-loop over the templates from index i, with the artifacts made and
\* the highestType so far.
RECURSIVE TemplateLoop(_, _, _, _)
TemplateLoop(in, i, arts, highest) ==
    IF i > Len(Templates) THEN <<arts, highest>>
    ELSE LET t == Templates[i] IN
         IF Gate(t, in) THEN TemplateLoop(in, i + 1, Append(arts, t.type), t.type)
                        ELSE TemplateLoop(in, i + 1, arts, highest)

\* The GenerationResult generate(in) returns.
Generation(in) ==
    LET loop    == TemplateLoop(in, 1, <<>>, "none")
        summary == in.iteration > 0 /\ in.iteration % 5 = 0
        arts    == IF summary THEN Append(loop[1], "sovereignty_summary") ELSE loop[1]
    IN  [generated |-> arts # <<>>, artifacts |-> arts,
         type |-> IF summary THEN "sovereignty_summary" ELSE loop[2]]

\* artifactLog.push(e), then shift() once past the cap.
LogAppend(l, e) == IF Len(Append(l, e)) > LogCap THEN Tail(Append(l, e))
                                                ELSE Append(l, e)

Generate(in) ==
    LET r == Generation(in) IN
    /\ generationCount' = generationCount + 1
    /\ artifactLog' =
          IF r.generated
          THEN LogAppend(artifactLog, [iteration |-> in.iteration,
                                       artifacts |-> r.artifacts, type |-> r.type])
          ELSE artifactLog

Init ==
    /\ generationCount = 0
    /\ artifactLog = <<>>

-----------------------------------------------------------------------------
\* Spec section 4.4, as a reference: every template whose gates the input
\* meets fires once, in list order; the recorded type is the last one
\* fired, overridden by the summary marker every 5th iteration.
SpecGeneration(in) ==
    LET fired   == SelectSeq(Templates, LAMBDA t : Gate(t, in))
        types   == [i \in DOMAIN fired |-> fired[i].type]
        summary == in.iteration > 0 /\ in.iteration % 5 = 0
        arts    == types \o (IF summary THEN <<"sovereignty_summary">> ELSE <<>>)
    IN  [generated |-> Len(arts) > 0, artifacts |-> arts,
         type |-> IF summary THEN "sovereignty_summary"
                  ELSE IF fired = <<>> THEN "none" ELSE Last(types)]

=============================================================================
