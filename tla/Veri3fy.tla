------------------------------- MODULE Veri3fy -------------------------------
(***************************************************************************)
(* The 3-stage verification gate of the SLVSS loop                         *)
(* (src/sovereignty/loop/VERI3FY.ts).  verify(payload) scores a payload    *)
(* through up to `stages` stages and counts attempts and passes.           *)
(*                                                                         *)
(* Data abstraction.  Scores are kept in hundredths (the stage weights     *)
(* 0.35, 0.30 and 0.35 are all whole hundredths).  Scales are fixed point  *)
(* with Unit = 1.0 (4 decimals, the precision the scaling engine rounds    *)
(* to).  The node identifier string is abstracted to the two facts the     *)
(* gate tests about it; error strings are abstracted to an error kind.     *)
(***************************************************************************)
EXTENDS Integers
LOCAL INSTANCE Functions

CONSTANTS
    Stages,      \* config.stages: 1, 2 or 3
    Threshold,   \* config.threshold, in hundredths (0.85 -> 85)
    StrictMode   \* config.strictMode

ASSUME Stages \in 1..3 /\ Threshold \in 0..100 /\ StrictMode \in BOOLEAN

VARIABLES verifyCount, passCount

Unit == 10000

(***************************************************************************)
(* A payload as buildPayload assembles it.  successRate and avgConfidence  *)
(* are kept as the numerator and denominator the code divides.            *)
(***************************************************************************)
Payload == [iteration : Int, scale : Int, passed : Int, confSum : Int,
            stale : BOOLEAN, roiNegative : BOOLEAN,
            node : [hasMarker : BOOLEAN, allowListed : BOOLEAN]]

ErrorKinds == {"iteration", "scale", "node", "successRate", "avgConfidence",
               "roiNegative", "stale", "nonSovereignNode", "lowConfidence",
               "scaleRegression"}

VResult == [s1 : BOOLEAN, s2 : BOOLEAN, s3 : BOOLEAN, passed : BOOLEAN,
            score : 0..100, errors : SUBSET ErrorKinds]

\* Stage 1: required fields and their types.  The payload always carries
\* every required field and a positive epoch timestamp, so the checks that
\* remain are the ones on values.
Stage1Errors(p) ==
    {e \in {"iteration", "scale", "node"} :
        \/ e = "iteration" /\ p.iteration < 0
        \/ e = "scale" /\ p.scale < Unit
        \/ e = "node" /\ ~p.node.hasMarker}

\* Stage 2: ranges.  A negative avgROI is reported but does not fail it.
Stage2Errors(p) ==
    {e \in {"successRate", "avgConfidence", "roiNegative", "stale", "iteration"} :
        \/ e = "successRate" /\ p.iteration > 0
              /\ (p.passed < 0 \/ p.passed > p.iteration)
        \/ e = "avgConfidence" /\ p.iteration > 0
              /\ (p.confSum < 0 \/ p.confSum > 100 * p.iteration)
        \/ e = "roiNegative" /\ p.roiNegative
        \/ e = "stale" /\ p.stale
        \/ e = "iteration" /\ p.iteration < 0}

Stage2Ok(p) == Stage2Errors(p) \subseteq {"roiNegative"}

(***************************************************************************)
(* avgConfidence < 0.70 on the double confidenceSum / iteration.  When the *)
(* exact quotient is exactly 0.70 the double division and the accumulated  *)
(* sum may fall on either side, so both outcomes are possible.            *)
(***************************************************************************)
LowConfidenceChoices(p) ==
    IF p.iteration = 0 THEN {TRUE}
    ELSE IF p.confSum < 70 * p.iteration THEN {TRUE}
    ELSE IF p.confSum = 70 * p.iteration THEN {TRUE, FALSE}
    ELSE {FALSE}

\* Stage 3: sovereignty rules, given the outcome of the confidence test.
Stage3Errors(p, low) ==
    {e \in {"nonSovereignNode", "lowConfidence", "scaleRegression"} :
        \/ e = "nonSovereignNode" /\ ~p.node.allowListed
        \/ e = "lowConfidence" /\ p.iteration > 5 /\ low
        \/ e = "scaleRegression" /\ p.iteration > 10 /\ p.scale < Unit}

\* Fault-injection variant: stage 3 awarded the weight of stage 2.
Stage3WeightAsStage2 == 30

\* stage3Score: the weight a passing stage 3 adds.
Stage3Weight == 35

(***************************************************************************)
(* verify(payload): the results it can return.  At depth 2 the score is    *)
(* the double 0.35 + 0.30 = 0.6499999999999999, which meets threshold *    *)
(* 0.65 exactly when the threshold is below 1.0.                          *)
(***************************************************************************)
Outcomes(p) ==
    LET e1 == Stage1Errors(p)
        e2 == Stage2Errors(p)
        s1 == e1 = {}
        s2 == Stage2Ok(p)
        w1 == IF s1 THEN 35 ELSE 0
        w2 == IF s2 THEN 30 ELSE 0
    IN  IF Stages < 2 THEN
            {[s1 |-> s1, s2 |-> FALSE, s3 |-> FALSE, score |-> w1, errors |-> e1,
              passed |-> s1 /\ 100 * w1 >= 35 * Threshold]}
        ELSE IF Stages < 3 THEN
            {[s1 |-> s1, s2 |-> s2, s3 |-> FALSE, score |-> w1 + w2,
              errors |-> e1 \cup e2, passed |-> s1 /\ s2 /\ Threshold < 100]}
        ELSE
            {LET e3 == Stage3Errors(p, low)
                 s3 == e3 = {}
                 sc == w1 + w2 + (IF s3 THEN Stage3Weight ELSE 0)
             IN  [s1 |-> s1, s2 |-> s2, s3 |-> s3, score |-> sc,
                  errors |-> e1 \cup e2 \cup e3,
                  passed |-> IF StrictMode THEN s1 /\ s2 /\ s3 /\ sc >= Threshold
                                           ELSE sc >= Threshold]
              : low \in LowConfidenceChoices(p)}

(***************************************************************************)
(* Spec section 4.1, as a reference for a result's score and verdict given *)
(* its stage results: the stages past the depth are skipped and award      *)
(* nothing; the score is the sum of the weights of the stages that        *)
(* passed; a result passes when its score reaches the threshold scaled to *)
(* the weight available at the depth, and, below full depth or in strict  *)
(* mode, every executed stage passed.  Exact arithmetic, in hundredths.   *)
(***************************************************************************)
SpecWeight == <<35, 30, 35>>
SpecVerdict(r) ==
    LET ran   == 1..Stages
        ok    == <<r.s1, r.s2, r.s3>>
        score == SumFunctionOnSet(SpecWeight, {i \in ran : ok[i]})
        avail == SumFunctionOnSet(SpecWeight, ran)
    IN  /\ \A i \in 1..3 \ ran : ~ok[i]
        /\ r.score = score
        /\ r.passed = /\ (Stages < 3 \/ StrictMode) => \A i \in ran : ok[i]
                      /\ 100 * score >= avail * Threshold

\* The counters verify() updates before it returns result r.
Verify(r) ==
    /\ verifyCount' = verifyCount + 1
    /\ passCount' = IF r.passed THEN passCount + 1 ELSE passCount

=============================================================================
