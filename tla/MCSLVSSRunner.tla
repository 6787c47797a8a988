---------------------------- MODULE MCSLVSSRunner ----------------------------
(***************************************************************************)
(* Model-checking instance of SLVSSRunner.  The loop configuration is the *)
(* one the code's singleton uses (threshold 0.85, three stages, every      *)
(* feature on) except for the bounds below.  The checks of the engines'    *)
(* pure operators against their reference definitions are constant-level  *)
(* formulas over bounded inputs; TLC evaluates them once per run.         *)
(***************************************************************************)
EXTENDS SLVSSRunner, SequencesExt

\* 12 iterations pass the warm-up (5), the stage 3 scale rule (10) and the
\* first periodic boost (10); a window of 10 entries is evicted from at 11.
MCMaxIterations == 12
MCHistoryCap    == 10
\* maxScale 2.0 is reached after four scale-ups, so the cap is exercised;
\* the scale-event log and the artifact log are capped at 3 and 2 so that
\* their eviction is exercised.
MCMaxScale      == 2
MCScaleLogCap   == 3
MCArtifactLogCap == 2

-----------------------------------------------------------------------------
(* Inputs of the reference checks. *)

\* Histories long enough to cross the 10-entry window, and shorter ones that
\* also contain the "running" status, which ends the scan.
Histories == BoundedSeq({"passed", "failed"}, 12)
             \cup BoundedSeq({"passed", "scaled", "failed", "running"}, 7)

\* Generator inputs on and just under every template's gates (1/10000),
\* at iterations on and off the every-5th summary.
GenInputs ==
    [iteration : {0, 4, 5, 10},
     scale : {10000, 12499, 12500, 15000, 20000, 40000},
     confidence : {8499, 8500, 8700, 8800, 9000, 9200, 9500}]

\* Payloads on both sides of every stage rule: a negative iteration, the
\* warm-up and scale-rule iterations, a scale below 1, success rates and
\* confidence sums in and out of range, exactly 0.70 among them.
GatePayloads ==
    [iteration : {-1, 0, 6, 11}, scale : {0, 10000}, passed : {0, 7},
     confSum : {0, 420, 1200}, stale : BOOLEAN, roiNegative : BOOLEAN,
     node : [hasMarker : BOOLEAN, allowListed : BOOLEAN]]

\* The engines as pure operators: constant-level instances, so that TLC
\* evaluates the reference checks once.
SEref == INSTANCE ScalingEngine WITH currentScale <- 0, passStreak <- 0,
                                     failStreak <- 0, scaleLogLen <- 0
AGref == INSTANCE AutoGenerator WITH LogCap <- ArtifactLogCap,
                                     generationCount <- 0, artifactLog <- <<>>
Vref  == INSTANCE Veri3fy WITH Stages <- Veri3fyStages, StrictMode <- TRUE,
                               Threshold <- ConfidenceThreshold,
                               verifyCount <- 0, passCount <- 0

LastTen(s) ==
    LET n == IF Len(s) < 10 THEN Len(s) ELSE 10
    IN  [i \in 1..n |-> s[Len(s) - n + i]]

RunLength(w, S) ==
    CHOOSE k \in 0..Len(w) :
        /\ \A i \in Len(w) - k + 1 .. Len(w) : w[i] \in S
        /\ k < Len(w) => w[Len(w) - k] \notin S

-----------------------------------------------------------------------------
(* Reference checks.  Each property joins a constant-level check over the  *)
(* bounded inputs above, which TLC evaluates once, with the same reference *)
(* applied to what the runner holds in the current state.                 *)

\* updateStreaks over a non-empty history h agrees with the runs of
\* passed/scaled and of failed statuses ending at the newest of its last 10
\* entries (spec 4.2, rule 1).
StreaksAgree(h) ==
    LET w == SEref!StreakWindow(h)    \* SEref!Streaks(h), h non-empty
    IN  SEref!StreakScan(w, Len(w), 0, 0)
            = <<RunLength(LastTen(h), SEref!PassLike),
                RunLength(LastTen(h), {"failed"})>>

StreaksReference == \A h \in Histories \ {<<>>} : StreaksAgree(h)

GenerationReference ==
    \A in \in GenInputs : AGref!Generation(in) = AGref!SpecGeneration(in)

GateReference ==
    \A p \in GatePayloads : \A r \in Vref!Outcomes(p) : Vref!SpecVerdict(r)

\* The pass and fail streaks the scaling engine derives from a history are
\* the runs that end its last 10 entries (spec 4.2), for every bounded
\* history and for the runner's history as it stands.
StreaksMatchReference ==
    /\ StreaksReference
    /\ history # <<>> => StreaksAgree(Statuses(history))

\* generate() returns what spec section 4.4 describes for every input, and
\* every generation the runner logged records as its type the last template
\* fired, or the summary marker that closes its artifacts.
GenerationMatchesSpec ==
    /\ GenerationReference
    /\ \A i \in DOMAIN artifactLog :
          artifactLog[i].type = Last(artifactLog[i].artifacts)

\* verify() scores and judges every payload as spec section 4.1 does, at
\* the configured depth, threshold and strict mode, and so does every
\* verdict the runner's ticks in flight hold.
GateMatchesSpec ==
    /\ GateReference
    /\ \A k \in DOMAIN ticks : V!SpecVerdict(ticks[k].v)

=============================================================================
