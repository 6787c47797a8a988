---------------------------- MODULE ScalingEngine ----------------------------
(***************************************************************************)
(* The auto-scaling engine of the SLVSS loop                               *)
(* (src/sovereignty/AutomationAPI.ts, the ScalingEngine.ts part).  It      *)
(* keeps one scale and two streak counters; scale(input) recomputes the    *)
(* streaks from the loop history and applies the first rule that matches:  *)
(* scale up, decay, periodic ("quantum") boost, or nothing.                *)
(*                                                                         *)
(* The scale is fixed point: Unit = 1.0 and the code rounds every new      *)
(* scale to 4 decimals with toFixed(4).  Scores are in hundredths.  The    *)
(* growth (1.25), decay (0.9) and boost (1.5) factors are the defaults the *)
(* runner uses (it constructs the engine with no policy).                 *)
(***************************************************************************)
EXTENDS Integers, Sequences

CONSTANTS
    MaxScale,        \* policy.maxScale, a whole number (1024 in the code)
    MinPassStreak,   \* policy.minPassStreak (3)
    DecayOnFailure,  \* policy.decayOnFailure (true)
    ScaleLogCap      \* bound of scaleHistory (50)

ASSUME MaxScale \in Nat \ {0} /\ MinPassStreak \in Nat
       /\ DecayOnFailure \in BOOLEAN /\ ScaleLogCap \in Nat \ {0}

VARIABLES currentScale, passStreak, failStreak, scaleLogLen

scalingVars == <<currentScale, passStreak, failStreak, scaleLogLen>>

Unit == 10000
MaxU == MaxScale * Unit

Statuses == {"running", "passed", "failed", "scaled"}
PassLike == {"passed", "scaled"}

(***************************************************************************)
(* parseFloat(x.toFixed(4)) of the value num/den (in Unit).  toFixed picks *)
(* the nearest 4-decimal value; on an exact decimal tie the double that is *)
(* rounded lies on either side of it, so both neighbours are possible.    *)
(***************************************************************************)
Rounded4(num, den) ==
    LET q == num \div den
        r == num % den
    IN  IF 2 * r > den THEN {q + 1}
        ELSE IF 2 * r < den THEN {q}
        ELSE {q, q + 1}

\* Fault-injection variant: growth without the min(.., maxScale) cap.
GrownUncapped(s) == Rounded4(s * 125, 100)

\* min(s * 1.25, maxScale), min(s * 1.5, maxScale), max(s * 0.9, 1), rounded.
Grown(s)   == IF s * 125 >= MaxU * 100 THEN {MaxU} ELSE Rounded4(s * 125, 100)
Boosted(s) == IF s * 150 >= MaxU * 100 THEN {MaxU} ELSE Rounded4(s * 150, 100)
Decayed(s) == IF s * 90 <= Unit * 100 THEN {Unit} ELSE Rounded4(s * 90, 100)

(***************************************************************************)
(* updateStreaks: history.slice(-10) scanned newest to oldest.  A pass     *)
(* extends the pass streak while no failure was counted, a failure the    *)
(* fail streak while no pass was counted; anything else ends the scan.    *)
(***************************************************************************)
\* Fault-injection variant: history.slice(-11) instead of slice(-10).
StreakWindowEleven(h) == SubSeq(h, IF Len(h) > 11 THEN Len(h) - 10 ELSE 1, Len(h))

StreakWindow(h) == SubSeq(h, IF Len(h) > 10 THEN Len(h) - 9 ELSE 1, Len(h))

RECURSIVE StreakScan(_, _, _, _)
StreakScan(w, i, p, f) ==
    IF i = 0 THEN <<p, f>>
    ELSE IF w[i] \in PassLike /\ f = 0 THEN StreakScan(w, i - 1, p + 1, f)
    ELSE IF w[i] = "failed" /\ p = 0 THEN StreakScan(w, i - 1, p, f + 1)
    ELSE <<p, f>>

\* <<passStreak, failStreak>> after updateStreaks(h); an empty history
\* returns early and keeps the previous counters.
Streaks(h) ==
    IF h = <<>> THEN <<passStreak, failStreak>>
    ELSE LET w == StreakWindow(h) IN StreakScan(w, Len(w), 0, 0)

(***************************************************************************)
(* scale({score, iteration, history}): the results it can produce, as      *)
(* records of the ScalingResult and the counters it leaves behind.        *)
(***************************************************************************)
Reasons == {"noop", "up", "decay", "boost"}

ScaleOutcomes(score, iteration, h) ==
    LET st == Streaks(h)
        s  == currentScale
        up    == st[1] >= MinPassStreak /\ score >= 85 /\ s < MaxU
        decay == ~up /\ DecayOnFailure /\ st[2] >= 3 /\ s > Unit
        boost == ~up /\ ~decay /\ iteration > 0 /\ iteration % 10 = 0
                 /\ score >= 95
        Out(why, n, p, f) == [scaled |-> why # "noop", reason |-> why,
                              prev |-> s, scale |-> n, pass |-> p, fail |-> f]
    IN  {Out("up", n, 0, st[2]) : n \in IF up THEN Grown(s) ELSE {}}
        \cup {Out("decay", n, st[1], 0) : n \in IF decay THEN Decayed(s) ELSE {}}
        \cup {Out("boost", n, st[1], st[2]) : n \in IF boost THEN Boosted(s) ELSE {}}
        \cup (IF up \/ decay \/ boost THEN {}
              ELSE {Out("noop", s, st[1], st[2])})

\* The state scale() leaves behind when it returns result o.
Scale(o) ==
    /\ currentScale' = o.scale
    /\ passStreak' = o.pass
    /\ failStreak' = o.fail
    /\ scaleLogLen' = IF o.scaled THEN IF scaleLogLen < ScaleLogCap
                                       THEN scaleLogLen + 1 ELSE ScaleLogCap
                      ELSE scaleLogLen

ScalingInit ==
    /\ currentScale = Unit
    /\ passStreak = 0
    /\ failStreak = 0
    /\ scaleLogLen = 0

=============================================================================
