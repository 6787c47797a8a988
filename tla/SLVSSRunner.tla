----------------------------- MODULE SLVSSRunner -----------------------------
(***************************************************************************)
(* The SLVSS loop orchestrator (src/unnamed/part_000, SLVSSRunner.ts)      *)
(* composed with the verification gate (Veri3fy), the scaling engine      *)
(* (ScalingEngine) and the artifact generator (AutoGenerator).            *)
(*                                                                         *)
(* tick() is an async function: it runs synchronously up to each `await`  *)
(* and resumes later from the microtask queue.  Each action below is one   *)
(* synchronous segment of it, so any interleaving of segments with the     *)
(* caller's start()/stop() and with other ticks is a behaviour.  A tick    *)
(* in flight is an entry of `ticks`, keyed by its iteration id, whose pc   *)
(* names the await it is suspended at.  Timers are setTimeout callbacks,   *)
(* named by the id of the tick that scheduled them.                       *)
(*                                                                         *)
(* Listeners of the runner's events run synchronously inside emit() and    *)
(* log(); a listener that throws is a fault at that line.  Inside the try  *)
(* block it is caught and the tick is recorded as failed; outside it       *)
(* (lines 137-138, 156, 177-178, 244-245, 254-255) it rejects the promise *)
(* of tick() or start().  Faults, and wall-clock jumps that make a       *)
(* payload stale, are bounded environment choices.                       *)
(*                                                                         *)
(* The learner (LearningCore) is the runner's own `new LearningCore()`,   *)
(* memorySize 500; ingest() has no await of its own, so its body runs in  *)
(* the segment that calls it.  Its version string always passes the stage *)
(* 3 pattern, so it feeds no verdict.                                     *)
(*                                                                         *)
(* Not modelled: ROI and artifact totals (they feed no decision: avgROI    *)
(* is never negative).                                                    *)
(***************************************************************************)
EXTENDS Integers, Sequences, FiniteSets, TLC

CONSTANTS
    MaxIterations,        \* config.maxIterations (> 0 here: 0 is unbounded)
    HistoryCap,           \* the rolling history window (100)
    ConfidenceThreshold,  \* config.confidenceThreshold, in hundredths
    AutoScale, AutoGenerate, LearnFromFailures,
    Veri3fyStages,        \* config.veri3fyStages
    MaxScale, MinPassStreak, DecayOnFailure, ScaleLogCap,
    ArtifactLogCap,       \* the generator's artifact log bound (100)
    MaxStarts,            \* start() calls the environment makes
    MaxFaults,            \* listener exceptions in a behaviour
    AbortFaults,          \* whether listeners outside the try may throw
    MaxClockJumps         \* wall-clock jumps of more than 60 s

ASSUME MaxIterations \in Nat \ {0} /\ HistoryCap \in Nat \ {0}
       /\ {AutoScale, AutoGenerate, LearnFromFailures, AbortFaults} \subseteq BOOLEAN
       /\ {MaxStarts, MaxFaults, MaxClockJumps} \subseteq Nat

VARIABLES
    running, iteration, totalPassed, totalFailed, confidenceSum, history,
    ticks, timers, loopTimer,
    verifyCount, passCount,
    currentScale, passStreak, failStreak, scaleLogLen,
    generationCount, artifactLog,
    starts, faults, clockJumps,
    patterns, ingestCount, successCount, failureCount, modelVersion, evicted

V  == INSTANCE Veri3fy WITH Stages <- Veri3fyStages,
                            Threshold <- ConfidenceThreshold, StrictMode <- TRUE
SE == INSTANCE ScalingEngine
AG == INSTANCE AutoGenerator WITH LogCap <- ArtifactLogCap
LC == INSTANCE LearningCore WITH MemorySize <- 500,
                                 MaxIngests <- MaxIterations, MaxRepeats <- MaxIterations

counters    == <<totalPassed, totalFailed, confidenceSum>>
verifyVars  == <<verifyCount, passCount>>
scalingVars == <<currentScale, passStreak, failStreak, scaleLogLen>>
genVars     == <<generationCount, artifactLog>>
learnerVars == <<patterns, ingestCount, successCount, failureCount, modelVersion,
                 evicted>>
vars == <<running, iteration, counters, history, ticks, timers, loopTimer,
          verifyVars, scalingVars, genVars, learnerVars, starts, faults, clockJumps>>

Ids == 1..MaxIterations
Pcs == {"verify", "learnFail", "scale", "generate", "learnOk"}

\* The verification result a fresh iterObj holds (line 168).
NoVerify == [s1 |-> FALSE, s2 |-> FALSE, s3 |-> FALSE, passed |-> FALSE,
             score |-> 0, errors |-> {}]

\* iterObj while its tick is in flight, and as a finalized history entry.
NewIter == [pc |-> "verify", status |-> "running", v |-> NoVerify, reason |-> ""]
Entry(k, t) == [id |-> k, status |-> t.status, errors |-> t.v.errors,
                reason |-> t.reason]

Statuses(h) == [i \in DOMAIN h |-> h[i].status]
Without(f, k) == [j \in DOMAIN f \ {k} |-> f[j]]

\* buildPayload() for iteration n (lines 267-278).
Payload(n, stale) ==
    [iteration |-> n, scale |-> currentScale, passed |-> totalPassed,
     confSum |-> confidenceSum, stale |-> stale, roiNegative |-> FALSE,
     node |-> [hasMarker |-> TRUE, allowListed |-> TRUE]]

MaxReached == iteration >= MaxIterations

CanFault(used) == faults + used < MaxFaults

-----------------------------------------------------------------------------
(***************************************************************************)
(* The pattern id ingest() derives (extractFeatures, hashFeatures).  A     *)
(* failure ingests vResult: its six keys, the band of its score and its   *)
(* errors, whose STAGEn prefixes, pushed stage by stage, are fixed by the *)
(* number of errors of each stage.  A success ingests {vResult, scale}:   *)
(* two keys and floor(log2(scale + 1)).  Distinct feature lists are taken *)
(* to hash apart.                                                         *)
(***************************************************************************)
StageKinds == <<{"iteration", "scale", "node"},
                {"successRate", "avgConfidence", "roiNegative", "stale", "iteration"},
                {"nonSovereignNode", "lowConfidence", "scaleRegression"}>>
ScoreBand(score) == IF score >= 90 THEN "high" ELSE IF score >= 70 THEN "mid" ELSE "low"
ScaleLog2(s) == CHOOSE b \in 0..MaxScale :
                    2^b * SE!Unit <= s + SE!Unit /\ s + SE!Unit < 2^(b + 1) * SE!Unit
FailureId(v) == <<"failure", ScoreBand(v.score),
                  [i \in 1..3 |-> Cardinality(v.errors \cap StageKinds[i])]>>
SuccessId(scale) == <<"success", ScaleLog2(scale)>>

\* learner.ingest({type, data}) for data with pattern id `id`.
Learn(type, id) ==
    LET known == {j \in DOMAIN patterns : patterns[j].id = id}
    IN  LC!Ingest(type, IF known = {} THEN 0 ELSE CHOOSE j \in known : TRUE, id)

\* Fault-injection variant: the success ingest left out.
LearnIfNextSkipped(pc) == UNCHANGED learnerVars

\* Line 234 runs in the segment whose next await is the one of ingest().
LearnIfNext(pc) ==
    IF pc = "learnOk" THEN Learn("success", SuccessId(currentScale))
                      ELSE UNCHANGED learnerVars

-----------------------------------------------------------------------------
(* Ending a tick.  `used` is the number of listener faults the current    *)
(* segment already raised, `on` the value of this.running the segment     *)
(* ends with and `pend` the pending timers.                               *)

\* The promise of tick() rejects: nothing is recorded or scheduled.
Abort(k, used, pend) ==
    /\ AbortFaults /\ CanFault(used)
    /\ faults' = faults + used + 1
    /\ ticks' = Without(ticks, k)
    /\ timers' = pend
    /\ UNCHANGED <<history, loopTimer>>

\* Fault-injection variants of Finish: the window evicts one entry late;
\* the next tick is scheduled only after a tick that did not fail.
FinishEvictLate(k, t, used, on, pend) ==
    /\ history' = LET h == Append(history, Entry(k, t))
                  IN  IF Len(h) > HistoryCap + 1 THEN Tail(h) ELSE h
    /\ ticks' = Without(ticks, k)
    /\ faults' = faults + used
    /\ timers' = IF on THEN pend \cup {k} ELSE pend
    /\ loopTimer' = IF on THEN k ELSE loopTimer

FinishNoRetryAfterFailure(k, t, used, on, pend) ==
    /\ history' = LET h == Append(history, Entry(k, t))
                  IN  IF Len(h) > HistoryCap THEN Tail(h) ELSE h
    /\ ticks' = Without(ticks, k)
    /\ faults' = faults + used
    /\ timers' = IF on /\ t.status # "failed" THEN pend \cup {k} ELSE pend
    /\ loopTimer' = IF on /\ t.status # "failed" THEN k ELSE loopTimer

\* Lines 248-260: finalize, append to the rolling history, schedule.
Finish(k, t, used, on, pend) ==
    /\ history' = LET h == Append(history, Entry(k, t))
                  IN  IF Len(h) > HistoryCap THEN Tail(h) ELSE h
    /\ ticks' = Without(ticks, k)
    /\ \/ /\ faults' = faults + used
          /\ timers' = IF on THEN pend \cup {k} ELSE pend
          /\ loopTimer' = IF on THEN k ELSE loopTimer
       \/ /\ AbortFaults /\ CanFault(used)     \* lines 254-255 throw
          /\ faults' = faults + used + 1
          /\ timers' = pend
          /\ UNCHANGED loopTimer

\* Lines 241-246: the catch block, reached with totalFailed = tf.
Caught(k, t, used, on, pend, tf) ==
    /\ totalFailed' = tf + 1
    /\ \/ Finish(k, [t EXCEPT !.status = "failed"], used, on, pend)
       \/ Abort(k, used, pend)                  \* lines 244-245 throw

\* A listener throws at a log/emit inside the try block of a resumed tick.
Throw(k, t, tf) == CanFault(0) /\ Caught(k, t, 1, running, timers, tf)

\* The segment ends at the next await.
Await(k, t) ==
    /\ ticks' = [ticks EXCEPT ![k] = t]
    /\ UNCHANGED <<history, timers, loopTimer, faults>>

-----------------------------------------------------------------------------
(***************************************************************************)
(* tick() up to its first await (lines 153-184), entered while running    *)
(* with pending timers pend.  The verify() body runs synchronously at the  *)
(* call, so its counters change in this segment.                          *)
(***************************************************************************)
TickRunning(pend) ==
    LET k == iteration + 1 IN
    \/ /\ MaxReached                                       \* lines 155-159
       /\ running' = FALSE /\ timers' = pend \ {loopTimer}
       /\ UNCHANGED <<iteration, ticks, loopTimer, history, faults,
                      totalFailed, verifyVars, clockJumps>>
    \/ /\ MaxReached /\ AbortFaults /\ CanFault(0)          \* line 156 throws
       /\ running' = TRUE /\ timers' = pend
       /\ faults' = faults + 1
       /\ UNCHANGED <<iteration, ticks, loopTimer, history,
                      totalFailed, verifyVars, clockJumps>>
    \/ /\ ~MaxReached
       /\ running' = TRUE
       /\ iteration' = k
       /\ \/ /\ Abort(k, 0, pend)                          \* lines 177-178
             /\ UNCHANGED <<totalFailed, verifyVars, clockJumps>>
          \/ /\ CanFault(0)                                \* line 182
             /\ Caught(k, NewIter, 1, TRUE, pend, totalFailed)
             /\ UNCHANGED <<verifyVars, clockJumps>>
          \/ /\ \E stale \in IF clockJumps < MaxClockJumps THEN BOOLEAN
                                                            ELSE {FALSE} :
                   \E r \in V!Outcomes(Payload(k, stale)) :
                      /\ V!Verify(r)
                      /\ ticks' = ticks @@ (k :> [NewIter EXCEPT !.v = r])
                      /\ clockJumps' = IF stale THEN clockJumps + 1
                                                ELSE clockJumps
             /\ timers' = pend
             /\ UNCHANGED <<history, loopTimer, faults, totalFailed>>

\* A tick entered when this.running is false returns at once (line 154).
TickBegin(on, pend) ==
    \/ /\ ~on
       /\ timers' = pend
       /\ UNCHANGED <<running, iteration, ticks, loopTimer, history, faults,
                      totalFailed, verifyVars, clockJumps>>
    \/ on /\ TickRunning(pend)

\* start() (lines 130-140) from the stopped state.
Start ==
    /\ ~running /\ starts < MaxStarts
    /\ starts' = starts + 1
    /\ UNCHANGED <<totalPassed, confidenceSum, scalingVars, genVars, learnerVars>>
    /\ \/ /\ AbortFaults /\ CanFault(0)        \* 'slvss:started' listener throws
          /\ running' = TRUE /\ faults' = faults + 1
          /\ UNCHANGED <<iteration, ticks, timers, loopTimer, history,
                         totalFailed, verifyVars, clockJumps>>
       \/ TickRunning(timers)

\* stop() (lines 142-147): clears only the timer loopTimer names.
Stop ==
    /\ running \/ loopTimer \in timers
    /\ running' = FALSE
    /\ timers' = timers \ {loopTimer}
    /\ UNCHANGED <<iteration, counters, genVars, learnerVars, history, ticks, loopTimer,
                   verifyVars, scalingVars, starts, faults, clockJumps>>

\* A setTimeout callback runs tick().
TimerFire ==
    /\ \E k \in timers : TickBegin(running, timers \ {k})
    /\ UNCHANGED <<starts, totalPassed, confidenceSum, scalingVars, genVars,
                   learnerVars>>

-----------------------------------------------------------------------------
(* The segments after each await.  None changes running, iteration, the  *)
(* verify counters, starts or clockJumps.                                 *)

\* Lines 185-201, failed verification.
AfterVerifyFailed(k) ==
    LET t  == ticks[k]
        tt == [t EXCEPT !.status = "failed"]
        tf == totalFailed + 1
    IN  /\ t.pc = "verify" /\ ~t.v.passed
        /\ confidenceSum' = confidenceSum + t.v.score
        /\ UNCHANGED <<totalPassed, scalingVars, genVars>>
        /\ \/ Throw(k, tt, tf) /\ UNCHANGED learnerVars      \* line 192
           \/ /\ totalFailed' = tf
              /\ IF LearnFromFailures
                 THEN /\ Learn("failure", FailureId(t.v))
                      /\ Await(k, [tt EXCEPT !.pc = "learnFail"])
                 ELSE Finish(k, tt, 0, running, timers) /\ UNCHANGED learnerVars

\* Lines 218-225: generate() runs synchronously where it is called, with
\* the runner's iteration and scale as they are at the call.
CallGenerate(t) ==
    IF AutoGenerate
    THEN AG!Generate([iteration |-> iteration, scale |-> currentScale,
                      confidence |-> 100 * t.v.score])
    ELSE UNCHANGED genVars

\* Lines 185-187 and 202-225, passed verification: scale() runs here, with
\* the runner's this.iteration (line 209), or generate() when auto-scale is
\* off.
AfterVerifyPassed(k) ==
    LET t == ticks[k] IN
    /\ t.pc = "verify" /\ t.v.passed
    /\ confidenceSum' = confidenceSum + t.v.score
    /\ totalPassed' = totalPassed + 1
    /\ \/ /\ Throw(k, t, totalFailed)                      \* line 204
          /\ UNCHANGED <<scalingVars, genVars, learnerVars>>
       \/ /\ UNCHANGED totalFailed
          /\ IF AutoScale
             THEN \E o \in SE!ScaleOutcomes(t.v.score, iteration, Statuses(history)) :
                     /\ SE!Scale(o) /\ UNCHANGED <<genVars, learnerVars>>
                     /\ Await(k, [t EXCEPT !.pc = "scale", !.reason = o.reason])
             ELSE LET pc == IF AutoGenerate THEN "generate" ELSE "learnOk" IN
                  /\ UNCHANGED scalingVars
                  /\ CallGenerate(t)
                  /\ LearnIfNext(pc)
                  /\ Await(k, [t EXCEPT !.pc = pc])

\* Lines 210-225 and 234: the scaling result; generate() or ingest() next.
AfterScale(k) ==
    LET t  == ticks[k]
        tt == [t EXCEPT !.status = IF t.reason # "noop" THEN "scaled" ELSE @]
    IN  /\ t.pc = "scale"
        /\ UNCHANGED <<totalPassed, confidenceSum, scalingVars>>
        /\ \/ /\ t.reason # "noop" \/ AutoGenerate
              /\ Throw(k, tt, totalFailed) /\ UNCHANGED <<genVars, learnerVars>>
           \/ LET pc == IF AutoGenerate THEN "generate" ELSE "learnOk" IN
              /\ UNCHANGED totalFailed
              /\ CallGenerate(tt)
              /\ LearnIfNext(pc)
              /\ Await(k, [tt EXCEPT !.pc = pc])

\* Lines 226-234: totals of the generation, then ingest().
AfterGenerate(k) ==
    LET t == ticks[k] IN
    /\ t.pc = "generate"
    /\ UNCHANGED <<totalPassed, confidenceSum, scalingVars, genVars>>
    /\ \/ Throw(k, t, totalFailed) /\ UNCHANGED learnerVars  \* line 230
       \/ /\ UNCHANGED totalFailed
          /\ LearnIfNext("learnOk")
          /\ Await(k, [t EXCEPT !.pc = "learnOk"])

\* Lines 235-240 and the end of the tick.
AfterLearnOk(k) ==
    LET t  == ticks[k]
        tt == [t EXCEPT !.status = IF @ = "running" THEN "passed" ELSE @]
    IN  /\ t.pc = "learnOk"
        /\ UNCHANGED <<totalPassed, confidenceSum, scalingVars, genVars, learnerVars>>
        /\ \/ Throw(k, tt, totalFailed)                      \* lines 236, 239
           \/ UNCHANGED totalFailed /\ Finish(k, tt, 0, running, timers)

\* Lines 197-201 and the end of the tick.
AfterLearnFail(k) ==
    LET t == ticks[k] IN
    /\ t.pc = "learnFail"
    /\ UNCHANGED <<totalPassed, confidenceSum, scalingVars, genVars, learnerVars>>
    /\ \/ Throw(k, t, totalFailed)                          \* lines 198, 201
       \/ UNCHANGED totalFailed /\ Finish(k, t, 0, running, timers)

Resume(k) ==
    /\ k \in DOMAIN ticks
    /\ \/ AfterVerifyFailed(k) \/ AfterVerifyPassed(k) \/ AfterScale(k)
       \/ AfterGenerate(k) \/ AfterLearnOk(k) \/ AfterLearnFail(k)
    /\ UNCHANGED <<running, iteration, verifyVars, starts, clockJumps>>

-----------------------------------------------------------------------------
Init ==
    /\ running = FALSE
    /\ iteration = 0
    /\ totalPassed = 0 /\ totalFailed = 0 /\ confidenceSum = 0
    /\ history = <<>>
    /\ ticks = <<>>
    /\ timers = {} /\ loopTimer = 0
    /\ verifyCount = 0 /\ passCount = 0
    /\ SE!ScalingInit
    /\ AG!Init
    /\ LC!Init
    /\ starts = 0 /\ faults = 0 /\ clockJumps = 0

Next == Start \/ Stop \/ TimerFire \/ \E k \in DOMAIN ticks : Resume(k)

\* Node runs every resolved continuation and every due timer; the caller's
\* start() and stop() and the environment's faults are not assumed.
Fairness == WF_vars(TimerFire) /\ \A k \in Ids : WF_vars(Resume(k))

Spec == Init /\ [][Next]_vars /\ Fairness

-----------------------------------------------------------------------------
(* Properties *)

TickRec  == [pc : Pcs, status : SE!Statuses, v : V!VResult,
             reason : SE!Reasons \cup {""}]
EntryRec == [id : Ids, status : SE!Statuses, errors : SUBSET V!ErrorKinds,
             reason : SE!Reasons \cup {""}]

\* Every variable has its type; the history never exceeds its window.
TypeOK ==
    /\ running \in BOOLEAN
    /\ iteration \in 0..MaxIterations
    /\ {totalPassed, totalFailed, verifyCount, passCount} \subseteq Nat
    /\ confidenceSum \in 0..(100 * MaxIterations)
    /\ history \in Seq(EntryRec) /\ Len(history) <= HistoryCap
    /\ DOMAIN ticks \subseteq Ids /\ \A k \in DOMAIN ticks : ticks[k] \in TickRec
    /\ timers \subseteq Ids /\ loopTimer \in 0..MaxIterations
    /\ currentScale \in Nat /\ {passStreak, failStreak} \subseteq Nat
    /\ generationCount \in Nat
    /\ scaleLogLen \in 0..ScaleLogCap
    /\ starts \in 0..MaxStarts /\ faults \in 0..MaxFaults
    /\ clockJumps \in 0..MaxClockJumps
    /\ Len(patterns) <= 500 /\ ingestCount = successCount + failureCount

\* ScalingEngine.scale keeps the scale within [1, maxScale] whatever the
\* history, the score and the interleaving of ticks that call it.
ScaleWithinBounds == SE!Unit <= currentScale /\ currentScale <= SE!MaxU

\* While the loop runs, a failed or faulty tick is followed by another tick:
\* each iteration number is eventually passed unless the loop is stopped.
Progress ==
    \A n \in 0..(MaxIterations - 1) :
        (running /\ iteration = n) ~> (iteration > n \/ ~running)

\* A snapshot (getState) taken mid-tick reflects the pre-tick state (spec
\* section 5): the iteration it reports is accounted for by the pass and
\* failure totals it reports.
SnapshotIsPreTick == iteration = totalPassed + totalFailed

\* Ticks never run concurrently (spec section 5).
AtMostOneTick == Cardinality(DOMAIN ticks) <= 1

\* A scale-up resets the pass streak, so two scale-ups by the pass-streak
\* rule are separated by at least MinPassStreak passed iterations.
ScaleUpsNeedFreshStreak ==
    \A i, j \in DOMAIN history :
        (i < j /\ history[i].reason = "up" /\ history[j].reason = "up")
            => j - i > MinPassStreak

\* The pass and failure totals count every recorded iteration exactly once,
\* by its one terminal status (checked while nothing is in flight and no
\* entry has been dropped or evicted).
TotalsMatchRecords ==
    (DOMAIN ticks = {} /\ Len(history) = iteration) =>
        /\ totalPassed = Cardinality({i \in DOMAIN history :
                                        history[i].status \in SE!PassLike})
        /\ totalFailed = Cardinality({i \in DOMAIN history :
                                        history[i].status = "failed"})

\* A failure is retried by the next tick: the gate's own low-confidence rule
\* never fails two consecutive iterations when nothing else went wrong.
SelfInflicted(e) == e.status = "failed" /\ e.errors = {"lowConfidence"}
NoFailureSpiral ==
    \A i \in 2..Len(history) :
        ~(SelfInflicted(history[i - 1]) /\ SelfInflicted(history[i]))

\* The learner's weights stay within (0, 1.0]: the pattern every passed
\* tick reinforces by successBoost after a 0.99 decay reaches the
\* Math.min cap within a few iterations and must stay there.
WeightsWithinUnit ==
    \A i \in DOMAIN patterns : 0 < patterns[i].weight /\ patterns[i].weight <= LC!Unit6

\* The learner has learned every tick the runner records as passed or
\* scaled, and no success the runner did not count as passed: the success
\* ingest runs in a later segment than totalPassed++ and an earlier one
\* than the status change, so ticks, faults and stop() in between may only
\* leave a learned pass recorded as failed.
PassesLearned ==
    /\ Cardinality({i \in DOMAIN history : history[i].status \in SE!PassLike})
           <= successCount
    /\ successCount <= totalPassed

=============================================================================
