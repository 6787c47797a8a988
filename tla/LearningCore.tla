---------------------------- MODULE LearningCore ----------------------------
(***************************************************************************)
(* The pattern memory of the SLVSS learning core                           *)
(* (src/sovereignty/AutomationAPI.ts, the LearningCore.ts part).           *)
(* ingest(input) decays every stored pattern, then reinforces the pattern  *)
(* the input hashes to or inserts a new one, pruning the weakest when the  *)
(* memory is over capacity, and re-derives the model version.             *)
(*                                                                         *)
(* Data abstraction.  extractFeatures and hashFeatures map an input to a   *)
(* pattern id made of the outcome type and a hash of the feature list.    *)
(* Only the equality of ids matters, so an input is either the id of a     *)
(* stored pattern of its type (the input hashes to it, by equal features  *)
(* or by a 32-bit collision) or an id not stored (a new or a pruned one). *)
(* The Map keeps insertion order, so the patterns are a sequence.  Weights *)
(* are fixed point with 6 decimals, the precision toFixed(6) keeps.        *)
(***************************************************************************)
EXTENDS Integers, Sequences, SequencesExt

CONSTANTS
    MemorySize,   \* config.memorySize (500 in the code)
    MaxIngests,   \* ingest() calls in a behaviour
    MaxRepeats    \* ingests of an id already stored, in a behaviour

ASSUME MemorySize \in Nat \ {0} /\ {MaxIngests, MaxRepeats} \subseteq Nat

VARIABLES
    patterns,       \* this.patterns, in insertion order
    ingestCount, successCount, failureCount,
    modelVersion,   \* this._modelVersion as <<major, minor>>
    evicted         \* the patterns the last ingest pruned (history only)

vars == <<patterns, ingestCount, successCount, failureCount, modelVersion,
          evicted>>

Unit6 == 1000000
Types == {"success", "failure"}

\* The default config: decayRate 0.99, successBoost 0.1, failurePenalty
\* 0.15, and the seed weights 0.6 and 0.4.
Seed(type)  == IF type = "success" THEN 600000 ELSE 400000
Boost(type) == IF type = "success" THEN 100000 ELSE 150000

\* parseFloat((w * 0.99).toFixed(6)); on an exact tie the double product
\* may lie on either side of it.
DecayedWeights(w) ==
    LET q == (w * 99) \div 100
        r == (w * 99) % 100
    IN  IF r > 50 THEN {q + 1} ELSE IF r < 50 THEN {q} ELSE {q, q + 1}

\* decayPatterns(): every pattern decayed in place.
RECURSIVE DecayAll(_)
DecayAll(ps) ==
    IF ps = <<>> THEN {<<>>}
    ELSE {<<[Head(ps) EXCEPT !.weight = w]>> \o rest :
            w \in DecayedWeights(Head(ps).weight), rest \in DecayAll(Tail(ps))}

\* Fault-injection variant: the boost without the 1.0 cap.
ReinforcedUncapped(w, type) == w + Boost(type)

\* Math.min(w + boost, 1.0), rounded to 6 decimals.
Reinforced(w, type) == IF w + Boost(type) > Unit6 THEN Unit6 ELSE w + Boost(type)

(***************************************************************************)
(* pruneWeakPatterns(): a stable sort ascending by weight, then the first  *)
(* floor(memorySize * 0.1) entries are deleted.  An entry's place in the   *)
(* stable sort is the number of entries lighter than it, or as heavy and  *)
(* inserted earlier.                                                      *)
(***************************************************************************)
PruneCount == MemorySize \div 10

\* Fault-injection variant: the entries are removed in insertion order,
\* without the sort.
RankByAge(ps, i) == i - 1

Rank(ps, i) ==
    Cardinality({j \in DOMAIN ps :
                    \/ ps[j].weight < ps[i].weight
                    \/ ps[j].weight = ps[i].weight /\ j < i})

Pruned(ps) == {i \in DOMAIN ps : Rank(ps, i) < PruneCount}

Kept(ps) ==
    LET gone == Pruned(ps)
        keep == SelectSeq([i \in DOMAIN ps |-> i], LAMBDA i : i \notin gone)
    IN  [j \in DOMAIN keep |-> ps[keep[j]]]

\* Fault-injection variant: pruning only once two patterns are over capacity.
OverCapacityLate(ps) == Len(ps) > MemorySize + 1

\* this.patterns.size > this.config.memorySize
OverCapacity(ps) == Len(ps) > MemorySize

\* updateModelVersion(): major every 100 ingests, minor every 10.
VersionOf(n) == <<n \div 100 + 1, (n % 100) \div 10>>

(***************************************************************************)
(* ingest({type, data, iteration}) for data whose id is that of the k-th   *)
(* stored pattern, or, when k = 0, the id `id` of no stored pattern.      *)
(***************************************************************************)
Ingest(type, k, id) ==
    /\ k # 0 => patterns[k].type = type
    /\ ingestCount' = ingestCount + 1
    /\ \E ps \in DecayAll(patterns) :
          LET grown == Append(ps, [id |-> id, type |-> type, weight |-> Seed(type),
                                    seen |-> 1])
          IN  IF k # 0
              THEN /\ patterns' = [ps EXCEPT ![k].weight = Reinforced(@, type),
                                             ![k].seen = @ + 1]
                   /\ evicted' = {}
              ELSE IF OverCapacity(grown)
              THEN /\ patterns' = Kept(grown)
                   /\ evicted' = {grown[j] : j \in Pruned(grown)}
              ELSE /\ patterns' = grown
                   /\ evicted' = {}
    /\ successCount' = IF type = "success" THEN successCount + 1 ELSE successCount
    /\ failureCount' = IF type = "failure" THEN failureCount + 1 ELSE failureCount
    /\ modelVersion' = VersionOf(ingestCount + 1)

Init ==
    /\ patterns = <<>>
    /\ ingestCount = 0 /\ successCount = 0 /\ failureCount = 0
    /\ modelVersion = <<1, 0>>
    /\ evicted = {}

\* The caller's ingests, bounded.  Until a prune, ingestCount - Len(patterns)
\* counts the ingests of an id already stored; a new id is named by the
\* ingest that brings it.
Next ==
    /\ ingestCount < MaxIngests
    /\ \E type \in Types, k \in 0..Len(patterns) :
          /\ k # 0 => ingestCount - Len(patterns) < MaxRepeats
          /\ Ingest(type, k, ingestCount + 1)

Spec == Init /\ [][Next]_vars

-----------------------------------------------------------------------------
(* Properties *)

\* The pattern memory never holds more than memorySize patterns after an
\* ingest: the new pattern is inserted first and pruning must make room.
WithinCapacity == Len(patterns) <= MemorySize

\* pruneWeakPatterns evicts the weakest patterns: no pattern that survives
\* a prune is lighter than one it evicted (the freshly inserted one
\* included).
PruneEvictsWeakest ==
    \A e \in evicted : \A i \in DOMAIN patterns : e.weight <= patterns[i].weight

=============================================================================
