----------------------------- MODULE PAXRuntime -----------------------------
(***************************************************************************)
(* The PAX agent router (PAXRuntime.ts, src/unnamed/part_001).  route()   *)
(* is async: it assigns an idle agent and marks it processing, awaits      *)
(* computeConfidence, then stores the result, updates the metrics and      *)
(* frees the agent.  Any number of route() calls may be suspended at the   *)
(* await at once, so each call is two actions: RouteBegin up to the await  *)
(* and RouteEnd (or RouteReject) after it.                                *)
(*                                                                         *)
(* Data abstraction.  A request is the operation, the two facts about its  *)
(* data that computeConfidence reads (the number of keys and the number   *)
(* of value keys among them), and whether the data makes a call throw:    *)
(* "null" (Object.keys throws) or "unserializable", a BigInt or a cycle   *)
(* (JSON.stringify throws).  Confidence is fixed point with 4     *)
(* decimals (toFixed(4)).  ROI, timestamps and the quantum signature feed  *)
(* no decision and are left out.                                          *)
(***************************************************************************)
EXTENDS Integers, Sequences, FiniteSets, FiniteSetsExt, TLC

CONSTANTS
    AgentCount,      \* config.agentCount (13)
    Threshold,       \* config.confidenceThreshold, in 1/10000 (0.85)
    VaultEnabled,    \* config.vaultEnabled
    QuantumMode,     \* config.quantumMode (on by default)
    Requests,        \* the requests callers make
    MaxRoutes        \* route() calls in a behaviour

\* PAXRuntime.AGENT_ROSTER roles, in roster order.
Roster == <<"orchestrator", "data_ingestion", "value_analysis", "extraction",
            "confidence_scoring", "vault_management", "pax_routing",
            "quantum_correlate", "roi_reporting", "security_monitor",
            "ci_cd_pipeline", "performance_tuning", "meta_orchestrator">>

ASSUME AgentCount \in 1..Len(Roster) /\ {VaultEnabled, QuantumMode} \subseteq BOOLEAN
       /\ MaxRoutes \in Nat

VARIABLES
    status,           \* agent -> "idle" | "processing"
    tasksCompleted,   \* agent -> tasks completed
    processedItems,
    vaultLen,         \* this.vaultLog.length
    inflight,         \* call -> [agent, confidence, throws] while suspended
    calls             \* route() calls made so far (the call's number)

vars == <<status, tasksCompleted, processedItems, vaultLen, inflight, calls>>

Agents == 1..AgentCount

\* The role assignAgent looks for (roleMap, with 'orchestrator' for any
\* other operation).
TargetRole(op) ==
    CASE op = "extract"  -> "extraction"
      [] op = "analyze"  -> "value_analysis"
      [] op = "validate" -> "confidence_scoring"
      [] op = "quantum"  -> "quantum_correlate"
      [] op = "report"   -> "roi_reporting"
      [] op = "vault"    -> "vault_management"
      [] OTHER           -> "orchestrator"

\* Fault-injection variant: the role match does not check that the agent
\* is idle.
AssignAgentByRole(op) ==
    LET match == {a \in Agents : Roster[a] = TargetRole(op)}
        idle  == {a \in Agents : status[a] = "idle"}
    IN  IF match # {} THEN Min(match) ELSE IF idle # {} THEN Min(idle) ELSE 0

\* assignAgent(op): the first idle agent of the target role in roster
\* (Map insertion) order, else the first idle agent, else none (0).
AssignAgent(op) ==
    LET match == {a \in Agents : status[a] = "idle" /\ Roster[a] = TargetRole(op)}
        idle  == {a \in Agents : status[a] = "idle"}
    IN  IF match # {} THEN Min(match) ELSE IF idle # {} THEN Min(idle) ELSE 0

OpBonus(op) ==
    CASE op = "extract"  -> 500
      [] op = "analyze"  -> 1000
      [] op = "validate" -> 1500
      [] op = "quantum"  -> 2000
      [] OTHER           -> 0

\* computeConfidence(data, op): 0.5 + min(keys/20, 0.2) + the operation
\* bonus + 0.03 per value key, capped at 1.0.
ComputeConfidence(req) ==
    LET keyPart == IF req.keys * 500 < 2000 THEN req.keys * 500 ELSE 2000
        s == 5000 + keyPart + OpBonus(req.op) + 300 * req.valueKeys
    IN  IF s < 10000 THEN s ELSE 10000

\* The continuation of a call rejects: computeConfidence threw at
\* Object.keys(null), so the awaited promise is rejected, or, in quantum
\* mode, generateQuantumSignature's JSON.stringify throws after the await.
DataThrows(req) == req.data = "null" \/ (QuantumMode /\ req.data = "unserializable")

\* route(data, op) up to the await of computeConfidence.  With no idle
\* agent it throws before changing any state.
RouteBegin(req) ==
    LET c == calls + 1
        a == AssignAgent(req.op)
    IN  /\ calls < MaxRoutes
        /\ calls' = c
        /\ IF a = 0
           THEN UNCHANGED <<status, inflight>>
           ELSE /\ status' = [status EXCEPT ![a] = "processing"]
                /\ inflight' = inflight @@ (c :> [agent |-> a,
                                                  confidence |-> ComputeConfidence(req),
                                                  throws |-> DataThrows(req)])
        /\ UNCHANGED <<tasksCompleted, processedItems, vaultLen>>

\* route() after the await: store, count, free the agent.
RouteEnd(c) ==
    LET r == inflight[c] IN
    /\ c \in DOMAIN inflight /\ ~r.throws
    /\ vaultLen' = IF VaultEnabled /\ r.confidence >= Threshold
                   THEN vaultLen + 1 ELSE vaultLen
    /\ processedItems' = processedItems + 1
    /\ status' = [status EXCEPT ![r.agent] = "idle"]
    /\ tasksCompleted' = [tasksCompleted EXCEPT ![r.agent] = @ + 1]
    /\ inflight' = [d \in DOMAIN inflight \ {c} |-> inflight[d]]
    /\ UNCHANGED calls

\* route() after the await rejects before line 207: nothing is stored or
\* counted and the agent is left processing.
RouteReject(c) ==
    /\ c \in DOMAIN inflight /\ inflight[c].throws
    /\ inflight' = [d \in DOMAIN inflight \ {c} |-> inflight[d]]
    /\ UNCHANGED <<status, tasksCompleted, processedItems, vaultLen, calls>>

\* initializeAgents(): every agent of the roster prefix idle.
Init ==
    /\ status = [a \in Agents |-> "idle"]
    /\ tasksCompleted = [a \in Agents |-> 0]
    /\ processedItems = 0
    /\ vaultLen = 0
    /\ inflight = <<>>
    /\ calls = 0

Next == (\E req \in Requests : RouteBegin(req))
        \/ (\E c \in DOMAIN inflight : RouteEnd(c) \/ RouteReject(c))

\* computeConfidence has no await of its own, so a suspended route() call
\* resumes from the microtask queue, which Node.js always drains: each
\* continuation is weakly fair.  New calls are the callers' choice.
Fairness == \A c \in 1..MaxRoutes : WF_vars(RouteEnd(c) \/ RouteReject(c))

Spec == Init /\ [][Next]_vars /\ Fairness

-----------------------------------------------------------------------------
(* Properties *)

\* However the suspended route() calls interleave, and whatever agents
\* rejected calls have left processing, no agent serves two suspended calls
\* at once, and every agent serving one is marked processing.
AgentsExclusive ==
    /\ \A c, d \in DOMAIN inflight : c # d => inflight[c].agent # inflight[d].agent
    /\ \A c \in DOMAIN inflight : status[inflight[c].agent] = "processing"

=============================================================================
