---------------------------- MODULE SovereigntyAPI ----------------------------
(***************************************************************************)
(* The sovereignty HTTP API (AutomationAPI in src/sovereignty/             *)
(* AutomationAPI.ts) over the PAX kernel singleton, with the value scanner *)
(* (src/sovereignty/ValueScanner.ts) two of its routes call.  Each route   *)
(* handler runs to completion before the next request is taken: the sync  *)
(* handlers have no await, and scanAll(), the one call the async ones      *)
(* await, has none of its own.  So each request is one action, and        *)
(* `resp` is the response the last one sent.  Express answers 500 when a   *)
(* handler throws.  The listen callback emits the boot pulse before the    *)
(* server takes a connection.                                             *)
(*                                                                         *)
(* `now` is the millisecond clock new Date() reads; several requests may   *)
(* be served within one millisecond.                                      *)
(***************************************************************************)
EXTENDS Integers, Sequences, FiniteSets, TLC

CONSTANTS
    ClientKeys,     \* the :key values callers use
    ClientValues,   \* body.value of a vault write, Undefined among them
    Modes,          \* body.mode of a pulse
    Missions,       \* body.mission of a pulse or a NEUROSYNC request
    Null, Undefined, Missing,
    MaxRequests,    \* requests served in a behaviour
    MaxMs           \* milliseconds that pass in a behaviour

VARIABLES
    pulseCount, intensity, codex, quadStack, chain, lastToken, vault,
    now, booted, requests, resp

K == INSTANCE PAXKernel WITH VaultKeys <- ClientKeys \cup {"last_scan"}

kernelVars == <<pulseCount, intensity, codex, quadStack, chain, lastToken, vault>>
apiVars == <<now, booted, requests, resp>>
vars == <<kernelVars, apiVars>>

\* POST /pulse passes req.body to pulse() as it is.
PulseBodies ==
    {[incr |-> a, codexSync |-> b, quadUp |-> c, emitNeuro |-> d, mode |-> md,
      mission |-> ms] : a, b, c, d \in BOOLEAN, md \in Modes \cup {Null},
                        ms \in Missions \cup {Null}}

\* The full pulse the listen callback and POST /neurosync send.
FullPulse(mission) ==
    [incr |-> TRUE, codexSync |-> TRUE, quadUp |-> TRUE, emitNeuro |-> TRUE,
     mode |-> Null, mission |-> mission]

\* The pulse scanAll() sends after it records the scan.
ScanPulse ==
    [incr |-> TRUE, codexSync |-> FALSE, quadUp |-> FALSE, emitNeuro |-> FALSE,
     mode |-> Null, mission |-> Null]

\* getMetrics().vaultSize: the entries of the Map.
VaultSize == Cardinality({k \in DOMAIN vault : vault[k] # Missing})

(***************************************************************************)
(* ValueScanner: the detect* tables, with the fields scanAll and           *)
(* generateReport read, and scanAll's sort by roi_score, highest first.   *)
(***************************************************************************)
Opportunities ==
    <<[id |-> "wf-manual-triggers",   roi |-> 250, monthly |-> 2500],
      [id |-> "wf-error-handling",    roi |-> 180, monthly |-> 1800],
      [id |-> "auto-data-extraction", roi |-> 500, monthly |-> 5000],
      [id |-> "vault-analytics",      roi |-> 150, monthly |-> 1500]>>

Ranked == SortSeq(Opportunities, LAMBDA a, b : a.roi > b.roi)

RECURSIVE MonthlyTotal(_)
MonthlyTotal(s) == IF s = <<>> THEN 0 ELSE Head(s).monthly + MonthlyTotal(Tail(s))

\* scanAll(): record the scan in the vault, then pulse.
ScanAll ==
    /\ K!VaultSet("last_scan", [utc |-> now, count |-> Len(Opportunities)])
    /\ K!Pulse(ScanPulse, now)

-----------------------------------------------------------------------------
(* The listen callback, and one action per route handler. *)

Boot ==
    /\ ~booted
    /\ booted' = TRUE
    /\ K!Pulse(FullPulse("SOVEREIGNTY API ONLINE"), now)
    /\ UNCHANGED <<vault, now, requests, resp>>

Serve ==
    /\ booted /\ requests < MaxRequests
    /\ requests' = requests + 1
    /\ UNCHANGED <<now, booted>>

Metrics == [pulse |-> pulseCount, vaultSize |-> VaultSize, chain |-> Len(chain)]

GetHealth ==
    /\ Serve /\ resp' = [route |-> "health", status |-> 200]
    /\ UNCHANGED kernelVars

GetState ==
    /\ Serve
    /\ resp' = [route |-> "state", status |-> 200, metrics |-> Metrics]
    /\ UNCHANGED kernelVars

GetMetrics ==
    /\ Serve
    /\ resp' = [route |-> "metrics", status |-> 200, metrics |-> Metrics]
    /\ UNCHANGED kernelVars

PostPulse(body) ==
    /\ Serve /\ K!Pulse(body, now)
    /\ resp' = [route |-> "pulse", status |-> 200]
    /\ UNCHANGED vault

PostNeurosync(mission) ==
    /\ Serve /\ K!Pulse(FullPulse(mission), now)
    /\ resp' = [route |-> "neurosync", status |-> 200, token |-> lastToken']
    /\ UNCHANGED vault

\* The response's hash is the kernel's last continuity token.
GetVault(key) ==
    /\ Serve
    /\ resp' = [route |-> "vaultGet", status |-> 200, key |-> key,
                value |-> vault[key], hash |-> lastToken]
    /\ UNCHANGED kernelVars

PostVault(key, value) ==
    /\ Serve
    /\ K!VaultSet(key, value)
    /\ resp' = [route |-> "vaultSet", status |-> IF K!VaultSetThrows(value) THEN 500 ELSE 200]
    /\ UNCHANGED <<pulseCount, intensity, codex, quadStack, chain, lastToken>>

GetOpportunities ==
    /\ Serve /\ ScanAll
    /\ resp' = [route |-> "opportunities", status |-> 200,
                ids |-> [i \in DOMAIN Ranked |-> Ranked[i].id]]

GetReport ==
    /\ Serve /\ ScanAll
    /\ resp' = [route |-> "report", status |-> 200, total |-> MonthlyTotal(Ranked)]

\* The clock moves on by a millisecond.
Tick == now < MaxMs /\ now' = now + 1 /\ UNCHANGED <<kernelVars, booted, requests, resp>>

Init ==
    /\ K!KernelInit
    /\ now = 0 /\ booted = FALSE /\ requests = 0
    /\ resp = [route |-> "none", status |-> 200]

Next ==
    \/ Boot \/ Tick \/ GetHealth \/ GetState \/ GetMetrics
    \/ \E b \in PulseBodies : PostPulse(b)
    \/ \E m \in Missions \cup {Null} : PostNeurosync(m)
    \/ \E k \in DOMAIN vault : GetVault(k)
    \/ \E k \in DOMAIN vault, v \in ClientValues : PostVault(k, v)
    \/ GetOpportunities \/ GetReport

Spec == Init /\ [][Next]_vars

=============================================================================
