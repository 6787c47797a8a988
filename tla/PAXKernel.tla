------------------------------ MODULE PAXKernel ------------------------------
(***************************************************************************)
(* The PAX runtime kernel (src/unnamed/part_002, the PAXRuntime singleton  *)
(* that AutomationAPI and ValueScanner import): pulse() with its four      *)
(* option flags, neuroSync() appending to the continuity chain, and the    *)
(* vault.  Every method is synchronous.                                    *)
(*                                                                         *)
(* Data abstraction.  A NEUROSYNC token is sha256 of the packet body, cut  *)
(* to 32 hex digits; it is taken as injective, so a token is the body's    *)
(* content: the millisecond timestamp, the mission, the pulse count, the   *)
(* codex flag and the quad-stack mode (the session id is fixed for the     *)
(* process).  A vault entry's hash is sha256 of JSON.stringify(value), so  *)
(* an entry is its value.  The ISO timestamps and notes kept beside the    *)
(* counters feed only the JSON responses and are left out.                 *)
(***************************************************************************)
EXTENDS Integers, Sequences

CONSTANTS
    VaultKeys,    \* the keys the callers use
    Null,         \* null / undefined where the code reads `?? default`
    Undefined,    \* a value JSON.stringify maps to undefined
    Missing       \* vaultGet of a key never set

VARIABLES
    pulseCount, intensity,  \* state.pulse
    codex,                  \* state.codex: [synced, syncCount]
    quadStack,              \* state.quadStack: [enabled, mode]
    chain,                  \* state.continuity.chain
    lastToken,              \* state.continuity.lastToken
    vault                   \* this.vault: key -> value

kernelVars == <<pulseCount, intensity, codex, quadStack, chain, lastToken, vault>>

\* The constructor's state.
KernelInit ==
    /\ pulseCount = 0 /\ intensity = 0
    /\ codex = [synced |-> FALSE, syncCount |-> 0]
    /\ quadStack = [enabled |-> FALSE, mode |-> "parallel"]
    /\ chain = <<>> /\ lastToken = Null
    /\ vault = [k \in VaultKeys |-> Missing]

OrDefault(x, d) == IF x = Null THEN d ELSE x

\* The NEUROSYNC body neuroSync(mission) hashes, at millisecond `now`.
Token(now, mission, count, synced, mode) ==
    [utc |-> now, mission |-> mission, pulse |-> count, codex |-> synced, mode |-> mode]

(***************************************************************************)
(* pulse(opts) at millisecond `now`: the three optional updates in order,  *)
(* then neuroSync when opts.emitNeuro, which reads the state they left.    *)
(* The vault is the caller's to keep or change.                           *)
(***************************************************************************)
Pulse(opts, now) ==
    LET c  == IF opts.incr THEN pulseCount + 1 ELSE pulseCount
        cx == IF opts.codexSync THEN [synced |-> TRUE, syncCount |-> codex.syncCount + 1]
                                ELSE codex
        q  == IF opts.quadUp THEN [enabled |-> TRUE, mode |-> OrDefault(opts.mode, "parallel")]
                             ELSE quadStack
        m  == OrDefault(opts.mission, "SOVEREIGN OPS")
        t  == Token(now, m, c, cx.synced, q.mode)
    IN  /\ pulseCount' = c
        /\ intensity' = IF opts.incr THEN intensity + 1 ELSE intensity
        /\ codex' = cx
        /\ quadStack' = q
        /\ IF opts.emitNeuro
           THEN /\ lastToken' = t
                /\ chain' = Append(chain, [utc |-> now, token |-> t, mission |-> m])
           ELSE UNCHANGED <<chain, lastToken>>

\* vaultSet(key, value) computes the entry's hash before it stores the
\* entry: for a value JSON.stringify maps to undefined, hash.update throws
\* and nothing is stored.  The rest of the state is the caller's.
VaultSetThrows(value) == value = Undefined

VaultSet(key, value) ==
    vault' = IF VaultSetThrows(value) THEN vault ELSE [vault EXCEPT ![key] = value]

=============================================================================
