# TLA+ models of the SLVSS loop and the sovereignty services

This directory holds TLA+ models of the self-scaling verification loop (SLVSS) in
`src/`, of the PAX agent router, and of the sovereignty HTTP API, the PAX kernel
under it and the Electron desktop main process, the TLC configurations that check them, and `PROJECT.json`, which maps
every definition to the source lines it models.

## The system

The loop orchestrator `SLVSSRunner` (`src/unnamed/part_000`) runs a perpetual
tick on a `setTimeout` timer. Each tick does the following:

1. It increments `iteration` and builds a payload of the running aggregates.
2. It awaits `VERI3FY.verify` (`src/sovereignty/loop/VERI3FY.ts`), a gate of
   three weighted stages.
3. On a pass it awaits, in turn:
   - `ScalingEngine.scale`, which recomputes pass/fail streaks over the last 10
     history entries and grows, decays or boosts a scale factor;
   - `AutoGenerator.generate`;
   - `LearningCore.ingest`.

   On a failure it awaits only `LearningCore.ingest`.
4. It records the iteration in a rolling history of 100 entries and schedules
   the next tick if the loop is still running.

The `ScalingEngine` and `LearningCore` classes live in
`src/sovereignty/AutomationAPI.ts`.

Every step logs through `log()` and `emit()`. Both call the EventEmitter's
listeners synchronously, and the bootstrap script `Start-SLVSS.ps1` installs
such listeners.

The other parts of the repository are these:

- The PAX agent router (`src/unnamed/part_001`). `route()` assigns an idle agent
  and awaits a confidence computation.
- The PAX kernel (`src/unnamed/part_002`). This singleton holds:
  - a pulse counter;
  - codex and quad-stack flags;
  - a continuity chain of NEUROSYNC tokens (a sha256 of a packet body);
  - a key/value vault.
- `AutomationAPI` (lines 1-101 of `AutomationAPI.ts`). It is an Express server
  whose routes call the kernel, and two of them call `ValueScanner`
  (`src/sovereignty/ValueScanner.ts`).
- `ValueScanner`. `scanAll()` writes `last_scan` to the vault, pulses and sorts
  its opportunity table.
- The desktop main process (`src/desktop/main.js`), which runs on its own: a
  window, a tray, a `get-shift` IPC handler and a 15-minute cron heartbeat. It
  sends the current UTC shift to the renderer.
- The n8n extraction node, whose `AutoGenerator` class is the generator the
  runner calls.

`PROJECT.json` lists every component under "components".

## Modules

| Module | Models | State and actions |
|---|---|---|
| `Veri3fy` | `VERI3FY.verify` and its three stage functions | The counters `verifyCount` and `passCount`. `Outcomes(p)` is the set of results `verify` can return for payload `p`. `Verify(r)` is the counter update. |
| `ScalingEngine` | `ScalingEngine.scale` and `updateStreaks` | The variables `currentScale`, `passStreak`, `failStreak` and the length of the scale-event log. `Streaks(h)` is `updateStreaks`. `ScaleOutcomes` gives the results of `scale` under its rule priority. `Scale(o)` is the state update. |
| `SLVSSRunner` | `start`, `stop` and `tick`, composed by `INSTANCE` with `Veri3fy`, `ScalingEngine`, `AutoGenerator` and `LearningCore` (memorySize 500, the runner's `new LearningCore()`) | One action per synchronous segment of `tick()` between its awaits, described below. |
| `MCSLVSSRunner` | The model-checking instance | The bounds: 12 iterations, a history window of 10, `maxScale` 2, a scale-log cap of 3 and an artifact-log cap of 2. It also holds the reference checks: constant-level instances of the three engines and the bounded input sets they are checked over. |
| `LearningCore` | `LearningCore.ingest` with `decayPatterns`, `pruneWeakPatterns` and `updateModelVersion` (`AutomationAPI.ts`) | The pattern map as a sequence in insertion order, the counters and the model version. `Ingest(type, k, id)` is one call: decay every pattern, then reinforce the k-th one or insert a new pattern with id `id` and prune. |
| `AutoGenerator` | `AutoGenerator.generate` (`SovereignExtraction.node.ts`) | `generationCount` and the capped `artifactLog`. `TemplateLoop` is the for-loop over the templates, `Generate(in)` one call. `SpecGeneration` is spec 4.4 as a reference. |
| `PAXRuntime` | `PAXRuntime.route`, `assignAgent`, `computeConfidence` (`src/unnamed/part_001`) | Agent status and task counts, the item and vault counters, and the calls suspended at the await. `RouteBegin` is route() up to the await, including the refusal when no agent is idle. `RouteEnd` is the rest. `RouteReject` is the rejection after the await: `computeConfidence` threw on null data, or, in quantum mode, `JSON.stringify` threw on a BigInt or a cycle. It leaves the agent processing. |
| `PAXKernel` | The PAX kernel: `pulse`, `neuroSync`, `vaultSet`, `vaultGet`, `getMetrics` (`part_002`) | The pulse count and intensity, `codex`, `quadStack`, `chain`, `lastToken`, and the vault as a function from key to value (`Missing` when unset). `Pulse(opts, now)` applies the three optional updates in order and then neuroSync; `VaultSet` stores nothing when the hash step throws. |
| `SovereigntyAPI` | The `AutomationAPI` routes and listen callback, with `ValueScanner.scanAll` and `generateReport` | The kernel by `INSTANCE`, plus the millisecond clock `now`, `booted`, the requests served and the last response. There is one action per route, and each request is one action: every handler, and `scanAll`, which the async ones await, runs with no await of its own. `Boot` is the listen callback's pulse. |
| `DesktopMain` | `createWindow`, `createTray`, `whenReady`, `activate`, `window-all-closed`, `get-shift`, the cron heartbeat (`main.js`) | `shift` (1-3), the window's state (`none`, `loading`, `early` = shown by the tray before ready-to-show, `shown`), `loaded` (the page has loaded and registered its listeners; a message sent before that is lost), `sent` (the shift the renderer last received), the tray label's shift, the windows created and `quit`. Time is abstracted to the shift. The UTC hour turns (`HourTurns`) apart from the cron callback (`Quarter`), which reads the shift when it runs. A firing that node-cron misses is a `Quarter` that does not happen. |
| `MCServices` | The API and the desktop process side by side | Interleaves `SovereigntyAPI` and `DesktopMain`, which share no state. |
| `MCLearningCore`, `MCPAXRuntime` | Model-checking instances | The input sets of the runs below. |

### How `SLVSSRunner` follows the code

`tick()` is `async`. It runs synchronously up to each `await` and resumes later,
so each action of the module is one synchronous segment of it:

| Action | Code it covers |
|---|---|
| `TickRunning` | the guards, `iteration++`, and the `verify` call up to its first await |
| `AfterVerifyFailed` | the failure path after `verify` resolves |
| `AfterVerifyPassed` | the pass path after `verify` resolves, including the synchronous body of `scale()`, or of `generate()` when auto-scale is off |
| `AfterScale` | the segment after `scale()` resolves, including the synchronous body of `generate()` |
| `AfterGenerate` | the segment after `generate()` resolves |
| `AfterLearnOk`, `AfterLearnFail` | the segment after `ingest()` resolves, through finalize and schedule |

A tick in flight is an entry of `ticks`, keyed by its iteration number. Its
`pc` names the await it is suspended at. The bodies of `verify()`, `scale()` and
`generate()` and `ingest()` run synchronously when they are called (`CallGenerate` passes
`generate()` the iteration and `currentScale` of that moment), so their state changes happen in the
calling segment. `scale()` reads the runner's shared `this.iteration`
(line 209), not the id of the tick that calls it. `ingest()` is called in `AfterVerifyFailed` when
`learnFromFailures` is set, and on the pass path in the segment whose next
await is the ingest (`LearnIfNext`): `AfterGenerate`, or `AfterScale` without
auto-generate, or `AfterVerifyPassed` with neither auto-scale nor
auto-generate.

The environment has three actions:

- `Start` is `start()`.
- `Stop` is `stop()`. It clears only the timer that `loopTimer` names.
- `TimerFire` is a due `setTimeout` callback.

Pending timers are a set, so two pending timers are possible.

A listener that throws inside `log()`/`emit()` is a fault. Faults are bounded by
`MaxFaults`:

- Inside the `try` block, a fault is caught, and the tick is recorded as failed
  (`Throw`, `Caught`).
- Outside the `try` block, a fault rejects `tick()` or `start()` (`Abort`).
  This covers start's emit, the iteration:start emit, the catch block, the
  completion emit, and the max-iterations log (line 156). After that log the
  loop is left running with nothing scheduled.

`AbortFaults` switches the second kind on.

A wall-clock jump makes one payload stale. It is bounded by `MaxClockJumps`.

### Data abstraction

- Scores are kept in hundredths. Every stage weight is a whole number of
  hundredths.
- Scales are fixed point with 4 decimals, the precision `toFixed(4)` keeps.
  When a value lies exactly on a rounding tie, both neighbours are possible
  outcomes.
- The exact `avgConfidence = 0.70` comparison is also a nondeterministic choice.
- The depth-2 score is the double 0.6499999999999999.
- The node name and the learner version are reduced to the facts the gate
  tests, and both always pass.
- The ROI sums are not modelled. `avgROI` is never negative, so they decide
  nothing.
- `LearningCore`: an input is abstracted to the pattern id it hashes to. Only
  id equality matters, so an input is "the k-th stored pattern of its type" or
  "an id not stored". Weights have 6 decimals; a decay that lands exactly on a
  rounding tie may go either way. The stable sort of the prune is expressed as
  the rank of each entry: lighter, or as heavy and inserted earlier.
- The learner inside the runner: `Learn(type, id)` looks up the pattern id that
  `extractFeatures` and `hashFeatures` derive from the data the runner passes.
  A failure passes `vResult`, six keys, so its id is its score band and the
  number of errors of each stage (the `STAGEn` prefixes are pushed stage by
  stage). A success passes `{vResult, scale}`, two keys, so its id is
  `floor(log2(scale + 1))`: every pass of one scale band hits one pattern.
  Distinct feature lists are taken to hash apart.
- `AutoGenerator`: an artifact is the type of the template that made it; the
  template bodies only format text.
- `PAXRuntime`: a request is its operation, its number of keys and its number
  of value keys, which is all `computeConfidence` reads.
- `PAXKernel`: a NEUROSYNC token is taken as injective in the packet body.
  - A token is therefore the body's content: the millisecond, the mission, the
    pulse count, the codex flag and the quad-stack mode.
  - A vault entry is its value. A value that `JSON.stringify` maps to
    `undefined` (a body without `value`) is the model value `Undefined`. For
    that value the hash step throws.
  - ISO strings and notes are left out.
- `SovereigntyAPI`: the opportunity table keeps `id`, `roi_score` and
  `monthly_value`, which are the fields the sort and the report's total read.
  The response text is reduced to the route, the status and the facts it
  carries.

## Runs

### Passing runs

| Run | Config | Checks | Bounds |
|---|---|---|---|
| runner_safety | `MCSLVSSRunner.cfg` | `TypeOK` (the history window included), `ScaleWithinBounds`, and the reference checks `StreaksMatchReference` (spec 4.2 rule 1), `GenerationMatchesSpec` (spec 4.4) and `GateMatchesSpec` (spec 4.1); for the learner the runner feeds, `WeightsWithinUnit` (reinforcement never lifts a weight past the 1.0 cap) and `PassesLearned` (every recorded pass was ingested as a success, and no success was ingested that `totalPassed` does not count) | 1 start, 2 faults of either kind, 1 clock jump; the success pattern is reinforced on every pass and reaches the cap; about 511k states |
| runner_liveness | `MCSLVSSRunnerLive.cfg` | `Progress` (a failed tick is followed by the next while running), under the fairness below | Two starts with `stop()` in any interleaving, 5 iterations, 1 fault inside the try, 1 clock jump, auto-scale off, so `generate()` runs after `verify()`; about 195k states, 2.5 minutes |
| learning_capacity | `MCLearningCore.cfg` | `WithinCapacity`, `PruneEvictsWeakest` | `memorySize` 10, 12 ingests of which 1 repeats a stored id; the memory overflows twice; about 215k states |
| services | `MCServices.cfg` | `WindowCatchesUp` (every open window, one the tray showed early included, comes to hold the current shift unless it closes; this holds although the hour turns apart from the cron and a heartbeat sent before the page has loaded is lost). The API half checks no property: it is there so that every route runs against the kernel. A vault write answered with 500 leaving the vault unchanged would only restate `VaultSet`. | one client key and the reserved `last_scan`, values `v1` and `Undefined`, every flag combination of a pulse body, 3 requests in 2 milliseconds; macOS (so `activate` and reopening are reachable), 2 windows, every shift; about 1.2M states, under 2 minutes |
| pax_agents | `MCPAXRuntime.cfg` | `AgentsExclusive` (no agent serves two suspended calls, and every agent serving one is processing, with agents leaked by rejected calls among them) | 3 agents, 5 route() calls with any interleaving of their continuations, two of them on data that rejects; every agent busy and the refusal are reached; about 202k states |

Each reference check has two conjuncts:

- a constant-level formula over bounded inputs, which TLC evaluates once:
  - every history of up to 12 `passed`/`failed` entries, and of up to 7
    entries that include `scaled` and `running`;
  - generator inputs on and just under every template gate;
  - payloads on both sides of every stage rule;
- the same reference applied to the runner's state:
  - the streaks of the current history;
  - the type of every logged generation;
  - the verdict of every tick in flight.

### Violation runs

Each violation run checks one property, and TLC finds it broken:

| Run | Config | Property |
|---|---|---|
| two_ticks | `MCTwoTicks.cfg` | `AtMostOneTick` |
| scale_up_every_tick | `MCScaleUps.cfg` | `ScaleUpsNeedFreshStreak` |
| double_count | `MCDoubleCount.cfg` | `TotalsMatchRecords` |
| failure_spiral | `MCSpiral.cfg` | `NoFailureSpiral` |
| gate_depth2 | `MCGateDepth2.cfg` | `GateMatchesSpec`, with depth 2 and threshold 1.0 |
| mid_tick_snapshot | `MCSnapshot.cfg` | `SnapshotIsPreTick`, with no faults |
| silent_stall | `MCStall.cfg` | `Progress`, with `AbortFaults` on |

`PROJECT.json` "findings" explains what each one shows:

- Two tick chains after `stop()` then `start()`.
- A scale-up on every passing tick.
- A faulted tick counted twice.
- A permanent failure spiral caused by the average-confidence bias.
- A depth-2 gate that can never pass at threshold 1.0, because
  0.35 + 0.30 is the double 0.6499999999999999, which is below 1.0 × 0.65.
- A snapshot taken while a tick awaits that shows the new iteration with the
  old totals: `iteration++` happens before the first await.
- A silent stall when a listener throws outside the `try` block.

A pattern memory under 10 entries is never pruned, because
`floor(memorySize * 0.1)` is 0. This is listed as a hazard: setting
`memorySize` below 10 in `MCLearningCore.cfg` makes `WithinCapacity` fail.
No caller in the repository uses such a size.

## Bounds

- **12 iterations.** This passes the warm-up (iteration > 5 enables the
  confidence rule), the scale rule at iteration > 10, and the periodic boost at
  10.
- **History window of 10.** It is exceeded at iteration 11, so eviction
  happens, and it still covers the whole streak window.
- **`maxScale` 2.** It is reached after four scale-ups, so the cap is hit.
- **Scale-log cap of 3.** It is reached as well.
- **Artifact-log cap of 2.** Passing ticks generate more than two times, so
  the log is trimmed.
- **One start in the safety run.** Two starts multiply the interleavings of
  two chains, so the liveness run, which has two, uses 5 iterations.
- **`memorySize` 10** is the least size whose prune removes a pattern
  (`floor(10 * 0.1) = 1`); 12 ingests overflow it.
- **Three agents and five calls** let every agent be busy at once, a further
  concurrent call be refused, freed agents be reassigned, and two rejected
  calls leak their agents.
- **Services.**
  - Three requests let a write fail, a scan run and a state read follow them.
  - Two milliseconds let two pulses share a millisecond or not.
  - Two windows let a window close and be reopened by `activate` or the tray.
  - The mode and mission of a pulse body only change token contents that no
    property reads, so the config gives no extra value for them.
- **Generator inputs** sit exactly on and just under each template's
  thresholds, so every gate is decided both ways.

## Fairness

Node.js eventually runs every resolved continuation and every due timer. So
`TimerFire` and each `Resume(k)` are weakly fair. `start()`, `stop()` and faults
are choices of the caller and get no fairness.

In `PAXRuntime` the continuation of each call (`RouteEnd(c)` or
`RouteReject(c)`) is weakly fair: `computeConfidence` has
no await of its own, so a suspended `route()` resumes from the microtask
queue, which Node.js always drains. New `route()` calls are the callers'
choice and get no fairness. The `LearningCore` run checks safety only.

In `DesktopMain` three actions are weakly fair:

- `PageLoaded`, because the renderer finishes loading its page;
- `ReadyToShow` for a window still loading, because Electron fires
  ready-to-show once a hidden window has rendered;
- `Quarter`, because node-cron keeps firing while the process lives, even
  if it misses one firing.

Electron does not promise ready-to-show for a window the tray has already
shown, so that case gets no fairness. The hour turning and the user's
clicks get no fairness either. The
API's requests are the clients' choice and get no fairness.

## Not modelled

- The desktop preload bridge (the second half of `part_002`). It only wraps
  `ipcRenderer` calls and holds no state; the main-process side of each call
  is in `DesktopMain`.
- The desktop agent table and the `open-*` IPC handlers. They only pass URLs
  to the browser.
- The tray's "Current Shift" label is modelled (`trayShift`), but no property
  checks it. It is computed once and goes stale at the first shift boundary;
  this is listed as a hazard.
- That a `PAXRuntime` agent is eventually idle again. A call on null or
  unserializable data rejects after the await and leaves its agent
  processing for good (`RouteReject`), so this is false in the code. No
  comment or text promises otherwise, so it is a listed hazard, not a
  finding.
- The n8n node's `execute`, an I/O wrapper over input items.
- `Start-SLVSS.ps1`, a launcher, and `SOVEREIGNTY.md`, which is prose.
- `maxIterations = 0`, the unbounded default of the singleton. It is replaced by
  a finite bound.
