# Omnodex in TLA+

Models, model-checking runs and machine-checked proofs for the parts of Omnodex where several
processes, crashes or an unreliable cloud meet shared state. Source paths are relative to the
repository; `PROJECT.json` maps each definition to the lines it stands for.

1. [The system](#the-system)
2. [Modules](#modules)
3. [Runs: what is checked and what it shows](#runs)
4. [Bounds](#bounds)
5. [Fairness](#fairness)
6. [Proofs](#proofs)
7. [Where the code and its comments differ](#where-the-code-and-its-comments-differ)
8. [Abstractions and what is not modelled](#abstractions-and-what-is-not-modelled)
9. [Plan](#plan)

## The system

Omnodex records what coding agents do. Interceptors append trace events to a log of one JSONL file
per session; everything else is derived from that log.

```
 hook workers (one process per event)      MCP proxy (one process per agent)
          |  applyCapturePause                     |
          v                                        v
   event-log/sessions/*.jsonl  <----- pause markers, findings, sync.pushed
      |            |         \
      |            |          \-- sealPending --> seals.jsonl  (evidence)
      |        Projector                    (export --follow tails the log as well)
      |            v
      |        traces.db  <---- dashboard: replays, then tails, projects, detects, pairs
      |            |
      |     syncSegments ---> PUT segments/:id, PUT manifest  (cloud)
      \-- pushEventsToCloud -> live relay
```

No process owns a file. The files of `OMNODEX_HOME` are read and written by whichever hook, child,
proxy or command happens to run, guarded by two lock files at most. That is where the difficult
behaviour is. The dashboard, the proxy and the export follower are long-lived processes with an event
loop; there the difficulty is what happens between two awaits.

| Component | State it keeps | Operations | Hard behaviour | What makes it correct |
|---|---|---|---|---|
| Event log, `packages/event-log/src/index.ts` | session files, `index.jsonl` | `append`, `readAll`, `tail`, `listSessions` | appends of many processes, torn last lines, double registration of a session | every whole line is read once, in order |
| Sealing, `packages/cli/src/evidence/seal.ts` | `seals.jsonl`, `seal.lock`, `seal-key.json` | `sealPending`, `buildBundle`, `verifyBundle` | two sealers past the lock, crash with the lock held, torn append, key half-written | nothing is skipped or sealed twice, the chain does not fork, one key |
| Capture pauses, `packages/event-log/src/capture-pause.ts` | `pause-state.json`, `local-only-seen`, markers in the log | pause, resume, settle, `applyCapturePause` | the file is guarded by nothing; upload paths look at a flag once | a pause lasts as asked; local-only events stay on the machine |
| Background pass, `packages/sync-encryptor/src/auto-sync.ts` | `auto-sync-state.json`, `auto-sync.lock` | `startBackgroundSync`, `runAutoSync`, `acquireSyncLock` | read-modify-write from many hooks, torn reads, stale locks, a child turned away | a requested pass happens, starts are spaced, the cloud's gap is kept |
| Segmented sync, `packages/sync-encryptor/src/segment-sync.ts` | `sync-segments.json`; in the cloud, segments and the committed list | `syncSegments`, `putSegment`, `commit` | lost answers, crash between commit and manifest, refused commits | the cloud shows each session once, at the stage that was read, and no session that is gone |
| Live push, `shim-push.ts`, `live-gate.ts`, `streaming-transport.ts`, the proxy's `cloud-push.ts` | deferred queue, shared gate, batches in memory | `deferLivePush`, `takeDeferredPush`, `pushEventsToCloud`, `enqueue`, `close`, `stop` | the queue is taken before the gate is read; the gate is read-modify-write; events queued while a push is on its way; events encrypted side by side, and past `stop` | an event is pushed at most once and accounted for; the proxy's events arrive in order; the gate stays closed as long as the refusals ask |
| Usage and signals, `detect-log.ts`, `advanced-usage.ts`, `rule-signals.ts` | marks per session, pending counts, a batch in flight | detect, add, collect, submit | lost answers, resend under one batch id, expiry, a stat before a read | what was counted is billed once, or dropped and recorded so; no event is skipped |
| Monitoring, `monitoring-check.ts`, `monitoring-heartbeat.ts` | slots, last heartbeat | check, send | state saved before the events it explains | a change is reported once |
| Credentials and refreshes | `stream-config.json`, license, rules, guardrails, policy caches | collect token, pull | read-modify-write of the configuration | no setting is lost |
| MCP proxy, `packages/mcp-proxy` | upstream entries, tool index, session | connect, retry, `callTool`, `tools/list`, `startSession` | concurrent reconnects, late errors of replaced connections, overlapping timers, lists that pass one another | one attempt, connection or timer per upstream; the tools offered are those of the connection; retries end; the session knows what was observed |
| Hook providers | none (one process per event); in cloud containers, `container-hook.ts`: the spool, remainders, claims | map a payload, append, start a pass; `appendToSpool`, `claimPending`, `flushSpool`, `keepPending` | a killed or slow flush, claims two flushes share, a batch with no answer | an event is on disk until the cloud has it, and is sent again only after a failure |
| Projection, `packages/projection` | read model | `apply`, `replay`, `runCorrelation`, `collapse` | a line projected twice, two rows for one call, a pass between two rows | replay is a function of the log |
| Dashboard, `packages/cli/src/streaming.ts` | tails, the correlation timer, what the evaluator knows | startup, `pollForRoot`, tail, `stop` | events between the replay and the tail, an index line written twice, `stop` beside all of it | the live read model is what a replay would give; nothing is written after `stop` |
| Export follower, `packages/cli/src/export-command.ts` | watermark, output, rotated files | `begin`, poll, rotate, write, save | kills between any two writes, removed sessions, half lines | each event is exported at least once, and again only after a kill |
| Analyzer, `packages/analyzer` | watermark of `detect-log.ts`, known servers and hosts | `detectEventLogs`, rules, `resolveVerdict` | overlapping passes | findings are idempotent; the most specific policy entry wins |
| Rest of the CLI, `packages/cli` | registry, update cache | commands | | each does what it says, alone |
| Shared, license client | types; license cache | pure functions; one request | | |

How they interact: hooks append to the log, ask `startBackgroundSync` for a pass and spawn it as a
detached child; the child runs detection, sealing and the sync one after the other under the sync
lock, and a sync made by hand takes the same lock. Pauses reach the other components only through
the log (`local_only`) and through the flag `local-only-seen`. The dashboard and the sync share
`traces.db`. `PROJECT.json` lists the hazards at the lines where they bite, with the property
that would catch each one.

## Modules

| Module | Models | Its state and actions in the code |
|---|---|---|
| `SealChain` | `seal.ts`, appends of `event-log`, `omnodex clear --session` | `log`, `tail`: session files. `locked`, `aged`: `seal.lock`. `seals`, `unended`: `seals.jsonl`. `key`: `seal-key.json`. `pc`, `attempt`, `job`: the locals of each `sealPending`. `TryCreate`, `StatLock`, `RemoveLock` are the three system calls of `acquire`; `ReadLast`, `Scan`, `EndScan`, `ReadKey`, `CreateKey`, `WriteKey`, `AppendSeal`, `Release` follow the body of `sealPending` |
| `SealedLedger` | what sealing promises | a set of heads that only grows, each extending one that is there by events no seal of its chain holds |
| `SealChainProofs` | theorems about `SealChain`: what a seal holds, the order of seals, the key, and the refinement of `SealedLedger` | |
| `MCSealChain` | TLC instances, symmetry | |
| `CapturePause` | `capture-pause.ts`, `capture-controls.ts`, the filter of `shim-push.ts` and `sync-runner.ts` | `state`: the pause file. `log`, `markers`: the log. `localSeen`: the flag. `Settle`, `SaveSettled`, `ReadState`, `StartPause`, `EndPause`, `AppendMarkers` are the reads and writes of a command; `ReadBeforeWrite`, `AppendEvent`, `Push` those of a hook, with `FailToSettle` and `FailToMark` for what its `catch` makes of an error; `Stop` kills a call, or fails it, at any of them; `SyncBegin`, `SyncReplay`, `SyncSend` those of `syncOnce`; `DashboardProjects` the dashboard's projection into the shared model |
| `CapturePauseProofs` | theorems about `CapturePause` | |
| `MCCapturePause` | TLC instances, symmetry | |
| `BackgroundPass` | `auto-sync.ts` with its callers in the hook worker and `omnodex sync` | `file`: the state file, `Torn` between truncation and write. `lock`: owner and age. `HookEvent` to `Spawn` are `startBackgroundSync`; `CreateLock` to `ReleaseLock` are `runAutoSync` and `acquireSyncLock`, with detection and sync as two steps each |
| `BackgroundPassProofs` | theorems about `BackgroundPass` | |
| `MCBackgroundPass` | TLC instances | |
| `SegmentSync` | `segment-sync.ts`, the routes of `segment-transport.ts` | `manifest`: `sync-segments.json`. `held`, `visible`, `shownAs`: the cloud. `sync`: the locals of `runOnce`. `Begin` classifies, `PlaceInOpen`, `PlaceInNew`, `EndPlacing` place one slice each, `Put` uploads one segment, `SkipCommit`, `Commit`, `StartAfresh` are the three outcomes of step 6, `Save` is step 7. `Record`, `GrowOld`, `Clear`, `Relabel` go on beside it |
| `UploadProofs` | theorems about `SegmentSync` and `ContainerSpool`, the two ways captured events are uploaded | |
| `UpstreamPool` | `upstream-client.ts` for one entry, and the start of a session in `proxy-server.ts` | `entry`: the `UpstreamEntry`. `client`, `timers`: what attempts made and what is still to fire, referred to or not. `List`, `Attach`, `AttachLate`, `FailAttempt` are the awaits of `attempt`; `Fire`, `RetryFailed` and `Disconnect` start others; `AskTools` to `FailTools` are a `list_changed` handler; `Send` to `Resume` a `callTool` with its one reconnect; `StartSession`, `SessionStarted` the two writers of an observation |
| `LivePush` | `shim-push.ts`, `live-gate.ts`, `streaming-transport.ts`, `cloud-push.ts` | `queue`, `appending`: the deferred file and who has it open. `file`, `open`: the gate's file; `memory`: the gate of the dashboard's transport. `push[p]`: a push, step by step (`Take`, `ReadTaken`, `CheckGate`, `Post`, `Record` with its truncated write). `Enqueue`, `DrainTimer`, `NextBatch`, `Close` are the proxy's; the transport's are `PushStream`, from where an event is in `encrypting` until `Buffer` or `Withhold`, `FlushTimer` and `Stop` |
| `LivePushProofs` | theorems about `LivePush` | |
| `UsageMeter` | `detect-log.ts`, `advanced-usage.ts`, `rule-signals.ts` | `marks`: `detect-state.json`. `log`, `stale`: `rule-signals.jsonl` before and after its rename. `file`: pending counts and the batch. `pass`: the pass, step by step (`Stat`, `Read` or `ReadNothing`, `AppendFindings`, `WriteMarks`; `TakeLog`, `ReadLog`; `AddCounts`, `Submit`, `Send`, `Finish`). `wire`, `billed`: requests and the cloud. `skipped`: calls a mark covers that no pass counted |
| `UsageMeterProofs` | theorems about `UsageMeter` | |
| `LiveDashboard` | `cmdDashboard`, `streaming.ts`, `append` and `tail` of `event-log`, the counters and the correlation of `packages/projection` | `file`, `half`, `index`: the log. `store`: the read model. `tail`: each session's tail. `Rebuild`, `Replay`, `Prepare`, `FirstPoll`, `NextPoll` start it up and poll the index; `Seed`, `ReadOn`, `Work`, `AppendRisk` are a tail; `TimerFires` is the correlation pass; `Abort`, `Settled` are `stop`. `Take` is one hook call of the correlation loop, `Pairs` the loop |
| `EventLoopProofs` | theorems about `UpstreamPool` and `LiveDashboard`, the processes that run as long as the agent does | |
| `ExportFollower` | `export-command.ts`, `export --follow --out` | `follower`: the locals of `runExport`. `watermark`, `out`, `cut`, `rotated`: its files. `Start`, `BeginAtEnd`, `ListFiles`, `StatFrom`, `Read`, `EndPoll`, `Shift`, `Rotate`, `Write`, `Truncate`, `Fill` are its system calls; `Kill`, `KillWriting` end it at any of them |
| `ExportFollowerProofs` | theorems about `ExportFollower` | |
| `ContainerSpool` | `container-hook.ts` | `file`: what a name or a descriptor refers to, so that it survives a rename. `hook`: the locals of each call. `Capture`, `AppendEvent`, `Due` are `appendToSpool`; `ListClaims` to `Stamp` are `claimPending`, `ReadClaim` to `UnlinkClaim` `flushSpool` and `keepPending`, one system call or request each. `Kill` ends a hook anywhere, `Age` lets a file become `STALE_CLAIM_MS` old |
| `MCContainerSpool` | TLC instances, symmetry | |
| `MCUpstreamPool`, `MCLivePush`, `MCUsageMeter`, `MCLiveDashboard` | TLC instances | |

The modules do not share variables: what one component takes from another is abstracted in the
module that takes it (the sync of `BackgroundPass` is one step with an outcome, `SegmentSync` is
what happens in that step; `SegmentSync` assumes one sync at a time, which is what the lock of
`BackgroundPass` is for; `LivePush` leaves out the local-only filter that `CapturePause` models, and
`LiveDashboard` the push it starts, which is in `LivePush`). Definitions that follow one another under two names, of which the first is
used nowhere, are mistakes one could make in the code; each shows that a property notices it.

## Runs

Every property of a passing run is violated when one definition is replaced by the mistaken one that
`PROJECT.json` names beside it.

**`seal_chain`** (`MCSealChain.cfg`). Two sealers, two session files, one killed sealer, one torn
append. `NothingSkipped`: whatever stands before a seal's offsets is in its head, even when sealers
overlap. `SealedOnce`: no event twice along a chain. `ChainUnforked`: every seal is signed with the key
in the file, and continues from the one before it, unless two sealers were past the lock together.

**`seal_ledger`** (`MCSealLedger.cfg`). Without torn appends, `SealChain` implements `SealedLedger`
under the mapping `heads <- Heads` (`LedgerSpec`), with a session cleared on the way.
`EventuallySealed`: what was written is sealed, unless the process that created `seal-key.json` died
before it wrote the key; after that the code never makes another seal.

**`capture_pause`** (`MCCapturePause.cfg`, 6.9 million states). A person's commands, a hook, a sync and
the dashboard; two calls are killed, or have a write fail, anywhere. `IntentKept`: a pause is in the file
until it is resumed, replaced or over. `PauseObeyed`: events obey the pauses that held from the start of
their hook to their write, except those whose hook could not write what it settled: `applyCapturePause`
returns them as they came, under whatever pause of the other kind is active (`caught`). `MarkersTellAll`:
whenever no call is in progress, also after a kill, the markers give every pause its start and, when it is
over, an end. A missing one is one that a call still owed when it stopped between its write of the file and
its append, or that it dropped when it could not mark the home (`lost`): nobody else makes up for it, since
the file does not show it any more. These three hold as long as no write of the unguarded file undid another
(`raced`). `LocalOnlyKept`: what was recorded under a sync pause stays on the machine, unless the first such
event was written during a sync of the shared model, or when the home could not be marked (`mixed`).

**`background_pass`** (`MCBackgroundPass.cfg`, 1.2 million states). A hook, a child and a sync by hand, torn
reads of the state file, one process killed anywhere. `PendingKept`: a pass that was asked for is pending
in the file or somebody is acting on it. `GapKept`: no sync is sent inside the gap the cloud asked for. The
history variables are reset when a write undoes another or a torn file is read, so these two hold
up to exactly those losses. `EventuallyAnalysed`: whatever is left behind by a killed process (the lock, a
truncated state file, an attempt with no child), and with a sync by hand in the way, every event is read by
a detection that succeeds.

**`segment_sync`** (`MCSegmentSync.cfg`, 760 thousand states). Two sessions change, grow old, are cleared
and come back; the label changes; the cloud retires segments whose sessions are old; one sync ends at any
step or the manifest is lost. `ShownOnce`: no session is visible in two segments. `ManifestTrue`: a segment
the manifest names has the content its hashes describe, and when every commit was recorded the cloud
shows no other. `WellPlaced`: each session in one segment, one open segment, and only a single session makes a
segment larger than the seal size. `Delivered`: a sync that commits, or finds nothing to
commit while the manifest is up to date, leaves in the cloud exactly what it read. `EventuallyShown`: a
session that stays comes to be shown at the stage it has, through refused commits and the upload from
an empty manifest.

**`upstream_pool`** (`MCUpstreamPool.cfg`, 670 thousand states). One upstream, over stdio or HTTP, with
attempts, timers, calls, announcements and the start of a session in every order. `OneAtATime`: an attempt,
a connection and a retry timer are never two at a time, and the entry's state says which there is; over
HTTP until an attempt begins beside another, which two calls that meet a lost session together bring
about; until then no open client is anybody's but the entry's. `ToolsCurrent`: with nothing on
its way the tools offered are the server's, unless an announcement was lost, a listing failed or one answer
passed another. `GivesUp`: a stdio upstream that crashes again and again reaches the retry limit.
`ObservationKept`: the session holds the observation of a connected upstream once, twice when it was made
while the session started. `Recovers`: an upstream does not stay failed or connecting for ever.

**`live_push`** (`MCLivePush.cfg`). Hooks, one killed anywhere, with the proxy beside them; or the dashboard's
transport. `EachOnce`: every event is in one place: on its way, received once, given up, or appended to a
queue that had already been read. `InOrder`: the events of the proxy reach the relay in order; the transport
promises none, and keeps none, for its events are encrypted side by side. `GateTells`: unless pushes
overlapped, the gate is closed for exactly as long as the refusals in a row ask for. `EndIsDrained`: what was
queued before `close()` is not on its way after it; nor after `stop()` what was in the buffer when it was
called, unless a batch was on its way then. An event still being encrypted is buffered after the last flush.

**`usage_meter`** (`MCUsageMeter.cfg`). Both meters: calls and findings in two sessions, a pass killed
anywhere, answers lost, days going by. `BilledOnce`: no unit is in two accepted batches. `Accounted`: a
unit that is marked as counted is in one place, and what was dropped is billed only if an answer was lost; only the
first calls of a session that a pass looked at before it held a whole event are marked and in none (`skipped`).
`NothingMissed`: a session the next pass skips has been judged to its end. `Settles`: once calls end nothing stays pending.

**`live_dashboard`** (`MCLiveDashboard.cfg`). The dashboard from its first read to its end, with the two
observations of each call, a finding, a half-written line and a session registered twice.
`ReadModelTrue`: what a tail has passed is in the read model, nothing is counted twice, and nothing is
there that is not in the log. `PairedAsReplayed`: once all is quiet a routed call is shown once, with the
pairs, marks and servers a replay would find, unless history was replayed since the last pass.
`QuietAfterStop`: nothing writes to the store after `stop()` resolved. `EventuallyShown`: what is appended
while it runs comes to be shown. Both properties but `QuietAfterStop` except what was appended between
the replay and the tail's start (`missed`).

**`export_follower`** (`MCExportFollower.cfg`). Two session files, one kill anywhere, one removal.
`AtLeastOnce`: a whole line behind the saved watermark has been written, but for three exceptions the
module names. `NotRepeated`: an event whose watermark was saved is not written again, and another only
after a kill; but a start with `--since` that finds the watermark truncated writes its whole history again
(`retold`). `KeptFiles`: what is retained is
the newest of what was written, and nothing is deleted too early unless a rotation was killed.
`EventuallyExported`: every whole line comes to be written.

**`container_spool`** (`MCContainerSpool.cfg`, 5 million states). Two hooks of a container capture, claim,
send and keep side by side, and any two things go wrong: a hook is killed, a running flush stands still until
its claims look abandoned, a batch is refused or has no answer. `KeptUntilSent`: an event is on disk until the
cloud has it or it is dropped by a rule of the code, but for what is written to a file that a flush has read.
`SentOnce`: the cloud is given an event again only after a kill, a lost answer, or a claim that looked
abandoned.

**`export_gap`** (`MCExportGap.cfg`) violates one sentence of the documentation; see
[below](#where-the-code-and-its-comments-differ).

## Bounds

| Run | Bounds | Why they are enough for the cases that matter |
|---|---|---|
| `seal_chain` | 2 sealers, 2 files, 2 events, 1 crash, 1 torn append | overlap needs two sealers; an append between the scans of two files needs two of each; a torn line needs one before and one after it |
| `seal_ledger` | 2 sealers, 1 file, 2 events, 1 crash, 1 clear | a shortened file and an event after it; liveness multiplies the states, so one file |
| `capture_pause` | 1 hook, 1 person, 2 pauses, 1 event, 2 faults, times 0 and 1 | one expiry, one pause after it; two processes suffice for every read-write race on one file; a failed write of what was settled beside a call killed before its markers |
| `background_pass` | 1 hook, 1 child, 1 sync by hand, interval 1, period 1, stale age 1, gap 1, 1 failure | a hook and a child that write from one read; each can be the one that dies with the lock; liveness multiplies the states. Any number of hooks and any intervals are covered by the proofs of `PendingKept` and `GapKept` |
| `segment_sync` | 2 sessions of 2 stages, seal size 2, 2 labels, 7 ids, 1 failure | one stage fills half a segment, two stages fill one alone, so an open segment overflows, a sealed one loses a session, and a segment empties; 7 ids are never all in use |
| `upstream_pool` | 3 clients, 2 calls, delays 1 and 2, 1 manual retry; stdio with 3 tool lists and no session yet, HTTP with 1 and an open session | two calls that lose one session, a third client beside the two they make; two announcements of which one passes the other; a doubling that reaches the limit |
| `live_push` | 2 hooks, back-off 1 to 2, a queue of 1, batches of 2, 3 events, 1 kill, both deployments | a hook that defers beside one that takes, a queue that overflows, a refusal after a refusal, an event queued while a batch is on its way |
| `usage_meter` | 2 sessions, 2 ids, 2 calls, 1 day of age, 1 crash, both meters | a call between a stat and a read, a session looked at before its first whole event, a batch resent after a lost answer beside units that wait, a unit that expires in each place |
| `live_dashboard` | 2 calls of one tool, 1 flagged, 1 half-written line | two calls that look alike are the least that can be paired wrongly; a line read in two pieces |
| `export_follower` | 2 files, with and without `--since`, output of 2 halves, 2 rotated files, 3 events, 1 kill, 1 removal | every write of more than one line overflows the output; a file removed and written again under its name; a kill in each rotation step |
| `container_spool` | 2 hooks, 2 events, spool 2, batches of 1, remainders of 1, 4 files, 2 faults | two flushes at once; a batch that fails after one that was sent; a remainder over the limit; a fault in the flush that takes over from a faulty one. of 4 files one is free in every state in which a hook makes a file |
| `export_gap` | 1 file, 1 rotated file, 2 events, 1 kill | |

Larger instances were checked while the modules were written, with the same results: for `SegmentSync`
three sessions of one stage each, three stages of two sessions, and two failures; for `UpstreamPool` over
HTTP with two tool lists; for `CapturePause` two events with one fault; type invariants of every module.

The writers of `LiveDashboard` stop when the dashboard has stopped, a session is registered a second time
only at the start, a line is seen half written only while a tail polls, and a tail wakes only when there is
something new: none of these removes a behaviour the properties tell apart.

`Forever` in `CapturePause` is past the last time. Ages in `BackgroundPass` stop at the largest
value the code tells apart. Ids in `SegmentSync` are reused once nothing refers to them, which random
ids of 128 bits cannot be told from.

## Fairness

* `SealChain`: a sealer that runs takes its next step (it waits for nobody), a lock that stays grows
  old, and sealing keeps being started, since a pass seals at every session end (`Start`).
* `BackgroundPass`: agents keep working, so hooks keep running (`HookEvent`) and finish (`HookStep`);
  a running pass takes its next step (every request has a timeout); time passes (`Tick`). The children
  are started by hooks only. Killed processes and failed detections are bounded.
* `SegmentSync`: a running sync takes its next step, and syncs keep being started. Failures are
  bounded; nothing is assumed of the sessions or of the cloud's retention.
* `UpstreamPool`: every await of an attempt and of a call has a timeout, timers fire, and a client
  nobody refers to is collected (`Forget`, bookkeeping of the bound). Nothing is assumed of the server,
  nor of people who retry by hand.
* `UsageMeter`: a running pass takes its next step or ends, passes are started again (`PassStep`), and days
  go by (`NewDay`). Calls are bounded; the cloud may refuse for ever, since old counts are dropped.
* `LiveDashboard`: the event loop runs what is due: the startup and the poll of the index, and each session's
  tail; a writer ends the line it began. Nothing is assumed of `stop`.
* `ExportFollower`: a running follower takes its next step, and one that ended is started again.
* `CapturePause`, `LivePush` and `ContainerSpool`: none. Their properties are safety properties, and every
  call may stop anywhere.

## Proofs

Eight modules hold proofs, for any sets of processes, files, sessions and ids and any bounds. Each rests
only on the named assumptions of its component, which TLC evaluates in every run. The theorems the checks'
properties are stated by:

| Module | Theorems | Assumptions |
|---|---|---|
| `SealChainProofs` | `TypeCorrect`, `InvCorrect`, `NothingSkippedAlways`, `SealedOnceAlways`, `OneKeyAlways`, `ChainUnforkedAlways`, `LedgerImplemented` | `SealerAssumption`, `BoundAssumption`; the refinement for `MaxTears = 0` |
| `CapturePauseProofs` | `TypeCorrect`, `IntentKeptAlways`, `PauseObeyedAlways`, `MarkersTellAllAlways`, `LocalOnlyKeptAlways` | `PauseProcesses`, `NoPause`, `PauseBounds` |
| `BackgroundPassProofs` | `PendingKeptAlways`, `GapKeptAlways` | `TimesAssumption`, `ProcessesAssumption`, `StatesAssumption` |
| `UploadProofs` | `TypeCorrect`, `IInvCorrect`, `ShownOnceAlways`, `ManifestTrueAlways`, `DeliveredAlways`, `WellPlacedAlways` of `SegmentSync`; `KeptInvCorrect`, `KeptUntilSentAlways`, `OnceInvCorrect`, `SentOnceAlways` of `ContainerSpool` | `SegmentAssumption`, `SegmentBounds`; `SpoolAssumption` |
| `EventLoopProofs` | `OneAtATimeAlways`, `ObservationKeptAlways`, `ToolsCurrentAlways`, `GivesUpAlways` of `UpstreamPool`; `DashboardInvAlways`, `ReadModelTrueAlways`, `PairedAsReplayedAlways`, `QuietAfterStopAlways` of `LiveDashboard` | `PoolAssumption`; `DashboardAssumption` |
| `UsageMeterProofs` | `TypeCorrect`, `IInvCorrect`, `BilledOnceAlways`, `NothingMissedAlways`, `AccountedAlways` | `MeterAssumption` |
| `ExportFollowerProofs` | `AtLeastOnceAlways`, `NotRepeatedAlways`, `KeptFilesAlways` | `FollowerAssumption` |
| `LivePushProofs` | `TypeCorrect`, `IInvCorrect`, `EachOnceAlways`, `InOrderAlways`, `GateTellsAlways`, `EndIsDrainedAlways` | `PushAssumption` |

None of the properties is inductive. What each invariant adds:

* **Seals.** `NothingSkipped` and `SealedOnce` speak of the lines of `seals.jsonl`, but a new line is made
  of what its sealer read several steps before, while others appended events and seals. `IInv` is
  `TypeOK` with three parts. `LogOK`: an event's number stands on one line of one file. `SealsOK`: for each
  good line, its head and its offsets agree (`Agrees`): in every file that was not cleared, what the head
  folded in is what stands before the offset, no more and no less, and the sets of the head are disjoint.
  `JobsOK`: the same for what a sealer holds in memory. Agreement is preserved by appends to the log (they
  are past every offset), by a scan (`ScanAgrees`), by a clear (the file is excepted), and is handed from
  the newest seal to the sealer and from the sealer to its line (`NewSealOK`). The lock appears nowhere in
  it: these two properties survive sealers that overlap.
* **Order of seals.** `KeyOK`: one sealer is between the creation and the write of the key file, so
  `OneKey`, the part of `ChainUnforked` about the key, needs no lock either. `OrderOK`: while sealers have not overlapped, one is past `acquire` and
  the seal it read is still the newest. `FoundOK` says what a scan found, and with `IInv` gives the
  refinement: an `AppendSeal` maps to the one step of `SealedLedger`, every other step to a stutter.
* **Pauses.** `PauseInv`: what each running call knows of the file, while no write undid another;
  `MarkerInv`: the markers written, those a call still owes and those it will never append tell each pause's
  story, where what a killed call owed moves from the second to the third; `LocalInv`: an
  event that is, or is about to be, in the log as local-only has the flag set before it, unless marking the
  home failed.
* **Background pass.** `LocalInv`: what a process is about to write keeps the gap and the request of the
  state it read. `GapInv`: the promised gap is within that of the file and of every state being filled in, and
  is over when a sync is sent. `PendingInv`: a request has a carrier, which is the file, a hook or a child.
* **Segments.** `PlaceInv`: a sync's sessions are each in one segment or still to be placed. `CloudInv`: a
  segment that is not to be uploaded has, if the cloud holds it, the content its hashes describe; it lasts
  because an upload takes an id nothing refers to. `BehindInv`: unless a commit went unrecorded, the cloud
  shows what the manifest names, and a sync began from that manifest. `CoverInv`: a session of the last
  commit that is not shown any more is old or has changed. The list of segments a sync keeps exists by the
  least-number principle, cited from the library's theorem on well-founded sets. `FillInv`, for
  `WellPlaced`: at every moment of a sync one segment at most is open and one above the seal size has one
  session; what is left of a segment, measured by the new slices, is no larger than it was. A segment's bytes
  are a sum over a set, defined by a recursion whose value, and its independence of the order, are proved
  from the least-number principle (`SumsIs`, `SumsAnyOrder`).
* **Upstreams.** `OneInv`: while no attempt began beside another, the entry's state says which of attempt,
  connection and timer there is, and everything else that lives is none of the entry's. `ToolsInv`: when the
  list offered is not the server's, an announcement or a listing that no other passed is on its way.
  `ObservedInv` and `GiveInv` count observations and failures in the same way; that the doubled delay ever
  reaches the limit is `LimitReached`, from the recursion of `Delay`.
* **Meters.** `IInv`: the log, the pass, the pending counts, the batch and what was billed are apart, and
  a batch in flight is the one in the file or was answered. `MInv`: the marks and what a pass has read are
  true to the log, which only grows. `PlacesInv`, for `Accounted`: the places of a unit are apart
  and together hold every unit, and a detection has looked at just the units between the marks in the file
  and those it will write. `SkipInv`: the calls skipped of a
  session are its first ones, since a mark with a size and no count has counted none. `CloudInv`: what is billed
  was acknowledged, had no answer, or is in the batch whose answer the pass has.
* **Follower.** `OffsetsInv`: every offset, saved or in memory, has before it only lines that were written,
  are excepted, or are in the follower's hands. It speaks of lines that begin before the offset, since
  `begin()` may land inside half a line. `SkippedInv`: what `begin()` skips is older than the first watermark.
  `RepeatInv`, for `NotRepeated`: an event written as often as the kills so far allow is behind the offsets in
  memory and, unless the watermark is about to be written, behind those of the watermark. `SettledInv`: an event
  whose watermark was saved stays behind every offset, or below the end of a file that a start without
  `--since` is still to look at; only `retold` events are not. `KeptInv`, for
  `KeptFiles`: the files are a cut of what was written, and only the slot a rotation has vacated may be empty.
* **Pushes.** `PlacesInv`: every event that happened is in just one place (a hook, the queue, what one push
  took or holds, what is being encrypted, what waits, the chain, the relay, the lost), which is `EachOnce`.
  `SourceOK` and `OrderInv`: the proxy's line from the emitter through pending batches, the chain and the push in
  hand to the relay, which every step keeps in order. `EndInv`: what `close()` waits for, batch by batch, and
  that what was in the buffer at `stop()` is in the batch it waits for. `GateOK`: the
  gate tells the refusals counted and the time since, or the one push that has counted its outcome holds the
  next gate in its hands; a second push would break it, which is what `raced` records. That doubling reaches the longest
  window is proved from the recursion of `Doubled`, as above.

* **Container spool.** `SpoolType` says what a hook knows at each system call, and that a file with a hook's name
  is one it has claimed and has not unlinked. `KeptInv`, for `KeptUntilSent`: the files can be ranked in the order in
  which they were made, so that what a flush has read is, when it unlinks its claims, safe or in a file of higher
  rank than all of them. The rank is needed: another flush may unlink the very file that holds a remainder,
  and then relies on a remainder of its own, which is newer. `OnceInv`, for `SentOnce`: an event that no kill, lost
  answer or abandoned claim has touched is in one file at most that its flush is not done with (`Alive`), the cloud
  does not have it while there is one, and what a flush is yet to send is in a claim that still has its name.
  `ContainerSpool` names its specification `SpoolSpec` and `LiveDashboard` its own `DashboardSpec`, so that one module
  can extend two models.
* **Dashboard.** `TailInv`, for `ReadModelTrue`: the lines a tail has still to do are the last ones it read, and
  every event it remembers as seen is in the read model, was missed, or is the finding it is about to append; so
  the line a tail finishes, applied or passed over as seen, is in the read model. `StoreInv`: each counter is the
  size of the set it counts, which is what a line read twice could break. `LogInv`: the rows of a session
  come in the order of its lines, and each call of the proxy has its hook call before it. `PairInv`, for
  `PairedAsReplayed`, needs two facts about the loop that pairs. The rows the read model has are, session by
  session, the first ones of the log (`Closed`), and while that is so each further row only adds pairs (`PairsGrow`): a
  pair shown live is never one a replay would make otherwise. And over the whole log no call of the proxy is left over
  (`AllTaken`), so that a routed call is shown once (`ShownOnce`). Both are inductions over the loop, made with
  the least-number principle. `StopInv`, for `QuietAfterStop`: once stopped, no tail and no poll is running.

Only model-checked: liveness (`EventuallyShown` and the other properties under fairness), which is beyond the proof
system, as is `ENABLED`. Every invariant and action property of a run has its theorem.

## Where the code and its comments differ

The run `export_gap` shows one: `docs/export.md:60-61` says that after a restart the follower "resumes from
there, so events are neither skipped nor repeated". The watermark is written in place
(`export-command.ts:362`); a follower killed between truncation and write leaves a file that counts as
none, and the next one starts at the end of every file; with `--since`, at the beginning of its history (`retold`
below).

The others were met while modelling. Each is why a property has the exception it has, and dropping the
exception (the history variable in brackets) makes the run of that property fail.

| Source | Comment | What the code does |
|---|---|---|
| `seal.ts:197` (`overlapping`) | `seal.ts:206-207` "one seals, the others return `busy`" | a lock released between a failed open and its stat sends the caller to `rm`, which removes the lock a third caller has just created |
| `auto-sync.ts:693` (`OneSync`) | `auto-sync.ts:714-715` "older than ten minutes" | the same pattern in `acquireLock` |
| `capture-pause.ts:182` (`raced`) | `capture-pause.ts:20` "nothing is written except pause markers" | a hook that settles an expired pause writes back a file without the pause that has just been started |
| `capture-pause.ts:257` (`caught`) | `capture-pause.ts:267-268` "a writer that missed applyCapturePause still cannot leak an event recorded under a pause" | an event returned by the `catch` is written under a record pause, and under a sync pause carries no flag; a sync looks at flags only and uploads it |
| `capture-pause.ts:182` (`lost`) | `capture-pause.ts:24-25` "removes it and writes the capture.resumed marker" | the two are not one step, and the `catch` at 257 may drop the marker: a pause can be gone from the file with no end in the log |
| `sync-runner.ts:139` (`mixed`) | `capture-pause.ts:21-22` "every upload path leaves them out" | the first local-only event, projected by the dashboard during a sync of the shared model, is uploaded |
| `segment-sync.ts:250` (`behind`) | `segment-sync.ts:26-27` "a session gone locally leaves the cloud" | after a commit whose manifest was not saved, a session that commit added and that is then cleared makes local state equal to the old manifest; nothing is committed |
| `streaming.ts:179-195` (`missed`) | `streaming.ts:366` "already replayed by cmdDashboard" | what is appended between the replay (`index.ts:672`) and the tail's first read is taken for projected and is not; the next start shows it |
| `streaming.ts:187-191` (`unpaired`) | `streaming.ts:301-306`: a pass once calls go quiet | history replayed for a session found later schedules no correlation pass |
| `streaming-transport.ts:191` (`beside`) | `streaming-transport.ts:166` "Flushes remaining events" | `doFlush` returns while a flush is under way, so `stop` leaves what was queued since |
| `streaming-transport.ts:126` (`before`) | `streaming-transport.ts:166-167` "then no further pushes are accepted" | a push that passed the check at 126 before `stop` and awaits the encryption is buffered after the last flush |
| `shim-push.ts:232` (`late`) | `shim-push.ts:206` "Appending a few lines is safe across concurrent hook processes" | a hook that had the queue open appends to the file that was taken and read; the lines go with it |
| `claude-hook-worker.ts:75` (`free`) | `advanced-usage.ts:11` counts what advanced rules judged | passes started by a hook discard the counts of calls that they mark as counted |
| `detect-log.ts:166` (`skipped`) | `detect-log.ts:24-25` "each call is counted once, however often its session is rescanned" | a session looked at while its file is empty, or holds half a line, is marked with a size and no count; the next pass takes its calls for history from before the count existed, and counts none of them |
| `export-command.ts:351` (`retold`) | `docs/export.md:63-64` "`--since` applies only to the first run" | a follower with `--since`, killed between truncating and writing its watermark, starts as a first run and writes all of the history since then again, not only the last batch |
| `export-command.ts:345` | `export-command.ts:238-239` "a saved offset never lands inside" a line | `begin()` takes the size of the file, which may end in half a line |
| `export-command.ts:263` (`short`) | `docs/export.md:65-67` | a rotation killed midway makes the next one drop a file that is not beyond `--keep` |
| append after a kill (`glued`) | `docs/export.md:63` "at least once" | the first event after half a written line stands on that line, where no reader finds it |
| `container-hook.ts:265` (`late`) | `container-hook.ts:24-26` "they are lost only if the container is destroyed first" | a hook that had the spool open appends to a file another flush has claimed and read, and a remainder just created may be claimed before it is written; the events go with the file. `keepPending` also drops what is over `MAX_PENDING_BYTES` |
| `container-hook.ts:294` (`again`) | `container-hook.ts:275-276` "two flushes never send the same file" | between the rename and the restamp a claim of an old spool looks abandoned, as does that of a flush that stands still; another flush takes it, and both may have read it |
| `export-command.ts:233` | | a session removed between its stat and its open ends the follower, which is then started again |

Seen and not modelled: `cloud-push.ts` `close()` also takes events queued while it waits; `tail` of
`event-log` decodes each piece it reads alone, so a character cut in two is lost, and never goes back when a
file shrinks.

## Abstractions and what is not modelled

* A step is what a process does between two system calls another process can observe. A scan of one
  session file is one step; so is a write by rename. Writes that truncate first are two.
* A killed process takes no further step. `SealChain`, `CapturePause`, `BackgroundPass`, `SegmentSync`, `LivePush`,
  `UsageMeter`, `ExportFollower` and `ContainerSpool` have a crash action, since a lock, a torn line, a
  file written before its markers, an unsaved manifest, a taken queue, a batch, half a line or a claim stays behind. The proxy and the dashboard keep what they know in
  memory; a new one starts from the initial state.
* Event loops: in `UpstreamPool` and `LiveDashboard` a step is what runs between two awaits.
* Hashes, keys and ciphertext are the values they stand for: a head is the sequence of sets it folded,
  a slice's hash the number of its changes.
* Clocks are ages or a counter. The clock of the lock check is read at the check.
* The cloud is modelled from what the code sends it and how it treats the answers: a commit is refused
  when a listed segment is gone, and retention removes a visible segment once all its sessions are old. A
  commit that arrives after a later one is left out.
* `BackgroundPass` is an install with credentials that may detect and sync; its sealing, monitoring,
  heartbeat and usage steps touch other files and are left out.
* `UpstreamPool` is one entry: entries share only the tool index, which is rebuilt from all of them in the
  step that changes one. Names of tools across upstreams, the evaluation of a call, configuration and the
  HTTP server are left out.
* `LiveDashboard` is one agent's session and one of the proxy, with two calls that look alike. Names and time
  windows of a pair, Antigravity's hooks (which fire after the call), files, prompts, subagents, models and
  completions are left out.
* The dashboard's own appends and writes to the store succeed in `LiveDashboard`: a tail that throws is logged
  and never launched again (`streaming.ts:348-349`, `355-359`), and what it had not read is not shown until the
  next start.
* In `CapturePause` the dashboard may project into the model of any sync (`DashboardProjects`), although a sync that
  rebuilt `traces.db` rarely shares the file with a dashboard that runs: it allows more than the code does.
* `ContainerSpool` takes the append of an event as one write, whole or not at all; the order of events in a
  batch, their durations and `status.json` are left out.
* Cryptography, payload mapping of the platforms, rule conditions, rendering, installers and update
  checks are data, pure input and output, or sequential commands, and are not modelled. Neither are one-shot
  exports and bundles, which are one read and one write.
* Hazards of the code that no module covers: a completion whose call was never projected is dropped
  (`projector.ts:249`); `monitoring-check.ts:136` saves its state before the events it explains;
  `stream-credentials.ts:206` reads, changes and writes the configuration with nothing to guard it.
* Type invariants: stated by a theorem where the module has one, checked by TLC while the others were
  written.

## Plan

Done, in this order: sealing, since a signed chain that forks or skips is the worst failure of the system;
pauses (what must not leave the machine); the pass that drives everything; what reaches the cloud; the
long-lived processes (proxy, pushes, dashboard, follower); the meters; the spool of a container; and the proofs of all
invariants and action properties.

Next:

1. `ContainerSpool`: that every spooled event is sent or dropped in the end, which needs strong fairness of
   `Stamp` (two flushes can take one unstamped old claim from each other for ever).
2. `Monitoring` (`monitoring-check.ts`, `monitoring-heartbeat.ts`): a change is reported once although the
   state is saved first.
3. Completions and subagents in the projection of `LiveDashboard`, with replay as the reference definition.
