# Verification of the universal OCPP bridge

TLA+ models of the parts of the bridge where concurrency, restarts and bounded
queues decide correctness, the TLC runs that check them on small instances, and
TLAPS proofs for the command lifecycle. `PROJECT.json` maps every definition to
the lines it stands for and lists components, hazards, runs, mutants and theorems.

## 1. The system

The bridge sits between OCPP charging stations (1.6J and 2.0.1, one WebSocket
each) and one selected upstream target (MQTT or an EMS/SCADA HTTP surface). One
process hosts everything; one SQLite file, served by one worker thread, is the
only durable state.

| Part | State | Operations | What is hard about it |
|---|---|---|---|
| Command coordinator (`crates/application/src/command`) | one async task per submission | `submit_at`, `finalize_dispatch`, `recover_unresolved`, `reconcile_observed_effect` | two submissions of one ID interleave at every await; a crash between durable mark and send |
| Command tables (`adapters/storage/src/command.rs`) | `commands`, `command_results` | `admit`, `write_result` (merge), recovery pages, `prune` | results read earlier are written back over newer ones |
| Live sockets (`bins/uob-service/src/charging/commands.rs`) | registered socket and its generation | attach, `dispatch_to_generation`, remove | a command validated on one socket reaches dispatch on the next |
| Call session (`adapters/protocol/src/call`) | outbound queue, pending calls, ID histories; incoming queue, reply queue, reserved IDs | send, match reply, expire, end; deliver, answer, drop | late, duplicate and unusable replies; a write that fails half way; full queues |
| Station loop (`charging/runtime.rs`) | the call in hand | take, handle, answer | runs beside the socket task; its failure stops the session |
| Target delivery (`adapters/target/src/delivery.rs`, `adapters/storage/src/delivery.rs`) | outbox rows, attempts, in-flight table | poll, expire, enqueue, record report | reports after expiry, retries, lost reports, restart between delivery and record |
| Target session and runtime (`adapters/target/src/session.rs`, `target_runtime.rs`) | delivery and report channels | take, report, fail, stop, supervise | order of shutdown, aborted sessions |
| Retention (`adapters/storage/src/retention.rs`) | byte budget, durability of rows | shed inside a write, `maintain` | deletes rows another task has in flight |
| Storage drain (`adapters/storage/src/drain`) | window, revision, seal | begin, observe, seal, cancel, jobs | a write between observation and seal |
| Jobs (reservations, firmware, diagnostics, profiles, triggers) | one job table each | register, notify, expire, reconcile | notifications racing expiry and restart |
| Export spool and scheduler | batches, leases, marks | claim, acknowledge, retry | crash between external commit and mark |
| Release manager (`bins/uob-release-manager`) | activation journal, slots | stage, switch, probation, rollback | crash between any two file operations |
| Capture ring, resource budget, multipart reports, endpoint | counters, rings, leases | reserve, release, collect | limits and abandonment |

How they interact: a submission is admitted by one store transaction, marked
`Dispatched` by a second, then queued in the call session of the socket that was
registered before admission; the session resolves the call and the coordinator
stores the outcome. A call from a station is handled by the station loop, whose
store write also commits the delivery rows the target worker later sends. The
storage worker thread serialises all of it, so each store request is one atomic
step in every module; what happens between two requests of one task is not.

## 2. Plan

Built, in this order:

1. `CommandLifecycle`, with proofs in `CommandLifecycleInvariant`,
   `CommandLifecycleSteps` and `CommandLifecycleProofs`.
2. `CallSession`, shown to implement the abstract `CallContract`.
3. `IncomingCalls`, the other direction of the same socket.
4. `TargetDelivery`: storage, worker, session and host of the outbox, composed in
   one module because their races are with each other.

Left, in the order intended:

1. `ReleaseDrain`: a sealed window implies no work was admitted since the
   observation (abstract specification: an exclusive lock with expiry).
2. `TargetDisposition` at startup, on the outbox of `TargetDelivery`.
3. Job tables (reservations, firmware, diagnostics, profiles, triggers) beside
   the command result they belong to; composed with `CommandLifecycle`.
4. Export spool and scheduler, with crash recovery.
5. Activation journal and release supervisor, with a crash between any two steps.
6. Retention admission, capture ring, resource budget, multipart reports,
   endpoint with several stations.
7. Theorems: `RejectedMeansUnsent` and `NoManufacturedAnswer`; `CallSession`
   implements `CallContract`; `IdsAreReserved`; `NothingVanishes` and `PeerOrder`.

## 3. The modules

### CommandLifecycle

| Variable | Code |
|---|---|
| `commands`, `results` | the two tables; `unresolved` is the column recovery and pruning select by |
| `tasks` | `submit_at` and `finalize_dispatch`; `pc` is the await the task stopped at |
| `writers` | `reconcile_observed_effect` and late reservation replies: read the row, read its result, write a changed copy |
| `calls`, `late` | calls a socket holds; reservation calls whose late reply is still accepted |
| `sockets` | generations opened, live ones, the registered one |
| `startup`, `boots` | recovery before serving; restarts |
| `sends`, `answer`, `told`, `raced` | history: frames sent, the station's answer, what callers were told, requests pruned while evidence on them was outstanding |

Each await of the coordinator is one action (`Lookup`, `Duplicate`, `Context`,
`Admit`, `Mark`, `Dispatch`, `Persist`, `Reread`). `Abort` ends a task at any await, as a
dropped future or a failing store does. `Transmit`, `NotTransmitted`,
`WriteFailed`, `Reply`, `NoUsableReply` and `SocketEnds` are what a session does
with a call; they are the steps of `CallContract`, which `CallSession` is shown
to implement, so the two modules meet there. `Crash` clears everything but the
tables, at any point. A content stands for everything the fingerprint covers.
The many rejections before admission store nothing; they are `Deny`, the only
trace of which is what the caller was told.

`Context` goes on only if the socket seen by `Lookup` is still registered and
open, and that generation is kept in the row (`gen`, a history field). `NoReplay`
compares it with the socket that holds the call and asks that this socket is
still live. A removed socket may stay live for a while, with its calls.
`CallersAgree` also covers a caller that gets an unstored rejection for a request
ID after another caller was told of its row (`known`, `Denied`).

Two readings are merged into one step: `Lookup` reads the row and the socket
generation together, and `Dispatch` checks the generation and queues the call
together. Nothing awaits between the latter two. `Age` is enabled only without a
task or call of the request: retention is seven days, calls have deadlines of
seconds. Late evidence may be outstanding; `raced` marks those requests, and
three properties except them.

### CallSession and CallContract

`queue`, `pending`, `timed_out` and `retired` are the channel and the fields of
`SessionState`. `session.sending` is the call being written: the select loop does
nothing else meanwhile, so only `Enqueue`, the end of the write and
`SessionEnds` are enabled. The station may answer anything it received, at any
time, repeatedly. `CallContract` has neither IDs nor queues: a call is refused
or resolves once from a state it can be in. The refinement maps an open call to
`queued` or `sent` and the reported late replies to `late`.

### IncomingCalls

A call is its place in `log`, so two calls with one message ID differ. The
socket task (`Deliver`, `Report`, `RefuseFrame`, `SendReply`, `SessionEnds`) and
the station loop (`TakeCall`, `TakeDiagnostic`, `Respond`, `Fail`, `Drop`,
`HostStops`) share the bounded queues. `held` is the call the loop has and its
responder. `Send` is `IncomingCallResponder::send`: a refusal by the byte budget
leaves the sender in place, so that `Drop` tries again; a full reply queue does
not. `refused` and `lost` record the calls that end without an answer this way.
The loop's select is biased towards diagnostics.

### TargetDelivery

| Variable | Code |
|---|---|
| `outbox`, `row`, `last` | `target_deliveries` in rowid order, its columns, the newest attempt |
| `worker` | `run_worker`: `select`, then `expire`, `read`, `enqueue` of one poll, or how it ended |
| `inFlight` | the `in_flight` map |
| `queue`, `held` | delivery channel, deliveries the adapter took and has no outcome of |
| `unsent`, `reports` | reports stamped and waiting for room, the report channel |
| `session`, `host`, `exit` | the session task, `TargetRuntime::run`, its first error |
| `adapter` | `http` or `mqtt`, the adapter of the selected target |
| `committed`, `dropped`, `pruned`, `peer` | history: commit order, shed deliveries, pruned history, deliveries handed over |

A poll is several steps because each of its store requests is an await: commits,
shedding and the clock move between them, and `worker.at` is the poll's own
instant. A report too is two steps: `SpawnReport` stamps it when the outcome is
known, and `Report` queues it when the channel has room, perhaps seconds later.
Time is in whole seconds. The store compares timestamps as text, so a retry due
in the very second of the poll may or may not be offered (`DueThisSecond`).

The adapters differ in what they report (`Outcomes`: HTTP exposes, MQTT is
acknowledged, retries or fails for good), in how much they hold (`CanReceive`),
in what a refused report does (HTTP drops it, MQTT ends its session) and in what
completes a critical delivery (`Required`, the policy the host sets up). An
uncertain handoff and a retryable failure are one outcome: no policy completes on
either. `End` drops the in-flight table and the report receiver, both local to
`run_worker`. `StorageFails` ends the worker at any request.

`PeerOrder` is a property of the hand-over step: no delivery is taken after a
younger one of its station was. It covers retries and restarts, since `peer`
remembers both.

## 4. The runs

| Run | Instance | Shows |
|---|---|---|
| `command_dedup` | 1 ID, 2 contents, 2 submissions, 2 sockets, 1 restart | the station acts at most once, after the durable mark, on the socket validated and while it lives; a stored rejection was never sent; callers agree |
| `command_evidence` | 1 submission slot, 2 writers, 2 events, late replies | merges lose no effect and never move back; answers are the station's; callers agree |
| `command_retention` | 1 writer, pruning and reuse of an ID | an unresolved row is never pruned; nothing leaks into the new command |
| `command_recovery` | 2 IDs, pages of 1, 1 restart, fairness | startup ends and leaves no `Dispatched` row; submissions end |
| `command_prune_race` | as `command_retention` | *violation*, finding 1 |
| `call_correlation` | 4 calls on 2 IDs, 2 reservations, capacities 2 | a reply of another call is taken only after a history evicted the ID; late status once; "not transmitted" is true |
| `call_progress` | same, with fairness | `CallSession` implements `CallContract`; every accepted call resolves |
| `incoming_calls` | 3 IDs, 5 frames, capacities 2, fairness | one answer per call; IDs reserved exactly while unanswered; no redelivery in the window; if diagnostics pause, a delivered call is answered, unless its answer found the queue full, the budget refused the last one or the session ended |
| `incoming_lost_answer` | 3 IDs, 4 frames | *violation*, finding 2 |
| `delivery_order` | 1 best-effort and 1 critical delivery of one key, MQTT, history of 1 s, 1 restart | order at the peer, nothing lost, one copy; only shedding causes a conflict and only pruning a stray report |
| `delivery_progress` | 2 keys, page, queue and adapter of 1, either adapter, retries, lost reports, fairness | every pending delivery leaves the outbox, unless worker or session end |
| `delivery_graceful_stop` | 1 delivery | *violation*, finding 3 |

Why the bounds are enough to be interesting: each has one more actor, ID or row
than the mechanism can hold. Two submissions race for one row; four calls share
two IDs with histories of two, so IDs are evicted; pages and queues of one are
full at once; lifetimes of two seconds with a backoff of one give a retry before
the deadline. A small instance is not a proof, and only the theorems in section 5
hold for every value of the constants.

`LastCommit` stops the commits some seconds before `MaxTime`, so that every
deadline and the poll after it fall inside the run: otherwise the end of time
would look like a delivery stuck for ever. Deadlock is not checked
in runs whose system may stop for good: a closed session, an exited host.

### Fairness

* Commands: each task's next step, the resolution of its call, and startup
  recovery (weak). Tokio polls ready tasks and calls carry deadlines. `Abort` is
  not fair, nor is any step of the station.
* Calls: taking a queued call, the end of a write, expiry (weak). The select loop
  chooses among ready branches at random. That a write ends is an assumption: the
  code puts no timeout on it, so a peer that never reads is outside this claim.
* Incoming calls: taking a diagnostic, taking a call once no diagnostic waits,
  handling, dropping, sending answers and shutting a stopped loop's session down
  (weak). The biased select justifies no more: `CallsAreAnswered` assumes that
  diagnostics pause for good, for a station that never stops sending bad frames
  may starve its own calls. It makes the same assumption on writes.
* Delivery: the poll and the clock (weak). Nothing is asked of reports, the
  adapter or the peer; expiry alone makes the property true.

### Findings

1. `command_prune_race`: `write_result` does not require the command row, so a
   writer that began before a prune recreates a result without a command
   (`docs/architecture/command-deduplication.md:28`). Pruning has no caller in
   the service yet.
2. `incoming_lost_answer`: the responder takes its sender before it tries the
   queue, so the `InternalError` of a failed handler is lost when the reply queue
   is full (`docs/architecture/ocpp-call-lifecycle.md:82`).
3. `delivery_graceful_stop`: `TargetRuntime::run` stops the session first, which
   closes the report channel; the worker may then return `ReportChannelClosed`
   before it sees its own stop signal, and a drain that completed ends in an error
   (`docs/operations/service-lifecycle.md:59`: "a completed drain exits 0").
   Model checking of the code's order of steps shows this; it was not reproduced
   by running the service.

## 5. The proofs

For `CommandLifecycle`, for all requests, contents, tasks, writers, events and
bounds that satisfy `ConstantsAssumption`, `CommandLifecycleProofs` proves:

| Theorem | Property |
|---|---|
| `TypeCorrect` | `TypeOK` |
| `SendsAtMostOnce` | `AtMostOneSend` |
| `MarksBeforeSending` | `WriteAhead` |
| `NeverReplays` | `NoReplay` |
| `ColumnAgrees` | `UnresolvedColumn` |
| `NeverMovesBack` | `LifecycleMonotone` |
| `NeverLosesEffects` | `EffectsNeverLost` |
| `NeverForgetsUncertain` | `UncertainIsNeverForgotten` |

`AtMostOneSend` is not inductive: a state with one send and a second task about
to dispatch satisfies it. The inductive invariant is

    IInv == TypeOK /\ TasksOK /\ UnresolvedColumn /\ Owned /\ OneAttempt /\ Marked

`OneAttempt` says there is one permission to send per row: with the task between
admission and dispatch, then with the queued call, then spent. `Owned` ties that
task and call to the row, its content, process lifetime and socket. `Marked` puts
the durable `Dispatched` before either. `UnresolvedColumn` lets pruning spare
what may still act, so permission is never handed out anew. The admitting
transaction creates the permission only when there is no row, and a row
disappears only when aged and final, when no owner or call is left.

`CommandLifecycleInvariant` has the invariant and the lemmas about the merge,
`CommandLifecycleSteps` one lemma per action that keeps `IInv`, and
`CommandLifecycleProofs` the theorems. The action properties follow from `IInv`
and the merge lemmas. `NeverReplays` needs one more inductive fact, `OnOpenSocket`:
the socket of a call is live, because every step that closes a socket resolves
the calls it holds.

Only model-checked: `RejectedMeansUnsent`, `NoManufacturedAnswer`,
`RecoveryIsComplete`, `CallersAgree`, everything about `CallSession`,
`IncomingCalls` and `TargetDelivery`, the refinement, and all liveness (liveness
under fairness is beyond the prover).

## 6. Not modelled

* Section 2 lists what is planned; `PROJECT.json` gives the status of every part.
  The models cover a small part of the code base by lines: the concurrent core
  of commands, calls and deliveries.
* Payload mapping, schemas, codecs, configuration parsing, HTTP routing, the
  console and the simulator: conversion and input/output without protocol state.
* Trigger and device-model windows attached to a command result; keep-alive of
  a socket; packet identifiers and reconnection inside the MQTT adapter; command
  ingress and snapshot publication of a target session.
* SQLite itself: a request to the store is atomic and durable, or fails.
