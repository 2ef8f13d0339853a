# TLA+ models of EasyCon SDK

EasyCon SDK gives programs control of a game controller emulator over a serial
line, and of video capture, template matching and OCR. Its core is the Runtime:
operations with one frozen outcome, cancellation, deadlines, bounded event
queues, and a `close` that must converge whatever its threads are doing. This
directory models that core, the controller with its writer lane and its serial
line, and the capture session and the worker pools of the vision crate; checks them
with TLC, and proves their safety properties with TLAPS.

Source paths below are relative to `src/`. `PROJECT.json` maps every
definition to the lines it models, and lists the runs, the mutants that show each
property can fail, the hazards, the findings and the theorems.

## 1. Inventory

### 1.1 Components

| Component | State it keeps | Operations | Hard behaviour | What makes it correct |
|---|---|---|---|---|
| Operation (`easycon-runtime/operation.rs`, `concurrency.rs`) | phase, first cancel reason, terminal arbiter (owner, winner, committed), handoff record, abandoned claim, callbacks | start, cancel, direct finishes, claim / finish / abandon, record for handoff, fallback settlement, wait | terminal transaction in six steps with the mutex released in between; evidence racing cancellation; owner thread dying | one frozen outcome that agrees with the evidence, documented phase order, waiters always told |
| Runtime (`runtime.rs`) | state, registries of operations, tasks, resources and subscriptions, saved close outcome | create, spawn, register, join, close (phases), drop of the last handle | many closers, joins racing close, resources that fail or panic, panics inside close | `Closed` only when converged, failure kept, every caller gets one outcome, close ends |
| Deadline scheduler (`deadline.rs`, worker in `runtime.rs`) | pending and armed registrations, fire gate, signals, worker channel | register (reserve, read clock, commit), fire, disarm, drain | four parties race for one registration; order of firing; lost wakeups | resolved exactly once, in order, nobody sleeps on a resolved signal |
| Event queues (`event.rs`) | queues with events and gap summaries, reader guard | subscribe, publish, read (poll, timed, infinite), drop, close with a final event | full queues, displacement, gap merging, one wakeup per event | the stream accounts for every event, the final one is last |
| Cancellation tree (`cancellation.rs`) | tokens, children, hooks | child, hook, cancel, deactivate | child admitted while its parent ends, several seals going down at once | no child escapes its parent's end |
| Controller lane (`easycon-controller/session.rs`) | command queue, lease generation, settlement / release / acquire records, paced reports, cleanup failure | direct action, sequence, Amiibo, acquire / release lease, cancel, close | final-byte acceptance against cancel, strict failure, close; commands that arrive while closing | a physical effect is reported once and truthfully, neutral report before release |
| Controller transport and serial (`transport.rs`, `easycon-serial`) | open stream, continuity of a partial write | write, continue, cancel, close | partial writes, cancel after the last byte | bytes of two reports never mix |
| Capture session (`easycon-vision/capture.rs`) | phase, latest frame, worker, interrupt coordinator | open, snapshot, stop, close | worker panic with the backend in hand, startup cancel, lost wakeups | one owner of the backend, snapshots end |
| Native and OCR pools (`pool.rs`, `ocr.rs`) | tickets, bounded queue, engines on loan | submit, cancel queued, acquire, return, close | admission against close, creation outside the lock | nothing accepted is forgotten, limits hold |
| Pure values (`easycon-model`, `protocol.rs`, `sequence.rs`, `amiibo.rs`, `image.rs`, `matching.rs`, `color.rs`, `label.rs`, `easycon-file-identity`) | none | encode, validate, compare | boundaries | result of one call |
| Native bridge (`easycon-native-sys`, `native/bridge`) | handles of third-party libraries | wrappers | external libraries | external |
| ECS stub, tests, tools, build | - | - | - | not part of the running SDK |

### 1.2 How they interact

A domain component (controller, capture, pool) registers a *resource* with the
Runtime, creates *operations*, and spawns *supervised tasks*, possibly as the owner
of one operation. It settles its operations by direct finishes or, where a physical
effect counts, by claiming with evidence. Cancellation flows down the token tree and
through hooks; deadlines reach it as registrations or through operation deadlines.
Close cancels the root, asks each operation to cancel with reason `ParentClose`, closes
the resources by callback, joins the tasks, settles from their handoff records
the operations whose owner ended, stops the deadline worker and publishes the
final event. Components share only the Runtime's mutexes; everything else is
callbacks (cleanup, hooks, wakers, resource close), and a callback may panic or call
back, which is why the code drops most of its locks before it calls one.

## 2. Modules

```
OperationLifecycle        abstract: what observers of an operation may see
      ^ refined by
Operation                 operation.rs, concurrency.rs, wait.rs
      ^ extended by
OperationTree             cancellation.rs: the tokens below an operation
RuntimeClose              runtime.rs: close, tasks

DeadlineScheduler         deadline.rs, the worker of runtime.rs
EventQueue                event.rs, publication and close of the streams

ControllerLane            session.rs: actions, lease release, close of the lane
WriteLease                session.rs: acquiring the lease, sequences, who owns the lane
RequestLane               session.rs, amiibo.rs: connect, commands, Amiibo, close
      v extends
SerialStream              serial transport.rs, io.rs, windows/io.rs, WriteSettlement

VisionPools               pool.rs and ocr.rs as one system
CaptureSession            capture.rs against Runtime::close
```

The theorems about a module are in a module beside it: `RuntimeProofs` (about `Operation`,
`OperationTree` and `RuntimeClose`), `DeadlineProofs` (about `DeadlineScheduler`), `EventQueueProofs`, `ControllerLaneProofs`,
`WriteLeaseProofs`, `RequestLaneProofs` (about `RequestLane` and `SerialStream`), `VisionPoolsProofs`,
`CaptureSessionProofs`.

The controller is three modules because the three concerns meet in few places and their
product is out of reach: `ControllerLane` has the races for one report's outcome,
`WriteLease` those for the right to write, `RequestLane` the exchanges that need an answer.
What each one leaves to the others is said at its head.

A type invariant stands in each module but `SerialStream` (that of `RequestLane` covers both its
own variables and those of `SerialStream`) and `WriteLease` (its one is in `WriteLeaseProofs`). It is proved of
every module. The run configurations do not name the type invariants: they state nothing the others need at this size, and
`INVARIANT TypeOK` (in `RuntimeClose` `CloseTypeOK`) in a configuration checks them.

### 2.1 Operation

One action per critical section of `OperationData`'s mutex, or per step a thread
makes between two. `arbiter` says in which mode the operation was created: `legacy` (no
settlement owner), `exclusive` (an owner) or `transferable` (an owner and a transfer
owner). `txn` is the terminal transaction under way and its `pc`:

| `pc` | where the transaction is |
|---|---|
| `cancelling`, `announce` | a claimed cancellation: the state is set under the mutex, the event and the wakeup follow without it (`publish_claimed_cancellation`) |
| `claimed` | the winner is frozen and the claim is in its owner's hands, or abandoned |
| `cleanup`, `settle` | the cleanup callback and `on_cleanup_settled`, without the mutex |
| `commit` | about to take the mutex and write the terminal state |
| `publish`, `unlink` | event, then registry entry, with the mutex still held (`Locked`) |
| `notify`, `done` | the condition variable, after the unlock |

`ownerTask`, `record`, `claimed` are the owner binding, the handoff record and the
claim of an owner that dropped it. `published` is a history of events. Any thread may
start, cancel, finish, claim, abandon or wait at any time. Values and error payloads are
kinds. A panic of a callback is the outcome `err`. The operation deadline is one of
the cancelling threads.

### 2.1.1 OperationTree

Extends `Operation` with the tokens made below an operation's own, to any depth. A child is made in two tests around its link,
with the parent's list locked in between (`NewChild`, `RecheckChild`; `linking`). A seal flags a token, takes its list when nobody
has it locked (`TakeChildren`), and goes down child by child (`SealChild`): `sealing` is where each thread is, and several may
be under way, over the same tokens. A call that flags the operation's own token holds the operation's mutex until its seal is
through, so that `Call` waits for it; any other thread may cancel a token below (`CancelChild`) or the parent (`CancelAbove`).
Every token is kept by somebody; what becomes of those below one that is dropped is section 5.1. The hooks a seal collects run
later, as the calls of `Operation`.

### 2.2 RuntimeClose

Extends `Operation` with the Runtime around it: state and outcome, callers of `close`, the
closing thread (`close`, a record with its phase `pc`, the first failure and what is
left to do), supervised tasks and the join of each thread, resources, the deadline
worker as far as it can be joined or panic, and the final events. `JoinStart .. JoinMark` are
the steps of `join_supervised_task`; both an explicit joiner and close make them. The
phases of close follow `finish_close_success_path` one by one; each loop over a
registry is a snapshot action and one action per element. Simplifications: an element
is visited in any order (the code sorts by id), the hooks that the cancelled root runs are
merged with the request to each operation, users of an operation give `ParentClose` as
their reason and cleanups succeed (`UseOperation`; `Operation` checks the rest).

### 2.3 DeadlineScheduler

Registrars `1..Registrations` (a registrar is its registration's id), the worker `0` and the
close thread. `register` is reserve, read the clock, commit, and then fire what is due
(`CollectDue`, `CommitSignal`, `Notify`), under the gate. `hands` are entries a thread
took out to resolve, `told` those it resolved and still has to notify: the window in which
wakeups can be lost. A waker may panic (`Notify(a, FALSE)`). Only the system clock; the
disarmed entries that stay in the heap are left out; a batch is notified in one step;
the observers of a waker are merged with the waiter of `disarm`. The history
variable `blocked` remembers that a pending reservation made some thread skip a due entry.

### 2.4 EventQueue

A queue entry is an event or a gap, a record of the range of sequence numbers it
stands for, of how many events, and of its class. A publication is one critical section of the
subscriptions mutex including the wakeup of readers (the code gives it just after
the queue's own mutex). Displacement is two operators: a full queue drops its oldest ordinary event, or its
oldest event if all are critical, into a gap (`GapAt`), and neighbouring gaps become one (`Fuse`). Filters are a
choice of the subscriptions that accept. A reader takes the reader guard, looks, waits, times out or wakes spuriously. The final event passes
every filter and is staged for all queues before it is committed to any. Histories:
`accepted`, `delivered`, `final`.

### 2.5 ControllerLane

One Controller that is connected and has just granted a lease. `lane` is its thread with the
locals of `run` and `close_lane`: `top`, `observe`, `dispatch`, `cleanup`, `sleep` are the stations of the
loop, `mark`, `write`, `accepted`, `claiming`, `claimed` those of one report, `released` of a release,
`close`, `collect`, `wait`, `closeStream`, `closeFailed`, `closeSettle` of the close. What `close_lane` has
taken over (`held`) is settled by the outcome of its close alone, also when a report fails meanwhile. Around it run the threads that
submit (`sub`), release the lease (`releaser`) and close (`closer`), one action per critical section, so
that the races for `rec` (`OperationSettlementRecord`), `rel` (`ReleaseRecord`), `registry` and the
generation's gate are all there. An operation is its first cancel reason and its outcome: what `Operation`
checks, this module uses. The channel is `inbox`, with all its `Wake`s in one flag. A
write either is accepted to the last byte or fails, with the stream kept or closed, or closing it fails
(permanently). Time counts down: `since` the last acceptance, `due`, `target` and `timer` to go.

`neutralize_and_release` consumes the lease, so that a submission cannot overlap the release through the public
interface; the generation's reservations exist for that overlap all the same, and `SharedLease` allows it. The
violation run does without. A record that close or the release of a panicked lane leaves open stays open: the
controller leaves no handoff record for the Runtime. Left out: connecting and the requests with an answer
(`RequestLane`), acquiring the lease and sequences (`WriteLease`), what a report says, panicking clocks, a
second close.

### 2.6 WriteLease

An acquirer is a future over an `AcquireRecord` (`rec`). Whoever reserves the record first resolves it: the lane that
grants or refuses, the hook of a cancelled token, the closing thread, the future itself when it is polled and
sees a signal. `resolver` is where a thread is between reservation and publication; `Abandon`, the drop of the future,
may come at any point. The lane keeps one `owner`, a lease or a precise sequence, `pending` reports, one
`waiting` sequence and the `cleanup` of a release. A sequence has two reports; its schedule may overflow.
Simplifications: the release of a lease is sealed in one step, submission and admission are one step, cancelling
the resource and sending `Close` are one step, publishing an outcome and waking are one step, what is scheduled is settled in one step when the stream is lost
under a report (that nobody owns any more is a step of its own, `FreeLane`, as at the end of `seal_after_cleanup_failure`), and whether a
report is due is left open. One direct action is already scheduled when the module starts, so that a sequence
and a grant have something to wait for.

### 2.7 SerialStream

A method of `SerialControllerTransport` is a `call` with its place `at`, from its issue through the overlapped wait
to its result `ret`. `irp` is the transfer the kernel owns: it completes, fails, or is aborted after a cancel, and a
completion may overtake the cancel. `port`, `prepared` and `active` are the transport's fields, `gate` is the
phase of `WriteSettlement`, `taken` the bytes the driver has in truth. The driver and the device are external: the
driver takes a payload byte by byte, an aborted write may have taken some that nobody counts (`residue`, section 5.2), the device answers the frames it understands, late and in order, or ignores one.

### 2.8 RequestLane

Extends `SerialStream` with the lane that makes its calls: the baud rates and handshakes of a connect, commands
that wait for an ACK, the selection of an Amiibo, and a save with its header, chunks, retries, cleanup reset and
the failure of that reset, the neutral report of a close, and the operations deferred to its end. Time is one flag:
the deadline of the call under way has passed (`late`). Cancellation, close, timeouts and one fault may come at any
step. The histories `clean` and `fooled` remember whether the device owed nothing when a request began, and whether a
reply to an earlier exchange completed a later one.

### 2.9 VisionPools

Native pool and OCR pool in one state space, because an OCR recognition is a job of the first whose worker blocks
in the second. A call reserves a slot, commits its job and waits; a worker takes it, runs it and, for OCR, is
granted an engine, creates one outside the lock, returns or discards it. `asleep` and `ocr_asleep` are the threads on
the two condition variables; `firing` are hooks a cancel has selected and not yet run. A cancel takes a queued job out under the mutex, answers it and
notifies in three steps (`withdrawal`), so that a close that finds the queue empty may return before that answer is given:
`JobsConserved` counts the canceller among the holders of a job and makes this one exception for closed pools. Construction (`Spawn` to
the start barrier) may fail at any worker. One thread closes each pool. `live` counts engine objects in native
memory, which the books (`created`, `creating`, `borrowed`, `idle`) only follow.

### 2.10 CaptureSession

One action per critical section or backend call of five kinds of threads: the user who constructs and closes or
drops the session, `Runtime::close`, one that cancels the startup operation, the worker, readers. `backend` is where
the owner of the native capture is: with a thread, in the channel, unresolved, consumed. The interrupt coordinator is
`sealed`, `active`, `stop_requested`; the hooks of the two tokens say which thread runs them and how far it is.
`locked` is the gap in `snapshot` between test and wait, in which a notification without the mutex is lost; the clock
is chosen in `Init`, since only the system clock ends that wait by itself. The startup operation is the legacy
operation of `Operation`, reduced to its phase. Frames are counted.

## 3. Runs

| Run | Instance | What it shows |
|---|---|---|
| `operation` | one operation of each mode in turn, one waiter, two tokens below it (side by side or one below the other), one thread that cancels tokens, fair | no panic under the mutex, evidence and outcome agree, handoff records settle, events follow the lifecycle, no child escapes its parent's end, waiters get their answer, and the protocol implements `OperationLifecycle` |
| `close` | one operation of any mode with its task, two closers or the last handle, a joiner, a resource that fails, panics, stays or vanishes | `Closed` only when converged, failures decide the outcome, the worker outlives the owners, event and outcome agree, no caller is left waiting |
| `deadline` | two registrations, instants 0 and 1, a close, fair | resolved once and in order, no lost notification; due deadlines, `disarm` and close get on |
| `events` | one subscription, two readers, capacity 2, six events | gaps and events account for the stream and end with the final event, critical events are spared, no reader sleeps on an event |
| `controller` | two actions, leased or not, a release, a close, one fault | outcomes agree with what the device got and are fixed once; the release is last; actions are paced; nobody is left waiting |
| `lease` | an acquirer with a deadline and a token, one precise sequence, one direct action, a close, one fault | lane and lease agree on the holder, a lease nobody takes returns, a sequence that ended has released, nobody waits for ever |
| `serial` | three of a connect, a command, a selection and a save, payloads of two bytes, one retry, one cancel, a close, one fault, which may be an aborted write that kept a byte | settlements say what the device got and payloads do not mix, the kernel's buffer outlives its transfer, no stale reply after a clean start, no half save, nobody stuck |
| `pools` | two calls, two workers, one queue slot, one engine, one fault, both closes | jobs and engines are conserved, closed pools are empty, nobody waits for everybody |
| `capture` | one reader, one frame, one fault, all closes, both clocks | the backend is finalized alone, frames follow the startup, close tells what happened, nobody stuck |
| `close_handoff` | as `close`, one closer, no resource | **violated**: the documented handoff (finding 1) |
| `controller_close_neutral` | as `controller`, no fault, no overlap | **violated**: close leaves the device neutral (finding 2) |
| `capture_startup` | as `capture`, no reader | **violated**: a closed session has settled its startup (finding 3) |

Every property of a passing run has a mutant of the model, a plausible bug in the
code such as a dropped guard or a swapped order, that breaks it.

### 3.1 Bounds

* **Operations: one.** Operations share no state but the registry and the token tree;
  `Next` of `Operation` is a disjunction over operations. The theorems below hold for
  any number.
* **Waiters: one** in `operation`. Waiters only read the operation; `WaitersAreTold` is proved
  for any number.
* **Tokens two, cancellers one** in `operation`. Two tokens are two children of one list or a child and its own child, and the
  operation's own threads and the canceller are two seals at once. `NoChildLeft` is proved for any number.
* **Closers two, joiners one, resources one.** The first closer runs the close, the second observes; a third
  behaves like the second (closers are symmetric). A second joiner of the same task waits on the join gate as
  close does. The failures of a resource and of the task give an earlier and a later failure.
* **Registrations two, instants 0..1.** The ordering rules compare two registrations; one
  target that is due at once and one in the future with a tie are all the cases of a
  comparison.
* **Capacity two, six events, one subscription, two readers.** Two entries and a gap between,
  before and after them reach every branch of displacement and both merges of neighbouring gaps. Two
  readers contend for the guard. Queues are coupled only by the close, where every live
  queue takes the same step.
* **Actions two, interval one, faults one** in `controller`. Two actions give a queue with a report
  behind another, a cancelled one behind an accepted one, and one with a lease next to one without. One unit
  of time tells due from not due; everything is relative to it. Actions are interchangeable (symmetry).
* **One acquirer, one sequence, one direct action** in `lease`. The lane refuses an acquirer for what owns or
  waits for the lane, and a sequence and a scheduled report are the two kinds of that; a second acquirer is
  refused by the same test. Two reports give a sequence something before and after a cancel.
* **Payloads of two bytes, one chunk, one retry, two baud rates, three requests** in `serial`. Two bytes tell not
  begun, begun and complete, a retry and a second rate are the first repetition of their loops, and three
  requests give one that times out, one that may be fooled by its reply and one after it. `MaxOwed = 1`: one reply
  outstanding when a deadline passes.
* **Two jobs, two workers, one slot, one engine** in `pools`: a job and a worker that hold what the other needs, at the
  limit of each.
* **Faults one** everywhere. One fault leads to every error path; two independent ones, such as a report that
  fails and a close of the stream that fails later, are not checked.

### 3.2 Deadlock and fairness

`CHECK_DEADLOCK FALSE` appears in every configuration: operations end, a Runtime, a session or a pool closes
and queues are dropped, after which nothing has to happen. Whether something stops *too
early* is stated in two ways.

As liveness, under fairness, where a fair environment can be described:

* `OperationTree`: weak fairness of the steps of a terminal transaction (cleanups return, the thread
  that runs it is scheduled), of the seal its thread has begun, of an admission under way (it holds the list's lock) and of a
  waiter that was woken. Nothing obliges anybody to start,
  cancel, claim, finish a claim or wait.
* `DeadlineScheduler`: weak fairness of every thread that is inside the scheduler. The clock
  need not move, nobody need register, disarm or close.

As an invariant, without fairness, where the hazard is that everybody waits for everybody: `CloseReturns`,
`EveryoneIsAnswered`, `NobodyWaitsForever`, `NobodyIsStuck`, `NobodyWaitsForNothing`. Each says that in a state where no
step can be taken that somebody has to take (all but new requests, cancellations and
the decision to close), all answers have been given. It catches lost wakeups, forgotten waiters and cyclic waits;
it does not catch two threads that keep each other busy for ever. All of them write the guards of those
steps out (`SomebodyMoves`) instead of saying `ENABLED`, which is what makes them provable. In `RuntimeClose` `SomebodyMoves` counts the end of a task body: the documents make it a duty of every
backend, and without it no close could return. Nothing is assumed of domain code that holds a claim. In
`CaptureSession` a worker may wait for a frame, and a snapshot for the worker, only while neither the session nor the
Runtime is being closed.
`EventQueue` states safety only.

## 4. Proofs

Each model has one inductive invariant, three facts about it (it holds initially, every action
keeps it, it implies the properties); the Runtime's close, the Controller lane, the write lease, the request lane, the pools and the capture
session have a second one on top of it, `WaitInv`, for who waits for whom; and the theorems that follow. All of them are stated for every value of the
constants: any number of operations, threads, requests, jobs, frames or failures, any capacity. TLC checked every
inductive invariant on the instance of the module's run before it was proved.

| Module | Theorem | Property it states | For every |
|---|---|---|---|
| `RuntimeProofs` | `TypeCorrect`, `Invariance` | `TypeOK`, the inductive invariant | set of operations and waiters |
| | `NeverPanicsUnderLock`, `EvidenceDecides`, `RecordsStayUsable`, `EventsInOrder` | `NoPanicUnderLock`, `TerminalMatchesEvidence`, `HandoffRecordSettles`, `EventsFollowLifecycle` | |
| | `NoChildLeft` | `NoChildEscapes`, of `OperationTree` | number of tokens, set of threads that cancel them |
| | `WaitersAreTold` | a waiter sees settled state only and is not left parked | |
| | `LifecycleImplemented` | `Spec => ImplementsLifecycle`, the refinement of `OperationLifecycle` | |
| | `CloseTypeCorrect`, `CloseInvariance` | `CloseTypeOK`, the inductive invariant | set of operations, resources, callers and joiners |
| | `JoinsNeverPanic`, `ClosedIsConverged`, `WorkerOutlives`, `FailuresDecide`, `FinalEventTells` | `JoinNeverPanics`, `ClosedMeansConverged`, `WorkerOutlivesOwners`, `FailuresDecideOutcome`, `FinalEventTellsOutcome` | |
| | `CloseWaitsHaveReasons`, `NobodyWaitsForClose` | `WaitInv`, who waits for whom; `CloseReturns` | |
| `DeadlineProofs` | `TypeCorrect`, `Invariance` | `TypeOK`, the inductive invariant | number of registrations and instants |
| | `ResolvedOnce`, `OrderKept`, `SleepersAreTold` | `ResolvedExactlyOnce`, `FiresInOrder`, `NoLostNotification` | |
| `EventQueueProofs` | `TypeCorrect`, `Invariance` | `TypeOK`, the inductive invariant | set of subscriptions and readers, capacity, number of events |
| | `StreamsAccount`, `SleepersWait`, `CriticalsSpared` | `StreamAccountsForEvents`, `SleepersHaveNothingToRead`, `CriticalsDisplaceOrdinary` | |
| `ControllerLaneProofs` | `TypeCorrect`, `Invariance` | `TypeOK`, the inductive invariant | set of actions, subset under the lease, interval, number of failures |
| | `OutcomesAreTruthful`, `ReportsWait` | `TruthfulOutcome`, `ActionsArePaced` | |
| | `NobodySettlesTwice`, `ReleaseComesLast` | `SettledOnce`, `ReleaseIsLast` (action properties) | |
| | `WaitersHaveReasons`, `NobodyIsLeft` | `WaitInv`, who waits for whom; `EveryoneIsAnswered` | |
| `WriteLeaseProofs` | `TypeCorrect`, `Invariance` | `TypeOK`, the inductive invariant | set of acquirers, sequences, finite set of direct actions, number of failures |
| | `LeaseHeldOnce`, `EndReleases` | `LeaseHasOneHolder`, `EndedMeansReleased` | |
| | `HoldersAreAlone` | two callers never hold leases of a lane that works | |
| | `PastIsForGood` | a lease that is over is never held again (action property) | |
| | `WaitersHaveReasons`, `NobodyIsLeft` | `WaitInv`, who waits for whom; `NobodyWaitsForever` | |
| `RequestLaneProofs` | `TypeCorrect`, `Invariance` | `TypeOK`, the inductive invariant | set of requests, payload length, chunks, rates, retries |
| | `BuffersOutliveTransfers`, `SettlementsAreTrue`, `RepliesAreOwn`, `SavesAreWhole` | `NoOrphanTransfer`, `SettlementIsTruthful`, `OwnReplies`, `NoHalfSave` | |
| | `WaitersHaveReasons`, `NobodyIsLeft` | `WaitInv`, who waits for whom; `NobodyIsStuck` | |
| `VisionPoolsProofs` | `TypeCorrect`, `Invariance` | `TypeOK`, the inductive invariant | set of jobs, finite set of workers, capacities |
| | `BooksBalance`, `JobsKept` | `EnginesAccountedFor`, `JobsConserved` | |
| | `SleepersWait`, `NobodyIsLeft` | who sleeps and on what, `NobodyWaitsForNothing` | |
| `CaptureSessionProofs` | `TypeCorrect`, `Invariance` | `TypeOK`, the inductive invariant | set of readers, number of frames and failures |
| | `BackendFinalizedAlone`, `FramesFollow`, `CloseTells` | `FinalizedAlone`, `FramesFollowStartup`, `CloseTellsEverything` | |
| | `WaitersHaveReasons`, `NobodyIsLeft` | `WaitInv`, who waits for whom; `NobodyIsStuck` | |

### 4.1 The arguments

None of the properties is inductive alone. What had to be added, module by module:

* **Operation** (`Inv`). `TypeOK` and, for each operation, eight clauses: `PhaseInv` ties the transaction's `pc` to state and
  winner, `OwnerInv` the arbiter's mode to owner, join and commitment, `ClaimInv` an abandoned claim to its
  transaction, `CancelInv` the reason to the visible phase, `EvidenceInv` evidence to the winner it allows,
  `TokenInv` the token's flags to the transaction, `RecordInv` the handoff record to evidence and candidate, `WaiterInv` a
  waiter to the notification still to come; and for the events, that the last published one is the current
  phase unless a publication is under way. An action changes one operation only, so each step lemma shows the clauses
  for the operation that moved and carries the others over by one frame lemma. The refinement maps `phase` to
  `state`, `cause` to `reason` and `decision` to the arbiter's or the transaction's winner; every action of `Next` is then one
  abstract action or a stutter, by `Inv`.
* **Tokens** (`TreeInv`, beside `Inv`). A child that is not cancelled is in its parent's list or ahead of a seal, and if its parent is
  closed, in the list only if a seal stands at that very parent. What flags a parent puts its seal there in the same step,
  and a child is linked only to a parent that was open a step before, while the list is locked: the first test under the
  lock is what the proof needs, the second one finds what the seal would find. Every step of the tree is one of
  `Operation` or leaves the operation alone (`TreeRefines`), so `Inv` says that an operation that was asked to end is closed.
* **Close** (`CloseInv`). Follows `close.pc`: what each phase has established about tasks, operations, the worker, the failures
  and the events is a clause that starts with that phase (`CloseJoinInv`, `OperationsInv`, `WorkerInv`, `FailureInv`,
  `EventsInv`, `ConvergedInv`), and the proof shows that nothing a user thread does afterwards undoes it. The
  heart is `Doomed`: an operation that close has asked to cancel either ends by itself or stays within reach of
  the fallback. `TaskInv` and `JoinInv` say who holds a task's join gate and its handle. The operations keep
  their own invariant `Inv`: a step of close is an action of `Operation` or leaves the operations alone, so that the first
  half of the module is cited by the second. `WaitInv`, on top: a terminal transaction that close settles or observes is past its claim or
  run by a thread that can go on (`LeftInv`, `FinishingInv`), and what each of the walks of close has left is something it can do;
  a task is marked joined by the one thread that holds its gate, before anybody else marks it (`MarkedInv`), so that no joiner is refused
  at its last step; and who waits for the outcome waits for a close under way (`CallerInv`).
* **Deadlines** (`Inv`). `ControlInv` says what a thread holds in which place; `PlaceInv` that a registration is
  pending, in the heap, in one thread's hands or resolved, and never two of these; `OrderInv` that what a batch took out
  left no earlier registration behind, also between the moments it is taken and fired; `ParkInv` that a sleeper's
  registration is unresolved or somebody still holds the notification.
* **Event queues** (`Inv`). A stream, which is what a subscriber got followed by what is queued, *accounts for* a set of events:
  entries are in order, each gap covers a range and counts what is missing in it, no event lies outside.
  The lemmas show that dropping an event into a gap, fusing two gaps and appending an event keep that account;
  `QueueInv` says it of each stream, `ReaderInv` and `PhaseInv` say who holds the reader guard and who sleeps.
* **Controller lane** (`Inv`). First, what a step can do to one action's record: keep it, take its owner and give it a last
  outcome (`OwnersSettled`), or carry the one report the lane has in its hands a step on (`Reported`). Then `RecordInv` says of each
  action that its report was accepted exactly if its record is between the final byte and the claim or its outcome is success,
  that an operation without outcome whose owner was taken is in the hands of exactly one settler, and that after acceptance
  nothing but the lane, or the close after a panic, touches it. `LaneInv`, `ServingInv` and `QueueInv` tie that to the lane's
  place and queues, `FailInv` to a permanent failure (none while a claim is under way). `GenInv` says that once the release's neutral
  report is begun and the lane neither closes nor failed, every action of the lease is `Dead`: terminal, refused, or bound to be.
  `ReleaseInv` follows the one command that begins the release to the one cleanup it becomes, `PaceInv` the clock from the check
  of the interval to the write. `WaitInv`, on top: a record that still has its owner is *attended* (its command is in the channel or yet to
  be sent, it is in the queue, in the lane's hands or held by a lane that closes: `AttendedInv`, `DrainInv`), the command of a close that joins
  stays in the channel until the lane closes (`CommandInv`), and a release that was handed over is in the channel, scheduled or
  being written (`ToldInv`). A lane asleep without a timer has an empty queue, and if a release waits for the last
  action, whoever settles that action will wake it (`SleepInv`, `KnownInv`). So a lane that cannot move has nothing left to answer.
* **Write lease** (`Inv`). `RecordInv` gives every acquirer's record at most one thread that publishes its outcome, and says
  that a caller who holds the lease has taken it out of the record. Only the lane ever publishes a grant, and while it is about to reserve a
  record with that answer nothing is scheduled and nobody owns (`GrantInv`), so that it does not matter that the check and
  the grant are two steps. A lease on its way back is `Past`: nobody holds it and, by `PastIsForGood`, nobody can come to. For
  sequences, `ScheduledInv` says that what is scheduled is either direct actions or the reports of the one sequence that owns,
  `SettlingInv` that what the lane is about to settle owns nothing, `PlaceInv` what the lane has in each of its places.
  `WaitInv`, on top, gives every wait somebody who ends it: an unresolved record is *attended* (its command is in the channel, in the
  lane's cleanup list or the lane owns or waits on it), a record being resolved has the thread that publishes it, and a caller that sleeps has
  left its waker where that thread will call it (`AnswerInv`, with `OwnThreadInv`); the close command is in the channel
  from the cancellation of the resource until the lane closes (`ClosingInv`); an operation that has not ended is in the channel, scheduled,
  waiting or about to be settled (`WorkInv`). A lane that cannot move has an empty channel and nothing pending, so none of these is left.
* **Requests and bytes** (`Inv`). `CallInv` ties the lane's place to the call of the transport under way, `TransferInv` the call to the
  kernel's transfer, `AccountInv` whoever writes to the bytes the driver took, `DeviceInv` those to the device. On top of
  them, for a request that began when nothing was owed, `ReplyInv` says which replies may be under way (one
  acknowledgement at most, to this exchange; of a reset only its own ready byte, and that one last), and `SaveInv` how far the
  save has come on the device. `WaitInv`, on top: a request that was admitted and has not ended is with its submitter, in the channel
  or in the lane's hands, or close took it out of the channel and has still to cancel it (`KeptInv`); the lane closes only after the
  resource was cancelled, when nobody puts anything into the channel any more (`EndInv`). That leaves the lane's calls of the
  transport: one under way can go on, or the driver can, or its deadline passes (`CallsGoOn`).
* **Pools** (`Inv`). `Books` counts: engines borrowed, in creation and outside the books are as many as the workers in the
  places that have one. `JobsInv` says who holds each job that is owed an answer: the queue, the closing thread, one
  worker or a canceller, once. They meet in the workers' places. `WaitInv`, on top, gives everybody who is asleep a reason: `SleepInv` and
  `EngineSleepInv` say that it would go back to sleep if it woke, or a cancel's hook has still to wake it; whatever ends a
  reason notifies, which is what the proof has to find out of every step. `TicketInv` makes the queue for engines that of the workers at their
  claim, so that its head is asleep too when nobody runs; then no engine is on loan or in creation (`Books`), and the head would find room:
  nobody is in that queue. The rest of `NobodyWaitsForNothing` follows from the job's holders.
* **Capture** (`Inv`). `CallsInv` makes the coordinator's `active` the number of threads inside an interrupt call, `GateInv` admits one
  closing thread at a time, `BuildInv` says what the constructing thread can rely on before anybody else knows the
  session, `FinalInv` what holds once the backend met its end, `StartupInv` who may still end the startup operation.
  `CloseTellsEverything` needs the last clause of it: after `cancel_operations` only the worker may find the startup
  pending. `WaitInv`, on top: the state's mutex is held by one reader on its way to sleep, who can go on, and a reader sleeps only in a session
  that is opening (`ReaderInv`); the start signal was given before anybody waits for the worker (`StartInv`); whoever waits
  for the worker's end has cancelled its token and changed the state (`StopInv`); and a closed gate has somebody behind
  it who finalizes (`SealInv`).

### 4.2 Assumptions

Besides what the constants' types are (`Nat`, not empty where the code has a minimum): names are different things
(`MarkersAreNoNames`, `PlacesAreNoThreads`, `RequestsHaveOneKind`, part of `PoolAssumption` and `LeaseAssumption`); a queue has room for at least one event
(`CapacityAssumption`, which `SubscriptionOptions` enforces); the workers are finitely many (`PoolAssumption`), because
their engines are counted, and there is one at least (`NativePoolOptions::new` refuses zero, `easycon-vision/pool.rs:26`); the direct actions of
`WriteLease` are finitely many (`LeaseAssumption`), because they are scheduled when the module starts. `Operation` needs none. A child is no operation and an operation no canceller
(`TreeAssumption`). No theorem has a hypothesis on the environment.

### 4.3 Only model-checked

* Liveness: `FinishingReachesWaiters`, `NobodyIsForgotten`. The prover has no fairness.

All other properties of the passing runs, the six that nobody is left waiting included, are proved.

## 5. Findings

1. **A close can lose an owner that was joined correctly** (`close_handoff`,
   `runtime.rs:1394`). A joiner removes the task from the registry and only then marks the
   operation's owner joined. Close in between finds no task to join and reports the ownership lost,
   although a transferable owner and evidence are there.
2. **A close may leave buttons pressed** (`controller_close_neutral`, `session.rs:5082`). A release that is
   registered but has not told the lane yet counts as the one that neutralizes, and nobody writes the report.
3. **A closed capture session may leave its startup operation `Cancelling`** (`capture_startup`,
   `capture.rs:1708`). The operation is cancelled between the look at it and the call that was chosen for what was
   seen; the call is refused and nobody tries again before the Runtime closes.

`PROJECT.json` quotes the sentence of the documents each one contradicts.

### 5.1 Divergences without a run

Met while modelling, with the property stated in the module and no run of their own:

* **A waker's panic hides the earliest failure** (`EarliestFailureSaved` in `RuntimeClose`, `runtime.rs:944`). The
  drain of the deadline scheduler resumes it on the closing thread, past the local variable that holds the
  first failure.
* **The deadline worker depends on registrars** (`WorkerIsIndependent` in `DeadlineScheduler`,
  `deadline.rs:571`). A reservation that precedes a due entry bars it, and the worker waits without a timeout for
  a thread that need not come. For the same reason a registration whose target had been reached may be returned
  armed. `NobodyIsForgotten` makes the exception.
* **The neutral report of a release is not paced** (`ReportsArePaced` in `ControllerLane`, `session.rs:3774`). Its target
  is computed when the release command is handled; another neutral report may be accepted at that very time.
  `ActionsArePaced` is what holds.
* **A late reply may complete a later request** (`LateRepliesRejected` in `RequestLane`, `easycon-serial` `transport.rs:284`). The
  transport tags each byte it reads with the generation it was asked for, so the generation check never refuses
  a byte of a real port. What is received before the purge is dropped; what comes after it is not.
  `OwnReplies` is what holds: a request that begins when the device owes nothing is not fooled.
* The comment on `SubscriptionOptions` speaks of one synthesized gap summary; the queue may hold several that
  are not neighbours.

* **A snapshot's cancel wakeup can be lost** (`CancelledSnapshotEnds` in `CaptureSession`, `capture.rs:1191`). The hook notifies
  without the state mutex, between the test of the token and the wait. Under a clock that gives no real wait the snapshot
  then sleeps although it was cancelled, until the session's state changes. `NobodyIsStuck` only says that it does not
  outsleep the session or the Runtime.
* **Tokens below one that is dropped are not reached.** A parent holds its children weakly and a child does not hold its parent. When
  a token in between is dropped, a cancel above it does not find those below, while `cancellation.rs:188` speaks of "this token
  and every live descendant". `OperationTree` models trees whose tokens are kept.

### 5.2 Aborted writes

`windows/io.rs` takes an overlapped write that ended with `ERROR_OPERATION_ABORTED` for one that moved no byte, without
a look at the count (`windows/io.rs:487`). In the model an aborted write may keep the bytes the driver had taken; it counts as
the run's fault. The transport then believes that nothing went out: a report may be settled as not delivered on an open stream although its
first byte did, and the next payload starts behind that byte. `residue` marks the time from such a write until the next
hello has resynchronised the device. `SettlementIsTruthful` excepts that time, for what it says of undelivered
payloads and of garbling, and is violated without the exception; that a payload settled as accepted was taken to its last byte
holds throughout.

## 6. What is not modelled, and the plan

Not modelled at all: pure values, image algorithms and parsers (no state; the label parser is work on
characters), the native bridge (external libraries), the dormant ECS crate, test harnesses and
tools. Partly:

* **Runtime**: diagnostics, poisoned mutexes of the registries, parent operations, operation deadlines in the worker.
  The last one matters (hazard `runtime.rs:1626`): it needs operations inside `DeadlineScheduler`.
* **Scheduler and clock**: `VirtualClock` and its hooks, a test clock; disarmed entries that stay in the heap, which
  change memory and not behaviour.
* **Events**: timestamps, sequence exhaustion, `force_close_event_producers` (only after both attempts at the final
  event failed).
* **Cancellation tree**: tokens that are dropped (section 5.1), hooks and their registration.
* **Controller**: the product of `ControllerLane`, `WriteLease` and `RequestLane`; what a report says; a second close.
* **Serial**: device discovery, one query of the operating system.

The plan:

1. **Operation deadlines** in the deadline worker.
2. **Hooks** of the cancellation tree: a hook registered during a cancel runs once, or is discarded.
