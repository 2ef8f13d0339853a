--------------------------- MODULE CaptureSession ---------------------------
(***************************************************************************)
(* CaptureSession of easycon-vision: one capture resource from its         *)
(* construction to its close.                                              *)
(*                                                                         *)
(* Threads: User constructs the session, then closes or drops it; Rt       *)
(* closes the Runtime; Other cancels the startup operation (its owner, or  *)
(* the deadline worker); the capture worker owns the backend between the   *)
(* start gate and its exit; Readers take snapshots.  The startup operation *)
(* is the legacy operation of Operation.tla, reduced to its phase.         *)
(*                                                                         *)
(* One action is one critical section or one call of the backend.  A       *)
(* cancellation runs the hooks it selected on its own thread, after it has *)
(* flagged the token: `startup_hook` and `resource_hook` say which thread  *)
(* runs each and where it is.                                              *)
(***************************************************************************)
EXTENDS Integers, FiniteSets

CONSTANTS
    User, Rt, Other,  \* threads
    Readers,          \* threads that take one snapshot each
    MaxFrames,        \* bound: frames the backend delivers
    MaxFaults         \* bound: failures of the backend, the spawn and the OS

ASSUME CaptureAssumption ==
    /\ MaxFrames \in Nat /\ MaxFaults \in Nat
    /\ Cardinality({User, Rt, Other}) = 3

(* Where the backend is, or who holds the gate, when it is no thread.       *)
ASSUME PlacesAreNoThreads ==
    {User, Rt, Other} \cap {"nobody", "worker", "channel", "unresolved", "consumed", "dropped"} = {}

VARIABLES
    (* the Runtime, as far as the session sees it *)
    real_clock,     \* its clock ends a snapshot's wait by itself (SystemClock)
    admission,      \* operations, tasks and resources are still admitted
    registered,     \* the resource is in the registry, and retains itself
    (* the startup operation *)
    startup,        \* "none" or its OperationState
    busy,           \* terminal_in_progress
    (* CaptureShared *)
    state, next_sequence,
    (* resource_cancellation, and the hooks of the two tokens *)
    cancelled,
    startup_token,  \* the startup's own token, a child of the Runtime's root
    startup_hook, resource_hook,
    (* InterruptCoordinator *)
    sealed, active,
    stop_requested, \* the backend has been told to stop
    (* the worker *)
    start,          \* StartSignal
    worker, reason, seen,
    (* the backend owner *)
    backend,        \* where it is: a thread, "channel", "unresolved", ...
    (* User and Rt *)
    place, opening, \* opening: what begin_stopping_shared returned
    gate,           \* lifecycle_gate: its holder
    close_result, failures,
    (* snapshots *)
    reader, reader_cancelled, waking,
    locked,         \* a reader holds the state mutex between test and wait
    faults

runtimeVars == <<real_clock, admission, registered>>
startupVars == <<startup, busy, startup_token>>
sharedVars == <<state, next_sequence>>
hookVars == <<startup_hook, resource_hook>>
interruptVars == <<sealed, active, stop_requested>>
workerVars == <<start, worker, reason, seen>>
closeVars == <<gate, close_result>>
readerVars == <<reader, reader_cancelled, waking, locked>>
vars == <<runtimeVars, startupVars, sharedVars, cancelled, hookVars, interruptVars, workerVars,
          backend, place, opening, closeVars, failures, readerVars, faults>>

Free == "nobody"
Closers == {User, Rt}
Terminal == {"Succeeded", "Failed", "Cancelled"}

(* A hook: unregistered, armed, run by thread `by`, or over.                *)
Hook(by, at) == [by |-> by, at |-> at]
Running(hook) == hook.at \notin {"unregistered", "armed", "over"}
Inside(hook, t) == hook.by = t /\ Running(hook) /\ hook.at # "selected"

Building == {"create", "start", "install", "install_resource", "spawn", "register", "abort_join",
             "drain", "finalize", "finalize_again", "look", "settle", "failed"}
Closing == {"stop", "cancel", "cancel_startup", "interrupt", "calling", "join", "finalize_close",
            "complete", "unregister"}
UserPlaces == Building \cup {"commit", "session"} \cup Closing \cup {"done"}
RtPlaces == {"idle", "root", "operations", "resources", "close"} \cup Closing
            \cup {"join_tasks", "done"}
WorkerPlaces == {"unborn", "start", "open", "opened", "open_failed", "loop", "read", "frame",
                 "publish_failed", "snap", "claim", "handoff", "send", "commit", "look", "settle",
                 "exited"}
Phases == {"none", "Pending", "Running", "Cancelling"} \cup Terminal

OperationType ==
    /\ real_clock \in BOOLEAN /\ admission \in BOOLEAN /\ registered \in BOOLEAN
    /\ startup \in Phases /\ seen \in Phases
    /\ busy \in BOOLEAN /\ startup_token \in BOOLEAN

SharedType ==
    /\ state \in {"Constructing", "Opening", "Streaming", "Faulted", "Stopping", "Closed"}
    /\ next_sequence \in 1..(MaxFrames + 1)
    /\ reader \in [Readers -> {"idle", "check", "wait", "asleep", "returned"}]
    /\ reader_cancelled \in [Readers -> BOOLEAN]
    /\ waking \subseteq Readers /\ locked \in BOOLEAN

HookType ==
    /\ cancelled \in BOOLEAN /\ sealed \in BOOLEAN /\ stop_requested \in BOOLEAN
    /\ startup_hook.by \in {User, Rt, Other, Free}
    /\ startup_hook.at \in {"unregistered", "armed", "selected", "stopping", "faulting",
                            "interrupt", "calling", "over"}
    /\ resource_hook.by \in {User, Rt, Free}
    /\ resource_hook.at \in {"unregistered", "armed", "selected", "interrupt", "calling", "over"}
    /\ active \in 0..4

ThreadType ==
    /\ start \in {"Pending", "Run", "Abort"}
    /\ worker \in WorkerPlaces
    /\ reason \in {"none", "Aborted", "Panicked", "Faulted", "Stopped"}
    /\ backend \in {User, Rt, "worker", "channel", "unresolved", "consumed", "dropped"}
    /\ place \in [Closers -> UserPlaces \cup RtPlaces]
    /\ place[User] \in UserPlaces /\ place[Rt] \in RtPlaces
    /\ opening \in [Closers -> BOOLEAN]
    /\ gate \in {User, Rt, Free}

ResultType ==
    /\ close_result \in {"none", "Ok", "Err"}
    /\ failures \subseteq {"worker", "close", "interrupt", "diagnostic"}
    /\ faults \in 0..MaxFaults

TypeOK == OperationType /\ SharedType /\ HookType /\ ThreadType /\ ResultType

Init ==
    /\ real_clock \in BOOLEAN
    /\ admission = TRUE /\ registered = FALSE
    /\ startup = "none" /\ busy = FALSE /\ startup_token = FALSE
    /\ state = "Constructing" /\ next_sequence = 1
    /\ cancelled = FALSE
    /\ startup_hook = Hook(Free, "unregistered") /\ resource_hook = Hook(Free, "unregistered")
    /\ sealed = FALSE /\ active = 0 /\ stop_requested = FALSE
    /\ start = "Pending" /\ worker = "unborn" /\ reason = "none" /\ seen = "none"
    /\ backend = User
    /\ place = [t \in Closers |-> IF t = User THEN "create" ELSE "idle"]
    /\ opening = [t \in Closers |-> FALSE]
    /\ gate = Free /\ close_result = "none" /\ failures = {}
    /\ reader = [r \in Readers |-> "idle"] /\ reader_cancelled = [r \in Readers |-> FALSE]
    /\ waking = {} /\ locked = FALSE
    /\ faults = 0

Goto(t, there) == place' = [place EXCEPT ![t] = there]

Fail(what) ==
    /\ faults < MaxFaults /\ faults' = faults + 1
    /\ failures' = failures \cup {what}

(* A failure of the backend that close does not report.                     *)
Fault == faults < MaxFaults /\ faults' = faults + 1 /\ UNCHANGED failures

NoFault == UNCHANGED <<faults, failures>>

(* Every change of the shared state is made under its mutex and notifies.   *)
Awake == [r \in Readers |-> IF reader[r] = "asleep" THEN "check" ELSE reader[r]]

SetState(s) ==
    /\ ~locked
    /\ state' = s
    /\ reader' = Awake

KeepState == ~locked /\ UNCHANGED <<state, reader>>

(* set_fault, begin_stopping_shared                                         *)
SetFault == IF state \in {"Opening", "Streaming"} THEN SetState("Faulted") ELSE KeepState
BeginStopping == IF state # "Closed" THEN SetState("Stopping") ELSE KeepState

-----------------------------------------------------------------------------
(* The startup operation: start, request_cancel, succeed, fail and          *)
(* finish_cancelled as the session calls them.  Its token is deactivated,   *)
(* and a hook still armed discarded, when a terminal transaction begins.    *)

Settled == startup \in Terminal

SelectStartupHook(t) ==
    IF startup_hook.at = "armed" /\ ~startup_token
    THEN startup_hook' = Hook(t, "selected") ELSE UNCHANGED startup_hook

Discarded == IF startup_hook.at = "armed" THEN Hook(Free, "over") ELSE startup_hook

RequestCancel(t) ==
    IF startup \in {"Pending", "Running"} /\ ~busy
    THEN /\ startup' = "Cancelling" /\ startup_token' = TRUE
         /\ SelectStartupHook(t)
    ELSE UNCHANGED <<startup, startup_token, startup_hook>>

CanSucceed == startup = "Running" /\ ~busy
CanFail == startup \in {"Pending", "Running"} /\ ~busy
CanFinishCancelled == startup = "Cancelling" /\ ~busy

Finish(outcome) ==
    /\ startup' = outcome
    /\ startup_hook' = Discarded

(* The second half of settle_startup_after_worker and of                    *)
(* settle_startup_after_construction_failure: what the snapshot `saw` asks  *)
(* for, if the operation still admits it.                                   *)
SettleStartup(saw) ==
    IF saw = "Cancelling" /\ CanFinishCancelled THEN Finish("Cancelled")
    ELSE IF saw \in {"Pending", "Running"} /\ CanFail THEN Finish("Failed")
    ELSE UNCHANGED <<startup, startup_hook>>

-----------------------------------------------------------------------------
(* InterruptCoordinator::request_stop, by a hook or by begin_stop.          *)

(* Mutation of Leave: a failed interrupt leaves its call counted. *)
LeaveUnlessFailed ==
    /\ stop_requested' = TRUE
    /\ \/ NoFault /\ active' = active - 1
       \/ Fail("interrupt") /\ UNCHANGED active

Enter == IF sealed THEN UNCHANGED active ELSE active' = active + 1

Leave ==
    /\ active' = active - 1
    /\ stop_requested' = TRUE
    /\ \/ NoFault
       \/ Fail("interrupt")

StartupHook ==
    LET t == startup_hook.by
        at(there) == startup_hook' = Hook(t, there)
    IN
    /\ \/ /\ startup_hook.at = "selected" /\ ~Inside(resource_hook, t)
          /\ at(IF cancelled THEN "stopping" ELSE "faulting")
          /\ NoFault /\ UNCHANGED <<state, reader, active, stop_requested>>
       \/ /\ startup_hook.at \in {"stopping", "faulting"}
          /\ IF state = "Opening"
             THEN SetState(IF startup_hook.at = "stopping" THEN "Stopping" ELSE "Faulted")
             ELSE KeepState
          /\ at(IF state = "Opening" THEN "interrupt" ELSE "over")
          /\ NoFault /\ UNCHANGED <<active, stop_requested>>
       \/ /\ startup_hook.at = "interrupt"
          /\ Enter
          /\ at(IF sealed THEN "over" ELSE "calling")
          /\ NoFault /\ UNCHANGED <<state, reader, stop_requested>>
       \/ /\ startup_hook.at = "calling"
          /\ Leave
          /\ at("over")
          /\ UNCHANGED <<state, reader>>
    /\ UNCHANGED <<runtimeVars, startupVars, next_sequence, cancelled, resource_hook, sealed,
                   workerVars, backend, place, opening, closeVars, reader_cancelled, waking, locked>>

ResourceHook ==
    LET at(there) == resource_hook' = Hook(resource_hook.by, there) IN
    /\ \/ /\ resource_hook.at = "selected" /\ ~Inside(startup_hook, resource_hook.by)
          /\ BeginStopping
          /\ at("interrupt")
          /\ NoFault /\ UNCHANGED <<active, stop_requested>>
       \/ /\ resource_hook.at = "interrupt"
          /\ Enter
          /\ at(IF sealed THEN "over" ELSE "calling")
          /\ NoFault /\ UNCHANGED <<state, reader, stop_requested>>
       \/ /\ resource_hook.at = "calling"
          /\ Leave
          /\ at("over")
          /\ UNCHANGED <<state, reader>>
    /\ UNCHANGED <<runtimeVars, startupVars, next_sequence, cancelled, startup_hook, sealed,
                   workerVars, backend, place, opening, closeVars, reader_cancelled, waking, locked>>

(* A thread goes on when the hooks it runs are over.                        *)
Unhooked(t) ==
    /\ ~(Running(startup_hook) /\ startup_hook.by = t)
    /\ ~(Running(resource_hook) /\ resource_hook.by = t)

(* CancellationToken::cancel of the resource token.                         *)
CancelResource(t) ==
    /\ cancelled' = TRUE
    /\ resource_hook' = IF resource_hook.at = "armed" /\ ~cancelled
                        THEN Hook(t, "selected") ELSE resource_hook

(* The owner of the startup operation, or the deadline worker, cancels it.  *)
CancelStartup ==
    /\ CanFail
    /\ RequestCancel(Other)
    /\ UNCHANGED <<runtimeVars, busy, sharedVars, cancelled, resource_hook, interruptVars,
                   workerVars, backend, place, opening, closeVars, failures, readerVars, faults>>

-----------------------------------------------------------------------------
(* open_backend, on User's thread.                                          *)

Constructing(here) == place[User] = here
Step(here, there) == Constructing(here) /\ Goto(User, there)

Create ==
    /\ Step("create", IF admission THEN "start" ELSE "finalize")
    /\ startup' = IF admission THEN "Pending" ELSE "none"
    /\ UNCHANGED <<runtimeVars, busy, startup_token, sharedVars, cancelled, hookVars,
                   interruptVars, workerVars, backend, opening, closeVars, failures, readerVars,
                   faults>>

StartStartup ==
    /\ Step("start", IF startup = "Pending" THEN "install" ELSE "finalize")
    /\ startup' = IF startup = "Pending" THEN "Running" ELSE startup
    /\ UNCHANGED <<runtimeVars, busy, startup_token, sharedVars, cancelled, hookVars,
                   interruptVars, workerVars, backend, opening, closeVars, failures, readerVars,
                   faults>>

(* install_startup_cancel_hook: a token already cancelled runs the hook on  *)
(* the thread that registers it.                                            *)
InstallStartupHook ==
    /\ Step("install", "install_resource")
    /\ state' = "Opening"
    /\ startup_hook' = IF startup_token THEN Hook(User, "selected")
                       ELSE IF Settled THEN Hook(Free, "over") ELSE Hook(Free, "armed")
    /\ UNCHANGED <<runtimeVars, startupVars, next_sequence, cancelled, resource_hook,
                   interruptVars, workerVars, backend, opening, closeVars, failures, readerVars,
                   faults>>

InstallResourceHook ==
    /\ Step("install_resource", "spawn") /\ Unhooked(User)
    /\ resource_hook' = IF cancelled THEN Hook(User, "selected") ELSE Hook(Free, "armed")
    /\ UNCHANGED <<runtimeVars, startupVars, sharedVars, cancelled, startup_hook, interruptVars,
                   workerVars, backend, opening, closeVars, failures, readerVars, faults>>

(* spawn_supervised gives the launch back when the Runtime refuses it or    *)
(* the OS cannot start a thread.                                            *)
SpawnWorker ==
    /\ Constructing("spawn") /\ Unhooked(User)
    /\ \/ /\ admission
          /\ Goto(User, "register")
          /\ worker' = "start" /\ backend' = "worker"
          /\ NoFault
       \/ /\ IF admission THEN Fault ELSE NoFault
          /\ Goto(User, "drain")
          /\ UNCHANGED <<worker, backend>>
    /\ UNCHANGED <<runtimeVars, startupVars, sharedVars, cancelled, hookVars, interruptVars,
                   start, reason, seen, opening, closeVars, readerVars>>

Register ==
    /\ Constructing("register")
    /\ IF admission
       THEN /\ registered' = TRUE /\ gate' = User
            /\ Goto(User, "commit")
            /\ UNCHANGED start
       ELSE /\ start' = "Abort"
            /\ Goto(User, "abort_join")
            /\ UNCHANGED <<registered, gate>>
    /\ UNCHANGED <<real_clock, admission, startupVars, sharedVars, cancelled, hookVars, interruptVars,
                   worker, reason, seen, backend, opening, close_result, failures, readerVars,
                   faults>>

CommitSession ==
    /\ Step("commit", "session")
    /\ start' = "Run" /\ gate' = Free
    /\ UNCHANGED <<runtimeVars, startupVars, sharedVars, cancelled, hookVars, interruptVars,
                   worker, reason, seen, backend, opening, close_result, failures, readerVars,
                   faults>>

AbortJoin ==
    /\ Step("abort_join", "drain") /\ worker = "exited"
    /\ backend' = User
    /\ UNCHANGED <<runtimeVars, startupVars, sharedVars, cancelled, hookVars, interruptVars,
                   workerVars, opening, closeVars, failures, readerVars, faults>>

(* InterruptCoordinator::seal_and_drain, once the scoped resource hook is   *)
(* unregistered: seal, then wait for the calls under way.                   *)
Unregister(hook) == IF hook.at = "armed" THEN Hook(Free, "over") ELSE hook

(* Mutation of Drained: the calls under way are not waited for. *)
DrainedAtOnce == sealed

Seal(t, here, there) ==
    /\ place[t] = here /\ ~sealed
    /\ sealed' = TRUE
    /\ resource_hook' = Unregister(resource_hook)
    /\ Goto(t, there)

Drained == sealed /\ active = 0

SealConstruction ==
    /\ Seal(User, "drain", "finalize")
    /\ UNCHANGED <<runtimeVars, startupVars, sharedVars, cancelled, startup_hook, active,
                   stop_requested, workerVars, backend, opening, closeVars, failures, readerVars,
                   faults>>

(* finalize_construction_backend: a second attempt, and then the owner is   *)
(* dropped.  Before the coordinator exists there is nothing to drain.       *)
FinalizeConstruction ==
    /\ state = "Constructing" \/ Drained
    /\ \/ /\ Constructing("finalize") \/ Constructing("finalize_again")
          /\ backend' = "consumed" /\ Goto(User, "look") /\ NoFault
       \/ /\ Step("finalize", "finalize_again")
          /\ Fault /\ UNCHANGED backend
       \/ /\ Step("finalize_again", "look")
          /\ Fault /\ backend' = "dropped"
    /\ UNCHANGED <<runtimeVars, startupVars, sharedVars, cancelled, hookVars, interruptVars,
                   workerVars, opening, closeVars, readerVars>>

(* settle_startup_after_construction_failure: snapshot, then settle.        *)
LookConstruction ==
    /\ Step("look", "settle")
    /\ seen' = startup
    /\ UNCHANGED <<runtimeVars, startupVars, sharedVars, cancelled, hookVars, interruptVars,
                   start, worker, reason, backend, opening, closeVars, failures, readerVars,
                   faults>>

SettleConstruction ==
    /\ Step("settle", "failed")
    /\ SettleStartup(seen)
    /\ UNCHANGED <<runtimeVars, busy, startup_token, sharedVars, cancelled, resource_hook,
                   interruptVars, workerVars, backend, opening, closeVars, failures, readerVars,
                   faults>>

-----------------------------------------------------------------------------
(* The capture worker.                                                      *)

workerFrame == <<runtimeVars, cancelled, resource_hook, interruptVars, start, place, opening,
                 closeVars, reader_cancelled, waking, locked>>

At(here, there) == worker = here /\ worker' = there
Exits(why) == reason' = why

WaitForStart ==
    /\ worker = "start" /\ start # "Pending"
    /\ IF start = "Run" THEN worker' = "open" /\ UNCHANGED reason
                        ELSE worker' = "handoff" /\ Exits("Aborted")
    /\ UNCHANGED <<workerFrame, startupVars, startup_hook, sharedVars, reader, seen, backend,
                   failures, faults>>

(* A call of the backend fails by itself, or because it was told to stop.   *)
Interrupted == stop_requested \/ cancelled

Errs == IF Interrupted THEN NoFault ELSE Fault

Panics ==
    /\ worker' = "snap" /\ Exits("Panicked")
    /\ SetFault
    /\ Fail("worker")

(* validate_profile: the profile exceeds the limits, or is inconsistent.     *)
RejectProfile ==
    /\ worker' = "snap" /\ Exits("Faulted") /\ Fault
    /\ SetFault

OpenBackend ==
    /\ worker = "open"
    /\ \/ /\ worker' = "opened" /\ NoFault
          /\ UNCHANGED <<reason, state, reader>>
       \/ /\ worker' = "open_failed" /\ Errs
          /\ IF cancelled THEN KeepState ELSE SetFault
          /\ UNCHANGED reason
       \/ RejectProfile
       \/ Panics
    /\ UNCHANGED <<workerFrame, startupVars, startup_hook, next_sequence, seen, backend>>

Opened ==
    /\ worker \in {"opened", "open_failed"} /\ ~locked
    /\ IF worker = "opened" /\ state = "Opening"
       THEN worker' = "loop" /\ UNCHANGED reason
       ELSE worker' = "snap" /\ Exits(IF state = "Faulted" THEN "Faulted" ELSE "Stopped")
    /\ UNCHANGED <<workerFrame, startupVars, startup_hook, sharedVars, reader, seen, backend,
                   failures, faults>>

Loop ==
    /\ worker = "loop"
    /\ IF cancelled THEN worker' = "snap" /\ Exits("Stopped")
                    ELSE worker' = "read" /\ UNCHANGED reason
    /\ UNCHANGED <<workerFrame, startupVars, startup_hook, sharedVars, reader, seen, backend,
                   failures, faults>>

Read ==
    /\ worker = "read"
    /\ \/ /\ next_sequence <= MaxFrames
          /\ worker' = "frame" /\ NoFault
          /\ UNCHANGED <<reason, state, reader>>
       \/ /\ worker' = "snap" /\ Fault                        \* the end of the stream
          /\ SetFault /\ Exits("Faulted")
       \/ /\ worker' = "snap" /\ Errs
          /\ IF cancelled \/ state \in {"Stopping", "Closed"}
             THEN KeepState /\ Exits("Stopped")
             ELSE SetFault /\ Exits("Faulted")
       \/ Panics
    /\ UNCHANGED <<workerFrame, startupVars, startup_hook, next_sequence, seen, backend>>

(* Mutation of PublishFrame: a first frame is shown whoever wins. *)
PublishAnyway ==
    /\ worker = "frame" /\ worker' = "loop"
    /\ IF CanSucceed THEN Finish("Succeeded") ELSE UNCHANGED <<startup, startup_hook>>
    /\ IF state \in {"Opening", "Streaming"}
       THEN SetState("Streaming") /\ next_sequence' = next_sequence + 1
       ELSE KeepState /\ UNCHANGED next_sequence
    /\ UNCHANGED <<workerFrame, busy, startup_token, reason, seen, backend, failures, faults>>

(* publish_frame: the first frame is published only by the call that        *)
(* completes the startup operation.                                         *)
PublishFrame ==
    /\ worker = "frame"
    /\ IF state = "Opening" /\ ~CanSucceed
       THEN /\ worker' = "publish_failed"
            /\ KeepState /\ UNCHANGED <<startup, startup_hook, next_sequence>>
       ELSE /\ worker' = "loop"
            /\ IF state = "Opening" THEN Finish("Succeeded")
                                    ELSE UNCHANGED <<startup, startup_hook>>
            /\ IF state \in {"Opening", "Streaming"}
               THEN SetState("Streaming") /\ next_sequence' = next_sequence + 1
               ELSE KeepState /\ UNCHANGED next_sequence
    /\ UNCHANGED <<workerFrame, busy, startup_token, reason, seen, backend, failures, faults>>

PublishFailed ==
    /\ At("publish_failed", "snap") /\ Exits("Faulted")
    /\ SetFault
    /\ UNCHANGED <<workerFrame, startupVars, startup_hook, next_sequence, seen, backend,
                   failures, faults>>

(* capture_worker after the loop: a worker that failed before its startup   *)
(* operation ended claims the operation first and hands the backend off as  *)
(* the cleanup of that claim.                                               *)
Snap ==
    /\ At("snap", IF reason \in {"Faulted", "Panicked"} /\ startup \in {"Pending", "Running"}
                  THEN "claim" ELSE "handoff")
    /\ UNCHANGED <<workerFrame, startupVars, startup_hook, sharedVars, reader, reason, seen,
                   backend, failures, faults>>

FailAfterCleanup ==
    /\ At("claim", "handoff")
    /\ busy' = CanFail
    /\ startup_hook' = IF CanFail THEN Discarded ELSE startup_hook
    /\ UNCHANGED <<workerFrame, startup, startup_token, sharedVars, reader, reason, seen, backend,
                   failures, faults>>

(* WorkerOwnerGuard::handoff: close the backend, then give the owner away.  *)
BackendCloses == NoFault \/ Fail("close") \/ Fail("worker")

CloseBackend ==
    /\ At("handoff", "send")
    /\ IF reason = "Aborted" THEN NoFault ELSE BackendCloses
    /\ stop_requested' = (stop_requested \/ reason # "Aborted")
    /\ UNCHANGED <<runtimeVars, cancelled, resource_hook, sealed, active, start, place, opening,
                   closeVars, reader_cancelled, waking, locked, startupVars, startup_hook,
                   sharedVars, reader, reason, seen, backend>>

SendExit ==
    /\ At("send", IF busy THEN "commit" ELSE IF reason = "Aborted" THEN "exited" ELSE "look")
    /\ backend' = "channel"
    /\ UNCHANGED <<workerFrame, startupVars, startup_hook, sharedVars, reader, reason, seen,
                   failures, faults>>

CommitFailure ==
    /\ At("commit", "look")
    /\ startup' = "Failed" /\ busy' = FALSE
    /\ UNCHANGED <<workerFrame, startup_token, startup_hook, sharedVars, reader, reason, seen,
                   backend, failures, faults>>

(* settle_startup_after_worker: snapshot, then settle.                      *)
Look ==
    /\ At("look", "settle")
    /\ seen' = startup
    /\ UNCHANGED <<workerFrame, startupVars, startup_hook, sharedVars, reader, reason, backend,
                   failures, faults>>

SettleAfterWorker ==
    /\ At("settle", "exited")
    /\ SettleStartup(seen)
    /\ UNCHANGED <<workerFrame, busy, startup_token, sharedVars, reader, reason, seen, backend,
                   failures, faults>>

-----------------------------------------------------------------------------
(* begin_stop, by close_inner under the gate or by the drop of the session. *)

Ending(t) == place[t] \in {"session", "close"}

(* close_inner with a result already recorded gives it back.                *)
EnterClose(t) ==
    /\ Ending(t) /\ gate = Free
    /\ IF close_result = "none"
       THEN gate' = t /\ Goto(t, "stop")
       ELSE Goto(t, IF t = User THEN "done" ELSE "join_tasks") /\ UNCHANGED gate
    /\ UNCHANGED <<runtimeVars, startupVars, sharedVars, cancelled, hookVars, interruptVars,
                   workerVars, backend, opening, close_result, failures, readerVars, faults>>

(* A snapshot borrows the session: it cannot be dropped under one.          *)
DropSession ==
    /\ Constructing("session")
    /\ \A r \in Readers : reader[r] \in {"idle", "returned"}
    /\ Goto(User, "stop")
    /\ UNCHANGED <<runtimeVars, startupVars, sharedVars, cancelled, hookVars, interruptVars,
                   workerVars, backend, opening, closeVars, failures, readerVars, faults>>

Stop(t) ==
    /\ place[t] = "stop"
    /\ BeginStopping
    /\ opening' = [opening EXCEPT ![t] = state = "Opening"]
    /\ Goto(t, "cancel")
    /\ UNCHANGED <<runtimeVars, startupVars, next_sequence, cancelled, hookVars, interruptVars,
                   workerVars, backend, closeVars, failures, reader_cancelled, waking, locked,
                   faults>>

CancelSession(t) ==
    /\ place[t] = "cancel"
    /\ CancelResource(t)
    /\ Goto(t, "cancel_startup")
    /\ UNCHANGED <<runtimeVars, startupVars, sharedVars, startup_hook, interruptVars, workerVars,
                   backend, opening, closeVars, failures, readerVars, faults>>

CancelOwnStartup(t) ==
    /\ place[t] = "cancel_startup" /\ Unhooked(t)
    /\ IF opening[t] THEN RequestCancel(t) ELSE UNCHANGED <<startup, startup_token, startup_hook>>
    /\ Goto(t, "interrupt")
    /\ UNCHANGED <<runtimeVars, busy, sharedVars, cancelled, resource_hook, interruptVars,
                   workerVars, backend, opening, closeVars, failures, readerVars, faults>>

AfterStop(t) == IF gate # t THEN "done" ELSE IF backend = "unresolved" THEN "finalize_close"
                ELSE "join"

EnterInterrupt(t) ==
    /\ place[t] = "interrupt" /\ Unhooked(t)
    /\ Enter
    /\ Goto(t, IF sealed THEN AfterStop(t) ELSE "calling")
    /\ UNCHANGED <<runtimeVars, startupVars, sharedVars, cancelled, hookVars, sealed,
                   stop_requested, workerVars, backend, opening, closeVars, failures, readerVars,
                   faults>>

LeaveInterrupt(t) ==
    /\ place[t] = "calling"
    /\ Leave
    /\ Goto(t, AfterStop(t))
    /\ UNCHANGED <<runtimeVars, startupVars, sharedVars, cancelled, hookVars, sealed, workerVars,
                   backend, opening, closeVars, readerVars>>

(* task.join, take_worker_exit, seal_and_drain.                             *)
SealClose(t) ==
    /\ worker = "exited"
    /\ Seal(t, "join", "finalize_close")
    /\ backend' = t
    /\ UNCHANGED <<runtimeVars, startupVars, sharedVars, cancelled, startup_hook, active,
                   stop_requested, workerVars, opening, closeVars, failures, readerVars, faults>>

(* An owner that could not be consumed is kept, and close may be retried.   *)
Consumes == backend' = "consumed" /\ (NoFault \/ Fail("diagnostic"))

FinalizeClose(t) ==
    /\ place[t] = "finalize_close" /\ Drained
    /\ \/ /\ Consumes
          /\ Goto(t, "complete") /\ UNCHANGED gate
       \/ /\ backend' = "unresolved" /\ gate' = Free
          /\ Goto(t, IF t = User THEN "session" ELSE "join_tasks")
          /\ Fault
    /\ UNCHANGED <<runtimeVars, startupVars, sharedVars, cancelled, hookVars, interruptVars,
                   workerVars, opening, close_result, readerVars>>

CompleteClosed(t) ==
    /\ place[t] = "complete"
    /\ SetState("Closed")
    /\ Goto(t, "unregister")
    /\ UNCHANGED <<runtimeVars, startupVars, next_sequence, cancelled, hookVars, interruptVars,
                   workerVars, backend, opening, closeVars, failures, reader_cancelled, waking,
                   locked, faults>>

(* Mutation of Diagnostics: the failure of the interrupt is left out. *)
DiagnosticsOfWorker == failures \ {"interrupt"}

(* combine_diagnostics over the evidence of the cleanup.                    *)
Diagnostics == failures

Unregistered(t) ==
    /\ place[t] = "unregister"
    /\ close_result' = IF Diagnostics = {} THEN "Ok" ELSE "Err"
    /\ registered' = FALSE /\ gate' = Free
    /\ Goto(t, IF t = User THEN "done" ELSE "join_tasks")
    /\ UNCHANGED <<real_clock, admission, startupVars, sharedVars, cancelled, hookVars, interruptVars,
                   workerVars, backend, opening, failures, readerVars, faults>>

CloseStep(t) ==
    \/ EnterClose(t) \/ Stop(t) \/ CancelSession(t) \/ CancelOwnStartup(t) \/ EnterInterrupt(t)
    \/ LeaveInterrupt(t) \/ SealClose(t) \/ FinalizeClose(t) \/ CompleteClosed(t)
    \/ Unregistered(t)

-----------------------------------------------------------------------------
(* Runtime::close, as far as it meets the session.                          *)

CloseAdmission ==
    /\ place[Rt] = "idle" /\ Goto(Rt, "root")
    /\ admission' = FALSE
    /\ UNCHANGED <<real_clock, registered, startupVars, sharedVars, cancelled, hookVars, interruptVars,
                   workerVars, backend, opening, closeVars, failures, readerVars, faults>>

(* One cancel of the root flags both children and selects both hooks.       *)
CancelRoot ==
    /\ place[Rt] = "root" /\ Goto(Rt, "operations")
    /\ CancelResource(Rt)
    /\ SelectStartupHook(Rt)
    /\ startup_token' = TRUE
    /\ UNCHANGED <<runtimeVars, startup, busy, sharedVars, interruptVars, workerVars, backend,
                   opening, closeVars, failures, readerVars, faults>>

CancelOperations ==
    /\ place[Rt] = "operations" /\ Unhooked(Rt)
    /\ RequestCancel(Rt)
    /\ Goto(Rt, "resources")
    /\ UNCHANGED <<runtimeVars, busy, sharedVars, cancelled, resource_hook, interruptVars,
                   workerVars, backend, opening, closeVars, failures, readerVars, faults>>

CloseResources ==
    /\ place[Rt] = "resources" /\ Unhooked(Rt)
    /\ Goto(Rt, IF registered THEN "close" ELSE "join_tasks")
    /\ UNCHANGED <<runtimeVars, startupVars, sharedVars, cancelled, hookVars, interruptVars,
                   workerVars, backend, opening, closeVars, failures, readerVars, faults>>

JoinTasks ==
    /\ place[Rt] = "join_tasks" /\ worker \in {"unborn", "exited"}
    /\ Goto(Rt, "done")
    /\ IF CanFinishCancelled THEN Finish("Cancelled") ELSE UNCHANGED <<startup, startup_hook>>
    /\ UNCHANGED <<runtimeVars, busy, startup_token, sharedVars, cancelled, resource_hook,
                   interruptVars, workerVars, backend, opening, closeVars, failures, readerVars,
                   faults>>

-----------------------------------------------------------------------------
(* Snapshots.                                                               *)

readerFrame == <<runtimeVars, startupVars, sharedVars, cancelled, hookVars, interruptVars,
                 workerVars, backend, place, opening, closeVars, failures, faults>>

BeginSnapshot(r) ==
    /\ reader[r] = "idle" /\ Constructing("session")
    /\ reader' = [reader EXCEPT ![r] = "check"]
    /\ UNCHANGED <<readerFrame, reader_cancelled, waking, locked>>

(* The test of the wait loop; the wait itself is a later step, and the      *)
(* mutex is held until it.                                                  *)
CheckSnapshot(r) ==
    /\ reader[r] = "check" /\ ~locked
    /\ LET waits == state = "Opening" /\ ~reader_cancelled[r] IN
       /\ reader' = [reader EXCEPT ![r] = IF waits THEN "wait" ELSE "returned"]
       /\ locked' = waits
    /\ UNCHANGED <<readerFrame, reader_cancelled, waking>>

SleepSnapshot(r) ==
    /\ reader[r] = "wait"
    /\ reader' = [reader EXCEPT ![r] = "asleep"]
    /\ locked' = FALSE
    /\ UNCHANGED <<readerFrame, reader_cancelled, waking>>

(* real_wait_duration: None under a manual clock.                           *)
SnapshotDeadline(r) ==
    /\ real_clock /\ reader[r] = "asleep" /\ ~locked
    /\ reader' = [reader EXCEPT ![r] = "returned"]
    /\ UNCHANGED <<readerFrame, reader_cancelled, waking, locked>>

(* The token of a snapshot is cancelled; its hook notifies without the      *)
(* state mutex.                                                             *)
CancelSnapshot(r) ==
    /\ reader[r] \in {"check", "wait", "asleep"} /\ ~reader_cancelled[r]
    /\ reader_cancelled' = [reader_cancelled EXCEPT ![r] = TRUE]
    /\ waking' = waking \cup {r}
    /\ UNCHANGED <<readerFrame, reader, locked>>

WakeSnapshot(r) ==
    /\ r \in waking /\ waking' = waking \ {r}
    /\ reader' = Awake
    /\ UNCHANGED <<readerFrame, reader_cancelled, locked>>

-----------------------------------------------------------------------------
Construction ==
    \/ Create \/ StartStartup \/ InstallStartupHook \/ InstallResourceHook \/ SpawnWorker
    \/ Register \/ CommitSession \/ AbortJoin \/ SealConstruction \/ FinalizeConstruction
    \/ LookConstruction \/ SettleConstruction

WorkerEnds ==
    \/ Snap \/ FailAfterCleanup \/ CloseBackend \/ SendExit \/ CommitFailure \/ Look
    \/ SettleAfterWorker

WorkerRuns ==
    \/ WaitForStart \/ OpenBackend \/ Opened \/ Loop \/ Read \/ PublishFrame \/ PublishFailed

RuntimeClose ==
    \/ CloseAdmission \/ CancelRoot \/ CancelOperations \/ CloseResources \/ JoinTasks

Snapshot(r) == CheckSnapshot(r) \/ SleepSnapshot(r) \/ SnapshotDeadline(r) \/ WakeSnapshot(r)

Next ==
    \/ Construction \/ DropSession
    \/ WorkerRuns \/ WorkerEnds
    \/ StartupHook \/ ResourceHook
    \/ CancelStartup
    \/ RuntimeClose
    \/ \E t \in Closers : CloseStep(t)
    \/ \E r \in Readers : BeginSnapshot(r) \/ CancelSnapshot(r) \/ Snapshot(r)

Spec == Init /\ [][Next]_vars

-----------------------------------------------------------------------------
(* The backend is finalized, or dropped, only once the worker no longer     *)
(* runs and no interrupt call is under way or can begin: no call of it      *)
(* meets its end.                                                           *)
FinalizedAlone ==
    /\ backend \in {"consumed", "dropped"} =>
        /\ worker \in {"unborn", "exited"}
        /\ active = 0 /\ (sealed \/ state = "Constructing")
    /\ place[User] = "failed" =>
        /\ backend \in {"consumed", "dropped"} /\ ~registered

(* The frames of a session begin with the success of its startup operation, *)
(* whatever cancels, fails or closes the session meanwhile; and a first     *)
(* frame is never withheld from an operation that succeeded.                *)
FramesFollowStartup ==
    /\ next_sequence > 1 <=> startup = "Succeeded"
    /\ state = "Streaming" => startup = "Succeeded"

(* What close recorded is what happened: the owner is consumed, the         *)
(* resource has left the registry, and the error is there exactly when the  *)
(* worker, the interrupt, the close or the finalizer of the backend failed; *)
(* and once Runtime::close has joined the worker the startup operation is   *)
(* over, even where the session's own settlement missed it.                 *)
CloseTellsEverything ==
    /\ close_result # "none" =>
         /\ state = "Closed" /\ backend = "consumed" /\ ~registered /\ worker = "exited"
         /\ close_result = "Ok" <=> failures = {}
    /\ place[Rt] = "done" => startup \in Terminal \cup {"none"}

(* Who can go on, without a new request, cancellation or snapshot: the      *)
(* guards of the actions of each thread.  A backend that is read need not   *)
(* deliver anything until it is told to stop.                               *)
UserMoves ==
    \/ place[User] \in {"create", "start", "install", "register", "commit", "look", "settle"}
    \/ place[User] \in {"install_resource", "spawn"} /\ Unhooked(User)
    \/ place[User] = "abort_join" /\ worker = "exited"
    \/ place[User] = "drain" /\ ~sealed
    \/ place[User] \in {"finalize", "finalize_again"} /\ (state = "Constructing" \/ Drained)

CloserMoves(t) ==
    \/ place[t] = "close" /\ gate = Free
    \/ place[t] \in {"stop", "complete"} /\ ~locked
    \/ place[t] \in {"cancel", "calling", "unregister"}
    \/ place[t] \in {"cancel_startup", "interrupt"} /\ Unhooked(t)
    \/ place[t] = "join" /\ worker = "exited" /\ ~sealed
    \/ place[t] = "finalize_close" /\ Drained

RuntimeMoves ==
    \/ place[Rt] = "root"
    \/ place[Rt] \in {"operations", "resources"} /\ Unhooked(Rt)
    \/ place[Rt] = "join_tasks" /\ worker \in {"unborn", "exited"}

HookMoves(hook, other) ==
    \/ hook.at = "selected" /\ ~Inside(other, hook.by) /\ ~locked
    \/ hook.at \in {"stopping", "faulting"} /\ ~locked
    \/ hook.at \in {"interrupt", "calling"}

WorkerMoves ==
    \/ worker = "start" /\ start # "Pending"
    \/ worker = "read" /\ Interrupted /\ ~locked
    \/ worker \in {"opened", "open_failed", "frame", "publish_failed"} /\ ~locked
    \/ worker \in {"open", "loop", "snap", "claim", "handoff", "send", "commit", "look", "settle"}

ReaderMoves(r) ==
    \/ reader[r] = "check" /\ ~locked
    \/ reader[r] = "wait"
    \/ reader[r] = "asleep" /\ real_clock /\ ~locked
    \/ r \in waking

SomebodyMoves ==
    \/ UserMoves \/ RuntimeMoves \/ WorkerMoves
    \/ \E t \in Closers : CloserMoves(t)
    \/ HookMoves(startup_hook, resource_hook) \/ HookMoves(resource_hook, startup_hook)
    \/ \E r \in Readers : ReaderMoves(r)

(* When nobody can go on, everybody has come through: no close, worker,     *)
(* hook or snapshot waits for something that will never happen.  Only as    *)
(* long as neither the session nor the Runtime is being closed may a worker *)
(* wait for a frame, and a snapshot for the worker.                         *)
NobodyIsStuck ==
    ~SomebodyMoves =>
        /\ place[User] \in {"session", "done", "failed"} /\ place[Rt] \in {"idle", "done"}
        /\ ~Running(startup_hook) /\ ~Running(resource_hook)
        /\ place[User] # "session" \/ place[Rt] = "done" =>
             /\ worker \in {"unborn", "exited"}
             /\ \A r \in Readers : reader[r] \in {"idle", "returned"}

(* A snapshot whose token was cancelled does not sleep on.  The code does   *)
(* not keep this while the session is open: the hook notifies without the   *)
(* state mutex, between the test and the wait of a snapshot, and a clock    *)
(* without real waits does not wake it either (capture.rs:1191).            *)
CancelledSnapshotEnds ==
    ~SomebodyMoves => \A r \in Readers : reader_cancelled[r] => reader[r] # "asleep"

(* docs/decisions/0012: the operation of the startup is over once the       *)
(* worker has cleaned up.  Contract tests assert it after close.            *)
ClosedSettlesStartup ==
    close_result # "none" /\ place[Rt] = "idle" => startup \in Terminal
=============================================================================
