----------------------- MODULE CaptureSessionProofs -----------------------
(***************************************************************************)
(* Proofs about CaptureSession for any readers, any number of frames and   *)
(* any number of failures.  The inductive invariant follows the one backend*)
(* from hand to hand: BuildInv says what the constructing thread may still *)
(* rely on, GateInv that at most one thread is closing the resource,       *)
(* CallsInv that `active` counts the interrupt calls under way, FinalInv   *)
(* what holds once the backend has met its end, and StartupInv who may     *)
(* still end the startup operation.                                        *)
(*                                                                         *)
(* WaitInv, on top of it, says of everybody who waits for whom: ReaderInv  *)
(* of the snapshots, StartInv of the worker's start gate, StopInv that who *)
(* ends a session has told it so, SealInv of the last part of a close. In  *)
(* a state where nobody moves no such reason is left.                      *)
(***************************************************************************)
EXTENDS CaptureSession, FiniteSetTheorems, TLAPS

One(P) == IF P THEN 1 ELSE 0

(* InterruptCoordinator counts the calls of request_stop between its two     *)
(* critical sections: of the two hooks and of the two closing threads.       *)
CallsInv ==
  active = One(startup_hook.at = "calling") + One(resource_hook.at = "calling")
           + One(place[User] = "calling") + One(place[Rt] = "calling")

(* Places of open_backend before the worker exists.                          *)
Unspawned == {"create", "start", "install", "install_resource", "spawn"}

(* open_backend: until the resource is registered nothing else can close it; *)
(* before the coordinator exists there is no hook and no worker; a failed    *)
(* construction is over only when the backend was given up.                  *)
BuildInv ==
  /\ state = "Constructing" =>
       /\ worker = "unborn" /\ ~registered
       /\ startup_hook.at = "unregistered" /\ resource_hook.at = "unregistered"
       /\ place[User] \in {"create", "start", "install", "finalize", "finalize_again", "look",
                           "settle", "failed"}
  /\ place[User] \in {"create", "start", "install"} => state = "Constructing"
  /\ place[User] = "install_resource" => resource_hook.at = "unregistered"
  /\ place[User] \in Unspawned => worker = "unborn" /\ backend = User /\ ~sealed
  /\ place[User] \in {"drain", "finalize", "finalize_again"} => worker \in {"unborn", "exited"}
  /\ place[User] \in {"look", "settle", "failed"} => backend \in {"consumed", "dropped"}
  /\ registered \/ place[Rt] \in Closing \cup {"close"} => place[User] \notin Building
  /\ place[User] \in {"register", "abort_join"} \/ place[User] \notin Building =>
       worker # "unborn"

(* Places of close_inner that are reached only with the lifecycle gate held; *)
(* the drop of a session goes through begin_stop without it.                 *)
Gated == {"join", "finalize_close", "complete", "unregister"}

GateInv ==
  /\ place[Rt] \in Closing => gate = Rt
  /\ place[User] \in Gated \cup {"commit"} => gate = User
  /\ gate = User => place[User] \in Closing \cup {"commit"}
  /\ gate # Free => close_result = "none"

(* The end of the backend: the interrupts are sealed and drained and the     *)
(* worker is joined before it, and what close recorded stays true.           *)
FinalInv ==
  /\ sealed => worker \in {"unborn", "exited"}
  /\ backend \in {"consumed", "dropped"} =>
       worker \in {"unborn", "exited"} /\ active = 0 /\ (sealed \/ state = "Constructing")
  /\ \A t \in Closers :
       /\ place[t] \in {"complete", "unregister"} => backend = "consumed"
       /\ place[t] = "unregister" => state = "Closed"
  /\ close_result # "none" =>
       /\ state = "Closed" /\ backend = "consumed" /\ ~registered /\ worker = "exited"
       /\ place[User] \notin Building
       /\ close_result = "Ok" <=> failures = {}

(* The startup operation: a worker that claimed its failure is not exited    *)
(* before it has committed it, and after cancel_operations nobody but that   *)
(* worker finds the operation Pending or Running.                            *)
StartupInv ==
  /\ place[User] = "create" => startup = "none"
  /\ busy => startup \in {"Pending", "Running"} /\ worker \in {"handoff", "send", "commit"}
  /\ worker = "commit" => busy
  /\ worker = "frame" => next_sequence <= MaxFrames
  /\ FramesFollowStartup
  /\ place[Rt] # "idle" => ~admission
  /\ place[Rt] \notin {"idle", "root", "operations"} /\ startup \in {"Pending", "Running"} =>
       busy
  /\ place[Rt] = "done" => startup \in Terminal \cup {"none"}

Inv == TypeOK /\ CallsInv /\ BuildInv /\ GateInv /\ FinalInv /\ StartupInv

-----------------------------------------------------------------------------
LEMMA Distinct == User # Rt /\ User # Other /\ Rt # Other
<1>1. \A a, b : Cardinality({a, b}) <= 2
  <2> TAKE a, b
  <2>1. IsFiniteSet({a}) /\ Cardinality({a}) = 1
    BY FS_Singleton
  <2>2. {a, b} = {a} \cup {b}
    OBVIOUS
  <2> QED BY <2>1, <2>2, FS_AddElement
<1>2. User = Rt \/ User = Other \/ Rt = Other => \E a, b : {User, Rt, Other} = {a, b}
  OBVIOUS
<1>3. Cardinality({User, Rt, Other}) = 3
  BY CaptureAssumption DEF CaptureAssumption
<1>4. ASSUME User = Rt \/ User = Other \/ Rt = Other PROVE FALSE
  <2>1. PICK a, b : {User, Rt, Other} = {a, b}
    BY <1>2, <1>4
  <2>2. 3 <= 2
    BY <1>1, <1>3, <2>1
  <2> QED BY <2>2
<1> QED BY <1>4

(* Everything but the snapshots; a snapshot, its cancellation and its wait   *)
(* change nothing but the readers.                                           *)
SessionStep ==
  \/ Construction \/ DropSession \/ WorkerRuns \/ WorkerEnds \/ StartupHook \/ ResourceHook
  \/ CancelStartup \/ RuntimeClose \/ \E t \in Closers : CloseStep(t)

LEMMA SnapshotsOnlyRead ==
  ASSUME NEW r \in Readers, BeginSnapshot(r) \/ CancelSnapshot(r) \/ Snapshot(r)
  PROVE  UNCHANGED readerFrame
BY DEF BeginSnapshot, CancelSnapshot, Snapshot, CheckSnapshot, SleepSnapshot, SnapshotDeadline,
       WakeSnapshot

LEMMA FrameKeepsInv ==
  ASSUME Inv, UNCHANGED readerFrame
  PROVE  /\ OperationType' /\ HookType' /\ ThreadType' /\ ResultType'
         /\ CallsInv' /\ BuildInv' /\ GateInv' /\ FinalInv' /\ StartupInv'
<1> USE DEF Inv, readerFrame, runtimeVars, startupVars, sharedVars, hookVars, interruptVars,
          workerVars, closeVars
<1>1. OperationType' /\ HookType'
  BY DEF TypeOK, OperationType, HookType
<1>2. ThreadType' /\ ResultType'
  BY DEF TypeOK, ThreadType, ResultType
<1>3. CallsInv' /\ BuildInv'
  BY DEF CallsInv, BuildInv
<1>4. GateInv' /\ FinalInv'
  BY DEF GateInv, FinalInv
<1>5. StartupInv'
  BY DEF StartupInv, FramesFollowStartup
<1> QED BY <1>1, <1>2, <1>3, <1>4, <1>5

LEMMA SnapshotsKeepInv ==
  ASSUME Inv, NEW r \in Readers, BeginSnapshot(r) \/ CancelSnapshot(r) \/ Snapshot(r)
  PROVE  Inv'
<1>1. SharedType'
  <2> USE DEF Inv, TypeOK, SharedType, readerFrame, sharedVars, Awake
  <2>1. CASE BeginSnapshot(r)
    BY <2>1 DEF BeginSnapshot
  <2>2. CASE CancelSnapshot(r)
    BY <2>2 DEF CancelSnapshot
  <2>3. CASE CheckSnapshot(r)
    BY <2>3 DEF CheckSnapshot
  <2>4. CASE SleepSnapshot(r)
    BY <2>4 DEF SleepSnapshot
  <2>5. CASE SnapshotDeadline(r)
    BY <2>5 DEF SnapshotDeadline
  <2>6. CASE WakeSnapshot(r)
    BY <2>6 DEF WakeSnapshot
  <2> QED BY <2>1, <2>2, <2>3, <2>4, <2>5, <2>6 DEF Snapshot
<1> QED BY <1>1, SnapshotsOnlyRead, FrameKeepsInv DEF Inv, TypeOK

-----------------------------------------------------------------------------
(* Type correctness, group by group.                                        *)

LEMMA OperationTypeNext == ASSUME Inv, SessionStep PROVE OperationType'
<1> USE DEF Inv, TypeOK, OperationType, Phases, Terminal
<1> USE DEF closeVars, hookVars, interruptVars, readerFrame, readerVars, runtimeVars,
          sharedVars, startupVars, workerFrame, workerVars, Goto, Step, Constructing, At
<1>1. CASE Construction
  <2>1. CASE Create
    BY <2>1 DEF Create
  <2>2. CASE StartStartup
    BY <2>2 DEF StartStartup
  <2>3. CASE Register
    BY <2>3 DEF Register
  <2>4. CASE LookConstruction
    BY <2>4 DEF LookConstruction
  <2>5. CASE SettleConstruction
    BY <2>5 DEF SettleConstruction, SettleStartup, CanFinishCancelled, Finish, CanFail,
           Discarded, Hook, Free
  <2>6. CASE InstallStartupHook \/ InstallResourceHook \/ SpawnWorker \/ CommitSession
             \/ AbortJoin \/ SealConstruction \/ FinalizeConstruction
    BY <2>6 DEF InstallStartupHook, InstallResourceHook, SpawnWorker, CommitSession, AbortJoin,
           SealConstruction, FinalizeConstruction
  <2> QED BY <1>1, <2>1, <2>2, <2>3, <2>4, <2>5, <2>6 DEF Construction
<1>2. CASE DropSession
  BY <1>2 DEF DropSession
<1>3. CASE WorkerRuns
  <2>1. CASE PublishFrame
    BY <2>1 DEF PublishFrame, CanSucceed, KeepState, Finish, SetState, Discarded, Awake, Hook,
           Free
  <2>2. CASE WaitForStart \/ OpenBackend \/ Opened \/ Loop \/ Read \/ PublishFailed
    BY <2>2 DEF WaitForStart, OpenBackend, Opened, Loop, Read, PublishFailed
  <2> QED BY <1>3, <2>1, <2>2 DEF WorkerRuns
<1>4. CASE WorkerEnds
  <2>1. CASE FailAfterCleanup
    BY <2>1 DEF FailAfterCleanup, CanFail, Discarded, Hook, Free
  <2>2. CASE CommitFailure
    BY <2>2 DEF CommitFailure
  <2>3. CASE Look
    BY <2>3 DEF Look
  <2>4. CASE SettleAfterWorker
    BY <2>4 DEF SettleAfterWorker, SettleStartup, CanFinishCancelled, Finish, CanFail,
           Discarded, Hook, Free
  <2>5. CASE Snap \/ CloseBackend \/ SendExit
    BY <2>5 DEF Snap, CloseBackend, SendExit
  <2> QED BY <1>4, <2>1, <2>2, <2>3, <2>4, <2>5 DEF WorkerEnds
<1>5. CASE StartupHook
  BY <1>5 DEF StartupHook, Hook, Inside, NoFault, SetState, KeepState, Enter, Leave, Running,
         Awake, Fail
<1>6. CASE ResourceHook
  BY <1>6 DEF ResourceHook, Hook, Inside, BeginStopping, NoFault, Enter, Leave, Running,
         SetState, KeepState, Fail, Awake
<1>7. CASE CancelStartup
  BY <1>7 DEF CancelStartup, CanFail, RequestCancel, SelectStartupHook, Hook
<1>8. CASE RuntimeClose
  <2>1. CASE CloseAdmission
    BY <2>1 DEF CloseAdmission
  <2>2. CASE CancelRoot
    BY <2>2 DEF CancelRoot, CancelResource, SelectStartupHook, Hook
  <2>3. CASE CancelOperations
    BY <2>3 DEF CancelOperations, Unhooked, RequestCancel, Running, SelectStartupHook, Hook
  <2>4. CASE JoinTasks
    BY <2>4 DEF JoinTasks, CanFinishCancelled, Finish, Discarded, Hook, Free
  <2>5. CASE CloseResources
    BY <2>5 DEF CloseResources
  <2> QED BY <1>8, <2>1, <2>2, <2>3, <2>4, <2>5 DEF RuntimeClose
<1>9. ASSUME NEW t \in Closers, CloseStep(t) PROVE OperationType'
  <2>1. CASE CancelOwnStartup(t)
    BY <2>1 DEF CancelOwnStartup, Unhooked, RequestCancel, Running, SelectStartupHook, Hook
  <2>2. CASE Unregistered(t)
    BY <2>2 DEF Unregistered, Diagnostics, Free
  <2>3. CASE EnterClose(t) \/ Stop(t) \/ CancelSession(t) \/ EnterInterrupt(t)
             \/ LeaveInterrupt(t) \/ SealClose(t) \/ FinalizeClose(t) \/ CompleteClosed(t)
    BY <2>3 DEF EnterClose, Stop, CancelSession, EnterInterrupt, LeaveInterrupt, SealClose,
           FinalizeClose, CompleteClosed
  <2> QED BY <1>9, <2>1, <2>2, <2>3 DEF CloseStep
<1> QED BY <1>1, <1>2, <1>3, <1>4, <1>5, <1>6, <1>7, <1>8, <1>9 DEF SessionStep

LEMMA SharedTypeNext == ASSUME Inv, SessionStep PROVE SharedType'
<1> USE DEF CaptureAssumption, Inv, TypeOK, SharedType, OperationType, StartupInv
<1> USE DEF closeVars, hookVars, interruptVars, readerFrame, readerVars, runtimeVars,
          sharedVars, startupVars, workerFrame, workerVars, Goto, Step, Constructing, At
<1>1. CASE Construction
  <2>1. CASE InstallStartupHook
    BY <2>1, CaptureAssumption DEF InstallStartupHook, Hook, Settled, Free, Terminal
  <2>2. CASE Create \/ StartStartup \/ InstallResourceHook \/ SpawnWorker \/ Register
             \/ CommitSession \/ AbortJoin \/ SealConstruction \/ FinalizeConstruction
             \/ LookConstruction \/ SettleConstruction
    BY <2>2 DEF Create, StartStartup, InstallResourceHook, SpawnWorker, Register, CommitSession,
           AbortJoin, SealConstruction, FinalizeConstruction, LookConstruction,
           SettleConstruction
  <2> QED BY <1>1, <2>1, <2>2 DEF Construction
<1>2. CASE DropSession
  BY <1>2, CaptureAssumption DEF DropSession
<1>3. CASE WorkerRuns
  <2>1. CASE OpenBackend
    BY <2>1, CaptureAssumption DEF OpenBackend, NoFault, Errs, KeepState, SetFault,
           RejectProfile, Panics, Interrupted, Fault, SetState, Exits, Fail, Awake
  <2>2. CASE Read
    BY <2>2, CaptureAssumption DEF Read, NoFault, Fault, SetFault, Exits, Errs, KeepState,
           Panics, SetState, Interrupted, Fail, Awake
  <2>3. CASE PublishFrame
    BY <2>3, CaptureAssumption DEF PublishFrame, CanSucceed, KeepState, Finish, SetState,
           Discarded, Awake, Hook, Free
  <2>4. CASE PublishFailed
    BY <2>4, CaptureAssumption DEF PublishFailed, Exits, SetFault, SetState, KeepState, Awake
  <2>5. CASE WaitForStart \/ Opened \/ Loop
    BY <2>5 DEF WaitForStart, Opened, Loop
  <2> QED BY <1>3, <2>1, <2>2, <2>3, <2>4, <2>5 DEF WorkerRuns
<1>4. CASE WorkerEnds
  BY <1>4 DEF WorkerEnds, Snap, FailAfterCleanup, CloseBackend, SendExit, CommitFailure, Look,
         SettleAfterWorker
<1>5. CASE StartupHook
  BY <1>5, CaptureAssumption DEF StartupHook, Hook, Inside, NoFault, SetState, KeepState, Enter,
         Leave, Running, Awake, Fail
<1>6. CASE ResourceHook
  BY <1>6, CaptureAssumption DEF ResourceHook, Hook, Inside, BeginStopping, NoFault, Enter,
         Leave, Running, SetState, KeepState, Fail, Awake
<1>7. CASE CancelStartup
  BY <1>7, CaptureAssumption DEF CancelStartup, CanFail, RequestCancel, SelectStartupHook, Hook
<1>8. CASE RuntimeClose
  BY <1>8 DEF RuntimeClose, CloseAdmission, CancelRoot, CancelOperations, CloseResources,
         JoinTasks
<1>9. ASSUME NEW t \in Closers, CloseStep(t) PROVE SharedType'
  <2>1. CASE Stop(t)
    BY <2>1, CaptureAssumption DEF Stop, BeginStopping, SetState, KeepState, Awake
  <2>2. CASE CompleteClosed(t)
    BY <2>2, CaptureAssumption DEF CompleteClosed, SetState, Awake
  <2>3. CASE EnterClose(t) \/ CancelSession(t) \/ CancelOwnStartup(t) \/ EnterInterrupt(t)
             \/ LeaveInterrupt(t) \/ SealClose(t) \/ FinalizeClose(t) \/ Unregistered(t)
    BY <2>3 DEF EnterClose, CancelSession, CancelOwnStartup, EnterInterrupt, LeaveInterrupt,
           SealClose, FinalizeClose, Unregistered
  <2> QED BY <1>9, <2>1, <2>2, <2>3 DEF CloseStep
<1> QED BY <1>1, <1>2, <1>3, <1>4, <1>5, <1>6, <1>7, <1>8, <1>9 DEF SessionStep

LEMMA HookTypeNext == ASSUME Inv, SessionStep PROVE HookType'
<1> USE DEF Inv, TypeOK, HookType, ThreadType, CallsInv, One, Free, UserPlaces, RtPlaces,
          Building, Closing, Closers
<1> USE DEF closeVars, hookVars, interruptVars, readerFrame, readerVars, runtimeVars,
          sharedVars, startupVars, workerFrame, workerVars, Goto, Step, Constructing, At
<1>1. CASE Construction
  <2>1. CASE InstallStartupHook
    BY <2>1, Distinct DEF InstallStartupHook, Hook, Settled, Terminal
  <2>2. CASE InstallResourceHook
    BY <2>2, Distinct DEF InstallResourceHook, Unhooked, Hook, Running
  <2>3. CASE SealConstruction
    BY <2>3, Distinct DEF SealConstruction, Seal, Unregister, Hook
  <2>4. CASE SettleConstruction
    BY <2>4, Distinct DEF SettleConstruction, SettleStartup, CanFinishCancelled, Finish,
           CanFail, Discarded, Hook
  <2>5. CASE Create \/ StartStartup \/ SpawnWorker \/ Register \/ CommitSession \/ AbortJoin
             \/ FinalizeConstruction \/ LookConstruction
    BY <2>5 DEF Create, StartStartup, SpawnWorker, Register, CommitSession, AbortJoin,
           FinalizeConstruction, LookConstruction
  <2> QED BY <1>1, <2>1, <2>2, <2>3, <2>4, <2>5 DEF Construction
<1>2. CASE DropSession
  BY <1>2, Distinct DEF DropSession
<1>3. CASE WorkerRuns
  <2>1. CASE PublishFrame
    BY <2>1, Distinct DEF PublishFrame, CanSucceed, KeepState, Finish, SetState, Discarded,
           Awake, Hook
  <2>2. CASE WaitForStart \/ OpenBackend \/ Opened \/ Loop \/ Read \/ PublishFailed
    BY <2>2 DEF WaitForStart, OpenBackend, Opened, Loop, Read, PublishFailed
  <2> QED BY <1>3, <2>1, <2>2 DEF WorkerRuns
<1>4. CASE WorkerEnds
  <2>1. CASE FailAfterCleanup
    BY <2>1, Distinct DEF FailAfterCleanup, CanFail, Discarded, Hook
  <2>2. CASE CloseBackend
    BY <2>2, Distinct DEF CloseBackend, NoFault, BackendCloses, Fail
  <2>3. CASE SettleAfterWorker
    BY <2>3, Distinct DEF SettleAfterWorker, SettleStartup, CanFinishCancelled, Finish, CanFail,
           Discarded, Hook
  <2>4. CASE Snap \/ SendExit \/ CommitFailure \/ Look
    BY <2>4 DEF Snap, SendExit, CommitFailure, Look
  <2> QED BY <1>4, <2>1, <2>2, <2>3, <2>4 DEF WorkerEnds
<1>5. CASE StartupHook
  <2>1. CASE startup_hook.at = "selected"
    BY <1>5, <2>1, Distinct DEF StartupHook, Hook, Inside, NoFault, SetState, KeepState, Enter,
           Leave, Running, Awake, Fail
  <2>2. CASE startup_hook.at \in {"stopping", "faulting"}
    BY <1>5, <2>2, Distinct DEF StartupHook, Hook, Inside, NoFault, SetState, KeepState, Enter,
           Leave, Running, Awake, Fail
  <2>3. CASE startup_hook.at = "interrupt"
    BY <1>5, <2>3, Distinct DEF StartupHook, Hook, Inside, NoFault, SetState, KeepState, Enter,
           Leave, Running, Awake, Fail
  <2>4. CASE startup_hook.at = "calling"
    BY <1>5, <2>4, Distinct DEF StartupHook, Hook, Inside, NoFault, SetState, KeepState, Enter,
           Leave, Running, Awake, Fail
  <2> QED BY <1>5, <2>1, <2>2, <2>3, <2>4 DEF StartupHook
<1>6. CASE ResourceHook
  <2>1. CASE resource_hook.at = "selected"
    BY <1>6, <2>1, Distinct DEF ResourceHook, Hook, Inside, BeginStopping, NoFault, Enter,
           Leave, Running, SetState, KeepState, Fail, Awake
  <2>2. CASE resource_hook.at = "interrupt"
    BY <1>6, <2>2, Distinct DEF ResourceHook, Hook, Inside, BeginStopping, NoFault, Enter,
           Leave, Running, SetState, KeepState, Fail, Awake
  <2>3. CASE resource_hook.at = "calling"
    BY <1>6, <2>3, Distinct DEF ResourceHook, Hook, Inside, BeginStopping, NoFault, Enter,
           Leave, Running, SetState, KeepState, Fail, Awake
  <2> QED BY <1>6, <2>1, <2>2, <2>3 DEF ResourceHook
<1>7. CASE CancelStartup
  BY <1>7, Distinct DEF CancelStartup, CanFail, RequestCancel, SelectStartupHook, Hook
<1>8. CASE RuntimeClose
  <2>1. CASE CancelRoot
    BY <2>1, Distinct DEF CancelRoot, CancelResource, SelectStartupHook, Hook
  <2>2. CASE CancelOperations
    BY <2>2, Distinct DEF CancelOperations, Unhooked, RequestCancel, Running, SelectStartupHook,
           Hook
  <2>3. CASE JoinTasks
    BY <2>3, Distinct DEF JoinTasks, CanFinishCancelled, Finish, Discarded, Hook
  <2>4. CASE CloseAdmission \/ CloseResources
    BY <2>4 DEF CloseAdmission, CloseResources
  <2> QED BY <1>8, <2>1, <2>2, <2>3, <2>4 DEF RuntimeClose
<1>9. ASSUME NEW t \in Closers, CloseStep(t) PROVE HookType'
  <2>1. CASE CancelSession(t)
    BY <2>1, Distinct DEF CancelSession, CancelResource, Hook
  <2>2. CASE CancelOwnStartup(t)
    BY <2>2, Distinct DEF CancelOwnStartup, Unhooked, RequestCancel, Running, SelectStartupHook,
           Hook
  <2>3. CASE EnterInterrupt(t)
    BY <2>3, Distinct DEF EnterInterrupt, Unhooked, Enter, AfterStop, Running
  <2>4. CASE LeaveInterrupt(t)
    BY <2>4, Distinct DEF LeaveInterrupt, Leave, AfterStop, NoFault, Fail
  <2>5. CASE SealClose(t)
    BY <2>5, Distinct DEF SealClose, Seal, Unregister, Hook
  <2>6. CASE EnterClose(t) \/ Stop(t) \/ FinalizeClose(t) \/ CompleteClosed(t)
             \/ Unregistered(t)
    BY <2>6 DEF EnterClose, Stop, FinalizeClose, CompleteClosed, Unregistered
  <2> QED BY <1>9, <2>1, <2>2, <2>3, <2>4, <2>5, <2>6 DEF CloseStep
<1> QED BY <1>1, <1>2, <1>3, <1>4, <1>5, <1>6, <1>7, <1>8, <1>9 DEF SessionStep

LEMMA ThreadTypeNext == ASSUME Inv, SessionStep PROVE ThreadType'
<1> USE DEF PlacesAreNoThreads, Inv, TypeOK, ThreadType, Free, WorkerPlaces, UserPlaces,
          RtPlaces, Building, Closing, Closers
<1> USE DEF closeVars, hookVars, interruptVars, readerFrame, readerVars, runtimeVars,
          sharedVars, startupVars, workerFrame, workerVars, Goto, Step, Constructing, At
<1>1. CASE Construction
  <2>1. CASE Create
    BY <2>1, Distinct, PlacesAreNoThreads DEF Create
  <2>2. CASE StartStartup
    BY <2>2, Distinct, PlacesAreNoThreads DEF StartStartup
  <2>3. CASE InstallStartupHook
    BY <2>3, Distinct, PlacesAreNoThreads DEF InstallStartupHook, Hook, Settled, Terminal
  <2>4. CASE InstallResourceHook
    BY <2>4, Distinct, PlacesAreNoThreads DEF InstallResourceHook, Unhooked, Hook, Running
  <2>5. CASE SpawnWorker
    BY <2>5, Distinct, PlacesAreNoThreads DEF SpawnWorker, Unhooked, NoFault, Fault, Running
  <2>6. CASE Register
    BY <2>6, Distinct, PlacesAreNoThreads DEF Register
  <2>7. CASE CommitSession
    BY <2>7, Distinct, PlacesAreNoThreads DEF CommitSession
  <2>8. CASE AbortJoin
    BY <2>8, Distinct, PlacesAreNoThreads DEF AbortJoin
  <2>9. CASE SealConstruction
    BY <2>9, Distinct, PlacesAreNoThreads DEF SealConstruction, Seal, Unregister, Hook
  <2>10. CASE FinalizeConstruction
    BY <2>10, Distinct, PlacesAreNoThreads DEF FinalizeConstruction, Drained, NoFault, Fault
  <2>11. CASE LookConstruction
    BY <2>11, Distinct, PlacesAreNoThreads DEF LookConstruction
  <2>12. CASE SettleConstruction
    BY <2>12, Distinct, PlacesAreNoThreads DEF SettleConstruction, SettleStartup,
           CanFinishCancelled, Finish, CanFail, Discarded, Hook
  <2> QED BY <1>1, <2>1, <2>2, <2>3, <2>4, <2>5, <2>6, <2>7, <2>8, <2>9, <2>10, <2>11, <2>12
         DEF Construction
<1>2. CASE DropSession
  BY <1>2, Distinct, PlacesAreNoThreads DEF DropSession
<1>3. CASE WorkerRuns
  <2>1. CASE WaitForStart
    BY <2>1, Distinct, PlacesAreNoThreads DEF WaitForStart, Exits
  <2>2. CASE OpenBackend
    BY <2>2, Distinct, PlacesAreNoThreads DEF OpenBackend, NoFault, Errs, KeepState, SetFault,
           RejectProfile, Panics, Interrupted, Fault, SetState, Exits, Fail, Awake
  <2>3. CASE Opened
    BY <2>3, Distinct, PlacesAreNoThreads DEF Opened, Exits
  <2>4. CASE Loop
    BY <2>4, Distinct, PlacesAreNoThreads DEF Loop, Exits
  <2>5. CASE Read
    BY <2>5, Distinct, PlacesAreNoThreads DEF Read, NoFault, Fault, SetFault, Exits, Errs,
           KeepState, Panics, SetState, Interrupted, Fail, Awake
  <2>6. CASE PublishFrame
    BY <2>6, Distinct, PlacesAreNoThreads DEF PublishFrame, CanSucceed, KeepState, Finish,
           SetState, Discarded, Awake, Hook
  <2>7. CASE PublishFailed
    BY <2>7, Distinct, PlacesAreNoThreads DEF PublishFailed, Exits, SetFault, SetState,
           KeepState, Awake
  <2> QED BY <1>3, <2>1, <2>2, <2>3, <2>4, <2>5, <2>6, <2>7 DEF WorkerRuns
<1>4. CASE WorkerEnds
  <2>1. CASE Snap
    BY <2>1, Distinct, PlacesAreNoThreads DEF Snap
  <2>2. CASE FailAfterCleanup
    BY <2>2, Distinct, PlacesAreNoThreads DEF FailAfterCleanup, CanFail, Discarded, Hook
  <2>3. CASE CloseBackend
    BY <2>3, Distinct, PlacesAreNoThreads DEF CloseBackend, NoFault, BackendCloses, Fail
  <2>4. CASE SendExit
    BY <2>4, Distinct, PlacesAreNoThreads DEF SendExit
  <2>5. CASE CommitFailure
    BY <2>5, Distinct, PlacesAreNoThreads DEF CommitFailure
  <2>6. CASE Look
    BY <2>6, Distinct, PlacesAreNoThreads DEF Look
  <2>7. CASE SettleAfterWorker
    BY <2>7, Distinct, PlacesAreNoThreads DEF SettleAfterWorker, SettleStartup,
           CanFinishCancelled, Finish, CanFail, Discarded, Hook
  <2> QED BY <1>4, <2>1, <2>2, <2>3, <2>4, <2>5, <2>6, <2>7 DEF WorkerEnds
<1>5. CASE StartupHook
  BY <1>5, Distinct, PlacesAreNoThreads DEF StartupHook, Hook, Inside, NoFault, SetState,
         KeepState, Enter, Leave, Running, Awake, Fail
<1>6. CASE ResourceHook
  BY <1>6, Distinct, PlacesAreNoThreads DEF ResourceHook, Hook, Inside, BeginStopping, NoFault,
         Enter, Leave, Running, SetState, KeepState, Fail, Awake
<1>7. CASE CancelStartup
  BY <1>7, Distinct, PlacesAreNoThreads DEF CancelStartup, CanFail, RequestCancel,
         SelectStartupHook, Hook
<1>8. CASE RuntimeClose
  <2>1. CASE CloseAdmission
    BY <2>1, Distinct, PlacesAreNoThreads DEF CloseAdmission
  <2>2. CASE CancelRoot
    BY <2>2, Distinct, PlacesAreNoThreads DEF CancelRoot, CancelResource, SelectStartupHook,
           Hook
  <2>3. CASE CancelOperations
    BY <2>3, Distinct, PlacesAreNoThreads DEF CancelOperations, Unhooked, RequestCancel,
           Running, SelectStartupHook, Hook
  <2>4. CASE CloseResources
    BY <2>4, Distinct, PlacesAreNoThreads DEF CloseResources, Unhooked, Running
  <2>5. CASE JoinTasks
    BY <2>5, Distinct, PlacesAreNoThreads DEF JoinTasks, CanFinishCancelled, Finish, Discarded,
           Hook
  <2> QED BY <1>8, <2>1, <2>2, <2>3, <2>4, <2>5 DEF RuntimeClose
<1>9. ASSUME NEW t \in Closers, CloseStep(t) PROVE ThreadType'
  <2>1. CASE EnterClose(t)
    <3>1. UNCHANGED <<start, worker, reason, backend, opening>> /\ gate' \in {User, Rt, Free}
      BY <2>1 DEF EnterClose
    <3>2. PICK there \in {"stop", "join_tasks", "done"} :
            /\ place' = [place EXCEPT ![t] = there]
            /\ t = User => there # "join_tasks"
      BY <2>1, Distinct DEF EnterClose
    <3>3. place' \in [Closers -> UserPlaces \cup RtPlaces]
      BY <3>2
    <3>4. place'[User] \in UserPlaces /\ place'[Rt] \in RtPlaces
      BY <3>2, Distinct
    <3> QED BY <3>1, <3>3, <3>4
  <2>2. CASE Stop(t)
    BY <2>2, Distinct, PlacesAreNoThreads DEF Stop, BeginStopping, SetState, KeepState, Awake
  <2>3. CASE CancelSession(t)
    BY <2>3, Distinct, PlacesAreNoThreads DEF CancelSession, CancelResource, Hook
  <2>4. CASE CancelOwnStartup(t)
    BY <2>4, Distinct, PlacesAreNoThreads DEF CancelOwnStartup, Unhooked, RequestCancel,
           Running, SelectStartupHook, Hook
  <2>5. CASE EnterInterrupt(t)
    BY <2>5, Distinct, PlacesAreNoThreads DEF EnterInterrupt, Unhooked, Enter, AfterStop,
           Running
  <2>6. CASE LeaveInterrupt(t)
    BY <2>6, Distinct, PlacesAreNoThreads DEF LeaveInterrupt, Leave, AfterStop, NoFault, Fail
  <2>7. CASE SealClose(t)
    BY <2>7, Distinct, PlacesAreNoThreads DEF SealClose, Seal, Unregister, Hook
  <2>8. CASE FinalizeClose(t)
    BY <2>8, Distinct, PlacesAreNoThreads DEF FinalizeClose, Drained, Consumes, Fault, NoFault,
           Fail
  <2>9. CASE CompleteClosed(t)
    BY <2>9, Distinct, PlacesAreNoThreads DEF CompleteClosed, SetState, Awake
  <2>10. CASE Unregistered(t)
    BY <2>10, Distinct, PlacesAreNoThreads DEF Unregistered, Diagnostics
  <2> QED BY <1>9, <2>1, <2>2, <2>3, <2>4, <2>5, <2>6, <2>7, <2>8, <2>9, <2>10 DEF CloseStep
<1> QED BY <1>1, <1>2, <1>3, <1>4, <1>5, <1>6, <1>7, <1>8, <1>9 DEF SessionStep

(* A failure is counted against its bound whether close reports it or not.   *)
LEMMA FaultsKeepType ==
  ASSUME ResultType, UNCHANGED close_result,
         \/ NoFault
         \/ Fault
         \/ \E what \in {"worker", "close", "interrupt", "diagnostic"} : Fail(what)
  PROVE  ResultType'
<1>1. CASE NoFault
  BY <1>1 DEF NoFault, ResultType
<1>2. CASE Fault
  BY <1>2, CaptureAssumption DEF CaptureAssumption, Fault, ResultType
<1>3. ASSUME NEW what \in {"worker", "close", "interrupt", "diagnostic"}, Fail(what)
      PROVE  ResultType'
  BY <1>3, CaptureAssumption DEF CaptureAssumption, Fail, ResultType
<1> QED BY <1>1, <1>2, <1>3

LEMMA ResultTypeNext == ASSUME Inv, SessionStep PROVE ResultType'
<1> USE DEF closeVars, readerVars, workerVars, workerFrame, Step, Constructing, At
<1>. ResultType
  BY DEF Inv, TypeOK
<1>1. CASE Construction
  <2>1. CASE SpawnWorker
    BY <2>1, FaultsKeepType DEF SpawnWorker
  <2>2. CASE FinalizeConstruction
    BY <2>2, FaultsKeepType DEF FinalizeConstruction
  <2>3. CASE Create \/ StartStartup \/ InstallStartupHook \/ InstallResourceHook \/ Register
             \/ CommitSession \/ AbortJoin \/ SealConstruction \/ LookConstruction
             \/ SettleConstruction
    BY <2>3 DEF ResultType, Create, StartStartup, InstallStartupHook, InstallResourceHook,
           Register, CommitSession, AbortJoin, SealConstruction, LookConstruction,
           SettleConstruction
  <2> QED BY <1>1, <2>1, <2>2, <2>3 DEF Construction
<1>2. CASE DropSession
  BY <1>2 DEF ResultType, DropSession
<1>3. CASE WorkerRuns
  <2>1. CASE OpenBackend \/ Read
    BY <2>1, FaultsKeepType DEF OpenBackend, Read, Errs, RejectProfile, Panics
  <2>2. CASE WaitForStart \/ Opened \/ Loop \/ PublishFrame \/ PublishFailed
    BY <2>2 DEF ResultType, WaitForStart, Opened, Loop, PublishFrame, PublishFailed
  <2> QED BY <1>3, <2>1, <2>2 DEF WorkerRuns
<1>4. CASE WorkerEnds
  <2>1. CASE CloseBackend
    BY <2>1, FaultsKeepType DEF CloseBackend, BackendCloses
  <2>2. CASE Snap \/ FailAfterCleanup \/ SendExit \/ CommitFailure \/ Look \/ SettleAfterWorker
    BY <2>2 DEF ResultType, Snap, FailAfterCleanup, SendExit, CommitFailure, Look,
           SettleAfterWorker
  <2> QED BY <1>4, <2>1, <2>2 DEF WorkerEnds
<1>5. CASE StartupHook \/ ResourceHook
  BY <1>5, FaultsKeepType DEF StartupHook, ResourceHook, Leave
<1>6. CASE CancelStartup
  BY <1>6 DEF ResultType, CancelStartup
<1>7. CASE RuntimeClose
  BY <1>7 DEF ResultType, RuntimeClose, CloseAdmission, CancelRoot, CancelOperations,
         CloseResources, JoinTasks
<1>8. ASSUME NEW t \in Closers, CloseStep(t) PROVE ResultType'
  <2>1. CASE LeaveInterrupt(t)
    BY <2>1, FaultsKeepType DEF LeaveInterrupt, Leave
  <2>2. CASE FinalizeClose(t)
    BY <2>2, FaultsKeepType DEF FinalizeClose, Consumes
  <2>3. CASE Unregistered(t)
    BY <2>3 DEF ResultType, Unregistered
  <2>4. CASE EnterClose(t) \/ Stop(t) \/ CancelSession(t) \/ CancelOwnStartup(t)
             \/ EnterInterrupt(t) \/ SealClose(t) \/ CompleteClosed(t)
    BY <2>4 DEF ResultType, EnterClose, Stop, CancelSession, CancelOwnStartup, EnterInterrupt,
           SealClose, CompleteClosed
  <2> QED BY <1>8, <2>1, <2>2, <2>3, <2>4 DEF CloseStep
<1> QED BY <1>1, <1>2, <1>3, <1>4, <1>5, <1>6, <1>7, <1>8 DEF SessionStep

-----------------------------------------------------------------------------
(* The other parts of the invariant.                                        *)

(* A thread that enters close_inner takes the gate, or finds the result.     *)
LEMMA EnterCloseStep ==
  ASSUME Inv, NEW t \in Closers, EnterClose(t)
  PROVE  /\ gate = Free /\ (t = User => place[t] = "session") /\ (t = Rt => place[t] = "close")
         /\ UNCHANGED <<runtimeVars, startupVars, sharedVars, cancelled, hookVars, interruptVars,
                        workerVars, backend, opening, close_result, failures, readerVars, faults>>
         /\ \A u \in Closers \ {t} : place'[u] = place[u]
         /\ \/ close_result = "none" /\ gate' = t /\ place'[t] = "stop"
            \/ /\ close_result # "none" /\ gate' = gate
               /\ place'[t] = IF t = User THEN "done" ELSE "join_tasks"
<1>1. /\ place \in [Closers -> UserPlaces \cup RtPlaces]
      /\ place[User] \in UserPlaces /\ place[Rt] \in RtPlaces
  BY DEF Inv, TypeOK, ThreadType
<1>2. \A p : Goto(t, p) => place'[t] = p /\ \A u \in Closers \ {t} : place'[u] = place[u]
  BY <1>1 DEF Goto
<1>3. "close" \notin UserPlaces /\ "session" \notin RtPlaces
  BY DEF UserPlaces, RtPlaces, Building, Closing
<1>4. gate = Free /\ place[t] \in {"session", "close"}
  BY DEF EnterClose, Ending
<1>5. /\ UNCHANGED <<runtimeVars, startupVars, sharedVars, cancelled, hookVars, interruptVars,
                     workerVars, backend, opening, close_result, failures, readerVars, faults>>
      /\ \/ close_result = "none" /\ gate' = t /\ Goto(t, "stop")
         \/ /\ close_result # "none" /\ gate' = gate
            /\ Goto(t, IF t = User THEN "done" ELSE "join_tasks")
  BY DEF EnterClose
<1> QED BY <1>1, <1>2, <1>3, <1>4, <1>5

(* So the thread is in its close call alone, and nothing else has moved.     *)
LEMMA EnterCloseKeeps ==
  ASSUME Inv, NEW t \in Closers, EnterClose(t)
  PROVE  CallsInv' /\ GateInv' /\ FinalInv' /\ StartupInv'
<1>1. /\ gate = Free /\ (t = User => place[t] = "session") /\ (t = Rt => place[t] = "close")
      /\ \A u \in Closers \ {t} : place'[u] = place[u]
      /\ \/ close_result = "none" /\ gate' = t /\ place'[t] = "stop"
         \/ /\ close_result # "none" /\ gate' = gate
            /\ place'[t] = IF t = User THEN "done" ELSE "join_tasks"
  BY EnterCloseStep
<1>2. /\ UNCHANGED <<runtimeVars, startupVars, sharedVars, cancelled, hookVars, interruptVars,
                     workerVars, backend, opening, close_result, failures, readerVars, faults>>
  BY EnterCloseStep
<1>3. Closers = {User, Rt} /\ User # Rt
  BY Distinct DEF Closers
<1>4. User # Free /\ Rt # Free
  BY PlacesAreNoThreads DEF PlacesAreNoThreads, Free
<1>5. CASE t = User
  <2>1. /\ place[User] = "session" /\ place'[User] \in {"stop", "done"} /\ place'[Rt] = place[Rt]
        /\ gate' \in {User, Free} /\ gate' # Free => place'[User] = "stop" /\ gate' = User
        /\ gate' # Free => close_result = "none"
    BY <1>1, <1>3, <1>5
  <2>2. CallsInv'
    BY <1>2, <2>1 DEF Inv, CallsInv, One, interruptVars, hookVars
  <2>3. GateInv'
    <3>1. place[Rt] \notin Closing
      BY <1>1, <1>4 DEF Inv, GateInv
    <3>2. "stop" \in Closing /\ "stop" \notin Gated \cup {"commit"}
          /\ "done" \notin Gated \cup {"commit"}
      BY DEF Closing, Gated
    <3> QED BY <1>2, <1>3, <1>4, <2>1, <3>1, <3>2 DEF GateInv
  <2>4. FinalInv'
    <3>1. "stop" \notin Building /\ "done" \notin Building
      BY DEF Building
    <3> QED BY <1>2, <1>3, <2>1, <3>1
            DEF Inv, FinalInv, interruptVars, workerVars, runtimeVars, sharedVars
  <2>5. StartupInv'
    BY <1>2, <2>1 DEF Inv, StartupInv, FramesFollowStartup, startupVars, workerVars, sharedVars,
                      runtimeVars
  <2> QED BY <2>2, <2>3, <2>4, <2>5
<1>6. CASE t = Rt
  <2>1. /\ place[Rt] = "close" /\ place'[Rt] \in {"stop", "join_tasks"}
        /\ place'[User] = place[User]
        /\ gate' \in {Rt, Free} /\ (place'[Rt] = "stop" => gate' = Rt)
        /\ gate' # Free => close_result = "none"
    BY <1>1, <1>3, <1>6
  <2>2. CallsInv'
    BY <1>2, <2>1 DEF Inv, CallsInv, One, interruptVars, hookVars
  <2>3. GateInv'
    <3>1. place[User] \notin Gated \cup {"commit"}
      BY <1>1, <1>4 DEF Inv, GateInv
    <3>2. "join_tasks" \notin Closing
      BY DEF Closing
    <3> QED BY <1>2, <1>3, <1>4, <2>1, <3>1, <3>2 DEF GateInv
  <2>4. FinalInv'
    BY <1>2, <1>3, <2>1 DEF Inv, FinalInv, interruptVars, workerVars, runtimeVars, sharedVars
  <2>5. StartupInv'
    <3>1. /\ ~admission
          /\ startup \in {"Pending", "Running"} => busy
      BY <2>1 DEF Inv, StartupInv
    <3> QED BY <1>2, <2>1, <3>1 DEF Inv, StartupInv, FramesFollowStartup, startupVars,
                      workerVars, sharedVars, runtimeVars
  <2> QED BY <2>2, <2>3, <2>4, <2>5
<1> QED BY <1>3, <1>5, <1>6

(* finalize_close reaches its step only with the interrupt drained; whether  *)
(* the backend is consumed or left unresolved, nobody is past it.            *)
LEMMA FinalizeCloseKeeps ==
  ASSUME Inv, NEW t \in Closers, FinalizeClose(t)
  PROVE  FinalInv'
<1> DEFINE Frame == <<runtimeVars, startupVars, sharedVars, cancelled, hookVars, interruptVars,
                      workerVars, opening, close_result, readerVars>>
<1>0. t # Free /\ t \in {User, Rt}
  BY PlacesAreNoThreads DEF PlacesAreNoThreads, Free, Closers
<1>1. /\ place[t] = "finalize_close" /\ sealed /\ active = 0 /\ gate = t
      /\ close_result = "none"
  <2>1. place[t] = "finalize_close" /\ sealed /\ active = 0
    BY DEF FinalizeClose, Drained
  <2>2. "finalize_close" \in Closing /\ "finalize_close" \in Gated
    BY DEF Closing, Gated
  <2>3. gate = t
    BY <1>0, <2>1, <2>2 DEF Inv, GateInv
  <2> QED BY <1>0, <2>1, <2>3 DEF Inv, GateInv
<1>2. UNCHANGED Frame /\ backend' \in {"consumed", "unresolved"}
  BY DEF FinalizeClose, Consumes
<1>3. \A u \in Closers \ {t} : place'[u] = place[u] /\ place[u] \notin {"complete", "unregister"}
  BY <1>1 DEF Inv, TypeOK, ThreadType, GateInv, FinalizeClose, Goto, Closing, Gated, Closers
<1>4. /\ place'[t] \in {"complete", "session", "join_tasks"}
      /\ place'[t] = "complete" => backend' = "consumed"
  BY <1>1 DEF Inv, TypeOK, ThreadType, FinalizeClose, Consumes, Goto
<1>5. /\ sealed' = sealed /\ active' = active /\ worker' = worker /\ state' = state
      /\ close_result' = close_result
  BY <1>2 DEF interruptVars, workerVars, sharedVars
<1>6. sealed => worker \in {"unborn", "exited"}
  BY DEF Inv, FinalInv
<1> HIDE DEF Frame
<1>7. \A u \in Closers : /\ place'[u] \in {"complete", "unregister"} => backend' = "consumed"
                         /\ place'[u] # "unregister"
  BY <1>3, <1>4
<1> QED BY <1>1, <1>5, <1>6, <1>7 DEF FinalInv

LEMMA CallsInvNext == ASSUME Inv, SessionStep PROVE CallsInv'
<1> USE DEF Inv, TypeOK, HookType, ThreadType, CallsInv, BuildInv, One, UserPlaces, RtPlaces,
          Building, Closing, Closers
<1> USE DEF closeVars, hookVars, interruptVars, readerFrame, readerVars, runtimeVars,
          sharedVars, startupVars, workerFrame, workerVars, Goto, Step, Constructing, At
<1>1. CASE Construction
  <2>1. CASE Create
    BY <2>1, Distinct DEF Create
  <2>2. CASE StartStartup
    BY <2>2, Distinct DEF StartStartup
  <2>3. CASE InstallStartupHook
    BY <2>3, Distinct DEF InstallStartupHook, Hook, Settled, Free, Terminal
  <2>4. CASE InstallResourceHook
    BY <2>4, Distinct DEF InstallResourceHook, Unhooked, Hook, Free, Running
  <2>5. CASE SpawnWorker
    BY <2>5, Distinct DEF SpawnWorker, Unhooked, NoFault, Fault, Running
  <2>6. CASE Register
    BY <2>6, Distinct DEF Register
  <2>7. CASE CommitSession
    BY <2>7, Distinct DEF CommitSession, Free
  <2>8. CASE AbortJoin
    BY <2>8, Distinct DEF AbortJoin
  <2>9. CASE SealConstruction
    BY <2>9, Distinct DEF SealConstruction, Seal, Unregister, Hook, Free
  <2>10. CASE FinalizeConstruction
    BY <2>10, Distinct DEF FinalizeConstruction, Drained, NoFault, Fault
  <2>11. CASE LookConstruction
    BY <2>11, Distinct DEF LookConstruction
  <2>12. CASE SettleConstruction
    BY <2>12, Distinct DEF SettleConstruction, SettleStartup, CanFinishCancelled, Finish,
           CanFail, Discarded, Hook, Free
  <2> QED BY <1>1, <2>1, <2>2, <2>3, <2>4, <2>5, <2>6, <2>7, <2>8, <2>9, <2>10, <2>11, <2>12
         DEF Construction
<1>2. CASE DropSession
  BY <1>2, Distinct DEF DropSession
<1>3. CASE WorkerRuns
  <2>1. CASE PublishFrame
    BY <2>1, Distinct DEF PublishFrame, CanSucceed, KeepState, Finish, SetState, Discarded,
           Awake, Hook, Free
  <2>2. CASE WaitForStart \/ OpenBackend \/ Opened \/ Loop \/ Read \/ PublishFailed
    BY <2>2 DEF WaitForStart, OpenBackend, Opened, Loop, Read, PublishFailed
  <2> QED BY <1>3, <2>1, <2>2 DEF WorkerRuns
<1>4. CASE WorkerEnds
  <2>1. CASE FailAfterCleanup
    BY <2>1, Distinct DEF FailAfterCleanup, CanFail, Discarded, Hook, Free
  <2>2. CASE SettleAfterWorker
    BY <2>2, Distinct DEF SettleAfterWorker, SettleStartup, CanFinishCancelled, Finish, CanFail,
           Discarded, Hook, Free
  <2>3. CASE Snap \/ CloseBackend \/ SendExit \/ CommitFailure \/ Look
    BY <2>3 DEF Snap, CloseBackend, SendExit, CommitFailure, Look
  <2> QED BY <1>4, <2>1, <2>2, <2>3 DEF WorkerEnds
<1>5. CASE StartupHook
  BY <1>5, Distinct DEF StartupHook, Hook, Inside, NoFault, SetState, KeepState, Enter, Leave,
         Running, Awake, Fail
<1>6. CASE ResourceHook
  BY <1>6, Distinct DEF ResourceHook, Hook, Inside, BeginStopping, NoFault, Enter, Leave,
         Running, SetState, KeepState, Fail, Awake
<1>7. CASE CancelStartup
  BY <1>7, Distinct DEF CancelStartup, CanFail, RequestCancel, SelectStartupHook, Hook
<1>8. CASE RuntimeClose
  <2>1. CASE CloseAdmission
    BY <2>1, Distinct DEF CloseAdmission
  <2>2. CASE CancelRoot
    BY <2>2, Distinct DEF CancelRoot, CancelResource, SelectStartupHook, Hook
  <2>3. CASE CancelOperations
    BY <2>3, Distinct DEF CancelOperations, Unhooked, RequestCancel, Running, SelectStartupHook,
           Hook
  <2>4. CASE CloseResources
    BY <2>4, Distinct DEF CloseResources, Unhooked, Running
  <2>5. CASE JoinTasks
    BY <2>5, Distinct DEF JoinTasks, CanFinishCancelled, Finish, Discarded, Hook, Free
  <2> QED BY <1>8, <2>1, <2>2, <2>3, <2>4, <2>5 DEF RuntimeClose
<1>9. ASSUME NEW t \in Closers, CloseStep(t) PROVE CallsInv'
  <2>1. CASE EnterClose(t)
    BY <2>1, EnterCloseKeeps
  <2>2. CASE Stop(t)
    BY <2>2, Distinct DEF Stop, BeginStopping, SetState, KeepState, Awake
  <2>3. CASE CancelSession(t)
    BY <2>3, Distinct DEF CancelSession, CancelResource, Hook
  <2>4. CASE CancelOwnStartup(t)
    BY <2>4, Distinct DEF CancelOwnStartup, Unhooked, RequestCancel, Running, SelectStartupHook,
           Hook
  <2>5. CASE EnterInterrupt(t)
    BY <2>5, Distinct DEF EnterInterrupt, Unhooked, Enter, AfterStop, Running
  <2>6. CASE LeaveInterrupt(t)
    BY <2>6, Distinct DEF LeaveInterrupt, Leave, AfterStop, NoFault, Fail
  <2>7. CASE SealClose(t)
    BY <2>7, Distinct DEF SealClose, Seal, Unregister, Hook, Free
  <2>8. CASE FinalizeClose(t)
    BY <2>8, Distinct DEF FinalizeClose, Drained, Consumes, Free, Fault, NoFault, Fail
  <2>9. CASE CompleteClosed(t)
    BY <2>9, Distinct DEF CompleteClosed, SetState, Awake
  <2>10. CASE Unregistered(t)
    BY <2>10, Distinct DEF Unregistered, Diagnostics, Free
  <2> QED BY <1>9, <2>1, <2>2, <2>3, <2>4, <2>5, <2>6, <2>7, <2>8, <2>9, <2>10 DEF CloseStep
<1> QED BY <1>1, <1>2, <1>3, <1>4, <1>5, <1>6, <1>7, <1>8, <1>9 DEF SessionStep

LEMMA BuildInvNext == ASSUME Inv, SessionStep PROVE BuildInv'
<1> USE DEF PlacesAreNoThreads, Inv, TypeOK, HookType, ThreadType, BuildInv, FinalInv,
          Unspawned, UserPlaces, RtPlaces, Building, Closing, Closers
<1> USE DEF closeVars, hookVars, interruptVars, readerFrame, readerVars, runtimeVars,
          sharedVars, startupVars, workerFrame, workerVars, Goto, Step, Constructing, At
<1>1. CASE Construction
  <2>1. CASE Create
    BY <2>1, Distinct, PlacesAreNoThreads DEF Create
  <2>2. CASE StartStartup
    BY <2>2, Distinct, PlacesAreNoThreads DEF StartStartup
  <2>3. CASE InstallStartupHook
    BY <2>3, Distinct, PlacesAreNoThreads DEF InstallStartupHook, Hook, Settled, Free, Terminal
  <2>4. CASE InstallResourceHook
    BY <2>4, Distinct, PlacesAreNoThreads DEF InstallResourceHook, Unhooked, Hook, Free, Running
  <2>5. CASE SpawnWorker
    BY <2>5, Distinct, PlacesAreNoThreads DEF SpawnWorker, Unhooked, NoFault, Fault, Running
  <2>6. CASE Register
    BY <2>6, Distinct, PlacesAreNoThreads DEF Register
  <2>7. CASE CommitSession
    BY <2>7, Distinct, PlacesAreNoThreads DEF CommitSession, Free
  <2>8. CASE AbortJoin
    BY <2>8, Distinct, PlacesAreNoThreads DEF AbortJoin
  <2>9. CASE SealConstruction
    BY <2>9, Distinct, PlacesAreNoThreads DEF SealConstruction, Seal, Unregister, Hook, Free
  <2>10. CASE FinalizeConstruction
    BY <2>10, Distinct, PlacesAreNoThreads DEF FinalizeConstruction, Drained, NoFault, Fault
  <2>11. CASE LookConstruction
    BY <2>11, Distinct, PlacesAreNoThreads DEF LookConstruction
  <2>12. CASE SettleConstruction
    BY <2>12, Distinct, PlacesAreNoThreads DEF SettleConstruction, SettleStartup,
           CanFinishCancelled, Finish, CanFail, Discarded, Hook, Free
  <2> QED BY <1>1, <2>1, <2>2, <2>3, <2>4, <2>5, <2>6, <2>7, <2>8, <2>9, <2>10, <2>11, <2>12
         DEF Construction
<1>2. CASE DropSession
  BY <1>2, Distinct, PlacesAreNoThreads DEF DropSession
<1>3. CASE WorkerRuns
  <2>1. CASE WaitForStart
    BY <2>1, Distinct, PlacesAreNoThreads DEF WaitForStart, Exits
  <2>2. CASE OpenBackend
    BY <2>2, Distinct, PlacesAreNoThreads DEF OpenBackend, NoFault, Errs, KeepState, SetFault,
           RejectProfile, Panics, Interrupted, Fault, SetState, Exits, Fail, Awake
  <2>3. CASE Opened
    BY <2>3, Distinct, PlacesAreNoThreads DEF Opened, Exits
  <2>4. CASE Loop
    BY <2>4, Distinct, PlacesAreNoThreads DEF Loop, Exits
  <2>5. CASE Read
    BY <2>5, Distinct, PlacesAreNoThreads DEF Read, NoFault, Fault, SetFault, Exits, Errs,
           KeepState, Panics, SetState, Interrupted, Fail, Awake
  <2>6. CASE PublishFrame
    BY <2>6, Distinct, PlacesAreNoThreads DEF PublishFrame, CanSucceed, KeepState, Finish,
           SetState, Discarded, Awake, Hook, Free
  <2>7. CASE PublishFailed
    BY <2>7, Distinct, PlacesAreNoThreads DEF PublishFailed, Exits, SetFault, SetState,
           KeepState, Awake
  <2> QED BY <1>3, <2>1, <2>2, <2>3, <2>4, <2>5, <2>6, <2>7 DEF WorkerRuns
<1>4. CASE WorkerEnds
  <2>1. CASE Snap
    BY <2>1, Distinct, PlacesAreNoThreads DEF Snap
  <2>2. CASE FailAfterCleanup
    BY <2>2, Distinct, PlacesAreNoThreads DEF FailAfterCleanup, CanFail, Discarded, Hook, Free
  <2>3. CASE CloseBackend
    BY <2>3, Distinct, PlacesAreNoThreads DEF CloseBackend, NoFault, BackendCloses, Fail
  <2>4. CASE SendExit
    BY <2>4, Distinct, PlacesAreNoThreads DEF SendExit
  <2>5. CASE CommitFailure
    BY <2>5, Distinct, PlacesAreNoThreads DEF CommitFailure
  <2>6. CASE Look
    BY <2>6, Distinct, PlacesAreNoThreads DEF Look
  <2>7. CASE SettleAfterWorker
    BY <2>7, Distinct, PlacesAreNoThreads DEF SettleAfterWorker, SettleStartup,
           CanFinishCancelled, Finish, CanFail, Discarded, Hook, Free
  <2> QED BY <1>4, <2>1, <2>2, <2>3, <2>4, <2>5, <2>6, <2>7 DEF WorkerEnds
<1>5. CASE StartupHook
  BY <1>5, Distinct, PlacesAreNoThreads DEF StartupHook, Hook, Inside, NoFault, SetState,
         KeepState, Enter, Leave, Running, Awake, Fail
<1>6. CASE ResourceHook
  BY <1>6, Distinct, PlacesAreNoThreads DEF ResourceHook, Hook, Inside, BeginStopping, NoFault,
         Enter, Leave, Running, SetState, KeepState, Fail, Awake
<1>7. CASE CancelStartup
  BY <1>7, Distinct, PlacesAreNoThreads DEF CancelStartup, CanFail, RequestCancel,
         SelectStartupHook, Hook
<1>8. CASE RuntimeClose
  <2>1. CASE CloseAdmission
    BY <2>1, Distinct, PlacesAreNoThreads DEF CloseAdmission
  <2>2. CASE CancelRoot
    BY <2>2, Distinct, PlacesAreNoThreads DEF CancelRoot, CancelResource, SelectStartupHook,
           Hook
  <2>3. CASE CancelOperations
    BY <2>3, Distinct, PlacesAreNoThreads DEF CancelOperations, Unhooked, RequestCancel,
           Running, SelectStartupHook, Hook
  <2>4. CASE CloseResources
    BY <2>4, Distinct, PlacesAreNoThreads DEF CloseResources, Unhooked, Running
  <2>5. CASE JoinTasks
    BY <2>5, Distinct, PlacesAreNoThreads DEF JoinTasks, CanFinishCancelled, Finish, Discarded,
           Hook, Free
  <2> QED BY <1>8, <2>1, <2>2, <2>3, <2>4, <2>5 DEF RuntimeClose
<1>9. ASSUME NEW t \in Closers, CloseStep(t) PROVE BuildInv'
  <2>1. CASE EnterClose(t)
    BY <2>1, Distinct, PlacesAreNoThreads DEF EnterClose, Ending, Free
  <2>2. CASE Stop(t)
    BY <2>2, Distinct, PlacesAreNoThreads DEF Stop, BeginStopping, SetState, KeepState, Awake
  <2>3. CASE CancelSession(t)
    BY <2>3, Distinct, PlacesAreNoThreads DEF CancelSession, CancelResource, Hook
  <2>4. CASE CancelOwnStartup(t)
    BY <2>4, Distinct, PlacesAreNoThreads DEF CancelOwnStartup, Unhooked, RequestCancel,
           Running, SelectStartupHook, Hook
  <2>5. CASE EnterInterrupt(t)
    BY <2>5, Distinct, PlacesAreNoThreads DEF EnterInterrupt, Unhooked, Enter, AfterStop,
           Running
  <2>6. CASE LeaveInterrupt(t)
    BY <2>6, Distinct, PlacesAreNoThreads DEF LeaveInterrupt, Leave, AfterStop, NoFault, Fail
  <2>7. CASE SealClose(t)
    BY <2>7, Distinct, PlacesAreNoThreads DEF SealClose, Seal, Unregister, Hook, Free
  <2>8. CASE FinalizeClose(t)
    BY <2>8, Distinct, PlacesAreNoThreads DEF FinalizeClose, Drained, Consumes, Free, Fault,
           NoFault, Fail
  <2>9. CASE CompleteClosed(t)
    BY <2>9, Distinct, PlacesAreNoThreads DEF CompleteClosed, SetState, Awake
  <2>10. CASE Unregistered(t)
    BY <2>10, Distinct, PlacesAreNoThreads DEF Unregistered, Diagnostics, Free
  <2> QED BY <1>9, <2>1, <2>2, <2>3, <2>4, <2>5, <2>6, <2>7, <2>8, <2>9, <2>10 DEF CloseStep
<1> QED BY <1>1, <1>2, <1>3, <1>4, <1>5, <1>6, <1>7, <1>8, <1>9 DEF SessionStep

LEMMA GateInvNext == ASSUME Inv, SessionStep PROVE GateInv'
<1> USE DEF PlacesAreNoThreads, Inv, TypeOK, ThreadType, GateInv, BuildInv, FinalInv, Gated,
          Free, UserPlaces, RtPlaces, Building, Closing, Closers
<1> USE DEF closeVars, hookVars, interruptVars, readerFrame, readerVars, runtimeVars,
          sharedVars, startupVars, workerFrame, workerVars, Goto, Step, Constructing, At
<1>1. CASE Construction
  <2>1. CASE Create
    BY <2>1, Distinct, PlacesAreNoThreads DEF Create
  <2>2. CASE StartStartup
    BY <2>2, Distinct, PlacesAreNoThreads DEF StartStartup
  <2>3. CASE InstallStartupHook
    BY <2>3, Distinct, PlacesAreNoThreads DEF InstallStartupHook, Hook, Settled, Terminal
  <2>4. CASE InstallResourceHook
    BY <2>4, Distinct, PlacesAreNoThreads DEF InstallResourceHook, Unhooked, Hook, Running
  <2>5. CASE SpawnWorker
    BY <2>5, Distinct, PlacesAreNoThreads DEF SpawnWorker, Unhooked, NoFault, Fault, Running
  <2>6. CASE Register
    BY <2>6, Distinct, PlacesAreNoThreads DEF Register
  <2>7. CASE CommitSession
    BY <2>7, Distinct, PlacesAreNoThreads DEF CommitSession
  <2>8. CASE AbortJoin
    BY <2>8, Distinct, PlacesAreNoThreads DEF AbortJoin
  <2>9. CASE SealConstruction
    BY <2>9, Distinct, PlacesAreNoThreads DEF SealConstruction, Seal, Unregister, Hook
  <2>10. CASE FinalizeConstruction
    BY <2>10, Distinct, PlacesAreNoThreads DEF FinalizeConstruction, Drained, NoFault, Fault
  <2>11. CASE LookConstruction
    BY <2>11, Distinct, PlacesAreNoThreads DEF LookConstruction
  <2>12. CASE SettleConstruction
    BY <2>12, Distinct, PlacesAreNoThreads DEF SettleConstruction, SettleStartup,
           CanFinishCancelled, Finish, CanFail, Discarded, Hook
  <2> QED BY <1>1, <2>1, <2>2, <2>3, <2>4, <2>5, <2>6, <2>7, <2>8, <2>9, <2>10, <2>11, <2>12
         DEF Construction
<1>2. CASE DropSession
  BY <1>2, Distinct, PlacesAreNoThreads DEF DropSession
<1>3. CASE WorkerRuns
  BY <1>3 DEF WorkerRuns, WaitForStart, OpenBackend, Opened, Loop, Read, PublishFrame,
         PublishFailed
<1>4. CASE WorkerEnds
  BY <1>4 DEF WorkerEnds, Snap, FailAfterCleanup, CloseBackend, SendExit, CommitFailure, Look,
         SettleAfterWorker
<1>5. CASE StartupHook
  BY <1>5, Distinct, PlacesAreNoThreads DEF StartupHook, Hook, Inside, NoFault, SetState,
         KeepState, Enter, Leave, Running, Awake, Fail
<1>6. CASE ResourceHook
  BY <1>6, Distinct, PlacesAreNoThreads DEF ResourceHook, Hook, Inside, BeginStopping, NoFault,
         Enter, Leave, Running, SetState, KeepState, Fail, Awake
<1>7. CASE CancelStartup
  BY <1>7, Distinct, PlacesAreNoThreads DEF CancelStartup, CanFail, RequestCancel,
         SelectStartupHook, Hook
<1>8. CASE RuntimeClose
  <2>1. CASE CloseAdmission
    BY <2>1, Distinct, PlacesAreNoThreads DEF CloseAdmission
  <2>2. CASE CancelRoot
    BY <2>2, Distinct, PlacesAreNoThreads DEF CancelRoot, CancelResource, SelectStartupHook,
           Hook
  <2>3. CASE CancelOperations
    BY <2>3, Distinct, PlacesAreNoThreads DEF CancelOperations, Unhooked, RequestCancel,
           Running, SelectStartupHook, Hook
  <2>4. CASE CloseResources
    BY <2>4, Distinct, PlacesAreNoThreads DEF CloseResources, Unhooked, Running
  <2>5. CASE JoinTasks
    BY <2>5, Distinct, PlacesAreNoThreads DEF JoinTasks, CanFinishCancelled, Finish, Discarded,
           Hook
  <2> QED BY <1>8, <2>1, <2>2, <2>3, <2>4, <2>5 DEF RuntimeClose
<1>9. ASSUME NEW t \in Closers, CloseStep(t) PROVE GateInv'
  <2>1. CASE EnterClose(t)
    BY <2>1, EnterCloseKeeps
  <2>2. CASE Stop(t)
    BY <2>2, Distinct, PlacesAreNoThreads DEF Stop, BeginStopping, SetState, KeepState, Awake
  <2>3. CASE CancelSession(t)
    BY <2>3, Distinct, PlacesAreNoThreads DEF CancelSession, CancelResource, Hook
  <2>4. CASE CancelOwnStartup(t)
    BY <2>4, Distinct, PlacesAreNoThreads DEF CancelOwnStartup, Unhooked, RequestCancel,
           Running, SelectStartupHook, Hook
  <2>5. CASE EnterInterrupt(t)
    BY <2>5, Distinct, PlacesAreNoThreads DEF EnterInterrupt, Unhooked, Enter, AfterStop,
           Running
  <2>6. CASE LeaveInterrupt(t)
    BY <2>6, Distinct, PlacesAreNoThreads DEF LeaveInterrupt, Leave, AfterStop, NoFault, Fail
  <2>7. CASE SealClose(t)
    BY <2>7, Distinct, PlacesAreNoThreads DEF SealClose, Seal, Unregister, Hook
  <2>8. CASE FinalizeClose(t)
    BY <2>8, Distinct, PlacesAreNoThreads DEF FinalizeClose, Drained, Consumes, Fault, NoFault,
           Fail
  <2>9. CASE CompleteClosed(t)
    BY <2>9, Distinct, PlacesAreNoThreads DEF CompleteClosed, SetState, Awake
  <2>10. CASE Unregistered(t)
    BY <2>10, Distinct, PlacesAreNoThreads DEF Unregistered, Diagnostics
  <2> QED BY <1>9, <2>1, <2>2, <2>3, <2>4, <2>5, <2>6, <2>7, <2>8, <2>9, <2>10 DEF CloseStep
<1> QED BY <1>1, <1>2, <1>3, <1>4, <1>5, <1>6, <1>7, <1>8, <1>9 DEF SessionStep

LEMMA FinalInvNext == ASSUME Inv, SessionStep PROVE FinalInv'
<1> USE DEF PlacesAreNoThreads, Inv, TypeOK, HookType, ThreadType, BuildInv, GateInv, FinalInv,
          CallsInv, One, Gated, Unspawned, Free, UserPlaces, RtPlaces, Building, Closing,
          Closers
<1> USE DEF closeVars, hookVars, interruptVars, readerFrame, readerVars, runtimeVars,
          sharedVars, startupVars, workerFrame, workerVars, Goto, Step, Constructing, At
<1>1. CASE Construction
  <2>1. CASE Create
    BY <2>1, Distinct, PlacesAreNoThreads DEF Create
  <2>2. CASE StartStartup
    BY <2>2, Distinct, PlacesAreNoThreads DEF StartStartup
  <2>3. CASE InstallStartupHook
    BY <2>3, Distinct, PlacesAreNoThreads DEF InstallStartupHook, Hook, Settled, Terminal
  <2>4. CASE InstallResourceHook
    BY <2>4, Distinct, PlacesAreNoThreads DEF InstallResourceHook, Unhooked, Hook, Running
  <2>5. CASE SpawnWorker
    BY <2>5, Distinct, PlacesAreNoThreads DEF SpawnWorker, Unhooked, NoFault, Fault, Running
  <2>6. CASE Register
    BY <2>6, Distinct, PlacesAreNoThreads DEF Register
  <2>7. CASE CommitSession
    BY <2>7, Distinct, PlacesAreNoThreads DEF CommitSession
  <2>8. CASE AbortJoin
    BY <2>8, Distinct, PlacesAreNoThreads DEF AbortJoin
  <2>9. CASE SealConstruction
    BY <2>9, Distinct, PlacesAreNoThreads DEF SealConstruction, Seal, Unregister, Hook
  <2>10. CASE FinalizeConstruction
    BY <2>10, Distinct, PlacesAreNoThreads DEF FinalizeConstruction, Drained, NoFault, Fault
  <2>11. CASE LookConstruction
    BY <2>11, Distinct, PlacesAreNoThreads DEF LookConstruction
  <2>12. CASE SettleConstruction
    BY <2>12, Distinct, PlacesAreNoThreads DEF SettleConstruction, SettleStartup,
           CanFinishCancelled, Finish, CanFail, Discarded, Hook
  <2> QED BY <1>1, <2>1, <2>2, <2>3, <2>4, <2>5, <2>6, <2>7, <2>8, <2>9, <2>10, <2>11, <2>12
         DEF Construction
<1>2. CASE DropSession
  BY <1>2, Distinct, PlacesAreNoThreads DEF DropSession
<1>3. CASE WorkerRuns
  <2>1. CASE WaitForStart
    BY <2>1, Distinct, PlacesAreNoThreads DEF WaitForStart, Exits
  <2>2. CASE OpenBackend
    BY <2>2, Distinct, PlacesAreNoThreads DEF OpenBackend, NoFault, Errs, KeepState, SetFault,
           RejectProfile, Panics, Interrupted, Fault, SetState, Exits, Fail, Awake
  <2>3. CASE Opened
    BY <2>3, Distinct, PlacesAreNoThreads DEF Opened, Exits
  <2>4. CASE Loop
    BY <2>4, Distinct, PlacesAreNoThreads DEF Loop, Exits
  <2>5. CASE Read
    BY <2>5, Distinct, PlacesAreNoThreads DEF Read, NoFault, Fault, SetFault, Exits, Errs,
           KeepState, Panics, SetState, Interrupted, Fail, Awake
  <2>6. CASE PublishFrame
    BY <2>6, Distinct, PlacesAreNoThreads DEF PublishFrame, CanSucceed, KeepState, Finish,
           SetState, Discarded, Awake, Hook
  <2>7. CASE PublishFailed
    BY <2>7, Distinct, PlacesAreNoThreads DEF PublishFailed, Exits, SetFault, SetState,
           KeepState, Awake
  <2> QED BY <1>3, <2>1, <2>2, <2>3, <2>4, <2>5, <2>6, <2>7 DEF WorkerRuns
<1>4. CASE WorkerEnds
  <2>1. CASE Snap
    BY <2>1, Distinct, PlacesAreNoThreads DEF Snap
  <2>2. CASE FailAfterCleanup
    BY <2>2, Distinct, PlacesAreNoThreads DEF FailAfterCleanup, CanFail, Discarded, Hook
  <2>3. CASE CloseBackend
    BY <2>3, Distinct, PlacesAreNoThreads DEF CloseBackend, NoFault, BackendCloses, Fail
  <2>4. CASE SendExit
    BY <2>4, Distinct, PlacesAreNoThreads DEF SendExit
  <2>5. CASE CommitFailure
    BY <2>5, Distinct, PlacesAreNoThreads DEF CommitFailure
  <2>6. CASE Look
    BY <2>6, Distinct, PlacesAreNoThreads DEF Look
  <2>7. CASE SettleAfterWorker
    BY <2>7, Distinct, PlacesAreNoThreads DEF SettleAfterWorker, SettleStartup,
           CanFinishCancelled, Finish, CanFail, Discarded, Hook
  <2> QED BY <1>4, <2>1, <2>2, <2>3, <2>4, <2>5, <2>6, <2>7 DEF WorkerEnds
<1>5. CASE StartupHook
  BY <1>5, Distinct, PlacesAreNoThreads DEF StartupHook, Hook, Inside, NoFault, SetState,
         KeepState, Enter, Leave, Running, Awake, Fail
<1>6. CASE ResourceHook
  BY <1>6, Distinct, PlacesAreNoThreads DEF ResourceHook, Hook, Inside, BeginStopping, NoFault,
         Enter, Leave, Running, SetState, KeepState, Fail, Awake
<1>7. CASE CancelStartup
  BY <1>7, Distinct, PlacesAreNoThreads DEF CancelStartup, CanFail, RequestCancel,
         SelectStartupHook, Hook
<1>8. CASE RuntimeClose
  <2>1. CASE CloseAdmission
    BY <2>1, Distinct, PlacesAreNoThreads DEF CloseAdmission
  <2>2. CASE CancelRoot
    BY <2>2, Distinct, PlacesAreNoThreads DEF CancelRoot, CancelResource, SelectStartupHook,
           Hook
  <2>3. CASE CancelOperations
    BY <2>3, Distinct, PlacesAreNoThreads DEF CancelOperations, Unhooked, RequestCancel,
           Running, SelectStartupHook, Hook
  <2>4. CASE CloseResources
    BY <2>4, Distinct, PlacesAreNoThreads DEF CloseResources, Unhooked, Running
  <2>5. CASE JoinTasks
    BY <2>5, Distinct, PlacesAreNoThreads DEF JoinTasks, CanFinishCancelled, Finish, Discarded,
           Hook
  <2> QED BY <1>8, <2>1, <2>2, <2>3, <2>4, <2>5 DEF RuntimeClose
<1>9. ASSUME NEW t \in Closers, CloseStep(t) PROVE FinalInv'
  <2>1. CASE EnterClose(t)
    BY <2>1, EnterCloseKeeps
  <2>2. CASE Stop(t)
    BY <2>2, Distinct, PlacesAreNoThreads DEF Stop, BeginStopping, SetState, KeepState, Awake
  <2>3. CASE CancelSession(t)
    BY <2>3, Distinct, PlacesAreNoThreads DEF CancelSession, CancelResource, Hook
  <2>4. CASE CancelOwnStartup(t)
    BY <2>4, Distinct, PlacesAreNoThreads DEF CancelOwnStartup, Unhooked, RequestCancel,
           Running, SelectStartupHook, Hook
  <2>5. CASE EnterInterrupt(t)
    BY <2>5, Distinct, PlacesAreNoThreads DEF EnterInterrupt, Unhooked, Enter, AfterStop,
           Running
  <2>6. CASE LeaveInterrupt(t)
    BY <2>6, Distinct, PlacesAreNoThreads DEF LeaveInterrupt, Leave, AfterStop, NoFault, Fail
  <2>7. CASE SealClose(t)
    BY <2>7, Distinct, PlacesAreNoThreads DEF SealClose, Seal, Unregister, Hook
  <2>8. CASE FinalizeClose(t)
    BY <2>8, FinalizeCloseKeeps
  <2>9. CASE CompleteClosed(t)
    BY <2>9, Distinct, PlacesAreNoThreads DEF CompleteClosed, SetState, Awake
  <2>10. CASE Unregistered(t)
    BY <2>10, Distinct, PlacesAreNoThreads DEF Unregistered, Diagnostics
  <2> QED BY <1>9, <2>1, <2>2, <2>3, <2>4, <2>5, <2>6, <2>7, <2>8, <2>9, <2>10 DEF CloseStep
<1> QED BY <1>1, <1>2, <1>3, <1>4, <1>5, <1>6, <1>7, <1>8, <1>9 DEF SessionStep

LEMMA StartupInvNext == ASSUME Inv, SessionStep PROVE StartupInv'
<1> USE DEF Inv, TypeOK, OperationType, SharedType, ThreadType, GateInv, StartupInv,
          FramesFollowStartup, BuildInv, Unspawned, Terminal, Phases, UserPlaces, RtPlaces,
          Building, Closing, Closers
<1> USE DEF closeVars, hookVars, interruptVars, readerFrame, readerVars, runtimeVars,
          sharedVars, startupVars, workerFrame, workerVars, Goto, Step, Constructing, At
<1>1. CASE Construction
  <2>1. CASE Create
    BY <2>1, Distinct DEF Create
  <2>2. CASE StartStartup
    BY <2>2, Distinct DEF StartStartup
  <2>3. CASE InstallStartupHook
    BY <2>3, Distinct DEF InstallStartupHook, Hook, Settled, Free
  <2>4. CASE InstallResourceHook
    BY <2>4, Distinct DEF InstallResourceHook, Unhooked, Hook, Free, Running
  <2>5. CASE SpawnWorker
    BY <2>5, Distinct DEF SpawnWorker, Unhooked, NoFault, Fault, Running
  <2>6. CASE Register
    BY <2>6, Distinct DEF Register
  <2>7. CASE CommitSession
    BY <2>7, Distinct DEF CommitSession, Free
  <2>8. CASE AbortJoin
    BY <2>8, Distinct DEF AbortJoin
  <2>9. CASE SealConstruction
    BY <2>9, Distinct DEF SealConstruction, Seal, Unregister, Hook, Free
  <2>10. CASE FinalizeConstruction
    BY <2>10, Distinct DEF FinalizeConstruction, Drained, NoFault, Fault
  <2>11. CASE LookConstruction
    BY <2>11, Distinct DEF LookConstruction
  <2>12. CASE SettleConstruction
    BY <2>12, Distinct DEF SettleConstruction, SettleStartup, CanFinishCancelled, Finish,
           CanFail, Discarded, Hook, Free
  <2> QED BY <1>1, <2>1, <2>2, <2>3, <2>4, <2>5, <2>6, <2>7, <2>8, <2>9, <2>10, <2>11, <2>12
         DEF Construction
<1>2. CASE DropSession
  BY <1>2, Distinct DEF DropSession
<1>3. CASE WorkerRuns
  <2>1. CASE WaitForStart
    BY <2>1, Distinct DEF WaitForStart, Exits
  <2>2. CASE OpenBackend
    BY <2>2, Distinct DEF OpenBackend, NoFault, Errs, KeepState, SetFault, RejectProfile,
           Panics, Interrupted, Fault, SetState, Exits, Fail, Awake
  <2>3. CASE Opened
    BY <2>3, Distinct DEF Opened, Exits
  <2>4. CASE Loop
    BY <2>4, Distinct DEF Loop, Exits
  <2>5. CASE Read
    BY <2>5, Distinct DEF Read, NoFault, Fault, SetFault, Exits, Errs, KeepState, Panics,
           SetState, Interrupted, Fail, Awake
  <2>6. CASE PublishFrame
    BY <2>6, Distinct DEF PublishFrame, CanSucceed, KeepState, Finish, SetState, Discarded,
           Awake, Hook, Free
  <2>7. CASE PublishFailed
    BY <2>7, Distinct DEF PublishFailed, Exits, SetFault, SetState, KeepState, Awake
  <2> QED BY <1>3, <2>1, <2>2, <2>3, <2>4, <2>5, <2>6, <2>7 DEF WorkerRuns
<1>4. CASE WorkerEnds
  <2>1. CASE Snap
    BY <2>1, Distinct DEF Snap
  <2>2. CASE FailAfterCleanup
    BY <2>2, Distinct DEF FailAfterCleanup, CanFail, Discarded, Hook, Free
  <2>3. CASE CloseBackend
    BY <2>3, Distinct DEF CloseBackend, NoFault, BackendCloses, Fail
  <2>4. CASE SendExit
    BY <2>4, Distinct DEF SendExit
  <2>5. CASE CommitFailure
    BY <2>5, Distinct DEF CommitFailure
  <2>6. CASE Look
    BY <2>6, Distinct DEF Look
  <2>7. CASE SettleAfterWorker
    BY <2>7, Distinct DEF SettleAfterWorker, SettleStartup, CanFinishCancelled, Finish, CanFail,
           Discarded, Hook, Free
  <2> QED BY <1>4, <2>1, <2>2, <2>3, <2>4, <2>5, <2>6, <2>7 DEF WorkerEnds
<1>5. CASE StartupHook
  BY <1>5, Distinct DEF StartupHook, Hook, Inside, NoFault, SetState, KeepState, Enter, Leave,
         Running, Awake, Fail
<1>6. CASE ResourceHook
  BY <1>6, Distinct DEF ResourceHook, Hook, Inside, BeginStopping, NoFault, Enter, Leave,
         Running, SetState, KeepState, Fail, Awake
<1>7. CASE CancelStartup
  BY <1>7, Distinct DEF CancelStartup, CanFail, RequestCancel, SelectStartupHook, Hook
<1>8. CASE RuntimeClose
  <2>1. CASE CloseAdmission
    BY <2>1, Distinct DEF CloseAdmission
  <2>2. CASE CancelRoot
    BY <2>2, Distinct DEF CancelRoot, CancelResource, SelectStartupHook, Hook
  <2>3. CASE CancelOperations
    BY <2>3, Distinct DEF CancelOperations, Unhooked, RequestCancel, Running, SelectStartupHook,
           Hook
  <2>4. CASE CloseResources
    BY <2>4, Distinct DEF CloseResources, Unhooked, Running
  <2>5. CASE JoinTasks
    BY <2>5, Distinct DEF JoinTasks, CanFinishCancelled, Finish, Discarded, Hook, Free
  <2> QED BY <1>8, <2>1, <2>2, <2>3, <2>4, <2>5 DEF RuntimeClose
<1>9. ASSUME NEW t \in Closers, CloseStep(t) PROVE StartupInv'
  <2>1. CASE EnterClose(t)
    BY <2>1, EnterCloseKeeps
  <2>2. CASE Stop(t)
    BY <2>2, Distinct DEF Stop, BeginStopping, SetState, KeepState, Awake
  <2>3. CASE CancelSession(t)
    BY <2>3, Distinct DEF CancelSession, CancelResource, Hook
  <2>4. CASE CancelOwnStartup(t)
    BY <2>4, Distinct DEF CancelOwnStartup, Unhooked, RequestCancel, Running, SelectStartupHook,
           Hook
  <2>5. CASE EnterInterrupt(t)
    BY <2>5, Distinct DEF EnterInterrupt, Unhooked, Enter, AfterStop, Running
  <2>6. CASE LeaveInterrupt(t)
    BY <2>6, Distinct DEF LeaveInterrupt, Leave, AfterStop, NoFault, Fail
  <2>7. CASE SealClose(t)
    BY <2>7, Distinct DEF SealClose, Seal, Unregister, Hook, Free
  <2>8. CASE FinalizeClose(t)
    BY <2>8, Distinct DEF FinalizeClose, Drained, Consumes, Free, Fault, NoFault, Fail
  <2>9. CASE CompleteClosed(t)
    BY <2>9, Distinct DEF CompleteClosed, SetState, Awake
  <2>10. CASE Unregistered(t)
    BY <2>10, Distinct DEF Unregistered, Diagnostics, Free
  <2> QED BY <1>9, <2>1, <2>2, <2>3, <2>4, <2>5, <2>6, <2>7, <2>8, <2>9, <2>10 DEF CloseStep
<1> QED BY <1>1, <1>2, <1>3, <1>4, <1>5, <1>6, <1>7, <1>8, <1>9 DEF SessionStep

-----------------------------------------------------------------------------
LEMMA InitInv == Init => Inv
<1> SUFFICES ASSUME Init PROVE Inv
  OBVIOUS
<1> USE DEF Init, Closers, Free, Hook, UserPlaces, RtPlaces, Building, Closing
<1>1. OperationType /\ HookType
  <2>1. OperationType
    BY DEF OperationType, Phases
  <2>2. HookType
    <3>1. cancelled \in BOOLEAN /\ sealed \in BOOLEAN /\ stop_requested \in BOOLEAN
      OBVIOUS
    <3>2. active \in 0..4
      OBVIOUS
    <3> QED BY <3>1, <3>2 DEF HookType
  <2> QED BY <2>1, <2>2
<1>7. SharedType /\ ResultType
  <2>1. SharedType
    <3>1. next_sequence \in 1..(MaxFrames + 1)
      BY CaptureAssumption DEF CaptureAssumption
    <3>2. reader \in [Readers -> {"idle", "check", "wait", "asleep", "returned"}]
      OBVIOUS
    <3>3. /\ reader_cancelled \in [Readers -> BOOLEAN]
          /\ waking \subseteq Readers /\ locked \in BOOLEAN
      OBVIOUS
    <3> QED BY <3>1, <3>2, <3>3 DEF SharedType
  <2>2. ResultType
    BY CaptureAssumption DEF CaptureAssumption, ResultType
  <2> QED BY <2>1, <2>2
<1>8. ThreadType
  BY Distinct DEF ThreadType, WorkerPlaces
<1>2. CallsInv
  BY Distinct DEF CallsInv, One
<1>3. BuildInv
  BY Distinct, PlacesAreNoThreads DEF PlacesAreNoThreads, BuildInv, Unspawned
<1>4. GateInv
  BY Distinct, PlacesAreNoThreads DEF PlacesAreNoThreads, GateInv, Gated
<1>5. FinalInv
  BY Distinct, PlacesAreNoThreads DEF PlacesAreNoThreads, FinalInv
<1>6. StartupInv
  BY Distinct, CaptureAssumption DEF CaptureAssumption, StartupInv, FramesFollowStartup
<1> QED BY <1>1, <1>2, <1>3, <1>4, <1>5, <1>6, <1>7, <1>8 DEF Inv, TypeOK

LEMMA StepInv == Inv /\ [Next]_vars => Inv'
<1>1. ASSUME Inv, UNCHANGED vars PROVE Inv'
  <2>1. UNCHANGED readerFrame
    BY <1>1 DEF vars, readerFrame
  <2>2. SharedType'
    BY <1>1 DEF vars, Inv, TypeOK, SharedType, sharedVars, readerVars
  <2> QED BY <1>1, <2>1, <2>2, FrameKeepsInv DEF Inv, TypeOK
<1>2. ASSUME Inv, SessionStep PROVE Inv'
  BY <1>2, OperationTypeNext, SharedTypeNext, HookTypeNext, ThreadTypeNext, ResultTypeNext,
     CallsInvNext,
     BuildInvNext, GateInvNext, FinalInvNext, StartupInvNext DEF Inv, TypeOK
<1> QED BY <1>1, <1>2, SnapshotsKeepInv DEF Next, SessionStep

(* In every state of a session the backend has one owner, at most one thread *)
(* closes the resource, the interrupt calls are counted, and the startup     *)
(* operation is ended by whoever may still end it.                           *)
THEOREM Invariance == Spec => []Inv
<1>1. Init => Inv
  BY InitInv
<1>2. Inv /\ [Next]_vars => Inv'
  BY StepInv
<1> QED BY <1>1, <1>2, PTL DEF Spec

(* Every variable of a capture session keeps its type; `active` never passes *)
(* the four threads that can be in request_stop.                             *)
THEOREM TypeCorrect == Spec => []TypeOK
<1>1. Inv => TypeOK
  BY DEF Inv
<1> QED BY <1>1, Invariance, PTL

(* The backend meets its end alone: the worker is over, and no interrupt     *)
(* call is under way or can begin.                                           *)
THEOREM BackendFinalizedAlone == Spec => []FinalizedAlone
<1>1. Inv => FinalizedAlone
  BY DEF Inv, FinalizedAlone, BuildInv, FinalInv, Building
<1> QED BY <1>1, Invariance, PTL

(* The first frame of a session and the success of its startup operation are *)
(* one event, whatever cancels, fails or closes the session meanwhile.       *)
THEOREM FramesFollow == Spec => []FramesFollowStartup
<1>1. Inv => FramesFollowStartup
  BY DEF Inv, StartupInv
<1> QED BY <1>1, Invariance, PTL

(* The recorded result of close tells exactly whether something failed, and  *)
(* is recorded once nothing can fail any more; a closed Runtime leaves no    *)
(* startup operation behind.                                                 *)
THEOREM CloseTells == Spec => []CloseTellsEverything
<1>1. Inv => CloseTellsEverything
  BY DEF Inv, CloseTellsEverything, FinalInv, StartupInv
<1> QED BY <1>1, Invariance, PTL
-----------------------------------------------------------------------------
(* Who waits, and for whom.                                                  *)

(* The state mutex is held between a test and its wait by one reader only;   *)
(* readers exist once the session does, and wait only while it is opening.   *)
ReaderInv ==
  /\ \A r, q \in Readers : reader[r] = "wait" /\ reader[q] = "wait" => r = q
  /\ locked <=> \E r \in Readers : reader[r] = "wait"
  /\ \A r \in Readers :
       /\ reader[r] # "idle" => place[User] \notin Building \cup {"commit"}
       /\ reader[r] \in {"wait", "asleep"} => state = "Opening"

(* Places of a closing thread after begin_stop has changed the state, and    *)
(* after it has cancelled the token.                                         *)
Stopped   == Closing \ {"stop"}
Told      == Stopped \ {"cancel"}

(* Places of the worker in which it has the start signal to run.             *)
Started == {"open", "opened", "open_failed", "loop", "read", "frame", "publish_failed", "snap",
            "claim"}

(* The start gate: as long as the signal is pending somebody will give it,   *)
(* and a worker that was aborted never reads.                                *)
StartInv ==
  /\ start = "Pending" /\ worker # "unborn" => place[User] \in {"register", "commit"}
  /\ place[User] \in Unspawned \cup {"register"} => start = "Pending"
  /\ start # "Run" => worker \notin Started
  /\ place[User] = "abort_join" => start = "Abort"
  /\ place[User] \notin Building \cup {"commit"} => start = "Run"

(* Whoever ends the session has told the worker: the token is cancelled, and *)
(* the state no longer one in which a snapshot waits.                        *)
StopInv ==
  /\ place[User] \in Told \cup {"done"} \/ place[Rt] \notin {"idle", "root"}
       \/ close_result # "none" => cancelled
  /\ place[User] \in Stopped \cup {"done"} => state # "Opening"
  /\ place[Rt] \in Stopped \cup {"join_tasks", "done"} =>
       place[User] \in Building \/ state # "Opening"

(* Who sealed the interrupts, and what is left to be finalized.              *)
SealInv ==
  /\ place[User] \in {"register", "abort_join", "drain", "commit"} => ~sealed
  /\ place[User] \in {"finalize", "finalize_again"} => state = "Constructing" \/ sealed
  /\ backend = "unresolved" => sealed
  /\ gate = Rt => place[Rt] \in Closing
  /\ \A t \in Closers : /\ place[t] = "finalize_close" => sealed
                        /\ place[t] = "join" => ~sealed
  /\ sealed /\ place[User] \notin Building /\ close_result = "none" =>
       \/ backend = "unresolved"
       \/ \E t \in Closers : gate = t /\ place[t] \in {"finalize_close", "complete", "unregister"}
  /\ place[User] \notin Building => registered \/ close_result # "none"

WaitInv == ReaderInv /\ StartInv /\ StopInv /\ SealInv

(* A step of the session changes the shared state only when no reader holds  *)
(* its mutex, and wakes the readers; or there are none yet.                  *)
LEMMA StateStep ==
  ASSUME SessionStep
  PROVE  /\ locked' = locked
         /\ \/ UNCHANGED <<state, reader>>
            \/ ~locked /\ reader' = Awake
            \/ place[User] = "install" /\ UNCHANGED reader
<1> USE DEF sharedVars, readerVars, workerFrame
<1>1. CASE Construction
  <2>1. CASE Create \/ StartStartup \/ InstallResourceHook \/ SpawnWorker
    BY <2>1 DEF Create, StartStartup, InstallResourceHook, SpawnWorker
  <2>2. CASE InstallStartupHook
    BY <2>2 DEF InstallStartupHook, Step, Constructing
  <2>3. CASE Register \/ CommitSession \/ AbortJoin
    BY <2>3 DEF Register, CommitSession, AbortJoin
  <2>4. CASE SealConstruction \/ FinalizeConstruction
    BY <2>4 DEF SealConstruction, FinalizeConstruction
  <2>5. CASE LookConstruction \/ SettleConstruction
    BY <2>5 DEF LookConstruction, SettleConstruction
  <2> QED BY <1>1, <2>1, <2>2, <2>3, <2>4, <2>5 DEF Construction
<1>2. CASE DropSession \/ CancelStartup
  BY <1>2 DEF DropSession, CancelStartup
<1>3. CASE WorkerRuns
  <2> USE DEF SetState, KeepState, SetFault
  <2>1. CASE WaitForStart \/ Opened \/ Loop
    BY <2>1 DEF WaitForStart, Opened, Loop
  <2>2. CASE OpenBackend
    BY <2>2 DEF OpenBackend, RejectProfile, Panics
  <2>3. CASE Read
    BY <2>3 DEF Read, Panics
  <2>4. CASE PublishFrame \/ PublishFailed
    BY <2>4 DEF PublishFrame, PublishFailed
  <2> QED BY <1>3, <2>1, <2>2, <2>3, <2>4 DEF WorkerRuns
<1>4. CASE WorkerEnds
  BY <1>4 DEF WorkerEnds, Snap, FailAfterCleanup, CloseBackend, SendExit, CommitFailure, Look,
              SettleAfterWorker
<1>5. CASE StartupHook
  BY <1>5 DEF StartupHook, SetState, KeepState
<1>6. CASE ResourceHook
  BY <1>6 DEF ResourceHook, BeginStopping, SetState, KeepState
<1>7. CASE RuntimeClose
  BY <1>7 DEF RuntimeClose, CloseAdmission, CancelRoot, CancelOperations, CloseResources,
              JoinTasks
<1>8. ASSUME NEW t \in Closers, CloseStep(t)
      PROVE  /\ locked' = locked
             /\ UNCHANGED <<state, reader>> \/ (~locked /\ reader' = Awake)
  <2>1. CASE Stop(t) \/ CompleteClosed(t)
    BY <2>1 DEF Stop, CompleteClosed, BeginStopping, SetState, KeepState
  <2>2. CASE ~Stop(t) /\ ~CompleteClosed(t)
    BY <1>8, <2>2 DEF CloseStep, EnterClose, CancelSession, CancelOwnStartup, EnterInterrupt,
                      LeaveInterrupt, SealClose, FinalizeClose, Unregistered
  <2> QED BY <2>1, <2>2
<1> QED BY <1>1, <1>2, <1>3, <1>4, <1>5, <1>6, <1>7, <1>8 DEF SessionStep

(* Nothing leads back into the construction.                                 *)
LEMMA BuildStep ==
  ASSUME Inv, SessionStep, place[User] \notin Building \cup {"commit"}
  PROVE  place'[User] \notin Building \cup {"commit"}
<1>0. /\ place \in [Closers -> UserPlaces \cup RtPlaces] /\ Closers = {User, Rt}
      /\ place[User] \notin {"create", "start", "install", "install_resource", "spawn",
              "register", "abort_join", "drain", "finalize", "finalize_again", "look", "settle",
              "failed", "commit"}
  BY DEF Inv, TypeOK, ThreadType, Closers, Building
<1>1. \A t, p : Goto(t, p) /\ (t = User => p \notin Building \cup {"commit"}) =>
                place'[User] \notin Building \cup {"commit"}
  BY <1>0 DEF Goto
<1>2. \A p : p \in Closing \cup {"session", "done", "join_tasks", "root", "operations",
                                   "resources", "close"}
             => p \notin Building \cup {"commit"}
  BY DEF Closing, Building
<1>3. CASE Construction
  BY <1>0, <1>3 DEF Construction, Create, StartStartup, InstallStartupHook, InstallResourceHook,
       SpawnWorker, Register, CommitSession, AbortJoin, SealConstruction, Seal,
       FinalizeConstruction, LookConstruction, SettleConstruction, Step, Constructing
<1>4. CASE DropSession
  BY <1>1, <1>2, <1>4 DEF DropSession, Closing
<1>5. CASE WorkerRuns \/ WorkerEnds \/ StartupHook \/ ResourceHook \/ CancelStartup
  <2>1. place' = place
    BY <1>5 DEF WorkerRuns, WaitForStart, OpenBackend, Opened, Loop, Read, PublishFrame,
          PublishFailed, WorkerEnds, Snap, FailAfterCleanup, CloseBackend, SendExit,
          CommitFailure, Look, SettleAfterWorker, StartupHook, ResourceHook, CancelStartup,
          workerFrame
  <2> QED BY <2>1
<1>6. CASE RuntimeClose
  <2>1. \E p : Goto(Rt, p)
    BY <1>6 DEF RuntimeClose, CloseAdmission, CancelRoot, CancelOperations, CloseResources,
                JoinTasks
  <2> QED BY <1>1, <2>1, Distinct
<1>7. ASSUME NEW t \in Closers, CloseStep(t) PROVE place'[User] \notin Building \cup {"commit"}
  <2>1. \E p \in Closing \cup {"done", "join_tasks", "session"} : Goto(t, p)
    <3>1. CASE EnterClose(t)
      BY <3>1 DEF EnterClose, Closing
    <3>2. CASE Stop(t) \/ CancelSession(t) \/ CancelOwnStartup(t)
      BY <3>2 DEF Stop, CancelSession, CancelOwnStartup, Closing
    <3>3. CASE EnterInterrupt(t) \/ LeaveInterrupt(t)
      BY <3>3 DEF EnterInterrupt, LeaveInterrupt, AfterStop, Closing
    <3>4. CASE SealClose(t) \/ FinalizeClose(t)
      BY <3>4 DEF SealClose, Seal, FinalizeClose, Closing
    <3>5. CASE CompleteClosed(t) \/ Unregistered(t)
      BY <3>5 DEF CompleteClosed, Unregistered, Closing
    <3> QED BY <1>7, <3>1, <3>2, <3>3, <3>4, <3>5 DEF CloseStep
  <2> QED BY <1>1, <1>2, <2>1
<1> QED BY <1>3, <1>4, <1>5, <1>6, <1>7 DEF SessionStep

(* No step of the session disturbs a reader but by waking it.                *)
LEMMA ReaderInvNext == ASSUME Inv, WaitInv, SessionStep PROVE ReaderInv'
<1>0. ReaderInv /\ reader \in [Readers -> {"idle", "check", "wait", "asleep", "returned"}]
  BY DEF WaitInv, Inv, TypeOK, SharedType
<1>1. \A r \in Readers : reader[r] # "idle" => place'[User] \notin Building \cup {"commit"}
  BY <1>0, BuildStep DEF ReaderInv
<1>2. locked' = locked
  BY StateStep
<1>3. CASE UNCHANGED <<state, reader>>
  BY <1>0, <1>1, <1>2, <1>3 DEF ReaderInv
<1>4. CASE ~locked /\ reader' = Awake
  <2>1. \A r \in Readers : /\ reader'[r] \notin {"wait", "asleep"}
                           /\ reader'[r] # "idle" => reader[r] # "idle"
    BY <1>0, <1>4 DEF ReaderInv, Awake
  <2> QED BY <1>1, <1>2, <1>4, <2>1 DEF ReaderInv
<1>5. CASE place[User] = "install" /\ UNCHANGED reader
  <2>1. \A r \in Readers : reader[r] = "idle"
    BY <1>0, <1>5 DEF ReaderInv, Building
  <2> QED BY <1>0, <1>2, <1>5, <2>1 DEF ReaderInv
<1> QED BY <1>3, <1>4, <1>5, StateStep

(* A snapshot takes the mutex for its test only where it is free, and waits  *)
(* only while the session is opening.                                        *)
LEMMA SnapshotsKeepWaits ==
  ASSUME Inv, WaitInv, NEW r \in Readers, BeginSnapshot(r) \/ CancelSnapshot(r) \/ Snapshot(r)
  PROVE  WaitInv'
<1>0. /\ ReaderInv /\ UNCHANGED readerFrame
      /\ reader \in [Readers -> {"idle", "check", "wait", "asleep", "returned"}]
  BY SnapshotsOnlyRead DEF WaitInv, Inv, TypeOK, SharedType
<1> USE DEF readerFrame, runtimeVars, startupVars, sharedVars, hookVars, interruptVars,
          workerVars, closeVars
<1>1. StartInv' /\ StopInv'
  BY <1>0 DEF WaitInv, StartInv, StopInv
<1>2. SealInv'
  BY <1>0 DEF WaitInv, SealInv
<1>3. ReaderInv'
  <2>1. CASE BeginSnapshot(r)
    <3>1. place[User] \notin Building \cup {"commit"}
      BY <2>1 DEF BeginSnapshot, Constructing, Building
    <3>2. locked' = locked /\ reader[r] = "idle" /\ reader' = [reader EXCEPT ![r] = "check"]
      BY <2>1 DEF BeginSnapshot
    <3> QED BY <1>0, <3>1, <3>2 DEF ReaderInv
  <2>2. CASE CancelSnapshot(r)
    BY <1>0, <2>2 DEF CancelSnapshot, ReaderInv
  <2>3. CASE CheckSnapshot(r)
    BY <1>0, <2>3 DEF CheckSnapshot, ReaderInv
  <2>4. CASE SleepSnapshot(r)
    BY <1>0, <2>4 DEF SleepSnapshot, ReaderInv
  <2>5. CASE SnapshotDeadline(r)
    BY <1>0, <2>5 DEF SnapshotDeadline, ReaderInv
  <2>6. CASE WakeSnapshot(r)
    BY <1>0, <2>6 DEF WakeSnapshot, ReaderInv, Awake
  <2> QED BY <2>1, <2>2, <2>3, <2>4, <2>5, <2>6 DEF Snapshot
<1> QED BY <1>1, <1>2, <1>3 DEF WaitInv

(* The signal is given by the thread that registers the resource, and once. *)
LEMMA StartInvNext == ASSUME Inv, WaitInv, SessionStep PROVE StartInv'
<1> USE DEF PlacesAreNoThreads, Inv, WaitInv, TypeOK, ThreadType, UserPlaces, RtPlaces, Building,
          Closing, Closers, StartInv, BuildInv, WorkerPlaces, Started, Unspawned
<1> USE DEF closeVars, hookVars, interruptVars, readerFrame, readerVars, runtimeVars,
          sharedVars, startupVars, workerFrame, workerVars, Goto, Step, Constructing, At
<1>1. CASE Construction
  <2>1. CASE Create
    BY <2>1, Distinct, PlacesAreNoThreads DEF Create
  <2>2. CASE StartStartup
    BY <2>2, Distinct, PlacesAreNoThreads DEF StartStartup
  <2>3. CASE InstallStartupHook
    BY <2>3, Distinct, PlacesAreNoThreads DEF InstallStartupHook, Hook, Settled, Terminal
  <2>4. CASE InstallResourceHook
    BY <2>4, Distinct, PlacesAreNoThreads DEF InstallResourceHook, Unhooked, Hook, Running
  <2>5. CASE SpawnWorker
    BY <2>5, Distinct, PlacesAreNoThreads DEF SpawnWorker, Unhooked, NoFault, Fault, Running
  <2>6. CASE Register
    BY <2>6, Distinct, PlacesAreNoThreads DEF Register
  <2>7. CASE CommitSession
    BY <2>7, Distinct, PlacesAreNoThreads DEF CommitSession
  <2>8. CASE AbortJoin
    BY <2>8, Distinct, PlacesAreNoThreads DEF AbortJoin
  <2>9. CASE SealConstruction
    BY <2>9, Distinct, PlacesAreNoThreads DEF SealConstruction, Seal, Unregister, Hook
  <2>10. CASE FinalizeConstruction
    BY <2>10, Distinct, PlacesAreNoThreads DEF FinalizeConstruction, Drained, NoFault, Fault
  <2>11. CASE LookConstruction
    BY <2>11, Distinct, PlacesAreNoThreads DEF LookConstruction
  <2>12. CASE SettleConstruction
    BY <2>12, Distinct, PlacesAreNoThreads DEF SettleConstruction, SettleStartup,
           CanFinishCancelled, Finish, CanFail, Discarded, Hook
  <2> QED BY <1>1, <2>1, <2>2, <2>3, <2>4, <2>5, <2>6, <2>7, <2>8, <2>9, <2>10, <2>11, <2>12
         DEF Construction
<1>2. CASE DropSession
  BY <1>2, Distinct, PlacesAreNoThreads DEF DropSession
<1>3. CASE WorkerRuns
  <2>1. CASE WaitForStart
    BY <2>1, Distinct, PlacesAreNoThreads DEF WaitForStart, Exits
  <2>2. CASE OpenBackend
    BY <2>2, Distinct, PlacesAreNoThreads DEF OpenBackend, NoFault, Errs, KeepState, SetFault,
           RejectProfile, Panics, Interrupted, Fault, SetState, Exits, Fail, Awake
  <2>3. CASE Opened
    BY <2>3, Distinct, PlacesAreNoThreads DEF Opened, Exits
  <2>4. CASE Loop
    BY <2>4, Distinct, PlacesAreNoThreads DEF Loop, Exits
  <2>5. CASE Read
    BY <2>5, Distinct, PlacesAreNoThreads DEF Read, NoFault, Fault, SetFault, Exits, Errs,
           KeepState, Panics, SetState, Interrupted, Fail, Awake
  <2>6. CASE PublishFrame
    BY <2>6, Distinct, PlacesAreNoThreads DEF PublishFrame, CanSucceed, KeepState, Finish,
           SetState, Discarded, Awake, Hook
  <2>7. CASE PublishFailed
    BY <2>7, Distinct, PlacesAreNoThreads DEF PublishFailed, Exits, SetFault, SetState,
           KeepState, Awake
  <2> QED BY <1>3, <2>1, <2>2, <2>3, <2>4, <2>5, <2>6, <2>7 DEF WorkerRuns
<1>4. CASE WorkerEnds
  <2>1. CASE Snap
    BY <2>1, Distinct, PlacesAreNoThreads DEF Snap
  <2>2. CASE FailAfterCleanup
    BY <2>2, Distinct, PlacesAreNoThreads DEF FailAfterCleanup, CanFail, Discarded, Hook
  <2>3. CASE CloseBackend
    BY <2>3, Distinct, PlacesAreNoThreads DEF CloseBackend, NoFault, BackendCloses, Fail
  <2>4. CASE SendExit
    BY <2>4, Distinct, PlacesAreNoThreads DEF SendExit
  <2>5. CASE CommitFailure
    BY <2>5, Distinct, PlacesAreNoThreads DEF CommitFailure
  <2>6. CASE Look
    BY <2>6, Distinct, PlacesAreNoThreads DEF Look
  <2>7. CASE SettleAfterWorker
    BY <2>7, Distinct, PlacesAreNoThreads DEF SettleAfterWorker, SettleStartup,
           CanFinishCancelled, Finish, CanFail, Discarded, Hook
  <2> QED BY <1>4, <2>1, <2>2, <2>3, <2>4, <2>5, <2>6, <2>7 DEF WorkerEnds
<1>5. CASE StartupHook
  BY <1>5, Distinct, PlacesAreNoThreads DEF StartupHook, Hook, Inside, NoFault, SetState,
         KeepState, Enter, Leave, Running, Awake, Fail
<1>6. CASE ResourceHook
  BY <1>6, Distinct, PlacesAreNoThreads DEF ResourceHook, Hook, Inside, BeginStopping, NoFault,
         Enter, Leave, Running, SetState, KeepState, Fail, Awake
<1>7. CASE CancelStartup
  BY <1>7, Distinct, PlacesAreNoThreads DEF CancelStartup, CanFail, RequestCancel,
         SelectStartupHook, Hook
<1>8. CASE RuntimeClose
  <2>1. CASE CloseAdmission
    BY <2>1, Distinct, PlacesAreNoThreads DEF CloseAdmission
  <2>2. CASE CancelRoot
    BY <2>2, Distinct, PlacesAreNoThreads DEF CancelRoot, CancelResource, SelectStartupHook,
           Hook
  <2>3. CASE CancelOperations
    BY <2>3, Distinct, PlacesAreNoThreads DEF CancelOperations, Unhooked, RequestCancel,
           Running, SelectStartupHook, Hook
  <2>4. CASE CloseResources
    BY <2>4, Distinct, PlacesAreNoThreads DEF CloseResources, Unhooked, Running
  <2>5. CASE JoinTasks
    BY <2>5, Distinct, PlacesAreNoThreads DEF JoinTasks, CanFinishCancelled, Finish, Discarded,
           Hook
  <2> QED BY <1>8, <2>1, <2>2, <2>3, <2>4, <2>5 DEF RuntimeClose
<1>9. ASSUME NEW t \in Closers, CloseStep(t) PROVE StartInv'
  <2>1. CASE EnterClose(t)
    BY <2>1, Distinct, PlacesAreNoThreads DEF EnterClose, Ending
  <2>2. CASE Stop(t)
    BY <2>2, Distinct, PlacesAreNoThreads DEF Stop, BeginStopping, SetState, KeepState, Awake
  <2>3. CASE CancelSession(t)
    BY <2>3, Distinct, PlacesAreNoThreads DEF CancelSession, CancelResource, Hook
  <2>4. CASE CancelOwnStartup(t)
    BY <2>4, Distinct, PlacesAreNoThreads DEF CancelOwnStartup, Unhooked, RequestCancel,
           Running, SelectStartupHook, Hook
  <2>5. CASE EnterInterrupt(t)
    BY <2>5, Distinct, PlacesAreNoThreads DEF EnterInterrupt, Unhooked, Enter, AfterStop,
           Running
  <2>6. CASE LeaveInterrupt(t)
    BY <2>6, Distinct, PlacesAreNoThreads DEF LeaveInterrupt, Leave, AfterStop, NoFault, Fail
  <2>7. CASE SealClose(t)
    BY <2>7, Distinct, PlacesAreNoThreads DEF SealClose, Seal, Unregister, Hook
  <2>8. CASE FinalizeClose(t)
    BY <2>8, Distinct, PlacesAreNoThreads DEF FinalizeClose, Drained, Consumes, Fault, NoFault,
           Fail
  <2>9. CASE CompleteClosed(t)
    BY <2>9, Distinct, PlacesAreNoThreads DEF CompleteClosed, SetState, Awake
  <2>10. CASE Unregistered(t)
    BY <2>10, Distinct, PlacesAreNoThreads DEF Unregistered, Diagnostics
  <2> QED BY <1>9, <2>1, <2>2, <2>3, <2>4, <2>5, <2>6, <2>7, <2>8, <2>9, <2>10 DEF CloseStep
<1> QED BY <1>1, <1>2, <1>3, <1>4, <1>5, <1>6, <1>7, <1>8, <1>9 DEF SessionStep


(* The token stays cancelled, and the state never becomes one to wait in.   *)
LEMMA StopInvNext == ASSUME Inv, WaitInv, SessionStep PROVE StopInv'
<1> USE DEF PlacesAreNoThreads, Inv, WaitInv, TypeOK, ThreadType, UserPlaces, RtPlaces, Building,
          Closing, Closers, SharedType, StopInv, SealInv, BuildInv, FinalInv, StartupInv, GateInv,
          Gated, Free, Stopped, Told
<1> USE DEF closeVars, hookVars, interruptVars, readerFrame, readerVars, runtimeVars,
          sharedVars, startupVars, workerFrame, workerVars, Goto, Step, Constructing, At
<1>1. CASE Construction
  <2>1. CASE Create
    BY <2>1, Distinct, PlacesAreNoThreads DEF Create
  <2>2. CASE StartStartup
    BY <2>2, Distinct, PlacesAreNoThreads DEF StartStartup
  <2>3. CASE InstallStartupHook
    BY <2>3, Distinct, PlacesAreNoThreads DEF InstallStartupHook, Hook, Settled, Terminal
  <2>4. CASE InstallResourceHook
    BY <2>4, Distinct, PlacesAreNoThreads DEF InstallResourceHook, Unhooked, Hook, Running
  <2>5. CASE SpawnWorker
    BY <2>5, Distinct, PlacesAreNoThreads DEF SpawnWorker, Unhooked, NoFault, Fault, Running
  <2>6. CASE Register
    BY <2>6, Distinct, PlacesAreNoThreads DEF Register
  <2>7. CASE CommitSession
    BY <2>7, Distinct, PlacesAreNoThreads DEF CommitSession
  <2>8. CASE AbortJoin
    BY <2>8, Distinct, PlacesAreNoThreads DEF AbortJoin
  <2>9. CASE SealConstruction
    BY <2>9, Distinct, PlacesAreNoThreads DEF SealConstruction, Seal, Unregister, Hook
  <2>10. CASE FinalizeConstruction
    BY <2>10, Distinct, PlacesAreNoThreads DEF FinalizeConstruction, Drained, NoFault, Fault
  <2>11. CASE LookConstruction
    BY <2>11, Distinct, PlacesAreNoThreads DEF LookConstruction
  <2>12. CASE SettleConstruction
    BY <2>12, Distinct, PlacesAreNoThreads DEF SettleConstruction, SettleStartup,
           CanFinishCancelled, Finish, CanFail, Discarded, Hook
  <2> QED BY <1>1, <2>1, <2>2, <2>3, <2>4, <2>5, <2>6, <2>7, <2>8, <2>9, <2>10, <2>11, <2>12
         DEF Construction
<1>2. CASE DropSession
  BY <1>2, Distinct, PlacesAreNoThreads DEF DropSession
<1>3. CASE WorkerRuns
  <2>1. CASE WaitForStart
    BY <2>1, Distinct, PlacesAreNoThreads DEF WaitForStart, Exits
  <2>2. CASE OpenBackend
    BY <2>2, Distinct, PlacesAreNoThreads DEF OpenBackend, NoFault, Errs, KeepState, SetFault,
           RejectProfile, Panics, Interrupted, Fault, SetState, Exits, Fail, Awake
  <2>3. CASE Opened
    BY <2>3, Distinct, PlacesAreNoThreads DEF Opened, Exits
  <2>4. CASE Loop
    BY <2>4, Distinct, PlacesAreNoThreads DEF Loop, Exits
  <2>5. CASE Read
    BY <2>5, Distinct, PlacesAreNoThreads DEF Read, NoFault, Fault, SetFault, Exits, Errs,
           KeepState, Panics, SetState, Interrupted, Fail, Awake
  <2>6. CASE PublishFrame
    BY <2>6, Distinct, PlacesAreNoThreads DEF PublishFrame, CanSucceed, KeepState, Finish,
           SetState, Discarded, Awake, Hook
  <2>7. CASE PublishFailed
    BY <2>7, Distinct, PlacesAreNoThreads DEF PublishFailed, Exits, SetFault, SetState,
           KeepState, Awake
  <2> QED BY <1>3, <2>1, <2>2, <2>3, <2>4, <2>5, <2>6, <2>7 DEF WorkerRuns
<1>4. CASE WorkerEnds
  <2>1. CASE Snap
    BY <2>1, Distinct, PlacesAreNoThreads DEF Snap
  <2>2. CASE FailAfterCleanup
    BY <2>2, Distinct, PlacesAreNoThreads DEF FailAfterCleanup, CanFail, Discarded, Hook
  <2>3. CASE CloseBackend
    BY <2>3, Distinct, PlacesAreNoThreads DEF CloseBackend, NoFault, BackendCloses, Fail
  <2>4. CASE SendExit
    BY <2>4, Distinct, PlacesAreNoThreads DEF SendExit
  <2>5. CASE CommitFailure
    BY <2>5, Distinct, PlacesAreNoThreads DEF CommitFailure
  <2>6. CASE Look
    BY <2>6, Distinct, PlacesAreNoThreads DEF Look
  <2>7. CASE SettleAfterWorker
    BY <2>7, Distinct, PlacesAreNoThreads DEF SettleAfterWorker, SettleStartup,
           CanFinishCancelled, Finish, CanFail, Discarded, Hook
  <2> QED BY <1>4, <2>1, <2>2, <2>3, <2>4, <2>5, <2>6, <2>7 DEF WorkerEnds
<1>5. CASE StartupHook
  BY <1>5, Distinct, PlacesAreNoThreads DEF StartupHook, Hook, Inside, NoFault, SetState,
         KeepState, Enter, Leave, Running, Awake, Fail
<1>6. CASE ResourceHook
  BY <1>6, Distinct, PlacesAreNoThreads DEF ResourceHook, Hook, Inside, BeginStopping, NoFault,
         Enter, Leave, Running, SetState, KeepState, Fail, Awake
<1>7. CASE CancelStartup
  BY <1>7, Distinct, PlacesAreNoThreads DEF CancelStartup, CanFail, RequestCancel,
         SelectStartupHook, Hook
<1>8. CASE RuntimeClose
  <2>1. CASE CloseAdmission
    BY <2>1, Distinct, PlacesAreNoThreads DEF CloseAdmission
  <2>2. CASE CancelRoot
    BY <2>2, Distinct, PlacesAreNoThreads DEF CancelRoot, CancelResource, SelectStartupHook,
           Hook
  <2>3. CASE CancelOperations
    BY <2>3, Distinct, PlacesAreNoThreads DEF CancelOperations, Unhooked, RequestCancel,
           Running, SelectStartupHook, Hook
  <2>4. CASE CloseResources
    BY <2>4, Distinct, PlacesAreNoThreads DEF CloseResources, Unhooked, Running
  <2>5. CASE JoinTasks
    BY <2>5, Distinct, PlacesAreNoThreads DEF JoinTasks, CanFinishCancelled, Finish, Discarded,
           Hook
  <2> QED BY <1>8, <2>1, <2>2, <2>3, <2>4, <2>5 DEF RuntimeClose
<1>9. ASSUME NEW t \in Closers, CloseStep(t) PROVE StopInv'
  <2>1. CASE EnterClose(t)
    <3>1. /\ UNCHANGED <<state, cancelled, close_result>>
          /\ \A u \in Closers \ {t} : place'[u] = place[u]
          /\ \/ place'[t] = "stop"
             \/ close_result # "none" /\ place'[t] \in {"done", "join_tasks"}
          /\ (t = User => place[t] = "session") /\ (t = Rt => place[t] = "close")
      BY <2>1, EnterCloseStep
    <3>2. close_result # "none" => state = "Closed" /\ cancelled
      BY DEF StopInv, FinalInv
    <3>3. CASE t = User
      BY <3>1, <3>2, <3>3, Distinct
    <3>4. CASE t = Rt
      BY <3>1, <3>2, <3>4, Distinct
    <3> QED BY <3>3, <3>4
  <2>2. CASE Stop(t)
    BY <2>2, Distinct, PlacesAreNoThreads DEF Stop, BeginStopping, SetState, KeepState, Awake
  <2>3. CASE CancelSession(t)
    BY <2>3, Distinct, PlacesAreNoThreads DEF CancelSession, CancelResource, Hook
  <2>4. CASE CancelOwnStartup(t)
    BY <2>4, Distinct, PlacesAreNoThreads DEF CancelOwnStartup, Unhooked, RequestCancel,
           Running, SelectStartupHook, Hook
  <2>5. CASE EnterInterrupt(t)
    BY <2>5, Distinct, PlacesAreNoThreads DEF EnterInterrupt, Unhooked, Enter, AfterStop,
           Running
  <2>6. CASE LeaveInterrupt(t)
    BY <2>6, Distinct, PlacesAreNoThreads DEF LeaveInterrupt, Leave, AfterStop, NoFault, Fail
  <2>7. CASE SealClose(t)
    BY <2>7, Distinct, PlacesAreNoThreads DEF SealClose, Seal, Unregister, Hook
  <2>8. CASE FinalizeClose(t)
    BY <2>8, Distinct, PlacesAreNoThreads DEF FinalizeClose, Drained, Consumes, Fault, NoFault,
           Fail
  <2>9. CASE CompleteClosed(t)
    BY <2>9, Distinct, PlacesAreNoThreads DEF CompleteClosed, SetState, Awake
  <2>10. CASE Unregistered(t)
    BY <2>10, Distinct, PlacesAreNoThreads DEF Unregistered, Diagnostics
  <2> QED BY <1>9, <2>1, <2>2, <2>3, <2>4, <2>5, <2>6, <2>7, <2>8, <2>9, <2>10 DEF CloseStep
<1> QED BY <1>1, <1>2, <1>3, <1>4, <1>5, <1>6, <1>7, <1>8, <1>9 DEF SessionStep


(* What SealInv says, of a step of thread t that seals nothing: it has only  *)
(* to be looked at where t goes, and who owns the backend then.              *)
LEMMA SealFrame ==
  ASSUME SealInv, Closers = {User, Rt}, User # Rt, NEW t \in Closers,
         UNCHANGED <<state, sealed, close_result, registered>>,
         \A u \in Closers \ {t} : place'[u] = place[u],
         place[t] \notin Building, place'[t] \notin Building \cup {"commit"},
         backend' = "unresolved" => sealed,
         gate' = Rt => place'[Rt] \in Closing,
         place'[t] = "finalize_close" => sealed,
         place'[t] = "join" => ~sealed,
         sealed /\ place'[User] \notin Building /\ close_result = "none" =>
           \/ backend' = "unresolved"
           \/ \E u \in Closers : gate' = u
                /\ place'[u] \in {"finalize_close", "complete", "unregister"}
  PROVE  SealInv'
<1>1. \A p \in {"register", "abort_join", "drain", "finalize", "finalize_again"} : p \in Building
  BY DEF Building
<1>2. place'[User] \in Building \cup {"commit"} => place'[User] = place[User]
  OBVIOUS
<1>3. place'[User] \notin Building => place[User] \notin Building
  OBVIOUS
<1> QED BY <1>1, <1>2, <1>3 DEF SealInv

(* While a thread is in close_inner before its join, the interrupts are      *)
(* sealed exactly where an earlier close left the backend unresolved.        *)
LEMMA CloseKeepsSeal ==
  ASSUME Inv, WaitInv, NEW t \in Closers,
         EnterClose(t) \/ EnterInterrupt(t) \/ LeaveInterrupt(t) \/ FinalizeClose(t)
  PROVE  SealInv'
<1> DEFINE Late == {"finalize_close", "complete", "unregister"}
<1>0. /\ SealInv /\ BuildInv /\ GateInv
      /\ Closers = {User, Rt} /\ User # Rt /\ Free \notin Closers
      /\ place \in [Closers -> UserPlaces \cup RtPlaces]
  BY Distinct, PlacesAreNoThreads
     DEF Inv, WaitInv, TypeOK, ThreadType, Closers, Free, PlacesAreNoThreads
<1>1. \A p : Goto(t, p) => place'[t] = p /\ \A u \in Closers \ {t} : place'[u] = place[u]
  BY <1>0 DEF Goto
<1>2. /\ "stop" \notin Building \cup {"commit"} /\ "done" \notin Building \cup {"commit"}
      /\ "join_tasks" \notin Building \cup {"commit"} /\ "session" \notin Building \cup {"commit"}
      /\ "join" \notin Building \cup {"commit"} /\ "calling" \notin Building \cup {"commit"}
      /\ "interrupt" \notin Building /\ "close" \notin Building
      /\ \A p \in Late : p \notin Building \cup {"commit"}
  BY DEF Building
<1>3. /\ {"stop", "interrupt", "calling", "join"} \cup Late \subseteq Closing
      /\ {"join"} \cup Late \subseteq Gated
  BY DEF Closing, Gated
<1>4. gate = Rt => place[Rt] \in Closing
  BY <1>0 DEF SealInv
<1>5. sealed /\ place[User] \notin Building /\ close_result = "none" =>
        backend = "unresolved" \/ \E u \in Closers : gate = u /\ place[u] \in Late
  BY <1>0 DEF SealInv
<1>6. backend = "unresolved" => sealed
  BY <1>0 DEF SealInv
<1>7. CASE EnterClose(t)
  <2>1. /\ gate = Free /\ UNCHANGED <<state, sealed, close_result, registered, backend>>
        /\ place[t] \in {"session", "close"}
        /\ \A u \in Closers \ {t} : place'[u] = place[u]
    BY <1>0, <1>7, EnterCloseStep DEF sharedVars, interruptVars, runtimeVars
  <2>2. \/ gate' = t /\ place'[t] = "stop"
        \/ close_result # "none" /\ gate' = gate /\ place'[t] \in {"done", "join_tasks"}
    BY <1>7, EnterCloseStep
  <2>3. sealed /\ place'[User] \notin Building /\ close_result = "none" => backend' = "unresolved"
    BY <1>0, <1>2, <1>5, <2>1
  <2> QED BY <1>0, <1>2, <1>3, <1>6, <2>1, <2>2, <2>3, SealFrame
<1>8. CASE EnterInterrupt(t) \/ LeaveInterrupt(t)
  <2>1. /\ UNCHANGED <<state, sealed, close_result, registered, backend, gate>>
        /\ place[t] \in {"interrupt", "calling"}
        /\ Goto(t, AfterStop(t)) \/ Goto(t, "calling")
    BY <1>8 DEF EnterInterrupt, LeaveInterrupt, sharedVars, closeVars, runtimeVars
  <2>2. \A u \in Closers \ {t} : place'[u] = place[u]
    BY <1>1, <2>1
  <2>3. \/ place'[t] = "calling"
        \/ place'[t] = "done" /\ gate # t
        \/ place'[t] = "finalize_close" /\ backend = "unresolved"
        \/ place'[t] = "join" /\ backend # "unresolved" /\ gate = t
    BY <1>1, <2>1 DEF AfterStop
  <2>4. place[User] \notin Building \/ t = User
    BY <1>0, <1>3, <2>1 DEF BuildInv
  <2>5. place[User] \notin Building
    BY <1>2, <2>1, <2>4
  <2>6. place[t] \notin Late
    BY <2>1
  <2>7. ASSUME place'[t] = "join" PROVE ~sealed
    <3>1. gate = t /\ backend # "unresolved" /\ close_result = "none"
      BY <1>0, <2>3, <2>7 DEF GateInv
    <3> QED BY <1>5, <2>5, <2>6, <3>1
  <2>8. gate' = Rt => place'[Rt] \in Closing
    <3>1. CASE t = Rt
      BY <1>3, <2>1, <2>3, <3>1
    <3>2. CASE t = User
      BY <1>0, <1>4, <2>1, <2>2, <3>2
    <3> QED BY <1>0, <3>1, <3>2
  <2>9. sealed /\ close_result = "none" =>
          backend' = "unresolved" \/ \E u \in Closers : gate' = u /\ place'[u] \in Late
    <3>1. ASSUME NEW u \in Closers, place[u] \in Late PROVE place'[u] = place[u]
      BY <2>2, <2>6, <3>1
    <3> QED BY <1>5, <2>1, <2>5, <3>1
  <2>10. place[t] \notin Building /\ place'[t] \notin Building \cup {"commit"}
    BY <1>2, <2>1, <2>3
  <2>11. place'[t] = "finalize_close" => sealed
    BY <1>6, <2>3
  <2> QED BY <1>0, <1>6, <2>1, <2>2, <2>7, <2>8, <2>9, <2>10, <2>11, SealFrame
<1>9. CASE FinalizeClose(t)
  <2>1. /\ UNCHANGED <<state, sealed, close_result, registered>>
        /\ place[t] = "finalize_close" /\ sealed
        /\ \/ gate' = gate /\ Goto(t, "complete")
           \/ /\ backend' = "unresolved" /\ gate' = Free
              /\ Goto(t, IF t = User THEN "session" ELSE "join_tasks")
    BY <1>9 DEF FinalizeClose, Drained, sharedVars, interruptVars, closeVars, runtimeVars
  <2>2. gate = t
    BY <1>0, <1>3, <2>1 DEF GateInv
  <2>3. /\ \A u \in Closers \ {t} : place'[u] = place[u]
        /\ place'[t] \in {"complete", "session", "join_tasks"}
        /\ \/ gate' = t /\ place'[t] = "complete"
           \/ backend' = "unresolved" /\ gate' = Free
    BY <1>1, <2>1, <2>2
  <2>4. gate' = Rt => place'[Rt] \in Closing
    BY <1>0, <1>3, <2>3
  <2>5. place[t] \notin Building /\ place'[t] \notin Building \cup {"commit"}
    BY <1>2, <2>1, <2>3
  <2> QED BY <1>0, <2>1, <2>3, <2>4, <2>5, SealFrame
<1> QED BY <1>7, <1>8, <1>9

(* Only a closing thread at its join, or a failed construction, seals.      *)
LEMMA SealInvNext == ASSUME Inv, WaitInv, SessionStep PROVE SealInv'
<1> USE DEF PlacesAreNoThreads, Inv, WaitInv, TypeOK, ThreadType, UserPlaces, RtPlaces, Building,
          Closing, Closers, SealInv, BuildInv, FinalInv, GateInv, StartupInv, Gated,
          Free, Unspawned
<1> USE DEF closeVars, hookVars, interruptVars, readerFrame, readerVars, runtimeVars,
          sharedVars, startupVars, workerFrame, workerVars, Goto, Step, Constructing, At
<1>1. CASE Construction
  <2>1. CASE Create
    BY <2>1, Distinct, PlacesAreNoThreads DEF Create
  <2>2. CASE StartStartup
    BY <2>2, Distinct, PlacesAreNoThreads DEF StartStartup
  <2>3. CASE InstallStartupHook
    BY <2>3, Distinct, PlacesAreNoThreads DEF InstallStartupHook, Hook, Settled, Terminal
  <2>4. CASE InstallResourceHook
    BY <2>4, Distinct, PlacesAreNoThreads DEF InstallResourceHook, Unhooked, Hook, Running
  <2>5. CASE SpawnWorker
    BY <2>5, Distinct, PlacesAreNoThreads DEF SpawnWorker, Unhooked, NoFault, Fault, Running
  <2>6. CASE Register
    BY <2>6, Distinct, PlacesAreNoThreads DEF Register
  <2>7. CASE CommitSession
    BY <2>7, Distinct, PlacesAreNoThreads DEF CommitSession
  <2>8. CASE AbortJoin
    BY <2>8, Distinct, PlacesAreNoThreads DEF AbortJoin
  <2>9. CASE SealConstruction
    BY <2>9, Distinct, PlacesAreNoThreads DEF SealConstruction, Seal, Unregister, Hook
  <2>10. CASE FinalizeConstruction
    BY <2>10, Distinct, PlacesAreNoThreads DEF FinalizeConstruction, Drained, NoFault, Fault
  <2>11. CASE LookConstruction
    BY <2>11, Distinct, PlacesAreNoThreads DEF LookConstruction
  <2>12. CASE SettleConstruction
    BY <2>12, Distinct, PlacesAreNoThreads DEF SettleConstruction, SettleStartup,
           CanFinishCancelled, Finish, CanFail, Discarded, Hook
  <2> QED BY <1>1, <2>1, <2>2, <2>3, <2>4, <2>5, <2>6, <2>7, <2>8, <2>9, <2>10, <2>11, <2>12
         DEF Construction
<1>2. CASE DropSession
  BY <1>2, Distinct, PlacesAreNoThreads DEF DropSession
<1>3. CASE WorkerRuns
  <2>1. CASE WaitForStart
    BY <2>1, Distinct, PlacesAreNoThreads DEF WaitForStart, Exits
  <2>2. CASE OpenBackend
    BY <2>2, Distinct, PlacesAreNoThreads DEF OpenBackend, NoFault, Errs, KeepState, SetFault,
           RejectProfile, Panics, Interrupted, Fault, SetState, Exits, Fail, Awake
  <2>3. CASE Opened
    BY <2>3, Distinct, PlacesAreNoThreads DEF Opened, Exits
  <2>4. CASE Loop
    BY <2>4, Distinct, PlacesAreNoThreads DEF Loop, Exits
  <2>5. CASE Read
    BY <2>5, Distinct, PlacesAreNoThreads DEF Read, NoFault, Fault, SetFault, Exits, Errs,
           KeepState, Panics, SetState, Interrupted, Fail, Awake
  <2>6. CASE PublishFrame
    BY <2>6, Distinct, PlacesAreNoThreads DEF PublishFrame, CanSucceed, KeepState, Finish,
           SetState, Discarded, Awake, Hook
  <2>7. CASE PublishFailed
    BY <2>7, Distinct, PlacesAreNoThreads DEF PublishFailed, Exits, SetFault, SetState,
           KeepState, Awake
  <2> QED BY <1>3, <2>1, <2>2, <2>3, <2>4, <2>5, <2>6, <2>7 DEF WorkerRuns
<1>4. CASE WorkerEnds
  <2>1. CASE Snap
    BY <2>1, Distinct, PlacesAreNoThreads DEF Snap
  <2>2. CASE FailAfterCleanup
    BY <2>2, Distinct, PlacesAreNoThreads DEF FailAfterCleanup, CanFail, Discarded, Hook
  <2>3. CASE CloseBackend
    BY <2>3, Distinct, PlacesAreNoThreads DEF CloseBackend, NoFault, BackendCloses, Fail
  <2>4. CASE SendExit
    BY <2>4, Distinct, PlacesAreNoThreads DEF SendExit
  <2>5. CASE CommitFailure
    BY <2>5, Distinct, PlacesAreNoThreads DEF CommitFailure
  <2>6. CASE Look
    BY <2>6, Distinct, PlacesAreNoThreads DEF Look
  <2>7. CASE SettleAfterWorker
    BY <2>7, Distinct, PlacesAreNoThreads DEF SettleAfterWorker, SettleStartup,
           CanFinishCancelled, Finish, CanFail, Discarded, Hook
  <2> QED BY <1>4, <2>1, <2>2, <2>3, <2>4, <2>5, <2>6, <2>7 DEF WorkerEnds
<1>5. CASE StartupHook
  BY <1>5, Distinct, PlacesAreNoThreads DEF StartupHook, Hook, Inside, NoFault, SetState,
         KeepState, Enter, Leave, Running, Awake, Fail
<1>6. CASE ResourceHook
  BY <1>6, Distinct, PlacesAreNoThreads DEF ResourceHook, Hook, Inside, BeginStopping, NoFault,
         Enter, Leave, Running, SetState, KeepState, Fail, Awake
<1>7. CASE CancelStartup
  BY <1>7, Distinct, PlacesAreNoThreads DEF CancelStartup, CanFail, RequestCancel,
         SelectStartupHook, Hook
<1>8. CASE RuntimeClose
  <2>1. CASE CloseAdmission
    BY <2>1, Distinct, PlacesAreNoThreads DEF CloseAdmission
  <2>2. CASE CancelRoot
    BY <2>2, Distinct, PlacesAreNoThreads DEF CancelRoot, CancelResource, SelectStartupHook,
           Hook
  <2>3. CASE CancelOperations
    BY <2>3, Distinct, PlacesAreNoThreads DEF CancelOperations, Unhooked, RequestCancel,
           Running, SelectStartupHook, Hook
  <2>4. CASE CloseResources
    BY <2>4, Distinct, PlacesAreNoThreads DEF CloseResources, Unhooked, Running
  <2>5. CASE JoinTasks
    BY <2>5, Distinct, PlacesAreNoThreads DEF JoinTasks, CanFinishCancelled, Finish, Discarded,
           Hook
  <2> QED BY <1>8, <2>1, <2>2, <2>3, <2>4, <2>5 DEF RuntimeClose
<1>9. ASSUME NEW t \in Closers, CloseStep(t) PROVE SealInv'
  <2>1. CASE EnterClose(t)
    BY <2>1, CloseKeepsSeal
  <2>2. CASE Stop(t)
    BY <2>2, Distinct, PlacesAreNoThreads DEF Stop, BeginStopping, SetState, KeepState, Awake
  <2>3. CASE CancelSession(t)
    BY <2>3, Distinct, PlacesAreNoThreads DEF CancelSession, CancelResource, Hook
  <2>4. CASE CancelOwnStartup(t)
    BY <2>4, Distinct, PlacesAreNoThreads DEF CancelOwnStartup, Unhooked, RequestCancel,
           Running, SelectStartupHook, Hook
  <2>5. CASE EnterInterrupt(t)
    BY <2>5, CloseKeepsSeal
  <2>6. CASE LeaveInterrupt(t)
    BY <2>6, CloseKeepsSeal
  <2>7. CASE SealClose(t)
    BY <2>7, Distinct, PlacesAreNoThreads DEF SealClose, Seal, Unregister, Hook
  <2>8. CASE FinalizeClose(t)
    BY <2>8, CloseKeepsSeal
  <2>9. CASE CompleteClosed(t)
    BY <2>9, Distinct, PlacesAreNoThreads DEF CompleteClosed, SetState, Awake
  <2>10. CASE Unregistered(t)
    BY <2>10, Distinct, PlacesAreNoThreads DEF Unregistered, Diagnostics
  <2> QED BY <1>9, <2>1, <2>2, <2>3, <2>4, <2>5, <2>6, <2>7, <2>8, <2>9, <2>10 DEF CloseStep
<1> QED BY <1>1, <1>2, <1>3, <1>4, <1>5, <1>6, <1>7, <1>8, <1>9 DEF SessionStep


(* At the start nobody waits.                                                *)
LEMMA InitWaits == Init => WaitInv
<1> SUFFICES ASSUME Init PROVE WaitInv
  OBVIOUS
<1>1. ReaderInv
  BY DEF Init, ReaderInv
<1>2. place[User] = "create" /\ place[Rt] = "idle" /\ gate # Rt /\ backend # "unresolved"
  BY Distinct, PlacesAreNoThreads DEF Init, Closers, Free, PlacesAreNoThreads
<1>3. StartInv /\ StopInv
  BY <1>2 DEF Init, StartInv, StopInv, Building, Unspawned, Started, Stopped, Told, Closing
<1>4. SealInv
  BY <1>2 DEF Init, SealInv, Building, Closers
<1> QED BY <1>1, <1>3, <1>4 DEF WaitInv

(* Everybody who waits in a capture session waits for somebody who will come *)
(* to end it: the reader for the state, the worker for the start signal, a   *)
(* closing thread for the worker, which has been told to stop.               *)
THEOREM WaitersHaveReasons == Spec => []WaitInv
<1>1. ASSUME Inv, WaitInv, [Next]_vars PROVE WaitInv'
  <2>1. CASE SessionStep
    BY <1>1, <2>1, ReaderInvNext, StartInvNext, StopInvNext, SealInvNext DEF WaitInv
  <2>2. ASSUME NEW r \in Readers, BeginSnapshot(r) \/ CancelSnapshot(r) \/ Snapshot(r)
        PROVE  WaitInv'
    BY <1>1, <2>2, SnapshotsKeepWaits
  <2>3. CASE UNCHANGED vars
    <3> USE DEF vars, runtimeVars, startupVars, sharedVars, hookVars, interruptVars, workerVars,
              closeVars, readerVars
    <3>1. ReaderInv' /\ StartInv'
      BY <1>1, <2>3 DEF WaitInv, ReaderInv, StartInv
    <3>2. StopInv' /\ SealInv'
      BY <1>1, <2>3 DEF WaitInv, StopInv, SealInv
    <3> QED BY <3>1, <3>2 DEF WaitInv
  <2> QED BY <1>1, <2>1, <2>2, <2>3 DEF Next, SessionStep
<1> QED BY <1>1, InitWaits, Invariance, PTL DEF Spec

(* What a state in which nobody moves looks like, step by step: the state    *)
(* mutex is free, no hook is under way, nobody is inside an interrupt call,  *)
(* and the worker is over unless it reads without having been told to stop.  *)
LEMMA NobodyInside ==
  ASSUME Inv, WaitInv, ~SomebodyMoves
  PROVE  /\ ~locked /\ active = 0
         /\ ~Running(startup_hook) /\ ~Running(resource_hook)
         /\ worker \in {"unborn", "exited"} \/ (worker = "read" /\ ~cancelled)
<1>0. TypeOK /\ ReaderInv /\ StartInv
  BY DEF Inv, WaitInv
<1>1. ~locked
  BY <1>0 DEF SomebodyMoves, ReaderMoves, ReaderInv
<1>2. ~HookMoves(startup_hook, resource_hook) /\ ~HookMoves(resource_hook, startup_hook)
  BY DEF SomebodyMoves
<1>3. /\ startup_hook.at \in {"unregistered", "armed", "over", "selected"}
      /\ resource_hook.at \in {"unregistered", "armed", "over", "selected"}
  BY <1>0, <1>1, <1>2 DEF HookMoves, TypeOK, HookType
<1>4. \A h, t : h.at \in {"unregistered", "armed", "over", "selected"} => ~Inside(h, t)
  BY DEF Inside, Running
<1>5. startup_hook.at # "selected" /\ resource_hook.at # "selected"
  BY <1>1, <1>2, <1>3, <1>4 DEF HookMoves
<1>6. ~Running(startup_hook) /\ ~Running(resource_hook)
  BY <1>3, <1>5 DEF Running
<1>7. place[User] # "calling" /\ place[Rt] # "calling"
  BY DEF SomebodyMoves, CloserMoves, Closers
<1>8. active = 0
  BY <1>3, <1>7 DEF Inv, CallsInv, One
<1>9. worker \in {"unborn", "exited"} \/ (worker = "read" /\ ~cancelled)
  <2>1. worker \in WorkerPlaces /\ ~WorkerMoves
    BY <1>0 DEF TypeOK, ThreadType, SomebodyMoves
  <2>2. worker # "start"
    <3> SUFFICES ASSUME worker = "start" PROVE FALSE
      OBVIOUS
    <3>1. start = "Pending"
      BY <2>1 DEF WorkerMoves
    <3>2. place[User] \in {"register", "commit"}
      BY <1>0, <3>1 DEF StartInv
    <3> QED BY <3>2 DEF SomebodyMoves, UserMoves
  <2> QED BY <1>1, <2>1, <2>2 DEF WorkerMoves, WorkerPlaces, Interrupted
<1> QED BY <1>1, <1>6, <1>8, <1>9

(* A thread that closes goes on in every place but one where it waits for    *)
(* the worker, and that worker is over.                                      *)
LEMMA ClosersGoOn ==
  ASSUME Inv, WaitInv, ~SomebodyMoves, NEW t \in Closers
  PROVE  place[t] \notin Closing
<1> SUFFICES ASSUME place[t] \in Closing PROVE FALSE
  OBVIOUS
<1>0. /\ ~locked /\ active = 0 /\ Unhooked(t) /\ ~CloserMoves(t)
      /\ worker \in {"unborn", "exited"} \/ (worker = "read" /\ ~cancelled)
  BY NobodyInside DEF Unhooked, SomebodyMoves
<1>1. SealInv /\ StopInv /\ BuildInv /\ Closers = {User, Rt}
  BY DEF Inv, WaitInv, Closers
<1>2. place[t] \in {"join", "finalize_close"}
  BY <1>0 DEF CloserMoves, Closing
<1>3. place[t] # "finalize_close"
  BY <1>0, <1>1 DEF CloserMoves, SealInv, Drained
<1>4. place[t] = "join" /\ ~sealed /\ worker # "exited"
  BY <1>0, <1>1, <1>2, <1>3 DEF CloserMoves, SealInv
<1>5. cancelled
  BY <1>1, <1>4 DEF StopInv, Told, Stopped, Closing
<1>6. worker # "unborn"
  BY <1>1, <1>4 DEF BuildInv, Building, Closing
<1> QED BY <1>0, <1>4, <1>5, <1>6

(* However construction, close, drop, faults, cancellations, snapshots and   *)
(* Runtime::close interleave, nobody is left behind: a close has come to its *)
(* end, the worker too once it was told, and no snapshot sleeps on.          *)
THEOREM NobodyIsLeft == Spec => []NobodyIsStuck
<1>1. ASSUME Inv, WaitInv, ~SomebodyMoves
      PROVE  /\ place[User] \in {"session", "done", "failed"} /\ place[Rt] \in {"idle", "done"}
             /\ ~Running(startup_hook) /\ ~Running(resource_hook)
             /\ place[User] # "session" \/ place[Rt] = "done" =>
                  /\ worker \in {"unborn", "exited"}
                  /\ \A r \in Readers : reader[r] \in {"idle", "returned"}
  <2>0. /\ TypeOK /\ BuildInv /\ GateInv /\ FinalInv
        /\ ReaderInv /\ StartInv /\ StopInv /\ SealInv /\ Closers = {User, Rt}
    BY <1>1 DEF Inv, WaitInv, Closers
  <2>1. /\ ~locked /\ active = 0 /\ Unhooked(User) /\ Unhooked(Rt)
        /\ ~Running(startup_hook) /\ ~Running(resource_hook)
        /\ worker \in {"unborn", "exited"} \/ (worker = "read" /\ ~cancelled)
    BY <1>1, NobodyInside DEF Unhooked
  <2>2. place[User] \notin Closing /\ place[Rt] \notin Closing
    BY <1>1, <2>0, ClosersGoOn
  <2>3. place[User] \in {"session", "done", "failed"}
    <3>1. ~UserMoves
      BY <1>1 DEF SomebodyMoves
    <3>2. place[User] \in {"session", "done", "failed", "commit"} \cup Building
      BY <2>0, <2>2 DEF TypeOK, ThreadType, UserPlaces
    <3>3. place[User] # "abort_join"
      BY <2>0, <2>1, <3>1 DEF UserMoves, StartInv, BuildInv, Started
    <3>4. place[User] \notin {"drain", "finalize", "finalize_again"}
      BY <2>0, <2>1, <3>1 DEF UserMoves, SealInv, Drained
    <3> QED BY <2>1, <3>1, <3>2, <3>3, <3>4 DEF UserMoves, Building
  <2>4. place[Rt] \in {"idle", "done"}
    <3>1. ~RuntimeMoves /\ ~CloserMoves(Rt)
      BY <1>1, <2>0 DEF SomebodyMoves
    <3>2. place[Rt] # "close"
      <4>1. gate # User
        BY <2>0, <2>2, <2>3 DEF GateInv
      <4>2. gate # Rt
        BY <2>0, <2>2 DEF SealInv
      <4> QED BY <2>0, <3>1, <4>1, <4>2 DEF CloserMoves, TypeOK, ThreadType
    <3>3. place[Rt] # "join_tasks"
      BY <2>0, <2>1, <3>1 DEF RuntimeMoves, StopInv
    <3> QED BY <2>0, <2>1, <2>2, <3>1, <3>2, <3>3 DEF RuntimeMoves, TypeOK, ThreadType, RtPlaces
  <2>5. ASSUME place[User] # "session" \/ place[Rt] = "done"
        PROVE  worker \in {"unborn", "exited"}
    <3>1. CASE place[User] = "failed"
      BY <2>0, <3>1 DEF BuildInv, FinalInv
    <3>2. CASE place[User] = "done" \/ place[Rt] = "done"
      BY <2>0, <2>1, <3>2 DEF StopInv
    <3> QED BY <2>3, <2>5, <3>1, <3>2
  <2>6. ASSUME place[User] # "session" \/ place[Rt] = "done", NEW r \in Readers
        PROVE  reader[r] \in {"idle", "returned"}
    <3>1. reader[r] \in {"idle", "asleep", "returned"}
      <4>1. ~ReaderMoves(r)
        BY <1>1 DEF SomebodyMoves
      <4> QED BY <2>0, <2>1, <4>1 DEF ReaderMoves, TypeOK, SharedType
    <3>2. ASSUME reader[r] = "asleep" PROVE FALSE
      <4>1. state = "Opening" /\ place[User] \notin Building
        BY <2>0, <3>2 DEF ReaderInv
      <4>2. place[User] # "failed"
        BY <4>1 DEF Building
      <4> QED BY <2>0, <2>3, <2>6, <4>1, <4>2 DEF StopInv
    <3> QED BY <3>1, <3>2
  <2> QED BY <2>1, <2>3, <2>4, <2>5, <2>6
<1>2. Inv /\ WaitInv => NobodyIsStuck
  BY <1>1 DEF NobodyIsStuck
<1> QED BY <1>2, Invariance, WaitersHaveReasons, PTL

=============================================================================
