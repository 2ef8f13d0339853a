---------------------------- MODULE RuntimeClose ----------------------------
(***************************************************************************)
(* Deterministic close of a Runtime (runtime.rs) over the operations of    *)
(* Operation.tla, its supervised tasks and its resources.  One action is   *)
(* one critical section of the Runtime's state, task, failure or operation *)
(* locks, or one step of the close thread between two of them; user        *)
(* threads, task bodies and explicit joins run in between.                 *)
(*                                                                         *)
(* Operation o may get one owner task, spawned by spawn_operation_owner    *)
(* and named o as well.  Close visits operations, resources and tasks in   *)
(* an arbitrary order where the code sorts by id.                          *)
(***************************************************************************)
EXTENDS Operation, TLC

CONSTANTS Resources, \* resources a caller may register
          Closers,   \* threads outside the Runtime that call close
          Joiners    \* threads that call SupervisedTask::join

(* No operation or thread is named like the markers for nothing at all and
   for the close thread.                                                   *)
ASSUME MarkersAreNoNames ==
  "none" \notin Ops \cup Joiners /\ "close" \notin Joiners

VARIABLES
  runtimeState, \* RuntimeInner.state
  outcome,      \* close_outcome: none, Closed or the phase of the failure
  closer,       \* callers of close: idle, waiting, owner or returned
  close,        \* the close thread: its step, first failure, what is left
  created,      \* operations created so far
  task,         \* owner tasks: body, join handle, registry entry, join gate
  joining,      \* threads inside join_supervised_task: which task, which step
  taskFailures, \* RuntimeInner.task_failures
  resource,     \* resources: registered or not, its strong reference dropped
  worker,       \* the deadline worker task
  events,       \* Runtime events published: closing and the final one
  lost          \* history: operations close reported ownership lost for

closeVars == <<runtimeState, outcome, closer, close, created, task, joining,
               taskFailures, resource, worker, events, lost>>
vars == <<operationVars, closeVars>>

Phases   == {"Start", "ResourceCleanup", "TaskJoin", "OperationFinalization",
             "InternalTaskJoin", "RegistryConvergence", "FinalEvent"}
Threads  == Joiners \cup {"close"}
Idle     == [task |-> "none", pc |-> "idle"]
NoTask   == [body |-> "absent", handle |-> "Missing", linked |-> FALSE,
             gate |-> "none"]
NewClose == [pc |-> "idle", first |-> "none", todo |-> {}, ops |-> {},
             op |-> "none"]

(* The registries counts_recover counts. *)
LiveOperations == {o \in created : linked[o]}
LiveTasks      == {t \in Ops : task[t].linked}
LiveResources  == {r \in Resources : resource[r] \in {"registered", "stale"}}

CloseInit ==
  /\ Init
  /\ runtimeState = "Active"
  /\ outcome = "none"
  /\ closer = [c \in Closers |-> "idle"]
  /\ close = NewClose
  /\ created = {}
  /\ task = [t \in Ops |-> NoTask]
  /\ joining = [h \in Threads |-> Idle]
  /\ taskFailures = {}
  /\ resource = [r \in Resources |-> "absent"]
  /\ worker = "running"
  /\ events = << >>
  /\ lost = {}

-----------------------------------------------------------------------------
(* Mutation of Admitted: only a finished close refuses. *)
AdmittedWhileClosing == runtimeState \in {"Active", "Closing"}

(* Admission holds the state lock from ensure_active to the registry insert. *)
Admitted == runtimeState = "Active"

CreateOperation(o) ==
  /\ Admitted
  /\ o \notin created
  /\ created' = created \cup {o}
  /\ UNCHANGED <<operationVars, runtimeState, outcome, closer, close, task,
                 joining, taskFailures, resource, worker, events, lost>>

(* spawn_operation_owner, and spawn_supervised for a legacy operation *)
SpawnTask(o) ==
  /\ Admitted
  /\ o \in created
  /\ task[o] = NoTask
  /\ IF Owned(o) THEN BindOwnerTask(o) ELSE UNCHANGED operationVars
  /\ task' = [task EXCEPT ![o] = [body |-> "running", handle |-> "Retained",
                                  linked |-> TRUE, gate |-> "none"]]
  /\ UNCHANGED <<runtimeState, outcome, closer, close, created, joining,
                 taskFailures, resource, worker, events, lost>>

RegisterResource(r) ==
  /\ Admitted
  /\ resource[r] = "absent"
  /\ resource' = [resource EXCEPT ![r] = "registered"]
  /\ UNCHANGED <<operationVars, runtimeState, outcome, closer, close, created,
                 task, joining, taskFailures, worker, events, lost>>

(* ResourceRegistration::unregister, or its Drop *)
UnregisterResource(r) ==
  /\ resource[r] \in {"registered", "stale"}
  /\ resource' = [resource EXCEPT ![r] = "gone"]
  /\ UNCHANGED <<operationVars, runtimeState, outcome, closer, close, created,
                 task, joining, taskFailures, worker, events, lost>>

(* The resource is dropped while its registration is kept. *)
DropResource(r) ==
  /\ resource[r] = "registered"
  /\ resource' = [resource EXCEPT ![r] = "stale"]
  /\ UNCHANGED <<operationVars, runtimeState, outcome, closer, close, created,
                 task, joining, taskFailures, worker, events, lost>>

(* The supervised wrapper: the body's outcome, then its completion. *)
CompleteBody(t, result) ==
  /\ task[t].body = "running"
  /\ task' = [task EXCEPT ![t].body = result]
  /\ UNCHANGED <<operationVars, runtimeState, outcome, closer, close, created,
                 joining, taskFailures, resource, worker, events, lost>>

(* A waker or a clock panics on the deadline worker. *)
WorkerPanics ==
  /\ worker = "running"
  /\ worker' = "panicked"
  /\ UNCHANGED <<operationVars, runtimeState, outcome, closer, close, created,
                 task, joining, taskFailures, resource, events, lost>>

(* What any thread or task body may do to an operation that exists, as far
   as close can tell: one reason of cancellation, cleanups that succeed.    *)
UseOperation(o) ==
  /\ o \in created
  /\ \/ Start(o)
     \/ RequestCancel(o, "ParentClose")
     \/ \E c \in Candidate : FinishLegacy(o, c)
     \/ \E e \in Evidence, c \in Candidate :
          Claim(o, e, c) \/ Reclaim(o, e, c) \/ RecordForHandoff(o, e, c)
     \/ FinishClaimed(o, "ok")
     \/ AbandonClaimed(o)
  /\ UNCHANGED closeVars

(* The thread inside the terminal transaction of o goes on. *)
FinishOperation(o) ==
  /\ \/ ShowClaimedCancellation(o)
     \/ AnnounceClaimedCancellation(o)
     \/ RunCleanup(o, "ok")
     \/ CleanupSettled(o, "ok")
     \/ Commit(o)
     \/ PublishTerminal(o)
     \/ Unlink(o)
     \/ Notify(o)
  /\ UNCHANGED closeVars

-----------------------------------------------------------------------------
(* Mutation of JoinStart: there is no join gate. *)
JoinUngated(h, t) ==
  /\ joining[h] = Idle
  /\ task[t].handle # "Missing"
  /\ task' = [task EXCEPT ![t].gate = h]
  /\ joining' = [joining EXCEPT ![h] = [task |-> t, pc |-> "wait"]]

(* join_supervised_task, called by h: one caller of a task at a time passes
   the join gate and keeps it to the end.                                  *)
JoinStart(h, t) ==
  /\ joining[h] = Idle
  /\ task[t].handle # "Missing" /\ task[t].gate = "none"
  /\ task' = [task EXCEPT ![t].gate = h]
  /\ joining' = [joining EXCEPT ![h] = [task |-> t, pc |-> "wait"]]

(* The body is over; a task no longer registered was joined before. *)
JoinClaim(h) ==
  LET t == joining[h].task IN
  /\ joining[h].pc = "wait"
  /\ task[t].body \in {"Completed", "Panicked"}
  /\ IF task[t].linked
     THEN /\ task' = [task EXCEPT ![t].handle = "Joining"]
          /\ joining' = [joining EXCEPT ![h].pc = "thread"]
     ELSE /\ task' = [task EXCEPT ![t].gate = "none"]
          /\ joining' = [joining EXCEPT ![h] = Idle]
  /\ UNCHANGED <<operationVars, runtimeState, outcome, closer, close, created,
                 taskFailures, resource, worker, events, lost>>

(* Mutation of JoinThread: the panic is only known to the joining caller. *)
JoinThreadForget(h) ==
  LET t == joining[h].task IN
  /\ joining[h].pc = "thread"
  /\ task' = [task EXCEPT ![t].handle = "Joined"]
  /\ joining' = [joining EXCEPT ![h].pc = "unlink"]
  /\ UNCHANGED <<operationVars, runtimeState, outcome, closer, close, created,
                 taskFailures, resource, worker, events, lost>>

(* The OS thread is joined and a panic recorded before the unlink. *)
JoinThread(h) ==
  LET t == joining[h].task IN
  /\ joining[h].pc = "thread"
  /\ task' = [task EXCEPT ![t].handle = "Joined"]
  /\ taskFailures' = IF task[t].body = "Panicked" THEN taskFailures \cup {t}
                                                  ELSE taskFailures
  /\ joining' = [joining EXCEPT ![h].pc = "unlink"]
  /\ UNCHANGED <<operationVars, runtimeState, outcome, closer, close, created,
                 resource, worker, events, lost>>

(* The task leaves the registry, and the tasks lock is released. *)
JoinUnlink(h) ==
  LET t == joining[h].task IN
  /\ joining[h].pc = "unlink"
  /\ task' = [task EXCEPT ![t].linked = FALSE]
  /\ joining' = [joining EXCEPT ![h].pc = "mark"]
  /\ UNCHANGED <<operationVars, runtimeState, outcome, closer, close, created,
                 taskFailures, resource, worker, events, lost>>

(* mark_operation_owner_task_joined, then the join gate opens *)
JoinMark(h) ==
  LET t == joining[h].task IN
  /\ joining[h].pc = "mark"
  /\ IF t \in LiveOperations /\ ownerTask[t] THEN MarkOwnerTaskJoined(t)
                                            ELSE UNCHANGED operationVars
  /\ task' = [task EXCEPT ![t].gate = "none"]
  /\ joining' = [joining EXCEPT ![h] = Idle]
  /\ UNCHANGED <<runtimeState, outcome, closer, close, created, taskFailures,
                 resource, worker, events, lost>>

JoinStep(h) == JoinClaim(h) \/ JoinThread(h) \/ JoinUnlink(h) \/ JoinMark(h)

(* SupervisedTask::join by a user thread *)
ExplicitJoin(h, t) ==
  /\ JoinStart(h, t)
  /\ UNCHANGED <<operationVars, runtimeState, outcome, closer, close, created,
                 taskFailures, resource, worker, events, lost>>
-----------------------------------------------------------------------------
(* close_impl under the state lock: become the close thread, wait for it, or
   return what it saved.                                                   *)
CallClose(c) ==
  /\ closer[c] = "idle"
  /\ \/ /\ runtimeState \in {"Active", "Closing"} /\ close.pc = "idle"
        /\ runtimeState' = "Closing"
        /\ closer' = [closer EXCEPT ![c] = "owner"]
        /\ close' = [close EXCEPT !.pc = "announce"]
     \/ /\ runtimeState = "Closing" /\ close.pc # "idle"
        /\ closer' = [closer EXCEPT ![c] = "waiting"]
        /\ UNCHANGED <<runtimeState, close>>
     \/ /\ runtimeState \in {"Closed", "CloseFailed"}
        /\ closer' = [closer EXCEPT ![c] = "returned"]
        /\ UNCHANGED <<runtimeState, close>>
  /\ UNCHANGED <<operationVars, outcome, created, task, joining, taskFailures,
                 resource, worker, events, lost>>

(* Drop of the last owning handle: admission ends, nothing else is promised;
   the cancellation it asks for is among what UseOperation allows.         *)
DropLastHandle ==
  /\ runtimeState = "Active"
  /\ runtimeState' = "Closing"
  /\ UNCHANGED <<operationVars, outcome, closer, close, created, task, joining,
                 taskFailures, resource, worker, events, lost>>

(* The first failure is the one close reports. *)
FailWith(phase) == IF close.first = "none" THEN phase ELSE close.first

(* The closing event; the clock it reads may panic. *)
Announce(ok) ==
  /\ close.pc = "announce"
  /\ events' = IF ok THEN Append(events, "closing") ELSE events
  /\ close' = [close EXCEPT !.pc = "cancel",
                            !.first = IF ok THEN "none" ELSE "Start"]
  /\ UNCHANGED <<operationVars, runtimeState, outcome, closer, created, task,
                 joining, taskFailures, resource, worker, lost>>

(* root_cancellation.cancel(): every operation hangs off the root token. Its
   hooks ask for what RequestParentClose asks for again.                   *)
CancelRoot ==
  /\ close.pc = "cancel"
  /\ token' = [o \in Ops |-> IF o \in created /\ token[o].active
                             THEN [token[o] EXCEPT !.cancelled = TRUE]
                             ELSE token[o]]
  /\ close' = [close EXCEPT !.pc = "operations"]
  /\ UNCHANGED <<state, reason, terminalInProgress, arbiter, ownerTask, record,
                 claimed, callbacks, txn, published, linked, waiter,
                 runtimeState, outcome, closer, created, task, joining,
                 taskFailures, resource, worker, events, lost>>

SnapshotOperations ==
  /\ close.pc = "operations"
  /\ close' = [close EXCEPT !.pc = "request", !.todo = LiveOperations,
                            !.ops = LiveOperations]
  /\ UNCHANGED <<operationVars, runtimeState, outcome, closer, created, task,
                 joining, taskFailures, resource, worker, events, lost>>

(* Would request_cancel change o? *)
Cancellable(o) ==
  IF Owned(o) THEN ~IsTerminal(o) /\ reason[o] = "none"
  ELSE ~terminalInProgress[o] /\ state[o] \in {"Pending", "Running"}

RequestParentClose(o) ==
  /\ close.pc = "request" /\ o \in close.todo
  /\ ~Locked(o)
  /\ IF Cancellable(o) THEN RequestCancel(o, "ParentClose")
                       ELSE UNCHANGED operationVars
  /\ close' = [close EXCEPT !.todo = @ \ {o}]
  /\ UNCHANGED <<runtimeState, outcome, closer, created, task, joining,
                 taskFailures, resource, worker, events, lost>>

(* Entries whose resource is gone are removed, the live ones closed. *)
SnapshotResources ==
  /\ close.pc = "request" /\ close.todo = {}
  /\ close' = [close EXCEPT !.pc = "cleanup",
                 !.todo = {r \in Resources : resource[r] = "registered"}]
  /\ resource' = [r \in Resources |->
                    IF resource[r] = "stale" THEN "gone" ELSE resource[r]]
  /\ UNCHANGED <<operationVars, runtimeState, outcome, closer, created, task,
                 joining, taskFailures, worker, events, lost>>

(* close_checked of one resource: fine, or an error or a panic. Whether it
   unregisters is its own UnregisterResource.                              *)
CloseResource(r, ok) ==
  /\ close.pc = "cleanup" /\ r \in close.todo
  /\ close' = [close EXCEPT !.todo = @ \ {r},
                 !.first = IF ok THEN @ ELSE FailWith("ResourceCleanup")]
  /\ UNCHANGED <<operationVars, runtimeState, outcome, closer, created, task,
                 joining, taskFailures, resource, worker, events, lost>>

SnapshotTasks ==
  /\ close.pc = "cleanup" /\ close.todo = {}
  /\ close' = [close EXCEPT !.pc = "join", !.todo = LiveTasks]
  /\ UNCHANGED <<operationVars, runtimeState, outcome, closer, created, task,
                 joining, taskFailures, resource, worker, events, lost>>

JoinNext(t) ==
  /\ close.pc = "join" /\ t \in close.todo
  /\ JoinStart("close", t)
  /\ close' = [close EXCEPT !.todo = @ \ {t}]
  /\ UNCHANGED <<operationVars, runtimeState, outcome, closer, created,
                 taskFailures, resource, worker, events, lost>>

(* join_external_tasks ends: a panic anybody recorded fails the close. *)
TasksJoined ==
  /\ close.pc = "join" /\ close.todo = {} /\ joining["close"] = Idle
  /\ close' = [close EXCEPT !.pc = "settle", !.todo = close.ops,
                 !.first = IF taskFailures = {} THEN @ ELSE FailWith("TaskJoin")]
  /\ UNCHANGED <<operationVars, runtimeState, outcome, closer, created, task,
                 joining, taskFailures, resource, worker, events, lost>>

-----------------------------------------------------------------------------
(* Somebody else is inside the terminal transaction of o and will end it. *)
BeingFinished(o) == /\ terminalInProgress[o]
                    /\ Owned(o) => claimed[o].state = "Finishing"

(* Nothing to settle: o is terminal, or legacy and refuses (Invalid). *)
SkipOperation(o) ==
  /\ close.pc = "settle" /\ o \in close.todo
  /\ ~Locked(o)
  /\ \/ IsTerminal(o)
     \/ ~Owned(o) /\ ~terminalInProgress[o] /\ state[o] # "Cancelling"
  /\ close' = [close EXCEPT !.todo = @ \ {o}]
  /\ UNCHANGED <<operationVars, runtimeState, outcome, closer, created, task,
                 joining, taskFailures, resource, worker, events, lost>>

(* The close thread runs the terminal transaction itself: handed over to the
   transfer owner, or finish_cancelled of a legacy operation.              *)
SettleOperation(o) ==
  /\ close.pc = "settle" /\ o \in close.todo
  /\ SettleAfterOwnerJoin(o) \/ FinishLegacy(o, "Cancellation")
  /\ close' = [close EXCEPT !.pc = "settling", !.op = o, !.todo = @ \ {o}]
  /\ UNCHANGED <<runtimeState, outcome, closer, created, task, joining,
                 taskFailures, resource, worker, events, lost>>

(* observe_terminal_completion *)
ObserveOperation(o) ==
  /\ close.pc = "settle" /\ o \in close.todo
  /\ ~Locked(o) /\ BeingFinished(o)
  /\ close' = [close EXCEPT !.pc = "observing", !.op = o, !.todo = @ \ {o}]
  /\ UNCHANGED <<operationVars, runtimeState, outcome, closer, created, task,
                 joining, taskFailures, resource, worker, events, lost>>

(* The transaction the close thread runs is over, or it has seen the end of
   the one it observes.                                                    *)
OperationSettled ==
  /\ \/ close.pc = "settling" /\ txn[close.op].pc = "done"
     \/ close.pc = "observing" /\ txn[close.op].pc \in {"notify", "done"}
  /\ close' = [close EXCEPT !.pc = "settle", !.op = "none"]
  /\ UNCHANGED <<operationVars, runtimeState, outcome, closer, created, task,
                 joining, taskFailures, resource, worker, events, lost>>

(* OwnershipLost: nobody may settle o, which stays as it is. *)
LoseOperation(o) ==
  /\ close.pc = "settle" /\ o \in close.todo
  /\ ~Locked(o) /\ ~IsTerminal(o) /\ Owned(o)
  /\ ~FallbackAllowed(o) /\ ~BeingFinished(o)
  /\ lost' = lost \cup {o}
  /\ close' = [close EXCEPT !.todo = @ \ {o},
                            !.first = FailWith("OperationFinalization")]
  /\ UNCHANGED <<operationVars, runtimeState, outcome, closer, created, task,
                 joining, taskFailures, resource, worker, events>>

(* Mutation of StopWorker: the worker is stopped before the fallback. *)
StopWorkerFirst(ok) ==
  /\ close.pc = "settle"
  /\ worker' = "joined"
  /\ close' = [close EXCEPT !.pc = "converge", !.todo = {},
                 !.first = IF worker = "panicked"
                           THEN FailWith("InternalTaskJoin") ELSE @]
  /\ UNCHANGED <<operationVars, runtimeState, outcome, closer, created, task,
                 joining, taskFailures, resource, events, lost>>

(* stop_deadline_worker: drained, shut down and joined.  A waker that panics
   while the registrations are drained unwinds to finish_close, which only
   knows the phase it is in.                                               *)
StopWorker(ok) ==
  /\ close.pc = "settle" /\ close.todo = {}
  /\ IF ok THEN /\ worker' = "joined"
                /\ close' = [close EXCEPT !.pc = "converge",
                               !.first = IF worker = "panicked"
                                         THEN FailWith("InternalTaskJoin") ELSE @]
           ELSE /\ close' = [close EXCEPT !.pc = "failed",
                                          !.first = "InternalTaskJoin"]
                /\ UNCHANGED worker
  /\ UNCHANGED <<operationVars, runtimeState, outcome, closer, created, task,
                 joining, taskFailures, resource, events, lost>>

(* Registry convergence, which decides between the two final events. *)
Converge ==
  /\ close.pc = "converge"
  /\ LET failure == IF LiveOperations = {} /\ LiveTasks = {}
                       /\ LiveResources = {}
                    THEN close.first ELSE FailWith("RegistryConvergence")
     IN close' = [close EXCEPT !.first = failure,
                    !.pc = IF failure = "none" THEN "closed" ELSE "failed"]
  /\ UNCHANGED <<operationVars, runtimeState, outcome, closer, created, task,
                 joining, taskFailures, resource, worker, events, lost>>

(* Mutation of PublishClosed: the event is queued before the clock panics. *)
PublishClosedFirst(ok) ==
  /\ close.pc = "closed"
  /\ events' = Append(events, "closed")
  /\ close' = IF ok THEN [close EXCEPT !.pc = "complete"]
              ELSE [close EXCEPT !.pc = "failed", !.first = "FinalEvent"]
  /\ UNCHANGED <<operationVars, runtimeState, outcome, closer, created, task,
                 joining, taskFailures, resource, worker, lost>>

(* close_events: runtime.closed and the end of production in one step, or a
   clock panic that makes the close fail after all.                        *)
PublishClosed(ok) ==
  /\ close.pc = "closed"
  /\ IF ok THEN /\ events' = Append(events, "closed")
                /\ close' = [close EXCEPT !.pc = "complete"]
           ELSE /\ close' = [close EXCEPT !.pc = "failed", !.first = "FinalEvent"]
                /\ UNCHANGED events
  /\ UNCHANGED <<operationVars, runtimeState, outcome, closer, created, task,
                 joining, taskFailures, resource, worker, lost>>

(* failed_close_outcome, which first cancels the root again (as CancelRoot
   did) and stops the worker if that is still to be done.                  *)
PublishFailed ==
  /\ close.pc = "failed"
  /\ worker' = "joined"
  /\ events' = Append(events, "close_failed")
  /\ close' = [close EXCEPT !.pc = "complete"]
  /\ UNCHANGED <<operationVars, runtimeState, outcome, closer, created, task,
                 joining, taskFailures, resource, lost>>

(* complete_close: outcome and state together under the state lock *)
Complete ==
  /\ close.pc = "complete"
  /\ outcome' = IF close.first = "none" THEN "Closed" ELSE close.first
  /\ runtimeState' = IF close.first = "none" THEN "Closed" ELSE "CloseFailed"
  /\ close' = [close EXCEPT !.pc = "notify"]
  /\ UNCHANGED <<operationVars, closer, created, task, joining, taskFailures,
                 resource, worker, events, lost>>

(* Mutation of NotifyClosers: nobody is notified. *)
OwnerReturns ==
  /\ close.pc = "notify"
  /\ closer' = [c \in Closers |->
                  IF closer[c] = "owner" THEN "returned" ELSE closer[c]]
  /\ close' = [close EXCEPT !.pc = "done"]
  /\ UNCHANGED <<operationVars, runtimeState, outcome, created, task, joining,
                 taskFailures, resource, worker, events, lost>>

(* state_changed.notify_all; the owner returns. *)
NotifyClosers ==
  /\ close.pc = "notify"
  /\ closer' = [c \in Closers |->
                  IF closer[c] \in {"waiting", "owner"} THEN "returned"
                                                        ELSE closer[c]]
  /\ close' = [close EXCEPT !.pc = "done"]
  /\ UNCHANGED <<operationVars, runtimeState, outcome, created, task, joining,
                 taskFailures, resource, worker, events, lost>>

CloseStep ==
  \/ \E ok \in BOOLEAN : Announce(ok) \/ StopWorker(ok) \/ PublishClosed(ok)
  \/ CancelRoot
  \/ SnapshotOperations
  \/ SnapshotResources
  \/ SnapshotTasks
  \/ \E r \in Resources, ok \in BOOLEAN : CloseResource(r, ok)
  \/ \E o \in Ops : \/ RequestParentClose(o)
                    \/ JoinNext(o)
                    \/ SkipOperation(o)
                    \/ SettleOperation(o)
                    \/ ObserveOperation(o)
                    \/ LoseOperation(o)
  \/ TasksJoined
  \/ OperationSettled
  \/ Converge
  \/ PublishFailed
  \/ Complete
  \/ NotifyClosers

-----------------------------------------------------------------------------
CloseNext ==
  \/ \E o \in Ops : \/ CreateOperation(o)
                    \/ SpawnTask(o)
                    \/ UseOperation(o)
                    \/ FinishOperation(o)
                    \/ \E b \in {"Completed", "Panicked"} : CompleteBody(o, b)
                    \/ \E h \in Joiners : ExplicitJoin(h, o)
  \/ \E r \in Resources : RegisterResource(r) \/ UnregisterResource(r)
                          \/ DropResource(r)
  \/ WorkerPanics
  \/ \E h \in Threads : JoinStep(h)
  \/ \E c \in Closers : CallClose(c)
  \/ DropLastHandle
  \/ CloseStep

CloseSpec == CloseInit /\ [][CloseNext]_vars

(* What goes on by itself: task bodies return once they are cancelled, as
   the Runtime requires of every backend; resource callbacks and cleanups
   return; the close thread, joining threads and threads inside a terminal
   transaction are scheduled.  Nothing is assumed of domain code that holds
   a claim.  Of CloseStep, JoinStep, FinishOperation and CompleteBody these
   are the guards.                                                         *)
CloseMoves ==
  \/ close.pc \in {"announce", "cancel", "operations", "converge", "closed",
                  "failed", "complete", "notify"}
  \/ close.pc \in {"request", "cleanup", "settle"} /\ close.todo = {}
  \/ /\ close.pc \in {"request", "settle"}
     /\ \E o \in close.todo \cap Ops : ~Locked(o)
  \/ close.pc = "cleanup" /\ close.todo \cap Resources # {}
  \/ /\ close.pc = "join" /\ joining["close"] = Idle
     /\ \/ close.todo = {}
        \/ \E t \in close.todo \cap Ops :
             task[t].handle # "Missing" /\ task[t].gate = "none"
  \/ close.pc = "settling" /\ txn[close.op].pc = "done"
  \/ close.pc = "observing" /\ txn[close.op].pc \in {"notify", "done"}

JoinMoves(h) ==
  LET t == joining[h].task IN
  \/ joining[h].pc = "wait" /\ task[t].body \in {"Completed", "Panicked"}
  \/ joining[h].pc \in {"thread", "unlink"}
  \/ /\ joining[h].pc = "mark"
     /\ t \in LiveOperations /\ ownerTask[t]
          => ~Locked(t) /\ ~arbiter[t].joined

OperationMoves(o) ==
  \/ txn[o].pc = "cancelling" /\ state[o] \in {"Pending", "Running"}
  \/ txn[o].pc \in {"announce", "cleanup", "settle", "commit", "publish",
                    "unlink", "notify"}
  \/ task[o].body = "running"

SomebodyMoves ==
  \/ CloseMoves
  \/ \E h \in Threads : JoinMoves(h)
  \/ \E o \in Ops : OperationMoves(o)

(* The callers of close differ in nothing. *)
CloserSymmetry == Permutations(Closers)
-----------------------------------------------------------------------------
CloseSteps == {"idle", "announce", "cancel", "operations", "request", "cleanup",
               "join", "settle", "settling", "observing", "converge", "closed",
               "failed", "complete", "notify", "done"}

(* Every variable keeps its type, and a terminal Runtime has its outcome. *)
CloseTypeOK ==
  /\ runtimeState \in {"Active", "Closing", "Closed", "CloseFailed"}
  /\ outcome \in Phases \cup {"none", "Closed"}
  /\ closer \in [Closers -> {"idle", "waiting", "owner", "returned"}]
  /\ close \in [pc : CloseSteps, first : Phases \cup {"none"},
                todo : SUBSET (Ops \cup Resources), ops : SUBSET Ops,
                op : Ops \cup {"none"}]
  /\ created \subseteq Ops
  /\ task \in [Ops -> [body : {"absent", "running", "Completed", "Panicked"},
                       handle : {"Missing", "Retained", "Joining", "Joined"},
                       linked : BOOLEAN, gate : Threads \cup {"none"}]]
  /\ joining \in [Threads -> [task : Ops \cup {"none"},
                pc : {"idle", "wait", "thread", "unlink", "mark"}]]
  /\ taskFailures \subseteq Ops
  /\ resource \in [Resources -> {"absent", "registered", "stale", "gone"}]
  /\ worker \in {"running", "panicked", "joined"}
  /\ events \in Seq({"closing", "closed", "close_failed"})
  /\ lost \subseteq created
  /\ runtimeState \in {"Closed", "CloseFailed"} => outcome # "none"

(* The assert! and expect()s of join_supervised_task hold, whoever joins at
   the same time: the handle of a finished, registered task is there to be
   claimed, and the task stays registered until its joiner unlinks it.     *)
JoinNeverPanics ==
  \A h \in Threads : LET t == joining[h].task IN
    /\ joining[h].pc = "wait" /\ task[t].linked => task[t].handle = "Retained"
    /\ joining[h].pc \in {"thread", "unlink"} => task[t].linked

(* Closed is never claimed while something the Runtime supervises is left:
   from the decision to publish runtime.closed on, every operation ever
   created is terminal and unlinked, every task joined, every resource
   unregistered and the deadline worker gone.                              *)
ClosedMeansConverged ==
  close.pc = "closed" \/ runtimeState = "Closed" =>
    /\ \A o \in created : IsTerminal(o) /\ ~linked[o]
    /\ \A t \in Ops : task[t].body # "absent" => task[t].handle = "Joined"
    /\ LiveResources = {}
    /\ worker = "joined"

(* The deadline worker serves its registrations until nothing supervised can
   hold one: every owner task has been joined, and every operation is
   terminal or given up.                                                   *)
WorkerOutlivesOwners ==
  worker = "joined" =>
    /\ \A t \in Ops : task[t].body \in {"absent", "Completed", "Panicked"}
    /\ \A o \in created : IsTerminal(o) \/ o \in lost

(* What went wrong decides the outcome. A task panic fails the close whoever
   joined the task, before or during close, and no later phase but a panic
   in the drain hides it; and a close that gave up an operation whose owner
   is lost fails, even if its owner ends it later.                         *)
FailuresDecideOutcome ==
  outcome # "none" =>
    /\ (\E t \in Ops : task[t].body = "Panicked") =>
         outcome \in {"Start", "ResourceCleanup", "TaskJoin", "InternalTaskJoin"}
    /\ lost # {} =>
         outcome \in {"Start", "ResourceCleanup", "TaskJoin",
                      "OperationFinalization", "InternalTaskJoin"}

(* One final event, the last one, that agrees with the saved outcome. *)
FinalEventTellsOutcome ==
  runtimeState \in {"Closed", "CloseFailed"} =>
    /\ events[Len(events)] =
         IF runtimeState = "Closed" THEN "closed" ELSE "close_failed"
    /\ runtimeState = "Closed" <=> outcome = "Closed"
    /\ \A i \in 1..Len(events) - 1 : events[i] = "closing"

(* Every caller of close gets its outcome: where nothing goes on any more,
   none is left waiting.                                                   *)
CloseReturns ==
  ~SomebodyMoves => \A c \in Closers : closer[c] \in {"idle", "returned"}

(* runtime-lifecycle.md, section 10: with a transferable owner held in
   advance, its task joined and its evidence recorded, close settles the
   operation and does not report its ownership lost.                       *)
HandoffNotLost ==
  [][\A o \in Ops : o \in lost' \ lost =>
       ~(Transferable(o) /\ record[o] # NoRecord
         /\ task[o].handle = "Joined")]_vars

(* runtime-lifecycle.md, section 10: the failure close saves is the earliest
   one, so that a recorded failure is never replaced.  The code does not
   have this property: a waker that panics while the registrations are
   drained unwinds past the failure recorded so far (runtime.rs:944).      *)
EarliestFailureSaved ==
  [][close.first # "none" => close'.first = close.first]_close
=============================================================================
