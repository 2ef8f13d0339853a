---------------------------- MODULE VisionPools ----------------------------
(***************************************************************************)
(* The native worker pool and the OCR engine pool of easycon-vision, as    *)
(* one system: an OCR recognition is a job of the worker pool, and its     *)
(* worker blocks in the engine pool until it is granted an engine.         *)
(*                                                                         *)
(* A call of the public API is a job.  Its thread reserves a place in the  *)
(* bounded queue, commits the job and waits for its completion; a worker   *)
(* takes the job; any thread may cancel the call's token; one thread each  *)
(* may close the two pools.  Every critical section of the pools' mutexes  *)
(* is one action; `asleep` and `ocr_asleep` are the threads blocked on the *)
(* two condition variables, and a notify_all empties the set.              *)
(***************************************************************************)
EXTENDS Integers, Sequences, FiniteSets, SequencesExt

CONSTANTS
    Jobs,        \* the calls made: each is one job with a token of its own
    Workers,     \* the worker threads (NativePoolOptions::workers)
    MaxQueued,   \* NativePoolOptions::max_queued_jobs
    MaxEngines,  \* the capacity of the OCR pool
    MaxFaults,   \* bound: failed or poisoned native calls, refused spawns
    NoJob, Closer

ASSUME PoolAssumption ==
    /\ MaxQueued \in Nat \ {0} /\ MaxEngines \in Nat \ {0} /\ MaxFaults \in Nat
    /\ NoJob \notin Jobs /\ Closer \notin Jobs \cup Workers
    /\ Jobs \cap Workers = {}
    /\ IsFiniteSet(Workers) /\ Workers # {}

VARIABLES
    (* NativePoolResource *)
    built,        \* NativePool::new: "spawning", "registered", "ready", "failed"
    start,        \* WorkerStart
    lifecycle,    \* PoolLifecycle
    reserved,     \* PoolState.reserved: 0 or 1
    queue,        \* PoolState.queue: the jobs waiting for a worker
    in_flight,
    close_result, \* "none", "Ok", "Internal"
    asleep,       \* the threads waiting on `changed`
    closer,       \* where close_inner is
    drained,      \* the jobs close_inner took and has still to cancel
    (* one call *)
    call,         \* where the calling thread is
    kind,         \* "native", or "ocr": a recognition needs an engine
    completion,   \* JobCompletion.result, "none" until finished
    finishes,     \* how often finish was called on it
    cancelled,    \* CancellationToken::is_cancelled
    firing,       \* hooks a cancel selected and has still to run
    withdrawal,   \* cancel_queued: what is owed for a job taken out of the queue
    (* one worker *)
    worker, task, outcome, poisoned,
    (* OcrPoolResource *)
    open, created, creating, borrowed, idle,
    waiters,      \* OcrState.waiters, as jobs
    ocr_asleep,   \* the workers waiting on its `changed`
    ocr_closer, ocr_result,
    live,         \* engine objects that exist in native memory
    faults

poolVars == <<lifecycle, reserved, queue, in_flight, close_result>>
buildVars == <<built, start>>
closeVars == <<closer, drained>>
callVars == <<call, kind, cancelled, firing, withdrawal>>
jobVars == <<completion, finishes>>
workerVars == <<worker, task, outcome, poisoned>>
ocrVars == <<open, created, creating, borrowed, idle, waiters>>
ocrCloseVars == <<ocr_closer, ocr_result>>
vars == <<poolVars, buildVars, asleep, closeVars, callVars, jobVars, workerVars,
          ocrVars, ocr_asleep, ocrCloseVars, live, faults>>

Answers == {"Ok", "Failed", "Cancelled", "PoolClosed", "Internal", "Limit"}

Places == {"unborn", "start", "idle", "run", "call", "acquire", "claim", "create", "created",
           "failed_create", "discard", "process", "lease", "finish", "release", "exited"}

PoolType ==
    /\ built \in {"spawning", "registered", "ready", "failed"}
    /\ start \in {"Pending", "Run", "Abort"}
    /\ lifecycle \in {"Open", "Closing", "Closed"}
    /\ reserved \in {0, 1}
    /\ queue \in Seq(Jobs) /\ Len(queue) <= MaxQueued
    /\ in_flight \in 0..Cardinality(Workers)
    /\ close_result \in {"none", "Ok", "Internal"}
    /\ asleep \subseteq Jobs \cup Workers \cup {Closer}
    /\ closer \in {"idle", "drain", "cancel", "join", "done"}
    /\ drained \in Seq(Jobs)

CallType ==
    /\ call \in [Jobs -> {"idle", "admit", "reserved", "committed", "wait", "done"}]
    /\ kind \in [Jobs -> {"native", "ocr"}]
    /\ completion \in [Jobs -> Answers \cup {"none"}]
    /\ finishes \in [Jobs -> {0, 1}]
    /\ cancelled \in [Jobs -> BOOLEAN]
    /\ firing \in [Jobs -> SUBSET {"admission", "queued", "engine"}]
    /\ withdrawal \in [Jobs -> {"none", "answer", "notify"}]

WorkerType ==
    /\ worker \in [Workers -> Places]
    /\ task \in [Workers -> Jobs \cup {NoJob}]
    /\ outcome \in [Workers -> Answers \cup {"none"}]
    /\ poisoned \in [Workers -> BOOLEAN]
    /\ faults \in 0..MaxFaults

OcrType ==
    /\ open \in BOOLEAN
    /\ {created, creating, borrowed, idle} \subseteq 0..MaxEngines
    /\ waiters \in Seq({j \in Jobs : kind[j] = "ocr"})
    /\ ocr_asleep \subseteq Workers
    /\ ocr_closer \in {"idle", "wait", "drop", "settle", "done"}
    /\ ocr_result \in {"none", "Ok", "Internal"}
    /\ live \in Nat

TypeOK == PoolType /\ CallType /\ WorkerType /\ OcrType

(* The public calls: decode, encode, convert, crop, match and the statistics*)
(* differ in the native function only; a recognition needs an engine.       *)
Kinds == {"native", "ocr"}

InitPool ==
    /\ built = "spawning" /\ start = "Pending"
    /\ lifecycle = "Open" /\ reserved = 0 /\ queue = <<>>
    /\ in_flight = 0 /\ close_result = "none"
    /\ asleep = {} /\ closer = "idle" /\ drained = <<>>

InitOcrPool ==
    /\ open = TRUE /\ created = 0 /\ creating = 0 /\ borrowed = 0 /\ idle = 0
    /\ waiters = <<>> /\ ocr_asleep = {}
    /\ ocr_closer = "idle" /\ ocr_result = "none"

Init ==
    /\ InitPool /\ InitOcrPool
    /\ live = 0 /\ faults = 0
    /\ kind \in [Jobs -> Kinds]
    /\ call = [j \in Jobs |-> "idle"]
    /\ completion = [j \in Jobs |-> "none"] /\ finishes = [j \in Jobs |-> 0]
    /\ cancelled = [j \in Jobs |-> FALSE] /\ firing = [j \in Jobs |-> {}]
    /\ withdrawal = [j \in Jobs |-> "none"]
    /\ worker = [w \in Workers |-> "unborn"] /\ task = [w \in Workers |-> NoJob]
    /\ outcome = [w \in Workers |-> "none"] /\ poisoned = [w \in Workers |-> FALSE]

Fault == faults < MaxFaults /\ faults' = faults + 1

(* The threads that would go back to sleep, were they woken: the conditions *)
(* of the wait loops of reserve, worker_loop, close_inner and acquire.      *)
Stuck(t) ==
    \/ t \in Jobs /\ ~cancelled[t] /\ lifecycle = "Open" /\ reserved # 0
    \/ t \in Workers /\ (IF lifecycle = "Open" THEN queue = <<>> ELSE reserved # 0)
    \/ t = Closer /\ reserved # 0

(* Mutation of Room: an engine under creation takes no room. *)
RoomByCreated == created < MaxEngines

Room == created + creating < MaxEngines

NoEngineFor(w) ==
    /\ open /\ ~cancelled[task[w]]
    /\ \/ Head(waiters) # task[w]
       \/ idle = 0 /\ ~Room

(* A queue that a ticket left: it is looked for, and removed if found. *)
Without(s, j) ==
    IF Contains(s, j) THEN RemoveAt(s, CHOOSE i \in 1..Len(s) : s[i] = j) ELSE s

(* notify_all on the condition variable of each pool.  A thread whose       *)
(* condition does not hold is left asleep at once.                          *)
Notify == asleep' = {t \in asleep : Stuck(t)'}
NotifyOcr == ocr_asleep' = {w \in ocr_asleep : NoEngineFor(w)'}

-----------------------------------------------------------------------------
(* NativePool::new.  The workers are spawned one by one behind a start      *)
(* gate; a refused spawn or a refused registration opens it with Abort and  *)
(* joins what was spawned.  The commit gate is held throughout, so that a   *)
(* close through the Runtime registry waits for the end of construction.    *)

Spawn(w) ==
    /\ built = "spawning" /\ worker[w] = "unborn" /\ start = "Pending"
    /\ worker' = [worker EXCEPT ![w] = "start"]
    /\ UNCHANGED <<poolVars, buildVars, asleep, closeVars, callVars, jobVars, task, outcome,
                   poisoned, ocrVars, ocr_asleep, ocrCloseVars, live, faults>>

ConstructionFails ==
    /\ built = "spawning" /\ start = "Pending" /\ Fault
    /\ start' = "Abort"
    /\ UNCHANGED <<poolVars, built, asleep, closeVars, callVars, jobVars, workerVars,
                   ocrVars, ocr_asleep, ocrCloseVars, live>>

JoinConstructedWorkers ==
    /\ built = "spawning" /\ start = "Abort"
    /\ \A w \in Workers : worker[w] \in {"unborn", "exited"}
    /\ built' = "failed"
    /\ UNCHANGED <<poolVars, start, asleep, closeVars, callVars, jobVars, workerVars,
                   ocrVars, ocr_asleep, ocrCloseVars, live, faults>>

Register ==
    /\ built = "spawning" /\ start = "Pending"
    /\ \A w \in Workers : worker[w] # "unborn"
    /\ built' = "registered"
    /\ UNCHANGED <<poolVars, start, asleep, closeVars, callVars, jobVars, workerVars,
                   ocrVars, ocr_asleep, ocrCloseVars, live, faults>>

OpenGate ==
    /\ built = "registered"
    /\ start' = "Run" /\ built' = "ready"
    /\ UNCHANGED <<poolVars, asleep, closeVars, callVars, jobVars, workerVars,
                   ocrVars, ocr_asleep, ocrCloseVars, live, faults>>

WaitForStart(w) ==
    /\ worker[w] = "start" /\ start # "Pending"
    /\ worker' = [worker EXCEPT ![w] = IF start = "Abort" THEN "exited" ELSE "idle"]
    /\ UNCHANGED <<poolVars, buildVars, asleep, closeVars, callVars, jobVars, task, outcome,
                   poisoned, ocrVars, ocr_asleep, ocrCloseVars, live, faults>>

-----------------------------------------------------------------------------
(* A call: reserve, commit, wait.                                           *)

(* The call is back with its caller.                                        *)
Returned(j) == call[j] = "done" \/ (call[j] = "wait" /\ completion[j] # "none")

Goto(j, place) == call' = [call EXCEPT ![j] = place]

(* JobCompletion::finish: the first result stays.                           *)
Finish(j, answer) ==
    /\ completion' = [completion EXCEPT ![j] = IF @ = "none" THEN answer ELSE @]
    /\ finishes' = [finishes EXCEPT ![j] = @ + 1]

(* An answer that never became a job is returned by reserve itself.         *)
Refuse(j, answer) ==
    /\ Goto(j, "done")
    /\ completion' = [completion EXCEPT ![j] = answer]
    /\ UNCHANGED <<poolVars, asleep, finishes>>

Submit(j) ==
    /\ built = "ready" /\ call[j] = "idle"
    /\ IF cancelled[j] THEN Refuse(j, "Cancelled")
       ELSE Goto(j, "admit") /\ UNCHANGED <<poolVars, asleep, jobVars>>
    /\ UNCHANGED <<buildVars, closeVars, kind, cancelled, firing, withdrawal, workerVars, ocrVars,
                   ocr_asleep, ocrCloseVars, live, faults>>

Admit(j) ==
    /\ call[j] = "admit" /\ j \notin asleep
    /\ \/ /\ cancelled[j]
          /\ Refuse(j, "Cancelled")
       \/ /\ ~cancelled[j] /\ lifecycle # "Open"
          /\ Refuse(j, "PoolClosed")
       \/ /\ ~cancelled[j] /\ lifecycle = "Open" /\ reserved # 0
          /\ asleep' = asleep \cup {j}
          /\ UNCHANGED <<poolVars, call, jobVars>>
       \/ /\ ~cancelled[j] /\ lifecycle = "Open" /\ reserved = 0
          /\ Len(queue) >= MaxQueued
          /\ Refuse(j, "Limit")
       \/ /\ ~cancelled[j] /\ lifecycle = "Open" /\ reserved = 0
          /\ Len(queue) < MaxQueued
          /\ reserved' = 1
          /\ Goto(j, "reserved")
          /\ UNCHANGED <<lifecycle, queue, in_flight, close_result, asleep, jobVars>>
    /\ UNCHANGED <<buildVars, closeVars, kind, cancelled, firing, withdrawal, workerVars, ocrVars,
                   ocr_asleep, ocrCloseVars, live, faults>>

(* AdmissionReservation::commit                                             *)
Commit(j) ==
    /\ call[j] = "reserved"
    /\ IF reserved = 0
       THEN /\ Goto(j, "done")
            /\ completion' = [completion EXCEPT ![j] = "Internal"]
            /\ UNCHANGED <<reserved, queue>>
       ELSE /\ reserved' = 0
            /\ queue' = Append(queue, j)
            /\ Goto(j, "committed")
            /\ UNCHANGED completion
    /\ UNCHANGED <<lifecycle, in_flight, close_result, buildVars, closeVars, kind,
                   cancelled, firing, withdrawal, finishes, workerVars, ocrVars, ocr_asleep,
                   ocrCloseVars, live, faults>>
    /\ Notify

(* decode refuses an encoded size after it reserved: the reservation is     *)
(* dropped.                                                                 *)
DropReservation(j) ==
    /\ call[j] = "reserved" /\ kind[j] = "native"
    /\ reserved' = 0
    /\ Goto(j, "done")
    /\ completion' = [completion EXCEPT ![j] = "Failed"]
    /\ UNCHANGED <<lifecycle, queue, in_flight, close_result, buildVars, closeVars,
                   kind, cancelled, firing, withdrawal, finishes, workerVars, ocrVars, ocr_asleep,
                   ocrCloseVars, live, faults>>
    /\ Notify

(* cancel_queued.  A job still queued leaves the queue in one critical      *)
(* section; the thread that took it answers it after the unlock, and only   *)
(* then wakes the pool, so that a worker or a close comes in between.       *)
CancelQueued(j) ==
    /\ Contains(queue, j)
    /\ queue' = Without(queue, j)
    /\ withdrawal' = [withdrawal EXCEPT ![j] = "answer"]

AnswerWithdrawn(j) ==
    /\ withdrawal[j] = "answer"
    /\ Finish(j, "Cancelled")
    /\ withdrawal' = [withdrawal EXCEPT ![j] = "notify"]
    /\ UNCHANGED <<poolVars, buildVars, asleep, closeVars, call, kind, cancelled, firing,
                   workerVars, ocrVars, ocr_asleep, ocrCloseVars, live, faults>>

(* The hook returns: to the registration in waiter, or to the cancel.       *)
NotifyWithdrawn(j) ==
    /\ withdrawal[j] = "notify"
    /\ withdrawal' = [withdrawal EXCEPT ![j] = "none"]
    /\ call' = [call EXCEPT ![j] = IF @ = "committed" THEN "wait" ELSE @]
    /\ firing' = [firing EXCEPT ![j] = @ \ {"queued"}]
    /\ UNCHANGED <<poolVars, buildVars, closeVars, kind, cancelled, jobVars, workerVars,
                   ocrVars, ocr_asleep, ocrCloseVars, live, faults>>
    /\ Notify

(* waiter: a hook registered on a token already cancelled runs at once.     *)
AttachWaiter(j) ==
    /\ call[j] = "committed" /\ withdrawal[j] = "none"
    /\ \/ /\ cancelled[j]
          /\ CancelQueued(j)
          /\ UNCHANGED call
       \/ /\ ~cancelled[j] \/ ~Contains(queue, j)
          /\ Goto(j, "wait")
          /\ UNCHANGED <<queue, withdrawal>>
    /\ UNCHANGED <<lifecycle, reserved, in_flight, close_result, buildVars, asleep, closeVars,
                   kind, cancelled, firing, jobVars, workerVars, ocrVars, ocr_asleep,
                   ocrCloseVars, live, faults>>

-----------------------------------------------------------------------------
(* Cancellation of a call's token.  cancel selects the hooks whose guards   *)
(* are alive and then runs them; a guard dropped later does not stop one.   *)

Acquiring == {"claim", "create", "created", "failed_create", "discard"}

Hooks(j) ==
    (IF call[j] = "admit" THEN {"admission"} ELSE {})
    \cup (IF call[j] = "wait" THEN {"queued"} ELSE {})
    \cup (IF \E w \in Workers : task[w] = j /\ worker[w] \in Acquiring THEN {"engine"} ELSE {})

Cancel(j) ==
    /\ built = "ready" /\ ~cancelled[j] /\ ~Returned(j)
    /\ cancelled' = [cancelled EXCEPT ![j] = TRUE]
    /\ firing' = [firing EXCEPT ![j] = Hooks(j)]
    /\ UNCHANGED <<poolVars, buildVars, asleep, closeVars, call, kind, withdrawal, jobVars,
                   workerVars, ocrVars, ocr_asleep, ocrCloseVars, live, faults>>

RunHook(j) ==
    /\ UNCHANGED <<lifecycle, reserved, in_flight, close_result, buildVars, closeVars, call,
                   kind, cancelled, jobVars, workerVars, ocrVars, ocrCloseVars, live, faults>>
    /\ \/ /\ "admission" \in firing[j]
          /\ firing' = [firing EXCEPT ![j] = @ \ {"admission"}]
          /\ UNCHANGED <<queue, withdrawal, ocr_asleep>>
          /\ Notify
       \/ /\ "queued" \in firing[j] /\ withdrawal[j] = "none"
          /\ \/ CancelQueued(j) /\ UNCHANGED firing
             \/ /\ ~Contains(queue, j)
                /\ firing' = [firing EXCEPT ![j] = @ \ {"queued"}]
                /\ UNCHANGED <<queue, withdrawal>>
          /\ UNCHANGED <<asleep, ocr_asleep>>
       \/ /\ firing[j] = {"engine"}
          /\ firing' = [firing EXCEPT ![j] = {}]
          /\ UNCHANGED <<queue, withdrawal, asleep>>
          /\ NotifyOcr

-----------------------------------------------------------------------------
(* worker_loop                                                              *)

At(w, place) == worker' = [worker EXCEPT ![w] = place]

TakeJob(w) ==
    /\ worker[w] = "idle" /\ w \notin asleep
    /\ \/ /\ lifecycle # "Open" /\ reserved = 0
          /\ At(w, "exited")
          /\ UNCHANGED <<queue, in_flight, asleep, task>>
       \/ /\ IF lifecycle # "Open" THEN reserved # 0 ELSE queue = <<>>
          /\ asleep' = asleep \cup {w}
          /\ UNCHANGED <<queue, in_flight, worker, task>>
       \/ /\ lifecycle = "Open" /\ queue # <<>>
          /\ queue' = Tail(queue)
          /\ task' = [task EXCEPT ![w] = Head(queue)]
          /\ in_flight' = in_flight + 1
          /\ At(w, "run")
          /\ UNCHANGED asleep
    /\ UNCHANGED <<lifecycle, reserved, close_result, buildVars, closeVars, callVars,
                   jobVars, outcome, poisoned, ocrVars, ocr_asleep, ocrCloseVars, live, faults>>

(* The run closure of make_job: a cancelled job makes no native call.       *)
RunJob(w) ==
    LET j == task[w] IN
    /\ worker[w] = "run"
    /\ IF cancelled[j]
       THEN Finish(j, "Cancelled") /\ At(w, "release")
       ELSE At(w, IF kind[j] = "ocr" THEN "acquire" ELSE "call") /\ UNCHANGED jobVars
    /\ UNCHANGED <<poolVars, buildVars, asleep, closeVars, callVars, task, outcome, poisoned,
                   ocrVars, ocr_asleep, ocrCloseVars, live, faults>>

(* A native call of a job without an engine returns, fails or panics.       *)
CallNative(w) ==
    /\ worker[w] = "call"
    /\ \/ /\ outcome' = [outcome EXCEPT ![w] = "Ok"] /\ UNCHANGED faults
       \/ /\ \E failure \in {"Failed", "Internal"} :
                outcome' = [outcome EXCEPT ![w] = failure]
          /\ Fault
    /\ At(w, "finish")
    /\ UNCHANGED <<poolVars, buildVars, asleep, closeVars, callVars, jobVars, task, poisoned,
                   ocrVars, ocr_asleep, ocrCloseVars, live>>

(* The result is replaced when the call was cancelled while in flight.      *)
FinishJob(w) ==
    /\ worker[w] = "finish"
    /\ Finish(task[w], IF cancelled[task[w]] THEN "Cancelled" ELSE outcome[w])
    /\ At(w, "release")
    /\ UNCHANGED <<poolVars, buildVars, asleep, closeVars, callVars, task, outcome, poisoned,
                   ocrVars, ocr_asleep, ocrCloseVars, live, faults>>

Release(w) ==
    /\ worker[w] = "release"
    /\ in_flight' = in_flight - 1
    /\ At(w, "idle")
    /\ task' = [task EXCEPT ![w] = NoJob]
    /\ outcome' = [outcome EXCEPT ![w] = "none"]
    /\ poisoned' = [poisoned EXCEPT ![w] = FALSE]
    /\ UNCHANGED <<lifecycle, reserved, queue, close_result, buildVars, closeVars,
                   callVars, jobVars, ocrVars, ocr_asleep, ocrCloseVars, live, faults>>
    /\ Notify

-----------------------------------------------------------------------------
(* OcrPoolResource::acquire and OcrLease, on the worker that runs the job.  *)

Give(w, answer) ==
    /\ outcome' = [outcome EXCEPT ![w] = answer]
    /\ At(w, "finish")

EnterEngineQueue(w) ==
    LET j == task[w] IN
    /\ worker[w] = "acquire"
    /\ \/ cancelled[j] /\ Give(w, "Cancelled") /\ UNCHANGED waiters
       \/ ~cancelled[j] /\ ~open /\ Give(w, "PoolClosed") /\ UNCHANGED waiters
       \/ /\ ~cancelled[j] /\ open
          /\ waiters' = Append(waiters, j)
          /\ At(w, "claim") /\ UNCHANGED outcome
    /\ UNCHANGED <<poolVars, buildVars, asleep, closeVars, callVars, jobVars, task, poisoned, open,
                   created, creating, borrowed, idle, ocr_asleep, ocrCloseVars, live, faults>>

(* Mutation of LeaveEngineQueue: the ticket stays in the queue. *)
StayInEngineQueue(w) == UNCHANGED waiters

(* remove_waiter                                                            *)
LeaveEngineQueue(w) == waiters' = Without(waiters, task[w])

(* One pass of the acquire loop under the state mutex.                      *)
ClaimEngine(w) ==
    LET j == task[w]
        gone == ~open \/ cancelled[j]
        first == waiters # <<>> /\ Head(waiters) = j
    IN
    /\ worker[w] = "claim" /\ w \notin ocr_asleep
    /\ \/ /\ gone
          /\ LeaveEngineQueue(w)
          /\ Give(w, IF ~open THEN "PoolClosed" ELSE "Cancelled")
          /\ UNCHANGED <<creating, borrowed, idle>>
       \/ /\ ~gone /\ first /\ idle > 0
          /\ waiters' = Tail(waiters)
          /\ idle' = idle - 1 /\ borrowed' = borrowed + 1
          /\ At(w, "process")
          /\ UNCHANGED <<creating, outcome>>
       \/ /\ ~gone /\ first /\ idle = 0 /\ Room
          /\ waiters' = Tail(waiters)
          /\ creating' = creating + 1
          /\ At(w, "create")
          /\ UNCHANGED <<borrowed, idle, outcome>>
       \/ /\ ~gone /\ (~first \/ (idle = 0 /\ ~Room))
          /\ UNCHANGED <<waiters, creating, borrowed, idle, worker, outcome>>
    /\ UNCHANGED <<poolVars, buildVars, asleep, closeVars, callVars, jobVars, task, poisoned, open,
                   created, ocrCloseVars, live, faults>>
    /\ IF worker'[w] = "claim" THEN ocr_asleep' = ocr_asleep \cup {w} ELSE NotifyOcr

(* The factory runs outside the mutex.                                      *)
CreateEngine(w) ==
    /\ worker[w] = "create"
    /\ \/ live' = live + 1 /\ At(w, "created") /\ UNCHANGED faults
       \/ At(w, "failed_create") /\ Fault /\ UNCHANGED live
    /\ UNCHANGED <<poolVars, buildVars, asleep, closeVars, callVars, jobVars, task, outcome,
                   poisoned, ocrVars, ocr_asleep, ocrCloseVars>>

(* The engine is admitted only if neither pool nor call ended meanwhile.    *)
AdmitEngine(w) ==
    LET ended == ~open \/ cancelled[task[w]] IN
    /\ worker[w] \in {"created", "failed_create"}
    /\ creating' = creating - 1
    /\ \/ /\ worker[w] = "failed_create"
          /\ Give(w, "Failed")
          /\ UNCHANGED <<created, borrowed>>
       \/ /\ worker[w] = "created" /\ ended
          /\ outcome' = [outcome EXCEPT ![w] = IF ~open THEN "PoolClosed" ELSE "Cancelled"]
          /\ At(w, "discard")
          /\ UNCHANGED <<created, borrowed>>
       \/ /\ worker[w] = "created" /\ ~ended
          /\ created' = created + 1 /\ borrowed' = borrowed + 1
          /\ At(w, "process")
          /\ UNCHANGED outcome
    /\ UNCHANGED <<poolVars, buildVars, asleep, closeVars, callVars, jobVars, task, poisoned, open,
                   idle, waiters, ocrCloseVars, live, faults>>
    /\ NotifyOcr

(* What a call of the engine comes to: an invalid view is refused before it,*)
(* a native failure may leave the engine unusable, and a confidence that is *)
(* no number always does; a panic unwinds through a lease not yet poisoned. *)
Processed ==
    {[answer |-> "Ok", poison |-> FALSE], [answer |-> "Internal", poison |-> FALSE]}
    \cup [answer : {"Failed"}, poison : BOOLEAN]

Process(w) ==
    /\ worker[w] = "process"
    /\ \E result \in Processed :
          /\ outcome' = [outcome EXCEPT ![w] = result.answer]
          /\ poisoned' = [poisoned EXCEPT ![w] = result.poison]
          /\ IF result.answer = "Ok" THEN UNCHANGED faults ELSE Fault
    /\ At(w, "lease")
    /\ UNCHANGED <<poolVars, buildVars, asleep, closeVars, callVars, jobVars, task, ocrVars,
                   ocr_asleep, ocrCloseVars, live>>

(* Drop of OcrLease: the engine returns to the idle list, or is counted out *)
(* under the mutex and destroyed after it.                                  *)
DropLease(w) ==
    /\ worker[w] = "lease"
    /\ borrowed' = borrowed - 1
    /\ IF poisoned[w] \/ ~open
       THEN created' = created - 1 /\ At(w, "discard") /\ UNCHANGED idle
       ELSE idle' = idle + 1 /\ At(w, "finish") /\ UNCHANGED created
    /\ UNCHANGED <<poolVars, buildVars, asleep, closeVars, callVars, jobVars, task, outcome,
                   poisoned, open, creating, waiters, ocrCloseVars, live, faults>>
    /\ NotifyOcr

DestroyEngine(w) ==
    /\ worker[w] = "discard"
    /\ live' = live - 1
    /\ At(w, "finish")
    /\ UNCHANGED <<poolVars, buildVars, asleep, closeVars, callVars, jobVars, task, outcome,
                   poisoned, ocrVars, ocr_asleep, ocrCloseVars, faults>>

-----------------------------------------------------------------------------
(* NativePoolResource::close_inner, by the thread that holds the gate.      *)

(* Mutation of TakeQueue: the jobs stay queued too. *)
CopyQueue ==
    /\ drained' = queue /\ UNCHANGED queue
    /\ closer' = "cancel"

(* The queue, once no slot is reserved any more. *)
TakeQueue ==
    /\ drained' = queue /\ queue' = <<>>
    /\ closer' = "cancel"

BeginClose ==
    /\ built = "ready" /\ closer = "idle" /\ lifecycle = "Open"
    /\ lifecycle' = "Closing"
    /\ IF reserved # 0
       THEN closer' = "drain" /\ UNCHANGED <<queue, drained>>
       ELSE TakeQueue
    /\ UNCHANGED <<reserved, in_flight, close_result, buildVars, callVars, jobVars,
                   workerVars, ocrVars, ocr_asleep, ocrCloseVars, live, faults>>
    /\ asleep' = {t \in asleep \cup {Closer} : Stuck(t)'}

DrainQueue ==
    /\ closer = "drain" /\ Closer \notin asleep
    /\ IF reserved # 0
       THEN asleep' = asleep \cup {Closer} /\ UNCHANGED <<queue, drained, closer>>
       ELSE TakeQueue /\ UNCHANGED asleep
    /\ UNCHANGED <<lifecycle, reserved, in_flight, close_result, buildVars, callVars,
                   jobVars, workerVars, ocrVars, ocr_asleep, ocrCloseVars, live, faults>>

CancelDrained ==
    /\ closer = "cancel"
    /\ IF drained # <<>>
       THEN /\ Finish(Head(drained), "PoolClosed")
            /\ drained' = Tail(drained)
            /\ UNCHANGED closer
       ELSE /\ closer' = "join"
            /\ UNCHANGED <<drained, jobVars>>
    /\ UNCHANGED <<poolVars, buildVars, callVars, workerVars, ocrVars, ocr_asleep, ocrCloseVars,
                   live, faults>>
    /\ IF drained = <<>> THEN Notify ELSE UNCHANGED asleep

Converged == in_flight = 0 /\ reserved = 0 /\ queue = <<>>

JoinWorkers ==
    /\ closer = "join"
    /\ \A w \in Workers : worker[w] = "exited"
    /\ close_result' = IF Converged THEN "Ok" ELSE "Internal"
    /\ lifecycle' = "Closed"
    /\ closer' = "done"
    /\ UNCHANGED <<reserved, queue, in_flight, buildVars, drained, callVars, jobVars,
                   workerVars, ocrVars, ocr_asleep, ocrCloseVars, live, faults>>
    /\ Notify

-----------------------------------------------------------------------------
(* OcrPoolResource::close_inner.  Its thread sleeps on the same condition   *)
(* variable as the workers; it is re-enabled when the counts reach zero,    *)
(* each change of which notifies.                                           *)

BeginOcrClose ==
    /\ built = "ready" /\ ocr_closer = "idle"
    /\ open' = FALSE
    /\ ocr_closer' = "wait"
    /\ UNCHANGED <<poolVars, buildVars, asleep, closeVars, callVars, jobVars, workerVars, created,
                   creating, borrowed, idle, waiters, ocr_result, live, faults>>
    /\ NotifyOcr

TakeIdleEngines ==
    /\ ocr_closer = "wait" /\ creating = 0 /\ borrowed = 0
    /\ created' = IF idle > created THEN 0 ELSE created - idle
    /\ ocr_result' = IF idle > created THEN "Internal" ELSE ocr_result
    /\ ocr_closer' = "drop"
    /\ UNCHANGED <<poolVars, buildVars, asleep, closeVars, callVars, jobVars, workerVars, open,
                   creating, borrowed, idle, waiters, ocr_asleep, live, faults>>

DropIdleEngines ==
    /\ ocr_closer = "drop"
    /\ live' = live - idle
    /\ idle' = 0
    /\ ocr_closer' = "settle"
    /\ UNCHANGED <<poolVars, buildVars, asleep, closeVars, callVars, jobVars, workerVars, open,
                   created, creating, borrowed, waiters, ocr_asleep, ocr_result, faults>>

SettleOcrClose ==
    /\ ocr_closer = "settle"
    /\ ocr_result' = IF ocr_result # "none" THEN ocr_result
                     ELSE IF created = 0 /\ creating = 0 /\ borrowed = 0 THEN "Ok"
                     ELSE "Internal"
    /\ ocr_closer' = "done"
    /\ UNCHANGED <<poolVars, buildVars, asleep, closeVars, callVars, jobVars, workerVars, ocrVars,
                   live, faults>>
    /\ NotifyOcr

-----------------------------------------------------------------------------
Construct ==
    \/ \E w \in Workers : Spawn(w) \/ WaitForStart(w)
    \/ ConstructionFails \/ JoinConstructedWorkers \/ Register \/ OpenGate

CallStep(j) ==
    \/ Admit(j) \/ Commit(j) \/ DropReservation(j) \/ AttachWaiter(j)
    \/ AnswerWithdrawn(j) \/ NotifyWithdrawn(j)

WorkerStep(w) ==
    \/ TakeJob(w) \/ RunJob(w) \/ CallNative(w) \/ FinishJob(w) \/ Release(w)
    \/ EnterEngineQueue(w) \/ ClaimEngine(w) \/ CreateEngine(w) \/ AdmitEngine(w)
    \/ Process(w) \/ DropLease(w) \/ DestroyEngine(w)

CloseStep == DrainQueue \/ CancelDrained \/ JoinWorkers

OcrCloseStep == TakeIdleEngines \/ DropIdleEngines \/ SettleOcrClose

Next ==
    \/ Construct
    \/ \E j \in Jobs : Submit(j) \/ CallStep(j) \/ Cancel(j) \/ RunHook(j)
    \/ \E w \in Workers : WorkerStep(w)
    \/ BeginClose \/ CloseStep
    \/ BeginOcrClose \/ OcrCloseStep

Spec == Init /\ [][Next]_vars

-----------------------------------------------------------------------------
(* Where a committed job that has no answer yet can be.                     *)
Holders(j) ==
    {<<"queue", i>> : i \in {i \in DOMAIN queue : queue[i] = j}}
    \cup {<<"drained", i>> : i \in {i \in DOMAIN drained : drained[i] = j}}
    \cup {<<"worker", w>> : w \in {w \in Workers : task[w] = j /\ worker[w] # "release"}}
    \cup {<<"canceller", i>> : i \in {i \in {j} : withdrawal[i] = "answer"}}

(* A job whose caller committed it is owned by exactly one of the queue, a  *)
(* worker, the closing thread and the thread whose cancel took it out of the*)
(* queue until it is finished, and is finished only once, whoever of cancel,*)
(* close and worker comes first (pool.rs finish asserts "native job         *)
(* completes exactly once").  A closed pool reports success and owes no     *)
(* answer itself: close does not wait for a cancel that took its job before *)
(* and has still to answer it.  A pool that failed to be built has left no  *)
(* worker behind.                                                           *)
JobsConserved ==
    \A j \in Jobs :
        /\ finishes[j] <= 1
        /\ call[j] \in {"committed", "wait"} =>
              Cardinality(Holders(j)) = (IF completion[j] = "none" THEN 1 ELSE 0)
        /\ closer = "done" =>
              /\ close_result = "Ok"
              /\ call[j] \in {"committed", "wait"} =>
                    completion[j] # "none" \/ withdrawal[j] = "answer"
        /\ built = "failed" => \A w \in Workers : worker[w] \in {"unborn", "exited"}

(* The books of the OCR pool: an engine in the books is idle or borrowed,   *)
(* never more than the capacity, and every engine object is in the books,   *)
(* in creation or about to be destroyed by the worker that counted it out.  *)
(* A closed pool has no engine in its books; when both pools are closed no  *)
(* engine is left in native memory, although it is counted out before it is *)
(* destroyed.                                                               *)
EnginesAccountedFor ==
    LET has(places) == Cardinality({w \in Workers : worker[w] \in places}) IN
    /\ created + creating <= MaxEngines
    /\ borrowed = has({"process", "lease"})
    /\ creating = has({"create", "created", "failed_create"})
    /\ ocr_closer \in {"idle", "wait"} => created = idle + borrowed
    /\ live = idle + borrowed + has({"created", "discard"})
    /\ ocr_closer = "done" =>
          ocr_result = "Ok" /\ created + creating + borrowed + idle = 0
    /\ closer = "done" /\ ocr_closer = "done" => live = 0

(* The threads that can take a step of their own.                           *)
CallerRuns(j) ==
    \/ call[j] = "admit" /\ j \notin asleep
    \/ call[j] \in {"reserved", "committed"}
    \/ firing[j] # {} \/ withdrawal[j] # "none"

WorkerRuns(w) == worker[w] \notin {"unborn", "exited"} /\ w \notin asleep \cup ocr_asleep

CloserRuns ==
    \/ closer = "drain" /\ Closer \notin asleep
    \/ closer = "cancel"
    \/ closer = "join" /\ \A w \in Workers : worker[w] = "exited"

OcrCloserRuns ==
    \/ ocr_closer = "wait" /\ creating = 0 /\ borrowed = 0
    \/ ocr_closer \in {"drop", "settle"}

(* Nobody waits for everybody: when no thread of a built pool can move, all *)
(* calls have returned and the closes that began have ended - a caller never*)
(* waits for a job that no worker will take, a worker never for an engine   *)
(* that nobody will give back, whichever pool is closed first.              *)
NobodyWaitsForNothing ==
    built = "ready" /\ ~CloserRuns /\ ~OcrCloserRuns
    /\ (\A j \in Jobs : ~CallerRuns(j)) /\ (\A w \in Workers : ~WorkerRuns(w))
    => /\ \A j \in Jobs : call[j] # "idle" => Returned(j)
       /\ closer \in {"idle", "done"}
       /\ ocr_closer \in {"idle", "done"}

Symmetry == Permutations(Jobs) \cup Permutations(Workers)
=============================================================================
