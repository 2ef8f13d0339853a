----------------------------- MODULE WriteLease -----------------------------
(***************************************************************************)
(* Who may write: acquiring the Automation lease of a Controller, against   *)
(* other acquirers, precise sequences and direct actions                    *)
(* (crates/easycon-controller/src/session.rs).                              *)
(*                                                                         *)
(* An acquirer is a future over an AcquireRecord. The record is resolved by *)
(* whoever reserves it first: the lane that grants or refuses, the hook of  *)
(* the caller's token, the thread that closes the Controller, or the future *)
(* itself when it is polled and sees a signal. Each reserves under the      *)
(* record's lock, makes the outcome outside it and publishes it under the   *)
(* lock again, and in between the future may be dropped. A granted lease    *)
(* that nobody takes has to find its way back to the lane.                  *)
(*                                                                         *)
(* The lane keeps one owner: a lease, or a sequence from the moment it      *)
(* enters until its last report or the neutral that cleans up after it. The *)
(* lease's own actions, the settlement gate of a report and a lane that     *)
(* panics are in ControllerLane; here a release is sealed in one step, a    *)
(* report has one outcome, and whether its time has come is not determined. *)
(***************************************************************************)
EXTENDS Naturals, Sequences, FiniteSets, SequencesExt, TLC

CONSTANTS Acquirers,  \* futures, each of one acquire_automation_lease
          Timed,      \* those with a deadline
          Cancellable,\* acquirers and operations whose token may be cancelled
          Precise,    \* precise sequences, of two reports each
          Direct,     \* direct actions, scheduled before any of these came
          Nobody,
          MaxFaults   \* bound: failures of transport, clock and registration

ASSUME LeaseAssumption ==
  /\ Timed \subseteq Acquirers /\ MaxFaults \in Nat
  /\ Acquirers \intersect (Precise \union Direct) = {}
  /\ Precise \intersect Direct = {} /\ IsFiniteSet(Direct)
  /\ Cancellable \subseteq Acquirers \union Precise \union Direct
  /\ Nobody \notin Acquirers \union Precise \union Direct

VARIABLES
  cancelled,  \* the tokens of acquirers and operations that are cancelled
  late,       \* acquirers whose deadline the clock has reached
  alarm,      \* DeadlineSignal of each acquirer
  rec,        \* AcquireRecord of each acquirer
  caller,     \* the task that acquires
  awake,      \* tasks whose waker was called
  resolver,   \* what each thread is doing in resolve_with
  registered, \* pending_acquires
  inbox,      \* the lane's command channel
  lane,       \* the lane's thread and its locals
  owner,      \* lease_owner
  cleanup,    \* automation_cleanup
  waiting,    \* waiting_sequence
  pending,    \* pending_reports
  op,         \* outcome of each sequence's and direct action's Operation
  conn,       \* ControllerState
  failed,     \* permanent_failure
  closer,     \* the thread in close_internal
  faults      \* how often something failed

signals == <<cancelled, late>>
future  == <<alarm, rec, caller, awake>>
port    == <<conn, failed, faults>>
writers == <<owner, cleanup, waiting, pending, op>>
vars    == <<signals, future, resolver, registered, inbox, lane, writers, port,
             closer>>

Ops == Precise \union Direct

Report(o, kind) == [op |-> o, kind |-> kind, out |-> "ok"]
Neutral(o, out) == [op |-> o, kind |-> "neutral", out |-> out]

Caller(r) == <<"caller", r>>
Hook(r)   == <<"hook", r>>
Lane      == <<"lane">>
Closer    == <<"closer">>
Threads   == {Lane, Closer} \union {Caller(r) : r \in Acquirers}
                            \union {Hook(r) : r \in Acquirers}
Free == [pc |-> "free", r |-> Nobody, out |-> "none"]

Init ==
  /\ cancelled = {} /\ late = {} /\ awake = {} /\ registered = {}
  /\ alarm = [r \in Acquirers |-> "none"]
  /\ rec = [r \in Acquirers |->
              [st |-> "none", out |-> "none", waker |-> FALSE]]
  /\ caller = [r \in Acquirers |-> "idle"]
  /\ resolver = [t \in Threads |-> Free]
  /\ inbox = << >> /\ pending = SetToSeq({Report(d, "direct") : d \in Direct})
  /\ lane = [pc |-> "top", who |-> Nobody, out |-> "none", then |-> "none"]
  /\ owner = Nobody /\ cleanup = Nobody /\ waiting = Nobody
  /\ op = [o \in Ops |-> IF o \in Direct THEN "running" ELSE "new"]
  /\ conn = "connected" /\ failed = FALSE
  /\ closer = [pc |-> "idle", todo |-> {}]
  /\ faults = 0

Closing == closer.pc # "idle"
ResourceCancelled == closer.pc = "join"
IsTerminal(o) == op[o] \in {"ok", "cancelled", "failed"}
Send(k) == inbox' = IF lane.pc = "ended" THEN inbox ELSE Append(inbox, k)

-----------------------------------------------------------------------------
(* AcquireRecord                                                            *)

(* observed_outcome; its reads are one step, so which of two signals that   *)
(* arrive during it is reported is fixed here                               *)
Signal(r) == IF r \in cancelled THEN "cancelled"
             ELSE IF r \in late THEN "deadline"
             ELSE IF Closing THEN "closed" ELSE "none"

(* t enters resolve_with; a visible signal replaces what it would say *)
Resolve(t, r, fallback) ==
  resolver' = [resolver EXCEPT ![t] =
    [Free EXCEPT !.pc = "reserve", !.r = r,
                 !.out = IF Signal(r) = "none" THEN fallback ELSE Signal(r)]]

ResolveVisible(t, r) ==
  IF Signal(r) = "none" THEN UNCHANGED resolver ELSE Resolve(t, r, Signal(r))

Reservable(r) == rec[r].st = "pending"

(* Mutation of Reserve: the lane becomes owned before the record is won. *)
OwnBeforeReserve(t) ==
  LET job == resolver[t]  r == job.r
  IN /\ job.pc = "reserve"
     /\ rec' = IF Reservable(r) THEN [rec EXCEPT ![r].st = "resolving"] ELSE rec
     /\ resolver' = [resolver EXCEPT ![t] = IF Reservable(r)
                       THEN [job EXCEPT !.pc = "publish"] ELSE Free]
     /\ owner' = IF job.out = "granted" THEN r ELSE owner
     /\ UNCHANGED <<signals, alarm, caller, awake, registered, inbox, lane,
                    cleanup, waiting, pending, op, port, closer>>

(* reserve_resolution, then the fallback: only the lane's grant has effects *)
Reserve(t) ==
  LET job == resolver[t]  r == job.r
  IN /\ job.pc = "reserve"
     /\ IF ~Reservable(r)
        THEN /\ resolver' = [resolver EXCEPT ![t] = Free]
             /\ UNCHANGED <<rec, owner>>
        ELSE /\ rec' = [rec EXCEPT ![r].st = "resolving"]
             /\ resolver' = [resolver EXCEPT ![t].pc = "publish"]
             /\ owner' = IF job.out = "granted" THEN r ELSE owner
     /\ UNCHANGED <<signals, alarm, caller, awake, registered, inbox, lane,
                    cleanup, waiting, pending, op, port, closer>>

Disarmed(r) == IF alarm[r] = "armed" THEN [alarm EXCEPT ![r] = "disarmed"]
               ELSE alarm

(* AutomationLease::drop and neutralize_and_release; after a permanent      *)
(* failure nothing is sent                                                  *)
Seal(r) == IF failed THEN UNCHANGED inbox ELSE Send(<<"begin", r>>)

(* publish_reserved: the outcome goes into the record and the wakers of the *)
(* record and of the deadline are called, or the future is gone and the     *)
(* outcome is dropped. Only this thread uses what it took out of the record *)
(* after unlocking it, so the whole is one step.                            *)
Publish(t) ==
  LET job == resolver[t]  r == job.r  gone == rec[r].st = "leaving"
  IN /\ job.pc = "publish" /\ resolver' = [resolver EXCEPT ![t] = Free]
     /\ rec' = [rec EXCEPT ![r] =
          [st |-> IF gone THEN "abandoned" ELSE "ready",
           out |-> IF gone THEN "none" ELSE job.out, waker |-> FALSE]]
     /\ alarm' = Disarmed(r)
     /\ awake' = IF ~gone /\ (rec[r].waker \/ alarm[r] = "armed")
                 THEN awake \union {r} ELSE awake
     /\ IF gone /\ job.out = "granted" THEN Seal(r) ELSE UNCHANGED inbox
     /\ UNCHANGED <<signals, caller, registered, lane, writers, port, closer>>

Resolving == \E t \in Threads : Reserve(t) \/ Publish(t)

-----------------------------------------------------------------------------
(* The future                                                               *)

CallerIs(r, pc) == caller[r] = pc /\ resolver[Caller(r)].pc = "free"
CallerTo(r, pc) == caller' = [caller EXCEPT ![r] = pc]
Fault == faults < MaxFaults /\ faults' = faults + 1

(* acquire_automation_lease. The deadline and the token's hook are          *)
(* registered, what is visible resolves the record, and under the admission *)
(* gate the record is noted for close and refused or sent. A signal between *)
(* the two acts as one before them, so they are one step. A deadline that   *)
(* cannot be registered is a failure.                                       *)
Request(r) ==
  /\ caller[r] = "idle" /\ CallerTo(r, "poll")
  /\ rec' = [rec EXCEPT ![r].st = "pending"]
  /\ registered' = registered \union {r}
  /\ IF failed \/ Closing THEN UNCHANGED inbox ELSE Send(<<"acquire", r>>)
  /\ \/ /\ alarm' = IF r \in Timed THEN [alarm EXCEPT ![r] = "armed"] ELSE alarm
        /\ IF failed THEN Resolve(Caller(r), r, "failure")
                     ELSE ResolveVisible(Caller(r), r)
        /\ UNCHANGED faults
     \/ /\ r \in Timed /\ Fault
        /\ Resolve(Caller(r), r, "failure") /\ UNCHANGED alarm
  /\ UNCHANGED <<signals, awake, lane, writers, conn, failed, closer>>

(* poll: the deadline's signal, which keeps the waker while it is armed,    *)
(* then every visible signal; if the first resolves the record, the second  *)
(* finds it reserved                                                        *)
Poll(r) ==
  /\ CallerIs(r, "poll") /\ CallerTo(r, "take")
  /\ CASE alarm[r] = "fired"    -> Resolve(Caller(r), r, "deadline")
       [] alarm[r] = "disarmed" -> Resolve(Caller(r), r, "closed")
       [] OTHER                 -> ResolveVisible(Caller(r), r)
  /\ UNCHANGED <<signals, alarm, rec, awake, registered, inbox, lane,
                 writers, port, closer>>

(* Mutation of StoresWaker: a record being resolved needs no waker. *)
StoresIfPending(r) == rec[r].st = "pending"

StoresWaker(r) == rec[r].st \in {"pending", "resolving"}

TakeOutcome(r) ==
  /\ CallerIs(r, "take")
  /\ IF rec[r].st = "ready"
     THEN /\ rec' = [rec EXCEPT ![r] = [st |-> "taken", out |-> "none",
                                        waker |-> FALSE]]
          /\ CallerTo(r, IF rec[r].out = "granted" THEN "holding" ELSE "done")
     ELSE /\ rec' = [rec EXCEPT ![r].waker = StoresWaker(r)]
          /\ CallerTo(r, "waiting")
  /\ UNCHANGED <<signals, alarm, awake, resolver, registered, inbox,
                 lane, writers, port, closer>>

PollAgain(r) ==
  /\ caller[r] = "waiting" /\ r \in awake
  /\ awake' = awake \ {r} /\ CallerTo(r, "poll")
  /\ UNCHANGED <<signals, alarm, rec, resolver, registered, inbox, lane,
                 writers, port, closer>>

(* AutomationLeaseAcquire::drop: abandon; an outcome that is ready goes too *)
Abandon(r) ==
  /\ CallerIs(r, caller[r]) /\ caller[r] \in {"poll", "waiting"}
  /\ CallerTo(r, "gone")
  /\ rec' = [rec EXCEPT ![r] =
       [st |-> IF rec[r].st \in {"resolving", "leaving"} THEN "leaving"
               ELSE "abandoned",
        out |-> "none", waker |-> FALSE]]
  /\ alarm' = Disarmed(r)
  /\ IF rec[r].st = "ready" /\ rec[r].out = "granted" THEN Seal(r)
     ELSE UNCHANGED inbox
  /\ UNCHANGED <<signals, awake, resolver, registered, lane, writers, port,
                 closer>>

Release(r) ==
  /\ caller[r] = "holding" /\ CallerTo(r, "done") /\ Seal(r)
  /\ UNCHANGED <<signals, alarm, rec, awake, resolver, registered, lane,
                 writers, port, closer>>

(* the token of an acquirer: its hook resolves the record, if it is still   *)
(* registered; one cancelled earlier is seen by Request                     *)
CancelAcquirer(r) ==
  /\ r \in Cancellable \ cancelled
  /\ caller[r] \notin {"done", "holding", "gone"}
  /\ cancelled' = cancelled \union {r}
  /\ IF caller[r] = "idle" THEN UNCHANGED resolver
     ELSE resolver' = [resolver EXCEPT ![Hook(r)] =
            [Free EXCEPT !.pc = "reserve", !.r = r, !.out = "cancelled"]]
  /\ UNCHANGED <<late, future, registered, inbox, lane, writers, port, closer>>

DeadlineReached(r) ==
  /\ r \in Timed \ late /\ late' = late \union {r}
  /\ caller[r] \notin {"done", "holding", "gone"}
  /\ UNCHANGED <<cancelled, future, resolver, registered, inbox, lane, writers,
                 port, closer>>

(* what DeadlineScheduler models: the signal resolves and wakes its waiter *)
AlarmFires(r) ==
  /\ r \in late /\ alarm[r] = "armed"
  /\ alarm' = [alarm EXCEPT ![r] = "fired"] /\ awake' = awake \union {r}
  /\ UNCHANGED <<signals, rec, caller, resolver, registered, inbox, lane,
                 writers, port, closer>>

Polling(r) == \/ Poll(r) \/ TakeOutcome(r) \/ PollAgain(r) \/ AlarmFires(r)

-----------------------------------------------------------------------------
(* Sequences: enqueue_precise_sequence *)

Submit(o) ==
  /\ op[o] = "new"
  /\ IF failed \/ Closing
     THEN /\ op' = [op EXCEPT ![o] = IF failed THEN "failed" ELSE "cancelled"]
          /\ UNCHANGED inbox
     ELSE op' = [op EXCEPT ![o] = "queued"] /\ Send(<<"sequence", o>>)
  /\ UNCHANGED <<signals, future, resolver, registered, lane, owner, cleanup,
                 waiting, pending, port, closer>>

CancelOp(o) ==
  /\ o \in Cancellable \ cancelled /\ op[o] \in {"queued", "running"}
  /\ cancelled' = cancelled \union {o}
  /\ UNCHANGED <<late, future, resolver, registered, inbox, lane, writers, port,
                 closer>>

-----------------------------------------------------------------------------
(* The thread in close_internal                                             *)

CloseIntent ==
  /\ closer.pc = "idle"
  /\ closer' = [pc |-> "drain", todo |-> {}]
  /\ conn' = IF conn = "connected" THEN "disconnecting" ELSE conn
  /\ UNCHANGED <<signals, future, resolver, registered, inbox, lane, writers,
                 failed, faults>>

(* settle_pending_acquires *)
DrainAcquires ==
  /\ closer.pc = "drain"
  /\ closer' = [pc |-> "settle", todo |-> registered] /\ registered' = {}
  /\ UNCHANGED <<signals, future, resolver, inbox, lane, writers, port>>

SettleAcquire ==
  /\ closer.pc = "settle" /\ resolver[Closer].pc = "free"
  /\ \E r \in closer.todo : /\ closer' = [closer EXCEPT !.todo = @ \ {r}]
                            /\ Resolve(Closer, r, "closed")
  /\ UNCHANGED <<signals, future, registered, inbox, lane, writers, port>>

(* resource_cancellation.cancel(), then Close is sent: until it is there    *)
(* the lane does nothing that it would not do with it                       *)
SendClose ==
  /\ closer.pc = "settle" /\ closer.todo = {} /\ resolver[Closer].pc = "free"
  /\ closer' = [closer EXCEPT !.pc = "join"]
  /\ Send(<<"close", Nobody>>)
  /\ UNCHANGED <<signals, future, resolver, registered, lane, writers, port>>

CloseNext == DrainAcquires \/ SettleAcquire \/ SendClose
CloseReturned == closer.pc = "join" /\ lane.pc = "ended"

-----------------------------------------------------------------------------
(* The lane: its reports                                                    *)

At(pc) == lane.pc = pc /\ resolver[Lane].pc = "free"
Goto(pc) == lane' = [lane EXCEPT !.pc = pc]

(* The entries of s that are in E, in their order. *)
Kept(s, E) ==
  LET rank == [i \in 0..Len(s) |-> Cardinality({j \in 1..i : s[j] \in E})]
  IN [k \in 1..rank[Len(s)] |->
        s[CHOOSE i \in DOMAIN s : s[i] \in E /\ rank[i] = k]]

Without(o) == Kept(pending, {e \in ToSet(pending) : e.op # o})
PendingOps == {pending[i].op : i \in DOMAIN pending} \ {Nobody}
Settled(S, out) == [o \in Ops |-> IF o \in S /\ ~IsTerminal(o) THEN out
                                  ELSE op[o]]

(* Mutation of ReleasedBy: a sequence's end leaves the owner. *)
ReleasedByLease(x) == IF owner = x /\ x \in Acquirers THEN Nobody ELSE owner

(* release_sequence, release_automation_lease: only by the owner *)
ReleasedBy(x) == IF owner = x THEN Nobody ELSE owner

(* schedule_cancel_cleanup, schedule_failure_cleanup: the neutral goes      *)
(* first, the operation's other reports go away                             *)
CleanUp(o, out) == pending' = <<Neutral(o, out)>> \o Without(o)

(* observe_cancellation; once the resource is cancelled every operation is *)
Observe ==
  LET C == cancelled \union (IF ResourceCancelled
                             THEN PendingOps \union {waiting} ELSE {})
      hit == SelectInSeq(pending, LAMBDA e : e.kind # "neutral" /\ e.op \in C)
  IN /\ cancelled' = C \ {Nobody}
     /\ IF pending = << >> /\ waiting # Nobody /\ waiting \in C
        THEN pending' = <<Neutral(waiting, "cancelled")>> /\ waiting' = Nobody
        ELSE /\ UNCHANGED waiting
             /\ IF hit = 0 THEN UNCHANGED pending
                ELSE CleanUp(pending[hit].op, "cancelled")

(* the sections of a pass that have something to do *)
AfterReports(p, w) == IF cleanup # Nobody THEN "cleanup"
                      ELSE IF p = << >> /\ w # Nobody THEN "activate"
                      ELSE "take"

Top ==
  /\ At("top")
  /\ IF ResourceCancelled
     THEN Goto("await") /\ UNCHANGED <<cancelled, pending, waiting>>
     ELSE /\ Observe
          /\ Goto(IF pending' # << >> THEN "dispatch"
                  ELSE AfterReports(pending', waiting'))
  /\ UNCHANGED <<late, future, resolver, registered, inbox, owner, cleanup, op,
                 port, closer>>

(* dispatch_due_reports: nothing there, or nothing due yet *)
NothingDue ==
  /\ At("dispatch") /\ Goto(AfterReports(pending, waiting))
  /\ UNCHANGED <<signals, future, resolver, registered, inbox, writers, port,
                 closer>>

DispatchFront ==
  /\ At("dispatch") /\ pending # << >>
  /\ IF pending[1].kind # "neutral" /\ pending[1].op \in cancelled
     THEN Observe /\ UNCHANGED lane
     ELSE Goto("write") /\ UNCHANGED <<cancelled, pending, waiting>>
  /\ UNCHANGED <<late, future, resolver, registered, inbox, owner, cleanup, op,
                 port, closer>>

(* the rest of a report's handling: its operation is settled after the      *)
(* lease was released, then the loop goes on or drops what is left          *)
SettleNext(o, out, then) ==
  lane' = [pc |-> "settle", who |-> o, out |-> out, then |-> then]

ReportAccepted ==
  /\ At("write") /\ conn # "disconnected" /\ pending' = Tail(pending)
  /\ LET e == pending[1]
     IN IF e.kind = "step" THEN Goto("dispatch") /\ UNCHANGED owner
        ELSE SettleNext(e.op, e.out, "dispatch") /\ owner' = ReleasedBy(e.op)
  /\ UNCHANGED <<signals, future, resolver, registered, inbox, cleanup, waiting,
                 op, port, closer>>

Settle ==
  /\ At("settle") /\ op' = Settled({lane.who}, lane.out)
  /\ lane' = [pc |-> lane.then, who |-> Nobody, out |-> "none", then |-> "none"]
  /\ UNCHANGED <<signals, future, resolver, registered, inbox, owner, cleanup,
                 waiting, pending, port, closer>>

(* a write that fails may take the stream with it; once close is intended   *)
(* the state no longer tells, and a write then has either outcome           *)
Dropped == IF conn = "connected" THEN "disconnected" ELSE conn
Breaks == conn' \in {conn, Dropped}
MayFail == Fault \/ (conn # "connected" /\ UNCHANGED faults)

WriteInterrupted ==
  /\ At("write") /\ pending[1].kind # "neutral"
  /\ pending[1].op \in cancelled \/ ResourceCancelled
  /\ CleanUp(pending[1].op, "cancelled") /\ Breaks /\ Goto("dispatch")
  /\ UNCHANGED <<signals, future, resolver, registered, inbox, owner, cleanup,
                 waiting, op, failed, faults, closer>>

WriteFails ==
  /\ At("write") /\ pending[1].kind # "neutral" /\ MayFail /\ Breaks
  /\ CleanUp(pending[1].op, IF pending[1].op \in cancelled THEN "cancelled"
                                                           ELSE "failed")
  /\ Goto("dispatch")
  /\ UNCHANGED <<signals, future, resolver, registered, inbox, owner, cleanup,
                 waiting, op, failed, closer>>

(* a cleanup that cannot be delivered still ends its operation *)
NeutralFails ==
  LET e == pending[1]
  IN /\ At("write") /\ e.kind = "neutral" /\ MayFail /\ Breaks
     /\ pending' = Without(e.op) /\ owner' = ReleasedBy(e.op)
     /\ SettleNext(e.op, e.out, IF conn' = "disconnected" THEN "drop"
                                                          ELSE "dispatch")
     /\ UNCHANGED <<signals, future, resolver, registered, inbox, cleanup,
                    waiting, op, failed, closer>>

(* A stream that cannot be closed is lost for good. *)
LosesStream == Fault /\ failed' = TRUE /\ conn' = Dropped

(* seal_after_cleanup_failure: what is scheduled fails; a report releases   *)
(* its sequence before it is settled, a neutral does not                    *)
StreamLost ==
  LET rest == ToSet(Tail(pending))
      released == {e.op : e \in {x \in rest : x.kind # "neutral"}}
                  \union {waiting, cleanup}
  IN /\ At("write") /\ LosesStream
     /\ op' = Settled({e.op : e \in rest} \union {waiting}, "failed")
     /\ owner' = IF owner \in released THEN Nobody ELSE owner
     /\ cleanup' = Nobody /\ waiting' = Nobody /\ pending' = << >>
     /\ lane' = [pc |-> "seal", who |-> pending[1].op, out |-> "failed",
                 then |-> "dispatch"]
     /\ UNCHANGED <<signals, future, resolver, registered, inbox, closer>>

(* its end: nobody owns; then the report that was written is settled *)
FreeLane ==
  /\ At("seal") /\ Goto("settle") /\ owner' = Nobody
  /\ UNCHANGED <<signals, future, resolver, registered, inbox, cleanup, waiting,
                 pending, op, port, closer>>

(* fail_pending_disconnected *)
DropPending ==
  /\ At("drop") /\ Goto("dispatch")
  /\ op' = Settled(PendingOps \union {waiting}, "failed")
  /\ owner' = IF owner \in PendingOps \union {waiting} THEN Nobody ELSE owner
  /\ pending' = << >> /\ waiting' = Nobody
  /\ UNCHANGED <<signals, future, resolver, registered, inbox, cleanup, conn,
                 failed, faults, closer>>

(* where the stream is lost with it, nobody owns any more when what was     *)
(* scheduled is settled                                                     *)
SealLane ==
  /\ LosesStream /\ owner' = Nobody /\ cleanup' = Nobody /\ waiting' = Nobody
  /\ pending' = << >> /\ op' = Settled(PendingOps \union {waiting}, "failed")
  /\ UNCHANGED <<signals, future, resolver, registered, inbox, closer>>

DropLost == At("drop") /\ Goto("dispatch") /\ SealLane

(* dispatch_automation_cleanup: not there or not due, its neutral accepted, *)
(* not delivered, or its stream lost                                        *)
NoCleanup ==
  /\ At("cleanup") /\ Goto("activate")
  /\ UNCHANGED <<signals, future, resolver, registered, inbox, writers, port,
                 closer>>

DispatchCleanup ==
  /\ At("cleanup") /\ cleanup # Nobody /\ Goto("activate")
  /\ \/ conn = "connected" /\ UNCHANGED <<conn, faults>>
     \/ MayFail /\ conn' = Dropped
  /\ owner' = ReleasedBy(cleanup) /\ cleanup' = Nobody
  /\ UNCHANGED <<signals, future, resolver, registered, inbox, waiting, pending,
                 op, failed, closer>>

(* a lease owned: there is nothing scheduled that its seal would settle *)
CleanupLost ==
  /\ At("cleanup") /\ cleanup # Nobody /\ conn = "connected"
  /\ Goto("activate") /\ SealLane

(* schedule_sequence; a target past the end of the clock fails it *)
Schedule(s) ==
  \/ pending' = <<Report(s, "step"), Report(s, "final")>> /\ UNCHANGED faults
  \/ pending' = <<Neutral(s, "failed")>> /\ Fault

(* activate_waiting_sequence *)
Activate ==
  /\ At("activate") /\ Goto("take")
  /\ IF pending = << >> /\ waiting # Nobody
     THEN /\ waiting' = Nobody
          /\ IF waiting \in cancelled
             THEN /\ pending' = <<Neutral(waiting, "cancelled")>>
                  /\ UNCHANGED faults
             ELSE Schedule(waiting)
     ELSE UNCHANGED <<waiting, pending, faults>>
  /\ UNCHANGED <<signals, future, resolver, registered, inbox, owner, cleanup,
                 op, conn, failed, closer>>

Reporting == \/ Top \/ NothingDue \/ DispatchFront \/ ReportAccepted \/ Settle
             \/ WriteInterrupted \/ WriteFails \/ NeutralFails \/ StreamLost
             \/ FreeLane \/ DropPending \/ DropLost \/ NoCleanup
             \/ DispatchCleanup \/ CleanupLost \/ Activate

-----------------------------------------------------------------------------
(* The lane: its commands                                                   *)

Take(kind) == /\ At("take") /\ inbox # << >> /\ inbox[1][1] = kind
              /\ inbox' = Tail(inbox)

(* a timeout of the next report or cleanup *)
WaitEnds ==
  /\ At("take") /\ (pending # << >> \/ cleanup # Nobody) /\ Goto("top")
  /\ UNCHANGED <<signals, future, resolver, registered, inbox, writers, port,
                 closer>>

(* the lane shows its grant or refusal to the record, whose signals go      *)
(* first; after a permanent failure it only refuses                         *)
TakeAcquire ==
  /\ Take("acquire")
  /\ IF failed
     THEN Goto("top") /\ Resolve(Lane, inbox[1][2], "failure")
     ELSE /\ lane' = [lane EXCEPT !.pc = "acquire", !.who = inbox[1][2]]
          /\ ResolveVisible(Lane, inbox[1][2])
  /\ UNCHANGED <<signals, future, registered, writers, port, closer>>

Busy == owner # Nobody \/ waiting # Nobody \/ pending # << >>
        \/ cleanup # Nobody

Verdict == CASE conn \in {"disconnecting", "closed"} -> "closed"
             [] conn = "disconnected" -> "failure"
             [] ResourceCancelled     -> "closed"
             [] Busy                  -> "failure"
             [] OTHER                 -> "granted"

Acquire ==
  /\ At("acquire") /\ Resolve(Lane, lane.who, Verdict)
  /\ lane' = [lane EXCEPT !.pc = "top", !.who = Nobody]
  /\ UNCHANGED <<signals, future, registered, inbox, writers, port, closer>>

(* the cleanup of a release that reached the lane: only its owner has one *)
Collected(r) == IF cleanup = Nobody /\ owner = r THEN r ELSE cleanup

(* begin_automation_lease_release *)
TakeBegin ==
  /\ Take("begin") /\ Goto("top")
  /\ LET r == inbox[1][2]
     IN IF failed THEN owner' = ReleasedBy(r) /\ UNCHANGED cleanup
        ELSE cleanup' = Collected(r) /\ UNCHANGED owner
  /\ UNCHANGED <<signals, future, resolver, registered, waiting, pending, op,
                 port, closer>>

Refusal(s) == CASE failed            -> "failed"
                [] s \in cancelled   -> "cancelled"
                [] conn # "connected" \/ owner # Nobody -> "failed"
                [] OTHER             -> "none"

(* handle_sequence: it owns the lane from here, and waits for the reports   *)
(* that are already scheduled                                               *)
TakeSequence ==
  /\ Take("sequence") /\ Goto("top")
  /\ LET s == inbox[1][2]
     IN IF Refusal(s) # "none"
        THEN /\ op' = Settled({s}, Refusal(s))
             /\ UNCHANGED <<owner, pending, waiting, faults>>
        ELSE /\ op' = [op EXCEPT ![s] = "running"] /\ owner' = s
             /\ IF pending = << >> THEN Schedule(s) /\ UNCHANGED waiting
                ELSE waiting' = s /\ UNCHANGED <<pending, faults>>
  /\ UNCHANGED <<signals, future, resolver, registered, cleanup, conn, failed,
                 closer>>

(* close_lane begins; await_close_command takes its command out of order *)
CloseLane ==
  /\ \/ Take("close")
     \/ /\ At("await")
        /\ \E i \in DOMAIN inbox : /\ inbox[i][1] = "close"
                                  /\ inbox' = RemoveAt(inbox, i)
  /\ Goto("collect")
  /\ conn' = IF conn = "connected" THEN "disconnecting" ELSE conn
  /\ UNCHANGED <<signals, future, resolver, registered, writers, failed,
                 faults, closer>>

(* collect_command_during_close; what was scheduled or waiting stays until  *)
(* the operations are settled                                               *)
Collect ==
  /\ At("collect") /\ inbox # << >> /\ inbox' = Tail(inbox) /\ UNCHANGED lane
  /\ LET r == inbox[1][2]
     IN CASE inbox[1][1] = "acquire" -> Resolve(Lane, r, "closed")
                                        /\ UNCHANGED cleanup
          [] inbox[1][1] = "begin" ->
               cleanup' = Collected(r) /\ UNCHANGED resolver
          [] OTHER -> UNCHANGED <<resolver, cleanup>>
  /\ UNCHANGED <<signals, future, registered, owner, waiting, pending, op, port,
                 closer>>

(* the final neutral, whatever comes of it, then nobody owns *)
FinalNeutral ==
  /\ At("collect") /\ inbox = << >> /\ Goto("finish")
  /\ owner' = Nobody /\ cleanup' = Nobody
  /\ UNCHANGED <<signals, future, resolver, registered, inbox, waiting, pending,
                 op, port, closer>>

(* close_transport and the settlement of every operation *)
FinishClose ==
  /\ At("finish") /\ Goto("ended") /\ inbox' = << >>
  /\ conn' = "closed" /\ pending' = << >> /\ waiting' = Nobody
  /\ \E lost \in BOOLEAN :
       /\ IF lost THEN Fault ELSE UNCHANGED faults
       /\ failed' = (failed \/ lost)
       /\ op' = Settled({o \in Ops : op[o] # "new"},
                        IF lost THEN "failed" ELSE "cancelled")
  /\ UNCHANGED <<signals, future, resolver, registered, owner, cleanup, closer>>

Commands == \/ WaitEnds \/ TakeAcquire \/ Acquire \/ TakeBegin \/ TakeSequence
            \/ CloseLane \/ Collect \/ FinalNeutral \/ FinishClose

-----------------------------------------------------------------------------
Progress == \/ Resolving \/ Reporting \/ Commands \/ CloseNext
            \/ \E r \in Acquirers : Polling(r)

Next == \/ Progress \/ CloseIntent
        \/ \E r \in Acquirers : \/ Request(r) \/ Abandon(r) \/ Release(r)
                                \/ CancelAcquirer(r) \/ DeadlineReached(r)
        \/ \E s \in Precise : Submit(s)
        \/ \E o \in Ops : CancelOp(o)

Spec == Init /\ [][Next]_vars

-----------------------------------------------------------------------------
(* Properties                                                               *)

(* Where a granted lease can be: with the thread that resolves the record,  *)
(* in the record, or with the caller.                                       *)
Held(r) == \/ \E t \in Threads : /\ resolver[t].r = r
                                 /\ resolver[t].out = "granted"
                                 /\ resolver[t].pc = "publish"
           \/ rec[r].st = "ready" /\ rec[r].out = "granted"
           \/ caller[r] = "holding"

BeingReleased(r) == cleanup = r \/ <<"begin", r>> \in ToSet(inbox)

Writing(s) == s \in PendingOps \/ waiting = s

(* The lane's owner and the lease agree, whoever resolved, dropped or       *)
(* cancelled the acquisition: an owner that is a lease is held by someone   *)
(* or on its way back, so the Controller is never left leased to nobody; a  *)
(* lease someone holds is the owner's until the lane closes or fails for    *)
(* good; and while it is, nothing is scheduled that is not the lease's      *)
(* (AcquireRecord, set_lease_owner).                                        *)
LeaseHasOneHolder ==
  /\ \A r \in Acquirers :
       /\ owner = r => Held(r) \/ BeingReleased(r)
       /\ Held(r) /\ ~failed /\ lane.pc \notin {"finish", "ended"} => owner = r
  /\ owner \in Acquirers => pending = << >> /\ waiting = Nobody

(* A sequence writes only while it owns the Controller, and whoever learns  *)
(* that it ended, in whatever way, finds the Controller free of it          *)
(* (release_sequence comes before every settlement of its operation).       *)
EndedMeansReleased ==
  \A s \in Precise :
    /\ owner = s => op[s] = "running"
    /\ Writing(s) /\ lane.pc \notin {"finish", "ended"} => owner = s

(* Who can go on by itself, without a new request, signal or release: the   *)
(* guards of Progress.                                                      *)
LaneMoves ==
  /\ resolver[Lane].pc = "free" /\ lane.pc # "ended"
  /\ lane.pc = "take" => inbox # << >> \/ pending # << >> \/ cleanup # Nobody
  /\ lane.pc = "await" => <<"close", Nobody>> \in ToSet(inbox)

CloserMoves ==
  closer.pc = "drain" \/ (closer.pc = "settle" /\ resolver[Closer].pc = "free")

CallerMoves(r) ==
  \/ CallerIs(r, "poll") \/ CallerIs(r, "take")
  \/ caller[r] = "waiting" /\ r \in awake
  \/ r \in late /\ alarm[r] = "armed"

SomebodyMoves ==
  \/ LaneMoves \/ CloserMoves
  \/ \E t \in Threads : resolver[t].pc # "free"
  \/ \E r \in Acquirers : CallerMoves(r)

(* Nobody waits for an answer that will not come: when nothing in the       *)
(* Controller can move any more, every acquirer has its outcome, every      *)
(* operation is settled and close has returned. A waker that is stored but  *)
(* not called, or called before it is stored, shows here.                   *)
NobodyWaitsForever ==
  ~SomebodyMoves =>
    /\ \A r \in Acquirers : caller[r] \in {"idle", "holding", "done", "gone"}
    /\ \A o \in Ops : op[o] = "new" \/ IsTerminal(o)
    /\ closer.pc = "idle" \/ CloseReturned
=============================================================================
