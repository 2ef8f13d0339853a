---------------------------- MODULE ControllerLane ----------------------------
(***************************************************************************)
(* The writer lane of a Controller with one Automation lease               *)
(* (crates/easycon-controller/src/session.rs).                             *)
(*                                                                         *)
(* Direct actions, some of them admitted through the lease, become         *)
(* operations whose settlement owner sits in a shared record. Four kinds of *)
(* threads touch these records: the lane, which writes the reports; the    *)
(* threads that submit; the thread that releases the lease, which seals the *)
(* generation; and the thread that closes the Controller. A report's effect *)
(* is fixed when the transport takes its last byte, and everything else has *)
(* to agree with that.                                                      *)
(*                                                                         *)
(* Time is relative: since is the time since the last accepted report, and *)
(* a due time is the time still to go, both cut off where they stop         *)
(* mattering. A report's contents are left out. So are precise sequences,   *)
(* request-response commands, Amiibo, connecting, and acquiring a lease:    *)
(* the model starts connected, with a lease just granted.                   *)
(***************************************************************************)
EXTENDS Naturals, Sequences, FiniteSets, SequencesExt, TLC

CONSTANTS Actions,      \* direct actions, each submitted once
          Interval,     \* options.minimum_report_interval_ns
          SharedLease,  \* the lease may be released during a submission
          MaxFaults     \* bound: failures of the transport

ASSUME LaneAssumption ==
  Interval \in Nat \ {0} /\ SharedLease \in BOOLEAN /\ MaxFaults \in Nat

VARIABLES
  leased,    \* the actions submitted through the lease
  op,        \* Operation of each action: reason, outcome
  rec,       \* OperationSettlementRecord of each action
  sub,       \* the submitting thread of each action
  gen,       \* LeaseGeneration gate: sealed, actions
  releaser,  \* the thread in request_cleanup
  rel,       \* ReleaseRecord
  registry,  \* ReleaseInterruptRegistry
  fail,      \* permanent_failure: none, proven or lost
  closer,    \* the thread in close_internal
  inbox,     \* the lane's command channel, wakes apart
  wake,      \* a Wake is in the channel
  lane,      \* the lane's thread and its locals
  pending,   \* pending_reports
  cleanup,   \* automation_cleanup
  lease,     \* lease_owner
  conn,      \* ControllerState
  stream,    \* the transport's stream is open
  since,     \* time since the last accepted report
  accepted,  \* history: actions whose report was accepted to the last byte
  early,     \* history: kinds of report accepted before their interval
  lastSent,  \* history: what the device was sent last
  faults     \* how many times the transport failed

ops   == <<op, rec>>
users == <<sub, gen, releaser, closer>>
port  == <<conn, stream, faults>>
past  == <<accepted, early, lastSent>>
queue == <<pending, cleanup, lease>>
vars  == <<leased, op, rec, users, rel, registry, fail, inbox, wake, lane,
           queue, port, since, past>>

Never == Interval + 1

NoEntry == [a |-> "none", kind |-> "none", due |-> 0, then |-> "none",
            auto |-> FALSE]
NoCleanup == [on |-> FALSE, target |-> 0]

-----------------------------------------------------------------------------
(* What other threads can see                                               *)

Closing == closer # "idle"
ResourceCancelled == closer \in {"cancelled", "joining", "takeover", "done"}
LaneAlive == lane.pc \notin {"ended", "panicked"}
IsTerminal(a) == op[a].outcome # "none"

Paced == Interval - since

(* LeaseGeneration::actions_settled *)
Reservations ==
  {a \in leased : sub[a] \in {"reserved", "created", "resolve", "refuse"}}
(* Mutation of ActionsSettled: admissions under way are forgotten. *)
SettledWithoutReservations == \A a \in gen.actions : IsTerminal(a)

ActionsSettled ==
  /\ Reservations = {}
  /\ \A a \in gen.actions : IsTerminal(a)

-----------------------------------------------------------------------------
(* Settlement of operations. Taking the owner out of the record decides who *)
(* settles; these say what becomes of the operations in S.                  *)

HasOwner(r) == r.st \in {"notDispatched", "outstanding"}

(* request_cancel(ParentClose) of an owned operation: the intent alone *)
Requested(o, S) ==
  [a \in Actions |-> IF a \in S /\ ~IsTerminal(a) /\ o[a].reason = "none"
                     THEN [o[a] EXCEPT !.reason = "parent"] ELSE o[a]]

Cancelled(o) == [o EXCEPT !.reason = IF @ = "none" THEN "parent" ELSE @,
                          !.outcome = "cancelled"]
FailedOrCancelled(o) == IF o.reason # "none" THEN Cancelled(o)
                        ELSE [o EXCEPT !.outcome = "failed"]
StrictlyFailed(o) == [o EXCEPT !.outcome = "strict"]

AfterCancellation(o, S) ==
  [a \in Actions |-> IF a \in S /\ HasOwner(rec[a]) THEN Cancelled(o[a])
                                                    ELSE o[a]]
AfterFailure(o, S) ==
  [a \in Actions |-> IF a \in S /\ HasOwner(rec[a])
                     THEN FailedOrCancelled(o[a]) ELSE o[a]]
OwnersTaken(S, st) ==
  [a \in Actions |-> IF a \in S /\ HasOwner(rec[a])
                     THEN [rec[a] EXCEPT !.st = st] ELSE rec[a]]

(* settle_strict_failure: owners and finished claims are settled, a record  *)
(* whose claim is under way only remembers the failure                      *)
AfterStrict(o, S) ==
  [a \in Actions |-> IF a \in S /\ (HasOwner(rec[a]) \/ rec[a].st = "claimed")
                     THEN StrictlyFailed(o[a]) ELSE o[a]]
StrictRecords(S) ==
  [a \in Actions |->
     IF a \notin S THEN rec[a]
     ELSE IF HasOwner(rec[a]) \/ rec[a].st = "claimed"
          THEN [rec[a] EXCEPT !.st = "failed"]
     ELSE IF rec[a].st \in {"reserved", "claiming"}
          THEN [rec[a] EXCEPT !.strict = TRUE]
     ELSE rec[a]]

-----------------------------------------------------------------------------
(* ReleaseRecord *)

(* Mutation of Complete: a later outcome replaces an earlier one. *)
CompleteAgain(r, out) ==
  IF r.st = "none" THEN r ELSE [r EXCEPT !.st = "committed", !.out = out]

Complete(r, out) ==
  IF r.st \in {"none", "committed"} THEN r
  ELSE [r EXCEPT !.st = "committed", !.out = out]

(* request_close_interrupt: before the backend's gate close becomes owner *)
Interrupt(r) ==
  IF r.st \in {"undispatched", "outstanding"} THEN [r EXCEPT !.close = TRUE]
                                              ELSE r

(* The same through the registry, which knows the record once it is tracked *)
Interrupted == IF registry.tracked THEN Interrupt(rel) ELSE rel

-----------------------------------------------------------------------------
Init ==
  /\ leased \in SUBSET Actions
  /\ op = [a \in Actions |-> [reason |-> "none", outcome |-> "none"]]
  /\ rec = [a \in Actions |-> [st |-> "absent", strict |-> FALSE]]
  /\ sub = [a \in Actions |-> "idle"]
  /\ gen = [sealed |-> FALSE, actions |-> {}]
  /\ releaser = [pc |-> "idle", todo |-> {}, cur |-> "none",
                 failure |-> FALSE]
  /\ rel = [st |-> "none", close |-> FALSE, out |-> "none"]
  /\ registry = [tracked |-> FALSE, closing |-> FALSE, settled |-> FALSE,
                 projection |-> "none"]
  /\ fail = "none"
  /\ closer = "idle"
  /\ inbox = << >> /\ wake = FALSE
  /\ lane = [pc |-> "top", cur |-> NoEntry, timer |-> Never,
             consumed |-> FALSE, held |-> {}, closing |-> FALSE,
             connected |-> FALSE]
  /\ pending = << >> /\ cleanup = NoCleanup /\ lease = "automation"
  /\ conn = "connected" /\ stream = TRUE /\ faults = 0
  /\ since = Interval
  /\ accepted = {} /\ early = {} /\ lastSent = "none"

Goto(pc) == lane' = [lane EXCEPT !.pc = pc]
SubTo(a, pc) == sub' = [sub EXCEPT ![a] = pc]

-----------------------------------------------------------------------------
(* Submitting an action                                                     *)

(* direct_with_lease and the first half of admit: take a reservation *)
Reserve(a) ==
  /\ a \in leased /\ sub[a] = "idle"
  /\ SubTo(a, IF fail # "none" \/ Closing \/ gen.sealed THEN "refused"
                                                        ELSE "reserved")
  /\ UNCHANGED <<leased, ops, gen, releaser, closer, rel, registry, fail,
                 inbox, wake, lane, queue, port, since, past>>

(* enqueue_owned_direct up to the admission gate: the operation exists and *)
(* its owner is in a new record                                            *)
Create(a) ==
  /\ sub[a] = IF a \in leased THEN "reserved" ELSE "idle"
  /\ IF fail # "none" \/ Closing
     THEN /\ SubTo(a, IF a \in leased THEN "refuse" ELSE "refused")
          /\ UNCHANGED rec
     ELSE /\ SubTo(a, "created")
          /\ rec' = [rec EXCEPT ![a].st = "notDispatched"]
  /\ UNCHANGED <<leased, op, gen, releaser, closer, rel, registry, fail,
                 inbox, wake, lane, queue, port, since, past>>

Admitted(a) == SubTo(a, IF a \in leased THEN "resolve" ELSE "done")
Turned(a) == SubTo(a, IF a \in leased THEN "refuse" ELSE "refused")

(* enqueue_owned_direct under the admission gate, and the settlement of the *)
(* record nobody else knows yet when the gate is shut or the lane is gone   *)
Send(a) ==
  /\ sub[a] = "created"
  /\ \/ /\ fail # "none"
        /\ Turned(a)
        /\ op' = AfterStrict(op, {a}) /\ rec' = StrictRecords({a})
        /\ UNCHANGED inbox
     \/ /\ fail = "none" /\ Closing
        /\ Turned(a)
        /\ op' = AfterCancellation(op, {a})
        /\ rec' = OwnersTaken({a}, "finished")
        /\ UNCHANGED inbox
     \/ /\ fail = "none" /\ ~Closing /\ LaneAlive
        /\ Admitted(a)
        /\ inbox' = Append(inbox, [k |-> "direct", a |-> a])
        /\ UNCHANGED ops
     \/ /\ fail = "none" /\ ~Closing /\ ~LaneAlive
        /\ Admitted(a)
        /\ op' = AfterCancellation(op, {a})
        /\ rec' = OwnersTaken({a}, "finished")
        /\ UNCHANGED inbox
  /\ UNCHANGED <<leased, gen, releaser, closer, rel, registry, fail, wake,
                 lane, queue, port, since, past>>

(* The second half of admit: give the reservation back. When the generation *)
(* was sealed meanwhile, an action that is not dispatched is rejected here. *)
Resolve(a) ==
  /\ sub[a] \in {"resolve", "refuse"}
  /\ \/ /\ sub[a] = "refuse"
        /\ SubTo(a, IF gen.sealed THEN "wakeRefused" ELSE "refused")
        /\ UNCHANGED <<gen, rec>>
     \/ /\ sub[a] = "resolve"
        /\ gen' = [gen EXCEPT !.actions = @ \union {a}]
        /\ IF gen.sealed /\ rec[a].st = "notDispatched"
           THEN /\ rec' = [rec EXCEPT ![a].st = "finished"]
                /\ SubTo(a, "reject")
           ELSE /\ UNCHANGED rec
                /\ SubTo(a, IF gen.sealed THEN "dispatched" ELSE "done")
  /\ UNCHANGED <<leased, op, releaser, closer, rel, registry, fail, inbox,
                 wake, lane, queue, port, since, past>>

(* SealedAdmissionResolution::Rejected, settled outside the gate *)
Reject(a) ==
  /\ sub[a] = "reject"
  /\ op' = [op EXCEPT ![a] = IF fail # "none" THEN StrictlyFailed(@)
                                              ELSE Cancelled(@)]
  /\ SubTo(a, "wakeRefused")
  /\ UNCHANGED <<leased, rec, gen, releaser, closer, rel, registry, fail,
                 inbox, wake, lane, queue, port, since, past>>

(* SealedAdmissionResolution::Dispatched: the lane settles the action *)
CancelDispatched(a) ==
  /\ sub[a] = "dispatched"
  /\ IF fail # "none"
     THEN op' = AfterStrict(op, {a}) /\ rec' = StrictRecords({a})
     ELSE op' = Requested(op, {a}) /\ UNCHANGED rec
  /\ SubTo(a, "wakeDone")
  /\ UNCHANGED <<leased, gen, releaser, closer, rel, registry, fail, inbox,
                 wake, lane, queue, port, since, past>>

(* Mutation of WakeLane: a refused submission wakes nobody. *)
WakeIfAdmitted(a) ==
  /\ sub[a] \in {"wakeRefused", "wakeDone"}
  /\ wake' = (wake \/ (LaneAlive /\ sub[a] = "wakeDone"))
  /\ SubTo(a, IF sub[a] = "wakeDone" THEN "done" ELSE "refused")
  /\ UNCHANGED <<leased, ops, gen, releaser, closer, rel, registry, fail,
                 inbox, lane, queue, port, since, past>>

(* admit's last step: the lane may be waiting for this reservation *)
WakeLane(a) ==
  /\ sub[a] \in {"wakeRefused", "wakeDone"}
  /\ wake' = LaneAlive
  /\ SubTo(a, IF sub[a] = "wakeDone" THEN "done" ELSE "refused")
  /\ UNCHANGED <<leased, ops, gen, releaser, closer, rel, registry, fail,
                 inbox, lane, queue, port, since, past>>

(* The caller cancels the operation it was given; the hook wakes the lane. *)
CancelAction(a) ==
  /\ sub[a] = "done" /\ ~IsTerminal(a) /\ op[a].reason = "none"
  /\ op' = [op EXCEPT ![a].reason = "user"]
  /\ wake' = LaneAlive
  /\ UNCHANGED <<leased, rec, users, rel, registry, fail, inbox, lane, queue,
                 port, since, past>>

Submission(a) ==
  \/ Reserve(a) \/ Create(a) \/ Send(a) \/ Resolve(a) \/ Reject(a)
  \/ CancelDispatched(a) \/ WakeLane(a)

-----------------------------------------------------------------------------
(* Releasing the lease: LeaseGeneration::request_cleanup *)

(* The gate is sealed with the actions admitted so far. The public method   *)
(* consumes the lease, so that submissions overlap the seal only where the  *)
(* gate is shared, which the code provides for.                             *)
SealGeneration ==
  /\ releaser.pc = "idle"
  /\ SharedLease \/ Reservations = {}
  /\ gen' = [gen EXCEPT !.sealed = TRUE]
  /\ rel' = [rel EXCEPT !.st = "undispatched"]
  /\ releaser' = [releaser EXCEPT !.pc = "sealed", !.todo = gen.actions]
  /\ UNCHANGED <<leased, ops, sub, closer, registry, fail, inbox, wake, lane,
                 queue, port, since, past>>

ReadFailure ==
  /\ releaser.pc = "sealed"
  /\ releaser' = [releaser EXCEPT !.pc = "settle", !.failure = fail # "none"]
  /\ UNCHANGED <<leased, ops, sub, gen, closer, rel, registry, fail, inbox,
                 wake, lane, queue, port, since, past>>

(* One action of the snapshot: skip it, fail it, or ask it to cancel *)
VisitSealed(a) ==
  /\ releaser.pc = "settle" /\ a \in releaser.todo
  /\ IF IsTerminal(a) \/ releaser.failure
     THEN /\ releaser' = [releaser EXCEPT !.todo = @ \ {a}]
          /\ IF IsTerminal(a)
             THEN UNCHANGED ops
             ELSE op' = AfterStrict(op, {a}) /\ rec' = StrictRecords({a})
          /\ UNCHANGED wake
     ELSE /\ releaser' = [releaser EXCEPT !.pc = "take", !.cur = a,
                                          !.todo = @ \ {a}]
          /\ op' = Requested(op, {a}) /\ UNCHANGED rec
          /\ wake' = LaneAlive
  /\ UNCHANGED <<leased, sub, gen, closer, rel, registry, fail, inbox, lane,
                 queue, port, since, past>>

(* Mutation of Undispatched: a report the transport has is taken too. *)
NotSettled(a) == HasOwner(rec[a])

Undispatched(a) == rec[a].st = "notDispatched"

(* settle_not_dispatched_cancellation takes the owner, if the lane has not  *)
(* marked the action as dispatched, ...                                     *)
TakeUndispatched ==
  /\ releaser.pc = "take"
  /\ IF Undispatched(releaser.cur)
     THEN /\ rec' = [rec EXCEPT ![releaser.cur].st = "finished"]
          /\ releaser' = [releaser EXCEPT !.pc = "finish"]
     ELSE /\ UNCHANGED rec
          /\ releaser' = [releaser EXCEPT !.pc = "settle", !.cur = "none"]
  /\ UNCHANGED <<leased, op, sub, gen, closer, rel, registry, fail, inbox,
                 wake, lane, queue, port, since, past>>

(* ... and settles it after the record is unlocked. *)
SettleUndispatched ==
  /\ releaser.pc = "finish"
  /\ op' = [op EXCEPT ![releaser.cur] = Cancelled(@)]
  /\ releaser' = [releaser EXCEPT !.pc = "settle", !.cur = "none"]
  /\ UNCHANGED <<leased, rec, sub, gen, closer, rel, registry, fail, inbox,
                 wake, lane, queue, port, since, past>>

(* ReleaseInterruptRegistry::track *)
Track ==
  /\ releaser.pc = "settle" /\ releaser.todo = {}
  /\ registry' = [registry EXCEPT !.tracked = TRUE]
  /\ rel' = CASE registry.projection = "lost" -> rel
              [] registry.projection = "proven" -> Complete(rel, "err")
              [] registry.projection = "none" /\ registry.settled ->
                   Complete(rel, "notDelivered")
              [] OTHER -> IF registry.closing THEN Interrupt(rel) ELSE rel
  /\ releaser' = [releaser EXCEPT !.pc = "tracked"]
  /\ UNCHANGED <<leased, ops, sub, gen, closer, fail, inbox, wake, lane,
                 queue, port, since, past>>

(* The lane is told, unless a failure was seen or the lane is gone. *)
SendBegin ==
  /\ releaser.pc = "tracked"
  /\ IF ~releaser.failure /\ LaneAlive
     THEN /\ inbox' = Append(inbox, [k |-> "begin", a |-> "none"])
          /\ UNCHANGED rel
     ELSE /\ rel' = Complete(rel, "err")
          /\ UNCHANGED inbox
  /\ releaser' = [releaser EXCEPT !.pc = "done"]
  /\ UNCHANGED <<leased, ops, sub, gen, closer, registry, fail, wake, lane,
                 queue, port, since, past>>

ReleaseNext ==
  \/ ReadFailure \/ (\E a \in Actions : VisitSealed(a)) \/ TakeUndispatched
  \/ SettleUndispatched \/ Track \/ SendBegin

-----------------------------------------------------------------------------
(* Closing the Controller: ControllerInner::close_internal *)

(* closing is set and the state marked under the admission gate. *)
CloseIntent ==
  /\ closer = "idle"
  /\ closer' = "intent"
  /\ conn' = IF conn = "connected" THEN "disconnecting" ELSE conn
  /\ UNCHANGED <<leased, ops, sub, gen, releaser, rel, registry, fail, inbox,
                 wake, lane, queue, stream, faults, since, past>>

CloseInterrupt ==
  /\ closer = "intent"
  /\ closer' = "interrupted"
  /\ registry' = [registry EXCEPT !.closing = TRUE]
  /\ rel' = Interrupted
  /\ UNCHANGED <<leased, ops, sub, gen, releaser, fail, inbox, wake, lane,
                 queue, port, since, past>>

CancelResource ==
  /\ closer = "interrupted"
  /\ closer' = "cancelled"
  /\ UNCHANGED <<leased, ops, sub, gen, releaser, rel, registry, fail, inbox,
                 wake, lane, queue, port, since, past>>

SendClose ==
  /\ closer = "cancelled"
  /\ closer' = "joining"
  /\ inbox' = IF LaneAlive THEN Append(inbox, [k |-> "close", a |-> "none"])
                           ELSE inbox
  /\ UNCHANGED <<leased, ops, sub, gen, releaser, rel, registry, fail, wake,
                 lane, queue, port, since, past>>

(* The lane ended, or it panicked and finish_claimed_settlements_after_lane_ *)
(* join finishes the actions whose effect was already accepted.             *)
JoinLane ==
  /\ closer = "joining" /\ ~LaneAlive
  /\ IF lane.pc = "ended"
     THEN /\ closer' = "done"
          /\ UNCHANGED ops
     ELSE LET S == {a \in Actions : rec[a].st \in {"reserved", "claimed"}}
              Bad(a) == rec[a].st = "reserved" /\ rec[a].strict
          IN  /\ closer' = "takeover"
              /\ op' = [a \in Actions |->
                   IF a \in S THEN [op[a] EXCEPT !.outcome =
                                      IF Bad(a) THEN "strict" ELSE "success"]
                              ELSE op[a]]
              /\ rec' = [a \in Actions |->
                   IF a \in S THEN [rec[a] EXCEPT !.st =
                                      IF Bad(a) THEN "failed" ELSE "finished"]
                              ELSE rec[a]]
  /\ UNCHANGED <<leased, sub, gen, releaser, rel, registry, fail, inbox, wake,
                 lane, queue, port, since, past>>

(* record_ownership_loss: retained releases are never completed *)
RecordOwnershipLoss ==
  /\ closer = "takeover"
  /\ closer' = "done"
  /\ fail' = IF fail = "none" THEN "lost" ELSE fail
  /\ registry' = IF fail = "none" /\ registry.projection # "proven"
                 THEN [registry EXCEPT !.projection = "lost",
                                       !.settled = FALSE]
                 ELSE registry
  /\ UNCHANGED <<leased, ops, sub, gen, releaser, rel, inbox, wake, lane,
                 queue, port, since, past>>

CloseNext ==
  \/ CloseInterrupt \/ CancelResource \/ SendClose \/ JoinLane
  \/ RecordOwnershipLoss

-----------------------------------------------------------------------------
(* The lane: ControllerLane::run                                            *)

Here(pc) == lane.pc = pc /\ UNCHANGED <<leased, users>>

Report(a) == [a |-> a, kind |-> "report", due |-> Paced, then |-> "direct",
              auto |-> a \in leased]
Neutral(a, then) == [a |-> a, kind |-> "neutral", due |-> Paced,
                     then |-> then, auto |-> FALSE]
NeutralFor(kind) == [NoEntry EXCEPT !.kind = kind]

(* The entries of s that are in E, in their order. *)
Kept(s, E) ==
  LET rank == [i \in 0..Len(s) |-> Cardinality({j \in 1..i : s[j] \in E})]
  IN [k \in 1..rank[Len(s)] |->
        s[CHOOSE i \in DOMAIN s : s[i] \in E /\ rank[i] = k]]

Without(entries, a) == Kept(entries, {e \in ToSet(entries) : e.a # a})
PendingActions == {pending[i].a : i \in DOMAIN pending}
Smaller(x, y) == IF x < y THEN x ELSE y

(* The top of the loop: a cancelled lane waits for its close command. *)
Top ==
  /\ Here("top")
  /\ Goto(IF ResourceCancelled THEN "await" ELSE "observe")
  /\ UNCHANGED <<ops, rel, registry, fail, inbox, wake, queue, port, since,
                 past>>

(* observe_cancellation: cancelled reports of a sealed generation are       *)
(* settled; the first other one is replaced by a neutral report that will   *)
(* settle it.                                                               *)
Observe ==
  /\ Here("observe")
  /\ LET seen == IF ResourceCancelled THEN Requested(op, PendingActions)
                                      ELSE op
         wanted == {e \in ToSet(pending) : seen[e.a].reason # "none"}
         stale == {e \in wanted : e.auto /\ gen.sealed}
         rest == Kept(pending, ToSet(pending) \ stale)
         cancelled == Kept(rest, {e \in wanted : e.kind = "report"})
         S == {e.a : e \in stale}
     IN  /\ op' = AfterCancellation(seen, S)
         /\ rec' = OwnersTaken(S, "finished")
         /\ pending' = IF cancelled = << >> THEN rest
                       ELSE LET a == Head(cancelled).a
                            IN  <<Neutral(a, "cancelled")>> \o Without(rest, a)
  /\ Goto("dispatch")
  /\ UNCHANGED <<rel, registry, fail, inbox, wake, cleanup, lease, port, since,
                 past>>

(* Mutation of TooEarly: the time computed when the report was queued is    *)
(* trusted.                                                                 *)
TrustTarget == FALSE

(* A report accepted since then moves the earliest time. *)
TooEarly == since < Interval

FrontDue == pending # << >> /\ pending[1].due = 0

(* dispatch_due_reports, up to the write of the report at the front *)
Dispatch ==
  /\ Here("dispatch")
  /\ \/ /\ ~FrontDue
        /\ Goto("cleanup") /\ UNCHANGED pending
     \/ /\ FrontDue
        /\ LET e == pending[1] IN
           \/ /\ e.kind = "report" /\ op[e.a].reason # "none"
              /\ Goto("observe") /\ UNCHANGED pending
           \/ /\ ~(e.kind = "report" /\ op[e.a].reason # "none")
              /\ TooEarly
              /\ pending' = <<[e EXCEPT !.due = Paced]>> \o Tail(pending)
              /\ Goto("cleanup")
           \/ /\ ~(e.kind = "report" /\ op[e.a].reason # "none")
              /\ ~TooEarly
              /\ pending' = Tail(pending)
              /\ lane' = [lane EXCEPT !.cur = e, !.pc =
                            IF e.kind = "report" THEN "mark" ELSE "write"]
  /\ UNCHANGED <<ops, rel, registry, fail, inbox, wake, cleanup, lease, port,
                 since, past>>

(* handle_report_write_failure for a report: in a sealed generation it is   *)
(* settled, otherwise a neutral report goes first and settles it            *)
ReportFailed(interrupted) ==
  LET a == lane.cur.a
      rest == Without(pending, a)
      cancel == interrupted \/ op[a].reason # "none"
  IN  IF lane.cur.auto /\ gen.sealed
      THEN /\ pending' = rest
           /\ op' = IF cancel THEN AfterCancellation(op, {a})
                              ELSE AfterFailure(op, {a})
           /\ rec' = OwnersTaken({a}, IF cancel THEN "finished" ELSE "failed")
      ELSE /\ pending' = <<Neutral(a, IF cancel THEN "cancelled"
                                                ELSE "failed")>> \o rest
           /\ UNCHANGED ops

(* mark_dispatched: against a seal that takes the owner at the same moment *)
MarkDispatched ==
  /\ Here("mark")
  /\ IF rec[lane.cur.a].st = "notDispatched"
     THEN /\ rec' = [rec EXCEPT ![lane.cur.a].st = "outstanding"]
          /\ Goto("write") /\ UNCHANGED <<op, pending>>
     ELSE ReportFailed(FALSE) /\ Goto("dispatch")
  /\ UNCHANGED <<rel, registry, fail, inbox, wake, cleanup, lease, port, since,
                 past>>

(* The transport accepts the last byte of a payload. *)
Sent(kind, byte) ==
  /\ stream
  /\ since' = 0
  /\ early' = IF since < Interval THEN early \union {kind} ELSE early
  /\ lastSent' = byte

(* reserve_full_accepted, at the backend's final-byte gate *)
AcceptReport ==
  /\ Here("write") /\ lane.cur.kind = "report"
  /\ rec[lane.cur.a].st = "outstanding"
  /\ Sent("report", "report")
  /\ accepted' = accepted \union {lane.cur.a}
  /\ rec' = [rec EXCEPT ![lane.cur.a].st = "reserved"]
  /\ Goto("accepted")
  /\ UNCHANGED <<op, rel, registry, fail, inbox, wake, queue, port>>

(* claim_reserved_full_accepted, complete_full_claim and finish_success *)
ClaimAccepted ==
  /\ Here("accepted")
  /\ rec' = [rec EXCEPT ![lane.cur.a].st = "claiming"]
  /\ Goto("claiming")
  /\ UNCHANGED <<op, rel, registry, fail, inbox, wake, queue, port, since, past>>

CompleteClaim ==
  /\ Here("claiming")
  /\ LET a == lane.cur.a IN
     IF rec[a].strict
     THEN /\ rec' = [rec EXCEPT ![a].st = "failed"]
          /\ op' = [op EXCEPT ![a] = StrictlyFailed(@)]
     ELSE /\ rec' = [rec EXCEPT ![a].st = "claimed"]
          /\ UNCHANGED op
  /\ Goto("claimed")
  /\ UNCHANGED <<rel, registry, fail, inbox, wake, queue, port, since, past>>

FinishSuccess ==
  /\ Here("claimed")
  /\ IF rec[lane.cur.a].st = "claimed"
     THEN /\ rec' = [rec EXCEPT ![lane.cur.a].st = "finished"]
          /\ op' = [op EXCEPT ![lane.cur.a].outcome = "success"]
     ELSE UNCHANGED ops
  /\ Goto("dispatch")
  /\ UNCHANGED <<rel, registry, fail, inbox, wake, queue, port, since, past>>

-----------------------------------------------------------------------------
(* Writes that are not accepted. The stream stays usable, or it is closed,  *)
(* or closing it fails too, which is permanent.                             *)

(* A call of the transport fails, and the stream is closed or kept. *)
Fault(closes) ==
  /\ stream \/ closes
  /\ stream => faults < MaxFaults
  /\ faults' = IF stream THEN faults + 1 ELSE faults
  /\ stream' = (stream /\ ~closes)

Dropped == IF conn = "connected" THEN "disconnected" ELSE conn

WriteReportFails ==
  /\ Here("write") /\ lane.cur.kind = "report"
  /\ \E closes, interrupted \in BOOLEAN :
       /\ interrupted => ResourceCancelled \/ op[lane.cur.a].reason # "none"
       /\ Fault(closes)
       /\ conn' = IF closes THEN Dropped ELSE conn
       /\ ReportFailed(interrupted)
  /\ Goto("dispatch")
  /\ UNCHANGED <<rel, registry, fail, inbox, wake, cleanup, lease, since, past>>

(* What the neutral report was for; others are failed along with it. *)
SettleNeutral(others) ==
  LET mine == {lane.cur.a}
      cancel == lane.cur.then = "cancelled"
  IN  /\ op' = AfterFailure(IF cancel THEN AfterCancellation(op, mine)
                                      ELSE AfterFailure(op, mine), others)
      /\ rec' = [a \in Actions |->
                   IF a \in mine /\ cancel /\ HasOwner(rec[a])
                   THEN [rec[a] EXCEPT !.st = "finished"]
                   ELSE OwnersTaken(mine \union others, "failed")[a]]

AcceptNeutral ==
  /\ Here("write") /\ lane.cur.kind = "neutral"
  /\ Sent("neutral", "neutral")
  /\ SettleNeutral({})
  /\ Goto("dispatch")
  /\ UNCHANGED <<rel, registry, fail, inbox, wake, queue, port, accepted>>

(* handle_report_write_failure for a neutral report; on a disconnect        *)
(* fail_pending_disconnected empties the queue                              *)
WriteNeutralFails ==
  /\ Here("write") /\ lane.cur.kind = "neutral"
  /\ \E closes, gone \in BOOLEAN :
       /\ gone => closes
       /\ Fault(closes)
       /\ conn' = IF gone THEN "disconnected"
                  ELSE IF closes THEN Dropped ELSE conn
  /\ IF conn' = "disconnected"
     THEN SettleNeutral(PendingActions) /\ pending' = << >>
     ELSE SettleNeutral({}) /\ UNCHANGED pending
  /\ Goto("dispatch")
  /\ UNCHANGED <<rel, registry, fail, inbox, wake, cleanup, lease, since, past>>

(* settle_failed_write: closing the failed stream fails as well *)
CleanupFails ==
  /\ Here("write")
  /\ stream /\ faults < MaxFaults
  /\ stream' = FALSE /\ faults' = faults + 1
  /\ conn' = Dropped
  /\ fail' = IF fail = "none" THEN "proven" ELSE fail
  /\ Goto("failing")
  /\ UNCHANGED <<ops, rel, registry, inbox, wake, queue, since, past>>

(* seal_after_cleanup_failure: the queue, the report in the lane's hands     *)
(* and the release fail strictly. What close_lane has collected is its own   *)
(* and waits for the outcome of its close.                                   *)
SealAfterFailure ==
  /\ Here("failing")
  /\ LET S == PendingActions \union {lane.cur.a}
         kind == lane.cur.kind
     IN  /\ op' = AfterStrict(op, S) /\ rec' = StrictRecords(S)
         /\ rel' = IF registry.tracked \/ cleanup.on \/ kind = "release"
                   THEN Complete(rel, "err") ELSE rel
         /\ lane' = [lane EXCEPT
              !.cur = NoEntry, !.timer = Never,
              !.pc = CASE kind = "stream" -> "closeFailed"
                       [] lane.closing /\ kind # "stream" -> "closeStream"
                       [] kind = "release" /\ ~lane.closing -> "sleep"
                       [] OTHER -> "dispatch"]
  /\ registry' = [registry EXCEPT !.projection = "proven"]
  /\ pending' = << >> /\ cleanup' = NoCleanup /\ lease' = "none"
  /\ UNCHANGED <<fail, inbox, wake, port, since, past>>

-----------------------------------------------------------------------------
(* The release neutral: dispatch_automation_cleanup                         *)

(* next_wait_duration *)
Timer ==
  LET next == IF pending = << >> THEN Never ELSE pending[1].due
  IN  IF cleanup.on /\ ActionsSettled THEN Smaller(next, cleanup.target)
                                      ELSE next
Asleep == [lane EXCEPT !.pc = "sleep", !.cur = NoEntry, !.timer = Timer]

ReleaseDue == cleanup.on /\ ActionsSettled /\ cleanup.target = 0

NoRelease ==
  /\ Here("cleanup") /\ ~ReleaseDue
  /\ lane' = Asleep
  /\ UNCHANGED <<ops, rel, registry, fail, inbox, wake, queue, port, since,
                 past>>

(* begin_neutral; a disconnected Controller is not written to *)
StartRelease ==
  /\ Here("cleanup") /\ ReleaseDue
  /\ cleanup' = NoCleanup
  /\ IF conn = "connected"
     THEN /\ rel' = [rel EXCEPT !.st = "outstanding"]
          /\ lane' = [lane EXCEPT !.pc = "write", !.cur = NeutralFor("release")]
          /\ UNCHANGED lease
     ELSE /\ rel' = Complete(rel, "notDelivered")
          /\ lane' = [lane EXCEPT !.pc = "sleep", !.timer =
                       IF pending = << >> THEN Never ELSE pending[1].due,
                       !.consumed = @ \/ rel.close]
          /\ lease' = "none"
  /\ UNCHANGED <<ops, registry, fail, inbox, wake, pending, port, since, past>>

(* reserve_full_accepted of the release, at the final-byte gate *)
AcceptRelease ==
  /\ Here("write") /\ lane.cur.kind = "release"
  /\ Sent("release", "neutral")
  /\ rel' = [rel EXCEPT !.st = "gate"]
  /\ Goto("released")
  /\ UNCHANGED <<ops, registry, fail, inbox, wake, queue, port, accepted>>

AfterRelease(consumed) ==
  lane' = [IF lane.closing THEN [lane EXCEPT !.pc = "closeStream",
                                             !.cur = NoEntry] ELSE Asleep
           EXCEPT !.consumed = @ \/ consumed \/ lane.closing]

CompleteRelease ==
  /\ Here("released")
  /\ rel' = Complete(rel, "accepted")
  /\ lease' = "none"
  /\ AfterRelease(rel.close)
  /\ UNCHANGED <<ops, registry, fail, inbox, wake, pending, cleanup, port, since,
                 past>>

WriteReleaseFails ==
  /\ Here("write") /\ lane.cur.kind = "release"
  /\ \E closes \in BOOLEAN : Fault(closes)
  /\ conn' = Dropped
  /\ rel' = Complete(rel, "notDelivered")
  /\ lease' = "none"
  /\ AfterRelease(rel.close)
  /\ UNCHANGED <<ops, registry, fail, inbox, wake, pending, cleanup, since, past>>

-----------------------------------------------------------------------------
(* Commands, taken while the lane waits for its next report *)

Take(k) ==
  /\ Here("sleep")
  /\ inbox # << >> /\ Head(inbox).k = k
  /\ inbox' = Tail(inbox)

(* handle_direct, or its share of fail_command_after_cleanup_failure *)
HandleDirect ==
  /\ Take("direct")
  /\ LET a == Head(inbox).a
         auto == a \in leased
         granted == lease = IF auto THEN "automation" ELSE "none"
     IN
     \/ /\ fail # "none"
        /\ op' = AfterStrict(op, {a}) /\ rec' = StrictRecords({a})
        /\ lease' = IF auto THEN "none" ELSE lease
        /\ UNCHANGED pending
     \/ /\ fail = "none" /\ (op[a].reason # "none" \/ (auto /\ gen.sealed))
        /\ op' = AfterCancellation(op, {a})
        /\ rec' = OwnersTaken({a}, "finished")
        /\ UNCHANGED <<pending, lease>>
     \/ /\ fail = "none" /\ op[a].reason = "none" /\ ~(auto /\ gen.sealed)
        /\ conn # "connected" \/ ~granted
        /\ op' = AfterFailure(op, {a}) /\ rec' = OwnersTaken({a}, "failed")
        /\ UNCHANGED <<pending, lease>>
     \/ /\ fail = "none" /\ op[a].reason = "none" /\ ~(auto /\ gen.sealed)
        /\ conn = "connected" /\ granted
        /\ pending' = Append(pending, Report(a))
        /\ UNCHANGED <<ops, lease>>
  /\ Goto("top")
  /\ UNCHANGED <<rel, registry, fail, wake, cleanup, port, since, past>>

(* begin_automation_lease_release: the queued reports of the generation are *)
(* settled and its neutral report is scheduled.                             *)
HandleBegin ==
  /\ Take("begin")
  /\ \/ /\ fail # "none"
        /\ rel' = Complete(rel, "err") /\ lease' = "none"
        /\ UNCHANGED <<ops, pending, cleanup>>
     \/ /\ fail = "none"
        /\ LET drained == {e \in ToSet(pending) : e.auto /\ ~IsTerminal(e.a)}
               S == {e.a : e \in drained}
           IN  /\ op' = AfterCancellation(Requested(op, S), S)
               /\ rec' = OwnersTaken(S, "finished")
               /\ pending' = Kept(pending, ToSet(pending) \ drained)
        /\ cleanup' = [on |-> TRUE, target |-> Paced]
        /\ UNCHANGED <<rel, lease>>
  /\ Goto("top")
  /\ UNCHANGED <<registry, fail, wake, port, since, past>>

HandleClose ==
  /\ Take("close")
  /\ Goto("close")
  /\ UNCHANGED <<ops, rel, registry, fail, wake, queue, port, since, past>>

(* A Wake, or the time of the next report *)
Woken ==
  /\ Here("sleep")
  /\ \/ wake /\ wake' = FALSE
     \/ lane.timer = 0 /\ UNCHANGED wake
  /\ Goto("top")
  /\ UNCHANGED <<ops, rel, registry, fail, inbox, queue, port, since, past>>

(* await_close_command: others are deferred *)
Await ==
  /\ Here("await")
  /\ \E i \in DOMAIN inbox : inbox[i].k = "close"
  /\ inbox' = Kept(inbox, {c \in ToSet(inbox) : c.k # "close"})
  /\ wake' = FALSE
  /\ Goto("close")
  /\ UNCHANGED <<ops, rel, registry, fail, queue, port, since, past>>

-----------------------------------------------------------------------------
(* close_lane *)

Open == conn \in {"connected", "disconnecting"}

CloseLane ==
  /\ Here("close")
  /\ registry' = [registry EXCEPT !.closing = TRUE]
  /\ rel' = Interrupted
  /\ lane' = [lane EXCEPT !.pc = "collect", !.closing = TRUE,
                !.consumed = @ \/ (registry.tracked /\ Interrupted.close),
                !.connected = Open]
  /\ conn' = IF Open THEN "disconnecting" ELSE conn
  /\ UNCHANGED <<ops, fail, inbox, wake, queue, stream, faults, since, past>>

(* The reports and the commands of the lane are collected; a release that   *)
(* is found here becomes the close's own. The final neutral report is the   *)
(* release's, or the close's unless a release was consumed. Commands that   *)
(* come while it is waited for are collected too.                           *)
Collect ==
  /\ lane.pc = "collect" \/ (lane.pc = "wait" /\ inbox # << >>)
  /\ UNCHANGED <<leased, users>>
  /\ LET commands == ToSet(inbox)
         S == PendingActions \union
              {c.a : c \in {x \in commands : x.k = "direct"}}
         begins == \E c \in commands : c.k = "begin"
         found == begins /\ lease = "automation"
         own == cleanup.on \/ found
         target == IF cleanup.on THEN cleanup.target ELSE 0
     IN  /\ op' = Requested(op, S)
         /\ cleanup' = [on |-> own, target |-> 0]
         /\ rel' = LET r == IF own \/ begins THEN Interrupt(rel) ELSE rel
                   IN  IF begins /\ ~own THEN Complete(r, "notDelivered")
                                         ELSE r
         /\ lane' = [lane EXCEPT
              !.held = @ \union S,
              !.timer = IF target > Paced THEN target ELSE Paced,
              !.pc = IF own \/ (lane.connected /\ ~lane.consumed)
                        \/ lane.pc = "wait"
                     THEN "wait" ELSE "closeStream"]
  /\ inbox' = << >> /\ pending' = << >> /\ wake' = FALSE
  /\ UNCHANGED <<rec, registry, fail, lease, port, since, past>>

(* wait_for_close_target is over. *)
WriteFinal ==
  /\ Here("wait") /\ lane.timer = 0 /\ inbox = << >>
  /\ cleanup' = NoCleanup
  /\ \/ /\ cleanup.on /\ lane.connected
        /\ rel' = [Interrupt(rel) EXCEPT !.st = "outstanding"]
        /\ lane' = [lane EXCEPT !.pc = "write", !.cur = NeutralFor("release")]
        /\ UNCHANGED lease
     \/ /\ cleanup.on /\ ~lane.connected
        /\ rel' = Complete(Interrupt(rel), "notDelivered")
        /\ lane' = [lane EXCEPT !.pc = "closeStream", !.consumed = TRUE]
        /\ lease' = "none"
     \/ /\ ~cleanup.on
        /\ lane' = [lane EXCEPT !.pc = "write", !.cur = NeutralFor("close")]
        /\ UNCHANGED <<rel, lease>>
  /\ UNCHANGED <<ops, registry, fail, inbox, wake, pending, port, since, past>>

AcceptFinal ==
  /\ Here("write") /\ lane.cur.kind = "close"
  /\ Sent("close", "neutral")
  /\ Goto("closeStream")
  /\ UNCHANGED <<ops, rel, registry, fail, inbox, wake, queue, port, accepted>>

(* The report is lost with a warning. *)
WriteFinalFails ==
  /\ Here("write") /\ lane.cur.kind = "close"
  /\ \E closes \in BOOLEAN : Fault(closes)
  /\ Goto("closeStream")
  /\ UNCHANGED <<ops, rel, registry, fail, inbox, wake, queue, conn, since,
                 past>>

(* close_transport_with_cleanup_failure. What the lane holds is cancelled   *)
(* once the stream is known to be closed.                                   *)
CloseStream ==
  /\ Here("closeStream")
  /\ lease' = "none" /\ stream' = FALSE
  /\ \/ /\ op' = AfterCancellation(op, lane.held)
        /\ rec' = OwnersTaken(lane.held, "finished")
        /\ lane' = [lane EXCEPT !.pc = "closeSettle", !.held = {}]
        /\ UNCHANGED <<fail, faults>>
     \/ /\ faults < MaxFaults /\ faults' = faults + 1
        /\ fail' = IF fail = "none" THEN "proven" ELSE fail
        /\ lane' = [lane EXCEPT !.pc = "failing", !.cur = NeutralFor("stream")]
        /\ UNCHANGED ops
  /\ UNCHANGED <<rel, registry, inbox, wake, pending, cleanup, conn, since,
                 past>>

(* The close of the stream failed: what the lane holds fails strictly.      *)
FailHeld ==
  /\ Here("closeFailed")
  /\ op' = AfterStrict(op, lane.held) /\ rec' = StrictRecords(lane.held)
  /\ lane' = [lane EXCEPT !.pc = "closeSettle", !.held = {}]
  /\ UNCHANGED <<rel, registry, fail, inbox, wake, queue, port, since, past>>

Ended(pc) ==
  lane' = [pc |-> pc, cur |-> NoEntry, timer |-> Never, consumed |-> FALSE,
           held |-> {}, closing |-> FALSE, connected |-> FALSE]

(* settle_stream_after_close *)
SettleStream ==
  /\ Here("closeSettle")
  /\ registry' = [registry EXCEPT !.closing = TRUE,
                    !.settled = @ \/ registry.projection # "lost"]
  /\ rel' = IF registry.tracked /\ registry.projection # "lost"
            THEN Complete(rel, "notDelivered") ELSE rel
  /\ conn' = "closed"
  /\ Ended("ended")
  /\ inbox' = << >> /\ wake' = FALSE
  /\ UNCHANGED <<ops, fail, queue, stream, faults, since, past>>

(* A callback of the transport, the clock or an observer panics through.    *)
LanePanics ==
  /\ lane.pc \in {"write", "accepted", "claimed"} /\ UNCHANGED <<leased, users>>
  /\ faults < MaxFaults /\ faults' = faults + 1
  /\ Ended("panicked")
  /\ inbox' = << >> /\ wake' = FALSE
  /\ pending' = << >> /\ cleanup' = NoCleanup
  /\ UNCHANGED <<ops, rel, registry, fail, lease, conn, stream, since, past>>

-----------------------------------------------------------------------------
LaneNext ==
  \/ Top \/ Observe \/ Dispatch \/ MarkDispatched
  \/ AcceptReport \/ ClaimAccepted \/ CompleteClaim \/ FinishSuccess
  \/ WriteReportFails \/ AcceptNeutral \/ WriteNeutralFails \/ CleanupFails
  \/ SealAfterFailure \/ NoRelease \/ StartRelease \/ AcceptRelease
  \/ CompleteRelease \/ WriteReleaseFails
  \/ HandleDirect \/ HandleBegin \/ HandleClose \/ Woken \/ Await
  \/ CloseLane \/ Collect \/ WriteFinal \/ AcceptFinal \/ WriteFinalFails
  \/ CloseStream \/ FailHeld \/ SettleStream \/ LanePanics

Sooner(t) == IF t \in {0, Never} THEN t ELSE t - 1

Tick ==
  /\ LaneAlive
  /\ \/ since < Interval
     \/ \E i \in DOMAIN pending : pending[i].due > 0
     \/ cleanup.target > 0 \/ lane.timer \notin {0, Never}
  /\ since' = IF since < Interval THEN since + 1 ELSE since
  /\ pending' = [i \in DOMAIN pending |->
                   [pending[i] EXCEPT !.due = Sooner(@)]]
  /\ cleanup' = [cleanup EXCEPT !.target = Sooner(@)]
  /\ lane' = [lane EXCEPT !.timer = Sooner(@)]
  /\ UNCHANGED <<leased, ops, users, rel, registry, fail, inbox, wake, lease,
                 port, past>>

Next ==
  \/ LaneNext \/ Tick \/ ReleaseNext \/ CloseNext
  \/ \E a \in Actions : Submission(a) \/ CancelAction(a)
  \/ SealGeneration \/ CloseIntent

Spec == Init /\ [][Next]_vars

(* What goes on by itself: threads that run are scheduled, the transport     *)
(* answers and time passes. Nobody has to submit, to cancel, to release or  *)
(* to close.                                                                *)
CloseComes == \E i \in DOMAIN inbox : inbox[i].k = "close"

LaneMoves ==
  \/ lane.pc \notin {"write", "sleep", "await", "wait", "ended", "panicked"}
  \/ /\ lane.pc = "write"
     /\ stream /\ lane.cur.kind = "report"
          => rec[lane.cur.a].st = "outstanding"
  \/ lane.pc = "sleep" /\ (inbox # << >> \/ wake \/ lane.timer = 0)
  \/ lane.pc = "await" /\ CloseComes
  \/ lane.pc = "wait" /\ (inbox # << >> \/ lane.timer = 0)

TimePasses ==
  /\ LaneAlive
  /\ \/ since < Interval
     \/ \E i \in DOMAIN pending : pending[i].due > 0
     \/ cleanup.target > 0 \/ lane.timer \notin {0, Never}

CloseMoves ==
  \/ closer \in {"intent", "interrupted", "cancelled", "takeover"}
  \/ closer = "joining" /\ ~LaneAlive

SomebodyMoves ==
  \/ LaneMoves \/ TimePasses \/ CloseMoves
  \/ releaser.pc \notin {"idle", "done"}
  \/ \E a \in Actions : sub[a] \notin {"idle", "refused", "done"}

(* The actions differ in nothing. *)
ActionSymmetry == Permutations(Actions)

-----------------------------------------------------------------------------
(* Properties                                                               *)

Outcomes == {"none", "success", "cancelled", "failed", "strict"}
Operations == [reason : {"none", "user", "parent"}, outcome : Outcomes]
Records == [st : {"absent", "notDispatched", "outstanding", "reserved",
                  "claiming", "claimed", "finished", "failed"},
            strict : BOOLEAN]
Entries == [a : Actions \union {"none"},
            kind : {"none", "report", "neutral", "release", "close", "stream"},
            due : 0..Interval, then : {"none", "direct", "cancelled", "failed"},
            auto : BOOLEAN]
Queued == [a : Actions, kind : {"report", "neutral"}, due : 0..Interval,
           then : {"direct", "cancelled", "failed"}, auto : BOOLEAN]
Commands == [k : {"direct"}, a : Actions] \union
            [k : {"begin", "close"}, a : {"none"}]
SubPlaces == {"idle", "reserved", "created", "resolve", "refuse", "reject",
              "dispatched", "wakeRefused", "wakeDone", "refused", "done"}
Releasers == [pc : {"idle", "sealed", "settle", "take", "finish", "tracked",
                    "done"},
              todo : SUBSET Actions, cur : Actions \union {"none"},
              failure : BOOLEAN]
Releases == [st : {"none", "undispatched", "outstanding", "gate", "committed"},
             close : BOOLEAN,
             out : {"none", "accepted", "notDelivered", "err"}]
Registries == [tracked : BOOLEAN, closing : BOOLEAN, settled : BOOLEAN,
               projection : {"none", "proven", "lost"}]
LanePlaces == {"top", "observe", "dispatch", "mark", "write", "accepted",
               "claiming", "claimed", "failing", "cleanup", "sleep", "released",
               "await", "close", "collect", "wait", "closeStream",
               "closeFailed", "closeSettle", "ended", "panicked"}
Lanes == [pc : LanePlaces, cur : Entries, timer : 0..Never,
          consumed : BOOLEAN, held : SUBSET Actions, closing : BOOLEAN,
          connected : BOOLEAN]

OpsType ==
  /\ leased \subseteq Actions
  /\ op \in [Actions -> Operations] /\ rec \in [Actions -> Records]
  /\ accepted \subseteq Actions

UsersType ==
  /\ sub \in [Actions -> SubPlaces]
  /\ gen \in [sealed : BOOLEAN, actions : SUBSET Actions]
  /\ gen.actions \subseteq leased
  /\ releaser \in Releasers /\ releaser.todo \subseteq gen.actions
  /\ rel \in Releases /\ registry \in Registries
  /\ fail \in {"none", "proven", "lost"}
  /\ closer \in {"idle", "intent", "interrupted", "cancelled", "joining",
                 "takeover", "done"}

LaneType ==
  /\ inbox \in Seq(Commands) /\ wake \in BOOLEAN
  /\ lane \in Lanes /\ pending \in Seq(Queued)
  /\ cleanup \in [on : BOOLEAN, target : 0..Interval]
  /\ lease \in {"none", "automation"}

PortType ==
  /\ conn \in {"connected", "disconnecting", "disconnected", "closed"}
  /\ stream \in BOOLEAN /\ faults \in 0..MaxFaults
  /\ since \in 0..Interval
  /\ early \subseteq {"report", "neutral", "release", "close"}
  /\ lastSent \in {"none", "report", "neutral"}

(* The Controller's records, queues and locals have their shapes; a report  *)
(* is never due later than one interval from now.                           *)
TypeOK == OpsType /\ UsersType /\ LaneType /\ PortType

Writing(a) == lane.pc = "write" /\ lane.cur.kind = "report" /\ lane.cur.a = a

(* A caller is told what the device got. An action succeeds only if its     *)
(* report was taken to the last byte, and if it was, nobody else may settle *)
(* it in another way or refuse it, however the seal, a cancellation, the    *)
(* close and a failure race with the write; while the report is written its *)
(* outcome is open. When the close is over each accepted report has been    *)
(* reported, even if the lane panicked on the way.                          *)
TruthfulOutcome ==
  \A a \in Actions :
    /\ op[a].outcome = "success" => a \in accepted
    /\ a \in accepted => op[a].outcome \in {"none", "success"}
    /\ a \in accepted => sub[a] # "refused"
    /\ Writing(a) => op[a].outcome = "none" /\ rec[a].st = "outstanding"
    /\ a \in accepted /\ closer = "done" => op[a].outcome = "success"

(* An operation and a lease release are settled once: of the lane, the      *)
(* thread that seals, the one that submits and the one that closes, only the *)
(* first settles.                                                           *)
SettledOnce ==
  [][/\ \A a \in Actions :
          IsTerminal(a) => op'[a].outcome = op[a].outcome
     /\ rel.st = "committed" => rel' = rel]_vars

(* The neutral report of a release comes after the actions of its lease:    *)
(* unless the Controller closes it is not begun before all of them are      *)
(* settled, also those whose submission overlaps the release, and no report *)
(* of the lease is accepted afterwards.                                     *)
ReleaseIsLast ==
  [][/\ rel.st = "undispatched" /\ rel'.st = "outstanding" /\ ~lane.closing
          => \A a \in leased : sub[a] \in {"idle", "refused"} \/ IsTerminal(a)
     /\ rel.st \in {"outstanding", "gate", "committed"}
          => accepted' \intersect leased = accepted \intersect leased]_vars

(* Reports are an interval apart, other than the neutral report of a lease  *)
(* release.                                                                 *)
ActionsArePaced == early \subseteq {"release"}

(* "Minimum interval between complete report acceptances" (session.rs:90),  *)
(* which is said to hold for every report.                                  *)
ReportsArePaced == early = {}

(* close "neutralizes, closes transport, and joins the writer" (session.rs: *)
(* 2271): if the transport never fails the last thing the device gets is    *)
(* not an action's report.                                                  *)
ClosedNeutral == conn = "closed" /\ faults = 0 => lastSent # "report"

Panicked == lane.pc = "panicked"

(* Nobody is left waiting unless the lane panics: when nothing goes on any   *)
(* more, every admitted action and every release is settled, although the   *)
(* lane may have been asleep when it was cancelled, sealed or refused; and  *)
(* a close has ended.                                                       *)
EveryoneIsAnswered ==
  ~SomebodyMoves /\ ~Panicked =>
    /\ \A a \in Actions : sub[a] = "done" => IsTerminal(a)
    /\ rel.st \in {"none", "committed"}
    /\ closer \in {"idle", "done"}

=============================================================================
