----------------------------- MODULE Operation -----------------------------
(***************************************************************************)
(* The Operation terminal protocol of crates/easycon-runtime: operation.rs *)
(* with the TerminalArbiterState of concurrency.rs.  One action is one     *)
(* critical section of an operation's state mutex, or one step its caller  *)
(* takes between two of them: claiming, publishing `Cancelling`, running   *)
(* cleanup, committing, publishing, unlinking and notifying are separate   *)
(* steps, so that every other thread can come in between.                  *)
(*                                                                         *)
(* Any thread may start, cancel, finish, claim, abandon or wait at any     *)
(* time; who really does is fixed by the modules that extend this one.     *)
(* Result values, errors and evidence payloads are abstracted to kinds.    *)
(***************************************************************************)
EXTENDS Naturals, Sequences

CONSTANTS Ops,     \* operations of one Runtime
          Waiters  \* threads that call wait, once per operation

VARIABLES
  state,              \* OperationData.state
  reason,             \* OperationData.cancellation_reason
  terminalInProgress, \* OperationData.terminal_in_progress
  token,              \* the operation's cancellation token: its two flags
  arbiter,            \* OperationOwnerData.arbiter
  ownerTask,          \* is OperationOwnerData.owner_task bound
  record,             \* OperationOwnerData.handoff_record
  claimed,            \* OperationOwnerData.claimed
  callbacks,          \* cleanup and on_cleanup_settled: registered or taken
  txn,                \* the terminal transaction under way, and where it is
  published,          \* history: states published as events, in order
  linked,             \* is the operation in RuntimeInner.operations
  waiter              \* callers of wait

operationVars == <<state, reason, terminalInProgress, token, arbiter,
                   ownerTask, record, claimed, callbacks, txn, published,
                   linked, waiter>>

Terminal  == {"Succeeded", "Failed", "Cancelled"}
States    == {"Pending", "Running", "Cancelling"} \cup Terminal
Reason    == {"Requested", "Deadline", "ParentClose"}
Candidate == {"Success", "Failure", "Cancellation"}
Evidence  == {"EffectAccepted", "NotDelivered", "ExecutionFailed"}
Outcome   == {"ok", "err"}
WaitMode  == {"Poll", "For", "Infinite"}

NoRecord  == [evidence |-> "none", candidate |-> "none"]
NoClaim   == [evidence |-> "none", candidate |-> "none", state |-> "none"]
NoTxn     == [pc |-> "idle", primary |-> "none", evidence |-> "none",
              by |-> "none", cleanup |-> "ok", domain |-> "ok"]
NewWaiter == [pc |-> "idle", mode |-> "Poll", saw |-> "none"]

(* What create_operation and create_operation_with_settlement_owner leave in
   the owner slot: nothing, or an arbiter with or without a transfer owner. *)
Modes == {"legacy", "exclusive", "transferable"}
NewArbiter(m) == [mode |-> m, owner |-> "primary", joined |-> FALSE,
                  winner |-> "none", committed |-> FALSE]

Owned(o)        == arbiter[o].mode # "legacy"
Transferable(o) == arbiter[o].mode = "transferable"

IsTerminal(o) == state[o] \in Terminal

(* The committing thread keeps the state mutex from the terminal write
   until the registry is unlinked.                                         *)
Locked(o) == txn[o].pc \in {"publish", "unlink"}

(* Mutation of EvidenceAllowsWinner: undelivered work may succeed. *)
LaxEvidence(e, w) ==
  <<e, w>> \in {<<"EffectAccepted", "Success">>, <<"NotDelivered", "Success">>,
                <<"NotDelivered", "Cancellation">>,
                <<"ExecutionFailed", "Failure">>}

EvidenceAllowsWinner(e, w) ==
  <<e, w>> \in {<<"EffectAccepted", "Success">>,
                <<"NotDelivered", "Cancellation">>,
                <<"ExecutionFailed", "Failure">>}

(* May candidate c become the primary outcome of o now? *)
PrimaryFromCandidate(o, c) ==
  CASE c = "Success"      -> state[o] = "Running"
    [] c = "Failure"      -> state[o] \in {"Pending", "Running"}
    [] c = "Cancellation" -> state[o] \in {"Pending", "Running"}
                             /\ reason[o] # "none"

Init ==
  /\ state = [o \in Ops |-> "Pending"]
  /\ reason = [o \in Ops |-> "none"]
  /\ terminalInProgress = [o \in Ops |-> FALSE]
  /\ token = [o \in Ops |-> [active |-> TRUE, cancelled |-> FALSE]]
  /\ arbiter \in [Ops -> {NewArbiter(m) : m \in Modes}]
  /\ ownerTask = [o \in Ops |-> FALSE]
  /\ record = [o \in Ops |-> NoRecord]
  /\ claimed = [o \in Ops |-> NoClaim]
  /\ callbacks = [o \in Ops |-> "registered"]
  /\ txn = [o \in Ops |-> NoTxn]
  /\ published = [o \in Ops |-> << >>]
  /\ linked = [o \in Ops |-> TRUE]
  /\ waiter = [o \in Ops |-> [w \in Waiters |-> NewWaiter]]

-----------------------------------------------------------------------------
Publish(o, s) == published' = [published EXCEPT ![o] = Append(@, s)]

(* Condvar::notify_all: every blocked waiter gets to look at the state. *)
NotifyAll(o) ==
  waiter' = [waiter EXCEPT ![o] = [w \in Waiters |->
               IF @[w].pc = "blocked" THEN [@[w] EXCEPT !.pc = "ready"]
                                      ELSE @[w]]]

(* seal_cancelled_tree and seal_deactivated_tree, for the node itself *)
CancelDeferred(o) ==
  token' = [token EXCEPT ![o].cancelled = @ \/ token[o].active]

DeactivateDeferred(o) == token' = [token EXCEPT ![o].active = FALSE]

(* transition_running *)
Start(o) ==
  /\ ~Locked(o)
  /\ state[o] = "Pending"
  /\ ~terminalInProgress[o]
  /\ state' = [state EXCEPT ![o] = "Running"]
  /\ Publish(o, "Running")
  /\ UNCHANGED <<reason, terminalInProgress, token, arbiter, ownerTask, record,
                 claimed, callbacks, txn, linked, waiter>>

(* request_cancel of an owned operation records the intent and leaves the
   state alone, even when the winner is already frozen.                    *)
RequestCancelOwned(o, r) ==
  /\ Owned(o)
  /\ ~Locked(o) /\ ~IsTerminal(o)
  /\ reason[o] = "none"
  /\ reason' = [reason EXCEPT ![o] = r]
  /\ CancelDeferred(o)
  /\ NotifyAll(o)
  /\ UNCHANGED <<state, terminalInProgress, arbiter, ownerTask, record,
                 claimed, callbacks, txn, published, linked>>

(* Mutation of RequestCancelLegacy: a transaction under way is ignored. *)
CancelDuringTerminal(o, r) ==
  /\ ~Owned(o)
  /\ ~Locked(o)
  /\ state[o] \in {"Pending", "Running"}
  /\ state' = [state EXCEPT ![o] = "Cancelling"]
  /\ reason' = [reason EXCEPT ![o] = r]
  /\ CancelDeferred(o)
  /\ Publish(o, "Cancelling")
  /\ NotifyAll(o)
  /\ UNCHANGED <<terminalInProgress, arbiter, ownerTask, record, claimed,
                 callbacks, txn, linked>>

(* request_cancel of a legacy operation moves it to Cancelling at once. *)
RequestCancelLegacy(o, r) ==
  /\ ~Owned(o)
  /\ ~Locked(o)
  /\ ~terminalInProgress[o]
  /\ state[o] \in {"Pending", "Running"}
  /\ state' = [state EXCEPT ![o] = "Cancelling"]
  /\ reason' = [reason EXCEPT ![o] = r]
  /\ CancelDeferred(o)
  /\ Publish(o, "Cancelling")
  /\ NotifyAll(o)
  /\ UNCHANGED <<terminalInProgress, arbiter, ownerTask, record, claimed,
                 callbacks, txn, linked>>

RequestCancel(o, r) == RequestCancelOwned(o, r) \/ RequestCancelLegacy(o, r)

(* A parent token is cancelled: sealing its tree marks this token first, and
   the hook that asks for ParentClose runs later as a RequestCancel.        *)
SealFromParent(o) ==
  /\ token[o].active /\ ~token[o].cancelled
  /\ CancelDeferred(o)
  /\ UNCHANGED <<state, reason, terminalInProgress, arbiter, ownerTask, record,
                 claimed, callbacks, txn, published, linked, waiter>>

-----------------------------------------------------------------------------
(* A terminal transaction starts: the flag is set and the token is closed to
   new children in the critical section that freezes the primary outcome.  *)
BeginTerminal(o, transaction) ==
  /\ terminalInProgress' = [terminalInProgress EXCEPT ![o] = TRUE]
  /\ DeactivateDeferred(o)
  /\ txn' = [txn EXCEPT ![o] = transaction]

(* finish_legacy_after_cleanup and finish_strict_cleanup_failure *)
FinishLegacy(o, c) ==
  /\ ~Owned(o)
  /\ ~Locked(o)
  /\ ~terminalInProgress[o]
  /\ \/ c = "Success" /\ state[o] = "Running"
     \/ c = "Failure" /\ state[o] \in {"Pending", "Running", "Cancelling"}
     \/ c = "Cancellation" /\ state[o] = "Cancelling"
  /\ BeginTerminal(o, [NoTxn EXCEPT !.pc = "cleanup", !.primary = c,
                                    !.by = "legacy"])
  /\ UNCHANGED <<state, reason, arbiter, ownerTask, record, claimed, callbacks,
                 published, linked, waiter>>

(* claim_owned with a fresh claim: the primary owner freezes the winner. A
   cancellation winner has Cancelling to publish after the lock is dropped. *)
Claim(o, e, c) ==
  /\ Owned(o)
  /\ ~Locked(o)
  /\ claimed[o] = NoClaim
  /\ PrimaryFromCandidate(o, c)
  /\ arbiter[o].winner = "none" /\ ~arbiter[o].committed
  /\ arbiter[o].owner = "primary"
  /\ EvidenceAllowsWinner(e, c)
  /\ arbiter' = [arbiter EXCEPT ![o].winner = c]
  /\ claimed' = [claimed EXCEPT ![o] = [evidence |-> e, candidate |-> c,
                                        state |-> "Held"]]
  /\ BeginTerminal(o, [NoTxn EXCEPT
       !.pc = IF c = "Cancellation" THEN "cancelling" ELSE "claimed",
       !.primary = c, !.evidence = e, !.by = "primary"])
  /\ UNCHANGED <<state, reason, ownerTask, record, callbacks, published, linked,
                 waiter>>

(* claim_owned of an abandoned claim: only the same evidence and candidate
   take it up again.                                                       *)
Reclaim(o, e, c) ==
  /\ ~Locked(o) /\ ~IsTerminal(o)
  /\ claimed[o] = [evidence |-> e, candidate |-> c, state |-> "Abandoned"]
  /\ claimed' = [claimed EXCEPT ![o].state = "Held"]
  /\ UNCHANGED <<state, reason, terminalInProgress, token, arbiter, ownerTask,
                 record, callbacks, txn, published, linked, waiter>>

(* publish_claimed_cancellation, first half: the state, under the lock *)
ShowClaimedCancellation(o) ==
  /\ txn[o].pc = "cancelling"
  /\ state[o] \in {"Pending", "Running"}
  /\ state' = [state EXCEPT ![o] = "Cancelling"]
  /\ txn' = [txn EXCEPT ![o].pc = "announce"]
  /\ UNCHANGED <<reason, terminalInProgress, token, arbiter, ownerTask, record,
                 claimed, callbacks, published, linked, waiter>>

(* publish_claimed_cancellation, second half: event and wake, unlocked. The
   fallback goes on to cleanup, claim() returns the held claim.            *)
AnnounceClaimedCancellation(o) ==
  /\ txn[o].pc = "announce"
  /\ Publish(o, "Cancelling")
  /\ NotifyAll(o)
  /\ txn' = [txn EXCEPT ![o].pc = IF txn[o].by = "transfer" THEN "cleanup"
                                                              ELSE "claimed"]
  /\ UNCHANGED <<state, reason, terminalInProgress, token, arbiter, ownerTask,
                 record, claimed, callbacks, linked>>

(* OperationSettlementClaim::finish, with the domain's own cleanup result *)
FinishClaimed(o, d) ==
  /\ txn[o].pc = "claimed"
  /\ claimed[o].state = "Held"
  /\ claimed' = [claimed EXCEPT ![o].state = "Finishing"]
  /\ callbacks' = [callbacks EXCEPT ![o] = "taken"]
  /\ txn' = [txn EXCEPT ![o] = [@ EXCEPT !.pc = "cleanup", !.domain = d]]
  /\ UNCHANGED <<state, reason, terminalInProgress, token, arbiter, ownerTask,
                 record, published, linked, waiter>>

(* Dropping an unfinished OperationSettlementClaim *)
AbandonClaimed(o) ==
  /\ txn[o].pc = "claimed"
  /\ claimed[o].state = "Held"
  /\ claimed' = [claimed EXCEPT ![o].state = "Abandoned"]
  /\ NotifyAll(o)
  /\ UNCHANGED <<state, reason, terminalInProgress, token, arbiter, ownerTask,
                 record, callbacks, txn, published, linked>>

-----------------------------------------------------------------------------
(* bind_owner_task *)
BindOwnerTask(o) ==
  /\ Owned(o)
  /\ ~Locked(o)
  /\ ~ownerTask[o]
  /\ ownerTask' = [ownerTask EXCEPT ![o] = TRUE]
  /\ UNCHANGED <<state, reason, terminalInProgress, token, arbiter, record,
                 claimed, callbacks, txn, published, linked, waiter>>

(* Mutation of RecordForHandoff: the candidate is not tried on the state. *)
RecordUnchecked(o, e, c) ==
  /\ Transferable(o)
  /\ ~Locked(o) /\ ~IsTerminal(o)
  /\ EvidenceAllowsWinner(e, c)
  /\ arbiter[o].winner = "none"
  /\ ownerTask[o]
  /\ record[o] = NoRecord
  /\ record' = [record EXCEPT ![o] = [evidence |-> e, candidate |-> c]]
  /\ UNCHANGED <<state, reason, terminalInProgress, token, arbiter, ownerTask,
                 claimed, callbacks, txn, published, linked, waiter>>

(* record_for_handoff: evidence left for the supervisor *)
RecordForHandoff(o, e, c) ==
  /\ Transferable(o)
  /\ ~Locked(o) /\ ~IsTerminal(o)
  /\ PrimaryFromCandidate(o, c)
  /\ EvidenceAllowsWinner(e, c)
  /\ arbiter[o].winner = "none"
  /\ ownerTask[o]
  /\ record[o] = NoRecord
  /\ record' = [record EXCEPT ![o] = [evidence |-> e, candidate |-> c]]
  /\ UNCHANGED <<state, reason, terminalInProgress, token, arbiter, ownerTask,
                 claimed, callbacks, txn, published, linked, waiter>>

(* mark_owner_task_joined *)
MarkOwnerTaskJoined(o) ==
  /\ ownerTask[o]
  /\ ~Locked(o)
  /\ ~arbiter[o].joined
  /\ arbiter' = [arbiter EXCEPT ![o].joined = TRUE]
  /\ UNCHANGED <<state, reason, terminalInProgress, token, ownerTask, record,
                 claimed, callbacks, txn, published, linked, waiter>>

(* May settle_after_owner_join hand o over and settle it? *)
FallbackAllowed(o) ==
  /\ Transferable(o)
  /\ ~terminalInProgress[o]
  /\ arbiter[o].joined
  /\ record[o] # NoRecord
  /\ PrimaryFromCandidate(o, record[o].candidate)
  /\ arbiter[o].owner = "primary" /\ arbiter[o].winner = "none"
  /\ ~arbiter[o].committed
  /\ EvidenceAllowsWinner(record[o].evidence, record[o].candidate)

(* Mutation of SettleAfterOwnerJoin: claimed for the transfer owner without
   making it the active owner.                                             *)
SettleWithoutHandoff(o) ==
  /\ ~Locked(o) /\ ~IsTerminal(o)
  /\ FallbackAllowed(o)
  /\ arbiter' = [arbiter EXCEPT ![o].winner = record[o].candidate]
  /\ record' = [record EXCEPT ![o] = NoRecord]
  /\ callbacks' = [callbacks EXCEPT ![o] = "taken"]
  /\ BeginTerminal(o, [NoTxn EXCEPT !.pc = "cleanup",
       !.primary = record[o].candidate, !.evidence = record[o].evidence,
       !.by = "transfer"])
  /\ UNCHANGED <<state, reason, ownerTask, claimed, published, linked, waiter>>

(* settle_after_owner_join: hand over, claim as the transfer owner and take
   the callbacks in one critical section.                                  *)
SettleAfterOwnerJoin(o) ==
  /\ ~Locked(o) /\ ~IsTerminal(o)
  /\ FallbackAllowed(o)
  /\ arbiter' = [arbiter EXCEPT ![o] = [@ EXCEPT !.owner = "transfer",
                                        !.winner = record[o].candidate]]
  /\ record' = [record EXCEPT ![o] = NoRecord]
  /\ callbacks' = [callbacks EXCEPT ![o] = "taken"]
  /\ BeginTerminal(o, [NoTxn EXCEPT
       !.pc = IF record[o].candidate = "Cancellation" THEN "cancelling"
                                                      ELSE "cleanup",
       !.primary = record[o].candidate, !.evidence = record[o].evidence,
       !.by = "transfer"])
  /\ UNCHANGED <<state, reason, ownerTask, claimed, published, linked, waiter>>

-----------------------------------------------------------------------------
(* finish_claimed_terminal: propagation and the registered cleanup run with
   no lock held; a panic counts as an error, a domain error comes first.   *)
RunCleanup(o, x) ==
  /\ txn[o].pc = "cleanup"
  /\ txn[o].by = "legacy" /\ txn[o].primary = "Cancellation" => x = "ok"
  /\ txn' = [txn EXCEPT ![o] = [@ EXCEPT !.pc = "settle",
               !.cleanup = IF txn[o].domain = "err" THEN "err" ELSE x]]
  /\ UNCHANGED <<state, reason, terminalInProgress, token, arbiter, ownerTask,
                 record, claimed, callbacks, published, linked, waiter>>

(* on_cleanup_settled: its panic turns a clean result into an error. Only an
   owned operation has an observer that can panic.                         *)
CleanupSettled(o, x) ==
  /\ txn[o].pc = "settle"
  /\ txn[o].by = "legacy" => x = "ok"
  /\ txn' = [txn EXCEPT ![o] = [@ EXCEPT !.pc = "commit",
               !.cleanup = IF txn[o].cleanup = "err" THEN "err" ELSE x]]
  /\ UNCHANGED <<state, reason, terminalInProgress, token, arbiter, ownerTask,
                 record, claimed, callbacks, published, linked, waiter>>

TerminalState(t) ==
  CASE t.domain = "err"           -> "Failed"
    [] t.domain = "ok" /\ t.primary = "Success" ->
         IF t.cleanup = "ok" THEN "Succeeded" ELSE "Failed"
    [] t.domain = "ok" /\ t.primary = "Failure"      -> "Failed"
    [] t.domain = "ok" /\ t.primary = "Cancellation" -> "Cancelled"

(* The terminal write; the lock stays held until Unlink. *)
Commit(o) ==
  /\ txn[o].pc = "commit"
  /\ state' = [state EXCEPT ![o] = TerminalState(txn[o])]
  /\ terminalInProgress' = [terminalInProgress EXCEPT ![o] = FALSE]
  /\ arbiter' = IF txn[o].by = "legacy" THEN arbiter
                ELSE [arbiter EXCEPT ![o].committed = TRUE]
  /\ txn' = [txn EXCEPT ![o].pc = "publish"]
  /\ UNCHANGED <<reason, token, ownerTask, record, claimed, callbacks,
                 published, linked, waiter>>

(* Mutation of PublishTerminal: the event tells the primary outcome. *)
PublishPrimary(o) ==
  /\ txn[o].pc = "publish"
  /\ Publish(o, CASE txn[o].primary = "Success"      -> "Succeeded"
                  [] txn[o].primary = "Failure"      -> "Failed"
                  [] txn[o].primary = "Cancellation" -> "Cancelled")
  /\ txn' = [txn EXCEPT ![o].pc = "unlink"]
  /\ UNCHANGED <<state, reason, terminalInProgress, token, arbiter, ownerTask,
                 record, claimed, callbacks, linked, waiter>>

PublishTerminal(o) ==
  /\ txn[o].pc = "publish"
  /\ Publish(o, state[o])
  /\ txn' = [txn EXCEPT ![o].pc = "unlink"]
  /\ UNCHANGED <<state, reason, terminalInProgress, token, arbiter, ownerTask,
                 record, claimed, callbacks, linked, waiter>>

Unlink(o) ==
  /\ txn[o].pc = "unlink"
  /\ linked' = [linked EXCEPT ![o] = FALSE]
  /\ txn' = [txn EXCEPT ![o].pc = "notify"]
  /\ UNCHANGED <<state, reason, terminalInProgress, token, arbiter, ownerTask,
                 record, claimed, callbacks, published, waiter>>

Notify(o) ==
  /\ txn[o].pc = "notify"
  /\ NotifyAll(o)
  /\ txn' = [txn EXCEPT ![o].pc = "done"]
  /\ UNCHANGED <<state, reason, terminalInProgress, token, arbiter, ownerTask,
                 record, claimed, callbacks, published, linked>>

-----------------------------------------------------------------------------
(* Mutation of Look: an infinite wait parks without testing the state. *)
ParkFirst(o, w, mode) ==
  waiter' = [waiter EXCEPT ![o][w] =
    IF mode = "Infinite" THEN [pc |-> "blocked", mode |-> mode, saw |-> "none"]
    ELSE [pc |-> "returned", mode |-> mode,
          saw |-> IF IsTerminal(o) THEN state[o] ELSE "Timeout"]]

(* wait, and observe_terminal_completion as an infinite wait: the state is
   tested and the waiter parked in one critical section.                   *)
Look(o, w, mode) ==
  waiter' = [waiter EXCEPT ![o][w] =
    CASE IsTerminal(o)    -> [pc |-> "returned", mode |-> mode, saw |-> state[o]]
      [] ~IsTerminal(o) /\ mode = "Poll" ->
           [pc |-> "returned", mode |-> mode, saw |-> "Timeout"]
      [] ~IsTerminal(o) /\ mode # "Poll" ->
           [pc |-> "blocked", mode |-> mode, saw |-> "none"]]

Wait(o, w, mode) ==
  /\ waiter[o][w].pc = "idle"
  /\ ~Locked(o)
  /\ Look(o, w, mode)
  /\ UNCHANGED <<state, reason, terminalInProgress, token, arbiter, ownerTask,
                 record, claimed, callbacks, txn, published, linked>>

Recheck(o, w) ==
  /\ waiter[o][w].pc = "ready"
  /\ ~Locked(o)
  /\ Look(o, w, waiter[o][w].mode)
  /\ UNCHANGED <<state, reason, terminalInProgress, token, arbiter, ownerTask,
                 record, claimed, callbacks, txn, published, linked>>

(* wait_timeout elapsed: a terminal state still wins over the timeout. *)
WaitTimeout(o, w) ==
  /\ waiter[o][w].pc \in {"blocked", "ready"} /\ waiter[o][w].mode = "For"
  /\ ~Locked(o)
  /\ waiter' = [waiter EXCEPT ![o][w] =
       [pc |-> "returned", mode |-> "For",
        saw |-> IF IsTerminal(o) THEN state[o] ELSE "Timeout"]]
  /\ UNCHANGED <<state, reason, terminalInProgress, token, arbiter, ownerTask,
                 record, claimed, callbacks, txn, published, linked>>

(* The steps a thread inside finish_claimed_terminal or claim() takes. *)
TerminalStep(o) ==
  \/ ShowClaimedCancellation(o)
  \/ AnnounceClaimedCancellation(o)
  \/ \E x \in Outcome : RunCleanup(o, x) \/ CleanupSettled(o, x)
  \/ Commit(o)
  \/ PublishTerminal(o)
  \/ Unlink(o)
  \/ Notify(o)

(* The calls domain code makes on an operation or its settlement owner. *)
CallStep(o) ==
  \/ Start(o)
  \/ \E r \in Reason : RequestCancel(o, r)
  \/ \E c \in Candidate : FinishLegacy(o, c)
  \/ \E e \in Evidence, c \in Candidate :
       Claim(o, e, c) \/ Reclaim(o, e, c) \/ RecordForHandoff(o, e, c)
  \/ \E d \in Outcome : FinishClaimed(o, d)
  \/ AbandonClaimed(o)

DomainStep(o) == CallStep(o) \/ SealFromParent(o)

(* The calls the Runtime makes for the supervised owner task. *)
SupervisorStep(o) ==
  \/ BindOwnerTask(o)
  \/ MarkOwnerTaskJoined(o)
  \/ SettleAfterOwnerJoin(o)

WaiterStep(o, w) ==
  \/ \E m \in WaitMode : Wait(o, w, m)
  \/ Recheck(o, w)
  \/ WaitTimeout(o, w)

Next == \E o \in Ops : \/ TerminalStep(o)
                       \/ DomainStep(o)
                       \/ SupervisorStep(o)
                       \/ \E w \in Waiters : WaiterStep(o, w)

Spec == Init /\ [][Next]_operationVars

(* A thread inside a terminal transaction runs on (cleanups return), and a
   notified waiter is scheduled. Domain code owes nothing.                 *)
FairSpec == /\ Spec
            /\ \A o \in Ops : WF_operationVars(TerminalStep(o))
            /\ \A o \in Ops, w \in Waiters : WF_operationVars(Recheck(o, w))
-----------------------------------------------------------------------------
Tokens   == [active : BOOLEAN, cancelled : BOOLEAN]
Arbiters == [mode : Modes, owner : {"primary", "transfer"}, joined : BOOLEAN,
             winner : Candidate \cup {"none"}, committed : BOOLEAN]
Records  == [evidence : Evidence \cup {"none"},
             candidate : Candidate \cup {"none"}]
Claims   == [evidence : Evidence \cup {"none"},
             candidate : Candidate \cup {"none"},
             state : {"none", "Held", "Finishing", "Abandoned"}]
Txns     == [pc : {"idle", "cancelling", "announce", "claimed", "cleanup",
                   "settle", "commit", "publish", "unlink", "notify", "done"},
             primary : Candidate \cup {"none"},
             evidence : Evidence \cup {"none"},
             by : {"none", "legacy", "primary", "transfer"},
             cleanup : Outcome, domain : Outcome]
Calls    == [pc : {"idle", "blocked", "ready", "returned"}, mode : WaitMode,
             saw : Terminal \cup {"none", "Timeout"}]

(* Every variable keeps its type. *)
TypeOK ==
  /\ state \in [Ops -> States]
  /\ reason \in [Ops -> Reason \cup {"none"}]
  /\ terminalInProgress \in [Ops -> BOOLEAN]
  /\ token \in [Ops -> Tokens]
  /\ arbiter \in [Ops -> Arbiters]
  /\ ownerTask \in [Ops -> BOOLEAN]
  /\ record \in [Ops -> Records]
  /\ claimed \in [Ops -> Claims]
  /\ callbacks \in [Ops -> {"registered", "taken"}]
  /\ txn \in [Ops -> Txns]
  /\ published \in [Ops -> Seq(States)]
  /\ linked \in [Ops -> BOOLEAN]
  /\ waiter \in [Ops -> [Waiters -> Calls]]

(* The assert! before the terminal write and the expect()s on the registered
   callbacks never panic while the state mutex is held: whoever commits is
   still the arbiter's active owner and commits the frozen winner, for the
   first time; a claim that can still be finished, and an operation that can
   still be handed over, has its callbacks.                                 *)
NoPanicUnderLock ==
  \A o \in Ops : Owned(o) =>
    /\ txn[o].pc = "commit" => /\ arbiter[o].owner = txn[o].by
                               /\ arbiter[o].winner = txn[o].primary
                               /\ ~arbiter[o].committed
    /\ txn[o].pc \in {"idle", "claimed"} => callbacks[o] = "registered"

(* An owned operation ends as its evidence says, whatever cancellation,
   abandoned claim, handoff or cleanup came in between: a success needs
   EffectAccepted, a cancellation needs NotDelivered and a recorded reason,
   a failure without a failed cleanup needs ExecutionFailed.                *)
TerminalMatchesEvidence ==
  \A o \in Ops : Owned(o) =>
    /\ state[o] = "Succeeded" => txn[o].evidence = "EffectAccepted"
    /\ state[o] = "Cancelled" => /\ txn[o].evidence = "NotDelivered"
                                 /\ reason[o] # "none"
    /\ state[o] = "Failed" => \/ txn[o].evidence = "ExecutionFailed"
                              \/ txn[o].cleanup = "err"

(* Evidence recorded for handoff stays usable until somebody settles the
   operation: the fallback that drops the record and then reports ownership
   lost because the candidate no longer fits the state is never reached.    *)
HandoffRecordSettles ==
  \A o \in Ops : record[o] # NoRecord /\ txn[o].pc = "idle" =>
    FallbackAllowed(o) \/ ~arbiter[o].joined

(* A wait that reports a terminal state reports the one that stays, after
   the terminal event went out and the registry entry is gone.              *)
WaiterSeesSettledOperation ==
  \A o \in Ops, w \in Waiters : waiter[o][w].saw \in Terminal =>
    /\ state[o] = waiter[o][w].saw
    /\ published[o][Len(published[o])] = state[o]
    /\ ~linked[o]

(* No waiter is left parked once the terminal transaction is over. *)
NoLostWakeup ==
  \A o \in Ops, w \in Waiters :
    txn[o].pc = "done" => waiter[o][w].pc # "blocked"

Rank(s) == CASE s = "Pending"    -> 0
             [] s = "Running"    -> 1
             [] s = "Cancelling" -> 2
             [] s \in Terminal   -> 3

(* The state events of one operation come in lifecycle order, none twice,
   although Cancelling is published after the lock is dropped; outside a
   publication under way the last event tells the current state.            *)
EventsFollowLifecycle ==
  \A o \in Ops :
    /\ \A i, j \in DOMAIN published[o] :
         i < j => Rank(published[o][i]) < Rank(published[o][j])
    /\ txn[o].pc \notin {"announce", "publish"} =>
         IF published[o] = << >> THEN state[o] = "Pending"
         ELSE published[o][Len(published[o])] = state[o]

(* The protocol implements the lifecycle operations promise: the frozen
   primary outcome is the one decision.                                     *)
Lifecycle == INSTANCE OperationLifecycle
               WITH Reasons <- Reason, None <- "none", phase <- state,
                    cause <- reason,
                    decision <- [o \in Ops |-> txn[o].primary]

ImplementsLifecycle == Lifecycle!AbstractSpec

(* A transaction that reached cleanup ends, and everybody waiting without a
   limit, or not timed out yet, is told.                                    *)
FinishingReachesWaiters ==
  \A o \in Ops, w \in Waiters :
    txn[o].pc = "cleanup" /\ waiter[o][w].pc # "idle" ~>
      IsTerminal(o) /\ waiter[o][w].pc = "returned"
=============================================================================
