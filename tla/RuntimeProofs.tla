---------------------------- MODULE RuntimeProofs ----------------------------
(***************************************************************************)
(* Proofs about Operation and RuntimeClose, for any operations, waiters,   *)
(* resources, callers of close and joining threads.                        *)
(*                                                                         *)
(* The first part is about the operations alone. Their inductive invariant *)
(* Inv is a conjunction of per-operation parts; a step moves one operation,*)
(* so that every action is proved against the parts of that operation only *)
(* and all others are untouched.                                           *)
(*                                                                         *)
(* The second part is about close, whose model runs the operations' own    *)
(* actions: Inv and the lemmas of the first part carry over to it.         *)
(* CloseInv, its inductive invariant, follows the close thread: the part   *)
(* of it a step belongs to is told by close.pc, and what that part has     *)
(* promised about tasks, operations, the worker, the failures and the      *)
(* events stays true whatever everybody else does. WaitInv, on top, says   *)
(* what everybody who waits during close waits for.                        *)
(***************************************************************************)
EXTENDS RuntimeClose, OperationTree, SequenceTheorems, TLAPS

-----------------------------------------------------------------------------
(* The operations                                                           *)

InTxn == {"cancelling", "announce", "claimed", "cleanup", "settle", "commit"}
Ended == {"publish", "unlink", "notify", "done"}

(* The flag, the state and the registry entry tell where the transaction is. *)
PhaseInv(o) ==
  /\ terminalInProgress[o] <=> txn[o].pc \in InTxn
  /\ IsTerminal(o) <=> txn[o].pc \in Ended
  /\ txn[o].pc = "idle" <=> txn[o].primary = "none"
  /\ linked[o] <=> txn[o].pc \notin {"notify", "done"}

(* Who runs the transaction is the arbiter's owner, with the frozen winner. *)
OwnerInv(o) ==
  /\ txn[o].pc = "idle" <=> txn[o].by = "none"
  /\ txn[o].pc # "idle" => (txn[o].by = "legacy" <=> ~Owned(o))
  /\ Owned(o) => /\ arbiter[o].winner = txn[o].primary
                 /\ arbiter[o].committed <=> txn[o].pc \in Ended
                 /\ arbiter[o].owner =
                      IF txn[o].by = "transfer" THEN "transfer" ELSE "primary"
                 /\ txn[o].pc = "idle" => callbacks[o] = "registered"

(* A claim is out exactly when the primary owner runs the transaction. *)
ClaimInv(o) ==
  /\ claimed[o] # NoClaim <=> txn[o].by = "primary"
  /\ txn[o].by = "primary" /\ txn[o].pc \in {"cancelling", "announce", "claimed"}
       => callbacks[o] = "registered"
  /\ txn[o].pc = "claimed" => txn[o].by = "primary"

(* A decided cancellation has its reason and is shown before it commits. *)
CancelInv(o) ==
  /\ txn[o].primary = "Cancellation" =>
       /\ txn[o].pc \in InTxn \ {"cancelling"} => state[o] = "Cancelling"
       /\ Owned(o) => reason[o] # "none"
  /\ txn[o].pc \in {"cancelling", "announce"} =>
       /\ txn[o].primary = "Cancellation"
       /\ Owned(o)
  /\ txn[o].pc = "cancelling" => state[o] \in {"Pending", "Running"}
  /\ state[o] = "Cancelling" => reason[o] # "none"
  /\ ~Owned(o) /\ state[o] \in {"Pending", "Running"} => reason[o] = "none"

(* An owned transaction carries evidence that allows its primary outcome, a
   domain error is a cleanup error, and the state is what commits from them. *)
EvidenceInv(o) ==
  /\ Owned(o) /\ txn[o].pc # "idle" =>
       EvidenceAllowsWinner(txn[o].evidence, txn[o].primary)
  /\ txn[o].pc \in Ended \cup {"settle", "commit"} /\ txn[o].domain = "err"
       => txn[o].cleanup = "err"
  /\ txn[o].pc \in Ended => state[o] = TerminalState(txn[o])

(* The token is closed once the transaction began, cancelled once asked for. *)
TokenInv(o) ==
  /\ txn[o].pc # "idle" => ~token[o].active
  /\ reason[o] # "none" /\ token[o].active => token[o].cancelled

(* A record is only made of a transferable owner and stays usable. *)
RecordInv(o) ==
  record[o] # NoRecord =>
    /\ Transferable(o)
    /\ EvidenceAllowsWinner(record[o].evidence, record[o].candidate)
    /\ txn[o].pc = "idle" => PrimaryFromCandidate(o, record[o].candidate)

(* A waiter that saw a terminal state saw this one; none is parked past it. *)
WaiterInv(o) ==
  /\ txn[o].pc \in {"unlink", "notify", "done"} =>
       /\ published[o] # << >>
       /\ published[o][Len(published[o])] = state[o]
  /\ \A w \in Waiters :
       /\ waiter[o][w].saw \in Terminal =>
            /\ txn[o].pc \in {"notify", "done"}
            /\ state[o] = waiter[o][w].saw
       /\ txn[o].pc = "done" => waiter[o][w].pc # "blocked"

OpInv(o) == /\ PhaseInv(o)
            /\ OwnerInv(o)
            /\ ClaimInv(o)
            /\ CancelInv(o)
            /\ EvidenceInv(o)
            /\ TokenInv(o)
            /\ RecordInv(o)
            /\ WaiterInv(o)

(* The inductive invariant. *)
Inv == TypeOK /\ \A o \in Ops : OpInv(o)

(* A transaction that began has frozen its primary outcome. *)
Decided == \A o \in Ops : txn[o].pc # "idle" => txn[o].primary \in Candidate

(* NotifyAll keeps the type of the waiters. *)
LEMMA NotifyAllType ==
  ASSUME TypeOK, NEW o \in Ops, NotifyAll(o)
  PROVE  waiter' \in [Ops -> [Waiters -> Calls]]
  <1> DEFINE woken == [w \in Waiters |->
                     IF waiter[o][w].pc = "blocked"
                     THEN [waiter[o][w] EXCEPT !.pc = "ready"]
                     ELSE waiter[o][w]]
  <1>1. waiter \in [Ops -> [Waiters -> Calls]]
    BY DEF TypeOK
  <1>2. woken \in [Waiters -> Calls]
    <2>1. ASSUME NEW w \in Waiters PROVE woken[w] \in Calls
      <3>1. waiter[o][w] \in Calls
        BY <1>1
      <3>2. [waiter[o][w] EXCEPT !.pc = "ready"] \in Calls
        BY <3>1 DEF Calls
      <3>3. QED
        BY <3>1, <3>2
    <2>2. QED
      BY <2>1
  <1>3. waiter' = [waiter EXCEPT ![o] = woken]
    BY DEF NotifyAll
  <1>4. QED
    BY <1>1, <1>2, <1>3

(* Publish keeps the type of the event history. *)
LEMMA PublishType ==
  ASSUME TypeOK, NEW o \in Ops, NEW s \in States, Publish(o, s)
  PROVE  published' \in [Ops -> Seq(States)]
  BY AppendProperties DEF TypeOK, Publish

(* A look at the state keeps the type of the waiters. *)
LEMMA LookType ==
  ASSUME TypeOK, NEW o \in Ops, NEW w \in Waiters,
         NEW m \in WaitMode, Look(o, w, m)
  PROVE  waiter' \in [Ops -> [Waiters -> Calls]]
  <1> DEFINE seen == CASE IsTerminal(o) ->
                        [pc |-> "returned", mode |-> m, saw |-> state[o]]
                   [] ~IsTerminal(o) /\ m = "Poll" ->
                        [pc |-> "returned", mode |-> m, saw |-> "Timeout"]
                   [] ~IsTerminal(o) /\ m # "Poll" ->
                        [pc |-> "blocked", mode |-> m, saw |-> "none"]
  <1>1. waiter \in [Ops -> [Waiters -> Calls]]
    BY DEF TypeOK
  <1>2. seen \in Calls
    BY DEF IsTerminal, Calls
  <1>3. waiter' = [waiter EXCEPT ![o][w] = seen]
    BY DEF Look
  <1>4. QED
    BY <1>1, <1>2, <1>3

(* What Commit writes is a state. *)
LEMMA CommitState ==
  ASSUME TypeOK, NEW o \in Ops
  PROVE  TerminalState(txn[o]) \in Terminal \/ txn[o].primary = "none"
  <1>1. /\ txn[o].domain \in {"ok", "err"}
        /\ txn[o].primary \in {"Success", "Failure", "Cancellation", "none"}
    BY DEF TypeOK, Txns, Outcome, Candidate
  <1>2. QED
    BY <1>1 DEF TerminalState, Terminal

(* The initial states are well typed. *)
LEMMA InitType == Init => TypeOK
  <1> SUFFICES ASSUME Init PROVE TypeOK
    OBVIOUS
  <1>1. token \in [Ops -> Tokens]
    BY DEF Init, Tokens
  <1>2. arbiter \in [Ops -> Arbiters]
    <2>1. ASSUME NEW m \in Modes PROVE NewArbiter(m) \in Arbiters
      BY DEF NewArbiter, Arbiters
    <2>2. QED
      BY <2>1 DEF Init
  <1>3. record \in [Ops -> Records] /\ claimed \in [Ops -> Claims]
    BY DEF Init, NoRecord, Records, NoClaim, Claims
  <1>4. txn \in [Ops -> Txns]
    BY DEF Init, NoTxn, Txns, Outcome
  <1>5. waiter \in [Ops -> [Waiters -> Calls]]
    <2>1. NewWaiter \in Calls
      BY DEF NewWaiter, Calls, WaitMode
    <2>2. QED
      BY <2>1 DEF Init
  <1>6. published \in [Ops -> Seq(States)]
    BY EmptySeq DEF Init
  <1>7. QED
    BY <1>1, <1>2, <1>3, <1>4, <1>5, <1>6 DEF Init, TypeOK, States

(* Every action keeps the types, in a state where decided transactions have
   a primary outcome.                                                      *)
LEMMA StepType == TypeOK /\ Decided /\ [Next]_operationVars => TypeOK'
  <1> SUFFICES ASSUME TypeOK, Decided, [Next]_operationVars PROVE TypeOK'
    OBVIOUS
  <1>a. txn \in [Ops -> Txns]
    BY DEF TypeOK
  <1>b. token \in [Ops -> Tokens]
    BY DEF TypeOK
  <1>c. arbiter \in [Ops -> Arbiters]
    BY DEF TypeOK
  <1>d. claimed \in [Ops -> Claims]
    BY DEF TypeOK
  <1>e. record \in [Ops -> Records]
    BY DEF TypeOK
  <1>s. state \in [Ops -> States]
    BY DEF TypeOK
  <1>w. waiter \in [Ops -> [Waiters -> Calls]]
    BY DEF TypeOK
  <1>1. CASE UNCHANGED operationVars
    BY <1>1 DEF TypeOK, operationVars
  <1>2. ASSUME NEW o \in Ops, TerminalStep(o) PROVE TypeOK'
    <2>1. CASE ShowClaimedCancellation(o)
      <3>1. txn' \in [Ops -> Txns]
        BY <1>a, <2>1 DEF ShowClaimedCancellation, Txns
      <3>2. state' \in [Ops -> States]
        BY <1>s, <2>1 DEF ShowClaimedCancellation, States
      <3>3. QED
        BY <2>1, <3>1, <3>2 DEF TypeOK, ShowClaimedCancellation
    <2>2. CASE AnnounceClaimedCancellation(o)
      <3>1. txn' \in [Ops -> Txns]
        BY <1>a, <2>2 DEF AnnounceClaimedCancellation, Txns
      <3>2. published' \in [Ops -> Seq(States)]
        BY <2>2, PublishType DEF AnnounceClaimedCancellation, States
      <3>3. QED
        BY <2>2, <3>1, <3>2, NotifyAllType
           DEF TypeOK, AnnounceClaimedCancellation
    <2>3. ASSUME NEW x \in Outcome, RunCleanup(o, x) PROVE TypeOK'
      <3>1. txn' \in [Ops -> Txns]
        <4> DEFINE c == IF txn[o].domain = "err" THEN "err" ELSE x
        <4>1. c \in Outcome
          BY DEF Outcome
        <4>2. [txn[o] EXCEPT !.pc = "settle", !.cleanup = c] \in Txns
          <5> HIDE DEF c
          <5>1. txn[o] \in Txns
            BY <1>a
          <5>2. QED
            BY <4>1, <5>1 DEF Txns
        <4>3. txn' = [txn EXCEPT ![o] =
                        [txn[o] EXCEPT !.pc = "settle", !.cleanup = c]]
          BY <2>3 DEF RunCleanup
        <4>4. QED
          BY <1>a, <4>2, <4>3
      <3>2. QED
        BY <2>3, <3>1 DEF TypeOK, RunCleanup
    <2>4. ASSUME NEW x \in Outcome, CleanupSettled(o, x) PROVE TypeOK'
      <3>1. txn' \in [Ops -> Txns]
        <4> DEFINE c == IF txn[o].cleanup = "err" THEN "err" ELSE x
        <4>1. c \in Outcome
          BY DEF Outcome
        <4>2. [txn[o] EXCEPT !.pc = "commit", !.cleanup = c] \in Txns
          <5> HIDE DEF c
          <5>1. txn[o] \in Txns
            BY <1>a
          <5>2. QED
            BY <4>1, <5>1 DEF Txns
        <4>3. txn' = [txn EXCEPT ![o] =
                        [txn[o] EXCEPT !.pc = "commit", !.cleanup = c]]
          BY <2>4 DEF CleanupSettled
        <4>4. QED
          BY <1>a, <4>2, <4>3
      <3>2. QED
        BY <2>4, <3>1 DEF TypeOK, CleanupSettled
    <2>5. CASE Commit(o)
      <3>1. txn' \in [Ops -> Txns]
        BY <1>a, <2>5 DEF Commit, Txns
      <3>2. arbiter' \in [Ops -> Arbiters]
        BY <1>c, <2>5 DEF Commit, Arbiters
      <3>3. state' \in [Ops -> States]
        <4>1. TerminalState(txn[o]) \in States
          BY <2>5, CommitState DEF Decided, Commit, Candidate, States
        <4>2. QED
          BY <1>s, <2>5, <4>1 DEF Commit
      <3>4. QED
        BY <2>5, <3>1, <3>2, <3>3 DEF TypeOK, Commit
    <2>6. CASE PublishTerminal(o)
      <3>1. txn' \in [Ops -> Txns]
        BY <1>a, <2>6 DEF PublishTerminal, Txns
      <3>2. published' \in [Ops -> Seq(States)]
        BY <1>s, <2>6, PublishType DEF PublishTerminal
      <3>3. QED
        BY <2>6, <3>1, <3>2 DEF TypeOK, PublishTerminal
    <2>7. CASE Unlink(o)
      <3>1. txn' \in [Ops -> Txns]
        BY <1>a, <2>7 DEF Unlink, Txns
      <3>2. QED
        BY <2>7, <3>1 DEF TypeOK, Unlink
    <2>8. CASE Notify(o)
      <3>1. txn' \in [Ops -> Txns]
        BY <1>a, <2>8 DEF Notify, Txns
      <3>2. QED
        BY <2>8, <3>1, NotifyAllType DEF TypeOK, Notify
    <2>9. QED
      BY <1>2, <2>1, <2>2, <2>3, <2>4, <2>5, <2>6, <2>7, <2>8
         DEF TerminalStep
  <1>3. ASSUME NEW o \in Ops, DomainStep(o) PROVE TypeOK'
    <2>1. CASE Start(o)
      <3>1. state' \in [Ops -> States]
        BY <1>s, <2>1 DEF Start, States
      <3>2. published' \in [Ops -> Seq(States)]
        BY <2>1, PublishType DEF Start, States
      <3>3. QED
        BY <2>1, <3>1, <3>2 DEF TypeOK, Start
    <2>2. ASSUME NEW r \in Reason, RequestCancelOwned(o, r) PROVE TypeOK'
      <3>1. token' \in [Ops -> Tokens]
        BY <1>b, <2>2 DEF RequestCancelOwned, Tokens, CancelDeferred
      <3>2. QED
        BY <2>2, <3>1, NotifyAllType DEF TypeOK, RequestCancelOwned
    <2>3. ASSUME NEW r \in Reason, RequestCancelLegacy(o, r) PROVE TypeOK'
      <3>1. token' \in [Ops -> Tokens]
        BY <1>b, <2>3 DEF RequestCancelLegacy, Tokens, CancelDeferred
      <3>2. state' \in [Ops -> States]
        BY <1>s, <2>3 DEF RequestCancelLegacy, States
      <3>3. published' \in [Ops -> Seq(States)]
        BY <2>3, PublishType DEF RequestCancelLegacy, States
      <3>4. QED
        BY <2>3, <3>1, <3>2, <3>3, NotifyAllType DEF TypeOK, RequestCancelLegacy
    <2>4. CASE SealFromParent(o)
      <3>1. token' \in [Ops -> Tokens]
        BY <1>b, <2>4 DEF SealFromParent, Tokens, CancelDeferred
      <3>2. QED
        BY <2>4, <3>1 DEF TypeOK, SealFromParent
    <2>5. ASSUME NEW c \in Candidate, FinishLegacy(o, c) PROVE TypeOK'
      <3>1. txn' \in [Ops -> Txns]
        BY <1>a, <2>5 DEF FinishLegacy, Txns, BeginTerminal, NoTxn, Outcome
      <3>2. token' \in [Ops -> Tokens]
        BY <1>b, <2>5
           DEF FinishLegacy, Tokens, BeginTerminal, DeactivateDeferred
      <3>3. QED
        BY <2>5, <3>1, <3>2 DEF TypeOK, FinishLegacy, BeginTerminal
    <2>6. ASSUME NEW e \in Evidence, NEW c \in Candidate, Claim(o, e, c) PROVE TypeOK'
      <3>1. txn' \in [Ops -> Txns]
        BY <1>a, <2>6 DEF Claim, Txns, BeginTerminal, NoTxn, Outcome
      <3>2. token' \in [Ops -> Tokens]
        BY <1>b, <2>6 DEF Claim, Tokens, BeginTerminal, DeactivateDeferred
      <3>3. claimed' \in [Ops -> Claims]
        BY <1>d, <2>6 DEF Claim, Claims
      <3>4. arbiter' \in [Ops -> Arbiters]
        BY <1>c, <2>6 DEF Claim, Arbiters
      <3>5. QED
        BY <2>6, <3>1, <3>2, <3>3, <3>4 DEF TypeOK, Claim, BeginTerminal
    <2>7. ASSUME NEW e \in Evidence, NEW c \in Candidate, Reclaim(o, e, c) PROVE TypeOK'
      <3>1. claimed' \in [Ops -> Claims]
        BY <1>d, <2>7 DEF Reclaim, Claims
      <3>2. QED
        BY <2>7, <3>1 DEF TypeOK, Reclaim
    <2>8. ASSUME NEW e \in Evidence, NEW c \in Candidate, RecordForHandoff(o, e, c) PROVE TypeOK'
      <3>1. record' \in [Ops -> Records]
        BY <1>e, <2>8 DEF RecordForHandoff, Records
      <3>2. QED
        BY <2>8, <3>1 DEF TypeOK, RecordForHandoff
    <2>9. ASSUME NEW d \in Outcome, FinishClaimed(o, d) PROVE TypeOK'
      <3>1. txn' \in [Ops -> Txns]
        <4>1. [txn[o] EXCEPT !.pc = "cleanup", !.domain = d] \in Txns
          BY <1>a DEF Txns
        <4>2. txn' = [txn EXCEPT ![o] = [txn[o] EXCEPT !.pc = "cleanup", !.domain = d]]
          BY <2>9 DEF FinishClaimed
        <4> QED BY <1>a, <4>1, <4>2
      <3>2. claimed' \in [Ops -> Claims]
        BY <1>d, <2>9 DEF FinishClaimed, Claims
      <3>3. QED
        BY <2>9, <3>1, <3>2 DEF TypeOK, FinishClaimed
    <2>10. CASE AbandonClaimed(o)
      <3>1. claimed' \in [Ops -> Claims]
        BY <1>d, <2>10 DEF AbandonClaimed, Claims
      <3>2. QED
        BY <2>10, <3>1, NotifyAllType DEF TypeOK, AbandonClaimed
    <2>11. QED
      BY <1>3, <2>1, <2>2, <2>3, <2>4, <2>5, <2>6, <2>7, <2>8, <2>9, <2>10
         DEF DomainStep, CallStep, RequestCancel
  <1>4. ASSUME NEW o \in Ops, SupervisorStep(o) PROVE TypeOK'
    <2>1. CASE BindOwnerTask(o)
      BY <2>1 DEF TypeOK, BindOwnerTask
    <2>2. CASE MarkOwnerTaskJoined(o)
      <3>1. arbiter' \in [Ops -> Arbiters]
        BY <1>c, <2>2 DEF MarkOwnerTaskJoined, Arbiters
      <3>2. QED
        BY <2>2, <3>1 DEF TypeOK, MarkOwnerTaskJoined
    <2>3. CASE SettleAfterOwnerJoin(o)
      <3>1. txn' \in [Ops -> Txns]
        BY <1>a, <1>e, <2>3
           DEF SettleAfterOwnerJoin, Txns, BeginTerminal, NoTxn, Records,
               Outcome
      <3>2. token' \in [Ops -> Tokens]
        BY <1>b, <2>3
           DEF SettleAfterOwnerJoin, Tokens, BeginTerminal, DeactivateDeferred
      <3>3. record' \in [Ops -> Records]
        BY <1>e, <2>3 DEF SettleAfterOwnerJoin, Records, NoRecord
      <3>4. arbiter' \in [Ops -> Arbiters]
        <4>1. record[o].candidate \in Candidate \cup {"none"}
          BY <1>e DEF Records
        <4>2. [arbiter[o] EXCEPT !.owner = "transfer", !.winner = record[o].candidate] \in Arbiters
          BY <1>c, <4>1 DEF Arbiters
        <4>3. arbiter' = [arbiter EXCEPT ![o] = [arbiter[o] EXCEPT !.owner = "transfer",
                                                   !.winner = record[o].candidate]]
          BY <2>3 DEF SettleAfterOwnerJoin
        <4> QED BY <1>c, <4>2, <4>3
      <3>5. QED
        BY <2>3, <3>1, <3>2, <3>3, <3>4
           DEF TypeOK, SettleAfterOwnerJoin, BeginTerminal
    <2>4. QED
      BY <1>4, <2>1, <2>2, <2>3
         DEF SupervisorStep
  <1>5. ASSUME NEW o \in Ops, NEW w \in Waiters, WaiterStep(o, w)
        PROVE TypeOK'
    <2>1. ASSUME NEW m \in WaitMode, Wait(o, w, m)
          PROVE TypeOK'
      BY <2>1, LookType DEF TypeOK, Wait
    <2>2. CASE Recheck(o, w)
      <3>1. waiter[o][w].mode \in WaitMode
        BY <1>w DEF Calls
      <3>2. QED
        BY <2>2, <3>1, LookType DEF TypeOK, Recheck
    <2>3. CASE WaitTimeout(o, w)
      <3>1. [pc |-> "returned", mode |-> "For",
             saw |-> IF IsTerminal(o) THEN state[o] ELSE "Timeout"] \in Calls
        BY DEF IsTerminal, Calls, WaitMode
      <3>2. waiter' \in [Ops -> [Waiters -> Calls]]
        BY <1>w, <2>3, <3>1 DEF WaitTimeout
      <3>3. QED
        BY <2>3, <3>2 DEF TypeOK, WaitTimeout
    <2>4. QED
      BY <1>5, <2>1, <2>2, <2>3 DEF WaiterStep
  <1>6. QED
    BY <1>1, <1>2, <1>3, <1>4, <1>5 DEF Next

-----------------------------------------------------------------------------
(* Operations other than the one that moves keep everything. *)
Untouched(p) ==
  /\ state'[p] = state[p]
  /\ reason'[p] = reason[p]
  /\ terminalInProgress'[p] = terminalInProgress[p]
  /\ token'[p] = token[p]
  /\ arbiter'[p] = arbiter[p]
  /\ ownerTask'[p] = ownerTask[p]
  /\ record'[p] = record[p]
  /\ claimed'[p] = claimed[p]
  /\ callbacks'[p] = callbacks[p]
  /\ txn'[p] = txn[p]
  /\ published'[p] = published[p]
  /\ linked'[p] = linked[p]
  /\ waiter'[p] = waiter[p]

(* What no step touched keeps its invariant. *)
LEMMA UntouchedKeeps ==
  ASSUME NEW p \in Ops, OpInv(p), Untouched(p)
  PROVE  OpInv(p)'
  <1>1. PhaseInv(p)' /\ OwnerInv(p)' /\ ClaimInv(p)' /\ CancelInv(p)'
    BY
       DEF OpInv, Untouched, PhaseInv, OwnerInv, ClaimInv, CancelInv,
           IsTerminal,
       Owned
  <1>2. EvidenceInv(p)' /\ TokenInv(p)'
    BY DEF OpInv, Untouched, EvidenceInv, TokenInv, Owned, TerminalState
  <1>3. RecordInv(p)' /\ WaiterInv(p)'
    BY DEF OpInv, Untouched, RecordInv, WaiterInv, Transferable,
       PrimaryFromCandidate
  <1>4. QED
    BY <1>1, <1>2, <1>3 DEF OpInv

(* One step of operation o. *)
Step(o) == \/ TerminalStep(o)
           \/ DomainStep(o)
           \/ SupervisorStep(o)
           \/ \E w \in Waiters : WaiterStep(o, w)

(* A step of one operation leaves every other operation alone. *)
LEMMA OthersUntouched ==
  ASSUME TypeOK, NEW o \in Ops, NEW p \in Ops \ {o}, Step(o)
  PROVE  Untouched(p)
  <1>1. CASE ShowClaimedCancellation(o)
    BY <1>1 DEF TypeOK, Untouched, ShowClaimedCancellation
  <1>2. CASE AnnounceClaimedCancellation(o)
    BY <1>2
       DEF TypeOK, Untouched, AnnounceClaimedCancellation, Publish, NotifyAll
  <1>3. ASSUME NEW x \in Outcome, RunCleanup(o, x) PROVE Untouched(p)
    BY <1>3 DEF TypeOK, Untouched, RunCleanup
  <1>4. ASSUME NEW x \in Outcome, CleanupSettled(o, x) PROVE Untouched(p)
    BY <1>4 DEF TypeOK, Untouched, CleanupSettled
  <1>5. CASE Commit(o)
    BY <1>5 DEF TypeOK, Untouched, Commit
  <1>6. CASE PublishTerminal(o)
    BY <1>6 DEF TypeOK, Untouched, PublishTerminal, Publish
  <1>7. CASE Unlink(o)
    BY <1>7 DEF TypeOK, Untouched, Unlink
  <1>8. CASE Notify(o)
    BY <1>8 DEF TypeOK, Untouched, Notify, NotifyAll
  <1>9. CASE Start(o)
    BY <1>9 DEF TypeOK, Untouched, Start, Publish
  <1>10. ASSUME NEW r \in Reason, RequestCancelOwned(o, r) PROVE Untouched(p)
    BY <1>10
       DEF TypeOK, Untouched, RequestCancelOwned, CancelDeferred, NotifyAll
  <1>11. ASSUME NEW r \in Reason, RequestCancelLegacy(o, r) PROVE Untouched(p)
    BY <1>11
       DEF TypeOK, Untouched, RequestCancelLegacy, CancelDeferred, Publish,
           NotifyAll
  <1>12. CASE SealFromParent(o)
    BY <1>12 DEF TypeOK, Untouched, SealFromParent, CancelDeferred
  <1>13. ASSUME NEW c \in Candidate, FinishLegacy(o, c) PROVE Untouched(p)
    BY <1>13
       DEF TypeOK, Untouched, FinishLegacy, BeginTerminal, DeactivateDeferred
  <1>14. ASSUME NEW e \in Evidence, NEW c \in Candidate, Claim(o, e, c)
        PROVE Untouched(p)
    BY <1>14 DEF TypeOK, Untouched, Claim, BeginTerminal, DeactivateDeferred
  <1>15. ASSUME NEW e \in Evidence, NEW c \in Candidate, Reclaim(o, e, c)
        PROVE Untouched(p)
    BY <1>15 DEF TypeOK, Untouched, Reclaim
  <1>16. ASSUME NEW e \in Evidence, NEW c \in Candidate, RecordForHandoff(o, e, c)
        PROVE Untouched(p)
    BY <1>16 DEF TypeOK, Untouched, RecordForHandoff
  <1>17. ASSUME NEW d \in Outcome, FinishClaimed(o, d) PROVE Untouched(p)
    BY <1>17 DEF TypeOK, Untouched, FinishClaimed
  <1>18. CASE AbandonClaimed(o)
    BY <1>18 DEF TypeOK, Untouched, AbandonClaimed, NotifyAll
  <1>19. CASE BindOwnerTask(o)
    BY <1>19 DEF TypeOK, Untouched, BindOwnerTask
  <1>20. CASE MarkOwnerTaskJoined(o)
    BY <1>20 DEF TypeOK, Untouched, MarkOwnerTaskJoined
  <1>21. CASE SettleAfterOwnerJoin(o)
    BY <1>21
       DEF TypeOK, Untouched, SettleAfterOwnerJoin, BeginTerminal,
           DeactivateDeferred
  <1>22. ASSUME NEW w \in Waiters, NEW m \in WaitMode, Wait(o, w, m)
        PROVE Untouched(p)
    BY <1>22 DEF TypeOK, Untouched, Wait, Look
  <1>23. ASSUME NEW w \in Waiters, Recheck(o, w) PROVE Untouched(p)
    BY <1>23 DEF TypeOK, Untouched, Recheck, Look
  <1>24. ASSUME NEW w \in Waiters, WaitTimeout(o, w) PROVE Untouched(p)
    BY <1>24 DEF TypeOK, Untouched, WaitTimeout
  <1>25. QED
    BY <1>1, <1>2, <1>3, <1>4, <1>5, <1>6, <1>7, <1>8, <1>9, <1>10, <1>11,
       <1>12, <1>13, <1>14, <1>15, <1>16, <1>17, <1>18, <1>19, <1>20, <1>21,
       <1>22, <1>23, <1>24
       DEF Step, TerminalStep, DomainStep, CallStep, SupervisorStep, WaiterStep, RequestCancel

(* The last element of a sequence after Append. *)
LEMMA AppendIsLast ==
  ASSUME NEW s \in Seq(States), NEW x \in States
  PROVE  Append(s, x) # << >> /\ Append(s, x)[Len(Append(s, x))] = x
  BY AppendProperties

(* NotifyAll leaves nobody parked and nobody's result changed. *)
LEMMA Wakes ==
  ASSUME NEW o \in Ops, waiter \in [Ops -> [Waiters -> Calls]], NotifyAll(o)
  PROVE  \A v \in Waiters : /\ waiter'[o][v].saw = waiter[o][v].saw
                            /\ waiter'[o][v].pc # "blocked"
  <1> SUFFICES ASSUME NEW v \in Waiters
               PROVE  /\ waiter'[o][v].saw = waiter[o][v].saw
                      /\ waiter'[o][v].pc # "blocked"
    OBVIOUS
  <1>1. waiter[o][v] \in Calls
    OBVIOUS
  <1>2. waiter'[o][v] = IF waiter[o][v].pc = "blocked"
                        THEN [waiter[o][v] EXCEPT !.pc = "ready"]
                        ELSE waiter[o][v]
    BY DEF NotifyAll
  <1>3. QED
    BY <1>1, <1>2 DEF Calls

(* A step of an operation keeps that operation's invariant: one case per
   action, its effect on the operation first, then each part of OpInv. *)
LEMMA StepKeeps ==
  ASSUME TypeOK, NEW o \in Ops, OpInv(o), Step(o)
  PROVE  OpInv(o)'
  <1>a. txn \in [Ops -> Txns]
    BY DEF TypeOK
  <1>b. token \in [Ops -> Tokens]
    BY DEF TypeOK
  <1>c. arbiter \in [Ops -> Arbiters]
    BY DEF TypeOK
  <1>d. claimed \in [Ops -> Claims]
    BY DEF TypeOK
  <1>e. record \in [Ops -> Records]
    BY DEF TypeOK
  <1>p. published \in [Ops -> Seq(States)]
    BY DEF TypeOK
  <1>s. state \in [Ops -> States] /\ reason \in [Ops -> Reason \cup {"none"}]
    BY DEF TypeOK
  <1>t. txn[o].by \in {"none", "legacy", "primary", "transfer"}
    BY <1>a DEF Txns
  <1>w. waiter \in [Ops -> [Waiters -> Calls]]
    BY DEF TypeOK
  <1>1. CASE ShowClaimedCancellation(o)
    <2>1. state'[o] = "Cancelling"
      BY <1>s, <1>1 DEF ShowClaimedCancellation
    <2>2. /\ txn'[o].pc = "announce"
          /\ txn'[o].primary = txn[o].primary
          /\ txn'[o].evidence = txn[o].evidence
          /\ txn'[o].by = txn[o].by
          /\ txn'[o].cleanup = txn[o].cleanup
          /\ txn'[o].domain = txn[o].domain
      BY <1>a, <1>1 DEF ShowClaimedCancellation, Txns
    <2>3. PhaseInv(o)'
      BY <1>1, <2>1, <2>2
         DEF ShowClaimedCancellation, PhaseInv, OpInv, OwnerInv, IsTerminal,
             InTxn, Ended, Terminal
    <2>4. OwnerInv(o)'
      BY <1>1, <2>1, <2>2
         DEF ShowClaimedCancellation, OwnerInv, OpInv, PhaseInv, Owned, InTxn,
             Ended
    <2>5. ClaimInv(o)'
      BY <1>1, <2>1, <2>2
         DEF ShowClaimedCancellation, ClaimInv, OpInv, PhaseInv, OwnerInv,
             InTxn, Ended
    <2>6. CancelInv(o)'
      BY <1>1, <2>1, <2>2
         DEF ShowClaimedCancellation, CancelInv, OpInv, PhaseInv, OwnerInv,
             Owned, InTxn, Ended, IsTerminal
    <2>7. EvidenceInv(o)'
      BY <1>1, <2>1, <2>2
         DEF ShowClaimedCancellation, EvidenceInv, OpInv, PhaseInv, OwnerInv,
             Owned, Ended, InTxn, TerminalState, IsTerminal
    <2>8. TokenInv(o)'
      BY <1>1, <2>1, <2>2
         DEF ShowClaimedCancellation, TokenInv, OpInv, PhaseInv, OwnerInv,
             InTxn
    <2>9. RecordInv(o)'
      BY <1>1, <2>1, <2>2
         DEF ShowClaimedCancellation, RecordInv, OpInv, PhaseInv, OwnerInv,
             Transferable, PrimaryFromCandidate, EvidenceAllowsWinner
    <2>10. WaiterInv(o)'
      BY <1>1, <2>1, <2>2
         DEF ShowClaimedCancellation, WaiterInv, OpInv, PhaseInv, OwnerInv,
             IsTerminal, Ended, InTxn, Terminal
    <2>11. QED
      BY <2>3, <2>4, <2>5, <2>6, <2>7, <2>8, <2>9, <2>10 DEF OpInv
  <1>2. CASE AnnounceClaimedCancellation(o)
    <2>1. published'[o] # << >> /\ published'[o][Len(published'[o])] = "Cancelling"
      BY <1>p, <1>2, AppendIsLast
         DEF AnnounceClaimedCancellation, Publish, NotifyAll, States
    <2>2. \A v \in Waiters : /\ waiter'[o][v].saw = waiter[o][v].saw
                           /\ waiter'[o][v].pc # "blocked"
      BY <1>w, <1>2, Wakes DEF AnnounceClaimedCancellation
    <2>3. /\ txn'[o].pc = IF txn[o].by = "transfer" THEN "cleanup" ELSE "claimed"
          /\ txn'[o].primary = txn[o].primary
          /\ txn'[o].evidence = txn[o].evidence
          /\ txn'[o].by = txn[o].by
          /\ txn'[o].cleanup = txn[o].cleanup
          /\ txn'[o].domain = txn[o].domain
      BY <1>a, <1>2 DEF AnnounceClaimedCancellation, Publish, NotifyAll, Txns
    <2>4. PhaseInv(o)'
      BY <1>2, <2>1, <2>2, <2>3
         DEF AnnounceClaimedCancellation, PhaseInv, OpInv, OwnerInv,
             IsTerminal, InTxn, Ended, Terminal
    <2>5. OwnerInv(o)'
      BY <1>2, <2>1, <2>2, <2>3
         DEF AnnounceClaimedCancellation, OwnerInv, OpInv, PhaseInv, Owned,
             InTxn, Ended
    <2>6. ClaimInv(o)'
      BY <1>2, <2>1, <2>2, <2>3, <1>t
         DEF AnnounceClaimedCancellation, ClaimInv, OpInv, PhaseInv, OwnerInv,
             InTxn, Ended, CancelInv
    <2>7. CancelInv(o)'
      BY <1>2, <2>1, <2>2, <2>3
         DEF AnnounceClaimedCancellation, CancelInv, OpInv, PhaseInv, OwnerInv,
             Owned, InTxn, Ended, IsTerminal
    <2>8. EvidenceInv(o)'
      BY <1>2, <2>1, <2>2, <2>3
         DEF AnnounceClaimedCancellation, EvidenceInv, OpInv, PhaseInv,
             OwnerInv, Owned, Ended, InTxn, TerminalState, IsTerminal
    <2>9. TokenInv(o)'
      BY <1>2, <2>1, <2>2, <2>3
         DEF AnnounceClaimedCancellation, TokenInv, OpInv, PhaseInv, OwnerInv,
             InTxn
    <2>10. RecordInv(o)'
      BY <1>2, <2>1, <2>2, <2>3
         DEF AnnounceClaimedCancellation, RecordInv, OpInv, PhaseInv, OwnerInv,
             Transferable, Owned
    <2>11. WaiterInv(o)'
      BY <1>2, <2>1, <2>2, <2>3
         DEF AnnounceClaimedCancellation, WaiterInv, OpInv, PhaseInv, OwnerInv,
             IsTerminal, Ended, InTxn, Terminal
    <2>12. QED
      BY <2>4, <2>5, <2>6, <2>7, <2>8, <2>9, <2>10, <2>11 DEF OpInv
  <1>3. ASSUME NEW x \in Outcome, RunCleanup(o, x)
        PROVE OpInv(o)'
    <2>1. /\ txn'[o].pc = "settle"
          /\ txn'[o].primary = txn[o].primary
          /\ txn'[o].evidence = txn[o].evidence
          /\ txn'[o].by = txn[o].by
          /\ txn'[o].cleanup = IF txn[o].domain = "err" THEN "err" ELSE x
          /\ txn'[o].domain = txn[o].domain
      BY <1>a, <1>3 DEF RunCleanup, Txns
    <2>2. PhaseInv(o)'
      BY <1>3, <2>1
         DEF RunCleanup, PhaseInv, OpInv, OwnerInv, IsTerminal, InTxn, Ended,
             Terminal
    <2>3. OwnerInv(o)'
      BY <1>3, <2>1
         DEF RunCleanup, OwnerInv, OpInv, PhaseInv, Owned, InTxn, Ended
    <2>4. ClaimInv(o)'
      BY <1>3, <2>1
         DEF RunCleanup, ClaimInv, OpInv, PhaseInv, OwnerInv, InTxn, Ended
    <2>5. CancelInv(o)'
      BY <1>3, <2>1
         DEF RunCleanup, CancelInv, OpInv, PhaseInv, OwnerInv, Owned, InTxn,
             Ended, IsTerminal
    <2>6. EvidenceInv(o)'
      BY <1>3, <2>1
         DEF RunCleanup, EvidenceInv, OpInv, PhaseInv, OwnerInv, Owned, Ended,
             InTxn, TerminalState, IsTerminal
    <2>7. TokenInv(o)'
      BY <1>3, <2>1 DEF RunCleanup, TokenInv, OpInv, PhaseInv, OwnerInv, InTxn
    <2>8. RecordInv(o)'
      BY <1>3, <2>1
         DEF RunCleanup, RecordInv, OpInv, PhaseInv, OwnerInv, Transferable,
             PrimaryFromCandidate, EvidenceAllowsWinner
    <2>9. WaiterInv(o)'
      BY <1>3, <2>1
         DEF RunCleanup, WaiterInv, OpInv, PhaseInv, OwnerInv, IsTerminal,
             Ended, InTxn, Terminal
    <2>10. QED
      BY <2>2, <2>3, <2>4, <2>5, <2>6, <2>7, <2>8, <2>9 DEF OpInv
  <1>4. ASSUME NEW x \in Outcome, CleanupSettled(o, x)
        PROVE OpInv(o)'
    <2>1. /\ txn'[o].pc = "commit"
          /\ txn'[o].primary = txn[o].primary
          /\ txn'[o].evidence = txn[o].evidence
          /\ txn'[o].by = txn[o].by
          /\ txn'[o].cleanup = IF txn[o].cleanup = "err" THEN "err" ELSE x
          /\ txn'[o].domain = txn[o].domain
      BY <1>a, <1>4 DEF CleanupSettled, Txns
    <2>2. PhaseInv(o)'
      BY <1>4, <2>1
         DEF CleanupSettled, PhaseInv, OpInv, OwnerInv, IsTerminal, InTxn,
             Ended, Terminal
    <2>3. OwnerInv(o)'
      BY <1>4, <2>1
         DEF CleanupSettled, OwnerInv, OpInv, PhaseInv, Owned, InTxn, Ended
    <2>4. ClaimInv(o)'
      BY <1>4, <2>1
         DEF CleanupSettled, ClaimInv, OpInv, PhaseInv, OwnerInv, InTxn, Ended
    <2>5. CancelInv(o)'
      BY <1>4, <2>1
         DEF CleanupSettled, CancelInv, OpInv, PhaseInv, OwnerInv, Owned,
             InTxn, Ended, IsTerminal
    <2>6. EvidenceInv(o)'
      BY <1>4, <2>1
         DEF CleanupSettled, EvidenceInv, OpInv, PhaseInv, OwnerInv, Owned,
             Ended, InTxn, TerminalState, IsTerminal
    <2>7. TokenInv(o)'
      BY <1>4, <2>1
         DEF CleanupSettled, TokenInv, OpInv, PhaseInv, OwnerInv, InTxn
    <2>8. RecordInv(o)'
      BY <1>4, <2>1
         DEF CleanupSettled, RecordInv, OpInv, PhaseInv, OwnerInv,
             Transferable, PrimaryFromCandidate, EvidenceAllowsWinner
    <2>9. WaiterInv(o)'
      BY <1>4, <2>1
         DEF CleanupSettled, WaiterInv, OpInv, PhaseInv, OwnerInv, IsTerminal,
             Ended, InTxn, Terminal
    <2>10. QED
      BY <2>2, <2>3, <2>4, <2>5, <2>6, <2>7, <2>8, <2>9 DEF OpInv
  <1>5. CASE Commit(o)
    <2>1. state'[o] = TerminalState(txn[o])
      BY <1>s, <1>5 DEF Commit
    <2>2. terminalInProgress'[o] = FALSE
      BY TypeOK, <1>5 DEF Commit, TypeOK
    <2>3. /\ arbiter'[o].mode = arbiter[o].mode
          /\ arbiter'[o].owner = arbiter[o].owner
          /\ arbiter'[o].winner = arbiter[o].winner
          /\ arbiter'[o].committed = (IF txn[o].by = "legacy" THEN arbiter[o].committed ELSE TRUE)
      BY <1>c, <1>5 DEF Commit, Arbiters
    <2>4. /\ txn'[o].pc = "publish"
          /\ txn'[o].primary = txn[o].primary
          /\ txn'[o].evidence = txn[o].evidence
          /\ txn'[o].by = txn[o].by
          /\ txn'[o].cleanup = txn[o].cleanup
          /\ txn'[o].domain = txn[o].domain
      BY <1>a, <1>5 DEF Commit, Txns
    <2>5. PhaseInv(o)'
      BY <1>5, <2>1, <2>2, <2>3, <2>4, CommitState, <1>a
         DEF Commit, PhaseInv, OpInv, OwnerInv, IsTerminal, InTxn, Ended,
             Terminal
    <2>6. OwnerInv(o)'
      BY <1>5, <2>1, <2>2, <2>3, <2>4
         DEF Commit, OwnerInv, OpInv, PhaseInv, Owned, InTxn, Ended
    <2>7. ClaimInv(o)'
      BY <1>5, <2>1, <2>2, <2>3, <2>4
         DEF Commit, ClaimInv, OpInv, PhaseInv, OwnerInv, InTxn, Ended
    <2>8. CancelInv(o)'
      BY <1>5, <2>1, <2>2, <2>3, <2>4, CommitState, <1>a
         DEF Commit, CancelInv, OpInv, PhaseInv, OwnerInv, Owned, InTxn, Ended,
             IsTerminal, Terminal
    <2>9. EvidenceInv(o)'
      <3>1. txn[o].pc = "commit" /\ EvidenceInv(o)
        BY <1>5 DEF Commit, OpInv
      <3>2. TerminalState(txn'[o]) = TerminalState(txn[o])
        BY <2>4 DEF TerminalState
      <3>3. Owned(o)' <=> Owned(o)
        BY <2>3 DEF Owned
      <3> QED BY <2>1, <2>4, <3>1, <3>2, <3>3 DEF EvidenceInv, Ended
    <2>10. TokenInv(o)'
      <3>1. txn[o].pc = "commit" /\ UNCHANGED <<token, reason>>
        BY <1>5 DEF Commit
      <3>2. TokenInv(o)
        BY DEF OpInv
      <3> QED BY <2>4, <3>1, <3>2 DEF TokenInv
    <2>11. RecordInv(o)'
      BY <1>5, <2>1, <2>2, <2>3, <2>4
         DEF Commit, RecordInv, OpInv, PhaseInv, OwnerInv, Transferable,
             PrimaryFromCandidate, EvidenceAllowsWinner
    <2>12. WaiterInv(o)'
      BY <1>5, <2>1, <2>2, <2>3, <2>4
         DEF Commit, WaiterInv, OpInv, PhaseInv, OwnerInv, IsTerminal, Ended,
             InTxn, Terminal
    <2>13. QED
      BY <2>5, <2>6, <2>7, <2>8, <2>9, <2>10, <2>11, <2>12 DEF OpInv
  <1>6. CASE PublishTerminal(o)
    <2>1. published'[o] # << >> /\ published'[o][Len(published'[o])] = state[o]
      BY <1>p, <1>6, <1>s, AppendIsLast DEF PublishTerminal, Publish, States
    <2>2. /\ txn'[o].pc = "unlink"
          /\ txn'[o].primary = txn[o].primary
          /\ txn'[o].evidence = txn[o].evidence
          /\ txn'[o].by = txn[o].by
          /\ txn'[o].cleanup = txn[o].cleanup
          /\ txn'[o].domain = txn[o].domain
      BY <1>a, <1>6 DEF PublishTerminal, Publish, Txns
    <2>3. PhaseInv(o)'
      BY <1>6, <2>1, <2>2
         DEF PublishTerminal, PhaseInv, OpInv, OwnerInv, IsTerminal, InTxn,
             Ended, Terminal
    <2>4. OwnerInv(o)'
      BY <1>6, <2>1, <2>2
         DEF PublishTerminal, OwnerInv, OpInv, PhaseInv, Owned, InTxn, Ended
    <2>5. ClaimInv(o)'
      BY <1>6, <2>1, <2>2
         DEF PublishTerminal, ClaimInv, OpInv, PhaseInv, OwnerInv, InTxn, Ended
    <2>6. CancelInv(o)'
      BY <1>6, <2>1, <2>2
         DEF PublishTerminal, CancelInv, OpInv, PhaseInv, OwnerInv, Owned,
             InTxn, Ended, IsTerminal
    <2>7. EvidenceInv(o)'
      BY <1>6, <2>1, <2>2
         DEF PublishTerminal, EvidenceInv, OpInv, PhaseInv, OwnerInv, Owned,
             Ended, InTxn, TerminalState, IsTerminal
    <2>8. TokenInv(o)'
      BY <1>6, <2>1, <2>2
         DEF PublishTerminal, TokenInv, OpInv, PhaseInv, OwnerInv, InTxn
    <2>9. RecordInv(o)'
      BY <1>6, <2>1, <2>2
         DEF PublishTerminal, RecordInv, OpInv, PhaseInv, OwnerInv,
             Transferable, PrimaryFromCandidate, EvidenceAllowsWinner
    <2>10. WaiterInv(o)'
      BY <1>6, <2>1, <2>2
         DEF PublishTerminal, WaiterInv, OpInv, PhaseInv, OwnerInv, IsTerminal,
             Ended, InTxn, Terminal
    <2>11. QED
      BY <2>3, <2>4, <2>5, <2>6, <2>7, <2>8, <2>9, <2>10 DEF OpInv
  <1>7. CASE Unlink(o)
    <2>1. linked'[o] = FALSE
      BY TypeOK, <1>7 DEF Unlink, TypeOK
    <2>2. /\ txn'[o].pc = "notify"
          /\ txn'[o].primary = txn[o].primary
          /\ txn'[o].evidence = txn[o].evidence
          /\ txn'[o].by = txn[o].by
          /\ txn'[o].cleanup = txn[o].cleanup
          /\ txn'[o].domain = txn[o].domain
      BY <1>a, <1>7 DEF Unlink, Txns
    <2>3. PhaseInv(o)'
      BY <1>7, <2>1, <2>2
         DEF Unlink, PhaseInv, OpInv, OwnerInv, IsTerminal, InTxn, Ended,
             Terminal
    <2>4. OwnerInv(o)'
      BY <1>7, <2>1, <2>2
         DEF Unlink, OwnerInv, OpInv, PhaseInv, Owned, InTxn, Ended
    <2>5. ClaimInv(o)'
      BY <1>7, <2>1, <2>2
         DEF Unlink, ClaimInv, OpInv, PhaseInv, OwnerInv, InTxn, Ended
    <2>6. CancelInv(o)'
      BY <1>7, <2>1, <2>2
         DEF Unlink, CancelInv, OpInv, PhaseInv, OwnerInv, Owned, InTxn, Ended,
             IsTerminal
    <2>7. EvidenceInv(o)'
      BY <1>7, <2>1, <2>2
         DEF Unlink, EvidenceInv, OpInv, PhaseInv, OwnerInv, Owned, Ended,
             InTxn, TerminalState, IsTerminal
    <2>8. TokenInv(o)'
      BY <1>7, <2>1, <2>2 DEF Unlink, TokenInv, OpInv, PhaseInv, OwnerInv, InTxn
    <2>9. RecordInv(o)'
      BY <1>7, <2>1, <2>2
         DEF Unlink, RecordInv, OpInv, PhaseInv, OwnerInv, Transferable,
             PrimaryFromCandidate, EvidenceAllowsWinner
    <2>10. WaiterInv(o)'
      BY <1>7, <2>1, <2>2
         DEF Unlink, WaiterInv, OpInv, PhaseInv, OwnerInv, IsTerminal, Ended,
             InTxn, Terminal
    <2>11. QED
      BY <2>3, <2>4, <2>5, <2>6, <2>7, <2>8, <2>9, <2>10 DEF OpInv
  <1>8. CASE Notify(o)
    <2>1. \A v \in Waiters : /\ waiter'[o][v].saw = waiter[o][v].saw
                           /\ waiter'[o][v].pc # "blocked"
      BY <1>w, <1>8, Wakes DEF Notify
    <2>2. /\ txn'[o].pc = "done"
          /\ txn'[o].primary = txn[o].primary
          /\ txn'[o].evidence = txn[o].evidence
          /\ txn'[o].by = txn[o].by
          /\ txn'[o].cleanup = txn[o].cleanup
          /\ txn'[o].domain = txn[o].domain
      BY <1>a, <1>8 DEF Notify, NotifyAll, Txns
    <2>3. PhaseInv(o)'
      BY <1>8, <2>1, <2>2
         DEF Notify, PhaseInv, OpInv, OwnerInv, IsTerminal, InTxn, Ended,
             Terminal
    <2>4. OwnerInv(o)'
      BY <1>8, <2>1, <2>2
         DEF Notify, OwnerInv, OpInv, PhaseInv, Owned, InTxn, Ended
    <2>5. ClaimInv(o)'
      BY <1>8, <2>1, <2>2
         DEF Notify, ClaimInv, OpInv, PhaseInv, OwnerInv, InTxn, Ended
    <2>6. CancelInv(o)'
      BY <1>8, <2>1, <2>2
         DEF Notify, CancelInv, OpInv, PhaseInv, OwnerInv, Owned, InTxn, Ended,
             IsTerminal
    <2>7. EvidenceInv(o)'
      BY <1>8, <2>1, <2>2
         DEF Notify, EvidenceInv, OpInv, PhaseInv, OwnerInv, Owned, Ended,
             InTxn, TerminalState, IsTerminal
    <2>8. TokenInv(o)'
      BY <1>8, <2>1, <2>2 DEF Notify, TokenInv, OpInv, PhaseInv, OwnerInv, InTxn
    <2>9. RecordInv(o)'
      BY <1>8, <2>1, <2>2
         DEF Notify, RecordInv, OpInv, PhaseInv, OwnerInv, Transferable,
             PrimaryFromCandidate, EvidenceAllowsWinner
    <2>10. WaiterInv(o)'
      BY <1>8, <2>1, <2>2
         DEF Notify, WaiterInv, OpInv, PhaseInv, OwnerInv, IsTerminal, Ended,
             InTxn, Terminal
    <2>11. QED
      BY <2>3, <2>4, <2>5, <2>6, <2>7, <2>8, <2>9, <2>10 DEF OpInv
  <1>9. CASE Start(o)
    <2>1. state'[o] = "Running"
      BY <1>s, <1>9 DEF Start, Publish
    <2>2. published'[o] # << >> /\ published'[o][Len(published'[o])] = "Running"
      BY <1>p, <1>9, AppendIsLast DEF Start, Publish, States
    <2>3. PhaseInv(o)'
      BY <1>9, <2>1, <2>2
         DEF Start, PhaseInv, OpInv, OwnerInv, IsTerminal, InTxn, Ended,
             Terminal
    <2>4. OwnerInv(o)'
      BY <1>9, <2>1, <2>2
         DEF Start, OwnerInv, OpInv, PhaseInv, Owned, InTxn, Ended
    <2>5. ClaimInv(o)'
      BY <1>9, <2>1, <2>2
         DEF Start, ClaimInv, OpInv, PhaseInv, OwnerInv, InTxn, Ended
    <2>6. CancelInv(o)'
      BY <1>9, <2>1, <2>2
         DEF Start, CancelInv, OpInv, PhaseInv, OwnerInv, Owned, InTxn, Ended,
             IsTerminal, Terminal
    <2>7. EvidenceInv(o)'
      BY <1>9, <2>1, <2>2
         DEF Start, EvidenceInv, OpInv, PhaseInv, OwnerInv, Owned, Ended,
             InTxn, TerminalState, Terminal, IsTerminal
    <2>8. TokenInv(o)'
      BY <1>9, <2>1, <2>2 DEF Start, TokenInv, OpInv, PhaseInv, OwnerInv, InTxn
    <2>9. RecordInv(o)'
      BY <1>9, <2>1, <2>2
         DEF Start, RecordInv, OpInv, PhaseInv, OwnerInv, Transferable,
             PrimaryFromCandidate, EvidenceAllowsWinner
    <2>10. WaiterInv(o)'
      BY <1>9, <2>1, <2>2
         DEF Start, WaiterInv, OpInv, PhaseInv, OwnerInv, IsTerminal, Ended,
             InTxn, Terminal
    <2>11. QED
      BY <2>3, <2>4, <2>5, <2>6, <2>7, <2>8, <2>9, <2>10 DEF OpInv
  <1>10. ASSUME NEW r \in Reason, RequestCancelOwned(o, r)
        PROVE OpInv(o)'
    <2>1. reason'[o] = r
      BY <1>s, <1>10 DEF RequestCancelOwned, CancelDeferred, NotifyAll
    <2>2. /\ token'[o].active = token[o].active
          /\ token'[o].cancelled = (token[o].cancelled \/ token[o].active)
      BY <1>b, <1>10 DEF RequestCancelOwned, CancelDeferred, NotifyAll, Tokens
    <2>3. \A v \in Waiters : /\ waiter'[o][v].saw = waiter[o][v].saw
                           /\ waiter'[o][v].pc # "blocked"
      BY <1>w, <1>10, Wakes DEF RequestCancelOwned
    <2>4. PhaseInv(o)'
      BY <1>10, <2>1, <2>2, <2>3
         DEF RequestCancelOwned, PhaseInv, OpInv, OwnerInv, IsTerminal, InTxn,
             Ended, Terminal
    <2>5. OwnerInv(o)'
      BY <1>10, <2>1, <2>2, <2>3
         DEF RequestCancelOwned, OwnerInv, OpInv, PhaseInv, Owned, InTxn, Ended
    <2>6. ClaimInv(o)'
      BY <1>10, <2>1, <2>2, <2>3
         DEF RequestCancelOwned, ClaimInv, OpInv, PhaseInv, OwnerInv, InTxn,
             Ended
    <2>7. CancelInv(o)'
      BY <1>10, <2>1, <2>2, <2>3
         DEF RequestCancelOwned, CancelInv, OpInv, PhaseInv, OwnerInv, Owned,
             InTxn, Ended, IsTerminal
    <2>8. EvidenceInv(o)'
      BY <1>10, <2>1, <2>2, <2>3
         DEF RequestCancelOwned, EvidenceInv, OpInv, PhaseInv, OwnerInv, Owned,
             Ended, InTxn, TerminalState, IsTerminal
    <2>9. TokenInv(o)'
      BY <1>10, <2>1, <2>2, <2>3
         DEF RequestCancelOwned, TokenInv, OpInv, PhaseInv, OwnerInv, InTxn
    <2>10. RecordInv(o)'
      BY <1>10, <2>1, <2>2, <2>3
         DEF RequestCancelOwned, RecordInv, OpInv, PhaseInv, OwnerInv,
             Transferable, PrimaryFromCandidate, EvidenceAllowsWinner
    <2>11. WaiterInv(o)'
      BY <1>10, <2>1, <2>2, <2>3
         DEF RequestCancelOwned, WaiterInv, OpInv, PhaseInv, OwnerInv,
             IsTerminal, Ended, InTxn, Terminal
    <2>12. QED
      BY <2>4, <2>5, <2>6, <2>7, <2>8, <2>9, <2>10, <2>11 DEF OpInv
  <1>11. ASSUME NEW r \in Reason, RequestCancelLegacy(o, r)
        PROVE OpInv(o)'
    <2>1. state'[o] = "Cancelling"
      BY <1>s, <1>11 DEF RequestCancelLegacy, CancelDeferred, Publish, NotifyAll
    <2>2. reason'[o] = r
      BY <1>s, <1>11 DEF RequestCancelLegacy, CancelDeferred, Publish, NotifyAll
    <2>3. /\ token'[o].active = token[o].active
          /\ token'[o].cancelled = (token[o].cancelled \/ token[o].active)
      BY <1>b, <1>11
         DEF RequestCancelLegacy, CancelDeferred, Publish, NotifyAll, Tokens
    <2>4. published'[o] # << >> /\ published'[o][Len(published'[o])] = "Cancelling"
      BY <1>p, <1>11, AppendIsLast
         DEF RequestCancelLegacy, CancelDeferred, Publish, NotifyAll, States
    <2>5. \A v \in Waiters : /\ waiter'[o][v].saw = waiter[o][v].saw
                           /\ waiter'[o][v].pc # "blocked"
      BY <1>w, <1>11, Wakes DEF RequestCancelLegacy
    <2>6. PhaseInv(o)'
      BY <1>11, <2>1, <2>2, <2>3, <2>4, <2>5
         DEF RequestCancelLegacy, PhaseInv, OpInv, OwnerInv, IsTerminal, InTxn,
             Ended, Terminal
    <2>7. OwnerInv(o)'
      BY <1>11, <2>1, <2>2, <2>3, <2>4, <2>5
         DEF RequestCancelLegacy, OwnerInv, OpInv, PhaseInv, Owned, InTxn,
             Ended
    <2>8. ClaimInv(o)'
      BY <1>11, <2>1, <2>2, <2>3, <2>4, <2>5
         DEF RequestCancelLegacy, ClaimInv, OpInv, PhaseInv, OwnerInv, InTxn,
             Ended
    <2>9. CancelInv(o)'
      BY <1>11, <2>1, <2>2, <2>3, <2>4, <2>5
         DEF RequestCancelLegacy, CancelInv, OpInv, PhaseInv, OwnerInv, Owned,
             InTxn, Ended, IsTerminal, Terminal, Reason
    <2>10. EvidenceInv(o)'
      BY <1>11, <2>1, <2>2, <2>3, <2>4, <2>5
         DEF RequestCancelLegacy, EvidenceInv, OpInv, PhaseInv, OwnerInv,
             Owned, Ended, InTxn, TerminalState, Terminal, IsTerminal
    <2>11. TokenInv(o)'
      BY <1>11, <2>1, <2>2, <2>3, <2>4, <2>5
         DEF RequestCancelLegacy, TokenInv, OpInv, PhaseInv, OwnerInv, InTxn
    <2>12. RecordInv(o)'
      BY <1>11, <2>1, <2>2, <2>3, <2>4, <2>5
         DEF RequestCancelLegacy, RecordInv, OpInv, PhaseInv, OwnerInv,
             Transferable, Owned
    <2>13. WaiterInv(o)'
      BY <1>11, <2>1, <2>2, <2>3, <2>4, <2>5
         DEF RequestCancelLegacy, WaiterInv, OpInv, PhaseInv, OwnerInv,
             IsTerminal, Ended, InTxn, Terminal
    <2>14. QED
      BY <2>6, <2>7, <2>8, <2>9, <2>10, <2>11, <2>12, <2>13 DEF OpInv
  <1>12. CASE SealFromParent(o)
    <2>1. /\ token'[o].active = token[o].active
          /\ token'[o].cancelled = (token[o].cancelled \/ token[o].active)
      BY <1>b, <1>12 DEF SealFromParent, CancelDeferred, Tokens
    <2>2. PhaseInv(o)'
      BY <1>12, <2>1
         DEF SealFromParent, PhaseInv, OpInv, OwnerInv, IsTerminal, InTxn,
             Ended, Terminal
    <2>3. OwnerInv(o)'
      BY <1>12, <2>1
         DEF SealFromParent, OwnerInv, OpInv, PhaseInv, Owned, InTxn, Ended
    <2>4. ClaimInv(o)'
      BY <1>12, <2>1
         DEF SealFromParent, ClaimInv, OpInv, PhaseInv, OwnerInv, InTxn, Ended
    <2>5. CancelInv(o)'
      BY <1>12, <2>1
         DEF SealFromParent, CancelInv, OpInv, PhaseInv, OwnerInv, Owned,
             InTxn, Ended, IsTerminal
    <2>6. EvidenceInv(o)'
      BY <1>12, <2>1
         DEF SealFromParent, EvidenceInv, OpInv, PhaseInv, OwnerInv, Owned,
             Ended, InTxn, TerminalState, IsTerminal
    <2>7. TokenInv(o)'
      BY <1>12, <2>1
         DEF SealFromParent, TokenInv, OpInv, PhaseInv, OwnerInv, InTxn
    <2>8. RecordInv(o)'
      BY <1>12, <2>1
         DEF SealFromParent, RecordInv, OpInv, PhaseInv, OwnerInv,
             Transferable, PrimaryFromCandidate, EvidenceAllowsWinner
    <2>9. WaiterInv(o)'
      BY <1>12, <2>1
         DEF SealFromParent, WaiterInv, OpInv, PhaseInv, OwnerInv, IsTerminal,
             Ended, InTxn, Terminal
    <2>10. QED
      BY <2>2, <2>3, <2>4, <2>5, <2>6, <2>7, <2>8, <2>9 DEF OpInv
  <1>13. ASSUME NEW c \in Candidate, FinishLegacy(o, c)
        PROVE OpInv(o)'
    <2>1. terminalInProgress'[o] = TRUE
      BY TypeOK, <1>13
         DEF FinishLegacy, BeginTerminal, DeactivateDeferred, TypeOK
    <2>2. /\ token'[o].active = FALSE
          /\ token'[o].cancelled = token[o].cancelled
      BY <1>b, <1>13 DEF FinishLegacy, BeginTerminal, DeactivateDeferred, Tokens
    <2>3. /\ txn'[o].pc = "cleanup"
          /\ txn'[o].primary = c
          /\ txn'[o].evidence = "none"
          /\ txn'[o].by = "legacy"
          /\ txn'[o].cleanup = "ok"
          /\ txn'[o].domain = "ok"
      BY <1>a, <1>13
         DEF FinishLegacy, BeginTerminal, DeactivateDeferred, Txns, NoTxn
    <2>4. PhaseInv(o)'
      BY <1>13, <2>1, <2>2, <2>3
         DEF FinishLegacy, PhaseInv, OpInv, OwnerInv, IsTerminal, InTxn, Ended,
             Terminal, Candidate, BeginTerminal
    <2>5. OwnerInv(o)'
      BY <1>13, <2>1, <2>2, <2>3
         DEF FinishLegacy, OwnerInv, OpInv, PhaseInv, Owned, InTxn, Ended,
             Candidate, BeginTerminal
    <2>6. ClaimInv(o)'
      BY <1>13, <2>1, <2>2, <2>3
         DEF FinishLegacy, ClaimInv, OpInv, PhaseInv, OwnerInv, InTxn, Ended,
             Candidate, BeginTerminal
    <2>7. CancelInv(o)'
      BY <1>13, <2>1, <2>2, <2>3
         DEF FinishLegacy, CancelInv, OpInv, PhaseInv, OwnerInv, Owned, InTxn,
             Ended, IsTerminal, Candidate, BeginTerminal
    <2>8. EvidenceInv(o)'
      BY <1>13, <2>1, <2>2, <2>3
         DEF FinishLegacy, EvidenceInv, OpInv, PhaseInv, OwnerInv, Owned,
             Ended, InTxn, TerminalState, IsTerminal, Candidate, BeginTerminal
    <2>9. TokenInv(o)'
      BY <1>13, <2>1, <2>2, <2>3
         DEF FinishLegacy, TokenInv, OpInv, PhaseInv, OwnerInv, InTxn,
             Candidate, BeginTerminal
    <2>10. RecordInv(o)'
      BY <1>13, <2>1, <2>2, <2>3
         DEF FinishLegacy, RecordInv, OpInv, PhaseInv, OwnerInv, Transferable,
             PrimaryFromCandidate, EvidenceAllowsWinner, Candidate, BeginTerminal
    <2>11. WaiterInv(o)'
      BY <1>13, <2>1, <2>2, <2>3
         DEF FinishLegacy, WaiterInv, OpInv, PhaseInv, OwnerInv, IsTerminal,
             Ended, InTxn, Terminal, Candidate, BeginTerminal
    <2>12. QED
      BY <2>4, <2>5, <2>6, <2>7, <2>8, <2>9, <2>10, <2>11 DEF OpInv
  <1>14. ASSUME NEW e \in Evidence, NEW c \in Candidate, Claim(o, e, c)
        PROVE OpInv(o)'
    <2>1. /\ arbiter'[o].mode = arbiter[o].mode
          /\ arbiter'[o].owner = arbiter[o].owner
          /\ arbiter'[o].winner = c
          /\ arbiter'[o].committed = arbiter[o].committed
      BY <1>c, <1>14 DEF Claim, BeginTerminal, DeactivateDeferred, Arbiters
    <2>2. claimed'[o] # NoClaim
      BY <1>d, <1>14
         DEF Claim, BeginTerminal, DeactivateDeferred, Claims, NoClaim,
             Evidence
    <2>3. terminalInProgress'[o] = TRUE
      BY TypeOK, <1>14 DEF Claim, BeginTerminal, DeactivateDeferred, TypeOK
    <2>4. /\ token'[o].active = FALSE
          /\ token'[o].cancelled = token[o].cancelled
      BY <1>b, <1>14 DEF Claim, BeginTerminal, DeactivateDeferred, Tokens
    <2>5. /\ txn'[o].pc = IF c = "Cancellation" THEN "cancelling" ELSE "claimed"
          /\ txn'[o].primary = c
          /\ txn'[o].evidence = e
          /\ txn'[o].by = "primary"
          /\ txn'[o].cleanup = "ok"
          /\ txn'[o].domain = "ok"
      BY <1>a, <1>14 DEF Claim, BeginTerminal, DeactivateDeferred, Txns, NoTxn
    <2>6. PhaseInv(o)'
      BY <1>14, <2>1, <2>2, <2>3, <2>4, <2>5
         DEF Claim, PhaseInv, OpInv, OwnerInv, IsTerminal, InTxn, Ended,
             Terminal, PrimaryFromCandidate, Candidate, BeginTerminal
    <2>7. OwnerInv(o)'
      BY <1>14, <2>1, <2>2, <2>3, <2>4, <2>5
         DEF Claim, OwnerInv, OpInv, PhaseInv, Owned, InTxn, Ended,
             PrimaryFromCandidate, Candidate, BeginTerminal
    <2>8. ClaimInv(o)'
      BY <1>14, <2>1, <2>2, <2>3, <2>4, <2>5
         DEF Claim, ClaimInv, OpInv, PhaseInv, OwnerInv, InTxn, Ended,
             PrimaryFromCandidate, Candidate, BeginTerminal
    <2>9. CancelInv(o)'
      <3>1. c = "Cancellation" =>
               state[o] \in {"Pending", "Running"} /\ reason[o] # "none"
        BY <1>14 DEF Claim, PrimaryFromCandidate
      <3>2. Owned(o)
        BY <1>14 DEF Claim, Owned
      <3>3. QED
        BY <1>14, <2>1, <2>2, <2>3, <2>4, <2>5, <3>1, <3>2
           DEF Claim, OpInv, CancelInv, Owned, InTxn
    <2>10. EvidenceInv(o)'
      BY <1>14, <2>1, <2>2, <2>3, <2>4, <2>5
         DEF Claim, EvidenceInv, OpInv, PhaseInv, OwnerInv, Owned, Ended,
             InTxn, TerminalState, Terminal, IsTerminal, PrimaryFromCandidate,
             Candidate, BeginTerminal
    <2>11. TokenInv(o)'
      BY <1>14, <2>1, <2>2, <2>3, <2>4, <2>5
         DEF Claim, TokenInv, OpInv, PhaseInv, OwnerInv, InTxn,
             PrimaryFromCandidate, Candidate, BeginTerminal
    <2>12. RecordInv(o)'
      BY <1>14, <2>1, <2>2, <2>3, <2>4, <2>5
         DEF Claim, RecordInv, OpInv, PhaseInv, OwnerInv, Transferable,
             PrimaryFromCandidate, EvidenceAllowsWinner, Candidate, BeginTerminal
    <2>13. WaiterInv(o)'
      BY <1>14, <2>1, <2>2, <2>3, <2>4, <2>5
         DEF Claim, WaiterInv, OpInv, PhaseInv, OwnerInv, IsTerminal, Ended,
             InTxn, Terminal, PrimaryFromCandidate, Candidate, BeginTerminal
    <2>14. QED
      BY <2>6, <2>7, <2>8, <2>9, <2>10, <2>11, <2>12, <2>13 DEF OpInv
  <1>15. ASSUME NEW e \in Evidence, NEW c \in Candidate, Reclaim(o, e, c)
        PROVE OpInv(o)'
    <2>1. claimed[o] # NoClaim /\ claimed'[o] # NoClaim
      BY <1>d, <1>15 DEF Reclaim, Claims, NoClaim, Evidence
    <2>2. PhaseInv(o)'
      BY <1>15, <2>1
         DEF Reclaim, PhaseInv, OpInv, OwnerInv, IsTerminal, InTxn, Ended,
             Terminal
    <2>3. OwnerInv(o)'
      BY <1>15, <2>1 DEF Reclaim, OwnerInv, OpInv, PhaseInv, Owned, InTxn, Ended
    <2>4. ClaimInv(o)'
      BY <1>15, <2>1
         DEF Reclaim, ClaimInv, OpInv, PhaseInv, OwnerInv, InTxn, Ended
    <2>5. CancelInv(o)'
      BY <1>15, <2>1
         DEF Reclaim, CancelInv, OpInv, PhaseInv, OwnerInv, Owned, InTxn,
             Ended, IsTerminal
    <2>6. EvidenceInv(o)'
      BY <1>15, <2>1
         DEF Reclaim, EvidenceInv, OpInv, PhaseInv, OwnerInv, Owned, Ended,
             InTxn, TerminalState, IsTerminal
    <2>7. TokenInv(o)'
      BY <1>15, <2>1 DEF Reclaim, TokenInv, OpInv, PhaseInv, OwnerInv, InTxn
    <2>8. RecordInv(o)'
      BY <1>15, <2>1
         DEF Reclaim, RecordInv, OpInv, PhaseInv, OwnerInv, Transferable,
             PrimaryFromCandidate, EvidenceAllowsWinner
    <2>9. WaiterInv(o)'
      BY <1>15, <2>1
         DEF Reclaim, WaiterInv, OpInv, PhaseInv, OwnerInv, IsTerminal, Ended,
             InTxn, Terminal
    <2>10. QED
      BY <2>2, <2>3, <2>4, <2>5, <2>6, <2>7, <2>8, <2>9 DEF OpInv
  <1>16. ASSUME NEW e \in Evidence, NEW c \in Candidate, RecordForHandoff(o, e, c)
        PROVE OpInv(o)'
    <2>1. record'[o] = [evidence |-> e, candidate |-> c]
      BY <1>e, <1>16 DEF RecordForHandoff, Records
    <2>2. PhaseInv(o)'
      BY <1>16, <2>1
         DEF RecordForHandoff, PhaseInv, OpInv, OwnerInv, IsTerminal, InTxn,
             Ended, Terminal
    <2>3. OwnerInv(o)'
      BY <1>16, <2>1
         DEF RecordForHandoff, OwnerInv, OpInv, PhaseInv, Owned, InTxn, Ended
    <2>4. ClaimInv(o)'
      BY <1>16, <2>1
         DEF RecordForHandoff, ClaimInv, OpInv, PhaseInv, OwnerInv, InTxn,
             Ended
    <2>5. CancelInv(o)'
      BY <1>16, <2>1
         DEF RecordForHandoff, CancelInv, OpInv, PhaseInv, OwnerInv, Owned,
             InTxn, Ended, IsTerminal
    <2>6. EvidenceInv(o)'
      BY <1>16, <2>1
         DEF RecordForHandoff, EvidenceInv, OpInv, PhaseInv, OwnerInv, Owned,
             Ended, InTxn, TerminalState, IsTerminal
    <2>7. TokenInv(o)'
      BY <1>16, <2>1
         DEF RecordForHandoff, TokenInv, OpInv, PhaseInv, OwnerInv, InTxn
    <2>8. RecordInv(o)'
      <3>1. record'[o].candidate = c /\ record'[o].evidence = e
        BY <2>1
      <3>2. PrimaryFromCandidate(o, record[o].candidate)'
        BY <1>16, <3>1 DEF RecordForHandoff, PrimaryFromCandidate, Candidate
      <3>3. QED
        BY <1>16, <3>1, <3>2 DEF RecordForHandoff, RecordInv, Transferable
    <2>9. WaiterInv(o)'
      BY <1>16, <2>1
         DEF RecordForHandoff, WaiterInv, OpInv, PhaseInv, OwnerInv,
             IsTerminal, Ended, InTxn, Terminal
    <2>10. QED
      BY <2>2, <2>3, <2>4, <2>5, <2>6, <2>7, <2>8, <2>9 DEF OpInv
  <1>17. ASSUME NEW d \in Outcome, FinishClaimed(o, d)
        PROVE OpInv(o)'
    <2>1. claimed[o] # NoClaim /\ claimed'[o] # NoClaim
      BY <1>d, <1>17 DEF FinishClaimed, Claims, NoClaim, Evidence
    <2>2. callbacks'[o] = "taken"
      BY TypeOK, <1>17 DEF FinishClaimed, TypeOK
    <2>3. /\ txn'[o].pc = "cleanup"
          /\ txn'[o].primary = txn[o].primary
          /\ txn'[o].evidence = txn[o].evidence
          /\ txn'[o].by = txn[o].by
          /\ txn'[o].cleanup = txn[o].cleanup
          /\ txn'[o].domain = d
      BY <1>a, <1>17 DEF FinishClaimed, Txns
    <2>4. PhaseInv(o)'
      BY <1>17, <2>1, <2>2, <2>3
         DEF FinishClaimed, PhaseInv, OpInv, OwnerInv, IsTerminal, InTxn,
             Ended, Terminal
    <2>5. OwnerInv(o)'
      BY <1>17, <2>1, <2>2, <2>3
         DEF FinishClaimed, OwnerInv, OpInv, PhaseInv, Owned, InTxn, Ended
    <2>6. ClaimInv(o)'
      BY <1>17, <2>1, <2>2, <2>3
         DEF FinishClaimed, ClaimInv, OpInv, PhaseInv, OwnerInv, InTxn, Ended
    <2>7. CancelInv(o)'
      BY <1>17, <2>1, <2>2, <2>3
         DEF FinishClaimed, CancelInv, OpInv, PhaseInv, OwnerInv, Owned, InTxn,
             Ended, IsTerminal
    <2>8. EvidenceInv(o)'
      BY <1>17, <2>1, <2>2, <2>3
         DEF FinishClaimed, EvidenceInv, OpInv, PhaseInv, OwnerInv, Owned,
             Ended, InTxn, TerminalState, IsTerminal
    <2>9. TokenInv(o)'
      BY <1>17, <2>1, <2>2, <2>3
         DEF FinishClaimed, TokenInv, OpInv, PhaseInv, OwnerInv, InTxn
    <2>10. RecordInv(o)'
      BY <1>17, <2>1, <2>2, <2>3
         DEF FinishClaimed, RecordInv, OpInv, PhaseInv, OwnerInv, Transferable,
             PrimaryFromCandidate, EvidenceAllowsWinner
    <2>11. WaiterInv(o)'
      BY <1>17, <2>1, <2>2, <2>3
         DEF FinishClaimed, WaiterInv, OpInv, PhaseInv, OwnerInv, IsTerminal,
             Ended, InTxn, Terminal
    <2>12. QED
      BY <2>4, <2>5, <2>6, <2>7, <2>8, <2>9, <2>10, <2>11 DEF OpInv
  <1>18. CASE AbandonClaimed(o)
    <2>1. claimed[o] # NoClaim /\ claimed'[o] # NoClaim
      BY <1>d, <1>18 DEF AbandonClaimed, NotifyAll, Claims, NoClaim, Evidence
    <2>2. \A v \in Waiters : /\ waiter'[o][v].saw = waiter[o][v].saw
                           /\ waiter'[o][v].pc # "blocked"
      BY <1>w, <1>18, Wakes DEF AbandonClaimed
    <2>3. PhaseInv(o)'
      BY <1>18, <2>1, <2>2
         DEF AbandonClaimed, PhaseInv, OpInv, OwnerInv, IsTerminal, InTxn,
             Ended, Terminal
    <2>4. OwnerInv(o)'
      BY <1>18, <2>1, <2>2
         DEF AbandonClaimed, OwnerInv, OpInv, PhaseInv, Owned, InTxn, Ended
    <2>5. ClaimInv(o)'
      BY <1>18, <2>1, <2>2
         DEF AbandonClaimed, ClaimInv, OpInv, PhaseInv, OwnerInv, InTxn, Ended
    <2>6. CancelInv(o)'
      BY <1>18, <2>1, <2>2
         DEF AbandonClaimed, CancelInv, OpInv, PhaseInv, OwnerInv, Owned,
             InTxn, Ended, IsTerminal
    <2>7. EvidenceInv(o)'
      BY <1>18, <2>1, <2>2
         DEF AbandonClaimed, EvidenceInv, OpInv, PhaseInv, OwnerInv, Owned,
             Ended, InTxn, TerminalState, IsTerminal
    <2>8. TokenInv(o)'
      BY <1>18, <2>1, <2>2
         DEF AbandonClaimed, TokenInv, OpInv, PhaseInv, OwnerInv, InTxn
    <2>9. RecordInv(o)'
      BY <1>18, <2>1, <2>2
         DEF AbandonClaimed, RecordInv, OpInv, PhaseInv, OwnerInv,
             Transferable, PrimaryFromCandidate, EvidenceAllowsWinner
    <2>10. WaiterInv(o)'
      BY <1>18, <2>1, <2>2
         DEF AbandonClaimed, WaiterInv, OpInv, PhaseInv, OwnerInv, IsTerminal,
             Ended, InTxn, Terminal
    <2>11. QED
      BY <2>3, <2>4, <2>5, <2>6, <2>7, <2>8, <2>9, <2>10 DEF OpInv
  <1>19. CASE BindOwnerTask(o)
    <2>1. PhaseInv(o)'
      BY <1>19
         DEF BindOwnerTask, PhaseInv, OpInv, OwnerInv, IsTerminal, InTxn,
             Ended, Terminal
    <2>2. OwnerInv(o)'
      BY <1>19 DEF BindOwnerTask, OwnerInv, OpInv, PhaseInv, Owned, InTxn, Ended
    <2>3. ClaimInv(o)'
      BY <1>19
         DEF BindOwnerTask, ClaimInv, OpInv, PhaseInv, OwnerInv, InTxn, Ended
    <2>4. CancelInv(o)'
      BY <1>19
         DEF BindOwnerTask, CancelInv, OpInv, PhaseInv, OwnerInv, Owned, InTxn,
             Ended, IsTerminal
    <2>5. EvidenceInv(o)'
      BY <1>19
         DEF BindOwnerTask, EvidenceInv, OpInv, PhaseInv, OwnerInv, Owned,
             Ended, InTxn, TerminalState, IsTerminal
    <2>6. TokenInv(o)'
      BY <1>19 DEF BindOwnerTask, TokenInv, OpInv, PhaseInv, OwnerInv, InTxn
    <2>7. RecordInv(o)'
      BY <1>19
         DEF BindOwnerTask, RecordInv, OpInv, PhaseInv, OwnerInv, Transferable,
             PrimaryFromCandidate, EvidenceAllowsWinner
    <2>8. WaiterInv(o)'
      BY <1>19
         DEF BindOwnerTask, WaiterInv, OpInv, PhaseInv, OwnerInv, IsTerminal,
             Ended, InTxn, Terminal
    <2>9. QED
      BY <2>1, <2>2, <2>3, <2>4, <2>5, <2>6, <2>7, <2>8 DEF OpInv
  <1>20. CASE MarkOwnerTaskJoined(o)
    <2>1. /\ arbiter'[o].mode = arbiter[o].mode
          /\ arbiter'[o].owner = arbiter[o].owner
          /\ arbiter'[o].winner = arbiter[o].winner
          /\ arbiter'[o].committed = arbiter[o].committed
      BY <1>c, <1>20 DEF MarkOwnerTaskJoined, Arbiters
    <2>2. PhaseInv(o)'
      BY <1>20, <2>1
         DEF MarkOwnerTaskJoined, PhaseInv, OpInv, OwnerInv, IsTerminal, InTxn,
             Ended, Terminal
    <2>3. OwnerInv(o)'
      BY <1>20, <2>1
         DEF MarkOwnerTaskJoined, OwnerInv, OpInv, PhaseInv, Owned, InTxn,
             Ended
    <2>4. ClaimInv(o)'
      BY <1>20, <2>1
         DEF MarkOwnerTaskJoined, ClaimInv, OpInv, PhaseInv, OwnerInv, InTxn,
             Ended
    <2>5. CancelInv(o)'
      BY <1>20, <2>1
         DEF MarkOwnerTaskJoined, CancelInv, OpInv, PhaseInv, OwnerInv, Owned,
             InTxn, Ended, IsTerminal
    <2>6. EvidenceInv(o)'
      BY <1>20, <2>1
         DEF MarkOwnerTaskJoined, EvidenceInv, OpInv, PhaseInv, OwnerInv,
             Owned, Ended, InTxn, TerminalState, IsTerminal
    <2>7. TokenInv(o)'
      BY <1>20, <2>1
         DEF MarkOwnerTaskJoined, TokenInv, OpInv, PhaseInv, OwnerInv, InTxn
    <2>8. RecordInv(o)'
      BY <1>20, <2>1
         DEF MarkOwnerTaskJoined, RecordInv, OpInv, PhaseInv, OwnerInv,
             Transferable, PrimaryFromCandidate, EvidenceAllowsWinner
    <2>9. WaiterInv(o)'
      BY <1>20, <2>1
         DEF MarkOwnerTaskJoined, WaiterInv, OpInv, PhaseInv, OwnerInv,
             IsTerminal, Ended, InTxn, Terminal
    <2>10. QED
      BY <2>2, <2>3, <2>4, <2>5, <2>6, <2>7, <2>8, <2>9 DEF OpInv
  <1>21. CASE SettleAfterOwnerJoin(o)
    <2>1. /\ arbiter'[o].mode = arbiter[o].mode
          /\ arbiter'[o].owner = "transfer"
          /\ arbiter'[o].winner = record[o].candidate
          /\ arbiter'[o].committed = arbiter[o].committed
      BY <1>c, <1>21
         DEF SettleAfterOwnerJoin, BeginTerminal, DeactivateDeferred, Arbiters
    <2>2. record'[o] = NoRecord
      BY <1>e, <1>21
         DEF SettleAfterOwnerJoin, BeginTerminal, DeactivateDeferred, Records
    <2>3. callbacks'[o] = "taken"
      BY TypeOK, <1>21
         DEF SettleAfterOwnerJoin, BeginTerminal, DeactivateDeferred, TypeOK
    <2>4. terminalInProgress'[o] = TRUE
      BY TypeOK, <1>21
         DEF SettleAfterOwnerJoin, BeginTerminal, DeactivateDeferred, TypeOK
    <2>5. /\ token'[o].active = FALSE
          /\ token'[o].cancelled = token[o].cancelled
      BY <1>b, <1>21
         DEF SettleAfterOwnerJoin, BeginTerminal, DeactivateDeferred, Tokens
    <2>6. /\ txn'[o].pc = IF record[o].candidate = "Cancellation"
                            THEN "cancelling" ELSE "cleanup"
          /\ txn'[o].primary = record[o].candidate
          /\ txn'[o].evidence = record[o].evidence
          /\ txn'[o].by = "transfer"
          /\ txn'[o].cleanup = "ok"
          /\ txn'[o].domain = "ok"
      BY <1>a, <1>21
         DEF SettleAfterOwnerJoin, BeginTerminal, DeactivateDeferred, Txns,
             NoTxn
    <2>7. PhaseInv(o)'
      BY <1>21, <2>1, <2>2, <2>3, <2>4, <2>5, <2>6
         DEF SettleAfterOwnerJoin, PhaseInv, OpInv, OwnerInv, IsTerminal,
             InTxn, Ended, Terminal, FallbackAllowed, PrimaryFromCandidate,
             EvidenceAllowsWinner, Transferable, Owned, CancelInv, RecordInv,
             BeginTerminal
    <2>8. OwnerInv(o)'
      BY <1>21, <2>1, <2>2, <2>3, <2>4, <2>5, <2>6
         DEF SettleAfterOwnerJoin, OwnerInv, OpInv, PhaseInv, Owned, InTxn,
             Ended, FallbackAllowed, PrimaryFromCandidate, EvidenceAllowsWinner,
             Transferable, CancelInv, RecordInv, BeginTerminal
    <2>9. ClaimInv(o)'
      BY <1>21, <2>1, <2>2, <2>3, <2>4, <2>5, <2>6
         DEF SettleAfterOwnerJoin, ClaimInv, OpInv, PhaseInv, OwnerInv, InTxn,
             Ended, FallbackAllowed, PrimaryFromCandidate, EvidenceAllowsWinner,
             Transferable, Owned, CancelInv, RecordInv, BeginTerminal
    <2>10. CancelInv(o)'
      <3>1. record[o].candidate = "Cancellation" =>
               state[o] \in {"Pending", "Running"} /\ reason[o] # "none"
        BY <1>21 DEF SettleAfterOwnerJoin, PrimaryFromCandidate, FallbackAllowed
      <3>2. Owned(o)
        BY <1>21 DEF SettleAfterOwnerJoin, Owned, FallbackAllowed, Transferable
      <3>3. QED
        BY <1>21, <2>1, <2>2, <2>3, <2>4, <2>5, <2>6, <3>1, <3>2
           DEF SettleAfterOwnerJoin, OpInv, CancelInv, Owned, InTxn
    <2>11. EvidenceInv(o)'
      BY <1>21, <2>1, <2>2, <2>3, <2>4, <2>5, <2>6
         DEF SettleAfterOwnerJoin, EvidenceInv, OpInv, PhaseInv, OwnerInv,
             Owned, Ended, InTxn, TerminalState, Terminal, IsTerminal,
             FallbackAllowed, PrimaryFromCandidate, EvidenceAllowsWinner,
             Transferable, CancelInv, RecordInv, BeginTerminal
    <2>12. TokenInv(o)'
      BY <1>21, <2>1, <2>2, <2>3, <2>4, <2>5, <2>6
         DEF SettleAfterOwnerJoin, TokenInv, OpInv, PhaseInv, OwnerInv, InTxn,
             BeginTerminal
    <2>13. RecordInv(o)'
      BY <1>21, <2>1, <2>2, <2>3, <2>4, <2>5, <2>6
         DEF SettleAfterOwnerJoin, RecordInv, OpInv, PhaseInv, OwnerInv,
             Transferable, PrimaryFromCandidate, EvidenceAllowsWinner, NoRecord,
             BeginTerminal
    <2>14. WaiterInv(o)'
      BY <1>21, <2>1, <2>2, <2>3, <2>4, <2>5, <2>6
         DEF SettleAfterOwnerJoin, WaiterInv, OpInv, PhaseInv, OwnerInv,
             IsTerminal, Ended, InTxn, Terminal, BeginTerminal
    <2>15. QED
      BY <2>7, <2>8, <2>9, <2>10, <2>11, <2>12, <2>13, <2>14 DEF OpInv
  <1>22. ASSUME NEW w \in Waiters, NEW m \in WaitMode, Wait(o, w, m)
        PROVE OpInv(o)'
    <2>1. \A v \in Waiters : waiter'[o][v] # waiter[o][v] =>
              /\ waiter'[o][v].saw \in Terminal =>
                   IsTerminal(o) /\ waiter'[o][v].saw = state[o]
              /\ waiter'[o][v].pc = "blocked" => ~IsTerminal(o)
      BY <1>w, <1>22 DEF Wait, Look, Calls, Terminal
    <2>2. PhaseInv(o)'
      BY <1>22, <2>1
         DEF Wait, PhaseInv, OpInv, OwnerInv, IsTerminal, InTxn, Ended,
             Terminal
    <2>3. OwnerInv(o)'
      BY <1>22, <2>1 DEF Wait, OwnerInv, OpInv, PhaseInv, Owned, InTxn, Ended
    <2>4. ClaimInv(o)'
      BY <1>22, <2>1 DEF Wait, ClaimInv, OpInv, PhaseInv, OwnerInv, InTxn, Ended
    <2>5. CancelInv(o)'
      BY <1>22, <2>1
         DEF Wait, CancelInv, OpInv, PhaseInv, OwnerInv, Owned, InTxn, Ended,
             IsTerminal
    <2>6. EvidenceInv(o)'
      BY <1>22, <2>1
         DEF Wait, EvidenceInv, OpInv, PhaseInv, OwnerInv, Owned, Ended, InTxn,
             TerminalState, IsTerminal
    <2>7. TokenInv(o)'
      BY <1>22, <2>1 DEF Wait, TokenInv, OpInv, PhaseInv, OwnerInv, InTxn
    <2>8. RecordInv(o)'
      BY <1>22, <2>1
         DEF Wait, RecordInv, OpInv, PhaseInv, OwnerInv, Transferable,
             PrimaryFromCandidate, EvidenceAllowsWinner
    <2>9. WaiterInv(o)'
      BY <1>22, <2>1
         DEF Wait, WaiterInv, OpInv, PhaseInv, OwnerInv, IsTerminal, Ended,
             InTxn, Terminal, Locked
    <2>10. QED
      BY <2>2, <2>3, <2>4, <2>5, <2>6, <2>7, <2>8, <2>9 DEF OpInv
  <1>23. ASSUME NEW w \in Waiters, Recheck(o, w)
        PROVE OpInv(o)'
    <2>1. \A v \in Waiters : waiter'[o][v] # waiter[o][v] =>
              /\ waiter'[o][v].saw \in Terminal =>
                   IsTerminal(o) /\ waiter'[o][v].saw = state[o]
              /\ waiter'[o][v].pc = "blocked" => ~IsTerminal(o)
      BY <1>w, <1>23 DEF Recheck, Look, Calls, Terminal
    <2>2. PhaseInv(o)'
      BY <1>23, <2>1
         DEF Recheck, PhaseInv, OpInv, OwnerInv, IsTerminal, InTxn, Ended,
             Terminal
    <2>3. OwnerInv(o)'
      BY <1>23, <2>1 DEF Recheck, OwnerInv, OpInv, PhaseInv, Owned, InTxn, Ended
    <2>4. ClaimInv(o)'
      BY <1>23, <2>1
         DEF Recheck, ClaimInv, OpInv, PhaseInv, OwnerInv, InTxn, Ended
    <2>5. CancelInv(o)'
      BY <1>23, <2>1
         DEF Recheck, CancelInv, OpInv, PhaseInv, OwnerInv, Owned, InTxn,
             Ended, IsTerminal
    <2>6. EvidenceInv(o)'
      BY <1>23, <2>1
         DEF Recheck, EvidenceInv, OpInv, PhaseInv, OwnerInv, Owned, Ended,
             InTxn, TerminalState, IsTerminal
    <2>7. TokenInv(o)'
      BY <1>23, <2>1 DEF Recheck, TokenInv, OpInv, PhaseInv, OwnerInv, InTxn
    <2>8. RecordInv(o)'
      BY <1>23, <2>1
         DEF Recheck, RecordInv, OpInv, PhaseInv, OwnerInv, Transferable,
             PrimaryFromCandidate, EvidenceAllowsWinner
    <2>9. WaiterInv(o)'
      BY <1>23, <2>1
         DEF Recheck, WaiterInv, OpInv, PhaseInv, OwnerInv, IsTerminal, Ended,
             InTxn, Terminal, Locked
    <2>10. QED
      BY <2>2, <2>3, <2>4, <2>5, <2>6, <2>7, <2>8, <2>9 DEF OpInv
  <1>24. ASSUME NEW w \in Waiters, WaitTimeout(o, w)
        PROVE OpInv(o)'
    <2>1. \A v \in Waiters : waiter'[o][v] # waiter[o][v] =>
              /\ waiter'[o][v].saw \in Terminal =>
                   IsTerminal(o) /\ waiter'[o][v].saw = state[o]
              /\ waiter'[o][v].pc = "blocked" => ~IsTerminal(o)
      BY <1>w, <1>24 DEF WaitTimeout, Calls, Terminal
    <2>2. PhaseInv(o)'
      BY <1>24, <2>1
         DEF WaitTimeout, PhaseInv, OpInv, OwnerInv, IsTerminal, InTxn, Ended,
             Terminal
    <2>3. OwnerInv(o)'
      BY <1>24, <2>1
         DEF WaitTimeout, OwnerInv, OpInv, PhaseInv, Owned, InTxn, Ended
    <2>4. ClaimInv(o)'
      BY <1>24, <2>1
         DEF WaitTimeout, ClaimInv, OpInv, PhaseInv, OwnerInv, InTxn, Ended
    <2>5. CancelInv(o)'
      BY <1>24, <2>1
         DEF WaitTimeout, CancelInv, OpInv, PhaseInv, OwnerInv, Owned, InTxn,
             Ended, IsTerminal
    <2>6. EvidenceInv(o)'
      BY <1>24, <2>1
         DEF WaitTimeout, EvidenceInv, OpInv, PhaseInv, OwnerInv, Owned, Ended,
             InTxn, TerminalState, IsTerminal
    <2>7. TokenInv(o)'
      BY <1>24, <2>1 DEF WaitTimeout, TokenInv, OpInv, PhaseInv, OwnerInv, InTxn
    <2>8. RecordInv(o)'
      BY <1>24, <2>1
         DEF WaitTimeout, RecordInv, OpInv, PhaseInv, OwnerInv, Transferable,
             PrimaryFromCandidate, EvidenceAllowsWinner
    <2>9. WaiterInv(o)'
      BY <1>24, <2>1
         DEF WaitTimeout, WaiterInv, OpInv, PhaseInv, OwnerInv, IsTerminal,
             Ended, InTxn, Terminal, Locked
    <2>10. QED
      BY <2>2, <2>3, <2>4, <2>5, <2>6, <2>7, <2>8, <2>9 DEF OpInv
  <1>25. QED
    BY <1>1, <1>2, <1>3, <1>4, <1>5, <1>6, <1>7, <1>8, <1>9, <1>10, <1>11,
       <1>12, <1>13, <1>14, <1>15, <1>16, <1>17, <1>18, <1>19, <1>20, <1>21,
       <1>22, <1>23, <1>24
       DEF Step, TerminalStep, DomainStep, CallStep, SupervisorStep, WaiterStep, RequestCancel

(* The initial states satisfy the inductive invariant. *)
LEMMA InitInv == Init => Inv
  <1> SUFFICES ASSUME Init, NEW o \in Ops PROVE OpInv(o)
    BY InitType DEF Inv
  <1>1. \E m \in Modes : arbiter[o] = NewArbiter(m)
    BY DEF Init
  <1>2. PhaseInv(o) /\ CancelInv(o) /\ EvidenceInv(o) /\ TokenInv(o)
    BY
       DEF Init, NoTxn, PhaseInv, CancelInv, EvidenceInv, TokenInv, InTxn,
           Ended,
           IsTerminal, Terminal
  <1>3. OwnerInv(o)
    BY <1>1 DEF Init, NoTxn, NewArbiter, OwnerInv, Owned, Ended
  <1>4. ClaimInv(o) /\ RecordInv(o)
    BY DEF Init, NoTxn, ClaimInv, RecordInv
  <1>5. WaiterInv(o)
    BY DEF Init, NoTxn, NewWaiter, WaiterInv, Terminal
  <1>6. QED
    BY <1>2, <1>3, <1>4, <1>5 DEF OpInv

(* Every step keeps the inductive invariant. *)
LEMMA InvStep == Inv /\ [Next]_operationVars => Inv'
  <1> SUFFICES ASSUME Inv, [Next]_operationVars PROVE Inv'
    OBVIOUS
  <1>1. TypeOK /\ \A o \in Ops : OpInv(o)
    BY DEF Inv
  <1>2. Decided
    <2> SUFFICES ASSUME NEW o \in Ops, txn[o].pc # "idle"
                 PROVE  txn[o].primary \in Candidate
      BY DEF Decided
    <2>1. txn[o].primary \in Candidate \cup {"none"}
      BY <1>1 DEF TypeOK, Txns
    <2>2. QED
      BY <1>1, <2>1 DEF OpInv, PhaseInv
  <1>3. TypeOK'
    BY <1>1, <1>2, StepType
  <1>4. ASSUME NEW p \in Ops PROVE OpInv(p)'
    <2>1. CASE UNCHANGED operationVars
      <3>1. Untouched(p)
        BY <2>1 DEF operationVars, Untouched
      <3>2. QED
        BY <1>1, <3>1, UntouchedKeeps
    <2>2. ASSUME NEW o \in Ops, Step(o) PROVE OpInv(p)'
      <3>1. CASE p = o
        BY <1>1, <2>2, <3>1, StepKeeps
      <3>2. CASE p # o
        BY <1>1, <2>2, <3>2, OthersUntouched, UntouchedKeeps
      <3>3. QED
        BY <3>1, <3>2
    <2>3. QED
      BY <2>1, <2>2 DEF Next, Step
  <1>5. QED
    BY <1>3, <1>4 DEF Inv

(* The inductive invariant holds in every reachable state, whatever the
   operations and the waiters.                                             *)
THEOREM Invariance == Spec => []Inv
  BY InitInv, InvStep, PTL DEF Spec

(* The actions that put a state into effect before its event is out. *)
Late == {"announce", "publish"}

(* What a step of o may do to its state and to its events: nothing, both at
   once, the state alone, or the event that was still missing.             *)
Moves(o) ==
  \/ /\ state'[o] = state[o] /\ published'[o] = published[o]
     /\ txn'[o].pc \in Late <=> txn[o].pc \in Late
  \/ /\ published'[o] = Append(published[o], state'[o])
     /\ Rank(state[o]) < Rank(state'[o])
     /\ txn[o].pc \notin Late /\ txn'[o].pc \notin Late
  \/ /\ published'[o] = published[o] /\ Rank(state[o]) < Rank(state'[o])
     /\ txn[o].pc \notin Late /\ txn'[o].pc \in Late
  \/ /\ state'[o] = state[o] /\ published'[o] = Append(published[o], state[o])
     /\ txn[o].pc \in Late /\ txn'[o].pc \notin Late

(* What never comes back: an idle transaction, a registry entry, and the
   mode the arbiter was made with.                                         *)
Onwards(o) == /\ txn[o].pc # "idle" => txn'[o].pc # "idle"
              /\ linked'[o] => linked[o]
              /\ arbiter'[o].mode = arbiter[o].mode

(* Ranks of the states. *)
LEMMA Ranks ==
  /\ \A s \in States : Rank(s) \in 0..3
  /\ Rank("Pending") = 0 /\ Rank("Running") = 1 /\ Rank("Cancelling") = 2
  /\ \A s \in Terminal : Rank(s) = 3
  /\ \A s \in States \ Terminal : Rank(s) < 3
  BY DEF Rank, States, Terminal

(* Every action of an operation is one of these moves. *)
LEMMA StepMoves ==
  ASSUME Inv, NEW o \in Ops, Step(o)
  PROVE  Moves(o) /\ Onwards(o)
  <1>i. TypeOK /\ OpInv(o)
    BY DEF Inv
  <1>a. txn \in [Ops -> Txns] /\ txn[o] \in Txns
    BY <1>i DEF TypeOK
  <1>s. /\ state \in [Ops -> States] /\ published \in [Ops -> Seq(States)]
        /\ arbiter \in [Ops -> Arbiters] /\ linked \in [Ops -> BOOLEAN]
    BY <1>i DEF TypeOK
  <1>p. ASSUME NEW pc, txn' = [txn EXCEPT ![o].pc = pc]
        PROVE  txn'[o].pc = pc
    BY <1>a, <1>p DEF Txns
  <1>f. /\ terminalInProgress[o] <=> txn[o].pc \in InTxn
        /\ state[o] \in Terminal <=> txn[o].pc \in Ended
        /\ txn[o].pc \in InTxn \cup Ended \cup {"idle"}
    BY <1>i, <1>a DEF OpInv, PhaseInv, IsTerminal, Txns, InTxn, Ended
  <1>1. CASE ShowClaimedCancellation(o)
    <2>1. txn'[o].pc = "announce" /\ txn[o].pc = "cancelling"
      BY <1>1, <1>p DEF ShowClaimedCancellation
    <2>2. Rank(state[o]) < Rank(state'[o])
      BY <1>1, <1>s, Ranks DEF ShowClaimedCancellation
    <2>3. QED
      BY <1>1, <2>1, <2>2 DEF ShowClaimedCancellation, Moves, Onwards, Late
  <1>2. CASE AnnounceClaimedCancellation(o)
    <2>1. txn[o].pc = "announce" /\ txn'[o].pc \in {"cleanup", "claimed"}
      BY <1>2, <1>p DEF AnnounceClaimedCancellation
    <2>2. state[o] = "Cancelling"
      BY <1>i, <2>1 DEF OpInv, CancelInv, InTxn
    <2>3. published'[o] = Append(published[o], state[o])
      BY <1>2, <1>s, <2>2 DEF AnnounceClaimedCancellation, Publish
    <2>4. QED
      BY <1>2, <2>1, <2>3
         DEF AnnounceClaimedCancellation, Moves, Onwards, Late
  <1>3. ASSUME NEW x \in Outcome, RunCleanup(o, x)
        PROVE  Moves(o) /\ Onwards(o)
    <2>1. txn[o].pc = "cleanup" /\ txn'[o].pc = "settle"
      BY <1>3, <1>a DEF RunCleanup, Txns
    <2>2. QED
      BY <1>3, <2>1 DEF RunCleanup, Moves, Onwards, Late
  <1>4. ASSUME NEW x \in Outcome, CleanupSettled(o, x)
        PROVE  Moves(o) /\ Onwards(o)
    <2>1. txn[o].pc = "settle" /\ txn'[o].pc = "commit"
      BY <1>4, <1>a DEF CleanupSettled, Txns
    <2>2. QED
      BY <1>4, <2>1 DEF CleanupSettled, Moves, Onwards, Late
  <1>5. CASE Commit(o)
    <2>1. txn[o].pc = "commit" /\ txn'[o].pc = "publish"
      BY <1>5, <1>p DEF Commit
    <2>2. state'[o] \in Terminal
      <3>1. txn[o].primary # "none"
        BY <1>i, <2>1 DEF OpInv, PhaseInv
      <3>2. QED
        BY <1>5, <1>i, <1>s, <3>1, CommitState DEF Commit
    <2>3. Rank(state[o]) < Rank(state'[o])
      BY <1>f, <1>s, <2>1, <2>2, Ranks DEF Ended
    <2>4. arbiter'[o].mode = arbiter[o].mode
      BY <1>5, <1>s DEF Commit, Arbiters
    <2>5. QED
      BY <1>5, <2>1, <2>3, <2>4 DEF Commit, Moves, Onwards, Late
  <1>6. CASE PublishTerminal(o)
    <2>1. txn[o].pc = "publish" /\ txn'[o].pc = "unlink"
      BY <1>6, <1>p DEF PublishTerminal
    <2>2. published'[o] = Append(published[o], state[o])
      BY <1>6, <1>s DEF PublishTerminal, Publish
    <2>3. QED
      BY <1>6, <2>1, <2>2 DEF PublishTerminal, Moves, Onwards, Late
  <1>7. CASE Unlink(o)
    <2>1. txn[o].pc = "unlink" /\ txn'[o].pc = "notify"
      BY <1>7, <1>p DEF Unlink
    <2>2. ~linked'[o]
      BY <1>7, <1>s DEF Unlink
    <2>3. QED
      BY <1>7, <2>1, <2>2 DEF Unlink, Moves, Onwards, Late
  <1>8. CASE Notify(o)
    <2>1. txn[o].pc = "notify" /\ txn'[o].pc = "done"
      BY <1>8, <1>p DEF Notify
    <2>2. QED
      BY <1>8, <2>1 DEF Notify, Moves, Onwards, Late
  <1>9. CASE Start(o)
    <2>1. txn[o].pc \notin Late
      BY <1>9, <1>f DEF Start, InTxn, Ended, Late, Terminal
    <2>2. /\ state'[o] = "Running" /\ Rank(state[o]) < Rank(state'[o])
          /\ published'[o] = Append(published[o], state'[o])
      BY <1>9, <1>s, Ranks DEF Start, Publish
    <2>3. QED
      BY <1>9, <2>1, <2>2 DEF Start, Moves, Onwards
  <1>10. ASSUME NEW r \in Reason, RequestCancelOwned(o, r)
         PROVE  Moves(o) /\ Onwards(o)
    BY <1>10 DEF RequestCancelOwned, Moves, Onwards
  <1>11. ASSUME NEW r \in Reason, RequestCancelLegacy(o, r)
         PROVE  Moves(o) /\ Onwards(o)
    <2>1. txn[o].pc \notin Late
      BY <1>11, <1>f DEF RequestCancelLegacy, InTxn, Ended, Late, Terminal
    <2>2. /\ state'[o] = "Cancelling" /\ Rank(state[o]) < Rank(state'[o])
          /\ published'[o] = Append(published[o], state'[o])
      BY <1>11, <1>s, Ranks DEF RequestCancelLegacy, Publish
    <2>3. QED
      BY <1>11, <2>1, <2>2 DEF RequestCancelLegacy, Moves, Onwards
  <1>12. CASE SealFromParent(o)
    BY <1>12 DEF SealFromParent, Moves, Onwards
  <1>b. ASSUME NEW t \in Txns, BeginTerminal(o, t), ~terminalInProgress[o],
               ~IsTerminal(o), t.pc \in InTxn \ Late,
               UNCHANGED <<state, published, linked>>,
               arbiter'[o].mode = arbiter[o].mode
        PROVE  Moves(o) /\ Onwards(o)
    <2>1. txn'[o].pc = t.pc /\ txn[o].pc = "idle"
      BY <1>a, <1>b, <1>f DEF BeginTerminal, IsTerminal
    <2>2. QED
      BY <1>b, <2>1 DEF Moves, Onwards, Late, InTxn
  <1>13. ASSUME NEW c \in Candidate, FinishLegacy(o, c)
         PROVE  Moves(o) /\ Onwards(o)
    <2> DEFINE t == [NoTxn EXCEPT !.pc = "cleanup", !.primary = c,
                                  !.by = "legacy"]
    <2>1. t \in Txns /\ t.pc = "cleanup"
      BY DEF NoTxn, Txns, Outcome
    <2>2. BeginTerminal(o, t) /\ ~terminalInProgress[o] /\ ~IsTerminal(o)
          /\ UNCHANGED <<state, published, linked, arbiter>>
      BY <1>13 DEF FinishLegacy, IsTerminal, Terminal
    <2> HIDE DEF t
    <2>3. QED
      BY <1>b, <2>1, <2>2 DEF InTxn, Late
  <1>14. ASSUME NEW e \in Evidence, NEW c \in Candidate, Claim(o, e, c)
         PROVE  Moves(o) /\ Onwards(o)
    <2> DEFINE t == [NoTxn EXCEPT
                       !.pc = IF c = "Cancellation" THEN "cancelling"
                                                    ELSE "claimed",
                       !.primary = c, !.evidence = e, !.by = "primary"]
    <2>1. t \in Txns /\ t.pc \in {"cancelling", "claimed"}
      BY DEF NoTxn, Txns, Outcome
    <2>2. BeginTerminal(o, t) /\ UNCHANGED <<state, published, linked>>
      BY <1>14 DEF Claim
    <2>3. ~terminalInProgress[o] /\ ~IsTerminal(o)
      <3>1. arbiter[o].winner = "none" /\ Owned(o)
        BY <1>14 DEF Claim
      <3>2. txn[o].pc = "idle"
        BY <1>i, <1>a, <3>1 DEF OpInv, OwnerInv, PhaseInv
      <3>3. QED
        BY <1>f, <3>2 DEF InTxn, Ended, IsTerminal
    <2>4. arbiter'[o].mode = arbiter[o].mode
      BY <1>14, <1>s DEF Claim, Arbiters
    <2> HIDE DEF t
    <2>5. QED
      BY <1>b, <2>1, <2>2, <2>3, <2>4 DEF InTxn, Late
  <1>15. ASSUME NEW e \in Evidence, NEW c \in Candidate, Reclaim(o, e, c)
         PROVE  Moves(o) /\ Onwards(o)
    BY <1>15 DEF Reclaim, Moves, Onwards
  <1>16. ASSUME NEW e \in Evidence, NEW c \in Candidate,
                RecordForHandoff(o, e, c)
         PROVE  Moves(o) /\ Onwards(o)
    BY <1>16 DEF RecordForHandoff, Moves, Onwards
  <1>17. ASSUME NEW d \in Outcome, FinishClaimed(o, d)
         PROVE  Moves(o) /\ Onwards(o)
    <2>1. txn[o].pc = "claimed" /\ txn'[o].pc = "cleanup"
      BY <1>17, <1>a DEF FinishClaimed, Txns
    <2>2. QED
      BY <1>17, <2>1 DEF FinishClaimed, Moves, Onwards, Late
  <1>18. CASE AbandonClaimed(o)
    BY <1>18 DEF AbandonClaimed, Moves, Onwards
  <1>19. CASE BindOwnerTask(o)
    BY <1>19 DEF BindOwnerTask, Moves, Onwards
  <1>20. CASE MarkOwnerTaskJoined(o)
    <2>1. arbiter'[o].mode = arbiter[o].mode
      BY <1>20, <1>s DEF MarkOwnerTaskJoined, Arbiters
    <2>2. QED
      BY <1>20, <2>1 DEF MarkOwnerTaskJoined, Moves, Onwards
  <1>21. CASE SettleAfterOwnerJoin(o)
    <2> DEFINE t == [NoTxn EXCEPT
                       !.pc = IF record[o].candidate = "Cancellation"
                              THEN "cancelling" ELSE "cleanup",
                       !.primary = record[o].candidate,
                       !.evidence = record[o].evidence, !.by = "transfer"]
    <2>1. t \in Txns /\ t.pc \in {"cancelling", "cleanup"}
      <3>1. record[o] \in Records
        BY <1>i DEF TypeOK
      <3>2. QED
        BY <3>1 DEF NoTxn, Txns, Outcome, Records
    <2>2. BeginTerminal(o, t) /\ UNCHANGED <<state, published, linked>>
          /\ ~terminalInProgress[o] /\ ~IsTerminal(o)
      BY <1>21 DEF SettleAfterOwnerJoin, FallbackAllowed
    <2>3. arbiter'[o].mode = arbiter[o].mode
      BY <1>21, <1>s DEF SettleAfterOwnerJoin, Arbiters
    <2> HIDE DEF t
    <2>4. QED
      BY <1>b, <2>1, <2>2, <2>3 DEF InTxn, Late
  <1>22. ASSUME NEW w \in Waiters, NEW m \in WaitMode, Wait(o, w, m)
         PROVE  Moves(o) /\ Onwards(o)
    BY <1>22 DEF Wait, Moves, Onwards
  <1>23. ASSUME NEW w \in Waiters, Recheck(o, w)
         PROVE  Moves(o) /\ Onwards(o)
    BY <1>23 DEF Recheck, Moves, Onwards
  <1>24. ASSUME NEW w \in Waiters, WaitTimeout(o, w)
         PROVE  Moves(o) /\ Onwards(o)
    BY <1>24 DEF WaitTimeout, Moves, Onwards
  <1>25. QED
    BY <1>1, <1>2, <1>3, <1>4, <1>5, <1>6, <1>7, <1>8, <1>9, <1>10, <1>11,
       <1>12, <1>13, <1>14, <1>15, <1>16, <1>17, <1>18, <1>19, <1>20, <1>21,
       <1>22, <1>23, <1>24
       DEF Step, TerminalStep, DomainStep, CallStep, SupervisorStep, WaiterStep,
           RequestCancel

(* The events of o so far are in lifecycle order and end with the state, or
   before it while its event is still to come.                             *)
EventInv(o) ==
  /\ \A i, j \in DOMAIN published[o] :
       i < j => Rank(published[o][i]) < Rank(published[o][j])
  /\ \A i \in DOMAIN published[o] :
       IF txn[o].pc \in Late THEN Rank(published[o][i]) < Rank(state[o])
                             ELSE Rank(published[o][i]) <= Rank(state[o])
  /\ txn[o].pc \notin Late =>
       IF published[o] = << >> THEN state[o] = "Pending"
       ELSE published[o][Len(published[o])] = state[o]

(* A sequence whose elements stay below a new one stays increasing. *)
LEMMA AppendGrows ==
  ASSUME NEW s \in Seq(States), NEW x \in States, NEW t, t = Append(s, x),
         \A i, j \in DOMAIN s : i < j => Rank(s[i]) < Rank(s[j]),
         \A i \in DOMAIN s : Rank(s[i]) < Rank(x)
  PROVE  /\ \A i, j \in DOMAIN t : i < j => Rank(t[i]) < Rank(t[j])
         /\ \A i \in DOMAIN t : Rank(t[i]) <= Rank(x)
         /\ t # << >> /\ t[Len(t)] = x
  <1> DEFINE n == Len(s) + 1
  <1>1. /\ DOMAIN s = 1..Len(s) /\ Len(s) \in Nat
        /\ \A i \in DOMAIN s : s[i] \in States
    BY LenProperties, ElementOfSeq
  <1>2. /\ DOMAIN t = 1..n /\ Len(t) = n
        /\ \A i \in DOMAIN s : t[i] = s[i]
        /\ t[n] = x /\ t # << >>
    BY <1>1, AppendProperties
  <1>3. \A i \in DOMAIN t : i \in DOMAIN s \/ i = n
    BY <1>1, <1>2
  <1>4. Rank(x) \in Nat /\ \A i \in DOMAIN s : Rank(s[i]) \in Nat
    BY <1>1, Ranks
  <1>5. \A i, j \in DOMAIN t : i < j => Rank(t[i]) < Rank(t[j])
    <2> SUFFICES ASSUME NEW i \in DOMAIN t, NEW j \in DOMAIN t, i < j
                 PROVE  Rank(t[i]) < Rank(t[j])
      OBVIOUS
    <2>1. i \in DOMAIN s
      BY <1>1, <1>2, <1>3
    <2>2. CASE j \in DOMAIN s
      BY <1>2, <2>1, <2>2
    <2>3. CASE j = n
      BY <1>2, <2>1, <2>3
    <2>4. QED
      BY <1>3, <2>2, <2>3
  <1>6. \A i \in DOMAIN t : Rank(t[i]) <= Rank(x)
    BY <1>2, <1>3, <1>4
  <1>7. QED
    BY <1>2, <1>5, <1>6

(* Every step keeps the events of every operation in order. *)
LEMMA EventStep ==
  ASSUME Inv, Inv', [Next]_operationVars, NEW o \in Ops, EventInv(o)
  PROVE  EventInv(o)'
  <1>t. /\ published[o] \in Seq(States) /\ state[o] \in States
        /\ state'[o] \in States
    BY DEF Inv, TypeOK
  <1>r. /\ Rank(state[o]) \in Nat /\ Rank(state'[o]) \in Nat
        /\ \A i \in DOMAIN published[o] : Rank(published[o][i]) \in Nat
    BY <1>t, Ranks, LenProperties, ElementOfSeq
  <1>o. \A i, j \in DOMAIN published[o] :
          i < j => Rank(published[o][i]) < Rank(published[o][j])
    BY DEF EventInv
  <1>a. ASSUME NEW x \in States, published'[o] = Append(published[o], x),
               \A i \in DOMAIN published[o] : Rank(published[o][i]) < Rank(x),
               state'[o] = x, txn'[o].pc \notin Late
        PROVE  EventInv(o)'
    <2>1. /\ \A i, j \in DOMAIN published'[o] :
               i < j => Rank(published'[o][i]) < Rank(published'[o][j])
          /\ \A i \in DOMAIN published'[o] : Rank(published'[o][i]) <= Rank(x)
          /\ published'[o] # << >> /\ published'[o][Len(published'[o])] = x
      <3> DEFINE t == published'[o]
      <3>1. t = Append(published[o], x)
        BY <1>a
      <3> HIDE DEF t
      <3>2. /\ \A i, j \in DOMAIN t : i < j => Rank(t[i]) < Rank(t[j])
            /\ \A i \in DOMAIN t : Rank(t[i]) <= Rank(x)
            /\ t # << >> /\ t[Len(t)] = x
        BY <1>t, <1>o, <1>a, <3>1, AppendGrows
      <3>3. QED
        BY <3>2 DEF t
    <2>2. QED
      BY <1>a, <2>1 DEF EventInv
  <1>1. ASSUME Moves(o) PROVE EventInv(o)'
    <2>1. CASE /\ state'[o] = state[o] /\ published'[o] = published[o]
               /\ txn'[o].pc \in Late <=> txn[o].pc \in Late
      BY <2>1 DEF EventInv
    <2>2. CASE /\ published'[o] = Append(published[o], state'[o])
               /\ Rank(state[o]) < Rank(state'[o])
               /\ txn[o].pc \notin Late /\ txn'[o].pc \notin Late
      <3>1. \A i \in DOMAIN published[o] :
              Rank(published[o][i]) < Rank(state'[o])
        BY <1>r, <2>2 DEF EventInv
      <3>2. QED
        BY <1>t, <1>a, <2>2, <3>1
    <2>3. CASE /\ published'[o] = published[o]
               /\ Rank(state[o]) < Rank(state'[o])
               /\ txn[o].pc \notin Late /\ txn'[o].pc \in Late
      BY <1>r, <2>3 DEF EventInv
    <2>4. CASE /\ state'[o] = state[o]
               /\ published'[o] = Append(published[o], state[o])
               /\ txn[o].pc \in Late /\ txn'[o].pc \notin Late
      BY <1>t, <1>a, <2>4 DEF EventInv
    <2>5. QED
      BY <1>1, <2>1, <2>2, <2>3, <2>4 DEF Moves
  <1>2. ASSUME Untouched(o) PROVE EventInv(o)'
    BY <1>2 DEF Untouched, EventInv
  <1>3. CASE UNCHANGED operationVars
    BY <1>2, <1>3 DEF operationVars, Untouched
  <1>4. ASSUME NEW p \in Ops, Step(p) PROVE EventInv(o)'
    <2>1. CASE p = o
      BY <1>1, <1>4, <2>1, StepMoves
    <2>2. CASE p # o
      BY <1>2, <1>4, <2>2, OthersUntouched DEF Inv
    <2>3. QED
      BY <2>1, <2>2
  <1>5. QED
    BY <1>3, <1>4 DEF Next, Step

(* The events of an operation come in lifecycle order, none twice, and end
   with its state, although Cancelling and the terminal state are written
   before their events are published.                                      *)
THEOREM EventsInOrder == Spec => []EventsFollowLifecycle
  <1> DEFINE Events == \A o \in Ops : EventInv(o)
  <1>1. Init => Events
    <2> SUFFICES ASSUME Init, NEW o \in Ops PROVE EventInv(o)
      OBVIOUS
    <2>1. published[o] = << >> /\ state[o] = "Pending"
      BY DEF Init
    <2>2. DOMAIN published[o] = {}
      BY <2>1
    <2>3. QED
      BY <2>1, <2>2 DEF EventInv
  <1>2. Inv /\ Inv' /\ [Next]_operationVars /\ Events => Events'
    BY EventStep
  <1>3. Events => EventsFollowLifecycle
    BY DEF EventInv, EventsFollowLifecycle, Late
  <1> HIDE DEF Events
  <1>4. QED
    BY <1>1, <1>2, <1>3, Invariance, PTL DEF Spec

(* Every variable of the operation protocol keeps its type. *)
THEOREM TypeCorrect == Spec => []TypeOK
  <1>1. Inv => TypeOK
    BY DEF Inv
  <1>2. QED
    BY <1>1, Invariance, PTL

(* The assertion and the expect()s of the terminal critical section hold:
   the committing thread is the arbiter's active owner with the frozen,
   uncommitted winner, and the callbacks are there to be taken.            *)
THEOREM NeverPanicsUnderLock == Spec => []NoPanicUnderLock
  <1>1. Inv => NoPanicUnderLock
    <2> SUFFICES ASSUME Inv, NEW o \in Ops, Owned(o)
                 PROVE  /\ txn[o].pc = "commit" =>
                             /\ arbiter[o].owner = txn[o].by
                             /\ arbiter[o].winner = txn[o].primary
                             /\ ~arbiter[o].committed
                        /\ txn[o].pc \in {"idle", "claimed"} =>
                             callbacks[o] = "registered"
      BY DEF NoPanicUnderLock
    <2>1. OpInv(o)
      BY DEF Inv
    <2>2. txn[o].by \in {"none", "legacy", "primary", "transfer"}
      BY DEF Inv, TypeOK, Txns
    <2>3. QED
      BY <2>1, <2>2 DEF OpInv, OwnerInv, ClaimInv, Ended
  <1>2. QED
    BY <1>1, Invariance, PTL

(* An owned operation ends as its evidence says, through any interleaving of
   cancellations, abandoned claims, handoffs and cleanup failures.         *)
THEOREM EvidenceDecides == Spec => []TerminalMatchesEvidence
  <1>1. Inv => TerminalMatchesEvidence
    <2> SUFFICES ASSUME Inv, NEW o \in Ops, Owned(o), IsTerminal(o)
                 PROVE  /\ state[o] = "Succeeded" =>
                             txn[o].evidence = "EffectAccepted"
                        /\ state[o] = "Cancelled" =>
                             /\ txn[o].evidence = "NotDelivered"
                             /\ reason[o] # "none"
                        /\ state[o] = "Failed" =>
                             \/ txn[o].evidence = "ExecutionFailed"
                             \/ txn[o].cleanup = "err"
      BY DEF TerminalMatchesEvidence, IsTerminal, Terminal
    <2>1. OpInv(o)
      BY DEF Inv
    <2>2. txn[o].pc \in Ended /\ txn[o].pc # "idle"
      BY <2>1 DEF OpInv, PhaseInv, Ended
    <2>3. /\ EvidenceAllowsWinner(txn[o].evidence, txn[o].primary)
          /\ txn[o].domain = "err" => txn[o].cleanup = "err"
          /\ state[o] = TerminalState(txn[o])
      BY <2>1, <2>2 DEF OpInv, EvidenceInv
    <2>4. txn[o].domain \in {"ok", "err"} /\ txn[o].cleanup \in {"ok", "err"}
      BY DEF Inv, TypeOK, Txns, Outcome
    <2>5. txn[o].primary = "Cancellation" => reason[o] # "none"
      BY <2>1 DEF OpInv, CancelInv
    <2>6. QED
      BY <2>3, <2>4, <2>5 DEF EvidenceAllowsWinner, TerminalState
  <1>2. QED
    BY <1>1, Invariance, PTL

(* Recorded handoff evidence can settle the operation as long as nobody has:
   settle_after_owner_join never takes a record it then cannot use.        *)
THEOREM RecordsStayUsable == Spec => []HandoffRecordSettles
  <1>1. Inv => HandoffRecordSettles
    <2> SUFFICES ASSUME Inv, NEW o \in Ops, record[o] # NoRecord,
                        txn[o].pc = "idle", arbiter[o].joined
                 PROVE  FallbackAllowed(o)
      BY DEF HandoffRecordSettles
    <2>1. OpInv(o)
      BY DEF Inv
    <2>2. Transferable(o) /\ Owned(o)
      BY <2>1 DEF OpInv, RecordInv, Transferable, Owned
    <2>3. /\ EvidenceAllowsWinner(record[o].evidence, record[o].candidate)
          /\ PrimaryFromCandidate(o, record[o].candidate)
      BY <2>1 DEF OpInv, RecordInv
    <2>4. /\ ~terminalInProgress[o]
          /\ arbiter[o].winner = "none"
          /\ arbiter[o].committed \in BOOLEAN => ~arbiter[o].committed
          /\ arbiter[o].owner = "primary"
      BY <2>1, <2>2 DEF OpInv, PhaseInv, OwnerInv, InTxn, Ended
    <2>5. arbiter[o].committed \in BOOLEAN
      BY DEF Inv, TypeOK, Arbiters
    <2>6. QED
      BY <2>2, <2>3, <2>4, <2>5 DEF FallbackAllowed
  <1>2. QED
    BY <1>1, Invariance, PTL

(* A wait reports a terminal state only once it is final, published and out
   of the registry, and no waiter stays parked behind a finished operation. *)
THEOREM WaitersAreTold == Spec => [](WaiterSeesSettledOperation /\ NoLostWakeup)
  <1>1. Inv => WaiterSeesSettledOperation /\ NoLostWakeup
    <2> SUFFICES ASSUME Inv, NEW o \in Ops, NEW w \in Waiters
                 PROVE  /\ waiter[o][w].saw \in Terminal =>
                             /\ state[o] = waiter[o][w].saw
                             /\ published[o][Len(published[o])] = state[o]
                             /\ ~linked[o]
                        /\ txn[o].pc = "done" => waiter[o][w].pc # "blocked"
      BY DEF WaiterSeesSettledOperation, NoLostWakeup
    <2>1. OpInv(o)
      BY DEF Inv
    <2>2. QED
      BY <2>1 DEF OpInv, WaiterInv, PhaseInv
  <1>2. QED
    BY <1>1, Invariance, PTL

(* The tokens below the operations: those in no list are ahead of a seal, and
   those whose parent is closed are, or are in the list a seal takes next.  *)
Ahead(c)   == \E s \in Sealers : c \in sealing[s].todo
Covered(c) == \E s \in Sealers : \/ c \in sealing[s].todo
                                 \/ sealing[s].at = parent[c] /\ c \in listed

TreeInv ==
  /\ made \in 0..MaxChildren
  /\ parent \in [Children -> Nodes \cup {None}]
  /\ sealing \in [Sealers -> [at : Nodes \cup {None}, todo : SUBSET Children]]
  /\ linking \subseteq 1..made
  /\ listed \subseteq Children
  /\ \A c \in 1..made : /\ parent[c] \in (Ops \cup 1..made) \ linking
                        /\ c \notin cut => c \in listed \/ Ahead(c)
                        /\ c \notin cut /\ ~Open(parent[c]) => Covered(c)

(* A step below the operations is a step of theirs, or leaves them alone.   *)
LEMMA TreeStepsBelow ==
  TreeNext => (\E o \in Ops : Step(o)) \/ UNCHANGED operationVars
  <1>1. ASSUME NEW o \in Ops, Call(o) PROVE Step(o)
    BY <1>1 DEF Call, Step, DomainStep
  <1>2. ASSUME NEW t \in Cancellers, NEW o \in Ops, CancelAbove(t, o) PROVE Step(o)
    BY <1>2 DEF CancelAbove, Step, DomainStep
  <1>3. QED
    BY <1>1, <1>2
       DEF TreeNext, NewChild, RecheckChild, CancelChild, SealStep, TakeChildren,
           SealChild

LEMMA TreeRefines == TreeSpec => Spec
  <1>1. TreeInit => Init
    BY DEF TreeInit
  <1>2. [TreeNext]_allVars => [Next]_operationVars
    <2>1. UNCHANGED allVars => UNCHANGED operationVars
      BY DEF allVars
    <2>2. ASSUME NEW o \in Ops, Step(o) PROVE Next
      BY <2>2 DEF Step, Next
    <2>3. QED
      BY <2>1, <2>2, TreeStepsBelow
  <1>3. QED
    BY <1>1, <1>2, PTL DEF TreeSpec, Spec

(* Flagging an operation's token, by a thread that is at rest. *)
LEMMA FlagCovers ==
  ASSUME TypeOK, TreeInv, NEW s \in Sealers, NEW o \in Ops, Step(o), sealing[s] = Rest,
         \/ sealing' = [sealing EXCEPT ![s].at = o]
         \/ sealing' = sealing /\ token'[o] = token[o],
         UNCHANGED <<made, parent, linking, listed, cut>>
  PROVE  TreeInv'
  <1>1. \A p \in Ops \ {o} : token'[p] = token[p]
    BY OthersUntouched DEF Untouched
  <1>2. o \in Nodes /\ sealing[s].at = None /\ sealing[s].todo = {}
    BY DEF Nodes, Rest
  <1>3. sealing' \in [Sealers -> [at : Nodes \cup {None}, todo : SUBSET Children]]
    BY <1>2 DEF TreeInv
  <1>4. /\ \A r \in Sealers : sealing'[r].todo = sealing[r].todo
        /\ \A r \in Sealers \ {s} : sealing'[r] = sealing[r]
        /\ sealing'[s].at = o \/ token'[o] = token[o]
    BY DEF TreeInv
  <1>5. ASSUME NEW c \in 1..made
        PROVE  /\ parent'[c] \in (Ops \cup 1..made') \ linking'
               /\ c \notin cut' => c \in listed' \/ Ahead(c)'
               /\ c \notin cut' /\ ~Open(parent[c])' => Covered(c)'
    <2>0. 1..made \subseteq Children
      BY TreeAssumption DEF TreeInv, Children
    <2>1. /\ parent[c] \in (Ops \cup 1..made) \ linking /\ parent[c] # None
          /\ c \notin cut => c \in listed \/ Ahead(c)
          /\ c \notin cut /\ ~Open(parent[c]) => Covered(c)
      BY <2>0, TreeAssumption DEF TreeInv, Nodes
    <2>2. Ahead(c) => Ahead(c)' /\ Covered(c)'
      BY <1>4 DEF Ahead, Covered
    <2>3. Covered(c) => Covered(c)'
      <3>1. ASSUME NEW r \in Sealers, sealing[r].at = parent[c], c \in listed
            PROVE  Covered(c)'
        <4>1. r # s
          BY <1>2, <2>1, <3>1
        <4>2. QED
          BY <1>4, <3>1, <4>1 DEF Covered
      <3>2. QED
        BY <2>2, <3>1 DEF Covered, Ahead
    <2>4. CASE parent[c] = o /\ sealing'[s].at = o /\ c \notin cut
      BY <2>1, <2>2, <2>4 DEF Covered
    <2>5. CASE parent[c] # o \/ token'[o] = token[o]
      <3>1. Open(parent[c])' <=> Open(parent[c])
        BY <1>1, <2>5 DEF Open
      <3>2. QED
        BY <2>1, <2>2, <2>3, <3>1
    <2>6. QED
      BY <1>4, <2>1, <2>2, <2>4, <2>5
  <1>6. QED
    BY <1>3, <1>5 DEF TreeInv

(* Every step keeps what is known of the tokens. *)
LEMMA TreeKept == Inv /\ TreeInv /\ [TreeNext]_allVars => TreeInv'
  <1> SUFFICES ASSUME Inv, TreeInv, [TreeNext]_allVars PROVE TreeInv'
    OBVIOUS
  <1>t. TypeOK
    BY DEF Inv
  <1>s. /\ made \in 0..MaxChildren /\ MaxChildren \in Nat
        /\ parent \in [Children -> Nodes \cup {None}]
        /\ sealing \in [Sealers -> [at : Nodes \cup {None}, todo : SUBSET Children]]
        /\ linking \subseteq 1..made
        /\ listed \subseteq Children
        /\ \A c \in 1..made : /\ parent[c] \in (Ops \cup 1..made) \ linking
                              /\ c \notin cut => c \in listed \/ Ahead(c)
                              /\ c \notin cut /\ ~Open(parent[c]) => Covered(c)
    BY TreeAssumption DEF TreeInv
  <1>c. 1..made \subseteq Children /\ Children \subseteq Nodes /\ Ops \subseteq Sealers
        /\ Cancellers \subseteq Sealers
    BY <1>s DEF Children, Nodes, Sealers
  <1>p. \A c \in 1..made : parent[c] \in Nodes /\ parent[c] # None
    BY <1>c, <1>s, TreeAssumption DEF Nodes
  <1>1. CASE UNCHANGED allVars
    BY <1>1, <1>s
       DEF allVars, operationVars, treeVars, TreeInv, Ahead, Covered, Open
  <1>2. ASSUME NEW o \in Ops, Call(o) PROVE TreeInv'
    <2>1. Step(o)
      BY <1>2 DEF Call, Step, DomainStep
    <2>2. QED
      BY <1>2, <1>c, <1>t, <2>1, FlagCovers DEF Call
  <1>3. ASSUME NEW t \in Cancellers, NEW o \in Ops, CancelAbove(t, o) PROVE TreeInv'
    <2>1. Step(o)
      BY <1>3 DEF CancelAbove, Step, DomainStep
    <2>2. QED
      BY <1>3, <1>c, <1>t, <2>1, FlagCovers DEF CancelAbove
  <1>4. ASSUME NEW n \in Nodes, NewChild(n) PROVE TreeInv'
    <2>1. /\ made' = made + 1 /\ made + 1 \in Children /\ made' \in 0..MaxChildren
          /\ parent' = [parent EXCEPT ![made + 1] = n] /\ Open(n)
          /\ made + 1 \in listed' /\ listed \subseteq listed'
          /\ listed' \subseteq Children
          /\ linking' = linking \cup {made + 1} /\ n \in (Ops \cup 1..made) \ linking
          /\ UNCHANGED <<token, cut, sealing>>
      <3>1. made < MaxChildren /\ n \in Ops \cup (1..made \ linking)
        BY <1>4 DEF NewChild, Live
      <3>2. made + 1 \in 1..MaxChildren /\ made + 1 \in 0..MaxChildren
        BY <1>s, <3>1
      <3>3. n \in (Ops \cup 1..made) \ linking
        BY <1>s, <1>c, <3>1, TreeAssumption
      <3>4. QED
        BY <1>4, <1>s, <3>2, <3>3 DEF NewChild, Children, operationVars
    <2>2. parent' \in [Children -> Nodes \cup {None}]
      BY <1>s, <2>1
    <2>3. ASSUME NEW c \in 1..made'
          PROVE  /\ parent'[c] \in (Ops \cup 1..made') \ linking'
                 /\ c \notin cut' => c \in listed' \/ Ahead(c)'
                 /\ c \notin cut' /\ ~Open(parent[c])' => Covered(c)'
      <3>0. 1..made' = 1..made \cup {made + 1} /\ made + 1 \notin Ops \cup 1..made
        BY <1>s, <2>1, TreeAssumption
      <3>1. CASE c = made + 1
        <4>1. parent'[c] = n
          BY <1>s, <2>1, <3>1
        <4>2. Open(parent[c])'
          BY <2>1, <4>1 DEF Open
        <4>3. QED
          BY <2>1, <3>0, <3>1, <4>1, <4>2
      <3>2. CASE c \in 1..made
        <4>1. parent'[c] = parent[c]
          BY <1>c, <1>s, <2>1, <3>2
        <4>2. parent'[c] \in (Ops \cup 1..made') \ linking'
          BY <1>s, <2>1, <3>0, <3>2, <4>1
        <4>3. QED
          BY <1>s, <2>1, <3>2, <4>1, <4>2 DEF Open, Ahead, Covered
      <3>3. c = made + 1 \/ c \in 1..made
        BY <1>s, <2>1
      <3>4. QED
        BY <3>1, <3>2, <3>3
    <2>4. QED
      BY <1>s, <2>1, <2>2, <2>3 DEF TreeInv
  <1>5. ASSUME NEW c \in Children, RecheckChild(c) PROVE TreeInv'
    <2>1. /\ UNCHANGED <<token, made, parent, listed, sealing>>
          /\ c \in linking /\ linking' \subseteq linking
          /\ cut \subseteq cut' /\ cut' \subseteq cut \cup {c}
      BY <1>5 DEF RecheckChild, operationVars
    <2>2. ASSUME NEW d \in 1..made, d \notin cut', ~Open(parent[d])'
          PROVE  Covered(d)'
      <3>1. ~Open(parent[d]) /\ d \notin cut
        BY <1>s, <2>1, <2>2 DEF Open
      <3>2. QED
        BY <1>s, <2>1, <3>1 DEF Covered
    <2>3. QED
      BY <1>s, <2>1, <2>2 DEF TreeInv, Ahead
  <1>6. ASSUME NEW t \in Cancellers, NEW c \in Children, CancelChild(t, c) PROVE TreeInv'
    <2>1. /\ UNCHANGED <<token, made, parent, linking, listed>>
          /\ cut' = cut \cup {c} /\ sealing' = [sealing EXCEPT ![t].at = c]
          /\ sealing[t].at = None /\ sealing[t].todo = {} /\ t \in Sealers
      BY <1>6, <1>c DEF CancelChild, Rest, operationVars
    <2>2. /\ sealing'[t].at = c
          /\ \A s \in Sealers : /\ sealing'[s].todo = sealing[s].todo
                                /\ s # t => sealing'[s] = sealing[s]
          /\ sealing' \in [Sealers -> [at : Nodes \cup {None}, todo : SUBSET Children]]
      BY <1>c, <1>s, <2>1
    <2>3. ASSUME NEW d \in 1..made, d \notin cut'
          PROVE  /\ d \in listed' \/ Ahead(d)'
                 /\ ~Open(parent[d])' => Covered(d)'
      <3>1. Ahead(d) => Ahead(d)' /\ Covered(d)'
        BY <2>2 DEF Ahead, Covered
      <3>2. d \in listed \/ Ahead(d)
        BY <1>s, <2>1, <2>3
      <3>3. CASE parent[d] = c
        BY <2>1, <2>2, <3>1, <3>2, <3>3 DEF Covered
      <3>4. CASE parent[d] # c
        <4>1. Open(parent[d])' <=> Open(parent[d])
          BY <2>1, <3>4 DEF Open
        <4>2. Covered(d) => Covered(d)'
          BY <1>p, <2>1, <2>2 DEF Covered
        <4>3. QED
          BY <1>s, <2>1, <2>3, <3>1, <3>2, <4>1, <4>2
      <3>5. QED
        BY <2>1, <3>1, <3>2, <3>3, <3>4
    <2>4. QED
      BY <1>s, <2>1, <2>2, <2>3 DEF TreeInv
  <1>7. ASSUME NEW s \in Sealers, TakeChildren(s) PROVE TreeInv'
    <2> DEFINE n     == sealing[s].at
               taken == {c \in listed : parent[c] = n}
    <2>1. /\ UNCHANGED <<token, made, parent, linking, cut>>
          /\ listed' = listed \ taken
          /\ sealing' = [sealing EXCEPT ![s] = [at   |-> None,
                                                todo |-> sealing[s].todo \cup taken]]
      BY <1>7 DEF TakeChildren, operationVars
    <2>2. /\ sealing'[s].todo = sealing[s].todo \cup taken
          /\ \A r \in Sealers \ {s} : sealing'[r] = sealing[r]
      BY <1>s, <2>1
    <2>3. sealing' \in [Sealers -> [at : Nodes \cup {None}, todo : SUBSET Children]]
      <3>1. n # None
        BY <1>7 DEF TakeChildren
      <3>2. \A c \in Children : parent[c] \in Nodes \cup {None}
        BY <1>s
      <3>3. taken \subseteq Children
        BY <1>s
      <3>4. QED
        BY <1>s, <2>1, <3>3
    <2>4. ASSUME NEW d \in 1..made, d \notin cut'
          PROVE  /\ d \in listed' \/ Ahead(d)'
                 /\ ~Open(parent[d])' => Covered(d)'
      <3>1. d \in taken \/ Ahead(d) => Ahead(d)' /\ Covered(d)'
        BY <2>2 DEF Ahead, Covered
      <3>2. d \in listed /\ d \notin taken => d \in listed'
        BY <2>1
      <3>3. Open(parent[d])' <=> Open(parent[d])
        BY <2>1 DEF Open
      <3>4. ASSUME NEW r \in Sealers, sealing[r].at = parent[d], d \in listed
            PROVE  Covered(d)'
        <4>1. CASE parent[d] = n
          BY <3>1, <3>4, <4>1
        <4>2. CASE parent[d] # n
          BY <2>1, <2>2, <3>2, <3>4, <4>2 DEF Covered
        <4>3. QED
          BY <4>1, <4>2
      <3>5. QED
        BY <1>s, <2>1, <2>4, <3>1, <3>2, <3>3, <3>4 DEF Covered, Ahead
    <2>5. QED
      BY <1>s, <2>1, <2>3, <2>4 DEF TreeInv
  <1>8. ASSUME NEW s \in Sealers, NEW c \in Children, SealChild(s, c) PROVE TreeInv'
    <2> DEFINE n == IF c \in cut THEN None ELSE c
    <2>1. /\ UNCHANGED <<token, made, parent, linking, listed>>
          /\ cut' = cut \cup {c} /\ sealing[s].at = None
          /\ sealing' = [sealing EXCEPT ![s] = [at   |-> n,
                                                todo |-> sealing[s].todo \ {c}]]
      BY <1>8 DEF SealChild, operationVars
    <2>2. /\ sealing'[s].at = n /\ sealing'[s].todo = sealing[s].todo \ {c}
          /\ \A r \in Sealers \ {s} : sealing'[r] = sealing[r]
          /\ sealing' \in [Sealers -> [at : Nodes \cup {None}, todo : SUBSET Children]]
      BY <1>c, <1>s, <2>1
    <2>3. ASSUME NEW d \in 1..made, d \notin cut'
          PROVE  /\ d \in listed' \/ Ahead(d)'
                 /\ ~Open(parent[d])' => Covered(d)'
      <3>1. Ahead(d) => Ahead(d)' /\ Covered(d)'
        BY <2>1, <2>2, <2>3 DEF Ahead, Covered
      <3>2. d \in listed \/ Ahead(d)
        BY <1>s, <2>1, <2>3
      <3>3. CASE parent[d] = c /\ c \notin cut
        BY <2>1, <2>2, <3>1, <3>2, <3>3 DEF Covered
      <3>4. CASE parent[d] # c \/ c \in cut
        <4>1. Open(parent[d])' <=> Open(parent[d])
          BY <2>1, <3>4 DEF Open
        <4>2. Covered(d) => Covered(d)'
          BY <1>p, <2>1, <2>2, <3>1 DEF Covered, Ahead
        <4>3. QED
          BY <1>s, <2>1, <2>3, <3>1, <3>2, <4>1, <4>2
      <3>5. QED
        BY <2>1, <3>1, <3>2, <3>3, <3>4
    <2>4. QED
      BY <1>s, <2>1, <2>2, <2>3 DEF TreeInv
  <1>9. QED
    BY <1>1, <1>2, <1>3, <1>4, <1>5, <1>6, <1>7, <1>8 DEF TreeNext, SealStep

(* Whoever was asked to end has closed its token to new children. *)
LEMMA EndingIsClosed ==
  ASSUME Inv, NEW n \in Nodes, Ending(n)
  PROVE  ~Open(n)
  <1>1. CASE n \in Ops
    <2>1. TypeOK /\ PhaseInv(n) /\ TokenInv(n)
      BY <1>1 DEF Inv, OpInv
    <2>2. terminalInProgress[n] \/ IsTerminal(n) => txn[n].pc # "idle"
      BY <2>1 DEF PhaseInv, InTxn, Ended
    <2>3. QED
      BY <1>1, <2>1, <2>2 DEF Ending, Open, TokenInv
  <1>2. CASE n \notin Ops
    BY <1>2 DEF Ending, Open
  <1>3. QED
    BY <1>1, <1>2

(* However the children are made and the seals go down, one whose parent was
   asked to end, ends or was sealed from above is cancelled or is reached by
   a seal under way.                                                       *)
THEOREM NoChildLeft == TreeSpec => []NoChildEscapes
  <1>1. TreeInit => TreeInv
    <2> SUFFICES ASSUME TreeInit PROVE TreeInv
      OBVIOUS
    <2>1. made = 0 /\ 1..made = {} /\ made \in 0..MaxChildren
          /\ linking = {} /\ listed = {}
      BY TreeAssumption DEF TreeInit
    <2>2. /\ parent \in [Children -> Nodes \cup {None}]
          /\ sealing \in [Sealers -> [at : Nodes \cup {None}, todo : SUBSET Children]]
      BY DEF TreeInit, Rest
    <2>3. QED
      BY <2>1, <2>2 DEF TreeInv
  <1>2. TreeSpec => []Inv
    BY TreeRefines, Invariance, PTL
  <1>3. Inv /\ TreeInv => NoChildEscapes
    <2> SUFFICES ASSUME Inv, TreeInv, NEW c \in 1..made \ cut, Ending(parent[c])
                 PROVE  Covered(c)
      BY DEF NoChildEscapes, Covered
    <2>1. 1..made \subseteq Children
      BY TreeAssumption DEF TreeInv, Children
    <2>2. parent[c] \in Nodes
      BY <2>1 DEF TreeInv, Nodes
    <2>3. QED
      BY <2>2, EndingIsClosed DEF TreeInv
  <1>4. QED
    BY <1>1, <1>2, <1>3, TreeKept, PTL DEF TreeSpec
-----------------------------------------------------------------------------
(* A step of operation o, in the lifecycle's terms. *)
LifecycleStep(o) ==
  \/ Lifecycle!Admit(o)
  \/ \E r \in Reason : Lifecycle!Intend(o, r)
  \/ \E d \in Candidate : Lifecycle!Decide(o, d)
  \/ Lifecycle!ShowCancelling(o)
  \/ Lifecycle!End(o)
  \/ UNCHANGED <<state, reason, [p \in Ops |-> txn[p].primary]>>

(* Every step of an operation is a lifecycle step of it, or none. *)
LEMMA StepRefines ==
  ASSUME Inv, NEW o \in Ops, Step(o)
  PROVE  LifecycleStep(o)
  <1> DEFINE decision == [p \in Ops |-> txn[p].primary]
  <1>i. TypeOK /\ OpInv(o)
    BY DEF Inv
  <1>a. txn \in [Ops -> Txns] /\ txn[o] \in Txns
    BY <1>i DEF TypeOK
  <1>s. state \in [Ops -> States] /\ reason \in [Ops -> Reason \cup {"none"}]
    BY <1>i DEF TypeOK
  <1>f. /\ terminalInProgress[o] <=> txn[o].pc \in InTxn
        /\ state[o] \in Terminal <=> txn[o].pc \in Ended
        /\ txn[o].pc = "idle" <=> decision[o] = "none"
        /\ txn[o].pc \in InTxn \cup Ended \cup {"idle"}
    BY <1>i, <1>a DEF OpInv, PhaseInv, IsTerminal, Txns, InTxn, Ended
  <1>g. /\ state[o] = "Cancelling" => reason[o] # "none"
        /\ ~Owned(o) /\ state[o] \in {"Pending", "Running"} => reason[o] = "none"
        /\ decision[o] = "Cancellation" =>
             (txn[o].pc \in InTxn \ {"cancelling"} => state[o] = "Cancelling")
        /\ txn[o].pc = "cancelling" => decision[o] = "Cancellation"
    BY <1>i DEF OpInv, CancelInv
  <1>l. state[o] \notin Terminal <=> state[o] \in Lifecycle!Live
    BY <1>s DEF States, Terminal, Lifecycle!Live
  <1>q. ASSUME UNCHANGED <<state, reason>>, decision' = decision
        PROVE  LifecycleStep(o)
    BY <1>q DEF LifecycleStep
  <1>k. ASSUME NEW t \in Txns, t.primary = txn[o].primary,
               txn' = [txn EXCEPT ![o] = t]
        PROVE  decision' = decision
    BY <1>a, <1>k
  <1>p. ASSUME NEW pc \in InTxn \cup Ended
        PROVE  /\ [txn[o] EXCEPT !.pc = pc] \in Txns
               /\ [txn[o] EXCEPT !.pc = pc].primary = txn[o].primary
    BY <1>a, <1>p DEF Txns, InTxn, Ended
  <1>d. ASSUME NEW c \in Candidate, NEW t \in Txns, t.primary = c,
               txn' = [txn EXCEPT ![o] = t], UNCHANGED <<state, reason>>,
               ~terminalInProgress[o], state[o] \in Lifecycle!Live,
               c = "Success" => state[o] = "Running",
               c = "Cancellation" => reason[o] # "none"
        PROVE  LifecycleStep(o)
    <2>1. decision' = [decision EXCEPT ![o] = c]
      BY <1>a, <1>d
    <2>2. decision[o] = "none"
      BY <1>d, <1>f, <1>l
    <2>3. Lifecycle!Decide(o, c)
      BY <1>d, <2>1, <2>2 DEF Lifecycle!Decide
    <2>4. QED
      BY <2>3 DEF LifecycleStep
  <1>1. ASSUME TerminalStep(o) PROVE LifecycleStep(o)
    <2>1. CASE ShowClaimedCancellation(o)
      <3>1. decision' = decision
        BY <2>1, <1>k, <1>p DEF ShowClaimedCancellation, InTxn
      <3>2. Lifecycle!ShowCancelling(o)
        BY <2>1, <3>1, <1>g
           DEF ShowClaimedCancellation, Lifecycle!ShowCancelling
      <3>3. QED
        BY <3>2 DEF LifecycleStep
    <2>2. CASE AnnounceClaimedCancellation(o)
      BY <2>2, <1>k, <1>p, <1>q DEF AnnounceClaimedCancellation, InTxn
    <2>3. ASSUME NEW x \in Outcome, RunCleanup(o, x) PROVE LifecycleStep(o)
      <3> DEFINE c == IF txn[o].domain = "err" THEN "err" ELSE x
      <3>1. c \in Outcome
        BY DEF Outcome
      <3>2. txn' = [txn EXCEPT ![o] =
                      [txn[o] EXCEPT !.pc = "settle", !.cleanup = c]]
        BY <2>3 DEF RunCleanup
      <3>3. /\ [txn[o] EXCEPT !.pc = "settle", !.cleanup = c] \in Txns
            /\ [txn[o] EXCEPT !.pc = "settle", !.cleanup = c].primary
                 = txn[o].primary
        <4> HIDE DEF c
        <4>1. QED
          BY <1>a, <3>1 DEF Txns
      <3>4. QED
        BY <2>3, <1>k, <1>q, <3>2, <3>3 DEF RunCleanup
    <2>4. ASSUME NEW x \in Outcome, CleanupSettled(o, x) PROVE LifecycleStep(o)
      <3> DEFINE c == IF txn[o].cleanup = "err" THEN "err" ELSE x
      <3>1. c \in Outcome
        BY DEF Outcome
      <3>2. txn' = [txn EXCEPT ![o] =
                      [txn[o] EXCEPT !.pc = "commit", !.cleanup = c]]
        BY <2>4 DEF CleanupSettled
      <3>3. /\ [txn[o] EXCEPT !.pc = "commit", !.cleanup = c] \in Txns
            /\ [txn[o] EXCEPT !.pc = "commit", !.cleanup = c].primary
                 = txn[o].primary
        <4> HIDE DEF c
        <4>1. QED
          BY <1>a, <3>1 DEF Txns
      <3>4. QED
        BY <2>4, <1>k, <1>q, <3>2, <3>3 DEF CleanupSettled
    <2>5. CASE Commit(o)
      <3>1. decision' = decision
        BY <2>5, <1>k, <1>p DEF Commit, Ended
      <3>2. txn[o].pc = "commit" /\ txn[o].pc # "idle"
        BY <2>5 DEF Commit
      <3>3. state[o] \in Lifecycle!Live /\ decision[o] # "none"
        BY <3>2, <1>f, <1>l DEF Ended
      <3>4. decision[o] = "Cancellation" => state[o] = "Cancelling"
        BY <3>2, <1>g DEF InTxn
      <3>5. TerminalState(txn[o]) \in Lifecycle!Outcomes(decision[o])
        <4>1. /\ txn[o].domain \in {"ok", "err"}
              /\ decision[o] \in {"Success", "Failure", "Cancellation"}
          BY <1>a, <3>3 DEF Txns, Outcome, Candidate
        <4>2. QED
          BY <4>1 DEF TerminalState, Lifecycle!Outcomes
      <3>6. Lifecycle!End(o)
        BY <2>5, <3>1, <3>3, <3>4, <3>5 DEF Commit, Lifecycle!End
      <3>7. QED
        BY <3>6 DEF LifecycleStep
    <2>6. CASE PublishTerminal(o)
      BY <2>6, <1>k, <1>p, <1>q DEF PublishTerminal, Ended
    <2>7. CASE Unlink(o)
      BY <2>7, <1>k, <1>p, <1>q DEF Unlink, Ended
    <2>8. CASE Notify(o)
      BY <2>8, <1>k, <1>p, <1>q DEF Notify, Ended
    <2>9. QED
      BY <1>1, <2>1, <2>2, <2>3, <2>4, <2>5, <2>6, <2>7, <2>8 DEF TerminalStep
  <1>2. ASSUME DomainStep(o) PROVE LifecycleStep(o)
    <2>1. CASE Start(o)
      <3>1. decision[o] = "none"
        BY <2>1, <1>f DEF Start, Terminal
      <3>2. Lifecycle!Admit(o)
        BY <2>1, <3>1 DEF Start, Lifecycle!Admit
      <3>3. QED
        BY <3>2 DEF LifecycleStep
    <2>2. ASSUME NEW r \in Reason, RequestCancelOwned(o, r)
          PROVE  LifecycleStep(o)
      <3>1. Lifecycle!Intend(o, r)
        BY <2>2, <1>l DEF RequestCancelOwned, IsTerminal, Lifecycle!Intend
      <3>2. QED
        BY <3>1 DEF LifecycleStep
    <2>3. ASSUME NEW r \in Reason, RequestCancelLegacy(o, r)
          PROVE  LifecycleStep(o)
      <3>1. decision[o] = "none"
        BY <2>3, <1>f DEF RequestCancelLegacy, Terminal
      <3>2. reason[o] = "none" /\ state[o] \in Lifecycle!Live
        BY <2>3, <1>g DEF RequestCancelLegacy, Lifecycle!Live
      <3>3. Lifecycle!Intend(o, r)
        BY <2>3, <3>1, <3>2 DEF RequestCancelLegacy, Lifecycle!Intend
      <3>4. QED
        BY <3>3 DEF LifecycleStep
    <2>4. CASE SealFromParent(o)
      BY <2>4, <1>q DEF SealFromParent
    <2>5. ASSUME NEW c \in Candidate, FinishLegacy(o, c) PROVE LifecycleStep(o)
      <3> DEFINE t == [NoTxn EXCEPT !.pc = "cleanup", !.primary = c,
                                    !.by = "legacy"]
      <3>1. t \in Txns /\ t.primary = c
        BY DEF NoTxn, Txns, Outcome
      <3>2. txn' = [txn EXCEPT ![o] = t]
        BY <2>5 DEF FinishLegacy, BeginTerminal
      <3>3. state[o] \in Lifecycle!Live
        BY <2>5 DEF FinishLegacy, Lifecycle!Live
      <3>4. QED
        BY <2>5, <1>d, <1>g, <3>1, <3>2, <3>3 DEF FinishLegacy
    <2>6. ASSUME NEW e \in Evidence, NEW c \in Candidate, Claim(o, e, c)
          PROVE  LifecycleStep(o)
      <3> DEFINE t == [NoTxn EXCEPT
                         !.pc = IF c = "Cancellation" THEN "cancelling"
                                                      ELSE "claimed",
                         !.primary = c, !.evidence = e, !.by = "primary"]
      <3>1. t \in Txns /\ t.primary = c
        BY DEF NoTxn, Txns, Outcome
      <3>2. txn' = [txn EXCEPT ![o] = t]
        BY <2>6 DEF Claim, BeginTerminal
      <3>3. /\ state[o] \in Lifecycle!Live
            /\ c = "Success" => state[o] = "Running"
            /\ c = "Cancellation" => reason[o] # "none"
        BY <2>6 DEF Claim, PrimaryFromCandidate, Candidate, Lifecycle!Live
      <3>4. ~terminalInProgress[o]
        <4>1. decision[o] = "none"
          BY <2>6, <1>i DEF Claim, OpInv, OwnerInv
        <4>2. QED
          BY <4>1, <1>f DEF InTxn
      <3>5. QED
        BY <2>6, <1>d, <3>1, <3>2, <3>3, <3>4 DEF Claim
    <2>7. ASSUME NEW e \in Evidence, NEW c \in Candidate,
                 Reclaim(o, e, c) \/ RecordForHandoff(o, e, c)
          PROVE  LifecycleStep(o)
      BY <2>7, <1>q DEF Reclaim, RecordForHandoff
    <2>8. ASSUME NEW d \in Outcome, FinishClaimed(o, d) PROVE LifecycleStep(o)
      <3>1. /\ [txn[o] EXCEPT !.pc = "cleanup", !.domain = d] \in Txns
            /\ [txn[o] EXCEPT !.pc = "cleanup", !.domain = d].primary
                 = txn[o].primary
        BY <1>a DEF Txns
      <3>2. QED
        BY <2>8, <1>k, <1>q, <3>1 DEF FinishClaimed
    <2>9. CASE AbandonClaimed(o)
      BY <2>9, <1>q DEF AbandonClaimed
    <2>10. QED
      BY <1>2, <2>1, <2>2, <2>3, <2>4, <2>5, <2>6, <2>7, <2>8, <2>9
         DEF DomainStep, CallStep, RequestCancel
  <1>3. ASSUME SupervisorStep(o) PROVE LifecycleStep(o)
    <2>1. CASE BindOwnerTask(o) \/ MarkOwnerTaskJoined(o)
      BY <2>1, <1>q DEF BindOwnerTask, MarkOwnerTaskJoined
    <2>2. CASE SettleAfterOwnerJoin(o)
      <3> DEFINE c == record[o].candidate
                 t == [NoTxn EXCEPT
                         !.pc = IF c = "Cancellation" THEN "cancelling"
                                                      ELSE "cleanup",
                         !.primary = c, !.evidence = record[o].evidence,
                         !.by = "transfer"]
      <3>1. c \in Candidate /\ record[o].evidence \in Evidence
        BY <2>2 DEF SettleAfterOwnerJoin, FallbackAllowed, EvidenceAllowsWinner,
                    Candidate, Evidence
      <3>2. t \in Txns /\ t.primary = c
        <4> HIDE DEF c
        <4>1. QED
          BY <3>1 DEF NoTxn, Txns, Outcome
      <3>3. txn' = [txn EXCEPT ![o] = t]
        BY <2>2 DEF SettleAfterOwnerJoin, BeginTerminal
      <3>4. /\ state[o] \in Lifecycle!Live
            /\ c = "Success" => state[o] = "Running"
            /\ c = "Cancellation" => reason[o] # "none"
        BY <2>2, <3>1 DEF SettleAfterOwnerJoin, FallbackAllowed,
                          PrimaryFromCandidate, Candidate, Lifecycle!Live
      <3>5. UNCHANGED <<state, reason>> /\ ~terminalInProgress[o]
        BY <2>2 DEF SettleAfterOwnerJoin, FallbackAllowed
      <3>6. QED
        <4> HIDE DEF c, t
        <4>1. QED
          BY <1>d, <3>1, <3>2, <3>3, <3>4, <3>5
    <2>3. QED
      BY <1>3, <2>1, <2>2 DEF SupervisorStep
  <1>4. ASSUME NEW w \in Waiters, WaiterStep(o, w) PROVE LifecycleStep(o)
    BY <1>4, <1>q DEF WaiterStep, Wait, Recheck, WaitTimeout
  <1>5. QED
    BY <1>1, <1>2, <1>3, <1>4 DEF Step

(* The terminal protocol implements the operation lifecycle: every reachable
   step is one lifecycle step or none, whatever the operations and waiters. *)
THEOREM LifecycleImplemented == Spec => ImplementsLifecycle
  <1>1. Init => Lifecycle!AbstractInit
    BY DEF Init, NoTxn, Lifecycle!AbstractInit
  <1>2. Inv /\ [Next]_operationVars =>
          [Lifecycle!AbstractNext]_(Lifecycle!abstractVars)
    <2> SUFFICES ASSUME Inv, [Next]_operationVars
                 PROVE  [Lifecycle!AbstractNext]_(Lifecycle!abstractVars)
      OBVIOUS
    <2>1. CASE UNCHANGED operationVars
      BY <2>1 DEF operationVars, Lifecycle!abstractVars
    <2>2. ASSUME NEW o \in Ops, Step(o)
          PROVE  [Lifecycle!AbstractNext]_(Lifecycle!abstractVars)
      BY <2>2, StepRefines
         DEF LifecycleStep, Candidate, Lifecycle!AbstractNext,
             Lifecycle!abstractVars
    <2>3. QED
      BY <2>1, <2>2 DEF Next, Step
  <1>3. QED
    BY <1>1, <1>2, Invariance, PTL DEF Spec, ImplementsLifecycle,
       Lifecycle!AbstractSpec

-----------------------------------------------------------------------------
(* Close                                                                    *)

(* Where the close thread is: no later than the joins, settling what the
   owners left, stopping the worker or later, past the final event.        *)
Joins    == {"idle", "announce", "cancel", "operations", "request", "cleanup",
             "join"}
Settling == {"settle", "settling", "observing"}
Stopping == {"converge", "closed", "failed", "complete", "notify", "done"}
Settled  == {"complete", "notify", "done"}
Over     == {"Completed", "Panicked"}

(* A task is registered until its join passed the handle on; a handle that
   was claimed belongs to a finished body, and a panic that a finished join
   saw is recorded.                                                        *)
TaskInv(t) ==
  LET g == task[t].gate IN
  /\ task[t].body = "absent" <=> task[t].handle = "Missing"
  /\ task[t].body = "absent" => task[t] = NoTask
  /\ g # "none" => joining[g].pc # "idle" /\ joining[g].task = t
  /\ task[t].linked =>
       \/ task[t].handle = "Retained"
       \/ g # "none" /\ joining[g].pc \in {"thread", "unlink"}
  /\ ~task[t].linked => task[t].handle \in {"Missing", "Joined"}
  /\ task[t].handle \in {"Joining", "Joined"} => task[t].body \in Over
  /\ task[t].handle = "Joined" /\ task[t].body = "Panicked"
       => t \in taskFailures

(* A thread that is joining holds the gate of its task. *)
JoinInv(h) ==
  LET t  == joining[h].task
      pc == joining[h].pc IN
  /\ pc = "idle" <=> t = "none"
  /\ pc # "idle" => task[t].gate = h
  /\ pc = "wait" /\ task[t].linked => task[t].handle = "Retained"
  /\ pc \in {"thread", "unlink"} => task[t].linked
  /\ pc = "thread" => task[t].handle = "Joining"
  /\ pc = "unlink" => task[t].handle = "Joined"
  /\ pc = "mark" => ~task[t].linked

(* Nothing is admitted once close has begun, and the outcome is saved with
   the state that tells it.                                                *)
AdmissionInv ==
  /\ close.pc # "idle" => runtimeState # "Active"
  /\ runtimeState \in {"Closed", "CloseFailed"}
       <=> close.pc \in {"notify", "done"}
  /\ IF close.pc \in {"notify", "done"}
     THEN /\ runtimeState = "Closed" <=> close.first = "none"
          /\ outcome = IF close.first = "none" THEN "Closed" ELSE close.first
     ELSE outcome = "none"

(* No task escapes the joins. *)
CloseJoinInv ==
  /\ joining["close"].pc # "idle" => close.pc = "join"
  /\ close.pc = "join" => \A t \in Ops : task[t].linked =>
       t \in close.todo \/ t = joining["close"].task
  /\ close.pc \notin Joins => \A t \in Ops : ~task[t].linked

(* Close may leave o to whoever holds it, or settle it. *)
Doomed(o) == \/ Owned(o)
             \/ txn[o].pc # "idle"
             \/ state[o] \in Terminal \cup {"Cancelling"}

GivenUp(o) == IsTerminal(o) \/ o \in lost

(* No operation escapes the fallback. *)
OperationsInv ==
  /\ close.ops \subseteq created
  /\ close.pc \in {"request", "cleanup", "join"} =>
       \A o \in created : o \in close.ops \/ IsTerminal(o)
  /\ close.pc = "request" =>
       \A o \in close.ops : o \in close.todo \/ Doomed(o)
  /\ close.pc \in {"cleanup", "join"} \cup Settling =>
       \A o \in close.ops : Doomed(o)
  /\ close.pc \in Settling =>
       /\ close.todo \subseteq close.ops
       /\ \A o \in created : \/ GivenUp(o)
                             \/ o \in close.todo
                             \/ close.pc # "settle" /\ o = close.op
  /\ close.pc \in {"settling", "observing"} => close.op \in Ops
  /\ close.pc \in Stopping => \A o \in created : GivenUp(o)
  /\ close.pc \in Joins => lost = {}

WorkerInv ==
  /\ worker = "joined" => close.pc \in Stopping
  /\ close.pc \in Stopping \ {"failed"} => worker = "joined"

(* The failures a task panic may be hidden behind. *)
TaskFailure == {"Start", "ResourceCleanup", "TaskJoin", "InternalTaskJoin"}

(* What has failed so far decides the failure close reports. *)
FailureInv ==
  /\ close.pc \in {"idle", "announce"} => close.first = "none"
  /\ close.pc \in Joins => close.first \in {"Start", "ResourceCleanup", "none"}
  /\ close.pc \in Settling =>
       close.first \in TaskFailure \cup {"OperationFinalization", "none"}
  /\ close.pc \notin Joins /\ (\E t \in Ops : task[t].body = "Panicked") =>
       close.first \in TaskFailure
  /\ lost # {} => close.first \in TaskFailure \cup {"OperationFinalization"}
  /\ close.pc = "closed" => close.first = "none"
  /\ close.pc = "failed" => close.first # "none"

Final == IF close.first = "none" THEN "closed" ELSE "close_failed"

(* At most one closing event, then the final one. *)
EventsInv ==
  CASE close.pc \in {"idle", "announce"} -> events = << >>
    [] close.pc \in Settled -> events \in {<<Final>>, <<"closing", Final>>}
    [] close.pc \notin Settled \cup {"idle", "announce"} ->
         events \in {<< >>, <<"closing">>}

(* What Converge saw empty stays empty. *)
ConvergedInv ==
  close.pc = "closed" \/ (close.pc \in Settled /\ close.first = "none") =>
    LiveOperations = {} /\ LiveTasks = {} /\ LiveResources = {}

(* The inductive invariant. *)
CloseInv ==
  /\ CloseTypeOK
  /\ Inv
  /\ \A t \in Ops : TaskInv(t)
  /\ \A h \in Threads : JoinInv(h)
  /\ AdmissionInv
  /\ CloseJoinInv
  /\ OperationsInv
  /\ WorkerInv
  /\ FailureInv
  /\ EventsInv
  /\ ConvergedInv

(* Threads and markers are different things. *)
LEMMA Markers ==
  /\ "none" \notin Ops
  /\ "none" \notin Threads
  /\ "close" \in Threads
  /\ \A h \in Joiners : h \in Threads /\ h # "close"
  BY MarkersAreNoNames DEF MarkersAreNoNames, Threads

-----------------------------------------------------------------------------
(* What an operation never goes back on. *)
GoesOn(o) == /\ IsTerminal(o) => IsTerminal(o)'
             /\ Doomed(o) => Doomed(o)'
             /\ linked'[o] => linked[o]

(* One step of one operation lets every operation go on. *)
LEMMA StepGoesOn ==
  ASSUME Inv, NEW o \in Ops, Step(o)
  PROVE  Inv' /\ \A p \in Ops : GoesOn(p)
  <1>1. Inv'
    BY InvStep DEF Step, Next
  <1>2. /\ \A p \in Ops : state[p] \in States /\ state'[p] \in States
        /\ TypeOK
    BY <1>1 DEF Inv, TypeOK
  <1>3. GoesOn(o)
    <2>1. Moves(o) /\ Onwards(o)
      BY StepMoves
    <2>2. state'[o] = state[o] \/ Rank(state[o]) < Rank(state'[o])
      BY <2>1 DEF Moves
    <2>3. IsTerminal(o) => IsTerminal(o)'
      BY <1>2, <2>2, Ranks DEF IsTerminal
    <2>4. state[o] \in Terminal \cup {"Cancelling"} =>
            state'[o] \in Terminal \cup {"Cancelling"}
      BY <1>2, <2>2, Ranks DEF States
    <2>5. QED
      BY <2>1, <2>3, <2>4 DEF GoesOn, Onwards, Doomed, Owned
  <1>4. ASSUME NEW p \in Ops \ {o} PROVE GoesOn(p)
    <2>1. Untouched(p)
      BY <1>2, OthersUntouched
    <2>2. QED
      BY <2>1 DEF Untouched, GoesOn, IsTerminal, Doomed, Owned
  <1>5. QED
    BY <1>1, <1>3, <1>4

(* Cancelling the root sets a flag of tokens and nothing else. *)
LEMMA CancelRootGoesOn ==
  ASSUME Inv, CancelRoot
  PROVE  Inv' /\ \A p \in Ops : GoesOn(p)
  <1>1. TypeOK /\ \A o \in Ops : OpInv(o)
    BY DEF Inv
  <1>2. ASSUME NEW o \in Ops
        PROVE  /\ token[o] \in Tokens /\ token'[o] \in Tokens
               /\ token'[o].active = token[o].active
               /\ token[o].cancelled => token'[o].cancelled
    <2>1. token[o] \in Tokens
      BY <1>1 DEF TypeOK
    <2>2. \/ token'[o] = token[o]
          \/ token'[o] = [token[o] EXCEPT !.cancelled = TRUE]
      BY DEF CancelRoot
    <2>3. QED
      BY <2>1, <2>2 DEF Tokens
  <1>3. TypeOK'
    <2>1. token' \in [Ops -> Tokens]
      BY <1>2 DEF CancelRoot
    <2>2. QED
      BY <1>1, <2>1 DEF TypeOK, CancelRoot
  <1>4. ASSUME NEW o \in Ops PROVE OpInv(o)'
    <2>1. OpInv(o)
      BY <1>1
    <2>2. PhaseInv(o)' /\ OwnerInv(o)' /\ ClaimInv(o)' /\ CancelInv(o)'
      BY <2>1 DEF CancelRoot, OpInv, PhaseInv, OwnerInv, ClaimInv, CancelInv,
                  IsTerminal, Owned
    <2>3. EvidenceInv(o)' /\ RecordInv(o)' /\ WaiterInv(o)'
      BY <2>1 DEF CancelRoot, OpInv, EvidenceInv, RecordInv, WaiterInv, Owned,
                  TerminalState, Transferable, PrimaryFromCandidate
    <2>4. TokenInv(o)'
      BY <1>2, <2>1 DEF CancelRoot, OpInv, TokenInv
    <2>5. QED
      BY <2>2, <2>3, <2>4 DEF OpInv
  <1>5. \A p \in Ops : GoesOn(p)
    BY DEF CancelRoot, GoesOn, IsTerminal, Doomed, Owned
  <1>6. QED
    BY <1>3, <1>4, <1>5 DEF Inv

(* The steps of an operation that leave the mark of its task alone. *)
Working(o) == \/ TerminalStep(o)
              \/ DomainStep(o)
              \/ BindOwnerTask(o)
              \/ SettleAfterOwnerJoin(o)

(* What a step of the Runtime is to its operations. *)
LEMMA OperationSteps ==
  ASSUME CloseTypeOK, Inv, [CloseNext]_vars
  PROVE  \/ UNCHANGED operationVars
         \/ CancelRoot
         \/ \E o \in Ops : Working(o)
         \/ \E h \in Threads : /\ JoinMark(h) /\ joining[h].task \in Ops
                               /\ MarkOwnerTaskJoined(joining[h].task)
  <1> DEFINE Goal == \/ UNCHANGED operationVars
                     \/ CancelRoot
                     \/ \E o \in Ops : Working(o)
                     \/ \E h \in Threads :
                          /\ JoinMark(h) /\ joining[h].task \in Ops
                          /\ MarkOwnerTaskJoined(joining[h].task)
  <1>u. ASSUME UNCHANGED operationVars PROVE Goal
    BY <1>u
  <1>s. ASSUME NEW o \in Ops, Working(o) PROVE Goal
    BY <1>s
  <1>r. ASSUME CancelRoot PROVE Goal
    BY <1>r
  <1>m. ASSUME NEW h \in Threads, JoinMark(h), joining[h].task \in Ops,
               MarkOwnerTaskJoined(joining[h].task)
        PROVE  Goal
    BY <1>m
  <1> HIDE DEF Goal
  <1>1. ASSUME NEW o \in Ops,
               \/ CreateOperation(o) \/ JoinNext(o) \/ SkipOperation(o)
               \/ ObserveOperation(o) \/ LoseOperation(o)
        PROVE  Goal
    BY <1>1, <1>u DEF CreateOperation, JoinNext, SkipOperation,
                      ObserveOperation, LoseOperation
  <1>2. ASSUME NEW o \in Ops, SpawnTask(o) PROVE Goal
    BY <1>2, <1>u, <1>s DEF SpawnTask, Working
  <1>3. ASSUME NEW o \in Ops, UseOperation(o) PROVE Goal
    <2>1. "ParentClose" \in Reason /\ "ok" \in Outcome
      BY DEF Reason, Outcome
    <2>2. Working(o)
      BY <1>3, <2>1 DEF UseOperation, Working, DomainStep, CallStep
    <2>3. QED
      BY <1>s, <2>2
  <1>4. ASSUME NEW o \in Ops, FinishOperation(o) PROVE Goal
    <2>1. "ok" \in Outcome
      BY DEF Outcome
    <2>2. Working(o)
      BY <1>4, <2>1 DEF FinishOperation, Working, TerminalStep
    <2>3. QED
      BY <1>s, <2>2
  <1>5. ASSUME NEW o \in Ops, RequestParentClose(o) PROVE Goal
    <2>1. "ParentClose" \in Reason
      BY DEF Reason
    <2>2. QED
      BY <1>5, <1>u, <1>s, <2>1 DEF RequestParentClose, Working, DomainStep, CallStep
  <1>6. ASSUME NEW o \in Ops, SettleOperation(o) PROVE Goal
    <2>1. "Cancellation" \in Candidate
      BY DEF Candidate
    <2>2. QED
      BY <1>6, <1>s, <2>1 DEF SettleOperation, Working, DomainStep, CallStep
  <1>7. ASSUME NEW o \in Ops, NEW b \in Over, CompleteBody(o, b) PROVE Goal
    BY <1>7, <1>u DEF CompleteBody
  <1>8. ASSUME NEW o \in Ops, NEW h \in Joiners, ExplicitJoin(h, o) PROVE Goal
    BY <1>8, <1>u DEF ExplicitJoin
  <1>9. ASSUME NEW r \in Resources,
               RegisterResource(r) \/ UnregisterResource(r) \/ DropResource(r)
        PROVE  Goal
    BY <1>9, <1>u DEF RegisterResource, UnregisterResource, DropResource
  <1>10. ASSUME NEW h \in Threads,
                JoinClaim(h) \/ JoinThread(h) \/ JoinUnlink(h)
         PROVE  Goal
    BY <1>10, <1>u DEF JoinClaim, JoinThread, JoinUnlink
  <1>11. ASSUME NEW h \in Threads, JoinMark(h) PROVE Goal
    BY <1>11, <1>u, <1>m DEF JoinMark, LiveOperations, Inv, CloseTypeOK
  <1>12. ASSUME NEW c \in Closers, CallClose(c) PROVE Goal
    BY <1>12, <1>u DEF CallClose
  <1>13. ASSUME DropLastHandle \/ WorkerPanics PROVE Goal
    BY <1>13, <1>u DEF DropLastHandle, WorkerPanics
  <1>14. ASSUME NEW ok \in BOOLEAN,
                Announce(ok) \/ StopWorker(ok) \/ PublishClosed(ok)
         PROVE  Goal
    BY <1>14, <1>u DEF Announce, StopWorker, PublishClosed
  <1>15. ASSUME NEW r \in Resources, NEW ok \in BOOLEAN, CloseResource(r, ok)
         PROVE  Goal
    BY <1>15, <1>u DEF CloseResource
  <1>16. ASSUME SnapshotOperations \/ SnapshotResources \/ SnapshotTasks
                \/ TasksJoined \/ OperationSettled
         PROVE  Goal
    BY <1>16, <1>u DEF SnapshotOperations, SnapshotResources, SnapshotTasks,
                       TasksJoined, OperationSettled
  <1>17. ASSUME Converge \/ PublishFailed \/ Complete \/ NotifyClosers
         PROVE  Goal
    BY <1>17, <1>u DEF Converge, PublishFailed, Complete, NotifyClosers
  <1>18. ASSUME UNCHANGED vars PROVE Goal
    BY <1>18, <1>u DEF vars
  <1>19. Goal
    BY <1>1, <1>2, <1>3, <1>4, <1>5, <1>6, <1>7, <1>8, <1>9, <1>10, <1>11,
       <1>12, <1>13, <1>14, <1>15, <1>16, <1>17, <1>18, <1>r
       DEF CloseNext, CloseStep, JoinStep, Over
  <1>20. QED
    BY <1>19 DEF Goal

(* Whatever the Runtime does, its operations go on. *)
LEMMA OperationsGoOn ==
  ASSUME CloseTypeOK, Inv, [CloseNext]_vars
  PROVE  Inv' /\ \A p \in Ops : GoesOn(p)
  <1> DEFINE Goal == Inv' /\ \A p \in Ops : GoesOn(p)
  <1>1. ASSUME UNCHANGED operationVars PROVE Goal
    <2>1. Inv'
      BY <1>1, InvStep
    <2>2. \A p \in Ops : GoesOn(p)
      BY <1>1 DEF operationVars, GoesOn, IsTerminal, Doomed, Owned
    <2>3. QED
      BY <2>1, <2>2
  <1>2. ASSUME CancelRoot PROVE Goal
    BY <1>2, CancelRootGoesOn
  <1>3. ASSUME NEW o \in Ops, Step(o) PROVE Goal
    BY <1>3, StepGoesOn
  <1> HIDE DEF Goal
  <1>4. ASSUME NEW o \in Ops, Working(o) PROVE Goal
    BY <1>3, <1>4 DEF Working, Step, SupervisorStep
  <1>5. ASSUME NEW h \in Threads, joining[h].task \in Ops,
               MarkOwnerTaskJoined(joining[h].task)
        PROVE  Goal
    BY <1>3, <1>5 DEF Step, SupervisorStep
  <1>6. Goal
    BY <1>1, <1>2, <1>4, <1>5, OperationSteps
  <1>7. QED
    BY <1>6 DEF Goal

-----------------------------------------------------------------------------
(* Joining: the tasks, the threads that join them and the panics they saw. *)
TaskVars == <<task, joining, taskFailures>>

Bodies  == {"absent", "running", "Completed", "Panicked"}
Handles == {"Missing", "Retained", "Joining", "Joined"}
Tasks   == [body : Bodies, handle : Handles, linked : BOOLEAN,
            gate : Threads \cup {"none"}]
Joining == [task : Ops \cup {"none"},
            pc : {"idle", "wait", "thread", "unlink", "mark"}]

TaskTypeOK == /\ task \in [Ops -> Tasks]
              /\ joining \in [Threads -> Joining]
              /\ taskFailures \subseteq Ops

(* The part of CloseInv about joining. *)
JoiningInv == /\ TaskTypeOK
              /\ \A t \in Ops : TaskInv(t)
              /\ \A h \in Threads : JoinInv(h)

(* A thread that starts to join takes a free gate. *)
LEMMA JoinStartKeeps ==
  ASSUME JoiningInv, NEW h \in Threads, NEW t \in Ops, JoinStart(h, t),
         UNCHANGED taskFailures
  PROVE  JoiningInv'
  <1>1. /\ task[t] \in Tasks /\ joining[h] = Idle
        /\ \A u \in Ops : task[u] \in Tasks
        /\ \A g \in Threads : joining[g] \in Joining
    BY DEF JoiningInv, TaskTypeOK, JoinStart
  <1>2. /\ task'[t] = [task[t] EXCEPT !.gate = h]
        /\ \A u \in Ops \ {t} : task'[u] = task[u]
        /\ joining'[h] = [task |-> t, pc |-> "wait"]
        /\ \A g \in Threads \ {h} : joining'[g] = joining[g]
    BY DEF JoiningInv, TaskTypeOK, JoinStart
  <1>3. TaskTypeOK'
    <2>1. task'[t] \in Tasks /\ joining'[h] \in Joining
      BY <1>1, <1>2 DEF Tasks, Joining
    <2>2. QED
      BY <2>1 DEF JoiningInv, TaskTypeOK, JoinStart
  <1>4. ASSUME NEW u \in Ops PROVE TaskInv(u)'
    <2>1. TaskInv(u) /\ task[u] \in Tasks
      BY <1>1 DEF JoiningInv
    <2>2. CASE u = t
      BY <1>1, <1>2, <2>1, <2>2, Markers
         DEF JoinStart, TaskInv, Tasks, Idle, NoTask
    <2>3. CASE u # t
      BY <1>1, <1>2, <2>1, <2>3, Markers DEF TaskInv, Tasks, Idle
    <2>4. QED
      BY <2>2, <2>3
  <1>5. ASSUME NEW g \in Threads PROVE JoinInv(g)'
    <2>1. JoinInv(g) /\ joining[g] \in Joining /\ TaskInv(t)
      BY <1>1 DEF JoiningInv
    <2>2. CASE g = h
      BY <1>1, <1>2, <2>1, <2>2, Markers
         DEF JoinStart, JoinInv, TaskInv, Tasks
    <2>3. CASE g # h
      BY <1>1, <1>2, <2>1, <2>3, Markers
         DEF JoinStart, JoinInv, Joining, Tasks
    <2>4. QED
      BY <2>2, <2>3
  <1>6. QED
    BY <1>3, <1>4, <1>5 DEF JoiningInv

(* Every later step of a join keeps it: only task t and thread h change. *)
LEMMA JoinStepKeeps ==
  ASSUME JoiningInv, NEW h \in Threads, JoinStep(h)
  PROVE  JoiningInv'
  <1>1. /\ joining[h] \in Joining /\ JoinInv(h)
        /\ \A u \in Ops : task[u] \in Tasks /\ TaskInv(u)
        /\ \A g \in Threads : joining[g] \in Joining /\ JoinInv(g)
    BY DEF JoiningInv, TaskTypeOK
  <1>2. PICK t \in Ops : t = joining[h].task /\ joining[h].pc # "idle"
    BY <1>1 DEF JoinStep, JoinClaim, JoinThread, JoinUnlink, JoinMark, JoinInv,
                Joining
  <1>3. task[t] \in Tasks /\ TaskInv(t) /\ task[t].gate = h
    BY <1>1, <1>2 DEF JoinInv
  <1>4. /\ \A u \in Ops \ {t} : task[u].gate # h
        /\ \A g \in Threads \ {h} : joining[g].task # t
    BY <1>1, <1>2, <1>3, Markers DEF JoinInv, TaskInv
  <1>5. ASSUME task' = [task EXCEPT ![t] = task'[t]],
               joining' = [joining EXCEPT ![h] = joining'[h]],
               taskFailures' \in {taskFailures, taskFailures \cup {t}},
               task'[t] \in Tasks, joining'[h] \in Joining,
               TaskInv(t)', JoinInv(h)'
        PROVE  JoiningInv'
    <2>1. TaskTypeOK'
      BY <1>2, <1>5 DEF JoiningInv, TaskTypeOK
    <2>2. /\ \A u \in Ops \ {t} : task'[u] = task[u]
          /\ \A g \in Threads \ {h} : joining'[g] = joining[g]
      BY <1>5 DEF JoiningInv, TaskTypeOK
    <2>3. ASSUME NEW u \in Ops \ {t} PROVE TaskInv(u)'
      BY <1>1, <1>4, <1>5, <2>2, <2>3 DEF TaskInv, Tasks
    <2>4. ASSUME NEW g \in Threads \ {h} PROVE JoinInv(g)'
      <3>1. joining[g].task \in Ops \cup {"none"} /\ joining[g].task # t
        BY <1>1, <1>4 DEF Joining
      <3>2. QED
        BY <1>1, <2>2, <3>1 DEF JoinInv
    <2>5. QED
      BY <1>5, <2>1, <2>3, <2>4 DEF JoiningInv
  <1>6. CASE JoinClaim(h) /\ task[t].linked
    <2>1. /\ task'[t] = [task[t] EXCEPT !.handle = "Joining"]
          /\ joining'[h] = [joining[h] EXCEPT !.pc = "thread"]
          /\ task' = [task EXCEPT ![t] = task'[t]]
          /\ joining' = [joining EXCEPT ![h] = joining'[h]]
          /\ taskFailures' = taskFailures
          /\ task[t].body \in Over
      BY <1>2, <1>6 DEF JoinClaim, JoiningInv, TaskTypeOK, Over
    <2>2. task'[t] \in Tasks /\ joining'[h] \in Joining
      BY <1>1, <1>3, <2>1 DEF Tasks, Joining, Handles
    <2>3. /\ joining'[h].task = t /\ joining'[h].pc = "thread"
          /\ task'[t].handle = "Joining"
          /\ task'[t].body = task[t].body
          /\ task'[t].linked = task[t].linked
          /\ task'[t].gate = task[t].gate
      BY <1>1, <1>2, <1>3, <2>1 DEF Joining, Tasks
    <2>4. TaskInv(t)'
      BY <1>3, <1>6, <2>1, <2>3, Markers DEF TaskInv, Over
    <2>5. JoinInv(h)'
      BY <1>2, <1>3, <1>6, <2>3, Markers DEF JoinInv
    <2>6. QED
      BY <1>5, <2>1, <2>2, <2>4, <2>5
  <1>7. CASE (JoinClaim(h) /\ ~task[t].linked) \/ JoinMark(h)
    <2>1. /\ task'[t] = [task[t] EXCEPT !.gate = "none"]
          /\ joining'[h] = Idle
          /\ task' = [task EXCEPT ![t] = task'[t]]
          /\ joining' = [joining EXCEPT ![h] = joining'[h]]
          /\ taskFailures' = taskFailures
          /\ ~task[t].linked
      BY <1>1, <1>2, <1>7 DEF JoinClaim, JoinMark, JoinInv, JoiningInv,
                              TaskTypeOK
    <2>2. task'[t] \in Tasks /\ joining'[h] \in Joining
      BY <1>3, <2>1 DEF Tasks, Joining, Idle
    <2>3. TaskInv(t)'
      BY <1>3, <2>1, Markers DEF TaskInv, Tasks, Over, NoTask
    <2>4. JoinInv(h)'
      BY <2>1 DEF JoinInv, Idle
    <2>5. QED
      BY <1>5, <2>1, <2>2, <2>3, <2>4
  <1>8. CASE JoinThread(h)
    <2>1. /\ task'[t] = [task[t] EXCEPT !.handle = "Joined"]
          /\ joining'[h] = [joining[h] EXCEPT !.pc = "unlink"]
          /\ task' = [task EXCEPT ![t] = task'[t]]
          /\ joining' = [joining EXCEPT ![h] = joining'[h]]
          /\ joining[h].pc = "thread"
          /\ taskFailures' \in {taskFailures, taskFailures \cup {t}}
          /\ task[t].body = "Panicked" => t \in taskFailures'
      BY <1>2, <1>8 DEF JoinThread, JoiningInv, TaskTypeOK
    <2>2. task'[t] \in Tasks /\ joining'[h] \in Joining
      BY <1>1, <1>3, <2>1 DEF Tasks, Joining, Handles
    <2>3. /\ joining'[h].task = t /\ joining'[h].pc = "unlink"
          /\ task'[t].handle = "Joined"
          /\ task'[t].body = task[t].body
          /\ task'[t].linked = task[t].linked
          /\ task'[t].gate = task[t].gate
          /\ task[t].body = "Panicked" => t \in taskFailures'
      BY <1>1, <1>2, <1>3, <2>1 DEF Joining, Tasks
    <2>4. task[t].linked /\ task[t].handle = "Joining"
      BY <1>1, <1>2, <2>1 DEF JoinInv
    <2>5. TaskInv(t)'
      BY <1>3, <2>3, <2>4, Markers DEF TaskInv, Over
    <2>6. JoinInv(h)'
      BY <1>3, <2>3, <2>4, Markers DEF JoinInv
    <2>7. QED
      BY <1>5, <2>1, <2>2, <2>5, <2>6
  <1>9. CASE JoinUnlink(h)
    <2>1. /\ task'[t] = [task[t] EXCEPT !.linked = FALSE]
          /\ joining'[h] = [joining[h] EXCEPT !.pc = "mark"]
          /\ task' = [task EXCEPT ![t] = task'[t]]
          /\ joining' = [joining EXCEPT ![h] = joining'[h]]
          /\ joining[h].pc = "unlink"
          /\ taskFailures' = taskFailures
      BY <1>2, <1>9 DEF JoinUnlink, JoiningInv, TaskTypeOK
    <2>2. task'[t] \in Tasks /\ joining'[h] \in Joining
      BY <1>1, <1>3, <2>1 DEF Tasks, Joining
    <2>3. /\ joining'[h].task = t /\ joining'[h].pc = "mark"
          /\ task'[t].linked = FALSE
          /\ task'[t].body = task[t].body
          /\ task'[t].handle = task[t].handle
          /\ task'[t].gate = task[t].gate
          /\ taskFailures' = taskFailures
      BY <1>1, <1>2, <1>3, <2>1 DEF Joining, Tasks
    <2>4. task[t].linked /\ task[t].handle = "Joined"
      BY <1>1, <1>2, <2>1 DEF JoinInv
    <2>5. TaskInv(t)'
      BY <1>3, <2>3, <2>4, Markers DEF TaskInv, Over
    <2>6. JoinInv(h)'
      BY <1>3, <2>3, <2>4, Markers DEF JoinInv
    <2>7. QED
      BY <1>5, <2>1, <2>2, <2>5, <2>6
  <1>10. QED
    BY <1>6, <1>7, <1>8, <1>9 DEF JoinStep

(* Spawning and ending a task keep it. *)
LEMMA BodyKeeps ==
  ASSUME JoiningInv, NEW t \in Ops,
         SpawnTask(t) \/ \E b \in Over : CompleteBody(t, b)
  PROVE  JoiningInv'
  <1>1. /\ \A u \in Ops : task[u] \in Tasks /\ TaskInv(u)
        /\ \A g \in Threads : joining[g] \in Joining /\ JoinInv(g)
    BY DEF JoiningInv, TaskTypeOK
  <1>2. /\ task'[t] \in Tasks
        /\ task'[t].gate = task[t].gate
        /\ joining' = joining /\ taskFailures' = taskFailures
        /\ task' = [task EXCEPT ![t] = task'[t]]
    <2>1. CASE SpawnTask(t)
      BY <2>1 DEF SpawnTask, JoiningInv, TaskTypeOK, Tasks, Bodies, Handles,
                  NoTask
    <2>2. ASSUME NEW b \in Over, CompleteBody(t, b)
          PROVE  /\ task'[t] = [task[t] EXCEPT !.body = b]
                 /\ joining' = joining /\ taskFailures' = taskFailures
                 /\ task' = [task EXCEPT ![t] = task'[t]]
      BY <2>2 DEF CompleteBody, JoiningInv, TaskTypeOK
    <2>3. QED
      BY <1>1, <2>1, <2>2 DEF Tasks, Bodies, Over
  <1>3. TaskInv(t)' /\ \A g \in Threads : joining[g].task = t => JoinInv(g)'
    <2>1. CASE SpawnTask(t)
      <3>1. task[t] = NoTask /\ task'[t].linked
            /\ task'[t].handle = "Retained" /\ task'[t].body = "running"
        BY <1>1, <2>1 DEF SpawnTask, JoiningInv, TaskTypeOK
      <3>2. TaskInv(t)'
        BY <1>1, <1>2, <3>1 DEF TaskInv, Over, NoTask
      <3>3. ASSUME NEW g \in Threads, joining[g].task = t PROVE JoinInv(g)'
        BY <1>1, <3>1, <3>3, Markers DEF JoinInv, NoTask, Joining
      <3>4. QED
        BY <3>2, <3>3
    <2>2. ASSUME NEW b \in Over, CompleteBody(t, b)
          PROVE  /\ TaskInv(t)'
                 /\ \A g \in Threads : joining[g].task = t => JoinInv(g)'
      <3>1. /\ task[t].body = "running"
            /\ task'[t] = [task[t] EXCEPT !.body = b]
        BY <2>2 DEF CompleteBody, JoiningInv, TaskTypeOK
      <3>2. TaskInv(t)'
        BY <1>1, <1>2, <3>1 DEF TaskInv, Over, NoTask, Tasks
      <3>3. ASSUME NEW g \in Threads, joining[g].task = t PROVE JoinInv(g)'
        BY <1>1, <1>2, <3>1, <3>3 DEF JoinInv, Tasks
      <3>4. QED
        BY <3>2, <3>3
    <2>3. QED
      BY <2>1, <2>2
  <1>4. \A u \in Ops \ {t} : TaskInv(u)'
    BY <1>1, <1>2 DEF TaskInv, JoiningInv, TaskTypeOK
  <1>5. \A g \in Threads : joining[g].task # t => JoinInv(g)'
    BY <1>1, <1>2 DEF JoinInv, JoiningInv, TaskTypeOK, Joining
  <1>6. TaskTypeOK'
    BY <1>2 DEF JoiningInv, TaskTypeOK
  <1>7. QED
    BY <1>3, <1>4, <1>5, <1>6 DEF JoiningInv

LEMMA StepJoining ==
  ASSUME JoiningInv, [CloseNext]_vars
  PROVE  JoiningInv'
  <1> DEFINE Goal == JoiningInv'
  <1>u. ASSUME UNCHANGED TaskVars PROVE Goal
    BY <1>u DEF TaskVars, JoiningInv, TaskTypeOK, TaskInv, JoinInv
  <1> HIDE DEF Goal
  <1>1. ASSUME NEW o \in Ops,
               SpawnTask(o) \/ \E b \in Over : CompleteBody(o, b)
        PROVE  Goal
    BY <1>1, BodyKeeps DEF Goal
  <1>2. ASSUME NEW h \in Joiners, NEW o \in Ops, ExplicitJoin(h, o) PROVE Goal
    BY <1>2, JoinStartKeeps, Markers DEF ExplicitJoin, Goal
  <1>3. ASSUME NEW h \in Threads, JoinStep(h) PROVE Goal
    BY <1>3, JoinStepKeeps DEF Goal
  <1>4. ASSUME NEW o \in Ops, JoinNext(o) PROVE Goal
    BY <1>4, JoinStartKeeps, Markers DEF JoinNext, Goal
  <1>5. ASSUME NEW o \in Ops,
               \/ CreateOperation(o) \/ UseOperation(o) \/ FinishOperation(o)
               \/ RequestParentClose(o) \/ SkipOperation(o)
               \/ SettleOperation(o) \/ ObserveOperation(o) \/ LoseOperation(o)
        PROVE  Goal
    BY <1>5, <1>u
       DEF CreateOperation, UseOperation, FinishOperation, RequestParentClose,
           SkipOperation, SettleOperation, ObserveOperation, LoseOperation,
           closeVars, TaskVars
  <1>6. ASSUME NEW r \in Resources,
               \/ RegisterResource(r) \/ UnregisterResource(r)
               \/ DropResource(r) \/ \E ok \in BOOLEAN : CloseResource(r, ok)
        PROVE  Goal
    BY <1>6, <1>u DEF RegisterResource, UnregisterResource, DropResource,
                      CloseResource, TaskVars
  <1>7. ASSUME \/ WorkerPanics \/ DropLastHandle
               \/ \E c \in Closers : CallClose(c)
        PROVE  Goal
    BY <1>7, <1>u DEF WorkerPanics, DropLastHandle, CallClose, TaskVars
  <1>8. ASSUME NEW ok \in BOOLEAN,
               Announce(ok) \/ StopWorker(ok) \/ PublishClosed(ok)
        PROVE  Goal
    BY <1>8, <1>u DEF Announce, StopWorker, PublishClosed, TaskVars
  <1>9. ASSUME \/ CancelRoot \/ SnapshotOperations \/ SnapshotResources
               \/ SnapshotTasks \/ TasksJoined \/ OperationSettled
        PROVE  Goal
    BY <1>9, <1>u DEF CancelRoot, SnapshotOperations, SnapshotResources,
                      SnapshotTasks, TasksJoined, OperationSettled, TaskVars
  <1>10. ASSUME \/ Converge \/ PublishFailed \/ Complete \/ NotifyClosers
                \/ UNCHANGED vars
         PROVE  Goal
    BY <1>10, <1>u DEF Converge, PublishFailed, Complete, NotifyClosers,
                       TaskVars, vars, closeVars
  <1>11. QED
    BY <1>1, <1>2, <1>3, <1>4, <1>5, <1>6, <1>7, <1>8, <1>9, <1>10
       DEF CloseNext, CloseStep, Over, Goal

-----------------------------------------------------------------------------
(* The close thread and what it relies on. *)
RestTypeOK ==
  /\ runtimeState \in {"Active", "Closing", "Closed", "CloseFailed"}
  /\ outcome \in Phases \cup {"none", "Closed"}
  /\ closer \in [Closers -> {"idle", "waiting", "owner", "returned"}]
  /\ close \in [pc : CloseSteps, first : Phases \cup {"none"},
                todo : SUBSET (Ops \cup Resources), ops : SUBSET Ops,
                op : Ops \cup {"none"}]
  /\ created \subseteq Ops
  /\ resource \in [Resources -> {"absent", "registered", "stale", "gone"}]
  /\ worker \in {"running", "panicked", "joined"}
  /\ lost \subseteq created

(* The part of CloseInv about the close thread. *)
ThreadInv ==
  /\ RestTypeOK
  /\ AdmissionInv
  /\ CloseJoinInv
  /\ OperationsInv
  /\ WorkerInv
  /\ FailureInv
  /\ EventsInv
  /\ ConvergedInv

(* The three parts make up the inductive invariant. *)
LEMMA Parts == CloseInv <=> Inv /\ JoiningInv /\ ThreadInv
  <1>1. ThreadInv => /\ events \in Seq({"closing", "closed", "close_failed"})
                     /\ runtimeState \in {"Closed", "CloseFailed"} =>
                          outcome # "none"
    <2> SUFFICES ASSUME ThreadInv
          PROVE  /\ events \in Seq({"closing", "closed", "close_failed"})
                 /\ runtimeState \in {"Closed", "CloseFailed"} =>
                      outcome # "none"
      OBVIOUS
    <2>1. events \in {<< >>, <<"closing">>, <<Final>>, <<"closing", Final>>}
      BY DEF ThreadInv, EventsInv
    <2>2. Final \in {"closed", "close_failed"}
      BY DEF Final
    <2>3. events \in Seq({"closing", "closed", "close_failed"})
      <3> DEFINE S == {"closing", "closed", "close_failed"}
      <3>1. \A f \in S : <<f>> \in Seq(S)
        OBVIOUS
      <3>2. \A f \in S : <<"closing", f>> \in Seq(S)
        OBVIOUS
      <3>3. << >> \in Seq(S)
        OBVIOUS
      <3>4. Final \in S /\ "closing" \in S
        BY <2>2
      <3> HIDE DEF S
      <3>5. events \in Seq(S)
        BY <2>1, <3>1, <3>2, <3>3, <3>4
      <3>6. QED
        BY <3>5 DEF S
    <2>4. runtimeState \in {"Closed", "CloseFailed"} => outcome # "none"
      BY DEF ThreadInv, AdmissionInv
    <2>5. QED
      BY <2>3, <2>4
  <1>2. CloseTypeOK <=>
          /\ TaskTypeOK /\ RestTypeOK
          /\ events \in Seq({"closing", "closed", "close_failed"})
          /\ runtimeState \in {"Closed", "CloseFailed"} => outcome # "none"
    BY DEF CloseTypeOK, TaskTypeOK, RestTypeOK, Tasks, Bodies, Handles, Joining
  <1>3. QED
    BY <1>1, <1>2 DEF CloseInv, JoiningInv, ThreadInv

(* All the close thread can notice of a step of anybody else. *)
Elsewhere ==
  /\ close' = close /\ lost' = lost /\ events' = events /\ outcome' = outcome
  /\ \/ runtimeState' = runtimeState
     \/ runtimeState = "Active" /\ runtimeState' = "Closing"
  /\ \/ worker' = worker
     \/ worker = "running" /\ worker' = "panicked"
  /\ \/ joining'["close"] = joining["close"]
     \/ /\ joining["close"].pc # "idle" /\ joining'["close"].pc # "idle"
        /\ joining'["close"].task = joining["close"].task
     \/ /\ joining["close"].pc # "idle" /\ joining'["close"] = Idle
        /\ \A t \in Ops : task'[t].linked =>
             task[t].linked /\ t # joining["close"].task
  /\ created \subseteq created' /\ created' \subseteq Ops
  /\ \/ runtimeState = "Active"
     \/ /\ created' = created
        /\ \A t \in Ops : task'[t].linked => task[t].linked
        /\ \A t \in Ops : task'[t].body = "Panicked" =>
             task[t].body = "Panicked" \/ task[t].linked
        /\ LiveResources' \subseteq LiveResources

(* A step that is not the close thread's own is a step elsewhere. *)
LEMMA StepElsewhere ==
  ASSUME JoiningInv, ThreadInv, [CloseNext]_vars
  PROVE  \/ Elsewhere /\ RestTypeOK' /\ closer' = closer
         \/ CloseStep
         \/ \E c \in Closers : CallClose(c)
  <1> DEFINE Goal == Elsewhere /\ RestTypeOK' /\ closer' = closer
  <1>t. RestTypeOK /\ TaskTypeOK
    BY DEF JoiningInv, ThreadInv
  <1>g. ASSUME UNCHANGED <<outcome, closer, close, lost, events>>,
               UNCHANGED <<runtimeState, created, task, joining, resource>>,
               \/ worker' = worker
               \/ worker = "running" /\ worker' = "panicked"
        PROVE  Goal
    BY <1>t, <1>g DEF Elsewhere, RestTypeOK, LiveResources
  <1> HIDE DEF Goal
  <1>1. ASSUME NEW o \in Ops, CreateOperation(o) PROVE Goal
    BY <1>t, <1>1 DEF Goal, CreateOperation, Admitted, Elsewhere, RestTypeOK
  <1>2. ASSUME NEW o \in Ops, SpawnTask(o) PROVE Goal
    BY <1>t, <1>2 DEF Goal, SpawnTask, Admitted, Elsewhere, RestTypeOK
  <1>3. ASSUME NEW o \in Ops, UseOperation(o) \/ FinishOperation(o) PROVE Goal
    BY <1>g, <1>3 DEF UseOperation, FinishOperation, closeVars
  <1>4. ASSUME NEW o \in Ops, NEW b \in Over, CompleteBody(o, b) PROVE Goal
    <2>1. /\ task[o].body = "running"
          /\ task' = [task EXCEPT ![o] = [task[o] EXCEPT !.body = b]]
          /\ task[o] \in Tasks /\ TaskInv(o)
          /\ UNCHANGED <<outcome, closer, close, lost, events, runtimeState>>
          /\ UNCHANGED <<created, joining, resource, worker>>
      BY <1>t, <1>4 DEF CompleteBody, JoiningInv, TaskTypeOK
    <2>2. /\ task'[o].linked = task[o].linked /\ task[o].linked
          /\ \A t \in Ops \ {o} : task'[t] = task[t]
      BY <1>t, <2>1 DEF TaskTypeOK, Tasks, TaskInv, Handles, Over
    <2>3. QED
      BY <1>t, <2>1, <2>2 DEF Goal, Elsewhere, RestTypeOK, LiveResources
  <1>5. ASSUME NEW h \in Joiners, NEW o \in Ops, ExplicitJoin(h, o) PROVE Goal
    <2>1. /\ joining' = [joining EXCEPT ![h] = [task |-> o, pc |-> "wait"]]
          /\ task' = [task EXCEPT ![o] = [task[o] EXCEPT !.gate = h]]
          /\ UNCHANGED <<outcome, closer, close, lost, events, runtimeState>>
          /\ UNCHANGED <<created, resource, worker>>
      BY <1>t, <1>5 DEF ExplicitJoin, JoinStart, TaskTypeOK
    <2>2. joining'["close"] = joining["close"]
      BY <1>t, <2>1, Markers DEF TaskTypeOK
    <2>3. \A t \in Ops : /\ task'[t].linked = task[t].linked
                         /\ task'[t].body = task[t].body
      BY <1>t, <2>1 DEF TaskTypeOK, Tasks
    <2>4. QED
      BY <1>t, <2>1, <2>2, <2>3 DEF Goal, Elsewhere, RestTypeOK, LiveResources
  <1>6. ASSUME NEW r \in Resources,
               RegisterResource(r) \/ UnregisterResource(r) \/ DropResource(r)
        PROVE  Goal
    <2>1. /\ UNCHANGED <<outcome, closer, close, lost, events, runtimeState>>
          /\ UNCHANGED <<created, task, joining, worker>>
          /\ resource' \in
               [Resources -> {"absent", "registered", "stale", "gone"}]
          /\ runtimeState = "Active" \/ LiveResources' \subseteq LiveResources
      BY <1>t, <1>6 DEF RegisterResource, UnregisterResource, DropResource,
                        RestTypeOK, LiveResources, Admitted
    <2>2. QED
      BY <1>t, <2>1 DEF Goal, Elsewhere, RestTypeOK
  <1>7. ASSUME NEW h \in Threads, JoinStep(h) PROVE Goal
    <2>1. /\ joining[h] \in Joining /\ JoinInv(h) /\ joining[h].pc # "idle"
          /\ \A t \in Ops : task[t] \in Tasks
      BY <1>t, <1>7 DEF JoiningInv, TaskTypeOK, JoinStep, JoinClaim,
                        JoinThread, JoinUnlink, JoinMark
    <2>2. PICK t \in Ops : t = joining[h].task
      BY <2>1 DEF JoinInv, Joining
    <2>3. /\ joining' = [joining EXCEPT ![h] = joining'[h]]
          /\ task' = [task EXCEPT ![t] = task'[t]]
          /\ task'[t].linked => task[t].linked
          /\ task'[t].body = task[t].body
          /\ \/ joining'[h].pc # "idle" /\ joining'[h].task = joining[h].task
             \/ joining'[h] = Idle /\ ~task[t].linked
          /\ UNCHANGED <<outcome, closer, close, lost, events, runtimeState>>
          /\ UNCHANGED <<created, resource, worker>>
      <3>1. CASE JoinClaim(h)
        BY <1>t, <2>1, <2>2, <3>1 DEF JoinClaim, TaskTypeOK, Tasks, Joining
      <3>2. CASE JoinThread(h)
        BY <1>t, <2>1, <2>2, <3>2 DEF JoinThread, TaskTypeOK, Tasks, Joining
      <3>3. CASE JoinUnlink(h)
        BY <1>t, <2>1, <2>2, <3>3 DEF JoinUnlink, TaskTypeOK, Tasks, Joining
      <3>4. CASE JoinMark(h)
        BY <1>t, <2>1, <2>2, <3>4
           DEF JoinMark, TaskTypeOK, Tasks, Joining, JoinInv
      <3>5. QED
        BY <1>7, <3>1, <3>2, <3>3, <3>4 DEF JoinStep
    <2>4. \A u \in Ops : /\ task'[u].linked => task[u].linked
                         /\ task'[u].body = task[u].body
      BY <1>t, <2>3 DEF TaskTypeOK
    <2>5. \/ joining'["close"] = joining["close"]
          \/ /\ joining["close"].pc # "idle" /\ joining'["close"].pc # "idle"
             /\ joining'["close"].task = joining["close"].task
          \/ /\ joining["close"].pc # "idle" /\ joining'["close"] = Idle
             /\ \A u \in Ops : task'[u].linked =>
                  task[u].linked /\ u # joining["close"].task
      <3>1. CASE h = "close"
        BY <1>t, <2>1, <2>2, <2>3, <2>4, <3>1 DEF TaskTypeOK
      <3>2. CASE h # "close"
        BY <1>t, <2>3, <3>2, Markers DEF TaskTypeOK
      <3>3. QED
        BY <3>1, <3>2
    <2>6. QED
      BY <1>t, <2>3, <2>4, <2>5 DEF Goal, Elsewhere, RestTypeOK, LiveResources
  <1>8. ASSUME DropLastHandle PROVE Goal
    BY <1>t, <1>8 DEF Goal, DropLastHandle, Elsewhere, RestTypeOK
  <1>9. ASSUME WorkerPanics PROVE Goal
    BY <1>g, <1>9, <1>t DEF WorkerPanics, RestTypeOK
  <1>10. ASSUME UNCHANGED vars PROVE Goal
    BY <1>g, <1>10 DEF vars, closeVars
  <1>11. QED
    BY <1>1, <1>2, <1>3, <1>4, <1>5, <1>6, <1>7, <1>8, <1>9, <1>10
       DEF CloseNext, Over, Goal

(* What everybody else does leaves the close thread what it relies on. *)
LEMMA ElsewhereKeeps ==
  ASSUME ThreadInv, Elsewhere, RestTypeOK', \A p \in Ops : GoesOn(p)
  PROVE  ThreadInv'
  <1>1. /\ close' = close /\ lost' = lost /\ events' = events
        /\ RestTypeOK /\ AdmissionInv /\ CloseJoinInv /\ OperationsInv
        /\ WorkerInv /\ FailureInv /\ EventsInv /\ ConvergedInv
    BY DEF ThreadInv, Elsewhere
  <1>2. close.pc \in CloseSteps
    BY <1>1 DEF RestTypeOK
  <1>3. runtimeState = "Active" => close.pc = "idle"
    BY <1>1 DEF AdmissionInv
  <1>4. AdmissionInv'
    BY <1>1 DEF AdmissionInv, Elsewhere
  <1>5. CloseJoinInv'
    BY <1>1, <1>2, <1>3, Markers DEF CloseJoinInv, Elsewhere, Joins, Idle
  <1>6. /\ \A o \in Ops : GivenUp(o) => GivenUp(o)'
        /\ \A o \in Ops : IsTerminal(o) => IsTerminal(o)'
        /\ \A o \in Ops : Doomed(o) => Doomed(o)'
        /\ \A o \in Ops : linked'[o] => linked[o]
    BY <1>1 DEF GoesOn, GivenUp
  <1>7. OperationsInv'
    <2>1. CASE close.pc = "idle"
      BY <1>1, <2>1
         DEF OperationsInv, Elsewhere, Joins, Settling, Stopping, RestTypeOK
    <2>2. CASE close.pc # "idle"
      <3>1. created' = created /\ created \subseteq Ops
        BY <1>1, <1>3, <2>2 DEF Elsewhere, RestTypeOK
      <3>2. close.ops \subseteq created
        BY <1>1 DEF OperationsInv
      <3> HIDE DEF GivenUp, Doomed
      <3>3. QED
        BY <1>1, <1>6, <3>1, <3>2 DEF OperationsInv
    <2>3. QED
      BY <2>1, <2>2
  <1>8. WorkerInv'
    BY <1>1 DEF WorkerInv, Elsewhere, Stopping
  <1>9. FailureInv'
    <2>1. close.pc \notin Joins =>
            \A t \in Ops :
              task'[t].body = "Panicked" => task[t].body = "Panicked"
      BY <1>1, <1>3 DEF Elsewhere, CloseJoinInv, Joins
    <2>2. QED
      BY <1>1, <2>1 DEF FailureInv
  <1>10. EventsInv'
    BY <1>1 DEF EventsInv, Final
  <1>11. ConvergedInv'
    <2>1. CASE close.pc = "idle"
      BY <1>1, <2>1 DEF ConvergedInv, Settled
    <2>2. CASE close.pc # "idle"
      BY <1>1, <1>3, <1>6, <2>2
         DEF ConvergedInv, Elsewhere, LiveOperations, LiveTasks, RestTypeOK
    <2>3. QED
      BY <2>1, <2>2
  <1>12. QED
    BY <1>4, <1>5, <1>7, <1>8, <1>9, <1>10, <1>11 DEF ThreadInv

(* The field types of a close record stay what its changed fields are.       *)
LEMMA CloseRecordType ==
  ASSUME NEW P, NEW F, NEW T, NEW O, NEW I,
         NEW c \in [pc : P, first : F, todo : T, ops : O, op : I],
         NEW p \in P, NEW f \in F, NEW d \in T
  PROVE  /\ [c EXCEPT !.pc = p] \in [pc : P, first : F, todo : T, ops : O, op : I]
         /\ [c EXCEPT !.pc = p, !.first = f] \in [pc : P, first : F, todo : T, ops : O, op : I]
         /\ [c EXCEPT !.todo = d, !.first = f] \in [pc : P, first : F, todo : T, ops : O, op : I]
         /\ [c EXCEPT !.pc = p, !.todo = d, !.first = f]
              \in [pc : P, first : F, todo : T, ops : O, op : I]
  OBVIOUS

(* Every step of the close thread keeps it: one case per step, the fields of
   close first, then the parts the step can disturb.                       *)
LEMMA CloseStepKeeps ==
  ASSUME Inv, JoiningInv, ThreadInv, CloseStep, \A p \in Ops : GoesOn(p)
  PROVE  ThreadInv'
  <1>t. /\ RestTypeOK /\ AdmissionInv /\ CloseJoinInv /\ OperationsInv
        /\ WorkerInv /\ FailureInv /\ EventsInv /\ ConvergedInv
    BY DEF ThreadInv
  <1>o. \A o \in Ops : /\ IsTerminal(o) => IsTerminal(o)'
                       /\ Doomed(o) => Doomed(o)'
                       /\ linked'[o] => linked[o]
    BY DEF GoesOn
  <1>s. /\ created \subseteq Ops /\ lost \subseteq created
        /\ close.ops \subseteq created
    BY <1>t DEF RestTypeOK, OperationsInv
  <1>p. \A o \in Ops : /\ IsTerminal(o) <=> txn[o].pc \in Ended
                       /\ terminalInProgress[o] => txn[o].pc # "idle"
                       /\ txn[o].pc # "idle" =>
                            terminalInProgress[o] \/ IsTerminal(o)
                       /\ ~linked[o] => IsTerminal(o)
                       /\ state[o] \in States
    <2>1. \A o \in Ops : PhaseInv(o) /\ txn[o] \in Txns /\ state[o] \in States
      BY DEF Inv, OpInv, TypeOK
    <2>2. \A o \in Ops : txn[o].pc \in InTxn \cup Ended \cup {"idle"}
      BY <2>1 DEF Txns, InTxn, Ended
    <2>3. QED
      BY <2>1, <2>2 DEF PhaseInv, InTxn, Ended
  <1>e. ASSUME NEW x \in {"closing", "closed", "close_failed"}
        PROVE  /\ Append(<< >>, x) = <<x>>
               /\ Append(<<"closing">>, x) = <<"closing", x>>
    <2> DEFINE S == {"closing", "closed", "close_failed"}
               one == Append(<< >>, x)
               two == Append(<<"closing">>, x)
    <2>1. /\ << >> \in Seq(S) /\ <<"closing">> \in Seq(S)
          /\ <<x>> \in Seq(S) /\ <<"closing", x>> \in Seq(S)
      OBVIOUS
    <2>2. one \in Seq(S) /\ Len(one) = 1 /\ one[1] = x
      BY <2>1, AppendProperties
    <2>3. two \in Seq(S) /\ Len(two) = 2 /\ two[1] = "closing" /\ two[2] = x
      BY <2>1, AppendProperties
    <2> HIDE DEF one, two
    <2>4. one = <<x>>
      BY <2>1, <2>2, SeqEqual
    <2>5. two = <<"closing", x>>
      BY <2>1, <2>3, SeqEqual
    <2>6. QED
      BY <2>4, <2>5 DEF one, two
  <1> DEFINE CloseRecords ==
               [pc : CloseSteps, first : Phases \cup {"none"}, todo : SUBSET (Ops \cup Resources),
                ops : SUBSET Ops, op : Ops \cup {"none"}]
  <1>r. /\ close \in CloseRecords
        /\ \A p \in CloseSteps, f \in Phases \cup {"none"}, d \in SUBSET (Ops \cup Resources) :
             /\ [close EXCEPT !.pc = p] \in CloseRecords
             /\ [close EXCEPT !.pc = p, !.first = f] \in CloseRecords
             /\ [close EXCEPT !.todo = d, !.first = f] \in CloseRecords
             /\ [close EXCEPT !.pc = p, !.todo = d, !.first = f] \in CloseRecords
    BY <1>t, CloseRecordType DEF RestTypeOK
  <1>f. /\ close.first \in Phases \cup {"none"}
        /\ close.todo \in SUBSET (Ops \cup Resources)
        /\ close.ops \in SUBSET (Ops \cup Resources)
        /\ \A x \in Phases : FailWith(x) \in Phases \cup {"none"}
    BY <1>t DEF RestTypeOK, FailWith
  <1>n. /\ {"cancel", "settle", "converge", "closed", "failed", "complete"} \subseteq CloseSteps
        /\ {"Start", "ResourceCleanup", "TaskJoin", "InternalTaskJoin", "RegistryConvergence",
            "FinalEvent"} \subseteq Phases
    BY DEF CloseSteps, Phases
  <1>v. ASSUME UNCHANGED <<created, task, resource>>
        PROVE  /\ LiveOperations' \subseteq LiveOperations
               /\ LiveTasks' = LiveTasks /\ LiveResources' = LiveResources
    BY <1>o, <1>s, <1>v DEF LiveOperations, LiveTasks, LiveResources
  <1>1. ASSUME NEW ok \in BOOLEAN, Announce(ok) PROVE ThreadInv'
    <2>1. /\ close.pc = "announce"
          /\ close'.pc = "cancel"
          /\ close'.first = IF ok THEN "none" ELSE "Start"
          /\ close'.todo = close.todo
          /\ close'.ops = close.ops
          /\ close'.op = close.op
          /\ events' = IF ok THEN Append(events, "closing") ELSE events
          /\ UNCHANGED <<runtimeState, outcome, closer, created, task,
                       joining, taskFailures, resource, worker, lost>>
      BY <1>t, <1>1 DEF Announce, RestTypeOK
    <2>2. RestTypeOK'
      <3>1. close' \in CloseRecords
        <4> HIDE DEF CloseRecords
        <4> QED BY <1>r, <1>f, <1>n, <1>1 DEF Announce
      <3> QED BY <1>t, <2>1, <3>1 DEF RestTypeOK
    <2>3. AdmissionInv' /\ WorkerInv'
      BY <1>t, <2>1 DEF AdmissionInv, WorkerInv, Stopping
    <2>4. CloseJoinInv'
      BY <1>t, <2>1 DEF CloseJoinInv, Joins
    <2>5. OperationsInv'
      BY <1>t, <1>o, <1>s, <2>1
         DEF OperationsInv, GivenUp, Joins, Settling, Stopping
    <2>6. FailureInv'
      BY <1>t, <2>1 DEF FailureInv, Joins, Settling, TaskFailure
    <2>7. EventsInv'
      BY <1>t, <1>e, <2>1 DEF EventsInv, Final, Settled
    <2>8. ConvergedInv'
      BY <1>t, <2>1 DEF ConvergedInv, Settled
    <2>9. QED
      BY <2>2, <2>3, <2>4, <2>5, <2>6, <2>7, <2>8 DEF ThreadInv
  <1>2. ASSUME CancelRoot PROVE ThreadInv'
    <2>1. /\ close.pc = "cancel"
          /\ close'.pc = "operations"
          /\ close'.first = close.first
          /\ close'.todo = close.todo
          /\ close'.ops = close.ops
          /\ close'.op = close.op
          /\ UNCHANGED <<runtimeState, outcome, closer, created, task,
                       joining, taskFailures, resource, worker, events, lost>>
      BY <1>t, <1>2 DEF CancelRoot, RestTypeOK
    <2>2. RestTypeOK'
      BY <1>t, <1>s, <1>2, <2>1 DEF RestTypeOK, CloseSteps, CancelRoot
    <2>3. AdmissionInv' /\ WorkerInv'
      BY <1>t, <2>1 DEF AdmissionInv, WorkerInv, Stopping
    <2>4. CloseJoinInv'
      BY <1>t, <2>1 DEF CloseJoinInv, Joins
    <2>5. OperationsInv'
      BY <1>t, <1>o, <1>s, <2>1
         DEF OperationsInv, GivenUp, Joins, Settling, Stopping
    <2>6. FailureInv'
      BY <1>t, <2>1 DEF FailureInv, Joins, Settling, TaskFailure
    <2>7. EventsInv'
      BY <1>t, <2>1 DEF EventsInv, Final, Settled
    <2>8. ConvergedInv'
      BY <1>t, <2>1 DEF ConvergedInv, Settled
    <2>9. QED
      BY <2>2, <2>3, <2>4, <2>5, <2>6, <2>7, <2>8 DEF ThreadInv
  <1>3. ASSUME SnapshotOperations PROVE ThreadInv'
    <2>1. /\ close.pc = "operations"
          /\ close'.pc = "request"
          /\ close'.first = close.first
          /\ close'.todo = LiveOperations
          /\ close'.ops = LiveOperations
          /\ close'.op = close.op
          /\ UNCHANGED <<runtimeState, outcome, closer, created, task,
                       joining, taskFailures, resource, worker, events, lost>>
      BY <1>t, <1>3 DEF SnapshotOperations, RestTypeOK
    <2>2. RestTypeOK'
      BY <1>t, <1>s, <1>3, <2>1
         DEF RestTypeOK, SnapshotOperations, CloseSteps, LiveOperations
    <2>3. AdmissionInv' /\ WorkerInv'
      BY <1>t, <2>1 DEF AdmissionInv, WorkerInv, Stopping
    <2>4. CloseJoinInv'
      BY <1>t, <2>1 DEF CloseJoinInv, Joins
    <2>5. OperationsInv'
      BY <1>t, <1>o, <1>s, <1>p, <2>1
         DEF OperationsInv, LiveOperations, Joins, Settling, Stopping
    <2>6. FailureInv'
      BY <1>t, <2>1 DEF FailureInv, Joins, Settling, TaskFailure
    <2>7. EventsInv'
      BY <1>t, <2>1 DEF EventsInv, Final, Settled
    <2>8. ConvergedInv'
      BY <1>t, <2>1 DEF ConvergedInv, Settled
    <2>9. QED
      BY <2>2, <2>3, <2>4, <2>5, <2>6, <2>7, <2>8 DEF ThreadInv
  <1>4. ASSUME NEW o \in Ops, RequestParentClose(o) PROVE ThreadInv'
    <2>1. /\ close.pc = "request" /\ o \in close.todo
          /\ close'.pc = "request"
          /\ close'.first = close.first
          /\ close'.todo = close.todo \ {o}
          /\ close'.ops = close.ops
          /\ close'.op = close.op
          /\ UNCHANGED <<runtimeState, outcome, closer, created, task,
                       joining, taskFailures, resource, worker, events, lost>>
      BY <1>t, <1>4 DEF RequestParentClose, RestTypeOK
    <2>2. RestTypeOK'
      BY <1>t, <1>s, <1>4, <2>1 DEF RestTypeOK, RequestParentClose, CloseSteps
    <2>3. AdmissionInv' /\ WorkerInv'
      BY <1>t, <2>1 DEF AdmissionInv, WorkerInv, Stopping
    <2>4. CloseJoinInv'
      BY <1>t, <2>1 DEF CloseJoinInv, Joins
    <2>5. OperationsInv'
      <3>1. Doomed(o)'
        <4>1. CASE Owned(o) \/ terminalInProgress[o]
          BY <1>o, <1>p, <4>1 DEF Doomed
        <4>2. CASE ~Owned(o) /\ ~terminalInProgress[o] /\ Cancellable(o)
          <5>1. RequestCancelLegacy(o, "ParentClose")
            BY <1>4, <4>2
               DEF RequestParentClose, RequestCancel, RequestCancelOwned
          <5>2. state'[o] = "Cancelling"
            BY <5>1 DEF RequestCancelLegacy, Inv, TypeOK
          <5>3. QED
            BY <5>2 DEF Doomed
        <4>3. CASE ~Owned(o) /\ ~terminalInProgress[o] /\ ~Cancellable(o)
          <5>1. Doomed(o)
            BY <1>p, <4>3 DEF Cancellable, Doomed, States
          <5>2. QED
            BY <1>o, <5>1
        <4>4. QED
          BY <4>1, <4>2, <4>3
      <3>2. QED
        BY <1>t, <1>o, <1>s, <2>1, <3>1
           DEF OperationsInv, Joins, Settling, Stopping
    <2>6. FailureInv'
      BY <1>t, <2>1 DEF FailureInv, Joins, Settling, TaskFailure
    <2>7. EventsInv'
      BY <1>t, <2>1 DEF EventsInv, Final, Settled
    <2>8. ConvergedInv'
      BY <1>t, <2>1 DEF ConvergedInv, Settled
    <2>9. QED
      BY <2>2, <2>3, <2>4, <2>5, <2>6, <2>7, <2>8 DEF ThreadInv
  <1>5. ASSUME SnapshotResources PROVE ThreadInv'
    <2>1. /\ close.pc = "request" /\ close.todo = {}
          /\ close'.pc = "cleanup"
          /\ close'.first = close.first
          /\ close'.todo = {r \in Resources : resource[r] = "registered"}
          /\ close'.ops = close.ops
          /\ close'.op = close.op
          /\ UNCHANGED <<runtimeState, outcome, closer, created, task,
                       joining, taskFailures, worker, events, lost>>
      BY <1>t, <1>5 DEF SnapshotResources, RestTypeOK
    <2>2. RestTypeOK'
      BY <1>t, <1>s, <1>5, <2>1 DEF RestTypeOK, CloseSteps, SnapshotResources
    <2>3. AdmissionInv' /\ WorkerInv'
      BY <1>t, <2>1 DEF AdmissionInv, WorkerInv, Stopping
    <2>4. CloseJoinInv'
      BY <1>t, <2>1 DEF CloseJoinInv, Joins
    <2>5. OperationsInv'
      BY <1>t, <1>o, <1>s, <2>1
         DEF OperationsInv, GivenUp, Joins, Settling, Stopping
    <2>6. FailureInv'
      BY <1>t, <2>1 DEF FailureInv, Joins, Settling, TaskFailure
    <2>7. EventsInv'
      BY <1>t, <2>1 DEF EventsInv, Final, Settled
    <2>8. ConvergedInv'
      BY <1>t, <2>1 DEF ConvergedInv, Settled
    <2>9. QED
      BY <2>2, <2>3, <2>4, <2>5, <2>6, <2>7, <2>8 DEF ThreadInv
  <1>6. ASSUME NEW r \in Resources, NEW ok \in BOOLEAN, CloseResource(r, ok)
        PROVE  ThreadInv'
    <2>1. /\ close.pc = "cleanup"
          /\ close'.pc = "cleanup"
          /\ close'.first =
               IF ok THEN close.first ELSE FailWith("ResourceCleanup")
          /\ close'.todo = close.todo \ {r}
          /\ close'.ops = close.ops
          /\ close'.op = close.op
          /\ UNCHANGED <<runtimeState, outcome, closer, created, task,
                       joining, taskFailures, resource, worker, events, lost>>
      BY <1>t, <1>6 DEF CloseResource, RestTypeOK
    <2>2. RestTypeOK'
      <3>1. close' \in CloseRecords
        <4> HIDE DEF CloseRecords
        <4> QED BY <1>r, <1>f, <1>n, <1>6 DEF CloseResource
      <3> QED BY <1>t, <2>1, <3>1 DEF RestTypeOK
    <2>3. AdmissionInv' /\ WorkerInv'
      BY <1>t, <2>1 DEF AdmissionInv, WorkerInv, Stopping
    <2>4. CloseJoinInv'
      BY <1>t, <2>1 DEF CloseJoinInv, Joins
    <2>5. OperationsInv'
      BY <1>t, <1>o, <1>s, <2>1
         DEF OperationsInv, GivenUp, Joins, Settling, Stopping
    <2>6. FailureInv'
      BY <1>t, <2>1 DEF FailureInv, FailWith, Joins, Settling, TaskFailure
    <2>7. EventsInv'
      BY <1>t, <2>1 DEF EventsInv, Final, Settled
    <2>8. ConvergedInv'
      BY <1>t, <2>1 DEF ConvergedInv, Settled
    <2>9. QED
      BY <2>2, <2>3, <2>4, <2>5, <2>6, <2>7, <2>8 DEF ThreadInv
  <1>7. ASSUME SnapshotTasks PROVE ThreadInv'
    <2>1. /\ close.pc = "cleanup"
          /\ close'.pc = "join"
          /\ close'.first = close.first
          /\ close'.todo = LiveTasks
          /\ close'.ops = close.ops
          /\ close'.op = close.op
          /\ UNCHANGED <<runtimeState, outcome, closer, created, task,
                       joining, taskFailures, resource, worker, events, lost>>
      BY <1>t, <1>7 DEF SnapshotTasks, RestTypeOK
    <2>2. RestTypeOK'
      BY <1>t, <1>s, <1>7, <2>1
         DEF RestTypeOK, SnapshotTasks, CloseSteps, LiveTasks
    <2>3. AdmissionInv' /\ WorkerInv'
      BY <1>t, <2>1 DEF AdmissionInv, WorkerInv, Stopping
    <2>4. CloseJoinInv'
      BY <1>t, <2>1, Markers
         DEF CloseJoinInv, LiveTasks, Joins, JoiningInv, JoinInv
    <2>5. OperationsInv'
      BY <1>t, <1>o, <1>s, <2>1
         DEF OperationsInv, GivenUp, Joins, Settling, Stopping
    <2>6. FailureInv'
      BY <1>t, <2>1 DEF FailureInv, Joins, Settling, TaskFailure
    <2>7. EventsInv'
      BY <1>t, <2>1 DEF EventsInv, Final, Settled
    <2>8. ConvergedInv'
      BY <1>t, <2>1 DEF ConvergedInv, Settled
    <2>9. QED
      BY <2>2, <2>3, <2>4, <2>5, <2>6, <2>7, <2>8 DEF ThreadInv
  <1>8. ASSUME NEW t \in Ops, JoinNext(t) PROVE ThreadInv'
    <2>1. /\ close.pc = "join" /\ t \in close.todo
          /\ close'.pc = "join"
          /\ close'.first = close.first
          /\ close'.todo = close.todo \ {t}
          /\ close'.ops = close.ops
          /\ close'.op = close.op
          /\ UNCHANGED <<runtimeState, outcome, closer, created, taskFailures,
                       resource, worker, events, lost>>
      BY <1>t, <1>8 DEF JoinNext, RestTypeOK
    <2>2. RestTypeOK'
      BY <1>t, <1>s, <1>8, <2>1 DEF RestTypeOK, CloseSteps, JoinNext
    <2>3. AdmissionInv' /\ WorkerInv'
      BY <1>t, <2>1 DEF AdmissionInv, WorkerInv, Stopping
    <2>4. CloseJoinInv'
      <3>1. /\ joining'["close"] = [task |-> t, pc |-> "wait"]
            /\ joining["close"] = Idle
            /\ \A u \in Ops : task'[u].linked = task[u].linked
        BY <1>8, Markers DEF JoinNext, JoinStart, JoiningInv, TaskTypeOK, Tasks
      <3>2. QED
        BY <1>t, <2>1, <3>1, Markers DEF CloseJoinInv, Joins, Idle
    <2>5. OperationsInv'
      BY <1>t, <1>o, <1>s, <2>1
         DEF OperationsInv, GivenUp, Joins, Settling, Stopping
    <2>6. FailureInv'
      BY <1>t, <2>1 DEF FailureInv, Joins, Settling, TaskFailure
    <2>7. EventsInv'
      BY <1>t, <2>1 DEF EventsInv, Final, Settled
    <2>8. ConvergedInv'
      BY <1>t, <2>1 DEF ConvergedInv, Settled
    <2>9. QED
      BY <2>2, <2>3, <2>4, <2>5, <2>6, <2>7, <2>8 DEF ThreadInv
  <1>9. ASSUME TasksJoined PROVE ThreadInv'
    <2>1. /\ close.pc = "join" /\ close.todo = {} /\ joining["close"] = Idle
          /\ close'.pc = "settle"
          /\ close'.first = IF taskFailures = {} THEN close.first
                                                 ELSE FailWith("TaskJoin")
          /\ close'.todo = close.ops
          /\ close'.ops = close.ops
          /\ close'.op = close.op
          /\ UNCHANGED <<runtimeState, outcome, closer, created, task,
                       joining, taskFailures, resource, worker, events, lost>>
      BY <1>t, <1>9 DEF TasksJoined, RestTypeOK
    <2>2. RestTypeOK'
      <3>1. close' \in CloseRecords
        <4> HIDE DEF CloseRecords
        <4> QED BY <1>r, <1>f, <1>n, <1>9 DEF TasksJoined
      <3> QED BY <1>t, <2>1, <3>1 DEF RestTypeOK
    <2>3. AdmissionInv' /\ WorkerInv'
      BY <1>t, <2>1 DEF AdmissionInv, WorkerInv, Stopping
    <2>4. CloseJoinInv'
      BY <1>t, <2>1, Markers DEF CloseJoinInv, Joins, Idle
    <2>5. OperationsInv'
      BY <1>t, <1>o, <1>s, <2>1
         DEF OperationsInv, GivenUp, Joins, Settling, Stopping
    <2>6. FailureInv'
      <3>1. \A t \in Ops : task[t].body = "Panicked" => t \in taskFailures
        <4>1. \A t \in Ops : ~task[t].linked /\ TaskInv(t)
          BY <1>t, <2>1, Markers DEF CloseJoinInv, Idle, JoiningInv
        <4>2. QED
          BY <4>1 DEF TaskInv
      <3>2. QED
        BY <1>t, <2>1, <3>1
           DEF FailureInv, FailWith, Joins, Settling, TaskFailure
    <2>7. EventsInv'
      BY <1>t, <2>1 DEF EventsInv, Final, Settled
    <2>8. ConvergedInv'
      BY <1>t, <2>1 DEF ConvergedInv, Settled
    <2>9. QED
      BY <2>2, <2>3, <2>4, <2>5, <2>6, <2>7, <2>8 DEF ThreadInv
  <1>10. ASSUME NEW o \in Ops, SkipOperation(o) PROVE ThreadInv'
    <2>1. /\ close.pc = "settle" /\ o \in close.todo
          /\ close'.pc = "settle"
          /\ close'.first = close.first
          /\ close'.todo = close.todo \ {o}
          /\ close'.ops = close.ops
          /\ close'.op = close.op
          /\ UNCHANGED <<runtimeState, outcome, closer, created, task,
                       joining, taskFailures, resource, worker, events, lost>>
      BY <1>t, <1>10 DEF SkipOperation, RestTypeOK
    <2>2. RestTypeOK'
      BY <1>t, <1>s, <1>10, <2>1 DEF RestTypeOK, SkipOperation, CloseSteps
    <2>3. AdmissionInv' /\ WorkerInv'
      BY <1>t, <2>1 DEF AdmissionInv, WorkerInv, Stopping
    <2>4. CloseJoinInv'
      BY <1>t, <2>1 DEF CloseJoinInv, Joins
    <2>5. OperationsInv'
      <3>1. IsTerminal(o)
        <4>1. Doomed(o)
          BY <1>t, <2>1 DEF OperationsInv, Settling
        <4>2. QED
          BY <1>p, <1>10, <4>1 DEF SkipOperation, Doomed, IsTerminal
      <3>2. QED
        BY <1>t, <1>o, <1>s, <2>1, <3>1
           DEF OperationsInv, GivenUp, Joins, Settling, Stopping
    <2>6. FailureInv'
      BY <1>t, <2>1 DEF FailureInv, Joins, Settling, TaskFailure
    <2>7. EventsInv'
      BY <1>t, <2>1 DEF EventsInv, Final, Settled
    <2>8. ConvergedInv'
      BY <1>t, <2>1 DEF ConvergedInv, Settled
    <2>9. QED
      BY <2>2, <2>3, <2>4, <2>5, <2>6, <2>7, <2>8 DEF ThreadInv
  <1>11. ASSUME NEW o \in Ops, SettleOperation(o) PROVE ThreadInv'
    <2>1. /\ close.pc = "settle" /\ o \in close.todo
          /\ close'.pc = "settling"
          /\ close'.first = close.first
          /\ close'.todo = close.todo \ {o}
          /\ close'.ops = close.ops
          /\ close'.op = o
          /\ UNCHANGED <<runtimeState, outcome, closer, created, task,
                       joining, taskFailures, resource, worker, events, lost>>
      BY <1>t, <1>11 DEF SettleOperation, RestTypeOK
    <2>2. RestTypeOK'
      BY <1>t, <1>s, <1>11, <2>1 DEF RestTypeOK, SettleOperation, CloseSteps
    <2>3. AdmissionInv' /\ WorkerInv'
      BY <1>t, <2>1 DEF AdmissionInv, WorkerInv, Stopping
    <2>4. CloseJoinInv'
      BY <1>t, <2>1 DEF CloseJoinInv, Joins
    <2>5. OperationsInv'
      BY <1>t, <1>o, <1>s, <2>1
         DEF OperationsInv, GivenUp, Joins, Settling, Stopping
    <2>6. FailureInv'
      BY <1>t, <2>1 DEF FailureInv, Joins, Settling, TaskFailure
    <2>7. EventsInv'
      BY <1>t, <2>1 DEF EventsInv, Final, Settled
    <2>8. ConvergedInv'
      BY <1>t, <2>1 DEF ConvergedInv, Settled
    <2>9. QED
      BY <2>2, <2>3, <2>4, <2>5, <2>6, <2>7, <2>8 DEF ThreadInv
  <1>12. ASSUME NEW o \in Ops, ObserveOperation(o) PROVE ThreadInv'
    <2>1. /\ close.pc = "settle" /\ o \in close.todo
          /\ close'.pc = "observing"
          /\ close'.first = close.first
          /\ close'.todo = close.todo \ {o}
          /\ close'.ops = close.ops
          /\ close'.op = o
          /\ UNCHANGED <<runtimeState, outcome, closer, created, task,
                       joining, taskFailures, resource, worker, events, lost>>
      BY <1>t, <1>12 DEF ObserveOperation, RestTypeOK
    <2>2. RestTypeOK'
      BY <1>t, <1>s, <1>12, <2>1 DEF RestTypeOK, ObserveOperation, CloseSteps
    <2>3. AdmissionInv' /\ WorkerInv'
      BY <1>t, <2>1 DEF AdmissionInv, WorkerInv, Stopping
    <2>4. CloseJoinInv'
      BY <1>t, <2>1 DEF CloseJoinInv, Joins
    <2>5. OperationsInv'
      BY <1>t, <1>o, <1>s, <2>1
         DEF OperationsInv, GivenUp, Joins, Settling, Stopping
    <2>6. FailureInv'
      BY <1>t, <2>1 DEF FailureInv, Joins, Settling, TaskFailure
    <2>7. EventsInv'
      BY <1>t, <2>1 DEF EventsInv, Final, Settled
    <2>8. ConvergedInv'
      BY <1>t, <2>1 DEF ConvergedInv, Settled
    <2>9. QED
      BY <2>2, <2>3, <2>4, <2>5, <2>6, <2>7, <2>8 DEF ThreadInv
  <1>13. ASSUME OperationSettled PROVE ThreadInv'
    <2>1. /\ close.pc \in {"settling", "observing"}
          /\ close'.pc = "settle"
          /\ close'.first = close.first
          /\ close'.todo = close.todo
          /\ close'.ops = close.ops
          /\ close'.op = "none"
          /\ UNCHANGED <<runtimeState, outcome, closer, created, task,
                       joining, taskFailures, resource, worker, events, lost>>
      BY <1>t, <1>13 DEF OperationSettled, RestTypeOK
    <2>2. RestTypeOK'
      BY <1>t, <1>s, <1>13, <2>1 DEF RestTypeOK, OperationSettled, CloseSteps
    <2>3. AdmissionInv' /\ WorkerInv'
      BY <1>t, <2>1 DEF AdmissionInv, WorkerInv, Stopping
    <2>4. CloseJoinInv'
      BY <1>t, <2>1 DEF CloseJoinInv, Joins
    <2>5. OperationsInv'
      <3>1. close.op \in Ops /\ txn[close.op].pc \in Ended
        BY <1>t, <1>13 DEF OperationSettled, OperationsInv, Ended
      <3>2. IsTerminal(close.op)
        BY <1>p, <3>1
      <3>3. QED
        BY <1>t, <1>o, <1>s, <2>1, <3>1, <3>2
           DEF OperationsInv, GivenUp, Joins, Settling, Stopping
    <2>6. FailureInv'
      BY <1>t, <2>1 DEF FailureInv, Joins, Settling, TaskFailure
    <2>7. EventsInv'
      BY <1>t, <2>1 DEF EventsInv, Final, Settled
    <2>8. ConvergedInv'
      BY <1>t, <2>1 DEF ConvergedInv, Settled
    <2>9. QED
      BY <2>2, <2>3, <2>4, <2>5, <2>6, <2>7, <2>8 DEF ThreadInv
  <1>14. ASSUME NEW o \in Ops, LoseOperation(o) PROVE ThreadInv'
    <2>1. /\ close.pc = "settle" /\ o \in close.todo
          /\ close'.pc = "settle"
          /\ close'.first = FailWith("OperationFinalization")
          /\ close'.todo = close.todo \ {o}
          /\ close'.ops = close.ops
          /\ close'.op = close.op
          /\ lost' = lost \cup {o}
          /\ UNCHANGED <<runtimeState, outcome, closer, created, task,
                       joining, taskFailures, resource, worker, events>>
      BY <1>t, <1>14 DEF LoseOperation, RestTypeOK
    <2>2. RestTypeOK'
      <3>1. o \in created
        BY <1>t, <1>s, <2>1 DEF OperationsInv, Settling
      <3>2. QED
        BY <1>t, <1>s, <1>14, <2>1, <3>1
           DEF RestTypeOK, LoseOperation, CloseSteps, Phases, FailWith
    <2>3. AdmissionInv' /\ WorkerInv'
      BY <1>t, <2>1 DEF AdmissionInv, WorkerInv, Stopping
    <2>4. CloseJoinInv'
      BY <1>t, <2>1 DEF CloseJoinInv, Joins
    <2>5. OperationsInv'
      BY <1>t, <1>o, <1>s, <2>1
         DEF OperationsInv, GivenUp, Joins, Settling, Stopping
    <2>6. FailureInv'
      BY <1>t, <2>1 DEF FailureInv, FailWith, Joins, Settling, TaskFailure
    <2>7. EventsInv'
      BY <1>t, <2>1 DEF EventsInv, Final, Settled
    <2>8. ConvergedInv'
      BY <1>t, <2>1 DEF ConvergedInv, Settled
    <2>9. QED
      BY <2>2, <2>3, <2>4, <2>5, <2>6, <2>7, <2>8 DEF ThreadInv
  <1>15. ASSUME NEW ok \in BOOLEAN, StopWorker(ok) PROVE ThreadInv'
    <2>1. /\ close.pc = "settle" /\ close.todo = {}
          /\ close'.pc = IF ok THEN "converge" ELSE "failed"
          /\ close'.todo = close.todo
          /\ close'.ops = close.ops
          /\ close'.op = close.op
          /\ IF ok THEN worker' = "joined" ELSE worker' = worker
          /\ close'.first \in {close.first, FailWith("InternalTaskJoin"),
                               "InternalTaskJoin"}
          /\ ~ok => close'.first = "InternalTaskJoin"
          /\ UNCHANGED <<runtimeState, outcome, closer, created, task,
                       joining, taskFailures, resource, events, lost>>
      BY <1>t, <1>15 DEF StopWorker, RestTypeOK
    <2>2. RestTypeOK'
      <3>1. close' \in CloseRecords
        <4> HIDE DEF CloseRecords
        <4>1. \E p \in {"converge", "failed"}, f \in Phases \cup {"none"} :
                close' = [close EXCEPT !.pc = p, !.first = f]
          <5>1. CASE ok
            BY <1>f, <1>n, <1>15, <5>1 DEF StopWorker
          <5>2. CASE ~ok
            BY <1>n, <1>15, <5>2 DEF StopWorker
          <5> QED BY <5>1, <5>2
        <4>2. PICK p \in {"converge", "failed"}, f \in Phases \cup {"none"} :
                close' = [close EXCEPT !.pc = p, !.first = f]
          BY <4>1
        <4>3. p \in CloseSteps
          BY <1>n
        <4> QED BY <1>r, <1>f, <4>2, <4>3
      <3> QED BY <1>t, <2>1, <3>1 DEF RestTypeOK
    <2>3. AdmissionInv' /\ WorkerInv'
      BY <1>t, <2>1 DEF AdmissionInv, WorkerInv, Stopping
    <2>4. CloseJoinInv'
      BY <1>t, <2>1 DEF CloseJoinInv, Joins
    <2>5. OperationsInv'
      BY <1>t, <1>o, <1>s, <2>1
         DEF OperationsInv, GivenUp, Joins, Settling, Stopping
    <2>6. FailureInv'
      BY <1>t, <2>1 DEF FailureInv, FailWith, Joins, Settling, TaskFailure
    <2>7. EventsInv'
      BY <1>t, <2>1 DEF EventsInv, Final, Settled
    <2>8. ConvergedInv'
      BY <1>t, <2>1 DEF ConvergedInv, Settled
    <2>9. QED
      BY <2>2, <2>3, <2>4, <2>5, <2>6, <2>7, <2>8 DEF ThreadInv
  <1>16. ASSUME Converge PROVE ThreadInv'
    <2>1. /\ close.pc = "converge"
          /\ close'.todo = close.todo
          /\ close'.ops = close.ops
          /\ close'.op = close.op
          /\ IF LiveOperations = {} /\ LiveTasks = {} /\ LiveResources = {}
             THEN close'.first = close.first
             ELSE close'.first = FailWith("RegistryConvergence")
          /\ close'.pc = IF close'.first = "none" THEN "closed" ELSE "failed"
          /\ UNCHANGED <<runtimeState, outcome, closer, created, task,
                       joining, taskFailures, resource, worker, events, lost>>
      BY <1>t, <1>16 DEF Converge, RestTypeOK
    <2>2. RestTypeOK'
      <3>1. close' \in CloseRecords
        <4> HIDE DEF CloseRecords
        <4>1. \E p \in {"closed", "failed"}, f \in Phases \cup {"none"} :
                close' = [close EXCEPT !.first = f, !.pc = p]
          <5>1. CASE LiveOperations = {} /\ LiveTasks = {} /\ LiveResources = {}
            BY <1>f, <1>16, <5>1 DEF Converge
          <5>2. CASE ~(LiveOperations = {} /\ LiveTasks = {} /\ LiveResources = {})
            BY <1>f, <1>n, <1>16, <5>2 DEF Converge
          <5> QED BY <5>1, <5>2
        <4>2. PICK p \in {"closed", "failed"}, f \in Phases \cup {"none"} :
                close' = [close EXCEPT !.first = f, !.pc = p]
          BY <4>1
        <4>3. [close EXCEPT !.first = f, !.pc = p] = [close EXCEPT !.pc = p, !.first = f]
          BY <1>t DEF RestTypeOK
        <4> QED BY <1>r, <1>n, <1>f, <4>2, <4>3
      <3> QED BY <1>t, <2>1, <3>1 DEF RestTypeOK
    <2>3. AdmissionInv' /\ WorkerInv'
      BY <1>t, <2>1 DEF AdmissionInv, WorkerInv, Stopping
    <2>4. CloseJoinInv'
      BY <1>t, <2>1 DEF CloseJoinInv, Joins
    <2>5. OperationsInv'
      BY <1>t, <1>o, <1>s, <2>1
         DEF OperationsInv, GivenUp, Joins, Settling, Stopping
    <2>6. FailureInv'
      BY <1>t, <2>1 DEF FailureInv, FailWith, Joins, Settling, TaskFailure
    <2>7. EventsInv'
      BY <1>t, <2>1 DEF EventsInv, Final, Settled
    <2>8. ConvergedInv'
      BY <1>t, <1>v, <2>1 DEF ConvergedInv, Settled, FailWith
    <2>9. QED
      BY <2>2, <2>3, <2>4, <2>5, <2>6, <2>7, <2>8 DEF ThreadInv
  <1>17. ASSUME NEW ok \in BOOLEAN, PublishClosed(ok) PROVE ThreadInv'
    <2>1. /\ close.pc = "closed"
          /\ close'.pc = IF ok THEN "complete" ELSE "failed"
          /\ close'.first = IF ok THEN close.first ELSE "FinalEvent"
          /\ close'.todo = close.todo
          /\ close'.ops = close.ops
          /\ close'.op = close.op
          /\ events' = IF ok THEN Append(events, "closed") ELSE events
          /\ UNCHANGED <<runtimeState, outcome, closer, created, task,
                       joining, taskFailures, resource, worker, lost>>
      BY <1>t, <1>17 DEF PublishClosed, RestTypeOK
    <2>2. RestTypeOK'
      <3>1. close' \in CloseRecords
        <4> HIDE DEF CloseRecords
        <4>1. CASE ok
          BY <1>r, <1>f, <1>n, <1>17, <4>1 DEF PublishClosed
        <4>2. CASE ~ok
          <5>1. close' = [close EXCEPT !.pc = "failed", !.first = "FinalEvent"]
            BY <1>17, <4>2 DEF PublishClosed
          <5>2. "failed" \in CloseSteps /\ "FinalEvent" \in Phases \cup {"none"}
            BY <1>n
          <5> QED BY <1>r, <1>f, <5>1, <5>2
        <4> QED BY <4>1, <4>2
      <3> QED BY <1>t, <2>1, <3>1 DEF RestTypeOK
    <2>3. AdmissionInv' /\ WorkerInv'
      BY <1>t, <2>1 DEF AdmissionInv, WorkerInv, Stopping
    <2>4. CloseJoinInv'
      BY <1>t, <2>1 DEF CloseJoinInv, Joins
    <2>5. OperationsInv'
      BY <1>t, <1>o, <1>s, <2>1
         DEF OperationsInv, GivenUp, Joins, Settling, Stopping
    <2>6. FailureInv'
      BY <1>t, <2>1 DEF FailureInv, Joins, Settling, TaskFailure
    <2>7. EventsInv'
      BY <1>t, <1>e, <2>1 DEF EventsInv, FailureInv, Final, Settled
    <2>8. ConvergedInv'
      BY <1>t, <1>v, <2>1 DEF ConvergedInv, Settled
    <2>9. QED
      BY <2>2, <2>3, <2>4, <2>5, <2>6, <2>7, <2>8 DEF ThreadInv
  <1>18. ASSUME PublishFailed PROVE ThreadInv'
    <2>1. /\ close.pc = "failed"
          /\ close'.pc = "complete"
          /\ close'.first = close.first
          /\ close'.todo = close.todo
          /\ close'.ops = close.ops
          /\ close'.op = close.op
          /\ events' = Append(events, "close_failed")
          /\ worker' = "joined"
          /\ UNCHANGED <<runtimeState, outcome, closer, created, task,
                       joining, taskFailures, resource, lost>>
      BY <1>t, <1>18 DEF PublishFailed, RestTypeOK
    <2>2. RestTypeOK'
      BY <1>t, <1>s, <1>18, <2>1 DEF RestTypeOK, PublishFailed, CloseSteps
    <2>3. AdmissionInv' /\ WorkerInv'
      BY <1>t, <2>1 DEF AdmissionInv, WorkerInv, Stopping
    <2>4. CloseJoinInv'
      BY <1>t, <2>1 DEF CloseJoinInv, Joins
    <2>5. OperationsInv'
      BY <1>t, <1>o, <1>s, <2>1
         DEF OperationsInv, GivenUp, Joins, Settling, Stopping
    <2>6. FailureInv'
      BY <1>t, <2>1 DEF FailureInv, Joins, Settling, TaskFailure
    <2>7. EventsInv'
      BY <1>t, <1>e, <2>1 DEF EventsInv, FailureInv, Final, Settled
    <2>8. ConvergedInv'
      BY <1>t, <2>1 DEF ConvergedInv, FailureInv, Settled
    <2>9. QED
      BY <2>2, <2>3, <2>4, <2>5, <2>6, <2>7, <2>8 DEF ThreadInv
  <1>19. ASSUME Complete PROVE ThreadInv'
    <2>1. /\ close.pc = "complete"
          /\ close'.pc = "notify"
          /\ close'.first = close.first
          /\ close'.todo = close.todo
          /\ close'.ops = close.ops
          /\ close'.op = close.op
          /\ outcome' = IF close.first = "none" THEN "Closed" ELSE close.first
          /\ runtimeState' =
               IF close.first = "none" THEN "Closed" ELSE "CloseFailed"
          /\ UNCHANGED <<closer, created, task, joining, taskFailures,
                       resource, worker, events, lost>>
      BY <1>t, <1>19 DEF Complete, RestTypeOK
    <2>2. RestTypeOK'
      BY <1>t, <1>s, <1>19, <2>1 DEF RestTypeOK, Complete, CloseSteps
    <2>3. AdmissionInv' /\ WorkerInv'
      BY <1>t, <2>1 DEF AdmissionInv, WorkerInv, Stopping
    <2>4. CloseJoinInv'
      BY <1>t, <2>1 DEF CloseJoinInv, Joins
    <2>5. OperationsInv'
      BY <1>t, <1>o, <1>s, <2>1
         DEF OperationsInv, GivenUp, Joins, Settling, Stopping
    <2>6. FailureInv'
      BY <1>t, <2>1 DEF FailureInv, Joins, Settling, TaskFailure
    <2>7. EventsInv'
      BY <1>t, <2>1 DEF EventsInv, Final, Settled
    <2>8. ConvergedInv'
      BY <1>t, <1>v, <2>1 DEF ConvergedInv, Settled
    <2>9. QED
      BY <2>2, <2>3, <2>4, <2>5, <2>6, <2>7, <2>8 DEF ThreadInv
  <1>20. ASSUME NotifyClosers PROVE ThreadInv'
    <2>1. /\ close.pc = "notify"
          /\ close'.pc = "done"
          /\ close'.first = close.first
          /\ close'.todo = close.todo
          /\ close'.ops = close.ops
          /\ close'.op = close.op
          /\ UNCHANGED <<runtimeState, outcome, created, task, joining,
                       taskFailures, resource, worker, events, lost>>
      BY <1>t, <1>20 DEF NotifyClosers, RestTypeOK
    <2>2. RestTypeOK'
      BY <1>t, <1>s, <1>20, <2>1 DEF RestTypeOK, CloseSteps, NotifyClosers
    <2>3. AdmissionInv' /\ WorkerInv'
      BY <1>t, <2>1 DEF AdmissionInv, WorkerInv, Stopping
    <2>4. CloseJoinInv'
      BY <1>t, <2>1 DEF CloseJoinInv, Joins
    <2>5. OperationsInv'
      BY <1>t, <1>o, <1>s, <2>1
         DEF OperationsInv, GivenUp, Joins, Settling, Stopping
    <2>6. FailureInv'
      BY <1>t, <2>1 DEF FailureInv, Joins, Settling, TaskFailure
    <2>7. EventsInv'
      BY <1>t, <2>1 DEF EventsInv, Final, Settled
    <2>8. ConvergedInv'
      BY <1>t, <1>v, <2>1 DEF ConvergedInv, Settled
    <2>9. QED
      BY <2>2, <2>3, <2>4, <2>5, <2>6, <2>7, <2>8 DEF ThreadInv
  <1>21. QED
    BY <1>1, <1>2, <1>3, <1>4, <1>5, <1>6, <1>7, <1>8, <1>9, <1>10, <1>11,
       <1>12, <1>13, <1>14, <1>15, <1>16, <1>17, <1>18, <1>19, <1>20
       DEF CloseStep

(* Calling close starts the close thread once. *)
LEMMA CallCloseKeeps ==
  ASSUME ThreadInv, NEW c \in Closers, CallClose(c),
         \A p \in Ops : GoesOn(p)
  PROVE  ThreadInv'
  <1>t. /\ RestTypeOK /\ AdmissionInv /\ CloseJoinInv /\ OperationsInv
        /\ WorkerInv /\ FailureInv /\ EventsInv /\ ConvergedInv
    BY DEF ThreadInv
  <1>r. RestTypeOK'
    BY <1>t DEF CallClose, RestTypeOK, CloseSteps
  <1>1. CASE close' = close
    <2>1. Elsewhere
      BY <1>t, <1>1
         DEF CallClose, Elsewhere, RestTypeOK, CloseSteps, LiveResources
    <2>2. QED
      BY <1>r, <2>1, ElsewhereKeeps
  <1>2. CASE close' # close
    <2>1. /\ close.pc = "idle" /\ close'.pc = "announce"
          /\ close'.first = close.first /\ close'.ops = close.ops
          /\ runtimeState' = "Closing"
          /\ UNCHANGED <<outcome, created, task, joining, worker>>
          /\ UNCHANGED <<events, lost>>
      BY <1>t, <1>2 DEF CallClose, RestTypeOK
    <2>2. AdmissionInv' /\ CloseJoinInv' /\ WorkerInv' /\ EventsInv'
      BY <1>t, <2>1 DEF AdmissionInv, CloseJoinInv, WorkerInv, EventsInv,
                        Joins, Stopping, Settled
    <2>3. OperationsInv' /\ FailureInv' /\ ConvergedInv'
      BY <1>t, <2>1 DEF OperationsInv, FailureInv, ConvergedInv, Joins,
                        Settling, Stopping, Settled
    <2>4. QED
      BY <1>r, <2>2, <2>3 DEF ThreadInv
  <1>3. QED
    BY <1>1, <1>2

LEMMA CloseInitInv == CloseInit => CloseInv
  <1> SUFFICES ASSUME CloseInit PROVE CloseInv
    OBVIOUS
  <1>1. Inv
    BY InitInv DEF CloseInit
  <1>2. JoiningInv
    BY Markers DEF CloseInit, JoiningInv, TaskTypeOK, TaskInv, JoinInv, NoTask,
                   Idle, Tasks, Bodies, Handles, Joining, Over
  <1>3. RestTypeOK
    BY DEF CloseInit, RestTypeOK, NewClose, CloseSteps
  <1>4. AdmissionInv /\ CloseJoinInv /\ WorkerInv /\ EventsInv
    BY Markers DEF CloseInit, AdmissionInv, CloseJoinInv, WorkerInv,
                   EventsInv, NewClose, Idle, Joins, Stopping, Settled
  <1>5. OperationsInv /\ FailureInv /\ ConvergedInv
    BY DEF CloseInit, OperationsInv, FailureInv, ConvergedInv, NewClose, Joins,
           Settling, Stopping, Settled
  <1>6. QED
    BY <1>1, <1>2, <1>3, <1>4, <1>5, Parts DEF ThreadInv

(* Every step keeps the inductive invariant. *)
LEMMA CloseInvStep == CloseInv /\ [CloseNext]_vars => CloseInv'
  <1> SUFFICES ASSUME CloseInv, [CloseNext]_vars PROVE CloseInv'
    OBVIOUS
  <1>1. CloseTypeOK /\ Inv /\ JoiningInv /\ ThreadInv
    BY Parts DEF CloseInv
  <1>2. Inv' /\ \A p \in Ops : GoesOn(p)
    BY <1>1, OperationsGoOn
  <1>3. JoiningInv'
    BY <1>1, StepJoining
  <1>4. ThreadInv'
    BY <1>1, <1>2, StepElsewhere, ElsewhereKeeps, CloseStepKeeps,
       CallCloseKeeps
  <1>5. (Inv /\ JoiningInv /\ ThreadInv)'
    BY <1>2, <1>3, <1>4
  <1>6. QED
    BY <1>5, Parts, PTL

(* The inductive invariant holds in every reachable state of a Runtime,
   whatever its operations, resources, closing and joining threads.         *)
THEOREM CloseInvariance == CloseSpec => []CloseInv
  BY CloseInitInv, CloseInvStep, PTL DEF CloseSpec

(* The types of the Runtime's registries, its close thread and its tasks, and
   the outcome that comes with a terminal state (RuntimeInner).            *)
THEOREM CloseTypeCorrect == CloseSpec => []CloseTypeOK
  <1>1. CloseInv => CloseTypeOK
    BY DEF CloseInv
  <1>2. QED
    BY <1>1, CloseInvariance, PTL

(* No assert! or expect() of join_supervised_task fails, however many threads
   join one task and whatever close does meanwhile.                        *)
THEOREM JoinsNeverPanic == CloseSpec => []JoinNeverPanics
  <1>1. CloseInv => JoinNeverPanics
    BY DEF CloseInv, JoinInv, JoinNeverPanics
  <1>2. QED
    BY <1>1, CloseInvariance, PTL

(* runtime.closed is only decided on, and the Runtime only Closed, once every
   operation is terminal and unlinked, every task joined, every resource
   unregistered and the deadline worker stopped.                           *)
THEOREM ClosedIsConverged == CloseSpec => []ClosedMeansConverged
  <1>1. CloseInv => ClosedMeansConverged
    <2> SUFFICES ASSUME CloseInv,
                        close.pc = "closed" \/ runtimeState = "Closed"
                 PROVE  /\ \A o \in created : IsTerminal(o) /\ ~linked[o]
                        /\ \A t \in Ops : task[t].body # "absent" =>
                             task[t].handle = "Joined"
                        /\ LiveResources = {}
                        /\ worker = "joined"
      BY DEF ClosedMeansConverged
    <2>1. close.pc \in Stopping \ {"failed"} /\ close.first = "none"
          /\ close.pc \in {"closed"} \cup Settled
      BY DEF CloseInv, AdmissionInv, FailureInv, Stopping, Settled
    <2>2. LiveOperations = {} /\ LiveTasks = {} /\ LiveResources = {}
      BY <2>1 DEF CloseInv, ConvergedInv
    <2>3. worker = "joined" /\ created \subseteq Ops
      BY <2>1 DEF CloseInv, WorkerInv, CloseTypeOK
    <2>4. \A o \in created : ~linked[o] /\ IsTerminal(o)
      <3>1. \A o \in created : ~linked[o]
        BY <2>2 DEF LiveOperations
      <3>2. \A o \in Ops : PhaseInv(o)
        BY DEF CloseInv, Inv, OpInv
      <3>3. QED
        BY <2>3, <3>1, <3>2 DEF PhaseInv, Ended
    <2>5. \A t \in Ops : task[t].body # "absent" => task[t].handle = "Joined"
      <3>1. \A t \in Ops : ~task[t].linked /\ TaskInv(t)
        BY <2>2 DEF LiveTasks, CloseInv
      <3>2. QED
        BY <3>1 DEF TaskInv
    <2>6. QED
      BY <2>2, <2>3, <2>4, <2>5
  <1>2. QED
    BY <1>1, CloseInvariance, PTL

(* The deadline worker is joined after every owner task, and after every
   operation ended or was given up (stop_deadline_worker).                 *)
THEOREM WorkerOutlives == CloseSpec => []WorkerOutlivesOwners
  <1>1. CloseInv => WorkerOutlivesOwners
    <2> SUFFICES ASSUME CloseInv, worker = "joined"
                 PROVE  /\ \A t \in Ops :
                             task[t].body \in
                               {"absent", "Completed", "Panicked"}
                        /\ \A o \in created : IsTerminal(o) \/ o \in lost
      BY DEF WorkerOutlivesOwners
    <2>1. close.pc \in Stopping
      BY DEF CloseInv, WorkerInv
    <2>2. \A t \in Ops : ~task[t].linked /\ TaskInv(t)
      BY <2>1 DEF CloseInv, CloseJoinInv, Stopping, Joins
    <2>3. \A t \in Ops : task[t].body \in {"absent", "Completed", "Panicked"}
      BY <2>2 DEF TaskInv, Over
    <2>4. \A o \in created : IsTerminal(o) \/ o \in lost
      BY <2>1 DEF CloseInv, OperationsInv, GivenUp
    <2>5. QED
      BY <2>3, <2>4
  <1>2. QED
    BY <1>1, CloseInvariance, PTL

(* A task panic or a lost operation is never absent from the saved outcome,
   whoever joined the task and whoever ended the operation later.          *)
THEOREM FailuresDecide == CloseSpec => []FailuresDecideOutcome
  <1>1. CloseInv => FailuresDecideOutcome
    <2> SUFFICES ASSUME CloseInv, outcome # "none"
                 PROVE  /\ (\E t \in Ops : task[t].body = "Panicked") =>
                             outcome \in TaskFailure
                        /\ lost # {} => outcome \in
                             TaskFailure \cup {"OperationFinalization"}
      BY DEF FailuresDecideOutcome, TaskFailure
    <2>1. /\ close.pc \in {"notify", "done"}
          /\ outcome = IF close.first = "none" THEN "Closed" ELSE close.first
      BY DEF CloseInv, AdmissionInv
    <2>2. QED
      BY <2>1 DEF CloseInv, FailureInv, Joins, TaskFailure
  <1>2. QED
    BY <1>1, CloseInvariance, PTL

(* The stream ends with the one final event that agrees with the outcome. *)
THEOREM FinalEventTells == CloseSpec => []FinalEventTellsOutcome
  <1>1. CloseInv => FinalEventTellsOutcome
    <2> SUFFICES ASSUME CloseInv, runtimeState \in {"Closed", "CloseFailed"}
                 PROVE  FinalEventTellsOutcome
      BY DEF FinalEventTellsOutcome
    <2>1. /\ close.pc \in {"notify", "done"}
          /\ runtimeState = "Closed" <=> close.first = "none"
          /\ outcome = IF close.first = "none" THEN "Closed" ELSE close.first
          /\ close.first \in Phases \cup {"none"}
      BY DEF CloseInv, AdmissionInv, CloseTypeOK
    <2>2. runtimeState = "Closed" <=> outcome = "Closed"
      BY <2>1 DEF Phases
    <2>3. events \in {<<Final>>, <<"closing", Final>>}
      BY <2>1 DEF CloseInv, EventsInv, Settled
    <2>4. Final = IF runtimeState = "Closed" THEN "closed" ELSE "close_failed"
      BY <2>1 DEF Final
    <2>5. /\ events[Len(events)] = Final
          /\ \A i \in 1..Len(events) - 1 : events[i] = "closing"
      <3>1. CASE events = <<Final>>
        BY <3>1
      <3>2. CASE events = <<"closing", Final>>
        BY <3>2
      <3>3. QED
        BY <2>3, <3>1, <3>2
    <2>6. QED
      BY <2>2, <2>4, <2>5 DEF FinalEventTellsOutcome
  <1>2. QED
    BY <1>1, CloseInvariance, PTL

-----------------------------------------------------------------------------
(* Who waits for whom                                                       *)

(* A transaction past the claim, and one that needs nobody who claims. *)
Begun     == {"cleanup", "settle", "commit"} \cup Ended
RunsOn(o) == \/ txn[o].pc \in Begun
             \/ txn[o].pc \in {"cancelling", "announce"} /\ txn[o].by = "transfer"

(* Who finishes a claim is past it. *)
FinishingInv(o) == claimed[o].state = "Finishing" => txn[o].pc \in Begun

(* A task is marked joined once: it is no longer registered, and who joins it
   again turns back before the mark.                                       *)
MarkedInv(t) ==
  arbiter[t].joined =>
    /\ task[t].handle = "Joined"
    /\ ~task[t].linked
    /\ task[t].gate # "none" => joining[task[t].gate].pc = "wait"

(* What close has still to do can be done, and a transaction it waits for
   runs on.                                                                *)
LeftInv ==
  /\ close.pc = "request" => close.todo \subseteq Ops
  /\ close.pc = "cleanup" => close.todo \subseteq Resources
  /\ close.pc = "join" =>
       \A t \in close.todo : t \in Ops /\ task[t].handle # "Missing"
  /\ close.pc \in {"settling", "observing"} => RunsOn(close.op)

(* Who waits for the outcome waits for a close under way. *)
CallerInv ==
  \A c \in Closers : closer[c] \in {"waiting", "owner"} =>
    close.pc \notin {"idle", "done"}

WaitInv == /\ \A o \in Ops : FinishingInv(o)
           /\ \A t \in Ops : MarkedInv(t)
           /\ LeftInv
           /\ CallerInv

(* What never stops: a transaction that runs on; nor is a task marked. *)
KeepsOn(o) == /\ RunsOn(o) => RunsOn(o)'
              /\ claimed'[o].state = "Finishing" => txn'[o].pc \in Begun
              /\ arbiter'[o].joined = arbiter[o].joined

LEMMA WorkingKeepsOn ==
  ASSUME Inv, NEW o \in Ops, FinishingInv(o), Working(o)
  PROVE  KeepsOn(o)
  <1>i. TypeOK /\ OpInv(o)
    BY DEF Inv
  <1>a. /\ txn \in [Ops -> Txns] /\ txn[o] \in Txns
        /\ claimed \in [Ops -> Claims] /\ arbiter \in [Ops -> Arbiters]
        /\ claimed[o] \in Claims /\ arbiter[o] \in Arbiters
    BY <1>i DEF TypeOK
  <1>f. /\ terminalInProgress[o] <=> txn[o].pc \in InTxn
        /\ IsTerminal(o) <=> txn[o].pc \in Ended
        /\ txn[o].pc \in InTxn \cup Ended \cup {"idle"}
    BY <1>i, <1>a DEF OpInv, PhaseInv, Txns, InTxn, Ended
  <1>k. ASSUME txn' = txn, claimed'[o].state # "Finishing" \/ claimed' = claimed,
               arbiter' = arbiter
        PROVE  KeepsOn(o)
    BY <1>k DEF KeepsOn, RunsOn, FinishingInv
  <1>p. ASSUME NEW pc, txn' = [txn EXCEPT ![o].pc = pc], UNCHANGED claimed,
               pc \in Begun \/ (pc = "announce" /\ txn[o].pc = "cancelling"),
               arbiter'[o].joined = arbiter[o].joined
        PROVE  KeepsOn(o)
    <2>1. txn'[o] = [txn[o] EXCEPT !.pc = pc]
      BY <1>a, <1>p
    <2>2. txn'[o].pc = pc /\ txn'[o].by = txn[o].by
      BY <1>a, <2>1 DEF Txns
    <2>3. QED
      BY <1>p, <2>2 DEF KeepsOn, RunsOn, FinishingInv, Begun, Ended
  <1>b. ASSUME NEW t \in Txns, BeginTerminal(o, t), txn[o].pc = "idle",
               claimed'[o].state # "Finishing" \/ claimed' = claimed,
               arbiter'[o].joined = arbiter[o].joined
        PROVE  KeepsOn(o)
    BY <1>a, <1>b DEF KeepsOn, RunsOn, FinishingInv, Begun, Ended
  <1>1. CASE ShowClaimedCancellation(o)
    BY <1>1, <1>p DEF ShowClaimedCancellation
  <1>2. CASE AnnounceClaimedCancellation(o)
    <2>1. PICK pc : pc = IF txn[o].by = "transfer" THEN "cleanup" ELSE "claimed"
      OBVIOUS
    <2>2. /\ txn[o].pc = "announce" /\ UNCHANGED <<claimed, arbiter>>
          /\ txn' = [txn EXCEPT ![o].pc = pc]
      BY <1>2, <2>1 DEF AnnounceClaimedCancellation
    <2>3. txn'[o].pc = pc
      BY <1>a, <2>2 DEF Txns
    <2>4. QED
      BY <2>1, <2>2, <2>3 DEF KeepsOn, RunsOn, FinishingInv, Begun, Ended
  <1>3. ASSUME NEW x \in Outcome, RunCleanup(o, x) PROVE KeepsOn(o)
    <2>1. txn[o].pc = "cleanup" /\ txn'[o].pc = "settle"
          /\ UNCHANGED <<claimed, arbiter>>
      BY <1>3, <1>a DEF RunCleanup, Txns
    <2>2. QED
      BY <2>1 DEF KeepsOn, RunsOn, Begun
  <1>4. ASSUME NEW x \in Outcome, CleanupSettled(o, x) PROVE KeepsOn(o)
    <2>1. txn[o].pc = "settle" /\ txn'[o].pc = "commit"
          /\ UNCHANGED <<claimed, arbiter>>
      BY <1>4, <1>a DEF CleanupSettled, Txns
    <2>2. QED
      BY <2>1 DEF KeepsOn, RunsOn, Begun
  <1>5. CASE Commit(o)
    <2>1. arbiter'[o].joined = arbiter[o].joined
      BY <1>5, <1>a DEF Commit, Arbiters
    <2>2. QED
      BY <1>5, <1>p, <2>1 DEF Commit, Begun, Ended
  <1>6. CASE PublishTerminal(o)
    BY <1>6, <1>p DEF PublishTerminal, Begun, Ended
  <1>7. CASE Unlink(o)
    BY <1>7, <1>p DEF Unlink, Begun, Ended
  <1>8. CASE Notify(o)
    BY <1>8, <1>p DEF Notify, Begun, Ended
  <1>9. CASE Start(o)
    BY <1>9, <1>k DEF Start
  <1>10. ASSUME NEW r \in Reason, RequestCancel(o, r) PROVE KeepsOn(o)
    BY <1>10, <1>k DEF RequestCancel, RequestCancelOwned, RequestCancelLegacy
  <1>11. CASE SealFromParent(o)
    BY <1>11, <1>k DEF SealFromParent
  <1>12. ASSUME NEW c \in Candidate, FinishLegacy(o, c) PROVE KeepsOn(o)
    <2> DEFINE t == [NoTxn EXCEPT !.pc = "cleanup", !.primary = c,
                                  !.by = "legacy"]
    <2>1. t \in Txns
      BY DEF NoTxn, Txns, Outcome
    <2>2. /\ BeginTerminal(o, t) /\ ~terminalInProgress[o] /\ ~IsTerminal(o)
          /\ UNCHANGED <<claimed, arbiter>>
      BY <1>12 DEF FinishLegacy, IsTerminal, Terminal
    <2> HIDE DEF t
    <2>3. QED
      BY <1>b, <1>f, <2>1, <2>2
  <1>13. ASSUME NEW e \in Evidence, NEW c \in Candidate, Claim(o, e, c)
         PROVE  KeepsOn(o)
    <2> DEFINE t == [NoTxn EXCEPT
                       !.pc = IF c = "Cancellation" THEN "cancelling"
                                                    ELSE "claimed",
                       !.primary = c, !.evidence = e, !.by = "primary"]
    <2>1. t \in Txns
      BY DEF NoTxn, Txns, Outcome
    <2>2. BeginTerminal(o, t) /\ arbiter[o].winner = "none" /\ Owned(o)
      BY <1>13 DEF Claim
    <2>3. txn[o].pc = "idle"
      BY <1>i, <1>a, <2>2 DEF OpInv, OwnerInv, PhaseInv
    <2>4. arbiter'[o].joined = arbiter[o].joined
      BY <1>13, <1>a DEF Claim, Arbiters
    <2>5. claimed'[o].state = "Held"
      BY <1>13, <1>a DEF Claim
    <2> HIDE DEF t
    <2>6. QED
      BY <1>b, <2>1, <2>2, <2>3, <2>4, <2>5
  <1>14. ASSUME NEW e \in Evidence, NEW c \in Candidate, Reclaim(o, e, c)
         PROVE  KeepsOn(o)
    <2>1. claimed'[o].state = "Held"
      BY <1>14, <1>a DEF Reclaim, Claims
    <2>2. QED
      BY <1>14, <1>k, <2>1 DEF Reclaim
  <1>15. ASSUME NEW e \in Evidence, NEW c \in Candidate,
                RecordForHandoff(o, e, c)
         PROVE  KeepsOn(o)
    BY <1>15, <1>k DEF RecordForHandoff
  <1>16. ASSUME NEW d \in Outcome, FinishClaimed(o, d) PROVE KeepsOn(o)
    <2>1. txn'[o].pc = "cleanup" /\ UNCHANGED arbiter
      BY <1>16, <1>a DEF FinishClaimed, Txns
    <2>2. QED
      BY <2>1 DEF KeepsOn, RunsOn, Begun
  <1>17. CASE AbandonClaimed(o)
    <2>1. claimed'[o].state = "Abandoned"
      BY <1>17, <1>a DEF AbandonClaimed, Claims
    <2>2. QED
      BY <1>17, <1>k, <2>1 DEF AbandonClaimed
  <1>18. CASE BindOwnerTask(o)
    BY <1>18, <1>k DEF BindOwnerTask
  <1>19. CASE SettleAfterOwnerJoin(o)
    <2> DEFINE t == [NoTxn EXCEPT
                       !.pc = IF record[o].candidate = "Cancellation"
                              THEN "cancelling" ELSE "cleanup",
                       !.primary = record[o].candidate,
                       !.evidence = record[o].evidence, !.by = "transfer"]
    <2>1. t \in Txns
      <3>1. record[o] \in Records
        BY <1>i DEF TypeOK
      <3>2. QED
        BY <3>1 DEF NoTxn, Txns, Outcome, Records
    <2>2. /\ BeginTerminal(o, t) /\ ~terminalInProgress[o] /\ ~IsTerminal(o)
          /\ UNCHANGED claimed
      BY <1>19 DEF SettleAfterOwnerJoin, FallbackAllowed
    <2>3. arbiter'[o].joined = arbiter[o].joined
      BY <1>19, <1>a DEF SettleAfterOwnerJoin, Arbiters
    <2> HIDE DEF t
    <2>4. QED
      BY <1>b, <1>f, <2>1, <2>2, <2>3
  <1>20. QED
    BY <1>1, <1>2, <1>3, <1>4, <1>5, <1>6, <1>7, <1>8, <1>9, <1>10, <1>11,
       <1>12, <1>13, <1>14, <1>15, <1>16, <1>17, <1>18, <1>19
       DEF Working, TerminalStep, DomainStep, CallStep

(* Whatever the Runtime does, every transaction that runs on does so, and the
   only mark is that of JoinMark.                                          *)
LEMMA OperationsKeepOn ==
  ASSUME CloseTypeOK, Inv, \A o \in Ops : FinishingInv(o), [CloseNext]_vars,
         NEW p \in Ops
  PROVE  /\ RunsOn(p) => RunsOn(p)'
         /\ FinishingInv(p)'
         /\ \/ arbiter'[p].joined = arbiter[p].joined
            \/ \E h \in Threads : JoinMark(h) /\ joining[h].task = p
  <1> DEFINE Goal == /\ RunsOn(p) => RunsOn(p)'
                     /\ FinishingInv(p)'
                     /\ \/ arbiter'[p].joined = arbiter[p].joined
                        \/ \E h \in Threads : JoinMark(h) /\ joining[h].task = p
  <1>t. TypeOK /\ FinishingInv(p)
    BY DEF Inv
  <1>k. ASSUME txn'[p] = txn[p], claimed'[p] = claimed[p],
               \/ arbiter'[p].joined = arbiter[p].joined
               \/ \E h \in Threads : JoinMark(h) /\ joining[h].task = p
        PROVE  Goal
    BY <1>t, <1>k DEF RunsOn, FinishingInv
  <1>w. ASSUME KeepsOn(p) PROVE Goal
    BY <1>w DEF KeepsOn, FinishingInv
  <1> HIDE DEF Goal
  <1>1. ASSUME UNCHANGED operationVars \/ CancelRoot PROVE Goal
    BY <1>1, <1>k DEF operationVars, CancelRoot
  <1>2. ASSUME NEW o \in Ops, Working(o) PROVE Goal
    <2>1. CASE o = p
      BY <1>t, <1>2, <1>w, <2>1, WorkingKeepsOn
    <2>2. CASE o # p
      <3>1. Step(o)
        BY <1>2 DEF Working, Step, SupervisorStep
      <3>2. Untouched(p)
        BY <1>t, <2>2, <3>1, OthersUntouched
      <3>3. QED
        BY <1>k, <3>2 DEF Untouched
    <2>3. QED
      BY <2>1, <2>2
  <1>3. ASSUME NEW h \in Threads, JoinMark(h), joining[h].task \in Ops,
               MarkOwnerTaskJoined(joining[h].task)
        PROVE  Goal
    <2>1. UNCHANGED <<txn, claimed>>
      BY <1>3 DEF MarkOwnerTaskJoined
    <2>2. joining[h].task # p => arbiter'[p] = arbiter[p]
      BY <1>3, <1>t DEF MarkOwnerTaskJoined, TypeOK
    <2>3. QED
      BY <1>3, <1>k, <2>1, <2>2
  <1>4. Goal
    BY <1>1, <1>2, <1>3, OperationSteps
  <1>5. QED
    BY <1>4 DEF Goal

(* What the joins leave of the mark of a task, and its handle. *)
JoinsKeep(t) == /\ task[t].handle # "Missing" => task'[t].handle # "Missing"
                /\ arbiter'[t].joined = arbiter[t].joined => MarkedInv(t)'

LEMMA StartKeepsMark ==
  ASSUME JoiningInv, NEW t \in Ops, MarkedInv(t),
         NEW h \in Threads, NEW u \in Ops, JoinStart(h, u)
  PROVE  JoinsKeep(t)
  <1>1. /\ task \in [Ops -> Tasks] /\ joining \in [Threads -> Joining]
        /\ TaskInv(t) /\ JoinInv(h) /\ joining[h].pc = "idle"
    BY DEF JoiningInv, TaskTypeOK, JoinStart, Idle
  <1>2. /\ task'[t].handle = task[t].handle /\ task'[t].linked = task[t].linked
        /\ task'[t].gate = IF t = u THEN h ELSE task[t].gate
    BY <1>1 DEF JoinStart, Tasks
  <1>3. /\ joining'[h].pc = "wait"
        /\ \A g \in Threads \ {h} : joining'[g] = joining[g]
    BY <1>1 DEF JoinStart
  <1>4. task[t].gate # h /\ task[t].gate \in Threads \cup {"none"}
    BY <1>1, Markers DEF TaskInv, Tasks
  <1>5. QED
    BY <1>2, <1>3, <1>4, Markers DEF JoinsKeep, MarkedInv

LEMMA StepKeepsMark ==
  ASSUME JoiningInv, NEW t \in Ops, MarkedInv(t), NEW h \in Threads, JoinStep(h)
  PROVE  /\ JoinsKeep(t)
         /\ JoinMark(h) /\ joining[h].task = t => MarkedInv(t)'
  <1>1. /\ task \in [Ops -> Tasks] /\ joining \in [Threads -> Joining]
        /\ TaskInv(t) /\ JoinInv(h) /\ joining[h] \in Joining /\ task[t] \in Tasks
        /\ joining[h].pc # "idle"
    BY DEF JoiningInv, TaskTypeOK, JoinStep, JoinClaim, JoinThread, JoinUnlink,
           JoinMark
  <1>2. PICK u \in Ops : u = joining[h].task
    BY <1>1 DEF JoinInv, Joining
  <1>3. task[u].gate = h
    BY <1>1, <1>2 DEF JoinInv
  <1>4. ASSUME t # u, task'[t] = task[t],
               \A g \in Threads \ {h} : joining'[g] = joining[g]
        PROVE  JoinsKeep(t) /\ joining[h].task # t
    <2>1. task[t].gate # h
      BY <1>1, <1>2, <1>4, Markers DEF TaskInv
    <2>2. task[t].gate \in Threads \cup {"none"}
      BY <1>1 DEF Tasks
    <2>3. QED
      BY <1>2, <1>4, <2>1, <2>2 DEF JoinsKeep, MarkedInv
  <1>5. CASE t # u
    <2>1. task'[t] = task[t] /\ \A g \in Threads \ {h} : joining'[g] = joining[g]
      BY <1>1, <1>2, <1>5
         DEF JoinStep, JoinClaim, JoinThread, JoinUnlink, JoinMark
    <2>2. QED
      BY <1>4, <1>5, <2>1
  <1>6. CASE t = u
    <2>1. CASE JoinClaim(h)
      <3>1. CASE task[t].linked
        <4>1. task'[t].handle = "Joining"
          BY <1>1, <1>2, <1>6, <2>1, <3>1 DEF JoinClaim, Tasks
        <4>2. ~arbiter[t].joined
          BY <3>1 DEF MarkedInv
        <4>3. joining[h].pc = "wait"
          BY <2>1 DEF JoinClaim
        <4>4. QED
          BY <4>1, <4>2, <4>3 DEF JoinsKeep, MarkedInv, JoinMark
      <3>2. CASE ~task[t].linked
        <4>1. /\ task'[t].handle = task[t].handle
              /\ task'[t].linked = task[t].linked /\ task'[t].gate = "none"
          BY <1>1, <1>2, <1>6, <2>1, <3>2 DEF JoinClaim, Tasks
        <4>2. joining[h].pc = "wait"
          BY <2>1 DEF JoinClaim
        <4>3. QED
          BY <4>1, <4>2 DEF JoinsKeep, MarkedInv, JoinMark
      <3>3. QED
        BY <3>1, <3>2
    <2>2. CASE JoinThread(h) \/ JoinUnlink(h)
      <3>1. /\ joining[h].pc \in {"thread", "unlink"}
            /\ task'[t].handle = "Joined" \/ task'[t].handle = task[t].handle
        BY <1>1, <1>2, <1>6, <2>2 DEF JoinThread, JoinUnlink, Tasks
      <3>2. ~arbiter[t].joined
        BY <1>1, <1>2, <1>6, <3>1 DEF JoinInv, MarkedInv
      <3>3. QED
        BY <3>1, <3>2 DEF JoinsKeep, MarkedInv, JoinMark
    <2>3. CASE JoinMark(h)
      <3>1. /\ task'[t].handle = task[t].handle
            /\ task'[t].linked = task[t].linked /\ task'[t].gate = "none"
        BY <1>1, <1>2, <1>6, <2>3 DEF JoinMark, Tasks
      <3>2. task[t].handle = "Joined" /\ ~task[t].linked
        <4>1. ~task[t].linked /\ task[t].gate # "none"
          BY <1>1, <1>2, <1>3, <1>6, <2>3, Markers DEF JoinMark, JoinInv
        <4>2. QED
          BY <1>1, <4>1 DEF TaskInv, NoTask
      <3>3. QED
        BY <3>1, <3>2 DEF JoinsKeep, MarkedInv
    <2>4. QED
      BY <2>1, <2>2, <2>3 DEF JoinStep
  <1>7. QED
    BY <1>5, <1>6

(* Whatever the Runtime does, no task is marked twice. *)
LEMMA MarkedInvNext ==
  ASSUME CloseTypeOK, Inv, JoiningInv, \A o \in Ops : FinishingInv(o),
         [CloseNext]_vars, NEW t \in Ops, MarkedInv(t)
  PROVE  /\ MarkedInv(t)'
         /\ task[t].handle # "Missing" => task'[t].handle # "Missing"
  <1> DEFINE Goal == JoinsKeep(t)
  <1>u. ASSUME UNCHANGED <<task, joining>> PROVE Goal
    BY <1>u DEF JoinsKeep, MarkedInv
  <1> HIDE DEF Goal
  <1>t. task \in [Ops -> Tasks] /\ task[t] \in Tasks
    BY DEF JoiningInv, TaskTypeOK
  <1>1. ASSUME NEW o \in Ops, SpawnTask(o) PROVE Goal
    <2>1. CASE o = t
      <3>1. task'[t].handle = "Retained" /\ ~arbiter[t].joined
        BY <1>t, <1>1, <2>1 DEF SpawnTask, NoTask, MarkedInv
      <3>2. QED
        BY <3>1 DEF Goal, JoinsKeep, MarkedInv
    <2>2. CASE o # t
      <3>1. task'[t] = task[t] /\ UNCHANGED joining
        BY <1>t, <1>1, <2>2 DEF SpawnTask
      <3>2. QED
        BY <3>1 DEF Goal, JoinsKeep, MarkedInv
    <2>3. QED
      BY <2>1, <2>2
  <1>2. ASSUME NEW o \in Ops, NEW b \in Over, CompleteBody(o, b) PROVE Goal
    <2>1. /\ task'[t].handle = task[t].handle /\ task'[t].gate = task[t].gate
          /\ task'[t].linked = task[t].linked /\ UNCHANGED joining
      BY <1>t, <1>2 DEF CompleteBody, Tasks
    <2>2. QED
      BY <2>1 DEF Goal, JoinsKeep, MarkedInv
  <1>3. ASSUME NEW h \in Joiners, NEW o \in Ops, ExplicitJoin(h, o) PROVE Goal
    BY <1>3, StartKeepsMark, Markers DEF ExplicitJoin, Goal
  <1>4. ASSUME NEW h \in Threads, JoinStep(h) PROVE Goal
    BY <1>4, StepKeepsMark DEF Goal
  <1>5. ASSUME NEW o \in Ops, JoinNext(o) PROVE Goal
    BY <1>5, StartKeepsMark, Markers DEF JoinNext, Goal
  <1>6. ASSUME NEW o \in Ops,
               \/ CreateOperation(o) \/ UseOperation(o) \/ FinishOperation(o)
               \/ RequestParentClose(o) \/ SkipOperation(o)
               \/ SettleOperation(o) \/ ObserveOperation(o) \/ LoseOperation(o)
        PROVE  Goal
    BY <1>6, <1>u
       DEF CreateOperation, UseOperation, FinishOperation, RequestParentClose,
           SkipOperation, SettleOperation, ObserveOperation, LoseOperation,
           closeVars
  <1>7. ASSUME NEW r \in Resources,
               \/ RegisterResource(r) \/ UnregisterResource(r)
               \/ DropResource(r) \/ \E ok \in BOOLEAN : CloseResource(r, ok)
        PROVE  Goal
    BY <1>7, <1>u DEF RegisterResource, UnregisterResource, DropResource,
                      CloseResource
  <1>8. ASSUME \/ WorkerPanics \/ DropLastHandle
               \/ \E c \in Closers : CallClose(c)
        PROVE  Goal
    BY <1>8, <1>u DEF WorkerPanics, DropLastHandle, CallClose
  <1>9. ASSUME NEW ok \in BOOLEAN,
               Announce(ok) \/ StopWorker(ok) \/ PublishClosed(ok)
        PROVE  Goal
    BY <1>9, <1>u DEF Announce, StopWorker, PublishClosed
  <1>10. ASSUME \/ CancelRoot \/ SnapshotOperations \/ SnapshotResources
                \/ SnapshotTasks \/ TasksJoined \/ OperationSettled
         PROVE  Goal
    BY <1>10, <1>u DEF CancelRoot, SnapshotOperations, SnapshotResources,
                       SnapshotTasks, TasksJoined, OperationSettled
  <1>11. ASSUME \/ Converge \/ PublishFailed \/ Complete \/ NotifyClosers
                \/ UNCHANGED vars
         PROVE  Goal
    BY <1>11, <1>u DEF Converge, PublishFailed, Complete, NotifyClosers,
                       vars, closeVars
  <1>12. Goal
    BY <1>1, <1>2, <1>3, <1>4, <1>5, <1>6, <1>7, <1>8, <1>9, <1>10, <1>11
       DEF CloseNext, CloseStep, Over
  <1>13. \/ arbiter'[t].joined = arbiter[t].joined
         \/ \E h \in Threads : JoinMark(h) /\ joining[h].task = t
    BY OperationsKeepOn
  <1>14. ASSUME NEW h \in Threads, JoinMark(h), joining[h].task = t
         PROVE  MarkedInv(t)'
    BY <1>14, StepKeepsMark DEF JoinStep
  <1>15. QED
    BY <1>12, <1>13, <1>14 DEF Goal, JoinsKeep

(* What close has left stays feasible: one case per step that ends its work
   on one list and takes up another.                                       *)
LEMMA LeftInvNext ==
  ASSUME CloseTypeOK, Inv, JoiningInv, ThreadInv, LeftInv, [CloseNext]_vars,
         \A o \in Ops : FinishingInv(o), \A t \in Ops : MarkedInv(t)
  PROVE  LeftInv'
  <1>t. /\ RestTypeOK /\ OperationsInv /\ created \subseteq Ops
        /\ close \in [pc : CloseSteps, first : Phases \cup {"none"},
                      todo : SUBSET (Ops \cup Resources), ops : SUBSET Ops,
                      op : Ops \cup {"none"}]
    BY DEF ThreadInv, RestTypeOK
  <1>h. \A t \in Ops : task[t].handle # "Missing" => task'[t].handle # "Missing"
    BY MarkedInvNext
  <1>r. \A o \in Ops : RunsOn(o) => RunsOn(o)'
    BY OperationsKeepOn
  <1>g. ASSUME NEW o \in Ops, close'.op = o, RunsOn(o)',
               close'.pc \in {"settling", "observing"}
        PROVE  LeftInv'
    BY <1>g DEF LeftInv, RunsOn
  <1>c. ASSUME close'.pc = close.pc, close'.op = close.op,
               close'.todo \subseteq close.todo
        PROVE  LeftInv'
    <2>1. CASE close.pc \in {"settling", "observing"}
      <3>1. PICK o \in Ops : o = close.op
        BY <1>t, <2>1 DEF OperationsInv
      <3>2. RunsOn(o)
        BY <2>1, <3>1 DEF LeftInv
      <3>3. QED
        BY <1>c, <1>g, <1>r, <2>1, <3>1, <3>2
    <2>2. CASE close.pc \notin {"settling", "observing"}
      BY <1>c, <1>h, <2>2 DEF LeftInv
    <2>3. QED
      BY <2>1, <2>2
  <1>o. ASSUME close'.pc \notin {"request", "cleanup", "join", "settling",
                                 "observing"}
        PROVE  LeftInv'
    BY <1>o DEF LeftInv
  <1>1. ASSUME CloseStep PROVE LeftInv'
    <2>1. ASSUME NEW ok \in BOOLEAN,
                 Announce(ok) \/ StopWorker(ok) \/ PublishClosed(ok)
          PROVE  LeftInv'
      <3>1. CASE Announce(ok)
        <4>1. close'.pc = "cancel"
          BY <1>t, <3>1 DEF Announce
        <4>2. QED
          BY <1>o, <4>1
      <3>2. CASE StopWorker(ok)
        <4>1. close'.pc \in {"converge", "failed"}
          BY <1>t, <3>2 DEF StopWorker
        <4>2. QED
          BY <1>o, <4>1
      <3>3. CASE PublishClosed(ok)
        <4>1. close'.pc \in {"complete", "failed"}
          BY <1>t, <3>3 DEF PublishClosed
        <4>2. QED
          BY <1>o, <4>1
      <3>4. QED
        BY <2>1, <3>1, <3>2, <3>3
    <2>2. ASSUME CancelRoot \/ TasksJoined \/ OperationSettled \/ Converge
          PROVE  LeftInv'
      <3>1. close'.pc \in {"operations", "settle", "closed", "failed"}
        BY <1>t, <2>2 DEF CancelRoot, TasksJoined, OperationSettled, Converge
      <3>2. QED
        BY <1>o, <3>1
    <2>3. ASSUME PublishFailed \/ Complete \/ NotifyClosers PROVE LeftInv'
      <3>1. close'.pc \in {"complete", "notify", "done"}
        BY <1>t, <2>3 DEF PublishFailed, Complete, NotifyClosers
      <3>2. QED
        BY <1>o, <3>1
    <2>4. ASSUME SnapshotOperations PROVE LeftInv'
      <3>1. close'.pc = "request" /\ close'.todo = LiveOperations
        BY <1>t, <2>4 DEF SnapshotOperations
      <3>2. QED
        BY <1>t, <3>1 DEF LeftInv, LiveOperations
    <2>5. ASSUME SnapshotResources PROVE LeftInv'
      <3>1. close'.pc = "cleanup" /\ close'.todo \subseteq Resources
        BY <1>t, <2>5 DEF SnapshotResources
      <3>2. QED
        BY <3>1 DEF LeftInv
    <2>6. ASSUME SnapshotTasks PROVE LeftInv'
      <3>1. close'.pc = "join" /\ close'.todo = LiveTasks /\ task' = task
        BY <1>t, <2>6 DEF SnapshotTasks
      <3>2. \A t \in LiveTasks : t \in Ops /\ task[t].handle # "Missing"
        BY DEF LiveTasks, JoiningInv, TaskInv, NoTask
      <3>3. QED
        BY <3>1, <3>2 DEF LeftInv
    <2>7. ASSUME NEW r \in Resources, NEW ok \in BOOLEAN, CloseResource(r, ok)
          PROVE  LeftInv'
      <3>1. /\ close'.pc = close.pc /\ close'.op = close.op
            /\ close'.todo \subseteq close.todo
        BY <1>t, <2>7 DEF CloseResource
      <3>2. QED
        BY <1>c, <3>1
    <2>8. ASSUME NEW o \in Ops,
                 RequestParentClose(o) \/ JoinNext(o) \/ SkipOperation(o)
          PROVE  LeftInv'
      <3>1. /\ close'.pc = close.pc /\ close'.op = close.op
            /\ close'.todo \subseteq close.todo
        BY <1>t, <2>8 DEF RequestParentClose, JoinNext, SkipOperation
      <3>2. QED
        BY <1>c, <3>1
    <2>9. ASSUME NEW o \in Ops, LoseOperation(o) PROVE LeftInv'
      <3>1. close'.pc = "settle"
        BY <1>t, <2>9 DEF LoseOperation
      <3>2. QED
        BY <1>o, <3>1
    <2>i. \A o \in Ops : /\ txn[o] \in Txns /\ record[o] \in Records
                         /\ PhaseInv(o) /\ ClaimInv(o) /\ CancelInv(o)
                         /\ FinishingInv(o)
      BY DEF Inv, TypeOK, OpInv
    <2>10. ASSUME NEW o \in Ops, SettleOperation(o) PROVE LeftInv'
      <3>1. close'.op = o /\ close'.pc = "settling"
        BY <1>t, <2>10 DEF SettleOperation
      <3>2. PICK t : /\ BeginTerminal(o, t) /\ t.pc \in {"cancelling", "cleanup"}
                     /\ t.pc = "cancelling" => t.by = "transfer"
        <4>1. CASE SettleAfterOwnerJoin(o)
          <5> DEFINE t == [NoTxn EXCEPT
                             !.pc = IF record[o].candidate = "Cancellation"
                                    THEN "cancelling" ELSE "cleanup",
                             !.primary = record[o].candidate,
                             !.evidence = record[o].evidence, !.by = "transfer"]
          <5>1. t.pc \in {"cancelling", "cleanup"} /\ t.by = "transfer"
            BY DEF NoTxn
          <5>2. BeginTerminal(o, t)
            BY <4>1 DEF SettleAfterOwnerJoin
          <5> HIDE DEF t
          <5>3. QED
            BY <5>1, <5>2
        <4>2. CASE FinishLegacy(o, "Cancellation")
          <5> DEFINE t == [NoTxn EXCEPT !.pc = "cleanup",
                             !.primary = "Cancellation", !.by = "legacy"]
          <5>1. t.pc = "cleanup"
            BY DEF NoTxn
          <5>2. BeginTerminal(o, t)
            BY <4>2 DEF FinishLegacy
          <5> HIDE DEF t
          <5>3. QED
            BY <5>1, <5>2
        <4>3. QED
          BY <2>10, <4>1, <4>2 DEF SettleOperation
      <3>3. txn'[o] = t
        BY <3>2 DEF BeginTerminal, Inv, TypeOK
      <3>4. QED
        BY <1>g, <3>1, <3>2, <3>3 DEF RunsOn, Begun
    <2>11. ASSUME NEW o \in Ops, ObserveOperation(o) PROVE LeftInv'
      <3>1. close'.op = o /\ close'.pc = "observing"
        BY <1>t, <2>11 DEF ObserveOperation
      <3>2. txn[o].pc \in InTxn /\ (Owned(o) => claimed[o].state = "Finishing")
        BY <2>i, <2>11 DEF ObserveOperation, BeingFinished, PhaseInv
      <3>3. txn[o].pc \in Begun
        <4>1. CASE Owned(o)
          BY <2>i, <3>2, <4>1 DEF FinishingInv
        <4>2. CASE ~Owned(o)
          <5>1. txn[o].pc \notin {"cancelling", "announce"}
            BY <2>i, <4>2 DEF CancelInv
          <5>2. txn[o].pc # "claimed"
            <6>1. txn[o].by = "legacy"
              BY <2>i, <3>2, <4>2 DEF Inv, OpInv, OwnerInv, InTxn
            <6>2. QED
              BY <2>i, <6>1 DEF ClaimInv
          <5>3. QED
            BY <3>2, <5>1, <5>2 DEF InTxn, Begun
        <4>3. QED
          BY <4>1, <4>2
      <3>4. RunsOn(o)'
        BY <1>r, <3>3 DEF RunsOn
      <3>5. QED
        BY <1>g, <3>1, <3>4
    <2>12. QED
      BY <1>1, <2>1, <2>2, <2>3, <2>4, <2>5, <2>6, <2>7, <2>8, <2>9, <2>10,
         <2>11 DEF CloseStep
  <1>2. ASSUME NEW c \in Closers, CallClose(c) PROVE LeftInv'
    <2>1. close' = close \/ close'.pc = "announce"
      BY <1>t, <1>2 DEF CallClose
    <2>2. QED
      BY <1>c, <1>o, <2>1
  <1>3. QED
    BY <1>1, <1>2, <1>c, StepElsewhere DEF Elsewhere

(* Whoever calls close while it is under way is told when it ends. *)
LEMMA CallerInvNext ==
  ASSUME JoiningInv, ThreadInv, CallerInv, [CloseNext]_vars
  PROVE  CallerInv'
  <1>t. /\ RestTypeOK /\ AdmissionInv
        /\ closer \in [Closers -> {"idle", "waiting", "owner", "returned"}]
        /\ close \in [pc : CloseSteps, first : Phases \cup {"none"},
                      todo : SUBSET (Ops \cup Resources), ops : SUBSET Ops,
                      op : Ops \cup {"none"}]
    BY DEF ThreadInv, RestTypeOK
  <1>a. close \in [pc : CloseSteps, first : Phases \cup {"none"},
                   todo : SUBSET (Ops \cup Resources), ops : SUBSET Ops,
                   op : Ops \cup {"none"}]
    BY <1>t
  <1>1. ASSUME closer' = closer, close'.pc = close.pc
               \/ close'.pc \notin {"idle", "done"}
        PROVE  CallerInv'
    BY <1>1 DEF CallerInv
  <1>2. ASSUME CloseStep PROVE CallerInv'
    <2>1. CASE NotifyClosers
      BY <1>t, <2>1 DEF NotifyClosers, CallerInv
    <2>2. ASSUME NEW ok \in BOOLEAN,
                 Announce(ok) \/ StopWorker(ok) \/ PublishClosed(ok)
          PROVE  CallerInv'
      <3>1. CASE Announce(ok)
        <4>1. close'.pc = "cancel" /\ closer' = closer
          BY <1>t, <3>1 DEF Announce
        <4>2. QED
          BY <1>1, <4>1
      <3>2. CASE StopWorker(ok)
        <4>1. close'.pc \in {"converge", "failed"}
          BY <1>a, <3>2 DEF StopWorker
        <4>2. closer' = closer
          BY <3>2 DEF StopWorker
        <4>3. QED
          BY <1>1, <4>1, <4>2
      <3>3. CASE PublishClosed(ok)
        <4>1. close'.pc \in {"complete", "failed"}
          BY <1>a, <3>3 DEF PublishClosed
        <4>2. closer' = closer
          BY <3>3 DEF PublishClosed
        <4>3. QED
          BY <1>1, <4>1, <4>2
      <3>4. QED
        BY <2>2, <3>1, <3>2, <3>3
    <2>3. ASSUME \/ CancelRoot \/ TasksJoined \/ OperationSettled \/ Converge
                 \/ PublishFailed \/ Complete
          PROVE  CallerInv'
      <3>1. close'.pc \notin {"idle", "done"} /\ closer' = closer
        BY <1>t, <2>3 DEF CancelRoot, TasksJoined, OperationSettled, Converge,
                          PublishFailed, Complete
      <3>2. QED
        BY <1>1, <3>1
    <2>4. ASSUME SnapshotOperations \/ SnapshotResources \/ SnapshotTasks
          PROVE  CallerInv'
      <3>1. close'.pc \notin {"idle", "done"} /\ closer' = closer
        BY <1>t, <2>4 DEF SnapshotOperations, SnapshotResources, SnapshotTasks
      <3>2. QED
        BY <1>1, <3>1
    <2>5. ASSUME NEW r \in Resources, NEW ok \in BOOLEAN, CloseResource(r, ok)
          PROVE  CallerInv'
      <3>1. close'.pc = close.pc /\ closer' = closer
        BY <1>t, <2>5 DEF CloseResource
      <3>2. QED
        BY <1>1, <3>1
    <2>6. ASSUME NEW o \in Ops,
                 \/ RequestParentClose(o) \/ JoinNext(o) \/ SkipOperation(o)
                 \/ SettleOperation(o) \/ ObserveOperation(o)
                 \/ LoseOperation(o)
          PROVE  CallerInv'
      <3>1. /\ close'.pc \in {"request", "join", "settle", "settling", "observing"}
            /\ closer' = closer
        BY <1>t, <2>6 DEF RequestParentClose, JoinNext, SkipOperation,
                          SettleOperation, ObserveOperation, LoseOperation
      <3>2. QED
        BY <1>1, <3>1
    <2>7. QED
      BY <1>2, <2>1, <2>2, <2>3, <2>4, <2>5, <2>6 DEF CloseStep
  <1>3. ASSUME NEW c \in Closers, CallClose(c) PROVE CallerInv'
    <2>1. CASE close.pc = "idle" /\ close'.pc = "announce"
      BY <2>1 DEF CallerInv
    <2>2. CASE close' = close
      <3>1. \/ closer' = [closer EXCEPT ![c] = "waiting"]
               /\ close.pc # "idle" /\ runtimeState = "Closing"
            \/ closer' = [closer EXCEPT ![c] = "returned"]
        BY <1>t, <1>3, <2>2 DEF CallClose
      <3>2. runtimeState = "Closing" => close.pc # "done"
        BY <1>t DEF AdmissionInv
      <3>3. QED
        BY <1>t, <2>2, <3>1, <3>2 DEF CallerInv
    <2>3. QED
      BY <1>t, <1>3, <2>1, <2>2 DEF CallClose
  <1>4. QED
    BY <1>1, <1>2, <1>3, StepElsewhere DEF Elsewhere

(* Everybody who waits during close has somebody to wait for: a transaction
   that runs on, a task with a handle to join, the close thread.           *)
THEOREM CloseWaitsHaveReasons == CloseSpec => []WaitInv
  <1>1. CloseInit => WaitInv
    BY DEF CloseInit, Init, WaitInv, FinishingInv, MarkedInv, LeftInv,
           CallerInv, NoClaim, NewArbiter, NewClose
  <1>2. CloseInv /\ WaitInv /\ [CloseNext]_vars => WaitInv'
    <2> SUFFICES ASSUME CloseInv, WaitInv, [CloseNext]_vars PROVE WaitInv'
      OBVIOUS
    <2>1. CloseTypeOK /\ Inv /\ JoiningInv /\ ThreadInv
      BY Parts DEF CloseInv
    <2>2. \A o \in Ops : FinishingInv(o)'
      BY <2>1, OperationsKeepOn DEF WaitInv
    <2>3. \A t \in Ops : MarkedInv(t)'
      BY <2>1, MarkedInvNext DEF WaitInv
    <2>4. LeftInv' /\ CallerInv'
      BY <2>1, LeftInvNext, CallerInvNext DEF WaitInv
    <2>5. QED
      BY <2>2, <2>3, <2>4 DEF WaitInv
  <1>3. QED
    BY <1>1, <1>2, CloseInvariance, PTL DEF CloseSpec

(* A joining thread can go on, or the body it waits for is running, or the
   terminal write it waits for can be finished.                            *)
LEMMA JoinersGoOn ==
  ASSUME Inv, JoiningInv, \A t \in Ops : MarkedInv(t),
         NEW h \in Threads, joining[h].pc # "idle"
  PROVE  SomebodyMoves
  <1>1. /\ joining[h] \in Joining /\ JoinInv(h)
        /\ \A t \in Ops : task[t] \in Tasks /\ TaskInv(t)
    BY DEF JoiningInv, TaskTypeOK
  <1>2. PICK t \in Ops : t = joining[h].task
    BY <1>1 DEF JoinInv, Joining
  <1>3. task[t].gate = h /\ task[t].body # "absent"
    BY <1>1, <1>2, Markers DEF JoinInv, TaskInv, NoTask
  <1>4. CASE joining[h].pc = "wait"
    <2>1. task[t].body \in {"running", "Completed", "Panicked"}
      BY <1>1, <1>3 DEF Tasks, Bodies
    <2>2. QED
      BY <1>2, <1>4, <2>1 DEF SomebodyMoves, JoinMoves, OperationMoves
  <1>5. CASE joining[h].pc \in {"thread", "unlink"}
    BY <1>5 DEF SomebodyMoves, JoinMoves
  <1>6. CASE joining[h].pc = "mark"
    <2>1. ~arbiter[t].joined
      BY <1>3, <1>6, Markers DEF MarkedInv
    <2>2. CASE Locked(t)
      BY <2>2 DEF SomebodyMoves, OperationMoves, Locked
    <2>3. CASE ~Locked(t)
      BY <1>2, <1>6, <2>1, <2>3 DEF SomebodyMoves, JoinMoves
    <2>4. QED
      BY <2>2, <2>3
  <1>7. QED
    BY <1>1, <1>4, <1>5, <1>6 DEF Joining

(* close returns to everybody who called it: as long as one waits, the close
   thread, a joining thread, a task body or a transaction can go on.       *)
THEOREM NobodyWaitsForClose == CloseSpec => []CloseReturns
  <1>1. ASSUME CloseInv, WaitInv, ~SomebodyMoves,
               NEW c \in Closers, closer[c] \notin {"idle", "returned"}
        PROVE  FALSE
    <2>1. /\ Inv /\ JoiningInv /\ RestTypeOK /\ CloseJoinInv /\ OperationsInv
          /\ LeftInv /\ close.pc \in CloseSteps
          /\ \A t \in Ops : MarkedInv(t)
      BY <1>1, Parts DEF WaitInv, ThreadInv, RestTypeOK
    <2>2. close.pc \notin {"idle", "done"}
      BY <1>1 DEF WaitInv, CallerInv, CloseInv, CloseTypeOK
    <2>3. ~CloseMoves /\ \A o \in Ops : ~OperationMoves(o)
      BY <1>1 DEF SomebodyMoves
    <2>4. \A h \in Threads : joining[h].pc = "idle"
      BY <1>1, <2>1, JoinersGoOn
    <2>5. close.pc \in {"request", "cleanup", "join", "settle", "settling",
                        "observing"}
      BY <2>1, <2>2, <2>3 DEF CloseMoves, CloseSteps
    <2>6. \A o \in Ops : ~Locked(o)
      BY <2>3 DEF OperationMoves, Locked
    <2>7. CASE close.pc \in {"request", "settle"}
      <3>1. close.todo \subseteq Ops /\ close.todo # {}
        BY <2>1, <2>3, <2>7
           DEF CloseMoves, LeftInv, OperationsInv, RestTypeOK, Settling
      <3>2. QED
        BY <2>3, <2>6, <2>7, <3>1 DEF CloseMoves
    <2>8. CASE close.pc = "cleanup"
      BY <2>1, <2>3, <2>8 DEF CloseMoves, LeftInv
    <2>9. CASE close.pc = "join"
      <3>1. joining["close"] = Idle
        <4>1. joining["close"] \in Joining /\ JoinInv("close")
          BY <2>1, Markers DEF JoiningInv, TaskTypeOK
        <4>2. QED
          BY <2>4, <4>1, Markers DEF Joining, JoinInv, Idle
      <3>2. PICK t \in close.todo : TRUE
        BY <2>3, <2>9, <3>1 DEF CloseMoves
      <3>3. t \in Ops /\ task[t].handle # "Missing"
        BY <2>1, <2>9 DEF LeftInv
      <3>4. task[t].gate = "none"
        <4>1. TaskInv(t) /\ task[t].gate \in Threads \cup {"none"}
          BY <2>1, <3>3 DEF JoiningInv, TaskTypeOK, Tasks
        <4>2. QED
          BY <2>4, <4>1 DEF TaskInv
      <3>5. QED
        BY <2>3, <2>9, <3>1, <3>3, <3>4 DEF CloseMoves
    <2>10. CASE close.pc \in {"settling", "observing"}
      <3>1. PICK o \in Ops : o = close.op
        BY <2>1, <2>10 DEF OperationsInv
      <3>2. RunsOn(o)
        BY <2>1, <2>10, <3>1 DEF LeftInv
      <3>3. txn[o].pc # "cancelling"
        BY <2>1, <2>3 DEF Inv, OpInv, CancelInv, OperationMoves
      <3>4. txn[o].pc = "done"
        BY <2>3, <3>2, <3>3 DEF RunsOn, Begun, Ended, OperationMoves
      <3>5. QED
        BY <2>3, <2>10, <3>1, <3>4 DEF CloseMoves
    <2>11. QED
      BY <2>5, <2>7, <2>8, <2>9, <2>10
  <1>2. CloseInv /\ WaitInv => CloseReturns
    BY <1>1 DEF CloseReturns
  <1>3. QED
    BY <1>2, CloseInvariance, CloseWaitsHaveReasons, PTL
=============================================================================
