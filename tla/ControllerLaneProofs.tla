-------------------------- MODULE ControllerLaneProofs --------------------------
(***************************************************************************)
(* Proofs about ControllerLane for any actions, any subset of them          *)
(* submitted through the lease, any interval and any number of failures.   *)
(*                                                                         *)
(* A step touches the records of many actions at once, so the proof first  *)
(* says what a step does to one of them: it keeps it, it takes its owner   *)
(* and gives it a last outcome (OwnersSettled), or it carries the one      *)
(* whose report the lane has in its hands a step further (Reported). Then   *)
(* the parts of the invariant follow one after the other: where the lane   *)
(* is and what it holds (LaneInv), what a permanent failure leaves         *)
(* (FailInv), what is queued (QueueInv), the record under way (ServingInv), *)
(* each action's record, operation and settler (RecordInv), the sealed      *)
(* generation (GenInv), its release (ReleaseInv) and the pace (PaceInv).   *)
(*                                                                         *)
(* That nobody is left waiting rests on a second invariant (WaitInv), which *)
(* says for whoever waits who is to answer: an action whose owner is in the *)
(* record is in the lane's queue, in its hands or on the way to it          *)
(* (AttendedInv, DrainInv), the close that joins has sent its command       *)
(* (CommandInv), the lane knows of the release (ToldInv), and a lane that   *)
(* sleeps without a timer is woken when the last action of the lease is     *)
(* settled (SleepInv, KnownInv).                                            *)
(***************************************************************************)
EXTENDS ControllerLane, SequenceTheorems, FiniteSetTheorems,
        WellFoundedInduction, TLAPS

-----------------------------------------------------------------------------
(* An action is known to the lane once its command was sent.                 *)
Known(a) == sub[a] \notin {"idle", "reserved", "created"}

(* Places of a submission that was turned away. *)
Turning == {"refuse", "reject", "wakeRefused", "refused"}

(* The lane has the report of an action in its hands, and nobody else may    *)
(* settle it any more.                                                       *)
Serving == {"mark", "write", "accepted", "claiming", "claimed"}
Reporting == lane.pc \in Serving /\ lane.cur.kind = "report"
Effective == {"reserved", "claiming", "claimed"}

(* The lane's place tells what it holds and whether it is closing; after a   *)
(* permanent failure it holds nothing it could still write.                  *)
Closes == {"collect", "wait", "closeStream", "closeFailed", "closeSettle"}

LaneInv ==
  /\ lane.pc \in {"mark", "accepted", "claiming", "claimed"} => lane.cur.kind = "report"
  /\ lane.pc = "write" => lane.cur.kind \in {"report", "neutral", "release", "close"}
  /\ lane.pc = "released" => lane.cur.kind = "release"
  /\ lane.pc \in Closes => lane.closing
  /\ lane.pc \in {"write", "failing"} /\ lane.cur.kind \in {"close", "stream"} => lane.closing
  /\ lane.closing => lane.pc \in Closes \union {"write", "released", "failing"}
  /\ lane.closing /\ lane.pc = "write" => lane.cur.kind \in {"release", "close"}
  /\ closer \in {"takeover", "done"} => ~LaneAlive
  /\ closer = "takeover" => lane.pc = "panicked"

FailInv ==
  /\ conn = "connected" => closer = "idle" /\ fail = "none" /\ ~lane.closing
  /\ lane.pc = "failing" \/ registry.projection # "none" \/ releaser.failure => fail # "none"
  /\ registry.settled => lane.pc = "ended"
  /\ fail # "none" /\ LaneAlive =>
       /\ ~stream
       /\ lane.pc # "failing" =>
            /\ pending = << >> /\ ~cleanup.on /\ lease = "none"
            /\ lane.pc \notin {"mark", "accepted", "claiming", "claimed", "released"}
            /\ lane.pc = "write" => lane.cur.kind = "close"

QueueInv ==
  /\ \A i \in DOMAIN inbox : inbox[i].k = "direct" => Known(inbox[i].a)
  /\ \A i \in DOMAIN pending : pending[i].kind = "report" => Known(pending[i].a)
  /\ Reporting => Known(lane.cur.a) /\ lane.cur.a \in Actions

(* Somebody took the owner out of the record and has yet to settle it.      *)
TakenBySeal(a) == releaser.pc = "finish" /\ releaser.cur = a
Taken(a) == sub[a] = "reject" \/ TakenBySeal(a)

(* An action's record, its operation and those who are to settle it.         *)
RecordInv(a) ==
  /\ ~rec[a].strict
  /\ op[a].outcome # "none" => rec[a].st \in {"finished", "failed"}
  /\ rec[a].st \in {"finished", "failed"} /\ op[a].outcome = "none" =>
       Taken(a)
  /\ Taken(a) =>
       rec[a].st = "finished" /\ op[a].outcome = "none"
  /\ ~(sub[a] = "reject" /\ TakenBySeal(a))
  /\ a \in accepted <=> rec[a].st \in Effective \/ op[a].outcome = "success"
  /\ rec[a].st \in Effective =>
       /\ fail = "none"
       /\ lane.pc = "panicked" \/ (lane.cur.a = a /\ lane.cur.kind = "report")
       /\ lane.pc = "panicked" => closer \notin {"takeover", "done"}
  /\ rec[a].st = "reserved" => lane.pc \in {"accepted", "panicked"}
  /\ rec[a].st = "claiming" => lane.pc = "claiming"
  /\ rec[a].st = "claimed" => lane.pc \in {"claimed", "panicked"}
  /\ a \in leased \/ sub[a] \in {"idle", "created", "refused", "done"}
  /\ sub[a] \in {"idle", "reserved"} => rec[a].st = "absent"
  /\ sub[a] = "created" => rec[a].st \in {"notDispatched", "finished", "failed"}
  /\ sub[a] \in {"created"} \union Turning => a \notin accepted
  /\ sub[a] \in Turning => rec[a].st \in {"absent", "finished", "failed"}

ServingInv ==
  /\ lane.pc = "write" /\ lane.cur.kind = "report" => rec[lane.cur.a].st = "outstanding"
  /\ lane.pc = "accepted" => rec[lane.cur.a].st = "reserved"
  /\ lane.pc = "claiming" => rec[lane.cur.a].st = "claiming"
  /\ lane.pc = "claimed" => rec[lane.cur.a].st = "claimed"
  /\ releaser.pc \in {"take", "finish"} => releaser.cur \in Actions

(* Nothing of the lease can be dispatched any more. *)
Dead(a) == sub[a] \in {"idle", "refuse", "wakeRefused", "refused"} \/ IsTerminal(a)

GenInv ==
  /\ gen.sealed <=> rel.st # "none"
  /\ gen.sealed <=> releaser.pc # "idle"
  /\ \A a \in leased :
       /\ sub[a] \in {"reject", "dispatched", "wakeDone", "done"} => a \in gen.actions
       /\ sub[a] = "refuse" => conn # "connected"
       /\ sub[a] = "wakeRefused" => IsTerminal(a) \/ conn # "connected"
  /\ rel.st \in {"outstanding", "gate", "committed"} =>
       lane.closing \/ ~LaneAlive \/ fail # "none" \/ \A a \in leased : Dead(a)

(* The command of the release is on its way to the lane, once.               *)
Begins == \E i \in DOMAIN inbox : inbox[i].k = "begin"
BeginsAlone ==
  \A i, j \in DOMAIN inbox : inbox[i].k = "begin" /\ inbox[j].k = "begin" => i = j

ReleaseInv ==
  /\ cleanup.on => rel.st = "undispatched" /\ releaser.pc = "done"
  /\ lane.pc = "write" /\ lane.cur.kind = "release" =>
       rel.st = "outstanding" /\ releaser.pc = "done"
  /\ lane.pc = "released" => rel.st = "gate" /\ releaser.pc = "done"
  /\ Begins => /\ releaser.pc = "done" /\ ~cleanup.on
               /\ rel.st = "undispatched" \/ fail # "none"
  /\ BeginsAlone
  /\ \/ lane.pc \in {"closeStream", "closeFailed", "closeSettle"}
     \/ lane.pc = "write" /\ lane.cur.kind = "close"
     => ~cleanup.on
  /\ releaser.pc \notin {"idle", "done"} =>
       rel.st = "undispatched" \/ fail # "none" \/ ~LaneAlive

PaceInv ==
  /\ early \subseteq {"release"}
  /\ lane.pc \in {"mark", "write"} /\ lane.cur.kind \in {"report", "neutral", "close"}
       => since = Interval
  /\ lane.pc = "wait" => since + lane.timer >= Interval

Inv == /\ TypeOK /\ LaneInv /\ FailInv /\ QueueInv /\ ServingInv
       /\ (\A a \in Actions : RecordInv(a))
       /\ GenInv /\ ReleaseInv /\ PaceInv
-----------------------------------------------------------------------------
(* A nonempty set of numbers has a least one. *)
LEMMA LeastNumber ==
  ASSUME NEW S \in SUBSET Nat, S # {}
  PROVE  \E m \in S : \A n \in S : m <= n
<1>1. PICK m \in S : \A n \in S : ~(<<n, m>> \in OpToRel(<, Nat))
  BY NatLessThanWellFounded, WFMin
<1>2. \A n \in S : ~(n < m)
  BY <1>1 DEF OpToRel
<1> QED
  BY <1>2

(* What is kept of a sequence was in it, in E, and no more often. *)
LEMMA KeptEntries ==
  ASSUME NEW S, NEW s \in Seq(S), NEW E
  PROVE  /\ Kept(s, E) \in Seq(S)
         /\ \E f \in [DOMAIN Kept(s, E) -> DOMAIN s] :
              /\ \A k \in DOMAIN Kept(s, E) : Kept(s, E)[k] = s[f[k]] /\ s[f[k]] \in E
              /\ \A k, l \in DOMAIN Kept(s, E) : f[k] = f[l] => k = l
<1> DEFINE n == Len(s)
           Hits(i) == {j \in 1..i : s[j] \in E}
           rank == [i \in 0..n |-> Cardinality(Hits(i))]
           At(k) == CHOOSE i \in DOMAIN s : s[i] \in E /\ rank[i] = k
           f == [k \in 1..rank[n] |-> At(k)]
<1>1. n \in Nat /\ DOMAIN s = 1..n /\ \A i \in 1..n : s[i] \in S
  BY LenProperties, ElementOfSeq
<1>2. \A i \in 0..n : IsFiniteSet(Hits(i))
  <2> TAKE i \in 0..n
  <2>1. IsFiniteSet(1..i)
    BY <1>1, FS_Interval
  <2> QED BY <2>1, FS_Subset
<1>3. rank[0] = 0
  <2>1. Hits(0) = {}
    OBVIOUS
  <2> QED BY <1>1, <2>1, FS_EmptySet
<1>4. \A i \in 0..n : rank[i] \in Nat
  BY <1>2, FS_CardinalityType
<1>5. \A i \in 1..n : rank[i] = IF s[i] \in E THEN rank[i - 1] + 1 ELSE rank[i - 1]
  <2> TAKE i \in 1..n
  <2>1. i - 1 \in 0..n /\ i \in 0..n /\ IsFiniteSet(Hits(i - 1)) /\ i \notin Hits(i - 1)
    BY <1>1, <1>2
  <2>2. CASE s[i] \in E
    <3>1. Hits(i) = Hits(i - 1) \union {i}
      BY <1>1, <2>2
    <3>2. Cardinality(Hits(i)) = Cardinality(Hits(i - 1)) + 1
      BY <2>1, <3>1, FS_AddElement
    <3> QED BY <2>1, <2>2, <3>2
  <2>3. CASE s[i] \notin E
    <3>1. Hits(i) = Hits(i - 1)
      BY <1>1, <2>3
    <3> QED BY <2>1, <2>3, <3>1
  <2> QED BY <2>2, <2>3
<1> HIDE DEF rank
<1>6. \A k \in 1..rank[n] : \E i \in DOMAIN s : s[i] \in E /\ rank[i] = k
  <2> TAKE k \in 1..rank[n]
  <2> DEFINE Reached == {i \in 0..n : rank[i] >= k}
  <2>1. n \in Reached /\ Reached \in SUBSET Nat
    BY <1>1, <1>4
  <2>2. PICK m \in Reached : \A i \in Reached : m <= i
    BY <2>1, LeastNumber
  <2>3. m \in 1..n /\ m - 1 \in 0..n
    BY <1>1, <1>3, <2>2
  <2>4. rank[m - 1] < k
    BY <1>4, <2>2, <2>3
  <2> QED BY <1>1, <1>4, <1>5, <2>2, <2>3, <2>4
<1>7. \A k \in 1..rank[n] : At(k) \in DOMAIN s /\ s[At(k)] \in E /\ rank[At(k)] = k
  BY <1>6
<1>8. Kept(s, E) = [k \in 1..rank[n] |-> s[At(k)]]
  BY DEF Kept, rank
<1> HIDE DEF At
<1>9. /\ rank[n] \in Nat /\ DOMAIN Kept(s, E) = 1..rank[n]
      /\ \A k \in 1..rank[n] : Kept(s, E)[k] = s[At(k)] /\ s[At(k)] \in S
  BY <1>1, <1>4, <1>7, <1>8
<1>10. Kept(s, E) \in Seq(S)
  <2>1. \A k \in 1..rank[n] : s[At(k)] \in S
    BY <1>9
  <2>2. [k \in 1..rank[n] |-> s[At(k)]] \in Seq(S)
    BY <1>9, <2>1, IsASeq
  <2> QED BY <1>8, <2>2
<1>11. /\ f \in [DOMAIN Kept(s, E) -> DOMAIN s]
       /\ \A k \in DOMAIN Kept(s, E) : Kept(s, E)[k] = s[f[k]] /\ s[f[k]] \in E
       /\ \A k, l \in DOMAIN Kept(s, E) : f[k] = f[l] => k = l
  BY <1>7, <1>9
<1> QED
  BY <1>10, <1>11

-----------------------------------------------------------------------------
(* What the settlements do to an action: nothing, or, if its owner is still  *)
(* in the record, they take it and give a last outcome.                      *)
Keep(a) == op'[a].outcome = op[a].outcome /\ rec'[a] = rec[a]
Close(a) ==
  /\ HasOwner(rec[a]) /\ rec'[a].strict = rec[a].strict
  /\ rec'[a].st \in {"finished", "failed"}
  /\ op'[a].outcome \in {"cancelled", "failed", "strict"}

OwnersSettled ==
  /\ op' \in [Actions -> Operations] /\ rec' \in [Actions -> Records]
  /\ \A a \in Actions : Keep(a) \/ Close(a)

(* A request to cancel gives no outcome. *)
LEMMA RequestedOps ==
  ASSUME NEW o \in [Actions -> Operations], NEW S
  PROVE  /\ Requested(o, S) \in [Actions -> Operations]
         /\ \A a \in Actions : Requested(o, S)[a].outcome = o[a].outcome
BY DEF Requested, Operations

(* A cancellation gives the outcome to the actions whose owner is in the     *)
(* record.                                                                   *)
LEMMA CancelledOps ==
  ASSUME NEW o \in [Actions -> Operations], NEW S
  PROVE  /\ AfterCancellation(o, S) \in [Actions -> Operations]
         /\ \A a \in Actions :
              /\ a \in S /\ HasOwner(rec[a]) =>
                   AfterCancellation(o, S)[a].outcome = "cancelled"
              /\ ~(a \in S /\ HasOwner(rec[a])) => AfterCancellation(o, S)[a] = o[a]
BY DEF AfterCancellation, Cancelled, Operations, Outcomes

(* So does a failure; a cancelled action is cancelled by it. *)
LEMMA FailedOps ==
  ASSUME NEW o \in [Actions -> Operations], NEW S
  PROVE  /\ AfterFailure(o, S) \in [Actions -> Operations]
         /\ \A a \in Actions :
              /\ a \in S /\ HasOwner(rec[a]) =>
                   AfterFailure(o, S)[a].outcome \in {"cancelled", "failed"}
              /\ ~(a \in S /\ HasOwner(rec[a])) => AfterFailure(o, S)[a] = o[a]
BY DEF AfterFailure, FailedOrCancelled, Cancelled, Operations, Outcomes

(* Only the records of these actions change, and only if they have an owner. *)
LEMMA TakenRecords ==
  ASSUME rec \in [Actions -> Records], NEW S, NEW st \in {"finished", "failed"}
  PROVE  /\ OwnersTaken(S, st) \in [Actions -> Records]
         /\ \A a \in Actions :
              /\ a \in S /\ HasOwner(rec[a]) =>
                   OwnersTaken(S, st)[a].st = st /\ OwnersTaken(S, st)[a].strict = rec[a].strict
              /\ ~(a \in S /\ HasOwner(rec[a])) => OwnersTaken(S, st)[a] = rec[a]
BY DEF OwnersTaken, Records, HasOwner

(* Without a record whose report was accepted, a strict failure settles       *)
(* owners too.                                                               *)
LEMMA StrictSettles ==
  ASSUME op \in [Actions -> Operations], rec \in [Actions -> Records],
         \A a \in Actions : rec[a].st \notin Effective, NEW S
  PROVE  op' = AfterStrict(op, S) /\ rec' = StrictRecords(S) => OwnersSettled
<1> SUFFICES ASSUME op' = AfterStrict(op, S), rec' = StrictRecords(S) PROVE OwnersSettled
  OBVIOUS
<1>1. \A a \in Actions : /\ rec[a] \in Records /\ op[a] \in Operations
                        /\ rec[a].st \notin {"reserved", "claiming", "claimed"}
  BY DEF Effective
<1>2. op' \in [Actions -> Operations]
  BY <1>1 DEF AfterStrict, StrictlyFailed, Operations, Outcomes
<1>3. \A a \in Actions :
        /\ a \in S /\ HasOwner(rec[a]) =>
             /\ rec'[a] = [rec[a] EXCEPT !.st = "failed"]
             /\ op'[a] = [op[a] EXCEPT !.outcome = "strict"]
        /\ ~(a \in S /\ HasOwner(rec[a])) => rec'[a] = rec[a] /\ op'[a] = op[a]
  BY <1>1 DEF AfterStrict, StrictRecords, StrictlyFailed
<1>4. rec' = [a \in Actions |-> rec'[a]]
  BY DEF StrictRecords
<1>5. \A a \in Actions : rec'[a] \in Records
  BY <1>1, <1>3 DEF Records
<1>6. rec' \in [Actions -> Records]
  BY <1>4, <1>5
<1>7. \A a \in Actions : Keep(a) \/ Close(a)
  <2> TAKE a \in Actions
  <2>1. CASE a \in S /\ HasOwner(rec[a])
    <3>1. rec'[a].st = "failed" /\ rec'[a].strict = rec[a].strict
      BY <1>1, <1>3, <2>1 DEF Records
    <3>2. op'[a].outcome = "strict"
      BY <1>1, <1>3, <2>1 DEF Operations
    <3> QED BY <2>1, <3>1, <3>2 DEF Close
  <2>2. CASE ~(a \in S /\ HasOwner(rec[a]))
    BY <1>3, <2>2 DEF Keep
  <2> QED BY <2>1, <2>2
<1> QED
  BY <1>2, <1>6, <1>7 DEF OwnersSettled

(* The other settlements, as the lane and the submitting thread combine them. *)
LEMMA Settlements ==
  ASSUME op \in [Actions -> Operations], rec \in [Actions -> Records], NEW S, NEW T
  PROVE
    /\ op' = Requested(op, S) /\ rec' = rec => OwnersSettled
    /\ op' = AfterCancellation(op, S) /\ rec' = OwnersTaken(S, "finished") => OwnersSettled
    /\ op' = AfterCancellation(Requested(op, T), S) /\ rec' = OwnersTaken(S, "finished")
         => OwnersSettled
    /\ op' = AfterFailure(op, S) /\ rec' = OwnersTaken(S, "failed") => OwnersSettled
    /\ op' = op /\ rec' = rec => OwnersSettled
<1> DEFINE r == Requested(op, T)
           R == Requested(op, S)
<1>1. /\ r \in [Actions -> Operations] /\ \A a \in Actions : r[a].outcome = op[a].outcome
      /\ R \in [Actions -> Operations] /\ \A a \in Actions : R[a].outcome = op[a].outcome
  BY RequestedOps
<1> HIDE DEF r, R
<1>2. op' = R /\ rec' = rec => OwnersSettled
  BY <1>1 DEF OwnersSettled, Keep
<1>3. op' = AfterCancellation(op, S) /\ rec' = OwnersTaken(S, "finished") => OwnersSettled
  BY CancelledOps, TakenRecords DEF OwnersSettled, Keep, Close
<1>4. op' = AfterCancellation(r, S) /\ rec' = OwnersTaken(S, "finished") => OwnersSettled
  BY <1>1, CancelledOps, TakenRecords DEF OwnersSettled, Keep, Close
<1>5. op' = AfterFailure(op, S) /\ rec' = OwnersTaken(S, "failed") => OwnersSettled
  BY FailedOps, TakenRecords DEF OwnersSettled, Keep, Close
<1>6. op' = op /\ rec' = rec => OwnersSettled
  BY DEF OwnersSettled, Keep
<1> QED
  BY <1>2, <1>3, <1>4, <1>5, <1>6 DEF r, R

(* A neutral report settles the action it was for, and the others with it.   *)
LEMMA NeutralSettles ==
  ASSUME op \in [Actions -> Operations], rec \in [Actions -> Records], NEW S,
         SettleNeutral(S)
  PROVE  OwnersSettled
<1> DEFINE mine == {lane.cur.a}
           cancel == lane.cur.then = "cancelled"
           o == IF cancel THEN AfterCancellation(op, mine) ELSE AfterFailure(op, mine)
<1>1. /\ o \in [Actions -> Operations]
      /\ \A a \in Actions :
           /\ a \in mine /\ HasOwner(rec[a]) => o[a].outcome \in {"cancelled", "failed"}
           /\ ~(a \in mine /\ HasOwner(rec[a])) => o[a] = op[a]
  BY CancelledOps, FailedOps
<1>2. op' = AfterFailure(o, S)
  BY DEF SettleNeutral
<1>3. \A a \in Actions :
        rec'[a] = IF a \in mine /\ cancel /\ HasOwner(rec[a])
                  THEN [rec[a] EXCEPT !.st = "finished"]
                  ELSE OwnersTaken(mine \union S, "failed")[a]
  BY DEF SettleNeutral
<1>4. rec' = [a \in Actions |-> rec'[a]]
  BY DEF SettleNeutral
<1>5. \A a \in Actions :
        /\ a \in mine \union S /\ HasOwner(rec[a]) =>
             /\ rec'[a] \in Records /\ rec'[a].st \in {"finished", "failed"}
             /\ rec'[a].strict = rec[a].strict
        /\ ~(a \in mine \union S /\ HasOwner(rec[a])) => rec'[a] = rec[a]
  <2> TAKE a \in Actions
  <2>1. [rec[a] EXCEPT !.st = "finished"] \in Records
        /\ [rec[a] EXCEPT !.st = "finished"].st = "finished"
        /\ [rec[a] EXCEPT !.st = "finished"].strict = rec[a].strict
    BY DEF Records
  <2>2. OwnersTaken(mine \union S, "failed") \in [Actions -> Records]
        /\ (a \in mine \union S /\ HasOwner(rec[a]) =>
              /\ OwnersTaken(mine \union S, "failed")[a].st = "failed"
              /\ OwnersTaken(mine \union S, "failed")[a].strict = rec[a].strict)
        /\ (~(a \in mine \union S /\ HasOwner(rec[a])) =>
              OwnersTaken(mine \union S, "failed")[a] = rec[a])
    BY TakenRecords
  <2> HIDE DEF mine, cancel
  <2> QED BY <1>3, <2>1, <2>2
<1> HIDE DEF mine, cancel, o
<1>6. rec' \in [Actions -> Records]
  BY <1>4, <1>5
<1>7. /\ op' \in [Actions -> Operations]
      /\ \A a \in Actions :
           /\ a \in S /\ HasOwner(rec[a]) => op'[a].outcome \in {"cancelled", "failed"}
           /\ ~(a \in S /\ HasOwner(rec[a])) => op'[a] = o[a]
  BY <1>1, <1>2, FailedOps
<1> QED
  BY <1>1, <1>5, <1>6, <1>7 DEF OwnersSettled, Keep, Close

-----------------------------------------------------------------------------
(* Who changes what.                                                         *)
Lane == <<lane, queue, port, since, past>>

SubmissionStep == \E a \in Actions : Submission(a) \/ CancelAction(a)
ReleaseStep == SealGeneration \/ ReleaseNext
CloseStep == CloseIntent \/ CloseNext

(* The threads that take steps. *)
LEMMA StepCases ==
  [Next]_vars =>
    SubmissionStep \/ ReleaseStep \/ CloseStep \/ LaneNext \/ Tick \/ UNCHANGED vars
BY DEF Next, SubmissionStep, ReleaseStep, CloseStep

(* What each thread leaves alone. *)
LEMMA SubmissionFrame ==
  SubmissionStep => UNCHANGED <<leased, releaser, closer, rel, registry, fail, Lane>>
BY DEF SubmissionStep, Submission, Reserve, Create, Send, Resolve, Reject,
       CancelDispatched, WakeLane, CancelAction, Lane, users, ops

LEMMA ReleaseFrame ==
  ReleaseStep => UNCHANGED <<leased, sub, closer, fail, Lane>>
BY DEF ReleaseStep, ReleaseNext, SealGeneration, ReadFailure, VisitSealed,
       TakeUndispatched, SettleUndispatched, Track, SendBegin, Lane, ops

LEMMA CloseFrame ==
  CloseStep => UNCHANGED <<leased, sub, gen, releaser, wake, lane, queue, stream, faults,
                           since, past>>
BY DEF CloseStep, CloseNext, CloseIntent, CloseInterrupt, CancelResource, SendClose,
       JoinLane, RecordOwnershipLoss, port, ops

LEMMA LaneFrame == LaneNext => UNCHANGED <<leased, users>>
BY DEF LaneNext, Here, Top, Observe, Dispatch, MarkDispatched, AcceptReport,
       ClaimAccepted, CompleteClaim, FinishSuccess, WriteReportFails, AcceptNeutral,
       WriteNeutralFails, CleanupFails, SealAfterFailure, NoRelease, StartRelease,
       AcceptRelease, CompleteRelease, WriteReleaseFails, HandleDirect, HandleBegin,
       HandleClose, Take, Woken, Await, CloseLane, Collect, WriteFinal, AcceptFinal,
       WriteFinalFails, CloseStream, FailHeld, SettleStream, LanePanics

-----------------------------------------------------------------------------
(* Where each action takes the lane, and what it holds there.                *)
Goes(P) == /\ lane' \in Lanes /\ lane'.pc \in P
           /\ lane'.cur = lane.cur /\ lane'.closing = lane.closing
           /\ lane'.timer = lane.timer

Holds(pc, kind, closing) == /\ lane' \in Lanes /\ lane'.pc = pc
                            /\ lane'.cur.kind = kind /\ lane'.closing = closing

(* Going to a place changes nothing else. *)
LEMMA GotoFields ==
  ASSUME lane \in Lanes, NEW p \in LanePlaces, Goto(p)
  PROVE  Goes({p})
BY DEF Goes, Goto, Lanes

(* The constants the lane writes into its locals have their shapes. *)
LEMMA EntryFields ==
  /\ NoEntry \in Entries /\ NoEntry.kind = "none" /\ NoCleanup \in [on : BOOLEAN, target : 0..Interval]
  /\ ~NoCleanup.on
  /\ \A k \in {"release", "close", "stream"} :
       NeutralFor(k) \in Entries /\ NeutralFor(k).kind = k
<1>1. 0 \in 0..Interval
  BY LaneAssumption DEF LaneAssumption
<1> QED
  BY <1>1 DEF NoEntry, Entries, NoCleanup, NeutralFor

(* The times the lane computes are in range. *)
LEMMA PacedType ==
  ASSUME since \in 0..Interval
  PROVE  Paced \in 0..Interval /\ Never \in Nat /\ Never \in 0..Never /\ Interval \in Nat \ {0}
         /\ (\A t \in 0..Interval : t \in 0..Never) /\ 0 \in 0..Interval /\ 0 \in 0..Never
BY LaneAssumption DEF Paced, Never, LaneAssumption

(* So is the time it sleeps. *)
LEMMA TimerType ==
  ASSUME LaneType, since \in 0..Interval
  PROVE  /\ Timer \in 0..Never
         /\ (IF pending = << >> THEN Never ELSE pending[1].due) \in 0..Never
<1>1. pending # << >> => pending[1] \in Queued
  BY LenProperties, EmptySeq, ElementOfSeq DEF LaneType
<1>2. (IF pending = << >> THEN Never ELSE pending[1].due) \in 0..Never
  BY <1>1, PacedType DEF Queued
<1>3. cleanup.target \in 0..Interval
  BY DEF LaneType
<1> QED
  BY <1>2, <1>3, PacedType DEF Timer, Smaller

(* Entries that are queued are entries. *)
LEMMA QueuedFields ==
  /\ \A e \in Queued : e \in Entries /\ e.kind \in {"report", "neutral"} /\ e.a \in Actions
                       /\ e.due \in 0..Interval
  /\ \A x \in Seq(Queued) : x # << >> => Head(x) = x[1] /\ x[1] \in Queued /\ Tail(x) \in Seq(Queued)
<1>1. \A e \in Queued : e \in Entries /\ e.kind \in {"report", "neutral"} /\ e.a \in Actions
                        /\ e.due \in 0..Interval
  BY DEF Queued, Entries
<1>2. \A x \in Seq(Queued) : x # << >> => Head(x) = x[1] /\ x[1] \in Queued /\ Tail(x) \in Seq(Queued)
  BY HeadTailProperties, LenProperties, EmptySeq, ElementOfSeq
<1> QED
  BY <1>1, <1>2

(* Entries of the queue have their shapes. *)
LEMMA PendingKnown ==
  ASSUME LaneType
  PROVE  /\ \A i \in DOMAIN pending : pending[i] \in Queued /\ pending[i].a \in Actions
         /\ PendingActions \subseteq Actions /\ ToSet(pending) \subseteq Queued
<1>1. \A i \in DOMAIN pending : pending[i] \in Queued
  BY ElementOfSeq, LenProperties DEF LaneType
<1>2. \A i \in DOMAIN pending : pending[i].a \in Actions
  BY <1>1, QueuedFields
<1> QED
  BY <1>1, <1>2 DEF PendingActions, ToSet

(* From the loop of run: the place an action starts from and where it ends. *)
LEMMA RunPlaces ==
  ASSUME TypeOK
  PROVE  /\ Top => lane.pc = "top" /\ Goes({"await", "observe"})
         /\ Observe => lane.pc = "observe" /\ Goes({"dispatch"})
         /\ Dispatch => /\ lane.pc = "dispatch"
                        /\ \/ Goes({"cleanup", "observe"})
                           \/ /\ pending # << >> /\ pending' = Tail(pending) /\ ~TooEarly
                              /\ Holds(IF pending[1].kind = "report" THEN "mark" ELSE "write",
                                       pending[1].kind, lane.closing)
                              /\ lane'.cur = pending[1]
         /\ MarkDispatched => lane.pc = "mark" /\ Goes({"write", "dispatch"})
         /\ ClaimAccepted => lane.pc = "accepted" /\ Goes({"claiming"})
         /\ CompleteClaim => lane.pc = "claiming" /\ Goes({"claimed"})
         /\ FinishSuccess => lane.pc = "claimed" /\ Goes({"dispatch"})
         /\ NoRelease => lane.pc = "cleanup" /\ Holds("sleep", "none", lane.closing)
         /\ StartRelease => lane.pc = "cleanup" /\ (Holds("write", "release", lane.closing)
                                                      \/ Holds("sleep", lane.cur.kind, lane.closing))
         /\ HandleDirect \/ HandleBegin \/ Woken => lane.pc = "sleep" /\ Goes({"top"})
         /\ HandleClose => lane.pc = "sleep" /\ Goes({"close"})
         /\ Await => lane.pc = "await" /\ Goes({"close"})
<1> USE DEF TypeOK, LaneType, PortType
<1>1. lane \in Lanes
  OBVIOUS
<1>2. Top => lane.pc = "top" /\ Goes({"await", "observe"})
  <2>1. \A p \in {"await", "observe"} : p \in LanePlaces
    BY DEF LanePlaces
  <2> QED BY <1>1, <2>1, GotoFields DEF Top, Here, Goes
<1>3. /\ Observe => lane.pc = "observe" /\ Goes({"dispatch"})
      /\ ClaimAccepted => lane.pc = "accepted" /\ Goes({"claiming"})
      /\ CompleteClaim => lane.pc = "claiming" /\ Goes({"claimed"})
      /\ FinishSuccess => lane.pc = "claimed" /\ Goes({"dispatch"})
      /\ HandleDirect \/ HandleBegin \/ Woken => lane.pc = "sleep" /\ Goes({"top"})
      /\ HandleClose => lane.pc = "sleep" /\ Goes({"close"})
      /\ Await => lane.pc = "await" /\ Goes({"close"})
  <2>1. {"dispatch", "claiming", "claimed", "top", "close"} \subseteq LanePlaces
    BY DEF LanePlaces
  <2> QED BY <1>1, <2>1, GotoFields DEF Observe, ClaimAccepted, CompleteClaim, FinishSuccess,
            HandleDirect, HandleBegin, HandleClose, Woken, Await, Take, Here
<1>4. MarkDispatched => lane.pc = "mark" /\ Goes({"write", "dispatch"})
  <2>1. \A p \in {"write", "dispatch"} : p \in LanePlaces
    BY DEF LanePlaces
  <2> QED BY <1>1, <2>1, GotoFields DEF MarkDispatched, Here, Goes
<1>5. ASSUME Dispatch
      PROVE  /\ lane.pc = "dispatch"
             /\ \/ Goes({"cleanup", "observe"})
                \/ /\ pending # << >> /\ pending' = Tail(pending) /\ ~TooEarly
                   /\ Holds(IF pending[1].kind = "report" THEN "mark" ELSE "write",
                            pending[1].kind, lane.closing)
                   /\ lane'.cur = pending[1]
  <2>1. lane.pc = "dispatch"
    BY <1>5 DEF Dispatch, Here
  <2>2. \A p \in {"cleanup", "observe"} : p \in LanePlaces
    BY DEF LanePlaces
  <2>3. CASE Goto("cleanup") \/ Goto("observe")
    BY <1>1, <2>1, <2>2, <2>3, GotoFields DEF Goes
  <2>4. CASE /\ FrontDue /\ ~TooEarly /\ pending' = Tail(pending)
             /\ lane' = [lane EXCEPT !.cur = pending[1],
                           !.pc = IF pending[1].kind = "report" THEN "mark" ELSE "write"]
    <3>1. pending # << >> /\ pending[1] \in Entries
      BY <2>4, QueuedFields DEF FrontDue
    <3>2. {"mark", "write"} \subseteq LanePlaces
      BY DEF LanePlaces
    <3> DEFINE p == IF pending[1].kind = "report" THEN "mark" ELSE "write"
               e == pending[1]
    <3>3. p \in LanePlaces /\ e \in Entries /\ lane' = [lane EXCEPT !.cur = e, !.pc = p]
      BY <2>4, <3>1, <3>2
    <3> HIDE DEF p, e
    <3>4. lane' \in Lanes /\ lane'.pc = p /\ lane'.cur = e /\ lane'.closing = lane.closing
      BY <1>1, <3>3 DEF Lanes
    <3>5. Holds(p, e.kind, lane.closing)
      BY <3>4 DEF Holds
    <3> QED BY <2>1, <2>4, <3>1, <3>4, <3>5 DEF p, e
  <2> QED
    BY <1>5, <2>3, <2>4 DEF Dispatch
<1>6. NoRelease => lane.pc = "cleanup" /\ Holds("sleep", "none", lane.closing)
  <2>1. Timer \in 0..Never /\ "sleep" \in LanePlaces /\ NoEntry \in Entries /\ NoEntry.kind = "none"
    BY TimerType, EntryFields DEF LanePlaces
  <2> QED BY <1>1, <2>1 DEF NoRelease, Here, Asleep, Holds, Lanes
<1>7. StartRelease => lane.pc = "cleanup" /\ (Holds("write", "release", lane.closing)
                                                \/ Holds("sleep", lane.cur.kind, lane.closing))
  <2>1. /\ (IF pending = << >> THEN Never ELSE pending[1].due) \in 0..Never
        /\ {"sleep", "write"} \subseteq LanePlaces
        /\ NeutralFor("release") \in Entries /\ NeutralFor("release").kind = "release"
        /\ rel.close \in BOOLEAN
    BY TimerType, EntryFields DEF LanePlaces, UsersType, Releases
  <2>2. \A t \in 0..Never, b \in BOOLEAN :
          LET l == [lane EXCEPT !.pc = "sleep", !.timer = t, !.consumed = @ \/ b]
          IN  l \in Lanes /\ l.pc = "sleep" /\ l.cur = lane.cur /\ l.closing = lane.closing
    BY <1>1, <2>1 DEF Lanes
  <2>4. StartRelease /\ conn = "connected" => Holds("write", "release", lane.closing)
    <3> DEFINE e == NeutralFor("release")
    <3>1. StartRelease /\ conn = "connected" => lane' = [lane EXCEPT !.pc = "write", !.cur = e]
      BY DEF StartRelease, Here
    <3> HIDE DEF e
    <3>2. e \in Entries /\ e.kind = "release"
      BY <2>1 DEF e
    <3>3. StartRelease /\ conn = "connected" =>
            /\ lane' \in Lanes /\ lane'.pc = "write" /\ lane'.cur = e
            /\ lane'.closing = lane.closing
      BY <1>1, <2>1, <3>1, <3>2 DEF Lanes
    <3> QED BY <3>2, <3>3 DEF Holds
  <2>5. StartRelease /\ conn # "connected" => Holds("sleep", lane.cur.kind, lane.closing)
    <3> DEFINE t == IF pending = << >> THEN Never ELSE pending[1].due
    <3>1. StartRelease /\ conn # "connected" =>
            lane' = [lane EXCEPT !.pc = "sleep", !.timer = t, !.consumed = @ \/ rel.close]
      BY DEF StartRelease, Here
    <3> HIDE DEF t
    <3>2. t \in 0..Never
      BY <2>1 DEF t
    <3>3. StartRelease /\ conn # "connected" => Holds("sleep", lane.cur.kind, lane.closing)
      <4> SUFFICES ASSUME StartRelease, conn # "connected"
                   PROVE  Holds("sleep", lane.cur.kind, lane.closing)
        OBVIOUS
      <4>1. PICK b \in BOOLEAN : b = rel.close
        BY <2>1
      <4>2. lane' = [lane EXCEPT !.pc = "sleep", !.timer = t, !.consumed = @ \/ b]
        BY <3>1, <4>1
      <4>3. lane' \in Lanes /\ lane'.pc = "sleep" /\ lane'.cur = lane.cur
            /\ lane'.closing = lane.closing
        BY <2>2, <3>2, <4>2
      <4> QED BY <4>3 DEF Holds
    <3> QED BY <3>3
  <2> QED BY <2>4, <2>5 DEF StartRelease, Here
<1> QED
  BY <1>2, <1>3, <1>4, <1>5, <1>6, <1>7

(* The same of the actions that write a report or see it fail. *)
LEMMA WritePlaces ==
  ASSUME TypeOK
  PROVE  /\ AcceptReport => lane.pc = "write" /\ lane.cur.kind = "report" /\ Goes({"accepted"})
         /\ WriteReportFails => lane.pc = "write" /\ lane.cur.kind = "report" /\ Goes({"dispatch"})
         /\ AcceptNeutral \/ WriteNeutralFails =>
              lane.pc = "write" /\ lane.cur.kind = "neutral" /\ Goes({"dispatch"})
         /\ CleanupFails => lane.pc = "write" /\ Goes({"failing"})
         /\ AcceptRelease => lane.pc = "write" /\ lane.cur.kind = "release" /\ Goes({"released"})
         /\ AcceptFinal \/ WriteFinalFails =>
              lane.pc = "write" /\ lane.cur.kind = "close" /\ Goes({"closeStream"})
         /\ CompleteRelease => lane.pc = "released"
         /\ WriteReleaseFails => lane.pc = "write" /\ lane.cur.kind = "release"
         /\ CompleteRelease \/ WriteReleaseFails =>
              Holds(IF lane.closing THEN "closeStream" ELSE "sleep", "none", lane.closing)
         /\ SealAfterFailure =>
              /\ lane.pc = "failing"
              /\ \/ lane.cur.kind = "stream" /\ Holds("closeFailed", "none", lane.closing)
                 \/ lane.cur.kind # "stream" /\ lane.closing /\ Holds("closeStream", "none", TRUE)
                 \/ ~lane.closing /\ (Holds("sleep", "none", FALSE) \/ Holds("dispatch", "none", FALSE))
<1> USE DEF TypeOK, LaneType
<1>1. lane \in Lanes /\ lane.closing \in BOOLEAN /\ lane.consumed \in BOOLEAN
      /\ lane.held \subseteq Actions
  BY DEF Lanes
<1>2. {"accepted", "dispatch", "failing", "released", "closeStream", "closeFailed", "sleep"}
        \subseteq LanePlaces
  BY DEF LanePlaces
<1>3. /\ AcceptReport => lane.pc = "write" /\ lane.cur.kind = "report" /\ Goes({"accepted"})
      /\ WriteReportFails => lane.pc = "write" /\ lane.cur.kind = "report" /\ Goes({"dispatch"})
      /\ AcceptNeutral \/ WriteNeutralFails =>
           lane.pc = "write" /\ lane.cur.kind = "neutral" /\ Goes({"dispatch"})
      /\ CleanupFails => lane.pc = "write" /\ Goes({"failing"})
  BY <1>1, <1>2, GotoFields DEF AcceptReport, WriteReportFails, AcceptNeutral,
     WriteNeutralFails, CleanupFails, Here
<1>4. /\ AcceptRelease => lane.pc = "write" /\ lane.cur.kind = "release" /\ Goes({"released"})
      /\ AcceptFinal \/ WriteFinalFails =>
           lane.pc = "write" /\ lane.cur.kind = "close" /\ Goes({"closeStream"})
  BY <1>1, <1>2, GotoFields DEF AcceptRelease, AcceptFinal, WriteFinalFails, Here
<1>5. NoEntry \in Entries /\ NoEntry.kind = "none" /\ Timer \in 0..Never /\ Never \in 0..Never
  BY EntryFields, TimerType, PacedType DEF PortType
<1>6. \A c \in BOOLEAN : AfterRelease(c) =>
        Holds(IF lane.closing THEN "closeStream" ELSE "sleep", "none", lane.closing)
  <2> TAKE c \in BOOLEAN
  <2>1. CASE lane.closing
    <3>1. AfterRelease(c) => lane' = [lane EXCEPT !.pc = "closeStream", !.cur = NoEntry,
                                        !.consumed = @ \/ c \/ lane.closing]
      BY <1>1, <2>1 DEF AfterRelease, Lanes
    <3> QED BY <1>1, <1>2, <1>5, <2>1, <3>1 DEF Holds, Lanes
  <2>2. CASE ~lane.closing
    <3>1. AfterRelease(c) => lane' = [lane EXCEPT !.pc = "sleep", !.cur = NoEntry,
                                        !.timer = Timer, !.consumed = @ \/ c \/ lane.closing]
      BY <1>1, <2>2 DEF AfterRelease, Asleep, Lanes
    <3> QED BY <1>1, <1>2, <1>5, <2>2, <3>1 DEF Holds, Lanes
  <2> QED BY <2>1, <2>2
<1>7. /\ CompleteRelease => lane.pc = "released"
      /\ WriteReleaseFails => lane.pc = "write" /\ lane.cur.kind = "release"
      /\ CompleteRelease \/ WriteReleaseFails =>
           Holds(IF lane.closing THEN "closeStream" ELSE "sleep", "none", lane.closing)
  <2>1. rel.close \in BOOLEAN
    BY DEF UsersType, Releases
  <2> QED BY <1>6, <2>1 DEF CompleteRelease, WriteReleaseFails, Here
<1>8. ASSUME SealAfterFailure
      PROVE  /\ lane.pc = "failing"
             /\ \/ lane.cur.kind = "stream" /\ Holds("closeFailed", "none", lane.closing)
                \/ lane.cur.kind # "stream" /\ lane.closing /\ Holds("closeStream", "none", TRUE)
                \/ ~lane.closing /\ (Holds("sleep", "none", FALSE) \/ Holds("dispatch", "none", FALSE))
  <2> DEFINE kind == lane.cur.kind
             p == CASE kind = "stream" -> "closeFailed"
                    [] lane.closing /\ kind # "stream" -> "closeStream"
                    [] kind = "release" /\ ~lane.closing -> "sleep"
                    [] OTHER -> "dispatch"
  <2>1. lane.pc = "failing" /\ lane' = [lane EXCEPT !.cur = NoEntry, !.timer = Never,
                                          !.pc = p]
    BY <1>8 DEF SealAfterFailure, Here
  <2>2. /\ p \in LanePlaces
        /\ \/ kind = "stream" /\ p = "closeFailed"
           \/ kind # "stream" /\ lane.closing /\ p = "closeStream"
           \/ ~lane.closing /\ p \in {"sleep", "dispatch"}
    BY <1>2
  <2> HIDE DEF p
  <2>4. lane' \in Lanes /\ lane'.pc = p /\ lane'.cur = NoEntry /\ lane'.closing = lane.closing
    BY <1>1, <1>5, <2>1, <2>2 DEF Lanes
  <2> QED
    BY <1>1, <1>5, <2>1, <2>2, <2>4 DEF Holds
<1> QED
  BY <1>3, <1>4, <1>7, <1>8

Over(pc) == lane' \in Lanes /\ lane'.pc = pc /\ ~lane'.closing

(* The same of close_lane, and of the ends of the lane. *)
LEMMA ClosePlaces ==
  ASSUME TypeOK
  PROVE  /\ CloseLane => lane.pc = "close" /\ Holds("collect", lane.cur.kind, TRUE)
         /\ Collect => /\ lane.pc \in {"collect", "wait"}
                       /\ \/ Holds("wait", lane.cur.kind, lane.closing) /\ lane'.timer >= Paced
                          \/ Holds("closeStream", lane.cur.kind, lane.closing)
         /\ WriteFinal => /\ lane.pc = "wait"
                          /\ \/ cleanup.on /\ Holds("write", "release", lane.closing)
                             \/ ~cleanup.on /\ Holds("write", "close", lane.closing)
                             \/ cleanup.on /\ Holds("closeStream", lane.cur.kind, lane.closing)
         /\ CloseStream => /\ lane.pc = "closeStream"
                           /\ \/ UNCHANGED fail /\ Holds("closeSettle", lane.cur.kind, lane.closing)
                              \/ fail' # "none" /\ Holds("failing", "stream", lane.closing)
         /\ FailHeld => /\ lane.pc = "closeFailed"
                        /\ Holds("closeSettle", lane.cur.kind, lane.closing)
         /\ SettleStream => lane.pc = "closeSettle" /\ Over("ended")
         /\ LanePanics => lane.pc \in {"write", "accepted", "claimed"} /\ Over("panicked")
<1> USE DEF TypeOK, LaneType
<1>1. /\ lane \in Lanes /\ lane.closing \in BOOLEAN /\ lane.consumed \in BOOLEAN
      /\ lane.held \subseteq Actions /\ lane.cur \in Entries /\ since \in 0..Interval
      /\ rel \in Releases /\ rel.close \in BOOLEAN /\ registry.tracked \in BOOLEAN
  BY DEF Lanes, PortType, UsersType, Registries, Releases
<1>2. {"collect", "wait", "write", "closeStream", "closeFailed", "closeSettle", "failing", "ended", "panicked"}
        \subseteq LanePlaces
  BY DEF LanePlaces
<1>3. CloseLane => lane.pc = "close" /\ Holds("collect", lane.cur.kind, TRUE)
  <2> DEFINE c == lane.consumed \/ (registry.tracked /\ Interrupted.close)
  <2>1. CloseLane => lane' = [lane EXCEPT !.pc = "collect", !.closing = TRUE, !.consumed = c,
                                          !.connected = Open]
    BY <1>1 DEF CloseLane, Here
  <2>2. Interrupted.close \in BOOLEAN
    BY <1>1 DEF Interrupted, Interrupt, Releases
  <2>3. c \in BOOLEAN /\ Open \in BOOLEAN
    BY <1>1, <2>2 DEF Open
  <2> HIDE DEF c
  <2> QED BY <1>1, <1>2, <2>1, <2>3 DEF CloseLane, Here, Holds, Lanes
<1>4. ASSUME Collect
      PROVE  /\ lane.pc \in {"collect", "wait"}
             /\ \/ Holds("wait", lane.cur.kind, lane.closing) /\ lane'.timer >= Paced
                \/ Holds("closeStream", lane.cur.kind, lane.closing)
  <2> DEFINE commands == ToSet(inbox)
             S == PendingActions \union {c.a : c \in {x \in commands : x.k = "direct"}}
             begins == \E c \in commands : c.k = "begin"
             found == begins /\ lease = "automation"
             own == cleanup.on \/ found
             target == IF cleanup.on THEN cleanup.target ELSE 0
             h == lane.held \union S
             t == IF target > Paced THEN target ELSE Paced
             p == IF own \/ (lane.connected /\ ~lane.consumed) \/ lane.pc = "wait"
                  THEN "wait" ELSE "closeStream"
  <2>1. lane.pc \in {"collect", "wait"} /\ lane' = [lane EXCEPT !.held = h, !.timer = t, !.pc = p]
    BY <1>4 DEF Collect
  <2>2. p \in {"wait", "closeStream"}
    OBVIOUS
  <2>3. t \in 0..Never /\ t >= Paced
    <3>1. target \in 0..Interval
      BY PacedType, <1>1
    <3> HIDE DEF target
    <3> QED BY <1>1, <3>1, PacedType
  <2>4. h \in SUBSET Actions
    <3>1. PendingActions \subseteq Actions
      BY PendingKnown
    <3>2. \A c \in commands : c.k = "direct" => c.a \in Actions
      <4>1. commands \subseteq Commands
        BY ElementOfSeq, LenProperties DEF ToSet
      <4> HIDE DEF commands
      <4> QED BY <4>1 DEF Commands
    <3> QED BY <1>1, <3>1, <3>2
  <2> HIDE DEF h, t, p
  <2>5. /\ lane' \in Lanes /\ lane'.pc = p /\ lane'.timer = t /\ lane'.cur = lane.cur
        /\ lane'.closing = lane.closing
    BY <1>1, <1>2, <2>1, <2>2, <2>3, <2>4 DEF Lanes
  <2> QED BY <2>1, <2>2, <2>3, <2>5 DEF Holds
<1>5. WriteFinal => /\ lane.pc = "wait"
                    /\ \/ cleanup.on /\ Holds("write", "release", lane.closing)
                       \/ ~cleanup.on /\ Holds("write", "close", lane.closing)
                       \/ cleanup.on /\ Holds("closeStream", lane.cur.kind, lane.closing)
  <2>1. \A k \in {"release", "close"} :
          lane' = [lane EXCEPT !.pc = "write", !.cur = NeutralFor(k)]
            => Holds("write", k, lane.closing)
    <3> TAKE k \in {"release", "close"}
    <3> DEFINE e == NeutralFor(k)
    <3>1. e \in Entries /\ e.kind = k
      BY EntryFields
    <3> HIDE DEF e
    <3>2. lane' = [lane EXCEPT !.pc = "write", !.cur = e] => Holds("write", k, lane.closing)
      BY <1>1, <1>2, <3>1 DEF Holds, Lanes
    <3> QED BY <3>2 DEF e
  <2>2. lane' = [lane EXCEPT !.pc = "closeStream", !.consumed = TRUE]
          => Holds("closeStream", lane.cur.kind, lane.closing)
    BY <1>1, <1>2 DEF Holds, Lanes
  <2> QED BY <2>1, <2>2 DEF WriteFinal, Here
<1>6. CloseStream => /\ lane.pc = "closeStream"
                     /\ \/ UNCHANGED fail /\ Holds("closeSettle", lane.cur.kind, lane.closing)
                        \/ fail' # "none" /\ Holds("failing", "stream", lane.closing)
  <2>1. lane' = [lane EXCEPT !.pc = "closeSettle", !.held = {}]
          => Holds("closeSettle", lane.cur.kind, lane.closing)
    BY <1>1, <1>2 DEF Holds, Lanes
  <2>2. lane' = [lane EXCEPT !.pc = "failing", !.cur = NeutralFor("stream")]
          => Holds("failing", "stream", lane.closing)
    <3> DEFINE e == NeutralFor("stream")
    <3>1. e \in Entries /\ e.kind = "stream"
      BY EntryFields
    <3> HIDE DEF e
    <3>2. lane' = [lane EXCEPT !.pc = "failing", !.cur = e] => Holds("failing", "stream", lane.closing)
      BY <1>1, <1>2, <3>1 DEF Holds, Lanes
    <3> QED BY <3>2 DEF e
  <2> QED BY <2>1, <2>2 DEF CloseStream, Here
<1>7. \A p \in LanePlaces : Ended(p) => Over(p)
  BY EntryFields, PacedType, <1>1 DEF Ended, Over, Lanes
<1>8. /\ SettleStream => lane.pc = "closeSettle" /\ Over("ended")
      /\ LanePanics => lane.pc \in {"write", "accepted", "claimed"} /\ Over("panicked")
  BY <1>2, <1>7 DEF SettleStream, LanePanics, Here
<1>9. FailHeld => lane.pc = "closeFailed" /\ Holds("closeSettle", lane.cur.kind, lane.closing)
  BY <1>1, <1>2 DEF FailHeld, Here, Holds, Lanes
<1> QED
  BY <1>3, <1>4, <1>5, <1>6, <1>8, <1>9

(* A time that gets nearer stays in its range. *)
LEMMA SoonerType ==
  /\ \A t \in 0..Interval : Sooner(t) \in 0..Interval
  /\ \A t \in 0..Never : Sooner(t) \in 0..Never /\ (t = 0 => Sooner(t) = 0)
                         /\ Sooner(t) >= t - 1
<1>1. Interval \in Nat /\ Never = Interval + 1
  BY LaneAssumption DEF LaneAssumption, Never
<1> QED
  BY <1>1 DEF Sooner

(* The passing of time moves due times and nothing else. *)
LEMMA TickFields ==
  ASSUME TypeOK, Tick
  PROVE  /\ Goes({lane.pc}) \/ (lane' \in Lanes /\ lane'.pc = lane.pc /\ lane'.cur = lane.cur
                                 /\ lane'.closing = lane.closing)
         /\ lane'.timer \in 0..Never /\ lane'.timer >= lane.timer - 1
         /\ since' \in 0..Interval /\ since' >= since
         /\ since < Interval => since' = since + 1
         /\ since = Interval => since' = since
         /\ pending' \in Seq(Queued) /\ DOMAIN pending' = DOMAIN pending
         /\ \A i \in DOMAIN pending : pending'[i].kind = pending[i].kind /\ pending'[i].a = pending[i].a
         /\ cleanup' \in [on : BOOLEAN, target : 0..Interval] /\ cleanup'.on = cleanup.on
<1> USE DEF TypeOK, LaneType, PortType
<1>1. /\ lane \in Lanes /\ lane.timer \in 0..Never /\ lane' = [lane EXCEPT !.timer = Sooner(@)]
      /\ Interval \in Nat /\ Never = Interval + 1
  BY LaneAssumption DEF Tick, Lanes, LaneAssumption, Never
<1>2. Sooner(lane.timer) \in 0..Never /\ Sooner(lane.timer) >= lane.timer - 1
  BY <1>1, SoonerType
<1>3. lane' \in Lanes /\ lane'.pc = lane.pc /\ lane'.cur = lane.cur
      /\ lane'.closing = lane.closing /\ lane'.timer = Sooner(lane.timer)
  BY <1>1, <1>2 DEF Lanes
<1>4. /\ since' \in 0..Interval /\ since' >= since
      /\ since < Interval => since' = since + 1
      /\ since = Interval => since' = since
  BY <1>1 DEF Tick
<1>5. \A e \in Queued : LET q == [e EXCEPT !.due = Sooner(@)]
                        IN  q \in Queued /\ q.kind = e.kind /\ q.a = e.a
  <2> TAKE e \in Queued
  <2>1. Sooner(e.due) \in 0..Interval
    BY SoonerType, QueuedFields
  <2> QED BY <2>1 DEF Queued
<1>6. /\ pending' = [i \in DOMAIN pending |-> [pending[i] EXCEPT !.due = Sooner(@)]]
      /\ Len(pending) \in Nat /\ DOMAIN pending = 1..Len(pending)
      /\ \A i \in DOMAIN pending : pending[i] \in Queued
  BY LenProperties, ElementOfSeq DEF Tick
<1>7. /\ DOMAIN pending' = DOMAIN pending
      /\ \A i \in DOMAIN pending : /\ pending'[i] \in Queued
                                   /\ pending'[i].kind = pending[i].kind
                                   /\ pending'[i].a = pending[i].a
  BY <1>5, <1>6
<1>8. pending' \in Seq(Queued)
  BY <1>6, <1>7, IsASeq
<1>9. cleanup' \in [on : BOOLEAN, target : 0..Interval] /\ cleanup'.on = cleanup.on
  BY SoonerType DEF Tick
<1> QED
  BY <1>1, <1>2, <1>3, <1>4, <1>7, <1>8, <1>9

-----------------------------------------------------------------------------
(* The lane's places *)

(* The closing thread goes through its places in order. *)
LEMMA CloserSteps ==
  CloseStep =>
    \/ closer = "idle" /\ closer' = "intent" /\ CloseIntent
    \/ /\ closer \in {"intent", "interrupted", "cancelled"}
       /\ closer' \in {"interrupted", "cancelled", "joining"}
    \/ JoinLane /\ ~LaneAlive /\ lane.pc = "ended" /\ closer = "joining" /\ closer' = "done"
    \/ JoinLane /\ ~LaneAlive /\ lane.pc # "ended" /\ closer = "joining" /\ closer' = "takeover"
    \/ RecordOwnershipLoss /\ closer = "takeover" /\ closer' = "done"
BY DEF CloseStep, CloseNext, CloseIntent, CloseInterrupt, CancelResource, SendClose,
       JoinLane, RecordOwnershipLoss

(* A step keeps the place of the lane and what it holds in agreement. *)
LEMMA LaneKept == ASSUME TypeOK, LaneInv, [Next]_vars PROVE LaneInv'
<1>1. CASE SubmissionStep \/ ReleaseStep \/ UNCHANGED vars
  <2>1. UNCHANGED <<lane, closer>>
    BY <1>1, SubmissionFrame, ReleaseFrame DEF Lane, vars, users
  <2> QED BY <2>1 DEF LaneInv, LaneAlive
<1>2. CASE CloseStep
  <2>1. UNCHANGED lane
    BY <1>2, CloseFrame
  <2> QED BY <1>2, <2>1, CloserSteps DEF LaneInv, LaneAlive
<1>3. CASE Tick
  <2>1. lane'.pc = lane.pc /\ lane'.cur = lane.cur /\ lane'.closing = lane.closing
    BY <1>3, TickFields DEF Goes
  <2>2. UNCHANGED closer
    BY <1>3 DEF Tick, users
  <2> QED BY <2>1, <2>2 DEF LaneInv, LaneAlive
<1>4. CASE LaneNext
  <2> USE DEF LaneInv, LaneAlive, Closes
  <2>1. UNCHANGED closer
    BY <1>4, LaneFrame DEF users
  <2>2. CASE \/ Top \/ Observe \/ NoRelease \/ StartRelease \/ HandleDirect \/ HandleBegin
             \/ HandleClose \/ Woken \/ Await \/ FinishSuccess
    BY <2>1, <2>2, RunPlaces DEF Goes, Holds
  <2>3. CASE Dispatch
    <3>1. pending # << >> => pending[1].kind \in {"report", "neutral"}
      BY QueuedFields DEF TypeOK, LaneType
    <3> QED BY <2>1, <2>3, <3>1, RunPlaces DEF Goes, Holds
  <2>4. CASE MarkDispatched \/ ClaimAccepted \/ CompleteClaim
    BY <2>1, <2>4, RunPlaces DEF Goes
  <2>5. CASE \/ AcceptReport \/ WriteReportFails \/ AcceptNeutral \/ WriteNeutralFails
             \/ CleanupFails \/ AcceptRelease \/ AcceptFinal \/ WriteFinalFails
    BY <2>1, <2>5, WritePlaces DEF Goes
  <2>6. CASE CompleteRelease \/ WriteReleaseFails \/ SealAfterFailure
    BY <2>1, <2>6, WritePlaces DEF Holds
  <2>7. CASE CloseLane \/ Collect \/ WriteFinal \/ CloseStream \/ FailHeld
    BY <2>1, <2>7, ClosePlaces DEF Holds
  <2>8. CASE SettleStream \/ LanePanics
    BY <2>1, <2>8, ClosePlaces DEF Over
  <2> QED
    BY <1>4, <2>2, <2>3, <2>4, <2>5, <2>6, <2>7, <2>8 DEF LaneNext
<1> QED
  BY <1>1, <1>2, <1>3, <1>4, StepCases

-----------------------------------------------------------------------------
(* A permanent failure *)

(* The releasing thread writes nothing of the registry but that it tracks. *)
LEMMA ReleaserSteps ==
  ASSUME UsersType, ReleaseStep
  PROVE  /\ registry' \in Registries /\ registry'.projection = registry.projection
         /\ registry'.settled = registry.settled /\ registry'.closing = registry.closing
         /\ releaser' \in Releasers
         /\ releaser'.failure => releaser.failure \/ fail # "none"
<1> USE DEF UsersType
<1>1. CASE SealGeneration
  BY <1>1 DEF SealGeneration, Releasers
<1>2. CASE ReadFailure
  BY <1>2 DEF ReadFailure, Releasers
<1>3. CASE \E a \in Actions : VisitSealed(a)
  <2>1. PICK a \in Actions : VisitSealed(a)
    BY <1>3
  <2>2. CASE releaser' = [releaser EXCEPT !.todo = @ \ {a}]
    BY <2>1, <2>2 DEF VisitSealed, Releasers
  <2>3. CASE releaser' = [releaser EXCEPT !.pc = "take", !.cur = a, !.todo = @ \ {a}]
    BY <2>1, <2>3 DEF VisitSealed, Releasers
  <2> QED BY <2>1, <2>2, <2>3 DEF VisitSealed
<1>4. CASE TakeUndispatched
  BY <1>4 DEF TakeUndispatched, Releasers
<1>5. CASE SettleUndispatched
  BY <1>5 DEF SettleUndispatched, Releasers
<1>6. CASE Track
  BY <1>6 DEF Track, Releasers, Registries
<1>7. CASE SendBegin
  BY <1>7 DEF SendBegin, Releasers
<1> QED
  BY <1>1, <1>2, <1>3, <1>4, <1>5, <1>6, <1>7 DEF ReleaseStep, ReleaseNext

(* A dropped connection is not connected. *)
LEMMA DroppedState ==
  ASSUME PortType
  PROVE  Dropped # "connected" /\ Dropped \in {"disconnecting", "disconnected", "closed"}
BY DEF Dropped, PortType

(* A step keeps what a permanent failure leaves. *)
LEMMA FailKept == ASSUME TypeOK, LaneInv, FailInv, [Next]_vars PROVE FailInv'
<1> USE DEF FailInv, LaneAlive
<1>0. UsersType /\ LaneType /\ PortType
  BY DEF TypeOK
<1>1. CASE SubmissionStep \/ UNCHANGED vars
  <2>1. UNCHANGED <<releaser, closer, registry, fail, lane, pending, cleanup, lease, conn, stream>>
    BY <1>1, SubmissionFrame DEF Lane, vars, users, queue, port
  <2> QED BY <2>1
<1>2. CASE ReleaseStep
  <2>1. UNCHANGED <<closer, fail, lane, pending, cleanup, lease, conn, stream>>
    BY <1>2, ReleaseFrame DEF Lane, queue, port
  <2> QED BY <1>0, <1>2, <2>1, ReleaserSteps
<1>3. CASE CloseStep
  <2>1. UNCHANGED <<releaser, lane, pending, cleanup, lease, stream>>
    BY <1>3, CloseFrame DEF queue
  <2>2. CASE CloseIntent
    BY <2>1, <2>2 DEF CloseIntent
  <2>3. CASE CloseInterrupt \/ CancelResource \/ SendClose \/ JoinLane
    <3>1. /\ UNCHANGED <<fail, conn>> /\ closer # "idle"
          /\ registry'.projection = registry.projection /\ registry'.settled = registry.settled
      BY <1>0, <2>3 DEF CloseInterrupt, CancelResource, SendClose, JoinLane, port, UsersType,
         Registries
    <3> QED BY <2>1, <3>1
  <2>4. CASE RecordOwnershipLoss
    <3>1. /\ lane.pc = "panicked" /\ UNCHANGED conn /\ closer # "idle"
          /\ fail' # "none"
          /\ registry'.settled => registry.settled
      BY <1>0, <2>4 DEF RecordOwnershipLoss, port, UsersType, Registries, LaneInv
    <3> QED BY <2>1, <3>1
  <2> QED
    BY <1>3, <2>2, <2>3, <2>4 DEF CloseStep, CloseNext
<1>4. CASE Tick
  <2>1. lane'.pc = lane.pc /\ lane'.cur = lane.cur /\ lane'.closing = lane.closing
        /\ cleanup'.on = cleanup.on /\ pending' \in Seq(Queued) /\ DOMAIN pending' = DOMAIN pending
    BY <1>4, TickFields DEF Goes
  <2>2. pending = << >> => pending' = << >>
    BY <1>0, <2>1, LenProperties, EmptySeq DEF LaneType
  <2>3. UNCHANGED <<releaser, closer, registry, fail, lease, conn, stream>>
    BY <1>4 DEF Tick, users, port
  <2> QED BY <2>1, <2>2, <2>3
<1>5. CASE LaneNext
  <2>u. UNCHANGED <<releaser, closer>>
    BY <1>5, LaneFrame DEF users
  <2>1. CASE Top \/ HandleClose \/ Woken \/ Await \/ NoRelease
    <3>1. UNCHANGED <<registry, fail, pending, cleanup, lease, conn, stream>>
      BY <2>1 DEF Top, HandleClose, Woken, Await, NoRelease, queue, port
    <3> QED BY <2>1, <2>u, <3>1, RunPlaces DEF Goes, Holds
  <2>2. CASE Observe \/ Dispatch \/ MarkDispatched
    <3>1. /\ UNCHANGED <<registry, fail, cleanup, lease, conn, stream>>
          /\ lane.pc = "mark" \/ (pending = << >> => pending' = << >>)
      <4>1. CASE Dispatch
        BY <4>1 DEF Dispatch, FrontDue, port
      <4>2. CASE MarkDispatched
        BY <4>2 DEF MarkDispatched, Here, port
      <4>3. CASE Observe
        <5>1. \A E : Kept(<< >>, E) = << >>
          <6> TAKE E
          <6>1. << >> \in Seq({}) /\ DOMAIN << >> = {}
            BY EmptySeq
          <6>2. PICK f \in [DOMAIN Kept(<< >>, E) -> DOMAIN << >>] : TRUE
            BY <6>1, KeptEntries
          <6>3. Kept(<< >>, E) \in Seq({}) /\ DOMAIN Kept(<< >>, E) = {}
            BY <6>1, <6>2, KeptEntries
          <6> QED BY <6>3, LenProperties, EmptySeq
        <5>2. pending = << >> => pending' = << >>
          BY <4>3, <5>1 DEF Observe
        <5> QED BY <4>3, <5>2 DEF Observe, port
      <4> QED BY <2>2, <4>1, <4>2, <4>3
    <3>2. pending # << >> \/ lane'.pc \notin {"mark", "write"} \/ lane.pc = "mark"
      BY <2>2, RunPlaces DEF Goes
    <3> QED BY <2>2, <2>u, <3>1, <3>2, RunPlaces DEF Goes, Holds, LaneInv
  <2>3. CASE ClaimAccepted \/ CompleteClaim \/ FinishSuccess
    <3>1. UNCHANGED <<registry, fail, pending, cleanup, lease, conn, stream>>
      BY <2>3 DEF ClaimAccepted, CompleteClaim, FinishSuccess, queue, port
    <3> QED BY <2>3, <2>u, <3>1, RunPlaces DEF Goes
  <2>4. CASE AcceptReport \/ AcceptNeutral \/ AcceptRelease \/ AcceptFinal
    <3>1. UNCHANGED <<registry, fail, pending, cleanup, lease, conn, stream>> /\ stream
      BY <2>4 DEF AcceptReport, AcceptNeutral, AcceptRelease, AcceptFinal, Sent, queue, port
    <3> QED BY <2>4, <2>u, <3>1, WritePlaces DEF Goes
  <2>5. CASE WriteReportFails \/ WriteNeutralFails \/ WriteFinalFails
    <3>1. /\ UNCHANGED <<registry, fail, cleanup, lease>>
          /\ stream' => stream
          /\ conn' = "connected" => conn = "connected"
          /\ lane.cur.kind = "close" => UNCHANGED pending
      BY <1>0, <2>5, DroppedState, WritePlaces DEF WriteReportFails, WriteNeutralFails,
         WriteFinalFails, Fault, queue, port
    <3> QED BY <2>5, <2>u, <3>1, WritePlaces DEF Goes
  <2>6. CASE CleanupFails
    <3>1. /\ UNCHANGED <<registry, pending, cleanup, lease>>
          /\ ~stream' /\ fail' # "none" /\ conn' # "connected"
      BY <1>0, <2>6, DroppedState DEF CleanupFails, queue
    <3> QED BY <2>6, <2>u, <3>1, WritePlaces DEF Goes
  <2>7. CASE SealAfterFailure
    <3>1. /\ UNCHANGED <<fail, conn, stream>> /\ fail # "none"
          /\ registry'.settled = registry.settled
          /\ pending' = << >> /\ ~cleanup'.on /\ lease' = "none"
      BY <1>0, <2>7, EntryFields, WritePlaces DEF SealAfterFailure, UsersType, Registries, port
    <3> QED BY <2>7, <2>u, <3>1, WritePlaces DEF Holds
  <2>8. CASE StartRelease \/ CompleteRelease \/ WriteReleaseFails
    <3>1. /\ UNCHANGED <<registry, fail, pending>> /\ (stream' => stream)
          /\ conn' = "connected" => conn = "connected"
          /\ fail = "none" \/ ~LaneAlive
      <4>1. /\ UNCHANGED <<registry, fail, pending>> /\ (stream' => stream)
            /\ conn' = "connected" => conn = "connected"
        <5>1. CASE StartRelease
          BY <5>1 DEF StartRelease, port
        <5>2. CASE CompleteRelease
          BY <5>2 DEF CompleteRelease, port
        <5>3. CASE WriteReleaseFails
          BY <1>0, <5>3, DroppedState DEF WriteReleaseFails, Fault
        <5> QED BY <2>8, <5>1, <5>2, <5>3
      <4>2. StartRelease => cleanup.on
        BY DEF StartRelease, ReleaseDue
      <4> QED BY <2>8, <4>1, <4>2, WritePlaces, RunPlaces
    <3> QED BY <2>8, <2>u, <3>1, WritePlaces, RunPlaces DEF Holds
  <2>9. CASE HandleDirect \/ HandleBegin
    <3>1. /\ UNCHANGED <<registry, fail, conn, stream>>
          /\ fail # "none" => /\ UNCHANGED <<pending, cleanup>>
                              /\ lease = "none" => lease' = "none"
      BY <2>9 DEF HandleDirect, HandleBegin, port
    <3> QED BY <2>9, <2>u, <3>1, RunPlaces DEF Goes
  <2>10. CASE CloseLane
    <3>1. /\ UNCHANGED <<fail, pending, cleanup, lease, stream>> /\ conn' # "connected"
          /\ registry'.projection = registry.projection /\ registry'.settled = registry.settled
      BY <1>0, <2>10 DEF CloseLane, Open, queue, UsersType, Registries
    <3> QED BY <2>10, <2>u, <3>1, ClosePlaces DEF Holds
  <2>11. CASE Collect
    <3>1. /\ UNCHANGED <<registry, fail, lease, conn, stream>> /\ pending' = << >>
          /\ lease = "none" /\ ~cleanup.on => ~cleanup'.on
      BY <2>11 DEF Collect, port
    <3> QED BY <2>11, <2>u, <3>1, ClosePlaces DEF Holds
  <2>12. CASE WriteFinal
    <3>1. /\ UNCHANGED <<registry, fail, pending, conn, stream>> /\ ~cleanup'.on
          /\ lease = "none" => lease' = "none"
      BY <2>12, EntryFields DEF WriteFinal, port
    <3> QED BY <2>12, <2>u, <3>1, ClosePlaces DEF Holds
  <2>13. CASE CloseStream
    <3>1. /\ UNCHANGED <<registry, pending, cleanup, conn>> /\ ~stream' /\ lease' = "none"
          /\ fail # "none" => fail' # "none"
      BY <2>13 DEF CloseStream
    <3>2. conn # "connected"
      BY <2>13, ClosePlaces DEF LaneInv, Closes
    <3> QED BY <2>13, <2>u, <3>1, <3>2, ClosePlaces DEF Holds
  <2>14. CASE SettleStream \/ LanePanics
    <3>1. /\ UNCHANGED fail /\ (conn' = "connected" => conn = "connected")
          /\ registry'.projection = registry.projection
          /\ registry'.settled => registry.settled \/ SettleStream
      BY <1>0, <2>14 DEF SettleStream, LanePanics, UsersType, Registries
    <3> QED BY <2>14, <2>u, <3>1, ClosePlaces DEF Over
  <2>15. CASE FailHeld
    <3>1. UNCHANGED <<registry, fail, pending, lease, cleanup, conn, stream>>
      BY <2>15 DEF FailHeld, queue, port
    <3> QED BY <2>15, <2>u, <3>1, ClosePlaces DEF Holds
  <2> QED
    BY <1>5, <2>1, <2>2, <2>3, <2>4, <2>5, <2>6, <2>7, <2>8, <2>9, <2>10, <2>11, <2>12,
       <2>13, <2>14, <2>15 DEF LaneNext
<1> QED
  BY <1>1, <1>2, <1>3, <1>4, <1>5, StepCases

-----------------------------------------------------------------------------
(* The queues *)

(* t has entries of s in other places, no entry of s twice.                  *)
Drawn(t, s) ==
  \E f \in [DOMAIN t -> DOMAIN s] :
    /\ \A k \in DOMAIN t : t[k] = s[f[k]]
    /\ \A k, l \in DOMAIN t : f[k] = f[l] => k = l

(* What is kept of a sequence, and its tail, are drawn from it. *)
LEMMA DrawnLess ==
  ASSUME NEW S, NEW s \in Seq(S)
  PROVE  /\ Drawn(s, s) /\ Drawn(<< >>, s) /\ << >> \in Seq(S)
         /\ \A E : Kept(s, E) \in Seq(S) /\ Drawn(Kept(s, E), s)
         /\ s # << >> => Tail(s) \in Seq(S) /\ Drawn(Tail(s), s)
<1>1. Drawn(s, s)
  <2> DEFINE f == [k \in DOMAIN s |-> k]
  <2>1. f \in [DOMAIN s -> DOMAIN s] /\ \A k \in DOMAIN s : f[k] = k
    OBVIOUS
  <2> QED BY <2>1 DEF Drawn
<1>2. Drawn(<< >>, s) /\ << >> \in Seq(S)
  <2> DEFINE f == [k \in {} |-> k]
  <2>1. f \in [DOMAIN << >> -> DOMAIN s] /\ DOMAIN << >> = {} /\ << >> \in Seq(S)
    BY EmptySeq
  <2> QED BY <2>1 DEF Drawn
<1>3. \A E : Kept(s, E) \in Seq(S) /\ Drawn(Kept(s, E), s)
  <2> TAKE E
  <2>1. /\ Kept(s, E) \in Seq(S)
        /\ \E f \in [DOMAIN Kept(s, E) -> DOMAIN s] :
             /\ \A k \in DOMAIN Kept(s, E) : Kept(s, E)[k] = s[f[k]] /\ s[f[k]] \in E
             /\ \A k, l \in DOMAIN Kept(s, E) : f[k] = f[l] => k = l
    BY KeptEntries
  <2>2. PICK f \in [DOMAIN Kept(s, E) -> DOMAIN s] :
          /\ \A k \in DOMAIN Kept(s, E) : Kept(s, E)[k] = s[f[k]] /\ s[f[k]] \in E
          /\ \A k, l \in DOMAIN Kept(s, E) : f[k] = f[l] => k = l
    BY <2>1
  <2>3. \A k \in DOMAIN Kept(s, E) : Kept(s, E)[k] = s[f[k]]
    BY <2>2
  <2> QED BY <2>1, <2>2, <2>3 DEF Drawn
<1>4. s # << >> => Tail(s) \in Seq(S) /\ Drawn(Tail(s), s)
  <2> SUFFICES ASSUME s # << >> PROVE Tail(s) \in Seq(S) /\ Drawn(Tail(s), s)
    OBVIOUS
  <2>1. /\ Tail(s) \in Seq(S) /\ Len(Tail(s)) = Len(s) - 1 /\ Len(s) \in Nat
        /\ \A i \in 1..Len(Tail(s)) : Tail(s)[i] = s[i + 1]
    BY HeadTailProperties, LenProperties
  <2>2. DOMAIN Tail(s) = 1..(Len(s) - 1) /\ DOMAIN s = 1..Len(s)
    BY <2>1, LenProperties
  <2> DEFINE f == [k \in 1..(Len(s) - 1) |-> k + 1]
  <2>3. f \in [DOMAIN Tail(s) -> DOMAIN s]
    BY <2>1, <2>2
  <2>4. /\ \A k \in DOMAIN Tail(s) : Tail(s)[k] = s[f[k]]
        /\ \A k, l \in DOMAIN Tail(s) : f[k] = f[l] => k = l
    BY <2>1, <2>2
  <2> QED BY <2>1, <2>3, <2>4 DEF Drawn
<1> QED
  BY <1>1, <1>2, <1>3, <1>4

(* The lane only takes commands. *)
LEMMA InboxDrawn ==
  ASSUME LaneType, LaneNext
  PROVE  inbox' \in Seq(Commands) /\ Drawn(inbox', inbox)
<1>1. inbox \in Seq(Commands)
  BY DEF LaneType
<1>2. CASE UNCHANGED inbox
  BY <1>1, <1>2, DrawnLess
<1>3. CASE inbox' = << >>
  BY <1>1, <1>3, DrawnLess
<1>4. CASE HandleDirect \/ HandleBegin \/ HandleClose
  <2>1. inbox # << >> /\ inbox' = Tail(inbox)
    BY <1>4 DEF HandleDirect, HandleBegin, HandleClose, Take
  <2> QED BY <1>1, <2>1, DrawnLess
<1>5. CASE Await
  BY <1>1, <1>5, DrawnLess DEF Await
<1>6. \/ UNCHANGED inbox \/ inbox' = << >> \/ HandleDirect \/ HandleBegin \/ HandleClose
      \/ Await
  BY DEF LaneNext, Top, Observe, Dispatch, MarkDispatched, AcceptReport, ClaimAccepted,
     CompleteClaim, FinishSuccess, WriteReportFails, AcceptNeutral, WriteNeutralFails,
     CleanupFails, SealAfterFailure, NoRelease, StartRelease, AcceptRelease,
     CompleteRelease, WriteReleaseFails, Woken, CloseLane, Collect, WriteFinal,
     AcceptFinal, WriteFinalFails, CloseStream, FailHeld, SettleStream, LanePanics
<1> QED
  BY <1>2, <1>3, <1>4, <1>5, <1>6

(* The reports of t were queued already.                                     *)
Reports(t) ==
  /\ t \in Seq(Queued)
  /\ \A k \in DOMAIN t : t[k].kind = "report" =>
       \E i \in DOMAIN pending : pending[i].kind = "report" /\ pending[i].a = t[k].a

(* Being queued before carries over to what is drawn. *)
LEMMA ReportsDrawn ==
  ASSUME NEW t \in Seq(Queued), NEW u \in Seq(Queued), Drawn(t, u), Reports(u)
  PROVE  Reports(t)
<1>1. PICK f \in [DOMAIN t -> DOMAIN u] : \A k \in DOMAIN t : t[k] = u[f[k]]
  BY DEF Drawn
<1>2. \A k \in DOMAIN t : f[k] \in DOMAIN u
  BY <1>1
<1> QED
  BY <1>1, <1>2 DEF Reports

(* It holds of the queue itself and of an empty one. *)
LEMMA ReportsOfPending ==
  ASSUME LaneType
  PROVE  Reports(pending) /\ Reports(<< >>) /\ pending \in Seq(Queued)
BY EmptySeq DEF LaneType, Reports

(* It holds of a queue with one more entry at the front. *)
LEMMA ReportsBehind ==
  ASSUME LaneType, NEW t \in Seq(Queued), Reports(t), NEW e \in Queued,
         e.kind = "report" =>
           \E i \in DOMAIN pending : pending[i].kind = "report" /\ pending[i].a = e.a
  PROVE  Reports(<<e>> \o t)
<1>1. <<e>> \in Seq(Queued) /\ Len(<<e>>) = 1 /\ <<e>>[1] = e
  OBVIOUS
<1>2. /\ <<e>> \o t \in Seq(Queued) /\ Len(<<e>> \o t) = 1 + Len(t) /\ Len(t) \in Nat
      /\ \A k \in 1..(1 + Len(t)) :
           (<<e>> \o t)[k] = IF k <= 1 THEN <<e>>[k] ELSE t[k - 1]
  BY <1>1, ConcatProperties, LenProperties
<1>3. DOMAIN (<<e>> \o t) = 1..(1 + Len(t)) /\ DOMAIN t = 1..Len(t)
  BY <1>2, LenProperties
<1>4. \A k \in 1..(1 + Len(t)) :
        (<<e>> \o t)[k] = e \/ \E j \in DOMAIN t : (<<e>> \o t)[k] = t[j]
  BY <1>1, <1>2, <1>3
<1> HIDE DEF Reports
<1>5. QED
  BY <1>2, <1>3, <1>4 DEF Reports

(* A neutral report may be queued. *)
LEMMA NeutralType ==
  ASSUME since \in 0..Interval, NEW a \in Actions, NEW t \in {"cancelled", "failed"}
  PROVE  Neutral(a, t) \in Queued /\ Neutral(a, t).kind = "neutral"
BY PacedType DEF Neutral, Queued

(* A report that failed queues no other report. *)
LEMMA FailedReports ==
  ASSUME TypeOK, lane.cur.kind = "report", lane.cur.a \in Actions, NEW b \in BOOLEAN,
         ReportFailed(b)
  PROVE  Reports(pending') /\ OwnersSettled
<1> DEFINE a == lane.cur.a
           rest == Without(pending, a)
           cancel == b \/ op[a].reason # "none"
<1>0. LaneType /\ pending \in Seq(Queued) /\ since \in 0..Interval
      /\ op \in [Actions -> Operations] /\ rec \in [Actions -> Records]
  BY DEF TypeOK, LaneType, PortType, OpsType
<1>1. rest \in Seq(Queued) /\ Drawn(rest, pending)
  BY <1>0, DrawnLess DEF Without
<1>2. Reports(rest)
  BY <1>0, <1>1, ReportsDrawn, ReportsOfPending
<1>3. \A t \in {"cancelled", "failed"} : Reports(<<Neutral(a, t)>> \o rest)
  BY <1>0, <1>1, <1>2, NeutralType, ReportsBehind
<1>4. CASE lane.cur.auto /\ gen.sealed
  <2>1. /\ pending' = rest
        /\ \/ op' = AfterCancellation(op, {a}) /\ rec' = OwnersTaken({a}, "finished")
           \/ op' = AfterFailure(op, {a}) /\ rec' = OwnersTaken({a}, "failed")
    BY <1>4 DEF ReportFailed
  <2> QED BY <1>0, <1>2, <2>1, Settlements
<1>5. CASE ~(lane.cur.auto /\ gen.sealed)
  <2>1. /\ \E t \in {"cancelled", "failed"} : pending' = <<Neutral(a, t)>> \o rest
        /\ op' = op /\ rec' = rec
    BY <1>5 DEF ReportFailed, ops
  <2> HIDE DEF rest, a
  <2> QED BY <1>0, <1>3, <2>1, Settlements
<1> QED
  BY <1>4, <1>5

(* What the lane queues was queued already, or is the command it took.       *)
Received ==
  /\ HandleDirect /\ inbox # << >> /\ Head(inbox).k = "direct"
  /\ pending' = Append(pending, Report(Head(inbox).a))

(* Reports come into the queue only by a direct command. *)
LEMMA PendingFrom ==
  ASSUME TypeOK, LaneInv, QueueInv, LaneNext
  PROVE  Reports(pending') \/ Received
<1>0. LaneType /\ pending \in Seq(Queued) /\ since \in 0..Interval
  BY DEF TypeOK, LaneType, PortType
<1>1. CASE UNCHANGED pending \/ pending' = << >>
  BY <1>0, <1>1, ReportsOfPending
<1>2. CASE Observe
  <2>1. \A E : Kept(pending, E) \in Seq(Queued) /\ Reports(Kept(pending, E))
    <3> TAKE E
    <3>1. Kept(pending, E) \in Seq(Queued) /\ Drawn(Kept(pending, E), pending)
      BY <1>0, DrawnLess
    <3> QED BY <1>0, <3>1, ReportsDrawn, ReportsOfPending
  <2> DEFINE seen == IF ResourceCancelled THEN Requested(op, PendingActions) ELSE op
             wanted == {e \in ToSet(pending) : seen[e.a].reason # "none"}
             stale == {e \in wanted : e.auto /\ gen.sealed}
             rest == Kept(pending, ToSet(pending) \ stale)
             cancelled == Kept(rest, {e \in wanted : e.kind = "report"})
  <2>2. pending' = IF cancelled = << >> THEN rest
                   ELSE <<Neutral(Head(cancelled).a, "cancelled")>>
                          \o Without(rest, Head(cancelled).a)
    BY <1>2 DEF Observe
  <2>3. rest \in Seq(Queued) /\ Reports(rest)
    BY <2>1
  <2> HIDE DEF rest
  <2>4. cancelled \in Seq(Queued)
    BY <2>3, DrawnLess
  <2> HIDE DEF cancelled
  <2>5. CASE cancelled = << >>
    BY <2>2, <2>3, <2>5
  <2>6. CASE cancelled # << >>
    <3> DEFINE a == Head(cancelled).a
    <3>1. a \in Actions
      BY <2>4, <2>6, QueuedFields
    <3>2. Without(rest, a) \in Seq(Queued) /\ Drawn(Without(rest, a), rest)
      BY <2>3, DrawnLess DEF Without
    <3>3. Reports(Without(rest, a))
      BY <2>3, <3>2, ReportsDrawn
    <3>4. pending' = <<Neutral(a, "cancelled")>> \o Without(rest, a)
      BY <2>2, <2>6
    <3> HIDE DEF a
    <3> QED BY <1>0, <3>1, <3>2, <3>3, <3>4, NeutralType, ReportsBehind
  <2> QED BY <2>5, <2>6
<1>3. CASE Dispatch
  <2>1. pending # << >> => Tail(pending) \in Seq(Queued) /\ Reports(Tail(pending))
    <3>1. pending # << >> => Tail(pending) \in Seq(Queued) /\ Drawn(Tail(pending), pending)
      BY <1>0, DrawnLess
    <3> QED BY <1>0, <3>1, ReportsDrawn, ReportsOfPending
  <2>2. CASE UNCHANGED pending \/ (pending # << >> /\ pending' = Tail(pending))
    BY <1>0, <2>1, <2>2, ReportsOfPending
  <2>3. CASE pending # << >> /\ pending' = <<[pending[1] EXCEPT !.due = Paced]>> \o Tail(pending)
    <3> DEFINE e == [pending[1] EXCEPT !.due = Paced]
    <3>1. pending[1] \in Queued /\ 1 \in DOMAIN pending
      BY <1>0, <2>3, QueuedFields, LenProperties, EmptySeq
    <3>2. Paced \in 0..Interval
      BY <1>0, PacedType
    <3>3. e \in Queued /\ e.kind = pending[1].kind /\ e.a = pending[1].a
      BY <3>1, <3>2 DEF Queued
    <3>4. pending' = <<e>> \o Tail(pending)
      BY <2>3
    <3> HIDE DEF e
    <3> QED BY <1>0, <2>1, <2>3, <3>1, <3>3, <3>4, ReportsBehind
  <2> QED BY <1>3, <2>2, <2>3 DEF Dispatch, FrontDue
<1>4. CASE MarkDispatched \/ WriteReportFails
  <2>1. \/ UNCHANGED pending
        \/ \E b \in BOOLEAN : ReportFailed(b)
    BY <1>4 DEF MarkDispatched, WriteReportFails
  <2>2. lane.cur.kind = "report" /\ lane.cur.a \in Actions
    BY <1>4, RunPlaces, WritePlaces DEF LaneInv, QueueInv, Reporting, Serving
  <2> QED BY <1>1, <2>1, <2>2, FailedReports
<1>5. CASE HandleDirect
  BY <1>1, <1>5 DEF HandleDirect, Take, Received
<1>6. CASE HandleBegin
  <2>1. \A E : Reports(Kept(pending, E))
    <3> TAKE E
    <3>1. Kept(pending, E) \in Seq(Queued) /\ Drawn(Kept(pending, E), pending)
      BY <1>0, DrawnLess
    <3> QED BY <1>0, <3>1, ReportsDrawn, ReportsOfPending
  <2> QED BY <1>1, <1>6, <2>1 DEF HandleBegin
<1>7. \/ UNCHANGED pending \/ pending' = << >> \/ Observe \/ Dispatch \/ MarkDispatched
      \/ WriteReportFails \/ HandleDirect \/ HandleBegin
  BY DEF LaneNext, Top, AcceptReport, ClaimAccepted,
     CompleteClaim, FinishSuccess, AcceptNeutral, WriteNeutralFails,
     CleanupFails, SealAfterFailure, NoRelease, StartRelease, AcceptRelease,
     CompleteRelease, WriteReleaseFails, HandleClose, Woken, Await, CloseLane, Collect,
     WriteFinal, AcceptFinal, WriteFinalFails, CloseStream, FailHeld, SettleStream, LanePanics, queue
<1> QED
  BY <1>1, <1>2, <1>3, <1>4, <1>5, <1>6, <1>7

-----------------------------------------------------------------------------
(* What a submitting thread does to the records                              *)

(* Nothing but a is touched. *)
Only(a) ==
  /\ op' \in [Actions -> Operations] /\ rec' \in [Actions -> Records]
  /\ \A b \in Actions \ {a} : Keep(b)

Moves(a, from, to) ==
  /\ rec[a].st = from /\ rec'[a].st = to /\ rec'[a].strict = rec[a].strict
  /\ op'[a].outcome = op[a].outcome

(* The steps of a submission, by the places they lead from and to.           *)
SubGoes(a, from, to) == sub[a] = from /\ sub' = [sub EXCEPT ![a] = to]

Refused(a) == IF a \in leased THEN "refuse" ELSE "refused"
Passed(a)  == IF a \in leased THEN "resolve" ELSE "done"
Shut == fail # "none" \/ Closing

Reserves(a) == /\ a \in leased /\ Keep(a)
               /\ \/ SubGoes(a, "idle", "reserved") /\ ~gen.sealed
                  \/ SubGoes(a, "idle", "refused")
Creates(a)  == LET from == IF a \in leased THEN "reserved" ELSE "idle" IN
               \/ Keep(a) /\ Shut /\ SubGoes(a, from, Refused(a))
               \/ Moves(a, "absent", "notDispatched") /\ SubGoes(a, from, "created")
Sends(a)    == \/ /\ SubGoes(a, "created", Refused(a)) /\ Shut
                  /\ ~HasOwner(rec'[a]) /\ (Keep(a) \/ Close(a))
               \/ SubGoes(a, "created", Passed(a)) /\ (Keep(a) \/ Close(a))
Resolves(a) == \/ Keep(a) /\ SubGoes(a, "refuse", "wakeRefused")
               \/ Keep(a) /\ SubGoes(a, "refuse", "refused")
               \/ Keep(a) /\ SubGoes(a, "resolve", "dispatched") /\ a \in gen'.actions
               \/ Keep(a) /\ SubGoes(a, "resolve", "done") /\ a \in gen'.actions
               \/ /\ Moves(a, "notDispatched", "finished") /\ a \in gen'.actions
                  /\ SubGoes(a, "resolve", "reject")
Rejects(a)  == /\ SubGoes(a, "reject", "wakeRefused") /\ rec'[a] = rec[a]
               /\ op'[a].outcome \in {"strict", "cancelled"}
Others(a)   == /\ Keep(a) \/ (Close(a) /\ fail # "none")
               /\ \/ SubGoes(a, "dispatched", "wakeDone")
                  \/ Keep(a) /\ SubGoes(a, "wakeRefused", "refused")
                  \/ Keep(a) /\ SubGoes(a, "wakeDone", "done")
                  \/ Keep(a) /\ UNCHANGED sub /\ sub[a] = "done"

Submits(a) ==
  /\ Only(a)
  /\ gen' \in [sealed : {gen.sealed}, actions : SUBSET Actions]
  /\ gen.actions \subseteq gen'.actions /\ gen'.actions \subseteq leased
  /\ \/ Reserves(a) \/ Creates(a) \/ Sends(a) \/ Resolves(a) \/ Rejects(a) \/ Others(a)

(* If the others keep their records, only this one is settled. *)
LEMMA OnlyOwn ==
  ASSUME OwnersSettled, NEW a \in Actions, \A b \in Actions \ {a} : Keep(b)
  PROVE  Only(a) /\ (Keep(a) \/ Close(a))
BY DEF OwnersSettled, Only

(* Of the settlements of one action only that action is touched, and its     *)
(* owner is gone.                                                            *)
LEMMA OwnSettlements ==
  ASSUME op \in [Actions -> Operations], rec \in [Actions -> Records],
         NEW a \in Actions
  PROVE
    /\ op' = AfterCancellation(op, {a}) /\ rec' = OwnersTaken({a}, "finished") =>
         Only(a) /\ (Keep(a) \/ Close(a)) /\ ~HasOwner(rec'[a])
    /\ op' = Requested(op, {a}) /\ rec' = rec => Only(a) /\ Keep(a)
    /\ op' = AfterStrict(op, {a}) /\ rec' = StrictRecords({a})
         /\ (\A b \in Actions : rec[b].st \notin Effective) =>
         Only(a) /\ (Keep(a) \/ Close(a)) /\ ~HasOwner(rec'[a])
    /\ op' = op /\ rec' = rec => Only(a) /\ Keep(a)
<1>1. ASSUME op' = AfterCancellation(op, {a}), rec' = OwnersTaken({a}, "finished")
      PROVE  Only(a) /\ (Keep(a) \/ Close(a)) /\ ~HasOwner(rec'[a])
  <2>1. OwnersSettled
    BY <1>1, Settlements
  <2>2. \A b \in Actions \ {a} : Keep(b)
    BY <1>1, CancelledOps, TakenRecords DEF Keep
  <2>3. ~HasOwner(rec'[a])
    <3>1. rec'[a].st = "finished" \/ (~HasOwner(rec[a]) /\ rec'[a] = rec[a])
      BY <1>1, TakenRecords
    <3> QED BY <3>1 DEF HasOwner
  <2> QED BY <2>1, <2>2, <2>3, OnlyOwn
<1>2. ASSUME op' = Requested(op, {a}), rec' = rec
      PROVE  Only(a) /\ Keep(a)
  BY <1>2, RequestedOps DEF Only, Keep
<1>3. ASSUME op' = AfterStrict(op, {a}), rec' = StrictRecords({a}),
             \A b \in Actions : rec[b].st \notin Effective
      PROVE  Only(a) /\ (Keep(a) \/ Close(a)) /\ ~HasOwner(rec'[a])
  <2>1. OwnersSettled
    BY <1>3, StrictSettles
  <2>2. \A b \in Actions \ {a} : Keep(b)
    BY <1>3 DEF Keep, AfterStrict, StrictRecords
  <2>3. ~HasOwner(rec'[a])
    <3>1. rec[a] \in Records /\ rec[a].st \notin {"reserved", "claiming", "claimed"}
      BY <1>3 DEF Effective
    <3>2. HasOwner(rec[a]) => rec'[a] = [rec[a] EXCEPT !.st = "failed"]
      BY <1>3 DEF StrictRecords
    <3>3. ~HasOwner(rec[a]) => rec'[a] = rec[a]
      BY <1>3, <3>1 DEF StrictRecords
    <3> QED BY <3>1, <3>2, <3>3 DEF HasOwner, Records
  <2> QED BY <2>1, <2>2, <2>3, OnlyOwn
<1>4. ASSUME op' = op, rec' = rec
      PROVE  Only(a) /\ Keep(a)
  BY <1>4 DEF Only, Keep
<1> QED
  BY <1>1, <1>2, <1>3, <1>4

(* While a report's effect is not reported nothing has failed for good.      *)
LEMMA NoneEffective ==
  ASSUME \A a \in Actions : RecordInv(a),
         \/ fail # "none" \/ lane.pc = "ended"
         \/ lane.pc = "panicked" /\ closer \in {"takeover", "done"}
         \/ lane.pc \notin {"accepted", "claiming", "claimed", "panicked"}
  PROVE  \A a \in Actions : rec[a].st \notin Effective
BY DEF RecordInv, Effective

(* The steps of a submission, by what they do to the action. *)
LEMMA SubmissionSteps ==
  ASSUME TypeOK, \A b \in Actions : RecordInv(b), NEW a \in Actions,
         Submission(a) \/ CancelAction(a)
  PROVE  Submits(a)
<1>0. /\ op \in [Actions -> Operations] /\ rec \in [Actions -> Records]
      /\ sub \in [Actions -> SubPlaces] /\ gen \in [sealed : BOOLEAN, actions : SUBSET Actions]
      /\ gen.actions \subseteq leased /\ leased \subseteq Actions
  BY DEF TypeOK, OpsType, UsersType
<1>1. /\ op' = op /\ rec' = rec => Only(a) /\ Keep(a)
      /\ op' = op /\ rec' = rec => Only(a) /\ (Keep(a) \/ Close(a))
  BY <1>0, OwnSettlements
<1>2. gen' = gen => /\ gen' \in [sealed : {gen.sealed}, actions : SUBSET Actions]
                    /\ gen.actions \subseteq gen'.actions /\ gen'.actions \subseteq leased
  BY <1>0
<1>3. CASE Reserve(a)
  <2>1. Reserves(a)
    BY <1>1, <1>3 DEF Reserve, Reserves, SubTo, SubGoes, ops
  <2> QED BY <1>1, <1>2, <1>3, <2>1 DEF Reserve, ops, Submits
<1>4. CASE Create(a)
  <2>1. CASE Shut
    <3>0. UNCHANGED rec
      BY <1>4, <2>1 DEF Create, Shut
    <3>1. Creates(a)
      BY <3>0, <1>1, <1>4, <2>1 DEF Create, Creates, SubTo, SubGoes, Refused, Shut
    <3> QED BY <1>1, <1>2, <1>4, <3>0, <3>1 DEF Create, Submits
  <2>2. CASE SubTo(a, "created") /\ rec' = [rec EXCEPT ![a].st = "notDispatched"]
    <3>1. sub[a] \in {"idle", "reserved"}
      BY <1>4 DEF Create
    <3>2. rec[a].st = "absent" /\ rec[a] \in Records
      BY <1>0, <3>1 DEF RecordInv
    <3>3. op' = op
      BY <1>4 DEF Create
    <3>4. rec' \in [Actions -> Records] /\ \A b \in Actions \ {a} : rec'[b] = rec[b]
      BY <1>0, <2>2 DEF Records
    <3>5. rec'[a].st = "notDispatched" /\ rec'[a].strict = rec[a].strict
      BY <1>0, <2>2, <3>2 DEF Records
    <3>6. Only(a) /\ Moves(a, "absent", "notDispatched")
      BY <1>0, <3>2, <3>3, <3>4, <3>5 DEF Only, Keep, Moves
    <3>7. Creates(a)
      BY <1>4, <2>2, <3>6 DEF Create, Creates, SubTo, SubGoes
    <3> QED BY <1>2, <1>4, <3>6, <3>7 DEF Create, Submits
  <2> QED BY <1>4, <2>1, <2>2 DEF Create, Shut
<1>5. CASE Send(a)
  <2>1. sub[a] = "created" /\ gen' = gen
    BY <1>5 DEF Send
  <2>2. fail # "none" => \A b \in Actions : rec[b].st \notin Effective
    BY NoneEffective
  <2>3. CASE fail # "none" /\ Turned(a) /\ op' = AfterStrict(op, {a}) /\ rec' = StrictRecords({a})
    <3>1. Only(a) /\ (Keep(a) \/ Close(a)) /\ ~HasOwner(rec'[a])
      BY <1>0, <2>2, <2>3, OwnSettlements
    <3>2. Sends(a)
      BY <2>1, <2>3, <3>1 DEF Sends, SubGoes, Turned, SubTo, Refused, Shut
    <3> QED BY <1>2, <2>1, <3>1, <3>2 DEF Submits
  <2>4. CASE /\ op' = AfterCancellation(op, {a}) /\ rec' = OwnersTaken({a}, "finished")
             /\ (Turned(a) /\ Closing) \/ Admitted(a)
    <3>1. Only(a) /\ (Keep(a) \/ Close(a)) /\ ~HasOwner(rec'[a])
      BY <1>0, <2>4, OwnSettlements
    <3>2. Sends(a)
      BY <2>1, <2>4, <3>1 DEF Sends, SubGoes, Turned, Admitted, SubTo, Refused, Passed, Shut
    <3> QED BY <1>2, <2>1, <3>1, <3>2 DEF Submits
  <2>5. CASE Admitted(a) /\ UNCHANGED ops
    <3>1. Only(a) /\ Keep(a)
      BY <1>1, <2>5 DEF ops
    <3>2. Sends(a)
      BY <2>1, <2>5, <3>1 DEF Sends, SubGoes, Admitted, SubTo, Passed
    <3> QED BY <1>2, <2>1, <3>1, <3>2 DEF Submits
  <2> QED BY <1>5, <2>3, <2>4, <2>5 DEF Send
<1>6. CASE Resolve(a)
  <2>0. op' = op
    BY <1>6 DEF Resolve
  <2>1. CASE sub[a] = "refuse"
    <3>1. UNCHANGED <<gen, rec>> /\ SubTo(a, IF gen.sealed THEN "wakeRefused" ELSE "refused")
      BY <1>6, <2>1 DEF Resolve
    <3>2. Resolves(a)
      BY <1>1, <2>0, <2>1, <3>1 DEF Resolves, SubTo, SubGoes
    <3> QED BY <1>1, <1>2, <2>0, <3>1, <3>2 DEF Submits
  <2>2. CASE sub[a] = "resolve"
    <3>1. a \in leased /\ gen' = [gen EXCEPT !.actions = @ \union {a}]
      BY <1>6, <2>2 DEF Resolve, RecordInv
    <3>2. /\ gen' \in [sealed : {gen.sealed}, actions : SUBSET Actions]
          /\ gen.actions \subseteq gen'.actions /\ gen'.actions \subseteq leased
          /\ a \in gen'.actions
      BY <1>0, <3>1
    <3>3. CASE gen.sealed /\ rec[a].st = "notDispatched"
      <4>1. rec' = [rec EXCEPT ![a].st = "finished"] /\ SubTo(a, "reject")
        BY <1>6, <2>2, <3>3 DEF Resolve
      <4>2. /\ rec' \in [Actions -> Records] /\ \A b \in Actions \ {a} : rec'[b] = rec[b]
            /\ rec'[a].st = "finished" /\ rec'[a].strict = rec[a].strict
        BY <1>0, <4>1 DEF Records
      <4>3. Only(a) /\ Moves(a, "notDispatched", "finished")
        BY <1>0, <2>0, <3>3, <4>2 DEF Only, Keep, Moves
      <4>4. Resolves(a)
        BY <2>2, <3>2, <4>1, <4>3 DEF Resolves, SubTo, SubGoes
      <4> QED BY <3>2, <4>3, <4>4 DEF Submits
    <3>4. CASE ~(gen.sealed /\ rec[a].st = "notDispatched")
      <4>1. UNCHANGED rec /\ SubTo(a, IF gen.sealed THEN "dispatched" ELSE "done")
        BY <1>6, <2>2, <3>4 DEF Resolve
      <4>2. Resolves(a)
        BY <1>1, <2>0, <2>2, <3>2, <4>1 DEF Resolves, SubTo, SubGoes
      <4> QED BY <1>1, <2>0, <3>2, <4>1, <4>2 DEF Submits
    <3> QED BY <3>3, <3>4
  <2> QED BY <1>6, <2>1, <2>2 DEF Resolve
<1>7. CASE Reject(a)
  <2>1. \A o \in Operations : /\ StrictlyFailed(o) \in Operations /\ Cancelled(o) \in Operations
                              /\ StrictlyFailed(o).outcome = "strict"
                              /\ Cancelled(o).outcome = "cancelled"
    BY DEF StrictlyFailed, Cancelled, Operations, Outcomes
  <2>2. PICK o \in Operations : op' = [op EXCEPT ![a] = o] /\ o.outcome \in {"strict", "cancelled"}
    BY <1>0, <1>7, <2>1 DEF Reject
  <2>3. op' \in [Actions -> Operations] /\ op'[a] = o /\ \A b \in Actions \ {a} : op'[b] = op[b]
    BY <1>0, <2>2
  <2>4. Only(a) /\ Rejects(a)
    BY <1>0, <1>7, <2>2, <2>3 DEF Reject, Only, Keep, Rejects, SubTo, SubGoes
  <2> QED BY <1>2, <1>7, <2>4 DEF Reject, Submits
<1>8. CASE CancelDispatched(a)
  <2>1. fail # "none" => \A b \in Actions : rec[b].st \notin Effective
    BY NoneEffective
  <2>2. Only(a) /\ (Keep(a) \/ (Close(a) /\ fail # "none"))
    <3>1. CASE fail = "none"
      BY <1>0, <1>8, <3>1, OwnSettlements DEF CancelDispatched
    <3>2. CASE fail # "none"
      BY <1>0, <1>8, <2>1, <3>2, OwnSettlements DEF CancelDispatched
    <3> QED BY <3>1, <3>2
  <2>3. Others(a)
    BY <1>8, <2>2 DEF CancelDispatched, Others, SubTo, SubGoes
  <2> QED BY <1>2, <1>8, <2>2, <2>3 DEF CancelDispatched, Submits
<1>9. CASE WakeLane(a)
  <2>1. Others(a)
    BY <1>1, <1>9 DEF WakeLane, Others, SubTo, SubGoes, ops
  <2> QED BY <1>1, <1>2, <1>9, <2>1 DEF WakeLane, Submits, ops
<1>10. CASE CancelAction(a)
  <2>1. op' = [op EXCEPT ![a].reason = "user"] /\ rec' = rec /\ gen' = gen /\ sub' = sub
        /\ sub[a] = "done"
    BY <1>10 DEF CancelAction, users
  <2>2. op' \in [Actions -> Operations] /\ \A b \in Actions : op'[b].outcome = op[b].outcome
    BY <1>0, <2>1 DEF Operations
  <2>3. Only(a) /\ Keep(a)
    BY <1>0, <2>1, <2>2 DEF Only, Keep
  <2>4. Others(a)
    BY <2>1, <2>3 DEF Others
  <2> QED BY <1>2, <2>1, <2>3, <2>4 DEF Submits
<1> QED
  BY <1>3, <1>4, <1>5, <1>6, <1>7, <1>8, <1>9, <1>10 DEF Submission

(* A submission moves its own place only, and what is known stays known. *)
LEMMA SubmissionPlaces ==
  ASSUME sub \in [Actions -> SubPlaces], NEW a \in Actions, Submits(a)
  PROVE  /\ sub' \in [Actions -> SubPlaces]
         /\ \A b \in Actions \ {a} : sub'[b] = sub[b]
         /\ Known(a) => Known(a)'
<1>1. \A from, to : SubGoes(a, from, to) =>
        /\ sub[a] = from /\ sub'[a] = to /\ \A b \in Actions \ {a} : sub'[b] = sub[b]
        /\ to \in SubPlaces => sub' \in [Actions -> SubPlaces]
  BY DEF SubGoes
<1>2. Refused(a) \in SubPlaces /\ Passed(a) \in SubPlaces /\ Refused(a) \in {"refuse", "refused"}
      /\ Passed(a) \in {"resolve", "done"}
  BY DEF Refused, Passed, SubPlaces
<1>3. CASE Reserves(a)
  BY <1>1, <1>3 DEF Reserves, Known, SubPlaces
<1>4. CASE Creates(a)
  BY <1>1, <1>2, <1>4 DEF Creates, Known, SubPlaces
<1>5. CASE Sends(a)
  BY <1>1, <1>2, <1>5 DEF Sends, Known
<1>6. CASE Resolves(a)
  BY <1>1, <1>6 DEF Resolves, Known, SubPlaces
<1>7. CASE Rejects(a)
  BY <1>1, <1>7 DEF Rejects, Known, SubPlaces
<1>8. CASE Others(a)
  BY <1>1, <1>8 DEF Others, Known, SubPlaces
<1> QED
  BY <1>3, <1>4, <1>5, <1>6, <1>7, <1>8 DEF Submits

-----------------------------------------------------------------------------
(* What the releasing and the closing thread do to the records               *)

(* Moving one record on leaves the other records and all outcomes. *)
LEMMA MoveRecord ==
  ASSUME op \in [Actions -> Operations], rec \in [Actions -> Records], NEW c \in Actions,
         NEW st \in {"outstanding", "reserved", "claiming", "claimed", "finished", "failed"},
         op' = op, rec' = [rec EXCEPT ![c].st = st]
  PROVE  /\ Only(c) /\ rec'[c].st = st /\ rec'[c].strict = rec[c].strict
         /\ op'[c].outcome = op[c].outcome
<1>1. /\ rec' \in [Actions -> Records] /\ \A b \in Actions \ {c} : rec'[b] = rec[b]
      /\ rec'[c].st = st /\ rec'[c].strict = rec[c].strict
  BY DEF Records
<1> QED
  BY <1>1 DEF Only, Keep

SealsQuietly ==
  /\ OwnersSettled /\ (fail # "none" \/ \A b \in Actions : Keep(b))
  /\ releaser.pc # "finish" /\ releaser'.pc # "finish"
  /\ releaser'.pc = "take" => releaser'.cur \in Actions
SealTakes(c) ==
  /\ Only(c) /\ Moves(c, "notDispatched", "finished")
  /\ releaser.pc = "take" /\ releaser.cur = c
  /\ releaser'.pc = "finish" /\ releaser'.cur = c
SealSettles(c) ==
  /\ Only(c) /\ rec'[c] = rec[c] /\ op'[c].outcome = "cancelled"
  /\ releaser.pc = "finish" /\ releaser.cur = c /\ releaser'.pc = "settle"

(* The releasing thread settles quietly, or takes one owner, or settles what *)
(* it took.                                                                  *)
LEMMA ReleaseSteps ==
  ASSUME TypeOK, \A b \in Actions : RecordInv(b), FailInv, ServingInv, ReleaseStep
  PROVE  SealsQuietly \/ \E c \in Actions : SealTakes(c) \/ SealSettles(c)
<1>0. /\ op \in [Actions -> Operations] /\ rec \in [Actions -> Records] /\ releaser \in Releasers
  BY DEF TypeOK, OpsType, UsersType
<1>1. op' = op /\ rec' = rec => OwnersSettled /\ \A b \in Actions : Keep(b)
  BY <1>0 DEF OwnersSettled, Keep
<1>2. CASE SealGeneration \/ ReadFailure \/ Track \/ SendBegin
  <2>1. op' = op /\ rec' = rec
    BY <1>2 DEF SealGeneration, ReadFailure, Track, SendBegin, ops
  <2>2. releaser.pc # "finish" /\ releaser'.pc \notin {"finish", "take"}
    BY <1>0, <1>2 DEF SealGeneration, ReadFailure, Track, SendBegin, Releasers
  <2> QED BY <1>1, <2>1, <2>2 DEF SealsQuietly
<1>3. ASSUME NEW a \in Actions, VisitSealed(a)
      PROVE  SealsQuietly
  <2>1. releaser.pc = "settle"
    BY <1>3 DEF VisitSealed
  <2>2. CASE releaser' = [releaser EXCEPT !.todo = @ \ {a}]
             /\ (UNCHANGED ops \/ (releaser.failure /\ op' = AfterStrict(op, {a})
                                    /\ rec' = StrictRecords({a})))
    <3>1. releaser.failure => fail # "none"
      BY DEF FailInv
    <3>2. releaser.failure => \A b \in Actions : rec[b].st \notin Effective
      BY <3>1, NoneEffective
    <3>3. OwnersSettled /\ (fail # "none" \/ \A b \in Actions : Keep(b))
      BY <1>0, <1>1, <2>2, <3>1, <3>2, StrictSettles DEF ops
    <3>4. releaser'.pc = "settle"
      BY <1>0, <2>1, <2>2 DEF Releasers
    <3> QED BY <2>1, <3>3, <3>4 DEF SealsQuietly
  <2>3. CASE /\ releaser' = [releaser EXCEPT !.pc = "take", !.cur = a, !.todo = @ \ {a}]
             /\ op' = Requested(op, {a}) /\ UNCHANGED rec
    <3>1. OwnersSettled /\ \A b \in Actions : Keep(b)
      BY <1>0, <2>3, Settlements, RequestedOps DEF Keep
    <3>2. releaser'.pc = "take" /\ releaser'.cur = a
      BY <1>0, <2>3 DEF Releasers
    <3> QED BY <1>3, <2>1, <3>1, <3>2 DEF SealsQuietly
  <2> QED BY <1>3, <2>2, <2>3 DEF VisitSealed
<1>4. CASE TakeUndispatched
  <2> DEFINE c == releaser.cur
  <2>1. releaser.pc = "take" /\ c \in Actions /\ op' = op
    BY <1>4 DEF TakeUndispatched, ServingInv
  <2>2. CASE Undispatched(c)
    <3>1. rec' = [rec EXCEPT ![c].st = "finished"] /\ releaser' = [releaser EXCEPT !.pc = "finish"]
      BY <1>4, <2>2 DEF TakeUndispatched
    <3>2. Only(c) /\ Moves(c, "notDispatched", "finished")
      BY <1>0, <2>1, <2>2, <3>1, MoveRecord DEF Moves, Undispatched
    <3>3. releaser'.pc = "finish" /\ releaser'.cur = c
      BY <1>0, <3>1 DEF Releasers
    <3> HIDE DEF c
    <3>4. SealTakes(c)
      BY <2>1, <3>2, <3>3 DEF SealTakes, c
    <3> QED BY <2>1, <3>4
  <2>3. CASE ~Undispatched(c)
    <3>1. rec' = rec /\ releaser' = [releaser EXCEPT !.pc = "settle", !.cur = "none"]
      BY <1>4, <2>3 DEF TakeUndispatched
    <3>2. releaser'.pc = "settle"
      BY <1>0, <3>1 DEF Releasers
    <3> QED BY <1>1, <2>1, <3>1, <3>2 DEF SealsQuietly
  <2> QED BY <2>2, <2>3
<1>5. CASE SettleUndispatched
  <2> DEFINE c == releaser.cur
             o == Cancelled(op[c])
  <2>1. releaser.pc = "finish" /\ c \in Actions /\ rec' = rec /\ op' = [op EXCEPT ![c] = o]
        /\ releaser' = [releaser EXCEPT !.pc = "settle", !.cur = "none"]
    BY <1>5 DEF SettleUndispatched, ServingInv
  <2>2. o \in Operations /\ o.outcome = "cancelled"
    BY <1>0, <2>1 DEF Cancelled, Operations, Outcomes
  <2> HIDE DEF o, c
  <2>3. op' \in [Actions -> Operations] /\ op'[c] = o /\ \A b \in Actions \ {c} : op'[b] = op[b]
    BY <1>0, <2>1, <2>2
  <2>4. releaser'.pc = "settle"
    BY <1>0, <2>1 DEF Releasers
  <2>5. SealSettles(c)
    BY <1>0, <2>1, <2>2, <2>3, <2>4 DEF SealSettles, Only, Keep, c
  <2> QED BY <2>1, <2>5
<1> QED
  BY <1>2, <1>3, <1>4, <1>5 DEF ReleaseStep, ReleaseNext

(* Joining the lane reports what was accepted; nothing else is settled.      *)
Joins == {a \in Actions : rec[a].st \in {"reserved", "claimed"}}

(* The closing thread settles only the accepted reports a panicking lane     *)
(* left.                                                                     *)
LEMMA CloseSteps ==
  ASSUME TypeOK, \A b \in Actions : RecordInv(b), CloseStep
  PROVE  /\ op' \in [Actions -> Operations] /\ rec' \in [Actions -> Records]
         /\ \/ \A b \in Actions : Keep(b)
            \/ /\ lane.pc = "panicked" /\ closer' = "takeover"
               /\ \A b \in Actions \ Joins : Keep(b)
               /\ \A b \in Joins : /\ rec'[b].st = "finished" /\ rec'[b].strict = rec[b].strict
                                   /\ op'[b].outcome = "success"
<1>0. /\ op \in [Actions -> Operations] /\ rec \in [Actions -> Records]
  BY DEF TypeOK, OpsType
<1>1. CASE op' = op /\ rec' = rec
  BY <1>0, <1>1 DEF Keep
<1>2. CASE JoinLane /\ lane.pc # "ended"
  <2> DEFINE S == {a \in Actions : rec[a].st \in {"reserved", "claimed"}}
  <2>1. /\ lane.pc = "panicked" /\ closer' = "takeover"
        /\ op' = [a \in Actions |->
                    IF a \in S THEN [op[a] EXCEPT !.outcome =
                      IF rec[a].st = "reserved" /\ rec[a].strict THEN "strict" ELSE "success"]
                    ELSE op[a]]
        /\ rec' = [a \in Actions |->
                    IF a \in S THEN [rec[a] EXCEPT !.st =
                      IF rec[a].st = "reserved" /\ rec[a].strict THEN "failed" ELSE "finished"]
                    ELSE rec[a]]
    BY <1>2 DEF JoinLane, LaneAlive
  <2>2. \A a \in Actions : ~rec[a].strict /\ op[a] \in Operations /\ rec[a] \in Records
    BY <1>0 DEF RecordInv
  <2>3. \A a \in Actions \ S : op'[a] = op[a] /\ rec'[a] = rec[a]
    BY <2>1
  <2>4. \A a \in S : op'[a] = [op[a] EXCEPT !.outcome = "success"]
                     /\ rec'[a] = [rec[a] EXCEPT !.st = "finished"]
    BY <2>1, <2>2
  <2>5. \A a \in S : /\ op'[a] \in Operations /\ rec'[a] \in Records
                     /\ op'[a].outcome = "success" /\ rec'[a].st = "finished"
                     /\ rec'[a].strict = rec[a].strict
    <3> TAKE a \in S
    <3>1. a \in Actions
      OBVIOUS
    <3>2. /\ [op[a] EXCEPT !.outcome = "success"] \in Operations
          /\ [op[a] EXCEPT !.outcome = "success"].outcome = "success"
      BY <2>2, <3>1 DEF Operations, Outcomes
    <3>3. /\ [rec[a] EXCEPT !.st = "finished"] \in Records
          /\ [rec[a] EXCEPT !.st = "finished"].st = "finished"
          /\ [rec[a] EXCEPT !.st = "finished"].strict = rec[a].strict
      BY <2>2, <3>1 DEF Records
    <3> QED BY <2>4, <3>2, <3>3
  <2>6. op' = [a \in Actions |-> op'[a]] /\ rec' = [a \in Actions |-> rec'[a]]
    BY <2>1
  <2>7. S = Joins
    BY DEF Joins
  <2> HIDE DEF S
  <2>8. op' \in [Actions -> Operations] /\ rec' \in [Actions -> Records]
    BY <2>2, <2>3, <2>5, <2>6
  <2> QED BY <2>1, <2>3, <2>5, <2>7, <2>8 DEF Keep
<1>3. (op' = op /\ rec' = rec) \/ (JoinLane /\ lane.pc # "ended")
  BY DEF CloseStep, CloseNext, CloseIntent, CloseInterrupt, CancelResource, SendClose,
         JoinLane, RecordOwnershipLoss, ops
<1> QED
  BY <1>1, <1>2, <1>3

-----------------------------------------------------------------------------
(* What the lane does to the records                                         *)
LaneQuiet == OwnersSettled /\ UNCHANGED accepted /\ \A b \in Actions : rec[b].st \notin Effective

(* The steps of one report, up to the outcome of its action.                 *)
Marks(c)     == /\ Only(c) /\ Moves(c, "notDispatched", "outstanding") /\ UNCHANGED accepted
                /\ lane.pc = "mark" /\ Goes({"write"})
Accepts(c)   == /\ Only(c) /\ Moves(c, "outstanding", "reserved")
                /\ accepted' = accepted \union {c}
                /\ lane.pc = "write" /\ Goes({"accepted"})
Claims(c)    == /\ Only(c) /\ Moves(c, "reserved", "claiming") /\ UNCHANGED accepted
                /\ lane.pc = "accepted" /\ Goes({"claiming"})
Completes(c) == /\ Only(c) /\ Moves(c, "claiming", "claimed") /\ UNCHANGED accepted
                /\ lane.pc = "claiming" /\ Goes({"claimed"})
Finishes(c)  == /\ Only(c) /\ rec[c].st = "claimed" /\ rec'[c].st = "finished"
                /\ rec'[c].strict = rec[c].strict /\ op'[c].outcome = "success"
                /\ UNCHANGED accepted
                /\ lane.pc = "claimed" /\ Goes({"dispatch"})
Reported(c)  == Marks(c) \/ Accepts(c) \/ Claims(c) \/ Completes(c) \/ Finishes(c)

(* A step of the lane settles owners, or it carries its own report a step    *)
(* on.                                                                       *)
LEMMA LaneSettles ==
  ASSUME TypeOK, LaneInv, FailInv, QueueInv, \A b \in Actions : RecordInv(b), LaneNext,
         ~LanePanics
  PROVE  \/ LaneQuiet
         \/ MarkDispatched /\ rec[lane.cur.a].st = "notDispatched"
         \/ AcceptReport \/ ClaimAccepted \/ CompleteClaim \/ FinishSuccess
<1>0. op \in [Actions -> Operations] /\ rec \in [Actions -> Records]
  BY DEF TypeOK, OpsType
<1>p. lane.pc \notin {"accepted", "claiming", "claimed", "panicked"} =>
        \A b \in Actions : rec[b].st \notin Effective
  BY NoneEffective
<1>f. fail # "none" => \A b \in Actions : rec[b].st \notin Effective
  BY NoneEffective
<1>1. CASE \/ Top \/ Dispatch \/ CleanupFails \/ NoRelease \/ StartRelease \/ AcceptRelease
           \/ WriteReleaseFails \/ HandleClose \/ Woken \/ Await \/ CloseLane
           \/ WriteFinal \/ AcceptFinal \/ WriteFinalFails \/ SettleStream \/ CompleteRelease
  <2>1. /\ op' = op /\ rec' = rec /\ accepted' = accepted
        /\ lane.pc \notin {"accepted", "claiming", "claimed", "panicked"}
    BY <1>1 DEF Top, Dispatch, CleanupFails, NoRelease, StartRelease, AcceptRelease,
       WriteReleaseFails, HandleClose, Woken, Await, CloseLane, WriteFinal, AcceptFinal,
       WriteFinalFails, SettleStream, CompleteRelease, Here, Take, Sent, ops, past
  <2> QED BY <1>0, <1>p, <2>1, Settlements DEF LaneQuiet
<1>2. CASE Observe
  <2>1. lane.pc = "observe" /\ accepted' = accepted
    BY <1>2 DEF Observe, Here, past
  <2> DEFINE seen == IF ResourceCancelled THEN Requested(op, PendingActions) ELSE op
             wanted == {e \in ToSet(pending) : seen[e.a].reason # "none"}
             stale == {e \in wanted : e.auto /\ gen.sealed}
             S == {e.a : e \in stale}
  <2>2. op' = AfterCancellation(seen, S) /\ rec' = OwnersTaken(S, "finished")
    BY <1>2 DEF Observe
  <2> HIDE DEF S
  <2>3. OwnersSettled
    BY <1>0, <2>2, Settlements
  <2> QED BY <1>p, <2>1, <2>3 DEF LaneQuiet
<1>3. CASE MarkDispatched \/ WriteReportFails
  <2>1. CASE MarkDispatched /\ rec[lane.cur.a].st = "notDispatched"
    BY <2>1
  <2>2. CASE ~(MarkDispatched /\ rec[lane.cur.a].st = "notDispatched")
    <3>1. /\ \E b \in BOOLEAN : ReportFailed(b)
          /\ lane.pc \in {"mark", "write"} /\ accepted' = accepted
      BY <1>3, <2>2 DEF MarkDispatched, WriteReportFails, Here, past
    <3>2. lane.cur.kind = "report" /\ lane.cur.a \in Actions
      BY <1>3, RunPlaces, WritePlaces DEF LaneInv, QueueInv, Reporting, Serving
    <3>3. OwnersSettled
      BY <3>1, <3>2, FailedReports
    <3> QED BY <1>p, <3>1, <3>3 DEF LaneQuiet
  <2> QED BY <2>1, <2>2
<1>4. CASE AcceptNeutral \/ WriteNeutralFails
  <2>1. /\ \E S : SettleNeutral(S)
        /\ lane.pc = "write" /\ accepted' = accepted
    BY <1>4 DEF AcceptNeutral, WriteNeutralFails, Here, past
  <2> QED BY <1>0, <1>p, <2>1, NeutralSettles DEF LaneQuiet
<1>5. CASE SealAfterFailure
  <2>1. lane.pc = "failing" /\ accepted' = accepted /\ fail # "none"
    BY <1>5 DEF SealAfterFailure, Here, past, FailInv
  <2>2. PICK S : op' = AfterStrict(op, S) /\ rec' = StrictRecords(S)
    BY <1>5 DEF SealAfterFailure
  <2> QED BY <1>0, <1>f, <2>1, <2>2, StrictSettles DEF LaneQuiet
<1>6. CASE HandleDirect
  <2>1. lane.pc = "sleep" /\ accepted' = accepted
    BY <1>6 DEF HandleDirect, Take, Here, past
  <2> DEFINE a == Head(inbox).a
  <2>2. \/ fail # "none" /\ op' = AfterStrict(op, {a}) /\ rec' = StrictRecords({a})
        \/ op' = AfterCancellation(op, {a}) /\ rec' = OwnersTaken({a}, "finished")
        \/ op' = AfterFailure(op, {a}) /\ rec' = OwnersTaken({a}, "failed")
        \/ op' = op /\ rec' = rec
    BY <1>6 DEF HandleDirect, ops
  <2> HIDE DEF a
  <2>3. OwnersSettled
    BY <1>0, <1>f, <2>2, StrictSettles, Settlements
  <2> QED BY <1>p, <2>1, <2>3 DEF LaneQuiet
<1>7. CASE HandleBegin
  <2>1. lane.pc = "sleep" /\ accepted' = accepted
    BY <1>7 DEF HandleBegin, Take, Here, past
  <2> DEFINE S == {e.a : e \in {x \in ToSet(pending) : x.auto /\ ~IsTerminal(x.a)}}
  <2>2. \/ op' = AfterCancellation(Requested(op, S), S) /\ rec' = OwnersTaken(S, "finished")
        \/ op' = op /\ rec' = rec
    BY <1>7 DEF HandleBegin, ops
  <2> HIDE DEF S
  <2>3. OwnersSettled
    BY <1>0, <2>2, Settlements
  <2> QED BY <1>p, <2>1, <2>3 DEF LaneQuiet
<1>8. CASE Collect
  <2>1. lane.pc \in {"collect", "wait"} /\ accepted' = accepted /\ rec' = rec
    BY <1>8 DEF Collect, past
  <2> DEFINE S == PendingActions \union
                    {c.a : c \in {x \in ToSet(inbox) : x.k = "direct"}}
  <2>2. op' = Requested(op, S)
    BY <1>8 DEF Collect
  <2> HIDE DEF S
  <2> QED BY <1>0, <1>p, <2>1, <2>2, Settlements DEF LaneQuiet
<1>9. CASE CloseStream
  <2>1. lane.pc = "closeStream" /\ accepted' = accepted
    BY <1>9 DEF CloseStream, Here, past
  <2>2. \/ op' = AfterCancellation(op, lane.held) /\ rec' = OwnersTaken(lane.held, "finished")
        \/ op' = op /\ rec' = rec
    BY <1>9 DEF CloseStream, ops
  <2> QED BY <1>0, <1>p, <2>1, <2>2, Settlements DEF LaneQuiet
<1>10. CASE FailHeld
  <2>1. lane.pc = "closeFailed" /\ accepted' = accepted
    BY <1>10 DEF FailHeld, Here, past
  <2>2. op' = AfterStrict(op, lane.held) /\ rec' = StrictRecords(lane.held)
    BY <1>10 DEF FailHeld
  <2> QED BY <1>0, <1>p, <2>1, <2>2, StrictSettles DEF LaneQuiet
<1> QED
  BY <1>1, <1>2, <1>3, <1>4, <1>5, <1>6, <1>7, <1>8, <1>9, <1>10 DEF LaneNext

(* Those steps move the record of the report the lane holds, from place to   *)
(* place.                                                                    *)
LEMMA ReportSteps ==
  ASSUME TypeOK, LaneInv, FailInv, QueueInv, ServingInv, \A b \in Actions : RecordInv(b),
         \/ MarkDispatched /\ rec[lane.cur.a].st = "notDispatched"
         \/ AcceptReport \/ ClaimAccepted \/ CompleteClaim \/ FinishSuccess
  PROVE  lane.cur.kind = "report" /\ lane.cur.a \in Actions /\ Reported(lane.cur.a)
<1> DEFINE c == lane.cur.a
<1>0. op \in [Actions -> Operations] /\ rec \in [Actions -> Records] /\ lane \in Lanes
      /\ {"write", "accepted", "claiming", "claimed", "dispatch"} \subseteq LanePlaces
  BY DEF TypeOK, OpsType, LaneType, LanePlaces
<1>1. lane.cur.kind = "report" /\ c \in Actions
  BY RunPlaces, WritePlaces DEF LaneInv, QueueInv, Reporting, Serving
<1>2. CASE MarkDispatched /\ rec[lane.cur.a].st = "notDispatched"
  <2>1. /\ lane.pc = "mark" /\ Goto("write") /\ op' = op /\ accepted' = accepted
        /\ rec' = [rec EXCEPT ![c].st = "outstanding"]
    BY <1>2 DEF MarkDispatched, Here, past
  <2>2. Goes({"write"})
    BY <1>0, <2>1, GotoFields
  <2> HIDE DEF c
  <2>3. Only(c) /\ Moves(c, "notDispatched", "outstanding")
    BY <1>0, <1>1, <1>2, <2>1, MoveRecord DEF Moves, c
  <2> QED BY <1>1, <2>1, <2>2, <2>3 DEF Reported, Marks, c
<1>3. CASE AcceptReport
  <2>1. /\ lane.pc = "write" /\ Goto("accepted") /\ op' = op /\ rec[c].st = "outstanding"
        /\ rec' = [rec EXCEPT ![c].st = "reserved"] /\ accepted' = accepted \union {c}
    BY <1>3 DEF AcceptReport, Here
  <2>2. Goes({"accepted"})
    BY <1>0, <2>1, GotoFields
  <2> HIDE DEF c
  <2>3. Only(c) /\ Moves(c, "outstanding", "reserved")
    BY <1>0, <1>1, <2>1, MoveRecord DEF Moves
  <2> QED BY <1>1, <2>1, <2>2, <2>3 DEF Reported, Accepts, c
<1>4. CASE ClaimAccepted
  <2>1. /\ lane.pc = "accepted" /\ Goto("claiming") /\ op' = op /\ accepted' = accepted
        /\ rec' = [rec EXCEPT ![c].st = "claiming"] /\ rec[c].st = "reserved"
    BY <1>4 DEF ClaimAccepted, Here, past, ServingInv
  <2>2. Goes({"claiming"})
    BY <1>0, <2>1, GotoFields
  <2> HIDE DEF c
  <2>3. Only(c) /\ Moves(c, "reserved", "claiming")
    BY <1>0, <1>1, <2>1, MoveRecord DEF Moves
  <2> QED BY <1>1, <2>1, <2>2, <2>3 DEF Reported, Claims, c
<1>5. CASE CompleteClaim
  <2>1. ~rec[c].strict
    BY <1>1 DEF RecordInv
  <2>2. /\ lane.pc = "claiming" /\ Goto("claimed") /\ op' = op /\ accepted' = accepted
        /\ rec' = [rec EXCEPT ![c].st = "claimed"] /\ rec[c].st = "claiming"
    BY <1>5, <2>1 DEF CompleteClaim, Here, past, ServingInv
  <2>3. Goes({"claimed"})
    BY <1>0, <2>2, GotoFields
  <2> HIDE DEF c
  <2>4. Only(c) /\ Moves(c, "claiming", "claimed")
    BY <1>0, <1>1, <2>2, MoveRecord DEF Moves
  <2> QED BY <1>1, <2>2, <2>3, <2>4 DEF Reported, Completes, c
<1>6. CASE FinishSuccess
  <2>1. /\ lane.pc = "claimed" /\ Goto("dispatch") /\ accepted' = accepted
        /\ rec[c].st = "claimed"
        /\ rec' = [rec EXCEPT ![c].st = "finished"]
        /\ op' = [op EXCEPT ![c].outcome = "success"]
    BY <1>6 DEF FinishSuccess, Here, past, ServingInv
  <2>2. Goes({"dispatch"})
    BY <1>0, <2>1, GotoFields
  <2> HIDE DEF c
  <2>3. /\ rec' \in [Actions -> Records] /\ \A b \in Actions \ {c} : rec'[b] = rec[b]
        /\ rec'[c].st = "finished" /\ rec'[c].strict = rec[c].strict
    BY <1>0, <1>1, <2>1 DEF Records
  <2>4. /\ op' \in [Actions -> Operations] /\ \A b \in Actions \ {c} : op'[b] = op[b]
        /\ op'[c].outcome = "success"
    BY <1>0, <1>1, <2>1 DEF Operations, Outcomes
  <2>5. Only(c)
    BY <2>3, <2>4 DEF Only, Keep
  <2> QED BY <1>1, <2>1, <2>2, <2>3, <2>4, <2>5 DEF Reported, Finishes, c
<1> QED
  BY <1>2, <1>3, <1>4, <1>5, <1>6

-----------------------------------------------------------------------------
(* One action's record *)

(* A submission is where the invariant of its record makes no difference.    *)
SameRole(a) ==
  /\ sub[a] \in {"idle", "reserved"} <=> sub'[a] \in {"idle", "reserved"}
  /\ sub[a] = "created" <=> sub'[a] = "created"
  /\ sub[a] = "reject" <=> sub'[a] = "reject"
  /\ sub[a] \in Turning <=> sub'[a] \in Turning
  /\ a \in leased \/ sub'[a] \in {"idle", "created", "refused", "done"}

(* A record that is kept or closed, and whose action keeps its role, stays   *)
(* in order.                                                                 *)
LEMMA RecordQuiet ==
  ASSUME NEW a \in Actions, RecordInv(a), Keep(a) \/ Close(a), rec[a].st \notin Effective,
         UNCHANGED leased, SameRole(a), TakenBySeal(a) <=> TakenBySeal(a)',
         a \in accepted' <=> a \in accepted
  PROVE  RecordInv(a)'
<1>1. CASE Keep(a)
  BY <1>1 DEF RecordInv, Keep, Taken, SameRole, Effective
<1>2. CASE Close(a)
  <2>1. rec[a].st \in {"notDispatched", "outstanding"} /\ ~Taken(a) /\ op[a].outcome = "none"
        /\ a \notin accepted
    BY <1>2 DEF Close, HasOwner, RecordInv, Effective
  <2>2. ~Taken(a)'
    BY <2>1 DEF Taken, SameRole
  <2> QED BY <1>2, <2>1, <2>2 DEF RecordInv, Close, SameRole, Effective, Taken
<1> QED
  BY <1>1, <1>2

(* Nothing that bears on a record under way is touched. *)
LEMMA RecordFrame ==
  ASSUME NEW a \in Actions, RecordInv(a), Keep(a),
         UNCHANGED <<leased, fail>>, SameRole(a), TakenBySeal(a) <=> TakenBySeal(a)',
         a \in accepted' <=> a \in accepted,
         lane'.pc = lane.pc, lane'.cur = lane.cur,
         lane.pc = "panicked" /\ closer' \in {"takeover", "done"}
           => closer \in {"takeover", "done"}
  PROVE  RecordInv(a)'
BY DEF RecordInv, Keep, Taken, SameRole, Effective

(* A submission keeps every record in order. *)
LEMMA SubmissionRecords ==
  ASSUME TypeOK, \A b \in Actions : RecordInv(b), NEW a \in Actions,
         Submission(a) \/ CancelAction(a)
  PROVE  \A b \in Actions : RecordInv(b)'
<1>1. Submits(a)
  BY SubmissionSteps
<1>2. /\ sub' \in [Actions -> SubPlaces] /\ \A b \in Actions \ {a} : sub'[b] = sub[b]
      /\ sub \in [Actions -> SubPlaces] /\ Only(a)
  BY <1>1, SubmissionPlaces DEF TypeOK, UsersType, Submits
<1>3. UNCHANGED <<leased, releaser, closer, fail, lane, accepted>>
  <2>1. SubmissionStep
    BY DEF SubmissionStep
  <2> QED BY <2>1, SubmissionFrame DEF Lane, past
<1>4. ASSUME NEW b \in Actions
      PROVE  /\ TakenBySeal(b) <=> TakenBySeal(b)'
             /\ lane'.pc = lane.pc /\ lane'.cur = lane.cur
             /\ Keep(b) /\ SameRole(b) => RecordInv(b)'
             /\ Close(b) /\ rec[b].st \notin Effective /\ SameRole(b) => RecordInv(b)'
  <2>1. TakenBySeal(b) <=> TakenBySeal(b)'
    BY <1>3 DEF TakenBySeal
  <2> QED BY <1>3, <2>1, RecordFrame, RecordQuiet
<1>5. ASSUME NEW b \in Actions \ {a}
      PROVE  RecordInv(b)'
  <2>1. Keep(b) /\ sub'[b] = sub[b]
    BY <1>2 DEF Only
  <2>2. SameRole(b)
    BY <2>1 DEF SameRole, RecordInv
  <2> QED BY <1>4, <2>1, <2>2
<1> SUFFICES RecordInv(a)'
  BY <1>5
<1>6. \A from, to : SubGoes(a, from, to) => sub[a] = from /\ sub'[a] = to
  BY <1>2 DEF SubGoes
<1>7. TakenBySeal(a) <=> TakenBySeal(a)'
  BY <1>4
<1>8. CASE Reserves(a)
  <2>1. a \in leased /\ Keep(a) /\ sub[a] = "idle" /\ sub'[a] \in {"reserved", "refused"}
    BY <1>6, <1>8 DEF Reserves
  <2> QED BY <1>3, <1>7, <2>1 DEF RecordInv, Keep, Taken, Turning, Effective
<1>9. CASE Creates(a)
  <2>1. /\ sub[a] = IF a \in leased THEN "reserved" ELSE "idle"
        /\ \/ Keep(a) /\ sub'[a] = Refused(a)
           \/ Moves(a, "absent", "notDispatched") /\ sub'[a] = "created"
    BY <1>6, <1>9 DEF Creates
  <2>2. rec[a].st = "absent" /\ op[a].outcome = "none" /\ a \notin accepted /\ ~TakenBySeal(a)
    BY <2>1 DEF RecordInv, Effective, Taken
  <2>3. CASE Keep(a) /\ sub'[a] = Refused(a)
    BY <1>3, <1>7, <2>2, <2>3 DEF RecordInv, Keep, Taken, Turning, Effective, Refused
  <2>4. CASE Moves(a, "absent", "notDispatched") /\ sub'[a] = "created"
    BY <1>3, <1>7, <2>2, <2>4 DEF RecordInv, Moves, Taken, Turning, Effective
  <2> QED BY <2>1, <2>3, <2>4
<1>10. CASE Sends(a)
  <2>1. /\ sub[a] = "created"
        /\ Keep(a) \/ Close(a)
        /\ \/ sub'[a] = Refused(a) /\ ~HasOwner(rec'[a])
           \/ sub'[a] = Passed(a)
    BY <1>6, <1>10 DEF Sends
  <2>2. rec[a].st \in {"notDispatched", "finished", "failed"} /\ a \notin accepted
        /\ op[a].outcome # "success"
    BY <2>1 DEF RecordInv, Turning, Effective
  <2>3. CASE Keep(a)
    <3>1. Refused(a) \in {"refuse", "refused"} /\ Passed(a) \in {"resolve", "done"}
          /\ (a \in leased \/ (Refused(a) = "refused" /\ Passed(a) = "done"))
      BY DEF Refused, Passed
    <3> QED BY <1>3, <1>7, <2>1, <2>2, <2>3, <3>1 DEF RecordInv, Keep, Taken, Turning, Effective,
              HasOwner
  <2>4. CASE Close(a)
    <3>1. Refused(a) \in {"refuse", "refused"} /\ Passed(a) \in {"resolve", "done"}
          /\ (a \in leased \/ (Refused(a) = "refused" /\ Passed(a) = "done"))
      BY DEF Refused, Passed
    <3>2. rec[a].st = "notDispatched" /\ ~TakenBySeal(a)
      BY <2>2, <2>4 DEF Close, HasOwner, RecordInv, Taken
    <3> QED BY <1>3, <1>7, <2>1, <2>2, <2>4, <3>1, <3>2 DEF RecordInv, Close, Taken, Turning, Effective
  <2> QED BY <2>1, <2>3, <2>4
<1>11. CASE Resolves(a)
  <2>1. CASE Keep(a)
    <3>1. \/ sub[a] = "refuse" /\ sub'[a] \in {"wakeRefused", "refused"}
          \/ sub[a] = "resolve" /\ sub'[a] \in {"dispatched", "done", "reject"}
      BY <1>6, <1>11 DEF Resolves
    <3>2. sub'[a] # "reject"
      BY <1>6, <1>11, <2>1 DEF Resolves, Keep, Moves
    <3>3. SameRole(a)
      BY <3>1, <3>2 DEF SameRole, Turning, RecordInv
    <3> QED BY <1>4, <2>1, <3>3
  <2>2. CASE Moves(a, "notDispatched", "finished") /\ SubGoes(a, "resolve", "reject")
    <3>1. rec[a].st = "notDispatched" /\ op[a].outcome = "none" /\ a \notin accepted /\ ~TakenBySeal(a)
          /\ a \in leased
      BY <1>6, <2>2 DEF Moves, RecordInv, Effective, Taken
    <3> QED BY <1>3, <1>6, <1>7, <2>2, <3>1 DEF RecordInv, Moves, Taken, Turning, Effective
  <2> QED BY <1>11, <2>1, <2>2 DEF Resolves
<1>12. CASE Rejects(a)
  <2>1. sub[a] = "reject" /\ sub'[a] = "wakeRefused" /\ rec'[a] = rec[a]
        /\ op'[a].outcome \in {"strict", "cancelled"}
    BY <1>6, <1>12 DEF Rejects
  <2>2. rec[a].st = "finished" /\ ~TakenBySeal(a) /\ a \notin accepted /\ a \in leased
    BY <2>1 DEF RecordInv, Taken, Turning
  <2> QED BY <1>3, <1>7, <2>1, <2>2 DEF RecordInv, Taken, Turning, Effective
<1>13. CASE Others(a)
  <2>1. SameRole(a)
    BY <1>6, <1>13 DEF Others, SameRole, Turning, RecordInv
  <2>2. Close(a) => fail # "none" \/ Keep(a)
    BY <1>13 DEF Others
  <2>3. fail # "none" => rec[a].st \notin Effective
    BY NoneEffective
  <2> QED BY <1>4, <1>13, <2>1, <2>2, <2>3 DEF Others
<1> QED
  BY <1>1, <1>8, <1>9, <1>10, <1>11, <1>12, <1>13 DEF Submits

(* The releasing thread does, *)
LEMMA ReleaseRecords ==
  ASSUME TypeOK, \A b \in Actions : RecordInv(b), FailInv, ServingInv, ReleaseStep
  PROVE  \A b \in Actions : RecordInv(b)'
<1>1. UNCHANGED <<leased, sub, closer, fail, lane, accepted>>
  BY ReleaseFrame DEF Lane, past
<1>2. \A b \in Actions : SameRole(b)
  BY <1>1 DEF SameRole, RecordInv
<1>3. fail # "none" => \A b \in Actions : rec[b].st \notin Effective
  BY NoneEffective
<1>4. lane'.pc = lane.pc /\ lane'.cur = lane.cur
  BY <1>1
<1>5. ASSUME NEW b \in Actions, TakenBySeal(b) <=> TakenBySeal(b)',
             Keep(b) \/ (Close(b) /\ fail # "none")
      PROVE  RecordInv(b)'
  BY <1>1, <1>2, <1>3, <1>4, <1>5, RecordFrame, RecordQuiet
<1>6. CASE SealsQuietly
  <2>1. \A b \in Actions : ~TakenBySeal(b) /\ ~TakenBySeal(b)'
    BY <1>6 DEF SealsQuietly, TakenBySeal
  <2>2. \A b \in Actions : Keep(b) \/ (Close(b) /\ fail # "none")
    BY <1>6 DEF SealsQuietly, OwnersSettled
  <2> QED BY <1>5, <2>1, <2>2
<1>7. ASSUME NEW c \in Actions, SealTakes(c)
      PROVE  \A b \in Actions : RecordInv(b)'
  <2>1. \A b \in Actions \ {c} : Keep(b) /\ (TakenBySeal(b) <=> TakenBySeal(b)')
    BY <1>7 DEF SealTakes, Only, TakenBySeal
  <2>2. rec[c].st = "notDispatched" /\ op[c].outcome = "none" /\ c \notin accepted
        /\ sub[c] \notin Turning
    BY <1>7 DEF SealTakes, Moves, RecordInv, Effective, Taken
  <2>3. TakenBySeal(c)'
    BY <1>7 DEF SealTakes, TakenBySeal
  <2>4. RecordInv(c)'
    BY <1>1, <1>7, <2>2, <2>3 DEF RecordInv, SealTakes, Moves, Taken, Turning, Effective
  <2> QED BY <1>5, <2>1, <2>4
<1>8. ASSUME NEW c \in Actions, SealSettles(c)
      PROVE  \A b \in Actions : RecordInv(b)'
  <2>1. \A b \in Actions \ {c} : Keep(b) /\ (TakenBySeal(b) <=> TakenBySeal(b)')
    BY <1>8 DEF SealSettles, Only, TakenBySeal
  <2>2. rec[c].st = "finished" /\ op[c].outcome = "none" /\ c \notin accepted
        /\ sub[c] # "reject"
    BY <1>8 DEF SealSettles, RecordInv, Effective, Taken, TakenBySeal
  <2>3. ~TakenBySeal(c)'
    BY <1>8 DEF SealSettles, TakenBySeal
  <2>4. RecordInv(c)'
    BY <1>1, <1>8, <2>2, <2>3 DEF RecordInv, SealSettles, Taken, Turning, Effective
  <2> QED BY <1>5, <2>1, <2>4
<1> QED
  BY <1>6, <1>7, <1>8, ReleaseSteps

(* and the closing thread, *)
LEMMA CloseRecords ==
  ASSUME TypeOK, \A b \in Actions : RecordInv(b), LaneInv, CloseStep
  PROVE  \A b \in Actions : RecordInv(b)'
<1>1. UNCHANGED <<leased, sub, releaser, lane, accepted>>
  BY CloseFrame DEF past
<1>2. \A b \in Actions : SameRole(b) /\ (TakenBySeal(b) <=> TakenBySeal(b)')
  BY <1>1 DEF SameRole, RecordInv, TakenBySeal
<1>3. lane'.pc = lane.pc /\ lane'.cur = lane.cur
  BY <1>1
<1>4. ASSUME NEW b \in Actions, Keep(b), rec[b].st \notin Effective
      PROVE  RecordInv(b)'
  BY <1>1, <1>2, <1>4, RecordQuiet
<1>5. CASE \A b \in Actions : Keep(b)
  <2>1. CASE RecordOwnershipLoss
    <3>1. \A b \in Actions : rec[b].st \notin Effective
      <4>1. lane.pc = "panicked" /\ closer = "takeover"
        BY <2>1 DEF RecordOwnershipLoss, LaneInv
      <4> QED BY <4>1, NoneEffective
    <3> QED BY <1>4, <1>5, <3>1
  <2>2. CASE ~RecordOwnershipLoss
    <3>1. fail' = fail
      BY <2>2 DEF CloseStep, CloseNext, CloseIntent, CloseInterrupt, CancelResource, SendClose,
         JoinLane
    <3>2. ASSUME NEW b \in Actions, rec[b].st \in Effective
          PROVE  ~(closer' \in {"takeover", "done"}) \/ closer \in {"takeover", "done"}
      <4>1. CASE lane.pc = "panicked" /\ JoinLane /\ closer' = "takeover"
        <5>1. rec[b].st \in {"reserved", "claimed"}
          BY <1>5, <3>2, <4>1 DEF RecordInv, Effective
        <5>2. rec'[b].st \in {"finished", "failed"}
          <6>1. rec[b] \in Records
            BY DEF TypeOK, OpsType
          <6>2. \E st \in {"finished", "failed"} : rec'[b] = [rec[b] EXCEPT !.st = st]
            BY <4>1, <5>1 DEF JoinLane
          <6> QED BY <6>1, <6>2 DEF Records
        <5> QED BY <1>5, <5>1, <5>2 DEF Keep
      <4>2. lane.pc # "ended"
        BY <3>2 DEF RecordInv, Effective
      <4> QED BY <2>2, <4>1, <4>2, CloserSteps DEF LaneAlive
    <3>3. ASSUME NEW b \in Actions, rec[b].st \in Effective
          PROVE  RecordInv(b)'
      BY <1>1, <1>2, <1>3, <1>5, <3>1, <3>2, <3>3, RecordFrame
    <3> QED BY <1>4, <1>5, <3>3
  <2> QED BY <2>1, <2>2
<1>6. CASE /\ lane.pc = "panicked" /\ closer' = "takeover"
           /\ \A b \in Actions \ Joins : Keep(b)
           /\ \A b \in Joins : /\ rec'[b].st = "finished" /\ rec'[b].strict = rec[b].strict
                               /\ op'[b].outcome = "success"
  <2>1. \A b \in Actions \ Joins : rec[b].st \notin Effective
    BY <1>6 DEF Joins, RecordInv, Effective
  <2>2. ASSUME NEW b \in Joins
        PROVE  RecordInv(b)'
    <3>1. b \in Actions /\ rec[b].st \in Effective /\ rec[b].st \notin {"finished", "failed"}
      BY DEF Joins, Effective
    <3>2. ~Taken(b) /\ b \in accepted /\ sub[b] \notin Turning \union {"created", "idle", "reserved"}
      BY <3>1 DEF RecordInv, Effective
    <3>3. ~Taken(b)'
      BY <1>1, <3>2 DEF Taken, TakenBySeal
    <3> QED BY <1>1, <1>6, <3>1, <3>2, <3>3 DEF RecordInv, Turning, Effective
  <2> QED BY <1>4, <1>6, <2>1, <2>2
<1> QED
  BY <1>5, <1>6, CloseSteps

(* A record whose report the lane is writing or has written.                 *)
LEMMA RecordUnderWay ==
  ASSUME NEW c \in Actions, ~rec'[c].strict, op'[c].outcome = "none",
         \/ rec'[c].st = "outstanding" /\ c \notin accepted'
         \/ rec'[c].st = "reserved" /\ lane'.pc = "accepted" /\ c \in accepted'
         \/ rec'[c].st = "claiming" /\ lane'.pc = "claiming" /\ c \in accepted'
         \/ rec'[c].st = "claimed" /\ lane'.pc = "claimed" /\ c \in accepted',
         fail' = "none", lane'.cur.a = c, lane'.cur.kind = "report", ~Taken(c)',
         sub'[c] \notin {"idle", "reserved", "created"}, sub'[c] \notin Turning,
         c \in leased' \/ sub'[c] \in {"idle", "created", "refused", "done"}
  PROVE  RecordInv(c)'
BY DEF RecordInv, Taken, TakenBySeal, Effective, Turning

(* and the lane, *)
LEMMA LaneRecords ==
  ASSUME TypeOK, LaneInv, FailInv, QueueInv, ServingInv, \A b \in Actions : RecordInv(b), LaneNext
  PROVE  \A b \in Actions : RecordInv(b)'
<1>1. UNCHANGED <<leased, sub, releaser, closer>>
  BY LaneFrame DEF users
<1>2. \A b \in Actions : SameRole(b) /\ (TakenBySeal(b) <=> TakenBySeal(b)')
  BY <1>1 DEF SameRole, RecordInv, TakenBySeal
<1>3. CASE LaneQuiet
  BY <1>1, <1>2, <1>3, RecordQuiet DEF LaneQuiet, OwnersSettled
<1>4. CASE LanePanics
  <2>1. /\ op' = op /\ rec' = rec /\ accepted' = accepted /\ fail' = fail
        /\ lane.pc \in {"write", "accepted", "claimed"} /\ lane'.pc = "panicked"
    BY <1>4, ClosePlaces DEF LanePanics, ops, past, Over
  <2>2. closer \notin {"takeover", "done"}
    BY <2>1 DEF LaneInv, LaneAlive
  <2>3. ASSUME NEW b \in Actions PROVE RecordInv(b)'
    <3>1. rec[b].st # "claiming"
      BY <2>1 DEF RecordInv
    <3> QED BY <1>1, <1>2, <2>1, <2>2, <3>1 DEF RecordInv, Taken, Effective, Turning
  <2> QED BY <2>3
<1>5. ASSUME NEW c \in Actions, c = lane.cur.a, lane.cur.kind = "report", Reported(c),
             UNCHANGED fail
      PROVE  \A b \in Actions : RecordInv(b)'
  <2>1. /\ Only(c) /\ lane'.cur = lane.cur /\ Known(c)
        /\ lane.pc \in {"mark", "write", "accepted", "claiming", "claimed"}
        /\ fail = "none"
    <3>1. /\ Only(c) /\ lane'.cur = lane.cur
          /\ lane.pc \in {"mark", "write", "accepted", "claiming", "claimed"}
      BY <1>5 DEF Reported, Marks, Accepts, Claims, Completes, Finishes, Goes
    <3>2. fail = "none" /\ Known(c)
      BY <1>5, <3>1 DEF FailInv, LaneAlive, QueueInv, Reporting, Serving
    <3> QED BY <3>1, <3>2
  <2>2. ASSUME NEW b \in Actions \ {c} PROVE RecordInv(b)'
    <3>1. rec[b].st \notin Effective
      BY <1>5, <2>1, <2>2 DEF RecordInv
    <3>2. Keep(b) /\ (b \in accepted' <=> b \in accepted)
      BY <1>5, <2>1, <2>2 DEF Only, Reported, Marks, Accepts, Claims, Completes, Finishes
    <3> QED BY <1>1, <1>2, <3>1, <3>2, RecordQuiet
  <2>3. /\ sub[c] \notin {"idle", "reserved", "created"}
        /\ rec[c].st \in {"notDispatched", "outstanding", "reserved", "claiming", "claimed"}
    BY <1>5, <2>1 DEF Known, Reported, Marks, Accepts, Claims, Completes, Finishes, Moves
  <2>4. /\ ~Taken(c) /\ sub[c] \notin Turning /\ ~rec[c].strict
        /\ op[c].outcome = "none" /\ (c \in accepted <=> rec[c].st \in Effective)
        /\ (c \in leased \/ sub[c] \in {"idle", "created", "refused", "done"})
    BY <1>1, <1>5, <2>3 DEF RecordInv, Effective
  <2>5. ~Taken(c)' /\ sub'[c] = sub[c] /\ fail' = "none" /\ leased' = leased
    BY <1>1, <1>5, <2>1, <2>4 DEF Taken, TakenBySeal
  <2>6. lane'.cur.a = c /\ lane'.cur.kind = "report" /\ ~rec'[c].strict
    BY <1>5, <2>1, <2>4 DEF Reported, Marks, Accepts, Claims, Completes, Finishes, Moves
  <2> SUFFICES RecordInv(c)'
    BY <2>2
  <2>7. CASE Finishes(c)
    BY <2>3, <2>4, <2>5, <2>6, <2>7 DEF Finishes, RecordInv, Effective, Taken
  <2>8. CASE Reported(c) /\ ~Finishes(c)
    <3>1. /\ op'[c].outcome = "none"
          /\ \/ rec'[c].st = "outstanding" /\ c \notin accepted'
             \/ rec'[c].st = "reserved" /\ lane'.pc = "accepted" /\ c \in accepted'
             \/ rec'[c].st = "claiming" /\ lane'.pc = "claiming" /\ c \in accepted'
             \/ rec'[c].st = "claimed" /\ lane'.pc = "claimed" /\ c \in accepted'
      BY <2>4, <2>8 DEF Reported, Marks, Accepts, Claims, Completes, Moves, Goes, Effective
    <3> QED BY <2>3, <2>4, <2>5, <2>6, <3>1, RecordUnderWay
  <2> QED BY <1>5, <2>7, <2>8
<1>6. \/ AcceptReport \/ MarkDispatched \/ ClaimAccepted \/ CompleteClaim \/ FinishSuccess
      => UNCHANGED fail
  BY DEF AcceptReport, MarkDispatched, ClaimAccepted, CompleteClaim, FinishSuccess
<1> QED
  BY <1>3, <1>4, <1>5, <1>6, LaneSettles, ReportSteps

(* so that every step does. *)
LEMMA RecordsKept ==
  ASSUME TypeOK, LaneInv, FailInv, QueueInv, ServingInv, \A b \in Actions : RecordInv(b),
         [Next]_vars
  PROVE  \A b \in Actions : RecordInv(b)'
<1>1. CASE SubmissionStep
  BY <1>1, SubmissionRecords DEF SubmissionStep
<1>2. CASE Tick \/ UNCHANGED vars
  <2>1. UNCHANGED <<leased, op, rec, sub, releaser, closer, fail, accepted>>
    BY <1>2 DEF Tick, vars, ops, users, past
  <2>2. lane'.pc = lane.pc /\ lane'.cur = lane.cur
    BY <1>2, TickFields DEF vars, Goes
  <2> QED BY <2>1, <2>2 DEF RecordInv, Taken, TakenBySeal
<1> QED
  BY <1>1, <1>2, ReleaseRecords, CloseRecords, LaneRecords, StepCases

-----------------------------------------------------------------------------
(* The report in the lane's hands                                            *)

(* The report in the hands of the lane comes from the front of the queue. *)
LEMMA ServeSteps ==
  ASSUME TypeOK, LaneInv, LaneNext
  PROVE  /\ Reporting' => \/ Reporting /\ lane'.cur = lane.cur
                          \/ pending # << >> /\ lane'.cur = pending[1]
         /\ \/ lane'.pc \in {"accepted", "claiming", "claimed"}
            \/ lane'.pc = "write" /\ lane'.cur.kind = "report"
            => \/ AcceptReport \/ ClaimAccepted \/ CompleteClaim
               \/ MarkDispatched /\ rec[lane.cur.a].st = "notDispatched"
<1> USE DEF Reporting, Serving
<1>1. CASE \/ Top \/ Observe \/ NoRelease \/ StartRelease \/ HandleDirect \/ HandleBegin
           \/ HandleClose \/ Woken \/ Await \/ FinishSuccess
  <2>1. \/ lane'.pc \notin Serving
        \/ lane'.cur.kind = "release" /\ lane'.pc = "write"
    BY <1>1, RunPlaces DEF Goes, Holds
  <2> QED BY <2>1
<1>2. CASE Dispatch
  <2>1. pending # << >> => pending[1].kind \in {"report", "neutral"}
    BY QueuedFields DEF TypeOK, LaneType
  <2> QED BY <1>2, <2>1, RunPlaces DEF Goes, Holds
<1>3. CASE ClaimAccepted \/ CompleteClaim \/ AcceptReport
  <2>1. lane'.cur = lane.cur /\ lane.pc \in {"accepted", "claiming", "write"}
    BY <1>3, RunPlaces, WritePlaces DEF Goes
  <2> QED BY <1>3, <2>1
<1>4. CASE MarkDispatched
  <2>1. lane.pc = "mark" /\ lane'.cur = lane.cur /\ lane'.pc \in {"write", "dispatch"}
    BY <1>4, RunPlaces DEF Goes
  <2>2. rec[lane.cur.a].st = "notDispatched" \/ lane'.pc = "dispatch"
    <3>1. rec[lane.cur.a].st = "notDispatched" \/ Goto("dispatch")
      BY <1>4 DEF MarkDispatched
    <3>2. lane \in Lanes /\ "dispatch" \in LanePlaces
      BY DEF TypeOK, LaneType, LanePlaces
    <3> QED BY <3>1, <3>2, GotoFields DEF Goes
  <2> QED BY <1>4, <2>1, <2>2
<1>5. CASE \/ WriteReportFails \/ AcceptNeutral \/ WriteNeutralFails \/ CleanupFails
           \/ AcceptRelease \/ AcceptFinal \/ WriteFinalFails \/ CompleteRelease
           \/ WriteReleaseFails \/ SealAfterFailure
  <2>1. lane'.pc \notin Serving
    BY <1>5, WritePlaces DEF Goes, Holds
  <2> QED BY <2>1
<1>6. CASE CloseLane \/ Collect \/ WriteFinal \/ CloseStream \/ FailHeld \/ SettleStream \/ LanePanics
  <2>1. \/ lane'.pc \notin Serving
        \/ lane'.cur.kind \in {"release", "close"} /\ lane'.pc = "write"
    BY <1>6, ClosePlaces DEF Holds, Over
  <2> QED BY <2>1
<1> QED
  BY <1>1, <1>2, <1>3, <1>4, <1>5, <1>6 DEF LaneNext

(* While the lane serves an action the others leave its record alone.        *)
LEMMA OthersKeep ==
  ASSUME TypeOK, \A b \in Actions : RecordInv(b), FailInv, ServingInv, fail = "none",
         SubmissionStep \/ ReleaseStep, NEW c \in Actions, Known(c)
  PROVE  rec'[c] = rec[c] \/ rec[c].st = "notDispatched"
<1>1. ASSUME NEW a \in Actions, Submission(a) \/ CancelAction(a)
      PROVE  rec'[c] = rec[c] \/ rec[c].st = "notDispatched"
  <2>1. Submits(a)
    BY <1>1, SubmissionSteps
  <2>2. CASE a # c
    BY <2>1, <2>2 DEF Submits, Only, Keep
  <2>3. CASE a = c
    <3>1. sub[a] \notin {"idle", "reserved", "created"}
      BY <2>3 DEF Known
    <3>2. ~Reserves(a) /\ ~Creates(a) /\ ~Sends(a)
      BY <3>1 DEF Reserves, Creates, Sends, SubGoes
    <3>3. Resolves(a) \/ Rejects(a) \/ Others(a)
      BY <2>1, <3>2 DEF Submits
    <3> QED BY <2>3, <3>3 DEF Resolves, Rejects, Others, Keep, Moves
  <2> QED BY <2>2, <2>3
<1>2. CASE ReleaseStep
  BY <1>2, ReleaseSteps DEF SealsQuietly, SealTakes, SealSettles, Only, Keep, Moves
<1> QED
  BY <1>1, <1>2 DEF SubmissionStep

(* A step keeps the record under way where the place of the lane has it. *)
LEMMA ServingKept ==
  ASSUME TypeOK, LaneInv, FailInv, QueueInv, ServingInv, \A b \in Actions : RecordInv(b),
         [Next]_vars
  PROVE  ServingInv'
<1>1. CASE SubmissionStep \/ ReleaseStep
  <2>1. UNCHANGED lane
    BY <1>1, SubmissionFrame, ReleaseFrame DEF Lane
  <2>2. ASSUME \/ lane.pc \in {"accepted", "claiming", "claimed"}
               \/ lane.pc = "write" /\ lane.cur.kind = "report"
        PROVE  rec'[lane.cur.a] = rec[lane.cur.a]
    <3>1. Reporting /\ fail = "none"
      BY <2>2 DEF Reporting, Serving, LaneInv, FailInv, LaneAlive
    <3>2. lane.cur.a \in Actions /\ Known(lane.cur.a)
      BY <3>1 DEF QueueInv
    <3>3. rec[lane.cur.a].st # "notDispatched"
      BY <2>2 DEF ServingInv
    <3> QED BY <1>1, <3>1, <3>2, <3>3, OthersKeep
  <2>3. releaser'.pc \in {"take", "finish"} => releaser'.cur \in Actions
    <3>1. CASE SubmissionStep
      BY <3>1, SubmissionFrame DEF ServingInv
    <3>2. CASE ReleaseStep
      BY <3>2, ReleaseSteps DEF SealsQuietly, SealTakes, SealSettles
    <3> QED BY <1>1, <3>1, <3>2
  <2> QED BY <2>1, <2>2, <2>3 DEF ServingInv
<1>2. CASE CloseStep
  <2>1. UNCHANGED <<lane, releaser>>
    BY <1>2, CloseFrame
  <2>2. lane.pc = "panicked" \/ \A b \in Actions : rec'[b] = rec[b]
    BY <1>2, CloseSteps DEF Keep
  <2>3. Reporting => lane.cur.a \in Actions
    BY DEF QueueInv
  <2> QED BY <2>1, <2>2, <2>3 DEF ServingInv, Reporting, Serving, LaneInv
<1>3. CASE Tick \/ UNCHANGED vars
  <2>1. UNCHANGED <<rec, releaser>> /\ lane'.pc = lane.pc /\ lane'.cur = lane.cur
    BY <1>3, TickFields DEF Tick, vars, ops, users, Goes
  <2> QED BY <2>1 DEF ServingInv
<1>4. CASE LaneNext
  <2>1. UNCHANGED releaser
    BY <1>4, LaneFrame DEF users
  <2>2. CASE \/ AcceptReport \/ ClaimAccepted \/ CompleteClaim
             \/ MarkDispatched /\ rec[lane.cur.a].st = "notDispatched"
    <3>1. PICK c \in Actions : c = lane.cur.a /\ lane.cur.kind = "report" /\ Reported(c)
      BY <2>2, ReportSteps
    <3>2. \/ lane'.pc = "write" /\ rec'[c].st = "outstanding"
          \/ lane'.pc = "accepted" /\ rec'[c].st = "reserved"
          \/ lane'.pc = "claiming" /\ rec'[c].st = "claiming"
          \/ lane'.pc = "claimed" /\ rec'[c].st = "claimed"
          \/ lane'.pc = "dispatch"
      BY <3>1 DEF Reported, Marks, Accepts, Claims, Completes, Finishes, Moves, Goes
    <3>3. lane'.cur = lane.cur
      BY <3>1 DEF Reported, Marks, Accepts, Claims, Completes, Finishes, Goes
    <3> QED BY <2>1, <3>1, <3>2, <3>3 DEF ServingInv
  <2> QED BY <1>4, <2>1, <2>2, ServeSteps DEF ServingInv
<1> QED
  BY <1>1, <1>2, <1>3, <1>4, StepCases

-----------------------------------------------------------------------------
(* An action known to the lane stays known. *)
LEMMA KnownStable ==
  ASSUME TypeOK, \A b \in Actions : RecordInv(b), [Next]_vars
  PROVE  \A b \in Actions : Known(b) => Known(b)'
<1>1. CASE UNCHANGED sub
  BY <1>1 DEF Known
<1>2. ASSUME NEW a \in Actions, Submission(a) \/ CancelAction(a)
      PROVE  \A b \in Actions : Known(b) => Known(b)'
  <2>1. Submits(a)
    BY <1>2, SubmissionSteps
  <2>2. /\ \A b \in Actions \ {a} : sub'[b] = sub[b]
        /\ Known(a) => Known(a)'
    BY <2>1, SubmissionPlaces DEF TypeOK, UsersType
  <2> QED BY <2>2 DEF Known
<1>3. SubmissionStep \/ UNCHANGED sub
  BY StepCases, ReleaseFrame, CloseFrame, LaneFrame DEF users, Tick, vars
<1> QED
  BY <1>1, <1>2, <1>3 DEF SubmissionStep

(* The entries of t known to s. *)
LEMMA AppendEntries ==
  ASSUME NEW S, NEW s \in Seq(S), NEW e \in S
  PROVE  /\ Append(s, e) \in Seq(S) /\ DOMAIN Append(s, e) = DOMAIN s \union {Len(s) + 1}
         /\ Len(s) + 1 \notin DOMAIN s /\ Len(s) \in Nat
         /\ \A i \in DOMAIN s : Append(s, e)[i] = s[i]
         /\ Append(s, e)[Len(s) + 1] = e
<1>1. /\ Append(s, e) \in Seq(S) /\ Len(Append(s, e)) = Len(s) + 1 /\ Len(s) \in Nat
      /\ \A i \in 1..Len(s) : Append(s, e)[i] = s[i]
      /\ Append(s, e)[Len(s) + 1] = e
  BY AppendProperties, LenProperties
<1>2. DOMAIN s = 1..Len(s) /\ DOMAIN Append(s, e) = 1..(Len(s) + 1)
  BY <1>1, LenProperties
<1> QED
  BY <1>1, <1>2

(* How the commands change: the lane draws some, others append one.          *)
LEMMA InboxSteps ==
  ASSUME TypeOK, [Next]_vars
  PROVE  /\ inbox' \in Seq(Commands)
         /\ \/ UNCHANGED inbox
            \/ LaneNext /\ Drawn(inbox', inbox)
            \/ \E a \in Actions : /\ sub[a] = "created" /\ sub' = [sub EXCEPT ![a] = Passed(a)]
                                  /\ SubmissionStep
                                  /\ inbox' = Append(inbox, [k |-> "direct", a |-> a])
            \/ SendBegin /\ inbox' = Append(inbox, [k |-> "begin", a |-> "none"])
            \/ SendClose /\ inbox' = Append(inbox, [k |-> "close", a |-> "none"])
<1>0. inbox \in Seq(Commands) /\ LaneType
  BY DEF TypeOK, LaneType
<1>1. /\ \A a \in Actions : [k |-> "direct", a |-> a] \in Commands
      /\ [k |-> "begin", a |-> "none"] \in Commands /\ [k |-> "close", a |-> "none"] \in Commands
  BY DEF Commands
<1>2. CASE UNCHANGED inbox
  BY <1>0, <1>2
<1>3. CASE LaneNext
  BY <1>0, <1>3, InboxDrawn
<1>4. ASSUME NEW a \in Actions, Submission(a) \/ CancelAction(a), inbox' # inbox
      PROVE  /\ sub[a] = "created" /\ sub' = [sub EXCEPT ![a] = Passed(a)]
             /\ inbox' = Append(inbox, [k |-> "direct", a |-> a])
  <2>1. Send(a)
    BY <1>4 DEF Submission, Reserve, Create, Resolve, Reject, CancelDispatched, WakeLane,
       CancelAction
  <2> QED BY <1>4, <2>1 DEF Send, Admitted, SubTo, Passed
<1>5. ASSUME ReleaseStep \/ CloseStep, inbox' # inbox
      PROVE  \/ SendBegin /\ inbox' = Append(inbox, [k |-> "begin", a |-> "none"])
             \/ SendClose /\ inbox' = Append(inbox, [k |-> "close", a |-> "none"])
  BY <1>5 DEF ReleaseStep, ReleaseNext, SealGeneration, ReadFailure, VisitSealed,
     TakeUndispatched, SettleUndispatched, Track, SendBegin, CloseStep, CloseNext, CloseIntent,
     CloseInterrupt, CancelResource, SendClose, JoinLane, RecordOwnershipLoss
<1>6. CASE SubmissionStep /\ inbox' # inbox
  <2>1. PICK a \in Actions : /\ sub[a] = "created" /\ sub' = [sub EXCEPT ![a] = Passed(a)]
                             /\ inbox' = Append(inbox, [k |-> "direct", a |-> a])
    BY <1>4, <1>6 DEF SubmissionStep
  <2> QED BY <1>0, <1>1, <1>6, <2>1, AppendEntries
<1>7. CASE (ReleaseStep \/ CloseStep) /\ inbox' # inbox
  BY <1>0, <1>1, <1>5, <1>7, AppendEntries
<1>8. Tick \/ UNCHANGED vars => UNCHANGED inbox
  BY DEF Tick, vars
<1> QED
  BY <1>2, <1>3, <1>6, <1>7, <1>8, StepCases

StillKnown(a) == sub'[a] \notin {"idle", "reserved", "created"}

(* A step queues only what is known. *)
LEMMA QueueKept ==
  ASSUME TypeOK, LaneInv, QueueInv, \A b \in Actions : RecordInv(b), [Next]_vars
  PROVE  QueueInv'
<1>0. LaneType /\ inbox \in Seq(Commands) /\ pending \in Seq(Queued)
  BY DEF TypeOK, LaneType
<1>k. \A b \in Actions : Known(b) => StillKnown(b)
  BY KnownStable DEF Known, StillKnown
<1>c. \A x \in Commands : x.k = "direct" => x.a \in Actions
  BY DEF Commands
<1>1. \A i \in DOMAIN inbox' : inbox'[i].k = "direct" => StillKnown(inbox'[i].a)
  <2>0. \A i \in DOMAIN inbox : inbox[i].k = "direct" => StillKnown(inbox[i].a)
    <3>1. \A i \in DOMAIN inbox : inbox[i] \in Commands
      BY <1>0, ElementOfSeq, LenProperties
    <3> QED BY <1>c, <1>k, <3>1 DEF QueueInv
  <2>1. CASE UNCHANGED inbox
    BY <2>0, <2>1
  <2>2. CASE Drawn(inbox', inbox)
    <3>1. PICK f \in [DOMAIN inbox' -> DOMAIN inbox] : \A k \in DOMAIN inbox' : inbox'[k] = inbox[f[k]]
      BY <2>2 DEF Drawn
    <3>2. \A k \in DOMAIN inbox' : f[k] \in DOMAIN inbox
      BY <3>1
    <3> QED BY <2>0, <3>1, <3>2
  <2>3. ASSUME NEW a \in Actions, sub[a] = "created", sub' = [sub EXCEPT ![a] = Passed(a)],
               inbox' = Append(inbox, [k |-> "direct", a |-> a])
        PROVE  \A i \in DOMAIN inbox' : inbox'[i].k = "direct" => StillKnown(inbox'[i].a)
    <3>1. StillKnown(a)
      BY <2>3 DEF StillKnown, Passed, TypeOK, UsersType
    <3>2. [k |-> "direct", a |-> a] \in Commands
      BY DEF Commands
    <3> QED BY <1>0, <2>0, <2>3, <3>1, <3>2, AppendEntries
  <2>4. ASSUME NEW x \in {"begin", "close"}, inbox' = Append(inbox, [k |-> x, a |-> "none"])
        PROVE  \A i \in DOMAIN inbox' : inbox'[i].k = "direct" => StillKnown(inbox'[i].a)
    <3>1. [k |-> x, a |-> "none"] \in Commands
      BY DEF Commands
    <3> QED BY <1>0, <2>0, <2>4, <3>1, AppendEntries
  <2> QED BY <2>1, <2>2, <2>3, <2>4, InboxSteps
<1>2. /\ \A i \in DOMAIN pending' : pending'[i].kind = "report" => StillKnown(pending'[i].a)
      /\ Reporting' => StillKnown(lane'.cur.a) /\ lane'.cur.a \in Actions
  <2>0. \A i \in DOMAIN pending : pending[i] \in Queued /\ pending[i].a \in Actions
    BY <1>0, PendingKnown
  <2>1. CASE LaneNext
    <3>1. \A i \in DOMAIN pending' : pending'[i].kind = "report" => StillKnown(pending'[i].a)
      <4>1. CASE Reports(pending')
        BY <1>k, <2>0, <4>1 DEF Reports, QueueInv
      <4>2. CASE Received
        <5>1. Head(inbox) = inbox[1] /\ 1 \in DOMAIN inbox /\ inbox[1] \in Commands
          BY <1>0, <4>2, HeadTailProperties, LenProperties, EmptySeq, ElementOfSeq DEF Received
        <5>2. /\ Head(inbox).a \in Actions /\ Known(Head(inbox).a)
              /\ pending' = Append(pending, Report(Head(inbox).a))
          BY <1>c, <4>2, <5>1 DEF Received, QueueInv
        <5>3. \A a \in Actions : Report(a) \in Queued /\ Report(a).a = a
          BY PacedType DEF Report, Queued, TypeOK, PortType
        <5> QED BY <1>0, <1>k, <2>0, <5>2, <5>3, AppendEntries DEF QueueInv
      <4> QED BY <2>1, <4>1, <4>2, PendingFrom
    <3>2. Reporting' => StillKnown(lane'.cur.a) /\ lane'.cur.a \in Actions
      <4>1. CASE Reporting /\ lane'.cur = lane.cur
        BY <1>k, <4>1 DEF QueueInv
      <4>2. CASE Reporting' /\ pending # << >> /\ lane'.cur = pending[1]
        <5>1. 1 \in DOMAIN pending /\ pending[1].kind = "report"
          BY <1>0, <4>2, LenProperties, EmptySeq DEF Reporting
        <5> QED BY <1>k, <2>0, <4>2, <5>1 DEF QueueInv
      <4> QED BY <2>1, <4>1, <4>2, ServeSteps
    <3> QED BY <3>1, <3>2
  <2>2. CASE ~LaneNext
    <3>1. /\ DOMAIN pending' = DOMAIN pending
          /\ \A i \in DOMAIN pending : pending'[i].kind = pending[i].kind
                                       /\ pending'[i].a = pending[i].a
          /\ lane'.pc = lane.pc /\ lane'.cur = lane.cur
      <4>1. CASE Tick
        BY <4>1, TickFields DEF Goes
      <4>2. CASE UNCHANGED <<pending, lane>>
        BY <4>2
      <4> QED BY <2>2, <4>1, <4>2, StepCases, SubmissionFrame, ReleaseFrame, CloseFrame
              DEF Lane, queue, vars
    <3>2. Reporting' => Reporting
      BY <3>1 DEF Reporting
    <3> QED BY <1>k, <2>0, <3>1, <3>2 DEF QueueInv
  <2> QED BY <2>1, <2>2
<1> QED
  BY <1>1, <1>2 DEF QueueInv, Known, StillKnown

-----------------------------------------------------------------------------
(* Outcomes stay                                                             *)

(* No step replaces an outcome. *)
LEMMA OutcomeKept ==
  ASSUME TypeOK, LaneInv, FailInv, QueueInv, ServingInv, \A b \in Actions : RecordInv(b),
         [Next]_vars
  PROVE  \A b \in Actions : IsTerminal(b) => op'[b].outcome = op[b].outcome
<1> USE DEF IsTerminal
<1>1. \A b \in Actions : IsTerminal(b) => /\ rec[b].st \in {"finished", "failed"} /\ ~Taken(b)
                                          /\ ~HasOwner(rec[b]) /\ rec[b].st \notin Effective
  BY DEF RecordInv, HasOwner, Effective
<1>2. \A b \in Actions : (Keep(b) \/ Close(b)) /\ IsTerminal(b) => op'[b].outcome = op[b].outcome
  BY <1>1 DEF Keep, Close
<1>3. ASSUME NEW a \in Actions, Submission(a) \/ CancelAction(a)
      PROVE  \A b \in Actions : IsTerminal(b) => op'[b].outcome = op[b].outcome
  <2>1. Submits(a)
    BY <1>3, SubmissionSteps
  <2>2. \A b \in Actions \ {a} : Keep(b)
    BY <2>1 DEF Submits, Only
  <2>3. Keep(a) \/ Close(a) \/ op'[a].outcome = op[a].outcome \/ Rejects(a)
    BY <2>1 DEF Submits, Reserves, Creates, Sends, Resolves, Others, Moves
  <2>4. Rejects(a) => Taken(a)
    BY DEF Rejects, SubGoes, Taken
  <2> QED BY <1>1, <1>2, <2>2, <2>3, <2>4
<1>4. CASE ReleaseStep
  <2>1. CASE SealsQuietly
    BY <1>2, <2>1 DEF SealsQuietly, OwnersSettled
  <2>2. ASSUME NEW c \in Actions, SealTakes(c)
        PROVE  \A b \in Actions : IsTerminal(b) => op'[b].outcome = op[b].outcome
    BY <1>2, <2>2 DEF SealTakes, Only, Moves
  <2>3. ASSUME NEW c \in Actions, SealSettles(c)
        PROVE  \A b \in Actions : IsTerminal(b) => op'[b].outcome = op[b].outcome
    BY <1>1, <1>2, <2>3 DEF SealSettles, Only, Taken, TakenBySeal
  <2> QED BY <1>4, <2>1, <2>2, <2>3, ReleaseSteps
<1>5. CASE CloseStep
  BY <1>1, <1>2, <1>5, CloseSteps DEF Joins, Effective
<1>6. CASE LaneNext
  <2>1. CASE LaneQuiet
    BY <1>2, <2>1 DEF LaneQuiet, OwnersSettled
  <2>2. CASE LanePanics
    BY <2>2 DEF LanePanics, ops
  <2>3. ASSUME NEW c \in Actions, Reported(c)
        PROVE  \A b \in Actions : IsTerminal(b) => op'[b].outcome = op[b].outcome
    <3>1. \A b \in Actions \ {c} : Keep(b)
      BY <2>3 DEF Reported, Marks, Accepts, Claims, Completes, Finishes, Only
    <3>2. op'[c].outcome = op[c].outcome \/ rec[c].st = "claimed"
      BY <2>3 DEF Reported, Marks, Accepts, Claims, Completes, Finishes, Moves
    <3> QED BY <1>1, <1>2, <3>1, <3>2 DEF Effective
  <2> QED BY <1>6, <2>1, <2>2, <2>3, LaneSettles, ReportSteps
<1>7. CASE Tick \/ UNCHANGED vars
  BY <1>7 DEF Tick, vars, ops
<1> QED
  BY <1>3, <1>4, <1>5, <1>6, <1>7, StepCases DEF SubmissionStep

-----------------------------------------------------------------------------
(* The Controller's state and its permanent failure                          *)

(* The connection is not made again, and a permanent failure is permanent. *)
LEMMA ConnSteps ==
  ASSUME TypeOK, [Next]_vars
  PROVE  /\ conn' = "connected" => conn = "connected"
         /\ fail # "none" => fail' # "none"
<1>0. PortType
  BY DEF TypeOK
<1>1. CASE SubmissionStep \/ ReleaseStep \/ Tick \/ UNCHANGED vars
  BY <1>1, SubmissionFrame, ReleaseFrame DEF Lane, port, vars, Tick
<1>2. CASE CloseStep
  BY <1>2 DEF CloseStep, CloseNext, CloseIntent, CloseInterrupt, CancelResource, SendClose,
     JoinLane, RecordOwnershipLoss, port
<1>3. CASE LaneNext
  <2>1. CASE \/ Top \/ Observe \/ Dispatch \/ MarkDispatched \/ AcceptReport \/ ClaimAccepted
             \/ CompleteClaim \/ FinishSuccess \/ AcceptNeutral \/ NoRelease \/ StartRelease
             \/ AcceptRelease \/ CompleteRelease \/ HandleDirect \/ HandleBegin \/ HandleClose
             \/ Woken \/ Await \/ Collect \/ WriteFinal \/ AcceptFinal
    BY <2>1 DEF Top, Observe, Dispatch, MarkDispatched, AcceptReport, ClaimAccepted,
       CompleteClaim, FinishSuccess, AcceptNeutral, NoRelease, StartRelease, AcceptRelease,
       CompleteRelease, HandleDirect, HandleBegin, HandleClose, Woken, Await, Collect,
       WriteFinal, AcceptFinal, port
  <2>2. CASE WriteReportFails \/ WriteNeutralFails \/ CleanupFails \/ WriteReleaseFails
    <3>1. UNCHANGED fail \/ fail' # "none"
      BY <2>2 DEF WriteReportFails, WriteNeutralFails, CleanupFails, WriteReleaseFails
    <3>2. conn' \in {conn, Dropped, "disconnected"}
      BY <2>2 DEF WriteReportFails, WriteNeutralFails, CleanupFails, WriteReleaseFails
    <3> QED BY <1>0, <3>1, <3>2, DroppedState
  <2>3. CASE SealAfterFailure \/ CloseLane \/ WriteFinalFails \/ CloseStream \/ FailHeld \/ SettleStream
             \/ LanePanics
    BY <2>3 DEF SealAfterFailure, CloseLane, WriteFinalFails, CloseStream, FailHeld, SettleStream,
       LanePanics, port
  <2> QED BY <1>3, <2>1, <2>2, <2>3 DEF LaneNext
<1> QED
  BY <1>1, <1>2, <1>3, StepCases

-----------------------------------------------------------------------------
(* The release record                                                        *)

Outs == {"none", "accepted", "notDelivered", "err"}

(* It is interrupted at most, or it gets its outcome unless it had one.      *)
Stays   == rel' \in Releases /\ rel'.st = rel.st /\ (rel.st = "committed" => rel' = rel)
Commits == /\ rel' \in Releases
           /\ rel.st \in {"none", "committed"} => rel' = rel
           /\ rel.st \notin {"none", "committed"} => rel'.st = "committed"

(* What the operators on a release record do to it. *)
LEMMA RelFields ==
  ASSUME rel \in Releases
  PROVE  /\ rel' = rel => Stays
         /\ rel' = Interrupt(rel) => Stays
         /\ rel' = Interrupted => Stays
         /\ \A o \in Outs : rel' = Complete(rel, o) => Commits
         /\ \A o \in Outs : rel' = Complete(Interrupt(rel), o) => Commits
         /\ [rel EXCEPT !.st = "outstanding"] \in Releases
         /\ [rel EXCEPT !.st = "gate"] \in Releases
         /\ [Interrupt(rel) EXCEPT !.st = "outstanding"] \in Releases
<1>1. \A r \in Releases : /\ Interrupt(r) \in Releases /\ Interrupt(r).st = r.st
                          /\ r.st \in {"none", "committed"} => Interrupt(r) = r
  BY DEF Interrupt, Releases
<1>2. \A r \in Releases, o \in Outs :
        /\ Complete(r, o) \in Releases
        /\ r.st \in {"none", "committed"} => Complete(r, o) = r
        /\ r.st \notin {"none", "committed"} => Complete(r, o).st = "committed"
  BY DEF Complete, Releases, Outs
<1>3. \A r \in Releases : /\ [r EXCEPT !.st = "outstanding"] \in Releases
                          /\ [r EXCEPT !.st = "gate"] \in Releases
  BY DEF Releases
<1>4. Interrupted \in {rel, Interrupt(rel)}
  BY DEF Interrupted
<1>5. ASSUME rel' \in {rel, Interrupt(rel)} PROVE Stays
  BY <1>1, <1>5 DEF Stays
<1>6. ASSUME NEW o \in Outs, rel' = Complete(rel, o) PROVE Commits
  BY <1>2, <1>6 DEF Commits
<1>7. ASSUME NEW o \in Outs, rel' = Complete(Interrupt(rel), o) PROVE Commits
  <2>1. Interrupt(rel) \in Releases /\ Interrupt(rel).st = rel.st
        /\ (rel.st \in {"none", "committed"} => Interrupt(rel) = rel)
    BY <1>1
  <2> QED BY <1>2, <1>7, <2>1 DEF Commits
<1>8. [Interrupt(rel) EXCEPT !.st = "outstanding"] \in Releases
  BY <1>1, <1>3
<1> HIDE DEF Stays, Commits
<1> QED
  BY <1>3, <1>4, <1>5, <1>6, <1>7, <1>8

(* What the releasing thread does to the record of its release. *)
LEMMA ReleaserRel ==
  ASSUME TypeOK, LaneInv, FailInv, ReleaseStep
  PROVE  \/ /\ SealGeneration /\ releaser.pc = "idle" /\ releaser'.pc = "sealed"
            /\ gen' = [gen EXCEPT !.sealed = TRUE] /\ rel' = [rel EXCEPT !.st = "undispatched"]
            /\ UNCHANGED inbox
         \/ /\ releaser.pc \notin {"idle", "done"} /\ releaser'.pc # "idle" /\ gen' = gen
            /\ \/ Stays /\ UNCHANGED inbox
               \/ Commits /\ UNCHANGED inbox /\ (fail # "none" \/ ~LaneAlive)
               \/ /\ rel' = rel /\ LaneAlive /\ releaser'.pc = "done"
                  /\ inbox' = Append(inbox, [k |-> "begin", a |-> "none"])
<1>0. rel \in Releases /\ releaser \in Releasers /\ "err" \in Outs /\ "notDelivered" \in Outs
  BY DEF TypeOK, UsersType, Outs
<1>1. CASE SealGeneration
  BY <1>0, <1>1 DEF SealGeneration, Releasers
<1>2. CASE ReadFailure \/ TakeUndispatched \/ SettleUndispatched
  BY <1>0, <1>2, RelFields DEF ReadFailure, TakeUndispatched, SettleUndispatched, Releasers
<1>3. CASE \E a \in Actions : VisitSealed(a)
  BY <1>0, <1>3, RelFields DEF VisitSealed, Releasers
<1>4. CASE Track
  <2>1. /\ releaser.pc = "settle" /\ releaser'.pc = "tracked" /\ gen' = gen /\ inbox' = inbox
    BY <1>0, <1>4 DEF Track, Releasers
  <2>2. \/ rel' = rel \/ rel' = Interrupt(rel)
        \/ registry.projection = "proven" /\ rel' = Complete(rel, "err")
        \/ registry.settled /\ rel' = Complete(rel, "notDelivered")
    BY <1>4 DEF Track, TypeOK, UsersType, Registries
  <2>3. /\ registry.projection = "proven" => fail # "none"
        /\ registry.settled => ~LaneAlive
    BY DEF FailInv, LaneAlive
  <2> QED BY <1>0, <2>1, <2>2, <2>3, RelFields
<1>5. CASE SendBegin
  <2>1. releaser.pc = "tracked" /\ releaser'.pc = "done" /\ gen' = gen
    BY <1>0, <1>5 DEF SendBegin, Releasers
  <2>2. CASE ~releaser.failure /\ LaneAlive
    BY <1>5, <2>1, <2>2 DEF SendBegin
  <2>3. CASE ~(~releaser.failure /\ LaneAlive)
    <3>1. rel' = Complete(rel, "err") /\ inbox' = inbox /\ (fail # "none" \/ ~LaneAlive)
      BY <1>5, <2>3 DEF SendBegin, FailInv
    <3> QED BY <1>0, <2>1, <3>1, RelFields
  <2> QED BY <2>2, <2>3
<1> QED
  BY <1>1, <1>2, <1>3, <1>4, <1>5 DEF ReleaseStep, ReleaseNext

(* A lane that collects a release's command takes it over.                   *)
LEMMA LaneRel ==
  ASSUME TypeOK, LaneNext
  PROVE  \/ Stays
         \/ /\ StartRelease \/ WriteFinal
            /\ cleanup.on /\ rel' \in Releases /\ rel'.st = "outstanding"
         \/ (StartRelease \/ WriteFinal) /\ cleanup.on /\ Commits
         \/ AcceptRelease /\ rel' \in Releases /\ rel'.st = "gate"
         \/ (CompleteRelease \/ WriteReleaseFails \/ SealAfterFailure \/ SettleStream) /\ Commits
         \/ HandleBegin /\ fail # "none" /\ Commits
         \/ Collect /\ Begins /\ Commits
<1>0. rel \in Releases /\ {"accepted", "notDelivered", "err"} \subseteq Outs
  BY DEF TypeOK, UsersType, Outs
<1>1. CASE rel' = rel
  BY <1>0, <1>1, RelFields
<1>2. CASE StartRelease
  <2>1. \/ rel' = [rel EXCEPT !.st = "outstanding"] \/ rel' = Complete(rel, "notDelivered")
    BY <1>2 DEF StartRelease
  <2>2. cleanup.on
    BY <1>2 DEF StartRelease, ReleaseDue
  <2>3. [rel EXCEPT !.st = "outstanding"].st = "outstanding"
    BY <1>0 DEF Releases
  <2> QED BY <1>0, <1>2, <2>1, <2>2, <2>3, RelFields
<1>3. CASE AcceptRelease
  <2>1. [rel EXCEPT !.st = "gate"].st = "gate"
    BY <1>0 DEF Releases
  <2> QED BY <1>0, <1>3, <2>1, RelFields DEF AcceptRelease
<1>4. CASE CompleteRelease \/ WriteReleaseFails \/ SealAfterFailure \/ SettleStream
  <2>1. rel' = rel \/ \E o \in Outs : rel' = Complete(rel, o)
    BY <1>0, <1>4 DEF CompleteRelease, WriteReleaseFails, SealAfterFailure, SettleStream
  <2> QED BY <1>0, <1>4, <2>1, RelFields
<1>5. CASE HandleBegin
  <2>1. rel' = rel \/ (fail # "none" /\ rel' = Complete(rel, "err"))
    BY <1>5 DEF HandleBegin
  <2> QED BY <1>0, <1>5, <2>1, RelFields
<1>6. CASE CloseLane
  <2>1. rel' = Interrupted
    BY <1>6 DEF CloseLane
  <2> QED BY <1>0, <2>1, RelFields
<1>7. CASE Collect
  <2> DEFINE begins == \E c \in ToSet(inbox) : c.k = "begin"
             own == cleanup.on \/ (begins /\ lease = "automation")
             r == IF own \/ begins THEN Interrupt(rel) ELSE rel
  <2>1. rel' = IF begins /\ ~own THEN Complete(r, "notDelivered") ELSE r
    BY <1>7 DEF Collect
  <2>2. begins => Begins
    BY DEF ToSet, Begins
  <2>3. \/ rel' = rel \/ rel' = Interrupt(rel)
        \/ Begins /\ rel' = Complete(Interrupt(rel), "notDelivered")
    BY <2>1, <2>2
  <2> QED BY <1>0, <1>7, <2>3, RelFields
<1>8. CASE WriteFinal
  <2>1. \/ cleanup.on /\ rel' = [Interrupt(rel) EXCEPT !.st = "outstanding"]
        \/ cleanup.on /\ rel' = Complete(Interrupt(rel), "notDelivered")
        \/ rel' = rel
    BY <1>8 DEF WriteFinal
  <2>2. [Interrupt(rel) EXCEPT !.st = "outstanding"].st = "outstanding"
    BY <1>0 DEF Releases, Interrupt
  <2> QED BY <1>0, <1>8, <2>1, <2>2, RelFields
<1>9. \/ rel' = rel \/ StartRelease \/ AcceptRelease \/ CompleteRelease \/ WriteReleaseFails
      \/ SealAfterFailure \/ SettleStream \/ HandleBegin \/ CloseLane \/ Collect \/ WriteFinal
  BY DEF LaneNext, Top, Observe, Dispatch, MarkDispatched, AcceptReport, ClaimAccepted,
     CompleteClaim, FinishSuccess, WriteReportFails, AcceptNeutral, WriteNeutralFails,
     CleanupFails, NoRelease, HandleDirect, HandleClose, Woken, Await, AcceptFinal,
     WriteFinalFails, CloseStream, FailHeld, LanePanics
<1> QED
  BY <1>1, <1>2, <1>3, <1>4, <1>5, <1>6, <1>7, <1>8, <1>9

(* The other threads only mark it as interrupted. *)
LEMMA OtherRel ==
  ASSUME TypeOK, SubmissionStep \/ CloseStep \/ Tick \/ UNCHANGED vars
  PROVE  Stays
<1>0. rel \in Releases
  BY DEF TypeOK, UsersType
<1>1. rel' = rel \/ rel' = Interrupted
  BY SubmissionFrame DEF CloseStep, CloseNext, CloseIntent, CloseInterrupt, CancelResource,
     SendClose, JoinLane, RecordOwnershipLoss, Tick, vars
<1> QED
  BY <1>0, <1>1, RelFields

-----------------------------------------------------------------------------
(* The generation and its release                                            *)

(* Why a release may begin while an action of its lease is open.             *)
Free == lane.closing \/ ~LaneAlive \/ fail # "none"

(* A lane that closes, ended or failed for good does not come back. *)
LEMMA FreeStable ==
  ASSUME TypeOK, LaneInv, [Next]_vars
  PROVE  Free => Free'
<1>1. fail # "none" => fail' # "none"
  BY ConnSteps
<1>2. CASE LaneNext
  <2>1. CASE \/ Top \/ Observe \/ NoRelease \/ StartRelease \/ HandleDirect \/ HandleBegin
             \/ HandleClose \/ Woken \/ Await \/ FinishSuccess \/ Dispatch \/ MarkDispatched
             \/ ClaimAccepted \/ CompleteClaim
    <3>1. LaneAlive /\ lane'.closing = lane.closing
      BY <2>1, RunPlaces DEF Goes, Holds, LaneAlive
    <3> QED BY <1>1, <3>1 DEF Free
  <2>2. CASE \/ AcceptReport \/ WriteReportFails \/ AcceptNeutral \/ WriteNeutralFails
             \/ CleanupFails \/ AcceptRelease \/ AcceptFinal \/ WriteFinalFails
             \/ CompleteRelease \/ WriteReleaseFails \/ SealAfterFailure
    <3>1. LaneAlive /\ (lane.closing => lane'.closing)
      BY <2>2, WritePlaces DEF Goes, Holds, LaneAlive
    <3> QED BY <1>1, <3>1 DEF Free
  <2>3. CASE CloseLane \/ Collect \/ WriteFinal \/ CloseStream \/ FailHeld
    <3>1. LaneAlive /\ (lane.closing => lane'.closing)
      BY <2>3, ClosePlaces DEF Holds, LaneAlive
    <3> QED BY <1>1, <3>1 DEF Free
  <2>4. CASE SettleStream \/ LanePanics
    BY <2>4, ClosePlaces DEF Over, Free, LaneAlive
  <2> QED BY <1>2, <2>1, <2>2, <2>3, <2>4 DEF LaneNext
<1>3. CASE ~LaneNext
  <2>1. lane'.pc = lane.pc /\ lane'.closing = lane.closing
    BY <1>3, StepCases, SubmissionFrame, ReleaseFrame, CloseFrame, TickFields
       DEF Lane, vars, Goes
  <2> QED BY <1>1, <2>1 DEF Free, LaneAlive
<1> QED
  BY <1>2, <1>3

(* When its actions are settled nothing of the lease can be dispatched.      *)
LEMMA DueMeansDead ==
  ASSUME TypeOK, GenInv, ActionsSettled
  PROVE  \A a \in leased : Dead(a)
<1> SUFFICES ASSUME NEW a \in leased PROVE Dead(a)
  OBVIOUS
<1>1. sub[a] \in SubPlaces
  BY DEF TypeOK, OpsType, UsersType
<1>2. sub[a] \notin {"reserved", "created", "resolve", "refuse"}
  BY DEF ActionsSettled, Reservations
<1>3. sub[a] \in {"reject", "dispatched", "wakeDone", "done"} => IsTerminal(a)
  BY DEF ActionsSettled, GenInv
<1> QED
  BY <1>1, <1>2, <1>3 DEF Dead, SubPlaces

(* Once the generation is sealed, an action that cannot be dispatched stays  *)
(* so.                                                                       *)
LEMMA DeadStable ==
  ASSUME TypeOK, LaneInv, FailInv, QueueInv, ServingInv, \A b \in Actions : RecordInv(b),
         [Next]_vars, gen.sealed, NEW a \in leased, Dead(a)
  PROVE  Dead(a)'
<1>0. a \in Actions /\ sub \in [Actions -> SubPlaces]
  BY DEF TypeOK, OpsType, UsersType
<1>1. IsTerminal(a) => IsTerminal(a)'
  BY <1>0, OutcomeKept DEF IsTerminal
<1>2. CASE UNCHANGED sub
  BY <1>1, <1>2 DEF Dead
<1>3. ASSUME NEW c \in Actions, Submission(c) \/ CancelAction(c)
      PROVE  Dead(a)'
  <2>1. Submits(c) /\ \A b \in Actions \ {c} : sub'[b] = sub[b]
    BY <1>0, <1>3, SubmissionSteps, SubmissionPlaces
  <2>2. CASE a # c
    BY <1>0, <1>1, <2>1, <2>2 DEF Dead
  <2>3. CASE a = c /\ ~IsTerminal(a)
    <3>1. sub[a] \in {"idle", "refuse", "wakeRefused", "refused"}
      BY <2>3 DEF Dead
    <3>2. \A from, to : SubGoes(a, from, to) => sub[a] = from /\ sub'[a] = to
      BY <1>0 DEF SubGoes
    <3>3. ~Creates(a) /\ ~Sends(a) /\ ~Rejects(a)
      BY <3>1, <3>2 DEF Creates, Sends, Rejects
    <3>4. sub'[a] \in {"refuse", "wakeRefused", "refused"}
      BY <2>1, <2>3, <3>1, <3>2, <3>3 DEF Submits, Reserves, Resolves, Others
    <3> QED BY <3>4 DEF Dead
  <2>4. CASE IsTerminal(a)
    BY <1>1, <2>4 DEF Dead
  <2> QED BY <2>2, <2>3, <2>4
<1>4. SubmissionStep \/ UNCHANGED sub
  BY StepCases, ReleaseFrame, CloseFrame, LaneFrame DEF users, Tick, vars
<1> QED
  BY <1>2, <1>3, <1>4 DEF SubmissionStep

(* The places of the submissions, and what they say of the generation.       *)
GenPlaces(a) ==
  /\ sub[a] \in {"reject", "dispatched", "wakeDone", "done"} => a \in gen.actions
  /\ sub[a] = "refuse" => conn # "connected"
  /\ sub[a] = "wakeRefused" => IsTerminal(a) \/ conn # "connected"

(* A step keeps the places of the submissions in agreement with the          *)
(* generation.                                                               *)
LEMMA GenPlacesKept ==
  ASSUME TypeOK, LaneInv, FailInv, QueueInv, ServingInv, GenInv,
         \A b \in Actions : RecordInv(b), [Next]_vars
  PROVE  \A a \in leased : GenPlaces(a)'
<1>0. /\ leased \subseteq Actions /\ sub \in [Actions -> SubPlaces]
      /\ \A a \in leased : GenPlaces(a)
  BY DEF TypeOK, OpsType, UsersType, GenInv, GenPlaces
<1>1. \A a \in leased : IsTerminal(a) => IsTerminal(a)'
  BY <1>0, OutcomeKept DEF IsTerminal
<1>2. conn' = "connected" => conn = "connected"
  BY ConnSteps
<1>3. ASSUME NEW a \in leased, sub'[a] = sub[a], gen.actions \subseteq gen'.actions
      PROVE  GenPlaces(a)'
  BY <1>0, <1>1, <1>2, <1>3 DEF GenPlaces
<1>4. ASSUME NEW c \in Actions, Submission(c) \/ CancelAction(c)
      PROVE  \A a \in leased : GenPlaces(a)'
  <2>1. /\ Submits(c) /\ \A b \in Actions \ {c} : sub'[b] = sub[b]
        /\ gen.actions \subseteq gen'.actions
    BY <1>0, <1>4, SubmissionSteps, SubmissionPlaces DEF Submits
  <2>2. \A a \in leased \ {c} : GenPlaces(a)'
    BY <1>0, <1>3, <2>1
  <2>3. ASSUME c \in leased
        PROVE  GenPlaces(c)'
    <3>1. \A from, to : SubGoes(c, from, to) => sub[c] = from /\ sub'[c] = to
      BY <1>0 DEF SubGoes
    <3>2. Shut => conn' # "connected"
      BY <1>2 DEF Shut, Closing, FailInv
    <3>3. Refused(c) = "refuse" /\ Passed(c) = "resolve"
      BY <2>3 DEF Refused, Passed
    <3>4. CASE Reserves(c)
      BY <3>1, <3>4 DEF Reserves, GenPlaces
    <3>5. CASE Creates(c) \/ Sends(c)
      BY <3>1, <3>2, <3>3, <3>5 DEF Creates, Sends, GenPlaces
    <3>6. CASE Resolves(c)
      BY <1>0, <1>2, <2>3, <3>1, <3>6 DEF Resolves, GenPlaces
    <3>7. CASE Rejects(c)
      BY <3>1, <3>7 DEF Rejects, GenPlaces, IsTerminal
    <3>8. CASE Others(c)
      BY <1>0, <2>1, <2>3, <3>1, <3>8 DEF Others, GenPlaces
    <3> QED BY <2>1, <3>4, <3>5, <3>6, <3>7, <3>8 DEF Submits
  <2> QED BY <2>2, <2>3
<1>5. CASE UNCHANGED <<sub, gen>>
  BY <1>3, <1>5
<1>6. CASE ReleaseStep
  <2>1. UNCHANGED sub /\ gen'.actions = gen.actions
    BY <1>6, ReleaseFrame, ReleaserRel DEF TypeOK, UsersType
  <2> QED BY <1>3, <2>1
<1>7. SubmissionStep \/ ReleaseStep \/ UNCHANGED <<sub, gen>>
  BY StepCases, CloseFrame, LaneFrame DEF users, Tick, vars
<1> QED
  BY <1>4, <1>5, <1>6, <1>7 DEF SubmissionStep

Under(r) == r.st \in {"outstanding", "gate", "committed"}

(* A step keeps the generation in agreement with its release. *)
LEMMA GenKept ==
  ASSUME TypeOK, LaneInv, FailInv, QueueInv, ServingInv, GenInv, ReleaseInv,
         \A b \in Actions : RecordInv(b), [Next]_vars
  PROVE  GenInv'
<1>0. /\ rel \in Releases /\ gen \in [sealed : BOOLEAN, actions : SUBSET Actions]
      /\ gen.sealed <=> rel.st # "none"
      /\ gen.sealed <=> releaser.pc # "idle"
  BY DEF TypeOK, UsersType, GenInv
<1>1. \A a \in leased' : GenPlaces(a)'
  <2>1. UNCHANGED leased
    BY StepCases, SubmissionFrame, ReleaseFrame, CloseFrame, LaneFrame DEF Tick, vars
  <2> QED BY <2>1, GenPlacesKept
<1>2. /\ gen'.sealed <=> rel'.st # "none"
      /\ gen'.sealed <=> releaser'.pc # "idle"
  <2>1. CASE ReleaseStep
    <3>1. CASE SealGeneration
      <4>1. gen'.sealed /\ releaser'.pc = "sealed" /\ rel'.st = "undispatched"
        BY <1>0, <2>1, <3>1, ReleaserRel DEF SealGeneration, Releases, TypeOK, UsersType, Releasers
      <4> QED BY <4>1
    <3>2. CASE ~SealGeneration
      <4>1. /\ gen' = gen /\ releaser.pc # "idle" /\ releaser'.pc # "idle"
            /\ Stays \/ Commits \/ rel' = rel
        BY <2>1, <3>2, ReleaserRel
      <4> QED BY <1>0, <4>1 DEF Stays, Commits
    <3> QED BY <3>1, <3>2
  <2>2. CASE ~ReleaseStep
    <3>1. releaser' = releaser /\ gen'.sealed = gen.sealed
      <4>1. CASE SubmissionStep
        <5>1. releaser' = releaser
          BY <4>1, SubmissionFrame
        <5>2. \E a \in Actions : Submits(a)
          BY <4>1, SubmissionSteps DEF SubmissionStep
        <5> QED BY <5>1, <5>2 DEF Submits
      <4> QED BY <2>2, <4>1, StepCases, CloseFrame, LaneFrame DEF Tick, vars, users
    <3>2. rel'.st = "none" <=> rel.st = "none"
      <4>1. CASE LaneNext
        <5>1. cleanup.on => rel.st = "undispatched"
          BY DEF ReleaseInv
        <5>2. AcceptRelease => rel.st = "outstanding"
          BY DEF AcceptRelease, Here, ReleaseInv
        <5> QED BY <4>1, <5>1, <5>2, LaneRel DEF Stays, Commits
      <4> QED BY <2>2, <4>1, StepCases, OtherRel DEF Stays
    <3> QED BY <1>0, <3>1, <3>2
  <2> QED BY <2>1, <2>2
<1>3. ASSUME Under(rel')
      PROVE  Free' \/ \A a \in leased' : Dead(a)'
  <2>0. UNCHANGED leased
    BY StepCases, SubmissionFrame, ReleaseFrame, CloseFrame, LaneFrame DEF Tick, vars
  <2>1. gen.sealed /\ (\A a \in leased : Dead(a)) => \A a \in leased' : Dead(a)'
    BY <2>0, DeadStable
  <2>2. CASE Under(rel)
    <3>1. gen.sealed /\ (Free \/ \A a \in leased : Dead(a))
      BY <1>0, <2>2 DEF Under, GenInv, Free
    <3> QED BY <2>1, <3>1, FreeStable
  <2>3. CASE ~Under(rel)
    <3>1. Free \/ (gen.sealed /\ \A a \in leased : Dead(a))
      <4>1. CASE LaneNext
        <5>1. rel.st \in {"none", "undispatched"} /\ ~Stays
          BY <1>0, <1>3, <2>3 DEF Stays, Under, Releases
        <5>2. Commits => rel.st = "undispatched"
          BY <1>3, <2>3, <5>1 DEF Commits, Under
        <5>3. StartRelease => ActionsSettled /\ rel.st = "undispatched"
          BY DEF StartRelease, ReleaseDue, ReleaseInv
        <5>4. CASE StartRelease
          BY <1>0, <5>3, <5>4, DueMeansDead
        <5>5. CASE WriteFinal \/ Collect
          BY <5>5, ClosePlaces DEF Free, LaneInv, Closes
        <5>6. CASE HandleBegin /\ fail # "none"
          BY <5>6 DEF Free
        <5>7. CASE SealAfterFailure
          BY <5>7, WritePlaces DEF Free, FailInv
        <5>8. CASE SettleStream
          BY <5>8, ClosePlaces DEF Free, LaneInv, Closes
        <5>9. ~AcceptRelease /\ ~CompleteRelease /\ ~WriteReleaseFails
          BY <5>1, WritePlaces DEF ReleaseInv
        <5> QED BY <4>1, <5>1, <5>4, <5>5, <5>6, <5>7, <5>8, <5>9, LaneRel
      <4>2. CASE ReleaseStep
        <5>1. SealGeneration => ~Under(rel')
          BY <1>0 DEF SealGeneration, Under, Releases
        <5>2. ~Stays /\ rel' # rel
          BY <1>3, <2>3 DEF Stays, Under
        <5> QED BY <1>3, <4>2, <5>1, <5>2, ReleaserRel DEF Free
      <4>3. CASE ~LaneNext /\ ~ReleaseStep
        BY <1>3, <2>3, <4>3, StepCases, OtherRel DEF Stays, Under
      <4> QED BY <4>1, <4>2, <4>3
    <3> QED BY <2>1, <3>1, FreeStable
  <2> QED BY <2>2, <2>3
<1> QED
  BY <1>1, <1>2, <1>3 DEF GenInv, GenPlaces, Under, Free

(* A command to begin is not doubled by taking commands. *)
LEMMA BeginsDrawn ==
  ASSUME BeginsAlone, Drawn(inbox', inbox)
  PROVE  BeginsAlone' /\ (Begins' => Begins)
<1>1. PICK f \in [DOMAIN inbox' -> DOMAIN inbox] :
        /\ \A k \in DOMAIN inbox' : inbox'[k] = inbox[f[k]]
        /\ \A k, l \in DOMAIN inbox' : f[k] = f[l] => k = l
  BY DEF Drawn
<1>2. \A k \in DOMAIN inbox' : f[k] \in DOMAIN inbox
  BY <1>1
<1> QED
  BY <1>1, <1>2 DEF BeginsAlone, Begins

(* Taking the command to begin leaves none. *)
LEMMA BeginTaken ==
  ASSUME TypeOK, HandleBegin, BeginsAlone
  PROVE  Begins /\ ~Begins'
<1>1. inbox \in Seq(Commands) /\ inbox # << >> /\ Head(inbox).k = "begin" /\ inbox' = Tail(inbox)
  BY DEF TypeOK, LaneType, HandleBegin, Take
<1>2. /\ Head(inbox) = inbox[1] /\ Len(inbox) \in Nat \ {0} /\ DOMAIN inbox = 1..Len(inbox)
      /\ DOMAIN Tail(inbox) = 1..(Len(inbox) - 1)
      /\ \A i \in 1..(Len(inbox) - 1) : Tail(inbox)[i] = inbox[i + 1]
  BY <1>1, HeadTailProperties, LenProperties, EmptySeq
<1>3. Begins
  BY <1>1, <1>2 DEF Begins
<1>4. ASSUME NEW i \in 1..(Len(inbox) - 1), Tail(inbox)[i].k = "begin"
      PROVE  FALSE
  <2>1. inbox[i + 1].k = "begin" /\ inbox[1].k = "begin" /\ i + 1 \in DOMAIN inbox /\ 1 \in DOMAIN inbox
    BY <1>1, <1>2, <1>4
  <2> QED BY <1>2, <2>1 DEF BeginsAlone
<1> QED
  BY <1>1, <1>2, <1>3, <1>4 DEF Begins

(* No command, no begin. *)
LEMMA NoneBegins == ASSUME inbox' = << >> PROVE ~Begins' /\ BeginsAlone'
BY EmptySeq DEF Begins, BeginsAlone

(* Another command does not begin a release, and the first one is alone. *)
LEMMA OneBegins ==
  ASSUME TypeOK, NEW c \in Commands, inbox' = Append(inbox, c)
  PROVE  /\ c.k # "begin" => (Begins' => Begins) /\ (BeginsAlone => BeginsAlone')
         /\ ~Begins => BeginsAlone'
<1>1. /\ DOMAIN inbox' = DOMAIN inbox \union {Len(inbox) + 1} /\ Len(inbox) + 1 \notin DOMAIN inbox
      /\ \A i \in DOMAIN inbox : inbox'[i] = inbox[i]
      /\ inbox'[Len(inbox) + 1] = c
  BY AppendEntries DEF TypeOK, LaneType
<1> QED
  BY <1>1 DEF Begins, BeginsAlone

(* close_lane makes a release its own only if it was under way. *)
LEMMA CollectOwn ==
  ASSUME TypeOK, Collect
  PROVE  /\ cleanup' \in [on : BOOLEAN, target : 0..Interval]
         /\ cleanup'.on => (cleanup.on \/ (Begins /\ lease = "automation")) /\ Stays
         /\ lane'.pc = "closeStream" => ~cleanup'.on
<1> DEFINE begins == \E c \in ToSet(inbox) : c.k = "begin"
           own == cleanup.on \/ (begins /\ lease = "automation")
           r == IF own \/ begins THEN Interrupt(rel) ELSE rel
<1>0. rel \in Releases /\ lane \in Lanes /\ cleanup.on \in BOOLEAN /\ 0 \in 0..Interval
  BY PacedType DEF TypeOK, UsersType, LaneType, PortType
<1>1. rel' = IF begins /\ ~own THEN Complete(r, "notDelivered") ELSE r
  BY DEF Collect
<1>2. cleanup' = [on |-> own, target |-> 0]
  BY DEF Collect
<1>3. begins => Begins
  BY DEF ToSet, Begins
<1>4. lane'.pc = IF own \/ (lane.connected /\ ~lane.consumed) \/ lane.pc = "wait"
                 THEN "wait" ELSE "closeStream"
  BY <1>0 DEF Collect, Lanes
<1>5. own \in BOOLEAN
  BY <1>0
<1>6. own => rel' = Interrupt(rel)
  BY <1>1
<1> HIDE DEF own
<1>7. cleanup'.on = own /\ cleanup' \in [on : BOOLEAN, target : 0..Interval]
  BY <1>0, <1>2, <1>5
<1>8. own => cleanup.on \/ (Begins /\ lease = "automation")
  BY <1>3 DEF own
<1> QED
  BY <1>0, <1>4, <1>6, <1>7, <1>8, RelFields

(* A neutral report of the release that is written is outstanding. *)
LEMMA StartsRelease ==
  ASSUME TypeOK, StartRelease \/ WriteFinal
  PROVE  /\ lane'.pc = "write" /\ lane'.cur.kind = "release" => rel'.st = "outstanding"
         /\ ~cleanup'.on
<1>0. rel \in Releases /\ lane \in Lanes /\ ~NoCleanup.on
  BY EntryFields DEF TypeOK, UsersType, LaneType
<1>1. CASE StartRelease
  <2>1. conn = "connected" => rel' = [rel EXCEPT !.st = "outstanding"]
    BY <1>1 DEF StartRelease
  <2>2. conn # "connected" => lane'.pc = "sleep"
    <3>1. TRUE \in BOOLEAN /\ lane.consumed \in BOOLEAN
      BY <1>0 DEF Lanes
    <3> QED BY <1>0, <1>1 DEF StartRelease, Lanes
  <2>3. [rel EXCEPT !.st = "outstanding"].st = "outstanding"
    BY <1>0 DEF Releases
  <2>4. cleanup' = NoCleanup
    BY <1>1 DEF StartRelease
  <2> QED BY <1>0, <2>1, <2>2, <2>3, <2>4
<1>2. CASE WriteFinal
  <2>1. [Interrupt(rel) EXCEPT !.st = "outstanding"].st = "outstanding"
    BY <1>0 DEF Releases, Interrupt
  <2>2. cleanup' = NoCleanup
    BY <1>2 DEF WriteFinal
  <2>3. \/ rel' = [Interrupt(rel) EXCEPT !.st = "outstanding"]
        \/ lane'.pc = "closeStream"
        \/ lane' = [lane EXCEPT !.pc = "write", !.cur = NeutralFor("close")]
    BY <1>0, <1>2 DEF WriteFinal, Lanes
  <2>4. lane' = [lane EXCEPT !.pc = "write", !.cur = NeutralFor("close")] => lane'.cur.kind = "close"
    BY <1>0, EntryFields DEF Lanes
  <2> QED BY <1>0, <2>1, <2>2, <2>3, <2>4
<1> QED
  BY <1>1, <1>2

(* The lane keeps its release in agreement with the record of it. *)
LEMMA LaneReleases ==
  ASSUME TypeOK, LaneInv, FailInv, ReleaseInv, LaneNext
  PROVE  ReleaseInv'
<1> USE DEF ReleaseInv
<1>0. LaneType /\ BeginsAlone' /\ (Begins' => Begins) /\ releaser' = releaser
      /\ ~NoCleanup.on /\ (fail # "none" => fail' # "none")
  <2>1. LaneType /\ Drawn(inbox', inbox) /\ [Next]_vars
    BY InboxDrawn DEF TypeOK, Next
  <2> QED BY <2>1, BeginsDrawn, LaneFrame, EntryFields, ConnSteps DEF users
<1>1. CASE \/ Top \/ Observe \/ Dispatch \/ MarkDispatched \/ AcceptReport \/ ClaimAccepted
           \/ CompleteClaim \/ FinishSuccess \/ WriteReportFails \/ AcceptNeutral
           \/ WriteNeutralFails \/ CleanupFails \/ NoRelease \/ HandleDirect \/ HandleClose
           \/ Woken \/ Await \/ CloseLane
  <2>1. cleanup' = cleanup
    BY <1>1 DEF Top, Observe, Dispatch, MarkDispatched, AcceptReport, ClaimAccepted,
       CompleteClaim, FinishSuccess, WriteReportFails, AcceptNeutral, WriteNeutralFails,
       CleanupFails, NoRelease, HandleDirect, HandleClose, Woken, Await, CloseLane, queue
  <2>2. Stays
    <3>1. rel \in Releases /\ (rel' = rel \/ rel' = Interrupted)
      BY <1>1 DEF Top, Observe, Dispatch, MarkDispatched, AcceptReport, ClaimAccepted,
         CompleteClaim, FinishSuccess, WriteReportFails, AcceptNeutral, WriteNeutralFails,
         CleanupFails, NoRelease, HandleDirect, HandleClose, Woken, Await, CloseLane,
         TypeOK, UsersType
    <3> QED BY <3>1, RelFields
  <2>3. /\ lane'.pc \notin {"released", "closeStream", "closeFailed", "closeSettle", "ended",
                           "panicked"}
        /\ lane'.pc = "write" => lane'.cur.kind \in {"report", "neutral"}
        /\ LaneAlive
    <3>1. CASE Dispatch
      <4>1. pending # << >> => pending[1].kind \in {"report", "neutral"}
        BY <1>0, QueuedFields DEF LaneType
      <4> QED BY <3>1, <4>1, RunPlaces DEF Goes, Holds, LaneAlive
    <3>2. CASE \/ Top \/ Observe \/ MarkDispatched \/ ClaimAccepted \/ CompleteClaim
               \/ FinishSuccess \/ NoRelease \/ HandleDirect \/ HandleClose \/ Woken \/ Await
      BY <3>2, RunPlaces DEF Goes, Holds, LaneAlive, LaneInv
    <3>3. CASE \/ AcceptReport \/ WriteReportFails \/ AcceptNeutral \/ WriteNeutralFails
               \/ CleanupFails
      BY <3>3, WritePlaces DEF Goes, LaneAlive
    <3>4. CASE CloseLane
      BY <3>4, ClosePlaces DEF Holds, LaneAlive
    <3> QED BY <1>1, <3>1, <3>2, <3>3, <3>4
  <2> QED BY <1>0, <2>1, <2>2, <2>3 DEF Stays, LaneAlive
<1>2. CASE StartRelease
  <2>1. /\ cleanup.on /\ rel.st = "undispatched" /\ releaser.pc = "done" /\ ~Begins
    BY <1>2 DEF StartRelease, ReleaseDue
  <2>2. (lane'.pc = "write" /\ lane'.cur.kind = "release") \/ lane'.pc = "sleep"
    BY <1>2, RunPlaces DEF Holds
  <2> QED BY <1>0, <1>2, <2>1, <2>2, StartsRelease
<1>3. CASE AcceptRelease
  <2>1. /\ rel.st = "outstanding" /\ releaser.pc = "done" /\ cleanup' = cleanup
        /\ lane'.pc = "released" /\ LaneAlive
    BY <1>3, WritePlaces DEF AcceptRelease, Goes, LaneAlive, queue
  <2>2. rel'.st = "gate"
    BY <1>3 DEF AcceptRelease, TypeOK, UsersType, Releases
  <2> QED BY <1>0, <2>1, <2>2
<1>4. CASE CompleteRelease \/ WriteReleaseFails
  <2>1. rel.st \in {"outstanding", "gate"} /\ releaser.pc = "done" /\ ~cleanup.on
    BY <1>4, WritePlaces
  <2>2. cleanup' = cleanup /\ lane'.pc \in {"closeStream", "sleep"}
    BY <1>4, WritePlaces DEF CompleteRelease, WriteReleaseFails, Holds
  <2> QED BY <1>0, <2>1, <2>2
<1>5. CASE SealAfterFailure
  <2>1. ~cleanup'.on /\ fail' # "none" /\ lane'.pc \notin {"write", "released"}
    BY <1>0, <1>5, WritePlaces DEF SealAfterFailure, FailInv, Holds
  <2> QED BY <1>0, <2>1
<1>6. CASE HandleBegin
  <2>1. ~Begins' /\ Begins /\ lane'.pc = "top" /\ LaneAlive /\ lane.pc = "sleep"
    BY <1>6, BeginTaken, RunPlaces DEF Goes, LaneAlive
  <2>2. releaser.pc = "done"
    BY <2>1
  <2>3. cleanup'.on => rel'.st = "undispatched"
    <3>1. CASE fail = "none"
      <4>1. rel.st = "undispatched" /\ rel' = rel
        BY <1>6, <2>1, <3>1 DEF HandleBegin
      <4> QED BY <4>1
    <3>2. CASE fail # "none"
      <4>1. cleanup' = cleanup /\ ~cleanup.on
        BY <1>6, <2>1, <3>2 DEF HandleBegin, FailInv
      <4> QED BY <4>1
    <3> QED BY <3>1, <3>2
  <2> QED BY <1>0, <2>1, <2>2, <2>3
<1>7. CASE Collect
  <2>1. /\ ~Begins' /\ lane.pc \in {"collect", "wait"} /\ lane'.pc \in {"wait", "closeStream"}
    BY <1>7, NoneBegins, ClosePlaces DEF Collect, Holds
  <2>2. cleanup'.on => rel'.st = "undispatched" /\ releaser.pc = "done"
    <3>1. CASE cleanup'.on /\ cleanup.on
      BY <1>7, <3>1, CollectOwn DEF Stays
    <3>2. CASE cleanup'.on /\ ~cleanup.on
      <4>1. Begins /\ lease = "automation" /\ Stays
        BY <1>7, <3>2, CollectOwn
      <4>2. fail = "none"
        BY <2>1, <4>1 DEF FailInv, LaneAlive
      <4> QED BY <4>1, <4>2 DEF Stays
    <3> QED BY <3>1, <3>2
  <2>3. releaser.pc \notin {"idle", "done"} => Stays
    BY <1>7, LaneRel DEF StartRelease, AcceptRelease, CompleteRelease, WriteReleaseFails,
       SealAfterFailure, SettleStream, HandleBegin, Take, Here, Collect, WriteFinal
  <2>4. lane'.pc = "closeStream" => ~cleanup'.on
    BY <1>7, CollectOwn
  <2> QED BY <1>0, <2>1, <2>2, <2>3, <2>4 DEF Stays, LaneAlive
<1>8. CASE WriteFinal
  <2>1. /\ ~cleanup'.on /\ lane.pc = "wait"
        /\ \/ cleanup.on /\ lane'.pc = "write" /\ lane'.cur.kind = "release"
           \/ lane'.pc = "write" /\ lane'.cur.kind = "close" /\ ~cleanup.on
           \/ lane'.pc = "closeStream" /\ cleanup.on
    BY <1>8, StartsRelease, ClosePlaces DEF Holds
  <2>2. ~Begins' /\ (~cleanup.on => rel' = rel)
    <3>1. inbox' = << >>
      BY <1>8 DEF WriteFinal
    <3> QED BY <1>8, <3>1, NoneBegins DEF WriteFinal
  <2>3. lane'.pc = "write" /\ lane'.cur.kind = "release" => rel'.st = "outstanding"
    BY <1>8, StartsRelease
  <2> QED BY <1>0, <2>1, <2>2, <2>3 DEF LaneAlive
<1>9. CASE AcceptFinal \/ WriteFinalFails \/ CloseStream \/ FailHeld
  <2>1. /\ rel' = rel /\ cleanup' = cleanup /\ LaneAlive
        /\ lane'.pc \in {"closeStream", "closeSettle", "failing"} /\ ~cleanup.on
    BY <1>9, WritePlaces, ClosePlaces DEF AcceptFinal, WriteFinalFails, CloseStream, FailHeld,
       Goes, Holds, LaneAlive, queue
  <2> QED BY <1>0, <2>1
<1>10. CASE SettleStream
  <2>1. /\ lane'.pc = "ended" /\ cleanup' = cleanup /\ ~cleanup.on /\ ~Begins'
    BY <1>10, ClosePlaces, NoneBegins DEF SettleStream, Over, queue
  <2> QED BY <1>0, <2>1 DEF LaneAlive
<1>11. CASE LanePanics
  <2>1. lane'.pc = "panicked" /\ ~cleanup'.on /\ ~Begins'
    BY <1>0, <1>11, ClosePlaces, NoneBegins DEF LanePanics, Over
  <2> QED BY <1>0, <2>1 DEF LaneAlive
<1> QED
  BY <1>1, <1>2, <1>3, <1>4, <1>5, <1>6, <1>7, <1>8, <1>9, <1>10, <1>11 DEF LaneNext

(* So does every step. *)
LEMMA ReleaseKept ==
  ASSUME TypeOK, LaneInv, FailInv, ReleaseInv, [Next]_vars
  PROVE  ReleaseInv'
<1> USE DEF ReleaseInv
<1>c. /\ \A a \in Actions : [k |-> "direct", a |-> a] \in Commands
      /\ [k |-> "begin", a |-> "none"] \in Commands /\ [k |-> "close", a |-> "none"] \in Commands
  BY DEF Commands
<1>f. fail # "none" => fail' # "none"
  BY ConnSteps
<1>1. CASE SubmissionStep \/ CloseStep \/ Tick \/ UNCHANGED vars
  <2>1. /\ lane'.pc = lane.pc /\ lane'.cur = lane.cur /\ cleanup'.on = cleanup.on
        /\ releaser' = releaser
    BY <1>1, SubmissionFrame, CloseFrame, TickFields DEF Lane, queue, vars, users, Goes, Tick
  <2>2. Stays
    BY <1>1, OtherRel
  <2>3. BeginsAlone' /\ (Begins' => Begins)
    <3>1. \/ inbox' = inbox
          \/ \E c \in Commands : c.k # "begin" /\ inbox' = Append(inbox, c)
      <4>1. CASE SubmissionStep \/ CloseStep
        <5>1. ASSUME NEW a \in Actions, inbox' = Append(inbox, [k |-> "direct", a |-> a])
              PROVE  \E c \in Commands : c.k # "begin" /\ inbox' = Append(inbox, c)
          BY <1>c, <5>1
        <5>2. UNCHANGED inbox \/ (\E a \in Actions : inbox' = Append(inbox, [k |-> "direct", a |-> a]))
              \/ inbox' = Append(inbox, [k |-> "close", a |-> "none"])
          BY <4>1 DEF SubmissionStep, Submission, Reserve, Create, Send, Resolve, Reject,
             CancelDispatched, WakeLane, CancelAction, CloseStep, CloseNext, CloseIntent,
             CloseInterrupt, CancelResource, SendClose, JoinLane, RecordOwnershipLoss
        <5> QED BY <1>c, <5>1, <5>2
      <4>2. CASE Tick \/ UNCHANGED vars
        BY <4>2 DEF Tick, vars
      <4> QED BY <1>1, <4>1, <4>2
    <3>2. CASE inbox' = inbox
      BY <3>2 DEF Begins, BeginsAlone
    <3> QED BY <3>1, <3>2, OneBegins
  <2> QED BY <1>f, <2>1, <2>2, <2>3 DEF Stays, LaneAlive
<1>2. CASE ReleaseStep
  <2>0. UNCHANGED <<lane, cleanup, fail>>
    BY <1>2, ReleaseFrame DEF Lane, queue
  <2>1. CASE SealGeneration
    <3>1. releaser.pc = "idle" /\ releaser'.pc = "sealed" /\ inbox' = inbox
      BY <1>2, <2>1, ReleaserRel DEF SealGeneration, TypeOK, UsersType, Releasers
    <3>2. rel'.st = "undispatched"
      BY <2>1 DEF SealGeneration, TypeOK, UsersType, Releases
    <3> QED BY <2>0, <3>1, <3>2 DEF Begins, BeginsAlone, LaneAlive
  <2>2. CASE ~SealGeneration
    <3>1. /\ releaser.pc \notin {"idle", "done"} /\ releaser'.pc # "idle"
          /\ \/ Stays /\ UNCHANGED inbox
             \/ Commits /\ UNCHANGED inbox /\ (fail # "none" \/ ~LaneAlive)
             \/ /\ rel' = rel /\ LaneAlive /\ releaser'.pc = "done"
                /\ inbox' = Append(inbox, [k |-> "begin", a |-> "none"])
      BY <1>2, <2>2, ReleaserRel
    <3>2. ~Begins /\ ~cleanup.on
      BY <3>1
    <3>3. CASE UNCHANGED inbox
      BY <2>0, <3>1, <3>2, <3>3 DEF Begins, BeginsAlone, LaneAlive, Stays
    <3>4. CASE /\ rel' = rel /\ LaneAlive /\ releaser'.pc = "done"
               /\ inbox' = Append(inbox, [k |-> "begin", a |-> "none"])
      BY <1>c, <2>0, <3>1, <3>2, <3>4, OneBegins DEF LaneAlive
    <3> QED BY <3>1, <3>3, <3>4
  <2> QED BY <2>1, <2>2
<1>3. CASE LaneNext
  BY <1>3, LaneReleases
<1> QED
  BY <1>1, <1>2, <1>3, StepCases

-----------------------------------------------------------------------------
(* The interval between reports                                              *)

(* A step keeps the pace. *)
LEMMA PaceKept ==
  ASSUME TypeOK, LaneInv, PaceInv, [Next]_vars
  PROVE  PaceInv'
<1> USE DEF PaceInv
<1>0. /\ since \in 0..Interval /\ Interval \in Nat \ {0} /\ lane \in Lanes
      /\ lane.timer \in 0..Never /\ Never \in Nat
  BY PacedType DEF TypeOK, PortType, LaneType, Lanes
<1>1. CASE SubmissionStep \/ ReleaseStep \/ CloseStep \/ UNCHANGED vars
  <2>1. UNCHANGED <<lane, early, since>>
    BY <1>1, SubmissionFrame, ReleaseFrame, CloseFrame DEF Lane, past, vars
  <2> QED BY <2>1
<1>2. CASE Tick
  <2>1. early' = early
    BY <1>2 DEF Tick, past
  <2>2. /\ lane'.pc = lane.pc /\ lane'.cur = lane.cur
        /\ lane'.timer \in 0..Never /\ lane'.timer >= lane.timer - 1
        /\ since' \in 0..Interval /\ since' >= since
        /\ since < Interval => since' = since + 1
        /\ since = Interval => since' = since
    BY <1>2, TickFields DEF Goes
  <2>3. lane.pc = "wait" => since' + lane'.timer >= Interval
    BY <1>0, <2>2
  <2>4. since = Interval => since' = Interval
    BY <2>2
  <2> QED BY <2>1, <2>2, <2>3, <2>4
<1>3. CASE LaneNext
  <2>1. CASE \/ Top \/ Observe \/ NoRelease \/ StartRelease \/ HandleDirect \/ HandleBegin
             \/ HandleClose \/ Woken \/ Await \/ FinishSuccess \/ Dispatch \/ MarkDispatched
             \/ ClaimAccepted \/ CompleteClaim
    <3>1. UNCHANGED <<early, since>>
      BY <2>1 DEF Top, Observe, NoRelease, StartRelease, HandleDirect, HandleBegin,
         HandleClose, Woken, Await, FinishSuccess, Dispatch, MarkDispatched,
         ClaimAccepted, CompleteClaim, past
    <3>2. CASE Dispatch
      <4>1. ~TooEarly => since = Interval
        BY <1>0 DEF TooEarly
      <4> QED BY <3>1, <3>2, <4>1, RunPlaces DEF Goes, Holds
    <3>3. CASE MarkDispatched
      BY <3>1, <3>3, RunPlaces DEF Goes, LaneInv
    <3>4. CASE ~Dispatch /\ ~MarkDispatched
      BY <2>1, <3>1, <3>4, RunPlaces DEF Goes, Holds
    <3> QED BY <3>2, <3>3, <3>4
  <2>2. CASE AcceptReport \/ AcceptNeutral \/ AcceptRelease \/ AcceptFinal
    <3>1. /\ lane.pc = "write" /\ lane.cur.kind \in {"report", "neutral", "close", "release"}
          /\ lane'.pc \in {"accepted", "dispatch", "released", "closeStream"}
      BY <2>2, WritePlaces DEF Goes
    <3>2. \E b : Sent(lane.cur.kind, b)
      BY <2>2 DEF AcceptReport, AcceptNeutral, AcceptRelease, AcceptFinal
    <3>3. early' = IF since < Interval THEN early \union {lane.cur.kind} ELSE early
      BY <3>2 DEF Sent
    <3> QED BY <1>0, <3>1, <3>3
  <2>3. CASE \/ WriteReportFails \/ WriteNeutralFails \/ CleanupFails \/ WriteFinalFails
             \/ CompleteRelease \/ WriteReleaseFails \/ SealAfterFailure
    <3>1. UNCHANGED <<early, since>>
      BY <2>3 DEF WriteReportFails, WriteNeutralFails, CleanupFails, WriteFinalFails,
         CompleteRelease, WriteReleaseFails, SealAfterFailure, past
    <3> QED BY <2>3, <3>1, WritePlaces DEF Goes, Holds
  <2>4. CASE CloseLane \/ Collect \/ WriteFinal \/ CloseStream \/ FailHeld \/ SettleStream \/ LanePanics
    <3>1. UNCHANGED <<early, since>>
      BY <2>4 DEF CloseLane, Collect, WriteFinal, CloseStream, FailHeld, SettleStream, LanePanics, past
    <3>2. CASE Collect
      <4>1. lane'.pc = "wait" => since + lane'.timer >= Interval
        <5>1. \/ Holds("wait", lane.cur.kind, lane.closing) /\ lane'.timer >= Paced
              \/ Holds("closeStream", lane.cur.kind, lane.closing)
          BY <3>2, ClosePlaces
        <5>2. lane' \in Lanes => lane'.timer \in 0..Never
          BY DEF Lanes
        <5> QED BY <1>0, <5>1, <5>2 DEF Holds, Paced
      <4> QED BY <3>1, <3>2, <4>1, ClosePlaces DEF Holds
    <3>3. CASE WriteFinal
      <4>1. lane.timer = 0 /\ lane.pc = "wait"
        BY <3>3 DEF WriteFinal, Here
      <4>2. since = Interval
        BY <1>0, <4>1
      <4> QED BY <3>1, <3>3, <4>2, ClosePlaces DEF Holds
    <3>4. CASE CloseLane \/ CloseStream \/ FailHeld \/ SettleStream \/ LanePanics
      BY <3>1, <3>4, ClosePlaces DEF Holds, Over
    <3> QED BY <2>4, <3>2, <3>3, <3>4
  <2> QED BY <1>3, <2>1, <2>2, <2>3, <2>4 DEF LaneNext
<1> QED
  BY <1>1, <1>2, <1>3, StepCases

-----------------------------------------------------------------------------
(* Types                                                                     *)

(* Operations and records keep their shapes; *)
LEMMA OpsKept ==
  ASSUME TypeOK, LaneInv, FailInv, QueueInv, ServingInv, \A b \in Actions : RecordInv(b),
         [Next]_vars
  PROVE  OpsType'
<1> USE DEF OpsType
<1>0. /\ leased \subseteq Actions /\ op \in [Actions -> Operations]
      /\ rec \in [Actions -> Records] /\ accepted \subseteq Actions
  BY DEF TypeOK
<1>1. UNCHANGED leased
  BY StepCases, SubmissionFrame, ReleaseFrame, CloseFrame, LaneFrame DEF Tick, vars
<1>2. CASE SubmissionStep
  <2>1. UNCHANGED accepted
    BY <1>2, SubmissionFrame DEF Lane, past
  <2>2. \E a \in Actions : Submits(a)
    BY <1>2, SubmissionSteps DEF SubmissionStep
  <2> QED BY <1>0, <1>1, <2>1, <2>2 DEF Submits, Only
<1>3. CASE ReleaseStep
  <2>1. UNCHANGED accepted
    BY <1>3, ReleaseFrame DEF Lane, past
  <2>2. op' \in [Actions -> Operations] /\ rec' \in [Actions -> Records]
    BY <1>3, ReleaseSteps DEF SealsQuietly, SealTakes, SealSettles, OwnersSettled, Only
  <2> QED BY <1>0, <1>1, <2>1, <2>2
<1>4. CASE CloseStep
  <2>1. UNCHANGED accepted
    BY <1>4, CloseFrame DEF past
  <2> QED BY <1>0, <1>1, <1>4, <2>1, CloseSteps
<1>5. CASE LaneNext
  <2>1. CASE LaneQuiet
    BY <1>0, <1>1, <2>1 DEF LaneQuiet, OwnersSettled
  <2>2. CASE LanePanics
    BY <1>0, <1>1, <2>2 DEF LanePanics, ops, past
  <2>3. ASSUME NEW c \in Actions, Reported(c)
        PROVE  OpsType'
    BY <1>0, <1>1, <2>3 DEF Reported, Marks, Accepts, Claims, Completes, Finishes, Only
  <2> QED BY <1>5, <2>1, <2>2, <2>3, LaneSettles, ReportSteps
<1>6. CASE Tick \/ UNCHANGED vars
  BY <1>0, <1>1, <1>6 DEF Tick, vars, ops, past
<1> QED
  BY <1>2, <1>3, <1>4, <1>5, <1>6, StepCases

(* the other threads and what they share keep theirs; *)
LEMMA UsersKept ==
  ASSUME TypeOK, LaneInv, FailInv, QueueInv, ServingInv, \A b \in Actions : RecordInv(b),
         GenInv, ReleaseInv, [Next]_vars
  PROVE  UsersType'
<1> USE DEF UsersType
<1>0. /\ sub \in [Actions -> SubPlaces] /\ gen \in [sealed : BOOLEAN, actions : SUBSET Actions]
      /\ gen.actions \subseteq leased /\ releaser \in Releasers
      /\ releaser.todo \subseteq gen.actions /\ rel \in Releases /\ registry \in Registries
      /\ fail \in {"none", "proven", "lost"}
      /\ closer \in {"idle", "intent", "interrupted", "cancelled", "joining", "takeover", "done"}
  BY DEF TypeOK
<1>1. UNCHANGED leased
  BY StepCases, SubmissionFrame, ReleaseFrame, CloseFrame, LaneFrame DEF Tick, vars
<1>2. CASE SubmissionStep
  <2>1. UNCHANGED <<releaser, closer, rel, registry, fail>>
    BY <1>2, SubmissionFrame
  <2>2. \E a \in Actions : Submits(a) /\ sub' \in [Actions -> SubPlaces]
    BY <1>0, <1>2, SubmissionSteps, SubmissionPlaces DEF SubmissionStep
  <2> QED BY <1>0, <1>1, <2>1, <2>2 DEF Submits
<1>3. CASE ReleaseStep
  <2>1. UNCHANGED <<sub, closer, fail>>
    BY <1>3, ReleaseFrame
  <2>2. registry' \in Registries /\ releaser' \in Releasers
    BY <1>3, ReleaserSteps DEF TypeOK
  <2>3. rel' \in Releases
    <3>1. [rel EXCEPT !.st = "undispatched"] \in Releases
      BY <1>0 DEF Releases
    <3> QED BY <1>0, <1>3, <3>1, ReleaserRel DEF Stays, Commits
  <2>4. gen' \in [sealed : BOOLEAN, actions : SUBSET Actions] /\ gen'.actions = gen.actions
    BY <1>0, <1>3, ReleaserRel
  <2>5. releaser'.todo \subseteq gen.actions
    <3>1. CASE SealGeneration
      BY <1>0, <3>1 DEF SealGeneration, Releasers
    <3>2. CASE \E a \in Actions : VisitSealed(a)
      <4>1. PICK a \in Actions : VisitSealed(a)
        BY <3>2
      <4>2. CASE releaser' = [releaser EXCEPT !.todo = @ \ {a}]
        BY <1>0, <4>2 DEF Releasers
      <4>3. CASE releaser' = [releaser EXCEPT !.pc = "take", !.cur = a, !.todo = @ \ {a}]
        BY <1>0, <4>3 DEF Releasers
      <4> QED BY <4>1, <4>2, <4>3 DEF VisitSealed
    <3>3. CASE ReadFailure \/ TakeUndispatched \/ SettleUndispatched \/ Track \/ SendBegin
      BY <1>0, <3>3 DEF ReadFailure, TakeUndispatched, SettleUndispatched, Track, SendBegin,
         Releasers
    <3> QED BY <1>3, <3>1, <3>2, <3>3 DEF ReleaseStep, ReleaseNext
  <2> QED BY <1>0, <1>1, <2>1, <2>2, <2>3, <2>4, <2>5
<1>4. CASE CloseStep
  <2>1. UNCHANGED <<sub, gen, releaser>>
    BY <1>4, CloseFrame
  <2>2. rel' \in Releases
    BY <1>4, OtherRel DEF Stays
  <2>3. /\ registry' \in Registries /\ fail' \in {"none", "proven", "lost"}
        /\ closer' \in {"idle", "intent", "interrupted", "cancelled", "joining", "takeover", "done"}
    BY <1>0, <1>4 DEF CloseStep, CloseNext, CloseIntent, CloseInterrupt, CancelResource,
       SendClose, JoinLane, RecordOwnershipLoss, Registries
  <2> QED BY <1>0, <1>1, <2>1, <2>2, <2>3
<1>5. CASE LaneNext
  <2>1. UNCHANGED <<sub, gen, releaser, closer>>
    BY <1>5, LaneFrame DEF users
  <2>2. rel' \in Releases
    BY <1>5, LaneRel DEF Stays, Commits
  <2>3. registry' \in Registries /\ fail' \in {"none", "proven", "lost"}
    <3>1. CASE UNCHANGED <<registry, fail>>
      BY <1>0, <3>1
    <3>2. CASE CleanupFails \/ SealAfterFailure \/ CloseLane \/ CloseStream \/ FailHeld \/ SettleStream
      BY <1>0, <3>2 DEF CleanupFails, SealAfterFailure, CloseLane, CloseStream, FailHeld, SettleStream,
         Registries
    <3>3. \/ UNCHANGED <<registry, fail>>
          \/ CleanupFails \/ SealAfterFailure \/ CloseLane \/ CloseStream \/ FailHeld \/ SettleStream
      BY <1>5 DEF LaneNext, Top, Observe, Dispatch, MarkDispatched, AcceptReport, ClaimAccepted,
         CompleteClaim, FinishSuccess, WriteReportFails, AcceptNeutral, WriteNeutralFails,
         NoRelease, StartRelease, AcceptRelease, CompleteRelease, WriteReleaseFails,
         HandleDirect, HandleBegin, HandleClose, Woken, Await, Collect, WriteFinal,
         AcceptFinal, WriteFinalFails, LanePanics
    <3> QED BY <3>1, <3>2, <3>3
  <2> QED BY <1>0, <1>1, <2>1, <2>2, <2>3
<1>6. CASE Tick \/ UNCHANGED vars
  BY <1>0, <1>1, <1>6 DEF Tick, vars, users
<1> QED
  BY <1>2, <1>3, <1>4, <1>5, <1>6, StepCases

(* the queue keeps its own; *)
LEMMA PendingKept ==
  ASSUME TypeOK, LaneInv, QueueInv, [Next]_vars
  PROVE  pending' \in Seq(Queued)
<1>0. LaneType /\ pending \in Seq(Queued) /\ inbox \in Seq(Commands)
  BY DEF TypeOK, LaneType
<1>1. CASE LaneNext
  <2>1. CASE Received
    <3>1. Head(inbox) = inbox[1] /\ inbox[1] \in Commands
      BY <1>0, <2>1, HeadTailProperties, LenProperties, EmptySeq, ElementOfSeq DEF Received
    <3>2. Head(inbox).a \in Actions /\ pending' = Append(pending, Report(Head(inbox).a))
      BY <2>1, <3>1 DEF Received, Commands
    <3>3. \A a \in Actions : Report(a) \in Queued
      BY PacedType DEF Report, Queued, TypeOK, PortType
    <3> QED BY <1>0, <3>2, <3>3, AppendEntries
  <2> QED BY <1>1, <2>1, PendingFrom DEF Reports
<1>2. CASE Tick
  BY <1>2, TickFields
<1>3. CASE SubmissionStep \/ ReleaseStep \/ CloseStep \/ UNCHANGED vars
  BY <1>0, <1>3, SubmissionFrame, ReleaseFrame, CloseFrame DEF Lane, vars, queue
<1> QED
  BY <1>1, <1>2, <1>3, StepCases

(* the locals of the lane keep theirs; *)
LEMMA LanesKept ==
  ASSUME TypeOK, LaneNext
  PROVE  lane' \in Lanes
<1>1. CASE \/ Top \/ Observe \/ Dispatch \/ MarkDispatched \/ ClaimAccepted \/ CompleteClaim
           \/ FinishSuccess \/ NoRelease \/ StartRelease \/ HandleDirect \/ HandleBegin
           \/ HandleClose \/ Woken \/ Await
  BY <1>1, RunPlaces DEF Goes, Holds
<1>2. CASE \/ AcceptReport \/ WriteReportFails \/ AcceptNeutral \/ WriteNeutralFails
           \/ CleanupFails \/ SealAfterFailure \/ AcceptRelease \/ CompleteRelease
           \/ WriteReleaseFails \/ AcceptFinal \/ WriteFinalFails
  BY <1>2, WritePlaces DEF Goes, Holds
<1>3. CASE CloseLane \/ Collect \/ WriteFinal \/ CloseStream \/ FailHeld \/ SettleStream \/ LanePanics
  BY <1>3, ClosePlaces DEF Holds, Over
<1> QED
  BY <1>1, <1>2, <1>3 DEF LaneNext

(* the lane does, with its channel; *)
LEMMA LaneTypeKept ==
  ASSUME TypeOK, LaneInv, QueueInv, [Next]_vars
  PROVE  LaneType'
<1> USE DEF LaneType
<1>0. /\ wake \in BOOLEAN /\ lane \in Lanes /\ lease \in {"none", "automation"}
      /\ cleanup \in [on : BOOLEAN, target : 0..Interval] /\ since \in 0..Interval
  BY DEF TypeOK, PortType
<1>1. inbox' \in Seq(Commands) /\ pending' \in Seq(Queued)
  BY InboxSteps, PendingKept
<1>2. CASE SubmissionStep \/ ReleaseStep
  <2>1. UNCHANGED <<lane, lease, cleanup>>
    BY <1>2, SubmissionFrame, ReleaseFrame DEF Lane, queue
  <2>a. LaneAlive \in BOOLEAN
    BY DEF LaneAlive
  <2>2. CASE \E a \in Actions : Submission(a) \/ CancelAction(a)
    <3>1. UNCHANGED wake \/ wake' = LaneAlive
      BY <2>2 DEF Submission, CancelAction, Reserve, Create, Send, Resolve, Reject,
         CancelDispatched, WakeLane
    <3>2. wake' \in BOOLEAN
      BY <1>0, <2>a, <3>1, Zenon
    <3> QED BY <1>0, <1>1, <2>1, <3>2
  <2>3. CASE ReleaseStep
    <3>1. UNCHANGED wake \/ wake' = LaneAlive
      BY <2>3 DEF ReleaseStep, ReleaseNext, SealGeneration, ReadFailure, VisitSealed,
         TakeUndispatched, SettleUndispatched, Track, SendBegin
    <3>2. wake' \in BOOLEAN
      BY <1>0, <2>a, <3>1, Zenon
    <3> QED BY <1>0, <1>1, <2>1, <3>2
  <2> QED BY <1>0, <1>1, <1>2, <2>1, <2>2, <2>3 DEF SubmissionStep
<1>3. CASE CloseStep \/ UNCHANGED vars
  <2>1. UNCHANGED <<lane, lease, cleanup, wake>>
    BY <1>3, CloseFrame DEF vars, queue
  <2> QED BY <1>0, <1>1, <2>1
<1>4. CASE Tick
  <2>1. lane' \in Lanes /\ cleanup' \in [on : BOOLEAN, target : 0..Interval]
    BY <1>4, TickFields DEF Goes
  <2>2. UNCHANGED <<wake, lease>>
    BY <1>4 DEF Tick
  <2> QED BY <1>0, <1>1, <2>1, <2>2
<1>5. CASE LaneNext
  <2>1. lane' \in Lanes
    BY <1>5, LanesKept
  <2>2. cleanup' \in [on : BOOLEAN, target : 0..Interval]
    <3>1. CASE Collect
      BY <3>1, CollectOwn
    <3>2. CASE UNCHANGED cleanup \/ cleanup' = NoCleanup
      BY <1>0, <3>2, EntryFields
    <3>3. CASE HandleBegin
      <4>1. UNCHANGED cleanup \/ cleanup' = [on |-> TRUE, target |-> Paced]
        BY <3>3 DEF HandleBegin
      <4>2. Paced \in 0..Interval
        BY <1>0, PacedType
      <4>3. \A p \in 0..Interval : [on |-> TRUE, target |-> p] \in [on : BOOLEAN, target : 0..Interval]
        OBVIOUS
      <4> QED BY <1>0, <4>1, <4>2, <4>3
    <3>4. UNCHANGED cleanup \/ cleanup' = NoCleanup \/ Collect \/ HandleBegin
      BY <1>5 DEF LaneNext, Top, Observe, Dispatch, MarkDispatched, AcceptReport, ClaimAccepted,
         CompleteClaim, FinishSuccess, WriteReportFails, AcceptNeutral, WriteNeutralFails,
         CleanupFails, SealAfterFailure, NoRelease, StartRelease, AcceptRelease,
         CompleteRelease, WriteReleaseFails, HandleDirect, HandleClose, Woken, Await,
         CloseLane, WriteFinal, AcceptFinal, WriteFinalFails, CloseStream, FailHeld, SettleStream,
         LanePanics, queue
    <3> QED BY <3>1, <3>2, <3>3, <3>4
  <2>3. wake' \in BOOLEAN /\ lease' \in {"none", "automation"}
    BY <1>0, <1>5 DEF LaneNext, Top, Observe, Dispatch, MarkDispatched, AcceptReport, ClaimAccepted,
       CompleteClaim, FinishSuccess, WriteReportFails, AcceptNeutral, WriteNeutralFails,
       CleanupFails, SealAfterFailure, NoRelease, StartRelease, AcceptRelease,
       CompleteRelease, WriteReleaseFails, HandleDirect, HandleBegin, HandleClose, Woken, Await,
       CloseLane, Collect, WriteFinal, AcceptFinal, WriteFinalFails, CloseStream, FailHeld, SettleStream,
       LanePanics, queue
  <2> QED BY <1>1, <2>1, <2>2, <2>3
<1> QED
  BY <1>2, <1>3, <1>4, <1>5, StepCases

(* and so do the transport and the history. *)
LEMMA PortTypeKept ==
  ASSUME TypeOK, [Next]_vars
  PROVE  PortType'
<1> USE DEF PortType
<1>0. /\ PortType /\ MaxFaults \in Nat /\ 0 \in 0..Interval
      /\ Dropped \in {"disconnecting", "disconnected", "closed"}
  BY DroppedState, LaneAssumption, PacedType DEF TypeOK, LaneAssumption
<1>1. CASE SubmissionStep \/ ReleaseStep \/ UNCHANGED vars
  BY <1>0, <1>1, SubmissionFrame, ReleaseFrame DEF Lane, vars, port, past
<1>2. CASE CloseStep
  <2>1. UNCHANGED <<stream, faults, since, past>>
    BY <1>2, CloseFrame
  <2>2. conn' \in {"connected", "disconnecting", "disconnected", "closed"}
    BY <1>0, <1>2 DEF CloseStep, CloseNext, CloseIntent, CloseInterrupt, CancelResource,
       SendClose, JoinLane, RecordOwnershipLoss, port
  <2> QED BY <1>0, <2>1, <2>2 DEF past
<1>3. CASE Tick
  BY <1>0, <1>3, TickFields DEF Tick, port, past
<1>4. CASE LaneNext
  <2>1. \/ UNCHANGED conn \/ conn' = Dropped
        \/ conn' \in {"disconnecting", "disconnected", "closed"}
    BY <1>4 DEF LaneNext, Top, Observe, Dispatch, MarkDispatched, AcceptReport,
       ClaimAccepted, CompleteClaim, FinishSuccess, WriteReportFails, AcceptNeutral,
       WriteNeutralFails, CleanupFails, SealAfterFailure, NoRelease, StartRelease,
       AcceptRelease, CompleteRelease, WriteReleaseFails, HandleDirect, HandleBegin,
       HandleClose, Woken, Await, CloseLane, Collect, WriteFinal, AcceptFinal,
       WriteFinalFails, CloseStream, FailHeld, SettleStream, LanePanics, port
  <2>2. \/ UNCHANGED <<stream, faults>> \/ (\E c \in BOOLEAN : Fault(c))
        \/ stream' = FALSE /\ UNCHANGED faults
        \/ stream' \in BOOLEAN /\ faults < MaxFaults /\ faults' = faults + 1
    BY <1>0, <1>4 DEF LaneNext, Top, Observe, Dispatch, MarkDispatched, AcceptReport,
       ClaimAccepted, CompleteClaim, FinishSuccess, WriteReportFails, AcceptNeutral,
       WriteNeutralFails, CleanupFails, SealAfterFailure, NoRelease, StartRelease,
       AcceptRelease, CompleteRelease, WriteReleaseFails, HandleDirect, HandleBegin,
       HandleClose, Woken, Await, CloseLane, Collect, WriteFinal, AcceptFinal,
       WriteFinalFails, CloseStream, FailHeld, SettleStream, LanePanics, port
  <2>3. stream' \in BOOLEAN /\ faults' \in 0..MaxFaults
    <3>1. ASSUME NEW c \in BOOLEAN, Fault(c)
          PROVE  stream' \in BOOLEAN /\ faults' \in 0..MaxFaults
      <4>1. stream' \in BOOLEAN
        BY <3>1, Zenon DEF Fault
      <4>2. faults' = faults \/ (faults < MaxFaults /\ faults' = faults + 1)
        BY <3>1 DEF Fault
      <4> QED BY <1>0, <4>1, <4>2
    <3>2. stream' \in BOOLEAN
      <4>1. stream \in BOOLEAN
        BY <1>0
      <4> QED BY <2>2, <3>1, <4>1, Zenon
    <3>3. faults' \in 0..MaxFaults
      BY <1>0, <2>2, <3>1
    <3> QED BY <3>2, <3>3
  <2>4. \/ UNCHANGED <<since, early, lastSent>>
        \/ Sent("report", "report") \/ Sent("neutral", "neutral")
        \/ Sent("release", "neutral") \/ Sent("close", "neutral")
    BY <1>4 DEF LaneNext, Top, Observe, Dispatch, MarkDispatched, AcceptReport,
       ClaimAccepted, CompleteClaim, FinishSuccess, WriteReportFails, AcceptNeutral,
       WriteNeutralFails, CleanupFails, SealAfterFailure, NoRelease, StartRelease,
       AcceptRelease, CompleteRelease, WriteReleaseFails, HandleDirect, HandleBegin,
       HandleClose, Woken, Await, CloseLane, Collect, WriteFinal, AcceptFinal,
       WriteFinalFails, CloseStream, FailHeld, SettleStream, LanePanics, port, past
  <2>5. /\ since' \in 0..Interval /\ lastSent' \in {"none", "report", "neutral"}
        /\ early' \subseteq {"report", "neutral", "release", "close"}
    BY <1>0, <2>4 DEF Sent
  <2> QED BY <1>0, <2>1, <2>3, <2>5
<1> QED
  BY <1>1, <1>2, <1>3, <1>4, StepCases

-----------------------------------------------------------------------------
(* The invariant                                                             *)

(* The initial states are in order. *)
LEMMA InvInit == Init => Inv
<1> SUFFICES ASSUME Init PROVE Inv
  OBVIOUS
<1>0. /\ Interval \in Nat \ {0} /\ MaxFaults \in Nat /\ Never = Interval + 1
      /\ NoEntry \in Entries /\ NoEntry.kind = "none"
      /\ NoCleanup \in [on : BOOLEAN, target : 0..Interval] /\ ~NoCleanup.on
  BY LaneAssumption, EntryFields DEF LaneAssumption, Never
<1>1. TypeOK
  <2>1. OpsType
    BY DEF Init, OpsType, Operations, Outcomes, Records
  <2>2. UsersType
    BY DEF Init, UsersType, SubPlaces, Releasers, Releases, Registries
  <2>3. lane \in Lanes
    BY <1>0 DEF Init, Lanes, LanePlaces
  <2>4. LaneType
    BY <1>0, <2>3, EmptySeq DEF Init, LaneType
  <2>5. PortType
    BY <1>0 DEF Init, PortType
  <2> QED BY <2>1, <2>2, <2>4, <2>5 DEF TypeOK
<1>2. LaneInv /\ FailInv /\ ServingInv
  BY <1>0 DEF Init, LaneInv, FailInv, ServingInv, Closes, LaneAlive
<1>3. QueueInv
  BY <1>0, EmptySeq DEF Init, QueueInv, Reporting, Serving
<1>4. \A a \in Actions : RecordInv(a)
  BY DEF Init, RecordInv, Taken, TakenBySeal, Effective, Turning
<1>5. GenInv
  BY <1>0 DEF Init, GenInv
<1>6. ReleaseInv
  BY <1>0, EmptySeq DEF Init, ReleaseInv, Begins, BeginsAlone
<1>7. PaceInv
  BY <1>0 DEF Init, PaceInv
<1> QED
  BY <1>1, <1>2, <1>3, <1>4, <1>5, <1>6, <1>7 DEF Inv

(* A step leaves the state in order. *)
LEMMA InvKept == Inv /\ [Next]_vars => Inv'
<1> SUFFICES ASSUME Inv, [Next]_vars PROVE Inv'
  OBVIOUS
<1>0. /\ TypeOK /\ LaneInv /\ FailInv /\ QueueInv /\ ServingInv
      /\ GenInv /\ ReleaseInv /\ PaceInv
      /\ \A b \in Actions : RecordInv(b)
  BY DEF Inv
<1>1. TypeOK'
  <2>1. OpsType' /\ UsersType'
    BY <1>0, OpsKept, UsersKept
  <2>2. LaneType' /\ PortType'
    BY <1>0, LaneTypeKept, PortTypeKept
  <2> QED BY <2>1, <2>2 DEF TypeOK
<1>2. LaneInv' /\ FailInv' /\ QueueInv' /\ ServingInv'
  BY <1>0, LaneKept, FailKept, QueueKept, ServingKept
<1>3. (\A a \in Actions : RecordInv(a))'
  BY <1>0, RecordsKept
<1>4. GenInv' /\ ReleaseInv' /\ PaceInv'
  BY <1>0, GenKept, ReleaseKept, PaceKept
<1> QED
  BY <1>1, <1>2, <1>3, <1>4 DEF Inv

(* The lane, its queues, the records of the actions, the generation and the  *)
(* record of its release agree with each other in every state.               *)
THEOREM Invariance == Spec => []Inv
<1>1. Init => Inv
  BY InvInit
<1>2. Inv /\ [Next]_vars => Inv'
  BY InvKept
<1> QED
  BY <1>1, <1>2, PTL DEF Spec

-----------------------------------------------------------------------------
(* The properties                                                            *)

(* The Controller's records, queues and locals keep their shapes, and no      *)
(* report is due later than an interval from now.                            *)
THEOREM TypeCorrect == Spec => []TypeOK
<1>1. Inv => TypeOK
  BY DEF Inv
<1> QED
  BY <1>1, Invariance, PTL

(* What a caller is told of an action is what the transport took of its      *)
(* report, whoever settles it.                                               *)
THEOREM OutcomesAreTruthful == Spec => []TruthfulOutcome
<1>1. Inv => TruthfulOutcome
  <2> SUFFICES ASSUME Inv, NEW a \in Actions
               PROVE  /\ op[a].outcome = "success" => a \in accepted
                      /\ a \in accepted => op[a].outcome \in {"none", "success"}
                      /\ a \in accepted => sub[a] # "refused"
                      /\ Writing(a) => op[a].outcome = "none" /\ rec[a].st = "outstanding"
                      /\ a \in accepted /\ closer = "done" => op[a].outcome = "success"
    BY DEF TruthfulOutcome
  <2>1. RecordInv(a) /\ LaneInv /\ ServingInv
    BY DEF Inv
  <2>2. rec[a].st \in Effective => op[a].outcome = "none"
    BY <2>1 DEF RecordInv, Effective
  <2>3. a \in accepted => op[a].outcome \in {"none", "success"}
    BY <2>1, <2>2 DEF RecordInv
  <2>4. a \in accepted => sub[a] # "refused"
    BY <2>1 DEF RecordInv, Turning
  <2>5. Writing(a) => op[a].outcome = "none" /\ rec[a].st = "outstanding"
    BY <2>1 DEF RecordInv, ServingInv, Writing
  <2>6. a \in accepted /\ closer = "done" => op[a].outcome = "success"
    <3> SUFFICES ASSUME a \in accepted, closer = "done", rec[a].st \in Effective
                 PROVE  FALSE
      BY <2>1 DEF RecordInv
    <3>1. ~LaneAlive
      BY <2>1 DEF LaneInv
    <3>2. lane.pc \in {"accepted", "claiming", "claimed"}
      BY <2>1 DEF RecordInv, Effective
    <3> QED BY <3>1, <3>2 DEF LaneAlive
  <2> QED BY <2>1, <2>3, <2>4, <2>5, <2>6 DEF RecordInv
<1> QED
  BY <1>1, Invariance, PTL

(* An action's report, a neutral report and the final one wait for the       *)
(* interval; only the neutral report of a release may come early.            *)
THEOREM ReportsWait == Spec => []ActionsArePaced
<1>1. Inv => ActionsArePaced
  BY DEF Inv, PaceInv, ActionsArePaced
<1> QED
  BY <1>1, Invariance, PTL

(* Once committed, the record of the release is not written again.           *)
LEMMA ReleaseCommittedOnce ==
  ASSUME Inv, [Next]_vars, rel.st = "committed"
  PROVE  rel' = rel
<1>0. TypeOK /\ LaneInv /\ FailInv /\ GenInv /\ ReleaseInv
  BY DEF Inv
<1>1. CASE SubmissionStep \/ CloseStep \/ Tick \/ UNCHANGED vars
  BY <1>0, <1>1, OtherRel DEF Stays
<1>2. CASE ReleaseStep
  <2>1. ~SealGeneration
    BY <1>0 DEF SealGeneration, GenInv
  <2> QED BY <1>0, <1>2, <2>1, ReleaserRel DEF Stays, Commits
<1>3. CASE LaneNext
  <2>1. ~cleanup.on
    BY <1>0 DEF ReleaseInv
  <2>2. ~AcceptRelease
    BY <1>0 DEF AcceptRelease, Here, ReleaseInv
  <2> QED BY <1>0, <1>3, <2>1, <2>2, LaneRel DEF Stays, Commits
<1> QED
  BY <1>1, <1>2, <1>3, StepCases

(* An operation that has its outcome and a release that has its own keep     *)
(* them, whichever of the four threads comes later.                          *)
THEOREM NobodySettlesTwice == Spec => SettledOnce
<1>1. Inv /\ [Next]_vars =>
        [/\ \A a \in Actions : IsTerminal(a) => op'[a].outcome = op[a].outcome
         /\ rel.st = "committed" => rel' = rel]_vars
  <2> SUFFICES ASSUME Inv, [Next]_vars
               PROVE  /\ \A a \in Actions : IsTerminal(a) => op'[a].outcome = op[a].outcome
                      /\ rel.st = "committed" => rel' = rel
    OBVIOUS
  <2>1. \A a \in Actions : IsTerminal(a) => op'[a].outcome = op[a].outcome
    BY OutcomeKept DEF Inv
  <2> QED BY <2>1, ReleaseCommittedOnce
<1> QED
  BY <1>1, Invariance, PTL DEF Spec, SettledOnce

(* A release that is begun before the close finds its lease's actions over.  *)
LEMMA ReleaseFindsNobody ==
  ASSUME Inv, [Next]_vars, rel.st = "undispatched", rel'.st = "outstanding", ~lane.closing
  PROVE  \A a \in leased : sub[a] \in {"idle", "refused"} \/ IsTerminal(a)
<1>0. TypeOK /\ LaneInv /\ FailInv /\ GenInv
  BY DEF Inv
<1>1. StartRelease
  <2>1. CASE SubmissionStep \/ CloseStep \/ Tick \/ UNCHANGED vars
    BY <1>0, <2>1, OtherRel DEF Stays
  <2>2. CASE ReleaseStep
    <3>1. ~SealGeneration
      BY <1>0 DEF SealGeneration, GenInv
    <3> QED BY <1>0, <2>2, <3>1, ReleaserRel DEF Stays, Commits
  <2>3. CASE LaneNext
    <3>1. ~WriteFinal
      BY <1>0 DEF WriteFinal, Here, LaneInv, Closes
    <3> QED BY <1>0, <2>3, <3>1, LaneRel DEF Stays, Commits
  <2> QED BY <2>1, <2>2, <2>3, StepCases
<1>2. ActionsSettled
  BY <1>1 DEF StartRelease, ReleaseDue
<1>3. \A a \in leased : Dead(a) /\ sub[a] # "refuse"
  BY <1>0, <1>2, DueMeansDead DEF ActionsSettled, Reservations
<1>4. conn = "connected"
  <2> SUFFICES ASSUME conn # "connected" PROVE FALSE
    OBVIOUS
  <2>1. rel \in Releases /\ rel' = Complete(rel, "notDelivered")
    BY <1>0, <1>1 DEF StartRelease, TypeOK, UsersType
  <2> QED BY <2>1, RelFields DEF Commits, Outs
<1> QED
  BY <1>0, <1>3, <1>4 DEF Dead, GenInv

(* Once it is begun, the lane takes no report of the lease to its end.       *)
LEMMA NoReportFollows ==
  ASSUME Inv, [Next]_vars, rel.st \in {"outstanding", "gate", "committed"}
  PROVE  accepted' \intersect leased = accepted \intersect leased
<1>0. TypeOK /\ LaneInv /\ FailInv /\ QueueInv /\ ServingInv /\ GenInv
      /\ \A b \in Actions : RecordInv(b)
  BY DEF Inv
<1>1. CASE AcceptReport
  <2> DEFINE c == lane.cur.a
  <2>1. /\ lane.pc = "write" /\ lane.cur.kind = "report" /\ rec[c].st = "outstanding"
        /\ accepted' = accepted \union {c}
    BY <1>1 DEF AcceptReport, Here
  <2>2. c \in Actions /\ Known(c)
    BY <1>0, <2>1 DEF QueueInv, Reporting, Serving
  <2>3. c \notin leased
    <3> SUFFICES ASSUME c \in leased PROVE FALSE
      OBVIOUS
    <3>1. ~lane.closing /\ LaneAlive
      BY <1>0, <2>1 DEF LaneInv, LaneAlive
    <3>2. fail = "none"
      BY <1>0, <2>1, <3>1 DEF FailInv
    <3>3. Dead(c)
      BY <1>0, <3>1, <3>2 DEF GenInv
    <3>4. op[c].outcome = "none" /\ sub[c] \notin Turning
      BY <1>0, <2>1, <2>2 DEF RecordInv
    <3> QED BY <2>2, <3>3, <3>4 DEF Dead, Known, Turning, IsTerminal
  <2> QED BY <2>1, <2>3
<1>2. CASE ~AcceptReport
  <2>1. UNCHANGED accepted
    <3>1. CASE SubmissionStep \/ ReleaseStep \/ CloseStep \/ Tick \/ UNCHANGED vars
      BY <3>1, SubmissionFrame, ReleaseFrame, CloseFrame DEF Lane, Tick, vars, past
    <3>2. CASE LaneNext
      BY <1>2, <3>2 DEF LaneNext, Top, Observe, Dispatch, MarkDispatched, ClaimAccepted,
         CompleteClaim, FinishSuccess, WriteReportFails, AcceptNeutral, WriteNeutralFails,
         CleanupFails, SealAfterFailure, NoRelease, StartRelease, AcceptRelease,
         CompleteRelease, WriteReleaseFails, HandleDirect, HandleBegin, HandleClose, Woken,
         Await, CloseLane, Collect, WriteFinal, AcceptFinal, WriteFinalFails, CloseStream,
         FailHeld, SettleStream, LanePanics, past
    <3> QED BY <3>1, <3>2, StepCases
  <2> QED BY <2>1
<1> QED
  BY <1>1, <1>2

(* The neutral report of a release follows the last report of its lease.     *)
THEOREM ReleaseComesLast == Spec => ReleaseIsLast
<1>1. Inv /\ [Next]_vars =>
        [/\ rel.st = "undispatched" /\ rel'.st = "outstanding" /\ ~lane.closing
              => \A a \in leased : sub[a] \in {"idle", "refused"} \/ IsTerminal(a)
         /\ rel.st \in {"outstanding", "gate", "committed"}
              => accepted' \intersect leased = accepted \intersect leased]_vars
  BY ReleaseFindsNobody, NoReportFollows
<1> QED
  BY <1>1, Invariance, PTL DEF Spec, ReleaseIsLast

-----------------------------------------------------------------------------
(* Who waits for whom                                                       *)

(* The actions of queued reports and of direct commands.                     *)
ActionsOf(s) == {e.a : e \in ToSet(s)}
DirectsOf(s) == {c.a : c \in {x \in ToSet(s) : x.k = "direct"}}

(* The lane holds the report of an action that may still be settled.         *)
InHands(a) == /\ lane.pc \in {"mark", "write", "failing"}
              /\ lane.cur.kind \in {"report", "neutral"} /\ lane.cur.a = a

(* An action with its owner in the record is the lane's, or its command has  *)
(* still to be sent, or the lane panicked.                                   *)
Carried(a)  == a \in DirectsOf(inbox) \union PendingActions \union lane.held \/ InHands(a)
Attended(a) == Carried(a) \/ sub[a] = "created" \/ Panicked

(* Whoever got an operation has a record that waits or is settled.           *)
Placed == {"resolve", "dispatched", "wakeDone", "done"}

AttendedInv(a) ==
  /\ HasOwner(rec[a]) => Attended(a)
  /\ sub[a] \in Placed => rec[a].st # "absent"

(* A lane that closes has collected what was queued, and holds it until the  *)
(* stream is closed. A lane that has ended has nothing left to do.           *)
DrainInv ==
  /\ lane.closing /\ lane.pc # "collect" => pending = << >> /\ DirectsOf(inbox) = {}
  /\ lane.pc = "closeSettle" => lane.held = {}
  /\ lane.held # {} => lane.closing
  /\ lane.pc = "ended" =>
       pending = << >> /\ inbox = << >> /\ lane.held = {} /\ ~cleanup.on

(* The lane waits for the close command of a cancelled resource only, and    *)
(* the thread that joins has sent it.                                        *)
CommandInv ==
  /\ CloseComes \/ lane.pc = "close" \/ lane.closing => closer # "idle"
  /\ lane.pc = "await" => ResourceCancelled
  /\ closer = "joining" /\ LaneAlive => CloseComes \/ lane.pc = "close" \/ lane.closing

(* The lane knows of the release.                                            *)
Told == \/ Begins \/ cleanup.on \/ Panicked \/ lane.pc = "released"
        \/ lane.pc \in {"write", "failing"} /\ lane.cur.kind = "release"

(* A release that has been handed over is on its way to the lane, scheduled, *)
(* or being written.                                                         *)
ToldInv ==
  /\ releaser.pc \in {"tracked", "done"} => registry.tracked
  /\ registry.projection = "lost" => closer = "done"
  /\ releaser.pc = "done" /\ rel.st # "committed" => Told

(* A lane that sleeps without a timer has no report queued, and if it has a  *)
(* release to write, an action of the lease is open or the last one to be    *)
(* settled has somebody who wakes the lane.                                  *)
Wakers == {a \in Actions : sub[a] \in {"dispatched", "wakeRefused", "wakeDone"}}

SleepInv ==
  /\ lane.pc = "sleep" /\ lane.timer = Never =>
       /\ pending = << >>
       /\ cleanup.on /\ ActionsSettled => wake \/ Wakers # {}
  /\ lane.pc = "wait" => lane.timer # Never

(* An action the generation knows was admitted, or rejected and settled.     *)
KnownInv ==
  \A a \in gen.actions : sub[a] \in {"reject", "dispatched", "wakeDone", "done"}
                         \/ (sub[a] \in {"wakeRefused", "refused"} /\ IsTerminal(a))

WaitInv == /\ \A a \in Actions : AttendedInv(a)
           /\ DrainInv /\ CommandInv /\ ToldInv /\ SleepInv /\ KnownInv

-----------------------------------------------------------------------------
(* What queues hold *)

(* Nothing that is to be kept of a sequence is lost. *)
LEMMA KeptSet ==
  ASSUME NEW S, NEW s \in Seq(S), NEW E
  PROVE  ToSet(Kept(s, E)) = ToSet(s) \intersect E
<1> DEFINE n == Len(s)
           Hits(i) == {j \in 1..i : s[j] \in E}
           rank == [i \in 0..n |-> Cardinality(Hits(i))]
           At(k) == CHOOSE i \in DOMAIN s : s[i] \in E /\ rank[i] = k
<1>1. n \in Nat /\ DOMAIN s = 1..n
  BY LenProperties
<1>2. \A i \in 0..n : IsFiniteSet(Hits(i)) /\ rank[i] = Cardinality(Hits(i)) /\ rank[i] \in Nat
  <2> TAKE i \in 0..n
  <2>1. IsFiniteSet(1..i)
    BY <1>1, FS_Interval
  <2>2. IsFiniteSet(Hits(i))
    BY <2>1, FS_Subset
  <2> QED BY <2>2, FS_CardinalityType
<1>3. \A i, j \in 0..n : i <= j => rank[i] <= rank[j]
  <2> SUFFICES ASSUME NEW i \in 0..n, NEW j \in 0..n, i <= j PROVE rank[i] <= rank[j]
    OBVIOUS
  <2>1. Hits(i) \subseteq Hits(j)
    BY <1>1
  <2> HIDE DEF Hits, rank
  <2> QED BY <1>2, <2>1, FS_Subset
<1>4. \A i, j \in 1..n : i < j /\ s[j] \in E => rank[i] < rank[j]
  <2> SUFFICES ASSUME NEW i \in 1..n, NEW j \in 1..n, i < j, s[j] \in E PROVE rank[i] < rank[j]
    OBVIOUS
  <2>1. Hits(i) \subseteq Hits(j) /\ j \in Hits(j) /\ j \notin Hits(i) /\ i \in 0..n /\ j \in 0..n
    BY <1>1
  <2> HIDE DEF Hits, rank
  <2>2. Hits(i) # Hits(j) /\ Cardinality(Hits(i)) <= Cardinality(Hits(j))
        /\ Cardinality(Hits(i)) # Cardinality(Hits(j))
    BY <1>2, <2>1, FS_Subset
  <2> QED BY <1>2, <2>1, <2>2
<1>5. \A i \in 1..n : s[i] \in E => rank[i] \in 1..rank[n]
  <2> SUFFICES ASSUME NEW i \in 1..n, s[i] \in E PROVE rank[i] \in 1..rank[n]
    OBVIOUS
  <2>1. i \in Hits(i) /\ i \in 0..n /\ n \in 0..n /\ i <= n
    BY <1>1
  <2>2. rank[i] # 0
    <3> HIDE DEF Hits, rank
    <3>1. IsFiniteSet(Hits(i)) /\ rank[i] = Cardinality(Hits(i))
      BY <1>2, <2>1
    <3> QED BY <2>1, <3>1, FS_EmptySet
  <2> HIDE DEF Hits, rank
  <2> QED BY <1>2, <1>3, <2>1, <2>2
<1>6. Kept(s, E) = [k \in 1..rank[n] |-> s[At(k)]]
  BY DEF Kept, rank
<1> HIDE DEF Hits, rank
<1>7. \A i \in 1..n : s[i] \in E => At(rank[i]) = i
  <2> SUFFICES ASSUME NEW i \in 1..n, s[i] \in E PROVE At(rank[i]) = i
    OBVIOUS
  <2>1. \A j \in DOMAIN s : s[j] \in E /\ rank[j] = rank[i] => j = i
    <3> SUFFICES ASSUME NEW j \in DOMAIN s, s[j] \in E, rank[j] = rank[i], j # i PROVE FALSE
      OBVIOUS
    <3>1. j \in 1..n /\ (i < j \/ j < i)
      BY <1>1
    <3>2. rank[i] < rank[j] \/ rank[j] < rank[i]
      BY <1>4, <3>1
    <3>3. rank[i] \in Nat
      BY <1>1, <1>2
    <3> QED BY <3>2, <3>3
  <2> QED BY <1>1, <2>1
<1>8. ASSUME NEW i \in 1..n, s[i] \in E
      PROVE  s[i] \in ToSet(Kept(s, E))
  <2>1. rank[i] \in 1..rank[n] /\ At(rank[i]) = i
    BY <1>5, <1>7, <1>8
  <2> HIDE DEF At
  <2>2. rank[i] \in DOMAIN Kept(s, E) /\ Kept(s, E)[rank[i]] = s[i]
    BY <1>6, <2>1
  <2> QED BY <2>2 DEF ToSet
<1>9. ASSUME NEW x \in ToSet(Kept(s, E))
      PROVE  x \in ToSet(s) /\ x \in E
  <2>1. PICK f \in [DOMAIN Kept(s, E) -> DOMAIN s] :
          \A k \in DOMAIN Kept(s, E) : Kept(s, E)[k] = s[f[k]] /\ s[f[k]] \in E
    BY KeptEntries
  <2>2. PICK k \in DOMAIN Kept(s, E) : x = Kept(s, E)[k]
    BY DEF ToSet
  <2> QED BY <2>1, <2>2 DEF ToSet
<1> QED
  BY <1>1, <1>8, <1>9 DEF ToSet

(* One entry more, at either end, and one less. *)
LEMMA SetsOfSequences ==
  ASSUME NEW S, NEW s \in Seq(S)
  PROVE  /\ \A e \in S : ToSet(<<e>> \o s) = {e} \union ToSet(s)
         /\ \A e \in S : ToSet(Append(s, e)) = ToSet(s) \union {e}
         /\ s # << >> => Head(s) = s[1] /\ ToSet(s) = {s[1]} \union ToSet(Tail(s))
         /\ ToSet(<< >>) = {}
<1>1. Len(s) \in Nat /\ DOMAIN s = 1..Len(s)
  BY LenProperties
<1>2. ASSUME NEW e \in S PROVE ToSet(<<e>> \o s) = {e} \union ToSet(s)
  <2>1. <<e>> \in Seq(S) /\ Len(<<e>>) = 1 /\ <<e>>[1] = e
    OBVIOUS
  <2>2. /\ <<e>> \o s \in Seq(S) /\ Len(<<e>> \o s) = 1 + Len(s)
        /\ \A k \in 1..(1 + Len(s)) : (<<e>> \o s)[k] = IF k <= 1 THEN <<e>>[k] ELSE s[k - 1]
    BY <1>1, <2>1, ConcatProperties
  <2>3. DOMAIN (<<e>> \o s) = 1..(1 + Len(s))
    BY <2>2, LenProperties
  <2>4. (<<e>> \o s)[1] = e /\ 1 \in DOMAIN (<<e>> \o s)
    BY <1>1, <2>1, <2>2, <2>3
  <2>5. \A k \in DOMAIN s : (<<e>> \o s)[k + 1] = s[k] /\ k + 1 \in DOMAIN (<<e>> \o s)
    BY <1>1, <2>2, <2>3
  <2>6. \A k \in DOMAIN (<<e>> \o s) :
          (<<e>> \o s)[k] = e \/ (k - 1 \in DOMAIN s /\ (<<e>> \o s)[k] = s[k - 1])
    BY <1>1, <2>1, <2>2, <2>3
  <2>7. e \in ToSet(<<e>> \o s)
    BY <2>4 DEF ToSet
  <2>8. ASSUME NEW k \in DOMAIN s PROVE s[k] \in ToSet(<<e>> \o s)
    BY <2>5 DEF ToSet
  <2>9. ASSUME NEW k \in DOMAIN (<<e>> \o s)
        PROVE  (<<e>> \o s)[k] = e \/ (<<e>> \o s)[k] \in ToSet(s)
    BY <2>6 DEF ToSet
  <2> DEFINE t == <<e>> \o s
  <2>10. /\ e \in ToSet(t) /\ \A k \in DOMAIN s : s[k] \in ToSet(t)
         /\ \A k \in DOMAIN t : t[k] = e \/ t[k] \in ToSet(s)
    BY <2>7, <2>8, <2>9
  <2> HIDE DEF t
  <2>11. ToSet(t) = {e} \union ToSet(s)
    BY <2>10 DEF ToSet
  <2> QED BY <2>11 DEF t
<1>3. ASSUME NEW e \in S PROVE ToSet(Append(s, e)) = ToSet(s) \union {e}
  BY AppendEntries DEF ToSet
<1>4. ASSUME s # << >> PROVE Head(s) = s[1] /\ ToSet(s) = {s[1]} \union ToSet(Tail(s))
  <2>1. /\ Head(s) = s[1] /\ Len(s) \in Nat \ {0} /\ DOMAIN Tail(s) = 1..(Len(s) - 1)
        /\ \A i \in 1..(Len(s) - 1) : Tail(s)[i] = s[i + 1]
    BY <1>1, <1>4, HeadTailProperties, LenProperties, EmptySeq
  <2>2. 1 \in DOMAIN s /\ \A k \in DOMAIN s : k = 1 \/ (k - 1 \in DOMAIN Tail(s) /\ Tail(s)[k - 1] = s[k])
    BY <1>1, <2>1
  <2>3. \A k \in DOMAIN Tail(s) : k + 1 \in DOMAIN s /\ Tail(s)[k] = s[k + 1]
    BY <1>1, <2>1
  <2> DEFINE t == Tail(s)
  <2> HIDE DEF t
  <2>4. ToSet(s) \subseteq {s[1]} \union ToSet(t)
    BY <2>2 DEF ToSet, t
  <2>5. {s[1]} \union ToSet(t) \subseteq ToSet(s)
    BY <2>2, <2>3 DEF ToSet, t
  <2> QED BY <2>1, <2>4, <2>5 DEF t
<1>5. ToSet(<< >>) = {}
  BY EmptySeq DEF ToSet
<1> QED
  BY <1>2, <1>3, <1>4, <1>5

(* What the queues of the lane hold. *)
LEMMA QueueSets ==
  ASSUME LaneType
  PROVE  /\ PendingActions = ActionsOf(pending) /\ ActionsOf(<< >>) = {} /\ DirectsOf(<< >>) = {}
         /\ \A t \in Seq(Queued), e \in Queued :
              /\ ActionsOf(<<e>> \o t) = {e.a} \union ActionsOf(t)
              /\ ActionsOf(Append(t, e)) = ActionsOf(t) \union {e.a}
         /\ \A t \in Seq(Queued), a \in Actions :
              /\ Without(t, a) \in Seq(Queued)
              /\ ActionsOf(t) \subseteq {a} \union ActionsOf(Without(t, a))
         /\ pending # << >> => /\ pending[1] \in Queued /\ Tail(pending) \in Seq(Queued)
                               /\ PendingActions = {pending[1].a} \union ActionsOf(Tail(pending))
<1>1. PendingActions = ActionsOf(pending)
  BY DEF PendingActions, ActionsOf, ToSet
<1>2. ActionsOf(<< >>) = {} /\ DirectsOf(<< >>) = {}
  <2>1. ToSet(<< >>) = {}
    BY EmptySeq DEF ToSet
  <2> QED BY <2>1 DEF ActionsOf, DirectsOf
<1>3. ASSUME NEW t \in Seq(Queued), NEW e \in Queued
      PROVE  /\ ActionsOf(<<e>> \o t) = {e.a} \union ActionsOf(t)
             /\ ActionsOf(Append(t, e)) = ActionsOf(t) \union {e.a}
  <2>1. ToSet(<<e>> \o t) = {e} \union ToSet(t) /\ ToSet(Append(t, e)) = ToSet(t) \union {e}
    BY SetsOfSequences
  <2> QED BY <2>1 DEF ActionsOf
<1>4. ASSUME NEW t \in Seq(Queued), NEW a \in Actions
      PROVE  /\ Without(t, a) \in Seq(Queued)
             /\ ActionsOf(t) \subseteq {a} \union ActionsOf(Without(t, a))
  <2>1. ToSet(Without(t, a)) = ToSet(t) \intersect {e \in ToSet(t) : e.a # a}
    BY KeptSet DEF Without
  <2>2. Without(t, a) \in Seq(Queued)
    BY DrawnLess DEF Without
  <2> QED BY <2>1, <2>2 DEF ActionsOf
<1>5. ASSUME pending # << >>
      PROVE  /\ pending[1] \in Queued /\ Tail(pending) \in Seq(Queued)
             /\ PendingActions = {pending[1].a} \union ActionsOf(Tail(pending))
  <2>1. pending \in Seq(Queued)
    BY DEF LaneType
  <2>2. ToSet(pending) = {pending[1]} \union ToSet(Tail(pending))
    BY <1>5, <2>1, SetsOfSequences
  <2>3. pending[1] \in Queued /\ Tail(pending) \in Seq(Queued)
    BY <1>5, <2>1, QueuedFields
  <2> QED BY <1>1, <2>2, <2>3 DEF ActionsOf
<1> QED
  BY <1>1, <1>2, <1>3, <1>4, <1>5

(* There is a command of this kind. *)
Has(s, k) == \E c \in ToSet(s) : c.k = k

LEMMA CommandThere ==
  /\ Begins <=> Has(inbox, "begin")
  /\ CloseComes <=> Has(inbox, "close")
  /\ Begins' <=> Has(inbox', "begin")
  /\ CloseComes' <=> Has(inbox', "close")
<1>1. ASSUME NEW s, NEW k PROVE (\E i \in DOMAIN s : s[i].k = k) <=> Has(s, k)
  BY DEF Has, ToSet
<1> QED
  BY <1>1 DEF Begins, CloseComes

(* What is left of the commands when one is taken, or one more is sent. *)
LEMMA CommandSets ==
  ASSUME LaneType
  PROVE  /\ inbox # << >> =>
              /\ Head(inbox) \in Commands
              /\ Head(inbox).k = "direct" =>
                   Head(inbox).a \in Actions
                   /\ DirectsOf(inbox) = {Head(inbox).a} \union DirectsOf(Tail(inbox))
              /\ Head(inbox).k # "direct" => DirectsOf(inbox) = DirectsOf(Tail(inbox))
              /\ \A k : Has(inbox, k) <=> Head(inbox).k = k \/ Has(Tail(inbox), k)
         /\ DirectsOf(Kept(inbox, {c \in ToSet(inbox) : c.k # "close"})) = DirectsOf(inbox)
         /\ Has(inbox, "begin") =>
              Has(Kept(inbox, {c \in ToSet(inbox) : c.k # "close"}), "begin")
         /\ \A c \in Commands :
              /\ c.k = "direct" => DirectsOf(Append(inbox, c)) = DirectsOf(inbox) \union {c.a}
              /\ c.k # "direct" => DirectsOf(Append(inbox, c)) = DirectsOf(inbox)
              /\ \A k : Has(Append(inbox, c), k) <=> Has(inbox, k) \/ c.k = k
         /\ \A k : ~Has(<< >>, k)
<1>0. inbox \in Seq(Commands)
  BY DEF LaneType
<1>1. ASSUME inbox # << >>
      PROVE  /\ Head(inbox) \in Commands /\ ToSet(inbox) = {Head(inbox)} \union ToSet(Tail(inbox))
  <2>1. Head(inbox) = inbox[1] /\ ToSet(inbox) = {inbox[1]} \union ToSet(Tail(inbox))
    BY <1>0, <1>1, SetsOfSequences
  <2>2. 1 \in DOMAIN inbox
    BY <1>0, <1>1, LenProperties, EmptySeq
  <2> QED BY <1>0, <2>1, <2>2, ElementOfSeq, LenProperties
<1>2. ASSUME inbox # << >>
      PROVE  /\ Head(inbox).k = "direct" =>
                   Head(inbox).a \in Actions
                   /\ DirectsOf(inbox) = {Head(inbox).a} \union DirectsOf(Tail(inbox))
             /\ Head(inbox).k # "direct" => DirectsOf(inbox) = DirectsOf(Tail(inbox))
             /\ \A k : Has(inbox, k) <=> Head(inbox).k = k \/ Has(Tail(inbox), k)
  <2>1. Head(inbox).k = "direct" => Head(inbox).a \in Actions
    BY <1>1, <1>2 DEF Commands
  <2>2. \A k : Has(inbox, k) <=> Head(inbox).k = k \/ Has(Tail(inbox), k)
    BY <1>1, <1>2 DEF Has
  <2> QED BY <1>1, <1>2, <2>1, <2>2 DEF DirectsOf
<1>3. ToSet(Kept(inbox, {c \in ToSet(inbox) : c.k # "close"})) = {c \in ToSet(inbox) : c.k # "close"}
  <2>1. \A E : ToSet(Kept(inbox, E)) = ToSet(inbox) \intersect E
    BY <1>0, KeptSet
  <2> QED BY <2>1
<1>4. DirectsOf(Kept(inbox, {c \in ToSet(inbox) : c.k # "close"})) = DirectsOf(inbox)
  BY <1>3 DEF DirectsOf
<1>5. Has(inbox, "begin") => Has(Kept(inbox, {c \in ToSet(inbox) : c.k # "close"}), "begin")
  BY <1>3 DEF Has
<1>6. ASSUME NEW c \in Commands
      PROVE  /\ c.k = "direct" => DirectsOf(Append(inbox, c)) = DirectsOf(inbox) \union {c.a}
             /\ c.k # "direct" => DirectsOf(Append(inbox, c)) = DirectsOf(inbox)
             /\ \A k : Has(Append(inbox, c), k) <=> Has(inbox, k) \/ c.k = k
  <2>1. ToSet(Append(inbox, c)) = ToSet(inbox) \union {c}
    BY <1>0, SetsOfSequences
  <2>2. /\ c.k = "direct" => DirectsOf(Append(inbox, c)) = DirectsOf(inbox) \union {c.a}
        /\ c.k # "direct" => DirectsOf(Append(inbox, c)) = DirectsOf(inbox)
    BY <2>1 DEF DirectsOf
  <2>3. \A k : Has(Append(inbox, c), k) <=> Has(inbox, k) \/ c.k = k
    BY <2>1 DEF Has
  <2> QED BY <2>2, <2>3
<1>7. \A k : ~Has(<< >>, k)
  <2>1. ToSet(<< >>) = {}
    BY EmptySeq DEF ToSet
  <2> QED BY <2>1 DEF Has
<1> QED
  BY <1>1, <1>2, <1>4, <1>5, <1>6, <1>7

-----------------------------------------------------------------------------
(* Everything admitted is attended *)

(* A settlement leaves none of its actions an owner. *)
LEMMA OwnersGone ==
  ASSUME rec \in [Actions -> Records], NEW S, NEW a \in Actions, a \in S
  PROVE  /\ \A st \in {"finished", "failed"} : rec' = OwnersTaken(S, st) => ~HasOwner(rec'[a])
         /\ rec' = StrictRecords(S) => ~HasOwner(rec'[a])
<1>0. rec[a] \in Records
  OBVIOUS
<1>1. ASSUME NEW st \in {"finished", "failed"}, rec' = OwnersTaken(S, st) PROVE ~HasOwner(rec'[a])
  <2>1. /\ HasOwner(rec[a]) => rec'[a].st = st
        /\ ~HasOwner(rec[a]) => rec'[a] = rec[a]
    BY <1>1, TakenRecords
  <2> QED BY <2>1 DEF HasOwner
<1>2. ASSUME rec' = StrictRecords(S) PROVE ~HasOwner(rec'[a])
  <2>1. rec'[a] = IF HasOwner(rec[a]) \/ rec[a].st = "claimed" THEN [rec[a] EXCEPT !.st = "failed"]
                  ELSE IF rec[a].st \in {"reserved", "claiming"} THEN [rec[a] EXCEPT !.strict = TRUE]
                  ELSE rec[a]
    BY <1>2 DEF StrictRecords
  <2>2. CASE HasOwner(rec[a]) \/ rec[a].st = "claimed"
    <3>1. rec'[a].st = "failed"
      BY <1>0, <2>1, <2>2 DEF Records
    <3> QED BY <3>1 DEF HasOwner
  <2>3. CASE ~(HasOwner(rec[a]) \/ rec[a].st = "claimed")
    <3>1. rec'[a].st = rec[a].st
      BY <1>0, <2>1, <2>3 DEF Records
    <3> QED BY <2>3, <3>1 DEF HasOwner
  <2> QED BY <2>2, <2>3
<1> QED
  BY <1>1, <1>2

(* So does that of a neutral report. *)
LEMMA NeutralTakes ==
  ASSUME rec \in [Actions -> Records], NEW S, SettleNeutral(S), NEW a \in Actions,
         a = lane.cur.a \/ a \in S
  PROVE  ~HasOwner(rec'[a])
<1> DEFINE mine == {lane.cur.a}
<1>1. rec'[a] = IF a \in mine /\ lane.cur.then = "cancelled" /\ HasOwner(rec[a])
                THEN [rec[a] EXCEPT !.st = "finished"]
                ELSE OwnersTaken(mine \union S, "failed")[a]
  BY DEF SettleNeutral
<1>2. [rec[a] EXCEPT !.st = "finished"].st = "finished"
  BY DEF Records
<1>3. /\ HasOwner(rec[a]) => OwnersTaken(mine \union S, "failed")[a].st = "failed"
      /\ ~HasOwner(rec[a]) => OwnersTaken(mine \union S, "failed")[a] = rec[a]
  BY TakenRecords
<1> QED
  BY <1>1, <1>2, <1>3 DEF HasOwner

(* A report that failed stays in the queue, or its action is settled.        *)
LEMMA FailedCarried ==
  ASSUME TypeOK, lane.cur.a \in Actions, NEW b \in BOOLEAN, ReportFailed(b),
         NEW a \in Actions, HasOwner(rec'[a]), a \in PendingActions \/ a = lane.cur.a
  PROVE  a \in ActionsOf(pending')
<1> DEFINE c == lane.cur.a
           rest == Without(pending, c)
<1>0. /\ LaneType /\ pending \in Seq(Queued) /\ since \in 0..Interval
      /\ rec \in [Actions -> Records] /\ PendingActions = ActionsOf(pending)
  BY QueueSets DEF TypeOK, LaneType, PortType, OpsType
<1>1. rest \in Seq(Queued) /\ ActionsOf(pending) \subseteq {c} \union ActionsOf(rest)
  BY <1>0, QueueSets
<1>2. CASE lane.cur.auto /\ gen.sealed
  <2>1. pending' = rest /\ \E st \in {"finished", "failed"} : rec' = OwnersTaken({c}, st)
    BY <1>2 DEF ReportFailed
  <2>2. a # c
    BY <1>0, <2>1, OwnersGone
  <2>3. a \in ActionsOf(rest)
    BY <1>0, <1>1, <2>2
  <2> QED BY <2>1, <2>3
<1>3. CASE ~(lane.cur.auto /\ gen.sealed)
  <2>1. PICK t \in {"cancelled", "failed"} : pending' = <<Neutral(c, t)>> \o rest
    BY <1>3 DEF ReportFailed
  <2>2. Neutral(c, t) \in Queued /\ Neutral(c, t).a = c
    BY <1>0, NeutralType DEF Neutral
  <2> DEFINE e == Neutral(c, t)
  <2> HIDE DEF c, rest, e
  <2>3. ASSUME NEW q \in Seq(Queued), NEW x \in Queued
        PROVE  ActionsOf(<<x>> \o q) = {x.a} \union ActionsOf(q)
    BY <1>0, QueueSets
  <2>4. ActionsOf(<<e>> \o rest) = {e.a} \union ActionsOf(rest)
    BY <1>1, <2>2, <2>3 DEF e
  <2>5. pending' = <<e>> \o rest
    BY <2>1 DEF e
  <2>6. e.a = c
    BY <2>2 DEF e
  <2> QED BY <1>0, <1>1, <2>4, <2>5, <2>6 DEF c
<1> QED
  BY <1>2, <1>3

(* What the lane holds it holds until it settles it. *)
LEMMA HeldStays ==
  ASSUME TypeOK,
         \/ Top \/ Observe \/ Dispatch \/ MarkDispatched
         \/ AcceptReport \/ ClaimAccepted \/ CompleteClaim \/ FinishSuccess
         \/ WriteReportFails \/ AcceptNeutral \/ WriteNeutralFails \/ CleanupFails
         \/ NoRelease \/ StartRelease \/ AcceptRelease
         \/ CompleteRelease \/ WriteReleaseFails
         \/ HandleDirect \/ HandleBegin \/ HandleClose \/ Woken \/ Await
         \/ CloseLane \/ WriteFinal \/ AcceptFinal \/ WriteFinalFails
  PROVE  lane'.held = lane.held
<1>0. lane \in Lanes
  BY DEF TypeOK, LaneType
<1>1. \A p : Goto(p) => lane'.held = lane.held
  BY <1>0 DEF Goto, Lanes
<1>2. CASE \/ Top \/ Observe \/ MarkDispatched \/ AcceptReport \/ ClaimAccepted \/ CompleteClaim
           \/ FinishSuccess \/ WriteReportFails \/ AcceptNeutral \/ WriteNeutralFails
           \/ CleanupFails \/ AcceptRelease \/ HandleDirect \/ HandleBegin \/ HandleClose
           \/ Woken \/ Await \/ AcceptFinal \/ WriteFinalFails
  BY <1>1, <1>2 DEF Top, Observe, MarkDispatched, AcceptReport, ClaimAccepted, CompleteClaim,
     FinishSuccess, WriteReportFails, AcceptNeutral, WriteNeutralFails, CleanupFails,
     AcceptRelease, HandleDirect, HandleBegin, HandleClose, Woken, Await, AcceptFinal,
     WriteFinalFails
<1>3. CASE Dispatch
  BY <1>0, <1>1, <1>3 DEF Dispatch, Lanes
<1>4. CASE NoRelease \/ StartRelease
  BY <1>0, <1>4 DEF NoRelease, StartRelease, Asleep, Lanes
<1>5. CASE CompleteRelease \/ WriteReleaseFails
  BY <1>0, <1>5 DEF CompleteRelease, WriteReleaseFails, AfterRelease, Asleep, Lanes
<1>6. CASE CloseLane
  BY <1>0, <1>6 DEF CloseLane, Lanes
<1>7. CASE WriteFinal
  BY <1>0, <1>7 DEF WriteFinal, Lanes
<1> QED
  BY <1>2, <1>3, <1>4, <1>5, <1>6, <1>7

(* What the lane carries it carries on, unless it is settled or the lane     *)
(* panics. First the steps that leave the queues alone.                      *)
Carries(a) ==
  \/ a \in DirectsOf(inbox') \union ActionsOf(pending') \union lane'.held
  \/ /\ lane'.pc \in {"mark", "write", "failing"}
     /\ lane'.cur.kind \in {"report", "neutral"} /\ lane'.cur.a = a

LEMMA QuietCarries ==
  ASSUME TypeOK, LaneInv, NEW a \in Actions, Carried(a), HasOwner(rec'[a]),
         \/ Top \/ AcceptReport \/ ClaimAccepted \/ CompleteClaim \/ FinishSuccess
         \/ AcceptNeutral \/ CleanupFails \/ NoRelease \/ StartRelease \/ AcceptRelease
         \/ CompleteRelease \/ WriteReleaseFails \/ Woken \/ CloseLane \/ WriteFinal
         \/ AcceptFinal \/ WriteFinalFails
  PROVE  Carries(a)
<1>0. /\ lane \in Lanes /\ PendingActions = ActionsOf(pending) /\ rec \in [Actions -> Records]
  BY QueueSets DEF TypeOK, LaneType, OpsType
<1>1. inbox' = inbox /\ pending' = pending
  BY DEF Top, AcceptReport, ClaimAccepted, CompleteClaim, FinishSuccess, AcceptNeutral,
     CleanupFails, NoRelease, StartRelease, AcceptRelease, CompleteRelease, WriteReleaseFails,
     Woken, CloseLane, WriteFinal, AcceptFinal, WriteFinalFails, queue
<1>2. lane'.held = lane.held
  BY HeldStays
<1>3. ASSUME InHands(a) PROVE Carries(a)
  <2>1. CASE AcceptReport
    <3>1. lane.cur.kind = "report" /\ rec' = [rec EXCEPT ![a].st = "reserved"]
      BY <1>3, <2>1 DEF AcceptReport, InHands
    <3>2. rec'[a].st = "reserved"
      BY <1>0, <3>1 DEF Records
    <3> QED BY <3>2 DEF HasOwner
  <2>2. CASE AcceptNeutral
    BY <1>0, <1>3, <2>2, NeutralTakes DEF AcceptNeutral, InHands
  <2>3. CASE CleanupFails
    <3>1. lane'.pc = "failing" /\ lane'.cur = lane.cur
      BY <2>3, WritePlaces DEF Goes
    <3> QED BY <1>3, <3>1 DEF InHands, Carries
  <2>4. CASE \/ Top \/ ClaimAccepted \/ CompleteClaim \/ FinishSuccess \/ NoRelease \/ StartRelease
             \/ Woken \/ CloseLane \/ WriteFinal
    BY <1>3, <2>4 DEF Top, ClaimAccepted, CompleteClaim, FinishSuccess, NoRelease, StartRelease,
       Woken, CloseLane, WriteFinal, Here, InHands
  <2>5. CASE AcceptRelease \/ CompleteRelease \/ WriteReleaseFails \/ AcceptFinal \/ WriteFinalFails
    BY <1>3, <2>5, WritePlaces DEF InHands
  <2> QED BY <2>1, <2>2, <2>3, <2>4, <2>5
<1> QED
  BY <1>0, <1>1, <1>2, <1>3 DEF Carried, Carries

(* Reports of cancelled actions leave the queue settled, or replaced. *)
LEMMA ObserveCarries ==
  ASSUME TypeOK, NEW a \in Actions, Carried(a), HasOwner(rec'[a]), Observe
  PROVE  Carries(a)
<1>0. /\ lane \in Lanes /\ LaneType /\ pending \in Seq(Queued) /\ since \in 0..Interval
      /\ rec \in [Actions -> Records] /\ PendingActions = ActionsOf(pending)
  BY QueueSets DEF TypeOK, LaneType, PortType, OpsType
<1>1. inbox' = inbox /\ lane'.held = lane.held /\ lane.pc = "observe"
  BY <1>0 DEF Observe, Here, Goto, Lanes
<1> DEFINE seen == IF ResourceCancelled THEN Requested(op, PendingActions) ELSE op
           wanted == {e \in ToSet(pending) : seen[e.a].reason # "none"}
           stale == {e \in wanted : e.auto /\ gen.sealed}
           rest == Kept(pending, ToSet(pending) \ stale)
           cancelled == Kept(rest, {e \in wanted : e.kind = "report"})
           S == {e.a : e \in stale}
<1>2. /\ pending' = IF cancelled = << >> THEN rest
                    ELSE <<Neutral(Head(cancelled).a, "cancelled")>>
                           \o Without(rest, Head(cancelled).a)
      /\ rec' = OwnersTaken(S, "finished")
  BY DEF Observe
<1>3. rest \in Seq(Queued) /\ ToSet(rest) = ToSet(pending) \ stale
  <2>1. \A E : Kept(pending, E) \in Seq(Queued) /\ ToSet(Kept(pending, E)) = ToSet(pending) \intersect E
    BY <1>0, DrawnLess, KeptSet
  <2> HIDE DEF stale
  <2> QED BY <2>1
<1>4. a \notin S
  <2> HIDE DEF S
  <2> QED BY <1>0, <1>2, OwnersGone
<1>5. a \in ActionsOf(pending) => a \in ActionsOf(rest)
  <2> HIDE DEF stale, rest
  <2> QED BY <1>3, <1>4 DEF ActionsOf
<1> HIDE DEF rest
<1>6. cancelled \in Seq(Queued)
  BY <1>3, DrawnLess
<1> HIDE DEF cancelled, S
<1>7. ActionsOf(rest) \subseteq ActionsOf(pending')
  <2>1. CASE cancelled = << >>
    BY <1>2, <2>1
  <2>2. CASE cancelled # << >>
    <3> DEFINE h == Head(cancelled).a
               n == Neutral(h, "cancelled")
    <3>1. h \in Actions
      BY <1>6, <2>2, QueuedFields
    <3>2. n \in Queued /\ n.a = h
      BY <1>0, <3>1, NeutralType DEF Neutral
    <3>3. pending' = <<n>> \o Without(rest, h)
      BY <1>2, <2>2
    <3> HIDE DEF n, h
    <3>4. Without(rest, h) \in Seq(Queued) /\ ActionsOf(rest) \subseteq {h} \union ActionsOf(Without(rest, h))
      BY <1>0, <1>3, <3>1, QueueSets
    <3>5. ActionsOf(pending') = {h} \union ActionsOf(Without(rest, h))
      BY <1>0, <3>2, <3>3, <3>4, QueueSets
    <3> QED BY <3>4, <3>5
  <2> QED BY <2>1, <2>2
<1> QED
  BY <1>0, <1>1, <1>5, <1>7 DEF Carried, Carries, InHands

(* The report at the front goes into the lane's hands, or stays.             *)
LEMMA DispatchCarries ==
  ASSUME TypeOK, NEW a \in Actions, Carried(a), Dispatch
  PROVE  Carries(a)
<1>0. /\ lane \in Lanes /\ LaneType /\ pending \in Seq(Queued) /\ since \in 0..Interval
      /\ PendingActions = ActionsOf(pending)
  BY QueueSets DEF TypeOK, LaneType, PortType
<1>1. inbox' = inbox /\ lane.pc = "dispatch"
  BY DEF Dispatch, Here
<1>2. lane'.held = lane.held
  BY <1>0 DEF Dispatch, Goto, Lanes
<1>3. CASE UNCHANGED pending
  BY <1>0, <1>1, <1>2, <1>3 DEF Carried, Carries, InHands
<1>4. CASE FrontDue /\ pending' = <<[pending[1] EXCEPT !.due = Paced]>> \o Tail(pending)
  <2> DEFINE e == [pending[1] EXCEPT !.due = Paced]
  <2>1. /\ pending[1] \in Queued /\ Tail(pending) \in Seq(Queued)
        /\ PendingActions = {pending[1].a} \union ActionsOf(Tail(pending))
    BY <1>0, <1>4, QueueSets DEF FrontDue
  <2>2. Paced \in 0..Interval
    BY <1>0, PacedType
  <2>3. e \in Queued /\ e.a = pending[1].a /\ pending' = <<e>> \o Tail(pending)
    BY <1>4, <2>1, <2>2 DEF Queued
  <2> HIDE DEF e
  <2>4. ActionsOf(pending') = {e.a} \union ActionsOf(Tail(pending))
    BY <1>0, <2>1, <2>3, QueueSets
  <2> QED BY <1>1, <1>2, <2>1, <2>3, <2>4 DEF Carried, Carries, InHands
<1>5. CASE /\ FrontDue /\ pending' = Tail(pending)
           /\ lane' = [lane EXCEPT !.cur = pending[1], !.pc =
                         IF pending[1].kind = "report" THEN "mark" ELSE "write"]
  <2>1. /\ pending[1] \in Queued
        /\ PendingActions = {pending[1].a} \union ActionsOf(pending')
    BY <1>0, <1>5, QueueSets DEF FrontDue
  <2>2. lane'.cur = pending[1] /\ lane'.pc \in {"mark", "write"}
    BY <1>0, <1>5 DEF Lanes
  <2>3. pending[1].kind \in {"report", "neutral"}
    BY <2>1 DEF Queued
  <2> QED BY <1>1, <1>2, <2>1, <2>2, <2>3 DEF Carried, Carries, InHands
<1> QED
  BY <1>3, <1>4, <1>5 DEF Dispatch

(* A report that fails is replaced, or what it was for is settled.           *)
LEMMA FailureCarries ==
  ASSUME TypeOK, LaneInv, QueueInv, NEW a \in Actions, Carried(a), HasOwner(rec'[a]),
         MarkDispatched \/ WriteReportFails \/ WriteNeutralFails \/ SealAfterFailure
  PROVE  Carries(a)
<1>0. /\ lane \in Lanes /\ PendingActions = ActionsOf(pending) /\ rec \in [Actions -> Records]
  BY QueueSets DEF TypeOK, LaneType, OpsType
<1>1. inbox' = inbox
  BY DEF MarkDispatched, WriteReportFails, WriteNeutralFails, SealAfterFailure
<1>2. \A p : Goto(p) => lane'.held = lane.held /\ lane'.pc = p /\ lane'.cur = lane.cur
  BY <1>0 DEF Goto, Lanes
<1>3. CASE MarkDispatched \/ WriteReportFails
  <2>1. lane.cur.kind = "report" /\ lane.cur.a \in Actions
    BY <1>3, RunPlaces, WritePlaces DEF LaneInv, QueueInv, Reporting, Serving
  <2>2. lane'.held = lane.held
    BY <1>2, <1>3 DEF MarkDispatched, WriteReportFails
  <2>3. CASE UNCHANGED pending /\ Goto("write")
    BY <1>0, <1>1, <1>2, <2>1, <2>2, <2>3 DEF Carried, Carries, InHands
  <2>4. CASE \E b \in BOOLEAN : ReportFailed(b)
    <3>1. a \in PendingActions \/ a = lane.cur.a => a \in ActionsOf(pending')
      BY <2>1, <2>4, FailedCarried
    <3> QED BY <1>1, <2>2, <3>1 DEF Carried, Carries, InHands
  <2> QED BY <1>3, <2>3, <2>4 DEF MarkDispatched, WriteReportFails
<1>4. CASE WriteNeutralFails
  <2>1. lane'.held = lane.held
    BY <1>2, <1>4 DEF WriteNeutralFails
  <2>2. CASE SettleNeutral(PendingActions)
    <3>1. a # lane.cur.a /\ a \notin PendingActions
      BY <1>0, <2>2, NeutralTakes
    <3> QED BY <1>1, <2>1, <3>1 DEF Carried, Carries, InHands
  <2>3. CASE SettleNeutral({}) /\ UNCHANGED pending
    <3>1. a # lane.cur.a
      BY <1>0, <2>3, NeutralTakes
    <3> QED BY <1>0, <1>1, <2>1, <2>3, <3>1 DEF Carried, Carries, InHands
  <2> QED BY <1>4, <2>2, <2>3 DEF WriteNeutralFails
<1>5. CASE SealAfterFailure
  <2> DEFINE S == PendingActions \union {lane.cur.a}
  <2>1. rec' = StrictRecords(S)
    BY <1>5 DEF SealAfterFailure
  <2>2. a \notin S
    BY <1>0, <2>1, OwnersGone
  <2>3. lane'.held = lane.held
    BY <1>0, <1>5 DEF SealAfterFailure, Lanes
  <2> QED BY <1>1, <2>2, <2>3 DEF Carried, Carries, InHands
<1> QED
  BY <1>3, <1>4, <1>5

(* A command that is taken queues its report, or settles its action.         *)
LEMMA TakeCarries ==
  ASSUME TypeOK, NEW a \in Actions, Carried(a), HasOwner(rec'[a]),
         HandleDirect \/ HandleBegin \/ HandleClose \/ Await
  PROVE  Carries(a)
<1>0. /\ lane \in Lanes /\ LaneType /\ PendingActions = ActionsOf(pending)
      /\ pending \in Seq(Queued) /\ since \in 0..Interval /\ rec \in [Actions -> Records]
  BY QueueSets DEF TypeOK, LaneType, PortType, OpsType
<1>1. lane'.held = lane.held /\ lane.pc \in {"sleep", "await"}
  BY <1>0 DEF HandleDirect, HandleBegin, HandleClose, Await, Take, Here, Goto, Lanes
<1>2. CASE HandleDirect
  <2> DEFINE c == Head(inbox).a
  <2>1. inbox # << >> /\ Head(inbox).k = "direct" /\ inbox' = Tail(inbox)
    BY <1>2 DEF HandleDirect, Take
  <2>2. c \in Actions /\ DirectsOf(inbox) = {c} \union DirectsOf(inbox')
    BY <1>0, <2>1, CommandSets
  <2>3. CASE UNCHANGED pending /\ (rec' = StrictRecords({c})
               \/ \E st \in {"finished", "failed"} : rec' = OwnersTaken({c}, st))
    <3>1. a # c
      BY <1>0, <2>3, OwnersGone
    <3> HIDE DEF c
    <3> QED BY <1>0, <1>1, <2>2, <2>3, <3>1 DEF Carried, Carries, InHands
  <2>4. CASE pending' = Append(pending, Report(c))
    <3> DEFINE r == Report(c)
    <3>1. Paced \in 0..Interval
      BY <1>0, PacedType
    <3>2. r \in Queued /\ r.a = c
      BY <2>2, <3>1 DEF Report, Queued
    <3>3. pending' = Append(pending, r)
      BY <2>4
    <3> HIDE DEF r, c
    <3>4. ActionsOf(pending') = ActionsOf(pending) \union {r.a}
      BY <1>0, <3>2, <3>3, QueueSets
    <3> QED BY <1>0, <1>1, <2>2, <3>2, <3>4 DEF Carried, Carries, InHands
  <2> HIDE DEF c
  <2> QED BY <1>2, <2>3, <2>4 DEF HandleDirect, c
<1>3. CASE HandleBegin
  <2>1. inbox # << >> /\ Head(inbox).k = "begin" /\ inbox' = Tail(inbox)
    BY <1>3 DEF HandleBegin, Take
  <2>2. DirectsOf(inbox) = DirectsOf(inbox')
    BY <1>0, <2>1, CommandSets
  <2>3. CASE UNCHANGED pending
    BY <1>0, <1>1, <2>2, <2>3 DEF Carried, Carries, InHands
  <2>4. CASE ~UNCHANGED pending
    <3> DEFINE drained == {e \in ToSet(pending) : e.auto /\ ~IsTerminal(e.a)}
               S == {e.a : e \in drained}
    <3>1. rec' = OwnersTaken(S, "finished") /\ pending' = Kept(pending, ToSet(pending) \ drained)
      BY <1>3, <2>4 DEF HandleBegin
    <3>2. ToSet(pending') = ToSet(pending) \ drained
      <4>1. \A E : ToSet(Kept(pending, E)) = ToSet(pending) \intersect E
        BY <1>0, KeptSet
      <4> HIDE DEF drained
      <4> QED BY <3>1, <4>1
    <3>3. a \notin S
      <4> HIDE DEF S
      <4> QED BY <1>0, <3>1, OwnersGone
    <3>4. a \in ActionsOf(pending) => a \in ActionsOf(pending')
      <4> HIDE DEF drained
      <4> QED BY <3>2, <3>3 DEF ActionsOf
    <3> QED BY <1>0, <1>1, <2>2, <3>4 DEF Carried, Carries, InHands
  <2> QED BY <2>3, <2>4
<1>4. CASE HandleClose
  <2>1. inbox # << >> /\ Head(inbox).k = "close" /\ inbox' = Tail(inbox) /\ pending' = pending
    BY <1>4 DEF HandleClose, Take, queue
  <2>2. DirectsOf(inbox) = DirectsOf(inbox')
    BY <1>0, <2>1, CommandSets
  <2> QED BY <1>0, <1>1, <2>1, <2>2 DEF Carried, Carries, InHands
<1>5. CASE Await
  <2>1. pending' = pending /\ inbox' = Kept(inbox, {c \in ToSet(inbox) : c.k # "close"})
    BY <1>5 DEF Await, queue
  <2>2. DirectsOf(inbox) = DirectsOf(inbox')
    BY <1>0, <2>1, CommandSets
  <2> QED BY <1>0, <1>1, <2>1, <2>2 DEF Carried, Carries, InHands
<1> QED
  BY <1>2, <1>3, <1>4, <1>5

(* A closing lane holds what it collects until it has settled it.            *)
LEMMA CloseCarries ==
  ASSUME TypeOK, NEW a \in Actions, Carried(a), HasOwner(rec'[a]),
         Collect \/ CloseStream \/ FailHeld
  PROVE  Carries(a)
<1>0. /\ lane \in Lanes /\ PendingActions = ActionsOf(pending) /\ rec \in [Actions -> Records]
  BY QueueSets DEF TypeOK, LaneType, OpsType
<1>1. CASE Collect
  <2>1. lane'.held = lane.held \union (PendingActions \union DirectsOf(inbox))
    BY <1>0, <1>1 DEF Collect, DirectsOf, Lanes
  <2>2. lane.pc \in {"collect", "wait"}
    BY <1>1 DEF Collect
  <2> QED BY <2>1, <2>2 DEF Carried, Carries, InHands
<1>2. CASE CloseStream
  <2>1. inbox' = inbox /\ pending' = pending /\ lane.pc = "closeStream"
    BY <1>2 DEF CloseStream, Here
  <2>2. lane'.held = lane.held \/ rec' = OwnersTaken(lane.held, "finished")
    BY <1>0, <1>2 DEF CloseStream, Lanes
  <2>3. lane'.held = lane.held \/ a \notin lane.held
    BY <1>0, <2>2, OwnersGone
  <2> QED BY <1>0, <2>1, <2>3 DEF Carried, Carries, InHands
<1>3. CASE FailHeld
  <2>1. /\ inbox' = inbox /\ pending' = pending /\ lane.pc = "closeFailed"
        /\ rec' = StrictRecords(lane.held)
    BY <1>3 DEF FailHeld, Here, queue
  <2>2. a \notin lane.held
    BY <1>0, <2>1, OwnersGone
  <2> QED BY <1>0, <2>1, <2>2 DEF Carried, Carries, InHands
<1> QED
  BY <1>1, <1>2, <1>3

(* So a step of the lane leaves no action that was carried behind.           *)
LEMMA LaneCarries ==
  ASSUME TypeOK, LaneInv, QueueInv, DrainInv, NEW a \in Actions, Carried(a), HasOwner(rec'[a]),
         LaneNext, ~LanePanics
  PROVE  Carries(a)
<1>1. CASE SettleStream
  <2>1. lane.pc = "closeSettle"
    BY <1>1 DEF SettleStream, Here
  <2>2. pending = << >> /\ DirectsOf(inbox) = {} /\ lane.held = {}
    BY <2>1 DEF DrainInv, LaneInv, Closes
  <2>3. PendingActions = {}
    BY <2>2, QueueSets DEF TypeOK
  <2> QED BY <2>1, <2>2, <2>3 DEF Carried, InHands
<1> QED
  BY <1>1, QuietCarries, ObserveCarries, DispatchCarries, FailureCarries, TakeCarries, CloseCarries
     DEF LaneNext

(* The other threads.                                                        *)
Elsewhere == SubmissionStep \/ ReleaseStep \/ CloseStep \/ Tick \/ UNCHANGED vars

(* They take no command, and they send none to a lane that has ended; while  *)
(* the Controller closes they send no action.                                *)
LEMMA CommandsStay ==
  ASSUME TypeOK, Elsewhere
  PROVE  /\ DirectsOf(inbox) \subseteq DirectsOf(inbox')
         /\ Closing => DirectsOf(inbox') = DirectsOf(inbox)
         /\ Begins => Begins'
         /\ CloseComes => CloseComes'
         /\ CloseComes' => CloseComes \/ SendClose
         /\ ~LaneAlive => inbox' = inbox
<1>0. LaneType
  BY DEF TypeOK
<1>1. CASE UNCHANGED inbox
  BY <1>1 DEF DirectsOf, Begins, CloseComes
<1>2. ASSUME NEW c \in Commands, inbox' = Append(inbox, c), LaneAlive,
             c.k = "direct" => ~Closing, c.k = "close" => SendClose
      PROVE  /\ DirectsOf(inbox) \subseteq DirectsOf(inbox')
             /\ Closing => DirectsOf(inbox') = DirectsOf(inbox)
             /\ Begins => Begins'
             /\ CloseComes => CloseComes'
             /\ CloseComes' => CloseComes \/ SendClose
  <2>1. /\ c.k = "direct" => DirectsOf(inbox') = DirectsOf(inbox) \union {c.a}
        /\ c.k # "direct" => DirectsOf(inbox') = DirectsOf(inbox)
        /\ \A k : Has(inbox', k) <=> Has(inbox, k) \/ c.k = k
    BY <1>0, <1>2, CommandSets
  <2>2. /\ Begins => Begins'
        /\ CloseComes => CloseComes'
        /\ CloseComes' => CloseComes \/ SendClose
    BY <1>2, <2>1, CommandThere
  <2> QED BY <1>2, <2>1, <2>2
<1>3. CASE inbox' # inbox
  <2>1. ASSUME NEW a \in Actions, Submission(a) \/ CancelAction(a)
        PROVE  inbox' = Append(inbox, [k |-> "direct", a |-> a]) /\ LaneAlive /\ ~Closing
    BY <1>3, <2>1 DEF Submission, Reserve, Create, Send, Resolve, Reject, CancelDispatched,
       WakeLane, CancelAction
  <2>2. ASSUME ReleaseStep \/ CloseStep
        PROVE  /\ LaneAlive
               /\ \/ inbox' = Append(inbox, [k |-> "begin", a |-> "none"])
                  \/ SendClose /\ inbox' = Append(inbox, [k |-> "close", a |-> "none"])
    BY <1>3, <2>2 DEF ReleaseStep, ReleaseNext, SealGeneration, ReadFailure, VisitSealed,
       TakeUndispatched, SettleUndispatched, Track, SendBegin, CloseStep, CloseNext, CloseIntent,
       CloseInterrupt, CancelResource, SendClose, JoinLane, RecordOwnershipLoss
  <2>3. ~(Tick \/ UNCHANGED vars)
    BY <1>3 DEF Tick, vars
  <2>4. \E c \in Commands : /\ inbox' = Append(inbox, c) /\ LaneAlive
                            /\ c.k = "direct" => ~Closing
                            /\ c.k = "close" => SendClose
    <3>1. /\ \A a \in Actions : [k |-> "direct", a |-> a] \in Commands
          /\ [k |-> "begin", a |-> "none"] \in Commands /\ [k |-> "close", a |-> "none"] \in Commands
      BY DEF Commands
    <3>2. CASE SubmissionStep
      <4>1. PICK a \in Actions : Submission(a) \/ CancelAction(a)
        BY <3>2 DEF SubmissionStep
      <4> QED BY <2>1, <3>1, <4>1
    <3>3. CASE ReleaseStep \/ CloseStep
      BY <2>2, <3>1, <3>3
    <3> QED BY <2>3, <3>2, <3>3 DEF Elsewhere
  <2>5. PICK c \in Commands : /\ inbox' = Append(inbox, c) /\ LaneAlive
                              /\ c.k = "direct" => ~Closing
                              /\ c.k = "close" => SendClose
    BY <2>4
  <2> QED BY <1>2, <2>5
<1> QED
  BY <1>1, <1>3

(* A lane that takes a step is alive. *)
LEMMA LaneLives == LaneNext => LaneAlive
BY DEF LaneNext, LaneAlive, Here, Take, Top, Observe, Dispatch, MarkDispatched, AcceptReport,
       ClaimAccepted, CompleteClaim, FinishSuccess, WriteReportFails, AcceptNeutral,
       WriteNeutralFails, CleanupFails, SealAfterFailure, NoRelease, StartRelease,
       AcceptRelease, CompleteRelease, WriteReleaseFails, HandleDirect, HandleBegin,
       HandleClose, Woken, Await, CloseLane, Collect, WriteFinal, AcceptFinal,
       WriteFinalFails, CloseStream, FailHeld, SettleStream, LanePanics

(* The lane gives no action an owner or a record. *)
LEMMA OwnersStay ==
  ASSUME TypeOK, LaneInv, FailInv, QueueInv, ServingInv, \A b \in Actions : RecordInv(b),
         LaneNext, NEW a \in Actions
  PROVE  /\ HasOwner(rec'[a]) => HasOwner(rec[a])
         /\ rec[a].st # "absent" => rec'[a].st # "absent"
<1>1. CASE LanePanics
  BY <1>1 DEF LanePanics, ops
<1>2. CASE LaneQuiet
  BY <1>2 DEF LaneQuiet, OwnersSettled, Keep, Close, HasOwner
<1>3. ASSUME NEW c \in Actions, Reported(c)
      PROVE  /\ HasOwner(rec'[a]) => HasOwner(rec[a])
             /\ rec[a].st # "absent" => rec'[a].st # "absent"
  BY <1>3 DEF Reported, Marks, Accepts, Claims, Completes, Finishes, Only, Moves, Keep, HasOwner
<1> QED
  BY <1>1, <1>2, <1>3, LaneSettles, ReportSteps

(* What the lane carries stays where it is while others take a step. *)
LEMMA CarriedOn ==
  ASSUME TypeOK, Elsewhere, NEW a \in Actions, Carried(a)
  PROVE  Carried(a)'
<1>1. lane'.pc = lane.pc /\ lane'.cur = lane.cur /\ lane'.held = lane.held
  <2>1. CASE Tick
    BY <2>1 DEF Tick, TypeOK, LaneType, Lanes
  <2> QED BY <2>1, SubmissionFrame, ReleaseFrame, CloseFrame DEF Elsewhere, Lane, vars
<1>2. PendingActions' = PendingActions
  <2>1. CASE Tick
    <3>1. /\ DOMAIN pending' = DOMAIN pending
          /\ \A i \in DOMAIN pending : pending'[i].a = pending[i].a
      BY <2>1, TickFields
    <3> QED BY <3>1 DEF PendingActions
  <2>2. CASE UNCHANGED pending
    BY <2>2 DEF PendingActions
  <2> QED BY <2>1, <2>2, SubmissionFrame, ReleaseFrame, CloseFrame DEF Elsewhere, Lane, queue, vars
<1>3. DirectsOf(inbox) \subseteq DirectsOf(inbox')
  BY CommandsStay
<1> QED
  BY <1>1, <1>2, <1>3 DEF Carried, InHands, DirectsOf

LEMMA CarriesOn == \A a : Carries(a) => Carried(a)'
BY DEF Carries, Carried, InHands, PendingActions, ActionsOf, DirectsOf, ToSet

(* An action that is submitted is handed to the lane, or it is settled. *)
LEMMA SendsAttended ==
  ASSUME TypeOK, \A b \in Actions : RecordInv(b), NEW a \in Actions, Send(a)
  PROVE  /\ HasOwner(rec'[a]) => Carried(a)'
         /\ rec'[a].st # "absent"
<1>0. op \in [Actions -> Operations] /\ rec \in [Actions -> Records] /\ LaneType
  BY DEF TypeOK, OpsType
<1>1. rec[a].st \in {"notDispatched", "finished", "failed"}
  BY DEF Send, RecordInv
<1>2. fail # "none" => \A b \in Actions : rec[b].st \notin Effective
  BY NoneEffective
<1>3. CASE inbox' = Append(inbox, [k |-> "direct", a |-> a]) /\ UNCHANGED ops
  <2> DEFINE c == [k |-> "direct", a |-> a]
  <2>1. c \in Commands /\ c.k = "direct" /\ c.a = a /\ inbox' = Append(inbox, c)
    BY <1>3 DEF Commands
  <2> HIDE DEF c
  <2>2. a \in DirectsOf(inbox')
    BY <1>0, <2>1, CommandSets
  <2>3. DirectsOf(inbox)' = DirectsOf(inbox')
    BY DEF DirectsOf
  <2> QED BY <1>1, <1>3, <2>2, <2>3 DEF ops, Carried
<1>4. CASE \/ op' = AfterCancellation(op, {a}) /\ rec' = OwnersTaken({a}, "finished")
           \/ op' = AfterStrict(op, {a}) /\ rec' = StrictRecords({a}) /\ fail # "none"
  <2>1. (Keep(a) \/ Close(a)) /\ ~HasOwner(rec'[a])
    BY <1>0, <1>2, <1>4, OwnSettlements
  <2> QED BY <1>1, <2>1 DEF Keep, Close
<1> QED
  BY <1>3, <1>4 DEF Send

(* Every action that waits for an answer is attended after a step as before. *)
LEMMA AttendedKept ==
  ASSUME TypeOK, LaneInv, FailInv, QueueInv, ServingInv, DrainInv,
         \A b \in Actions : RecordInv(b) /\ AttendedInv(b), [Next]_vars
  PROVE  \A b \in Actions : AttendedInv(b)'
<1>0. SUFFICES ASSUME NEW b \in Actions PROVE AttendedInv(b)'
  OBVIOUS
<1>1. CASE LaneNext
  <2>1. /\ HasOwner(rec'[b]) => HasOwner(rec[b])
        /\ rec[b].st # "absent" => rec'[b].st # "absent"
    BY <1>1, OwnersStay
  <2>2. sub' = sub
    BY <1>1, LaneFrame DEF users
  <2>3. ~Panicked
    BY <1>1, LaneLives DEF LaneAlive, Panicked
  <2>4. CASE LanePanics
    <3>1. Panicked'
      BY <2>4, ClosePlaces DEF Over, Panicked
    <3> QED BY <2>1, <2>2, <3>1 DEF AttendedInv, Attended, Placed, HasOwner
  <2>5. CASE ~LanePanics
    <3>1. Carried(b) /\ HasOwner(rec'[b]) => Carried(b)'
      BY <1>1, <2>5, LaneCarries, CarriesOn
    <3> QED BY <2>1, <2>2, <2>3, <3>1 DEF AttendedInv, Attended, Placed, HasOwner
  <2> QED BY <2>4, <2>5
<1>2. CASE Elsewhere
  <2>1. Carried(b) => Carried(b)'
    BY <1>2, CarriedOn
  <2>2. Panicked => Panicked'
    <3>1. CASE Tick
      BY <3>1 DEF Tick, LaneAlive, Panicked
    <3> QED BY <1>2, <3>1, SubmissionFrame, ReleaseFrame, CloseFrame DEF Elsewhere, Lane, vars, Panicked
  <2>3. ASSUME HasOwner(rec'[b]) => HasOwner(rec[b]), rec[b].st # "absent" => rec'[b].st # "absent",
               sub'[b] \in Placed => sub[b] \in Placed, sub[b] = "created" => sub'[b] = "created"
        PROVE  AttendedInv(b)'
    BY <2>1, <2>2, <2>3 DEF AttendedInv, Attended, Placed, HasOwner
  <2>4. CASE ReleaseStep
    <3>1. sub' = sub
      BY <2>4, ReleaseFrame
    <3>2. /\ HasOwner(rec'[b]) => HasOwner(rec[b])
          /\ rec[b].st # "absent" => rec'[b].st # "absent"
      <4>1. CASE SealsQuietly
        BY <4>1 DEF SealsQuietly, OwnersSettled, Keep, Close, HasOwner
      <4>2. ASSUME NEW c \in Actions, SealTakes(c) \/ SealSettles(c)
            PROVE  /\ HasOwner(rec'[b]) => HasOwner(rec[b])
                   /\ rec[b].st # "absent" => rec'[b].st # "absent"
        BY <4>2 DEF SealTakes, SealSettles, Only, Moves, Keep, HasOwner
      <4> QED BY <2>4, <4>1, <4>2, ReleaseSteps
    <3> QED BY <2>3, <3>1, <3>2
  <2>5. CASE CloseStep
    <3>1. sub' = sub
      BY <2>5, CloseFrame
    <3>2. /\ HasOwner(rec'[b]) => HasOwner(rec[b])
          /\ rec[b].st # "absent" => rec'[b].st # "absent"
      BY <2>5, CloseSteps DEF Keep, HasOwner
    <3> QED BY <2>3, <3>1, <3>2
  <2>6. CASE Tick \/ UNCHANGED vars
    <3>1. sub' = sub /\ rec' = rec
      BY <2>6 DEF Tick, vars, users, ops
    <3> QED BY <2>3, <3>1
  <2>7. ASSUME NEW a \in Actions, Submission(a) \/ CancelAction(a)
        PROVE  AttendedInv(b)'
    <3>0. sub \in [Actions -> SubPlaces]
      BY DEF TypeOK, UsersType
    <3>1. Submits(a)
      BY <2>7, SubmissionSteps
    <3>2. CASE b # a
      <4>1. sub'[b] = sub[b]
        BY <3>0, <3>1, <3>2, SubmissionPlaces
      <4>2. rec'[b] = rec[b]
        BY <3>1, <3>2 DEF Submits, Only, Keep
      <4> QED BY <2>3, <4>1, <4>2
    <3>3. CASE b = a /\ Send(a)
      <4>1. (HasOwner(rec'[a]) => Carried(a)') /\ rec'[a].st # "absent"
        BY <3>3, SendsAttended
      <4> QED BY <3>3, <4>1 DEF AttendedInv, Attended, HasOwner
    <3>4. CASE b = a /\ ~Send(a)
      <4>1. \A to : sub' = [sub EXCEPT ![a] = to] => sub'[a] = to
        BY <3>0
      <4>2. \/ Reserves(a) \/ Creates(a) \/ Sends(a) \/ Resolves(a) \/ Rejects(a) \/ Others(a)
        BY <3>1 DEF Submits
      <4>3. CASE Reserves(a)
        BY <2>3, <3>4, <4>1, <4>3 DEF Reserves, SubGoes, Placed, Keep
      <4>4. CASE Creates(a)
        <5>1. CASE Keep(a)
          BY <2>3, <3>4, <4>1, <4>4, <5>1 DEF Creates, SubGoes, Placed, Keep, Refused, Moves
        <5>2. CASE Moves(a, "absent", "notDispatched") /\ sub'[a] = "created"
          BY <3>4, <5>2 DEF Moves, AttendedInv, Attended, Placed, HasOwner
        <5> QED BY <4>1, <4>4, <5>1, <5>2 DEF Creates, SubGoes
      <4>5. sub[a] # "created"
        BY <2>7, <3>4 DEF Submission, Reserve, Create, Resolve, Reject, CancelDispatched,
           WakeLane, CancelAction
      <4>6. CASE Resolves(a)
        BY <2>3, <3>4, <4>1, <4>6 DEF Resolves, SubGoes, Placed, Keep, Moves, HasOwner
      <4>7. CASE Rejects(a)
        BY <2>3, <3>4, <4>1, <4>7 DEF Rejects, SubGoes, Placed
      <4>8. CASE Others(a)
        BY <2>3, <3>4, <4>1, <4>8 DEF Others, SubGoes, Placed, Keep, Close, HasOwner
      <4> QED BY <4>2, <4>3, <4>4, <4>5, <4>6, <4>7, <4>8 DEF Sends, SubGoes
    <3> QED BY <3>2, <3>3, <3>4
  <2> QED BY <1>2, <2>4, <2>5, <2>6, <2>7 DEF Elsewhere, SubmissionStep
<1> QED
  BY <1>1, <1>2, StepCases DEF Elsewhere

-----------------------------------------------------------------------------
(* The close and its command                                                 *)

(* The closing thread goes on in one direction.                              *)
LEMMA CloseGoesOn ==
  CloseStep => /\ closer' # "idle"
               /\ ResourceCancelled => ResourceCancelled'
               /\ closer' = "joining" => SendClose
BY DEF CloseStep, CloseNext, CloseIntent, CloseInterrupt, CancelResource, SendClose,
       JoinLane, RecordOwnershipLoss, ResourceCancelled

(* While others take a step the lane stays where it is.                      *)
LEMMA LaneWaits ==
  ASSUME TypeOK, Elsewhere
  PROVE  /\ lane'.pc = lane.pc /\ lane'.cur = lane.cur /\ lane'.held = lane.held
         /\ lane'.closing = lane.closing /\ cleanup'.on = cleanup.on
         /\ LaneAlive' <=> LaneAlive
         /\ pending' = << >> <=> pending = << >>
<1>1. CASE Tick
  <2>1. /\ lane'.pc = lane.pc /\ lane'.cur = lane.cur /\ lane'.held = lane.held
        /\ lane'.closing = lane.closing
    BY <1>1 DEF Tick, TypeOK, LaneType, Lanes
  <2>2. cleanup'.on = cleanup.on
    BY <1>1, TickFields
  <2>3. pending \in Seq(Queued) /\ pending' \in Seq(Queued) /\ DOMAIN pending' = DOMAIN pending
    BY <1>1, TickFields DEF TypeOK, LaneType
  <2>4. \A s \in Seq(Queued) : s = << >> <=> DOMAIN s = {}
    <3> TAKE s \in Seq(Queued)
    <3>1. DOMAIN s = 1..Len(s) /\ Len(s) \in Nat
      BY LenProperties
    <3>2. ASSUME NEW n \in Nat
          PROVE  1..n = {} <=> n = 0
      <4>1. n # 0 => 1 \in 1..n
        OBVIOUS
      <4>2. n = 0 => 1..n = {}
        OBVIOUS
      <4> QED BY <4>1, <4>2
    <3> QED BY <3>1, <3>2, EmptySeq
  <2> QED BY <2>1, <2>2, <2>3, <2>4 DEF LaneAlive
<1> QED
  BY <1>1, SubmissionFrame, ReleaseFrame, CloseFrame DEF Elsewhere, Lane, queue, vars, LaneAlive

(* Outside its own close a lane neither ends nor closes, and a lane that     *)
(* closes takes nothing more.                                                *)
LEMMA LaneDrains ==
  ASSUME TypeOK, LaneInv, LaneNext, ~CloseLane, ~Collect, ~SealAfterFailure, ~CloseStream,
         ~FailHeld, ~SettleStream, ~LanePanics
  PROVE  /\ lane'.closing = lane.closing
         /\ lane'.pc \notin {"collect", "closeSettle", "ended", "panicked"}
         /\ lane.closing => /\ lane.pc \in {"write", "released", "wait"}
                            /\ pending' = pending /\ inbox' = inbox
         /\ lane'.pc = "close" => HandleClose \/ Await
<1>1. CASE \/ Top \/ Observe \/ NoRelease \/ StartRelease \/ HandleDirect \/ HandleBegin
           \/ HandleClose \/ Woken \/ Await \/ FinishSuccess
           \/ MarkDispatched \/ ClaimAccepted \/ CompleteClaim
  BY <1>1, RunPlaces DEF Goes, Holds, LaneInv, Closes
<1>2. CASE Dispatch
  BY <1>2, RunPlaces DEF Goes, Holds, LaneInv, Closes
<1>3. CASE AcceptReport \/ WriteReportFails \/ AcceptNeutral \/ WriteNeutralFails
  BY <1>3, WritePlaces DEF Goes, LaneInv, Closes
<1>4. CASE CleanupFails \/ AcceptRelease \/ AcceptFinal \/ WriteFinalFails
  <2>1. pending' = pending /\ inbox' = inbox
    BY <1>4 DEF CleanupFails, AcceptRelease, AcceptFinal, WriteFinalFails, queue
  <2> QED BY <1>4, <2>1, WritePlaces DEF Goes, LaneInv, Closes
<1>5. CASE CompleteRelease \/ WriteReleaseFails
  <2>1. pending' = pending /\ inbox' = inbox
    BY <1>5 DEF CompleteRelease, WriteReleaseFails
  <2> QED BY <1>5, <2>1, WritePlaces DEF Holds, LaneInv, Closes
<1>6. CASE WriteFinal
  <2>1. pending' = pending /\ inbox' = inbox
    BY <1>6 DEF WriteFinal
  <2> QED BY <1>6, <2>1, ClosePlaces DEF Holds, LaneInv, Closes
<1> QED
  BY <1>1, <1>2, <1>3, <1>4, <1>5, <1>6 DEF LaneNext

(* What a closing lane has collected it holds, and nothing new comes.        *)
LEMMA DrainKept ==
  ASSUME TypeOK, LaneInv, ReleaseInv, DrainInv, CommandInv, [Next]_vars
  PROVE  DrainInv'
<1>0. lane \in Lanes /\ DirectsOf(<< >>) = {}
  BY QueueSets DEF TypeOK, LaneType
<1>1. CASE Elsewhere
  <2>1. /\ lane'.pc = lane.pc /\ lane'.held = lane.held /\ lane'.closing = lane.closing
        /\ cleanup'.on = cleanup.on /\ (pending' = << >> <=> pending = << >>)
    BY <1>1, LaneWaits
  <2>2. lane.closing => DirectsOf(inbox') = DirectsOf(inbox)
    BY <1>1, CommandsStay DEF CommandInv, Closing
  <2>3. lane.pc = "ended" => inbox' = inbox
    BY <1>1, CommandsStay DEF LaneAlive
  <2>4. DirectsOf(inbox)' = DirectsOf(inbox')
    BY DEF DirectsOf
  <2> QED BY <2>1, <2>2, <2>3, <2>4 DEF DrainInv
<1>2. CASE CloseLane
  <2>1. lane'.pc = "collect" /\ lane'.closing
    BY <1>0, <1>2 DEF CloseLane, Lanes
  <2> QED BY <2>1 DEF DrainInv
<1>3. CASE Collect
  <2>1. lane'.pc \in {"wait", "closeStream"} /\ lane'.closing
    BY <1>3, ClosePlaces DEF Holds, LaneInv, Closes
  <2>2. pending' = << >> /\ inbox' = << >>
    BY <1>3 DEF Collect
  <2>3. DirectsOf(inbox)' = {}
    BY <1>0, <2>2 DEF DirectsOf
  <2> QED BY <2>1, <2>2, <2>3 DEF DrainInv
<1>4. CASE SealAfterFailure
  <2>1. pending' = << >> /\ inbox' = inbox
    BY <1>4 DEF SealAfterFailure
  <2>2. /\ lane'.pc \in {"closeFailed", "closeStream", "sleep", "dispatch"}
        /\ lane'.closing <=> lane.closing
    <3>1. lane.closing \in BOOLEAN
      BY <1>0 DEF Lanes
    <3>2. CASE lane.cur.kind = "stream"
      BY <1>4, <3>1, <3>2, WritePlaces DEF Holds, LaneInv
    <3>3. CASE lane.cur.kind # "stream" /\ lane.closing
      BY <1>4, <3>1, <3>3, WritePlaces DEF Holds
    <3>4. CASE lane.cur.kind # "stream" /\ ~lane.closing
      BY <1>4, <3>1, <3>4, WritePlaces DEF Holds
    <3> QED BY <3>2, <3>3, <3>4
  <2>3. lane'.held = lane.held
    BY <1>0, <1>4 DEF SealAfterFailure, Lanes
  <2>4. lane.pc = "failing" /\ DirectsOf(inbox)' = DirectsOf(inbox)
    BY <1>4, <2>1 DEF SealAfterFailure, Here, DirectsOf
  <2> QED BY <2>1, <2>2, <2>3, <2>4 DEF DrainInv
<1>5. CASE CloseStream
  <2>1. pending' = pending /\ inbox' = inbox /\ lane.pc = "closeStream"
    BY <1>5 DEF CloseStream, Here
  <2>2. \/ lane'.held = {} /\ lane'.pc = "closeSettle"
        \/ lane'.held = lane.held /\ lane'.pc = "failing"
    BY <1>0, <1>5 DEF CloseStream, Lanes
  <2>3. lane.closing /\ lane'.closing
    BY <1>5, <2>1, ClosePlaces DEF Holds, LaneInv, Closes
  <2>4. DirectsOf(inbox)' = DirectsOf(inbox)
    BY <2>1 DEF DirectsOf
  <2> QED BY <2>1, <2>2, <2>3, <2>4 DEF DrainInv
<1>6. CASE SettleStream
  <2>1. lane'.pc = "ended" /\ ~lane'.closing /\ lane'.held = {} /\ inbox' = << >>
    BY <1>6 DEF SettleStream, Ended
  <2>2. pending' = pending /\ lane.pc = "closeSettle"
    BY <1>6 DEF SettleStream, Here, queue
  <2>3. cleanup' = cleanup
    BY <1>6 DEF SettleStream, queue
  <2> QED BY <2>1, <2>2, <2>3 DEF DrainInv, LaneInv, ReleaseInv, Closes
<1>7. CASE LanePanics
  <2>1. lane'.pc = "panicked" /\ ~lane'.closing /\ lane'.held = {}
    BY <1>7 DEF LanePanics, Ended
  <2> QED BY <2>1 DEF DrainInv
<1>8. CASE LaneNext /\ ~(\/ CloseLane \/ Collect \/ SealAfterFailure \/ CloseStream
                         \/ FailHeld \/ SettleStream \/ LanePanics)
  <2>1. lane'.held = lane.held
    BY <1>8, HeldStays DEF LaneNext
  <2>2. /\ lane'.closing = lane.closing
        /\ lane'.pc \notin {"collect", "closeSettle", "ended", "panicked"}
        /\ lane.closing => /\ lane.pc \in {"write", "released", "wait"}
                           /\ pending' = pending /\ inbox' = inbox
    BY <1>8, LaneDrains
  <2> QED BY <2>1, <2>2 DEF DrainInv, DirectsOf
<1>9. CASE FailHeld
  <2>1. /\ pending' = pending /\ inbox' = inbox /\ lane.pc = "closeFailed"
        /\ lane'.held = {} /\ lane'.pc = "closeSettle"
    BY <1>0, <1>9 DEF FailHeld, Here, Lanes, queue
  <2>2. lane.closing /\ lane'.closing
    BY <1>9, <2>1, ClosePlaces DEF Holds, LaneInv, Closes
  <2>3. DirectsOf(inbox)' = DirectsOf(inbox)
    BY <2>1 DEF DirectsOf
  <2> QED BY <2>1, <2>2, <2>3 DEF DrainInv
<1> QED
  BY <1>1, <1>2, <1>3, <1>4, <1>5, <1>6, <1>7, <1>8, <1>9, StepCases DEF Elsewhere

(* The command of the close is sent once its time has come, and is not lost. *)
LEMMA CommandKept ==
  ASSUME TypeOK, LaneInv, CommandInv, [Next]_vars
  PROVE  CommandInv'
<1>0. lane \in Lanes /\ LaneType
  BY DEF TypeOK, LaneType
<1>1. CASE Elsewhere
  <2>1. /\ lane'.pc = lane.pc /\ lane'.closing = lane.closing
        /\ LaneAlive' <=> LaneAlive
    BY <1>1, LaneWaits
  <2>2. (CloseComes => CloseComes') /\ (CloseComes' => CloseComes \/ SendClose)
    BY <1>1, CommandsStay
  <2>3. CASE CloseStep
    <3>1. SendClose /\ LaneAlive => CloseComes'
      <4> SUFFICES ASSUME SendClose, LaneAlive PROVE CloseComes'
        OBVIOUS
      <4> DEFINE c == [k |-> "close", a |-> "none"]
      <4>1. c \in Commands /\ c.k = "close" /\ inbox' = Append(inbox, c)
        BY DEF SendClose, Commands
      <4> HIDE DEF c
      <4> QED BY <1>0, <4>1, CommandSets, CommandThere
    <3> QED BY <2>1, <2>2, <2>3, <3>1, CloseGoesOn DEF CommandInv
  <2>4. CASE ~CloseStep
    <3>1. closer' = closer
      BY <1>1, <2>4, SubmissionFrame, ReleaseFrame DEF Elsewhere, Tick, vars, users
    <3>2. SendClose => CloseStep
      BY DEF CloseStep, CloseNext
    <3> QED BY <2>1, <2>2, <2>4, <3>1, <3>2 DEF CommandInv, ResourceCancelled
  <2> QED BY <2>3, <2>4
<1>2. CASE LaneNext
  <2>1. closer' = closer /\ LaneAlive
    BY <1>2, LaneFrame, LaneLives DEF users
  <2>2. CloseComes' => CloseComes
    <3>1. Drawn(inbox', inbox)
      BY <1>0, <1>2, InboxDrawn
    <3> QED BY <3>1 DEF Drawn, CloseComes
  <2>3. CASE HandleClose \/ Await
    <3>1. CloseComes
      <4>1. CASE HandleClose
        <5>1. Has(inbox, "close")
          BY <1>0, <4>1, CommandSets DEF HandleClose, Take
        <5> QED BY <5>1, CommandThere
      <4>2. CASE Await
        BY <4>2 DEF Await, CloseComes
      <4> QED BY <2>3, <4>1, <4>2
    <3>2. lane'.pc = "close"
      BY <2>3, RunPlaces DEF Goes
    <3> QED BY <2>1, <3>1, <3>2 DEF CommandInv
  <2>4. CASE CloseLane \/ Collect \/ SealAfterFailure \/ CloseStream \/ FailHeld
    <3>1. \/ /\ lane'.closing /\ lane'.pc \notin {"close", "await"}
             /\ lane.closing \/ lane.pc = "close"
          \/ /\ ~lane'.closing /\ ~lane.closing /\ lane'.pc \in {"sleep", "dispatch"}
             /\ lane.pc # "close" /\ SealAfterFailure
      <4>1. CASE CloseLane \/ Collect \/ CloseStream \/ FailHeld
        BY <4>1, ClosePlaces DEF Holds, LaneInv, Closes
      <4>2. CASE SealAfterFailure /\ lane.closing
        <5>1. lane'.closing /\ lane'.pc \in {"closeFailed", "closeStream"}
          BY <4>2, WritePlaces DEF Holds
        <5> QED BY <4>2, <5>1
      <4>3. CASE SealAfterFailure /\ ~lane.closing
        <5>1. /\ lane.pc = "failing" /\ ~lane'.closing
              /\ lane.cur.kind # "stream"
          BY <4>3, WritePlaces DEF Holds, LaneInv
        <5>2. lane'.pc \in {"sleep", "dispatch"}
          BY <4>3, <5>1, WritePlaces DEF Holds
        <5> QED BY <4>3, <5>1, <5>2
      <4> QED BY <2>4, <4>1, <4>2, <4>3
    <3>2. SealAfterFailure => inbox' = inbox
      BY DEF SealAfterFailure
    <3> QED BY <2>1, <2>2, <3>1, <3>2 DEF CommandInv, CloseComes
  <2>5. CASE SettleStream \/ LanePanics
    <3>1. lane'.pc \in {"ended", "panicked"} /\ ~lane'.closing
      BY <2>5, ClosePlaces DEF Over
    <3> QED BY <2>1, <2>2, <3>1 DEF CommandInv, LaneAlive
  <2>6. CASE ~(\/ HandleClose \/ Await \/ CloseLane \/ Collect \/ SealAfterFailure \/ CloseStream
               \/ FailHeld \/ SettleStream \/ LanePanics)
    <3>1. /\ lane'.closing = lane.closing
          /\ lane'.pc \notin {"collect", "closeSettle", "ended", "panicked", "close"}
      BY <1>2, <2>6, LaneDrains
    <3>2. lane.pc # "close"
      <4>1. \/ Top \/ Observe \/ Dispatch \/ MarkDispatched
            \/ AcceptReport \/ ClaimAccepted \/ CompleteClaim \/ FinishSuccess
            \/ WriteReportFails \/ AcceptNeutral \/ WriteNeutralFails \/ CleanupFails
            \/ NoRelease \/ StartRelease \/ AcceptRelease
            \/ CompleteRelease \/ WriteReleaseFails
            \/ HandleDirect \/ HandleBegin \/ Woken
            \/ WriteFinal \/ AcceptFinal \/ WriteFinalFails
        BY <1>2, <2>6 DEF LaneNext
      <4> QED BY <4>1, RunPlaces, WritePlaces, ClosePlaces
    <3>3. CloseComes => CloseComes'
      <4>1. CASE HandleDirect \/ HandleBegin
        <5>1. inbox # << >> /\ Head(inbox).k # "close" /\ inbox' = Tail(inbox)
          BY <4>1 DEF HandleDirect, HandleBegin, Take
        <5>2. Has(inbox, "close") <=> Has(inbox', "close")
          BY <1>0, <5>1, CommandSets
        <5> QED BY <5>2, CommandThere
      <4>2. CASE ~(HandleDirect \/ HandleBegin)
        <5>1. inbox' = inbox
          BY <1>2, <2>6, <4>2 DEF LaneNext, Top, Observe, Dispatch, MarkDispatched, AcceptReport,
             ClaimAccepted, CompleteClaim, FinishSuccess, WriteReportFails, AcceptNeutral,
             WriteNeutralFails, CleanupFails, NoRelease, StartRelease, AcceptRelease,
             CompleteRelease, WriteReleaseFails, Woken, WriteFinal, AcceptFinal, WriteFinalFails
        <5> QED BY <5>1 DEF CloseComes
      <4> QED BY <4>1, <4>2
    <3>4. lane'.pc = "await" => ResourceCancelled
      <4>1. lane'.pc = "await" => Top
        BY <1>2, <2>6, RunPlaces, WritePlaces, ClosePlaces DEF LaneNext, Goes, Holds
      <4>2. Top /\ lane'.pc = "await" => ResourceCancelled
        BY <1>0 DEF Top, Goto, Lanes
      <4> QED BY <4>1, <4>2
    <3> QED BY <2>1, <2>2, <3>1, <3>2, <3>3, <3>4 DEF CommandInv, ResourceCancelled, LaneAlive
  <2> QED BY <2>3, <2>4, <2>5, <2>6
<1> QED
  BY <1>1, <1>2, StepCases DEF Elsewhere

-----------------------------------------------------------------------------
(* The release and who knows of it                                           *)

(* A release that ends is committed. *)
LEMMA CompleteCommits ==
  ASSUME rel \in Releases, rel.st # "none"
  PROVE  /\ \A o \in Outs : rel' = Complete(rel, o) => rel'.st = "committed"
         /\ \A o \in Outs : rel' = Complete(Interrupt(rel), o) => rel'.st = "committed"
BY RelFields DEF Commits

(* Where the lane neither begins nor ends anything of the release.           *)
Passing ==
  \/ Top \/ Observe \/ Dispatch \/ MarkDispatched \/ AcceptReport \/ ClaimAccepted
  \/ CompleteClaim \/ FinishSuccess \/ WriteReportFails \/ AcceptNeutral
  \/ WriteNeutralFails \/ NoRelease \/ HandleDirect \/ HandleClose \/ Woken \/ Await
  \/ CloseLane \/ AcceptFinal \/ WriteFinalFails \/ CloseStream \/ FailHeld

LEMMA PassingTells ==
  ASSUME TypeOK, Passing, Told
  PROVE  Told'
<1>0. LaneType
  BY DEF TypeOK
<1>1. cleanup' = cleanup
  BY DEF Passing, Top, Observe, Dispatch, MarkDispatched, AcceptReport, ClaimAccepted,
     CompleteClaim, FinishSuccess, WriteReportFails, AcceptNeutral, WriteNeutralFails,
     NoRelease, HandleDirect, HandleClose, Woken, Await, CloseLane, AcceptFinal,
     WriteFinalFails, CloseStream, FailHeld, queue
<1>2. Begins => Begins'
  <2>1. CASE HandleDirect \/ HandleClose
    <3>1. inbox # << >> /\ Head(inbox).k # "begin" /\ inbox' = Tail(inbox)
      BY <2>1 DEF HandleDirect, HandleClose, Take
    <3>2. Has(inbox, "begin") <=> Has(inbox', "begin")
      BY <1>0, <3>1, CommandSets
    <3> QED BY <3>2, CommandThere
  <2>2. CASE Await
    <3>1. inbox' = Kept(inbox, {c \in ToSet(inbox) : c.k # "close"})
      BY <2>2 DEF Await
    <3>2. Has(inbox, "begin") => Has(inbox', "begin")
      BY <1>0, <3>1, CommandSets
    <3> QED BY <3>2, CommandThere
  <2>3. CASE ~(HandleDirect \/ HandleClose \/ Await)
    <3>1. inbox' = inbox
      BY <2>3 DEF Passing, Top, Observe, Dispatch, MarkDispatched, AcceptReport, ClaimAccepted,
         CompleteClaim, FinishSuccess, WriteReportFails, AcceptNeutral, WriteNeutralFails,
         NoRelease, Woken, CloseLane, AcceptFinal, WriteFinalFails, CloseStream, FailHeld
    <3> QED BY <3>1 DEF Begins
  <2> QED BY <2>1, <2>2, <2>3
<1>3. /\ lane.pc \notin {"released", "failing", "panicked"}
      /\ lane.pc = "write" => lane.cur.kind # "release"
  <2>1. CASE \/ Top \/ Observe \/ Dispatch \/ MarkDispatched \/ ClaimAccepted \/ CompleteClaim
             \/ FinishSuccess \/ NoRelease \/ HandleDirect \/ HandleClose \/ Woken \/ Await
    BY <2>1, RunPlaces
  <2>2. CASE \/ AcceptReport \/ WriteReportFails \/ AcceptNeutral \/ WriteNeutralFails
             \/ AcceptFinal \/ WriteFinalFails
    BY <2>2, WritePlaces
  <2>3. CASE CloseLane \/ CloseStream \/ FailHeld
    BY <2>3, ClosePlaces
  <2> QED BY <2>1, <2>2, <2>3 DEF Passing
<1> QED
  BY <1>1, <1>2, <1>3 DEF Told, Panicked

(* The lane that knows of a release passes it on from one place to the next  *)
(* until it is committed.                                                    *)
LEMMA LaneTells ==
  ASSUME TypeOK, LaneInv, FailInv, ToldInv, LaneNext, releaser.pc = "done",
         rel.st \notin {"none", "committed"}
  PROVE  rel'.st = "committed" \/ Told'
<1>0. /\ rel \in Releases /\ lane \in Lanes /\ LaneType /\ Told
      /\ "accepted" \in Outs /\ "notDelivered" \in Outs /\ "err" \in Outs
  BY DEF TypeOK, UsersType, LaneType, ToldInv, Outs
<1>1. CASE Passing
  BY <1>0, <1>1, PassingTells
<1>2. CASE HandleBegin
  <2>1. CASE fail # "none"
    BY <1>0, <1>2, <2>1, CompleteCommits DEF HandleBegin
  <2>2. CASE fail = "none"
    <3>1. cleanup' = [on |-> TRUE, target |-> Paced]
      BY <1>2, <2>2 DEF HandleBegin
    <3>2. cleanup'.on
      BY <3>1
    <3> QED BY <3>2 DEF Told
  <2> QED BY <2>1, <2>2
<1>3. CASE Collect
  <2> DEFINE begins == \E c \in ToSet(inbox) : c.k = "begin"
             own == cleanup.on \/ (begins /\ lease = "automation")
             r == IF own \/ begins THEN Interrupt(rel) ELSE rel
  <2>1. /\ rel' = IF begins /\ ~own THEN Complete(r, "notDelivered") ELSE r
        /\ cleanup' = [on |-> own, target |-> 0]
    BY <1>3 DEF Collect
  <2>2. begins <=> Begins
    BY CommandThere DEF Has
  <2>3. CASE own
    <3> HIDE DEF own
    <3>1. cleanup'.on
      BY <2>1, <2>3
    <3> QED BY <3>1 DEF Told
  <2>4. CASE ~own /\ begins
    <3>1. rel' = Complete(Interrupt(rel), "notDelivered")
      BY <2>1, <2>4
    <3> QED BY <1>0, <3>1, CompleteCommits
  <2>5. CASE ~own /\ ~begins
    <3>1. lane.pc \in {"collect", "wait"}
      BY <1>3 DEF Collect
    <3> QED BY <1>0, <2>2, <2>5, <3>1 DEF Told, Panicked
  <2> QED BY <2>3, <2>4, <2>5
<1>4. CASE SettleStream
  <2>1. lane.pc = "closeSettle"
    BY <1>4 DEF SettleStream, Here
  <2>2. registry.tracked /\ registry.projection # "lost"
    BY <2>1 DEF ToldInv, LaneInv, LaneAlive
  <2>3. rel' = Complete(rel, "notDelivered")
    BY <1>4, <2>2 DEF SettleStream
  <2> QED BY <1>0, <2>3, CompleteCommits
<1>5. CASE LanePanics
  BY <1>5, ClosePlaces DEF Over, Told, Panicked
<1>6. CASE StartRelease
  <2>1. CASE conn = "connected"
    <3>1. lane' = [lane EXCEPT !.pc = "write", !.cur = NeutralFor("release")]
      BY <1>6, <2>1 DEF StartRelease
    <3>2. lane'.pc = "write" /\ lane'.cur.kind = "release"
      BY <1>0, <3>1, EntryFields DEF Lanes
    <3> QED BY <3>2 DEF Told
  <2>2. CASE conn # "connected"
    <3>1. rel' = Complete(rel, "notDelivered")
      BY <1>6, <2>2 DEF StartRelease
    <3> QED BY <1>0, <3>1, CompleteCommits
  <2> QED BY <2>1, <2>2
<1>7. CASE WriteFinal
  <2>1. lane.pc = "wait" /\ inbox = << >>
    BY <1>7 DEF WriteFinal, Here
  <2>2. ~Begins
    BY <1>0, <2>1, CommandSets, CommandThere
  <2>3. cleanup.on
    BY <1>0, <2>1, <2>2 DEF Told, Panicked
  <2>4. CASE lane.connected
    <3>1. lane' = [lane EXCEPT !.pc = "write", !.cur = NeutralFor("release")]
      BY <1>7, <2>3, <2>4 DEF WriteFinal
    <3>2. lane'.pc = "write" /\ lane'.cur.kind = "release"
      BY <1>0, <3>1, EntryFields DEF Lanes
    <3> QED BY <3>2 DEF Told
  <2>5. CASE ~lane.connected
    <3>1. rel' = Complete(Interrupt(rel), "notDelivered")
      BY <1>7, <2>3, <2>5 DEF WriteFinal
    <3> QED BY <1>0, <3>1, CompleteCommits
  <2> QED BY <2>4, <2>5
<1>8. CASE SealAfterFailure
  <2>1. registry.tracked
    BY DEF ToldInv
  <2>2. rel' = Complete(rel, "err")
    BY <1>8, <2>1 DEF SealAfterFailure
  <2> QED BY <1>0, <2>2, CompleteCommits
<1>9. CASE AcceptRelease
  BY <1>9, WritePlaces DEF Goes, Told
<1>10. CASE CompleteRelease
  <2>1. rel' = Complete(rel, "accepted")
    BY <1>10 DEF CompleteRelease
  <2> QED BY <1>0, <2>1, CompleteCommits
<1>11. CASE WriteReleaseFails
  <2>1. rel' = Complete(rel, "notDelivered")
    BY <1>11 DEF WriteReleaseFails
  <2> QED BY <1>0, <2>1, CompleteCommits
<1>12. CASE CleanupFails
  <2>1. lane.pc = "write" /\ lane'.pc = "failing" /\ lane'.cur = lane.cur
    BY <1>12, WritePlaces DEF Goes
  <2>2. inbox' = inbox /\ cleanup' = cleanup
    BY <1>12 DEF CleanupFails, queue
  <2> QED BY <1>0, <2>1, <2>2 DEF Told, Panicked, Begins
<1> QED
  BY <1>1, <1>2, <1>3, <1>4, <1>5, <1>6, <1>7, <1>8, <1>9, <1>10, <1>11, <1>12
     DEF LaneNext, Passing

(* What is tracked stays so; only a closing thread that took over loses the  *)
(* projection.                                                               *)
LEMMA RegistrySteps ==
  ASSUME TypeOK, [Next]_vars
  PROVE  /\ registry.tracked => registry'.tracked
         /\ registry'.projection = "lost" => registry.projection = "lost" \/ closer' = "done"
<1>0. registry \in Registries
  BY DEF TypeOK, UsersType
<1>1. CASE SubmissionStep \/ Tick \/ UNCHANGED vars
  BY <1>1, SubmissionFrame DEF Tick, vars
<1>2. CASE ReleaseStep
  BY <1>0, <1>2 DEF ReleaseStep, ReleaseNext, SealGeneration, ReadFailure, VisitSealed,
     TakeUndispatched, SettleUndispatched, Track, SendBegin, Registries
<1>3. CASE CloseStep
  <2>1. CASE CloseInterrupt
    BY <1>0, <2>1 DEF CloseInterrupt, Registries
  <2>2. CASE RecordOwnershipLoss
    BY <1>0, <2>2 DEF RecordOwnershipLoss, Registries
  <2>3. CASE CloseIntent \/ CancelResource \/ SendClose \/ JoinLane
    BY <2>3 DEF CloseIntent, CancelResource, SendClose, JoinLane
  <2> QED BY <1>3, <2>1, <2>2, <2>3 DEF CloseStep, CloseNext
<1>4. CASE LaneNext
  <2>1. CASE CloseLane
    BY <1>0, <2>1 DEF CloseLane, Registries
  <2>2. CASE SettleStream
    BY <1>0, <2>2 DEF SettleStream, Registries
  <2>3. CASE SealAfterFailure
    BY <1>0, <2>3 DEF SealAfterFailure, Registries
  <2>4. CASE ~(CloseLane \/ SettleStream \/ SealAfterFailure)
    <3>1. registry' = registry
      BY <1>4, <2>4 DEF LaneNext, Top, Observe, Dispatch, MarkDispatched, AcceptReport,
         ClaimAccepted, CompleteClaim, FinishSuccess, WriteReportFails, AcceptNeutral,
         WriteNeutralFails, CleanupFails, NoRelease, StartRelease, AcceptRelease,
         CompleteRelease, WriteReleaseFails, HandleDirect, HandleBegin, HandleClose, Woken,
         Await, Collect, WriteFinal, AcceptFinal, WriteFinalFails, CloseStream, FailHeld,
         LanePanics
    <3> QED BY <3>1
  <2> QED BY <2>1, <2>2, <2>3, <2>4
<1> QED
  BY <1>1, <1>2, <1>3, <1>4, StepCases

(* Other threads take nothing from what the lane knows. *)
LEMMA ToldStays == ASSUME TypeOK, Elsewhere, Told PROVE Told'
<1>1. lane'.pc = lane.pc /\ lane'.cur = lane.cur /\ cleanup'.on = cleanup.on
  BY LaneWaits
<1>2. Begins => Begins'
  BY CommandsStay
<1> QED
  BY <1>1, <1>2 DEF Told, Panicked

(* A release stays with somebody who commits it. *)
LEMMA ToldKept ==
  ASSUME Inv, ToldInv, [Next]_vars
  PROVE  ToldInv'
<1>0. /\ releaser \in Releasers /\ registry \in Registries /\ rel \in Releases /\ LaneType
      /\ TypeOK /\ LaneInv /\ FailInv /\ GenInv
  BY DEF Inv, TypeOK, UsersType
<1>1. registry'.projection = "lost" => closer' = "done"
  <2>1. closer = "done" => closer' = "done"
    <3>1. CASE CloseStep
      BY <3>1, CloserSteps
    <3>2. CASE ~CloseStep
      BY <3>2, StepCases, SubmissionFrame, ReleaseFrame, LaneFrame DEF Tick, vars, users
    <3> QED BY <3>1, <3>2
  <2> QED BY <1>0, <2>1, RegistrySteps DEF ToldInv
<1>2. releaser'.pc \in {"tracked", "done"} => registry'.tracked
  <2>1. CASE ReleaseStep
    <3>1. CASE Track
      BY <1>0, <3>1 DEF Track, Registries
    <3>2. CASE SendBegin
      BY <1>0, <3>2, RegistrySteps DEF SendBegin, ToldInv
    <3>3. CASE ~Track /\ ~SendBegin
      <4>1. releaser'.pc \notin {"tracked", "done"}
        BY <1>0, <2>1, <3>3 DEF ReleaseStep, ReleaseNext, SealGeneration, ReadFailure,
           VisitSealed, TakeUndispatched, SettleUndispatched, Releasers
      <4> QED BY <4>1
    <3> QED BY <3>1, <3>2, <3>3
  <2>2. CASE ~ReleaseStep
    <3>1. releaser' = releaser
      BY <2>2, StepCases, SubmissionFrame, CloseFrame, LaneFrame DEF Tick, vars, users
    <3> QED BY <1>0, <3>1, RegistrySteps DEF ToldInv
  <2> QED BY <2>1, <2>2
<1>3. releaser'.pc = "done" /\ rel'.st # "committed" => Told'
  <2> SUFFICES ASSUME releaser'.pc = "done", rel'.st # "committed" PROVE Told'
    OBVIOUS
  <2>1. CASE ReleaseStep
    <3>1. releaser.pc \notin {"idle", "done"} /\ SendBegin
      BY <1>0, <2>1 DEF ReleaseStep, ReleaseNext, SealGeneration, ReadFailure, VisitSealed,
         TakeUndispatched, SettleUndispatched, Track, SendBegin, Releasers
    <3>2. rel.st # "none"
      BY <1>0, <3>1 DEF GenInv
    <3>3. rel' # Complete(rel, "err")
      BY <1>0, <3>2, CompleteCommits DEF Outs
    <3> DEFINE c == [k |-> "begin", a |-> "none"]
    <3>4. c \in Commands /\ c.k = "begin" /\ inbox' = Append(inbox, c)
      BY <3>1, <3>3 DEF SendBegin, Commands
    <3> HIDE DEF c
    <3>5. Begins'
      BY <1>0, <3>4, CommandSets, CommandThere
    <3> QED BY <3>5 DEF Told
  <2>2. CASE ~ReleaseStep
    <3>1. releaser' = releaser
      BY <2>2, StepCases, SubmissionFrame, CloseFrame, LaneFrame DEF Tick, vars, users
    <3>2. rel.st # "none"
      BY <1>0, <3>1 DEF GenInv
    <3>3. rel.st # "committed"
      BY ReleaseCommittedOnce
    <3>4. CASE LaneNext
      BY <1>0, <3>1, <3>2, <3>3, <3>4, LaneTells
    <3>5. CASE ~LaneNext
      <4>1. Elsewhere
        BY <3>5, StepCases DEF Elsewhere
      <4> QED BY <1>0, <3>1, <3>3, <4>1, ToldStays DEF ToldInv
    <3> QED BY <3>4, <3>5
  <2> QED BY <2>1, <2>2
<1> QED
  BY <1>1, <1>2, <1>3 DEF ToldInv

-----------------------------------------------------------------------------
(* A sleeping lane is woken                                                  *)

(* With an empty queue or none, the times a lane sleeps for are no reason    *)
(* to sleep for ever.                                                        *)
LEMMA TimerRuns ==
  ASSUME TypeOK
  PROVE  /\ (IF pending = << >> THEN Never ELSE pending[1].due) = Never => pending = << >>
         /\ Timer = Never => pending = << >> /\ ~(cleanup.on /\ ActionsSettled)
<1>0. /\ LaneType /\ cleanup.target \in 0..Interval /\ Interval \in Nat /\ Never = Interval + 1
  BY LaneAssumption DEF TypeOK, LaneType, LaneAssumption, Never
<1>1. pending # << >> => pending[1].due \in 0..Interval
  BY <1>0, QueueSets DEF Queued
<1>2. Timer = LET next == IF pending = << >> THEN Never ELSE pending[1].due
              IN  IF cleanup.on /\ ActionsSettled THEN Smaller(next, cleanup.target) ELSE next
  BY DEF Timer
<1> DEFINE next == IF pending = << >> THEN Never ELSE pending[1].due
<1>3. next = Never => pending = << >>
  BY <1>0, <1>1
<1>4. next \in Nat
  BY <1>0, <1>1
<1>5. Smaller(next, cleanup.target) # Never
  <2> HIDE DEF next
  <2> QED BY <1>0, <1>4 DEF Smaller
<1>6. Timer = IF cleanup.on /\ ActionsSettled THEN Smaller(next, cleanup.target) ELSE next
  BY <1>2
<1> HIDE DEF next
<1>7. Timer = Never => pending = << >> /\ ~(cleanup.on /\ ActionsSettled)
  BY <1>3, <1>5, <1>6
<1> QED
  BY <1>3, <1>7 DEF next

(* A submission that lets the actions of a sealed generation be settled      *)
(* wakes the lane, or will.                                                  *)
LEMMA SubmissionWakes ==
  ASSUME TypeOK, \A b \in Actions : RecordInv(b), LaneAlive, gen.sealed,
         NEW a \in Actions, Submission(a) \/ CancelAction(a),
         ActionsSettled', ActionsSettled => wake \/ Wakers # {}
  PROVE  wake' \/ Wakers' # {}
<1>0. /\ sub \in [Actions -> SubPlaces] /\ gen.actions \subseteq leased /\ leased \subseteq Actions
      /\ gen \in [sealed : BOOLEAN, actions : SUBSET Actions]
      /\ op \in [Actions -> Operations] /\ rec \in [Actions -> Records]
  BY DEF TypeOK, UsersType, OpsType
<1>1. leased' = leased
  BY SubmissionFrame DEF SubmissionStep
<1>2. \A b \in leased : sub'[b] \notin {"reserved", "created", "resolve", "refuse"}
  BY <1>1 DEF ActionsSettled, Reservations
<1>3. \A b \in gen'.actions : op'[b].outcome # "none"
  BY DEF ActionsSettled, IsTerminal
<1>4. ASSUME sub'[a] \in {"dispatched", "wakeRefused", "wakeDone"}
      PROVE  Wakers' # {}
  BY <1>4 DEF Wakers
<1>5. \A to : SubTo(a, to) => sub'[a] = to /\ \A b \in Actions \ {a} : sub'[b] = sub[b]
  BY <1>0 DEF SubTo
<1>6. CASE WakeLane(a) \/ CancelAction(a)
  BY <1>6 DEF WakeLane, CancelAction
<1>7. CASE Reject(a)
  BY <1>4, <1>5, <1>7 DEF Reject
<1>8. CASE CancelDispatched(a)
  BY <1>4, <1>5, <1>8 DEF CancelDispatched
<1>9. CASE Resolve(a)
  <2>1. a \in leased
    BY <1>9 DEF Resolve, RecordInv
  <2>2. CASE sub[a] = "refuse"
    BY <1>4, <1>5, <1>9, <2>2 DEF Resolve
  <2>3. CASE sub[a] = "resolve"
    <3>1. a \in gen'.actions /\ op' = op
      BY <1>0, <1>9, <2>3 DEF Resolve
    <3>2. op[a].outcome # "none"
      BY <1>3, <3>1
    <3>3. rec[a].st # "notDispatched"
      BY <3>2 DEF RecordInv
    <3>4. SubTo(a, "dispatched")
      BY <1>9, <2>3, <3>3 DEF Resolve
    <3> QED BY <1>4, <1>5, <3>4
  <2> QED BY <1>9, <2>2, <2>3 DEF Resolve
<1>10. CASE Reserve(a) \/ Create(a) \/ Send(a)
  <2>1. wake' = wake /\ gen' = gen
    BY <1>10 DEF Reserve, Create, Send
  <2>2. \A b \in Actions \ {a} : sub'[b] = sub[b]
    BY <1>5, <1>10 DEF Reserve, Create, Send, Admitted, Turned
  <2>3. \A b \in Actions \ {a} : op'[b] = op[b]
    BY <1>0, <1>10 DEF Reserve, Create, Send, ops, AfterStrict, AfterCancellation
  <2>4. sub[a] \in {"idle", "reserved", "created"}
    BY <1>10 DEF Reserve, Create, Send
  <2>5. CASE a \in leased
    <3>1. Reserve(a) /\ sub'[a] = "refused"
      <4>1. CASE Reserve(a)
        BY <1>2, <1>5, <2>5, <4>1 DEF Reserve
      <4>2. CASE Create(a)
        BY <1>2, <1>5, <2>5, <4>2 DEF Create
      <4>3. CASE Send(a)
        BY <1>2, <1>5, <2>5, <4>3 DEF Send, Admitted, Turned
      <4> QED BY <1>10, <4>1, <4>2, <4>3
    <3>2. op' = op /\ sub[a] = "idle"
      BY <3>1 DEF Reserve, ops
    <3>3. Reservations = {}
      BY <1>0, <1>2, <2>2, <3>2 DEF Reservations
    <3>4. ActionsSettled
      BY <1>3, <2>1, <3>2, <3>3 DEF ActionsSettled, IsTerminal
    <3>5. Wakers \subseteq Wakers'
      BY <2>2, <3>2 DEF Wakers
    <3> QED BY <2>1, <3>4, <3>5
  <2>6. CASE a \notin leased
    <3>1. Reservations = {}
      BY <1>0, <1>2, <2>2, <2>6 DEF Reservations
    <3>2. \A b \in gen.actions : op[b].outcome # "none"
      BY <1>0, <1>3, <2>1, <2>3, <2>6
    <3>3. ActionsSettled
      BY <3>1, <3>2 DEF ActionsSettled, IsTerminal
    <3>4. Wakers \subseteq Wakers'
      BY <2>2, <2>4 DEF Wakers
    <3> QED BY <2>1, <3>3, <3>4
  <2> QED BY <2>5, <2>6
<1> QED
  BY <1>6, <1>7, <1>8, <1>9, <1>10 DEF Submission

(* A lane goes to sleep with a reason to wake up. *)
LEMMA GoesToSleep ==
  ASSUME TypeOK, LaneInv, ReleaseInv, LaneNext
  PROVE  SleepInv'
<1>0. /\ lane \in Lanes /\ since \in 0..Interval /\ ~NoCleanup.on
      /\ cleanup \in [on : BOOLEAN, target : 0..Interval]
      /\ Interval \in Nat /\ Never = Interval + 1
  BY LaneAssumption, EntryFields DEF TypeOK, LaneType, PortType, LaneAssumption, Never
<1>1. Paced \in 0..Interval
  BY <1>0, PacedType
<1>2. CASE Collect
  <2> DEFINE found == (\E c \in ToSet(inbox) : c.k = "begin") /\ lease = "automation"
             target == IF cleanup.on THEN cleanup.target ELSE 0
  <2>1. lane'.timer = IF target > Paced THEN target ELSE Paced
    BY <1>0, <1>2 DEF Collect, Lanes
  <2>2. target \in 0..Interval
    BY <1>0
  <2> HIDE DEF target
  <2>3. lane'.timer # Never
    BY <1>0, <1>1, <2>1, <2>2
  <2>4. lane'.pc # "sleep"
    BY <1>2, ClosePlaces DEF Holds
  <2> QED BY <2>3, <2>4 DEF SleepInv
<1>3. CASE NoRelease
  <2>1. lane'.pc = "sleep" /\ lane'.timer = Timer
    <3>1. Timer \in 0..Never
      BY <1>0, TimerType DEF TypeOK
    <3> QED BY <1>0, <1>3 DEF NoRelease, Asleep, Lanes
  <2>2. pending' = pending /\ cleanup' = cleanup
    BY <1>3 DEF NoRelease, queue
  <2>3. ActionsSettled' <=> ActionsSettled
    BY <1>3 DEF NoRelease, Here, ActionsSettled, Reservations, IsTerminal, ops, users
  <2> QED BY <2>1, <2>2, <2>3, TimerRuns DEF SleepInv
<1>4. CASE StartRelease
  <2>1. pending' = pending /\ ~cleanup'.on
    BY <1>0, <1>4 DEF StartRelease
  <2>2. lane'.pc = "sleep" => lane'.timer = IF pending = << >> THEN Never ELSE pending[1].due
    BY <1>0, <1>4 DEF StartRelease, Lanes
  <2>3. lane'.pc # "wait"
    BY <1>4, RunPlaces DEF Holds
  <2> QED BY <2>1, <2>2, <2>3, TimerRuns DEF SleepInv
<1>5. CASE CompleteRelease \/ WriteReleaseFails
  <2>1. lane.pc = "released" \/ (lane.pc = "write" /\ lane.cur.kind = "release")
    BY <1>5, WritePlaces
  <2>2. ~cleanup.on
    BY <2>1 DEF ReleaseInv
  <2>3. pending' = pending /\ cleanup' = cleanup
    BY <1>5 DEF CompleteRelease, WriteReleaseFails
  <2>4. \E c \in BOOLEAN : AfterRelease(c)
    <3>1. rel.close \in BOOLEAN
      BY DEF TypeOK, UsersType, Releases
    <3> QED BY <1>5, <3>1 DEF CompleteRelease, WriteReleaseFails
  <2>5. /\ lane'.pc = "sleep" => lane'.timer = Timer
        /\ lane'.pc # "wait"
    BY <1>0, <2>4 DEF AfterRelease, Asleep, Lanes
  <2> QED BY <2>2, <2>3, <2>5, TimerRuns DEF SleepInv
<1>6. CASE SealAfterFailure
  <2>1. pending' = << >> /\ ~cleanup'.on
    BY <1>0, <1>6 DEF SealAfterFailure
  <2>2. lane'.pc # "wait"
    BY <1>6, WritePlaces DEF Holds
  <2> QED BY <2>1, <2>2 DEF SleepInv
<1>7. CASE ~(\/ Collect \/ NoRelease \/ StartRelease \/ CompleteRelease \/ WriteReleaseFails
             \/ SealAfterFailure)
  <2>1. lane'.pc \notin {"sleep", "wait"}
    <3>1. CASE \/ Top \/ Observe \/ HandleDirect \/ HandleBegin \/ HandleClose \/ Woken \/ Await
               \/ FinishSuccess \/ MarkDispatched \/ ClaimAccepted \/ CompleteClaim \/ Dispatch
      BY <3>1, RunPlaces DEF Goes, Holds
    <3>2. CASE \/ AcceptReport \/ WriteReportFails \/ AcceptNeutral \/ WriteNeutralFails
               \/ CleanupFails \/ AcceptRelease \/ AcceptFinal \/ WriteFinalFails
      BY <3>2, WritePlaces DEF Goes
    <3>3. CASE CloseLane \/ WriteFinal \/ CloseStream \/ FailHeld \/ SettleStream \/ LanePanics
      BY <3>3, ClosePlaces DEF Holds, Over
    <3> QED BY <1>7, <3>1, <3>2, <3>3 DEF LaneNext
  <2> QED BY <2>1 DEF SleepInv
<1> QED
  BY <1>2, <1>3, <1>4, <1>5, <1>6, <1>7

(* Nobody lets a lane sleep on with a release to write. *)
LEMMA SleepKept ==
  ASSUME Inv, SleepInv, [Next]_vars
  PROVE  SleepInv'
<1>0. /\ TypeOK /\ LaneInv /\ ReleaseInv /\ GenInv /\ \A b \in Actions : RecordInv(b)
      /\ lane \in Lanes
  BY DEF Inv, TypeOK, LaneType
<1>1. CASE LaneNext
  BY <1>0, <1>1, GoesToSleep
<1>2. CASE Elsewhere
  <2>1. /\ lane'.pc = lane.pc /\ cleanup'.on = cleanup.on
        /\ pending' = << >> <=> pending = << >>
    BY <1>0, <1>2, LaneWaits
  <2>2. lane'.timer = Never <=> lane.timer = Never
    <3>1. CASE Tick
      <4>1. lane'.timer = Sooner(lane.timer)
        BY <1>0, <3>1 DEF Tick, Lanes
      <4>2. Interval \in Nat /\ Never = Interval + 1 /\ lane.timer \in 0..Never
        BY <1>0, LaneAssumption DEF LaneAssumption, Never, Lanes
      <4> QED BY <4>1, <4>2 DEF Sooner
    <3> QED BY <1>2, <3>1, SubmissionFrame, ReleaseFrame, CloseFrame DEF Elsewhere, Lane, vars
  <2>3. ASSUME lane.pc = "sleep", lane.timer = Never, cleanup.on, ActionsSettled'
        PROVE  wake' \/ Wakers' # {}
    <3>1. LaneAlive /\ gen.sealed /\ releaser.pc = "done" /\ (ActionsSettled => wake \/ Wakers # {})
      BY <1>0, <2>3 DEF LaneAlive, ReleaseInv, GenInv, SleepInv
    <3>2. CASE SubmissionStep
      BY <1>0, <2>3, <3>1, <3>2, SubmissionWakes DEF SubmissionStep
    <3>3. CASE ReleaseStep
      BY <1>0, <3>1, <3>3 DEF ReleaseStep, ReleaseNext, SealGeneration, ReadFailure, VisitSealed,
         TakeUndispatched, SettleUndispatched, Track, SendBegin
    <3>4. CASE CloseStep \/ Tick \/ UNCHANGED vars
      <4>1. /\ leased' = leased /\ sub' = sub /\ gen' = gen /\ wake' = wake
        BY <3>4, CloseFrame DEF Tick, vars, users
      <4>2. op' = op
        <5>1. ~JoinLane
          BY <3>1 DEF JoinLane
        <5> QED BY <3>4, <5>1 DEF CloseStep, CloseNext, CloseIntent, CloseInterrupt, CancelResource,
                  SendClose, RecordOwnershipLoss, Tick, vars, ops
      <4> QED BY <2>3, <3>1, <4>1, <4>2 DEF ActionsSettled, Reservations, IsTerminal, Wakers
    <3> QED BY <1>2, <3>2, <3>3, <3>4 DEF Elsewhere
  <2> QED BY <2>1, <2>2, <2>3 DEF SleepInv
<1> QED
  BY <1>1, <1>2, StepCases DEF Elsewhere

(* The actions of the generation stay admitted, or are settled. *)
LEMMA KnownKept ==
  ASSUME Inv, KnownInv, [Next]_vars
  PROVE  KnownInv'
<1>0. /\ TypeOK /\ (\A b \in Actions : RecordInv(b))
      /\ LaneInv /\ FailInv /\ QueueInv /\ ServingInv
      /\ sub \in [Actions -> SubPlaces] /\ gen \in [sealed : BOOLEAN, actions : SUBSET Actions]
      /\ op \in [Actions -> Operations]
  BY DEF Inv, TypeOK, UsersType, OpsType
<1>1. \A b \in Actions : IsTerminal(b) => IsTerminal(b)'
  BY <1>0, OutcomeKept DEF IsTerminal
<1>2. CASE ~SubmissionStep
  <2>1. sub' = sub
    BY <1>2, StepCases, ReleaseFrame, CloseFrame, LaneFrame DEF Tick, vars, users
  <2>2. gen'.actions = gen.actions
    <3>1. CASE ReleaseStep
      BY <1>0, <3>1 DEF ReleaseStep, ReleaseNext, SealGeneration, ReadFailure, VisitSealed,
         TakeUndispatched, SettleUndispatched, Track, SendBegin
    <3> QED BY <1>2, <3>1, StepCases, CloseFrame, LaneFrame DEF Tick, vars, users
  <2> QED BY <1>0, <1>1, <2>1, <2>2 DEF KnownInv
<1>3. ASSUME NEW a \in Actions, Submission(a) \/ CancelAction(a)
      PROVE  KnownInv'
  <2>1. \A to : SubTo(a, to) => sub'[a] = to /\ \A b \in Actions \ {a} : sub'[b] = sub[b]
    BY <1>0 DEF SubTo
  <2>2. CASE Resolve(a)
    <3>1. gen'.actions \subseteq gen.actions \union {a}
      BY <1>0, <2>2 DEF Resolve
    <3>2. \A b \in Actions \ {a} : sub'[b] = sub[b]
      BY <2>1, <2>2 DEF Resolve
    <3>3. sub[a] = "resolve" => sub'[a] \in {"reject", "dispatched", "done"}
      BY <2>1, <2>2 DEF Resolve
    <3>4. sub[a] = "refuse" => a \notin gen'.actions
      BY <2>2 DEF Resolve, KnownInv
    <3>5. sub[a] \in {"resolve", "refuse"}
      BY <2>2 DEF Resolve
    <3> QED BY <1>0, <1>1, <3>1, <3>2, <3>3, <3>4, <3>5 DEF KnownInv
  <2>3. CASE ~Resolve(a)
    <3>1. gen' = gen
      BY <1>3, <2>3 DEF Submission, Reserve, Create, Send, Reject, CancelDispatched, WakeLane,
         CancelAction, users
    <3>2. \A b \in Actions \ {a} : sub'[b] = sub[b]
      BY <1>3, <2>1, <2>3 DEF Submission, Reserve, Create, Send, Admitted, Turned, Reject,
         CancelDispatched, WakeLane, CancelAction, users
    <3>3. a \in gen.actions =>
            \/ sub'[a] \in {"reject", "dispatched", "wakeDone", "done"}
            \/ (sub'[a] \in {"wakeRefused", "refused"} /\ IsTerminal(a)')
      <4>1. CASE Reserve(a) \/ Create(a) \/ Send(a)
        BY <4>1 DEF Reserve, Create, Send, KnownInv
      <4>2. CASE Reject(a)
        <5>1. sub'[a] = "wakeRefused"
          BY <2>1, <4>2 DEF Reject
        <5>2. op'[a].outcome \in {"strict", "cancelled"}
          BY <1>0, <4>2 DEF Reject, StrictlyFailed, Cancelled, Operations
        <5> QED BY <5>1, <5>2 DEF IsTerminal
      <4>3. CASE CancelDispatched(a)
        BY <2>1, <4>3 DEF CancelDispatched
      <4>4. CASE WakeLane(a)
        <5>1. \/ sub[a] = "wakeDone" /\ sub'[a] = "done"
              \/ sub[a] = "wakeRefused" /\ sub'[a] = "refused"
          BY <2>1, <4>4 DEF WakeLane
        <5> QED BY <1>1, <5>1 DEF KnownInv
      <4>5. CASE CancelAction(a)
        BY <4>5 DEF CancelAction, users
      <4> QED BY <1>3, <2>3, <4>1, <4>2, <4>3, <4>4, <4>5 DEF Submission
    <3> QED BY <1>0, <1>1, <3>1, <3>2, <3>3 DEF KnownInv
  <2> QED BY <2>2, <2>3
<1> QED
  BY <1>2, <1>3 DEF SubmissionStep

-----------------------------------------------------------------------------
(* Nobody is left                                                            *)

LEMMA WaitInit == Init => WaitInv
<1> SUFFICES ASSUME Init PROVE WaitInv
  OBVIOUS
<1>1. \A a \in Actions : AttendedInv(a)
  BY DEF Init, AttendedInv, HasOwner, Placed
<1>2. inbox = << >> /\ pending = << >> /\ lane.held = {} /\ ~cleanup.on
  BY DEF Init, NoCleanup
<1>3. lane.pc = "top" /\ ~lane.closing
  BY DEF Init
<1>4. DrainInv
  BY <1>2, <1>3 DEF DrainInv
<1>5. CommandInv
  <2>1. ~CloseComes
    <3>1. DOMAIN inbox = {}
      BY <1>2
    <3> QED BY <3>1 DEF CloseComes
  <2> QED BY <1>3, <2>1 DEF Init, CommandInv
<1>6. ToldInv
  BY DEF Init, ToldInv
<1>7. SleepInv
  BY <1>3 DEF SleepInv
<1>8. KnownInv
  BY DEF Init, KnownInv
<1> QED
  BY <1>1, <1>4, <1>5, <1>6, <1>7, <1>8 DEF WaitInv

LEMMA WaitKept == Inv /\ WaitInv /\ [Next]_vars => WaitInv'
<1> SUFFICES ASSUME Inv, WaitInv, [Next]_vars PROVE WaitInv'
  OBVIOUS
<1>0. /\ TypeOK /\ LaneInv /\ FailInv /\ QueueInv /\ ServingInv /\ ReleaseInv
      /\ \A a \in Actions : RecordInv(a) /\ AttendedInv(a)
      /\ DrainInv /\ CommandInv /\ ToldInv /\ SleepInv /\ KnownInv
  BY DEF Inv, WaitInv
<1>1. (\A a \in Actions : AttendedInv(a))'
  BY <1>0, AttendedKept
<1>2. DrainInv' /\ CommandInv'
  BY <1>0, DrainKept, CommandKept
<1>3. ToldInv' /\ SleepInv' /\ KnownInv'
  BY <1>0, ToldKept, SleepKept, KnownKept
<1> QED
  BY <1>1, <1>2, <1>3 DEF WaitInv

(* Whoever waits has somebody to wait for: an action is with the lane, a     *)
(* release is on its way to it, a lane that may not sleep is woken, and a    *)
(* close that joins has sent its command.                                    *)
LEMMA WaitersHaveReasons == Spec => [](Inv /\ WaitInv)
<1>1. Init => Inv /\ WaitInv
  BY InvInit, WaitInit
<1>2. Inv /\ WaitInv /\ [Next]_vars => (Inv /\ WaitInv)'
  BY InvKept, WaitKept
<1> QED
  BY <1>1, <1>2, PTL DEF Spec

(* Where nobody moves the lane sleeps without a timer or has ended, and it   *)
(* has nothing in its hands.                                                 *)
LEMMA StillLane ==
  ASSUME Inv, WaitInv, ~SomebodyMoves, ~Panicked
  PROVE  /\ \/ lane.pc = "ended"
            \/ /\ lane.pc = "sleep" /\ lane.timer = Never /\ ~wake
               /\ ~(cleanup.on /\ ActionsSettled)
         /\ inbox = << >> /\ pending = << >> /\ lane.held = {}
         /\ closer \in {"idle", "done"}
<1>0. /\ lane \in Lanes /\ TypeOK /\ LaneInv /\ ServingInv
      /\ DrainInv /\ CommandInv /\ SleepInv
  BY DEF Inv, WaitInv, TypeOK, LaneType
<1>1. ~LaneMoves /\ ~TimePasses /\ ~CloseMoves
      /\ \A a \in Actions : sub[a] \in {"idle", "refused", "done"}
  BY DEF SomebodyMoves
<1>2. lane.pc # "panicked"
  BY DEF Panicked
<1>3. lane.pc # "write"
  BY <1>0, <1>1 DEF LaneMoves, ServingInv
<1>4. LaneAlive => lane.timer \in {0, Never}
  BY <1>1 DEF TimePasses
<1>5. lane.pc # "wait"
  BY <1>0, <1>1, <1>4 DEF LaneMoves, SleepInv, LaneAlive
<1>6. closer \in {"idle", "joining", "done"} /\ (closer = "joining" => LaneAlive)
  BY <1>0, <1>1 DEF CloseMoves, TypeOK, UsersType
<1>7. lane.pc # "await"
  <2> SUFFICES ASSUME lane.pc = "await" PROVE FALSE
    OBVIOUS
  <2>1. closer = "joining" /\ LaneAlive
    BY <1>0, <1>6 DEF CommandInv, ResourceCancelled, LaneInv, LaneAlive
  <2>2. ~lane.closing
    BY <1>0 DEF LaneInv, Closes
  <2>3. CloseComes
    BY <1>0, <2>1, <2>2 DEF CommandInv
  <2> QED BY <1>1, <2>3 DEF LaneMoves
<1>8. CASE lane.pc = "ended"
  <2>1. ~LaneAlive
    BY <1>8 DEF LaneAlive
  <2> QED BY <1>0, <1>6, <1>8, <2>1 DEF DrainInv
<1>9. CASE lane.pc = "sleep"
  <2>1. inbox = << >> /\ ~wake /\ lane.timer = Never
    BY <1>1, <1>4, <1>9 DEF LaneMoves, LaneAlive
  <2>2. Wakers = {}
    BY <1>1 DEF Wakers
  <2>3. pending = << >> /\ ~(cleanup.on /\ ActionsSettled)
    BY <1>0, <1>9, <2>1, <2>2 DEF SleepInv
  <2>4. ~lane.closing
    BY <1>0, <1>9 DEF LaneInv, Closes
  <2>5. lane.held = {}
    BY <1>0, <2>4 DEF DrainInv
  <2>6. ~CloseComes
    <3>1. DOMAIN inbox = {}
      BY <2>1
    <3> QED BY <3>1 DEF CloseComes
  <2>7. closer # "joining"
    BY <1>0, <1>9, <2>4, <2>6 DEF CommandInv, LaneAlive
  <2> QED BY <1>6, <1>9, <2>1, <2>3, <2>5, <2>7
<1> QED
  BY <1>0, <1>1, <1>2, <1>3, <1>5, <1>7, <1>8, <1>9 DEF LaneMoves, Lanes, LanePlaces

(* Unless the lane panicked, a state in which nobody goes on leaves no       *)
(* admitted action, no release and no close without an answer.               *)
THEOREM NobodyIsLeft == Spec => []EveryoneIsAnswered
<1>1. Inv /\ WaitInv => EveryoneIsAnswered
  <2> SUFFICES ASSUME Inv, WaitInv, ~SomebodyMoves, ~Panicked
               PROVE  /\ \A a \in Actions : sub[a] = "done" => IsTerminal(a)
                      /\ rel.st \in {"none", "committed"}
                      /\ closer \in {"idle", "done"}
    BY DEF EveryoneIsAnswered
  <2>0. /\ TypeOK /\ GenInv /\ ToldInv /\ KnownInv /\ DrainInv
        /\ gen.actions \subseteq leased /\ leased \subseteq Actions
        /\ \A a \in Actions : RecordInv(a) /\ AttendedInv(a)
    BY DEF Inv, WaitInv, TypeOK, UsersType, OpsType
  <2>1. /\ \/ lane.pc = "ended"
           \/ lane.pc = "sleep" /\ ~(cleanup.on /\ ActionsSettled)
        /\ inbox = << >> /\ pending = << >> /\ lane.held = {}
        /\ closer \in {"idle", "done"}
    BY StillLane
  <2>2. releaser.pc \in {"idle", "done"} /\ \A a \in Actions : sub[a] \in {"idle", "refused", "done"}
    BY DEF SomebodyMoves
  <2>3. DirectsOf(inbox) = {} /\ PendingActions = {} /\ ~Begins
    BY <2>0, <2>1, QueueSets, CommandSets, CommandThere DEF TypeOK
  <2>4. ASSUME NEW a \in Actions, sub[a] = "done" PROVE IsTerminal(a)
    <3>1. ~Attended(a)
      BY <2>1, <2>3, <2>4 DEF Attended, Carried, InHands
    <3>2. ~HasOwner(rec[a]) /\ rec[a].st # "absent"
      BY <2>0, <2>4, <3>1 DEF AttendedInv, Placed
    <3>3. rec[a].st \notin Effective
      BY <2>0, <2>1 DEF RecordInv, Effective
    <3>4. rec[a].st \in {"finished", "failed"}
      BY <2>0, <3>2, <3>3 DEF TypeOK, OpsType, Records, HasOwner, Effective
    <3>5. ~Taken(a)
      BY <2>2, <2>4 DEF Taken, TakenBySeal
    <3> QED BY <2>0, <3>4, <3>5 DEF RecordInv, IsTerminal
  <2>5. rel.st \in {"none", "committed"}
    <3>1. CASE releaser.pc = "idle"
      BY <2>0, <3>1 DEF GenInv
    <3>2. CASE releaser.pc = "done" /\ rel.st # "committed"
      <4>1. cleanup.on
        BY <2>0, <2>1, <2>3, <3>2 DEF ToldInv, Told, Panicked
      <4>2. lane.pc = "sleep" /\ ~ActionsSettled
        BY <2>0, <2>1, <4>1 DEF DrainInv
      <4>3. Reservations = {}
        BY <2>0, <2>2 DEF Reservations
      <4>4. \A a \in gen.actions : IsTerminal(a)
        <5> SUFFICES ASSUME NEW a \in gen.actions PROVE IsTerminal(a)
          OBVIOUS
        <5>1. a \in Actions /\ sub[a] \in {"idle", "refused", "done"}
          BY <2>0, <2>2
        <5> QED BY <2>0, <2>4, <5>1 DEF KnownInv
      <4> QED BY <4>2, <4>3, <4>4 DEF ActionsSettled
    <3> QED BY <2>2, <3>1, <3>2
  <2> QED BY <2>1, <2>4, <2>5
<1> QED
  BY <1>1, WaitersHaveReasons, PTL
=============================================================================
