------------------------- MODULE DeadlineScheduler -------------------------
(***************************************************************************)
(* Generic deadline registrations of a Runtime: deadline.rs, the deadline  *)
(* worker of runtime.rs, on the SystemClock of clock.rs.  One action is    *)
(* one critical section of the scheduler's state mutex or of a signal's    *)
(* mutex, or one step of a thread between two of them.                     *)
(*                                                                         *)
(* Every registrar makes one registration and is named by its id.  The     *)
(* heap is left out: it orders the live entries by (target, id), and an    *)
(* item whose entry is gone is dropped unread.  No operation has a         *)
(* deadline.                                                               *)
(***************************************************************************)
EXTENDS Naturals, Sequences, FiniteSets

CONSTANTS Registrations, \* bound: how many deadlines are registered
          MaxNow         \* bound: the last instant the clock reaches

ASSUME Bounds == Registrations \in Nat /\ MaxNow \in Nat

(* The threads: a registrar has the number of its registration. *)
Registrars  == 1..Registrations
Worker      == 0
CloseThread == Registrations + 1
Actors      == Registrars \cup {Worker, CloseThread}

VARIABLES
  now,      \* what the clock shows
  open,     \* DeadlineSchedulerState.admission_open
  pc,       \* where each registrar, the worker and the close thread are
  target,   \* target_ns of each registration
  seen,     \* the now_ns a thread works with, zero when it has none
  pending,  \* DeadlineSchedulerState.pending
  entries,  \* DeadlineSchedulerState.entries
  gate,     \* the thread that holds fire_gate, if any
  hands,    \* registrations a thread took out to resolve
  told,     \* registrations a thread resolved and has to notify
  resolved, \* the resolutions, in their order
  parked,   \* registrars that sleep until their signal is resolved
  channel,  \* messages to the worker
  until,    \* when the worker's receive times out
  blocked   \* history: a pending reservation made somebody skip an entry

vars == <<now, open, pc, target, seen, pending, entries, gate,
          hands, told, resolved, parked, channel, until, blocked>>

(* A timeout that is none: no wait is that long. *)
Never      == 2 * MaxNow + 1
Resolution == {"Fired", "Disarmed", "RuntimeClosed"}

Resolved(r)   == \E i \in DOMAIN resolved : resolved[i].reg = r
Resolve(r, how) == resolved' = Append(resolved, [reg |-> r, how |-> how])

(* The order of the heap. *)
Before(a, b) == \/ target[a] < target[b]
                \/ target[a] = target[b] /\ a < b
First(S) == CHOOSE r \in S : \A q \in S \ {r} : Before(r, q)

(* The thread needs the instant it read no longer. *)
Forget(a) == seen' = [seen EXCEPT ![a] = 0]

Gone == {"exited", "panicked"}
Send(m) == IF pc[Worker] \in Gone THEN channel ELSE channel \o m

Init ==
  /\ now = 0
  /\ open = TRUE
  /\ pc = [a \in Actors |-> IF a = Worker THEN "now" ELSE "idle"]
  /\ target = [r \in Registrars |-> 0]
  /\ seen = [a \in 0..Registrations |-> 0]
  /\ pending = {} /\ entries = {}
  /\ gate = {}
  /\ hands = [a \in Actors |-> {}]
  /\ told = [a \in Actors |-> {}]
  /\ resolved = << >>
  /\ parked = {}
  /\ channel = << >>
  /\ until = Never
  /\ blocked = FALSE

-----------------------------------------------------------------------------
(* Time passes. *)
Advance ==
  /\ now < MaxNow
  /\ now' = now + 1
  /\ UNCHANGED <<open, pc, target, seen, pending, entries, gate,
                 hands, told, resolved, parked, channel, until, blocked>>

(* reserve, under the Runtime's state lock: ids follow the reservations. *)
Reserve(r, t) ==
  /\ pc[r] = "idle" /\ \A q \in 1..r - 1 : pc[q] # "idle"
  /\ IF open
     THEN /\ target' = [target EXCEPT ![r] = t]
          /\ pending' = pending \cup {r}
          /\ pc' = [pc EXCEPT ![r] = "now"]
     ELSE /\ pc' = [pc EXCEPT ![r] = "refused"]
          /\ UNCHANGED <<target, pending>>
  /\ UNCHANGED <<now, open, seen, entries, gate, hands, told,
                 resolved, parked, channel, until, blocked>>

(* now_ns, which the thread works with from here on *)
ReadNow(a) ==
  /\ pc[a] = "now"
  /\ seen' = [seen EXCEPT ![a] = now]
  /\ pc' = [pc EXCEPT ![a] = IF a = Worker THEN "fire" ELSE "commit"]
  /\ UNCHANGED <<now, open, target, pending, entries, gate,
                 hands, told, resolved, parked, channel, until, blocked>>

(* The clock panics: the admission is dropped. *)
Abandon(r) ==
  /\ pc[r] = "now"
  /\ pc' = [pc EXCEPT ![r] = "gone"]
  /\ pending' = pending \ {r}
  /\ channel' = IF r \in pending THEN Send(<<"Wake">>) ELSE channel
  /\ UNCHANGED <<now, open, target, seen, entries, gate, hands,
                 told, resolved, parked, until, blocked>>

(* commit_reservation, and the choice finish_commit makes *)
CommitReservation(r) ==
  /\ pc[r] = "commit"
  /\ pending' = pending \ {r}
  /\ entries' = entries \cup (pending \cap {r})
  /\ IF r \in pending /\ seen[r] >= target[r]
     THEN /\ pc' = [pc EXCEPT ![r] = "fire"]
          /\ UNCHANGED seen
     ELSE /\ pc' = [pc EXCEPT ![r] = IF r \in pending THEN "wake" ELSE "armed"]
          /\ Forget(r)
  /\ UNCHANGED <<now, open, target, gate, hands, told, resolved,
                 parked, channel, until, blocked>>

(* Mutation of WakeWorker: the worker is not told of an earlier target. *)
WakeNobody(r) ==
  /\ pc[r] = "wake"
  /\ pc' = [pc EXCEPT ![r] = "armed"]
  /\ UNCHANGED <<now, open, target, seen, pending, entries,
                 gate, hands, told, resolved, parked, channel, until, blocked>>

WakeWorker(r) ==
  /\ pc[r] = "wake"
  /\ channel' = Send(<<"Wake">>)
  /\ pc' = [pc EXCEPT ![r] = "armed"]
  /\ UNCHANGED <<now, open, target, seen, pending, entries,
                 gate, hands, told, resolved, parked, until, blocked>>

-----------------------------------------------------------------------------
(* fire_due_at *)

(* Mutation of Barred: reservations under way are ignored. *)
NeverBarred(a, e) == FALSE

(* A due reservation under way that comes before e bars it. *)
Barred(a, e) == \E p \in pending : target[p] <= seen[a] /\ Before(p, e)

Due(a) == {e \in entries : target[e] <= seen[a] /\ ~Barred(a, e)}

(* Under fire_gate and the state lock; the gate is kept for the batch. *)
CollectDue(a) ==
  /\ pc[a] = "fire" /\ gate = {}
  /\ entries' = entries \ Due(a)
  /\ hands' = [hands EXCEPT ![a] = Due(a)]
  /\ IF Due(a) = {} THEN /\ pc' = [pc EXCEPT ![a] = "notify"]
                         /\ UNCHANGED gate
                    ELSE /\ pc' = [pc EXCEPT ![a] = "resolve"]
                         /\ gate' = {a}
  /\ blocked' = (blocked \/ \E e \in entries : target[e] <= seen[a]
                                               /\ Barred(a, e))
  /\ Forget(a)
  /\ UNCHANGED <<now, open, target, pending, told,
                 resolved, parked, channel, until>>

(* commit_signal of the next registration of a batch or of a drain; the last
   one opens the gate.                                                     *)
CommitSignal(a) ==
  LET r == First(hands[a]) IN
  /\ pc[a] = "resolve"
  /\ Resolve(r, IF a = CloseThread THEN "RuntimeClosed" ELSE "Fired")
  /\ hands' = [hands EXCEPT ![a] = @ \ {r}]
  /\ told' = [told EXCEPT ![a] = @ \cup {r}]
  /\ IF hands[a] = {r} THEN /\ pc' = [pc EXCEPT ![a] = "notify"]
                            /\ gate' = gate \ {a}
                       ELSE UNCHANGED <<pc, gate>>
  /\ UNCHANGED <<now, open, target, seen, pending, entries,
                 parked, channel, until, blocked>>

(* Mutation of Notified: a panicking waker ends the notification. *)
NotifiedUpToPanic(a, ok) == IF ok \/ told[a] = {} THEN told[a]
                            ELSE {First(told[a])}

(* Every signal of the batch is notified, whatever panics. *)
Notified(a, ok) == told[a]

(* Out of all locks; ok = FALSE if a waker or the clock's trace panics. *)
Notify(a, ok) ==
  /\ pc[a] = "notify"
  /\ ok \/ (a # CloseThread /\ told[a] # {})
  /\ parked' = parked \ Notified(a, ok)
  /\ told' = [told EXCEPT ![a] = {}]
  /\ pc' = [pc EXCEPT ![a] =
              CASE a = Worker -> IF ok THEN "target" ELSE "panicked"
                [] a = CloseThread  -> "shutdown"
                [] OTHER        -> IF ok THEN "armed" ELSE "gone"]
  /\ UNCHANGED <<now, open, target, seen, pending, entries,
                 gate, hands, resolved, channel, until, blocked>>

-----------------------------------------------------------------------------
(* The deadline worker: next_target_ns, and the wait until then. *)
NextTarget ==
  /\ pc[Worker] = "target"
  /\ LET first == First(entries)
         wait  == \E p \in pending : Before(p, first)
     IN /\ until' = IF entries = {} \/ wait THEN Never
                    ELSE target[first]
        /\ blocked' = (blocked \/ (entries # {} /\ wait))
  /\ pc' = [pc EXCEPT ![Worker] = "receive"]
  /\ UNCHANGED <<now, open, target, seen, pending, entries,
                 gate, hands, told, resolved, parked, channel>>

Receive ==
  /\ pc[Worker] = "receive"
  /\ channel # << >>
  /\ pc' = [pc EXCEPT ![Worker] =
              IF Head(channel) = "Wake" THEN "now" ELSE "exited"]
  /\ channel' = Tail(channel)
  /\ until' = Never
  /\ UNCHANGED <<now, open, target, seen, pending, entries,
                 gate, hands, told, resolved, parked, blocked>>

ReceiveTimeout ==
  /\ pc[Worker] = "receive"
  /\ channel = << >> /\ now >= until
  /\ pc' = [pc EXCEPT ![Worker] = "now"]
  /\ until' = Never
  /\ UNCHANGED <<now, open, target, seen, pending, entries,
                 gate, hands, told, resolved, parked, channel, blocked>>

-----------------------------------------------------------------------------
(* Mutation of Disarm: the entry is looked up and left in the queue. *)
DisarmInPlace(r) ==
  /\ pc[r] = "armed"
  /\ hands' = [hands EXCEPT ![r] = entries \cap {r}]
  /\ pc' = [pc EXCEPT ![r] = IF r \in entries THEN "disarm" ELSE "wait"]
  /\ UNCHANGED <<now, open, target, seen, pending, entries, gate, told,
                 resolved, parked, channel, until, blocked>>

(* DeadlineRegistration::disarm, or its Drop *)
Disarm(r) ==
  /\ pc[r] = "armed"
  /\ entries' = entries \ {r}
  /\ hands' = [hands EXCEPT ![r] = entries \cap {r}]
  /\ pc' = [pc EXCEPT ![r] = IF r \in entries THEN "disarm" ELSE "wait"]
  /\ UNCHANGED <<now, open, target, seen, pending, gate, told,
                 resolved, parked, channel, until, blocked>>

CommitDisarmed(r) ==
  /\ pc[r] = "disarm" /\ hands[r] = {r}
  /\ Resolve(r, "Disarmed")
  /\ hands' = [hands EXCEPT ![r] = {}]
  /\ told' = [told EXCEPT ![r] = {r}]
  /\ UNCHANGED <<now, open, pc, target, seen, pending, entries,
                 gate, parked, channel, until, blocked>>

NotifyDisarmed(r) ==
  /\ pc[r] = "disarm" /\ told[r] = {r}
  /\ parked' = parked \ {r}
  /\ told' = [told EXCEPT ![r] = {}]
  /\ channel' = Send(<<"Wake">>)
  /\ pc' = [pc EXCEPT ![r] = "disarmed"]
  /\ UNCHANGED <<now, open, target, seen, pending, entries,
                 gate, hands, resolved, until, blocked>>

(* Somebody else resolves r: its owner waits for that, for ever if need be. *)
AwaitResolution(r) ==
  /\ pc[r] = "wait" /\ r \notin parked
  /\ IF Resolved(r) THEN /\ pc' = [pc EXCEPT ![r] = "disarmed"]
                         /\ UNCHANGED parked
                    ELSE /\ parked' = parked \cup {r}
                         /\ UNCHANGED pc
  /\ UNCHANGED <<now, open, target, seen, pending, entries,
                 gate, hands, told, resolved, channel, until, blocked>>

-----------------------------------------------------------------------------
(* Admission ends when close begins, long before the drain. *)
Seal ==
  /\ pc[CloseThread] = "idle"
  /\ open' = FALSE
  /\ pc' = [pc EXCEPT ![CloseThread] = "drain"]
  /\ UNCHANGED <<now, target, seen, pending, entries, gate,
                 hands, told, resolved, parked, channel, until, blocked>>

(* drain_runtime_closed takes pending and armed registrations. *)
Drain ==
  /\ pc[CloseThread] = "drain"
  /\ hands' = [hands EXCEPT ![CloseThread] = pending \cup entries]
  /\ pending' = {} /\ entries' = {}
  /\ pc' = [pc EXCEPT ![CloseThread] =
              IF pending \cup entries = {} THEN "shutdown" ELSE "resolve"]
  /\ UNCHANGED <<now, open, target, seen, gate, told, resolved,
                 parked, channel, until, blocked>>

(* The worker is woken by the drain and then told to stop. *)
Shutdown ==
  /\ pc[CloseThread] = "shutdown"
  /\ channel' = Send(<<"Wake", "Shutdown">>)
  /\ pc' = [pc EXCEPT ![CloseThread] = "join"]
  /\ UNCHANGED <<now, open, target, seen, pending, entries,
                 gate, hands, told, resolved, parked, until, blocked>>

JoinWorker ==
  /\ pc[CloseThread] = "join" /\ pc[Worker] \in Gone
  /\ pc' = [pc EXCEPT ![CloseThread] = "done"]
  /\ UNCHANGED <<now, open, target, seen, pending, entries,
                 gate, hands, told, resolved, parked, channel, until, blocked>>

-----------------------------------------------------------------------------
Register(r)  == ReadNow(r) \/ CommitReservation(r) \/ WakeWorker(r)
Fire(a)      == CollectDue(a) \/ CommitSignal(a) \/ Notify(a, TRUE)
WorkerStep   == ReadNow(Worker) \/ NextTarget \/ Receive \/ ReceiveTimeout
Disarming(r) == CommitDisarmed(r) \/ NotifyDisarmed(r) \/ AwaitResolution(r)
Stop         == Drain \/ Shutdown \/ JoinWorker

Next ==
  \/ Advance
  \/ Seal
  \/ Stop
  \/ WorkerStep
  \/ \E a \in Actors : Fire(a) \/ Notify(a, FALSE)
  \/ \E r \in Registrars : \/ \E t \in 0..MaxNow : Reserve(r, t)
                           \/ Register(r)
                           \/ Abandon(r)
                           \/ Disarm(r)
                           \/ Disarming(r)

Spec == Init /\ [][Next]_vars

(* Every thread inside the scheduler is scheduled, the gate included: it is
   only held for a batch.  Nobody has to register, disarm or close, and the
   clock need not move.                                                    *)
FairSpec ==
  /\ Spec
  /\ WF_vars(WorkerStep)
  /\ WF_vars(Stop)
  /\ \A a \in Actors : WF_vars(Fire(a))
  /\ \A r \in Registrars : WF_vars(Register(r)) /\ WF_vars(Disarming(r))

-----------------------------------------------------------------------------
(* Every variable keeps its type. *)
TypeOK ==
  /\ now \in 0..MaxNow
  /\ open \in BOOLEAN /\ blocked \in BOOLEAN
  /\ pc \in [Actors -> {"idle", "refused", "now", "commit", "wake", "fire",
                        "resolve", "notify", "armed", "gone", "disarm", "wait",
                        "disarmed", "target", "receive", "exited", "panicked",
                        "drain", "shutdown", "join", "done"}]
  /\ target \in [Registrars -> 0..MaxNow]
  /\ seen \in [0..Registrations -> 0..MaxNow]
  /\ pending \subseteq Registrars /\ entries \subseteq Registrars
  /\ gate \in {{}} \cup {{a} : a \in Actors}
  /\ hands \in [Actors -> SUBSET Registrars]
  /\ told \in [Actors -> SUBSET Registrars]
  /\ resolved \in Seq([reg : Registrars, how : Resolution])
  /\ parked \subseteq Registrars
  /\ channel \in Seq({"Wake", "Shutdown"})
  /\ until \in 0..MaxNow \cup {Never}

(* A registration is in one place only: reserved, armed, in the hands of the
   one thread that will resolve it, or resolved once; so fire, disarm, drop
   and drain never resolve it twice and never forget it.                   *)
ResolvedExactlyOnce ==
  \A r \in Registrars :
    LET places == {<<"pending", q>> : q \in pending \cap {r}}
                  \cup {<<"armed", q>> : q \in entries \cap {r}}
                  \cup {<<"hands", a>> : a \in {b \in Actors : r \in hands[b]}}
                  \cup {<<"resolved", i>> :
                           i \in {j \in DOMAIN resolved : resolved[j].reg = r}}
    IN IF pc[r] \in {"idle", "refused"} THEN places = {}
       ELSE \/ Cardinality(places) = 1
            \/ places = {} /\ pc[r] = "gone"

(* A registration that fired leaves no earlier reservation with an earlier or
   equal target behind: that one was resolved before, or was taken out by
   its owner or by close.                                                  *)
FiresInOrder ==
  \A i \in DOMAIN resolved : resolved[i].how = "Fired" =>
    LET b == resolved[i].reg IN
    \A a \in 1..b - 1 : target[a] <= target[b] =>
        /\ a \notin pending \cup entries
        /\ \A j \in DOMAIN resolved :
             resolved[j].reg = a /\ resolved[j].how = "Fired" => j < i

(* Nobody sleeps on a signal that is resolved, unless its notification is
   still to come: the state is checked and the waiter parked in one step,
   and a panicking waker does not cost the others their notification.      *)
NoLostNotification ==
  \A r \in parked : Resolved(r) => \E a \in Actors : r \in told[a]

(* Nobody waits for ever on the scheduler. A deadline that is due gets
   resolved as long as the worker lives, if no reservation under way ever
   made a thread pass over an entry; disarm and Drop return, even when they
   lose the entry to somebody else; and close gets the worker to stop.     *)
NobodyIsForgotten ==
  /\ \A r \in Registrars :
       /\ pc[r] = "armed" /\ now >= target[r] ~>
            Resolved(r) \/ blocked \/ pc[Worker] \in Gone
       /\ pc[r] \in {"disarm", "wait"} ~> pc[r] = "disarmed"
  /\ pc[CloseThread] = "drain" ~> pc[CloseThread] = "done"

(* runtime-lifecycle.md, section 4: the worker depends on no other thread's
   progress, so that NobodyIsForgotten needs no exception for a reservation
   under way. The code does not have this property (deadline.rs:571).      *)
WorkerIsIndependent ==
  \A r \in Registrars :
    pc[r] = "armed" /\ now >= target[r] ~>
      Resolved(r) \/ pc[Worker] \in Gone
=============================================================================
