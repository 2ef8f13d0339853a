-------------------------- MODULE DeadlineProofs ---------------------------
(***************************************************************************)
(* Proofs about DeadlineScheduler for any number of registrations and any  *)
(* clock.  The inductive invariant Inv says where every thread is and what *)
(* it holds there (ControlInv), that a registration is in one place        *)
(* (PlaceInv), that the ids follow the reservations and no batch overtakes *)
(* an earlier reservation (OrderInv), and who is still to be told          *)
(* (ParkInv).                                                              *)
(***************************************************************************)
EXTENDS DeadlineScheduler, SequenceTheorems, FiniteSetTheorems,
        WellFoundedInduction, TLAPS

RegistrarPlaces == {"idle", "refused", "now", "commit", "wake", "fire",
                    "resolve", "notify", "armed", "gone", "disarm", "wait",
                    "disarmed"}
WorkerPlaces == {"now", "fire", "resolve", "notify", "target", "receive",
                 "exited", "panicked"}
ClosePlaces  == {"idle", "drain", "resolve", "notify", "shutdown", "join",
                 "done"}

(* What a thread holds goes with its place in the code. *)
HoldInv(a) ==
  /\ hands[a] # {} => pc[a] \in {"resolve", "disarm"}
  /\ told[a] # {}  => pc[a] \in {"resolve", "notify", "disarm"}
  /\ pc[a] = "resolve" => hands[a] # {} /\ (a # CloseThread => gate = {a})
  /\ pc[a] = "disarm"  => \/ hands[a] = {a} /\ told[a] = {}
                          \/ hands[a] = {} /\ told[a] = {a}

ControlInv ==
  /\ \A r \in Registrars : pc[r] \in RegistrarPlaces
  /\ pc[Worker] \in WorkerPlaces
  /\ pc[CloseThread] \in ClosePlaces
  /\ \A a \in Actors : HoldInv(a)

InHands(r) == \E a \in Actors : r \in hands[a]

(* A registration that was admitted is in one place, unless it was dropped. *)
PlaceInv(r) ==
  /\ r \in pending => r \notin entries
  /\ r \in pending \cup entries => ~InHands(r) /\ ~Resolved(r)
  /\ InHands(r) => ~Resolved(r)
  /\ \A a, b \in Actors : r \in hands[a] /\ r \in hands[b] => a = b
  /\ \A i, j \in DOMAIN resolved :
       resolved[i].reg = r /\ resolved[j].reg = r => i = j
  /\ pc[r] \in {"idle", "refused"} =>
       r \notin pending \cup entries /\ ~InHands(r) /\ ~Resolved(r)
  /\ pc[r] \notin {"idle", "refused", "gone"} =>
       r \in pending \cup entries \/ InHands(r) \/ Resolved(r)

(* The registrations that must not be left behind when b fires. *)
Earlier(b) == {a \in 1..b - 1 : target[a] <= target[b]}
Firing(r)  == \E x \in Actors \ {CloseThread} :
                pc[x] = "resolve" /\ r \in hands[x]
Fired(r)   == \E i \in DOMAIN resolved :
                resolved[i].reg = r /\ resolved[i].how = "Fired"

(* Ids follow the reservations; what a batch took out and what it fired left
   no earlier registration behind.                                         *)
OrderInv ==
  /\ \A b \in Registrars : pc[b] # "idle" =>
       \A a \in 1..b - 1 : pc[a] # "idle"
  /\ \A b \in Registrars : Firing(b) \/ Fired(b) =>
       \A a \in Earlier(b) : a \notin pending \cup entries
  /\ \A b \in Registrars : Fired(b) => \A a \in Earlier(b) : ~Firing(a)
  /\ FiresInOrder

(* Who is to be told is resolved, and a sleeper is told or not resolved. *)
ParkInv ==
  /\ \A r \in parked : pc[r] = "wait"
  /\ \A a \in Actors : \A r \in told[a] : Resolved(r)
  /\ NoLostNotification

(* The inductive invariant. *)
Inv == /\ TypeOK
       /\ ControlInv
       /\ \A r \in Registrars : PlaceInv(r)
       /\ OrderInv
       /\ ParkInv

-----------------------------------------------------------------------------
(* A nonempty set of numbers has a least one. *)
LEMMA LeastNumber ==
  ASSUME NEW S \in SUBSET Nat, S # {}
  PROVE  \E m \in S : \A n \in S : m <= n
  <1>1. PICK m \in S : \A n \in S : ~(<<n, m>> \in OpToRel(<, Nat))
    BY NatLessThanWellFounded, WFMin
  <1>2. \A n \in S : ~(n < m)
    BY <1>1 DEF OpToRel
  <1>3. QED
    BY <1>2

(* First finds the registration at the head of the heap. *)
LEMMA FirstOf ==
  ASSUME target \in [Registrars -> 0..MaxNow],
         NEW S \in SUBSET Registrars, S # {}
  PROVE  First(S) \in S /\ \A q \in S \ {First(S)} : Before(First(S), q)
  <1>s. PICK s \in S : TRUE
    OBVIOUS
  <1>n. \A r \in S : r \in Nat /\ target[r] \in Nat
    BY Bounds DEF Bounds, Registrars
  <1> DEFINE T == {n \in Nat : \E r \in S : target[r] = n}
  <1>1. PICK m \in T : \A n \in T : m <= n
    <2>1. T \in SUBSET Nat /\ target[s] \in T
      BY <1>s, <1>n
    <2>2. QED
      BY <2>1, LeastNumber
  <1> DEFINE U == {r \in S : target[r] = m}
  <1>2. PICK u \in U : \A q \in U : u <= q
    <2>1. U \in SUBSET Nat /\ U # {}
      BY <1>n, <1>1
    <2>2. QED
      BY <2>1, LeastNumber
  <1>3. u \in S /\ \A q \in S \ {u} : Before(u, q)
    <2>1. u \in S /\ target[u] = m
      BY <1>2
    <2>2. ASSUME NEW q \in S \ {u} PROVE Before(u, q)
      <3>1. m <= target[q]
        BY <1>1, <1>n
      <3>2. target[q] = m => u <= q
        BY <1>2
      <3>3. QED
        BY <1>n, <2>1, <3>1, <3>2 DEF Before
    <2>3. QED
      BY <2>1, <2>2
  <1>4. QED
    BY <1>3 DEF First

(* What a resolution adds to the history. *)
LEMMA ResolveFacts ==
  ASSUME TypeOK, NEW r \in Registrars, NEW how \in Resolution, Resolve(r, how)
  PROVE  /\ resolved' \in Seq([reg : Registrars, how : Resolution])
         /\ DOMAIN resolved' = DOMAIN resolved \cup {Len(resolved) + 1}
         /\ DOMAIN resolved = 1..Len(resolved) /\ Len(resolved) \in Nat
         /\ \A i \in DOMAIN resolved : resolved'[i] = resolved[i]
         /\ resolved'[Len(resolved) + 1] = [reg |-> r, how |-> how]
  <1>1. [reg |-> r, how |-> how] \in [reg : Registrars, how : Resolution]
    OBVIOUS
  <1>2. resolved \in Seq([reg : Registrars, how : Resolution])
    BY DEF TypeOK
  <1>3. QED
    BY <1>1, <1>2, AppendProperties, LenProperties DEF Resolve

(* Only r is resolved by it, and fired only if that is how. *)
LEMMA ResolveOne ==
  ASSUME TypeOK, NEW r \in Registrars, NEW how \in Resolution, Resolve(r, how)
  PROVE  \A q : /\ Resolved(q)' <=> Resolved(q) \/ q = r
                /\ Fired(q)' <=> Fired(q) \/ (q = r /\ how = "Fired")
  <1>1. TAKE q
  <1> DEFINE n == Len(resolved) + 1
  <1>f. /\ DOMAIN resolved' = DOMAIN resolved \cup {n}
        /\ \A i \in DOMAIN resolved : resolved'[i] = resolved[i]
        /\ resolved'[n].reg = r /\ resolved'[n].how = how
        /\ n \notin DOMAIN resolved
    <2>1. DOMAIN resolved = 1..Len(resolved) /\ Len(resolved) \in Nat
      BY ResolveFacts
    <2>2. n \notin DOMAIN resolved
      BY <2>1
    <2>3. resolved'[n] = [reg |-> r, how |-> how]
      BY ResolveFacts
    <2>4. DOMAIN resolved' = DOMAIN resolved \cup {n}
      BY ResolveFacts
    <2>5. \A i \in DOMAIN resolved : resolved'[i] = resolved[i]
      BY ResolveFacts
    <2>6. QED
      BY <2>2, <2>3, <2>4, <2>5
  <1> HIDE DEF n
  <1>2. Resolved(q)' <=> Resolved(q) \/ q = r
    BY <1>f DEF Resolved
  <1>3. Fired(q)' <=> Fired(q) \/ (q = r /\ how = "Fired")
    BY <1>f DEF Fired
  <1>4. QED
    BY <1>2, <1>3

(* The threads are different, and all but the close thread read the clock. *)
LEMMA Threads ==
  /\ Worker \in Actors /\ CloseThread \in Actors /\ Registrars \subseteq Actors
  /\ Worker \notin Registrars /\ CloseThread \notin Registrars
  /\ Worker # CloseThread
  /\ \A a \in Actors \ {CloseThread} : a \in 0..Registrations
  /\ \A a \in Actors : a \in Registrars \/ a = Worker \/ a = CloseThread
  BY Bounds DEF Bounds, Worker, CloseThread, Actors, Registrars

(* A message is sent or dropped, and the channel keeps its type. *)
LEMMA SendType ==
  ASSUME TypeOK, NEW m \in Seq({"Wake", "Shutdown"})
  PROVE  Send(m) \in Seq({"Wake", "Shutdown"})
  BY ConcatProperties DEF TypeOK, Send

(* Forgetting an instant keeps the type of the instants. *)
LEMMA ForgetType ==
  ASSUME TypeOK, NEW a, Forget(a)
  PROVE  seen' \in [0..Registrations -> 0..MaxNow]
  <1>1. seen \in [0..Registrations -> 0..MaxNow] /\ 0 \in 0..MaxNow
    BY Bounds DEF Bounds, TypeOK
  <1>2. seen' = [seen EXCEPT ![a] = 0]
    BY DEF Forget
  <1>3. QED
    BY <1>1, <1>2

-----------------------------------------------------------------------------
(* The initial states satisfy the invariant. *)
LEMMA InitInv == Init => Inv
  <1> SUFFICES ASSUME Init PROVE Inv
    OBVIOUS
  <1>e. resolved = << >> /\ channel = << >> /\ DOMAIN resolved = {}
    BY DEF Init
  <1>1. TypeOK
    BY <1>e, EmptySeq, Bounds, Threads DEF Bounds, Init, TypeOK, Never
  <1>2. ControlInv
    BY Threads DEF Init, ControlInv, HoldInv, RegistrarPlaces, WorkerPlaces,
                   ClosePlaces
  <1>3. ASSUME NEW r \in Registrars PROVE PlaceInv(r)
    BY <1>e, Threads DEF Init, PlaceInv, InHands, Resolved
  <1>4. OrderInv
    <2>1. \A b \in Registrars : pc[b] = "idle"
      BY Threads DEF Init
    <2>2. \A b : ~Firing(b) /\ ~Fired(b)
      BY <1>e DEF Init, Firing, Fired
    <2>3. FiresInOrder
      BY <1>e DEF FiresInOrder
    <2>4. QED
      BY <2>1, <2>2, <2>3 DEF OrderInv
  <1>5. ParkInv
    BY DEF Init, ParkInv, NoLostNotification
  <1>6. QED
    BY <1>1, <1>2, <1>3, <1>4, <1>5 DEF Inv

(* Every action keeps the types. *)
LEMMA StepType == Inv /\ [Next]_vars => TypeOK'
  <1> SUFFICES ASSUME Inv, [Next]_vars PROVE TypeOK'
    OBVIOUS
  <1> USE Threads
  <1>t. TypeOK
    BY DEF Inv
  <1>n. Registrations \in Nat /\ MaxNow \in Nat
    BY Bounds DEF Bounds
  <1>m. << "Wake" >> \in Seq({"Wake", "Shutdown"})
        /\ << "Wake", "Shutdown" >> \in Seq({"Wake", "Shutdown"})
    OBVIOUS
  <1>1. CASE UNCHANGED vars
    BY <1>t, <1>1 DEF vars, TypeOK
  <1>2. CASE Advance
    BY <1>t, <1>n, <1>2 DEF Advance, TypeOK
  <1>3. CASE Seal
    BY <1>t, <1>3 DEF Seal, TypeOK
  <1>4. CASE Drain
    BY <1>t, <1>4 DEF Drain, TypeOK
  <1>5. CASE Shutdown
    BY <1>t, <1>m, <1>5, SendType DEF Shutdown, TypeOK
  <1>6. CASE JoinWorker
    BY <1>t, <1>6 DEF JoinWorker, TypeOK
  <1>7. ASSUME NEW a \in Registrars \cup {Worker}, ReadNow(a) PROVE TypeOK'
    BY <1>t, <1>7 DEF ReadNow, TypeOK
  <1>8. CASE NextTarget
    <2>1. entries # {} => target[First(entries)] \in 0..MaxNow
      BY <1>t, FirstOf DEF TypeOK
    <2>2. until' \in 0..MaxNow \cup {Never} /\ blocked' \in BOOLEAN
      BY <1>t, <1>8, <2>1 DEF NextTarget, TypeOK
    <2>3. QED
      BY <1>t, <1>8, <2>2 DEF NextTarget, TypeOK
  <1>9. CASE Receive
    <2>1. Tail(channel) \in Seq({"Wake", "Shutdown"})
      BY <1>t, <1>9, HeadTailProperties DEF Receive, TypeOK
    <2>2. QED
      BY <1>t, <1>9, <2>1 DEF Receive, TypeOK
  <1>10. CASE ReceiveTimeout
    BY <1>t, <1>10 DEF ReceiveTimeout, TypeOK
  <1>11. ASSUME NEW a \in Actors, CollectDue(a) PROVE TypeOK'
    <2>1. Due(a) \subseteq Registrars
      BY <1>t DEF Due, TypeOK
    <2>2. blocked' \in BOOLEAN
      BY <1>t, <1>11 DEF CollectDue, TypeOK
    <2>3. gate' \in {{}} \cup {{b} : b \in Actors}
      BY <1>t, <1>11 DEF CollectDue, TypeOK
    <2>4. seen' \in [0..Registrations -> 0..MaxNow]
      BY <1>t, <1>11, ForgetType DEF CollectDue
    <2>5. hands' \in [Actors -> SUBSET Registrars] /\ entries' \subseteq Registrars
      BY <1>t, <1>11, <2>1 DEF CollectDue, TypeOK
    <2>6. /\ UNCHANGED <<now, open, target, pending, told, resolved, parked,
                         channel, until>>
          /\ pc' = [pc EXCEPT ![a] = pc'[a]]
          /\ pc'[a] \in {"notify", "resolve"}
      BY <1>t, <1>11 DEF CollectDue, TypeOK
    <2>7. QED
      BY <1>t, <2>2, <2>3, <2>4, <2>5, <2>6 DEF TypeOK
  <1>12. ASSUME NEW a \in Actors, CommitSignal(a) PROVE TypeOK'
    <2>1. hands[a] # {} /\ hands[a] \subseteq Registrars
      BY <1>t, <1>12 DEF Inv, ControlInv, HoldInv, CommitSignal, TypeOK
    <2> DEFINE r == First(hands[a])
               how == IF a = CloseThread THEN "RuntimeClosed" ELSE "Fired"
    <2>2. r \in hands[a]
      BY <1>t, <2>1, FirstOf DEF TypeOK
    <2>3. how \in Resolution
      BY DEF Resolution
    <2>4. resolved' \in Seq([reg : Registrars, how : Resolution])
      BY <1>t, <1>12, <2>1, <2>2, <2>3, ResolveFacts DEF CommitSignal
    <2> HIDE DEF how
    <2>5. gate' \in {{}} \cup {{b} : b \in Actors}
      <3>1. gate = {} \/ \E b \in Actors : gate = {b}
        BY <1>t DEF TypeOK
      <3>2. gate' = gate \/ gate' = gate \ {a}
        BY <1>12 DEF CommitSignal
      <3>3. gate' = {} \/ \E b \in Actors : gate' = {b}
        BY <3>1, <3>2
      <3>4. QED
        BY <3>3
    <2>6. QED
      BY <1>t, <1>12, <2>1, <2>2, <2>4, <2>5 DEF CommitSignal, TypeOK
  <1>13. ASSUME NEW a \in Actors, NEW ok \in BOOLEAN, Notify(a, ok)
         PROVE  TypeOK'
    BY <1>t, <1>13 DEF Notify, TypeOK
  <1>14. ASSUME NEW r \in Registrars, NEW t \in 0..MaxNow, Reserve(r, t)
         PROVE  TypeOK'
    <2>1. target' = [target EXCEPT ![r] = t] \/ target' = target
      BY <1>14 DEF Reserve
    <2>2. target' \in [Registrars -> 0..MaxNow]
      BY <1>t, <2>1 DEF TypeOK
    <2>3. pending' \subseteq Registrars
      BY <1>t, <1>14 DEF Reserve, TypeOK
    <2>4. QED
      BY <1>t, <1>14, <2>2, <2>3 DEF Reserve, TypeOK
  <1>15. ASSUME NEW r \in Registrars, CommitReservation(r) PROVE TypeOK'
    <2>1. seen' \in [0..Registrations -> 0..MaxNow]
      BY <1>t, <1>15, ForgetType DEF CommitReservation, TypeOK
    <2>2. QED
      BY <1>t, <1>15, <2>1 DEF CommitReservation, TypeOK
  <1>16. ASSUME NEW r \in Registrars, WakeWorker(r) PROVE TypeOK'
    <2>1. channel' \in Seq({"Wake", "Shutdown"})
      BY <1>t, <1>16, <1>m, SendType DEF WakeWorker
    <2>2. QED
      BY <1>t, <1>16, <2>1 DEF WakeWorker, TypeOK
  <1>17. ASSUME NEW r \in Registrars, Abandon(r) PROVE TypeOK'
    <2>1. channel' \in Seq({"Wake", "Shutdown"})
      BY <1>t, <1>17, <1>m, SendType DEF Abandon, TypeOK
    <2>2. QED
      BY <1>t, <1>17, <2>1 DEF Abandon, TypeOK
  <1>18. ASSUME NEW r \in Registrars, Disarm(r) PROVE TypeOK'
    BY <1>t, <1>18 DEF Disarm, TypeOK
  <1>19. ASSUME NEW r \in Registrars, CommitDisarmed(r) PROVE TypeOK'
    <2>1. resolved' \in Seq([reg : Registrars, how : Resolution])
      BY <1>t, <1>19, ResolveFacts DEF CommitDisarmed, Resolution
    <2>2. QED
      BY <1>t, <1>19, <2>1 DEF CommitDisarmed, TypeOK
  <1>20. ASSUME NEW r \in Registrars, NotifyDisarmed(r) PROVE TypeOK'
    BY <1>t, <1>20, <1>m, SendType DEF NotifyDisarmed, TypeOK
  <1>21. ASSUME NEW r \in Registrars, AwaitResolution(r) PROVE TypeOK'
    BY <1>t, <1>21 DEF AwaitResolution, TypeOK
  <1>22. QED
    BY <1>1, <1>2, <1>3, <1>4, <1>5, <1>6, <1>7, <1>8, <1>9, <1>10, <1>11,
       <1>12, <1>13, <1>14, <1>15, <1>16, <1>17, <1>18, <1>19, <1>20, <1>21
       DEF Next, Stop, WorkerStep, Fire, Register, Disarming

(* Every action leaves the threads in their places, with what they hold. *)
LEMMA StepControl == Inv /\ [Next]_vars => ControlInv'
  <1> SUFFICES ASSUME Inv, [Next]_vars PROVE ControlInv'
    OBVIOUS
  <1> USE Threads DEF RegistrarPlaces, WorkerPlaces, ClosePlaces
  <1>t. /\ pc \in [Actors -> RegistrarPlaces \cup WorkerPlaces \cup ClosePlaces]
        /\ hands \in [Actors -> SUBSET Registrars]
        /\ told \in [Actors -> SUBSET Registrars]
    BY DEF Inv, ControlInv, TypeOK
  <1>c. ControlInv
    BY DEF Inv
  <1>1. CASE UNCHANGED vars
    BY <1>c, <1>1 DEF vars, ControlInv, HoldInv
  <1>2. CASE Advance
    BY <1>c, <1>2 DEF Advance, ControlInv, HoldInv
  <1>3. CASE Seal
    BY <1>t, <1>c, <1>3 DEF Seal, ControlInv, HoldInv
  <1>4. CASE Drain
    BY <1>t, <1>c, <1>4 DEF Drain, ControlInv, HoldInv
  <1>5. CASE Shutdown
    BY <1>t, <1>c, <1>5 DEF Shutdown, ControlInv, HoldInv
  <1>6. CASE JoinWorker
    BY <1>t, <1>c, <1>6 DEF JoinWorker, ControlInv, HoldInv
  <1>7. ASSUME NEW a \in Registrars \cup {Worker}, ReadNow(a)
        PROVE  ControlInv'
    BY <1>t, <1>c, <1>7 DEF ReadNow, ControlInv, HoldInv
  <1>8. CASE NextTarget
    BY <1>t, <1>c, <1>8 DEF NextTarget, ControlInv, HoldInv
  <1>9. CASE Receive
    <2>1. /\ pc[Worker] = "receive" /\ pc'[Worker] \in {"now", "exited"}
          /\ \A a \in Actors \ {Worker} : pc'[a] = pc[a]
          /\ UNCHANGED <<hands, told, gate>>
      BY <1>t, <1>9 DEF Receive
    <2>2. \A a \in Actors : HoldInv(a)'
      BY <1>c, <2>1 DEF ControlInv, HoldInv
    <2> QED BY <1>c, <2>1, <2>2 DEF ControlInv
  <1>10. CASE ReceiveTimeout
    BY <1>t, <1>c, <1>10 DEF ReceiveTimeout, ControlInv, HoldInv
  <1>11. ASSUME NEW a \in Actors, CollectDue(a) PROVE ControlInv'
    BY <1>t, <1>c, <1>11 DEF CollectDue, ControlInv, HoldInv
  <1>12. ASSUME NEW a \in Actors, CommitSignal(a) PROVE ControlInv'
    BY <1>t, <1>c, <1>12 DEF CommitSignal, ControlInv, HoldInv
  <1>13. ASSUME NEW a \in Actors, NEW ok \in BOOLEAN, Notify(a, ok)
         PROVE  ControlInv'
    BY <1>t, <1>c, <1>13 DEF Notify, ControlInv, HoldInv
  <1>14. ASSUME NEW r \in Registrars, NEW t \in 0..MaxNow, Reserve(r, t)
         PROVE  ControlInv'
    BY <1>t, <1>c, <1>14 DEF Reserve, ControlInv, HoldInv
  <1>15. ASSUME NEW r \in Registrars, CommitReservation(r) PROVE ControlInv'
    BY <1>t, <1>c, <1>15 DEF CommitReservation, ControlInv, HoldInv
  <1>16. ASSUME NEW r \in Registrars, WakeWorker(r) PROVE ControlInv'
    BY <1>t, <1>c, <1>16 DEF WakeWorker, ControlInv, HoldInv
  <1>17. ASSUME NEW r \in Registrars, Abandon(r) PROVE ControlInv'
    BY <1>t, <1>c, <1>17 DEF Abandon, ControlInv, HoldInv
  <1>18. ASSUME NEW r \in Registrars, Disarm(r) PROVE ControlInv'
    BY <1>t, <1>c, <1>18 DEF Disarm, ControlInv, HoldInv
  <1>19. ASSUME NEW r \in Registrars, CommitDisarmed(r) PROVE ControlInv'
    BY <1>t, <1>c, <1>19 DEF CommitDisarmed, ControlInv, HoldInv
  <1>20. ASSUME NEW r \in Registrars, NotifyDisarmed(r) PROVE ControlInv'
    BY <1>t, <1>c, <1>20 DEF NotifyDisarmed, ControlInv, HoldInv
  <1>21. ASSUME NEW r \in Registrars, AwaitResolution(r) PROVE ControlInv'
    BY <1>t, <1>c, <1>21 DEF AwaitResolution, ControlInv, HoldInv
  <1>22. QED
    BY <1>1, <1>2, <1>3, <1>4, <1>5, <1>6, <1>7, <1>8, <1>9, <1>10, <1>11,
       <1>12, <1>13, <1>14, <1>15, <1>16, <1>17, <1>18, <1>19, <1>20, <1>21
       DEF Next, Stop, WorkerStep, Fire, Register, Disarming

(* A resolution leaves every other registration where it is. *)
LEMMA PlaceAfterResolve ==
  ASSUME TypeOK, NEW r \in Registrars, NEW how \in Resolution, Resolve(r, how),
         ~Resolved(r), NEW q \in Registrars, PlaceInv(q)
  PROVE  \A i, j \in DOMAIN resolved' :
           resolved'[i].reg = q /\ resolved'[j].reg = q => i = j
  <1> DEFINE n == Len(resolved) + 1
  <1>1. DOMAIN resolved' = DOMAIN resolved \cup {n}
    BY ResolveFacts
  <1>2. \A i \in DOMAIN resolved : resolved'[i] = resolved[i]
    BY ResolveFacts
  <1>3. resolved'[n].reg = r
    <2>1. resolved'[n] = [reg |-> r, how |-> how]
      BY ResolveFacts
    <2>2. QED
      BY <2>1
  <1> HIDE DEF n
  <1>4. \A i \in DOMAIN resolved : resolved[i].reg # r
    BY DEF Resolved
  <1>5. QED
    BY <1>1, <1>2, <1>3, <1>4 DEF PlaceInv

(* Every action leaves every registration in one place. *)
LEMMA StepPlace == Inv /\ [Next]_vars => \A q \in Registrars : PlaceInv(q)'
  <1> SUFFICES ASSUME Inv, [Next]_vars, NEW q \in Registrars
               PROVE  PlaceInv(q)'
    OBVIOUS
  <1> USE Threads DEF InHands
  <1>p. PlaceInv(q) /\ \A r \in Registrars : PlaceInv(r)
    BY DEF Inv
  <1>t. /\ pc \in [Actors -> RegistrarPlaces \cup WorkerPlaces \cup ClosePlaces]
        /\ hands \in [Actors -> SUBSET Registrars]
        /\ told \in [Actors -> SUBSET Registrars]
        /\ pending \subseteq Registrars /\ entries \subseteq Registrars
    BY DEF Inv, ControlInv, TypeOK, RegistrarPlaces, WorkerPlaces, ClosePlaces
  <1>h. \A a \in Actors : HoldInv(a)
    BY DEF Inv, ControlInv
  <1>s. UNCHANGED resolved => \A r : Resolved(r)' <=> Resolved(r)
    BY DEF Resolved
  <1>1. CASE UNCHANGED vars
    BY <1>p, <1>s, <1>1 DEF vars, PlaceInv
  <1>2. CASE Advance
    BY <1>p, <1>s, <1>2 DEF Advance, PlaceInv
  <1>3. CASE Seal
    BY <1>t, <1>p, <1>s, <1>3 DEF Seal, PlaceInv
  <1>4. CASE Drain
    BY <1>t, <1>p, <1>h, <1>s, <1>4 DEF Drain, PlaceInv, HoldInv
  <1>5. CASE Shutdown
    BY <1>t, <1>p, <1>s, <1>5 DEF Shutdown, PlaceInv
  <1>6. CASE JoinWorker
    BY <1>t, <1>p, <1>s, <1>6 DEF JoinWorker, PlaceInv
  <1>7. ASSUME NEW a \in Registrars \cup {Worker}, ReadNow(a)
        PROVE  PlaceInv(q)'
    BY <1>t, <1>p, <1>s, <1>7 DEF ReadNow, PlaceInv
  <1>8. CASE NextTarget
    BY <1>t, <1>p, <1>s, <1>8 DEF NextTarget, PlaceInv
  <1>9. CASE Receive
    BY <1>t, <1>p, <1>s, <1>9 DEF Receive, PlaceInv
  <1>10. CASE ReceiveTimeout
    BY <1>t, <1>p, <1>s, <1>10 DEF ReceiveTimeout, PlaceInv
  <1>11. ASSUME NEW a \in Actors, CollectDue(a) PROVE PlaceInv(q)'
    <2>1. Due(a) \subseteq entries
      BY DEF Due
    <2>2. hands[a] = {} /\ pc[a] = "fire"
      BY <1>h, <1>11 DEF CollectDue, HoldInv
    <2>3. /\ hands' = [hands EXCEPT ![a] = Due(a)]
          /\ entries' = entries \ Due(a)
          /\ UNCHANGED <<pending, resolved>>
      BY <1>11 DEF CollectDue
    <2>4. /\ pc' = [pc EXCEPT ![a] = pc'[a]]
          /\ pc'[a] \in {"notify", "resolve"}
      BY <1>t, <1>11 DEF CollectDue
    <2>5. pc'[q] = pc[q] \/ (q = a /\ pc'[q] \in {"notify", "resolve"})
      BY <1>t, <2>4
    <2>6. QED
      BY <1>t, <1>p, <1>s, <2>1, <2>2, <2>3, <2>5 DEF PlaceInv
  <1>12. ASSUME NEW a \in Actors, CommitSignal(a) PROVE PlaceInv(q)'
    <2> DEFINE r == First(hands[a])
               how == IF a = CloseThread THEN "RuntimeClosed" ELSE "Fired"
    <2>1. r \in hands[a] /\ r \in Registrars
      <3>1. hands[a] # {} /\ hands[a] \subseteq Registrars
        BY <1>t, <1>h, <1>12 DEF HoldInv, CommitSignal
      <3>2. QED
        BY <3>1, FirstOf DEF Inv, TypeOK
    <2>2. how \in Resolution /\ Resolve(r, how)
      BY <1>12 DEF CommitSignal, Resolution
    <2>3. /\ hands' = [hands EXCEPT ![a] = @ \ {r}]
          /\ UNCHANGED <<pending, entries>>
          /\ pc'[q] = pc[q] \/ (q = a /\ pc[q] = "resolve" /\ pc'[q] = "notify")
      BY <1>t, <1>12 DEF CommitSignal
    <2> HIDE DEF r, how
    <2>4. ~Resolved(r)
      BY <1>p, <2>1 DEF PlaceInv
    <2>5. \A i, j \in DOMAIN resolved' :
            resolved'[i].reg = q /\ resolved'[j].reg = q => i = j
      BY <1>p, <2>1, <2>2, <2>4, PlaceAfterResolve DEF Inv
    <2>6. Resolved(q)' <=> Resolved(q) \/ q = r
      BY <2>1, <2>2, ResolveOne DEF Inv
    <2>7. r \notin pending \cup entries /\ \A b \in Actors : r \notin hands'[b]
      BY <1>t, <1>p, <2>1, <2>3 DEF PlaceInv
    <2>8. q # r => (InHands(q)' <=> InHands(q))
      BY <1>t, <2>1, <2>3
    <2>9. pc[r] \notin {"idle", "refused"}
      BY <1>p, <2>1 DEF PlaceInv
    <2>10. CASE q = r
      BY <1>p, <2>3, <2>5, <2>6, <2>7, <2>9, <2>10 DEF PlaceInv
    <2>11. CASE q # r
      BY <1>t, <1>p, <2>3, <2>5, <2>6, <2>8, <2>11 DEF PlaceInv
    <2>12. QED
      BY <2>10, <2>11
  <1>13. ASSUME NEW a \in Actors, NEW ok \in BOOLEAN, Notify(a, ok)
         PROVE  PlaceInv(q)'
    <2>1. UNCHANGED <<pending, entries, hands, resolved>>
      BY <1>13 DEF Notify
    <2>2. CASE q = a
      <3>1. pc[q] = "notify" /\ pc'[q] \in {"armed", "gone"}
        BY <1>t, <1>13, <2>2 DEF Notify
      <3>2. QED
        BY <1>p, <1>s, <2>1, <3>1 DEF PlaceInv
    <2>3. CASE q # a
      <3>1. pc'[q] = pc[q]
        BY <1>t, <1>13, <2>3 DEF Notify
      <3>2. QED
        BY <1>p, <1>s, <2>1, <3>1 DEF PlaceInv
    <2>4. QED
      BY <2>2, <2>3
  <1>14. ASSUME NEW r \in Registrars, NEW t \in 0..MaxNow, Reserve(r, t)
         PROVE  PlaceInv(q)'
    BY <1>t, <1>p, <1>s, <1>14 DEF Reserve, PlaceInv
  <1>15. ASSUME NEW r \in Registrars, CommitReservation(r) PROVE PlaceInv(q)'
    <2>1. /\ UNCHANGED <<hands, resolved>>
          /\ pending' = pending \ {r}
          /\ entries' = entries \cup (pending \cap {r})
      BY <1>15 DEF CommitReservation
    <2>2. /\ pc' = [pc EXCEPT ![r] = pc'[r]] /\ pc[r] = "commit"
          /\ pc'[r] \in {"fire", "wake", "armed"}
      BY <1>t, <1>15 DEF CommitReservation
    <2>3. \/ pc'[q] = pc[q]
          \/ pc[q] = "commit" /\ pc'[q] \in {"fire", "wake", "armed"}
      BY <1>t, <2>2
    <2>4. QED
      BY <1>p, <1>s, <2>1, <2>3 DEF PlaceInv
  <1>16. ASSUME NEW r \in Registrars, WakeWorker(r) PROVE PlaceInv(q)'
    BY <1>t, <1>p, <1>s, <1>16 DEF WakeWorker, PlaceInv
  <1>17. ASSUME NEW r \in Registrars, Abandon(r) PROVE PlaceInv(q)'
    BY <1>t, <1>p, <1>s, <1>17 DEF Abandon, PlaceInv
  <1>18. ASSUME NEW r \in Registrars, Disarm(r) PROVE PlaceInv(q)'
    BY <1>t, <1>p, <1>h, <1>s, <1>18 DEF Disarm, PlaceInv, HoldInv
  <1>19. ASSUME NEW r \in Registrars, CommitDisarmed(r) PROVE PlaceInv(q)'
    <2>1. /\ hands[r] = {r} /\ hands' = [hands EXCEPT ![r] = {}]
          /\ UNCHANGED <<pending, entries, pc>>
          /\ Resolve(r, "Disarmed") /\ "Disarmed" \in Resolution
      BY <1>19 DEF CommitDisarmed, Resolution
    <2>2. ~Resolved(r)
      BY <1>p, <2>1 DEF PlaceInv
    <2>3. \A i, j \in DOMAIN resolved' :
            resolved'[i].reg = q /\ resolved'[j].reg = q => i = j
      BY <1>p, <2>1, <2>2, PlaceAfterResolve DEF Inv
    <2>4. Resolved(q)' <=> Resolved(q) \/ q = r
      BY <2>1, ResolveOne DEF Inv
    <2>5. QED
      BY <1>t, <1>p, <2>1, <2>3, <2>4 DEF PlaceInv
  <1>20. ASSUME NEW r \in Registrars, NotifyDisarmed(r) PROVE PlaceInv(q)'
    BY <1>t, <1>p, <1>s, <1>20 DEF NotifyDisarmed, PlaceInv
  <1>21. ASSUME NEW r \in Registrars, AwaitResolution(r) PROVE PlaceInv(q)'
    BY <1>t, <1>p, <1>s, <1>21 DEF AwaitResolution, PlaceInv
  <1>22. QED
    BY <1>1, <1>2, <1>3, <1>4, <1>5, <1>6, <1>7, <1>8, <1>9, <1>10, <1>11,
       <1>12, <1>13, <1>14, <1>15, <1>16, <1>17, <1>18, <1>19, <1>20, <1>21
       DEF Next, Stop, WorkerStep, Fire, Register, Disarming

(* An action that fires nothing, takes nothing out to fire and reserves
   nothing keeps the order.                                                *)
LEMMA QuietOrder ==
  ASSUME OrderInv, TypeOK, target' = target,
         \A r \in Registrars : pc'[r] = "idle" <=> pc[r] = "idle",
         pending' \cup entries' \subseteq pending \cup entries,
         \A r \in Registrars : Firing(r)' => Firing(r),
         \A i \in DOMAIN resolved' : resolved'[i].how = "Fired" =>
            i \in DOMAIN resolved /\ resolved'[i] = resolved[i]
  PROVE  OrderInv'
  <1>r. \A b \in Registrars : 1..b - 1 \subseteq Registrars
    BY Bounds DEF Bounds, Registrars
  <1>e. \A b : Earlier(b)' = Earlier(b) /\ Earlier(b) \subseteq 1..b - 1
    BY DEF Earlier
  <1>f. \A r : Fired(r)' => Fired(r)
    BY DEF Fired
  <1>1. \A b \in Registrars : pc'[b] # "idle" =>
          \A a \in 1..b - 1 : pc'[a] # "idle"
    BY <1>r DEF OrderInv
  <1>2. \A b \in Registrars : Firing(b)' \/ Fired(b)' =>
          \A a \in Earlier(b)' : a \notin pending' \cup entries'
    BY <1>e, <1>f DEF OrderInv
  <1>3. \A b \in Registrars : Fired(b)' => \A a \in Earlier(b)' : ~Firing(a)'
    BY <1>e, <1>f, <1>r DEF OrderInv
  <1>4. FiresInOrder'
    <2>1. FiresInOrder
      BY DEF OrderInv
    <2>2. QED
      BY <2>1 DEF FiresInOrder
  <1>5. QED
    BY <1>1, <1>2, <1>3, <1>4 DEF OrderInv

(* Every action keeps the order. *)
LEMMA StepOrder == Inv /\ [Next]_vars => OrderInv'
  <1> SUFFICES ASSUME Inv, [Next]_vars PROVE OrderInv'
    OBVIOUS
  <1> USE Threads
  <1>p. \A r \in Registrars : PlaceInv(r)
    BY DEF Inv
  <1>t. /\ TypeOK /\ OrderInv
        /\ pc \in [Actors -> RegistrarPlaces \cup WorkerPlaces \cup ClosePlaces]
        /\ hands \in [Actors -> SUBSET Registrars]
    BY DEF Inv, ControlInv, TypeOK, RegistrarPlaces, WorkerPlaces, ClosePlaces
  <1>h. \A a \in Actors : HoldInv(a)
    BY DEF Inv, ControlInv
  <1>r. /\ Registrations \in Nat /\ Registrars \subseteq Nat
        /\ \A b \in Registrars : 1..b - 1 \subseteq Registrars
        /\ \A b : Earlier(b) \subseteq 1..b - 1
    BY Bounds DEF Bounds, Registrars, Earlier
  <1>v. \A i \in DOMAIN resolved : resolved[i].reg \in Registrars
    <2>1. resolved \in Seq([reg : Registrars, how : Resolution])
      BY <1>t DEF TypeOK
    <2>2. \A i \in DOMAIN resolved :
            resolved[i] \in [reg : Registrars, how : Resolution]
      BY <2>1, LenProperties, ElementOfSeq
    <2>3. QED
      BY <2>2
  <1>1. CASE UNCHANGED vars
    BY <1>t, <1>1, QuietOrder DEF vars, Firing
  <1>2. CASE Advance
    <2>1. \A q \in Registrars : pc'[q] = "idle" <=> pc[q] = "idle"
      BY <1>t, <1>2 DEF Advance
    <2>2. \A q \in Registrars : Firing(q)' => Firing(q)
      BY <1>t, <1>2 DEF Advance, Firing
    <2>3. /\ UNCHANGED <<target, resolved>>
          /\ pending' \cup entries' \subseteq pending \cup entries
      BY <1>2 DEF Advance
    <2>4. QED
      BY <1>t, <2>1, <2>2, <2>3, QuietOrder
  <1>3. CASE Seal
    <2>1. \A q \in Registrars : pc'[q] = "idle" <=> pc[q] = "idle"
      BY <1>t, <1>3 DEF Seal
    <2>2. \A q \in Registrars : Firing(q)' => Firing(q)
      BY <1>t, <1>3 DEF Seal, Firing
    <2>3. /\ UNCHANGED <<target, resolved>>
          /\ pending' \cup entries' \subseteq pending \cup entries
      BY <1>3 DEF Seal
    <2>4. QED
      BY <1>t, <2>1, <2>2, <2>3, QuietOrder
  <1>4. CASE Drain
    <2>1. \A q \in Registrars : pc'[q] = "idle" <=> pc[q] = "idle"
      BY <1>t, <1>4 DEF Drain
    <2>2. \A q \in Registrars : Firing(q)' => Firing(q)
      BY <1>t, <1>4 DEF Drain, Firing
    <2>3. /\ UNCHANGED <<target, resolved>>
          /\ pending' \cup entries' \subseteq pending \cup entries
      BY <1>4 DEF Drain
    <2>4. QED
      BY <1>t, <2>1, <2>2, <2>3, QuietOrder
  <1>5. CASE Shutdown
    <2>1. \A q \in Registrars : pc'[q] = "idle" <=> pc[q] = "idle"
      BY <1>t, <1>5 DEF Shutdown
    <2>2. \A q \in Registrars : Firing(q)' => Firing(q)
      BY <1>t, <1>5 DEF Shutdown, Firing
    <2>3. /\ UNCHANGED <<target, resolved>>
          /\ pending' \cup entries' \subseteq pending \cup entries
      BY <1>5 DEF Shutdown
    <2>4. QED
      BY <1>t, <2>1, <2>2, <2>3, QuietOrder
  <1>6. CASE JoinWorker
    <2>1. \A q \in Registrars : pc'[q] = "idle" <=> pc[q] = "idle"
      BY <1>t, <1>6 DEF JoinWorker
    <2>2. \A q \in Registrars : Firing(q)' => Firing(q)
      BY <1>t, <1>6 DEF JoinWorker, Firing
    <2>3. /\ UNCHANGED <<target, resolved>>
          /\ pending' \cup entries' \subseteq pending \cup entries
      BY <1>6 DEF JoinWorker
    <2>4. QED
      BY <1>t, <2>1, <2>2, <2>3, QuietOrder
  <1>7. ASSUME NEW a \in Registrars \cup {Worker}, ReadNow(a)
        PROVE  OrderInv'
    <2>1. \A q \in Registrars : pc'[q] = "idle" <=> pc[q] = "idle"
      BY <1>t, <1>7 DEF ReadNow
    <2>2. \A q \in Registrars : Firing(q)' => Firing(q)
      BY <1>t, <1>7 DEF ReadNow, Firing
    <2>3. /\ UNCHANGED <<target, resolved>>
          /\ pending' \cup entries' \subseteq pending \cup entries
      BY <1>7 DEF ReadNow
    <2>4. QED
      BY <1>t, <2>1, <2>2, <2>3, QuietOrder
  <1>8. CASE NextTarget
    <2>1. \A q \in Registrars : pc'[q] = "idle" <=> pc[q] = "idle"
      BY <1>t, <1>8 DEF NextTarget
    <2>2. \A q \in Registrars : Firing(q)' => Firing(q)
      BY <1>t, <1>8 DEF NextTarget, Firing
    <2>3. /\ UNCHANGED <<target, resolved>>
          /\ pending' \cup entries' \subseteq pending \cup entries
      BY <1>8 DEF NextTarget
    <2>4. QED
      BY <1>t, <2>1, <2>2, <2>3, QuietOrder
  <1>9. CASE Receive
    <2>1. \A q \in Registrars : pc'[q] = "idle" <=> pc[q] = "idle"
      BY <1>t, <1>9 DEF Receive
    <2>2. \A q \in Registrars : Firing(q)' => Firing(q)
      BY <1>t, <1>9 DEF Receive, Firing
    <2>3. /\ UNCHANGED <<target, resolved>>
          /\ pending' \cup entries' \subseteq pending \cup entries
      BY <1>9 DEF Receive
    <2>4. QED
      BY <1>t, <2>1, <2>2, <2>3, QuietOrder
  <1>10. CASE ReceiveTimeout
    <2>1. \A q \in Registrars : pc'[q] = "idle" <=> pc[q] = "idle"
      BY <1>t, <1>10 DEF ReceiveTimeout
    <2>2. \A q \in Registrars : Firing(q)' => Firing(q)
      BY <1>t, <1>10 DEF ReceiveTimeout, Firing
    <2>3. /\ UNCHANGED <<target, resolved>>
          /\ pending' \cup entries' \subseteq pending \cup entries
      BY <1>10 DEF ReceiveTimeout
    <2>4. QED
      BY <1>t, <2>1, <2>2, <2>3, QuietOrder
  <1>11. ASSUME NEW a \in Actors, CollectDue(a) PROVE OrderInv'
    <2>1. /\ pc[a] = "fire" /\ gate = {} /\ a # CloseThread
          /\ hands' = [hands EXCEPT ![a] = Due(a)]
          /\ entries' = entries \ Due(a)
          /\ UNCHANGED <<target, pending, resolved>>
      BY <1>11 DEF CollectDue, Inv, ControlInv, ClosePlaces
    <2>2. pc' = [pc EXCEPT ![a] = pc'[a]] /\ pc'[a] \in {"notify", "resolve"}
      BY <1>t, <1>11 DEF CollectDue
    <2>3. \A r \in Registrars : pc'[r] = "idle" <=> pc[r] = "idle"
      BY <1>t, <2>1, <2>2
    <2>4. \A y \in Actors : pc[y] = "resolve" => y = CloseThread
      BY <1>h, <2>1 DEF HoldInv
    <2>5. \A r : Firing(r)' => r \in Due(a)
      BY <1>t, <2>1, <2>2, <2>4 DEF Firing
    <2>6. ASSUME NEW b \in Due(a), NEW e \in Earlier(b)
          PROVE  e \notin pending' \cup entries'
      <3>1. b \in Registrars /\ e \in Registrars /\ b \in entries
        BY <1>t, <1>r DEF Due, TypeOK
      <3>2. target[e] \in Nat /\ target[b] \in Nat /\ seen[a] \in Nat
        BY <1>t, <2>1, <3>1, Bounds DEF Bounds, TypeOK
      <3>3. e < b /\ target[e] <= target[b] /\ target[b] <= seen[a]
        BY <1>r, <3>1 DEF Earlier, Due
      <3>4. Before(e, b) /\ target[e] <= seen[a]
        BY <1>r, <3>1, <3>2, <3>3 DEF Before
      <3>5. e \notin pending
        BY <3>4 DEF Due, Barred
      <3>6. ~Barred(a, e)
        <4>1. ASSUME NEW p \in pending, target[p] <= seen[a], Before(p, e)
              PROVE  FALSE
          <5>1. p \in Registrars /\ target[p] \in Nat
            BY <1>t, Bounds DEF Bounds, TypeOK
          <5>2. Before(p, b)
            BY <1>r, <3>1, <3>2, <3>4, <4>1, <5>1 DEF Before
          <5>3. QED
            BY <4>1, <5>2 DEF Due, Barred
        <4>2. QED
          BY <4>1 DEF Barred
      <3>7. e \in entries => e \in Due(a)
        BY <3>4, <3>6 DEF Due
      <3>8. QED
        BY <2>1, <3>5, <3>7
    <2>7. \A b : Earlier(b)' = Earlier(b) /\ (Fired(b)' <=> Fired(b))
      BY <2>1 DEF Earlier, Fired
    <2>8. pending' \cup entries' \subseteq pending \cup entries
      BY <2>1
    <2>9. \A b \in Registrars : pc'[b] # "idle" =>
            \A e \in 1..b - 1 : pc'[e] # "idle"
      BY <1>t, <1>r, <2>3 DEF OrderInv
    <2>10. \A b \in Registrars : Firing(b)' \/ Fired(b)' =>
             \A e \in Earlier(b)' : e \notin pending' \cup entries'
      BY <1>t, <2>5, <2>6, <2>7, <2>8 DEF OrderInv
    <2>11. \A b \in Registrars : Fired(b)' =>
             \A e \in Earlier(b)' : ~Firing(e)'
      <3>1. Due(a) \subseteq entries
        BY DEF Due
      <3>2. QED
        BY <1>t, <2>5, <2>7, <3>1 DEF OrderInv
    <2>12. FiresInOrder'
      BY <1>t, <2>1, <2>8 DEF OrderInv, FiresInOrder
    <2>13. QED
      BY <2>9, <2>10, <2>11, <2>12 DEF OrderInv
  <1>12. ASSUME NEW a \in Actors, CommitSignal(a) PROVE OrderInv'
    <2> DEFINE r == First(hands[a])
               how == IF a = CloseThread THEN "RuntimeClosed" ELSE "Fired"
               n == Len(resolved) + 1
    <2>1. /\ r \in hands[a] /\ r \in Registrars
          /\ \A q \in hands[a] \ {r} : Before(r, q)
      <3>1. hands[a] # {} /\ hands[a] \subseteq Registrars
        BY <1>t, <1>h, <1>12 DEF HoldInv, CommitSignal
      <3>2. QED
        BY <1>t, <3>1, FirstOf DEF TypeOK
    <2>2. how \in Resolution /\ Resolve(r, how)
      BY <1>12 DEF CommitSignal, Resolution
    <2>3. /\ hands' = [hands EXCEPT ![a] = @ \ {r}]
          /\ UNCHANGED <<target, pending, entries>>
          /\ pc[a] = "resolve"
      BY <1>12 DEF CommitSignal
    <2>4. pc' = [pc EXCEPT ![a] = pc'[a]] /\ pc'[a] \in {"notify", "resolve"}
      BY <1>t, <1>12 DEF CommitSignal
    <2>5. how = "Fired" <=> a # CloseThread
      OBVIOUS
    <2>6. /\ DOMAIN resolved' = DOMAIN resolved \cup {n}
          /\ DOMAIN resolved = 1..Len(resolved) /\ Len(resolved) \in Nat
          /\ \A i \in DOMAIN resolved : resolved'[i] = resolved[i]
      BY <1>t, <2>1, <2>2, ResolveFacts
    <2>7. resolved'[n].reg = r /\ resolved'[n].how = how
      <3>1. resolved'[n] = [reg |-> r, how |-> how]
        BY <1>t, <2>1, <2>2, ResolveFacts
      <3>2. QED
        BY <3>1
    <2>8. \A q : Fired(q)' <=> Fired(q) \/ (q = r /\ how = "Fired")
      BY <1>t, <2>1, <2>2, ResolveOne
    <2>9. \A i \in DOMAIN resolved : i < n
      BY <2>6
    <2> HIDE DEF r, how, n
    <2>10. \A q \in Registrars : pc'[q] = "idle" <=> pc[q] = "idle"
      BY <1>t, <2>3, <2>4
    <2>11. \A q : Firing(q)' => Firing(q)
      BY <1>t, <2>1, <2>3, <2>4 DEF Firing
    <2>12. CASE how # "Fired"
      <3>1. \A i \in DOMAIN resolved' : resolved'[i].how = "Fired" =>
              i \in DOMAIN resolved /\ resolved'[i] = resolved[i]
        BY <2>6, <2>7, <2>12
      <3>2. QED
        BY <1>t, <2>3, <2>10, <2>11, <3>1, QuietOrder
    <2>13. CASE how = "Fired"
      <3>1. a # CloseThread /\ Firing(r)
        BY <2>1, <2>3, <2>5, <2>13 DEF Firing
      <3>2. ASSUME NEW e \in Earlier(r) PROVE ~Firing(e)'
        <4>1. \A y \in Actors \ {CloseThread} : pc[y] = "resolve" => y = a
          BY <1>h, <2>3, <3>1 DEF HoldInv
        <4>2. Firing(e)' => e \in hands[a] \ {r}
          BY <1>t, <2>1, <2>3, <2>4, <4>1 DEF Firing
        <4>3. e \in Registrars /\ e < r /\ target[e] <= target[r]
          <5>1. r \in Nat /\ 1..r - 1 \subseteq Registrars
            BY <1>r, <2>1
          <5>2. QED
            BY <5>1 DEF Earlier
        <4>4. target[e] \in Nat /\ target[r] \in Nat
          BY <1>t, <2>1, <4>3, Bounds DEF Bounds, TypeOK
        <4>5. e \in Nat /\ r \in Nat
          BY <1>r, <2>1, <4>3
        <4>6. ~Before(r, e)
          BY <4>3, <4>4, <4>5 DEF Before
        <4>7. QED
          BY <2>1, <4>2, <4>6
      <3>3. \A b : Earlier(b)' = Earlier(b)
        BY <2>3 DEF Earlier
      <3>4. \A b \in Registrars : pc'[b] # "idle" =>
              \A e \in 1..b - 1 : pc'[e] # "idle"
        BY <1>t, <1>r, <2>10 DEF OrderInv
      <3>5. \A b \in Registrars : Firing(b)' \/ Fired(b)' =>
              \A e \in Earlier(b)' : e \notin pending' \cup entries'
        BY <1>t, <2>3, <2>8, <2>11, <3>1, <3>3 DEF OrderInv
      <3>6. \A b \in Registrars : Fired(b)' =>
              \A e \in Earlier(b)' : ~Firing(e)'
        BY <1>t, <2>8, <2>11, <3>2, <3>3 DEF OrderInv
      <3>7. FiresInOrder'
        <4>1. ASSUME NEW i \in DOMAIN resolved', resolved'[i].how = "Fired",
                     NEW e \in 1..resolved'[i].reg - 1,
                     target[e] <= target[resolved'[i].reg]
              PROVE  /\ e \notin pending \cup entries
                     /\ \A j \in DOMAIN resolved' :
                          resolved'[j].reg = e /\ resolved'[j].how = "Fired"
                            => j < i
          <5>1. CASE i = n
            <6>1. resolved'[i].reg = r /\ e \in Earlier(r) /\ e # r
              BY <1>r, <2>1, <2>7, <4>1, <5>1 DEF Earlier
            <6>2. e \notin pending \cup entries
              BY <1>t, <2>1, <3>1, <6>1 DEF OrderInv
            <6>3. QED
              BY <2>6, <2>7, <2>9, <5>1, <6>1, <6>2
          <5>2. CASE i \in DOMAIN resolved
            <6> DEFINE b == resolved[i].reg
            <6>1. resolved'[i] = resolved[i] /\ b \in Registrars /\ Fired(b)
              BY <1>v, <2>6, <4>1, <5>2 DEF Fired
            <6>2. e \in Earlier(b) /\ e # r
              BY <1>t, <3>1, <4>1, <6>1 DEF Earlier, OrderInv
            <6>3. QED
              BY <1>t, <2>6, <2>7, <4>1, <5>2, <6>1, <6>2
                 DEF OrderInv, FiresInOrder
          <5>3. QED
            BY <2>6, <4>1, <5>1, <5>2
        <4>2. QED
          BY <2>3, <4>1 DEF FiresInOrder
      <3>8. QED
        BY <3>4, <3>5, <3>6, <3>7 DEF OrderInv
    <2>14. QED
      BY <2>12, <2>13
  <1>13. ASSUME NEW a \in Actors, NEW ok \in BOOLEAN, Notify(a, ok)
         PROVE  OrderInv'
    <2>1. \A q \in Registrars : pc'[q] = "idle" <=> pc[q] = "idle"
      BY <1>t, <1>13 DEF Notify
    <2>2. \A q \in Registrars : Firing(q)' => Firing(q)
      BY <1>t, <1>13 DEF Notify, Firing
    <2>3. /\ UNCHANGED <<target, resolved>>
          /\ pending' \cup entries' \subseteq pending \cup entries
      BY <1>13 DEF Notify
    <2>4. QED
      BY <1>t, <2>1, <2>2, <2>3, QuietOrder
  <1>14. ASSUME NEW r \in Registrars, NEW t \in 0..MaxNow, Reserve(r, t)
         PROVE  OrderInv'
    <2>1. /\ pc[r] = "idle" /\ \A q \in 1..r - 1 : pc[q] # "idle"
          /\ UNCHANGED <<entries, hands, resolved>>
          /\ pending' \subseteq pending \cup {r}
          /\ \A q \in Registrars \ {r} : target'[q] = target[q]
      BY <1>t, <1>14 DEF Reserve, TypeOK
    <2>2. /\ pc' = [pc EXCEPT ![r] = pc'[r]]
          /\ pc'[r] \in {"now", "refused"}
      BY <1>t, <1>14 DEF Reserve
    <2>3. \A b \in Registrars : pc'[b] # "idle" =>
            \A e \in 1..b - 1 : pc'[e] # "idle"
      BY <1>t, <1>r, <2>1, <2>2 DEF OrderInv
    <2>4. \A b : (Firing(b)' <=> Firing(b)) /\ (Fired(b)' <=> Fired(b))
      BY <1>t, <2>1, <2>2 DEF Firing, Fired
    <2>5. \A b \in Registrars : Firing(b) \/ Fired(b) =>
            pc[b] # "idle" /\ \A e \in 1..b - 1 : e # r
      BY <1>p, <1>t, <2>1 DEF PlaceInv, InHands, Firing, Fired, Resolved, OrderInv
    <2>6. \A b \in Registrars : Firing(b) \/ Fired(b) =>
            /\ Earlier(b)' = Earlier(b) /\ r \notin Earlier(b)
      BY <1>r, <2>1, <2>5 DEF Earlier
    <2>7. \A b \in Registrars : Firing(b)' \/ Fired(b)' =>
            \A e \in Earlier(b)' : e \notin pending' \cup entries'
      BY <1>t, <2>1, <2>4, <2>6 DEF OrderInv
    <2>8. \A b \in Registrars : Fired(b)' =>
            \A e \in Earlier(b)' : ~Firing(e)'
      BY <1>t, <2>4, <2>6 DEF OrderInv
    <2>9. FiresInOrder'
      <3>1. ASSUME NEW i \in DOMAIN resolved, resolved[i].how = "Fired",
                   NEW e \in 1..resolved[i].reg - 1,
                   target'[e] <= target'[resolved[i].reg]
            PROVE  /\ e \notin pending' \cup entries'
                   /\ \A j \in DOMAIN resolved :
                        resolved[j].reg = e /\ resolved[j].how = "Fired" => j < i
        <4> DEFINE b == resolved[i].reg
        <4>1. b \in Registrars /\ Fired(b)
          BY <1>v, <3>1 DEF Fired
        <4>2. e # r /\ target[e] <= target[b] /\ e \in Earlier(b)
          BY <1>r, <2>1, <2>5, <2>6, <3>1, <4>1 DEF Earlier
        <4>3. QED
          BY <1>t, <2>1, <3>1, <4>2 DEF OrderInv, FiresInOrder
      <3>2. QED
        BY <2>1, <3>1 DEF FiresInOrder
    <2>10. QED
      BY <2>3, <2>7, <2>8, <2>9 DEF OrderInv
  <1>15. ASSUME NEW r \in Registrars, CommitReservation(r) PROVE OrderInv'
    <2>1. \A q \in Registrars : pc'[q] = "idle" <=> pc[q] = "idle"
      BY <1>t, <1>15 DEF CommitReservation
    <2>2. \A q \in Registrars : Firing(q)' => Firing(q)
      BY <1>t, <1>15 DEF CommitReservation, Firing
    <2>3. /\ UNCHANGED <<target, resolved>>
          /\ pending' \cup entries' \subseteq pending \cup entries
      BY <1>15 DEF CommitReservation
    <2>4. QED
      BY <1>t, <2>1, <2>2, <2>3, QuietOrder
  <1>16. ASSUME NEW r \in Registrars, WakeWorker(r) PROVE OrderInv'
    <2>1. \A q \in Registrars : pc'[q] = "idle" <=> pc[q] = "idle"
      BY <1>t, <1>16 DEF WakeWorker
    <2>2. \A q \in Registrars : Firing(q)' => Firing(q)
      BY <1>t, <1>16 DEF WakeWorker, Firing
    <2>3. /\ UNCHANGED <<target, resolved>>
          /\ pending' \cup entries' \subseteq pending \cup entries
      BY <1>16 DEF WakeWorker
    <2>4. QED
      BY <1>t, <2>1, <2>2, <2>3, QuietOrder
  <1>17. ASSUME NEW r \in Registrars, Abandon(r) PROVE OrderInv'
    <2>1. \A q \in Registrars : pc'[q] = "idle" <=> pc[q] = "idle"
      BY <1>t, <1>17 DEF Abandon
    <2>2. \A q \in Registrars : Firing(q)' => Firing(q)
      BY <1>t, <1>17 DEF Abandon, Firing
    <2>3. /\ UNCHANGED <<target, resolved>>
          /\ pending' \cup entries' \subseteq pending \cup entries
      BY <1>17 DEF Abandon
    <2>4. QED
      BY <1>t, <2>1, <2>2, <2>3, QuietOrder
  <1>18. ASSUME NEW r \in Registrars, Disarm(r) PROVE OrderInv'
    <2>1. \A q \in Registrars : pc'[q] = "idle" <=> pc[q] = "idle"
      BY <1>t, <1>18 DEF Disarm
    <2>2. \A q \in Registrars : Firing(q)' => Firing(q)
      BY <1>t, <1>18 DEF Disarm, Firing
    <2>3. /\ UNCHANGED <<target, resolved>>
          /\ pending' \cup entries' \subseteq pending \cup entries
      BY <1>18 DEF Disarm
    <2>4. QED
      BY <1>t, <2>1, <2>2, <2>3, QuietOrder
  <1>19. ASSUME NEW r \in Registrars, CommitDisarmed(r) PROVE OrderInv'
    <2>1. \A q \in Registrars : Firing(q)' => Firing(q)
      BY <1>t, <1>19 DEF CommitDisarmed, Firing
    <2>2. Resolve(r, "Disarmed") /\ "Disarmed" \in Resolution
      BY <1>19 DEF CommitDisarmed, Resolution
    <2>3. \A i \in DOMAIN resolved' : resolved'[i].how = "Fired" =>
            i \in DOMAIN resolved /\ resolved'[i] = resolved[i]
      <3> DEFINE n == Len(resolved) + 1
      <3>1. resolved'[n] = [reg |-> r, how |-> "Disarmed"]
        BY <1>t, <2>2, ResolveFacts
      <3>2. resolved'[n].how # "Fired"
        BY <3>1
      <3>3. /\ DOMAIN resolved' = DOMAIN resolved \cup {n}
            /\ \A i \in DOMAIN resolved : resolved'[i] = resolved[i]
        BY <1>t, <2>2, ResolveFacts
      <3> HIDE DEF n
      <3>4. QED
        BY <3>2, <3>3
    <2>4. UNCHANGED <<pc, target, pending, entries>>
      BY <1>19 DEF CommitDisarmed
    <2>5. QED
      BY <1>t, <2>1, <2>3, <2>4, QuietOrder
  <1>20. ASSUME NEW r \in Registrars, NotifyDisarmed(r) PROVE OrderInv'
    <2>1. \A q \in Registrars : pc'[q] = "idle" <=> pc[q] = "idle"
      BY <1>t, <1>20 DEF NotifyDisarmed
    <2>2. \A q \in Registrars : Firing(q)' => Firing(q)
      BY <1>t, <1>20 DEF NotifyDisarmed, Firing
    <2>3. /\ UNCHANGED <<target, resolved>>
          /\ pending' \cup entries' \subseteq pending \cup entries
      BY <1>20 DEF NotifyDisarmed
    <2>4. QED
      BY <1>t, <2>1, <2>2, <2>3, QuietOrder
  <1>21. ASSUME NEW r \in Registrars, AwaitResolution(r) PROVE OrderInv'
    <2>1. \A q \in Registrars : pc'[q] = "idle" <=> pc[q] = "idle"
      BY <1>t, <1>21 DEF AwaitResolution
    <2>2. \A q \in Registrars : Firing(q)' => Firing(q)
      BY <1>t, <1>21 DEF AwaitResolution, Firing
    <2>3. /\ UNCHANGED <<target, resolved>>
          /\ pending' \cup entries' \subseteq pending \cup entries
      BY <1>21 DEF AwaitResolution
    <2>4. QED
      BY <1>t, <2>1, <2>2, <2>3, QuietOrder
  <1>22. QED
    BY <1>1, <1>2, <1>3, <1>4, <1>5, <1>6, <1>7, <1>8, <1>9, <1>10, <1>11,
       <1>12, <1>13, <1>14, <1>15, <1>16, <1>17, <1>18, <1>19, <1>20, <1>21
       DEF Next, Stop, WorkerStep, Fire, Register, Disarming

(* An action that resolves nothing, parks nobody and tells nobody. *)
LEMMA QuietPark ==
  ASSUME ParkInv, parked' \subseteq parked, told' = told, resolved' = resolved,
         \A r \in parked' : pc'[r] = pc[r]
  PROVE  ParkInv'
  BY DEF ParkInv, NoLostNotification, Resolved

(* Every action tells those it has to. *)
LEMMA StepPark == Inv /\ [Next]_vars => ParkInv'
  <1> SUFFICES ASSUME Inv, [Next]_vars PROVE ParkInv'
    OBVIOUS
  <1> USE Threads
  <1>t. /\ TypeOK /\ ParkInv
        /\ pc \in [Actors -> RegistrarPlaces \cup WorkerPlaces \cup ClosePlaces]
        /\ hands \in [Actors -> SUBSET Registrars]
        /\ told \in [Actors -> SUBSET Registrars]
    BY DEF Inv, ControlInv, TypeOK, RegistrarPlaces, WorkerPlaces, ClosePlaces
  <1>h. \A a \in Actors : HoldInv(a)
    BY DEF Inv, ControlInv
  <1>w. parked \subseteq Registrars /\ \A r \in parked : pc[r] = "wait"
    BY <1>t DEF ParkInv, TypeOK
  <1>1. CASE UNCHANGED vars
    BY <1>t, <1>1, QuietPark DEF vars
  <1>2. CASE Advance
    BY <1>t, <1>w, <1>2, QuietPark DEF Advance
  <1>3. CASE Seal
    BY <1>t, <1>w, <1>3, QuietPark DEF Seal
  <1>4. CASE Drain
    BY <1>t, <1>w, <1>4, QuietPark DEF Drain
  <1>5. CASE Shutdown
    BY <1>t, <1>w, <1>5, QuietPark DEF Shutdown
  <1>6. CASE JoinWorker
    BY <1>t, <1>w, <1>6, QuietPark DEF JoinWorker
  <1>7. ASSUME NEW a \in Registrars \cup {Worker}, ReadNow(a) PROVE ParkInv'
    BY <1>t, <1>w, <1>7, QuietPark DEF ReadNow
  <1>8. CASE NextTarget
    BY <1>t, <1>w, <1>8, QuietPark DEF NextTarget
  <1>9. CASE Receive
    BY <1>t, <1>w, <1>9, QuietPark DEF Receive
  <1>10. CASE ReceiveTimeout
    BY <1>t, <1>w, <1>10, QuietPark DEF ReceiveTimeout
  <1>11. ASSUME NEW a \in Actors, CollectDue(a) PROVE ParkInv'
    <2>1. pc[a] = "fire" /\ UNCHANGED <<parked, told, resolved>>
      BY <1>11 DEF CollectDue
    <2>2. pc' = [pc EXCEPT ![a] = pc'[a]]
      BY <1>t, <1>11 DEF CollectDue
    <2>3. QED
      BY <1>t, <1>w, <2>1, <2>2, QuietPark
  <1>12. ASSUME NEW a \in Actors, CommitSignal(a) PROVE ParkInv'
    <2> DEFINE r == First(hands[a])
               how == IF a = CloseThread THEN "RuntimeClosed" ELSE "Fired"
    <2>1. r \in Registrars
      <3>1. hands[a] # {} /\ hands[a] \subseteq Registrars
        BY <1>t, <1>h, <1>12 DEF HoldInv, CommitSignal
      <3>2. QED
        BY <1>t, <3>1, FirstOf DEF TypeOK
    <2>2. how \in Resolution /\ Resolve(r, how)
      BY <1>12 DEF CommitSignal, Resolution
    <2>3. \A q : Resolved(q)' <=> Resolved(q) \/ q = r
      BY <1>t, <2>1, <2>2, ResolveOne
    <2>4. told' = [told EXCEPT ![a] = @ \cup {r}] /\ parked' = parked
          /\ pc[a] = "resolve"
      BY <1>12 DEF CommitSignal
    <2>5. pc' = [pc EXCEPT ![a] = pc'[a]]
      BY <1>t, <1>12 DEF CommitSignal
    <2> HIDE DEF r, how
    <2>6. \A q \in parked' : pc'[q] = "wait"
      BY <1>t, <1>w, <2>4, <2>5
    <2>7. \A b \in Actors : \A q \in told'[b] : Resolved(q)'
      BY <1>t, <2>3, <2>4 DEF ParkInv
    <2>8. NoLostNotification'
      BY <1>t, <2>3, <2>4 DEF ParkInv, NoLostNotification
    <2>9. QED
      BY <2>6, <2>7, <2>8 DEF ParkInv
  <1>13. ASSUME NEW a \in Actors, NEW ok \in BOOLEAN, Notify(a, ok)
         PROVE  ParkInv'
    <2>1. /\ parked' = parked \ told[a] /\ told' = [told EXCEPT ![a] = {}]
          /\ resolved' = resolved /\ pc[a] = "notify"
      BY <1>13 DEF Notify, Notified
    <2>2. pc' = [pc EXCEPT ![a] = pc'[a]]
      BY <1>t, <1>13 DEF Notify
    <2>3. \A q \in parked' : pc'[q] = "wait"
      BY <1>t, <1>w, <2>1, <2>2
    <2>4. \A q : Resolved(q)' <=> Resolved(q)
      BY <2>1 DEF Resolved
    <2>5. QED
      BY <1>t, <2>1, <2>3, <2>4 DEF ParkInv, NoLostNotification
  <1>14. ASSUME NEW r \in Registrars, NEW t \in 0..MaxNow, Reserve(r, t)
         PROVE  ParkInv'
    <2>1. pc[r] = "idle" /\ UNCHANGED <<parked, told, resolved>>
      BY <1>14 DEF Reserve
    <2>2. pc' = [pc EXCEPT ![r] = pc'[r]]
      BY <1>t, <1>14 DEF Reserve
    <2>3. QED
      BY <1>t, <1>w, <2>1, <2>2, QuietPark
  <1>15. ASSUME NEW r \in Registrars, CommitReservation(r) PROVE ParkInv'
    <2>1. pc[r] = "commit" /\ UNCHANGED <<parked, told, resolved>>
      BY <1>15 DEF CommitReservation
    <2>2. pc' = [pc EXCEPT ![r] = pc'[r]]
      BY <1>t, <1>15 DEF CommitReservation
    <2>3. QED
      BY <1>t, <1>w, <2>1, <2>2, QuietPark
  <1>16. ASSUME NEW r \in Registrars, WakeWorker(r) PROVE ParkInv'
    BY <1>t, <1>w, <1>16, QuietPark DEF WakeWorker
  <1>17. ASSUME NEW r \in Registrars, Abandon(r) PROVE ParkInv'
    BY <1>t, <1>w, <1>17, QuietPark DEF Abandon
  <1>18. ASSUME NEW r \in Registrars, Disarm(r) PROVE ParkInv'
    BY <1>t, <1>w, <1>18, QuietPark DEF Disarm
  <1>19. ASSUME NEW r \in Registrars, CommitDisarmed(r) PROVE ParkInv'
    <2>1. Resolve(r, "Disarmed") /\ "Disarmed" \in Resolution
      BY <1>19 DEF CommitDisarmed, Resolution
    <2>2. \A q : Resolved(q)' <=> Resolved(q) \/ q = r
      BY <1>t, <2>1, ResolveOne
    <2>3. /\ UNCHANGED <<pc, parked>> /\ told' = [told EXCEPT ![r] = {r}]
          /\ told[r] = {}
      BY <1>h, <1>19 DEF CommitDisarmed, HoldInv
    <2>4. QED
      BY <1>t, <2>2, <2>3 DEF ParkInv, NoLostNotification
  <1>20. ASSUME NEW r \in Registrars, NotifyDisarmed(r) PROVE ParkInv'
    <2>1. /\ parked' = parked \ {r} /\ told[r] = {r}
          /\ told' = [told EXCEPT ![r] = {}] /\ resolved' = resolved
          /\ pc' = [pc EXCEPT ![r] = "disarmed"]
      BY <1>20 DEF NotifyDisarmed
    <2>2. \A q : Resolved(q)' <=> Resolved(q)
      BY <2>1 DEF Resolved
    <2>3. QED
      BY <1>t, <1>w, <2>1, <2>2 DEF ParkInv, NoLostNotification
  <1>21. ASSUME NEW r \in Registrars, AwaitResolution(r) PROVE ParkInv'
    <2>1. /\ UNCHANGED <<told, resolved>> /\ pc[r] = "wait" /\ r \notin parked
          /\ \/ Resolved(r) /\ pc' = [pc EXCEPT ![r] = "disarmed"]
                /\ parked' = parked
             \/ ~Resolved(r) /\ pc' = pc /\ parked' = parked \cup {r}
      BY <1>21 DEF AwaitResolution
    <2>2. \A q : Resolved(q)' <=> Resolved(q)
      BY <2>1 DEF Resolved
    <2>3. QED
      BY <1>t, <1>w, <2>1, <2>2 DEF ParkInv, NoLostNotification
  <1>22. QED
    BY <1>1, <1>2, <1>3, <1>4, <1>5, <1>6, <1>7, <1>8, <1>9, <1>10, <1>11,
       <1>12, <1>13, <1>14, <1>15, <1>16, <1>17, <1>18, <1>19, <1>20, <1>21
       DEF Next, Stop, WorkerStep, Fire, Register, Disarming

-----------------------------------------------------------------------------
(* The invariant holds in every state the scheduler reaches, whatever
   interleaving of registrars, worker and close.                           *)
THEOREM Invariance == Spec => []Inv
  <1>1. Init => Inv
    BY InitInv
  <1>2. Inv /\ [Next]_vars => Inv'
    BY StepType, StepControl, StepPlace, StepOrder, StepPark DEF Inv
  <1>3. QED
    BY <1>1, <1>2, PTL DEF Spec

(* Type correctness of the scheduler. *)
THEOREM TypeCorrect == Spec => []TypeOK
  <1>1. Inv => TypeOK
    BY DEF Inv
  <1>2. QED
    BY <1>1, Invariance, PTL

(* However fire, disarm, drop and drain race for a registration, one of them
   resolves it, once, and none forgets it.                                 *)
THEOREM ResolvedOnce == Spec => []ResolvedExactlyOnce
  <1>1. Inv => ResolvedExactlyOnce
    <2> SUFFICES ASSUME Inv, NEW r \in Registrars
                 PROVE  LET places ==
                          {<<"pending", q>> : q \in pending \cap {r}}
                          \cup {<<"armed", q>> : q \in entries \cap {r}}
                          \cup {<<"hands", a>> : a \in {b \in Actors : r \in hands[b]}}
                          \cup {<<"resolved", i>> :
                                  i \in {j \in DOMAIN resolved : resolved[j].reg = r}}
                        IN IF pc[r] \in {"idle", "refused"} THEN places = {}
                           ELSE \/ Cardinality(places) = 1
                                \/ places = {} /\ pc[r] = "gone"
      BY DEF ResolvedExactlyOnce
    <2> DEFINE P == {<<"pending", q>> : q \in pending \cap {r}}
               E == {<<"armed", q>> : q \in entries \cap {r}}
               H == {<<"hands", a>> : a \in {b \in Actors : r \in hands[b]}}
               D == {<<"resolved", i>> :
                       i \in {j \in DOMAIN resolved : resolved[j].reg = r}}
               places == P \cup E \cup H \cup D
    <2>p. PlaceInv(r)
      BY DEF Inv
    <2>1. /\ r \in pending => P = {<<"pending", r>>}
          /\ r \notin pending => P = {}
          /\ r \in entries => E = {<<"armed", r>>}
          /\ r \notin entries => E = {}
      OBVIOUS
    <2>2. /\ \A a \in Actors : r \in hands[a] => H = {<<"hands", a>>}
          /\ ~InHands(r) => H = {}
      BY <2>p DEF PlaceInv, InHands
    <2>3. /\ \A i \in DOMAIN resolved :
               resolved[i].reg = r => D = {<<"resolved", i>>}
          /\ ~Resolved(r) => D = {}
      BY <2>p DEF PlaceInv, Resolved
    <2> HIDE DEF P, E, H, D
    <2>4. pc[r] \in {"idle", "refused"} => places = {}
      BY <2>p, <2>1, <2>2, <2>3 DEF PlaceInv
    <2>5. places = {} \/ \E x : places = {x}
      <3>1. CASE r \in pending
        BY <2>p, <2>1, <2>2, <2>3, <3>1 DEF PlaceInv
      <3>2. CASE r \in entries
        BY <2>p, <2>1, <2>2, <2>3, <3>2 DEF PlaceInv
      <3>3. CASE r \notin pending \cup entries /\ InHands(r)
        BY <2>p, <2>1, <2>2, <2>3, <3>3 DEF PlaceInv, InHands
      <3>4. CASE r \notin pending \cup entries /\ ~InHands(r)
        BY <2>1, <2>2, <2>3, <3>4 DEF Resolved
      <3>5. QED
        BY <3>1, <3>2, <3>3, <3>4
    <2>6. pc[r] \notin {"idle", "refused", "gone"} => places # {}
      BY <2>p, <2>1, <2>2, <2>3 DEF PlaceInv, InHands, Resolved
    <2>7. \A x : places = {x} => Cardinality(places) = 1
      BY FS_Singleton
    <2> HIDE DEF places
    <2>8. IF pc[r] \in {"idle", "refused"} THEN places = {}
          ELSE \/ Cardinality(places) = 1
               \/ places = {} /\ pc[r] = "gone"
      BY <2>4, <2>5, <2>6, <2>7
    <2>9. QED
      BY <2>8 DEF places, P, E, H, D
  <1>2. QED
    BY <1>1, Invariance, PTL

(* No registration fires while one reserved before it, with an earlier or
   equal target, is still to fire: the gate and the reservations under way
   order the batches of all the threads that fire.                         *)
THEOREM OrderKept == Spec => []FiresInOrder
  <1>1. Inv => FiresInOrder
    BY DEF Inv, OrderInv
  <1>2. QED
    BY <1>1, Invariance, PTL

(* Whoever sleeps on a resolved signal is still to be notified, a panicking
   waker of somebody else included.                                        *)
THEOREM SleepersAreTold == Spec => []NoLostNotification
  <1>1. Inv => NoLostNotification
    BY DEF Inv, ParkInv
  <1>2. QED
    BY <1>1, Invariance, PTL
=============================================================================
