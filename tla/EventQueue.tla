----------------------------- MODULE EventQueue -----------------------------
(***************************************************************************)
(* Event publication of a Runtime and the bounded queues its subscribers   *)
(* pull from: event.rs, and subscribe, try_publish_event and close_events  *)
(* of runtime.rs.  A publication is one critical section of the            *)
(* subscriptions mutex, with the notification of the readers, which the    *)
(* code gives right after it lets the queue's mutex go; a step of a reader *)
(* is one critical section of its queue's mutex.                           *)
(*                                                                         *)
(* A queued entry, an event or a gap, is a record of the range of          *)
(* sequences it stands for, of how many events, and of its class.  A       *)
(* filter is the choice of the subscriptions that accept an event.         *)
(***************************************************************************)
EXTENDS Naturals, Sequences, FiniteSets, SequencesExt

CONSTANTS Subscriptions, Readers,
          Capacity,      \* SubscriptionOptions.capacity, of every subscription
          MaxEvents      \* bound: how many events are published before the final one

ASSUME CapacityAssumption == Capacity \in Nat \ {0}
ASSUME Bound == MaxEvents \in Nat

VARIABLES
  admission,     \* RuntimeState, as far as subscribe looks at it
  eventsClosed,  \* RuntimeInner.events_closed
  nextSequence,  \* RuntimeInner.next_sequence
  status,        \* where each subscription is in its life
  queue,         \* QueueState of each subscription
  readerActive,  \* SubscriptionInner.reader_active
  reader,        \* where each reader is
  accepted,      \* history: the sequences that passed each subscription's filter
  delivered,     \* history: what each subscription's readers got
  final          \* history: the sequence of the final event, zero before it

vars == <<admission, eventsClosed, nextSequence, status, queue, readerActive,
          reader, accepted, delivered, final>>

(* RuntimeInner.subscriptions: those whose handle is not dropped. *)
Live  == {s \in Subscriptions : status[s] = "Live"}
Modes == {"Poll", "For", "Infinite"}
Idle  == [pc |-> "Idle"]
At(pc, s, mode) == [pc |-> pc, sub |-> s, mode |-> mode]

Concrete(n, class) == [first |-> n, last |-> n, count |-> 1, class |-> class]
IsGap(q, i) == i \in DOMAIN q /\ q[i].class = "Gap"

(* Mutation of Merge: a gap taken in counts as one event. *)
MergeByEntries(a, b) == [first |-> a.first, last |-> b.last, count |-> a.count + 1,
                         class |-> "Gap"]
(* PendingGap::merge, of two gaps of which a is the earlier one. *)
Merge(a, b) == [first |-> a.first, last |-> b.last, count |-> a.count + b.count,
                class |-> "Gap"]

(* One gap in the place of the i-th entry and of the one after it. *)
Fuse(q, i) == SubSeq(q, 1, i - 1) \o <<Merge(q[i], q[i + 1])>> \o SubSeq(q, i + 2, Len(q))

(* The i-th entry gives way to a gap, which takes in the gaps beside it. *)
GapAt(q, i) ==
  LET dropped == [q EXCEPT ![i].class = "Gap"]
      onward  == IF IsGap(q, i + 1) THEN Fuse(dropped, i) ELSE dropped
  IN  IF IsGap(q, i - 1) THEN Fuse(onward, i - 1) ELSE onward

(* Where the oldest event of any class is, and of those to be shed first. *)
Oldest(q) == SelectInSeq(q, LAMBDA x : x.class # "Gap")
(* Mutation of OldestOrdinary: age alone decides. *)
OldestOfAnyClass(q) == Oldest(q)
OldestOrdinary(q) == SelectInSeq(q, LAMBDA x : x.class = "Ordinary")

(* The queue after event e: whom it displaces when the queue is full. *)
EnqueueAccepted(state, e) ==
  LET q        == state.entries
      ordinary == OldestOrdinary(q)
  IN  IF state.closed THEN state
      ELSE IF state.eventCount < Capacity
           THEN [state EXCEPT !.entries = Append(q, e), !.eventCount = @ + 1]
      ELSE IF ordinary # 0
           THEN [state EXCEPT !.entries = Append(GapAt(q, ordinary), e)]
      ELSE IF e.class = "Critical"
           THEN [state EXCEPT !.entries = Append(GapAt(q, Oldest(q)), e)]
      ELSE [state EXCEPT !.entries = GapAt(Append(q, e), Len(q) + 1)]

(* The queue with the final event, which no filter stops, and closed. *)
WithFinal(state, e) == [EnqueueAccepted(state, e) EXCEPT !.closed = TRUE]

(* The readers that sleep on a queue's condition variable. *)
Asleep(s) == {r \in Readers : reader[r].pc = "Waiting" /\ reader[r].sub = s}

(* notify_one on each of these queues: one sleeper of each. *)
OneOfEach(subs) ==
  {W \in SUBSET UNION {Asleep(s) : s \in subs} :
     \A s \in subs : Cardinality(W \cap Asleep(s)) = IF Asleep(s) = {} THEN 0 ELSE 1}

(* notify_all on each of them. *)
All(subs) == UNION {Asleep(s) : s \in subs}

Wake(woken) == reader' = [r \in Readers |->
                            IF r \in woken THEN [reader[r] EXCEPT !.pc = "Reading"]
                                           ELSE reader[r]]
-----------------------------------------------------------------------------
Init ==
  /\ admission = "Active"
  /\ eventsClosed = FALSE
  /\ nextSequence = 1
  /\ status = [s \in Subscriptions |-> "None"]
  /\ queue = [s \in Subscriptions |-> [entries |-> <<>>, eventCount |-> 0, closed |-> FALSE]]
  /\ readerActive = [s \in Subscriptions |-> FALSE]
  /\ reader = [r \in Readers |-> Idle]
  /\ accepted = [s \in Subscriptions |-> {}]
  /\ delivered = [s \in Subscriptions |-> <<>>]
  /\ final = 0

Subscribe(s) ==
  /\ admission = "Active"
  /\ status[s] = "None"
  /\ status' = [status EXCEPT ![s] = "Live"]
  /\ UNCHANGED <<admission, eventsClosed, nextSequence, queue, readerActive, reader,
                 accepted, delivered, final>>

(* The event reaches the subscriptions whose filter it passes. *)
Publish(class, passed) ==
  /\ ~eventsClosed
  /\ nextSequence <= MaxEvents
  /\ nextSequence' = nextSequence + 1
  /\ queue' = [s \in Subscriptions |->
                 IF s \in passed THEN EnqueueAccepted(queue[s], Concrete(nextSequence, class))
                                 ELSE queue[s]]
  /\ accepted' = [s \in Subscriptions |-> IF s \in passed THEN accepted[s] \cup {nextSequence}
                                                          ELSE accepted[s]]
  /\ \E woken \in OneOfEach(passed) : Wake(woken)
  /\ UNCHANGED <<admission, eventsClosed, status, readerActive, delivered, final>>

(* A close begins: no more subscriptions. *)
SealAdmission ==
  /\ admission = "Active"
  /\ admission' = "Closing"
  /\ UNCHANGED <<eventsClosed, nextSequence, status, queue, readerActive, reader,
                 accepted, delivered, final>>

(* Every live queue gets the final event, past its filter, and is closed. *)
CloseEvents ==
  /\ admission = "Closing"
  /\ ~eventsClosed
  /\ nextSequence' = nextSequence + 1
  /\ queue' = [s \in Subscriptions |->
                 IF s \in Live THEN WithFinal(queue[s], Concrete(nextSequence, "Critical"))
                               ELSE queue[s]]
  /\ accepted' = [s \in Subscriptions |-> IF s \in Live THEN accepted[s] \cup {nextSequence}
                                                        ELSE accepted[s]]
  /\ eventsClosed' = TRUE
  /\ final' = nextSequence
  /\ Wake(All(Live))
  /\ UNCHANGED <<admission, status, readerActive, delivered>>

(* Mutation of Acquire: no guard. *)
NoGuard(s) == TRUE
(* ReaderGuard::acquire: a second reader is refused, and changes nothing. *)
Acquire(s) == readerActive[s] = FALSE

Read(r, s, mode) ==
  /\ reader[r] = Idle
  /\ s \in Live
  /\ Acquire(s)
  /\ readerActive' = [readerActive EXCEPT ![s] = TRUE]
  /\ reader' = [reader EXCEPT ![r] = At("Reading", s, mode)]
  /\ UNCHANGED <<admission, eventsClosed, nextSequence, status, queue, accepted, delivered, final>>

(* The read returns, and its guard is released. *)
Return(r) ==
  /\ reader' = [reader EXCEPT ![r] = Idle]
  /\ readerActive' = [readerActive EXCEPT ![reader[r].sub] = FALSE]

(* event_count when the head of q is taken. *)
StillQueued(q, n) == IF IsGap(q, 1) THEN n ELSE n - 1

TakeEntry(r) ==
  /\ reader[r].pc = "Reading"
  /\ LET s == reader[r].sub
         q == queue[s].entries
     IN  /\ q # <<>>
         /\ queue' = [queue EXCEPT
                        ![s].entries    = Tail(q),
                        ![s].eventCount = StillQueued(q, @)]
         /\ delivered' = [delivered EXCEPT ![s] = Append(@, Head(q))]
  /\ Return(r)
  /\ UNCHANGED <<admission, eventsClosed, nextSequence, status, accepted, final>>

(* Nothing is queued: the reader is told of the close or of the timeout. *)
ReturnEmpty(r) ==
  /\ reader[r].pc = "Reading"
  /\ queue[reader[r].sub].entries = <<>>
  /\ queue[reader[r].sub].closed \/ reader[r].mode # "Infinite"
  /\ Return(r)
  /\ UNCHANGED <<admission, eventsClosed, nextSequence, status, queue, accepted, delivered, final>>

Wait(r) ==
  /\ reader[r].pc = "Reading"
  /\ queue[reader[r].sub].entries = <<>>
  /\ ~queue[reader[r].sub].closed
  /\ reader[r].mode # "Poll"
  /\ reader' = [reader EXCEPT ![r].pc = "Waiting"]
  /\ UNCHANGED <<admission, eventsClosed, nextSequence, status, queue, readerActive,
                 accepted, delivered, final>>

(* The wait times out; a wait of the condition variable may also end early. *)
WaitEnds(r) ==
  /\ reader[r].pc = "Waiting"
  /\ \/ /\ reader[r].mode = "For"
        /\ queue[reader[r].sub].entries = <<>>
        /\ Return(r)
     \/ /\ reader' = [reader EXCEPT ![r].pc = "Reading"]
        /\ UNCHANGED readerActive
  /\ UNCHANGED <<admission, eventsClosed, nextSequence, status, queue, accepted, delivered, final>>

(* The handle is dropped, by nobody who reads: the weak reference is dead. *)
Unsubscribe(s) ==
  /\ s \in Live /\ ~readerActive[s]
  /\ status' = [status EXCEPT ![s] = "Dropped"]
  /\ UNCHANGED <<admission, eventsClosed, nextSequence, queue, readerActive, reader,
                 accepted, delivered, final>>

ReaderStep(r) == TakeEntry(r) \/ ReturnEmpty(r) \/ Wait(r)

Next ==
  \/ SealAdmission
  \/ CloseEvents
  \/ \E class \in {"Ordinary", "Critical"}, passed \in SUBSET Live : Publish(class, passed)
  \/ \E s \in Subscriptions : Subscribe(s) \/ Unsubscribe(s)
  \/ \E r \in Readers : \/ \E s \in Subscriptions, mode \in Modes : Read(r, s, mode)
                        \/ ReaderStep(r)
                        \/ WaitEnds(r)

Spec == Init /\ [][Next]_vars

-----------------------------------------------------------------------------
Entries == [first : Nat, last : Nat, count : Nat \ {0}, class : {"Ordinary", "Critical", "Gap"}]

(* The events among the entries of a queue. *)
Events(q) == {e \in ToSet(q) : e.class # "Gap"}

(* The state has its shape, and event_count is the number of events queued,
   which the capacity bounds. *)
TypeOK ==
  /\ admission \in {"Active", "Closing"}
  /\ eventsClosed \in BOOLEAN
  /\ nextSequence \in 1..MaxEvents + 2
  /\ status \in [Subscriptions -> {"None", "Live", "Dropped"}]
  /\ readerActive \in [Subscriptions -> BOOLEAN]
  /\ queue \in [Subscriptions -> [entries : Seq(Entries), eventCount : 0..Capacity,
                                  closed : BOOLEAN]]
  /\ \A s \in Subscriptions : queue[s].eventCount = Cardinality(Events(queue[s].entries))
  /\ accepted \in [Subscriptions -> SUBSET (1..MaxEvents + 1)]
  /\ delivered \in [Subscriptions -> Seq(Entries)]
  /\ reader \in [Readers -> {Idle} \cup [pc : {"Reading", "Waiting"}, sub : Subscriptions,
                                        mode : Modes]]
  /\ final \in 0..MaxEvents + 1

(* What a subscriber has got and will get, in its order. *)
Stream(s) == delivered[s] \o queue[s].entries

(* A subscriber can rebuild what happened: its events and gaps come in the
   order of their sequences, an event that passed its filter is delivered or
   queued once, or lies in one gap, and each gap counts exactly the accepted
   events of its range (enqueue_accepted_state, record_gap_at); and whatever
   was dropped before, every subscriber alive at the close gets the final
   event, as an event and last (close_subscriptions_with_final). *)
StreamAccountsForEvents ==
  \A s \in Subscriptions :
     LET stream == Stream(s)
     IN  /\ \A i \in 1..Len(stream) - 1 : stream[i].last < stream[i + 1].first
         /\ \A i \in DOMAIN stream :
               /\ {stream[i].first, stream[i].last} \subseteq accepted[s]
               /\ stream[i].count = Cardinality(accepted[s] \cap stream[i].first..stream[i].last)
         /\ \A n \in accepted[s] : \E i \in DOMAIN stream :
               n \in stream[i].first..stream[i].last
         /\ queue[s].closed => /\ final # 0 /\ stream # <<>>
                               /\ Last(stream) = Concrete(final, "Critical")

(* Shedding spares what matters: a critical event is lost only to another
   critical one, from a queue that is full of critical events, and then it
   is the oldest (enqueue_accepted_state). *)
Lost(s) == {n \in accepted'[s] :
              /\ \A e \in Events(Stream(s)') : e.first # n
              /\ \E e \in Events(queue[s].entries) : e.class = "Critical" /\ e.first = n}
CriticalsDisplaceOrdinary ==
  [][\A s \in Subscriptions : \A n \in Lost(s) :
        /\ Cardinality(Events(queue[s].entries)) = Capacity
        /\ \A e \in Events(queue[s].entries) : e.class = "Critical" /\ n <= e.first
        /\ Last(queue[s].entries').class = "Critical"]_vars

(* A reader sleeps only while there is nothing to read and the queue is open:
   a queue has one reader, so notify_one reaches the right one
   (SubscriptionInner::read, ReaderGuard). *)
SleepersHaveNothingToRead ==
  \A r \in Readers : reader[r] # Idle /\ reader[r].pc = "Waiting" =>
     queue[reader[r].sub].entries = <<>> /\ ~queue[reader[r].sub].closed
=============================================================================
