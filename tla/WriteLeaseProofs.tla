--------------------------- MODULE WriteLeaseProofs ---------------------------
(***************************************************************************)
(* Proofs about WriteLease for any acquirers, sequences, direct actions and*)
(* number of failures.                                                     *)
(*                                                                         *)
(* The record of an acquirer says where its outcome is: RecordInv gives    *)
(* every record at most one thread that publishes, and ties the record to  *)
(* the caller. On the lane's side, only the lane ever says "granted", and  *)
(* while it is about to reserve a record with that answer nothing is       *)
(* scheduled and nobody owns (GrantInv). A lease that is on its way back   *)
(* is over: nobody holds it and nobody can come to hold it (Past). With    *)
(* these, LeaseHasOneHolder is inductive. For the sequences, what is       *)
(* scheduled is either direct actions or the reports of the one sequence   *)
(* that owns (ScheduledInv), and an operation the lane is about to settle  *)
(* owns nothing any more (SettlingInv).                                    *)
(*                                                                         *)
(* At the end, a second invariant on top of the first says who waits for   *)
(* whom (WaitInv): every record that is open has somebody to resolve it,   *)
(* every operation somebody to end it, and a waker is where it is called.  *)
(***************************************************************************)
EXTENDS WriteLease, SequenceTheorems, FiniteSetTheorems,
        WellFoundedInduction, TLAPS

-----------------------------------------------------------------------------
(* Types                                                                    *)

Outs      == {"none", "granted", "failure", "closed", "cancelled", "deadline"}
RecSts    == {"none", "pending", "resolving", "leaving", "ready", "taken",
              "abandoned"}
Records   == [st : RecSts, out : Outs, waker : BOOLEAN]
Callers   == {"idle", "poll", "take", "waiting", "holding", "done", "gone"}
Jobs      == [pc : {"free", "reserve", "publish"}, r : Acquirers \union {Nobody},
              out : Outs]
Mail      == {<<"acquire", r>> : r \in Acquirers}
             \union {<<"begin", r>> : r \in Acquirers}
             \union {<<"sequence", s>> : s \in Precise}
             \union {<<"close", Nobody>>}
Entries   == [op : Ops, kind : {"direct", "step", "final", "neutral"},
              out : {"ok", "cancelled", "failed"}]
LanePcs   == {"top", "dispatch", "write", "seal", "settle", "drop", "cleanup",
              "activate", "take", "acquire", "await", "collect", "finish", "ended"}
Lanes     == [pc : LanePcs, who : Acquirers \union Ops \union {Nobody},
              out : {"none", "ok", "cancelled", "failed"},
              then : {"none", "dispatch", "drop"}]
Outcomes  == {"new", "queued", "running", "ok", "cancelled", "failed"}
Closers   == [pc : {"idle", "drain", "settle", "join"}, todo : SUBSET Acquirers]

TypeOK ==
  /\ cancelled \subseteq Acquirers \union Ops /\ late \subseteq Acquirers
  /\ alarm \in [Acquirers -> {"none", "armed", "disarmed", "fired"}]
  /\ rec \in [Acquirers -> Records] /\ caller \in [Acquirers -> Callers]
  /\ awake \subseteq Acquirers /\ registered \subseteq Acquirers
  /\ resolver \in [Threads -> Jobs]
  /\ inbox \in Seq(Mail) /\ lane \in Lanes
  /\ owner \in Acquirers \union Precise \union {Nobody}
  /\ cleanup \in Acquirers \union {Nobody} /\ waiting \in Precise \union {Nobody}
  /\ pending \in Seq(Entries) /\ op \in [Ops -> Outcomes]
  /\ conn \in {"connected", "disconnecting", "disconnected", "closed"}
  /\ failed \in BOOLEAN /\ closer \in Closers /\ faults \in 0..MaxFaults

-----------------------------------------------------------------------------
(* The inductive invariant                                                  *)

Publishing(t, r) == resolver[t].pc = "publish" /\ resolver[t].r = r

(* One thread at most has reserved a record, while it does the record is    *)
(* being resolved, and only the lane grants.                                *)
ThreadInv ==
  /\ \A t \in Threads : /\ t # Lane => resolver[t].out # "granted"
                        /\ resolver[t].pc # "free" => resolver[t].r \in Acquirers
  /\ \A t \in Threads, r \in Acquirers :
       Publishing(t, r) => rec[r].st \in {"resolving", "leaving"}
  /\ \A t, u \in Threads, r \in Acquirers :
       Publishing(t, r) /\ Publishing(u, r) => t = u

(* A caller that holds the lease has taken it out of the record. *)
CallerInv ==
  \A r \in Acquirers : /\ caller[r] = "idle" => rec[r].st = "none"
                       /\ caller[r] = "holding" => rec[r].st = "taken"

RecordInv == ThreadInv /\ CallerInv

(* Where the lane is tells what it has: a report to write, one to settle,   *)
(* an acquirer to answer. After a permanent failure, and once the lane is   *)
(* closing its transport, nobody owns; a stream that is lost is sealed      *)
(* first.                                                                   *)
PlaceInv ==
  /\ lane.pc = "write" => pending # << >>
  /\ lane.pc \in {"seal", "settle"} =>
       lane.who \in Ops /\ lane.out # "none" /\ lane.then # "none"
  /\ lane.pc = "acquire" => lane.who \in Acquirers /\ ~failed
  /\ resolver[Lane].pc = "publish" \/ resolver[Lane].pc = "reserve"
       => lane.pc \in {"top", "acquire", "collect"}
  /\ failed /\ lane.pc # "seal" => owner = Nobody
  /\ lane.pc \in {"finish", "ended"} => owner = Nobody

(* Nothing is scheduled, nobody waits, owns or is cleaned up after. *)
Idle == /\ owner = Nobody /\ waiting = Nobody /\ cleanup = Nobody
        /\ pending = << >> /\ ~failed

(* Between its look at the lane and the reservation nothing gets in. *)
GrantInv ==
  resolver[Lane].pc = "reserve" /\ resolver[Lane].out = "granted"
    => Idle /\ lane.pc = "top"

(* A lease that is over, for good. *)
Past(r) == rec[r].st \in {"taken", "abandoned"} /\ caller[r] # "holding"

ReleaseInv ==
  /\ \A r \in Acquirers : BeingReleased(r) => Past(r)
  /\ cleanup # Nobody => owner = cleanup

(* What is scheduled: direct actions, before whom a sequence may wait, or   *)
(* what the sequence that owns has left to report; no lease owns a lane     *)
(* that is being sealed.                                                    *)
OnlyDirect == \A i \in DOMAIN pending : pending[i].op \in Direct
OnlyOwners ==
  /\ owner \in Precise /\ waiting = Nobody
  /\ \A i \in DOMAIN pending : pending[i].op = owner
  /\ Len(pending) <= 2
  /\ Len(pending) = 2 => pending[1].kind = "step" /\ pending[2].kind # "neutral"
  /\ Len(pending) > 0 => pending[Len(pending)].kind # "step"

ScheduledInv ==
  /\ lane.pc \notin {"finish", "ended"} =>
       /\ OnlyDirect \/ OnlyOwners
       /\ waiting # Nobody => owner = waiting
  /\ owner \in Acquirers => pending = << >> /\ waiting = Nobody /\ lane.pc # "seal"
  /\ lane.pc = "seal" => pending = << >> /\ waiting = Nobody

(* A sequence in the lane's channel is queued, and there once. *)
ChannelInv ==
  /\ \A i \in DOMAIN inbox : inbox[i][1] = "sequence" => op[inbox[i][2]] = "queued"
  /\ \A i, j \in DOMAIN inbox :
       inbox[i][1] = "sequence" /\ inbox[i] = inbox[j] => i = j

(* The sequence that owns is running; one that is being settled owns        *)
(* nothing.                                                                 *)
SettledInv ==
  /\ owner \in Precise => op[owner] = "running"
  /\ \A d \in Direct : op[d] \notin {"new", "queued"}
  /\ lane.pc = "settle" => owner # lane.who
  /\ lane.pc \in {"seal", "settle"} => op[lane.who] \notin {"new", "queued"}

SettlingInv == ChannelInv /\ SettledInv

Inv == /\ TypeOK /\ RecordInv /\ PlaceInv /\ GrantInv /\ ReleaseInv
       /\ ScheduledInv /\ SettlingInv /\ LeaseHasOneHolder

-----------------------------------------------------------------------------
(* Lemmas about the operators                                               *)

(* A nonempty set of numbers has a least one. *)
LEMMA LeastNumber ==
  ASSUME NEW S \in SUBSET Nat, S # {}
  PROVE  \E m \in S : \A n \in S : m <= n
<1>1. PICK m \in S : \A n \in S : ~(<<n, m>> \in OpToRel(<, Nat))
  BY NatLessThanWellFounded, WFMin
<1>2. \A n \in S : ~(n < m)
  BY <1>1 DEF OpToRel
<1> QED
  BY <1>2

(* What is kept of a sequence was in it and is in E. *)
LEMMA KeptEntries ==
  ASSUME NEW S, NEW s \in Seq(S), NEW E
  PROVE  /\ Kept(s, E) \in Seq(S)
         /\ \A k \in DOMAIN Kept(s, E) :
              /\ Kept(s, E)[k] \in E
              /\ \E i \in DOMAIN s : Kept(s, E)[k] = s[i]
<1> DEFINE n == Len(s)
           Hits(i) == {j \in 1..i : s[j] \in E}
           rank == [i \in 0..n |-> Cardinality(Hits(i))]
           Place(k) == CHOOSE i \in DOMAIN s : s[i] \in E /\ rank[i] = k
<1>1. n \in Nat /\ DOMAIN s = 1..n /\ \A i \in 1..n : s[i] \in S
  BY LenProperties, ElementOfSeq
<1>2. \A i \in 0..n : IsFiniteSet(Hits(i))
  <2> TAKE i \in 0..n
  <2>1. IsFiniteSet(1..i)
    BY <1>1, FS_Interval
  <2> QED BY <2>1, FS_Subset
<1>3. rank[0] = 0
  <2>1. Hits(0) = {}
    OBVIOUS
  <2> QED BY <1>1, <2>1, FS_EmptySet
<1>4. \A i \in 0..n : rank[i] \in Nat
  BY <1>2, FS_CardinalityType
<1>5. \A i \in 1..n : rank[i] = IF s[i] \in E THEN rank[i - 1] + 1 ELSE rank[i - 1]
  <2> TAKE i \in 1..n
  <2>1. i - 1 \in 0..n /\ i \in 0..n /\ IsFiniteSet(Hits(i - 1)) /\ i \notin Hits(i - 1)
    BY <1>1, <1>2
  <2>2. CASE s[i] \in E
    <3>1. Hits(i) = Hits(i - 1) \union {i}
      BY <1>1, <2>2
    <3>2. Cardinality(Hits(i)) = Cardinality(Hits(i - 1)) + 1
      BY <2>1, <3>1, FS_AddElement
    <3> QED BY <2>1, <2>2, <3>2
  <2>3. CASE s[i] \notin E
    <3>1. Hits(i) = Hits(i - 1)
      BY <1>1, <2>3
    <3> QED BY <2>1, <2>3, <3>1
  <2> QED BY <2>2, <2>3
<1> HIDE DEF rank
<1>6. \A k \in 1..rank[n] : \E i \in DOMAIN s : s[i] \in E /\ rank[i] = k
  <2> TAKE k \in 1..rank[n]
  <2> DEFINE Reached == {i \in 0..n : rank[i] >= k}
  <2>1. n \in Reached /\ Reached \in SUBSET Nat
    BY <1>1, <1>4
  <2>2. PICK m \in Reached : \A i \in Reached : m <= i
    BY <2>1, LeastNumber
  <2>3. m \in 1..n /\ m - 1 \in 0..n
    BY <1>1, <1>3, <2>2
  <2>4. rank[m - 1] < k
    BY <1>4, <2>2, <2>3
  <2> QED BY <1>1, <1>4, <1>5, <2>2, <2>3, <2>4
<1>7. \A k \in 1..rank[n] : Place(k) \in DOMAIN s /\ s[Place(k)] \in E
  BY <1>6
<1>8. Kept(s, E) = [k \in 1..rank[n] |-> s[Place(k)]]
  BY DEF Kept, rank
<1> HIDE DEF Place
<1>9. /\ rank[n] \in Nat /\ DOMAIN Kept(s, E) = 1..rank[n]
      /\ \A k \in 1..rank[n] : Kept(s, E)[k] = s[Place(k)] /\ s[Place(k)] \in S
  BY <1>1, <1>4, <1>7, <1>8
<1>10. Kept(s, E) \in Seq(S)
  <2>1. \A k \in 1..rank[n] : s[Place(k)] \in S
    BY <1>9
  <2>2. [k \in 1..rank[n] |-> s[Place(k)]] \in Seq(S)
    BY <1>9, <2>1, IsASeq
  <2> QED BY <1>8, <2>2
<1> QED
  BY <1>7, <1>9, <1>10

(* An index that is selected is one of the sequence's. *)
LEMMA SelectedIndex ==
  ASSUME NEW n \in Nat, NEW I \in SUBSET (1..n), I # {}
  PROVE  Min(I) \in I
<1>1. I \in SUBSET Nat
  OBVIOUS
<1>2. \E m \in I : \A j \in I : m <= j
  BY <1>1, LeastNumber
<1> QED
  BY <1>2 DEF Min

(* A finite set has a sequence of its elements. *)
LEMMA SequenceOfSet ==
  ASSUME NEW S, IsFiniteSet(S)
  PROVE  SetToSeq(S) \in Seq(S)
<1> DEFINE n == Cardinality(S)
<1>1. n \in Nat /\ ExistsBijection(1..n, S)
  BY FS_CardinalityType
<1>2. \E f \in [1..n -> S] : IsInjective(f)
  BY <1>1 DEF ExistsBijection, Bijection, Injection, Surjection, IsInjective
<1>3. SetToSeq(S) \in [1..n -> S]
  BY <1>2 DEF SetToSeq
<1> QED
  BY <1>1, <1>3, SeqDef

(* The threads are different ones. *)
LEMMA ThreadPlaces ==
  /\ Lane \in Threads /\ Closer \in Threads /\ Lane # Closer
  /\ \A r \in Acquirers : /\ Caller(r) \in Threads /\ Hook(r) \in Threads
                          /\ Caller(r) # Lane /\ Hook(r) # Lane
BY DEF Lane, Closer, Caller, Hook, Threads

(* A command tells who it is from. *)
LEMMA MailFields ==
  ASSUME NEW k \in Mail
  PROVE  /\ k[1] = "acquire" => k[2] \in Acquirers
         /\ k[1] = "begin" => k[2] \in Acquirers
         /\ k[1] = "sequence" => k[2] \in Precise
         /\ k[1] = "begin" => k = <<"begin", k[2]>>
         /\ k[1] \in {"acquire", "begin", "sequence", "close"}
         /\ \A r : k = <<"begin", r>> => k[1] = "begin" /\ k[2] = r
BY SMT DEF Mail

(* The kinds of commands. *)
LEMMA MailKinds ==
  /\ \A r \in Acquirers : <<"acquire", r>> \in Mail /\ <<"begin", r>> \in Mail
  /\ \A s \in Precise : <<"sequence", s>> \in Mail
  /\ <<"close", Nobody>> \in Mail
BY DEF Mail

(* What a schedule entry holds.                                             *)
LEMMA EntryFields ==
  ASSUME NEW e \in Entries
  PROVE  /\ e.op \in Ops /\ e.kind \in {"direct", "step", "final", "neutral"}
         /\ e.out \in {"ok", "cancelled", "failed"}
BY DEF Entries

(* The entries the lane makes for itself are schedule entries.              *)
LEMMA NewEntries ==
  /\ \A d \in Direct : Report(d, "direct") \in Entries
  /\ \A s \in Precise, kind \in {"step", "final"} : Report(s, kind) \in Entries
  /\ \A o \in Ops, out \in {"cancelled", "failed"} : Neutral(o, out) \in Entries
BY DEF Report, Neutral, Entries, Ops

(* What the record of the lane holds.                                       *)
LEMMA LaneFields ==
  ASSUME lane \in Lanes
  PROVE  /\ lane.pc \in LanePcs /\ lane.who \in Acquirers \union Ops \union {Nobody}
         /\ lane.out \in {"none", "ok", "cancelled", "failed"}
         /\ lane.then \in {"none", "dispatch", "drop"}
BY DEF Lanes

(* A step of the lane changes its place and nothing else of its record.     *)
LEMMA GotoFields ==
  ASSUME lane \in Lanes, NEW pc \in LanePcs, Goto(pc)
  PROVE  /\ lane' \in Lanes /\ lane'.pc = pc /\ lane'.who = lane.who
         /\ lane'.out = lane.out /\ lane'.then = lane.then
BY DEF Lanes, Goto

(* What a thread that resolves a future holds.                              *)
LEMMA JobFields ==
  ASSUME NEW j \in Jobs
  PROVE  /\ j.pc \in {"free", "reserve", "publish"}
         /\ j.r \in Acquirers \union {Nobody} /\ j.out \in Outs
BY DEF Jobs

(* What the record of a lease future holds.                                 *)
LEMMA RecordFields ==
  ASSUME NEW k \in Records
  PROVE  k.st \in RecSts /\ k.out \in Outs /\ k.waker \in BOOLEAN
BY DEF Records

(* What the closing thread holds.                                           *)
LEMMA CloserFields ==
  ASSUME NEW c \in Closers
  PROVE  c.pc \in {"idle", "drain", "settle", "join"} /\ c.todo \subseteq Acquirers
BY DEF Closers

(* A thread other than the lane enters resolve_with, or the lane without a  *)
(* lease to give.                                                           *)
Starts(t, r) ==
  /\ resolver' \in [Threads -> Jobs]
  /\ resolver'[t].pc = "reserve" /\ resolver'[t].r = r
  /\ resolver'[t].out # "granted"
  /\ \A u \in Threads \ {t} : resolver'[u] = resolver[u]

(* Whoever ends a future early takes up resolving it, or finds that there   *)
(* is nothing left to resolve.                                              *)
LEMMA ResolveStarts ==
  ASSUME TypeOK, NEW t \in Threads, NEW r \in Acquirers
  PROVE  /\ \A out \in Outs \ {"granted"} : Resolve(t, r, out) => Starts(t, r)
         /\ ResolveVisible(t, r) => Starts(t, r) \/ UNCHANGED resolver
<1>1. Signal(r) \in Outs \ {"granted"}
  BY DEF Signal, Outs
<1>2. \A out \in Outs \ {"granted"} : Resolve(t, r, out) => Starts(t, r)
  <2> SUFFICES ASSUME NEW out \in Outs \ {"granted"}, Resolve(t, r, out)
               PROVE  Starts(t, r)
    OBVIOUS
  <2> DEFINE said == IF Signal(r) = "none" THEN out ELSE Signal(r)
             job == [Free EXCEPT !.pc = "reserve", !.r = r, !.out = said]
  <2>1. said \in Outs \ {"granted"}
    BY <1>1
  <2>2. resolver' = [resolver EXCEPT ![t] = job]
    BY DEF Resolve
  <2> HIDE DEF said
  <2>3. job \in Jobs /\ job.pc = "reserve" /\ job.r = r /\ job.out # "granted"
    BY <2>1 DEF Free, Jobs
  <2>4. resolver \in [Threads -> Jobs]
    BY DEF TypeOK
  <2> HIDE DEF job
  <2> QED BY <2>2, <2>3, <2>4 DEF Starts
<1> QED
  BY <1>1, <1>2 DEF ResolveVisible

(* A command reaches the channel of a lane that has not ended. *)
LEMMA SendType ==
  ASSUME TypeOK, NEW k \in Mail, Send(k)
  PROVE  inbox' \in Seq(Mail)
BY DEF Send, TypeOK

(* Settling gives outcomes to operations that have none. *)
LEMMA SettledOps ==
  ASSUME TypeOK, NEW S, NEW out \in {"ok", "cancelled", "failed"}
  PROVE  /\ Settled(S, out) \in [Ops -> Outcomes]
         /\ \A o \in Ops : Settled(S, out)[o] = IF o \in S /\ ~IsTerminal(o)
                                                THEN out ELSE op[o]
BY DEF Settled, TypeOK, Outcomes

(* What a cleanup schedules. *)
LEMMA WithoutEntries ==
  ASSUME TypeOK, NEW o
  PROVE  /\ Without(o) \in Seq(Entries)
         /\ \A k \in DOMAIN Without(o) :
              /\ Without(o)[k].op # o
              /\ \E i \in DOMAIN pending : Without(o)[k] = pending[i]
<1> DEFINE E == {e \in ToSet(pending) : e.op # o}
<1>1. pending \in Seq(Entries) /\ Without(o) = Kept(pending, E)
  BY DEF Without, TypeOK
<1>2. \A e \in E : e.op # o
  OBVIOUS
<1> HIDE DEF E
<1> QED
  BY <1>1, <1>2, KeptEntries

(* A cleanup puts one neutral report of the operation first and keeps the   *)
(* reports of the others.                                                   *)
LEMMA CleanUpEntries ==
  ASSUME TypeOK, NEW o \in Ops, NEW out \in {"cancelled", "failed"}, CleanUp(o, out)
  PROVE  /\ pending' \in Seq(Entries) /\ pending' # << >>
         /\ pending'[1] = Neutral(o, out)
         /\ \A k \in DOMAIN pending' \ {1} :
              /\ pending'[k].op # o
              /\ \E i \in DOMAIN pending : pending'[k] = pending[i]
<1>1. Without(o) \in Seq(Entries) /\ Neutral(o, out) \in Entries
  BY WithoutEntries, NewEntries
<1>2. pending' = <<Neutral(o, out)>> \o Without(o)
  BY DEF CleanUp
<1> DEFINE N == Neutral(o, out)
           W == Without(o)
<1> HIDE DEF N, W
<1>3. /\ pending' \in Seq(Entries) /\ Len(pending') = 1 + Len(W)
      /\ pending'[1] = N
      /\ \A k \in 2..Len(pending') : pending'[k] = W[k - 1] /\ k - 1 \in 1..Len(W)
  BY <1>1, <1>2 DEF N, W
<1>4. DOMAIN pending' = 1..Len(pending') /\ Len(W) \in Nat /\ DOMAIN W = 1..Len(W)
  BY <1>1, <1>3 DEF W
<1>5. \A k \in DOMAIN pending' \ {1} : k - 1 \in DOMAIN W /\ pending'[k] = W[k - 1]
  BY <1>3, <1>4
<1>6. \A k \in DOMAIN W : W[k].op # o /\ \E i \in DOMAIN pending : W[k] = pending[i]
  BY WithoutEntries DEF W
<1> QED
  BY <1>3, <1>4, <1>5, <1>6 DEF N

(* Observing a cancellation: the waiting sequence gets its neutral, an      *)
(* operation that is scheduled is cleaned up, or nothing was cancelled.     *)
LEMMA ObserveCases ==
  ASSUME TypeOK, Observe
  PROVE  /\ cancelled' \subseteq Acquirers \union Ops
         /\ \/ /\ pending = << >> /\ waiting # Nobody /\ waiting' = Nobody
               /\ pending' = <<Neutral(waiting, "cancelled")>>
            \/ UNCHANGED <<pending, waiting>>
            \/ /\ UNCHANGED waiting
               /\ \E i \in DOMAIN pending : CleanUp(pending[i].op, "cancelled")
<1> DEFINE C == cancelled \union (IF ResourceCancelled
                                  THEN PendingOps \union {waiting} ELSE {})
           I == {i \in 1..Len(pending) : pending[i].kind # "neutral" /\ pending[i].op \in C}
           hit == IF I # {} THEN Min(I) ELSE 0
<1>1. /\ cancelled' = C \ {Nobody}
      /\ IF pending = << >> /\ waiting # Nobody /\ waiting \in C
         THEN pending' = <<Neutral(waiting, "cancelled")>> /\ waiting' = Nobody
         ELSE /\ UNCHANGED waiting
              /\ IF hit = 0 THEN UNCHANGED pending
                 ELSE CleanUp(pending[hit].op, "cancelled")
  BY DEF Observe, SelectInSeq
<1>2. Len(pending) \in Nat /\ DOMAIN pending = 1..Len(pending)
      /\ \A i \in DOMAIN pending : pending[i].op \in Ops
  BY EntryFields DEF TypeOK
<1>3. I # {} => hit \in DOMAIN pending
  BY <1>2, SelectedIndex
<1>4. hit = 0 \/ hit \in DOMAIN pending
  BY <1>3
<1>5. C \ {Nobody} \subseteq Acquirers \union Ops
  BY <1>2 DEF PendingOps, TypeOK, Ops
<1> HIDE DEF hit, C
<1> QED
  BY <1>1, <1>4, <1>5

-----------------------------------------------------------------------------
(* Types                                                                    *)

(* The driver starts in a well-typed state.                                 *)
LEMMA InitType == Init => TypeOK
<1> SUFFICES ASSUME Init PROVE TypeOK
  OBVIOUS
<1>1. pending \in Seq(Entries)
  <2> DEFINE S == {Report(d, "direct") : d \in Direct}
  <2>1. IsFiniteSet(S)
    <3> DEFINE f == [d \in Direct |-> Report(d, "direct")]
    <3>1. f \in Surjection(Direct, S)
      BY DEF Surjection
    <3> QED BY <3>1, LeaseAssumption, FS_Surjection
  <2>2. S \subseteq Entries /\ pending = SetToSeq(S)
    BY NewEntries DEF Init
  <2>3. SetToSeq(S) \in Seq(S)
    BY <2>1, SequenceOfSet
  <2> HIDE DEF S
  <2> QED BY <2>2, <2>3
<1>2. lane \in Lanes
  BY DEF Init, Lanes, LanePcs
<1>3. rec \in [Acquirers -> Records] /\ caller \in [Acquirers -> Callers]
  BY DEF Init, Records, RecSts, Outs, Callers
<1>4. resolver \in [Threads -> Jobs] /\ closer \in Closers
  BY DEF Init, Free, Jobs, Outs, Closers
<1>5. inbox \in Seq(Mail) /\ op \in [Ops -> Outcomes]
  BY DEF Init, Outcomes
<1>6. faults \in 0..MaxFaults
  <2>1. faults = 0
    BY DEF Init
  <2>2. MaxFaults \in Nat
    BY LeaseAssumption
  <2> QED BY <2>1, <2>2
<1>0. failed \in BOOLEAN
  BY DEF Init
<1>7. /\ cancelled \subseteq Acquirers \union Ops /\ late \subseteq Acquirers
      /\ alarm \in [Acquirers -> {"none", "armed", "disarmed", "fired"}]
      /\ awake \subseteq Acquirers /\ registered \subseteq Acquirers
      /\ owner \in Acquirers \union Precise \union {Nobody}
      /\ cleanup \in Acquirers \union {Nobody} /\ waiting \in Precise \union {Nobody}
      /\ conn \in {"connected", "disconnecting", "disconnected", "closed"}
  BY DEF Init
<1> QED
  BY <1>0, <1>1, <1>2, <1>3, <1>4, <1>5, <1>6, <1>7 DEF TypeOK

(* Disarming a deadline leaves every deadline in a named state.             *)
LEMMA DisarmedType ==
  ASSUME TypeOK, NEW r \in Acquirers
  PROVE  Disarmed(r) \in [Acquirers -> {"none", "armed", "disarmed", "fired"}]
BY DEF Disarmed, TypeOK

(* A fault counts once and stays within its bound.                          *)
LEMMA FaultType == ASSUME TypeOK, Fault PROVE faults' \in 0..MaxFaults
BY LeaseAssumption DEF Fault, TypeOK

(* So does a step that may fail or not.                                     *)
LEMMA MayFailType == ASSUME TypeOK, MayFail PROVE faults' \in 0..MaxFaults
BY FaultType DEF MayFail, TypeOK

(* The begin notice of an abandoned lease is mail.                          *)
LEMMA SealType ==
  ASSUME TypeOK, NEW r \in Acquirers, Seal(r) PROVE inbox' \in Seq(Mail)
<1>1. CASE failed
  BY <1>1 DEF Seal, TypeOK
<1>2. CASE ~failed
  BY <1>2, MailKinds, SendType DEF Seal
<1> QED BY <1>1, <1>2

(* A caller moves, and the other callers stay.                              *)
LEMMA CallerType ==
  ASSUME TypeOK, NEW r \in Acquirers, NEW pc \in Callers, CallerTo(r, pc)
  PROVE  /\ caller' \in [Acquirers -> Callers] /\ caller'[r] = pc
         /\ \A q \in Acquirers \ {r} : caller'[q] = caller[q]
BY DEF CallerTo, TypeOK

(* The thread that resolves, the caller and the closer. *)
LEMMA ReserveStep ==
  ASSUME TypeOK, NEW t \in Threads, Reserve(t), resolver[t].r \in Acquirers
  PROVE  LET r == resolver[t].r IN
         \/ /\ rec[r].st # "pending" /\ UNCHANGED <<rec, owner>>
            /\ resolver' \in [Threads -> Jobs] /\ resolver'[t].pc = "free"
            /\ resolver'[t].out # "granted"
            /\ \A u \in Threads \ {t} : resolver'[u] = resolver[u]
         \/ /\ rec[r].st = "pending" /\ rec' \in [Acquirers -> Records]
            /\ rec'[r].st = "resolving" /\ rec'[r].out = rec[r].out
            /\ \A q \in Acquirers \ {r} : rec'[q] = rec[q]
            /\ resolver' \in [Threads -> Jobs] /\ resolver'[t].pc = "publish"
            /\ resolver'[t].r = r /\ resolver'[t].out = resolver[t].out
            /\ \A u \in Threads \ {t} : resolver'[u] = resolver[u]
            /\ owner' = IF resolver[t].out = "granted" THEN r ELSE owner
<1> DEFINE r == resolver[t].r
<1>1. resolver \in [Threads -> Jobs] /\ rec \in [Acquirers -> Records]
  BY DEF TypeOK
<1>2. CASE ~Reservable(r)
  <2>1. resolver' = [resolver EXCEPT ![t] = Free] /\ UNCHANGED <<rec, owner>>
    BY <1>2 DEF Reserve
  <2>2. Free \in Jobs /\ Free.pc = "free" /\ Free.out = "none"
    BY DEF Free, Jobs, Outs
  <2> QED BY <1>1, <1>2, <2>1, <2>2 DEF Reservable
<1>3. CASE Reservable(r)
  <2>1. /\ resolver' = [resolver EXCEPT ![t].pc = "publish"]
        /\ rec' = [rec EXCEPT ![r].st = "resolving"]
        /\ owner' = IF resolver[t].out = "granted" THEN r ELSE owner
    BY <1>3 DEF Reserve
  <2>2. /\ rec' \in [Acquirers -> Records] /\ rec'[r].st = "resolving"
        /\ rec'[r].out = rec[r].out
        /\ \A q \in Acquirers \ {r} : rec'[q] = rec[q]
    BY <1>1, <2>1 DEF Records, RecSts
  <2>3. /\ resolver' \in [Threads -> Jobs] /\ resolver'[t].pc = "publish"
        /\ resolver'[t].r = r /\ resolver'[t].out = resolver[t].out
        /\ \A u \in Threads \ {t} : resolver'[u] = resolver[u]
    BY <1>1, <2>1 DEF Jobs
  <2> QED BY <1>3, <2>1, <2>2, <2>3 DEF Reservable
<1> QED
  BY <1>2, <1>3

(* What the publishing half of resolve_with does to the future and its      *)
(* record.                                                                  *)
LEMMA PublishStep ==
  ASSUME TypeOK, NEW t \in Threads, Publish(t), resolver[t].r \in Acquirers
  PROVE  LET r == resolver[t].r  gone == rec[r].st = "leaving" IN
         /\ resolver[t].pc = "publish"
         /\ rec' \in [Acquirers -> Records]
         /\ rec'[r].st = IF gone THEN "abandoned" ELSE "ready"
         /\ rec'[r].out = IF gone THEN "none" ELSE resolver[t].out
         /\ \A q \in Acquirers \ {r} : rec'[q] = rec[q]
         /\ resolver' \in [Threads -> Jobs] /\ resolver'[t].pc = "free"
         /\ resolver'[t].out # "granted"
         /\ \A u \in Threads \ {t} : resolver'[u] = resolver[u]
         /\ alarm' \in [Acquirers -> {"none", "armed", "disarmed", "fired"}]
         /\ awake' \subseteq Acquirers
         /\ IF gone /\ resolver[t].out = "granted" THEN Seal(r) ELSE UNCHANGED inbox
<1> DEFINE r == resolver[t].r
           gone == rec[r].st = "leaving"
           new == [st |-> IF gone THEN "abandoned" ELSE "ready",
                   out |-> IF gone THEN "none" ELSE resolver[t].out, waker |-> FALSE]
<1>1. resolver \in [Threads -> Jobs] /\ rec \in [Acquirers -> Records]
  BY DEF TypeOK
<1>2. /\ resolver[t].pc = "publish" /\ resolver' = [resolver EXCEPT ![t] = Free]
      /\ rec' = [rec EXCEPT ![r] = new] /\ alarm' = Disarmed(r)
      /\ IF gone /\ resolver[t].out = "granted" THEN Seal(r) ELSE UNCHANGED inbox
      /\ awake' = awake \/ awake' = awake \union {r}
  BY DEF Publish
<1>3. Free \in Jobs /\ Free.pc = "free" /\ Free.out = "none"
  BY DEF Free, Jobs, Outs
<1>4. resolver[t].out \in Outs
  BY <1>1, JobFields
<1>5. /\ new \in Records /\ new.st = (IF gone THEN "abandoned" ELSE "ready")
      /\ new.out = (IF gone THEN "none" ELSE resolver[t].out)
  BY <1>4 DEF Records, RecSts, Outs
<1>6. alarm' \in [Acquirers -> {"none", "armed", "disarmed", "fired"}]
  BY <1>2, DisarmedType
<1>7. awake' \subseteq Acquirers
  BY <1>2 DEF TypeOK
<1> HIDE DEF new
<1>8. /\ rec' \in [Acquirers -> Records] /\ rec'[r] = new
      /\ \A q \in Acquirers \ {r} : rec'[q] = rec[q]
  BY <1>1, <1>2, <1>5
<1>9. /\ resolver' \in [Threads -> Jobs] /\ resolver'[t] = Free
      /\ \A u \in Threads \ {t} : resolver'[u] = resolver[u]
  BY <1>1, <1>2, <1>3
<1> QED
  BY <1>2, <1>3, <1>5, <1>6, <1>7, <1>8, <1>9

(* Resolving keeps the types.                                               *)
LEMMA ResolvingType ==
  ASSUME TypeOK, RecordInv, Resolving PROVE TypeOK'
<1>1. PICK t \in Threads : Reserve(t) \/ Publish(t)
  BY DEF Resolving
<1>2. resolver[t].r \in Acquirers
  BY <1>1 DEF RecordInv, ThreadInv, Reserve, Publish
<1>3. CASE Reserve(t)
  <2>1. /\ rec' \in [Acquirers -> Records] /\ resolver' \in [Threads -> Jobs]
        /\ owner' \in Acquirers \union Precise \union {Nobody}
    BY <1>2, <1>3, ReserveStep DEF TypeOK
  <2> QED
    BY <1>3, <2>1 DEF Reserve, TypeOK, signals, port
<1>4. CASE Publish(t)
  <2>1. inbox' \in Seq(Mail)
    BY <1>2, <1>4, PublishStep, SealType DEF TypeOK
  <2>2. /\ rec' \in [Acquirers -> Records] /\ resolver' \in [Threads -> Jobs]
        /\ alarm' \in [Acquirers -> {"none", "armed", "disarmed", "fired"}]
        /\ awake' \subseteq Acquirers
    BY <1>2, <1>4, PublishStep
  <2> QED
    BY <1>4, <2>1, <2>2 DEF Publish, TypeOK, signals, writers, port
<1> QED
  BY <1>1, <1>3, <1>4

(* What the future's steps do to its record and to the thread that runs it. *)
LEMMA RequestStep ==
  ASSUME TypeOK, NEW r \in Acquirers, Request(r)
  PROVE  /\ caller[r] = "idle" /\ CallerTo(r, "poll")
         /\ rec' \in [Acquirers -> Records] /\ rec'[r].st = "pending"
         /\ rec'[r].out = rec[r].out
         /\ \A q \in Acquirers \ {r} : rec'[q] = rec[q]
         /\ UNCHANGED inbox \/ Send(<<"acquire", r>>)
         /\ Starts(Caller(r), r) \/ UNCHANGED resolver
         /\ alarm' \in [Acquirers -> {"none", "armed", "disarmed", "fired"}]
         /\ registered' \subseteq Acquirers /\ faults' \in 0..MaxFaults
         /\ UNCHANGED <<signals, awake, lane, writers, conn, failed, closer>>
<1>1. Caller(r) \in Threads /\ "failure" \in Outs \ {"granted"}
  BY ThreadPlaces DEF Outs
<1>2. /\ Resolve(Caller(r), r, "failure") => Starts(Caller(r), r)
      /\ ResolveVisible(Caller(r), r) => Starts(Caller(r), r) \/ UNCHANGED resolver
  BY <1>1, ResolveStarts
<1>3. Starts(Caller(r), r) \/ UNCHANGED resolver
  BY <1>2 DEF Request
<1>4. /\ rec' \in [Acquirers -> Records] /\ rec'[r].st = "pending"
      /\ rec'[r].out = rec[r].out
      /\ \A q \in Acquirers \ {r} : rec'[q] = rec[q]
  <2>1. rec' = [rec EXCEPT ![r].st = "pending"] /\ rec \in [Acquirers -> Records]
    BY DEF Request, TypeOK
  <2> QED BY <2>1 DEF Records, RecSts
<1>5. alarm' \in [Acquirers -> {"none", "armed", "disarmed", "fired"}]
  BY DEF Request, TypeOK
<1>6. registered' \subseteq Acquirers
  BY DEF Request, TypeOK
<1>7. faults' \in 0..MaxFaults
  <2>1. Fault \/ UNCHANGED faults
    BY DEF Request
  <2> QED BY <2>1, FaultType DEF TypeOK
<1>8. UNCHANGED inbox \/ Send(<<"acquire", r>>)
  BY DEF Request
<1>9. /\ caller[r] = "idle" /\ CallerTo(r, "poll")
      /\ UNCHANGED <<signals, awake, lane, writers, conn, failed, closer>>
  BY DEF Request
<1> QED
  BY <1>3, <1>4, <1>5, <1>6, <1>7, <1>8, <1>9

(* A poll that finds the deadline or the close starts to resolve.           *)
LEMMA PollStep ==
  ASSUME TypeOK, NEW r \in Acquirers, Poll(r)
  PROVE  Starts(Caller(r), r) \/ UNCHANGED resolver
<1>1. Caller(r) \in Threads /\ {"deadline", "closed"} \subseteq Outs \ {"granted"}
  BY ThreadPlaces DEF Outs
<1>2. \/ Resolve(Caller(r), r, "deadline") \/ Resolve(Caller(r), r, "closed")
      \/ ResolveVisible(Caller(r), r)
  BY DEF Poll
<1> QED
  BY <1>1, <1>2, ResolveStarts

(* The second half of a poll takes the outcome, or parks the waker.         *)
LEMMA TakeOutcomeStep ==
  ASSUME TypeOK, NEW r \in Acquirers, TakeOutcome(r)
  PROVE  /\ rec' \in [Acquirers -> Records]
         /\ \A q \in Acquirers \ {r} : rec'[q] = rec[q]
         /\ \/ /\ rec[r].st = "ready" /\ rec'[r].st = "taken"
               /\ CallerTo(r, IF rec[r].out = "granted" THEN "holding" ELSE "done")
            \/ /\ rec[r].st # "ready"
               /\ rec'[r].st = rec[r].st /\ rec'[r].out = rec[r].out
               /\ CallerTo(r, "waiting")
<1>1. rec \in [Acquirers -> Records] /\ rec[r] \in Records
  BY DEF TypeOK
<1>2. CASE rec[r].st = "ready"
  <2> DEFINE new == [st |-> "taken", out |-> "none", waker |-> FALSE]
  <2>1. /\ rec' = [rec EXCEPT ![r] = new]
        /\ CallerTo(r, IF rec[r].out = "granted" THEN "holding" ELSE "done")
    BY <1>2 DEF TakeOutcome
  <2>2. new \in Records /\ new.st = "taken"
    BY DEF Records, RecSts, Outs
  <2> HIDE DEF new
  <2> QED BY <1>1, <1>2, <2>1, <2>2
<1>3. CASE rec[r].st # "ready"
  <2>1. rec' = [rec EXCEPT ![r].waker = StoresWaker(r)] /\ CallerTo(r, "waiting")
    BY <1>3 DEF TakeOutcome
  <2>2. StoresWaker(r) \in BOOLEAN
    <3>1. CASE StoresWaker(r)
      <4>1. StoresWaker(r) = TRUE
        BY <3>1, Zenon DEF StoresWaker
      <4> QED BY <4>1
    <3>2. CASE ~StoresWaker(r)
      <4>1. StoresWaker(r) = FALSE
        BY <3>2 DEF StoresWaker
      <4> QED BY <4>1
    <3> QED BY <3>1, <3>2
  <2> QED BY <1>1, <1>3, <2>1, <2>2 DEF Records
<1> QED
  BY <1>2, <1>3

(* Dropping a future leaves its record to whoever resolves it.              *)
LEMMA AbandonStep ==
  ASSUME TypeOK, NEW r \in Acquirers, Abandon(r)
  PROVE  /\ caller[r] \in {"poll", "waiting"} /\ CallerTo(r, "gone")
         /\ rec' \in [Acquirers -> Records]
         /\ \A q \in Acquirers \ {r} : rec'[q] = rec[q]
         /\ rec'[r].st = IF rec[r].st \in {"resolving", "leaving"}
                         THEN "leaving" ELSE "abandoned"
         /\ IF rec[r].st = "ready" /\ rec[r].out = "granted" THEN Seal(r)
            ELSE UNCHANGED inbox
         /\ alarm' \in [Acquirers -> {"none", "armed", "disarmed", "fired"}]
<1> DEFINE new == [st |-> IF rec[r].st \in {"resolving", "leaving"}
                          THEN "leaving" ELSE "abandoned",
                   out |-> "none", waker |-> FALSE]
<1>1. /\ caller[r] \in {"poll", "waiting"} /\ CallerTo(r, "gone")
      /\ rec' = [rec EXCEPT ![r] = new] /\ alarm' = Disarmed(r)
      /\ IF rec[r].st = "ready" /\ rec[r].out = "granted" THEN Seal(r)
         ELSE UNCHANGED inbox
  BY DEF Abandon
<1>2. /\ new \in Records
      /\ new.st = IF rec[r].st \in {"resolving", "leaving"}
                  THEN "leaving" ELSE "abandoned"
  BY DEF Records, RecSts, Outs
<1>3. rec \in [Acquirers -> Records]
  BY DEF TypeOK
<1> HIDE DEF new
<1>4. /\ rec' \in [Acquirers -> Records] /\ rec'[r] = new
      /\ \A q \in Acquirers \ {r} : rec'[q] = rec[q]
  BY <1>1, <1>2, <1>3
<1>5. alarm' \in [Acquirers -> {"none", "armed", "disarmed", "fired"}]
  BY <1>1, DisarmedType
<1> QED
  BY <1>1, <1>2, <1>4, <1>5

(* The cancellation hook starts to resolve, or finds nothing to do.         *)
LEMMA CancelStep ==
  ASSUME TypeOK, NEW r \in Acquirers, CancelAcquirer(r)
  PROVE  Starts(Hook(r), r) \/ UNCHANGED resolver
<1> DEFINE job == [Free EXCEPT !.pc = "reserve", !.r = r, !.out = "cancelled"]
<1>1. UNCHANGED resolver \/ resolver' = [resolver EXCEPT ![Hook(r)] = job]
  BY DEF CancelAcquirer
<1>2. /\ job \in Jobs /\ job.pc = "reserve" /\ job.r = r /\ job.out = "cancelled"
      /\ Hook(r) \in Threads /\ resolver \in [Threads -> Jobs]
  BY ThreadPlaces DEF Free, Jobs, Outs, TypeOK
<1> HIDE DEF job
<1> QED
  BY <1>1, <1>2 DEF Starts

(* A step of the future, of its signals, of close or of a submission keeps  *)
(* the types.                                                               *)
LEMMA FutureType ==
  ASSUME TypeOK, NEW r \in Acquirers,
         \/ Polling(r) \/ Request(r) \/ Abandon(r) \/ Release(r)
         \/ CancelAcquirer(r) \/ DeadlineReached(r)
  PROVE  TypeOK'
<1>1. /\ Caller(r) \in Threads /\ Hook(r) \in Threads
      /\ {"poll", "take", "waiting", "holding", "done", "gone"} \subseteq Callers
  BY ThreadPlaces DEF Callers
<1>2. CASE Request(r)
  <2>1. /\ rec' \in [Acquirers -> Records]
        /\ alarm' \in [Acquirers -> {"none", "armed", "disarmed", "fired"}]
        /\ registered' \subseteq Acquirers /\ faults' \in 0..MaxFaults
        /\ UNCHANGED <<signals, awake, lane, writers, conn, failed, closer>>
    BY <1>2, RequestStep
  <2>2. caller' \in [Acquirers -> Callers]
    BY <1>1, <1>2, RequestStep, CallerType
  <2>3. inbox' \in Seq(Mail)
    BY <1>2, RequestStep, SendType, MailKinds DEF TypeOK
  <2>4. resolver' \in [Threads -> Jobs]
    BY <1>2, RequestStep DEF Starts, TypeOK
  <2> QED
    BY <2>1, <2>2, <2>3, <2>4 DEF TypeOK, signals, writers
<1>3. CASE Poll(r)
  <2>1. resolver' \in [Threads -> Jobs]
    BY <1>3, PollStep DEF Starts, TypeOK
  <2>2. caller' \in [Acquirers -> Callers]
    BY <1>1, <1>3, CallerType DEF Poll
  <2> QED
    BY <1>3, <2>1, <2>2 DEF Poll, TypeOK, signals, writers, port
<1>4. CASE TakeOutcome(r)
  <2>1. rec' \in [Acquirers -> Records]
    BY <1>4, TakeOutcomeStep
  <2>2. caller' \in [Acquirers -> Callers]
    BY <1>1, <1>4, TakeOutcomeStep, CallerType
  <2> QED
    BY <1>4, <2>1, <2>2 DEF TakeOutcome, TypeOK, signals, writers, port
<1>5. CASE PollAgain(r)
  <2>1. caller' \in [Acquirers -> Callers]
    BY <1>1, <1>5, CallerType DEF PollAgain
  <2> QED
    BY <1>5, <2>1 DEF PollAgain, TypeOK, signals, writers, port
<1>6. CASE AlarmFires(r)
  BY <1>6 DEF AlarmFires, TypeOK, signals, writers, port
<1>7. CASE Abandon(r)
  <2>1. /\ rec' \in [Acquirers -> Records]
        /\ alarm' \in [Acquirers -> {"none", "armed", "disarmed", "fired"}]
    BY <1>7, AbandonStep
  <2>2. caller' \in [Acquirers -> Callers]
    BY <1>1, <1>7, AbandonStep, CallerType
  <2>3. inbox' \in Seq(Mail)
    BY <1>7, AbandonStep, SealType DEF TypeOK
  <2> QED
    BY <1>7, <2>1, <2>2, <2>3 DEF Abandon, TypeOK, signals, writers, port
<1>8. CASE Release(r)
  <2>1. caller' \in [Acquirers -> Callers] /\ inbox' \in Seq(Mail)
    BY <1>1, <1>8, CallerType, SealType DEF Release
  <2> QED
    BY <1>8, <2>1 DEF Release, TypeOK, signals, writers, port
<1>9. CASE CancelAcquirer(r)
  <2>1. resolver' \in [Threads -> Jobs]
    BY <1>9, CancelStep DEF Starts, TypeOK
  <2> QED
    BY <1>9, <2>1 DEF CancelAcquirer, TypeOK, future, writers, port
<1>10. CASE DeadlineReached(r)
  BY <1>10 DEF DeadlineReached, TypeOK, future, writers, port
<1> QED
  BY <1>2, <1>3, <1>4, <1>5, <1>6, <1>7, <1>8, <1>9, <1>10 DEF Polling

(* Submitting a precise sequence keeps the types.                           *)
LEMMA SubmitType ==
  ASSUME TypeOK, NEW s \in Precise, Submit(s) PROVE TypeOK'
<1>1. op' \in [Ops -> Outcomes]
  <2>1. \/ op' = [op EXCEPT ![s] = "queued"]
        \/ op' = [op EXCEPT ![s] = "failed"]
        \/ op' = [op EXCEPT ![s] = "cancelled"]
    BY DEF Submit
  <2>2. op \in [Ops -> Outcomes] /\ {"queued", "failed", "cancelled"} \subseteq Outcomes
    BY DEF TypeOK, Outcomes
  <2> QED BY <2>1, <2>2
<1>2. inbox' \in Seq(Mail)
  <2>1. UNCHANGED inbox \/ Send(<<"sequence", s>>)
    BY DEF Submit
  <2> QED BY <2>1, SendType, MailKinds DEF TypeOK
<1> QED
  BY <1>1, <1>2 DEF Submit, TypeOK, signals, future, port

(* The closing thread keeps the types.                                      *)
LEMMA CloseType ==
  ASSUME TypeOK, CloseNext \/ CloseIntent PROVE TypeOK'
<1>0. closer.pc \in {"idle", "drain", "settle", "join"} /\ closer.todo \subseteq Acquirers
  BY CloserFields DEF TypeOK
<1>1. CASE CloseIntent
  <2>1. closer' \in Closers
    BY <1>1 DEF CloseIntent, Closers
  <2> QED
    BY <1>1, <2>1 DEF CloseIntent, TypeOK, signals, future, writers
<1>2. CASE DrainAcquires
  <2>1. closer' \in Closers /\ registered' \subseteq Acquirers
    BY <1>2 DEF DrainAcquires, Closers, TypeOK
  <2> QED
    BY <1>2, <2>1 DEF DrainAcquires, TypeOK, signals, future, writers, port
<1>3. CASE SettleAcquire
  <2>1. PICK r \in closer.todo : /\ closer' = [closer EXCEPT !.todo = @ \ {r}]
                                 /\ Resolve(Closer, r, "closed")
    BY <1>3 DEF SettleAcquire
  <2>2. closer' \in Closers
    BY <2>1 DEF Closers, TypeOK
  <2>3. resolver' \in [Threads -> Jobs]
    <3>1. "closed" \in Outs \ {"granted"}
      BY DEF Outs
    <3> QED BY <1>0, <2>1, <3>1, ThreadPlaces, ResolveStarts DEF Starts
  <2> QED
    BY <1>3, <2>2, <2>3 DEF SettleAcquire, TypeOK, signals, future, writers, port
<1>4. CASE SendClose
  <2>1. closer' \in Closers
    BY <1>4 DEF SendClose, Closers, TypeOK
  <2>2. inbox' \in Seq(Mail)
    BY <1>4, SendType, MailKinds DEF SendClose
  <2> QED
    BY <1>4, <2>1, <2>2 DEF SendClose, TypeOK, signals, future, writers, port
<1> QED
  BY <1>1, <1>2, <1>3, <1>4 DEF CloseNext

(* The lane's reports leave the futures, the channel and close alone.       *)
LEMMA ReportingFrame ==
  Reporting => UNCHANGED <<late, future, resolver, registered, inbox, closer>>
BY DEF Reporting, Top, NothingDue, DispatchFront, ReportAccepted, Settle,
       WriteInterrupted, WriteFails, NeutralFails, StreamLost, FreeLane,
       DropPending, DropLost, NoCleanup, DispatchCleanup, CleanupLost, SealLane, Activate,
       signals

(* The places of the lane, by name.                                         *)
LEMMA LanePcsNamed ==
  {"top", "dispatch", "write", "seal", "settle", "drop", "cleanup", "activate", "take",
   "acquire", "await", "collect", "finish", "ended"} = LanePcs
BY DEF LanePcs

(* The report the lane would write next.                                    *)
LEMMA FrontEntry ==
  ASSUME TypeOK, pending # << >>
  PROVE  /\ pending[1] \in Entries /\ pending[1].op \in Ops
         /\ pending[1].kind \in {"direct", "step", "final", "neutral"}
         /\ pending[1].out \in {"ok", "cancelled", "failed"}
         /\ 1 \in DOMAIN pending
         /\ Tail(pending) \in Seq(Entries) /\ Len(Tail(pending)) = Len(pending) - 1
         /\ \A k \in DOMAIN Tail(pending) : k + 1 \in DOMAIN pending
                                            /\ Tail(pending)[k] = pending[k + 1]
<1>1. pending \in Seq(Entries)
  BY DEF TypeOK
<1>2. Len(pending) \in Nat /\ Len(pending) # 0 /\ DOMAIN pending = 1..Len(pending)
  BY <1>1
<1>3. pending[1] \in Entries /\ 1 \in DOMAIN pending
  BY <1>1, <1>2, ElementOfSeq
<1>4. /\ Tail(pending) \in Seq(Entries) /\ Len(Tail(pending)) = Len(pending) - 1
      /\ \A k \in 1..Len(Tail(pending)) : Tail(pending)[k] = pending[k + 1]
  BY <1>1, <1>2, HeadTailProperties
<1>5. DOMAIN Tail(pending) = 1..Len(Tail(pending))
  BY <1>4
<1> QED
  BY <1>2, <1>3, <1>4, <1>5, EntryFields

(* What a scheduled sequence is. *)
LEMMA ScheduleStep ==
  ASSUME TypeOK, NEW s \in Precise, Schedule(s)
  PROVE  /\ pending' \in Seq(Entries) /\ pending' # << >>
         /\ \A k \in DOMAIN pending' : pending'[k].op = s
         /\ Len(pending') <= 2
         /\ Len(pending') = 2 => pending'[1].kind = "step" /\ pending'[2].kind # "neutral"
         /\ pending'[Len(pending')].kind # "step"
         /\ faults' \in 0..MaxFaults
<1>1. s \in Ops
  BY DEF Ops
<1>2. CASE pending' = <<Report(s, "step"), Report(s, "final")>> /\ UNCHANGED faults
  <2>1. Report(s, "step") \in Entries /\ Report(s, "final") \in Entries
    BY NewEntries
  <2>2. /\ Report(s, "step").op = s /\ Report(s, "final").op = s
        /\ Report(s, "step").kind = "step" /\ Report(s, "final").kind = "final"
    BY DEF Report
  <2> QED BY <1>2, <2>1, <2>2 DEF TypeOK
<1>3. CASE pending' = <<Neutral(s, "failed")>> /\ Fault
  <2>1. Neutral(s, "failed") \in Entries
    BY <1>1, NewEntries
  <2>2. Neutral(s, "failed").op = s /\ Neutral(s, "failed").kind = "neutral"
    BY DEF Neutral
  <2>3. faults' \in 0..MaxFaults
    BY <1>3, FaultType
  <2> QED BY <1>3, <2>1, <2>2, <2>3
<1> QED
  BY <1>2, <1>3 DEF Schedule

-----------------------------------------------------------------------------
(* What a step of the lane's reports does to the writers                    *)

(* Nothing; the neutral of an operation takes the place of its reports; a   *)
(* sequence's first report is out; the last one of an operation is out or   *)
(* given up; an operation is settled; the lane fails for good; what is      *)
(* scheduled is dropped; the cleanup is done; the waiting sequence's turn;  *)
(* the stream is lost under a report, then nobody owns.                     *)
Stays == UNCHANGED <<writers, failed>>

Replaces ==
  /\ UNCHANGED <<owner, cleanup, op, failed>>
  /\ pending' \in Seq(Entries) /\ pending' # << >> /\ pending'[1].kind = "neutral"
  /\ \/ /\ pending = << >> /\ waiting # Nobody /\ waiting' = Nobody
        /\ Len(pending') = 1 /\ pending'[1].op = waiting
     \/ /\ UNCHANGED waiting
        /\ \E i \in DOMAIN pending :
             /\ pending'[1].op = pending[i].op
             /\ \A k \in DOMAIN pending' \ {1} :
                  /\ pending'[k].op # pending[i].op
                  /\ \E j \in DOMAIN pending : pending'[k] = pending[j]

Advances ==
  /\ UNCHANGED <<owner, cleanup, op, waiting, failed>>
  /\ pending # << >> /\ pending[1].kind = "step" /\ pending' = Tail(pending)

Ends ==
  /\ UNCHANGED <<cleanup, op, waiting, failed>>
  /\ pending # << >> /\ owner' = ReleasedBy(pending[1].op)
  /\ lane'.pc = "settle" /\ lane'.who = pending[1].op
  /\ pending' = Without(pending[1].op)
     \/ (pending[1].kind # "step" /\ pending' = Tail(pending))

Settles ==
  /\ UNCHANGED <<owner, cleanup, pending, waiting, failed>>
  /\ lane.pc = "settle" /\ op' = Settled({lane.who}, lane.out)

Seals ==
  /\ failed' = TRUE /\ owner' = Nobody /\ cleanup' = Nobody /\ waiting' = Nobody
  /\ pending' = << >> /\ op' = Settled(PendingOps \union {waiting}, "failed")

Drops ==
  /\ op' = Settled(PendingOps \union {waiting}, "failed")
  /\ owner' = IF owner \in PendingOps \union {waiting} THEN Nobody ELSE owner
  /\ pending' = << >> /\ waiting' = Nobody /\ UNCHANGED <<cleanup, failed>>

Cleans ==
  /\ cleanup # Nobody /\ owner' = ReleasedBy(cleanup) /\ cleanup' = Nobody
  /\ UNCHANGED <<waiting, pending, op, failed>>

Turns ==
  /\ UNCHANGED <<owner, cleanup, op, failed>>
  /\ pending = << >> /\ waiting # Nobody /\ waiting' = Nobody /\ Schedule(waiting)

Fails ==
  /\ failed' = TRUE /\ cleanup' = Nobody /\ waiting' = Nobody /\ pending' = << >>
  /\ pending # << >> /\ lane.pc = "write"
  /\ lane'.pc = "seal" /\ lane'.who = pending[1].op
  /\ owner' \in {owner, Nobody}
  /\ owner' # Nobody =>
       /\ owner' # waiting /\ owner' # cleanup
       /\ \A i \in DOMAIN pending \ {1} :
            pending[i].op = owner' => pending[i].kind = "neutral"
  /\ \E S : /\ op' = Settled(S, "failed") /\ waiting \in S
            /\ \A i \in DOMAIN pending \ {1} : pending[i].op \in S
            /\ \A o \in S : \/ o = waiting
                           \/ \E i \in DOMAIN pending \ {1} : pending[i].op = o

Frees ==
  /\ UNCHANGED <<cleanup, waiting, pending, op, failed>> /\ owner' = Nobody
  /\ lane.pc = "seal" /\ lane'.pc = "settle" /\ lane'.who = lane.who

Working == {"top", "dispatch", "write", "seal", "settle", "drop", "cleanup", "activate"}

(* A cleanup of a scheduled report is a replacement of the schedule.        *)
LEMMA CleanUpReplaces ==
  ASSUME TypeOK, NEW i \in DOMAIN pending, NEW out \in {"cancelled", "failed"},
         CleanUp(pending[i].op, out), UNCHANGED <<owner, cleanup, op, failed, waiting>>
  PROVE  Replaces
<1>1. pending[i].op \in Ops
  <2>1. pending[i] \in Entries
    BY ElementOfSeq DEF TypeOK
  <2> QED BY <2>1, EntryFields
<1>2. /\ pending' \in Seq(Entries) /\ pending' # << >>
      /\ pending'[1] = Neutral(pending[i].op, out)
      /\ \A k \in DOMAIN pending' \ {1} :
           /\ pending'[k].op # pending[i].op
           /\ \E j \in DOMAIN pending : pending'[k] = pending[j]
  BY <1>1, CleanUpEntries
<1>3. /\ Neutral(pending[i].op, out).kind = "neutral"
      /\ Neutral(pending[i].op, out).op = pending[i].op
  BY DEF Neutral
<1> QED
  BY <1>2, <1>3 DEF Replaces

(* So is the cancellation of the sequence that waits for its deadline.      *)
LEMMA WaitingReplaces ==
  ASSUME TypeOK, waiting # Nobody, pending = << >>, waiting' = Nobody,
         pending' = <<Neutral(waiting, "cancelled")>>,
         UNCHANGED <<owner, cleanup, op, failed>>
  PROVE  Replaces
<1>1. waiting \in Ops
  BY DEF TypeOK, Ops
<1>2. Neutral(waiting, "cancelled") \in Entries
  BY <1>1, NewEntries
<1>3. /\ Neutral(waiting, "cancelled").kind = "neutral"
      /\ Neutral(waiting, "cancelled").op = waiting
  BY DEF Neutral
<1>4. pending' \in Seq(Entries) /\ pending' # << >> /\ Len(pending') = 1
      /\ pending'[1] = Neutral(waiting, "cancelled")
  BY <1>2
<1> QED
  BY <1>3, <1>4 DEF Replaces

(* Observing the tokens leaves the schedule alone or replaces it.           *)
LEMMA ObserveReplaces ==
  ASSUME TypeOK, Observe, UNCHANGED <<owner, cleanup, op, failed>>
  PROVE  Stays \/ Replaces
BY ObserveCases, CleanUpReplaces, WaitingReplaces DEF Stays, writers

(* Where the lane goes from each of its reports. *)
LEMMA ReportingPlaces ==
  ASSUME TypeOK, PlaceInv, Reporting
  PROVE  /\ resolver[Lane].pc = "free" /\ lane.pc \in Working
         /\ lane' \in Lanes /\ lane'.pc \notin {"acquire", "collect", "finish", "ended"}
         /\ lane'.pc = "write" => pending' # << >>
         /\ lane'.pc \in {"seal", "settle"} =>
              lane'.who \in Ops /\ lane'.out # "none" /\ lane'.then # "none"
<1> DEFINE Good == /\ resolver[Lane].pc = "free" /\ lane.pc \in Working
                   /\ lane' \in Lanes
                   /\ lane'.pc \notin {"acquire", "collect", "finish", "ended"}
                   /\ lane'.pc = "write" => pending' # << >>
                   /\ lane'.pc \in {"seal", "settle"} =>
                        lane'.who \in Ops /\ lane'.out # "none" /\ lane'.then # "none"
<1>1. lane \in Lanes
  BY DEF TypeOK
<1>2. \A pc \in LanePcs : Goto(pc) => lane' \in Lanes /\ lane'.pc = pc
  BY <1>1, GotoFields
<1>3. \A p, w : AfterReports(p, w) \in {"cleanup", "activate", "take"}
  BY DEF AfterReports
<1>4. /\ {"cleanup", "activate", "take", "await", "dispatch", "write"} \subseteq LanePcs
      /\ {"top", "dispatch", "write", "seal", "settle", "drop", "cleanup", "activate"}
           \subseteq Working
  BY DEF LanePcs, Working
<1>5. \A o \in Ops, out \in {"ok", "cancelled", "failed"}, then \in {"dispatch", "drop"} :
        SettleNext(o, out, then) =>
          /\ lane' \in Lanes /\ lane'.pc = "settle" /\ lane'.who = o
          /\ lane'.out = out /\ lane'.then = then
  BY DEF SettleNext, Lanes, LanePcs
<1>6. ASSUME Top PROVE Good
  BY <1>2, <1>3, <1>4, <1>6 DEF Top, At
<1>7. ASSUME NothingDue PROVE Good
  BY <1>2, <1>3, <1>4, <1>7 DEF NothingDue, At
<1>8. ASSUME DispatchFront PROVE Good
  <2>1. CASE UNCHANGED lane
    BY <1>1, <1>4, <1>8, <2>1 DEF DispatchFront, At
  <2>2. CASE Goto("write") /\ UNCHANGED <<cancelled, pending, waiting>>
    BY <1>2, <1>4, <1>8, <2>2 DEF DispatchFront, At
  <2> QED BY <1>8, <2>1, <2>2 DEF DispatchFront
<1>9. ASSUME ReportAccepted PROVE Good
  <2>1. At("write") /\ pending # << >>
    BY <1>9 DEF ReportAccepted, PlaceInv, At
  <2>2. pending[1].op \in Ops /\ pending[1].out \in {"ok", "cancelled", "failed"}
    BY <2>1, FrontEntry
  <2> QED BY <1>2, <1>4, <1>5, <1>9, <2>1, <2>2 DEF ReportAccepted, At
<1>10. ASSUME Settle PROVE Good
  <2>1. At("settle") /\ lane.then \in {"dispatch", "drop"}
    BY <1>1, <1>10, LaneFields DEF Settle, PlaceInv, At
  <2>2. lane' = [pc |-> lane.then, who |-> Nobody, out |-> "none", then |-> "none"]
    BY <1>10 DEF Settle
  <2>3. lane' \in Lanes /\ lane'.pc = lane.then
    BY <2>1, <2>2 DEF Lanes, LanePcs
  <2> QED BY <1>4, <2>1, <2>3 DEF At
<1>11. ASSUME WriteInterrupted \/ WriteFails PROVE Good
  BY <1>2, <1>4, <1>11 DEF WriteInterrupted, WriteFails, At
<1>12. ASSUME NeutralFails PROVE Good
  <2>1. At("write") /\ pending # << >>
    BY <1>12 DEF NeutralFails, PlaceInv, At
  <2>2. pending[1].op \in Ops /\ pending[1].out \in {"ok", "cancelled", "failed"}
    BY <2>1, FrontEntry
  <2> QED BY <1>4, <1>5, <1>12, <2>1, <2>2 DEF NeutralFails, At
<1>13. ASSUME DropLost \/ DropPending PROVE Good
  BY <1>2, <1>4, <1>13 DEF DropLost, DropPending, At
<1>15. ASSUME StreamLost PROVE Good
  <2>1. /\ At("write") /\ pending # << >>
        /\ lane' = [pc |-> "seal", who |-> pending[1].op, out |-> "failed",
                    then |-> "dispatch"]
    BY <1>15 DEF StreamLost, PlaceInv, At
  <2>2. pending[1].op \in Ops
    BY <2>1, FrontEntry
  <2>3. lane' \in Lanes /\ lane'.pc = "seal" /\ lane'.who = pending[1].op
        /\ lane'.out = "failed" /\ lane'.then = "dispatch"
    BY <2>1, <2>2 DEF Lanes, LanePcs
  <2> QED BY <1>4, <2>1, <2>2, <2>3 DEF At
<1>16. ASSUME FreeLane PROVE Good
  <2>1. At("seal") /\ Goto("settle")
    BY <1>16 DEF FreeLane
  <2>2. /\ lane' \in Lanes /\ lane'.pc = "settle" /\ lane'.who = lane.who
        /\ lane'.out = lane.out /\ lane'.then = lane.then
    <3>1. "settle" \in LanePcs
      BY DEF LanePcs
    <3> QED BY <1>1, <2>1, <3>1, GotoFields
  <2> QED BY <1>4, <2>1, <2>2 DEF PlaceInv, At
<1>14. ASSUME NoCleanup \/ DispatchCleanup \/ CleanupLost \/ Activate PROVE Good
  BY <1>2, <1>4, <1>14 DEF NoCleanup, DispatchCleanup, CleanupLost, Activate, At
<1> QED
  BY <1>6, <1>7, <1>8, <1>9, <1>10, <1>11, <1>12, <1>13, <1>14, <1>15, <1>16 DEF Reporting

Handles == \/ Stays \/ Replaces \/ Advances \/ Settles \/ Seals \/ Drops
           \/ Cleans \/ Turns

(* Each report of the lane handles the schedule or ends an operation.       *)
LEMMA ReportingEffects ==
  ASSUME TypeOK, PlaceInv, Reporting
  PROVE  \/ Handles /\ lane.pc # "seal" /\ lane'.pc \notin {"seal", "settle"}
         \/ Ends /\ lane.pc # "seal"
         \/ Fails \/ Frees
<1> DEFINE Good == \/ Handles /\ lane.pc # "seal" /\ lane'.pc \notin {"seal", "settle"}
                   \/ Ends /\ lane.pc # "seal"
                   \/ Fails \/ Frees
<1>1. lane \in Lanes
  BY DEF TypeOK
<1>2. \A pc \in LanePcs : Goto(pc) => lane'.pc = pc
  BY <1>1, GotoFields
<1>3. \A p, w : AfterReports(p, w) \in {"cleanup", "activate", "take"}
  BY DEF AfterReports
<1>4. {"cleanup", "activate", "take", "await", "dispatch", "write"} \subseteq LanePcs
  BY DEF LanePcs
<1>5. \A o, out, then :
        SettleNext(o, out, then) => lane'.pc = "settle" /\ lane'.who = o
  BY DEF SettleNext
<1>6. ASSUME Top PROVE Good
  <2>1. lane.pc # "seal" /\ lane'.pc \notin {"seal", "settle"}
    BY <1>2, <1>3, <1>4, <1>6 DEF Top, At
  <2>2. UNCHANGED <<owner, cleanup, op, failed>>
    BY <1>6 DEF Top, port
  <2>3. Stays \/ Replaces
    BY <1>6, <2>2, ObserveReplaces DEF Top, Stays, writers
  <2> QED BY <2>1, <2>3 DEF Handles
<1>7. ASSUME NothingDue \/ NoCleanup PROVE Good
  <2>1. lane.pc # "seal" /\ lane'.pc \notin {"seal", "settle"}
    BY <1>2, <1>3, <1>4, <1>7 DEF NothingDue, NoCleanup, At
  <2> QED BY <1>7, <2>1 DEF NothingDue, NoCleanup, port, Handles, Stays
<1>8. ASSUME DispatchFront PROVE Good
  <2>1. UNCHANGED <<owner, cleanup, op, failed>>
    BY <1>8 DEF DispatchFront, port
  <2>2. lane.pc # "seal" /\ lane'.pc \notin {"seal", "settle"}
    BY <1>2, <1>4, <1>8 DEF DispatchFront, At
  <2>3. Stays \/ Replaces
    BY <1>8, <2>1, ObserveReplaces DEF DispatchFront, Stays, writers
  <2> QED BY <2>2, <2>3 DEF Handles
<1>9. ASSUME ReportAccepted PROVE Good
  <2>1. /\ pending # << >> /\ pending' = Tail(pending)
        /\ UNCHANGED <<cleanup, op, waiting, failed>>
    BY <1>9 DEF ReportAccepted, PlaceInv, At, port
  <2>2. CASE pending[1].kind = "step"
    <3>1. UNCHANGED owner /\ lane'.pc = "dispatch"
      BY <1>2, <1>4, <1>9, <2>2 DEF ReportAccepted
    <3> QED BY <1>9, <2>1, <2>2, <3>1 DEF Advances, Handles, ReportAccepted, At
  <2>3. CASE pending[1].kind # "step"
    <3>1. /\ owner' = ReleasedBy(pending[1].op)
          /\ lane'.pc = "settle" /\ lane'.who = pending[1].op
      BY <1>5, <1>9, <2>3 DEF ReportAccepted
    <3> QED BY <1>9, <2>1, <2>3, <3>1 DEF Ends, ReportAccepted, At
  <2> QED BY <2>2, <2>3
<1>10. ASSUME Settle PROVE Good
  <2>1. lane.pc # "seal" /\ lane'.pc \notin {"seal", "settle"}
    BY <1>1, <1>10, LaneFields DEF Settle, At
  <2> QED BY <1>10, <2>1 DEF Settle, At, Settles, Handles, port
<1>11. ASSUME WriteInterrupted \/ WriteFails PROVE Good
  <2>1. lane.pc # "seal" /\ lane'.pc \notin {"seal", "settle"}
    BY <1>2, <1>4, <1>11 DEF WriteInterrupted, WriteFails, At
  <2>2. 1 \in DOMAIN pending /\ UNCHANGED <<owner, cleanup, op, failed, waiting>>
    BY <1>11, FrontEntry DEF WriteInterrupted, WriteFails, PlaceInv, At
  <2>3. \E out \in {"cancelled", "failed"} : CleanUp(pending[1].op, out)
    BY <1>11 DEF WriteInterrupted, WriteFails, At
  <2> QED BY <2>1, <2>2, <2>3, CleanUpReplaces DEF Handles
<1>12. ASSUME NeutralFails PROVE Good
  BY <1>5, <1>12 DEF NeutralFails, PlaceInv, At, Ends
<1>13. ASSUME DropLost \/ CleanupLost PROVE Good
  <2>1. lane.pc # "seal" /\ lane'.pc \notin {"seal", "settle"}
    BY <1>2, <1>4, <1>13 DEF DropLost, CleanupLost, At
  <2> QED BY <1>13, <2>1 DEF DropLost, CleanupLost, SealLane, LosesStream, Seals, Handles
<1>17. ASSUME StreamLost PROVE Good
  <2> DEFINE rest == ToSet(Tail(pending))
             released == {e.op : e \in {x \in rest : x.kind # "neutral"}}
                         \union {waiting, cleanup}
             S == {e.op : e \in rest} \union {waiting}
  <2>1. /\ failed' = TRUE /\ cleanup' = Nobody /\ waiting' = Nobody /\ pending' = << >>
        /\ pending # << >> /\ lane.pc = "write"
        /\ lane' = [pc |-> "seal", who |-> pending[1].op, out |-> "failed",
                    then |-> "dispatch"]
        /\ op' = Settled(S, "failed")
        /\ owner' = IF owner \in released THEN Nobody ELSE owner
    BY <1>17 DEF StreamLost, LosesStream, PlaceInv, At
  <2>2. /\ \A i \in DOMAIN pending \ {1} : pending[i] \in rest
        /\ \A e \in rest : \E i \in DOMAIN pending \ {1} : pending[i] = e
    <3>1. /\ Tail(pending) \in Seq(Entries) /\ Len(Tail(pending)) = Len(pending) - 1
          /\ \A k \in DOMAIN Tail(pending) : k + 1 \in DOMAIN pending
                                             /\ Tail(pending)[k] = pending[k + 1]
      BY <2>1, FrontEntry
    <3>2. DOMAIN pending = 1..Len(pending) /\ Len(pending) \in Nat
      BY DEF TypeOK
    <3>3. DOMAIN Tail(pending) = 1..(Len(pending) - 1)
      BY <3>1, <3>2
    <3>4. ASSUME NEW i \in DOMAIN pending \ {1} PROVE pending[i] \in rest
      <4>1. i - 1 \in DOMAIN Tail(pending) /\ (i - 1) + 1 = i
        BY <3>2, <3>3
      <4>2. Tail(pending)[i - 1] = pending[i]
        BY <3>1, <4>1
      <4> QED BY <4>1, <4>2 DEF ToSet
    <3>5. ASSUME NEW e \in rest PROVE \E i \in DOMAIN pending \ {1} : pending[i] = e
      <4>1. PICK k \in DOMAIN Tail(pending) : e = Tail(pending)[k]
        BY DEF ToSet
      <4>2. k + 1 \in DOMAIN pending /\ pending[k + 1] = e /\ k + 1 # 1
        BY <3>1, <3>3, <4>1
      <4> QED BY <4>2
    <3> QED BY <3>4, <3>5
  <2> HIDE DEF rest
  <2>3. owner' \in {owner, Nobody}
    BY <2>1
  <2>4. owner' # Nobody => owner' = owner /\ owner' \notin released
    BY <2>1
  <2>5. owner' # Nobody =>
          /\ owner' # waiting /\ owner' # cleanup
          /\ \A i \in DOMAIN pending \ {1} :
               pending[i].op = owner' => pending[i].kind = "neutral"
    BY <2>2, <2>4
  <2>6. /\ waiting \in S
        /\ \A i \in DOMAIN pending \ {1} : pending[i].op \in S
        /\ \A o \in S : \/ o = waiting
                       \/ \E i \in DOMAIN pending \ {1} : pending[i].op = o
    BY <2>2
  <2> HIDE DEF S, released
  <2>7. lane'.pc = "seal" /\ lane'.who = pending[1].op
    BY <2>1
  <2> QED BY <2>1, <2>3, <2>5, <2>6, <2>7 DEF Fails
<1>18. ASSUME FreeLane PROVE Good
  <2>1. lane.pc = "seal" /\ lane'.pc = "settle" /\ lane'.who = lane.who
    <3>1. "settle" \in LanePcs
      BY DEF LanePcs
    <3> QED BY <1>1, <1>18, <3>1, GotoFields DEF FreeLane, At
  <2> QED BY <1>18, <2>1 DEF FreeLane, port, Frees
<1>14. ASSUME DropPending PROVE Good
  <2>1. lane.pc # "seal" /\ lane'.pc \notin {"seal", "settle"}
    BY <1>2, <1>4, <1>14 DEF DropPending, At
  <2> QED BY <1>14, <2>1 DEF DropPending, Drops, Handles
<1>15. ASSUME DispatchCleanup PROVE Good
  <2>1. lane.pc # "seal" /\ lane'.pc \notin {"seal", "settle"}
    BY <1>2, <1>4, <1>15 DEF DispatchCleanup, At
  <2> QED BY <1>15, <2>1 DEF DispatchCleanup, Cleans, Handles
<1>16. ASSUME Activate PROVE Good
  <2>1. lane.pc # "seal" /\ lane'.pc \notin {"seal", "settle"} /\ UNCHANGED <<owner, cleanup, op, failed>>
    BY <1>2, <1>4, <1>16 DEF Activate, At
  <2>2. \/ UNCHANGED <<waiting, pending>>
        \/ /\ pending = << >> /\ waiting # Nobody /\ waiting' = Nobody
           /\ pending' = <<Neutral(waiting, "cancelled")>> \/ Schedule(waiting)
    BY <1>16 DEF Activate
  <2> QED BY <2>1, <2>2, WaitingReplaces DEF Turns, Stays, writers, Handles
<1> QED
  BY <1>6, <1>7, <1>8, <1>9, <1>10, <1>11, <1>12, <1>13, <1>14, <1>15, <1>16,
     <1>17, <1>18 DEF Reporting

(* The port and the tokens under the lane's reports. *)
LEMMA ReportingPort ==
  ASSUME TypeOK, Reporting
  PROVE  /\ cancelled' \subseteq Acquirers \union Ops
         /\ conn' \in {"connected", "disconnecting", "disconnected", "closed"}
         /\ faults' \in 0..MaxFaults
<1> DEFINE Good == /\ cancelled' \subseteq Acquirers \union Ops
                   /\ conn' \in {"connected", "disconnecting", "disconnected", "closed"}
                   /\ faults' \in 0..MaxFaults
<1>1. /\ cancelled \subseteq Acquirers \union Ops
      /\ conn \in {"connected", "disconnecting", "disconnected", "closed"}
      /\ faults \in 0..MaxFaults
  BY DEF TypeOK
<1>2. Dropped \in {"connected", "disconnecting", "disconnected", "closed"}
  BY <1>1 DEF Dropped
<1>3. /\ Fault => faults' \in 0..MaxFaults
      /\ MayFail => faults' \in 0..MaxFaults
  BY FaultType, MayFailType
<1>4. ASSUME Top \/ DispatchFront PROVE Good
  BY <1>1, <1>4, ObserveCases DEF Top, DispatchFront, port
<1>5. ASSUME NothingDue \/ ReportAccepted \/ Settle \/ NoCleanup PROVE Good
  BY <1>1, <1>5 DEF NothingDue, ReportAccepted, Settle, NoCleanup, port, signals
<1>6. ASSUME WriteInterrupted \/ WriteFails \/ NeutralFails PROVE Good
  BY <1>1, <1>2, <1>3, <1>6 DEF WriteInterrupted, WriteFails, NeutralFails, Breaks, signals
<1>7. ASSUME StreamLost \/ DropLost \/ CleanupLost PROVE Good
  BY <1>1, <1>2, <1>3, <1>7 DEF StreamLost, DropLost, CleanupLost, SealLane, LosesStream, signals
<1>8. ASSUME DropPending \/ FreeLane PROVE Good
  BY <1>1, <1>8 DEF DropPending, FreeLane, port, signals
<1>9. ASSUME DispatchCleanup PROVE Good
  BY <1>1, <1>2, <1>3, <1>9 DEF DispatchCleanup, signals
<1>10. ASSUME Activate PROVE Good
  <2>1. UNCHANGED <<cancelled, conn>>
    BY <1>10 DEF Activate, signals
  <2>2. UNCHANGED faults \/ (pending = << >> /\ waiting # Nobody /\ Schedule(waiting))
    BY <1>10 DEF Activate
  <2>3. waiting # Nobody => waiting \in Precise
    BY DEF TypeOK
  <2> QED BY <1>1, <2>1, <2>2, <2>3, ScheduleStep
<1> QED
  BY <1>4, <1>5, <1>6, <1>7, <1>8, <1>9, <1>10 DEF Reporting

(* Each of these effects keeps the types of what it writes.                 *)
LEMMA EffectTypes ==
  ASSUME TypeOK, PlaceInv, Reporting
  PROVE  /\ owner' \in Acquirers \union Precise \union {Nobody}
         /\ cleanup' \in Acquirers \union {Nobody}
         /\ waiting' \in Precise \union {Nobody}
         /\ pending' \in Seq(Entries) /\ op' \in [Ops -> Outcomes]
         /\ failed' \in BOOLEAN
<1> DEFINE Good == /\ owner' \in Acquirers \union Precise \union {Nobody}
                   /\ cleanup' \in Acquirers \union {Nobody}
                   /\ waiting' \in Precise \union {Nobody}
                   /\ pending' \in Seq(Entries) /\ op' \in [Ops -> Outcomes]
                   /\ failed' \in BOOLEAN
<1>1. /\ owner \in Acquirers \union Precise \union {Nobody}
      /\ cleanup \in Acquirers \union {Nobody}
      /\ waiting \in Precise \union {Nobody}
      /\ pending \in Seq(Entries) /\ op \in [Ops -> Outcomes] /\ failed \in BOOLEAN
  BY DEF TypeOK
<1>2. \A x : ReleasedBy(x) \in {owner, Nobody}
  BY DEF ReleasedBy
<1>3. Settled(PendingOps \union {waiting}, "failed") \in [Ops -> Outcomes]
  BY SettledOps
<1>4. ASSUME Stays PROVE Good
  BY <1>1, <1>4 DEF Stays, writers
<1>5. ASSUME Replaces PROVE Good
  BY <1>1, <1>5 DEF Replaces
<1>6. ASSUME Advances PROVE Good
  BY <1>1, <1>6, FrontEntry DEF Advances
<1>7. ASSUME Ends PROVE Good
  BY <1>1, <1>2, <1>7, FrontEntry, WithoutEntries DEF Ends
<1>8. ASSUME Settles PROVE Good
  <2>1. lane.out \in {"ok", "cancelled", "failed"}
    BY <1>8, LaneFields DEF Settles, PlaceInv, TypeOK
  <2>2. op' \in [Ops -> Outcomes]
    BY <1>8, <2>1, SettledOps DEF Settles
  <2> QED BY <1>1, <1>8, <2>2 DEF Settles
<1>9. ASSUME Seals PROVE Good
  <2>1. failed' \in BOOLEAN
    BY <1>9 DEF Seals
  <2>2. owner' = Nobody /\ cleanup' = Nobody /\ waiting' = Nobody
    BY <1>9 DEF Seals
  <2>3. pending' \in Seq(Entries) /\ op' \in [Ops -> Outcomes]
    <3>1. pending' = << >> /\ op' = Settled(PendingOps \union {waiting}, "failed")
      BY <1>9, Zenon DEF Seals
    <3>2. pending' \in Seq(Entries)
      BY <3>1
    <3>3. op' \in [Ops -> Outcomes]
      BY <1>3, <3>1, Zenon
    <3> QED BY <3>2, <3>3
  <2> QED BY <2>1, <2>2, <2>3
<1>10. ASSUME Drops PROVE Good
  <2>1. failed' \in BOOLEAN /\ cleanup' = cleanup
    BY <1>1, <1>10 DEF Drops
  <2>2. owner' \in {owner, Nobody} /\ waiting' = Nobody
    BY <1>10 DEF Drops
  <2>3. pending' \in Seq(Entries) /\ op' \in [Ops -> Outcomes]
    BY <1>3, <1>10 DEF Drops
  <2> QED BY <1>1, <2>1, <2>2, <2>3
<1>13. ASSUME Fails PROVE Good
  <2>1. failed' \in BOOLEAN /\ cleanup' = Nobody /\ waiting' = Nobody /\ owner' \in {owner, Nobody}
    BY <1>13 DEF Fails
  <2>2. pending' \in Seq(Entries)
    BY <1>13 DEF Fails
  <2>3. op' \in [Ops -> Outcomes]
    <3>1. PICK S : op' = Settled(S, "failed")
      BY <1>13 DEF Fails
    <3> QED BY <3>1, SettledOps
  <2> QED BY <1>1, <2>1, <2>2, <2>3
<1>14. ASSUME Frees PROVE Good
  BY <1>1, <1>14 DEF Frees
<1>11. ASSUME Cleans PROVE Good
  BY <1>1, <1>2, <1>11 DEF Cleans
<1>12. ASSUME Turns PROVE Good
  BY <1>1, <1>12, ScheduleStep DEF Turns
<1> QED
  BY <1>4, <1>5, <1>6, <1>7, <1>8, <1>9, <1>10, <1>11, <1>12, <1>13, <1>14, ReportingEffects
     DEF Handles

(* The reports of the lane keep the types.                                  *)
LEMMA ReportingType ==
  ASSUME TypeOK, PlaceInv, Reporting PROVE TypeOK'
<1>1. UNCHANGED <<late, future, resolver, registered, inbox, closer>>
  BY ReportingFrame
<1>2. lane' \in Lanes
  BY ReportingPlaces
<1> QED
  BY <1>1, <1>2, EffectTypes, ReportingPort DEF TypeOK, future

-----------------------------------------------------------------------------
(* What the lane's commands do                                              *)

(* The command the lane takes is the first of the channel. *)
LEMMA FirstCommand ==
  ASSUME TypeOK, inbox # << >>
  PROVE  /\ inbox[1] \in Mail /\ 1 \in DOMAIN inbox
         /\ Tail(inbox) \in Seq(Mail)
         /\ \A k \in DOMAIN Tail(inbox) : k + 1 \in DOMAIN inbox /\ k \in Nat
                                          /\ Tail(inbox)[k] = inbox[k + 1]
         /\ \A k \in DOMAIN inbox : k # 1 => k - 1 \in DOMAIN Tail(inbox)
                                             /\ Tail(inbox)[k - 1] = inbox[k]
<1>1. inbox \in Seq(Mail)
  BY DEF TypeOK
<1>2. Len(inbox) \in Nat /\ Len(inbox) # 0 /\ DOMAIN inbox = 1..Len(inbox)
  BY <1>1
<1>3. inbox[1] \in Mail /\ 1 \in DOMAIN inbox
  BY <1>1, <1>2, ElementOfSeq
<1>4. /\ Tail(inbox) \in Seq(Mail) /\ Len(Tail(inbox)) = Len(inbox) - 1
      /\ \A k \in 1..Len(Tail(inbox)) : Tail(inbox)[k] = inbox[k + 1]
  BY <1>1, <1>2, HeadTailProperties
<1>5. DOMAIN Tail(inbox) = 1..Len(Tail(inbox))
  BY <1>4
<1> QED
  BY <1>2, <1>3, <1>4, <1>5

(* Taking a command out of order leaves the others. *)
LEMMA RemovedCommand ==
  ASSUME TypeOK, NEW i \in DOMAIN inbox
  PROVE  /\ RemoveAt(inbox, i) \in Seq(Mail)
         /\ \A k \in DOMAIN RemoveAt(inbox, i) :
              LET j == IF k < i THEN k ELSE k + 1
              IN  j \in DOMAIN inbox /\ RemoveAt(inbox, i)[k] = inbox[j]
         /\ \A k, l \in DOMAIN RemoveAt(inbox, i) :
              (IF k < i THEN k ELSE k + 1) = (IF l < i THEN l ELSE l + 1) => k = l
         /\ \A j \in DOMAIN inbox : j # i =>
              \E k \in DOMAIN RemoveAt(inbox, i) : RemoveAt(inbox, i)[k] = inbox[j]
<1> DEFINE n == Len(inbox)
           A == SubSeq(inbox, 1, i - 1)
           B == SubSeq(inbox, i + 1, n)
           R == RemoveAt(inbox, i)
<1>1. inbox \in Seq(Mail) /\ n \in Nat /\ i \in 1..n /\ DOMAIN inbox = 1..n
  BY DEF TypeOK
<1>2. /\ A \in Seq(Mail) /\ Len(A) = i - 1
      /\ \A k \in 1..(i - 1) : A[k] = inbox[k]
  BY <1>1, SubSeqProperties
<1>3. /\ B \in Seq(Mail) /\ Len(B) = n - i
      /\ \A k \in 1..(n - i) : B[k] = inbox[i + k]
  BY <1>1, SubSeqProperties
<1>4. R = A \o B
  BY DEF RemoveAt
<1> HIDE DEF A, B, R
<1>5. /\ R \in Seq(Mail) /\ Len(R) = n - 1
      /\ \A k \in 1..(n - 1) : R[k] = IF k < i THEN A[k] ELSE B[k - (i - 1)]
  <2>1. /\ A \o B \in Seq(Mail) /\ Len(A \o B) = Len(A) + Len(B)
        /\ \A k \in 1..(Len(A) + Len(B)) :
             (A \o B)[k] = IF k <= Len(A) THEN A[k] ELSE B[k - Len(A)]
    BY <1>2, <1>3, ConcatProperties
  <2>2. (i - 1) + (n - i) = n - 1 /\ \A k \in 1..(n - 1) : k <= i - 1 <=> k < i
    BY <1>1
  <2> QED BY <1>2, <1>3, <1>4, <2>1, <2>2
<1>6. DOMAIN R = 1..(n - 1)
  BY <1>1, <1>5
<1>7. \A k \in 1..(n - 1) : R[k] = inbox[IF k < i THEN k ELSE k + 1]
  <2> TAKE k \in 1..(n - 1)
  <2>1. CASE k < i
    BY <1>1, <1>2, <1>5, <2>1
  <2>2. CASE ~(k < i)
    <3>1. k - (i - 1) \in 1..(n - i) /\ i + (k - (i - 1)) = k + 1
      BY <1>1, <2>2
    <3> QED BY <1>1, <1>3, <1>5, <2>2, <3>1
  <2> QED BY <2>1, <2>2
<1>8. \A j \in DOMAIN inbox : j # i => \E k \in DOMAIN R : R[k] = inbox[j]
  <2> SUFFICES ASSUME NEW j \in DOMAIN inbox, j # i
               PROVE  \E k \in DOMAIN R : R[k] = inbox[j]
    OBVIOUS
  <2>1. CASE j < i
    <3>1. j \in 1..(n - 1)
      BY <1>1, <2>1
    <3> QED BY <1>6, <1>7, <2>1, <3>1
  <2>2. CASE ~(j < i)
    <3>1. j - 1 \in 1..(n - 1) /\ ~(j - 1 < i) /\ (j - 1) + 1 = j
      BY <1>1, <2>2
    <3> QED BY <1>6, <1>7, <3>1
  <2> QED BY <2>1, <2>2
<1>9. \A k \in DOMAIN R : (IF k < i THEN k ELSE k + 1) \in DOMAIN inbox
  BY <1>1, <1>6
<1>10. \A k, l \in DOMAIN R :
         (IF k < i THEN k ELSE k + 1) = (IF l < i THEN l ELSE l + 1) => k = l
  BY <1>1, <1>6
<1> QED
  BY <1>5, <1>6, <1>7, <1>8, <1>9, <1>10 DEF R

(* The lane is free when it takes up a command, and where it goes.          *)
LEMMA CommandPlaces ==
  ASSUME TypeOK, PlaceInv, Commands
  PROVE  /\ resolver[Lane].pc = "free"
         /\ lane.pc \in {"take", "acquire", "await", "collect", "finish"}
         /\ lane' \in Lanes /\ lane'.pc \in {"top", "acquire", "collect", "finish", "ended"}
         /\ lane'.pc = "acquire" => lane'.who \in Acquirers
         /\ lane'.pc = "finish" => FinalNeutral
         /\ lane'.pc = "ended" => FinishClose
<1> DEFINE Good == /\ resolver[Lane].pc = "free"
                   /\ lane.pc \in {"take", "acquire", "await", "collect", "finish"}
                   /\ lane' \in Lanes
                   /\ lane'.pc \in {"top", "acquire", "collect", "finish", "ended"}
                   /\ lane'.pc = "acquire" => lane'.who \in Acquirers
                   /\ lane'.pc = "finish" => FinalNeutral
                   /\ lane'.pc = "ended" => FinishClose
<1>1. lane \in Lanes
  BY DEF TypeOK
<1>2. \A pc \in LanePcs : Goto(pc) => lane' \in Lanes /\ lane'.pc = pc
  BY <1>1, GotoFields
<1>3. {"top", "acquire", "collect", "finish", "ended"} \subseteq LanePcs
  BY DEF LanePcs
<1>4. ASSUME WaitEnds \/ TakeBegin \/ TakeSequence \/ CloseLane PROVE Good
  <2>1. /\ lane.pc \in {"take", "await"} /\ resolver[Lane].pc = "free"
        /\ Goto("top") \/ Goto("collect")
    BY <1>4 DEF WaitEnds, TakeBegin, TakeSequence, CloseLane, Take, At
  <2> QED BY <1>2, <1>3, <2>1
<1>5. ASSUME TakeAcquire PROVE Good
  <2>1. lane.pc = "take" /\ resolver[Lane].pc = "free" /\ inbox # << >>
        /\ inbox[1][1] = "acquire"
    BY <1>5 DEF TakeAcquire, Take, At
  <2>2. inbox[1][2] \in Acquirers
    BY <2>1, FirstCommand, MailFields
  <2>3. CASE Goto("top")
    BY <1>2, <1>3, <2>1, <2>3
  <2>4. CASE lane' = [lane EXCEPT !.pc = "acquire", !.who = inbox[1][2]]
    <3>1. lane' \in Lanes /\ lane'.pc = "acquire" /\ lane'.who = inbox[1][2]
      BY <1>1, <2>2, <2>4 DEF Lanes, LanePcs
    <3> QED BY <2>1, <2>2, <3>1
  <2> QED BY <1>5, <2>3, <2>4 DEF TakeAcquire
<1>6. ASSUME Acquire PROVE Good
  <2>1. lane' = [lane EXCEPT !.pc = "top", !.who = Nobody]
    BY <1>6 DEF Acquire
  <2>2. lane' \in Lanes /\ lane'.pc = "top"
    BY <1>1, <2>1 DEF Lanes, LanePcs
  <2> QED BY <1>6, <2>2 DEF Acquire, At
<1>7. ASSUME Collect PROVE Good
  BY <1>1, <1>7 DEF Collect, At
<1>8. ASSUME FinalNeutral PROVE Good
  BY <1>2, <1>3, <1>8 DEF FinalNeutral, At
<1>9. ASSUME FinishClose PROVE Good
  BY <1>2, <1>3, <1>9 DEF FinishClose, At
<1> QED
  BY <1>4, <1>5, <1>6, <1>7, <1>8, <1>9 DEF Commands

(* What an acquirer is told by the lane: a lease only when nothing is       *)
(* scheduled and nobody owns.                                               *)
LEMMA AcquireStep ==
  ASSUME TypeOK, PlaceInv, Acquire
  PROVE  /\ resolver' \in [Threads -> Jobs]
         /\ resolver'[Lane].pc = "reserve" /\ resolver'[Lane].r \in Acquirers
         /\ \A u \in Threads \ {Lane} : resolver'[u] = resolver[u]
         /\ resolver'[Lane].out = "granted" =>
              owner = Nobody /\ waiting = Nobody /\ pending = << >> /\ cleanup = Nobody
<1> DEFINE r == lane.who
           said == IF Signal(r) = "none" THEN Verdict ELSE Signal(r)
           job == [Free EXCEPT !.pc = "reserve", !.r = r, !.out = said]
<1>1. r \in Acquirers /\ Lane \in Threads /\ resolver \in [Threads -> Jobs]
  BY ThreadPlaces DEF Acquire, At, PlaceInv, TypeOK
<1>2. Signal(r) \in Outs \ {"granted"}
  BY DEF Signal, Outs
<1>3. Verdict \in Outs /\ (Verdict = "granted" => ~Busy)
  BY DEF Verdict, Outs
<1>4. resolver' = [resolver EXCEPT ![Lane] = job]
  BY DEF Acquire, Resolve
<1>5. said \in Outs /\ (said = "granted" => ~Busy)
  BY <1>2, <1>3
<1> HIDE DEF said, r
<1>6. job \in Jobs /\ job.pc = "reserve" /\ job.r = r /\ job.out = said
  BY <1>1, <1>5 DEF Free, Jobs
<1> HIDE DEF job
<1>7. /\ resolver' \in [Threads -> Jobs] /\ resolver'[Lane] = job
      /\ \A u \in Threads \ {Lane} : resolver'[u] = resolver[u]
  BY <1>1, <1>4, <1>6
<1> QED
  BY <1>1, <1>5, <1>6, <1>7 DEF Busy

(* The lane resolves a record with what it has for its acquirer, if not a   *)
(* lease.                                                                   *)
LEMMA LaneResolves ==
  ASSUME TypeOK, TakeAcquire \/ Collect
  PROVE  UNCHANGED resolver \/ \E r \in Acquirers : Starts(Lane, r)
<1>1. inbox # << >> /\ inbox[1] \in Mail
  BY FirstCommand DEF TakeAcquire, Collect, Take
<1>2. Lane \in Threads /\ {"failure", "closed"} \subseteq Outs \ {"granted"}
  BY ThreadPlaces DEF Outs
<1>3. CASE TakeAcquire
  <2>1. inbox[1][2] \in Acquirers
    BY <1>1, <1>3, MailFields DEF TakeAcquire, Take
  <2>2. Resolve(Lane, inbox[1][2], "failure") \/ ResolveVisible(Lane, inbox[1][2])
    BY <1>3 DEF TakeAcquire
  <2> QED BY <1>2, <2>1, <2>2, ResolveStarts
<1>4. CASE Collect
  <2>1. \/ UNCHANGED resolver
        \/ inbox[1][1] = "acquire" /\ Resolve(Lane, inbox[1][2], "closed")
    BY <1>4 DEF Collect
  <2> QED BY <1>1, <1>2, <2>1, MailFields, ResolveStarts
<1> QED BY <1>3, <1>4

(* A sequence is taken: refused, or it owns and is scheduled or waits.      *)
LEMMA TakeSequenceStep ==
  ASSUME TypeOK, TakeSequence
  PROVE  \E s \in Precise :
           /\ inbox # << >> /\ inbox[1][1] = "sequence" /\ inbox[1][2] = s
           /\ inbox' = Tail(inbox)
           /\ \/ /\ UNCHANGED <<owner, pending, waiting, faults>>
                 /\ \E out \in {"failed", "cancelled"} : op' = Settled({s}, out)
              \/ /\ owner = Nobody /\ ~failed /\ owner' = s
                 /\ op' = [op EXCEPT ![s] = "running"]
                 /\ \/ pending = << >> /\ Schedule(s) /\ UNCHANGED waiting
                    \/ /\ pending # << >> /\ waiting' = s
                       /\ UNCHANGED <<pending, faults>>
<1> DEFINE s == inbox[1][2]
<1>1. inbox # << >> /\ inbox[1][1] = "sequence" /\ inbox' = Tail(inbox)
  BY DEF TakeSequence, Take
<1>2. s \in Precise
  BY <1>1, FirstCommand, MailFields
<1>3. Refusal(s) \in {"failed", "cancelled", "none"}
      /\ (Refusal(s) = "none" => ~failed /\ owner = Nobody)
  BY DEF Refusal
<1>4. CASE Refusal(s) # "none"
  BY <1>1, <1>2, <1>3, <1>4 DEF TakeSequence
<1>5. CASE Refusal(s) = "none"
  <2>1. /\ op' = [op EXCEPT ![s] = "running"] /\ owner' = s
        /\ IF pending = << >> THEN Schedule(s) /\ UNCHANGED waiting
           ELSE waiting' = s /\ UNCHANGED <<pending, faults>>
    BY <1>5 DEF TakeSequence
  <2> QED BY <1>1, <1>2, <1>3, <1>5, <2>1
<1> QED BY <1>4, <1>5

(* What the end of the lane leaves: no mail, no schedule, a closed          *)
(* connection.                                                              *)
LEMMA FinishStep ==
  ASSUME TypeOK, FinishClose
  PROVE  /\ lane.pc = "finish" /\ Goto("ended") /\ inbox' = << >>
         /\ pending' = << >> /\ waiting' = Nobody
         /\ op' \in [Ops -> Outcomes] /\ conn' = "closed"
         /\ failed' \in BOOLEAN /\ (failed => failed') /\ faults' \in 0..MaxFaults
         /\ UNCHANGED <<signals, future, resolver, registered, owner, cleanup, closer>>
         /\ \E out \in {"failed", "cancelled"} :
              op' = Settled({o \in Ops : op[o] # "new"}, out)
<1>1. PICK lost \in BOOLEAN :
        /\ IF lost THEN Fault ELSE UNCHANGED faults
        /\ failed' = (failed \/ lost)
        /\ op' = Settled({o \in Ops : op[o] # "new"},
                         IF lost THEN "failed" ELSE "cancelled")
  BY DEF FinishClose
<1>2. faults' \in 0..MaxFaults
  BY <1>1, FaultType DEF TypeOK
<1>3. op' \in [Ops -> Outcomes] /\ \E out \in {"failed", "cancelled"} :
        op' = Settled({o \in Ops : op[o] # "new"}, out)
  BY <1>1, SettledOps
<1>4. failed' \in BOOLEAN /\ (failed => failed')
  <2>1. failed' = (failed \/ lost)
    BY <1>1
  <2> QED BY <2>1, Zenon
<1>5. /\ lane.pc = "finish" /\ Goto("ended") /\ inbox' = << >>
      /\ pending' = << >> /\ waiting' = Nobody /\ conn' = "closed"
      /\ UNCHANGED <<signals, future, resolver, registered, owner, cleanup, closer>>
  BY DEF FinishClose, At
<1> QED
  BY <1>2, <1>3, <1>4, <1>5

(* The commands the lane takes keep the types.                              *)
LEMMA CommandsType ==
  ASSUME TypeOK, PlaceInv, Commands PROVE TypeOK'
<1>1. lane' \in Lanes
  BY CommandPlaces
<1>2. CASE WaitEnds
  BY <1>1, <1>2 DEF WaitEnds, TypeOK, signals, future, writers, port
<1>3. CASE TakeAcquire
  <2>1. inbox' \in Seq(Mail)
    BY <1>3, FirstCommand DEF TakeAcquire, Take
  <2>2. resolver' \in [Threads -> Jobs]
    BY <1>3, LaneResolves DEF Starts, TypeOK
  <2> QED BY <1>1, <1>3, <2>1, <2>2 DEF TakeAcquire, TypeOK, signals, future, writers, port
<1>4. CASE Acquire
  <2>1. resolver' \in [Threads -> Jobs]
    BY <1>4, AcquireStep
  <2> QED BY <1>1, <1>4, <2>1 DEF Acquire, TypeOK, signals, future, writers, port
<1>5. CASE TakeBegin
  <2>1. inbox' \in Seq(Mail) /\ inbox[1][2] \in Acquirers
    BY <1>5, FirstCommand, MailFields DEF TakeBegin, Take
  <2>2. /\ owner' \in Acquirers \union Precise \union {Nobody}
        /\ cleanup' \in Acquirers \union {Nobody}
    BY <1>5, <2>1 DEF TakeBegin, ReleasedBy, Collected, TypeOK
  <2> QED BY <1>1, <1>5, <2>1, <2>2 DEF TakeBegin, TypeOK, signals, future, port
<1>6. CASE TakeSequence
  <2>1. PICK s \in Precise :
           /\ inbox # << >> /\ inbox[1][1] = "sequence" /\ inbox[1][2] = s
           /\ inbox' = Tail(inbox)
           /\ \/ /\ UNCHANGED <<owner, pending, waiting, faults>>
                 /\ \E out \in {"failed", "cancelled"} : op' = Settled({s}, out)
              \/ /\ owner = Nobody /\ ~failed /\ owner' = s
                 /\ op' = [op EXCEPT ![s] = "running"]
                 /\ \/ pending = << >> /\ Schedule(s) /\ UNCHANGED waiting
                    \/ /\ pending # << >> /\ waiting' = s
                       /\ UNCHANGED <<pending, faults>>
    BY <1>6, TakeSequenceStep
  <2>2. inbox' \in Seq(Mail)
    BY <2>1, FirstCommand
  <2>3. op' \in [Ops -> Outcomes]
    <3>1. op \in [Ops -> Outcomes] /\ s \in Ops /\ "running" \in Outcomes
      BY DEF TypeOK, Ops, Outcomes
    <3> QED BY <2>1, <3>1, SettledOps
  <2>4. /\ pending' \in Seq(Entries) /\ faults' \in 0..MaxFaults
        /\ owner' \in Acquirers \union Precise \union {Nobody}
        /\ waiting' \in Precise \union {Nobody}
    BY <2>1, ScheduleStep DEF TypeOK
  <2> QED BY <1>1, <1>6, <2>2, <2>3, <2>4 DEF TakeSequence, TypeOK, signals, future
<1>7. CASE CloseLane
  <2>1. inbox' \in Seq(Mail)
    BY <1>7, FirstCommand, RemovedCommand DEF CloseLane, Take
  <2>2. conn' \in {"connected", "disconnecting", "disconnected", "closed"}
    BY <1>7 DEF CloseLane, TypeOK
  <2> QED BY <1>1, <1>7, <2>1, <2>2 DEF CloseLane, TypeOK, signals, future, writers
<1>8. CASE Collect
  <2>1. inbox' \in Seq(Mail) /\ inbox # << >> /\ inbox[1] \in Mail
    BY <1>8, FirstCommand DEF Collect
  <2>2. resolver' \in [Threads -> Jobs]
    BY <1>8, LaneResolves DEF Starts, TypeOK
  <2>3. cleanup' \in Acquirers \union {Nobody}
    <3>1. \/ UNCHANGED cleanup
          \/ inbox[1][1] = "begin" /\ cleanup' = Collected(inbox[1][2])
      BY <1>8 DEF Collect
    <3> QED BY <2>1, <3>1, MailFields DEF Collected, TypeOK
  <2> QED BY <1>1, <1>8, <2>1, <2>2, <2>3 DEF Collect, TypeOK, signals, future, port
<1>9. CASE FinalNeutral
  BY <1>1, <1>9 DEF FinalNeutral, TypeOK, signals, future, port
<1>10. CASE FinishClose
  <2>1. inbox' \in Seq(Mail) /\ pending' \in Seq(Entries) /\ waiting' = Nobody
    BY <1>10, FinishStep
  <2> QED BY <1>1, <1>10, <2>1, FinishStep DEF TypeOK, signals, future
<1> QED
  BY <1>2, <1>3, <1>4, <1>5, <1>6, <1>7, <1>8, <1>9, <1>10 DEF Commands

(* Cancelling an operation keeps the types.                                 *)
LEMMA CancelOpType ==
  ASSUME TypeOK, NEW o \in Ops, CancelOp(o) PROVE TypeOK'
BY DEF CancelOp, TypeOK, future, writers, port

(* Every step keeps the types.                                              *)
LEMMA TypeKept ==
  ASSUME TypeOK, RecordInv, PlaceInv, [Next]_vars PROVE TypeOK'
<1>1. CASE UNCHANGED vars
  BY <1>1 DEF TypeOK, vars, signals, future, writers, port
<1>2. CASE Next
  BY <1>2, ResolvingType, ReportingType, CommandsType, CloseType, FutureType,
     SubmitType, CancelOpType DEF Next, Progress
<1> QED BY <1>1, <1>2

-----------------------------------------------------------------------------
(* The records                                                              *)

(* A thread that enters resolve_with publishes nothing yet. *)
LEMMA EnteringKeeps ==
  ASSUME TypeOK, ThreadInv, NEW t \in Threads,
         \A q \in Acquirers : rec[q].st \in {"resolving", "leaving"}
                                => rec'[q].st \in {"resolving", "leaving"},
         \/ UNCHANGED resolver
         \/ /\ resolver'[t].pc = "reserve" /\ resolver'[t].r \in Acquirers
            /\ t # Lane => resolver'[t].out # "granted"
            /\ \A u \in Threads \ {t} : resolver'[u] = resolver[u]
  PROVE  ThreadInv'
<1>1. \A u \in Threads, q \in Acquirers : Publishing(u, q)' => Publishing(u, q)
  BY DEF Publishing
<1> QED
  BY <1>1 DEF ThreadInv, Publishing

(* A caller that holds has taken its outcome, after each move of a caller.  *)
LEMMA CallerKeeps ==
  ASSUME TypeOK, CallerInv, NEW r \in Acquirers, NEW pc \in Callers, CallerTo(r, pc),
         pc # "idle", pc = "holding" => rec'[r].st = "taken",
         \A q \in Acquirers \ {r} : rec'[q] = rec[q]
  PROVE  CallerInv'
BY CallerType DEF CallerInv

(* Resolving keeps the futures, their callers and the threads in step.      *)
LEMMA ResolvingRecords ==
  ASSUME TypeOK, RecordInv, Resolving PROVE RecordInv'
<1>1. PICK t \in Threads : Reserve(t) \/ Publish(t)
  BY DEF Resolving
<1> DEFINE r == resolver[t].r
<1>2. r \in Acquirers
  BY <1>1 DEF RecordInv, ThreadInv, Reserve, Publish
<1> HIDE DEF r
<1>3. CASE Reserve(t)
  <2>1. UNCHANGED caller
    BY <1>3 DEF Reserve
  <2>2. CASE UNCHANGED rec
    <3>1. CASE resolver'[t].pc = "free"
      <4>1. /\ resolver'[t].out # "granted"
            /\ \A u \in Threads \ {t} : resolver'[u] = resolver[u]
        BY <1>2, <1>3, <3>1, ReserveStep DEF r
      <4>2. \A u \in Threads, q \in Acquirers : Publishing(u, q)' => Publishing(u, q)
        BY <3>1, <4>1 DEF Publishing
      <4> QED BY <2>1, <2>2, <3>1, <4>1, <4>2 DEF RecordInv, ThreadInv, CallerInv
    <3>2. CASE resolver'[t].pc # "free"
      BY <1>2, <1>3, <2>2, <3>2, ReserveStep DEF r
    <3> QED BY <3>1, <3>2
  <2>3. CASE ~UNCHANGED rec
    <3>1. /\ rec[r].st = "pending" /\ rec'[r].st = "resolving"
          /\ \A q \in Acquirers \ {r} : rec'[q] = rec[q]
          /\ resolver'[t].pc = "publish" /\ resolver'[t].r = r
          /\ resolver'[t].out = resolver[t].out
          /\ \A u \in Threads \ {t} : resolver'[u] = resolver[u]
      BY <1>2, <1>3, <2>3, ReserveStep DEF r
    <3>2. \A u \in Threads : ~Publishing(u, r)
      BY <1>2, <3>1 DEF RecordInv, ThreadInv
    <3>3. \A u \in Threads, q \in Acquirers :
            Publishing(u, q)' => (u = t /\ q = r) \/ (u # t /\ q # r /\ Publishing(u, q))
      BY <1>2, <3>1, <3>2 DEF Publishing
    <3>4. ThreadInv'
      BY <1>2, <3>1, <3>3 DEF RecordInv, ThreadInv
    <3>5. CallerInv'
      BY <1>2, <2>1, <3>1 DEF RecordInv, CallerInv
    <3> QED BY <3>4, <3>5 DEF RecordInv
  <2> QED BY <2>2, <2>3
<1>4. CASE Publish(t)
  <2>1. /\ resolver[t].pc = "publish"
        /\ rec'[r].st \in {"abandoned", "ready"}
        /\ \A q \in Acquirers \ {r} : rec'[q] = rec[q]
        /\ resolver'[t].pc = "free" /\ resolver'[t].out # "granted"
        /\ \A u \in Threads \ {t} : resolver'[u] = resolver[u]
    BY <1>2, <1>4, PublishStep DEF r
  <2>2. Publishing(t, r) /\ rec[r].st \in {"resolving", "leaving"}
    BY <1>2, <2>1 DEF r, Publishing, RecordInv, ThreadInv
  <2>3. \A u \in Threads, q \in Acquirers :
          Publishing(u, q)' => u # t /\ q # r /\ Publishing(u, q)
    <3> SUFFICES ASSUME NEW u \in Threads, NEW q \in Acquirers, Publishing(u, q)'
                 PROVE  u # t /\ q # r /\ Publishing(u, q)
      OBVIOUS
    <3>1. u # t /\ Publishing(u, q)
      BY <2>1 DEF Publishing
    <3> QED BY <1>2, <2>2, <3>1 DEF RecordInv, ThreadInv
  <2>4. ThreadInv'
    BY <1>2, <2>1, <2>3 DEF RecordInv, ThreadInv
  <2>5. CallerInv'
    <3>1. UNCHANGED caller
      BY <1>4 DEF Publish
    <3> QED BY <1>2, <2>1, <2>2, <3>1 DEF RecordInv, CallerInv
  <2> QED BY <2>4, <2>5 DEF RecordInv
<1> QED
  BY <1>1, <1>3, <1>4

(* So do the steps of a future, its token and its deadline.                 *)
LEMMA FutureRecords ==
  ASSUME TypeOK, RecordInv, NEW r \in Acquirers,
         \/ Polling(r) \/ Request(r) \/ Abandon(r) \/ Release(r)
         \/ CancelAcquirer(r) \/ DeadlineReached(r)
  PROVE  RecordInv'
<1>1. /\ Caller(r) \in Threads /\ Hook(r) \in Threads
      /\ Caller(r) # Lane /\ Hook(r) # Lane
      /\ {"poll", "take", "waiting", "holding", "done", "gone"} \subseteq Callers
  BY ThreadPlaces DEF Callers
<1>2. ThreadInv /\ CallerInv
  BY DEF RecordInv
<1>3. CASE Request(r)
  <2>1. /\ caller[r] = "idle" /\ CallerTo(r, "poll")
        /\ \A q \in Acquirers \ {r} : rec'[q] = rec[q]
        /\ Starts(Caller(r), r) \/ UNCHANGED resolver
    BY <1>3, RequestStep
  <2>2. rec[r].st = "none"
    BY <1>2, <2>1 DEF CallerInv
  <2>3. ThreadInv'
    BY <1>1, <1>2, <2>1, <2>2, EnteringKeeps DEF Starts
  <2>4. CallerInv'
    BY <1>1, <1>2, <2>1, CallerKeeps
  <2> QED BY <2>3, <2>4 DEF RecordInv
<1>4. CASE Poll(r)
  <2>1. /\ CallerTo(r, "take") /\ UNCHANGED rec
        /\ Starts(Caller(r), r) \/ UNCHANGED resolver
    BY <1>4, PollStep DEF Poll
  <2>2. ThreadInv'
    BY <1>1, <1>2, <2>1, EnteringKeeps DEF Starts
  <2>3. CallerInv'
    BY <1>1, <1>2, <2>1, CallerKeeps
  <2> QED BY <2>2, <2>3 DEF RecordInv
<1>5. CASE TakeOutcome(r)
  <2>1. /\ UNCHANGED resolver /\ \A q \in Acquirers \ {r} : rec'[q] = rec[q]
        /\ rec[r].st = "ready" => rec'[r].st = "taken"
        /\ rec[r].st # "ready" => rec'[r].st = rec[r].st
    BY <1>5, TakeOutcomeStep DEF TakeOutcome
  <2>2. PICK pc \in {"holding", "done", "waiting"} :
          CallerTo(r, pc) /\ (pc = "holding" => rec[r].st = "ready")
    <3>1. CASE rec[r].st = "ready"
      <4>1. CallerTo(r, IF rec[r].out = "granted" THEN "holding" ELSE "done")
        BY <1>5, <3>1, TakeOutcomeStep
      <4> QED BY <3>1, <4>1
    <3>2. CASE rec[r].st # "ready"
      BY <1>5, <3>2, TakeOutcomeStep
    <3> QED BY <3>1, <3>2
  <2>3. ThreadInv'
    BY <1>1, <1>2, <2>1, EnteringKeeps
  <2>4. CallerInv'
    BY <1>1, <1>2, <2>1, <2>2, CallerKeeps
  <2> QED BY <2>3, <2>4 DEF RecordInv
<1>6. CASE PollAgain(r)
  <2>1. CallerTo(r, "poll") /\ UNCHANGED <<rec, resolver>>
    BY <1>6 DEF PollAgain
  <2> QED BY <1>1, <1>2, <2>1, EnteringKeeps, CallerKeeps DEF RecordInv
<1>7. CASE Abandon(r)
  <2>1. /\ UNCHANGED resolver /\ CallerTo(r, "gone")
        /\ \A q \in Acquirers \ {r} : rec'[q] = rec[q]
        /\ rec[r].st \in {"resolving", "leaving"} => rec'[r].st = "leaving"
    BY <1>7, AbandonStep DEF Abandon
  <2> QED BY <1>1, <1>2, <2>1, EnteringKeeps, CallerKeeps DEF RecordInv
<1>8. CASE Release(r)
  <2>1. CallerTo(r, "done") /\ UNCHANGED <<rec, resolver>>
    BY <1>8 DEF Release
  <2> QED BY <1>1, <1>2, <2>1, EnteringKeeps, CallerKeeps DEF RecordInv
<1>9. CASE CancelAcquirer(r)
  <2>1. UNCHANGED <<rec, caller>> /\ (Starts(Hook(r), r) \/ UNCHANGED resolver)
    BY <1>9, CancelStep DEF CancelAcquirer, future
  <2>2. ThreadInv'
    BY <1>1, <1>2, <2>1, EnteringKeeps DEF Starts
  <2> QED BY <1>2, <2>1, <2>2 DEF RecordInv, CallerInv
<1>10. CASE AlarmFires(r) \/ DeadlineReached(r)
  BY <1>10 DEF AlarmFires, DeadlineReached, future, RecordInv, ThreadInv, CallerInv,
              Publishing
<1> QED
  BY <1>3, <1>4, <1>5, <1>6, <1>7, <1>8, <1>9, <1>10 DEF Polling

(* So does every step.                                                      *)
LEMMA RecordKept ==
  ASSUME TypeOK, RecordInv, PlaceInv, [Next]_vars PROVE RecordInv'
<1>1. ASSUME UNCHANGED <<rec, caller, resolver>> PROVE RecordInv'
  BY <1>1 DEF RecordInv, ThreadInv, CallerInv, Publishing
<1>2. ASSUME UNCHANGED <<rec, caller>>, NEW t \in Threads,
             /\ resolver'[t].pc = "reserve" /\ resolver'[t].r \in Acquirers
             /\ t # Lane => resolver'[t].out # "granted"
             /\ \A u \in Threads \ {t} : resolver'[u] = resolver[u]
      PROVE  RecordInv'
  BY <1>2, EnteringKeeps DEF RecordInv, CallerInv
<1>3. Lane \in Threads /\ Closer \in Threads /\ Lane # Closer
  BY ThreadPlaces
<1>4. CASE UNCHANGED vars
  BY <1>1, <1>4 DEF vars, future
<1>5. CASE Reporting
  BY <1>1, <1>5, ReportingFrame DEF future
<1>6. CASE Commands
  <2>1. CASE TakeAcquire \/ Collect
    <3>1. UNCHANGED <<rec, caller>>
      BY <2>1 DEF TakeAcquire, Collect, future
    <3> QED BY <1>1, <1>2, <1>3, <2>1, <3>1, LaneResolves DEF Starts
  <2>2. CASE Acquire
    <3>1. UNCHANGED <<rec, caller>>
      BY <2>2 DEF Acquire, future
    <3> QED BY <1>2, <1>3, <2>2, <3>1, AcquireStep
  <2>3. CASE ~(TakeAcquire \/ Collect \/ Acquire)
    <3>1. UNCHANGED <<future, resolver>>
      BY <1>6, <2>3 DEF Commands, WaitEnds, TakeBegin, TakeSequence, CloseLane,
                        FinalNeutral, FinishClose
    <3> QED BY <1>1, <3>1 DEF future
  <2> QED BY <2>1, <2>2, <2>3
<1>7. CASE CloseNext \/ CloseIntent
  <2>1. UNCHANGED <<rec, caller>>
    BY <1>7 DEF CloseNext, CloseIntent, DrainAcquires, SettleAcquire, SendClose, future
  <2>2. UNCHANGED resolver \/ \E r \in Acquirers : Starts(Closer, r)
    <3>1. CASE SettleAcquire
      <4>1. PICK r \in closer.todo : Resolve(Closer, r, "closed")
        BY <3>1 DEF SettleAcquire
      <4>2. r \in Acquirers /\ "closed" \in Outs \ {"granted"}
        BY CloserFields DEF TypeOK, Outs
      <4> QED BY <1>3, <4>1, <4>2, ResolveStarts
    <3>2. CASE ~SettleAcquire
      BY <1>7, <3>2 DEF CloseNext, CloseIntent, DrainAcquires, SendClose
    <3> QED BY <3>1, <3>2
  <2> QED BY <1>1, <1>2, <1>3, <2>1, <2>2 DEF Starts
<1>8. CASE (\E s \in Precise : Submit(s)) \/ \E o \in Ops : CancelOp(o)
  BY <1>1, <1>8 DEF Submit, CancelOp, future
<1> QED
  BY <1>4, <1>5, <1>6, <1>7, <1>8, ResolvingRecords, FutureRecords
     DEF Next, Progress

-----------------------------------------------------------------------------
(* Who else takes a step                                                    *)

(* Whoever is not the lane and resolves no record leaves the lane alone.    *)
Outside ==
  \/ UNCHANGED vars
  \/ CloseNext \/ CloseIntent
  \/ \E r \in Acquirers : \/ Polling(r) \/ Request(r) \/ Abandon(r) \/ Release(r)
                          \/ CancelAcquirer(r) \/ DeadlineReached(r)
  \/ \E s \in Precise : Submit(s)
  \/ \E o \in Ops : CancelOp(o)

(* The four kinds of step: resolving, the reports, the commands of the      *)
(* lane, and the rest.                                                      *)
LEMMA StepCases ==
  [Next]_vars => Resolving \/ Reporting \/ Commands \/ Outside
BY DEF Next, Progress, Outside

(* The rest does not touch the lane or its schedule.                        *)
LEMMA OutsideFrame ==
  ASSUME TypeOK, Outside
  PROVE  /\ UNCHANGED <<lane, owner, cleanup, waiting, pending, failed>>
         /\ resolver'[Lane] = resolver[Lane]
<1> DEFINE Good == /\ UNCHANGED <<lane, owner, cleanup, waiting, pending, failed>>
                   /\ resolver'[Lane] = resolver[Lane]
<1>1. /\ Lane \in Threads /\ Closer \in Threads /\ Lane # Closer
      /\ \A r \in Acquirers : /\ Caller(r) \in Threads /\ Hook(r) \in Threads
                              /\ Caller(r) # Lane /\ Hook(r) # Lane
  BY ThreadPlaces
<1>2. \A t \in Threads \ {Lane}, r \in Acquirers :
        Starts(t, r) => resolver'[Lane] = resolver[Lane]
  BY <1>1 DEF Starts
<1>3. ASSUME UNCHANGED vars PROVE Good
  BY <1>3 DEF vars, writers, port
<1>4. ASSUME CloseNext \/ CloseIntent PROVE Good
  <2>1. UNCHANGED <<lane, owner, cleanup, waiting, pending, failed>>
    BY <1>4 DEF CloseNext, CloseIntent, DrainAcquires, SettleAcquire, SendClose,
                writers, port
  <2>2. CASE SettleAcquire
    <3>1. PICK r \in closer.todo : Resolve(Closer, r, "closed")
      BY <2>2 DEF SettleAcquire
    <3>2. r \in Acquirers /\ "closed" \in Outs \ {"granted"}
      BY CloserFields DEF TypeOK, Outs
    <3> QED BY <1>1, <1>2, <2>1, <3>1, <3>2, ResolveStarts
  <2>3. CASE ~SettleAcquire
    BY <1>4, <2>1, <2>3 DEF CloseNext, CloseIntent, DrainAcquires, SendClose
  <2> QED BY <2>2, <2>3
<1>5. ASSUME NEW r \in Acquirers,
             \/ Polling(r) \/ Request(r) \/ Abandon(r) \/ Release(r)
             \/ CancelAcquirer(r) \/ DeadlineReached(r)
      PROVE  Good
  <2>1. UNCHANGED <<lane, owner, cleanup, waiting, pending, failed>>
    BY <1>5 DEF Polling, Poll, TakeOutcome, PollAgain, AlarmFires, Request, Abandon,
                Release, CancelAcquirer, DeadlineReached, writers, port
  <2>2. UNCHANGED resolver \/ Starts(Caller(r), r) \/ Starts(Hook(r), r)
    BY <1>5, PollStep, RequestStep, CancelStep
       DEF Polling, TakeOutcome, PollAgain, AlarmFires, Abandon, Release, DeadlineReached
  <2> QED BY <1>1, <1>2, <2>1, <2>2
<1>6. ASSUME (\E s \in Precise : Submit(s)) \/ \E o \in Ops : CancelOp(o) PROVE Good
  BY <1>6 DEF Submit, CancelOp, writers, port
<1> QED
  BY <1>3, <1>4, <1>5, <1>6 DEF Outside

(* A record is reserved or published: only the lane's grant owns.           *)
LEMMA ResolvingFrame ==
  ASSUME TypeOK, RecordInv, Resolving
  PROVE  /\ UNCHANGED <<lane, cleanup, waiting, pending, failed, op>>
         /\ resolver'[Lane].pc = "reserve" => resolver'[Lane] = resolver[Lane]
         /\ resolver'[Lane].pc # "free" => resolver[Lane].pc # "free"
         /\ \/ owner' = owner
            \/ /\ resolver[Lane].pc = "reserve" /\ resolver[Lane].out = "granted"
               /\ resolver[Lane].r \in Acquirers /\ owner' = resolver[Lane].r
               /\ resolver'[Lane] = [resolver[Lane] EXCEPT !.pc = "publish"]
<1>1. PICK t \in Threads : Reserve(t) \/ Publish(t)
  BY DEF Resolving
<1>2. resolver[t].r \in Acquirers /\ resolver[t].pc # "free"
  BY <1>1 DEF RecordInv, ThreadInv, Reserve, Publish
<1>3. Lane \in Threads /\ (t # Lane => resolver[t].out # "granted")
  BY ThreadPlaces DEF RecordInv, ThreadInv
<1>4. CASE Reserve(t)
  <2>1. UNCHANGED <<lane, cleanup, waiting, pending, failed, op>>
        /\ resolver[t].pc = "reserve"
    BY <1>4 DEF Reserve, port
  <2>2. /\ \A u \in Threads \ {t} : resolver'[u] = resolver[u]
        /\ resolver'[t].pc \in {"free", "publish"}
    BY <1>2, <1>4, ReserveStep
  <2>3. \/ owner' = owner
        \/ /\ resolver[t].out = "granted" /\ owner' = resolver[t].r
           /\ resolver' = [resolver EXCEPT ![t].pc = "publish"]
    BY <1>4 DEF Reserve
  <2>4. CASE t = Lane
    <3>1. resolver \in [Threads -> Jobs]
      BY DEF TypeOK
    <3>2. resolver' = [resolver EXCEPT ![t].pc = "publish"]
            => resolver'[Lane] = [resolver[Lane] EXCEPT !.pc = "publish"]
      BY <1>3, <2>4, <3>1
    <3> QED BY <1>2, <2>1, <2>2, <2>3, <2>4, <3>2
  <2>5. CASE t # Lane
    BY <1>3, <2>1, <2>2, <2>3, <2>5
  <2> QED BY <2>4, <2>5
<1>5. CASE Publish(t)
  <2>1. UNCHANGED <<lane, cleanup, waiting, pending, failed, op, owner>>
    BY <1>5 DEF Publish, port, writers
  <2>2. /\ \A u \in Threads \ {t} : resolver'[u] = resolver[u]
        /\ resolver'[t].pc = "free"
    BY <1>2, <1>5, PublishStep
  <2> QED BY <1>3, <2>1, <2>2
<1> QED BY <1>1, <1>4, <1>5

-----------------------------------------------------------------------------
(* The lane                                                                 *)

(* Every step leaves the lane in a place that fits its owner.               *)
LEMMA PlaceKept ==
  ASSUME TypeOK, RecordInv, PlaceInv, GrantInv, [Next]_vars PROVE PlaceInv'
<1>1. CASE Outside
  BY <1>1, OutsideFrame DEF PlaceInv
<1>2. CASE Resolving
  <2>1. \/ owner' = owner
        \/ resolver[Lane].pc = "reserve" /\ resolver[Lane].out = "granted"
    BY <1>2, ResolvingFrame
  <2>2. (failed' /\ lane'.pc # "seal") \/ lane'.pc \in {"finish", "ended"} => owner' = Nobody
    BY <1>2, <2>1, ResolvingFrame DEF PlaceInv, GrantInv, Idle
  <2>3. resolver[Lane].pc \in {"free", "reserve", "publish"}
    BY ThreadPlaces, JobFields DEF TypeOK
  <2>4. resolver'[Lane].pc = "publish" \/ resolver'[Lane].pc = "reserve"
          => lane'.pc \in {"top", "acquire", "collect"}
    BY <1>2, <2>3, ResolvingFrame DEF PlaceInv
  <2> QED BY <1>2, <2>2, <2>4, ResolvingFrame DEF PlaceInv
<1>3. CASE Reporting
  <2>1. /\ resolver'[Lane].pc = "free" /\ lane.pc \in Working
        /\ lane'.pc \notin {"acquire", "collect", "finish", "ended"}
        /\ lane'.pc = "write" => pending' # << >>
        /\ lane'.pc \in {"seal", "settle"} =>
             lane'.who \in Ops /\ lane'.out # "none" /\ lane'.then # "none"
    BY <1>3, ReportingPlaces, ReportingFrame
  <2>2. \/ failed' = failed /\ owner' \in {owner, Nobody} /\ lane.pc # "seal"
        \/ owner' = Nobody
        \/ lane'.pc = "seal"
    BY <1>3, ReportingEffects
       DEF Handles, Stays, Replaces, Advances, Ends, Settles, Seals, Drops, Cleans,
           Turns, Fails, Frees, writers, ReleasedBy
  <2>3. failed' /\ lane'.pc # "seal" => owner' = Nobody
    BY <2>2 DEF PlaceInv
  <2> QED BY <2>1, <2>3 DEF PlaceInv
<1>4. CASE Commands
  <2>1. /\ resolver[Lane].pc = "free"
        /\ lane'.pc \in {"top", "acquire", "collect", "finish", "ended"}
        /\ lane'.pc = "acquire" => lane'.who \in Acquirers
        /\ lane'.pc = "finish" => FinalNeutral
        /\ lane'.pc = "ended" => FinishClose
    BY <1>4, CommandPlaces
  <2>2. lane'.pc = "acquire" => ~failed'
    <3>1. CASE TakeAcquire
      <4>1. failed => Goto("top")
        BY <3>1 DEF TakeAcquire
      <4>2. Goto("top") => lane'.pc = "top"
        BY GotoFields DEF TypeOK, LanePcs
      <4>3. failed' = failed
        BY <3>1 DEF TakeAcquire, port
      <4> QED BY <4>1, <4>2, <4>3
    <3>2. CASE Acquire
      <4>1. lane'.pc = "top"
        BY <3>2 DEF Acquire, TypeOK, Lanes
      <4> QED BY <4>1
    <3>3. CASE Collect
      BY <3>3 DEF Collect, At
    <3>4. CASE ~(TakeAcquire \/ Acquire \/ Collect)
      <4>1. Goto("top") \/ Goto("collect") \/ Goto("finish") \/ Goto("ended")
        BY <1>4, <3>4 DEF Commands, WaitEnds, TakeBegin, TakeSequence, CloseLane,
                          FinalNeutral, FinishClose
      <4>2. lane'.pc \in {"top", "collect", "finish", "ended"}
        BY <4>1, GotoFields DEF TypeOK, LanePcs
      <4> QED BY <4>2
    <3> QED BY <3>1, <3>2, <3>3, <3>4
  <2>3. resolver'[Lane].pc # "free" => lane'.pc \in {"top", "acquire", "collect"}
    <3>1. CASE lane'.pc \in {"finish", "ended"}
      BY <2>1, <3>1 DEF FinalNeutral, FinishClose
    <3> QED BY <2>1, <3>1
  <2>5. lane.pc # "seal"
    BY <1>4, CommandPlaces
  <2>4. failed' \/ lane'.pc \in {"finish", "ended"} => owner' = Nobody
    <3>1. CASE TakeSequence
      <4>1. \/ UNCHANGED owner
            \/ ~failed
        BY <3>1, TakeSequenceStep
      <4>2. failed' = failed /\ Goto("top")
        BY <3>1 DEF TakeSequence
      <4>3. lane'.pc = "top"
        BY <4>2, GotoFields DEF TypeOK, LanePcs
      <4> QED BY <2>5, <4>1, <4>2, <4>3 DEF PlaceInv
    <3>2. CASE FinalNeutral
      BY <3>2 DEF FinalNeutral
    <3>3. CASE FinishClose
      BY <3>3 DEF FinishClose, PlaceInv, At
    <3>4. CASE ~(TakeSequence \/ FinalNeutral \/ FinishClose)
      <4>1. failed' = failed /\ owner' \in {owner, Nobody}
        BY <1>4, <3>4 DEF Commands, WaitEnds, TakeAcquire, Acquire, TakeBegin, CloseLane,
                          Collect, writers, port, ReleasedBy
      <4>2. lane'.pc \notin {"finish", "ended"}
        BY <2>1, <3>4
      <4> QED BY <2>5, <4>1, <4>2 DEF PlaceInv
    <3> QED BY <3>1, <3>2, <3>3, <3>4
  <2> QED BY <2>1, <2>2, <2>3, <2>4 DEF PlaceInv
<1> QED
  BY <1>1, <1>2, <1>3, <1>4, StepCases

(* While the lane resolves a grant it stays idle at the top of its loop.    *)
LEMMA GrantKept ==
  ASSUME TypeOK, RecordInv, PlaceInv, GrantInv, [Next]_vars PROVE GrantInv'
<1>1. CASE Outside
  BY <1>1, OutsideFrame DEF GrantInv, Idle
<1>2. CASE Resolving
  <2> SUFFICES ASSUME resolver'[Lane].pc = "reserve", resolver'[Lane].out = "granted"
               PROVE  (Idle /\ lane.pc = "top")'
    BY DEF GrantInv
  <2>1. resolver'[Lane] = resolver[Lane]
    BY <1>2, ResolvingFrame
  <2>2. owner' = owner
    <3>1. resolver'[Lane] # [resolver[Lane] EXCEPT !.pc = "publish"]
      BY ThreadPlaces DEF TypeOK, Jobs
    <3> QED BY <1>2, <3>1, ResolvingFrame
  <2> QED BY <1>2, <2>1, <2>2, ResolvingFrame DEF GrantInv, Idle
<1>3. CASE Reporting
  BY <1>3, ReportingPlaces, ReportingFrame DEF GrantInv
<1>4. CASE Commands
  <2>0. resolver[Lane].pc = "free"
    BY <1>4, CommandPlaces
  <2>1. CASE Acquire
    <3>1. /\ resolver'[Lane].out = "granted" =>
               owner = Nobody /\ waiting = Nobody /\ pending = << >> /\ cleanup = Nobody
      BY <2>1, AcquireStep
    <3>2. UNCHANGED <<owner, waiting, pending, cleanup, failed>> /\ ~failed
      BY <2>1 DEF Acquire, writers, port, PlaceInv, At
    <3>3. lane'.pc = "top"
      BY <2>1 DEF Acquire, TypeOK, Lanes
    <3> QED BY <3>1, <3>2, <3>3 DEF GrantInv, Idle
  <2>2. CASE TakeAcquire \/ Collect
    BY <2>0, <2>2, LaneResolves DEF Starts, GrantInv
  <2>3. CASE ~(Acquire \/ TakeAcquire \/ Collect)
    <3>1. UNCHANGED resolver
      BY <1>4, <2>3 DEF Commands, WaitEnds, TakeBegin, TakeSequence, CloseLane,
                        FinalNeutral, FinishClose
    <3> QED BY <2>0, <3>1 DEF GrantInv
  <2> QED BY <2>1, <2>2, <2>3
<1> QED
  BY <1>1, <1>2, <1>3, <1>4, StepCases

-----------------------------------------------------------------------------
(* The lane's channel                                                       *)

(* A command was put at the end of the channel, if the lane has not ended.  *)
Grows(k) ==
  /\ \A j \in DOMAIN inbox : j \in DOMAIN inbox' /\ inbox'[j] = inbox[j]
  /\ \A j \in DOMAIN inbox' : j \notin DOMAIN inbox => inbox'[j] = k
  /\ \A i, j \in DOMAIN inbox' : i \notin DOMAIN inbox /\ j \notin DOMAIN inbox => i = j
  /\ lane.pc # "ended" => \E j \in DOMAIN inbox' : inbox'[j] = k

(* A message sent to a running lane joins the end of its channel.           *)
LEMMA SendGrows ==
  ASSUME TypeOK, NEW k, Send(k) PROVE Grows(k)
<1>1. inbox \in Seq(Mail) /\ Len(inbox) \in Nat /\ DOMAIN inbox = 1..Len(inbox)
  BY DEF TypeOK
<1>2. CASE lane.pc = "ended"
  BY <1>2 DEF Send, Grows
<1>3. CASE lane.pc # "ended"
  <2>1. inbox' = Append(inbox, k)
    BY <1>3 DEF Send
  <2>2. inbox \in Seq(Mail \union {k})
    BY <1>1, SeqMonotonic
  <2>3. /\ Len(inbox') = Len(inbox) + 1 /\ DOMAIN inbox' = 1..(Len(inbox) + 1)
        /\ \A j \in 1..Len(inbox) : inbox'[j] = inbox[j]
        /\ inbox'[Len(inbox) + 1] = k
    BY <2>1, <2>2, AppendProperties
  <2> QED BY <1>1, <2>3 DEF Grows
<1> QED BY <1>2, <1>3

(* An abandoned lease sends its begin notice, unless the driver failed.     *)
LEMMA SealGrows ==
  ASSUME TypeOK, NEW r \in Acquirers, Seal(r)
  PROVE  (failed /\ UNCHANGED inbox) \/ (~failed /\ Grows(<<"begin", r>>))
BY SendGrows DEF Seal

(* Who puts what there. *)
LEMMA OutsideChannel ==
  ASSUME TypeOK, Outside
  PROVE  \/ UNCHANGED inbox
         \/ \E r \in Acquirers : Grows(<<"acquire", r>>)
         \/ \E r \in Acquirers : /\ Abandon(r) \/ Release(r)
                                 /\ Grows(<<"begin", r>>)
         \/ \E s \in Precise : Submit(s) /\ Grows(<<"sequence", s>>)
         \/ Grows(<<"close", Nobody>>)
<1>1. CASE UNCHANGED vars
  BY <1>1 DEF vars
<1>2. CASE CloseNext \/ CloseIntent
  BY <1>2, SendGrows DEF CloseNext, CloseIntent, DrainAcquires, SettleAcquire, SendClose
<1>3. ASSUME NEW r \in Acquirers, Polling(r) \/ CancelAcquirer(r) \/ DeadlineReached(r)
      PROVE  UNCHANGED inbox
  BY <1>3 DEF Polling, Poll, TakeOutcome, PollAgain, AlarmFires, CancelAcquirer,
              DeadlineReached
<1>4. ASSUME NEW r \in Acquirers, Request(r)
      PROVE  UNCHANGED inbox \/ Grows(<<"acquire", r>>)
  BY <1>4, RequestStep, SendGrows
<1>5. ASSUME NEW r \in Acquirers, Abandon(r) \/ Release(r)
      PROVE  UNCHANGED inbox \/ Grows(<<"begin", r>>)
  BY <1>5, AbandonStep, SealGrows DEF Release
<1>6. ASSUME NEW s \in Precise, Submit(s)
      PROVE  UNCHANGED inbox \/ Grows(<<"sequence", s>>)
  <2>1. UNCHANGED inbox \/ Send(<<"sequence", s>>)
    BY <1>6 DEF Submit
  <2> QED BY <2>1, SendGrows
<1>7. ASSUME NEW o \in Ops, CancelOp(o) PROVE UNCHANGED inbox
  BY <1>7 DEF CancelOp
<1> QED
  BY <1>1, <1>2, <1>3, <1>4, <1>5, <1>6, <1>7 DEF Outside

(* Of the threads that resolve, only the one that finds the future dropped  *)
(* sends.                                                                   *)
LEMMA ResolvingChannel ==
  ASSUME TypeOK, RecordInv, Resolving
  PROVE  \/ UNCHANGED inbox
         \/ \E t \in Threads :
              /\ Publish(t) /\ resolver[t].r \in Acquirers
              /\ rec[resolver[t].r].st = "leaving"
              /\ Grows(<<"begin", resolver[t].r>>)
<1>1. PICK t \in Threads : Reserve(t) \/ Publish(t)
  BY DEF Resolving
<1>2. resolver[t].r \in Acquirers
  BY <1>1 DEF RecordInv, ThreadInv, Reserve, Publish
<1>3. CASE Reserve(t)
  BY <1>3 DEF Reserve
<1>4. CASE Publish(t)
  BY <1>2, <1>4, PublishStep, SealGrows
<1> QED BY <1>1, <1>3, <1>4

(* The lane only takes from its channel, the first command or, awaiting its *)
(* close, one that is a close.                                              *)
LEMMA CommandsChannel ==
  ASSUME TypeOK, PlaceInv, Commands
  PROVE  \/ UNCHANGED inbox
         \/ inbox # << >> /\ inbox' = Tail(inbox)
         \/ \E i \in DOMAIN inbox : inbox[i][1] = "close" /\ inbox' = RemoveAt(inbox, i)
         \/ inbox' = << >> /\ FinishClose
BY DEF Commands, WaitEnds, TakeAcquire, Acquire, TakeBegin, TakeSequence, CloseLane,
       Collect, FinalNeutral, FinishClose, Take

(* A begin command that is there was there, or is put there. *)
LEMMA BegunBefore ==
  ASSUME TypeOK, NEW r \in Acquirers, <<"begin", r>> \in ToSet(inbox')
  PROVE  /\ UNCHANGED inbox \/ (inbox # << >> /\ inbox' = Tail(inbox)) \/ inbox' = << >>
            \/ (\E i \in DOMAIN inbox : inbox' = RemoveAt(inbox, i))
              => <<"begin", r>> \in ToSet(inbox)
         /\ \A k : Grows(k) => <<"begin", r>> \in ToSet(inbox) \/ k = <<"begin", r>>
<1>1. PICK j \in DOMAIN inbox' : inbox'[j] = <<"begin", r>>
  BY DEF ToSet
<1>2. ASSUME NEW i \in DOMAIN inbox, inbox[i] = <<"begin", r>>
      PROVE  <<"begin", r>> \in ToSet(inbox)
  BY <1>2 DEF ToSet
<1>3. CASE UNCHANGED inbox
  BY <1>1, <1>2, <1>3
<1>4. CASE inbox # << >> /\ inbox' = Tail(inbox)
  BY <1>1, <1>2, <1>4, FirstCommand
<1>5. CASE \E i \in DOMAIN inbox : inbox' = RemoveAt(inbox, i)
  <2>1. PICK i \in DOMAIN inbox : inbox' = RemoveAt(inbox, i)
    BY <1>5
  <2> QED BY <1>1, <1>2, <2>1, RemovedCommand
<1>6. inbox' # << >>
  BY <1>1
<1>7. \A k : Grows(k) => <<"begin", r>> \in ToSet(inbox) \/ k = <<"begin", r>>
  BY <1>1, <1>2 DEF Grows
<1> QED
  BY <1>3, <1>4, <1>5, <1>6, <1>7

(* A begin command that was there is there, unless the lane took it. *)
LEMMA BegunAfter ==
  ASSUME TypeOK, NEW r \in Acquirers, <<"begin", r>> \in ToSet(inbox)
  PROVE  /\ UNCHANGED inbox \/ (\E k : Grows(k))
            \/ (\E i \in DOMAIN inbox : inbox[i][1] = "close" /\ inbox' = RemoveAt(inbox, i))
              => <<"begin", r>> \in ToSet(inbox')
         /\ inbox # << >> /\ inbox' = Tail(inbox)
              => <<"begin", r>> \in ToSet(inbox') \/ inbox[1] = <<"begin", r>>
<1>1. PICK j \in DOMAIN inbox : inbox[j] = <<"begin", r>>
  BY DEF ToSet
<1>2. ASSUME NEW i \in DOMAIN inbox', inbox'[i] = <<"begin", r>>
      PROVE  <<"begin", r>> \in ToSet(inbox')
  BY <1>2 DEF ToSet
<1>3. CASE UNCHANGED inbox
  BY <1>1, <1>2, <1>3
<1>4. CASE \E k : Grows(k)
  BY <1>1, <1>2, <1>4 DEF Grows
<1>5. CASE \E i \in DOMAIN inbox : inbox[i][1] = "close" /\ inbox' = RemoveAt(inbox, i)
  <2>1. PICK i \in DOMAIN inbox : inbox[i][1] = "close" /\ inbox' = RemoveAt(inbox, i)
    BY <1>5
  <2>2. j # i
    BY <1>1, <2>1
  <2> QED BY <1>1, <1>2, <2>1, <2>2, RemovedCommand
<1>6. ASSUME inbox # << >>, inbox' = Tail(inbox)
      PROVE  <<"begin", r>> \in ToSet(inbox') \/ inbox[1] = <<"begin", r>>
  <2>1. CASE j = 1
    BY <1>1, <2>1
  <2>2. CASE j # 1
    BY <1>1, <1>2, <1>6, <2>2, FirstCommand
  <2> QED BY <2>1, <2>2
<1> QED
  BY <1>3, <1>4, <1>5, <1>6

-----------------------------------------------------------------------------
(* The releases                                                             *)

(* A step of one acquirer leaves the other ones alone. *)
LEMMA OtherAcquirers ==
  ASSUME TypeOK, NEW r \in Acquirers, NEW q \in Acquirers \ {r},
         \/ Polling(r) \/ Request(r) \/ Abandon(r) \/ Release(r)
         \/ CancelAcquirer(r) \/ DeadlineReached(r)
  PROVE  rec'[q] = rec[q] /\ caller'[q] = caller[q]
<1>1. {"poll", "take", "waiting", "holding", "done", "gone"} \subseteq Callers
  BY DEF Callers
<1>2. \A pc \in Callers : CallerTo(r, pc) => caller'[q] = caller[q]
  BY CallerType
<1>3. CASE Request(r)
  BY <1>1, <1>2, <1>3, RequestStep
<1>4. CASE TakeOutcome(r)
  <2>1. \E pc \in {"holding", "done", "waiting"} : CallerTo(r, pc)
    BY <1>4, TakeOutcomeStep
  <2> QED BY <1>1, <1>2, <1>4, <2>1, TakeOutcomeStep
<1>5. CASE Abandon(r)
  BY <1>1, <1>2, <1>5, AbandonStep
<1>6. CASE Poll(r) \/ PollAgain(r) \/ AlarmFires(r) \/ Release(r) \/ CancelAcquirer(r)
           \/ DeadlineReached(r)
  BY <1>1, <1>2, <1>6 DEF Poll, PollAgain, AlarmFires, Release, CancelAcquirer,
                          DeadlineReached, future
<1> QED
  BY <1>3, <1>4, <1>5, <1>6 DEF Polling

(* Once a lease is over it stays over. *)
LEMMA PastStays ==
  ASSUME TypeOK, RecordInv, [Next]_vars, NEW r \in Acquirers, Past(r)
  PROVE  Past(r)'
<1>1. ASSUME rec'[r] = rec[r], caller'[r] = caller[r] PROVE Past(r)'
  BY <1>1 DEF Past
<1>2. CASE Resolving
  <2>1. PICK t \in Threads : Reserve(t) \/ Publish(t)
    BY <1>2 DEF Resolving
  <2>2. resolver[t].r \in Acquirers
    BY <2>1 DEF RecordInv, ThreadInv, Reserve, Publish
  <2>3. caller' = caller
    BY <2>1 DEF Reserve, Publish
  <2>4. CASE Reserve(t)
    BY <1>1, <2>2, <2>3, <2>4, ReserveStep DEF Past
  <2>5. CASE Publish(t)
    <3>1. resolver[t].r # r
      BY <2>2, <2>5 DEF Publish, Publishing, RecordInv, ThreadInv, Past
    <3> QED BY <1>1, <2>2, <2>3, <2>5, <3>1, PublishStep
  <2> QED BY <2>1, <2>4, <2>5
<1>3. ASSUME UNCHANGED <<rec, caller>> PROVE Past(r)'
  BY <1>1, <1>3
<1>4. CASE Reporting \/ Commands
  <2>1. UNCHANGED future
    BY <1>4, ReportingFrame DEF Commands, WaitEnds, TakeAcquire, Acquire, TakeBegin,
                TakeSequence, CloseLane, Collect, FinalNeutral, FinishClose
  <2> QED BY <1>3, <2>1 DEF future
<1>5. CASE Outside
  <2>1. CASE UNCHANGED vars \/ CloseNext \/ CloseIntent
             \/ (\E s \in Precise : Submit(s)) \/ \E o \in Ops : CancelOp(o)
    BY <1>3, <2>1 DEF vars, CloseNext, CloseIntent, DrainAcquires, SettleAcquire,
                      SendClose, Submit, CancelOp, future
  <2>2. ASSUME NEW q \in Acquirers,
               \/ Polling(q) \/ Request(q) \/ Abandon(q) \/ Release(q)
               \/ CancelAcquirer(q) \/ DeadlineReached(q)
        PROVE  Past(r)'
    <3>1. CASE q # r
      BY <1>1, <2>2, <3>1, OtherAcquirers
    <3>2. CASE q = r
      <4>0. {"poll", "take", "waiting", "gone", "done"} \subseteq Callers
        BY DEF Callers
      <4>1. ~Request(r)
        BY RequestStep DEF RecordInv, CallerInv, Past
      <4>2. ~Release(r)
        BY DEF Release, Past
      <4>3. CASE TakeOutcome(r)
        BY <4>0, <4>3, TakeOutcomeStep, CallerType DEF Past
      <4>4. CASE Abandon(r)
        BY <4>0, <4>4, AbandonStep, CallerType DEF Past
      <4>5. CASE Poll(r) \/ PollAgain(r)
        BY <4>0, <4>5, CallerType DEF Poll, PollAgain, Past
      <4>6. CASE AlarmFires(r) \/ CancelAcquirer(r) \/ DeadlineReached(r)
        BY <1>3, <4>6 DEF AlarmFires, CancelAcquirer, DeadlineReached, future
      <4> QED BY <2>2, <3>2, <4>1, <4>2, <4>3, <4>4, <4>5, <4>6 DEF Polling
    <3> QED BY <3>1, <3>2
  <2> QED BY <1>5, <2>1, <2>2 DEF Outside
<1> QED
  BY <1>2, <1>4, <1>5, StepCases

(* Nobody, acquirers, sequences and direct actions are told apart. *)
LEMMA Distinct ==
  /\ Nobody \notin Acquirers /\ Nobody \notin Ops
  /\ \A r \in Acquirers : r \notin Ops /\ r \notin Precise /\ r \notin Direct
  /\ \A s \in Precise : s \notin Direct /\ s \in Ops /\ s # Nobody
  /\ \A d \in Direct : d \notin Precise /\ d \in Ops
  /\ \A o \in Ops : o \in Precise \/ o \in Direct
BY LeaseAssumption DEF Ops

(* The schedule is of operations.                                           *)
LEMMA PendingAreOps ==
  ASSUME TypeOK
  PROVE  /\ PendingOps \subseteq Ops
         /\ \A i \in DOMAIN pending : pending[i].op \in PendingOps
<1>1. \A i \in DOMAIN pending : pending[i].op \in Ops
  <2> TAKE i \in DOMAIN pending
  <2>1. pending[i] \in Entries
    BY ElementOfSeq DEF TypeOK
  <2> QED BY <2>1, EntryFields
<1> QED
  BY <1>1, Distinct DEF PendingOps

(* A lease comes back once, over, and to the lane that it still owns.       *)
LEMMA ReleaseKept ==
  ASSUME TypeOK, RecordInv, PlaceInv, GrantInv, ReleaseInv, ScheduledInv, [Next]_vars
  PROVE  ReleaseInv'
<1>1. \A r \in Acquirers : BeingReleased(r) => Past(r)'
  BY PastStays DEF ReleaseInv
<1>2. ASSUME \A r \in Acquirers :
               BeingReleased(r)' => BeingReleased(r) \/ Past(r)',
             cleanup' # Nobody => owner' = cleanup'
      PROVE  ReleaseInv'
  BY <1>1, <1>2 DEF ReleaseInv
<1>3. ASSUME UNCHANGED cleanup,
             UNCHANGED inbox \/ (inbox # << >> /\ inbox' = Tail(inbox)) \/ inbox' = << >>
               \/ \E i \in DOMAIN inbox : inbox' = RemoveAt(inbox, i)
      PROVE  \A r \in Acquirers : BeingReleased(r)' => BeingReleased(r)
  BY <1>3, BegunBefore DEF BeingReleased
<1>4. CASE Outside
  <2>1. UNCHANGED <<owner, cleanup>>
    BY <1>4, OutsideFrame
  <2>2. CASE UNCHANGED inbox
    BY <1>2, <1>3, <2>1, <2>2 DEF ReleaseInv
  <2>3. ASSUME NEW k, Grows(k), \A r \in Acquirers : k # <<"begin", r>>
        PROVE  ReleaseInv'
    <3>1. \A r \in Acquirers : BeingReleased(r)' => BeingReleased(r)
      BY <2>1, <2>3, BegunBefore DEF BeingReleased
    <3> QED BY <1>2, <2>1, <3>1 DEF ReleaseInv
  <2>4. ASSUME NEW q \in Acquirers, Abandon(q) \/ Release(q), Grows(<<"begin", q>>),
               ~UNCHANGED inbox
        PROVE  ReleaseInv'
    <3>0. {"done", "gone"} \subseteq Callers
      BY DEF Callers
    <3>1. Past(q)'
      <4>1. CASE Abandon(q)
        <5>1. rec[q].st = "ready" /\ rec'[q].st = "abandoned"
          BY <2>4, <4>1, AbandonStep
        <5>2. caller'[q] = "gone"
          BY <3>0, <4>1, AbandonStep, CallerType
        <5> QED BY <5>1, <5>2 DEF Past
      <4>2. CASE Release(q)
        BY <3>0, <4>2, CallerType DEF Release, RecordInv, CallerInv, Past
      <4> QED BY <2>4, <4>1, <4>2
    <3>2. \A r \in Acquirers : BeingReleased(r)' => BeingReleased(r) \/ Past(r)'
      <4> SUFFICES ASSUME NEW r \in Acquirers, BeingReleased(r)'
                   PROVE  BeingReleased(r) \/ Past(r)'
        OBVIOUS
      <4>1. CASE <<"begin", r>> = <<"begin", q>>
        BY <3>1, <4>1
      <4>2. CASE <<"begin", r>> # <<"begin", q>>
        BY <2>1, <2>4, <4>2, BegunBefore DEF BeingReleased
      <4> QED BY <4>1, <4>2
    <3> QED BY <1>2, <2>1, <3>2 DEF ReleaseInv
  <2> QED BY <1>4, <2>2, <2>3, <2>4, OutsideChannel
<1>5. CASE Resolving
  <2>1. UNCHANGED cleanup /\ (cleanup' # Nobody => owner' = cleanup')
    BY <1>5, ResolvingFrame DEF ReleaseInv, GrantInv, Idle
  <2>2. CASE UNCHANGED inbox
    BY <1>2, <1>3, <2>1, <2>2
  <2>3. CASE ~UNCHANGED inbox
    <3>1. PICK t \in Threads :
              /\ Publish(t) /\ resolver[t].r \in Acquirers
              /\ rec[resolver[t].r].st = "leaving"
              /\ Grows(<<"begin", resolver[t].r>>)
      BY <1>5, <2>3, ResolvingChannel
    <3>a. PICK q \in Acquirers : q = resolver[t].r
      BY <3>1
    <3>2. Past(q)'
      <4>1. rec'[q].st = "abandoned"
        BY <3>1, <3>a, PublishStep
      <4>2. caller'[q] = caller[q] /\ caller[q] # "holding"
        BY <3>1, <3>a DEF Publish, RecordInv, CallerInv
      <4> QED BY <4>1, <4>2 DEF Past
    <3>3. \A r \in Acquirers : BeingReleased(r)' => BeingReleased(r) \/ Past(r)'
      <4> SUFFICES ASSUME NEW r \in Acquirers, BeingReleased(r)'
                   PROVE  BeingReleased(r) \/ Past(r)'
        OBVIOUS
      <4>1. Grows(<<"begin", q>>)
        BY <3>1, <3>a
      <4>2. CASE <<"begin", r>> = <<"begin", q>>
        BY <3>2, <4>2
      <4>3. CASE <<"begin", r>> # <<"begin", q>>
        BY <2>1, <4>1, <4>3, BegunBefore DEF BeingReleased
      <4> QED BY <4>2, <4>3
    <3> QED BY <1>2, <2>1, <3>3
  <2> QED BY <2>2, <2>3
<1>6. CASE Reporting
  <2>1. UNCHANGED inbox
    BY <1>6, ReportingFrame
  <2>2. /\ cleanup' \in {cleanup, Nobody}
        /\ cleanup' # Nobody => owner' = cleanup'
    <3>1. cleanup # Nobody => owner \notin Ops \/ owner = Nobody
      BY Distinct DEF ReleaseInv, TypeOK
    <3>2. cleanup # Nobody => owner \notin PendingOps /\ owner # waiting
      BY <3>1, Distinct, PendingAreOps DEF ReleaseInv, TypeOK
    <3>3. ASSUME Ends
          PROVE  cleanup' = cleanup /\ (cleanup' # Nobody => owner' = cleanup')
      <4>1. pending # << >> /\ owner' = ReleasedBy(pending[1].op) /\ cleanup' = cleanup
        BY <3>3 DEF Ends
      <4>2. pending[1].op \in Ops
        BY <4>1, FrontEntry
      <4> QED BY <3>1, <4>1, <4>2, Distinct DEF ReleasedBy, ReleaseInv
    <3>4. ASSUME Handles
          PROVE  cleanup' \in {cleanup, Nobody} /\ (cleanup' # Nobody => owner' = cleanup')
      BY <3>2, <3>4 DEF Handles, Stays, Replaces, Advances, Settles, Seals, Drops,
           Cleans, Turns, writers, ReleaseInv
    <3>5. ASSUME Fails \/ Frees
          PROVE  cleanup' \in {cleanup, Nobody} /\ (cleanup' # Nobody => owner' = cleanup')
      <4>1. CASE Fails
        BY <4>1 DEF Fails
      <4>2. CASE Frees
        <5>1. cleanup # Nobody => owner \in Acquirers
          BY DEF ReleaseInv, TypeOK
        <5>2. cleanup = Nobody /\ cleanup' = cleanup
          BY <4>2, <5>1 DEF Frees, ScheduledInv
        <5> QED BY <5>2
      <4> QED BY <3>5, <4>1, <4>2
    <3> QED BY <1>6, <3>3, <3>4, <3>5, ReportingEffects
  <2>3. \A r \in Acquirers : BeingReleased(r)' => BeingReleased(r)
    BY <2>1, <2>2, Distinct DEF BeingReleased
  <2> QED BY <1>2, <2>2, <2>3
<1>7. CASE Commands
  <2>1. CASE TakeBegin \/ Collect
    <3>1. inbox # << >> /\ inbox' = Tail(inbox) /\ inbox[1] \in Mail /\ 1 \in DOMAIN inbox
      BY <2>1, FirstCommand DEF TakeBegin, Collect, Take
    <3> DEFINE q == inbox[1][2]
    <3>2. \/ UNCHANGED <<cleanup, owner>>
          \/ failed /\ UNCHANGED cleanup /\ owner' = ReleasedBy(q)
          \/ /\ cleanup' = Collected(q) /\ UNCHANGED owner
             /\ inbox[1][1] = "begin"
      BY <2>1 DEF TakeBegin, Collect, Take
    <3>0. lane.pc # "seal"
      BY <2>1 DEF TakeBegin, Collect, Take, At
    <3>3. cleanup' # Nobody => owner' = cleanup'
      BY <3>0, <3>2 DEF Collected, ReleasedBy, ReleaseInv, PlaceInv
    <3>4. ASSUME NEW r \in Acquirers, BeingReleased(r)' PROVE BeingReleased(r)
      <4>1. CASE cleanup' = r
        <5>1. CASE cleanup = r
          BY <5>1 DEF BeingReleased
        <5>2. CASE cleanup # r
          <6>1. inbox[1][1] = "begin" /\ q = r
            BY <3>2, <4>1, <5>2 DEF Collected
          <6>2. inbox[1] = <<"begin", r>>
            BY <3>1, <6>1, MailFields
          <6> QED BY <3>1, <6>2 DEF BeingReleased, ToSet
        <5> QED BY <5>1, <5>2
      <4>2. CASE cleanup' # r
        BY <3>1, <3>4, <4>2, BegunBefore DEF BeingReleased
      <4> QED BY <4>1, <4>2
    <3> QED BY <1>2, <3>3, <3>4
  <2>2. CASE FinalNeutral
    <3>1. cleanup' = Nobody /\ UNCHANGED inbox
      BY <2>2 DEF FinalNeutral
    <3>2. \A r \in Acquirers : BeingReleased(r)' => BeingReleased(r)
      BY <3>1, Distinct DEF BeingReleased
    <3> QED BY <1>2, <3>1, <3>2
  <2>3. CASE ~(TakeBegin \/ Collect \/ FinalNeutral)
    <3>1. UNCHANGED cleanup
      BY <1>7, <2>3 DEF Commands, WaitEnds, TakeAcquire, Acquire, TakeSequence, CloseLane,
                        FinishClose, writers
    <3>2. cleanup # Nobody => owner' = owner
      <4>1. CASE TakeSequence
        BY <4>1, TakeSequenceStep DEF ReleaseInv
      <4>2. CASE ~TakeSequence
        BY <1>7, <2>3, <4>2 DEF Commands, WaitEnds, TakeAcquire, Acquire, CloseLane,
                                FinishClose, writers
      <4> QED BY <4>1, <4>2
    <3>3. \A r \in Acquirers : BeingReleased(r)' => BeingReleased(r)
      BY <1>3, <1>7, <3>1, CommandsChannel
    <3> QED BY <1>2, <3>1, <3>2, <3>3 DEF ReleaseInv
  <2> QED BY <2>1, <2>2, <2>3
<1> QED
  BY <1>4, <1>5, <1>6, <1>7, StepCases

-----------------------------------------------------------------------------
(* What is scheduled                                                        *)

(* A sequence without positions is the empty one.                           *)
LEMMA EmptySchedule ==
  ASSUME TypeOK, NEW s \in Seq(Entries), DOMAIN s = {}
  PROVE  s = << >>
<1>1. Len(s) \in Nat /\ DOMAIN s = 1..Len(s)
  OBVIOUS
<1>2. Len(s) = 0
  BY <1>1
<1> QED BY <1>2, EmptySeq

(* A sequence that owns has nothing else scheduled; when one of its reports *)
(* is taken out for good, nothing is left.                                  *)
LEMMA OwnersEnd ==
  ASSUME TypeOK, OnlyOwners, Ends
  PROVE  pending' = << >> /\ owner' = Nobody
<1>1. pending # << >> /\ pending[1].op = owner
  BY FrontEntry DEF Ends, OnlyOwners
<1>2. owner' = Nobody
  BY <1>1 DEF Ends, ReleasedBy
<1>3. CASE pending' = Without(pending[1].op)
  <2>1. pending' \in Seq(Entries)
    BY <1>3, WithoutEntries
  <2>2. \A k \in DOMAIN pending' :
          pending'[k].op # owner /\ \E i \in DOMAIN pending : pending'[k] = pending[i]
    BY <1>1, <1>3, WithoutEntries
  <2>3. DOMAIN pending' = {}
    BY <2>2 DEF OnlyOwners
  <2> QED BY <1>2, <2>1, <2>3, EmptySchedule
<1>4. CASE pending[1].kind # "step" /\ pending' = Tail(pending)
  <2>1. pending \in Seq(Entries) /\ Len(pending) \in Nat /\ Len(pending) # 0
    BY <1>1 DEF TypeOK
  <2>2. Len(pending) = 1
    <3>1. Len(pending) <= 2 /\ Len(pending) # 2
      BY <1>4 DEF OnlyOwners
    <3>2. Len(pending) \in Nat /\ Len(pending) # 0
      BY <2>1
    <3>3. \A n \in Nat : n <= 2 /\ n # 2 /\ n # 0 => n = 1
      OBVIOUS
    <3> QED BY <3>1, <3>2, <3>3, Zenon
  <2>3. pending' \in Seq(Entries) /\ Len(pending') = 0
    BY <1>1, <1>4, <2>2, FrontEntry
  <2> QED BY <1>2, <2>3, EmptySeq
<1> QED BY <1>3, <1>4 DEF Ends

(* The reports keep the schedule one of direct reports, or one of the       *)
(* owner.                                                                   *)
LEMMA EffectsScheduled ==
  ASSUME TypeOK, PlaceInv, ReleaseInv, ScheduledInv, Reporting
  PROVE  ScheduledInv'
<1>1. lane.pc \notin {"finish", "ended"}
  BY ReportingPlaces DEF Working
<1>2. /\ OnlyDirect \/ OnlyOwners
      /\ waiting # Nobody => owner = waiting
      /\ owner \in Acquirers => pending = << >> /\ waiting = Nobody
  BY <1>1 DEF ScheduledInv
<1> DEFINE Good == /\ OnlyDirect' \/ OnlyOwners'
                   /\ waiting' # Nobody => owner' = waiting'
                   /\ owner' \in Acquirers => pending' = << >> /\ waiting' = Nobody
<1>3. Len(pending) \in Nat /\ DOMAIN pending = 1..Len(pending) /\ pending \in Seq(Entries)
      /\ waiting \in Precise \union {Nobody}
  BY DEF TypeOK
<1>4. ASSUME Stays PROVE Good
  BY <1>2, <1>4 DEF Stays, writers, OnlyDirect, OnlyOwners
<1>5. ASSUME Settles PROVE Good
  BY <1>2, <1>5 DEF Settles, OnlyDirect, OnlyOwners
<1>6. ASSUME Replaces PROVE Good
  <2>1. /\ owner' = owner /\ pending' \in Seq(Entries) /\ pending' # << >>
        /\ pending'[1].kind = "neutral"
    BY <1>6 DEF Replaces
  <2>2. Len(pending') \in Nat /\ Len(pending') # 0 /\ DOMAIN pending' = 1..Len(pending')
    BY <2>1
  <2>3. CASE /\ pending = << >> /\ waiting # Nobody /\ waiting' = Nobody
             /\ Len(pending') = 1 /\ pending'[1].op = waiting
    <3>1. owner = waiting /\ waiting \in Precise /\ owner \notin Acquirers
      BY <1>2, <1>3, <2>3, Distinct
    <3>2. OnlyOwners'
      BY <2>1, <2>2, <2>3, <3>1 DEF OnlyOwners
    <3> QED BY <2>1, <2>3, <3>1, <3>2
  <2>4. ASSUME waiting' = waiting, NEW i \in DOMAIN pending,
               /\ pending'[1].op = pending[i].op
               /\ \A k \in DOMAIN pending' \ {1} :
                    /\ pending'[k].op # pending[i].op
                    /\ \E j \in DOMAIN pending : pending'[k] = pending[j]
        PROVE  Good
    <3>1. owner \notin Acquirers
      BY <1>2, <2>4
    <3>2. CASE OnlyDirect
      <4>1. OnlyDirect'
        BY <2>2, <2>4, <3>2 DEF OnlyDirect
      <4> QED BY <1>2, <2>1, <2>4, <3>1, <4>1
    <3>3. CASE OnlyOwners
      <4>1. \A k \in DOMAIN pending' : k = 1
        BY <2>4, <3>3 DEF OnlyOwners
      <4>2. Len(pending') = 1
        <5>1. Len(pending') \in DOMAIN pending'
          BY <2>2
        <5> QED BY <4>1, <5>1
      <4>3. OnlyOwners'
        BY <2>1, <2>2, <2>4, <3>3, <4>2 DEF OnlyOwners
      <4> QED BY <1>2, <2>1, <2>4, <3>1, <4>3
    <3> QED BY <1>2, <3>2, <3>3
  <2> QED BY <1>6, <2>3, <2>4 DEF Replaces
<1>7. ASSUME Advances PROVE Good
  <2>1. /\ UNCHANGED <<owner, waiting>> /\ pending # << >> /\ pending[1].kind = "step"
        /\ pending' = Tail(pending)
    BY <1>7 DEF Advances
  <2>2. /\ pending' \in Seq(Entries) /\ Len(pending') = Len(pending) - 1
        /\ \A k \in DOMAIN pending' : k + 1 \in DOMAIN pending /\ pending'[k] = pending[k + 1]
    BY <2>1, FrontEntry
  <2>3. CASE OnlyDirect
    BY <1>2, <2>1, <2>2, <2>3 DEF OnlyDirect
  <2>4. CASE OnlyOwners
    <3>1. Len(pending) # 0
      BY <1>3, <2>1
    <3>2. Len(pending) = 2
      BY <1>3, <2>1, <2>4, <3>1 DEF OnlyOwners
    <3>3. Len(pending') = 1 /\ DOMAIN pending' = 1..1
      BY <2>2, <3>2
    <3>4. pending'[1] = pending[2] /\ pending[2].kind # "step"
      BY <2>2, <2>4, <3>2, <3>3 DEF OnlyOwners
    <3>5. OnlyOwners'
      <4>1. \A k \in DOMAIN pending' : k = 1 /\ pending'[k] = pending[2]
        BY <3>3, <3>4
      <4>2. 2 \in DOMAIN pending /\ pending[2].op = owner
        BY <1>3, <2>4, <3>2 DEF OnlyOwners
      <4>3. \A k \in DOMAIN pending' : pending'[k].op = owner'
        BY <2>1, <4>1, <4>2
      <4>4. owner' \in Precise /\ waiting' = Nobody
        BY <2>1, <2>4 DEF OnlyOwners
      <4>5. pending'[Len(pending')].kind # "step"
        BY <3>3, <3>4
      <4> QED BY <3>3, <4>3, <4>4, <4>5 DEF OnlyOwners
    <3> QED BY <1>2, <2>1, <3>5
  <2> QED BY <1>2, <2>3, <2>4
<1>8. ASSUME Ends PROVE Good
  <2>1. pending # << >> /\ owner \notin Acquirers
    BY <1>2, <1>8 DEF Ends
  <2>2. /\ waiting' = waiting /\ owner' = ReleasedBy(pending[1].op)
        /\ pending' = Without(pending[1].op) \/ pending' = Tail(pending)
    BY <1>8 DEF Ends
  <2>3. CASE OnlyDirect
    <3>1. pending[1].op \in Direct
      BY <2>1, <2>3, FrontEntry DEF OnlyDirect
    <3>2. owner' = owner
      BY <2>2, <3>1, Distinct DEF ReleasedBy, TypeOK
    <3>3. OnlyDirect'
      <4>1. \A k \in DOMAIN pending' : \E i \in DOMAIN pending : pending'[k] = pending[i]
        <5>1. CASE pending' = Tail(pending)
          BY <2>1, <5>1, FrontEntry
        <5>2. CASE pending' = Without(pending[1].op)
          BY <5>2, WithoutEntries
        <5> QED BY <2>2, <5>1, <5>2
      <4> QED BY <2>3, <4>1 DEF OnlyDirect
    <3> QED BY <1>2, <2>1, <2>2, <3>2, <3>3
  <2>4. CASE OnlyOwners
    <3>1. pending' = << >> /\ owner' = Nobody /\ waiting' = Nobody
      BY <1>8, <2>2, <2>4, OwnersEnd DEF OnlyOwners
    <3>2. OnlyDirect'
      BY <3>1 DEF OnlyDirect
    <3> QED BY <3>1, <3>2
  <2> QED BY <1>2, <2>3, <2>4
<1>9. ASSUME Seals \/ Drops PROVE Good
  <2>1. pending' = << >> /\ waiting' = Nobody
    BY <1>9 DEF Seals, Drops
  <2>2. OnlyDirect'
    BY <2>1 DEF OnlyDirect
  <2> QED BY <2>1, <2>2
<1>10. ASSUME Cleans PROVE Good
  <2>1. cleanup # Nobody /\ owner' = Nobody /\ UNCHANGED <<waiting, pending>>
    BY <1>10 DEF Cleans, ReleasedBy, ReleaseInv
  <2>2. owner \in Acquirers
    BY <2>1 DEF ReleaseInv, TypeOK
  <2>3. pending' = << >> /\ waiting' = Nobody
    BY <1>2, <2>1, <2>2
  <2>4. OnlyDirect'
    BY <2>3 DEF OnlyDirect
  <2> QED BY <2>1, <2>3, <2>4, Distinct
<1>11. ASSUME Turns PROVE Good
  <2>1. /\ waiting \in Precise /\ owner' = owner /\ owner = waiting /\ waiting' = Nobody
        /\ Schedule(waiting)
    BY <1>2, <1>3, <1>11 DEF Turns
  <2>2. OnlyOwners'
    BY <2>1, ScheduleStep DEF OnlyOwners
  <2> QED BY <2>1, <2>2, Distinct
<1>12. ASSUME Fails PROVE Good
  <2>1. pending # << >> /\ pending' = << >> /\ waiting' = Nobody /\ owner' \in {owner, Nobody}
    BY <1>12 DEF Fails
  <2>2. OnlyDirect'
    BY <2>1 DEF OnlyDirect
  <2>3. owner' \notin Acquirers
    BY <1>2, <2>1, Distinct
  <2> QED BY <2>1, <2>2, <2>3
<1>13. ASSUME Frees PROVE Good
  <2>1. UNCHANGED <<pending, waiting>> /\ owner' = Nobody /\ lane.pc = "seal"
    BY <1>13 DEF Frees
  <2>2. pending' = << >> /\ waiting' = Nobody
    BY <2>1 DEF ScheduledInv
  <2>3. OnlyDirect'
    BY <2>2 DEF OnlyDirect
  <2> QED BY <2>1, <2>2, <2>3, Distinct
<1>14. CASE Handles /\ lane'.pc # "seal"
  <2>1. Good
    BY <1>4, <1>5, <1>6, <1>7, <1>9, <1>10, <1>11, <1>14 DEF Handles
  <2> QED BY <1>14, <2>1 DEF ScheduledInv
<1>15. CASE Ends
  <2>1. Good /\ lane'.pc = "settle"
    BY <1>8, <1>15 DEF Ends
  <2> QED BY <2>1 DEF ScheduledInv
<1>16. CASE Fails
  <2>1. Good /\ pending' = << >> /\ waiting' = Nobody
    BY <1>12, <1>16 DEF Fails
  <2>2. owner' \notin Acquirers
    BY <1>2, <1>16, Distinct DEF Fails
  <2> QED BY <2>1, <2>2 DEF ScheduledInv
<1>17. CASE Frees
  <2>1. Good /\ lane'.pc = "settle"
    BY <1>13, <1>17 DEF Frees
  <2> QED BY <2>1 DEF ScheduledInv
<1> QED
  BY <1>14, <1>15, <1>16, <1>17, ReportingEffects

(* So does every step.                                                      *)
LEMMA ScheduledKept ==
  ASSUME TypeOK, RecordInv, PlaceInv, GrantInv, ReleaseInv, ScheduledInv, [Next]_vars
  PROVE  ScheduledInv'
<1>1. CASE Outside
  BY <1>1, OutsideFrame DEF ScheduledInv, OnlyDirect, OnlyOwners
<1>2. CASE Resolving
  <2>1. UNCHANGED <<lane, waiting, pending>>
    BY <1>2, ResolvingFrame
  <2>2. CASE owner' = owner
    BY <2>1, <2>2 DEF ScheduledInv, OnlyDirect, OnlyOwners
  <2>3. CASE owner' # owner
    <3>1. pending = << >> /\ waiting = Nobody /\ lane.pc = "top"
      BY <1>2, <2>3, ResolvingFrame DEF GrantInv, Idle
    <3>2. OnlyDirect'
      BY <2>1, <3>1 DEF OnlyDirect
    <3> QED BY <2>1, <3>1, <3>2 DEF ScheduledInv
  <2> QED BY <2>2, <2>3
<1>3. CASE Reporting
  BY <1>3, EffectsScheduled
<1>4. CASE Commands
  <2>1. /\ lane.pc \in {"take", "acquire", "await", "collect", "finish"}
        /\ lane'.pc # "seal"
    BY <1>4, CommandPlaces
  <2>2. CASE FinalNeutral
    <3>1. owner' = Nobody /\ lane'.pc = "finish"
      BY <2>2, GotoFields DEF FinalNeutral, TypeOK, LanePcs
    <3> QED BY <3>1, Distinct DEF ScheduledInv
  <2>3. CASE FinishClose
    <3>1. /\ owner' = owner /\ pending' = << >> /\ waiting' = Nobody /\ lane'.pc = "ended"
      BY <2>3, FinishStep, GotoFields DEF TypeOK, LanePcs
    <3> QED BY <3>1 DEF ScheduledInv
  <2>4. CASE TakeSequence
    <3>0. lane.pc = "take"
      BY <2>4 DEF TakeSequence, Take, At
    <3>1. /\ OnlyDirect \/ OnlyOwners
          /\ waiting # Nobody => owner = waiting
      BY <3>0 DEF ScheduledInv
    <3>2. CASE UNCHANGED <<owner, pending, waiting>>
      BY <2>1, <3>0, <3>2 DEF ScheduledInv, OnlyDirect, OnlyOwners
    <3>3. ASSUME NEW s \in Precise, owner = Nobody, owner' = s,
                 \/ pending = << >> /\ Schedule(s) /\ UNCHANGED waiting
                 \/ pending # << >> /\ waiting' = s /\ UNCHANGED pending
          PROVE  ScheduledInv'
      <4>1. waiting = Nobody /\ OnlyDirect /\ s \notin Acquirers
        BY <3>1, <3>3, Distinct DEF OnlyOwners
      <4>2. CASE pending = << >> /\ Schedule(s) /\ UNCHANGED waiting
        <5>1. OnlyOwners'
          BY <3>3, <4>1, <4>2, ScheduleStep DEF OnlyOwners
        <5> QED BY <2>1, <3>3, <4>1, <4>2, <5>1 DEF ScheduledInv
      <4>3. CASE waiting' = s /\ UNCHANGED pending
        <5>1. OnlyDirect'
          BY <4>1, <4>3 DEF OnlyDirect
        <5> QED BY <2>1, <3>3, <4>1, <4>3, <5>1 DEF ScheduledInv
      <4> QED BY <3>3, <4>2, <4>3
    <3> QED BY <2>4, <3>2, <3>3, TakeSequenceStep
  <2>5. CASE TakeBegin
    <3>2. lane.pc = "take"
      BY <2>5 DEF TakeBegin, Take, At
    <3>1. UNCHANGED <<owner, pending, waiting>>
      BY <2>5, <3>2 DEF TakeBegin, ReleasedBy, PlaceInv
    <3> QED BY <2>1, <3>1, <3>2 DEF ScheduledInv, OnlyDirect, OnlyOwners
  <2>6. CASE ~(FinalNeutral \/ FinishClose \/ TakeSequence \/ TakeBegin)
    <3>1. UNCHANGED <<owner, pending, waiting>>
      BY <1>4, <2>6 DEF Commands, WaitEnds, TakeAcquire, Acquire, CloseLane, Collect,
                        writers
    <3>2. lane.pc # "finish"
      BY <1>4, <2>6 DEF Commands, WaitEnds, TakeAcquire, Acquire, CloseLane, Collect,
                        Take, At
    <3> QED BY <2>1, <3>1, <3>2 DEF ScheduledInv, OnlyDirect, OnlyOwners
  <2> QED BY <2>2, <2>3, <2>4, <2>5, <2>6
<1> QED
  BY <1>1, <1>2, <1>3, <1>4, StepCases

-----------------------------------------------------------------------------
(* Operations that are settled                                              *)

(* Nothing new in the channel is a sequence, and the operations of those    *)
(* that are there stay as they are.                                         *)
LEMMA ChannelKept ==
  ASSUME TypeOK, ChannelInv,
         \/ UNCHANGED inbox
         \/ \E k : Grows(k) /\ k[1] # "sequence"
         \/ inbox # << >> /\ inbox' = Tail(inbox)
         \/ \E i \in DOMAIN inbox : inbox' = RemoveAt(inbox, i),
         \A i \in DOMAIN inbox :
            inbox[i][1] = "sequence" /\ op[inbox[i][2]] = "queued"
              => op'[inbox[i][2]] = "queued"
  PROVE  ChannelInv'
<1>1. CASE UNCHANGED inbox
  BY <1>1 DEF ChannelInv
<1>2. CASE \E k : Grows(k) /\ k[1] # "sequence"
  <2>1. \A j \in DOMAIN inbox' : inbox'[j][1] = "sequence"
          => j \in DOMAIN inbox /\ inbox'[j] = inbox[j]
    BY <1>2 DEF Grows
  <2> QED BY <2>1 DEF ChannelInv
<1>3. CASE inbox # << >> /\ inbox' = Tail(inbox)
  <2>1. \A k \in DOMAIN inbox' : k + 1 \in DOMAIN inbox /\ k \in Nat
                                 /\ inbox'[k] = inbox[k + 1]
    BY <1>3, FirstCommand
  <2>2. \A k \in DOMAIN inbox' : inbox'[k][1] = "sequence" => op'[inbox'[k][2]] = "queued"
    BY <2>1 DEF ChannelInv
  <2>3. ASSUME NEW i \in DOMAIN inbox', NEW j \in DOMAIN inbox',
               inbox'[i][1] = "sequence", inbox'[i] = inbox'[j]
        PROVE  i = j
    <3>1. i + 1 = j + 1
      BY <2>1, <2>3 DEF ChannelInv
    <3> QED BY <2>1, <3>1
  <2> QED BY <2>2, <2>3 DEF ChannelInv
<1>4. CASE \E i \in DOMAIN inbox : inbox' = RemoveAt(inbox, i)
  <2>1. PICK i \in DOMAIN inbox : inbox' = RemoveAt(inbox, i)
    BY <1>4
  <2> DEFINE From(k) == IF k < i THEN k ELSE k + 1
  <2>2. /\ \A k \in DOMAIN inbox' : From(k) \in DOMAIN inbox /\ inbox'[k] = inbox[From(k)]
        /\ \A k, l \in DOMAIN inbox' : From(k) = From(l) => k = l
    BY <2>1, RemovedCommand
  <2> HIDE DEF From
  <2> QED BY <2>2 DEF ChannelInv
<1> QED
  BY <1>1, <1>2, <1>3, <1>4

(* Nobody settles a sequence that is still in the channel. *)
LEMMA QueuedIsNotWriting ==
  ASSUME TypeOK, ScheduledInv, SettlingInv, lane.pc \notin {"finish", "ended"}
  PROVE  \A o \in PendingOps \union {waiting} : o \in Ops => op[o] # "queued"
<1> SUFFICES ASSUME NEW o \in PendingOps \union {waiting}, o \in Ops
             PROVE  op[o] # "queued"
  OBVIOUS
<1>1. CASE o \in Direct
  BY <1>1 DEF SettlingInv, SettledInv
<1>2. CASE o \in Precise
  <2>1. owner = o
    <3>1. CASE o = waiting
      BY <1>2, <3>1, Distinct DEF ScheduledInv
    <3>2. CASE o \in PendingOps
      <4>1. PICK i \in DOMAIN pending : o = pending[i].op
        BY <3>2 DEF PendingOps
      <4>2. ~OnlyDirect
        BY <1>2, <4>1, Distinct DEF OnlyDirect
      <4> QED BY <4>1, <4>2 DEF ScheduledInv, OnlyOwners
    <3> QED BY <3>1, <3>2
  <2> QED BY <1>2, <2>1 DEF SettlingInv, SettledInv
<1> QED BY <1>1, <1>2, Distinct

(* Settling operations none of which is in the channel or owns. *)
LEMMA SettlingKeeps ==
  ASSUME TypeOK, SettlingInv, NEW S, NEW out \in {"ok", "cancelled", "failed"},
         op' = Settled(S, out), UNCHANGED inbox, lane'.pc \notin {"seal", "settle"},
         \A o \in S : o \in Ops => op[o] # "queued",
         owner' \in {owner, Nobody}, owner' \notin S
  PROVE  SettlingInv'
<1>1. \A o \in Ops : op'[o] = IF o \in S /\ ~IsTerminal(o) THEN out ELSE op[o]
  BY SettledOps
<1>2. \A o \in Ops : op[o] = "queued" => op'[o] = "queued"
  BY <1>1
<1>3. \A i \in DOMAIN inbox : inbox[i][1] = "sequence" => inbox[i][2] \in Ops
  <2> TAKE i \in DOMAIN inbox
  <2>1. inbox[i] \in Mail
    BY ElementOfSeq DEF TypeOK
  <2> QED BY <2>1, MailFields, Distinct
<1>4. ChannelInv'
  BY <1>2, <1>3, ChannelKept DEF SettlingInv
<1>5. owner' \in Precise => op'[owner'] = "running"
  BY <1>1, Distinct DEF SettlingInv, SettledInv
<1>6. \A d \in Direct : op'[d] \notin {"new", "queued"}
  BY <1>1, Distinct DEF SettlingInv, SettledInv
<1> QED
  BY <1>4, <1>5, <1>6 DEF SettlingInv, SettledInv

(* The reports settle what the schedule no longer names.                    *)
LEMMA EffectsSettling ==
  ASSUME TypeOK, PlaceInv, ReleaseInv, ScheduledInv, SettlingInv, Reporting
  PROVE  SettlingInv'
<1>1. UNCHANGED inbox /\ lane.pc \notin {"finish", "ended"}
  BY ReportingPlaces, ReportingFrame DEF Working
<1>2. \A o \in PendingOps \union {waiting} : o \in Ops => op[o] # "queued"
  BY <1>1, QueuedIsNotWriting
<1>3. ASSUME op' = op, owner' \in {owner, Nobody}, lane'.pc \notin {"seal", "settle"}
      PROVE  SettlingInv'
  BY <1>1, <1>3, Distinct DEF SettlingInv, SettledInv, ChannelInv
<1>4. CASE Ends
  <2>1. /\ pending # << >> /\ owner' = ReleasedBy(pending[1].op)
        /\ lane'.pc = "settle" /\ lane'.who = pending[1].op /\ op' = op
    BY <1>4 DEF Ends
  <2>2. pending[1].op \in Ops /\ 1 \in DOMAIN pending
    BY <2>1, FrontEntry
  <2>3. op[pending[1].op] \notin {"new", "queued"}
    <3>1. OnlyDirect \/ OnlyOwners
      BY <1>1 DEF ScheduledInv
    <3>2. CASE OnlyDirect
      BY <2>2, <3>2 DEF OnlyDirect, SettlingInv, SettledInv
    <3>3. CASE OnlyOwners
      BY <2>2, <3>3 DEF OnlyOwners, SettlingInv, SettledInv
    <3> QED BY <3>1, <3>2, <3>3
  <2>4. owner' \in {owner, Nobody} /\ owner' # lane'.who
    BY <2>1, <2>2, Distinct DEF ReleasedBy
  <2>5. owner' \in Precise => op'[owner'] = "running"
    BY <2>1, <2>4, Distinct DEF SettlingInv, SettledInv
  <2> QED BY <1>1, <2>1, <2>3, <2>4, <2>5 DEF SettlingInv, SettledInv, ChannelInv
<1>6. CASE Fails
  <2>1. PICK S :
          /\ op' = Settled(S, "failed") /\ waiting \in S
          /\ \A o \in S : \/ o = waiting
                         \/ \E i \in DOMAIN pending \ {1} : pending[i].op = o
    BY <1>6 DEF Fails
  <2>2. /\ pending # << >> /\ owner' \in {owner, Nobody} /\ lane'.pc = "seal"
        /\ lane'.who = pending[1].op
        /\ owner' # Nobody =>
             /\ owner' # waiting
             /\ \A i \in DOMAIN pending \ {1} :
                  pending[i].op = owner' => pending[i].kind = "neutral"
    BY <1>6 DEF Fails
  <2>3. pending[1].op \in Ops /\ 1 \in DOMAIN pending
    BY <2>2, FrontEntry
  <2>4. OnlyDirect \/ OnlyOwners
    BY <1>1 DEF ScheduledInv
  <2>5. op[pending[1].op] \notin {"new", "queued"}
    <3>1. CASE OnlyDirect
      BY <2>3, <3>1 DEF OnlyDirect, SettlingInv, SettledInv
    <3>2. CASE OnlyOwners
      BY <2>3, <3>2 DEF OnlyOwners, SettlingInv, SettledInv
    <3> QED BY <2>4, <3>1, <3>2
  <2>6. owner' \in Precise => owner' \notin S
    <3> SUFFICES ASSUME owner' \in Precise, owner' \in S PROVE FALSE
      OBVIOUS
    <3>1. owner' # Nobody /\ owner' = owner
      BY <2>2, Distinct
    <3>2. PICK i \in DOMAIN pending \ {1} : pending[i].op = owner
      BY <2>1, <2>2, <3>1
    <3>3. pending[i].kind = "neutral"
      BY <2>2, <3>1, <3>2
    <3>4. ~OnlyDirect
      BY <3>1, <3>2, Distinct DEF OnlyDirect
    <3>5. OnlyOwners
      BY <2>4, <3>4
    <3>6. Len(pending) \in Nat /\ i \in 1..Len(pending) /\ i # 1
      BY <3>2 DEF TypeOK
    <3>7. Len(pending) <= 2
      BY <3>5 DEF OnlyOwners
    <3>8. Len(pending) = 2 /\ i = 2
      <4>1. \A n \in Nat : \A k \in 1..n : k # 1 /\ n <= 2 => n = 2 /\ k = 2
        OBVIOUS
      <4> QED BY <3>6, <3>7, <4>1, Zenon
    <3>9. pending[2].kind # "neutral"
      BY <3>5, <3>8 DEF OnlyOwners
    <3> QED BY <3>3, <3>8, <3>9
  <2>7. \A o \in Ops : op'[o] = IF o \in S /\ ~IsTerminal(o) THEN "failed" ELSE op[o]
    BY <2>1, SettledOps
  <2>8. ASSUME NEW o \in S, o \in Ops PROVE op[o] # "queued"
    <3>1. CASE o = waiting
      BY <1>2, <2>8, <3>1
    <3>2. ASSUME NEW i \in DOMAIN pending, pending[i].op = o PROVE op[o] # "queued"
      <4>1. o \in PendingOps
        BY <2>8, <3>2, Distinct DEF PendingOps
      <4> QED BY <1>2, <2>8, <4>1
    <3> QED BY <2>1, <3>1, <3>2
  <2>9. \A o \in Ops : op[o] = "queued" => op'[o] = "queued"
    BY <2>7, <2>8
  <2>10. \A i \in DOMAIN inbox : inbox[i][1] = "sequence" => inbox[i][2] \in Ops
    <3> TAKE i \in DOMAIN inbox
    <3>1. inbox[i] \in Mail
      BY ElementOfSeq DEF TypeOK
    <3> QED BY <3>1, MailFields, Distinct
  <2>11. ChannelInv'
    BY <1>1, <2>9, <2>10, ChannelKept DEF SettlingInv
  <2>12. owner' \in Precise => op'[owner'] = "running"
    BY <2>2, <2>6, <2>7, Distinct DEF SettlingInv, SettledInv
  <2>13. \A d \in Direct : op'[d] \notin {"new", "queued"}
    BY <2>7, Distinct DEF SettlingInv, SettledInv
  <2>14. op'[lane'.who] \notin {"new", "queued"}
    BY <2>2, <2>3, <2>5, <2>7
  <2> QED BY <2>2, <2>11, <2>12, <2>13, <2>14 DEF SettlingInv, SettledInv
<1>7. CASE Frees
  <2>1. /\ op' = op /\ owner' = Nobody /\ lane.pc = "seal" /\ lane'.pc = "settle"
        /\ lane'.who = lane.who /\ lane.who \in Ops
    BY <1>7 DEF Frees, PlaceInv
  <2> QED BY <1>1, <2>1, Distinct DEF SettlingInv, SettledInv, ChannelInv
<1>5. CASE Handles /\ lane'.pc \notin {"seal", "settle"}
  <2>1. CASE Stays \/ Replaces \/ Advances \/ Cleans \/ Turns
    <3>1. op' = op /\ owner' \in {owner, Nobody}
      BY <2>1 DEF Stays, Replaces, Advances, Cleans, Turns, writers, ReleasedBy
    <3> QED BY <1>3, <1>5, <3>1
  <2>2. CASE Settles
    <3>1. /\ op' = Settled({lane.who}, lane.out) /\ owner' = owner
          /\ lane.out \in {"ok", "cancelled", "failed"}
          /\ owner # lane.who /\ op[lane.who] # "queued"
      BY <2>2, LaneFields DEF Settles, PlaceInv, SettlingInv, SettledInv, TypeOK
    <3> QED BY <1>1, <1>5, <3>1, SettlingKeeps
  <2>3. CASE Seals
    <3>1. op' = Settled(PendingOps \union {waiting}, "failed") /\ owner' = Nobody
      BY <2>3 DEF Seals
    <3>2. op' \in [Ops -> Outcomes]
      BY <3>1, SettledOps
    <3>3. \A o \in Ops : op'[o] = IF o \in PendingOps \union {waiting} /\ ~IsTerminal(o)
                                  THEN "failed" ELSE op[o]
      BY <3>1, SettledOps
    <3>4. ChannelInv'
      <4>1. \A i \in DOMAIN inbox : inbox[i][1] = "sequence" => inbox[i][2] \in Ops
        <5> TAKE i \in DOMAIN inbox
        <5>1. inbox[i] \in Mail
          BY ElementOfSeq DEF TypeOK
        <5> QED BY <5>1, MailFields, Distinct
      <4> QED BY <1>1, <1>2, <3>3, <4>1, ChannelKept DEF SettlingInv
    <3>5. \A d \in Direct : op'[d] \notin {"new", "queued"}
      BY <3>3, Distinct DEF SettlingInv, SettledInv
    <3> QED BY <1>5, <3>1, <3>4, <3>5, Distinct DEF SettlingInv, SettledInv
  <2>4. CASE Drops
    <3>1. op' = Settled(PendingOps \union {waiting}, "failed")
      BY <2>4 DEF Drops
    <3>2. owner' \in {owner, Nobody}
      BY <2>4 DEF Drops
    <3>3. \A o \in Ops : op'[o] = IF o \in PendingOps \union {waiting} /\ ~IsTerminal(o)
                                  THEN "failed" ELSE op[o]
      BY <3>1, SettledOps
    <3>4. owner' \in Precise => owner' \notin PendingOps \union {waiting}
      BY <2>4, Distinct DEF Drops
    <3>5. ChannelInv'
      <4>1. \A i \in DOMAIN inbox : inbox[i][1] = "sequence" => inbox[i][2] \in Ops
        <5> TAKE i \in DOMAIN inbox
        <5>1. inbox[i] \in Mail
          BY ElementOfSeq DEF TypeOK
        <5> QED BY <5>1, MailFields, Distinct
      <4> QED BY <1>1, <1>2, <3>3, <4>1, ChannelKept DEF SettlingInv
    <3>6. owner' \in Precise => op'[owner'] = "running"
      BY <3>2, <3>3, <3>4, Distinct DEF SettlingInv, SettledInv
    <3>7. \A d \in Direct : op'[d] \notin {"new", "queued"}
      BY <3>3, Distinct DEF SettlingInv, SettledInv
    <3> QED BY <1>5, <3>5, <3>6, <3>7 DEF SettlingInv, SettledInv
  <2> QED BY <1>5, <2>1, <2>2, <2>3, <2>4 DEF Handles
<1> QED
  BY <1>4, <1>5, <1>6, <1>7, ReportingEffects

(* What a sequence that is submitted, or an operation cancelled, changes. *)
LEMMA OutsideOps ==
  ASSUME TypeOK, Outside
  PROVE  \/ UNCHANGED op
         \/ \E s \in Precise :
              /\ op[s] = "new" /\ op'[s] \in {"failed", "cancelled", "queued"}
              /\ \A o \in Ops \ {s} : op'[o] = op[o]
              /\ \/ UNCHANGED inbox /\ op'[s] # "queued"
                 \/ Grows(<<"sequence", s>>) /\ op'[s] = "queued"
<1>1. ASSUME NEW s \in Precise, Submit(s)
      PROVE  /\ op[s] = "new" /\ op'[s] \in {"failed", "cancelled", "queued"}
             /\ \A o \in Ops \ {s} : op'[o] = op[o]
             /\ \/ UNCHANGED inbox /\ op'[s] # "queued"
                \/ Grows(<<"sequence", s>>) /\ op'[s] = "queued"
  <2>1. s \in Ops /\ op \in [Ops -> Outcomes] /\ op[s] = "new"
    BY <1>1, Distinct DEF TypeOK, Submit
  <2>2. \/ \E out \in {"failed", "cancelled"} :
             op' = [op EXCEPT ![s] = out] /\ UNCHANGED inbox
        \/ op' = [op EXCEPT ![s] = "queued"] /\ Send(<<"sequence", s>>)
    <3>1. CASE failed
      BY <1>1, <3>1 DEF Submit
    <3>2. CASE ~failed
      BY <1>1, <3>2 DEF Submit
    <3> QED BY <3>1, <3>2
  <2>3. Send(<<"sequence", s>>) => Grows(<<"sequence", s>>)
    BY SendGrows
  <2> QED BY <2>1, <2>2, <2>3
<1>2. CASE ~\E s \in Precise : Submit(s)
  BY <1>2 DEF Outside, vars, writers, CloseNext, CloseIntent, DrainAcquires, SettleAcquire,
              SendClose, Polling, Poll, TakeOutcome, PollAgain, AlarmFires, Request,
              Abandon, Release, CancelAcquirer, DeadlineReached, CancelOp
<1> QED
  BY <1>1, <1>2

(* Whoever is not the lane settles nothing that is in the channel. *)
LEMMA OutsideSettling ==
  ASSUME TypeOK, PlaceInv, SettlingInv, Outside PROVE SettlingInv'
<1>1. UNCHANGED <<lane, owner>>
  BY OutsideFrame
<1>2. CASE UNCHANGED op
  <2>1. ASSUME \/ UNCHANGED inbox
               \/ \E k : Grows(k) /\ k[1] # "sequence"
        PROVE  ChannelInv'
    BY <1>2, <2>1, ChannelKept DEF SettlingInv
  <2>2. ChannelInv'
    <3>1. ASSUME NEW s \in Precise, Submit(s) PROVE FALSE
      <4>1. s \in Ops /\ op \in [Ops -> Outcomes] /\ op[s] = "new"
        BY <3>1, Distinct DEF TypeOK, Submit
      <4>2. \E out \in {"failed", "cancelled", "queued"} : op' = [op EXCEPT ![s] = out]
        BY <3>1 DEF Submit
      <4> QED BY <1>2, <4>1, <4>2
    <3>2. /\ \A r \in Acquirers : /\ <<"acquire", r>>[1] # "sequence"
                                 /\ <<"begin", r>>[1] # "sequence"
          /\ <<"close", Nobody>>[1] # "sequence"
      OBVIOUS
    <3>3. \/ UNCHANGED inbox
          \/ \E k : Grows(k) /\ k[1] # "sequence"
      BY <3>1, <3>2, OutsideChannel
    <3> QED BY <2>1, <3>3
  <2> QED BY <1>1, <1>2, <2>2 DEF SettlingInv, SettledInv
<1>3. ASSUME NEW s \in Precise,
             /\ op[s] = "new" /\ op'[s] \in {"failed", "cancelled", "queued"}
             /\ \A o \in Ops \ {s} : op'[o] = op[o]
             /\ \/ UNCHANGED inbox /\ op'[s] # "queued"
                \/ Grows(<<"sequence", s>>) /\ op'[s] = "queued"
      PROVE  SettlingInv'
  <2>1. \A o \in Ops : op[o] # "new" => op'[o] = op[o]
    BY <1>3
  <2>2. SettledInv'
    <3>1. owner \in Ops /\ op[owner] = "running" => op'[owner] = "running"
      BY <2>1
    <3>2. \A d \in Direct : op'[d] = op[d]
      BY <2>1, Distinct DEF SettlingInv, SettledInv
    <3>3. lane.pc \in {"seal", "settle"} => lane.who \in Ops
      BY DEF PlaceInv
    <3> QED BY <1>1, <2>1, <3>1, <3>2, <3>3, Distinct DEF SettlingInv, SettledInv
  <2>3. \A i \in DOMAIN inbox : inbox[i][1] = "sequence" =>
          /\ inbox[i][2] # s /\ op'[inbox[i][2]] = "queued"
    <3> SUFFICES ASSUME NEW i \in DOMAIN inbox, inbox[i][1] = "sequence"
                 PROVE  inbox[i][2] # s /\ op'[inbox[i][2]] = "queued"
      OBVIOUS
    <3>1. op[inbox[i][2]] = "queued"
      BY DEF SettlingInv, ChannelInv
    <3>2. inbox[i][2] \in Ops
      <4>1. inbox[i] \in Mail
        BY ElementOfSeq DEF TypeOK
      <4> QED BY <4>1, MailFields, Distinct
    <3> QED BY <1>3, <2>1, <3>1, <3>2
  <2>4. CASE UNCHANGED inbox
    BY <2>2, <2>3, <2>4 DEF SettlingInv, ChannelInv
  <2>5. CASE Grows(<<"sequence", s>>) /\ op'[s] = "queued"
    <3>1. \A i \in DOMAIN inbox' : inbox'[i][1] = "sequence" => op'[inbox'[i][2]] = "queued"
      BY <2>3, <2>5 DEF Grows
    <3>2. ASSUME NEW i \in DOMAIN inbox', NEW j \in DOMAIN inbox',
                 inbox'[i][1] = "sequence", inbox'[i] = inbox'[j]
          PROVE  i = j
      <4>1. CASE i \in DOMAIN inbox /\ j \in DOMAIN inbox
        BY <2>5, <3>2, <4>1 DEF Grows, SettlingInv, ChannelInv
      <4>2. CASE i \notin DOMAIN inbox /\ j \notin DOMAIN inbox
        BY <2>5, <4>2 DEF Grows
      <4>3. ASSUME NEW m \in DOMAIN inbox, inbox'[m] = <<"sequence", s>> PROVE FALSE
        <5>1. inbox[m] = <<"sequence", s>>
          BY <2>5, <4>3 DEF Grows
        <5> QED BY <2>3, <5>1
      <4> QED BY <2>5, <3>2, <4>1, <4>2, <4>3 DEF Grows
    <3> QED BY <2>2, <3>1, <3>2 DEF SettlingInv, ChannelInv
  <2> QED BY <1>3, <2>4, <2>5
<1> QED
  BY <1>2, <1>3, OutsideOps

(* The sequence that the lane takes is refused or owns; none of it is left  *)
(* in the channel.                                                          *)
LEMMA TakeSequenceSettling ==
  ASSUME TypeOK, SettlingInv, TakeSequence PROVE SettlingInv'
<1>1. PICK s \in Precise :
        /\ inbox # << >> /\ inbox[1][1] = "sequence" /\ inbox[1][2] = s
        /\ inbox' = Tail(inbox)
        /\ \/ /\ UNCHANGED owner
              /\ \E out \in {"failed", "cancelled"} : op' = Settled({s}, out)
           \/ owner' = s /\ op' = [op EXCEPT ![s] = "running"]
  BY TakeSequenceStep
<1>2. s \in Ops /\ op[s] = "queued"
  BY <1>1, FirstCommand, Distinct DEF SettlingInv, ChannelInv
<1>3. lane'.pc = "top"
  BY GotoFields DEF TakeSequence, TypeOK, LanePcs
<1>4. /\ \A o \in Ops \ {s} : op'[o] = op[o]
      /\ op'[s] \in {"failed", "cancelled", "running"}
      /\ owner' = owner \/ (owner' = s /\ op'[s] = "running")
  <2>1. CASE op' = [op EXCEPT ![s] = "running"]
    BY <1>1, <1>2, <2>1 DEF TypeOK
  <2>2. ASSUME NEW out \in {"failed", "cancelled"}, op' = Settled({s}, out)
        PROVE  op'[s] = out /\ \A o \in Ops \ {s} : op'[o] = op[o]
    BY <1>2, <2>2, SettledOps DEF IsTerminal
  <2> QED BY <1>1, <2>1, <2>2
<1>5. \A k \in DOMAIN inbox' : k + 1 \in DOMAIN inbox /\ k \in Nat
                               /\ inbox'[k] = inbox[k + 1]
  BY <1>1, FirstCommand
<1>6. \A i \in DOMAIN inbox : inbox[i][1] = "sequence" /\ inbox[i][2] = s => i = 1
  <2> SUFFICES ASSUME NEW i \in DOMAIN inbox, inbox[i][1] = "sequence", inbox[i][2] = s
               PROVE  i = 1
    OBVIOUS
  <2>1. inbox[i] \in Mail /\ inbox[1] \in Mail /\ 1 \in DOMAIN inbox
    BY <1>1, FirstCommand, ElementOfSeq DEF TypeOK
  <2>2. \A k \in Mail : k[1] = "sequence" => k = <<"sequence", k[2]>>
    BY DEF Mail
  <2> QED BY <1>1, <2>1, <2>2 DEF SettlingInv, ChannelInv
<1>7. \A k \in DOMAIN inbox' : inbox'[k][1] = "sequence" =>
        inbox'[k][2] \in Ops \ {s} /\ op[inbox'[k][2]] = "queued"
  <2> SUFFICES ASSUME NEW k \in DOMAIN inbox', inbox'[k][1] = "sequence"
               PROVE  inbox'[k][2] \in Ops \ {s} /\ op[inbox'[k][2]] = "queued"
    OBVIOUS
  <2>1. k + 1 \in DOMAIN inbox /\ k \in Nat /\ k # 0 /\ inbox'[k] = inbox[k + 1]
    BY <1>1, <1>5, FirstCommand DEF TypeOK
  <2>2. k + 1 # 1
    BY <2>1
  <2>3. inbox[k + 1] \in Mail
    BY <2>1, ElementOfSeq DEF TypeOK
  <2>4. inbox[k + 1][2] \in Ops
    BY <2>1, <2>3, MailFields, Distinct
  <2> QED BY <1>6, <2>1, <2>2, <2>4 DEF SettlingInv, ChannelInv
<1>8. ChannelInv'
  <2>1. \A k \in DOMAIN inbox' : inbox'[k][1] = "sequence" => op'[inbox'[k][2]] = "queued"
    BY <1>4, <1>7
  <2>2. ASSUME NEW i \in DOMAIN inbox', NEW j \in DOMAIN inbox',
               inbox'[i][1] = "sequence", inbox'[i] = inbox'[j]
        PROVE  i = j
    <3>1. i + 1 = j + 1
      BY <1>5, <2>2 DEF SettlingInv, ChannelInv
    <3> QED BY <1>5, <3>1
  <2> QED BY <2>1, <2>2 DEF ChannelInv
<1>9. SettledInv'
  <2>1. owner' \in Precise => op'[owner'] = "running"
    BY <1>2, <1>4, Distinct DEF SettlingInv, SettledInv
  <2>2. \A d \in Direct : op'[d] \notin {"new", "queued"}
    BY <1>4, Distinct DEF SettlingInv, SettledInv
  <2> QED BY <1>3, <2>1, <2>2 DEF SettledInv
<1> QED
  BY <1>8, <1>9 DEF SettlingInv

(* Every step leaves each operation queued, on the schedule or settled.     *)
LEMMA SettlingKept ==
  ASSUME TypeOK, RecordInv, PlaceInv, GrantInv, ReleaseInv, ScheduledInv, SettlingInv,
         [Next]_vars
  PROVE  SettlingInv'
<1>1. CASE Outside
  BY <1>1, OutsideSettling
<1>2. CASE Resolving
  <2>1. UNCHANGED <<lane, op>> /\ owner' \in {owner} \union Acquirers
    BY <1>2, ResolvingFrame
  <2>2. \/ UNCHANGED inbox
        \/ \E r \in Acquirers : Grows(<<"begin", r>>)
    BY <1>2, ResolvingChannel
  <2>3. ChannelInv'
    <3>1. \A r : <<"begin", r>>[1] # "sequence"
      OBVIOUS
    <3>2. \/ UNCHANGED inbox
          \/ \E k : Grows(k) /\ k[1] # "sequence"
      BY <2>2, <3>1
    <3> QED BY <2>1, <3>2, ChannelKept DEF SettlingInv
  <2>4. lane.pc \in {"seal", "settle"} => lane.who \in Ops
    BY DEF PlaceInv
  <2>5. SettledInv'
    BY <2>1, <2>4, Distinct DEF SettlingInv, SettledInv
  <2> QED BY <2>3, <2>5 DEF SettlingInv
<1>3. CASE Reporting
  BY <1>3, EffectsSettling
<1>4. CASE Commands
  <2>1. lane'.pc \notin {"seal", "settle"} /\ lane.pc # "seal"
    BY <1>4, CommandPlaces
  <2>2. CASE TakeSequence
    BY <2>2, TakeSequenceSettling
  <2>3. CASE FinishClose
    <3>1. /\ inbox' = << >> /\ owner' = Nobody
      BY <2>3, FinishStep DEF PlaceInv
    <3>2. ChannelInv'
      BY <3>1 DEF ChannelInv
    <3>3. PICK out \in {"failed", "cancelled"} :
            op' = Settled({o \in Ops : op[o] # "new"}, out)
      BY <2>3, FinishStep
    <3>4. \A d \in Direct : op'[d] \notin {"new", "queued"}
      BY <3>3, SettledOps, Distinct DEF SettlingInv, SettledInv
    <3> QED BY <2>1, <3>1, <3>2, <3>4, Distinct DEF SettlingInv, SettledInv
  <2>4. CASE ~(TakeSequence \/ FinishClose)
    <3>1. op' = op /\ owner' \in {owner, Nobody}
      BY <1>4, <2>4 DEF Commands, WaitEnds, TakeAcquire, Acquire, TakeBegin, CloseLane,
                        Collect, FinalNeutral, writers, ReleasedBy
    <3>2. \/ UNCHANGED inbox
          \/ inbox # << >> /\ inbox' = Tail(inbox)
          \/ \E i \in DOMAIN inbox : inbox' = RemoveAt(inbox, i)
      BY <1>4, <2>4, CommandsChannel
    <3>3. ChannelInv'
      BY <3>1, <3>2, ChannelKept DEF SettlingInv
    <3>4. SettledInv'
      BY <2>1, <3>1, Distinct DEF SettlingInv, SettledInv
    <3> QED BY <3>3, <3>4 DEF SettlingInv
  <2> QED BY <2>2, <2>3, <2>4
<1> QED
  BY <1>1, <1>2, <1>3, <1>4, StepCases

-----------------------------------------------------------------------------
(* Who holds the lease                                                      *)

(* The lane alone is ever about to publish a grant. *)
Granting(r) == /\ resolver[Lane].r = r /\ resolver[Lane].out = "granted"
               /\ resolver[Lane].pc = "publish"
Offered(r)  == rec[r].st = "ready" /\ rec[r].out = "granted"
Holds(r)    == Granting(r) \/ Offered(r) \/ caller[r] = "holding"

(* A lease is held where its record, its caller or the lane says so.        *)
LEMMA HeldWhere ==
  /\ RecordInv => \A r \in Acquirers : Held(r) <=> Holds(r)
  /\ RecordInv' => \A r \in Acquirers : Held(r)' <=> Holds(r)'
<1>1. Lane \in Threads
  BY ThreadPlaces
<1>2. RecordInv => \A r \in Acquirers : Held(r) <=> Holds(r)
  BY <1>1 DEF RecordInv, ThreadInv, Held, Holds, Granting, Offered
<1>3. RecordInv' => \A r \in Acquirers : Held(r)' <=> Holds(r)'
  BY <1>1 DEF RecordInv, ThreadInv, Held, Holds, Granting, Offered
<1> QED BY <1>2, <1>3

(* A lease that is over is held by nobody. *)
LEMMA PastNotHeld ==
  ASSUME RecordInv, NEW r \in Acquirers, Past(r) PROVE ~Held(r)
<1>1. Lane \in Threads
  BY ThreadPlaces
<1>2. ~Granting(r)
  BY <1>1 DEF RecordInv, ThreadInv, Granting, Publishing, Past
<1>3. ~Offered(r) /\ caller[r] # "holding"
  BY DEF Past, Offered
<1> QED
  BY <1>2, <1>3, HeldWhere DEF Holds

(* A lease that is held stays held, or goes into the lane's channel.        *)
LEMMA HeldAfter ==
  ASSUME TypeOK, RecordInv, RecordInv', PlaceInv, [Next]_vars, ~failed,
         lane.pc # "ended", NEW r \in Acquirers, Held(r)
  PROVE  Held(r)' \/ <<"begin", r>> \in ToSet(inbox')
<1> DEFINE Sent == <<"begin", r>> \in ToSet(inbox')
<1>1. Seal(r) => Sent
  BY SealGrows DEF Grows, ToSet
<1>2. Holds(r) /\ (Holds(r)' => Held(r)')
  BY HeldWhere
<1>3. Lane \in Threads
  BY ThreadPlaces
<1> SUFFICES Holds(r)' \/ Sent
  BY <1>2
<1> HIDE DEF Sent
<1>4. CASE Resolving
  <2>1. PICK t \in Threads : Reserve(t) \/ Publish(t)
    BY <1>4 DEF Resolving
  <2>2. resolver[t].r \in Acquirers /\ caller' = caller
    BY <2>1 DEF RecordInv, ThreadInv, Reserve, Publish
  <2>3. CASE caller[r] = "holding"
    BY <2>2, <2>3 DEF Holds
  <2>4. CASE Offered(r)
    <3>1. rec'[r] = rec[r]
      <4>1. CASE Reserve(t)
        BY <2>2, <2>4, <4>1, ReserveStep DEF Offered
      <4>2. CASE Publish(t)
        <5>1. resolver[t].r # r
          BY <2>4, <4>2 DEF Publish, Publishing, RecordInv, ThreadInv, Offered
        <5> QED BY <2>2, <4>2, <5>1, PublishStep
      <4> QED BY <2>1, <4>1, <4>2
    <3> QED BY <2>4, <3>1 DEF Holds, Offered
  <2>5. CASE Granting(r)
    <3>1. CASE t # Lane
      <4>1. resolver'[Lane] = resolver[Lane]
        BY <1>3, <2>1, <2>2, <3>1, ReserveStep, PublishStep
      <4> QED BY <2>5, <4>1 DEF Holds, Granting
    <3>2. CASE t = Lane
      <4>1. Publish(t) /\ resolver[t].r = r /\ resolver[t].out = "granted"
        BY <2>1, <2>5, <3>2 DEF Reserve, Granting
      <4>2. CASE rec[r].st = "leaving"
        <5>1. Seal(r)
          BY <2>2, <4>1, <4>2, PublishStep
        <5> QED BY <1>1, <5>1
      <4>3. CASE rec[r].st # "leaving"
        <5>1. Offered(r)'
          BY <2>2, <4>1, <4>3, PublishStep DEF Offered
        <5> QED BY <5>1 DEF Holds
      <4> QED BY <4>2, <4>3
    <3> QED BY <3>1, <3>2
  <2> QED BY <1>2, <2>3, <2>4, <2>5 DEF Holds
<1>5. ASSUME UNCHANGED <<rec, caller>>, resolver'[Lane] = resolver[Lane]
      PROVE  Holds(r)' \/ Sent
  BY <1>2, <1>5 DEF Holds, Granting, Offered
<1>6. CASE Reporting
  BY <1>5, <1>6, ReportingFrame DEF future
<1>7. CASE Commands
  <2>1. UNCHANGED <<rec, caller>>
    BY <1>7 DEF Commands, WaitEnds, TakeAcquire, Acquire, TakeBegin, TakeSequence,
                CloseLane, Collect, FinalNeutral, FinishClose, future
  <2>2. ~Granting(r)
    BY <1>7, CommandPlaces DEF Granting
  <2> QED BY <1>2, <2>1, <2>2 DEF Holds, Offered
<1>8. CASE Outside
  <2>1. resolver'[Lane] = resolver[Lane]
    BY <1>8, OutsideFrame
  <2>2. CASE UNCHANGED vars \/ CloseNext \/ CloseIntent
             \/ (\E s \in Precise : Submit(s)) \/ \E o \in Ops : CancelOp(o)
    BY <1>5, <2>1, <2>2 DEF vars, CloseNext, CloseIntent, DrainAcquires, SettleAcquire,
                            SendClose, Submit, CancelOp, future
  <2>3. ASSUME NEW q \in Acquirers,
               \/ Polling(q) \/ Request(q) \/ Abandon(q) \/ Release(q)
               \/ CancelAcquirer(q) \/ DeadlineReached(q)
        PROVE  Holds(r)' \/ Sent
    <3>1. CASE q # r
      <4>1. rec'[r] = rec[r] /\ caller'[r] = caller[r]
        BY <2>3, <3>1, OtherAcquirers
      <4> QED BY <1>2, <2>1, <4>1 DEF Holds, Granting, Offered
    <3>2. CASE q = r /\ Granting(r)
      BY <2>1, <3>2 DEF Holds, Granting
    <3>3. CASE q = r /\ ~Granting(r)
      <4>0. Offered(r) \/ caller[r] = "holding"
        BY <1>2, <3>3 DEF Holds
      <4>1. ~Request(r)
        BY <4>0, RequestStep DEF RecordInv, CallerInv, Offered
      <4>2. CASE Release(r)
        BY <1>1, <4>2 DEF Release
      <4>3. CASE TakeOutcome(r)
        <5>1. Offered(r)
          BY <4>0, <4>3 DEF TakeOutcome, CallerIs
        <5>2. "holding" \in Callers /\ CallerTo(r, "holding")
          BY <4>3, <5>1, TakeOutcomeStep DEF Offered, Callers
        <5> QED BY <5>2, CallerType DEF Holds
      <4>4. CASE Abandon(r)
        <5>1. Seal(r)
          BY <4>0, <4>4, AbandonStep DEF Offered
        <5> QED BY <1>1, <5>1
      <4>5. CASE Poll(r) \/ PollAgain(r)
        <5>1. Offered(r) /\ rec' = rec
          BY <4>0, <4>5 DEF Poll, PollAgain, CallerIs
        <5> QED BY <5>1 DEF Holds, Offered
      <4>6. CASE AlarmFires(r) \/ CancelAcquirer(r) \/ DeadlineReached(r)
        BY <1>5, <2>1, <4>6 DEF AlarmFires, CancelAcquirer, DeadlineReached, future
      <4> QED BY <2>3, <3>3, <4>1, <4>2, <4>3, <4>4, <4>5, <4>6 DEF Polling
    <3> QED BY <3>1, <3>2, <3>3
  <2> QED BY <1>8, <2>2, <2>3 DEF Outside
<1> QED
  BY <1>4, <1>6, <1>7, <1>8, StepCases

(* A lease that is held was held, or the lane granted it when nobody owned. *)
LEMMA HeldBefore ==
  ASSUME TypeOK, RecordInv, RecordInv', PlaceInv, GrantInv, [Next]_vars,
         NEW r \in Acquirers, Held(r)'
  PROVE  Held(r) \/ (owner = Nobody /\ owner' = r)
<1>1. Holds(r)' /\ (Holds(r) => Held(r))
  BY HeldWhere
<1>2. Lane \in Threads
  BY ThreadPlaces
<1> SUFFICES Holds(r) \/ (owner = Nobody /\ owner' = r)
  BY <1>1
<1>3. CASE Resolving
  <2>1. PICK t \in Threads : Reserve(t) \/ Publish(t)
    BY <1>3 DEF Resolving
  <2>2. resolver[t].r \in Acquirers /\ caller' = caller
    BY <2>1 DEF RecordInv, ThreadInv, Reserve, Publish
  <2>3. CASE caller'[r] = "holding"
    BY <2>2, <2>3 DEF Holds
  <2>4. CASE Granting(r)'
    <3>1. CASE t # Lane
      <4>1. resolver'[Lane] = resolver[Lane]
        BY <1>2, <2>1, <2>2, <3>1, ReserveStep, PublishStep
      <4> QED BY <2>4, <4>1 DEF Holds, Granting
    <3>2. CASE t = Lane
      <4>1. resolver'[t].pc = "publish" /\ resolver'[t].out = "granted"
            /\ resolver'[t].r = r
        BY <2>4, <3>2 DEF Granting
      <4>2. ~Publish(t)
        BY <2>2, <4>1, PublishStep
      <4>3. /\ Reserve(t) /\ resolver[t].out = "granted" /\ owner' = r
        BY <2>1, <2>2, <4>1, <4>2, ReserveStep
      <4>4. owner = Nobody
        BY <3>2, <4>3 DEF Reserve, GrantInv, Idle
      <4> QED BY <4>3, <4>4
    <3> QED BY <3>1, <3>2
  <2>5. CASE Offered(r)'
    <3>1. CASE rec'[r] = rec[r]
      BY <2>5, <3>1 DEF Holds, Offered
    <3>2. CASE rec'[r] # rec[r]
      <4>1. ~Reserve(t)
        BY <2>2, <2>5, <3>2, ReserveStep DEF Offered
      <4>2. /\ Publish(t) /\ resolver[t].r = r /\ resolver[t].out = "granted"
            /\ resolver[t].pc = "publish"
        BY <2>1, <2>2, <2>5, <3>2, <4>1, PublishStep DEF Offered
      <4>3. t = Lane
        BY <4>2 DEF RecordInv, ThreadInv
      <4> QED BY <4>2, <4>3 DEF Holds, Granting
    <3> QED BY <3>1, <3>2
  <2> QED BY <1>1, <2>3, <2>4, <2>5 DEF Holds
<1>4. ASSUME UNCHANGED <<rec, caller>>,
             resolver'[Lane].pc = "publish" => resolver'[Lane] = resolver[Lane]
      PROVE  Holds(r)
  BY <1>1, <1>4 DEF Holds, Granting, Offered
<1>5. CASE Reporting
  BY <1>4, <1>5, ReportingFrame DEF future
<1>6. CASE Commands
  <2>1. UNCHANGED <<rec, caller>>
    BY <1>6 DEF Commands, WaitEnds, TakeAcquire, Acquire, TakeBegin, TakeSequence,
                CloseLane, Collect, FinalNeutral, FinishClose, future
  <2>2. resolver'[Lane].pc = "publish" => resolver'[Lane] = resolver[Lane]
    <3>1. CASE Acquire
      BY <3>1, AcquireStep
    <3>2. CASE TakeAcquire \/ Collect
      BY <3>2, LaneResolves DEF Starts
    <3>3. CASE ~(Acquire \/ TakeAcquire \/ Collect)
      BY <1>6, <3>3 DEF Commands, WaitEnds, TakeBegin, TakeSequence, CloseLane,
                        FinalNeutral, FinishClose
    <3> QED BY <3>1, <3>2, <3>3
  <2> QED BY <1>4, <2>1, <2>2
<1>7. CASE Outside
  <2>1. resolver'[Lane] = resolver[Lane]
    BY <1>7, OutsideFrame
  <2>2. CASE UNCHANGED vars \/ CloseNext \/ CloseIntent
             \/ (\E s \in Precise : Submit(s)) \/ \E o \in Ops : CancelOp(o)
    BY <1>4, <2>1, <2>2 DEF vars, CloseNext, CloseIntent, DrainAcquires, SettleAcquire,
                            SendClose, Submit, CancelOp, future
  <2>3. ASSUME NEW q \in Acquirers,
               \/ Polling(q) \/ Request(q) \/ Abandon(q) \/ Release(q)
               \/ CancelAcquirer(q) \/ DeadlineReached(q)
        PROVE  Holds(r)
    <3>1. CASE q # r
      <4>1. rec'[r] = rec[r] /\ caller'[r] = caller[r]
        BY <2>3, <3>1, OtherAcquirers
      <4> QED BY <1>1, <2>1, <4>1 DEF Holds, Granting, Offered
    <3>2. CASE q = r /\ Granting(r)'
      BY <2>1, <3>2 DEF Holds, Granting
    <3>3. CASE q = r /\ ~Granting(r)'
      <4>0. /\ Offered(r)' \/ caller'[r] = "holding"
            /\ {"poll", "take", "waiting", "gone", "done", "holding"} \subseteq Callers
        BY <1>1, <3>3 DEF Holds, Callers
      <4>1. CASE Request(r)
        BY <4>0, <4>1, RequestStep, CallerType DEF Offered
      <4>2. CASE Release(r)
        BY <4>2 DEF Release, Holds
      <4>3. CASE TakeOutcome(r)
        BY <4>0, <4>3, TakeOutcomeStep, CallerType DEF Holds, Offered
      <4>4. CASE Abandon(r)
        BY <4>0, <4>4, AbandonStep, CallerType DEF Offered
      <4>5. CASE Poll(r) \/ PollAgain(r)
        <5>1. rec' = rec /\ caller'[r] # "holding"
          BY <4>0, <4>5, CallerType DEF Poll, PollAgain
        <5> QED BY <4>0, <5>1 DEF Holds, Offered
      <4>6. CASE AlarmFires(r) \/ CancelAcquirer(r) \/ DeadlineReached(r)
        BY <1>4, <2>1, <4>6 DEF AlarmFires, CancelAcquirer, DeadlineReached, future
      <4> QED BY <2>3, <3>3, <4>1, <4>2, <4>3, <4>4, <4>5, <4>6 DEF Polling
    <3> QED BY <3>1, <3>2, <3>3
  <2> QED BY <1>7, <2>2, <2>3 DEF Outside
<1> QED
  BY <1>3, <1>5, <1>6, <1>7, StepCases

(* The lane becomes owned by a lease only as it grants it. *)
LEMMA OwnerComes ==
  ASSUME TypeOK, RecordInv, RecordInv', PlaceInv, [Next]_vars,
         NEW r \in Acquirers, owner # r, owner' = r
  PROVE  Held(r)'
<1>1. CASE Outside
  BY <1>1, OutsideFrame
<1>2. CASE Reporting
  <2>1. owner' \in {owner, Nobody}
    <3>1. Fails \/ Frees => owner' \in {owner, Nobody}
      BY DEF Fails, Frees
    <3> QED BY <1>2, <3>1, ReportingEffects
         DEF Handles, Stays, Replaces, Advances, Ends, Settles, Seals, Drops, Cleans,
             Turns, writers, ReleasedBy
  <2> QED BY <2>1, Distinct
<1>3. CASE Commands
  <2>1. owner' \in {owner, Nobody} \union Precise
    <3>1. CASE TakeSequence
      BY <3>1, TakeSequenceStep
    <3>2. CASE ~TakeSequence
      BY <1>3, <3>2 DEF Commands, WaitEnds, TakeAcquire, Acquire, TakeBegin, CloseLane,
                        Collect, FinalNeutral, FinishClose, writers, ReleasedBy
    <3> QED BY <3>1, <3>2
  <2> QED BY <2>1, Distinct
<1>4. CASE Resolving
  <2>1. /\ resolver[Lane].out = "granted" /\ resolver[Lane].r = r
        /\ resolver'[Lane] = [resolver[Lane] EXCEPT !.pc = "publish"]
    BY <1>4, ResolvingFrame
  <2>2. resolver[Lane] \in Jobs
    BY ThreadPlaces DEF TypeOK
  <2>3. Granting(r)'
    BY <2>1, <2>2 DEF Granting, Jobs
  <2> QED BY <2>3, HeldWhere DEF Holds
<1> QED
  BY <1>1, <1>2, <1>3, <1>4, StepCases

(* It is free of a lease only when that is over, the lane fails or closes.  *)
LEMMA OwnerLeaves ==
  ASSUME TypeOK, RecordInv, PlaceInv, GrantInv, ReleaseInv, ScheduledInv, [Next]_vars,
         NEW r \in Acquirers, owner = r, owner' # r
  PROVE  Past(r) \/ failed' \/ lane'.pc = "finish"
<1>0. r # Nobody /\ r \notin Ops
  BY Distinct
<1>1. CASE Outside
  BY <1>1, OutsideFrame
<1>2. CASE Resolving
  BY <1>0, <1>2, ResolvingFrame DEF GrantInv, Idle
<1>3. CASE Reporting
  <2>1. pending = << >> /\ waiting = Nobody
    BY DEF ScheduledInv
  <2>2. r \notin PendingOps \union {waiting}
    BY <1>0, <2>1 DEF PendingOps
  <2>3. CASE Ends
    BY <2>1, <2>3 DEF Ends
  <2>4. CASE Stays \/ Replaces \/ Advances \/ Settles \/ Turns \/ Drops
    BY <2>2, <2>4 DEF Stays, Replaces, Advances, Settles, Turns, Drops, writers
  <2>5. CASE Seals
    BY <2>5 DEF Seals
  <2>6. CASE Cleans
    <3>1. cleanup = r
      BY <2>6 DEF Cleans, ReleaseInv
    <3> QED BY <3>1 DEF BeingReleased, ReleaseInv
  <2>7. CASE Fails \/ Frees
    BY <2>1, <2>7 DEF Fails, Frees, ScheduledInv
  <2> QED BY <1>3, <2>3, <2>4, <2>5, <2>6, <2>7, ReportingEffects DEF Handles
<1>4. CASE Commands
  <2>1. CASE TakeSequence
    BY <1>0, <2>1, TakeSequenceStep
  <2>2. CASE FinalNeutral
    BY <2>2, GotoFields DEF FinalNeutral, TypeOK, LanePcs
  <2>3. CASE TakeBegin
    BY <1>0, <2>3 DEF TakeBegin, PlaceInv, Take, At
  <2>4. CASE ~(TakeSequence \/ FinalNeutral \/ TakeBegin)
    BY <1>4, <2>4 DEF Commands, WaitEnds, TakeAcquire, Acquire, CloseLane, Collect,
                      FinishClose, writers
  <2> QED BY <2>1, <2>2, <2>3, <2>4
<1> QED
  BY <1>1, <1>2, <1>3, <1>4, StepCases

(* A lease on its way back stays on it while it owns the lane. *)
LEMMA ReturnKept ==
  ASSUME TypeOK, RecordInv, PlaceInv, ReleaseInv, ScheduledInv, [Next]_vars,
         NEW r \in Acquirers, owner = r, owner' = r, BeingReleased(r)
  PROVE  BeingReleased(r)'
<1>0. r # Nobody /\ ~failed /\ lane.pc \notin {"finish", "ended"}
  BY Distinct DEF PlaceInv, ScheduledInv
<1>1. CASE Outside \/ Resolving
  <2>1. cleanup' = cleanup
    BY <1>1, OutsideFrame, ResolvingFrame
  <2>2. UNCHANGED inbox \/ \E k : Grows(k)
    BY <1>1, OutsideChannel, ResolvingChannel
  <2>3. <<"begin", r>> \in ToSet(inbox) => <<"begin", r>> \in ToSet(inbox')
    BY <2>2, BegunAfter
  <2> QED BY <2>1, <2>3 DEF BeingReleased
<1>2. CASE Reporting
  <2>1. inbox' = inbox
    BY <1>2, ReportingFrame
  <2>2. cleanup' = cleanup
    <3>1. ~Fails /\ ~Frees
      BY <1>0 DEF Fails, Frees, ScheduledInv
    <3> QED BY <1>0, <1>2, <3>1, ReportingEffects
         DEF Handles, Stays, Replaces, Advances, Ends, Settles, Seals, Drops, Cleans,
             Turns, writers, ReleasedBy, ReleaseInv
  <2> QED BY <2>1, <2>2 DEF BeingReleased
<1>3. CASE Commands
  <2>1. cleanup = r => cleanup' = r
    BY <1>0, <1>3 DEF Commands, WaitEnds, TakeAcquire, Acquire, TakeBegin, TakeSequence,
                      CloseLane, Collect, FinalNeutral, FinishClose, writers, Collected
  <2>2. CASE <<"begin", r>> \in ToSet(inbox)
    <3>0. ~FinishClose
      BY <1>0 DEF FinishClose, At
    <3>1. \/ <<"begin", r>> \in ToSet(inbox')
          \/ inbox # << >> /\ inbox' = Tail(inbox) /\ inbox[1] = <<"begin", r>>
      BY <1>3, <2>2, <3>0, BegunAfter, CommandsChannel
    <3>2. CASE inbox # << >> /\ inbox' = Tail(inbox) /\ inbox[1] = <<"begin", r>>
      <4>1. inbox[1][1] = "begin" /\ inbox[1][2] = r /\ inbox' # inbox
        <5>1. Len(Tail(inbox)) # Len(inbox)
          BY <3>2 DEF TypeOK
        <5> QED BY <3>2, <5>1
      <4>2. CASE TakeBegin
        <5>1. cleanup' = Collected(r)
          BY <1>0, <4>1, <4>2 DEF TakeBegin
        <5> QED BY <5>1 DEF Collected, ReleaseInv, BeingReleased
      <4>3. CASE Collect
        <5>1. cleanup' = Collected(r)
          BY <4>1, <4>3 DEF Collect
        <5> QED BY <5>1 DEF Collected, ReleaseInv, BeingReleased
      <4>4. CASE CloseLane
        <5>1. ~Take("close")
          BY <4>1 DEF Take
        <5>2. PICK i \in DOMAIN inbox : inbox[i][1] = "close" /\ inbox' = RemoveAt(inbox, i)
          BY <4>4, <5>1 DEF CloseLane
        <5>3. <<"begin", r>> \in ToSet(inbox')
          BY <2>2, <5>2, BegunAfter
        <5> QED BY <5>3 DEF BeingReleased
      <4>5. CASE ~(TakeBegin \/ Collect \/ CloseLane)
        BY <1>3, <3>0, <4>1, <4>5
           DEF Commands, WaitEnds, TakeAcquire, Acquire, TakeSequence, FinalNeutral, Take
      <4> QED BY <4>2, <4>3, <4>4, <4>5
    <3> QED BY <3>1, <3>2 DEF BeingReleased
  <2> QED BY <2>1, <2>2 DEF BeingReleased
<1> QED
  BY <1>1, <1>2, <1>3, StepCases

(* What failed, or closed its transport, stays so. *)
LEMMA EndStays ==
  ASSUME TypeOK, RecordInv, PlaceInv, [Next]_vars
  PROVE  /\ failed => failed'
         /\ lane.pc \in {"finish", "ended"} => lane'.pc \in {"finish", "ended"}
<1>1. CASE Outside \/ Resolving
  BY <1>1, OutsideFrame, ResolvingFrame
<1>2. CASE Reporting
  <2>1. lane.pc \notin {"finish", "ended"}
    BY <1>2, ReportingPlaces DEF Working
  <2>2. failed' = failed \/ failed' = TRUE
    <3>1. Fails \/ Frees => failed' = failed \/ failed' = TRUE
      BY DEF Fails, Frees
    <3> QED BY <1>2, <3>1, ReportingEffects
         DEF Handles, Stays, Replaces, Advances, Ends, Settles, Seals, Drops, Cleans,
             Turns
  <2>3. failed => failed'
    BY <2>2, Zenon
  <2> QED BY <2>1, <2>3
<1>3. CASE Commands
  <2>1. CASE FinishClose
    BY <2>1, FinishStep, GotoFields DEF TypeOK, LanePcs
  <2>2. CASE ~FinishClose
    <3>1. failed' = failed
      BY <1>3, <2>2 DEF Commands, WaitEnds, TakeAcquire, Acquire, TakeBegin, TakeSequence,
                        CloseLane, Collect, FinalNeutral, port
    <3>2. lane.pc \notin {"finish", "ended"}
      BY <1>3, <2>2 DEF Commands, WaitEnds, TakeAcquire, Acquire, TakeBegin, TakeSequence,
                        CloseLane, Collect, FinalNeutral, Take, At
    <3> QED BY <3>1, <3>2
  <2> QED BY <2>1, <2>2
<1> QED
  BY <1>1, <1>2, <1>3, StepCases

(* Every step leaves the Controller with one holder, who owns it or hands   *)
(* it back.                                                                 *)
LEMMA HolderKept ==
  ASSUME Inv, RecordInv', ScheduledInv', [Next]_vars PROVE LeaseHasOneHolder'
<1> USE DEF Inv
<1>1. ASSUME NEW r \in Acquirers, owner' = r
      PROVE  Held(r)' \/ BeingReleased(r)'
  <2>1. CASE owner # r
    BY <1>1, <2>1, OwnerComes
  <2>2. CASE owner = r
    <3>1. ~failed /\ lane.pc # "ended"
      BY <2>2, Distinct DEF PlaceInv, ScheduledInv
    <3>2. Held(r) \/ BeingReleased(r)
      BY <2>2 DEF LeaseHasOneHolder
    <3>3. Held(r) => Held(r)' \/ BeingReleased(r)'
      BY <3>1, HeldAfter DEF BeingReleased
    <3>4. BeingReleased(r) => BeingReleased(r)'
      BY <1>1, <2>2, ReturnKept
    <3> QED BY <3>2, <3>3, <3>4
  <2> QED BY <2>1, <2>2
<1>2. ASSUME NEW r \in Acquirers, Held(r)', ~failed',
             lane'.pc \notin {"finish", "ended"}, owner' # r
      PROVE  FALSE
  <2>1. Held(r)
    BY <1>2, HeldBefore
  <2>2. ~failed /\ lane.pc \notin {"finish", "ended"}
    BY <1>2, EndStays
  <2>3. owner = r
    BY <2>1, <2>2 DEF LeaseHasOneHolder
  <2>4. Past(r)
    BY <1>2, <2>3, OwnerLeaves
  <2> QED BY <2>1, <2>4, PastNotHeld
<1>3. owner' \in Acquirers => pending' = << >> /\ waiting' = Nobody
  BY DEF ScheduledInv
<1> QED
  BY <1>1, <1>2, <1>3 DEF LeaseHasOneHolder

-----------------------------------------------------------------------------
(* The theorems                                                             *)

(* The invariant holds at the start.                                        *)
LEMMA InitInv == Init => Inv
<1> SUFFICES ASSUME Init PROVE Inv
  OBVIOUS
<1>1. TypeOK
  BY InitType
<1>2. \A t \in Threads : resolver[t].pc = "free" /\ resolver[t].out = "none"
  BY DEF Init, Free
<1>3. /\ \A r \in Acquirers : rec[r].st = "none" /\ rec[r].out = "none"
                              /\ caller[r] = "idle"
      /\ inbox = << >> /\ owner = Nobody /\ cleanup = Nobody /\ waiting = Nobody
      /\ lane.pc = "top" /\ failed = FALSE
  BY DEF Init
<1>4. pending \in Seq(Entries) /\ OnlyDirect
  <2> DEFINE D == {Report(d, "direct") : d \in Direct}
  <2>1. IsFiniteSet(D)
    <3> DEFINE f == [d \in Direct |-> Report(d, "direct")]
    <3>1. f \in Surjection(Direct, D)
      BY DEF Surjection
    <3>2. IsFiniteSet(Direct)
      BY LeaseAssumption
    <3> QED BY <3>1, <3>2, FS_Surjection
  <2>2. pending \in Seq(D)
    BY <2>1, SequenceOfSet DEF Init
  <2>3. \A i \in DOMAIN pending : pending[i] \in D
    BY <2>2, ElementOfSeq
  <2>4. OnlyDirect
    BY <2>3 DEF OnlyDirect, Report
  <2> QED BY <1>1, <2>4 DEF TypeOK
<1>5. \A o \in Ops : op[o] = IF o \in Direct THEN "running" ELSE "new"
  BY DEF Init
<1>6. RecordInv /\ PlaceInv /\ GrantInv
  BY <1>2, <1>3, ThreadPlaces
     DEF RecordInv, ThreadInv, CallerInv, Publishing, PlaceInv, GrantInv
<1>7. ReleaseInv /\ ScheduledInv
  BY <1>3, <1>4, Distinct DEF ReleaseInv, BeingReleased, ToSet, ScheduledInv
<1>8. SettlingInv
  BY <1>3, <1>5, Distinct DEF SettlingInv, ChannelInv, SettledInv
<1>9. LeaseHasOneHolder
  BY <1>2, <1>3, Distinct DEF LeaseHasOneHolder, Held
<1> QED
  BY <1>1, <1>6, <1>7, <1>8, <1>9 DEF Inv

(* Every step keeps the invariant: each part from the parts before it.      *)
LEMMA InvKept == Inv /\ [Next]_vars => Inv'
<1> SUFFICES ASSUME Inv, [Next]_vars PROVE Inv'
  OBVIOUS
<1>1. /\ TypeOK /\ RecordInv /\ PlaceInv /\ GrantInv /\ ReleaseInv /\ ScheduledInv
      /\ SettlingInv
  BY DEF Inv
<1>2. TypeOK' /\ RecordInv' /\ PlaceInv' /\ GrantInv'
  BY <1>1, TypeKept, RecordKept, PlaceKept, GrantKept
<1>3. ReleaseInv' /\ ScheduledInv' /\ SettlingInv'
  BY <1>1, ReleaseKept, ScheduledKept, SettlingKept
<1>4. LeaseHasOneHolder'
  BY <1>2, <1>3, HolderKept
<1> QED
  BY <1>2, <1>3, <1>4 DEF Inv

(* Whatever the acquirers, the sequences, the signals and the failures: the *)
(* records, the lane and what it has scheduled always agree.                *)
THEOREM Invariance == Spec => []Inv
BY InitInv, InvKept, PTL DEF Spec

(* Every variable keeps the values that the code's types give it. *)
THEOREM TypeCorrect == Spec => []TypeOK
<1>1. Inv => TypeOK
  BY DEF Inv
<1> QED
  BY <1>1, Invariance, PTL

(* The Controller is never left leased to nobody, and never serves a second *)
(* one while a lease is held.                                               *)
THEOREM LeaseHeldOnce == Spec => []LeaseHasOneHolder
<1>1. Inv => LeaseHasOneHolder
  BY DEF Inv
<1> QED
  BY <1>1, Invariance, PTL

(* No two callers hold leases of one Controller that works.                *)
HoldersExclude ==
  \A r, q \in Acquirers :
    Held(r) /\ Held(q) /\ ~failed /\ lane.pc \notin {"finish", "ended"} => r = q

(* While the lane works, two callers never both hold a lease.               *)
THEOREM HoldersAreAlone == Spec => []HoldersExclude
<1>1. Inv => HoldersExclude
  BY DEF Inv, LeaseHasOneHolder, HoldersExclude
<1> QED
  BY <1>1, Invariance, PTL

(* A sequence writes only while it owns, and owns nothing once it ended. *)
THEOREM EndReleases == Spec => []EndedMeansReleased
<1>1. ASSUME Inv PROVE EndedMeansReleased
  <2>1. ScheduledInv /\ SettledInv
    BY <1>1 DEF Inv, SettlingInv
  <2> SUFFICES ASSUME NEW s \in Precise
               PROVE  /\ owner = s => op[s] = "running"
                      /\ Writing(s) /\ lane.pc \notin {"finish", "ended"} => owner = s
    BY DEF EndedMeansReleased
  <2>2. owner = s => op[s] = "running"
    BY <2>1 DEF SettledInv
  <2>3. ASSUME Writing(s), lane.pc \notin {"finish", "ended"} PROVE owner = s
    <3>1. CASE waiting = s
      BY <2>1, <2>3, <3>1, Distinct DEF ScheduledInv
    <3>2. CASE s \in PendingOps
      <4>1. PICK i \in DOMAIN pending : pending[i].op = s
        BY <3>2 DEF PendingOps
      <4>2. ~OnlyDirect
        BY <4>1, Distinct DEF OnlyDirect
      <4> QED BY <2>1, <2>3, <4>1, <4>2 DEF ScheduledInv, OnlyOwners
    <3> QED BY <2>3, <3>1, <3>2 DEF Writing
  <2> QED BY <2>2, <2>3
<1> QED
  BY <1>1, Invariance, PTL

(* What is over stays over: a lease that was given back or abandoned is     *)
(* never held again, whoever still resolves its record.                     *)
PastForever == \A r \in Acquirers : Past(r) => Past(r)'

(* Whatever resolves its record, a lease that is over is not held again.    *)
THEOREM PastIsForGood == Spec => [][PastForever]_vars
<1>1. Inv /\ [Next]_vars => [PastForever]_vars
  BY PastStays DEF Inv, PastForever
<1> QED
  BY <1>1, Invariance, PTL DEF Spec

-----------------------------------------------------------------------------
(* Who waits, and for whom.                                                  *)

Reserving(t, r) == resolver[t].pc = "reserve" /\ resolver[t].r = r
Asked(r) == <<"acquire", r>> \in ToSet(inbox)

(* A record somebody is to resolve: the request is in the lane's channel or  *)
(* its hands, or a thread is about to reserve the record.                    *)
Attended(r) ==
  Asked(r) \/ (lane.pc = "acquire" /\ lane.who = r) \/ \E t \in Threads : Reserving(t, r)

(* A record that is open is attended to; one that is being resolved has its  *)
(* resolver; the caller that waits has its waker there until it is called.   *)
AnswerInv ==
  \A r \in Acquirers :
    /\ caller[r] \in {"poll", "take", "waiting"} => rec[r].st \in {"pending", "resolving", "ready"}
    /\ rec[r].st = "pending" => Attended(r)
    /\ rec[r].st \in {"resolving", "leaving"} => \E t \in Threads : Publishing(t, r)
    /\ caller[r] = "waiting" /\ r \notin awake =>
         rec[r].st \in {"pending", "resolving"} /\ rec[r].waker

(* The threads of a caller and of its token's hook work on its record only.  *)
OwnThreadInv ==
  \A r \in Acquirers :
    /\ resolver[Caller(r)].pc # "free" => resolver[Caller(r)].r = r
    /\ resolver[Hook(r)].pc # "free" => resolver[Hook(r)].r = r /\ r \in cancelled

(* Close is in the channel from the moment it is sent until the lane closes, *)
(* and a lane that closes leaves no request behind.                          *)
ClosingInv ==
  /\ lane.pc \in {"await", "collect", "finish", "ended"} => ResourceCancelled
  /\ <<"close", Nobody>> \in ToSet(inbox) => ResourceCancelled
  /\ ResourceCancelled =>
       lane.pc \in {"collect", "finish", "ended"} \/ <<"close", Nobody>> \in ToSet(inbox)
  /\ lane.pc \in {"finish", "ended"} => \A r \in Acquirers : ~Asked(r)

(* An operation that has not ended is in the channel, scheduled, waiting or  *)
(* about to be settled; what waits is not behind nothing.                    *)
WorkInv ==
  /\ \A s \in Precise : op[s] = "queued" =>
       <<"sequence", s>> \in ToSet(inbox) \/ lane.pc \in {"collect", "finish"}
  /\ \A o \in Ops : op[o] = "running" =>
       o \in PendingOps \/ waiting = o \/ (lane.pc \in {"seal", "settle"} /\ lane.who = o)
  /\ lane.pc = "ended" => \A o \in Ops : op[o] = "new" \/ IsTerminal(o)
  /\ \A i \in DOMAIN pending : pending[i].kind = "step" => pending[i].op \in Precise
  /\ lane.pc = "take" => waiting = Nobody \/ pending # << >>

WaitInv == AnswerInv /\ OwnThreadInv /\ ClosingInv /\ WorkInv

-----------------------------------------------------------------------------
(* Lemmas for who waits                                                     *)

(* A command that is in the channel was there, or was put there. *)
LEMMA MailBefore ==
  ASSUME TypeOK, NEW k, k \in ToSet(inbox')
  PROVE  /\ UNCHANGED inbox \/ (inbox # << >> /\ inbox' = Tail(inbox)) \/ inbox' = << >>
            \/ (\E i \in DOMAIN inbox : inbox' = RemoveAt(inbox, i))
              => k \in ToSet(inbox)
         /\ \A m : Grows(m) => k \in ToSet(inbox) \/ k = m
<1>1. PICK j \in DOMAIN inbox' : inbox'[j] = k
  BY DEF ToSet
<1>2. ASSUME NEW i \in DOMAIN inbox, inbox[i] = k PROVE k \in ToSet(inbox)
  BY <1>2 DEF ToSet
<1>3. CASE UNCHANGED inbox
  BY <1>1, <1>2, <1>3
<1>4. CASE inbox # << >> /\ inbox' = Tail(inbox)
  BY <1>1, <1>2, <1>4, FirstCommand
<1>5. CASE \E i \in DOMAIN inbox : inbox' = RemoveAt(inbox, i)
  <2>1. PICK i \in DOMAIN inbox : inbox' = RemoveAt(inbox, i)
    BY <1>5
  <2> QED BY <1>1, <1>2, <2>1, RemovedCommand
<1>6. inbox' # << >>
  BY <1>1
<1>7. \A m : Grows(m) => k \in ToSet(inbox) \/ k = m
  BY <1>1, <1>2 DEF Grows
<1> QED
  BY <1>3, <1>4, <1>5, <1>6, <1>7

(* One that was there is there, unless the lane took it; one that is sent   *)
(* to a lane that has not ended is there.                                   *)
LEMMA MailAfter ==
  ASSUME TypeOK, NEW k
  PROVE  /\ k \in ToSet(inbox) =>
              /\ UNCHANGED inbox \/ (\E m : Grows(m))
                 \/ (k[1] # "close" /\ \E i \in DOMAIN inbox :
                       inbox[i][1] = "close" /\ inbox' = RemoveAt(inbox, i))
                   => k \in ToSet(inbox')
              /\ inbox # << >> /\ inbox' = Tail(inbox)
                   => k \in ToSet(inbox') \/ inbox[1] = k
         /\ Grows(k) /\ lane.pc # "ended" => k \in ToSet(inbox')
<1>1. ASSUME NEW i \in DOMAIN inbox', inbox'[i] = k PROVE k \in ToSet(inbox')
  BY <1>1 DEF ToSet
<1>2. Grows(k) /\ lane.pc # "ended" => k \in ToSet(inbox')
  BY <1>1 DEF Grows
<1>3. ASSUME NEW j \in DOMAIN inbox, inbox[j] = k,
             \/ UNCHANGED inbox \/ \E m : Grows(m)
             \/ k[1] # "close" /\ \E i \in DOMAIN inbox :
                  inbox[i][1] = "close" /\ inbox' = RemoveAt(inbox, i)
      PROVE  k \in ToSet(inbox')
  <2>1. CASE UNCHANGED inbox
    BY <1>1, <1>3, <2>1
  <2>2. CASE \E m : Grows(m)
    BY <1>1, <1>3, <2>2 DEF Grows
  <2>3. CASE k[1] # "close" /\ \E i \in DOMAIN inbox :
               inbox[i][1] = "close" /\ inbox' = RemoveAt(inbox, i)
    <3>1. PICK i \in DOMAIN inbox : inbox[i][1] = "close" /\ inbox' = RemoveAt(inbox, i)
      BY <2>3
    <3>2. j # i
      BY <1>3, <2>3, <3>1
    <3> QED BY <1>1, <1>3, <3>1, <3>2, RemovedCommand
  <2> QED BY <1>3, <2>1, <2>2, <2>3
<1>4. ASSUME NEW j \in DOMAIN inbox, inbox[j] = k, inbox # << >>, inbox' = Tail(inbox)
      PROVE  k \in ToSet(inbox') \/ inbox[1] = k
  <2>1. CASE j = 1
    BY <1>4, <2>1
  <2>2. CASE j # 1
    BY <1>1, <1>4, <2>2, FirstCommand
  <2> QED BY <2>1, <2>2
<1> QED
  BY <1>2, <1>3, <1>4 DEF ToSet

(* What is in E is kept of a sequence. *)
LEMMA KeptKeeps ==
  ASSUME NEW S, NEW s \in Seq(S), NEW E, NEW i \in DOMAIN s, s[i] \in E
  PROVE  \E k \in DOMAIN Kept(s, E) : Kept(s, E)[k] = s[i]
<1> DEFINE n == Len(s)
           Hits(j) == {m \in 1..j : s[m] \in E}
           rank == [j \in 0..n |-> Cardinality(Hits(j))]
           Place(k) == CHOOSE j \in DOMAIN s : s[j] \in E /\ rank[j] = k
<1>1. n \in Nat /\ DOMAIN s = 1..n
  BY LenProperties
<1>2. \A j \in 0..n : IsFiniteSet(Hits(j)) /\ rank[j] \in Nat
  <2> TAKE j \in 0..n
  <2>1. IsFiniteSet(1..j)
    BY <1>1, FS_Interval
  <2>2. IsFiniteSet(Hits(j))
    BY <2>1, FS_Subset
  <2> QED BY <2>2, FS_CardinalityType
<1>3. \A j, m \in 0..n : j <= m => rank[j] <= rank[m]
  <2> TAKE j, m \in 0..n
  <2> HAVE j <= m
  <2>1. Hits(j) \subseteq Hits(m)
    BY <1>1
  <2> QED BY <1>2, <2>1, FS_Subset
<1>4. \A j, m \in 1..n : j < m /\ s[m] \in E => rank[j] < rank[m]
  <2> TAKE j, m \in 1..n
  <2> HAVE j < m /\ s[m] \in E
  <2>1. /\ j \in 0..n /\ m \in 0..n /\ m \notin Hits(j) /\ m \in Hits(m)
        /\ Hits(j) \subseteq Hits(m)
    BY <1>1
  <2> QED BY <1>2, <2>1, FS_Subset
<1>5. Place(rank[i]) = i
  <2>1. \A j \in 1..n : s[j] \in E /\ rank[j] = rank[i] => j = i
    BY <1>1, <1>2, <1>4
  <2> QED BY <1>1, <2>1
<1>6. rank[i] \in 1..rank[n]
  <2>1. i \in 1..n /\ i \in 0..n /\ n \in 0..n /\ i <= n
    BY <1>1
  <2>2. Hits(i) # {} /\ IsFiniteSet(Hits(i))
    BY <1>2, <2>1
  <2>3. rank[i] # 0
    BY <2>1, <2>2, FS_EmptySet
  <2>4. rank[i] <= rank[n] /\ rank[i] \in Nat /\ rank[n] \in Nat
    BY <1>2, <1>3, <2>1
  <2> QED BY <2>3, <2>4
<1>7. Kept(s, E) = [k \in 1..rank[n] |-> s[Place(k)]]
  BY DEF Kept, rank
<1> HIDE DEF rank, Place
<1> QED
  BY <1>5, <1>6, <1>7

(* The sequence of a finite set has every element of it.                    *)
LEMMA SequenceCovers ==
  ASSUME NEW S, IsFiniteSet(S)
  PROVE  \A e \in S : \E i \in DOMAIN SetToSeq(S) : SetToSeq(S)[i] = e
<1> DEFINE n == Cardinality(S)
           f == SetToSeq(S)
<1>1. n \in Nat /\ ExistsBijection(1..n, S)
  BY FS_CardinalityType
<1>2. \E g \in [1..n -> S] : IsInjective(g)
  BY <1>1 DEF ExistsBijection, Bijection, Injection, Surjection, IsInjective
<1>3. f \in [1..n -> S] /\ IsInjective(f)
  BY <1>2 DEF SetToSeq
<1>4. IsFiniteSet(1..n) /\ Cardinality(1..n) = n
  BY <1>1, FS_Interval
<1> HIDE DEF f
<1>5. f \in Injection(1..n, S)
  BY <1>3 DEF Injection, IsInjective
<1>6. f \in Surjection(1..n, S)
  BY <1>4, <1>5, FS_Injection
<1> QED
  BY <1>6 DEF Surjection, f

-----------------------------------------------------------------------------
(* Who resolves                                                             *)

(* Each caller and each hook has a thread of its own. *)
LEMMA ThreadsApart ==
  \A r, q \in Acquirers :
    /\ Caller(r) = Caller(q) => r = q
    /\ Hook(r) = Hook(q) => r = q
    /\ Caller(r) # Hook(q) /\ Caller(r) # Closer /\ Hook(r) # Closer
BY DEF Caller, Hook, Closer

(* A token that is cancelled stays cancelled. *)
LEMMA CancelledStays ==
  ASSUME [Next]_vars, NEW r \in Acquirers, r \in cancelled
  PROVE  r \in cancelled'
<1>1. r # Nobody
  BY Distinct
<1>2. CASE Observe
  BY <1>1, <1>2 DEF Observe
<1>3. CASE ~Observe
  <2>1. CASE Reporting
    BY <1>3, <2>1 DEF Reporting, Top, NothingDue, DispatchFront, ReportAccepted, Settle,
        WriteInterrupted, WriteFails, NeutralFails, StreamLost, FreeLane, DropPending,
        DropLost, NoCleanup, DispatchCleanup, CleanupLost, SealLane, Activate, signals
  <2>2. CASE Commands
    BY <2>2 DEF Commands, WaitEnds, TakeAcquire, Acquire, TakeBegin, TakeSequence,
        CloseLane, Collect, FinalNeutral, FinishClose, signals
  <2>3. CASE Resolving
    BY <2>3 DEF Resolving, Reserve, Publish, signals
  <2>4. CASE Outside
    BY <2>4 DEF Outside, vars, signals, CloseNext, CloseIntent, DrainAcquires,
        SettleAcquire, SendClose, Polling, Poll, TakeOutcome, PollAgain, AlarmFires,
        Request, Abandon, Release, CancelAcquirer, DeadlineReached, Submit, CancelOp
  <2> QED BY <2>1, <2>2, <2>3, <2>4, StepCases
<1> QED
  BY <1>2, <1>3

(* A thread takes up resolving a record: it was free, or had the same       *)
(* record before it; a hook does so for a token that is cancelled.          *)
Enters(t, r) ==
  /\ resolver'[t].pc = "reserve" /\ resolver'[t].r = r
  /\ \A u \in Threads \ {t} : resolver'[u] = resolver[u]
  /\ resolver[t].pc = "free" \/ Reserving(t, r)
  /\ t \in {Lane, Closer, Caller(r)} \/ (t = Hook(r) /\ r \in cancelled')

(* Who takes up resolving when nobody reserves or publishes. *)
LEMMA WhoEnters ==
  ASSUME TypeOK, RecordInv, PlaceInv, OwnThreadInv, Reporting \/ Commands \/ Outside
  PROVE  UNCHANGED resolver \/ \E t \in Threads, r \in Acquirers : Enters(t, r)
<1> DEFINE Good == UNCHANGED resolver
                   \/ \E t \in Threads, r \in Acquirers : Enters(t, r)
<1>1. /\ Lane \in Threads /\ Closer \in Threads
      /\ \A r \in Acquirers : Caller(r) \in Threads /\ Hook(r) \in Threads
  BY ThreadPlaces
<1>2. ASSUME NEW t \in Threads, NEW r \in Acquirers, Starts(t, r),
             resolver[t].pc = "free" \/ Reserving(t, r),
             t \in {Lane, Closer, Caller(r)} \/ (t = Hook(r) /\ r \in cancelled')
      PROVE  Good
  <2>1. Enters(t, r)
    BY <1>2 DEF Starts, Enters
  <2> QED BY <2>1
<1>3. CASE Reporting
  BY <1>3, ReportingFrame
<1>4. CASE Commands
  <2>1. resolver[Lane].pc = "free"
    BY <1>4, CommandPlaces
  <2>2. CASE Acquire
    <3>1. PICK r \in Acquirers : Enters(Lane, r)
      BY <1>1, <2>1, <2>2, AcquireStep DEF Enters
    <3> QED BY <1>1, <3>1
  <2>3. CASE TakeAcquire \/ Collect
    BY <1>1, <1>2, <2>1, <2>3, LaneResolves
  <2>4. CASE ~(Acquire \/ TakeAcquire \/ Collect)
    BY <1>4, <2>4 DEF Commands, WaitEnds, TakeBegin, TakeSequence, CloseLane,
                      FinalNeutral, FinishClose
  <2> QED BY <2>2, <2>3, <2>4
<1>5. CASE Outside
  <2>1. CASE SettleAcquire
    <3>1. PICK r \in closer.todo : Resolve(Closer, r, "closed")
      BY <2>1 DEF SettleAcquire
    <3>2. r \in Acquirers /\ "closed" \in Outs \ {"granted"}
      BY CloserFields DEF TypeOK, Outs
    <3>3. Starts(Closer, r) /\ resolver[Closer].pc = "free"
      BY <1>1, <2>1, <3>1, <3>2, ResolveStarts DEF SettleAcquire
    <3> QED BY <1>1, <1>2, <3>2, <3>3
  <2>2. ASSUME NEW r \in Acquirers, Poll(r) PROVE Good
    <3>1. resolver[Caller(r)].pc = "free"
      BY <2>2 DEF Poll, CallerIs
    <3> QED BY <1>1, <1>2, <2>2, <3>1, PollStep
  <2>3. ASSUME NEW r \in Acquirers, Request(r) PROVE Good
    <3>1. rec[r].st = "none"
      BY <2>3 DEF Request, RecordInv, CallerInv
    <3>2. ~Publishing(Caller(r), r)
      BY <1>1, <3>1 DEF RecordInv, ThreadInv
    <3>3. resolver[Caller(r)].pc = "free" \/ Reserving(Caller(r), r)
      <4>1. resolver[Caller(r)] \in Jobs
        BY <1>1 DEF TypeOK
      <4> QED BY <3>2, <4>1, JobFields DEF OwnThreadInv, Publishing, Reserving
    <3> QED BY <1>1, <1>2, <2>3, <3>3, RequestStep
  <2>4. ASSUME NEW r \in Acquirers, CancelAcquirer(r) PROVE Good
    <3>1. r \notin cancelled /\ r \in cancelled'
      BY <2>4 DEF CancelAcquirer
    <3>2. resolver[Hook(r)].pc = "free"
      BY <3>1 DEF OwnThreadInv
    <3> QED BY <1>1, <1>2, <2>4, <3>1, <3>2, CancelStep
  <2>5. CASE ~SettleAcquire /\ ~\E r \in Acquirers : Poll(r) \/ Request(r) \/ CancelAcquirer(r)
    BY <1>5, <2>5 DEF Outside, vars, CloseNext, CloseIntent, DrainAcquires, SendClose,
        Polling, TakeOutcome, PollAgain, AlarmFires, Abandon, Release, DeadlineReached,
        Submit, CancelOp
  <2> QED BY <2>1, <2>2, <2>3, <2>4, <2>5
<1> QED
  BY <1>3, <1>4, <1>5

(* Every step leaves the threads of callers and hooks with their records. *)
LEMMA OwnThreadKept ==
  ASSUME TypeOK, RecordInv, PlaceInv, OwnThreadInv, [Next]_vars
  PROVE  OwnThreadInv'
<1>1. /\ Lane \in Threads /\ Closer \in Threads
      /\ \A r \in Acquirers : /\ Caller(r) \in Threads /\ Hook(r) \in Threads
                              /\ Caller(r) # Lane /\ Hook(r) # Lane
  BY ThreadPlaces
<1>2. \A r \in Acquirers : r \in cancelled => r \in cancelled'
  BY CancelledStays
<1>3. CASE Resolving
  <2>1. PICK t \in Threads : Reserve(t) \/ Publish(t)
    BY <1>3 DEF Resolving
  <2>2. resolver[t].pc # "free"
    BY <2>1 DEF Reserve, Publish
  <2>3. resolver[t].r \in Acquirers
    BY <2>2 DEF RecordInv, ThreadInv
  <2>4. /\ \A u \in Threads \ {t} : resolver'[u] = resolver[u]
        /\ resolver'[t].pc = "free" \/ resolver'[t].r = resolver[t].r
    BY <2>1, <2>3, ReserveStep, PublishStep
  <2> QED BY <1>1, <1>2, <2>2, <2>4 DEF OwnThreadInv
<1>4. CASE UNCHANGED resolver
  BY <1>1, <1>2, <1>4 DEF OwnThreadInv
<1>5. ASSUME NEW t \in Threads, NEW q \in Acquirers, Enters(t, q)
      PROVE  OwnThreadInv'
  <2>1. ASSUME NEW r \in Acquirers, resolver'[Caller(r)].pc # "free"
        PROVE  resolver'[Caller(r)].r = r
    <3>1. CASE t = Caller(r)
      BY <1>1, <1>5, <3>1, ThreadsApart DEF Enters
    <3>2. CASE t # Caller(r)
      BY <1>1, <1>5, <2>1, <3>2 DEF Enters, OwnThreadInv
    <3> QED BY <3>1, <3>2
  <2>2. ASSUME NEW r \in Acquirers, resolver'[Hook(r)].pc # "free"
        PROVE  resolver'[Hook(r)].r = r /\ r \in cancelled'
    <3>1. CASE t = Hook(r)
      BY <1>1, <1>5, <3>1, ThreadsApart DEF Enters
    <3>2. CASE t # Hook(r)
      BY <1>1, <1>2, <1>5, <2>2, <3>2 DEF Enters, OwnThreadInv
    <3> QED BY <3>1, <3>2
  <2> QED BY <2>1, <2>2 DEF OwnThreadInv
<1> QED
  BY <1>3, <1>4, <1>5, StepCases, WhoEnters

-----------------------------------------------------------------------------
(* Closing                                                                  *)

(* Only the closing thread cancels the resource, and it sends close then.   *)
LEMMA ResourceSteps ==
  ASSUME TypeOK, [Next]_vars
  PROVE  /\ ResourceCancelled => ResourceCancelled'
         /\ ResourceCancelled' /\ ~ResourceCancelled => SendClose
<1>1. CASE Reporting
  BY <1>1, ReportingFrame DEF ResourceCancelled
<1>2. CASE Commands
  BY <1>2 DEF Commands, WaitEnds, TakeAcquire, Acquire, TakeBegin, TakeSequence,
      CloseLane, Collect, FinalNeutral, FinishClose, ResourceCancelled
<1>3. CASE Resolving
  BY <1>3 DEF Resolving, Reserve, Publish, ResourceCancelled
<1>4. CASE Outside
  <2>1. CASE CloseNext \/ CloseIntent
    BY <2>1, CloserFields DEF CloseNext, CloseIntent, DrainAcquires, SettleAcquire,
        SendClose, ResourceCancelled, TypeOK, Closers
  <2>2. CASE ~(CloseNext \/ CloseIntent)
    BY <1>4, <2>2 DEF Outside, vars, Polling, Poll, TakeOutcome, PollAgain, AlarmFires,
        Request, Abandon, Release, CancelAcquirer, DeadlineReached, Submit, CancelOp,
        ResourceCancelled
  <2> QED BY <2>1, <2>2
<1> QED
  BY <1>1, <1>2, <1>3, <1>4, StepCases

(* What can come into the channel. *)
LEMMA ChannelSteps ==
  ASSUME TypeOK, RecordInv, PlaceInv, [Next]_vars
  PROVE  \/ UNCHANGED inbox
         \/ \E m \in Mail : Grows(m) /\ (m[1] = "close" => SendClose)
                            /\ \A r \in Acquirers : m = <<"acquire", r>> => Request(r)
         \/ inbox # << >> /\ inbox' = Tail(inbox) /\ Commands
         \/ /\ \E i \in DOMAIN inbox : inbox[i][1] = "close" /\ inbox' = RemoveAt(inbox, i)
            /\ CloseLane
         \/ inbox' = << >> /\ FinishClose
<1> DEFINE Good ==
         \/ UNCHANGED inbox
         \/ \E m \in Mail : Grows(m) /\ (m[1] = "close" => SendClose)
                            /\ \A r \in Acquirers : m = <<"acquire", r>> => Request(r)
         \/ inbox # << >> /\ inbox' = Tail(inbox) /\ Commands
         \/ /\ \E i \in DOMAIN inbox : inbox[i][1] = "close" /\ inbox' = RemoveAt(inbox, i)
            /\ CloseLane
         \/ inbox' = << >> /\ FinishClose
<1>1. \A r \in Acquirers :
        /\ <<"begin", r>> \in Mail /\ <<"begin", r>>[1] = "begin"
        /\ \A q \in Acquirers : <<"begin", r>> # <<"acquire", q>>
  BY MailKinds
<1>2. ASSUME NEW r \in Acquirers, Grows(<<"begin", r>>) PROVE Good
  BY <1>1, <1>2
<1>3. CASE Reporting
  BY <1>3, ReportingFrame
<1>4. CASE Commands
  <2>1. ASSUME NEW i \in DOMAIN inbox, inbox[i][1] = "close", inbox' = RemoveAt(inbox, i)
        PROVE  CloseLane \/ UNCHANGED inbox \/ (inbox # << >> /\ inbox' = Tail(inbox))
               \/ FinishClose
    BY <1>4 DEF Commands, WaitEnds, TakeAcquire, Acquire, TakeBegin, TakeSequence, Collect,
                FinalNeutral, Take
  <2> QED BY <1>4, <2>1, CommandsChannel DEF FinishClose
<1>5. CASE Resolving
  BY <1>2, <1>5, ResolvingChannel
<1>6. CASE Outside
  <2>1. CASE SendClose
    <3>1. Grows(<<"close", Nobody>>) /\ <<"close", Nobody>> \in Mail
      BY <2>1, SendGrows, MailKinds DEF SendClose
    <3>2. \A r \in Acquirers : <<"close", Nobody>> # <<"acquire", r>>
      OBVIOUS
    <3> QED BY <2>1, <3>1, <3>2
  <2>2. ASSUME NEW r \in Acquirers, Request(r) PROVE Good
    <3>1. UNCHANGED inbox \/ Grows(<<"acquire", r>>)
      BY <2>2, RequestStep, SendGrows
    <3>2. /\ <<"acquire", r>> \in Mail /\ <<"acquire", r>>[1] = "acquire"
          /\ \A q \in Acquirers : <<"acquire", r>> = <<"acquire", q>> => r = q
      BY MailKinds
    <3> QED BY <2>2, <3>1, <3>2
  <2>3. ASSUME NEW s \in Precise, Submit(s) PROVE Good
    <3>1. UNCHANGED inbox \/ Grows(<<"sequence", s>>)
      BY <2>3, SendGrows DEF Submit
    <3>2. /\ <<"sequence", s>> \in Mail /\ <<"sequence", s>>[1] = "sequence"
          /\ \A q \in Acquirers : <<"sequence", s>> # <<"acquire", q>>
      BY MailKinds
    <3> QED BY <3>1, <3>2
  <2>4. ASSUME NEW r \in Acquirers, Abandon(r) \/ Release(r) PROVE Good
    <3>1. UNCHANGED inbox \/ Grows(<<"begin", r>>)
      BY <2>4, SealGrows DEF Abandon, Release
    <3> QED BY <1>2, <3>1
  <2>5. CASE /\ ~SendClose /\ ~\E s \in Precise : Submit(s)
             /\ ~\E r \in Acquirers : Request(r) \/ Abandon(r) \/ Release(r)
    BY <1>6, <2>5 DEF Outside, vars, CloseNext, CloseIntent, DrainAcquires, SettleAcquire,
        Polling, Poll, TakeOutcome, PollAgain, AlarmFires, CancelAcquirer, DeadlineReached,
        CancelOp
  <2> QED BY <2>1, <2>2, <2>3, <2>4, <2>5
<1> QED
  BY <1>3, <1>4, <1>5, <1>6, StepCases

(* Where the lane goes once its resource is cancelled, or it closes. *)
LEMMA ClosingPlaces ==
  ASSUME TypeOK, RecordInv, PlaceInv, [Next]_vars
  PROVE  /\ lane'.pc = "await" => lane.pc = "await" \/ ResourceCancelled
         /\ lane'.pc = "collect" => lane.pc = "collect" \/ CloseLane
         /\ lane'.pc = "finish" => lane.pc = "finish" \/ FinalNeutral
         /\ lane'.pc = "ended" => lane.pc = "ended" \/ FinishClose
         /\ lane.pc \in {"collect", "finish", "ended"}
              => lane'.pc \in {"collect", "finish", "ended"}
         /\ lane.pc \in {"finish", "ended"} => lane'.pc \in {"finish", "ended"}
<1>1. CASE Outside \/ Resolving
  BY <1>1, OutsideFrame, ResolvingFrame
<1>2. lane \in Lanes
  BY DEF TypeOK
<1>3. \A pc \in LanePcs : Goto(pc) => lane'.pc = pc
  BY <1>2, GotoFields
<1>4. CASE Reporting
  <2>1. lane.pc \in Working /\ lane'.pc \notin {"acquire", "collect", "finish", "ended"}
    BY <1>4, ReportingPlaces
  <2>2. ASSUME lane'.pc = "await" PROVE ResourceCancelled
    <3>1. \A p, w : AfterReports(p, w) \in {"cleanup", "activate", "take"}
      BY DEF AfterReports
    <3>2. {"cleanup", "activate", "take", "dispatch", "write"} \subseteq LanePcs
      BY DEF LanePcs
    <3>3. CASE Top /\ ~ResourceCancelled
      <4>1. Goto(IF pending' # << >> THEN "dispatch" ELSE AfterReports(pending', waiting'))
        BY <3>3 DEF Top
      <4> QED BY <1>3, <2>2, <3>1, <3>2, <4>1
    <3>4. CASE NothingDue
      BY <1>3, <2>2, <3>1, <3>2, <3>4 DEF NothingDue
    <3>5. CASE DispatchFront
      <4>1. lane'.pc \in {"dispatch", "write"}
        BY <1>3, <3>2, <3>5 DEF DispatchFront, At
      <4> QED BY <2>2, <4>1
    <3>6. CASE ReportAccepted \/ NeutralFails
      <4>1. Goto("dispatch") \/ \E o, out, then : SettleNext(o, out, then)
        BY <3>6 DEF ReportAccepted, NeutralFails
      <4>2. \A o, out, then : SettleNext(o, out, then) => lane'.pc = "settle"
        BY DEF SettleNext
      <4> QED BY <1>3, <2>2, <3>2, <4>1, <4>2
    <3>7. CASE Settle
      BY <1>2, <2>2, <3>7, LaneFields DEF Settle
    <3>8. CASE WriteInterrupted \/ WriteFails \/ DropLost \/ DropPending
      <4>1. Goto("dispatch")
        BY <3>8 DEF WriteInterrupted, WriteFails, DropLost, DropPending
      <4> QED BY <1>3, <2>2, <3>2, <4>1
    <3>9. CASE NoCleanup \/ DispatchCleanup \/ CleanupLost \/ Activate
      <4>1. Goto("activate") \/ Goto("take")
        BY <3>9 DEF NoCleanup, DispatchCleanup, CleanupLost, Activate
      <4> QED BY <1>3, <2>2, <3>2, <4>1
    <3>10. CASE StreamLost
      BY <2>2, <3>10 DEF StreamLost
    <3>11. CASE FreeLane
      <4>1. "settle" \in LanePcs
        BY DEF LanePcs
      <4> QED BY <1>3, <2>2, <3>11, <4>1 DEF FreeLane
    <3> QED BY <1>4, <3>3, <3>4, <3>5, <3>6, <3>7, <3>8, <3>9, <3>10, <3>11 DEF Reporting
  <2> QED BY <2>1, <2>2 DEF Working
<1>5. CASE Commands
  <2>1. /\ lane.pc \in {"take", "acquire", "await", "collect", "finish"}
        /\ lane'.pc \in {"top", "acquire", "collect", "finish", "ended"}
        /\ lane'.pc = "finish" => FinalNeutral
        /\ lane'.pc = "ended" => FinishClose
    BY <1>5, CommandPlaces
  <2>2. {"top", "collect", "finish", "ended"} \subseteq LanePcs
    BY DEF LanePcs
  <2>3. CASE WaitEnds \/ TakeBegin \/ TakeSequence \/ Acquire \/ TakeAcquire
    <3>1. lane'.pc \in {"top", "acquire"} /\ lane.pc \in {"take", "acquire"}
      <4>1. CASE WaitEnds \/ TakeBegin \/ TakeSequence
        BY <1>3, <2>2, <4>1 DEF WaitEnds, TakeBegin, TakeSequence, Take, At
      <4>2. CASE Acquire
        BY <1>2, <4>2 DEF Acquire, At, Lanes
      <4>3. CASE TakeAcquire
        <5>1. Goto("top") \/ lane' = [lane EXCEPT !.pc = "acquire", !.who = inbox[1][2]]
          BY <4>3 DEF TakeAcquire
        <5>2. lane' = [lane EXCEPT !.pc = "acquire", !.who = inbox[1][2]]
                => lane'.pc = "acquire"
          BY <1>2 DEF Lanes
        <5> QED BY <1>3, <2>2, <4>3, <5>1, <5>2 DEF TakeAcquire, Take, At
      <4> QED BY <2>3, <4>1, <4>2, <4>3
    <3> QED BY <3>1
  <2>4. CASE CloseLane
    <3>1. lane'.pc = "collect" /\ lane.pc \in {"take", "await"}
      BY <1>3, <2>2, <2>4 DEF CloseLane, Take, At
    <3> QED BY <2>4, <3>1
  <2>5. CASE Collect
    BY <2>5 DEF Collect, At
  <2>6. CASE FinalNeutral
    BY <1>3, <2>2, <2>6 DEF FinalNeutral, At
  <2>7. CASE FinishClose
    BY <1>3, <2>2, <2>7 DEF FinishClose, At
  <2> QED BY <1>5, <2>3, <2>4, <2>5, <2>6, <2>7 DEF Commands
<1> QED
  BY <1>1, <1>4, <1>5, StepCases

(* Every step keeps what is known of closing. *)
LEMMA ClosingKept ==
  ASSUME TypeOK, RecordInv, PlaceInv, ClosingInv, [Next]_vars
  PROVE  ClosingInv'
<1>1. /\ ResourceCancelled => ResourceCancelled'
      /\ ResourceCancelled' /\ ~ResourceCancelled => SendClose
  BY ResourceSteps
<1>2. CloseLane => ResourceCancelled
  <2>1. CASE Take("close")
    <3>1. 1 \in DOMAIN inbox /\ inbox[1] \in Mail /\ inbox[1][1] = "close"
      BY <2>1, FirstCommand DEF Take
    <3>2. inbox[1] = <<"close", Nobody>>
      BY <3>1 DEF Mail
    <3>3. <<"close", Nobody>> \in ToSet(inbox)
      BY <3>1, <3>2 DEF ToSet
    <3> QED BY <3>3 DEF ClosingInv
  <2>2. CASE ~Take("close")
    BY <2>2 DEF CloseLane, At, ClosingInv
  <2> QED BY <2>1, <2>2
<1>3. lane'.pc \in {"await", "collect", "finish", "ended"} => ResourceCancelled'
  <2>1. FinalNeutral \/ FinishClose => lane.pc \in {"collect", "finish"}
    BY DEF FinalNeutral, FinishClose, At
  <2> QED BY <1>1, <1>2, <2>1, ClosingPlaces DEF ClosingInv
<1>4. <<"close", Nobody>> \in ToSet(inbox') => ResourceCancelled'
  <2> SUFFICES ASSUME <<"close", Nobody>> \in ToSet(inbox') PROVE ResourceCancelled'
    OBVIOUS
  <2>1. CASE <<"close", Nobody>> \in ToSet(inbox)
    BY <1>1, <2>1 DEF ClosingInv
  <2>2. CASE <<"close", Nobody>> \notin ToSet(inbox)
    <3>1. PICK m \in Mail : Grows(m) /\ (m[1] = "close" => SendClose)
      BY <2>2, MailBefore, ChannelSteps
    <3>2. m = <<"close", Nobody>>
      BY <2>2, <3>1, MailBefore
    <3>3. SendClose /\ closer \in Closers
      BY <3>1, <3>2 DEF TypeOK
    <3> QED BY <3>3 DEF SendClose, ResourceCancelled
  <2> QED BY <2>1, <2>2
<1>5. ASSUME ResourceCancelled', lane'.pc \notin {"collect", "finish", "ended"}
      PROVE  <<"close", Nobody>> \in ToSet(inbox')
  <2>1. lane.pc \notin {"collect", "finish", "ended"} /\ ~CloseLane /\ ~FinishClose
    <3>1. CloseLane => lane'.pc = "collect"
      BY GotoFields DEF CloseLane, TypeOK, LanePcs
    <3>2. FinishClose => lane.pc = "finish"
      BY DEF FinishClose, At
    <3> QED BY <1>5, <3>1, <3>2, ClosingPlaces
  <2>2. CASE ~ResourceCancelled
    <3>1. SendClose
      BY <1>1, <1>5, <2>2
    <3> QED BY <2>1, <3>1, SendGrows, MailAfter DEF SendClose
  <2>3. CASE ResourceCancelled
    <3>1. <<"close", Nobody>> \in ToSet(inbox)
      BY <2>1, <2>3 DEF ClosingInv
    <3>2. CASE inbox # << >> /\ inbox' = Tail(inbox) /\ Commands
      <4>1. CASE inbox[1] = <<"close", Nobody>>
        <5>1. inbox[1][1] = "close" /\ inbox' # inbox
          <6>1. Len(Tail(inbox)) # Len(inbox)
            BY <3>2 DEF TypeOK
          <6> QED BY <3>2, <4>1, <6>1
        <5> QED BY <2>1, <3>2, <5>1 DEF Commands, WaitEnds, TakeAcquire, Acquire, TakeBegin,
                TakeSequence, Collect, FinalNeutral, Take, At
      <4>2. CASE inbox[1] # <<"close", Nobody>>
        BY <3>1, <3>2, <4>2, MailAfter
      <4> QED BY <4>1, <4>2
    <3> QED BY <2>1, <3>1, <3>2, ChannelSteps, MailAfter
  <2> QED BY <2>2, <2>3
<1>6. ASSUME lane'.pc \in {"finish", "ended"}, NEW r \in Acquirers, Asked(r)'
      PROVE  FALSE
  <2>1. CASE lane.pc \in {"finish", "ended"}
    <3>1. ~Asked(r) /\ Closing
      BY <2>1 DEF ClosingInv, ResourceCancelled, Closing
    <3>2. PICK m \in Mail : /\ Grows(m)
                            /\ \A q \in Acquirers : m = <<"acquire", q>> => Request(q)
      BY <1>6, <3>1, MailBefore, ChannelSteps DEF Asked
    <3>3. Request(r)
      BY <1>6, <3>1, <3>2, MailBefore DEF Asked
    <3>4. UNCHANGED inbox
      BY <3>1, <3>3 DEF Request
    <3> QED BY <1>6, <3>1, <3>4 DEF Asked
  <2>2. CASE lane.pc \notin {"finish", "ended"}
    <3>1. inbox' = << >>
      BY <1>6, <2>2, ClosingPlaces DEF FinalNeutral, FinishClose
    <3> QED BY <1>6, <3>1, MailBefore DEF Asked, ToSet
  <2> QED BY <2>1, <2>2
<1> QED
  BY <1>3, <1>4, <1>5, <1>6 DEF ClosingInv

-----------------------------------------------------------------------------
(* Answers                                                                  *)

(* Who is about to reserve or to publish stays so, unless it does.          *)
LEMMA ThreadsStay ==
  ASSUME TypeOK, RecordInv, PlaceInv, OwnThreadInv, Reporting \/ Commands \/ Outside,
         NEW t \in Threads, NEW r \in Acquirers
  PROVE  /\ Reserving(t, r) => Reserving(t, r)'
         /\ Publishing(t, r) => Publishing(t, r)'
<1>1. CASE UNCHANGED resolver
  BY <1>1 DEF Reserving, Publishing
<1>2. ASSUME NEW u \in Threads, NEW q \in Acquirers, Enters(u, q)
      PROVE  /\ Reserving(t, r) => Reserving(t, r)'
             /\ Publishing(t, r) => Publishing(t, r)'
  <2>1. CASE u = t
    BY <1>2, <2>1 DEF Enters, Reserving, Publishing
  <2>2. CASE u # t
    BY <1>2, <2>2 DEF Enters, Reserving, Publishing
  <2> QED BY <2>1, <2>2
<1> QED
  BY <1>1, <1>2, WhoEnters

(* A thread that is to resolve a record is about to reserve it. *)
LEMMA ResolveReserves ==
  ASSUME TypeOK, NEW t \in Threads, NEW r \in Acquirers, NEW out, Resolve(t, r, out)
  PROVE  Reserving(t, r)'
<1>1. resolver \in [Threads -> Jobs]
  BY DEF TypeOK
<1> DEFINE said == IF Signal(r) = "none" THEN out ELSE Signal(r)
           job == [Free EXCEPT !.pc = "reserve", !.r = r, !.out = said]
<1>2. job.pc = "reserve" /\ job.r = r
  BY DEF Free
<1>3. resolver' = [resolver EXCEPT ![t] = job]
  BY DEF Resolve
<1> HIDE DEF job
<1> QED
  BY <1>1, <1>2, <1>3 DEF Reserving

(* A record that is attended to stays so until it is reserved. *)
LEMMA AttendedStays ==
  ASSUME TypeOK, RecordInv, PlaceInv, OwnThreadInv, ClosingInv,
         Reporting \/ Commands \/ Outside, NEW r \in Acquirers, Attended(r)
  PROVE  Attended(r)'
<1>1. Lane \in Threads /\ lane \in Lanes
  BY ThreadPlaces DEF TypeOK
<1>2. CASE \E t \in Threads : Reserving(t, r)
  BY <1>2, ThreadsStay DEF Attended
<1>3. CASE Reserving(Lane, r)'
  BY <1>1, <1>3 DEF Attended
<1>4. CASE lane.pc = "acquire" /\ lane.who = r
  <2>1. CASE Outside
    BY <1>4, <2>1, OutsideFrame DEF Attended
  <2>2. CASE Reporting
    BY <1>4, <2>2, ReportingPlaces DEF Working
  <2>3. CASE Commands
    <3>1. Acquire
      BY <1>4, <2>3 DEF Commands, WaitEnds, TakeAcquire, TakeBegin, TakeSequence, CloseLane,
                        Collect, FinalNeutral, FinishClose, Take, At
    <3>2. Resolve(Lane, r, Verdict)
      BY <1>4, <3>1 DEF Acquire
    <3> QED BY <1>1, <1>3, <3>2, ResolveReserves
  <2> QED BY <2>1, <2>2, <2>3
<1>5. CASE Asked(r)
  <2>0. Asked(r)' => Attended(r)'
    BY DEF Attended
  <2>1. CASE Reporting
    BY <1>5, <2>0, <2>1, ReportingFrame DEF Asked
  <2>2. CASE Outside
    <3>1. UNCHANGED inbox \/ \E m : Grows(m)
      BY <2>2, OutsideChannel
    <3> QED BY <1>5, <2>0, <3>1, MailAfter DEF Asked
  <2>3. CASE Commands
    <3>0. <<"acquire", r>>[1] # "close"
      OBVIOUS
    <3>1. CASE inbox # << >> /\ inbox' = Tail(inbox) /\ inbox[1] = <<"acquire", r>>
      <4>1. inbox[1][1] = "acquire" /\ inbox[1][2] = r /\ inbox' # inbox
        <5>1. Len(Tail(inbox)) # Len(inbox)
          BY <3>1 DEF TypeOK
        <5> QED BY <3>1, <5>1
      <4>2. CASE TakeAcquire
        <5>1. CASE failed
          BY <1>1, <1>3, <4>1, <4>2, <5>1, ResolveReserves DEF TakeAcquire
        <5>2. CASE ~failed
          <6>1. lane' = [lane EXCEPT !.pc = "acquire", !.who = r]
            BY <4>1, <4>2, <5>2 DEF TakeAcquire
          <6>2. lane'.pc = "acquire" /\ lane'.who = r
            BY <1>1, <6>1 DEF Lanes
          <6> QED BY <6>2 DEF Attended
        <5> QED BY <5>1, <5>2
      <4>3. CASE Collect
        BY <1>1, <1>3, <4>1, <4>3, ResolveReserves DEF Collect
      <4>4. CASE CloseLane
        <5>1. ~Take("close")
          BY <4>1 DEF Take
        <5>2. \E i \in DOMAIN inbox : inbox[i][1] = "close" /\ inbox' = RemoveAt(inbox, i)
          BY <4>4, <5>1 DEF CloseLane
        <5> QED BY <1>5, <2>0, <3>0, <5>2, MailAfter DEF Asked
      <4>5. CASE FinishClose
        BY <1>5, <4>5 DEF FinishClose, At, ClosingInv
      <4>6. CASE ~(TakeAcquire \/ Collect \/ CloseLane \/ FinishClose)
        BY <2>3, <4>1, <4>6 DEF Commands, WaitEnds, Acquire, TakeBegin, TakeSequence,
                                FinalNeutral, Take
      <4> QED BY <4>2, <4>3, <4>4, <4>5, <4>6
    <3>2. CASE inbox' = << >> /\ FinishClose
      BY <1>5, <3>2 DEF FinishClose, At, ClosingInv
    <3> QED BY <1>5, <2>0, <2>3, <3>0, <3>1, <3>2, CommandsChannel, MailAfter DEF Asked
  <2> QED BY <2>1, <2>2, <2>3
<1> QED
  BY <1>2, <1>4, <1>5 DEF Attended

(* What is known of the acquirer r and its record. *)
AnswerTo(r) ==
  /\ caller[r] \in {"poll", "take", "waiting"} => rec[r].st \in {"pending", "resolving", "ready"}
  /\ rec[r].st = "pending" => Attended(r)
  /\ rec[r].st \in {"resolving", "leaving"} => \E t \in Threads : Publishing(t, r)
  /\ caller[r] = "waiting" /\ r \notin awake =>
       rec[r].st \in {"pending", "resolving"} /\ rec[r].waker

(* What is known of a record whose acquirer does not move stays so. *)
LEMMA AnswerStays ==
  ASSUME TypeOK, RecordInv, PlaceInv, OwnThreadInv, ClosingInv,
         Reporting \/ Commands \/ Outside, NEW r \in Acquirers, AnswerTo(r),
         rec'[r] = rec[r], caller'[r] = caller[r], r \in awake => r \in awake'
  PROVE  AnswerTo(r)'
<1>1. Attended(r) => Attended(r)'
  BY AttendedStays
<1>2. (\E t \in Threads : Publishing(t, r)) => \E t \in Threads : Publishing(t, r)'
  BY ThreadsStay
<1> QED
  BY <1>1, <1>2 DEF AnswerTo

(* A record is resolved: who waits for it is called. *)
LEMMA ResolvingAnswers ==
  ASSUME TypeOK, RecordInv, AnswerInv, Resolving
  PROVE  AnswerInv'
<1>1. \A r \in Acquirers : AnswerTo(r)
  BY DEF AnswerInv, AnswerTo
<1>2. PICK t \in Threads : Reserve(t) \/ Publish(t)
  BY DEF Resolving
<1>3. resolver[t].pc # "free"
  BY <1>2 DEF Reserve, Publish
<1>4. PICK q \in Acquirers : q = resolver[t].r
  BY <1>3 DEF RecordInv, ThreadInv
<1>5. UNCHANGED <<lane, caller>> /\ \A u \in Threads \ {t} : resolver'[u] = resolver[u]
  BY <1>2, <1>4, ReserveStep, PublishStep DEF Reserve, Publish
<1>6. \A r \in Acquirers : Asked(r) => Asked(r)'
  <2>1. UNCHANGED inbox \/ \E m : Grows(m)
    BY ResolvingChannel
  <2> QED BY <2>1, MailAfter DEF Asked
<1>7. \A r \in Acquirers : r \in awake => r \in awake'
  BY <1>2 DEF Reserve, Publish
<1>8. ASSUME NEW r \in Acquirers, r # q PROVE AnswerTo(r)'
  <2>1. rec'[r] = rec[r]
    BY <1>2, <1>4, <1>8, ReserveStep, PublishStep
  <2>2. \A u \in Threads : /\ Reserving(u, r) => Reserving(u, r)'
                           /\ Publishing(u, r) => Publishing(u, r)'
    BY <1>4, <1>5, <1>8 DEF Reserving, Publishing
  <2>3. Attended(r) => Attended(r)'
    BY <1>5, <1>6, <2>2 DEF Attended
  <2>4. AnswerTo(r)
    BY <1>1
  <2> QED BY <1>5, <1>7, <2>1, <2>2, <2>3, <2>4 DEF AnswerTo
<1>9. AnswerTo(q)'
  <2>0. AnswerTo(q)
    BY <1>1, <1>4
  <2>1. CASE Reserve(t) /\ rec[q].st # "pending"
    <3>1. rec' = rec /\ resolver[t].pc = "reserve"
      BY <1>4, <2>1, ReserveStep DEF Reserve
    <3>2. \A u \in Threads : Publishing(u, q) => Publishing(u, q)'
      BY <1>4, <1>5, <3>1 DEF Publishing
    <3> QED BY <1>5, <1>7, <2>0, <2>1, <3>1, <3>2 DEF AnswerTo
  <2>2. CASE Reserve(t) /\ rec[q].st = "pending"
    <3>1. rec' = [rec EXCEPT ![q].st = "resolving"] /\ Publishing(t, q)'
      BY <1>4, <2>2, ReserveStep DEF Reserve, Reservable, Publishing
    <3>2. rec'[q].st = "resolving" /\ rec'[q].waker = rec[q].waker
      BY <1>4, <3>1 DEF TypeOK, Records
    <3> QED BY <1>5, <1>7, <2>0, <2>2, <3>1, <3>2 DEF AnswerTo
  <2>3. CASE Publish(t)
    <3>1. resolver[t].pc = "publish" /\ rec[q].st \in {"resolving", "leaving"}
      BY <1>4, <2>3 DEF Publish, RecordInv, ThreadInv, Publishing
    <3>2. rec'[q].st = IF rec[q].st = "leaving" THEN "abandoned" ELSE "ready"
      BY <1>4, <2>3, PublishStep
    <3>3. rec[q].st # "leaving" /\ rec[q].waker => q \in awake'
      BY <1>4, <2>3 DEF Publish
    <3> QED BY <1>5, <1>7, <2>0, <3>1, <3>2, <3>3 DEF AnswerTo
  <2> QED BY <1>2, <2>1, <2>2, <2>3
<1> QED
  BY <1>8, <1>9 DEF AnswerInv, AnswerTo

(* A request is sent, or the caller itself resolves its record. *)
LEMMA RequestAttended ==
  ASSUME TypeOK, ClosingInv, NEW r \in Acquirers, Request(r)
  PROVE  Attended(r)'
<1>1. Caller(r) \in Threads
  BY ThreadPlaces
<1>2. ASSUME NEW out, Resolve(Caller(r), r, out) PROVE Attended(r)'
  BY <1>1, <1>2, ResolveReserves DEF Attended
<1>3. CASE failed
  BY <1>2, <1>3 DEF Request
<1>4. CASE ~failed /\ Closing
  <2>1. Signal(r) # "none"
    BY <1>4 DEF Signal
  <2>2. ResolveVisible(Caller(r), r) => Resolve(Caller(r), r, Signal(r))
    BY <2>1 DEF ResolveVisible
  <2> QED BY <1>2, <1>4, <2>2 DEF Request
<1>5. CASE ~failed /\ ~Closing
  <2>1. lane.pc # "ended"
    BY <1>5 DEF ClosingInv, ResourceCancelled, Closing
  <2>2. Grows(<<"acquire", r>>)
    BY <1>5, SendGrows DEF Request
  <2>3. Asked(r)'
    BY <2>1, <2>2, MailAfter DEF Asked
  <2> QED BY <2>3 DEF Attended
<1> QED
  BY <1>3, <1>4, <1>5

(* The acquirer moves and what is known of its record stays so. *)
LEMMA AcquirerAnswers ==
  ASSUME TypeOK, RecordInv, PlaceInv, OwnThreadInv, ClosingInv, NEW r \in Acquirers,
         AnswerTo(r), Outside,
         \/ Polling(r) \/ Request(r) \/ Abandon(r) \/ Release(r)
         \/ CancelAcquirer(r) \/ DeadlineReached(r)
  PROVE  AnswerTo(r)'
<1>1. {"poll", "take", "waiting", "gone", "done", "holding"} \subseteq Callers
  BY DEF Callers
<1>2. Attended(r) => Attended(r)'
  BY AttendedStays
<1>3. (\E t \in Threads : Publishing(t, r)) => \E t \in Threads : Publishing(t, r)'
  BY ThreadsStay
<1>4. rec \in [Acquirers -> Records] /\ caller \in [Acquirers -> Callers]
  BY DEF TypeOK
<1>5. CASE Request(r)
  BY <1>1, <1>5, RequestStep, RequestAttended, CallerType DEF AnswerTo
<1>6. CASE Poll(r)
  BY <1>1, <1>2, <1>3, <1>6, CallerType DEF Poll, CallerIs, AnswerTo
<1>7. CASE TakeOutcome(r)
  <2>1. caller[r] = "take"
    BY <1>7 DEF TakeOutcome, CallerIs
  <2>2. CASE rec[r].st = "ready"
    BY <1>1, <1>7, <2>2, TakeOutcomeStep, CallerType DEF AnswerTo
  <2>3. CASE rec[r].st # "ready"
    <3>1. /\ CallerTo(r, "waiting") /\ rec[r].st \in {"pending", "resolving"}
          /\ rec' = [rec EXCEPT ![r].waker = StoresWaker(r)]
      BY <1>7, <2>1, <2>3 DEF TakeOutcome, AnswerTo
    <3>2. StoresWaker(r)
      BY <3>1 DEF StoresWaker
    <3>3. rec'[r].st = rec[r].st /\ rec'[r].waker = StoresWaker(r)
      BY <1>4, <3>1 DEF Records
    <3>4. rec'[r].waker
      BY <3>2, <3>3
    <3> QED BY <1>1, <1>2, <1>3, <3>1, <3>3, <3>4, CallerType DEF AnswerTo
  <2> QED BY <2>2, <2>3
<1>8. CASE PollAgain(r)
  BY <1>1, <1>2, <1>3, <1>8, CallerType DEF PollAgain, AnswerTo
<1>9. CASE AlarmFires(r) \/ CancelAcquirer(r) \/ DeadlineReached(r)
  <2>1. rec' = rec /\ caller' = caller /\ (r \in awake => r \in awake')
    BY <1>9 DEF AlarmFires, CancelAcquirer, DeadlineReached, future
  <2> QED BY <2>1, AnswerStays
<1>10. CASE Abandon(r)
  BY <1>1, <1>3, <1>10, AbandonStep, CallerType DEF AnswerTo
<1>11. CASE Release(r)
  BY <1>1, <1>2, <1>3, <1>11, CallerType DEF Release, AnswerTo
<1> QED
  BY <1>5, <1>6, <1>7, <1>8, <1>9, <1>10, <1>11 DEF Polling

(* Every step leaves each record with somebody to resolve it, and each      *)
(* waiting caller with its waker where it will be called.                   *)
LEMMA AnswerKept ==
  ASSUME TypeOK, RecordInv, PlaceInv, OwnThreadInv, ClosingInv, AnswerInv, [Next]_vars
  PROVE  AnswerInv'
<1>1. \A r \in Acquirers : AnswerTo(r)
  BY DEF AnswerInv, AnswerTo
<1>2. (\A r \in Acquirers : AnswerTo(r)') => AnswerInv'
  BY DEF AnswerInv, AnswerTo
<1>3. CASE Resolving
  BY <1>3, ResolvingAnswers
<1>4. ASSUME Reporting \/ Commands \/ Outside, UNCHANGED <<rec, caller, awake>>
      PROVE  AnswerInv'
  BY <1>1, <1>2, <1>4, AnswerStays
<1>5. CASE Reporting \/ Commands
  <2>1. UNCHANGED future
    BY <1>5, ReportingFrame DEF Commands, WaitEnds, TakeAcquire, Acquire, TakeBegin,
                TakeSequence, CloseLane, Collect, FinalNeutral, FinishClose
  <2> QED BY <1>4, <1>5, <2>1 DEF future
<1>6. CASE Outside
  <2>1. CASE UNCHANGED vars \/ CloseNext \/ CloseIntent
             \/ (\E s \in Precise : Submit(s)) \/ \E o \in Ops : CancelOp(o)
    BY <1>4, <1>6, <2>1 DEF vars, CloseNext, CloseIntent, DrainAcquires, SettleAcquire,
                      SendClose, Submit, CancelOp, future
  <2>2. ASSUME NEW q \in Acquirers,
               \/ Polling(q) \/ Request(q) \/ Abandon(q) \/ Release(q)
               \/ CancelAcquirer(q) \/ DeadlineReached(q)
        PROVE  AnswerInv'
    <3>1. ASSUME NEW r \in Acquirers PROVE AnswerTo(r)'
      <4>1. CASE r = q
        BY <1>1, <1>6, <2>2, <4>1, AcquirerAnswers
      <4>2. CASE r # q
        <5>1. rec'[r] = rec[r] /\ caller'[r] = caller[r]
          BY <2>2, <4>2, OtherAcquirers
        <5>2. r \in awake => r \in awake'
          BY <2>2, <4>2 DEF Polling, Poll, TakeOutcome, PollAgain, AlarmFires, Request,
                Abandon, Release, CancelAcquirer, DeadlineReached, future
        <5> QED BY <1>1, <1>6, <5>1, <5>2, AnswerStays
      <4> QED BY <4>1, <4>2
    <3> QED BY <1>2, <3>1
  <2> QED BY <1>6, <2>1, <2>2 DEF Outside
<1> QED
  BY <1>3, <1>5, <1>6, StepCases

-----------------------------------------------------------------------------
(* Work                                                                     *)

AtWork(o) == o \in PendingOps \/ waiting = o

(* Taking an operation out of the schedule leaves the others there. *)
LEMMA WithoutKeeps ==
  ASSUME TypeOK, NEW o, NEW i \in DOMAIN pending, pending[i].op # o
  PROVE  \E k \in DOMAIN Without(o) : Without(o)[k] = pending[i]
<1> DEFINE E == {e \in ToSet(pending) : e.op # o}
<1>1. pending \in Seq(Entries) /\ Without(o) = Kept(pending, E) /\ pending[i] \in E
  BY DEF Without, TypeOK, ToSet
<1> HIDE DEF E
<1> QED
  BY <1>1, KeptKeeps

(* A cleanup leaves every operation of the schedule there. *)
LEMMA CleanUpWork ==
  ASSUME TypeOK, NEW p \in Ops, NEW out \in {"cancelled", "failed"}, CleanUp(p, out)
  PROVE  p \in PendingOps' /\ PendingOps \subseteq PendingOps'
<1> DEFINE N == Neutral(p, out)
           W == Without(p)
<1>1. W \in Seq(Entries) /\ N \in Entries /\ N.op = p
  BY WithoutEntries, NewEntries DEF Neutral
<1>2. pending' = <<N>> \o W
  BY DEF CleanUp
<1>3. \A i \in DOMAIN pending : pending[i].op # p =>
        \E k \in DOMAIN W : W[k] = pending[i]
  BY WithoutKeeps
<1> HIDE DEF N, W
<1>4. /\ 1 \in DOMAIN pending' /\ pending'[1] = N
      /\ \A k \in DOMAIN W : k + 1 \in DOMAIN pending' /\ pending'[k + 1] = W[k]
  <2>1. /\ Len(W) \in Nat /\ DOMAIN W = 1..Len(W) /\ Len(pending') = 1 + Len(W)
        /\ DOMAIN pending' = 1..Len(pending')
        /\ \A k \in 1..(1 + Len(W)) : pending'[k] = IF k = 1 THEN N ELSE W[k - 1]
    BY <1>1, <1>2
  <2> QED BY <2>1
<1>5. p \in PendingOps'
  BY <1>1, <1>4, Distinct DEF PendingOps
<1>6. ASSUME NEW o \in PendingOps, o # p PROVE o \in PendingOps'
  <2>1. PICK i \in DOMAIN pending : pending[i].op = o
    BY <1>6 DEF PendingOps
  <2>2. PICK k \in DOMAIN W : W[k] = pending[i]
    BY <1>3, <1>6, <2>1
  <2>3. k + 1 \in DOMAIN pending' /\ pending'[k + 1].op = o
    BY <1>4, <2>1, <2>2
  <2> QED BY <1>6, <2>3 DEF PendingOps
<1> QED
  BY <1>5, <1>6

(* So does the observation of the tokens. *)
LEMMA ObserveWork ==
  ASSUME TypeOK, Observe, NEW o \in Ops, AtWork(o)
  PROVE  AtWork(o)'
<1>1. CASE pending = << >> /\ waiting # Nobody /\ waiting' = Nobody
           /\ pending' = <<Neutral(waiting, "cancelled")>>
  <2>1. waiting = o
    BY <1>1 DEF AtWork, PendingOps
  <2>2. 1 \in DOMAIN pending' /\ pending'[1].op = o
    BY <1>1, <2>1 DEF Neutral
  <2> QED BY <2>2, Distinct DEF AtWork, PendingOps
<1>2. CASE UNCHANGED <<pending, waiting>>
  BY <1>2 DEF AtWork, PendingOps
<1>3. CASE UNCHANGED waiting /\ \E i \in DOMAIN pending : CleanUp(pending[i].op, "cancelled")
  <2>1. PICK i \in DOMAIN pending : CleanUp(pending[i].op, "cancelled")
    BY <1>3
  <2>2. pending[i].op \in Ops
    BY EntryFields, ElementOfSeq DEF TypeOK
  <2> QED BY <1>3, <2>1, <2>2, CleanUpWork DEF AtWork
<1> QED
  BY <1>1, <1>2, <1>3, ObserveCases

(* A sequence that is scheduled is at work. *)
LEMMA ScheduleWork ==
  ASSUME TypeOK, NEW s \in Precise, Schedule(s)
  PROVE  s \in PendingOps'
<1>1. pending' \in Seq(Entries) /\ pending' # << >> /\ \A k \in DOMAIN pending' : pending'[k].op = s
  BY ScheduleStep
<1>2. 1 \in DOMAIN pending'
  BY <1>1
<1> QED
  BY <1>1, <1>2, Distinct DEF PendingOps

(* Settling ends what it settles and leaves the rest. *)
LEMMA SettledRuns ==
  ASSUME TypeOK, NEW S, NEW out \in {"ok", "cancelled", "failed"}, op' = Settled(S, out),
         NEW o \in Ops
  PROVE  /\ op'[o] = "running" => op[o] = "running" /\ o \notin S
         /\ op'[o] = "queued" => op[o] = "queued" /\ o \notin S
BY SettledOps DEF IsTerminal

(* What the lane's reports leave running is still on its way to an end. *)
LEMMA ReportingWork ==
  ASSUME TypeOK, PlaceInv, ScheduledInv, WorkInv, Reporting, NEW o \in Ops,
         op'[o] = "running"
  PROVE  AtWork(o)' \/ (lane'.pc \in {"seal", "settle"} /\ lane'.who = o)
<1>1. lane \in Lanes
  BY DEF TypeOK
<1>2. op[o] = "running" => AtWork(o) \/ (lane.pc \in {"seal", "settle"} /\ lane.who = o)
  BY DEF WorkInv, AtWork
<1>3. CASE Top \/ DispatchFront
  <2>1. /\ UNCHANGED op /\ lane.pc \notin {"seal", "settle"}
        /\ Observe \/ UNCHANGED <<pending, waiting>>
    BY <1>3 DEF Top, DispatchFront, At
  <2>2. AtWork(o)
    BY <1>2, <2>1
  <2> QED BY <2>1, <2>2, ObserveWork DEF AtWork, PendingOps
<1>4. CASE NothingDue \/ NoCleanup \/ DispatchCleanup
  BY <1>2, <1>4 DEF NothingDue, NoCleanup, DispatchCleanup, At, writers, AtWork, PendingOps
<1>5. CASE ReportAccepted
  <2>1. /\ pending # << >> /\ pending' = Tail(pending) /\ UNCHANGED <<op, waiting>>
        /\ lane.pc = "write"
    BY <1>5 DEF ReportAccepted, PlaceInv, At
  <2>2. AtWork(o)
    BY <1>2, <2>1
  <2>3. waiting = o => AtWork(o)'
    BY <2>1 DEF AtWork
  <2>4. ASSUME NEW i \in DOMAIN pending, i # 1, pending[i].op = o PROVE AtWork(o)'
    <3>1. i - 1 \in DOMAIN pending' /\ pending'[i - 1] = pending[i]
      BY <2>1, <2>4 DEF TypeOK
    <3> QED BY <2>4, <3>1, Distinct DEF AtWork, PendingOps
  <2>5. CASE pending[1].op = o /\ pending[1].kind = "step"
    <3>1. o \in Precise /\ ~OnlyDirect
      BY <2>1, <2>5, FrontEntry, Distinct DEF WorkInv, OnlyDirect
    <3>2. OnlyOwners
      BY <2>1, <3>1 DEF ScheduledInv
    <3>3. Len(pending) = 2 /\ pending[2].op = o /\ 2 \in DOMAIN pending
      <4>1. Len(pending) \in Nat /\ Len(pending) # 0 /\ DOMAIN pending = 1..Len(pending)
        BY <2>1 DEF TypeOK
      <4>2. Len(pending) # 1 /\ Len(pending) <= 2
        BY <2>5, <3>2, <4>1 DEF OnlyOwners
      <4>3. 1 \in DOMAIN pending /\ 2 \in DOMAIN pending /\ Len(pending) = 2
        BY <4>1, <4>2
      <4> QED BY <2>5, <3>2, <4>3 DEF OnlyOwners
    <3> QED BY <2>4, <3>3
  <2>6. CASE pending[1].op = o /\ pending[1].kind # "step"
    <3>1. SettleNext(o, pending[1].out, "dispatch")
      BY <1>5, <2>6 DEF ReportAccepted
    <3> QED BY <3>1 DEF SettleNext
  <2> QED BY <2>2, <2>3, <2>4, <2>5, <2>6 DEF AtWork, PendingOps
<1>6. CASE Settle
  <2>1. /\ op' = Settled({lane.who}, lane.out) /\ UNCHANGED <<pending, waiting>>
        /\ lane.out \in {"ok", "cancelled", "failed"}
    BY <1>1, <1>6, LaneFields DEF Settle, At, PlaceInv
  <2>2. op[o] = "running" /\ o # lane.who
    BY <2>1, SettledRuns
  <2> QED BY <1>2, <2>1, <2>2 DEF AtWork, PendingOps
<1>7. CASE WriteInterrupted \/ WriteFails
  <2>1. /\ UNCHANGED <<op, waiting>> /\ lane.pc = "write" /\ pending # << >>
        /\ \E out \in {"cancelled", "failed"} : CleanUp(pending[1].op, out)
    BY <1>7 DEF WriteInterrupted, WriteFails, At, PlaceInv
  <2> QED BY <1>2, <2>1, FrontEntry, CleanUpWork DEF AtWork
<1>8. CASE NeutralFails
  <2> DEFINE e == pending[1]
  <2>1. /\ UNCHANGED <<op, waiting>> /\ lane.pc = "write" /\ pending # << >>
        /\ pending' = Without(e.op) /\ lane'.pc = "settle" /\ lane'.who = e.op
    BY <1>8 DEF NeutralFails, At, PlaceInv, SettleNext
  <2>2. ASSUME NEW i \in DOMAIN pending, pending[i].op = o, e.op # o PROVE AtWork(o)'
    <3>1. \E k \in DOMAIN pending' : pending'[k].op = o
      BY <2>1, <2>2, WithoutKeeps
    <3> QED BY <3>1, Distinct DEF AtWork, PendingOps
  <2> QED BY <1>2, <2>1, <2>2 DEF AtWork, PendingOps
<1>9. CASE DropLost \/ CleanupLost \/ DropPending
  <2>1. /\ op' = Settled(PendingOps \union {waiting}, "failed")
        /\ lane.pc \notin {"seal", "settle"}
    BY <1>9 DEF DropLost, CleanupLost, DropPending, SealLane, At
  <2>2. op[o] = "running" /\ ~AtWork(o)
    BY <2>1, SettledRuns DEF AtWork
  <2> QED BY <1>2, <2>1, <2>2
<1>11. CASE StreamLost
  <2>1. lane'.pc = "seal"
    <3>1. "seal" \in LanePcs
      BY DEF LanePcs
    <3> QED BY <1>11 DEF StreamLost
  <2>2. Fails
    BY <2>1, ReportingEffects DEF Ends, Frees
  <2>3. PICK S : /\ op' = Settled(S, "failed") /\ waiting \in S
                 /\ \A i \in DOMAIN pending \ {1} : pending[i].op \in S
    BY <2>2 DEF Fails
  <2>4. op[o] = "running" /\ o \notin S /\ lane.pc = "write"
    BY <2>2, <2>3, SettledRuns DEF Fails
  <2>5. AtWork(o) /\ o # waiting
    BY <1>2, <2>3, <2>4
  <2>6. PICK i \in DOMAIN pending : pending[i].op = o
    BY <2>5 DEF AtWork, PendingOps
  <2>7. i = 1
    BY <2>3, <2>4, <2>6
  <2> QED BY <2>1, <2>2, <2>6, <2>7 DEF Fails
<1>12. CASE FreeLane
  <2>1. "settle" \in LanePcs
    BY DEF LanePcs
  <2>2. lane.pc = "seal" /\ lane'.pc = "settle" /\ lane'.who = lane.who
    BY <1>1, <1>12, <2>1, GotoFields DEF FreeLane, At
  <2>3. UNCHANGED <<waiting, pending, op>>
    BY <1>12 DEF FreeLane
  <2> QED BY <1>2, <2>2, <2>3 DEF AtWork, PendingOps
<1>10. CASE Activate
  <2>1. UNCHANGED op /\ lane.pc \notin {"seal", "settle"}
    BY <1>10 DEF Activate, At
  <2>2. AtWork(o)
    BY <1>2, <2>1
  <2>3. CASE UNCHANGED <<waiting, pending>>
    BY <2>2, <2>3 DEF AtWork, PendingOps
  <2>4. CASE pending = << >> /\ pending' = <<Neutral(waiting, "cancelled")>>
    <3>1. waiting = o
      BY <2>2, <2>4 DEF AtWork, PendingOps
    <3>2. 1 \in DOMAIN pending' /\ pending'[1].op = o
      BY <2>4, <3>1 DEF Neutral
    <3> QED BY <3>2, Distinct DEF AtWork, PendingOps
  <2>5. CASE pending = << >> /\ waiting # Nobody /\ Schedule(waiting)
    <3>1. waiting = o /\ waiting \in Precise
      BY <2>2, <2>5 DEF AtWork, PendingOps, TypeOK
    <3>2. waiting \in PendingOps'
      BY <2>5, <3>1, ScheduleWork
    <3> QED BY <3>1, <3>2 DEF AtWork
  <2> QED BY <1>10, <2>3, <2>4, <2>5 DEF Activate
<1> QED
  BY <1>3, <1>4, <1>5, <1>6, <1>7, <1>8, <1>9, <1>10, <1>11, <1>12 DEF Reporting

(* When the lane comes to wait for a command, nothing it could go on with   *)
(* waits behind it.                                                         *)
LEMMA WaitsBehind ==
  ASSUME TypeOK, PlaceInv, Reporting, lane'.pc = "take"
  PROVE  waiting' = Nobody \/ pending' # << >>
<1>1. \A pc \in LanePcs : Goto(pc) => lane'.pc = pc
  BY GotoFields DEF TypeOK
<1>2. {"cleanup", "activate", "take", "dispatch", "write", "await"} \subseteq LanePcs
  BY DEF LanePcs
<1>3. \A p, w : /\ AfterReports(p, w) \in {"cleanup", "activate", "take"}
                /\ AfterReports(p, w) = "take" => p # << >> \/ w = Nobody
  BY DEF AfterReports
<1>4. CASE Top
  <2>1. CASE ResourceCancelled
    <3>1. Goto("await")
      BY <1>4, <2>1 DEF Top
    <3> QED BY <1>1, <1>2, <3>1
  <2>2. CASE ~ResourceCancelled
    <3>1. Goto(IF pending' # << >> THEN "dispatch" ELSE AfterReports(pending', waiting'))
      BY <1>4, <2>2 DEF Top
    <3> QED BY <1>1, <1>2, <1>3, <3>1
  <2> QED BY <2>1, <2>2
<1>5. CASE NothingDue
  <2>1. Goto(AfterReports(pending, waiting)) /\ UNCHANGED <<pending, waiting>>
    BY <1>5 DEF NothingDue, writers
  <2> QED BY <1>1, <1>2, <1>3, <2>1
<1>6. CASE Activate
  <2>1. \/ waiting' = Nobody
        \/ (pending # << >> \/ waiting = Nobody) /\ UNCHANGED <<waiting, pending>>
    BY <1>6 DEF Activate
  <2> QED BY <2>1
<1>7. CASE DispatchFront
  <2>1. lane'.pc \in {"dispatch", "write"}
    BY <1>1, <1>2, <1>7 DEF DispatchFront, At
  <2> QED BY <2>1
<1>8. CASE ReportAccepted \/ NeutralFails
  <2>1. Goto("dispatch") \/ \E o, out, then : SettleNext(o, out, then)
    BY <1>8 DEF ReportAccepted, NeutralFails
  <2>2. \A o, out, then : SettleNext(o, out, then) => lane'.pc = "settle"
    BY DEF SettleNext
  <2> QED BY <1>1, <1>2, <2>1, <2>2
<1>9. CASE Settle
  BY <1>9, LaneFields DEF Settle, TypeOK
<1>10. CASE WriteInterrupted \/ WriteFails \/ DropLost \/ DropPending
  <2>1. Goto("dispatch")
    BY <1>10 DEF WriteInterrupted, WriteFails, DropLost, DropPending
  <2> QED BY <1>1, <1>2, <2>1
<1>11. CASE NoCleanup \/ DispatchCleanup \/ CleanupLost
  <2>1. Goto("activate")
    BY <1>11 DEF NoCleanup, DispatchCleanup, CleanupLost
  <2> QED BY <1>1, <1>2, <2>1
<1>12. CASE StreamLost
  BY <1>12 DEF StreamLost
<1>13. CASE FreeLane
  <2>1. "settle" \in LanePcs
    BY DEF LanePcs
  <2> QED BY <1>1, <1>13, <2>1 DEF FreeLane
<1> QED
  BY <1>4, <1>5, <1>6, <1>7, <1>8, <1>9, <1>10, <1>11, <1>12, <1>13 DEF Reporting

(* Only sequences have a first step.                                        *)
Stepping == \A i \in DOMAIN pending : pending[i].kind = "step" => pending[i].op \in Precise

(* The lane's reports schedule a first step for sequences only. *)
LEMMA ReportingStepping ==
  ASSUME TypeOK, PlaceInv, Stepping, Reporting
  PROVE  Stepping'
<1>1. CASE Stays \/ Settles \/ Cleans \/ Frees
  BY <1>1 DEF Stays, Settles, Cleans, Frees, writers, Stepping
<1>2. CASE Seals \/ Drops \/ Fails
  BY <1>2 DEF Seals, Drops, Fails, Stepping
<1>3. CASE Replaces
  <2>1. CASE Len(pending') = 1 /\ pending'[1].kind = "neutral" /\ pending' \in Seq(Entries)
    <3>1. DOMAIN pending' = {1}
      BY <2>1
    <3> QED BY <2>1, <3>1 DEF Stepping
  <2>2. CASE /\ pending'[1].kind = "neutral"
             /\ \A k \in DOMAIN pending' \ {1} : \E j \in DOMAIN pending : pending'[k] = pending[j]
    BY <2>2 DEF Stepping
  <2> QED BY <1>3, <2>1, <2>2 DEF Replaces
<1>4. ASSUME pending # << >>, pending' = Tail(pending) PROVE Stepping'
  BY <1>4, FrontEntry DEF Stepping
<1>5. CASE Advances
  BY <1>4, <1>5 DEF Advances
<1>6. CASE Ends
  BY <1>4, <1>6, WithoutEntries DEF Ends, Stepping
<1>7. CASE Turns
  <2>1. waiting \in Precise
    BY <1>7 DEF Turns, TypeOK
  <2> QED BY <1>7, <2>1, ScheduleStep DEF Turns, Stepping
<1> QED
  BY <1>1, <1>2, <1>3, <1>5, <1>6, <1>7, ReportingEffects DEF Handles

(* What the lane's reports do to operations: none is submitted. *)
LEMMA ReportingOps ==
  ASSUME TypeOK, PlaceInv, Reporting, NEW o \in Ops
  PROVE  op'[o] = "queued" => op[o] = "queued"
<1>1. lane \in Lanes
  BY DEF TypeOK
<1>2. CASE Stays \/ Replaces \/ Advances \/ Cleans \/ Turns \/ Ends \/ Frees
  BY <1>2 DEF Stays, Replaces, Advances, Cleans, Turns, Ends, Frees, writers
<1>3. CASE Seals \/ Drops \/ Fails
  BY <1>3, SettledRuns DEF Seals, Drops, Fails
<1>4. CASE Settles
  <2>1. lane.out \in {"ok", "cancelled", "failed"}
    BY <1>1, <1>4, LaneFields DEF Settles, PlaceInv
  <2> QED BY <1>4, <2>1, SettledRuns DEF Settles
<1> QED
  BY <1>2, <1>3, <1>4, ReportingEffects DEF Handles

(* The lane's reports keep what is known of the work. *)
LEMMA ReportingWorkInv ==
  ASSUME TypeOK, PlaceInv, ScheduledInv, WorkInv, Reporting
  PROVE  WorkInv'
<1>1. inbox' = inbox /\ lane.pc \in Working
      /\ lane'.pc \notin {"acquire", "collect", "finish", "ended"}
  BY ReportingFrame, ReportingPlaces
<1>2. ASSUME NEW s \in Precise, op'[s] = "queued" PROVE <<"sequence", s>> \in ToSet(inbox')
  BY <1>1, <1>2, ReportingOps, Distinct DEF WorkInv, Working
<1>3. \A o \in Ops : op'[o] = "running" =>
        o \in PendingOps' \/ waiting' = o \/ (lane'.pc \in {"seal", "settle"} /\ lane'.who = o)
  BY ReportingWork DEF AtWork
<1>4. Stepping'
  BY ReportingStepping DEF WorkInv, Stepping
<1>5. lane'.pc = "take" => waiting' = Nobody \/ pending' # << >>
  BY WaitsBehind
<1> QED
  BY <1>1, <1>2, <1>3, <1>4, <1>5 DEF WorkInv, Stepping

(* A thread that resolves has nothing to do with the work. *)
LEMMA ResolvingWorkInv ==
  ASSUME TypeOK, RecordInv, WorkInv, Resolving
  PROVE  WorkInv'
<1>1. UNCHANGED <<lane, waiting, pending, op>>
  BY ResolvingFrame
<1>2. \A s \in Precise : <<"sequence", s>> \in ToSet(inbox) => <<"sequence", s>> \in ToSet(inbox')
  <2>1. UNCHANGED inbox \/ \E m : Grows(m)
    BY ResolvingChannel
  <2> QED BY <2>1, MailAfter
<1> QED
  BY <1>1, <1>2 DEF WorkInv, PendingOps, IsTerminal

(* Who submits, cancels or closes keeps what is known of the work. *)
LEMMA OutsideWorkInv ==
  ASSUME TypeOK, ClosingInv, WorkInv, Outside
  PROVE  WorkInv'
<1>1. UNCHANGED <<lane, waiting, pending>>
  BY OutsideFrame
<1>2. \A s \in Precise : <<"sequence", s>> \in ToSet(inbox) => <<"sequence", s>> \in ToSet(inbox')
  <2>1. UNCHANGED inbox \/ \E m : Grows(m)
    BY OutsideChannel
  <2> QED BY <2>1, MailAfter
<1>3. CASE UNCHANGED op
  BY <1>1, <1>2, <1>3 DEF WorkInv, PendingOps, IsTerminal
<1>4. ASSUME NEW s \in Precise, Submit(s) PROVE WorkInv'
  <2>0. s \in Ops /\ op \in [Ops -> Outcomes] /\ op[s] = "new"
    BY <1>4, Distinct DEF TypeOK, Submit
  <2>1. CASE failed \/ Closing
    <3>1. \E out \in {"failed", "cancelled"} : op' = [op EXCEPT ![s] = out]
      BY <1>4, <2>1 DEF Submit
    <3>2. op'[s] \in {"failed", "cancelled"} /\ \A o \in Ops \ {s} : op'[o] = op[o]
      BY <2>0, <3>1
    <3>3. \A o \in Precise : o \in Ops
      BY Distinct
    <3> QED BY <1>1, <1>2, <2>0, <3>2, <3>3 DEF WorkInv, PendingOps, IsTerminal
  <2>2. CASE ~failed /\ ~Closing
    <3>1. op' = [op EXCEPT ![s] = "queued"] /\ Send(<<"sequence", s>>)
      BY <1>4, <2>2 DEF Submit
    <3>2. lane.pc # "ended"
      BY <2>2 DEF ClosingInv, ResourceCancelled, Closing
    <3>3. <<"sequence", s>> \in ToSet(inbox')
      BY <3>1, <3>2, SendGrows, MailAfter
    <3>4. op'[s] = "queued" /\ \A o \in Ops \ {s} : op'[o] = op[o]
      BY <2>0, <3>1
    <3>5. \A o \in Precise : o \in Ops
      BY Distinct
    <3> QED BY <1>1, <1>2, <2>0, <3>2, <3>3, <3>4, <3>5 DEF WorkInv, PendingOps, IsTerminal
  <2> QED BY <2>1, <2>2
<1>5. CASE ~\E s \in Precise : Submit(s)
  <2>1. UNCHANGED op
    BY <1>5 DEF Outside, vars, writers, CloseNext, CloseIntent, DrainAcquires, SettleAcquire,
              SendClose, Polling, Poll, TakeOutcome, PollAgain, AlarmFires, Request,
              Abandon, Release, CancelAcquirer, DeadlineReached, CancelOp
  <2> QED BY <1>3, <2>1
<1> QED
  BY <1>4, <1>5

(* The sequence that the lane takes is refused, scheduled or waits. *)
LEMMA TakeSequenceWork ==
  ASSUME TypeOK, PlaceInv, ScheduledInv, WorkInv, TakeSequence
  PROVE  WorkInv'
<1>1. lane.pc = "take" /\ lane'.pc = "top"
  BY GotoFields DEF TakeSequence, Take, At, TypeOK, LanePcs
<1>2. PICK s \in Precise :
        /\ inbox # << >> /\ inbox[1][1] = "sequence" /\ inbox[1][2] = s
        /\ inbox' = Tail(inbox)
        /\ \/ /\ UNCHANGED <<owner, pending, waiting, faults>>
              /\ \E out \in {"failed", "cancelled"} : op' = Settled({s}, out)
           \/ /\ owner = Nobody /\ ~failed /\ owner' = s
              /\ op' = [op EXCEPT ![s] = "running"]
              /\ \/ pending = << >> /\ Schedule(s) /\ UNCHANGED waiting
                 \/ /\ pending # << >> /\ waiting' = s
                    /\ UNCHANGED <<pending, faults>>
  BY TakeSequenceStep
<1>3. s \in Ops /\ op \in [Ops -> Outcomes] /\ s # Nobody /\ \A o \in Precise : o \in Ops
  BY Distinct DEF TypeOK
<1>4. \A o \in Precise \ {s} : <<"sequence", o>> \in ToSet(inbox) =>
                                 <<"sequence", o>> \in ToSet(inbox')
  <2>1. \A o \in Precise \ {s} : inbox[1] # <<"sequence", o>>
    BY <1>2
  <2> QED BY <1>2, <2>1, MailAfter
<1>5. CASE /\ UNCHANGED <<pending, waiting>>
           /\ \E out \in {"failed", "cancelled"} : op' = Settled({s}, out)
  <2>1. \A o \in Ops : /\ op'[o] = "running" => op[o] = "running"
                       /\ op'[o] = "queued" => op[o] = "queued" /\ o # s
    BY <1>5, SettledRuns
  <2> QED BY <1>1, <1>3, <1>4, <1>5, <2>1 DEF WorkInv, PendingOps
<1>6. CASE /\ op' = [op EXCEPT ![s] = "running"] /\ owner = Nobody
           /\ \/ pending = << >> /\ Schedule(s) /\ UNCHANGED waiting
              \/ pending # << >> /\ waiting' = s /\ UNCHANGED pending
  <2>1. op'[s] = "running" /\ \A o \in Ops \ {s} : op'[o] = op[o]
    BY <1>3, <1>6
  <2>2. waiting = Nobody
    BY <1>1, <1>3, <1>6 DEF ScheduledInv
  <2>3. CASE pending = << >> /\ Schedule(s) /\ UNCHANGED waiting
    <3>1. s \in PendingOps' /\ PendingOps = {}
      BY <2>3, ScheduleWork DEF PendingOps
    <3>2. \A k \in DOMAIN pending' : pending'[k].op \in Precise
      BY <2>3, ScheduleStep
    <3>3. \A o \in Ops : op'[o] = "running" => o = s
      BY <1>1, <2>1, <2>2, <3>1, Distinct DEF WorkInv
    <3> QED BY <1>1, <1>3, <1>4, <2>1, <3>1, <3>2, <3>3 DEF WorkInv
  <2>4. CASE pending # << >> /\ waiting' = s /\ UNCHANGED pending
    <3>1. \A o \in Ops : op'[o] = "running" => o = s \/ o \in PendingOps'
      BY <1>1, <2>1, <2>2, <2>4, Distinct DEF WorkInv, PendingOps
    <3> QED BY <1>1, <1>3, <1>4, <2>1, <2>4, <3>1 DEF WorkInv
  <2> QED BY <1>6, <2>3, <2>4
<1> QED
  BY <1>2, <1>5, <1>6

(* The lane's commands keep what is known of the work. *)
LEMMA CommandsWorkInv ==
  ASSUME TypeOK, PlaceInv, ScheduledInv, WorkInv, Commands
  PROVE  WorkInv'
<1>1. CASE TakeSequence
  BY <1>1, TakeSequenceWork
<1>2. CASE FinishClose
  <2>1. PICK out \in {"failed", "cancelled"} : op' = Settled({o \in Ops : op[o] # "new"}, out)
    BY <1>2, FinishStep
  <2>2. \A o \in Ops : op'[o] = "new" \/ op'[o] \in {"ok", "cancelled", "failed"}
    BY <2>1, SettledOps DEF IsTerminal, TypeOK, Outcomes
  <2>3. lane'.pc = "ended" /\ pending' = << >>
    BY <1>2, FinishStep, GotoFields DEF TypeOK, LanePcs
  <2>4. \A o \in Precise : o \in Ops
    BY Distinct
  <2> QED BY <2>2, <2>3, <2>4 DEF WorkInv, IsTerminal
<1>3. CASE ~TakeSequence /\ ~FinishClose
  <2>1. UNCHANGED <<op, pending, waiting>>
    BY <1>3 DEF Commands, WaitEnds, TakeAcquire, Acquire, TakeBegin, CloseLane, Collect,
                FinalNeutral, writers
  <2>2. /\ lane.pc \in {"take", "acquire", "await", "collect"}
        /\ lane'.pc \in {"top", "acquire", "collect", "finish"}
    BY <1>3, CommandPlaces DEF Commands, WaitEnds, TakeAcquire, Acquire, TakeBegin, CloseLane,
                Collect, FinalNeutral, Take, At
  <2>3. CASE lane'.pc \in {"collect", "finish"}
    BY <2>1, <2>2, <2>3 DEF WorkInv, PendingOps
  <2>4. CASE lane'.pc \notin {"collect", "finish"}
    <3>0. lane.pc # "collect"
      BY <1>3, <2>4, GotoFields DEF Commands, WaitEnds, TakeAcquire, Acquire, TakeBegin,
                CloseLane, Collect, FinalNeutral, Take, At, TypeOK, LanePcs
    <3>1. ASSUME NEW s \in Precise, <<"sequence", s>> \in ToSet(inbox)
          PROVE  <<"sequence", s>> \in ToSet(inbox')
      <4>1. CASE inbox # << >> /\ inbox' = Tail(inbox) /\ inbox[1] = <<"sequence", s>>
        <5>1. inbox[1][1] = "sequence" /\ inbox' # inbox
          <6>1. Len(Tail(inbox)) # Len(inbox)
            BY <4>1 DEF TypeOK
          <6> QED BY <4>1, <6>1
        <5>2. ~CloseLane
          <6>1. CloseLane => lane'.pc = "collect"
            BY GotoFields DEF CloseLane, TypeOK, LanePcs
          <6> QED BY <2>4, <6>1
        <5> QED BY <1>3, <3>0, <5>1, <5>2 DEF Commands, WaitEnds, TakeAcquire, Acquire,
                TakeBegin, Collect, FinalNeutral, Take, At
      <4>2. <<"sequence", s>>[1] # "close"
        OBVIOUS
      <4> QED BY <1>3, <3>1, <4>1, <4>2, CommandsChannel, MailAfter
    <3> QED BY <2>1, <2>2, <2>4, <3>0, <3>1 DEF WorkInv, PendingOps
  <2> QED BY <2>3, <2>4
<1> QED
  BY <1>1, <1>2, <1>3

(* Every step leaves every operation that has not ended with somebody to    *)
(* end it.                                                                  *)
LEMMA WorkKept ==
  ASSUME TypeOK, RecordInv, PlaceInv, ScheduledInv, ClosingInv, WorkInv, [Next]_vars
  PROVE  WorkInv'
BY StepCases, ReportingWorkInv, ResolvingWorkInv, OutsideWorkInv, CommandsWorkInv

-----------------------------------------------------------------------------
(* Nobody is left waiting                                                   *)

(* Nobody waits for anything at the start. *)
LEMMA InitWait == Init => WaitInv
<1> SUFFICES ASSUME Init PROVE WaitInv
  OBVIOUS
<1>1. Inv
  BY InitInv
<1>2. /\ inbox = << >> /\ lane.pc = "top" /\ closer.pc = "idle"
      /\ \A t \in Threads : resolver[t].pc = "free"
      /\ \A r \in Acquirers : rec[r].st = "none" /\ caller[r] = "idle"
      /\ pending = SetToSeq({Report(d, "direct") : d \in Direct})
      /\ \A o \in Ops : op[o] = IF o \in Direct THEN "running" ELSE "new"
  BY DEF Init, Free
<1>3. AnswerInv /\ OwnThreadInv
  BY <1>2, ThreadPlaces DEF AnswerInv, OwnThreadInv
<1>4. ClosingInv
  BY <1>2 DEF ClosingInv, ResourceCancelled, ToSet
<1>5. Stepping /\ \A d \in Direct : d \in PendingOps
  <2> DEFINE D == {Report(d, "direct") : d \in Direct}
  <2>1. IsFiniteSet(D)
    <3> DEFINE f == [d \in Direct |-> Report(d, "direct")]
    <3>1. f \in Surjection(Direct, D)
      BY DEF Surjection
    <3>2. IsFiniteSet(Direct)
      BY LeaseAssumption
    <3> QED BY <3>1, <3>2, FS_Surjection
  <2>2. pending \in Seq(D) /\ \A e \in D : \E i \in DOMAIN pending : pending[i] = e
    <3>1. pending = SetToSeq(D)
      BY <1>2
    <3> HIDE DEF D
    <3>2. SetToSeq(D) \in Seq(D)
      BY <2>1, SequenceOfSet
    <3>3. \A e \in D : \E i \in DOMAIN SetToSeq(D) : SetToSeq(D)[i] = e
      BY <2>1, SequenceCovers
    <3> QED BY <3>1, <3>2, <3>3
  <2>3. \A d \in Direct : Report(d, "direct").op = d /\ Report(d, "direct").kind = "direct"
    BY DEF Report
  <2>4. \A i \in DOMAIN pending : pending[i] \in D
    BY <2>2, ElementOfSeq
  <2>5. Stepping
    BY <2>3, <2>4 DEF Stepping
  <2>6. ASSUME NEW d \in Direct PROVE d \in PendingOps
    <3>1. \E i \in DOMAIN pending : pending[i] = Report(d, "direct")
      BY <2>2
    <3> QED BY <2>3, <3>1, Distinct DEF PendingOps
  <2> QED BY <2>5, <2>6
<1>6. WorkInv
  BY <1>2, <1>5, Distinct DEF WorkInv, Stepping, IsTerminal
<1> QED
  BY <1>3, <1>4, <1>6 DEF WaitInv

(* Every step leaves whoever waits with a reason to. *)
LEMMA WaitKept == Inv /\ WaitInv /\ [Next]_vars => WaitInv'
<1> SUFFICES ASSUME Inv, WaitInv, [Next]_vars PROVE WaitInv'
  OBVIOUS
<1>1. /\ TypeOK /\ RecordInv /\ PlaceInv /\ ScheduledInv
      /\ AnswerInv /\ OwnThreadInv /\ ClosingInv /\ WorkInv
  BY DEF Inv, WaitInv
<1>2. AnswerInv' /\ OwnThreadInv'
  BY <1>1, AnswerKept, OwnThreadKept
<1>3. ClosingInv' /\ WorkInv'
  BY <1>1, ClosingKept, WorkKept
<1> QED
  BY <1>2, <1>3 DEF WaitInv

(* When nobody moves, the lane waits for a command with nothing to do, or   *)
(* it has ended and everybody knows.                                        *)
LEMMA NobodyMoves ==
  ASSUME Inv, WaitInv, ~SomebodyMoves
  PROVE  /\ \A t \in Threads : resolver[t].pc = "free"
         /\ \/ /\ lane.pc = "take" /\ inbox = << >> /\ pending = << >>
               /\ waiting = Nobody /\ closer.pc = "idle"
            \/ lane.pc = "ended" /\ CloseReturned
<1>1. \A t \in Threads : resolver[t].pc = "free"
  BY DEF SomebodyMoves
<1>2. lane.pc \in {"take", "await", "ended"}
  BY <1>1, ThreadPlaces DEF SomebodyMoves, LaneMoves
<1>3. closer.pc \in {"idle", "join"}
  <2>1. closer.pc \in {"idle", "drain", "settle", "join"}
    BY CloserFields DEF Inv, TypeOK
  <2> QED BY <1>1, <2>1, ThreadPlaces DEF SomebodyMoves, CloserMoves
<1>4. lane.pc # "await"
  <2> SUFFICES ASSUME lane.pc = "await" PROVE FALSE
    OBVIOUS
  <2>1. <<"close", Nobody>> \in ToSet(inbox)
    BY DEF WaitInv, ClosingInv
  <2> QED BY <1>1, <2>1, ThreadPlaces DEF SomebodyMoves, LaneMoves
<1>5. CASE lane.pc = "ended"
  BY <1>1, <1>5 DEF WaitInv, ClosingInv, ResourceCancelled, CloseReturned
<1>6. CASE lane.pc = "take"
  <2>1. inbox = << >> /\ pending = << >>
    BY <1>1, <1>6, ThreadPlaces DEF SomebodyMoves, LaneMoves
  <2>2. closer.pc # "join"
    BY <1>6, <2>1 DEF WaitInv, ClosingInv, ResourceCancelled, ToSet
  <2>3. waiting = Nobody
    BY <1>6, <2>1 DEF WaitInv, WorkInv
  <2> QED BY <1>1, <1>3, <1>6, <2>1, <2>2, <2>3
<1> QED
  BY <1>2, <1>4, <1>5, <1>6

(* Whoever waits has a reason to, and it will be called for it. *)
THEOREM WaitersHaveReasons == Spec => []WaitInv
<1>1. Inv /\ WaitInv /\ [Next]_vars => WaitInv'
  BY WaitKept
<1> QED
  BY <1>1, InitWait, Invariance, PTL DEF Spec

(* When nothing in the Controller can move any more, every acquirer has its *)
(* outcome, every operation is settled and close has returned: nobody waits *)
(* for an answer, a waker or a settlement that will not come.               *)
THEOREM NobodyIsLeft == Spec => []NobodyWaitsForever
<1>1. ASSUME Inv, WaitInv PROVE NobodyWaitsForever
  <2> SUFFICES ASSUME ~SomebodyMoves
               PROVE  /\ \A r \in Acquirers : caller[r] \in {"idle", "holding", "done", "gone"}
                      /\ \A o \in Ops : op[o] = "new" \/ IsTerminal(o)
                      /\ closer.pc = "idle" \/ CloseReturned
    BY DEF NobodyWaitsForever
  <2>1. /\ \A t \in Threads : resolver[t].pc = "free"
        /\ \/ /\ lane.pc = "take" /\ inbox = << >> /\ pending = << >>
              /\ waiting = Nobody /\ closer.pc = "idle"
           \/ lane.pc = "ended" /\ CloseReturned
    BY <1>1, NobodyMoves
  <2>2. ASSUME NEW r \in Acquirers
        PROVE  caller[r] \in {"idle", "holding", "done", "gone"}
    <3>1. caller[r] \in Callers
      BY <1>1 DEF Inv, TypeOK
    <3>2. caller[r] \notin {"poll", "take"}
      BY <2>1, ThreadPlaces DEF SomebodyMoves, CallerMoves, CallerIs
    <3>3. caller[r] # "waiting"
      <4> SUFFICES ASSUME caller[r] = "waiting" PROVE FALSE
        OBVIOUS
      <4>1. r \notin awake
        BY DEF SomebodyMoves, CallerMoves
      <4>2. rec[r].st \in {"pending", "resolving"}
        BY <1>1, <4>1 DEF WaitInv, AnswerInv
      <4>3. rec[r].st # "resolving"
        BY <1>1, <2>1 DEF WaitInv, AnswerInv, Publishing
      <4>4. Attended(r)
        BY <1>1, <4>2, <4>3 DEF WaitInv, AnswerInv
      <4>5. Asked(r)
        BY <2>1, <4>4 DEF Attended, Reserving
      <4> QED BY <1>1, <2>1, <4>5 DEF Asked, ToSet, WaitInv, ClosingInv
    <3> QED BY <3>1, <3>2, <3>3 DEF Callers
  <2>3. ASSUME NEW o \in Ops PROVE op[o] = "new" \/ IsTerminal(o)
    <3>1. CASE lane.pc = "ended"
      BY <1>1, <3>1 DEF WaitInv, WorkInv
    <3>2. CASE lane.pc = "take" /\ inbox = << >> /\ pending = << >> /\ waiting = Nobody
      <4>1. op[o] \in Outcomes
        BY <1>1 DEF Inv, TypeOK
      <4>2. op[o] # "running"
        BY <1>1, <3>2, Distinct DEF WaitInv, WorkInv, PendingOps
      <4>3. op[o] # "queued"
        <5>1. CASE o \in Direct
          BY <1>1, <5>1 DEF Inv, SettlingInv, SettledInv
        <5>2. CASE o \in Precise
          BY <1>1, <3>2, <5>2 DEF WaitInv, WorkInv, ToSet
        <5> QED BY <5>1, <5>2, Distinct
      <4> QED BY <4>1, <4>2, <4>3 DEF Outcomes, IsTerminal
    <3> QED BY <2>1, <3>1, <3>2
  <2> QED BY <2>1, <2>2, <2>3
<1>2. Inv /\ WaitInv => NobodyWaitsForever
  BY <1>1
<1> QED
  BY <1>2, Invariance, WaitersHaveReasons, PTL

=============================================================================
