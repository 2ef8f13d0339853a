-------------------------- MODULE VisionPoolsProofs --------------------------
(***************************************************************************)
(* Proofs about VisionPools for any jobs, any finite set of workers and    *)
(* any capacities.  The inductive invariant has two halves that meet in the*)
(* worker threads: Books counts, place by place, the engines the workers   *)
(* have in hand, and JobsInv says who holds each job that is still owed an *)
(* answer.  On top of it WaitInv says of every thread that is asleep what   *)
(* it waits for, and from it that the pools never come to a stand.         *)
(***************************************************************************)
EXTENDS VisionPools, SequenceTheorems, FiniteSetTheorems, TLAPS

(* Where a worker holds a job; the places in which it still owes the answer; *)
(* the places of a worker that has no job.                                   *)
Owing   == {"run", "call", "acquire", "claim", "create", "created", "failed_create",
            "discard", "process", "lease", "finish"}
Working == Owing \cup {"release"}
Vacant  == {"unborn", "start", "idle", "exited"}

(* The places in which a worker has an engine in use, under construction, or *)
(* outside the books; everywhere else the engine pool does not know of it.   *)
Using    == {"process", "lease"}
Creating == {"create", "created", "failed_create"}
Outside  == {"created", "discard"}
Plain    == Places \ (Using \cup Creating \cup Outside)

In(f, S) == {w \in Workers : f[w] \in S}
Count(f, S) == Cardinality(In(f, S))

(* The engine pool: what EnginesAccountedFor says, with the close thread of  *)
(* the engine pool followed step by step.                                    *)
Books ==
  /\ borrowed = Count(worker, Using)
  /\ creating = Count(worker, Creating)
  /\ live = idle + borrowed + Count(worker, Outside)
  /\ idle + borrowed + creating <= MaxEngines
  /\ created + creating <= MaxEngines
  /\ ocr_closer \in {"idle", "wait"} => created = idle + borrowed /\ ocr_result = "none"
  /\ ocr_closer # "idle" => ~open
  /\ ocr_closer \notin {"idle", "wait"} => created = 0 /\ creating = 0 /\ borrowed = 0
  /\ ocr_closer \in {"settle", "done"} => idle = 0
  /\ ocr_closer \in {"drop", "settle"} => ocr_result = "none"
  /\ ocr_closer = "done" => ocr_result = "Ok"

(* Construction: the gate runs the workers only of a pool that was built.    *)
BuildInv ==
  /\ start = "Abort" => built \in {"spawning", "failed"}
  /\ built = "failed" => start = "Abort" /\ \A w \in Workers : worker[w] \in {"unborn", "exited"}

(* The close thread of the worker pool.                                      *)
CloseInv ==
  /\ lifecycle = "Open" <=> closer = "idle"
  /\ closer \in {"idle", "drain"} => drained = << >>
  /\ closer \in {"cancel", "join", "done"} => reserved = 0 /\ queue = << >>
  /\ closer \in {"join", "done"} => drained = << >>
  /\ closer = "done" => close_result = "Ok" /\ \A w \in Workers : worker[w] = "exited"

(* A place in the queue is reserved by one call.                             *)
ReservedInv ==
  \A i \in Jobs : call[i] = "reserved" =>
    /\ reserved = 1 /\ Len(queue) < MaxQueued
    /\ \A j \in Jobs : call[j] = "reserved" => i = j

(* A call that became a job and has no answer yet.                           *)
Owed(j) == call[j] \in {"committed", "wait"} /\ completion[j] = "none"

Held(j) ==
  \/ j \in ToSet(queue) \cup ToSet(drained)
  \/ \E w \in Workers : task[w] = j /\ worker[w] \in Owing
  \/ withdrawal[j] = "answer"

AnswerInv ==
  \A j \in Jobs :
    /\ call[j] \in {"idle", "admit", "reserved"} => completion[j] = "none"
    /\ finishes[j] = IF call[j] \in {"committed", "wait"} /\ completion[j] # "none"
                     THEN 1 ELSE 0
    /\ Owed(j) => Held(j)

(* Nobody holds a job twice, or one that another holds or that is answered.  *)
Once(q) == \A i, k \in DOMAIN q : q[i] = q[k] => i = k

QueueInv(q) ==
  /\ Once(q)
  /\ \A j \in ToSet(q) : Owed(j)
  /\ \A w \in Workers : worker[w] \in Owing => task[w] \notin ToSet(q)

TaskInv ==
  /\ \A w \in Workers : worker[w] \in Working <=> task[w] # NoJob
  /\ \A w \in Workers : worker[w] \in Owing => Owed(task[w])
  /\ \A w \in Workers : worker[w] \in {"acquire", "claim"} => kind[task[w]] = "ocr"
  /\ \A v, w \in Workers :
       worker[v] \in Owing /\ worker[w] \in Owing /\ task[v] = task[w] => v = w
  /\ in_flight = Count(worker, Working)

(* A job whose cancel took it out of the queue is in nobody else's hands     *)
(* until the cancelling thread has answered it.                              *)
WithdrawInv ==
  \A j \in Jobs : withdrawal[j] = "answer" =>
    /\ Owed(j)
    /\ j \notin ToSet(queue) \cup ToSet(drained)
    /\ \A w \in Workers : worker[w] \in Owing => task[w] # j

(* A worker has an answer before it finishes its job.                        *)
OutcomeInv ==
  \A w \in Workers : worker[w] \in {"lease", "discard", "finish"} => outcome[w] # "none"

(* What an accepted job may rely on. *)
JobsInv ==
  /\ CloseInv
  /\ ReservedInv
  /\ AnswerInv
  /\ QueueInv(queue)
  /\ QueueInv(drained)
  /\ TaskInv
  /\ WithdrawInv

(* The inductive invariant. *)
Inv == TypeOK /\ Books /\ BuildInv /\ OutcomeInv /\ JobsInv


-----------------------------------------------------------------------------
(* Lemmas about the operators. *)

(* The number of workers in some places, when one worker moves.              *)
Moved(f, g, w, p) == g[w] = p /\ \A v \in Workers \ {w} : g[v] = f[v]

LEMMA Moves ==
  \A f, g, p, S : \A w \in Workers : Moved(f, g, w, p) =>
    /\ Count(f, S) \in Nat
    /\ f[w] \in S => Count(f, S) > 0
    /\ (p \in S <=> f[w] \in S) => Count(g, S) = Count(f, S)
    /\ p \in S /\ f[w] \notin S => Count(g, S) = Count(f, S) + 1
    /\ p \notin S /\ f[w] \in S => Count(g, S) = Count(f, S) - 1
<1> SUFFICES ASSUME NEW f, NEW g, NEW p, NEW S, NEW w \in Workers, Moved(f, g, w, p)
             PROVE  /\ Count(f, S) \in Nat
                    /\ f[w] \in S => Count(f, S) > 0
                    /\ (p \in S <=> f[w] \in S) => Count(g, S) = Count(f, S)
                    /\ p \in S /\ f[w] \notin S => Count(g, S) = Count(f, S) + 1
                    /\ p \notin S /\ f[w] \in S => Count(g, S) = Count(f, S) - 1
  OBVIOUS
<1> USE DEF Moved
<1>1. IsFiniteSet(Workers)
  BY PoolAssumption DEF PoolAssumption
<1>2. In(f, S) \in SUBSET Workers /\ In(g, S) \in SUBSET Workers
  BY DEF In
<1>3. IsFiniteSet(In(f, S)) /\ IsFiniteSet(In(g, S))
  BY <1>1, <1>2, FS_Subset
<1>4. Count(f, S) \in Nat /\ Count(g, S) \in Nat
  BY <1>3, FS_CardinalityType DEF Count
<1>5. w \in In(f, S) <=> f[w] \in S
  BY DEF In
<1>6. f[w] \in S => Count(f, S) > 0
  <2> SUFFICES ASSUME f[w] \in S PROVE Count(f, S) > 0
    OBVIOUS
  <2>1. In(f, S) # {}
    BY <1>5
  <2>2. Cardinality(In(f, S)) # 0
    BY <1>3, <2>1, FS_EmptySet
  <2> QED
    BY <1>4, <2>2 DEF Count
<1>7. CASE p \in S /\ f[w] \in S
  <2>1. In(g, S) = In(f, S)
    BY <1>7 DEF In
  <2> QED
    BY <1>4, <1>6, <1>7, <2>1 DEF Count
<1>8. CASE p \notin S /\ f[w] \notin S
  <2>1. In(g, S) = In(f, S)
    BY <1>8 DEF In
  <2> QED
    BY <1>4, <1>6, <1>8, <2>1 DEF Count
<1>9. CASE p \in S /\ f[w] \notin S
  <2>1. In(g, S) = In(f, S) \cup {w}
    BY <1>9 DEF In
  <2>2. Cardinality(In(f, S) \cup {w}) = Cardinality(In(f, S)) + 1
    BY <1>3, <1>5, <1>9, FS_AddElement
  <2>3. Count(g, S) = Count(f, S) + 1
    BY <2>1, <2>2 DEF Count
  <2> QED
    BY <1>4, <1>9, <2>3
<1>10. CASE p \notin S /\ f[w] \in S
  <2>1. In(g, S) = In(f, S) \ {w}
    BY <1>10 DEF In
  <2>2. Cardinality(In(f, S) \ {w}) = Cardinality(In(f, S)) - 1
    BY <1>3, <1>5, <1>10, FS_RemoveElement
  <2>3. Count(g, S) = Count(f, S) - 1
    BY <2>1, <2>2 DEF Count
  <2> QED
    BY <1>4, <1>6, <1>10, <2>3
<1> QED
  BY <1>7, <1>8, <1>9, <1>10

(* No more workers can be anywhere than there are.                           *)
LEMMA CountBound ==
  ASSUME NEW f, NEW S
  PROVE  Count(f, S) \in 0..Cardinality(Workers)
<1>1. IsFiniteSet(Workers)
  BY PoolAssumption DEF PoolAssumption
<1>2. In(f, S) \in SUBSET Workers
  BY DEF In
<1>3. IsFiniteSet(In(f, S)) /\ Cardinality(In(f, S)) <= Cardinality(Workers)
  BY <1>1, <1>2, FS_Subset
<1>4. Cardinality(In(f, S)) \in Nat /\ Cardinality(Workers) \in Nat
  BY <1>1, <1>3, FS_CardinalityType
<1> QED
  BY <1>3, <1>4 DEF Count

LEMMA CountNone ==
  ASSUME NEW f, NEW S, \A w \in Workers : f[w] \notin S
  PROVE  Count(f, S) = 0
<1>1. In(f, S) = {}
  BY DEF In
<1> QED
  BY <1>1, FS_EmptySet DEF Count

(* Queues of jobs as the sets of their elements.                             *)
LEMMA EmptyQueue == ToSet(<< >>) = {} /\ Once(<< >>)
  BY DEF ToSet, Once

LEMMA Contained ==
  ASSUME NEW S, NEW q \in Seq(S), NEW j
  PROVE  /\ Contains(q, j) <=> j \in ToSet(q)
         /\ ToSet(q) \subseteq S
         /\ q # << >> => Head(q) \in ToSet(q)
  BY DEF Contains, ToSet

LEMMA AppendQueue ==
  ASSUME NEW S, NEW q \in Seq(S), NEW j \in S
  PROVE  /\ Append(q, j) \in Seq(S)
         /\ Len(Append(q, j)) = Len(q) + 1
         /\ ToSet(Append(q, j)) = ToSet(q) \cup {j}
         /\ Once(q) /\ j \notin ToSet(q) => Once(Append(q, j))
<1>1. /\ Append(q, j) \in Seq(S) /\ Len(Append(q, j)) = Len(q) + 1 /\ Len(q) \in Nat
      /\ DOMAIN q = 1..Len(q) /\ DOMAIN Append(q, j) = 1..Len(q) + 1
  OBVIOUS
<1>2. /\ \A i \in 1..Len(q) : Append(q, j)[i] = q[i]
      /\ Append(q, j)[Len(q) + 1] = j
  OBVIOUS
<1>3. ToSet(Append(q, j)) = ToSet(q) \cup {j}
  <2>1. ASSUME NEW i \in 1..Len(q) + 1
        PROVE  Append(q, j)[i] \in ToSet(q) \cup {j}
    <3>1. i \in 1..Len(q) \/ i = Len(q) + 1
      BY <1>1
    <3> QED
      BY <1>1, <1>2, <3>1 DEF ToSet
  <2>2. ASSUME NEW k \in 1..Len(q) PROVE q[k] \in ToSet(Append(q, j))
    <3>1. k \in DOMAIN Append(q, j) /\ q[k] = Append(q, j)[k]
      BY <1>1, <1>2
    <3> QED
      BY <3>1 DEF ToSet
  <2>3. Len(q) + 1 \in DOMAIN Append(q, j)
    BY <1>1
  <2>4. j \in ToSet(Append(q, j))
    BY <1>2, <2>3 DEF ToSet
  <2>5. ToSet(Append(q, j)) \subseteq ToSet(q) \cup {j}
    BY <1>1, <2>1 DEF ToSet
  <2>6. ToSet(q) \subseteq ToSet(Append(q, j))
    BY <1>1, <2>2 DEF ToSet
  <2> QED
    BY <2>4, <2>5, <2>6
<1>4. ASSUME Once(q), j \notin ToSet(q),
             NEW i \in 1..Len(q) + 1, NEW k \in 1..Len(q) + 1,
             Append(q, j)[i] = Append(q, j)[k]
      PROVE  i = k
  <2>1. /\ i \in 1..Len(q) \/ i = Len(q) + 1
        /\ k \in 1..Len(q) \/ k = Len(q) + 1
    BY <1>1
  <2>2. \A n \in 1..Len(q) : q[n] # j
    BY <1>1, <1>4 DEF ToSet
  <2> QED
    BY <1>1, <1>2, <1>4, <2>1, <2>2 DEF Once
<1>5. Once(q) /\ j \notin ToSet(q) => Once(Append(q, j))
  BY <1>1, <1>4 DEF Once
<1> QED
  BY <1>1, <1>3, <1>5

LEMMA TailQueue ==
  ASSUME NEW S, NEW q \in Seq(S), q # << >>
  PROVE  /\ Tail(q) \in Seq(S)
         /\ Len(Tail(q)) = Len(q) - 1
         /\ Head(q) \in S
         /\ Once(q) => /\ Once(Tail(q))
                       /\ ToSet(Tail(q)) = ToSet(q) \ {Head(q)}
<1>1. /\ Tail(q) \in Seq(S) /\ Len(Tail(q)) = Len(q) - 1
      /\ \A i \in 1..Len(q) - 1 : Tail(q)[i] = q[i + 1]
      /\ Head(q) = q[1] /\ Len(q) \in Nat \ {0} /\ Head(q) \in S
      /\ DOMAIN q = 1..Len(q) /\ DOMAIN Tail(q) = 1..Len(q) - 1
  OBVIOUS
<1> SUFFICES ASSUME Once(q)
             PROVE  Once(Tail(q)) /\ ToSet(Tail(q)) = ToSet(q) \ {Head(q)}
  BY <1>1
<1>2. Once(Tail(q))
  BY <1>1 DEF Once
<1>3. ASSUME NEW x \in ToSet(Tail(q))
      PROVE  x \in ToSet(q) \ {Head(q)}
  <2>1. PICK i \in 1..Len(q) - 1 : x = q[i + 1]
    BY <1>1, <1>3 DEF ToSet
  <2>2. i + 1 \in DOMAIN q /\ 1 \in DOMAIN q /\ i + 1 # 1
    BY <1>1
  <2>3. q[i + 1] # q[1]
    BY <2>2 DEF Once
  <2> QED
    BY <1>1, <2>1, <2>2, <2>3 DEF ToSet
<1>4. ASSUME NEW x \in ToSet(q), x # Head(q)
      PROVE  x \in ToSet(Tail(q))
  <2>1. PICK k \in 1..Len(q) : x = q[k]
    BY <1>1, <1>4 DEF ToSet
  <2>2. k - 1 \in 1..Len(q) - 1 /\ (k - 1) + 1 = k
    BY <1>1, <1>4, <2>1
  <2>3. x = Tail(q)[k - 1]
    BY <1>1, <2>1, <2>2
  <2> QED
    BY <1>1, <2>2, <2>3 DEF ToSet
<1> QED
  BY <1>2, <1>3, <1>4

LEMMA WithoutQueue ==
  ASSUME NEW S, NEW q \in Seq(S), NEW j
  PROVE  LET r == Without(q, j) IN
         /\ r \in Seq(S) /\ Len(r) <= Len(q)
         /\ Once(q) => Once(r) /\ ToSet(r) = ToSet(q) \ {j}
<1> DEFINE r == Without(q, j)
<1>1. CASE ~Contains(q, j)
  <2>1. r = q /\ j \notin ToSet(q)
    BY <1>1, Contained DEF Without
  <2> QED
    BY <2>1
<1>2. CASE Contains(q, j)
  <2>1. PICK p : p = CHOOSE i \in 1..Len(q) : q[i] = j
    OBVIOUS
  <2>2. p \in 1..Len(q) /\ q[p] = j
    BY <1>2, <2>1 DEF Contains
  <2> DEFINE n == Len(q)
             a == SubSeq(q, 1, p - 1)
             b == SubSeq(q, p + 1, n)
  <2>3. r = a \o b
    BY <1>2, <2>1 DEF Without, RemoveAt
  <2>4. n \in Nat /\ p \in 1..n /\ DOMAIN q = 1..n
    BY <2>2
  <2>5. a \in Seq(S) /\ Len(a) = p - 1 /\ \A i \in 1..p - 1 : a[i] = q[i]
    BY <2>2, <2>4
  <2>6. b \in Seq(S) /\ Len(b) = n - p /\ \A i \in 1..n - p : b[i] = q[p + i]
    <3>1. p + 1 \in 1..n + 1 /\ n \in 0..n /\ (n - (p + 1)) + 1 = n - p
      BY <2>4
    <3>2. /\ b \in Seq(S)
          /\ Len(b) = IF p + 1 <= n THEN (n - (p + 1)) + 1 ELSE 0
          /\ \A i \in 1..Len(b) : b[i] = q[((p + 1) + i) - 1]
      BY <2>4, <3>1
    <3> HIDE DEF b, n
    <3>3. Len(b) = n - p
      <4>1. CASE p + 1 <= n
        <5>1. Len(b) = (n - (p + 1)) + 1
          BY <3>2, <4>1
        <5> QED
          BY <3>1, <5>1
      <4>2. CASE ~(p + 1 <= n)
        <5>1. Len(b) = 0
          BY <3>2, <4>2
        <5> QED
          BY <2>4, <4>2, <5>1
      <4> QED
        BY <4>1, <4>2
    <3>4. \A i \in 1..n - p : ((p + 1) + i) - 1 = p + i
      BY <2>4
    <3> QED
      BY <3>2, <3>3, <3>4
  <2> HIDE DEF r, a, b
  <2>7. /\ r \in Seq(S) /\ Len(r) = Len(a) + Len(b)
        /\ \A i \in 1..Len(a) : r[i] = a[i]
        /\ \A i \in Len(a) + 1..Len(a) + Len(b) : r[i] = b[i - Len(a)]
    <3>1. a \in Seq(S) /\ b \in Seq(S)
      BY <2>5, <2>6
    <3>2. /\ r \in Seq(S) /\ Len(r) = Len(a) + Len(b)
          /\ \A i \in 1..Len(a) + Len(b) :
               r[i] = IF i <= Len(a) THEN a[i] ELSE b[i - Len(a)]
      BY <2>3, <3>1, ConcatProperties
    <3>3. Len(a) \in Nat /\ Len(b) \in Nat
      BY <3>1
    <3> QED
      BY <3>2, <3>3
  <2>15. Len(r) = n - 1 /\ DOMAIN r = 1..n - 1
    BY <2>4, <2>5, <2>6, <2>7
  <2>8. \A i \in 1..p - 1 : r[i] = q[i]
    BY <2>5, <2>7
  <2>9. \A i \in p..n - 1 : r[i] = q[i + 1]
    <3> SUFFICES ASSUME NEW i \in p..n - 1 PROVE r[i] = q[i + 1]
      OBVIOUS
    <3>1. i - (p - 1) \in 1..n - p /\ p + (i - (p - 1)) = i + 1
      BY <2>4
    <3>2. i \in Len(a) + 1..Len(a) + Len(b)
      BY <2>4, <2>5, <2>6
    <3>3. r[i] = b[i - (p - 1)]
      BY <2>5, <2>7, <3>2
    <3> QED
      BY <2>6, <3>1, <3>3
  <2> HIDE DEF n
  <2> SUFFICES ASSUME Once(q) PROVE Once(r) /\ ToSet(r) = ToSet(q) \ {j}
    BY <2>4, <2>7, <2>15 DEF r, n
  <2>10. \A i \in DOMAIN q : q[i] = j => i = p
    BY <2>2, <2>4 DEF Once
  <2>11. Once(r)
    BY <2>2, <2>4, <2>15, <2>8, <2>9 DEF Once
  <2>12. ASSUME NEW i \in 1..n - 1
         PROVE  r[i] \in ToSet(q) \ {j}
    <3>1. i \in 1..p - 1 \/ i \in p..n - 1
      BY <2>2, <2>4
    <3> QED
      BY <2>2, <2>4, <2>8, <2>9, <2>10, <3>1 DEF ToSet
  <2>13. ASSUME NEW k \in 1..n, q[k] # j
         PROVE  \E i \in 1..n - 1 : r[i] = q[k]
    <3>1. k # p
      BY <2>2, <2>13
    <3>2. CASE k < p
      <4>1. k \in 1..p - 1 /\ k \in 1..n - 1
        BY <2>4, <3>2
      <4> QED
        BY <2>8, <4>1
    <3>3. CASE k > p
      <4>1. k - 1 \in p..n - 1 /\ k - 1 \in 1..n - 1 /\ (k - 1) + 1 = k
        BY <2>4, <3>3
      <4> QED
        BY <2>9, <4>1
    <3> QED
      BY <2>4, <3>1, <3>2, <3>3
  <2>14. ToSet(r) = ToSet(q) \ {j}
    <3>1. ToSet(r) \subseteq ToSet(q) \ {j}
      BY <2>15, <2>12 DEF ToSet
    <3>2. ASSUME NEW x \in ToSet(q) \ {j} PROVE x \in ToSet(r)
      <4>1. PICK k \in 1..n : x = q[k]
        BY <2>4, <3>2 DEF ToSet
      <4>2. PICK i \in 1..n - 1 : r[i] = x
        BY <2>13, <3>2, <4>1
      <4> QED
        BY <2>15, <4>2 DEF ToSet
    <3> QED
      BY <3>1, <3>2
  <2> QED
    BY <2>11, <2>14
<1> QED
  BY <1>1, <1>2

-----------------------------------------------------------------------------
(* The books of the engine pool. *)

(* A worker that moves is counted where it comes to and not where it was.    *)
LEMMA EngineMoves ==
  ASSUME TypeOK, NEW w \in Workers, NEW p, At(w, p), NEW S
  PROVE  /\ Count(worker, S) \in Nat
         /\ worker[w] \in S => Count(worker, S) > 0
         /\ (p \in S <=> worker[w] \in S) => Count(worker', S) = Count(worker, S)
         /\ p \in S /\ worker[w] \notin S => Count(worker', S) = Count(worker, S) + 1
         /\ p \notin S /\ worker[w] \in S => Count(worker', S) = Count(worker, S) - 1
<1>1. Moved(worker, worker', w, p)
  BY DEF TypeOK, WorkerType, At, Moved
<1> QED
  BY <1>1, Moves

EngineVars == <<open, created, creating, borrowed, idle, ocr_closer, ocr_result, live>>

LEMMA BooksUntouched ==
  ASSUME Books, UNCHANGED EngineVars, UNCHANGED worker
  PROVE  Books'
BY DEF Books, EngineVars, Count, In

LEMMA BooksKept ==
  ASSUME TypeOK, Books, UNCHANGED EngineVars,
         NEW w \in Workers, NEW p \in Plain, worker[w] \in Plain, At(w, p)
  PROVE  Books'
<1>1. /\ Count(worker', Using) = Count(worker, Using)
      /\ Count(worker', Creating) = Count(worker, Creating)
      /\ Count(worker', Outside) = Count(worker, Outside)
  <2>1. /\ p \notin Using /\ worker[w] \notin Using
        /\ p \notin Creating /\ worker[w] \notin Creating
        /\ p \notin Outside /\ worker[w] \notin Outside
    BY DEF Plain
  <2> QED
    BY <2>1, EngineMoves
<1> QED
  BY <1>1 DEF Books, EngineVars

LEMMA BooksType ==
  ASSUME TypeOK
  PROVE  /\ created \in Nat /\ creating \in Nat /\ borrowed \in Nat /\ idle \in Nat
         /\ MaxEngines \in Nat /\ live \in Nat
BY PoolAssumption DEF TypeOK, OcrType, PoolAssumption

LEMMA ClaimBooks ==
  ASSUME TypeOK, Books, NEW w \in Workers, ClaimEngine(w)
  PROVE  Books'
<1>1. CASE UNCHANGED <<creating, borrowed, idle>> /\ (worker' = worker \/ At(w, "finish"))
  <2>1. UNCHANGED EngineVars
    BY <1>1 DEF ClaimEngine, EngineVars, ocrCloseVars
  <2>2. "claim" \in Plain /\ "finish" \in Plain /\ worker[w] = "claim"
    BY DEF ClaimEngine, Plain, Places, Using, Creating, Outside
  <2>3. CASE worker' = worker
    BY <2>1, <2>3, BooksUntouched
  <2>4. CASE At(w, "finish")
    BY <2>1, <2>2, <2>4, BooksKept
  <2> QED
    BY <1>1, <2>3, <2>4
<1>2. CASE /\ open /\ idle > 0
           /\ idle' = idle - 1 /\ borrowed' = borrowed + 1 /\ UNCHANGED creating
           /\ At(w, "process")
  <2>1. worker[w] = "claim" /\ UNCHANGED <<open, created, ocr_closer, ocr_result, live>>
    BY DEF ClaimEngine, ocrCloseVars
  <2>2. /\ "process" \in Using /\ "claim" \notin Using
        /\ "process" \notin Creating /\ "claim" \notin Creating
        /\ "process" \notin Outside /\ "claim" \notin Outside
    BY DEF Using, Creating, Outside
  <2>3. /\ Count(worker', Using) = Count(worker, Using) + 1
        /\ Count(worker', Creating) = Count(worker, Creating)
        /\ Count(worker', Outside) = Count(worker, Outside)
    BY <1>2, <2>1, <2>2, EngineMoves
  <2>4. Count(worker, Outside) \in Nat
    BY CountBound
  <2> QED
    BY <1>2, <2>1, <2>3, <2>4, BooksType DEF Books
<1>3. CASE /\ open /\ idle = 0 /\ Room
           /\ creating' = creating + 1 /\ UNCHANGED <<borrowed, idle>>
           /\ At(w, "create")
  <2>1. worker[w] = "claim" /\ UNCHANGED <<open, created, ocr_closer, ocr_result, live>>
    BY DEF ClaimEngine, ocrCloseVars
  <2>2. /\ "create" \notin Using /\ "claim" \notin Using
        /\ "create" \in Creating /\ "claim" \notin Creating
        /\ "create" \notin Outside /\ "claim" \notin Outside
    BY DEF Using, Creating, Outside
  <2>3. /\ Count(worker', Using) = Count(worker, Using)
        /\ Count(worker', Creating) = Count(worker, Creating) + 1
        /\ Count(worker', Outside) = Count(worker, Outside)
    BY <1>3, <2>1, <2>2, EngineMoves
  <2> QED
    BY <1>3, <2>1, <2>3, BooksType DEF Books, Room
<1> QED
  BY <1>1, <1>2, <1>3 DEF ClaimEngine, Give

LEMMA CreateBooks ==
  ASSUME TypeOK, Books, NEW w \in Workers, CreateEngine(w)
  PROVE  Books'
<1>1. worker[w] = "create"
      /\ UNCHANGED <<open, created, creating, borrowed, idle, ocr_closer, ocr_result>>
  BY DEF CreateEngine, ocrVars, ocrCloseVars
<1>2. /\ "create" \in Creating /\ "create" \notin Using /\ "create" \notin Outside
      /\ "created" \in Creating /\ "created" \notin Using /\ "created" \in Outside
      /\ "failed_create" \in Creating /\ "failed_create" \notin Using
      /\ "failed_create" \notin Outside
  BY DEF Using, Creating, Outside
<1>3. CASE live' = live + 1 /\ At(w, "created")
  <2>1. /\ Count(worker', Using) = Count(worker, Using)
        /\ Count(worker', Creating) = Count(worker, Creating)
        /\ Count(worker', Outside) = Count(worker, Outside) + 1
        /\ Count(worker, Outside) \in Nat
    BY <1>1, <1>2, <1>3, EngineMoves
  <2> QED
    BY <1>1, <1>3, <2>1, BooksType DEF Books
<1>4. CASE At(w, "failed_create") /\ UNCHANGED live
  <2>1. /\ Count(worker', Using) = Count(worker, Using)
        /\ Count(worker', Creating) = Count(worker, Creating)
        /\ Count(worker', Outside) = Count(worker, Outside)
    BY <1>1, <1>2, <1>4, EngineMoves
  <2> QED
    BY <1>1, <1>4, <2>1 DEF Books
<1> QED
  BY <1>3, <1>4 DEF CreateEngine

LEMMA AdmitBooks ==
  ASSUME TypeOK, Books, NEW w \in Workers, AdmitEngine(w)
  PROVE  Books'
<1>1. /\ creating' = creating - 1
      /\ UNCHANGED <<open, idle, ocr_closer, ocr_result, live>>
      /\ worker[w] \in Creating
  BY DEF AdmitEngine, ocrCloseVars, Creating
<1>2. /\ \A p \in {"created", "failed_create"} : p \in Creating /\ p \notin Using
      /\ "created" \in Outside /\ "failed_create" \notin Outside
      /\ "finish" \notin Creating /\ "finish" \notin Using /\ "finish" \notin Outside
      /\ "discard" \notin Creating /\ "discard" \notin Using /\ "discard" \in Outside
      /\ "process" \notin Creating /\ "process" \in Using /\ "process" \notin Outside
  BY DEF Using, Creating, Outside
<1>3. creating > 0 /\ Count(worker, Outside) \in Nat /\ Count(worker, Using) \in Nat
  <2>1. PICK p : At(w, p)
    BY DEF AdmitEngine, Give
  <2>2. Count(worker, Creating) > 0
    BY <1>1, <2>1, EngineMoves
  <2> QED
    BY <2>2, CountBound DEF Books
<1>4. CASE worker[w] = "failed_create" /\ At(w, "finish") /\ UNCHANGED <<created, borrowed>>
  <2>1. /\ Count(worker', Using) = Count(worker, Using)
        /\ Count(worker', Creating) = Count(worker, Creating) - 1
        /\ Count(worker', Outside) = Count(worker, Outside)
    BY <1>2, <1>4, EngineMoves
  <2> QED
    BY <1>1, <1>3, <1>4, <2>1, BooksType DEF Books
<1>5. CASE worker[w] = "created" /\ At(w, "discard") /\ UNCHANGED <<created, borrowed>>
  <2>1. /\ Count(worker', Using) = Count(worker, Using)
        /\ Count(worker', Creating) = Count(worker, Creating) - 1
        /\ Count(worker', Outside) = Count(worker, Outside)
    BY <1>2, <1>5, EngineMoves
  <2> QED
    BY <1>1, <1>3, <1>5, <2>1, BooksType DEF Books
<1>6. CASE /\ worker[w] = "created" /\ open
           /\ created' = created + 1 /\ borrowed' = borrowed + 1
           /\ At(w, "process")
  <2>1. /\ Count(worker', Using) = Count(worker, Using) + 1
        /\ Count(worker', Creating) = Count(worker, Creating) - 1
        /\ Count(worker', Outside) = Count(worker, Outside) - 1
    BY <1>2, <1>6, EngineMoves
  <2> QED
    BY <1>1, <1>3, <1>6, <2>1, BooksType DEF Books
<1> QED
  BY <1>4, <1>5, <1>6 DEF AdmitEngine, Give

LEMMA ProcessBooks ==
  ASSUME TypeOK, Books, NEW w \in Workers, Process(w)
  PROVE  Books'
<1>1. /\ UNCHANGED EngineVars /\ worker[w] = "process" /\ At(w, "lease")
  BY DEF Process, EngineVars, ocrVars, ocrCloseVars
<1>2. /\ "process" \in Using /\ "process" \notin Creating /\ "process" \notin Outside
      /\ "lease" \in Using /\ "lease" \notin Creating /\ "lease" \notin Outside
  BY DEF Using, Creating, Outside
<1>3. /\ Count(worker', Using) = Count(worker, Using)
      /\ Count(worker', Creating) = Count(worker, Creating)
      /\ Count(worker', Outside) = Count(worker, Outside)
  BY <1>1, <1>2, EngineMoves
<1> QED
  BY <1>1, <1>3 DEF Books, EngineVars

LEMMA DropLeaseBooks ==
  ASSUME TypeOK, Books, NEW w \in Workers, DropLease(w)
  PROVE  Books'
<1>1. /\ worker[w] = "lease" /\ borrowed' = borrowed - 1
      /\ UNCHANGED <<open, creating, ocr_closer, ocr_result, live>>
  BY DEF DropLease, ocrCloseVars
<1>2. /\ "lease" \in Using /\ "lease" \notin Creating /\ "lease" \notin Outside
      /\ "discard" \notin Using /\ "discard" \notin Creating /\ "discard" \in Outside
      /\ "finish" \notin Using /\ "finish" \notin Creating /\ "finish" \notin Outside
  BY DEF Using, Creating, Outside
<1>3. borrowed > 0 /\ Count(worker, Outside) \in Nat
  BY <1>1, <1>2, EngineMoves DEF Books, DropLease
<1>4. ocr_closer \in {"idle", "wait"} /\ created = idle + borrowed /\ ocr_result = "none"
  BY <1>3, BooksType DEF Books, TypeOK, WorkerType
<1>5. CASE created' = created - 1 /\ At(w, "discard") /\ UNCHANGED idle
  <2>1. /\ Count(worker', Using) = Count(worker, Using) - 1
        /\ Count(worker', Creating) = Count(worker, Creating)
        /\ Count(worker', Outside) = Count(worker, Outside) + 1
    BY <1>1, <1>2, <1>5, EngineMoves
  <2> QED
    BY <1>1, <1>3, <1>4, <1>5, <2>1, BooksType DEF Books
<1>6. CASE idle' = idle + 1 /\ At(w, "finish") /\ UNCHANGED created
  <2>1. /\ Count(worker', Using) = Count(worker, Using) - 1
        /\ Count(worker', Creating) = Count(worker, Creating)
        /\ Count(worker', Outside) = Count(worker, Outside)
    BY <1>1, <1>2, <1>6, EngineMoves
  <2> QED
    BY <1>1, <1>3, <1>4, <1>6, <2>1, BooksType DEF Books
<1> QED
  BY <1>5, <1>6 DEF DropLease

LEMMA DestroyBooks ==
  ASSUME TypeOK, Books, NEW w \in Workers, DestroyEngine(w)
  PROVE  Books' /\ live > 0
<1>1. /\ worker[w] = "discard" /\ live' = live - 1 /\ At(w, "finish")
      /\ UNCHANGED <<open, created, creating, borrowed, idle, ocr_closer, ocr_result>>
  BY DEF DestroyEngine, ocrVars, ocrCloseVars
<1>2. /\ "discard" \notin Using /\ "discard" \notin Creating /\ "discard" \in Outside
      /\ "finish" \notin Using /\ "finish" \notin Creating /\ "finish" \notin Outside
  BY DEF Using, Creating, Outside
<1>3. /\ Count(worker', Using) = Count(worker, Using)
      /\ Count(worker', Creating) = Count(worker, Creating)
      /\ Count(worker', Outside) = Count(worker, Outside) - 1
      /\ Count(worker, Outside) \in Nat /\ Count(worker, Outside) > 0
  BY <1>1, <1>2, EngineMoves
<1> QED
  BY <1>1, <1>3, BooksType DEF Books

LEMMA OcrCloseBooks ==
  ASSUME TypeOK, Books, BeginOcrClose \/ OcrCloseStep
  PROVE  Books'
<1>1. Count(worker', Using) = Count(worker, Using)
      /\ Count(worker', Creating) = Count(worker, Creating)
      /\ Count(worker', Outside) = Count(worker, Outside)
  BY DEF BeginOcrClose, OcrCloseStep, TakeIdleEngines, DropIdleEngines, SettleOcrClose,
         workerVars, Count, In
<1>2. Count(worker, Outside) \in Nat
  BY CountBound
<1>3. CASE BeginOcrClose
  BY <1>1, <1>3 DEF BeginOcrClose, Books
<1>4. CASE TakeIdleEngines
  <2>1. /\ created = idle /\ creating = 0 /\ borrowed = 0 /\ ocr_result = "none" /\ ~open
        /\ ocr_closer' = "drop"
        /\ UNCHANGED <<open, creating, borrowed, idle, live>>
    <3>1. /\ ocr_closer = "wait" /\ creating = 0 /\ borrowed = 0 /\ ocr_closer' = "drop"
          /\ UNCHANGED <<open, creating, borrowed, idle, live>>
      BY <1>4 DEF TakeIdleEngines
    <3>2. created = idle + borrowed /\ ocr_result = "none" /\ ~open
      BY <3>1 DEF Books
    <3>3. created = idle
      BY <3>1, <3>2, BooksType
    <3> QED
      BY <3>1, <3>2, <3>3
  <2>2. ~(idle > created) /\ created - idle = 0
    BY <2>1, BooksType
  <2>3. created' = 0 /\ ocr_result' = "none"
    BY <1>4, <2>1, <2>2 DEF TakeIdleEngines
  <2>4. borrowed' = Count(worker', Using) /\ creating' = Count(worker', Creating)
        /\ live' = idle' + borrowed' + Count(worker', Outside)
    BY <1>1, <2>1 DEF Books
  <2>5. idle' + borrowed' + creating' <= MaxEngines /\ created' + creating' <= MaxEngines
    BY <2>1, <2>3, BooksType DEF Books
  <2> QED
    BY <2>1, <2>3, <2>4, <2>5 DEF Books
<1>5. CASE DropIdleEngines
  BY <1>1, <1>2, <1>5, BooksType DEF DropIdleEngines, Books
<1>6. CASE SettleOcrClose
  BY <1>1, <1>6, BooksType DEF SettleOcrClose, Books, ocrVars
<1> QED
  BY <1>3, <1>4, <1>5, <1>6 DEF OcrCloseStep

-----------------------------------------------------------------------------
(* Who holds the jobs. *)

JobVars == <<lifecycle, reserved, queue, in_flight, close_result, closer, drained,
             call, kind, completion, finishes, task, withdrawal>>

LEMMA JobsUntouched ==
  ASSUME JobsInv, UNCHANGED JobVars, UNCHANGED worker
  PROVE  JobsInv'
<1>1. CloseInv' /\ ReservedInv'
  BY DEF JobsInv, JobVars, CloseInv, ReservedInv
<1>2. AnswerInv'
  BY DEF JobsInv, JobVars, AnswerInv, Owed, Held
<1>3. QueueInv(queue)' /\ QueueInv(drained)'
  BY DEF JobsInv, JobVars, QueueInv, Owed
<1>4. TaskInv'
  BY DEF JobsInv, JobVars, TaskInv, Owed, Count, In
<1>5. WithdrawInv'
  BY DEF JobsInv, JobVars, WithdrawInv, Owed
<1> QED
  BY <1>1, <1>2, <1>3, <1>4, <1>5 DEF JobsInv

(* The places of a worker with a job, and of one without.                    *)
LEMMA PlacesSplit ==
  /\ Owing \subseteq Places /\ Working \subseteq Places /\ Vacant \subseteq Places
  /\ Owing \cap Vacant = {} /\ Working \cap Vacant = {}
  /\ Working = Owing \cup {"release"} /\ "release" \notin Owing
  /\ Places = Working \cup Vacant
  /\ "exited" \in Vacant /\ "exited" \notin Working /\ "exited" \notin Owing
BY DEF Owing, Working, Vacant, Places

(* A worker goes on with its job. *)
LEMMA WorksOn ==
  ASSUME TypeOK, JobsInv, UNCHANGED JobVars,
         NEW w \in Workers, NEW p \in Owing, worker[w] \in Owing, At(w, p),
         p \in {"acquire", "claim"} => kind[task[w]] = "ocr"
  PROVE  JobsInv'
<1>1. /\ worker'[w] = p
      /\ \A v \in Workers \ {w} : worker'[v] = worker[v]
      /\ \A v \in Workers : worker'[v] \in Owing <=> worker[v] \in Owing
      /\ \A v \in Workers : worker'[v] \in Working <=> worker[v] \in Working
      /\ worker[w] # "exited"
  BY PlacesSplit DEF At, TypeOK, WorkerType
<1>2. CloseInv' /\ ReservedInv'
  BY <1>1 DEF JobsInv, JobVars, CloseInv, ReservedInv
<1>3. AnswerInv'
  BY <1>1 DEF JobsInv, JobVars, AnswerInv, Owed, Held
<1>4. QueueInv(queue)' /\ QueueInv(drained)'
  BY <1>1 DEF JobsInv, JobVars, QueueInv, Owed
<1>5. TaskInv'
  <2>1. Count(worker', Working) = Count(worker, Working)
    BY <1>1, EngineMoves
  <2>2. in_flight' = Count(worker', Working)
    BY <2>1 DEF JobsInv, JobVars, TaskInv
  <2>3. \A v \in Workers : worker'[v] \in {"acquire", "claim"} => kind'[task'[v]] = "ocr"
    BY <1>1 DEF JobsInv, JobVars, TaskInv
  <2>4. /\ \A v \in Workers : worker'[v] \in Working <=> task'[v] # NoJob
        /\ \A v \in Workers : worker'[v] \in Owing => Owed(task[v])'
    BY <1>1 DEF JobsInv, JobVars, TaskInv, Owed
  <2>5. \A u, v \in Workers :
          worker'[u] \in Owing /\ worker'[v] \in Owing /\ task'[u] = task'[v] => u = v
    BY <1>1 DEF JobsInv, JobVars, TaskInv
  <2> QED
    BY <2>2, <2>3, <2>4, <2>5 DEF TaskInv
<1>6. WithdrawInv'
  BY <1>1 DEF JobsInv, JobVars, WithdrawInv, Owed
<1> QED
  BY <1>2, <1>3, <1>4, <1>5, <1>6 DEF JobsInv

(* A worker without a job goes on without one. *)
LEMMA StaysVacant ==
  ASSUME TypeOK, JobsInv, UNCHANGED JobVars,
         NEW w \in Workers, NEW p \in Vacant,
         worker[w] \in Vacant \ {"exited"}, At(w, p)
  PROVE  JobsInv'
<1>1. /\ worker'[w] = p
      /\ \A v \in Workers \ {w} : worker'[v] = worker[v]
      /\ \A v \in Workers : worker'[v] \in Owing <=> worker[v] \in Owing
      /\ \A v \in Workers : worker'[v] \in Working <=> worker[v] \in Working
      /\ worker[w] # "exited" /\ p \notin {"acquire", "claim"}
  BY PlacesSplit DEF At, TypeOK, WorkerType, Vacant
<1>2. CloseInv' /\ ReservedInv'
  BY <1>1 DEF JobsInv, JobVars, CloseInv, ReservedInv
<1>3. AnswerInv'
  BY <1>1 DEF JobsInv, JobVars, AnswerInv, Owed, Held
<1>4. QueueInv(queue)' /\ QueueInv(drained)'
  BY <1>1 DEF JobsInv, JobVars, QueueInv, Owed
<1>5. TaskInv'
  <2>1. Count(worker', Working) = Count(worker, Working)
    BY <1>1, EngineMoves
  <2>2. in_flight' = Count(worker', Working)
    BY <2>1 DEF JobsInv, JobVars, TaskInv
  <2>3. \A v \in Workers : worker'[v] \in {"acquire", "claim"} => kind'[task'[v]] = "ocr"
    BY <1>1 DEF JobsInv, JobVars, TaskInv
  <2>4. /\ \A v \in Workers : worker'[v] \in Working <=> task'[v] # NoJob
        /\ \A v \in Workers : worker'[v] \in Owing => Owed(task[v])'
    BY <1>1 DEF JobsInv, JobVars, TaskInv, Owed
  <2>5. \A u, v \in Workers :
          worker'[u] \in Owing /\ worker'[v] \in Owing /\ task'[u] = task'[v] => u = v
    BY <1>1 DEF JobsInv, JobVars, TaskInv
  <2> QED
    BY <2>2, <2>3, <2>4, <2>5 DEF TaskInv
<1>6. WithdrawInv'
  BY <1>1 DEF JobsInv, JobVars, WithdrawInv, Owed
<1> QED
  BY <1>2, <1>3, <1>4, <1>5, <1>6 DEF JobsInv

(* A committed call may begin to wait, no other call moves.                  *)
CallsHold ==
  \A i \in Jobs : call'[i] = call[i] \/ (call[i] = "committed" /\ call'[i] = "wait")

(* The answer of one job is given; no other job is touched.                  *)
LEMMA Finished ==
  ASSUME TypeOK, JobsInv, NEW j \in Jobs, NEW answer \in Answers, Finish(j, answer), Owed(j),
         CallsHold
  PROVE  /\ ~Owed(j)' /\ finishes'[j] = 1 /\ completion'[j] # "none"
         /\ call[j] \in {"committed", "wait"} /\ call'[j] \in {"committed", "wait"}
         /\ \A i \in Jobs \ {j} : /\ Owed(i)' = Owed(i)
                                  /\ completion'[i] = completion[i]
                                  /\ finishes'[i] = finishes[i]
<1>1. finishes[j] = 0 /\ completion[j] = "none" /\ call[j] \in {"committed", "wait"}
  BY DEF JobsInv, AnswerInv, Owed
<1>2. "none" \notin Answers
  BY DEF Answers
<1>3. /\ completion'[j] = answer /\ finishes'[j] = 1
      /\ \A i \in Jobs \ {j} : completion'[i] = completion[i] /\ finishes'[i] = finishes[i]
  BY <1>1 DEF Finish, TypeOK, CallType
<1> QED
  BY <1>1, <1>2, <1>3 DEF Owed, CallsHold

(* A worker answers its job. *)
LEMMA WorkerAnswers ==
  ASSUME TypeOK, JobsInv, NEW w \in Workers, NEW answer \in Answers,
         worker[w] \in Owing, At(w, "release"), Finish(task[w], answer),
         UNCHANGED <<lifecycle, reserved, queue, in_flight, close_result, closer, drained,
                     call, kind, task, withdrawal>>
  PROVE  JobsInv'
<1>1. /\ worker'[w] = "release"
      /\ \A v \in Workers \ {w} : worker'[v] = worker[v]
      /\ \A v \in Workers : worker'[v] \in Owing <=> worker[v] \in Owing /\ v # w
      /\ \A v \in Workers : worker'[v] \in Working <=> worker[v] \in Working
      /\ worker[w] # "exited"
  BY PlacesSplit DEF At, TypeOK, WorkerType
<1> DEFINE j == task[w]
<1>2. j \in Jobs /\ Owed(j)
  BY PlacesSplit DEF JobsInv, TaskInv, TypeOK, WorkerType
<1>3. /\ ~Owed(j)' /\ finishes'[j] = 1 /\ completion'[j] # "none"
      /\ call[j] \in {"committed", "wait"}
      /\ \A i \in Jobs \ {j} : /\ Owed(i)' = Owed(i)
                               /\ completion'[i] = completion[i]
                               /\ finishes'[i] = finishes[i]
  BY <1>2, Finished DEF CallsHold
<1>4. CloseInv' /\ ReservedInv'
  BY <1>1 DEF JobsInv, CloseInv, ReservedInv
<1>5. AnswerInv'
  <2> SUFFICES ASSUME NEW i \in Jobs
               PROVE  /\ call'[i] \in {"idle", "admit", "reserved"} => completion'[i] = "none"
                      /\ finishes'[i] =
                           IF call'[i] \in {"committed", "wait"} /\ completion'[i] # "none"
                           THEN 1 ELSE 0
                      /\ Owed(i)' => Held(i)'
    BY DEF AnswerInv
  <2>1. CASE i = j
    BY <1>3, <2>1
  <2>2. CASE i # j
    <3>1. Held(i) => Held(i)'
      BY <1>1, <2>2 DEF Held
    <3> QED
      BY <1>3, <2>2, <3>1 DEF JobsInv, AnswerInv
  <2> QED
    BY <2>1, <2>2
<1>6. QueueInv(queue)' /\ QueueInv(drained)'
  <2>1. j \notin ToSet(queue) /\ j \notin ToSet(drained)
    BY DEF JobsInv, QueueInv
  <2>2. ToSet(queue) \subseteq Jobs /\ ToSet(drained) \subseteq Jobs
    BY Contained DEF TypeOK, PoolType
  <2> QED
    BY <1>1, <1>3, <2>1, <2>2 DEF JobsInv, QueueInv
<1>7. TaskInv'
  <2>1. Count(worker', Working) = Count(worker, Working)
    BY <1>1, PlacesSplit, EngineMoves
  <2>2. in_flight' = Count(worker', Working)
    BY <2>1 DEF JobsInv, TaskInv
  <2>3. \A v \in Workers : worker'[v] \in {"acquire", "claim"} => kind'[task'[v]] = "ocr"
    BY <1>1 DEF JobsInv, TaskInv
  <2>4. \A v \in Workers : worker'[v] \in Working <=> task'[v] # NoJob
    BY <1>1 DEF JobsInv, TaskInv
  <2>5. \A v \in Workers : worker'[v] \in Owing => Owed(task[v])'
    <3> SUFFICES ASSUME NEW v \in Workers, worker[v] \in Owing, v # w
                 PROVE  Owed(task[v])'
      BY <1>1
    <3>1. task[v] \in Jobs \ {j} /\ Owed(task[v])
      BY PlacesSplit DEF JobsInv, TaskInv, TypeOK, WorkerType
    <3>2. PICK i \in Jobs \ {j} : i = task[v]
      BY <3>1
    <3>3. Owed(i)'
      BY <1>3, <3>1, <3>2
    <3> QED
      BY <3>2, <3>3 DEF Owed
  <2>6. \A u, v \in Workers :
          worker'[u] \in Owing /\ worker'[v] \in Owing /\ task'[u] = task'[v] => u = v
    BY <1>1 DEF JobsInv, TaskInv
  <2> QED
    BY <2>2, <2>3, <2>4, <2>5, <2>6 DEF TaskInv
<1>8. WithdrawInv'
  <2> SUFFICES ASSUME NEW i \in Jobs, withdrawal[i] = "answer"
               PROVE  /\ Owed(i)'
                      /\ i \notin ToSet(queue) \cup ToSet(drained)
                      /\ \A v \in Workers : worker'[v] \in Owing => task[v] # i
    BY DEF WithdrawInv
  <2>1. i # j
    BY DEF JobsInv, WithdrawInv
  <2> QED
    BY <1>1, <1>3, <2>1 DEF JobsInv, WithdrawInv
<1> QED
  BY <1>4, <1>5, <1>6, <1>7, <1>8 DEF JobsInv

(* The workers are left alone and none of their jobs is answered.            *)
LEMMA TasksKept ==
  ASSUME TypeOK, JobsInv, UNCHANGED <<worker, task, kind, in_flight>>,
         \A i \in Jobs : \/ Owed(i) => Owed(i)'
                        \/ \A w \in Workers : worker[w] \in Owing => task[w] # i
  PROVE  TaskInv'
<1>1. \A v \in Workers : worker[v] \in Owing => Owed(task[v])'
  <2> SUFFICES ASSUME NEW v \in Workers, worker[v] \in Owing PROVE Owed(task[v])'
    OBVIOUS
  <2>1. task[v] \in Jobs /\ Owed(task[v])
    BY PlacesSplit DEF JobsInv, TaskInv, TypeOK, WorkerType
  <2>2. PICK i \in Jobs : i = task[v]
    BY <2>1
  <2>3. Owed(i)'
    BY <2>1, <2>2
  <2> QED
    BY <2>2, <2>3 DEF Owed
<1> QED
  BY <1>1 DEF JobsInv, TaskInv, Count, In

(* A call is refused: it never became a job, and gives its place back.       *)
LEMMA Refused ==
  ASSUME TypeOK, JobsInv, NEW j \in Jobs, NEW answer \in Answers,
         call[j] \in {"idle", "admit", "reserved"}, Goto(j, "done"),
         completion' = [completion EXCEPT ![j] = answer],
         reserved' = reserved \/ (call[j] = "reserved" /\ reserved' = 0),
         UNCHANGED <<lifecycle, queue, in_flight, close_result, closer, drained,
                     kind, finishes, task, worker, withdrawal>>
  PROVE  JobsInv'
<1>1. /\ call'[j] = "done" /\ \A i \in Jobs \ {j} : call'[i] = call[i]
      /\ \A i \in Jobs \ {j} : completion'[i] = completion[i]
  BY DEF Goto, TypeOK, CallType
<1>2. \A i \in Jobs : Owed(i)' = Owed(i)
  BY <1>1 DEF Owed
<1>3. CloseInv'
  BY DEF JobsInv, CloseInv
<1>4. ReservedInv'
  BY <1>1 DEF JobsInv, ReservedInv
<1>5. AnswerInv'
  <2>1. \A i \in Jobs : Held(i)' = Held(i)
    BY DEF Held
  <2>2. finishes[j] = 0
    BY DEF JobsInv, AnswerInv
  <2> QED
    BY <1>1, <1>2, <2>1, <2>2 DEF JobsInv, AnswerInv
<1>6. QueueInv(queue)' /\ QueueInv(drained)'
  <2>1. ToSet(queue) \subseteq Jobs /\ ToSet(drained) \subseteq Jobs
    BY Contained DEF TypeOK, PoolType
  <2> QED
    BY <1>2, <2>1 DEF JobsInv, QueueInv
<1>7. TaskInv'
  BY <1>2, TasksKept
<1>8. WithdrawInv'
  BY <1>2 DEF JobsInv, WithdrawInv
<1> QED
  BY <1>3, <1>4, <1>5, <1>6, <1>7, <1>8 DEF JobsInv

(* A call proceeds to the admission, or from there to a reserved place.      *)
LEMMA Admitted ==
  ASSUME TypeOK, JobsInv, NEW j \in Jobs,
         \/ call[j] = "idle" /\ Goto(j, "admit") /\ UNCHANGED reserved
         \/ /\ call[j] = "admit" /\ Goto(j, "reserved")
            /\ lifecycle = "Open" /\ reserved = 0 /\ reserved' = 1
            /\ Len(queue) < MaxQueued,
         UNCHANGED <<lifecycle, queue, in_flight, close_result, closer, drained,
                     kind, completion, finishes, task, worker, withdrawal>>
  PROVE  JobsInv'
<1>1. /\ call[j] \in {"idle", "admit"}
      /\ call'[j] \in {"admit", "reserved"} /\ \A i \in Jobs \ {j} : call'[i] = call[i]
      /\ call'[j] = "reserved" => reserved = 0 /\ reserved' = 1 /\ Len(queue) < MaxQueued
  BY DEF Goto, TypeOK, CallType
<1>2. \A i \in Jobs : Owed(i)' = Owed(i)
  BY <1>1 DEF Owed
<1>3. CloseInv'
  BY DEF JobsInv, CloseInv
<1>4. ReservedInv'
  BY <1>1 DEF JobsInv, ReservedInv
<1>5. AnswerInv'
  <2>1. \A i \in Jobs : Held(i)' = Held(i)
    BY DEF Held
  <2> QED
    BY <1>1, <1>2, <2>1 DEF JobsInv, AnswerInv
<1>6. QueueInv(queue)' /\ QueueInv(drained)'
  <2>1. ToSet(queue) \subseteq Jobs /\ ToSet(drained) \subseteq Jobs
    BY Contained DEF TypeOK, PoolType
  <2> QED
    BY <1>2, <2>1 DEF JobsInv, QueueInv
<1>7. TaskInv'
  BY <1>2, TasksKept
<1>8. WithdrawInv'
  BY <1>2 DEF JobsInv, WithdrawInv
<1> QED
  BY <1>3, <1>4, <1>5, <1>6, <1>7, <1>8 DEF JobsInv

(* The reserved place is taken, which is before close takes the queue.       *)
LEMMA Committed ==
  ASSUME TypeOK, JobsInv, NEW j \in Jobs,
         call[j] = "reserved", Goto(j, "committed"), reserved' = 0,
         queue' = Append(queue, j),
         UNCHANGED <<lifecycle, in_flight, close_result, closer, drained,
                     kind, completion, finishes, task, worker, withdrawal>>
  PROVE  JobsInv'
<1>1. /\ call'[j] = "committed" /\ \A i \in Jobs \ {j} : call'[i] = call[i]
      /\ completion[j] = "none" /\ finishes[j] = 0
      /\ reserved = 1 /\ \A i \in Jobs \ {j} : call[i] # "reserved"
  BY DEF Goto, TypeOK, CallType, JobsInv, AnswerInv, ReservedInv
<1>2. Owed(j)' /\ ~Owed(j) /\ \A i \in Jobs \ {j} : Owed(i)' = Owed(i)
  BY <1>1 DEF Owed
<1>3. drained = << >> /\ closer \in {"idle", "drain"}
  BY <1>1 DEF JobsInv, CloseInv, TypeOK, PoolType
<1>4. /\ j \notin ToSet(queue) /\ ToSet(queue) \subseteq Jobs /\ Once(queue)
      /\ ToSet(queue') = ToSet(queue) \cup {j} /\ Once(queue')
  <2>1. queue \in Seq(Jobs) /\ Once(queue) /\ j \notin ToSet(queue)
    BY <1>2 DEF JobsInv, QueueInv, TypeOK, PoolType
  <2> QED
    BY <2>1, AppendQueue, Contained
<1>5. CloseInv'
  BY <1>3 DEF JobsInv, CloseInv
<1>6. ReservedInv'
  BY <1>1 DEF ReservedInv
<1>7. AnswerInv'
  <2>1. \A i \in Jobs : Held(i) => Held(i)'
    BY <1>4 DEF Held
  <2>2. Held(j)'
    BY <1>4 DEF Held
  <2> QED
    BY <1>1, <1>2, <2>1, <2>2 DEF JobsInv, AnswerInv
<1>8. QueueInv(queue)'
  <2>1. \A i \in ToSet(queue') : Owed(i)'
    BY <1>2, <1>4 DEF JobsInv, QueueInv
  <2>2. \A v \in Workers : worker[v] \in Owing => task[v] # j
    BY <1>2 DEF JobsInv, TaskInv
  <2>3. \A v \in Workers : worker[v] \in Owing => task[v] \notin ToSet(queue')
    BY <1>4, <2>2 DEF JobsInv, QueueInv
  <2> QED
    BY <1>4, <2>1, <2>3 DEF QueueInv
<1>9. QueueInv(drained)'
  BY <1>3, EmptyQueue DEF QueueInv
<1>10. TaskInv'
  BY <1>2, TasksKept
<1>11. WithdrawInv'
  BY <1>2, <1>4 DEF JobsInv, WithdrawInv
<1> QED
  BY <1>5, <1>6, <1>7, <1>8, <1>9, <1>10, <1>11 DEF JobsInv

(* A cancelled job leaves the queue for the hands of the cancelling thread.  *)
LEMMA Withdrawn ==
  ASSUME TypeOK, JobsInv, NEW j \in Jobs,
         j \in ToSet(queue), queue' = Without(queue, j),
         withdrawal' = [withdrawal EXCEPT ![j] = "answer"],
         UNCHANGED <<lifecycle, reserved, in_flight, close_result, closer, drained,
                     call, kind, completion, finishes, task, worker>>
  PROVE  JobsInv'
<1>1. Owed(j) /\ \A i \in Jobs : Owed(i)' = Owed(i)
  BY DEF JobsInv, QueueInv, Owed
<1>2. /\ withdrawal'[j] = "answer"
      /\ \A i \in Jobs \ {j} : withdrawal'[i] = withdrawal[i]
  BY DEF TypeOK, CallType
<1>3. /\ ToSet(queue') = ToSet(queue) \ {j} /\ Once(queue') /\ ToSet(queue) \subseteq Jobs
      /\ queue \in Seq(Jobs) /\ queue' \in Seq(Jobs) /\ Len(queue') <= Len(queue)
  <2>1. queue \in Seq(Jobs) /\ Once(queue)
    BY DEF JobsInv, QueueInv, TypeOK, PoolType
  <2> QED
    BY <2>1, WithoutQueue, Contained
<1>4. queue # << >>
  BY EmptyQueue
<1>5. drained = << >> /\ closer \in {"idle", "drain"}
  BY <1>4 DEF JobsInv, CloseInv, TypeOK, PoolType
<1>6. CloseInv'
  BY <1>5 DEF JobsInv, CloseInv
<1>7. ReservedInv'
  <2>1. Len(queue) < MaxQueued => Len(queue') < MaxQueued
    BY <1>3, PoolAssumption DEF PoolAssumption
  <2> QED
    BY <2>1 DEF JobsInv, ReservedInv
<1>8. AnswerInv'
  <2>1. \A i \in Jobs : Held(i) => Held(i)'
    BY <1>2, <1>3 DEF Held
  <2> QED
    BY <1>1, <2>1 DEF JobsInv, AnswerInv
<1>9. QueueInv(queue)'
  BY <1>1, <1>3 DEF JobsInv, QueueInv
<1>10. QueueInv(drained)'
  BY <1>5, EmptyQueue DEF QueueInv
<1>11. TaskInv'
  BY <1>1, TasksKept
<1>12. WithdrawInv'
  <2>1. ToSet(drained) = {} /\ \A w \in Workers : worker[w] \in Owing => task[w] # j
    BY <1>5, EmptyQueue DEF JobsInv, QueueInv
  <2> QED
    BY <1>1, <1>2, <1>3, <2>1 DEF JobsInv, WithdrawInv
<1> QED
  BY <1>6, <1>7, <1>8, <1>9, <1>10, <1>11, <1>12 DEF JobsInv

(* The cancelling thread answers the job it took out of the queue.           *)
LEMMA WithdrawnAnswered ==
  ASSUME TypeOK, JobsInv, NEW j \in Jobs, NEW answer \in Answers,
         withdrawal[j] = "answer", Finish(j, answer),
         withdrawal' = [withdrawal EXCEPT ![j] = "notify"],
         UNCHANGED <<lifecycle, reserved, queue, in_flight, close_result, closer, drained,
                     call, kind, task, worker>>
  PROVE  JobsInv'
<1>1. /\ Owed(j) /\ j \notin ToSet(queue) \cup ToSet(drained)
      /\ \A w \in Workers : worker[w] \in Owing => task[w] # j
  BY DEF JobsInv, WithdrawInv
<1>2. /\ ~Owed(j)' /\ finishes'[j] = 1 /\ completion'[j] # "none"
      /\ call[j] \in {"committed", "wait"} /\ call'[j] \in {"committed", "wait"}
      /\ \A i \in Jobs \ {j} : /\ Owed(i)' = Owed(i)
                               /\ completion'[i] = completion[i]
                               /\ finishes'[i] = finishes[i]
  BY <1>1, Finished DEF CallsHold
<1>3. /\ withdrawal'[j] = "notify"
      /\ \A i \in Jobs \ {j} : withdrawal'[i] = withdrawal[i]
  BY DEF TypeOK, CallType
<1>4. CloseInv' /\ ReservedInv'
  BY DEF JobsInv, CloseInv, ReservedInv
<1>5. AnswerInv'
  <2> SUFFICES ASSUME NEW i \in Jobs
               PROVE  /\ call'[i] \in {"idle", "admit", "reserved"} => completion'[i] = "none"
                      /\ finishes'[i] =
                           IF call'[i] \in {"committed", "wait"} /\ completion'[i] # "none"
                           THEN 1 ELSE 0
                      /\ Owed(i)' => Held(i)'
    BY DEF AnswerInv
  <2>1. CASE i = j
    BY <1>2, <2>1
  <2>2. CASE i # j
    <3>1. Held(i) => Held(i)'
      BY <1>3, <2>2 DEF Held
    <3> QED
      BY <1>2, <2>2, <3>1 DEF JobsInv, AnswerInv
  <2> QED
    BY <2>1, <2>2
<1>6. QueueInv(queue)' /\ QueueInv(drained)'
  <2>1. ToSet(queue) \subseteq Jobs /\ ToSet(drained) \subseteq Jobs
    BY Contained DEF TypeOK, PoolType
  <2> QED
    BY <1>1, <1>2, <2>1 DEF JobsInv, QueueInv
<1>7. TaskInv'
  BY <1>1, <1>2, TasksKept
<1>8. WithdrawInv'
  BY <1>2, <1>3 DEF JobsInv, WithdrawInv
<1> QED
  BY <1>4, <1>5, <1>6, <1>7, <1>8 DEF JobsInv

(* A call begins to wait and nothing else happens. *)
LEMMA Waits ==
  ASSUME TypeOK, JobsInv, CallsHold,
         \A i \in Jobs : withdrawal'[i] = "answer" <=> withdrawal[i] = "answer",
         UNCHANGED <<lifecycle, reserved, queue, in_flight, close_result, closer, drained,
                     kind, completion, finishes, task, worker>>
  PROVE  JobsInv'
<1>1. \A i \in Jobs : Owed(i)' = Owed(i) /\ Held(i)' = Held(i)
  BY DEF Owed, Held, CallsHold
<1>2. CloseInv' /\ ReservedInv'
  BY DEF JobsInv, CloseInv, ReservedInv, CallsHold
<1>3. AnswerInv'
  BY <1>1 DEF JobsInv, AnswerInv, CallsHold
<1>4. QueueInv(queue)' /\ QueueInv(drained)'
  <2>1. ToSet(queue) \subseteq Jobs /\ ToSet(drained) \subseteq Jobs
    BY Contained DEF TypeOK, PoolType
  <2> QED
    BY <1>1, <2>1 DEF JobsInv, QueueInv
<1>5. TaskInv'
  BY <1>1, TasksKept
<1>6. WithdrawInv'
  BY <1>1 DEF JobsInv, WithdrawInv
<1> QED
  BY <1>2, <1>3, <1>4, <1>5, <1>6 DEF JobsInv

(* A worker takes the first job of the queue. *)
LEMMA Taken ==
  ASSUME TypeOK, JobsInv, NEW w \in Workers,
         worker[w] = "idle", At(w, "run"), queue # << >>, queue' = Tail(queue),
         task' = [task EXCEPT ![w] = Head(queue)], in_flight' = in_flight + 1,
         UNCHANGED <<lifecycle, reserved, close_result, closer, drained,
                     call, kind, completion, finishes, withdrawal>>
  PROVE  JobsInv'
<1> DEFINE j == Head(queue)
<1>1. "idle" \in Vacant /\ "run" \in Owing
  BY DEF Vacant, Owing
<1>2. /\ worker'[w] = "run" /\ task'[w] = j
      /\ \A v \in Workers \ {w} : worker'[v] = worker[v] /\ task'[v] = task[v]
      /\ \A v \in Workers : worker'[v] \in Owing <=> worker[v] \in Owing \/ v = w
      /\ \A v \in Workers : worker'[v] \in Working <=> worker[v] \in Working \/ v = w
      /\ worker[w] \notin Working /\ worker[w] \notin Owing /\ worker[w] # "exited"
  BY <1>1, PlacesSplit DEF At, TypeOK, WorkerType
<1>3. /\ ToSet(queue') = ToSet(queue) \ {j} /\ Once(queue') /\ ToSet(queue) \subseteq Jobs
      /\ j \in Jobs /\ j \in ToSet(queue) /\ Once(queue)
      /\ queue \in Seq(Jobs) /\ Len(queue') = Len(queue) - 1
  <2>1. queue \in Seq(Jobs) /\ Once(queue)
    BY DEF JobsInv, QueueInv, TypeOK, PoolType
  <2> QED
    BY <2>1, TailQueue, Contained
<1>4. drained = << >> /\ closer \in {"idle", "drain"}
  BY DEF JobsInv, CloseInv, TypeOK, PoolType
<1>5. Owed(j) /\ j # NoJob
  BY <1>3, PoolAssumption DEF JobsInv, QueueInv, PoolAssumption
<1>6. \A i \in Jobs : Owed(i)' = Owed(i)
  BY DEF Owed
<1>7. CloseInv' /\ ReservedInv'
  <2>1. Len(queue) < MaxQueued => Len(queue') < MaxQueued
    BY <1>3, PoolAssumption DEF PoolAssumption
  <2> QED
    BY <1>4, <2>1 DEF JobsInv, CloseInv, ReservedInv
<1>8. AnswerInv'
  <2>1. \A i \in Jobs : Held(i) => Held(i)'
    <3> SUFFICES ASSUME NEW i \in Jobs, Held(i) PROVE Held(i)'
      OBVIOUS
    <3>1. CASE i = j
      BY <1>2, <3>1 DEF Held
    <3>2. CASE i \in ToSet(queue) \ {j}
      BY <1>3, <3>2 DEF Held
    <3>3. CASE \E v \in Workers : task[v] = i /\ worker[v] \in Owing
      BY <1>2, <3>3 DEF Held
    <3>4. CASE withdrawal[i] = "answer"
      BY <3>4 DEF Held
    <3> QED
      BY <1>4, <3>1, <3>2, <3>3, <3>4, EmptyQueue DEF Held
  <2> QED
    BY <1>6, <2>1 DEF JobsInv, AnswerInv
<1>9. QueueInv(queue)'
  BY <1>2, <1>3, <1>6 DEF JobsInv, QueueInv
<1>10. QueueInv(drained)'
  BY <1>4, EmptyQueue DEF QueueInv
<1>11. TaskInv'
  <2>1. Count(worker', Working) = Count(worker, Working) + 1
    BY <1>2, PlacesSplit, EngineMoves
  <2>2. in_flight' = Count(worker', Working)
    BY <2>1 DEF JobsInv, TaskInv
  <2>3. \A v \in Workers : worker'[v] \in Working <=> task'[v] # NoJob
    BY <1>2, <1>5 DEF JobsInv, TaskInv
  <2>4. \A v \in Workers : worker'[v] \in Owing => Owed(task[v])'
    <3> SUFFICES ASSUME NEW v \in Workers, worker'[v] \in Owing PROVE Owed(task[v])'
      OBVIOUS
    <3>1. task'[v] \in Jobs /\ Owed(task'[v])
      BY <1>2, <1>3, <1>5, PlacesSplit DEF JobsInv, TaskInv, TypeOK, WorkerType
    <3> QED
      BY <3>1 DEF Owed
  <2>5. \A v \in Workers : worker'[v] \in {"acquire", "claim"} => kind'[task'[v]] = "ocr"
    BY <1>2 DEF JobsInv, TaskInv
  <2>6. \A u, v \in Workers :
          worker'[u] \in Owing /\ worker'[v] \in Owing /\ task'[u] = task'[v] => u = v
    <3>1. \A v \in Workers : worker[v] \in Owing => task[v] # j
      BY <1>3 DEF JobsInv, QueueInv
    <3> QED
      BY <1>2, <3>1 DEF JobsInv, TaskInv
  <2> QED
    BY <2>2, <2>3, <2>4, <2>5, <2>6 DEF TaskInv
<1>12. WithdrawInv'
  BY <1>2, <1>3, <1>6 DEF JobsInv, WithdrawInv
<1> QED
  BY <1>7, <1>8, <1>9, <1>10, <1>11, <1>12 DEF JobsInv

(* A worker whose job is answered lets go of it. *)
LEMMA Released ==
  ASSUME TypeOK, JobsInv, NEW w \in Workers,
         worker[w] = "release", At(w, "idle"),
         task' = [task EXCEPT ![w] = NoJob], in_flight' = in_flight - 1,
         UNCHANGED <<lifecycle, reserved, queue, close_result, closer, drained,
                     call, kind, completion, finishes, withdrawal>>
  PROVE  JobsInv' /\ in_flight > 0
<1>1. "idle" \in Vacant
  BY DEF Vacant
<1>2. /\ worker'[w] = "idle" /\ task'[w] = NoJob
      /\ \A v \in Workers \ {w} : worker'[v] = worker[v] /\ task'[v] = task[v]
      /\ \A v \in Workers : worker'[v] \in Owing <=> worker[v] \in Owing
      /\ \A v \in Workers : worker'[v] \in Working <=> worker[v] \in Working /\ v # w
      /\ worker[w] \in Working /\ worker[w] \notin Owing /\ worker[w] # "exited"
  BY <1>1, PlacesSplit DEF At, TypeOK, WorkerType
<1>3. \A i \in Jobs : Owed(i)' = Owed(i)
  BY DEF Owed
<1>4. CloseInv' /\ ReservedInv'
  BY <1>2 DEF JobsInv, CloseInv, ReservedInv
<1>5. AnswerInv'
  <2>1. \A i \in Jobs : Held(i) => Held(i)'
    BY <1>2 DEF Held
  <2> QED
    BY <1>3, <2>1 DEF JobsInv, AnswerInv
<1>6. QueueInv(queue)' /\ QueueInv(drained)'
  <2>1. ToSet(queue) \subseteq Jobs /\ ToSet(drained) \subseteq Jobs
    BY Contained DEF TypeOK, PoolType
  <2> QED
    BY <1>2, <1>3, <2>1 DEF JobsInv, QueueInv
<1>7. Count(worker', Working) = Count(worker, Working) - 1 /\ Count(worker, Working) > 0
  BY <1>1, <1>2, PlacesSplit, EngineMoves
<1>8. TaskInv'
  <2>1. in_flight' = Count(worker', Working)
    BY <1>7 DEF JobsInv, TaskInv
  <2>2. \A v \in Workers : worker'[v] \in Working <=> task'[v] # NoJob
    BY <1>2 DEF JobsInv, TaskInv
  <2>3. \A v \in Workers : worker'[v] \in Owing => Owed(task[v])'
    BY <1>2 DEF JobsInv, TaskInv, Owed
  <2>4. \A v \in Workers : worker'[v] \in {"acquire", "claim"} => kind'[task'[v]] = "ocr"
    BY <1>2 DEF JobsInv, TaskInv
  <2>5. \A u, v \in Workers :
          worker'[u] \in Owing /\ worker'[v] \in Owing /\ task'[u] = task'[v] => u = v
    BY <1>2 DEF JobsInv, TaskInv
  <2> QED
    BY <2>1, <2>2, <2>3, <2>4, <2>5 DEF TaskInv
<1>9. WithdrawInv'
  BY <1>2, <1>3 DEF JobsInv, WithdrawInv
<1> QED
  BY <1>4, <1>5, <1>6, <1>7, <1>8, <1>9 DEF JobsInv, TaskInv

(* Close begins, and waits for the reserved place. *)
LEMMA CloseDrains ==
  ASSUME TypeOK, JobsInv, closer = "idle", lifecycle' = "Closing", closer' = "drain",
         UNCHANGED <<reserved, queue, in_flight, close_result, drained,
                     call, kind, completion, finishes, task, worker, withdrawal>>
  PROVE  JobsInv'
<1>1. \A i \in Jobs : Owed(i)' = Owed(i) /\ Held(i)' = Held(i)
  BY DEF Owed, Held
<1>2. CloseInv' /\ ReservedInv'
  BY DEF JobsInv, CloseInv, ReservedInv
<1>3. AnswerInv'
  BY <1>1 DEF JobsInv, AnswerInv
<1>4. QueueInv(queue)' /\ QueueInv(drained)'
  BY DEF JobsInv, QueueInv, Owed
<1>5. TaskInv'
  BY <1>1, TasksKept
<1>6. WithdrawInv'
  BY <1>1 DEF JobsInv, WithdrawInv
<1> QED
  BY <1>2, <1>3, <1>4, <1>5, <1>6 DEF JobsInv

(* Close takes the queue over, when no place is reserved.                    *)
LEMMA QueueTaken ==
  ASSUME TypeOK, JobsInv, closer \in {"idle", "drain"}, reserved = 0, TakeQueue,
         lifecycle' # "Open",
         UNCHANGED <<reserved, in_flight, close_result,
                     call, kind, completion, finishes, task, worker, withdrawal>>
  PROVE  JobsInv'
<1>1. drained = << >> /\ drained' = queue /\ queue' = << >> /\ closer' = "cancel"
  BY DEF JobsInv, CloseInv, TakeQueue
<1>2. \A i \in Jobs : Owed(i)' = Owed(i)
  BY DEF Owed
<1>3. CloseInv' /\ ReservedInv'
  BY <1>1 DEF JobsInv, CloseInv, ReservedInv
<1>4. AnswerInv'
  <2>1. \A i \in Jobs : Held(i) => Held(i)'
    BY <1>1, EmptyQueue DEF Held
  <2> QED
    BY <1>2, <2>1 DEF JobsInv, AnswerInv
<1>5. QueueInv(queue)'
  BY <1>1, EmptyQueue DEF QueueInv
<1>6. QueueInv(drained)'
  BY <1>1 DEF JobsInv, QueueInv, Owed
<1>7. TaskInv'
  BY <1>2, TasksKept
<1>8. WithdrawInv'
  BY <1>1, <1>2, EmptyQueue DEF JobsInv, WithdrawInv
<1> QED
  BY <1>3, <1>4, <1>5, <1>6, <1>7, <1>8 DEF JobsInv

(* Close answers the first of the jobs it took. *)
LEMMA DrainedAnswered ==
  ASSUME TypeOK, JobsInv, closer = "cancel", drained # << >>,
         NEW answer \in Answers, Finish(Head(drained), answer), drained' = Tail(drained),
         UNCHANGED <<lifecycle, reserved, queue, in_flight, close_result, closer,
                     call, kind, task, worker, withdrawal>>
  PROVE  JobsInv'
<1>0. PICK j \in Jobs : j = Head(drained)
  BY TailQueue DEF TypeOK, PoolType
<1>1. /\ ToSet(drained') = ToSet(drained) \ {j} /\ Once(drained')
      /\ ToSet(drained) \subseteq Jobs /\ j \in Jobs /\ j \in ToSet(drained)
  <2>1. drained \in Seq(Jobs) /\ Once(drained)
    BY DEF JobsInv, QueueInv, TypeOK, PoolType
  <2> QED
    BY <1>0, <2>1, TailQueue, Contained
<1>2. Owed(j)
  BY <1>1 DEF JobsInv, QueueInv
<1>3. /\ ~Owed(j)' /\ finishes'[j] = 1 /\ completion'[j] # "none"
      /\ call[j] \in {"committed", "wait"} /\ call'[j] \in {"committed", "wait"}
      /\ \A i \in Jobs \ {j} : /\ Owed(i)' = Owed(i)
                               /\ completion'[i] = completion[i]
                               /\ finishes'[i] = finishes[i]
  BY <1>0, <1>1, <1>2, Finished DEF CallsHold
<1>4. queue = << >>
  BY DEF JobsInv, CloseInv
<1>5. CloseInv' /\ ReservedInv'
  BY DEF JobsInv, CloseInv, ReservedInv
<1>6. AnswerInv'
  <2> SUFFICES ASSUME NEW i \in Jobs
               PROVE  /\ call'[i] \in {"idle", "admit", "reserved"} => completion'[i] = "none"
                      /\ finishes'[i] =
                           IF call'[i] \in {"committed", "wait"} /\ completion'[i] # "none"
                           THEN 1 ELSE 0
                      /\ Owed(i)' => Held(i)'
    BY DEF AnswerInv
  <2>1. CASE i = j
    BY <1>3, <2>1
  <2>2. CASE i # j
    <3>1. Held(i) => Held(i)'
      BY <1>1, <2>2 DEF Held
    <3> QED
      BY <1>3, <2>2, <3>1 DEF JobsInv, AnswerInv
  <2> QED
    BY <2>1, <2>2
<1>7. QueueInv(queue)'
  BY <1>4, EmptyQueue DEF QueueInv
<1>8. QueueInv(drained)'
  BY <1>1, <1>3 DEF JobsInv, QueueInv
<1>9. TaskInv'
  <2>1. \A w \in Workers : worker[w] \in Owing => task[w] # j
    BY <1>1 DEF JobsInv, QueueInv
  <2> QED
    BY <1>3, <2>1, TasksKept
<1>10. WithdrawInv'
  BY <1>1, <1>3 DEF JobsInv, WithdrawInv
<1> QED
  BY <1>5, <1>6, <1>7, <1>8, <1>9, <1>10 DEF JobsInv

(* Close goes on to the joins, and from there to its result.                 *)
LEMMA CloseEnds ==
  ASSUME TypeOK, JobsInv,
         \/ /\ closer = "cancel" /\ drained = << >> /\ closer' = "join"
            /\ UNCHANGED <<lifecycle, close_result>>
         \/ JoinWorkers,
         UNCHANGED <<reserved, queue, in_flight, drained,
                     call, kind, completion, finishes, task, worker, withdrawal>>
  PROVE  JobsInv'
<1>1. \A i \in Jobs : Owed(i)' = Owed(i) /\ Held(i)' = Held(i)
  BY DEF Owed, Held
<1>2. CloseInv'
  <2>1. CASE closer' = "join"
    BY <2>1 DEF JobsInv, CloseInv, JoinWorkers
  <2>2. CASE JoinWorkers
    <3>1. /\ closer = "join" /\ closer' = "done" /\ lifecycle' = "Closed"
          /\ \A w \in Workers : worker[w] = "exited"
          /\ close_result' = IF Converged THEN "Ok" ELSE "Internal"
      BY <2>2 DEF JoinWorkers
    <3>2. in_flight = 0
      BY <3>1, PlacesSplit, CountNone DEF JobsInv, TaskInv
    <3>3. reserved = 0 /\ queue = << >> /\ drained = << >>
      BY <3>1 DEF JobsInv, CloseInv
    <3>4. close_result' = "Ok"
      BY <3>1, <3>2, <3>3 DEF Converged
    <3> QED
      BY <3>1, <3>3, <3>4 DEF CloseInv
  <2> QED
    BY <2>1, <2>2
<1>3. ReservedInv' /\ AnswerInv'
  BY <1>1 DEF JobsInv, ReservedInv, AnswerInv
<1>4. QueueInv(queue)' /\ QueueInv(drained)'
  BY DEF JobsInv, QueueInv, Owed
<1>5. TaskInv'
  BY <1>1, TasksKept
<1>6. WithdrawInv'
  BY <1>1 DEF JobsInv, WithdrawInv
<1> QED
  BY <1>2, <1>3, <1>4, <1>5, <1>6 DEF JobsInv

-----------------------------------------------------------------------------
(* The steps. *)

(* The steps of the callers and of those who cancel. *)
LEMMA CallsKeepJobs ==
  ASSUME Inv, NEW j \in Jobs, Submit(j) \/ CallStep(j) \/ Cancel(j) \/ RunHook(j)
  PROVE  JobsInv'
<1>0. TypeOK /\ JobsInv
  BY DEF Inv
<1> USE DEF poolVars, closeVars, callVars, jobVars, workerVars
<1>a. \A a \in {"Cancelled", "PoolClosed", "Limit", "Internal", "Failed"} : a \in Answers
  BY DEF Answers
<1>1. CASE Submit(j)
  <2>1. CASE cancelled[j]
    BY <1>0, <1>1, <1>a, <2>1, Refused DEF Submit, Refuse
  <2>2. CASE ~cancelled[j]
    BY <1>0, <1>1, <2>2, Admitted DEF Submit
  <2> QED
    BY <2>1, <2>2
<1>2. CASE Admit(j)
  <2>0. /\ call[j] = "admit"
        /\ UNCHANGED <<closer, drained, kind, worker, task, withdrawal>>
    BY <1>2 DEF Admit
  <2>1. CASE \E a \in {"Cancelled", "PoolClosed", "Limit"} : Refuse(j, a)
    BY <1>0, <1>a, <2>0, <2>1, Refused DEF Refuse
  <2>2. CASE UNCHANGED <<poolVars, call, jobVars>>
    BY <1>0, <2>0, <2>2, JobsUntouched DEF JobVars
  <2>3. CASE /\ lifecycle = "Open" /\ reserved = 0 /\ Len(queue) < MaxQueued
             /\ reserved' = 1 /\ Goto(j, "reserved")
             /\ UNCHANGED <<lifecycle, queue, in_flight, close_result, asleep, jobVars>>
    BY <1>0, <2>0, <2>3, Admitted
  <2> QED
    BY <1>2, <2>1, <2>2, <2>3 DEF Admit
<1>3. CASE Commit(j)
  <2>1. call[j] = "reserved" /\ reserved = 1
    BY <1>0, <1>3 DEF Commit, JobsInv, ReservedInv
  <2> QED
    BY <1>0, <1>3, <2>1, Committed DEF Commit
<1>4. CASE DropReservation(j)
  BY <1>0, <1>4, <1>a, Refused DEF DropReservation
<1>5. ASSUME CancelQueued(j),
             UNCHANGED <<lifecycle, reserved, in_flight, close_result, closer, drained,
                         call, kind, completion, finishes, task, worker>>
      PROVE  JobsInv'
  <2>1. j \in ToSet(queue)
    BY <1>0, <1>5, Contained DEF CancelQueued, TypeOK, PoolType
  <2> QED
    BY <1>0, <1>5, <2>1, Withdrawn DEF CancelQueued
<1>6. CASE AttachWaiter(j)
  <2>1. CallsHold
    BY <1>0, <1>6 DEF AttachWaiter, CallsHold, Goto, TypeOK, CallType
  <2>2. CASE CancelQueued(j) /\ UNCHANGED call
    BY <1>5, <1>6, <2>2 DEF AttachWaiter
  <2>3. CASE UNCHANGED <<queue, withdrawal>>
    BY <1>0, <1>6, <2>1, <2>3, Waits DEF AttachWaiter
  <2> QED
    BY <1>6, <2>2, <2>3 DEF AttachWaiter
<1>9. CASE AnswerWithdrawn(j)
  BY <1>0, <1>9, <1>a, WithdrawnAnswered DEF AnswerWithdrawn
<1>10. CASE NotifyWithdrawn(j)
  <2>1. CallsHold
    BY <1>0, <1>10 DEF NotifyWithdrawn, CallsHold, TypeOK, CallType
  <2>2. \A i \in Jobs : withdrawal'[i] = "answer" <=> withdrawal[i] = "answer"
    BY <1>0, <1>10 DEF NotifyWithdrawn, TypeOK, CallType
  <2> QED
    BY <1>0, <1>10, <2>1, <2>2, Waits DEF NotifyWithdrawn
<1>7. CASE Cancel(j)
  BY <1>0, <1>7, JobsUntouched DEF Cancel, JobVars
<1>8. CASE RunHook(j)
  <2>1. CASE UNCHANGED <<queue, withdrawal>>
    BY <1>0, <1>8, <2>1, JobsUntouched DEF RunHook, JobVars
  <2>2. CASE CancelQueued(j)
    BY <1>5, <1>8, <2>2 DEF RunHook
  <2> QED
    BY <1>8, <2>1, <2>2 DEF RunHook
<1> QED
  BY <1>1, <1>2, <1>3, <1>4, <1>6, <1>7, <1>8, <1>9, <1>10 DEF CallStep

(* The steps of the workers. *)
LEMMA WorkersKeepJobs ==
  ASSUME Inv, NEW w \in Workers, WorkerStep(w) \/ Spawn(w) \/ WaitForStart(w)
  PROVE  JobsInv'
<1>0. TypeOK /\ JobsInv /\ OutcomeInv
  BY DEF Inv
<1> USE DEF poolVars, closeVars, callVars, jobVars, workerVars
<1>a. /\ "Cancelled" \in Answers
      /\ \A p \in {"run", "call", "acquire", "claim", "create", "created", "failed_create",
                    "discard", "process", "lease", "finish"} : p \in Owing
      /\ \A p \in {"unborn", "start", "idle", "exited"} : p \in Vacant
  BY DEF Answers, Owing, Vacant
<1>b. ASSUME UNCHANGED JobVars, worker[w] \in Owing,
             NEW p \in Owing \ {"acquire", "claim"}, At(w, p)
      PROVE  JobsInv'
  BY <1>0, <1>b, WorksOn
<1>1. CASE Spawn(w) \/ WaitForStart(w)
  <2>1. UNCHANGED JobVars
    BY <1>1 DEF Spawn, WaitForStart, JobVars
  <2>2. PICK p \in {"start", "idle", "exited"} : At(w, p)
    BY <1>1 DEF Spawn, WaitForStart, At
  <2>3. worker[w] \in {"unborn", "start"}
    BY <1>1 DEF Spawn, WaitForStart
  <2> QED
    BY <1>0, <1>a, <2>1, <2>2, <2>3, StaysVacant
<1>2. CASE TakeJob(w)
  <2>0. worker[w] = "idle" /\ UNCHANGED <<lifecycle, reserved, close_result, closer, drained,
                                         call, kind, completion, finishes, withdrawal>>
    BY <1>2 DEF TakeJob
  <2>1. CASE At(w, "exited") /\ UNCHANGED <<queue, in_flight, asleep, task>>
    BY <1>0, <1>a, <2>0, <2>1, StaysVacant DEF JobVars
  <2>2. CASE UNCHANGED <<queue, in_flight, worker, task>>
    BY <1>0, <2>0, <2>2, JobsUntouched DEF JobVars
  <2>3. CASE /\ lifecycle = "Open" /\ queue # << >>
             /\ queue' = Tail(queue)
             /\ task' = [task EXCEPT ![w] = Head(queue)]
             /\ in_flight' = in_flight + 1
             /\ At(w, "run")
    BY <1>0, <2>0, <2>3, Taken
  <2> QED
    BY <1>2, <2>1, <2>2, <2>3 DEF TakeJob
<1>3. CASE RunJob(w)
  <2>1. CASE cancelled[task[w]]
    BY <1>0, <1>3, <1>a, <2>1, WorkerAnswers DEF RunJob
  <2>2. CASE ~cancelled[task[w]]
    <3>1. PICK p : p = IF kind[task[w]] = "ocr" THEN "acquire" ELSE "call"
      OBVIOUS
    <3>2. worker[w] = "run" /\ At(w, p) /\ UNCHANGED JobVars
      BY <1>3, <2>2, <3>1 DEF RunJob, JobVars
    <3>3. p \in Owing /\ worker[w] \in Owing /\ (p \in {"acquire", "claim"} => kind[task[w]] = "ocr")
      BY <1>a, <3>1, <3>2
    <3> QED
      BY <1>0, <3>2, <3>3, WorksOn
  <2> QED
    BY <2>1, <2>2
<1>4. CASE CallNative(w)
  BY <1>4, <1>a, <1>b DEF CallNative, JobVars
<1>5. CASE FinishJob(w)
  <2>1. PICK a : a = IF cancelled[task[w]] THEN "Cancelled" ELSE outcome[w]
    OBVIOUS
  <2>2. worker[w] = "finish" /\ Finish(task[w], a) /\ At(w, "release")
    BY <1>5, <2>1 DEF FinishJob
  <2>3. outcome[w] \in Answers
    BY <1>0, <2>2 DEF OutcomeInv, TypeOK, WorkerType
  <2>4. a \in Answers
    BY <1>a, <2>1, <2>3
  <2> QED
    BY <1>0, <1>5, <1>a, <2>2, <2>4, WorkerAnswers DEF FinishJob
<1>6. CASE Release(w)
  BY <1>0, <1>6, Released DEF Release
<1>7. CASE EnterEngineQueue(w)
  <2>1. worker[w] = "acquire" /\ UNCHANGED JobVars
    BY <1>7 DEF EnterEngineQueue, JobVars
  <2>2. PICK p \in {"finish", "claim"} : At(w, p)
    BY <1>7 DEF EnterEngineQueue, Give
  <2>3. kind[task[w]] = "ocr"
    BY <1>0, <2>1 DEF JobsInv, TaskInv
  <2> QED
    BY <1>0, <1>a, <2>1, <2>2, <2>3, WorksOn
<1>8. CASE ClaimEngine(w)
  <2>1. worker[w] = "claim" /\ UNCHANGED JobVars
    BY <1>8 DEF ClaimEngine, JobVars
  <2>2. worker' = worker \/ \E p \in {"finish", "process", "create"} : At(w, p)
    BY <1>8 DEF ClaimEngine, Give
  <2> QED
    BY <1>0, <1>a, <1>b, <2>1, <2>2, JobsUntouched
<1>9. CASE CreateEngine(w)
  BY <1>9, <1>a, <1>b DEF CreateEngine, JobVars
<1>10. CASE AdmitEngine(w)
  <2>1. worker[w] \in {"created", "failed_create"} /\ UNCHANGED JobVars
    BY <1>10 DEF AdmitEngine, JobVars
  <2>2. \E p \in {"finish", "process", "discard"} : At(w, p)
    BY <1>10 DEF AdmitEngine, Give
  <2> QED
    BY <1>a, <1>b, <2>1, <2>2
<1>11. CASE Process(w)
  BY <1>11, <1>a, <1>b DEF Process, JobVars
<1>12. CASE DropLease(w)
  <2>1. worker[w] = "lease" /\ UNCHANGED JobVars
    BY <1>12 DEF DropLease, JobVars
  <2>2. \E p \in {"finish", "discard"} : At(w, p)
    BY <1>12 DEF DropLease
  <2> QED
    BY <1>a, <1>b, <2>1, <2>2
<1>13. CASE DestroyEngine(w)
  BY <1>13, <1>a, <1>b DEF DestroyEngine, JobVars
<1> QED
  BY <1>1, <1>2, <1>3, <1>4, <1>5, <1>6, <1>7, <1>8, <1>9, <1>10, <1>11, <1>12, <1>13
  DEF WorkerStep

(* The steps of construction and of the closing threads. *)
LEMMA ClosersKeepJobs ==
  ASSUME Inv,
         \/ ConstructionFails \/ JoinConstructedWorkers \/ Register \/ OpenGate
         \/ BeginClose \/ CloseStep
         \/ BeginOcrClose \/ OcrCloseStep
  PROVE  JobsInv'
<1>0. TypeOK /\ JobsInv
  BY DEF Inv
<1> USE DEF poolVars, closeVars, callVars, jobVars, workerVars
<1>1. CASE ConstructionFails \/ JoinConstructedWorkers \/ Register \/ OpenGate
  BY <1>0, <1>1, JobsUntouched
  DEF ConstructionFails, JoinConstructedWorkers, Register, OpenGate, JobVars
<1>2. CASE BeginOcrClose \/ OcrCloseStep
  BY <1>0, <1>2, JobsUntouched
  DEF BeginOcrClose, OcrCloseStep, TakeIdleEngines, DropIdleEngines, SettleOcrClose, JobVars
<1>3. CASE BeginClose
  <2>1. CASE reserved # 0
    BY <1>0, <1>3, <2>1, CloseDrains DEF BeginClose
  <2>2. CASE reserved = 0
    BY <1>0, <1>3, <2>2, QueueTaken DEF BeginClose
  <2> QED
    BY <2>1, <2>2
<1>4. CASE DrainQueue
  <2>1. CASE reserved # 0
    BY <1>0, <1>4, <2>1, JobsUntouched DEF DrainQueue, JobVars
  <2>2. CASE reserved = 0
    <3>1. lifecycle' # "Open"
      BY <1>0, <1>4 DEF DrainQueue, JobsInv, CloseInv
    <3> QED
      BY <1>0, <1>4, <2>2, <3>1, QueueTaken DEF DrainQueue
  <2> QED
    BY <2>1, <2>2
<1>5. CASE CancelDrained
  <2>1. CASE drained # << >>
    <3>1. "PoolClosed" \in Answers
      BY DEF Answers
    <3> QED
      BY <1>0, <1>5, <2>1, <3>1, DrainedAnswered DEF CancelDrained
  <2>2. CASE drained = << >>
    BY <1>0, <1>5, <2>2, CloseEnds DEF CancelDrained
  <2> QED
    BY <2>1, <2>2
<1>6. CASE JoinWorkers
  BY <1>0, <1>6, CloseEnds DEF JoinWorkers
<1> QED
  BY <1>1, <1>2, <1>3, <1>4, <1>5, <1>6 DEF CloseStep

LEMMA NextKeepsBooks ==
  ASSUME Inv, Next
  PROVE  Books'
<1>0. TypeOK /\ Books
  BY DEF Inv
<1> USE DEF workerVars, ocrVars, ocrCloseVars
<1>a. \A p \in {"unborn", "start", "idle", "run", "call", "acquire", "claim", "finish",
                "release", "exited"} : p \in Plain
  BY DEF Plain, Places, Using, Creating, Outside
<1>b. ASSUME UNCHANGED EngineVars,
             NEW w \in Workers, worker[w] \in Plain, NEW p \in Plain, At(w, p)
      PROVE  Books'
  BY <1>0, <1>b, BooksKept
<1>c. ASSUME UNCHANGED EngineVars, UNCHANGED worker
      PROVE  Books'
  BY <1>0, <1>c, BooksUntouched
<1>1. CASE Construct
  <2>1. UNCHANGED EngineVars
    BY <1>1 DEF Construct, Spawn, WaitForStart, ConstructionFails, JoinConstructedWorkers,
                Register, OpenGate, EngineVars
  <2>2. CASE \E w \in Workers : Spawn(w) \/ WaitForStart(w)
    <3>1. PICK w \in Workers : Spawn(w) \/ WaitForStart(w)
      BY <2>2
    <3>2. worker[w] \in {"unborn", "start"} /\ \E p \in {"start", "idle", "exited"} : At(w, p)
      BY <3>1 DEF Spawn, WaitForStart, At
    <3> QED
      BY <1>a, <1>b, <2>1, <3>2
  <2>3. CASE ConstructionFails \/ JoinConstructedWorkers \/ Register \/ OpenGate
    BY <1>c, <2>1, <2>3
    DEF ConstructionFails, JoinConstructedWorkers, Register, OpenGate
  <2> QED
    BY <1>1, <2>2, <2>3 DEF Construct
<1>2. ASSUME NEW j \in Jobs, Submit(j) \/ CallStep(j) \/ Cancel(j) \/ RunHook(j)
      PROVE  Books'
  BY <1>c, <1>2 DEF Submit, CallStep, Admit, Commit, DropReservation, AttachWaiter,
         AnswerWithdrawn, NotifyWithdrawn, Cancel, RunHook, EngineVars
<1>3. ASSUME NEW w \in Workers, WorkerStep(w)
      PROVE  Books'
  <2>1. CASE TakeJob(w)
    <3>1. worker[w] = "idle" /\ UNCHANGED EngineVars
      BY <2>1 DEF TakeJob, EngineVars
    <3>2. worker' = worker \/ \E p \in {"exited", "run"} : At(w, p)
      BY <2>1 DEF TakeJob
    <3> QED
      BY <1>a, <1>b, <1>c, <3>1, <3>2
  <2>2. CASE RunJob(w)
    <3>1. worker[w] = "run" /\ UNCHANGED EngineVars
      BY <2>2 DEF RunJob, EngineVars
    <3>2. \E p \in {"release", "acquire", "call"} : At(w, p)
      BY <2>2 DEF RunJob, At
    <3> QED
      BY <1>a, <1>b, <3>1, <3>2
  <2>3. CASE CallNative(w)
    BY <1>a, <1>b, <2>3 DEF CallNative, EngineVars
  <2>4. CASE FinishJob(w)
    BY <1>a, <1>b, <2>4 DEF FinishJob, EngineVars
  <2>5. CASE Release(w)
    BY <1>a, <1>b, <2>5 DEF Release, EngineVars
  <2>6. CASE EnterEngineQueue(w)
    <3>1. worker[w] = "acquire" /\ UNCHANGED EngineVars
      BY <2>6 DEF EnterEngineQueue, EngineVars
    <3>2. \E p \in {"finish", "claim"} : At(w, p)
      BY <2>6 DEF EnterEngineQueue, Give
    <3> QED
      BY <1>a, <1>b, <3>1, <3>2
  <2> QED
    BY <1>0, <1>3, <2>1, <2>2, <2>3, <2>4, <2>5, <2>6, ClaimBooks, CreateBooks, AdmitBooks,
       ProcessBooks, DropLeaseBooks, DestroyBooks
    DEF WorkerStep
<1>4. CASE BeginClose \/ CloseStep
  BY <1>c, <1>4 DEF BeginClose, CloseStep, DrainQueue, CancelDrained, JoinWorkers, EngineVars
<1>5. CASE BeginOcrClose \/ OcrCloseStep
  BY <1>0, <1>5, OcrCloseBooks
<1> QED
  BY <1>1, <1>2, <1>3, <1>4, <1>5 DEF Next

LEMMA NextKeepsBuild ==
  ASSUME Inv, Next
  PROVE  BuildInv'
<1>0. TypeOK /\ BuildInv
  BY DEF Inv
<1> USE DEF buildVars, workerVars
<1>1. CASE Construct
  <2>1. CASE \E w \in Workers : Spawn(w) \/ WaitForStart(w)
    <3>1. PICK w \in Workers : Spawn(w) \/ WaitForStart(w)
      BY <2>1
    <3>2. worker[w] \in {"unborn", "start"} /\ UNCHANGED buildVars
          /\ (worker[w] = "unborn" => built = "spawning")
          /\ \A v \in Workers \ {w} : worker'[v] = worker[v]
      BY <1>0, <3>1 DEF Spawn, WaitForStart, TypeOK, WorkerType
    <3>3. built # "failed"
      BY <1>0, <3>2 DEF BuildInv
    <3> QED
      BY <1>0, <3>2, <3>3 DEF BuildInv
  <2>2. CASE ConstructionFails \/ JoinConstructedWorkers \/ Register \/ OpenGate
    BY <1>0, <2>2
    DEF ConstructionFails, JoinConstructedWorkers, Register, OpenGate, BuildInv
  <2> QED
    BY <1>1, <2>1, <2>2 DEF Construct
<1>2. ASSUME NEW j \in Jobs, Submit(j) \/ CallStep(j) \/ Cancel(j) \/ RunHook(j)
      PROVE  BuildInv'
  BY <1>0, <1>2 DEF Submit, CallStep, Admit, Commit, DropReservation, AttachWaiter,
         AnswerWithdrawn, NotifyWithdrawn,
                    Cancel, RunHook, BuildInv
<1>3. ASSUME NEW w \in Workers, WorkerStep(w)
      PROVE  BuildInv'
  <2>1. UNCHANGED buildVars /\ worker[w] \notin {"unborn", "exited"}
    BY <1>3 DEF WorkerStep, TakeJob, RunJob, CallNative, FinishJob, Release, EnterEngineQueue,
                ClaimEngine, CreateEngine, AdmitEngine, Process, DropLease, DestroyEngine
  <2>2. built # "failed"
    BY <1>0, <2>1 DEF BuildInv
  <2> QED
    BY <1>0, <2>1, <2>2 DEF BuildInv
<1>4. CASE BeginClose \/ CloseStep \/ BeginOcrClose \/ OcrCloseStep
  BY <1>0, <1>4 DEF BeginClose, CloseStep, DrainQueue, CancelDrained, JoinWorkers,
                    BeginOcrClose, OcrCloseStep, TakeIdleEngines, DropIdleEngines,
                    SettleOcrClose, BuildInv
<1> QED
  BY <1>1, <1>2, <1>3, <1>4 DEF Next

LEMMA NextKeepsOutcomes ==
  ASSUME Inv, Next
  PROVE  OutcomeInv'
<1>0. TypeOK /\ OutcomeInv
  BY DEF Inv
<1> USE DEF workerVars
<1>1. CASE Construct
  BY <1>0, <1>1 DEF Construct, Spawn, WaitForStart, ConstructionFails, JoinConstructedWorkers,
                    Register, OpenGate, OutcomeInv, TypeOK, WorkerType
<1>2. ASSUME NEW j \in Jobs, Submit(j) \/ CallStep(j) \/ Cancel(j) \/ RunHook(j)
      PROVE  OutcomeInv'
  BY <1>0, <1>2 DEF Submit, CallStep, Admit, Commit, DropReservation, AttachWaiter,
         AnswerWithdrawn, NotifyWithdrawn,
                    Cancel, RunHook, OutcomeInv
<1>3. ASSUME NEW w \in Workers, WorkerStep(w)
      PROVE  OutcomeInv'
  <2>1. \A v \in Workers \ {w} : worker'[v] = worker[v] /\ outcome'[v] = outcome[v]
    BY <1>0, <1>3 DEF WorkerStep, TakeJob, RunJob, CallNative, FinishJob, Release,
         EnterEngineQueue, ClaimEngine, CreateEngine, AdmitEngine, Process, DropLease,
         DestroyEngine, Give, At, TypeOK, WorkerType
  <2> SUFFICES ASSUME worker'[w] \in {"lease", "discard", "finish"}
               PROVE  outcome'[w] # "none"
    BY <1>0, <2>1 DEF OutcomeInv
  <2>2. CASE TakeJob(w) \/ RunJob(w) \/ FinishJob(w) \/ Release(w) \/ CreateEngine(w)
    BY <1>0, <2>2 DEF TakeJob, RunJob, FinishJob, Release, CreateEngine, At, TypeOK, WorkerType
  <2>3. CASE CallNative(w)
    BY <1>0, <2>3 DEF CallNative, TypeOK, WorkerType
  <2>4. CASE EnterEngineQueue(w)
    BY <1>0, <2>4 DEF EnterEngineQueue, Give, At, TypeOK, WorkerType
  <2>5. CASE ClaimEngine(w)
    BY <1>0, <2>5 DEF ClaimEngine, Give, At, TypeOK, WorkerType
  <2>6. CASE AdmitEngine(w)
    BY <1>0, <2>6 DEF AdmitEngine, Give, At, TypeOK, WorkerType
  <2>7. CASE Process(w)
    <3>1. \A result \in Processed : result.answer # "none"
      BY DEF Processed
    <3> QED
      BY <1>0, <2>7, <3>1 DEF Process, TypeOK, WorkerType
  <2>8. CASE DropLease(w) \/ DestroyEngine(w)
    BY <1>0, <2>8 DEF DropLease, DestroyEngine, OutcomeInv
  <2> QED
    BY <1>3, <2>2, <2>3, <2>4, <2>5, <2>6, <2>7, <2>8 DEF WorkerStep
<1>4. CASE BeginClose \/ CloseStep \/ BeginOcrClose \/ OcrCloseStep
  BY <1>0, <1>4 DEF BeginClose, CloseStep, DrainQueue, CancelDrained, JoinWorkers,
                    BeginOcrClose, OcrCloseStep, TakeIdleEngines, DropIdleEngines,
                    SettleOcrClose, OutcomeInv
<1> QED
  BY <1>1, <1>2, <1>3, <1>4 DEF Next

(* Types.  The counters are typed by the invariants that count them.         *)
LEMMA NotifyType ==
  ASSUME PoolType
  PROVE  Notify => asleep' \subseteq Jobs \cup Workers \cup {Closer}
BY DEF Notify, PoolType

LEMMA InFlightType ==
  ASSUME TaskInv'
  PROVE  in_flight' \in 0..Cardinality(Workers)
BY CountBound DEF TaskInv

LEMMA NextKeepsPoolType ==
  ASSUME Inv, Next, JobsInv'
  PROVE  PoolType'
<1>0. PoolType /\ CallType /\ WorkerType /\ JobsInv
  BY DEF Inv, TypeOK
<1>a. in_flight' \in 0..Cardinality(Workers)
  BY InFlightType DEF JobsInv
<1>b. ASSUME queue' \in Seq(Jobs) /\ Len(queue') <= MaxQueued,
             asleep' \subseteq Jobs \cup Workers \cup {Closer},
             UNCHANGED <<built, start, lifecycle, reserved, close_result, closer, drained>>
      PROVE  PoolType'
  BY <1>0, <1>a, <1>b DEF PoolType
<1>c. asleep \subseteq Jobs \cup Workers \cup {Closer} /\ queue \in Seq(Jobs)
      /\ Len(queue) <= MaxQueued /\ MaxQueued \in Nat /\ Len(queue) \in Nat
  BY <1>0, PoolAssumption DEF PoolType, PoolAssumption
<1> USE DEF poolVars, buildVars, closeVars
<1>1. CASE Construct
  BY <1>0, <1>1 DEF Construct, Spawn, WaitForStart, ConstructionFails, JoinConstructedWorkers,
                    Register, OpenGate, PoolType
<1>2. ASSUME NEW j \in Jobs, Submit(j) \/ CallStep(j) \/ Cancel(j) \/ RunHook(j)
      PROVE  PoolType'
  <2>1. CASE Submit(j) \/ Cancel(j)
    BY <1>0, <2>1 DEF Submit, Refuse, Cancel, PoolType
  <2>2. CASE Admit(j)
    BY <1>0, <2>2 DEF Admit, Refuse, PoolType
  <2>3. CASE Commit(j)
    <3>1. Append(queue, j) \in Seq(Jobs) /\ Len(Append(queue, j)) = Len(queue) + 1
      BY <1>c, AppendQueue
    <3>2. reserved # 0 => Len(queue) < MaxQueued
      BY <1>0, <2>3 DEF Commit, JobsInv, ReservedInv
    <3>3. queue' \in Seq(Jobs) /\ Len(queue') <= MaxQueued
      BY <1>c, <2>3, <3>1, <3>2 DEF Commit
    <3>4. reserved' \in {0, 1}
      BY <1>0, <2>3 DEF Commit, PoolType
    <3> QED
      BY <1>0, <1>a, <2>3, <3>3, <3>4, NotifyType DEF Commit, PoolType
  <2>4. CASE DropReservation(j)
    BY <1>0, <2>4, NotifyType DEF DropReservation, PoolType
  <2>5. ASSUME CancelQueued(j)
        PROVE  queue' \in Seq(Jobs) /\ Len(queue') <= MaxQueued
    <3>1. Without(queue, j) \in Seq(Jobs) /\ Len(Without(queue, j)) <= Len(queue)
      BY <1>c, WithoutQueue
    <3>2. Len(Without(queue, j)) \in Nat
      BY <3>1
    <3>3. Len(Without(queue, j)) <= MaxQueued
      BY <1>c, <3>1, <3>2
    <3> QED
      BY <2>5, <3>1, <3>3 DEF CancelQueued
  <2>6. CASE AttachWaiter(j)
    BY <1>b, <1>c, <2>5, <2>6 DEF AttachWaiter
  <2>7. CASE RunHook(j)
    BY <1>0, <1>b, <1>c, <2>5, <2>7, NotifyType DEF RunHook
  <2>8. CASE AnswerWithdrawn(j)
    BY <1>b, <1>c, <2>8 DEF AnswerWithdrawn
  <2>9. CASE NotifyWithdrawn(j)
    BY <1>0, <1>b, <1>c, <2>9, NotifyType DEF NotifyWithdrawn
  <2> QED
    BY <1>2, <2>1, <2>2, <2>3, <2>4, <2>6, <2>7, <2>8, <2>9 DEF CallStep
<1>3. ASSUME NEW w \in Workers, WorkerStep(w)
      PROVE  PoolType'
  <2>1. CASE TakeJob(w)
    <3>1. queue # << >> => Tail(queue) \in Seq(Jobs) /\ Len(Tail(queue)) = Len(queue) - 1
      BY <1>c, TailQueue
    <3>2. queue' \in Seq(Jobs) /\ Len(queue') <= MaxQueued
      BY <1>c, <2>1, <3>1 DEF TakeJob
    <3>3. asleep' \subseteq Jobs \cup Workers \cup {Closer}
      BY <1>c, <2>1 DEF TakeJob
    <3> QED
      BY <1>b, <2>1, <3>2, <3>3 DEF TakeJob
  <2>2. CASE Release(w)
    BY <1>0, <1>b, <1>c, <2>2, NotifyType DEF Release
  <2>3. CASE RunJob(w) \/ CallNative(w) \/ FinishJob(w)
    BY <1>b, <1>c, <2>3 DEF RunJob, CallNative, FinishJob
  <2>4. CASE \/ EnterEngineQueue(w) \/ ClaimEngine(w) \/ CreateEngine(w) \/ AdmitEngine(w)
             \/ Process(w) \/ DropLease(w) \/ DestroyEngine(w)
    BY <1>b, <1>c, <2>4 DEF EnterEngineQueue, ClaimEngine, CreateEngine, AdmitEngine, Process,
                            DropLease, DestroyEngine
  <2> QED
    BY <1>3, <2>1, <2>2, <2>3, <2>4 DEF WorkerStep
<1>4. CASE BeginClose \/ DrainQueue
  <2>1. /\ UNCHANGED <<built, start, reserved, close_result>>
        /\ asleep' \subseteq Jobs \cup Workers \cup {Closer}
        /\ lifecycle' \in {"Open", "Closing", "Closed"}
    BY <1>0, <1>4 DEF BeginClose, DrainQueue, PoolType
  <2>2. << >> \in Seq(Jobs) /\ Len(<< >>) <= MaxQueued
    BY <1>c
  <2>3. CASE TakeQueue
    BY <1>0, <1>a, <2>1, <2>2, <2>3 DEF TakeQueue, PoolType
  <2>4. CASE UNCHANGED <<queue, drained>> /\ closer' \in {"drain", closer}
    BY <1>0, <1>a, <2>1, <2>4 DEF PoolType
  <2> QED
    BY <1>4, <2>3, <2>4 DEF BeginClose, DrainQueue
<1>5. CASE CancelDrained
  <2>1. drained # << >> => Tail(drained) \in Seq(Jobs)
    BY <1>0, TailQueue DEF PoolType
  <2> QED
    BY <1>0, <1>5, <2>1, NotifyType DEF CancelDrained, PoolType
<1>6. CASE JoinWorkers
  BY <1>0, <1>6, NotifyType DEF JoinWorkers, PoolType
<1>7. CASE BeginOcrClose \/ OcrCloseStep
  BY <1>b, <1>c, <1>7
  DEF BeginOcrClose, OcrCloseStep, TakeIdleEngines, DropIdleEngines, SettleOcrClose
<1> QED
  BY <1>1, <1>2, <1>3, <1>4, <1>5, <1>6, <1>7 DEF Next, CloseStep

LEMMA FinishType ==
  ASSUME CallType, AnswerInv', NEW j \in Jobs, NEW answer \in Answers, Finish(j, answer)
  PROVE  /\ completion' \in [Jobs -> Answers \cup {"none"}]
         /\ finishes' \in [Jobs -> {0, 1}]
<1>1. completion' \in [Jobs -> Answers \cup {"none"}]
  BY DEF Finish, CallType
<1>2. DOMAIN finishes' = Jobs /\ finishes' = [i \in Jobs |-> finishes'[i]]
  BY DEF Finish, CallType
<1>3. \A i \in Jobs : finishes'[i] \in {0, 1}
  BY DEF AnswerInv
<1> QED
  BY <1>1, <1>2, <1>3

LEMMA NextKeepsCallType ==
  ASSUME Inv, Next, JobsInv'
  PROVE  CallType'
<1>0. PoolType /\ CallType /\ WorkerType /\ JobsInv /\ OutcomeInv /\ AnswerInv'
  BY DEF Inv, TypeOK, JobsInv
<1> USE DEF callVars, jobVars
<1>a. \A a \in {"Ok", "Failed", "Cancelled", "PoolClosed", "Internal", "Limit"} : a \in Answers
  BY DEF Answers
<1>b. ASSUME UNCHANGED callVars,
             UNCHANGED jobVars \/ \E i \in Jobs, answer \in Answers : Finish(i, answer)
      PROVE  CallType'
  BY <1>0, <1>b, FinishType DEF CallType
<1>1. CASE Construct
  BY <1>0, <1>1 DEF Construct, Spawn, WaitForStart, ConstructionFails, JoinConstructedWorkers,
                    Register, OpenGate, CallType
<1>2. ASSUME NEW j \in Jobs, Submit(j) \/ CallStep(j) \/ Cancel(j) \/ RunHook(j)
      PROVE  CallType'
  <2>1. CASE Submit(j)
    BY <1>0, <1>a, <2>1 DEF Submit, Refuse, Goto, CallType
  <2>2. CASE Admit(j)
    <3>1. UNCHANGED <<kind, cancelled, firing, finishes, withdrawal>>
      BY <2>2 DEF Admit, Refuse
    <3>2. \/ UNCHANGED <<call, completion>>
          \/ Goto(j, "reserved") /\ UNCHANGED completion
          \/ \E a \in Answers : Goto(j, "done") /\ completion' = [completion EXCEPT ![j] = a]
      BY <1>a, <2>2 DEF Admit, Refuse
    <3> QED
      BY <1>0, <3>1, <3>2 DEF Goto, CallType
  <2>3. CASE Commit(j)
    BY <1>0, <1>a, <2>3 DEF Commit, Goto, CallType
  <2>4. CASE DropReservation(j)
    BY <1>0, <1>a, <2>4 DEF DropReservation, Goto, CallType
  <2>5. ASSUME CancelQueued(j)
        PROVE  withdrawal' \in [Jobs -> {"none", "answer", "notify"}]
    BY <1>0, <2>5 DEF CancelQueued, CallType
  <2>6. CASE AttachWaiter(j)
    <3>1. call' \in [Jobs -> {"idle", "admit", "reserved", "committed", "wait", "done"}]
      BY <1>0, <2>6 DEF AttachWaiter, Goto, CallType
    <3> QED
      BY <1>0, <2>5, <2>6, <3>1 DEF AttachWaiter, CallType
  <2>7. CASE Cancel(j)
    <3>1. Hooks(j) \in SUBSET {"admission", "queued", "engine"}
      BY DEF Hooks
    <3> QED
      BY <1>0, <2>7, <3>1 DEF Cancel, CallType
  <2>8. CASE RunHook(j)
    <3>1. firing' \in [Jobs -> SUBSET {"admission", "queued", "engine"}]
      BY <1>0, <2>8 DEF RunHook, CallType
    <3> QED
      BY <1>0, <2>5, <2>8, <3>1 DEF RunHook, CallType
  <2>9. CASE AnswerWithdrawn(j)
    <3>1. /\ completion' \in [Jobs -> Answers \cup {"none"}]
          /\ finishes' \in [Jobs -> {0, 1}]
      BY <1>0, <1>a, <2>9, FinishType DEF AnswerWithdrawn
    <3> QED
      BY <1>0, <2>9, <3>1 DEF AnswerWithdrawn, CallType
  <2>10. CASE NotifyWithdrawn(j)
    <3>1. /\ call' \in [Jobs -> {"idle", "admit", "reserved", "committed", "wait", "done"}]
          /\ firing' \in [Jobs -> SUBSET {"admission", "queued", "engine"}]
          /\ withdrawal' \in [Jobs -> {"none", "answer", "notify"}]
      BY <1>0, <2>10 DEF NotifyWithdrawn, CallType
    <3> QED
      BY <1>0, <2>10, <3>1 DEF NotifyWithdrawn, CallType
  <2> QED
    BY <1>2, <2>1, <2>2, <2>3, <2>4, <2>6, <2>7, <2>8, <2>9, <2>10 DEF CallStep
<1>3. ASSUME NEW w \in Workers, WorkerStep(w)
      PROVE  CallType'
  <2>0. worker[w] \in {"run", "finish"} => task[w] \in Jobs
    BY <1>0 DEF JobsInv, TaskInv, Working, Owing, WorkerType
  <2>1. CASE RunJob(w)
    BY <1>a, <1>b, <2>0, <2>1 DEF RunJob
  <2>2. CASE FinishJob(w)
    <3>1. outcome[w] \in Answers
      BY <1>0, <2>2 DEF FinishJob, OutcomeInv, WorkerType
    <3> QED
      BY <1>a, <1>b, <2>0, <2>2, <3>1 DEF FinishJob
  <2>3. CASE \/ TakeJob(w) \/ CallNative(w) \/ Release(w)
             \/ EnterEngineQueue(w) \/ ClaimEngine(w) \/ CreateEngine(w) \/ AdmitEngine(w)
             \/ Process(w) \/ DropLease(w) \/ DestroyEngine(w)
    BY <1>b, <2>3 DEF TakeJob, CallNative, Release, EnterEngineQueue, ClaimEngine, CreateEngine,
                      AdmitEngine, Process, DropLease, DestroyEngine
  <2> QED
    BY <1>3, <2>1, <2>2, <2>3 DEF WorkerStep
<1>4. CASE CancelDrained
  <2>1. drained # << >> => Head(drained) \in Jobs
    BY <1>0, TailQueue DEF PoolType
  <2> QED
    BY <1>a, <1>b, <1>4, <2>1 DEF CancelDrained
<1>5. CASE BeginClose \/ DrainQueue \/ JoinWorkers \/ BeginOcrClose \/ OcrCloseStep
  BY <1>b, <1>5 DEF BeginClose, DrainQueue, JoinWorkers, BeginOcrClose, OcrCloseStep,
                    TakeIdleEngines, DropIdleEngines, SettleOcrClose
<1> QED
  BY <1>1, <1>2, <1>3, <1>4, <1>5 DEF Next, CloseStep

LEMMA NextKeepsWorkerType ==
  ASSUME Inv, Next
  PROVE  WorkerType'
<1>0. PoolType /\ CallType /\ WorkerType
  BY DEF Inv, TypeOK
<1> USE DEF workerVars
<1>a. \A a \in {"Ok", "Failed", "Cancelled", "PoolClosed", "Internal", "Limit", "none"} :
        a \in Answers \cup {"none"}
  BY DEF Answers
<1>b. ASSUME NEW w \in Workers, worker' = worker \/ \E p \in Places : At(w, p)
      PROVE  worker' \in [Workers -> Places]
  BY <1>0, <1>b DEF At, WorkerType
<1>c. ASSUME Fault \/ UNCHANGED faults
      PROVE  faults' \in 0..MaxFaults
  BY <1>0, <1>c, PoolAssumption DEF Fault, WorkerType, PoolAssumption
<1>d. \A p \in {"unborn", "start", "idle", "run", "call", "acquire", "claim", "create",
                "created", "failed_create", "discard", "process", "lease", "finish",
                "release", "exited"} : p \in Places
  BY DEF Places
<1>1. CASE Construct
  <2>1. CASE \E w \in Workers : Spawn(w) \/ WaitForStart(w)
    BY <1>0, <1>d, <2>1 DEF Spawn, WaitForStart, WorkerType
  <2>2. CASE ConstructionFails \/ JoinConstructedWorkers \/ Register \/ OpenGate
    BY <1>0, <1>c, <2>2
    DEF ConstructionFails, JoinConstructedWorkers, Register, OpenGate, WorkerType
  <2> QED
    BY <1>1, <2>1, <2>2 DEF Construct
<1>2. ASSUME NEW j \in Jobs, Submit(j) \/ CallStep(j) \/ Cancel(j) \/ RunHook(j)
      PROVE  WorkerType'
  BY <1>0, <1>2 DEF Submit, CallStep, Admit, Commit, DropReservation, AttachWaiter,
         AnswerWithdrawn, NotifyWithdrawn,
                    Cancel, RunHook, WorkerType
<1>3. ASSUME NEW w \in Workers, WorkerStep(w)
      PROVE  WorkerType'
  <2>1. CASE TakeJob(w)
    <3>1. worker' \in [Workers -> Places]
      BY <1>b, <1>d, <2>1 DEF TakeJob
    <3>2. queue # << >> => Head(queue) \in Jobs
      BY <1>0, TailQueue DEF PoolType
    <3>3. task' \in [Workers -> Jobs \cup {NoJob}]
      BY <1>0, <2>1, <3>2 DEF TakeJob, WorkerType
    <3> QED
      BY <1>0, <2>1, <3>1, <3>3 DEF TakeJob, WorkerType
  <2>2. CASE Release(w)
    <3>1. worker' \in [Workers -> Places]
      BY <1>b, <1>d, <2>2 DEF Release
    <3> QED
      BY <1>0, <2>2, <3>1 DEF Release, WorkerType
  <2>3. CASE RunJob(w) \/ FinishJob(w)
    <3>1. worker' \in [Workers -> Places]
      BY <1>b, <1>d, <2>3 DEF RunJob, FinishJob
    <3> QED
      BY <1>0, <2>3, <3>1 DEF RunJob, FinishJob, WorkerType
  <2>4. CASE CallNative(w)
    <3>1. worker' \in [Workers -> Places]
      BY <1>b, <1>d, <2>4 DEF CallNative
    <3>2. faults' \in 0..MaxFaults
      BY <1>c, <2>4 DEF CallNative
    <3> QED
      BY <1>0, <1>a, <2>4, <3>1, <3>2 DEF CallNative, WorkerType
  <2>5. CASE EnterEngineQueue(w)
    <3>1. worker' \in [Workers -> Places]
      BY <1>b, <1>d, <2>5 DEF EnterEngineQueue, Give
    <3> QED
      BY <1>0, <1>a, <2>5, <3>1 DEF EnterEngineQueue, Give, WorkerType
  <2>6. CASE ClaimEngine(w)
    <3>1. worker' \in [Workers -> Places]
      BY <1>b, <1>d, <2>6 DEF ClaimEngine, Give
    <3>2. outcome' = outcome \/ \E a \in Answers : outcome' = [outcome EXCEPT ![w] = a]
      BY <1>0, <2>6 DEF ClaimEngine, Give, Answers
    <3> QED
      BY <1>0, <2>6, <3>1, <3>2 DEF ClaimEngine, WorkerType
  <2>7. CASE CreateEngine(w)
    <3>1. worker' \in [Workers -> Places]
      BY <1>b, <1>d, <2>7 DEF CreateEngine
    <3>2. faults' \in 0..MaxFaults
      BY <1>c, <2>7 DEF CreateEngine
    <3> QED
      BY <1>0, <2>7, <3>1, <3>2 DEF CreateEngine, WorkerType
  <2>8. CASE AdmitEngine(w)
    <3>1. worker' \in [Workers -> Places]
      BY <1>b, <1>d, <2>8 DEF AdmitEngine, Give
    <3>2. outcome' = outcome \/ \E a \in Answers : outcome' = [outcome EXCEPT ![w] = a]
      BY <1>0, <2>8 DEF AdmitEngine, Give, Answers
    <3> QED
      BY <1>0, <2>8, <3>1, <3>2 DEF AdmitEngine, WorkerType
  <2>9. CASE Process(w)
    <3>1. worker' \in [Workers -> Places]
      BY <1>b, <1>d, <2>9 DEF Process
    <3>2. faults' \in 0..MaxFaults
      BY <1>c, <2>9 DEF Process
    <3>3. \A result \in Processed : result.answer \in Answers /\ result.poison \in BOOLEAN
      <4> SUFFICES ASSUME NEW result \in Processed
                   PROVE  result.answer \in {"Ok", "Internal", "Failed"}
                          /\ result.poison \in BOOLEAN
        BY DEF Answers
      <4>1. CASE result \in [answer : {"Failed"}, poison : BOOLEAN]
        BY <4>1
      <4>2. CASE result = [answer |-> "Ok", poison |-> FALSE]
        BY <4>2
      <4>3. CASE result = [answer |-> "Internal", poison |-> FALSE]
        BY <4>3
      <4> QED
        BY <4>1, <4>2, <4>3 DEF Processed
    <3> QED
      BY <1>0, <2>9, <3>1, <3>2, <3>3 DEF Process, WorkerType
  <2>10. CASE DropLease(w) \/ DestroyEngine(w)
    <3>1. worker' \in [Workers -> Places]
      BY <1>b, <1>d, <2>10 DEF DropLease, DestroyEngine
    <3> QED
      BY <1>0, <2>10, <3>1 DEF DropLease, DestroyEngine, WorkerType
  <2> QED
    BY <1>3, <2>1, <2>2, <2>3, <2>4, <2>5, <2>6, <2>7, <2>8, <2>9, <2>10 DEF WorkerStep
<1>4. CASE BeginClose \/ CloseStep \/ BeginOcrClose \/ OcrCloseStep
  BY <1>0, <1>4 DEF BeginClose, CloseStep, DrainQueue, CancelDrained, JoinWorkers,
                    BeginOcrClose, OcrCloseStep, TakeIdleEngines, DropIdleEngines,
                    SettleOcrClose, WorkerType
<1> QED
  BY <1>1, <1>2, <1>3, <1>4 DEF Next

(* The books bound the counters. *)
LEMMA BooksGiveTypes ==
  ASSUME Books', created' \in Nat, idle' \in Nat
  PROVE  {created, creating, borrowed, idle}' \subseteq 0..MaxEngines /\ live' \in Nat
<1>1. /\ Count(worker', Using) \in Nat /\ Count(worker', Creating) \in Nat
      /\ Count(worker', Outside) \in Nat
  BY CountBound
<1>2. borrowed' \in Nat /\ creating' \in Nat /\ live' \in Nat
  BY <1>1 DEF Books
<1>3. idle' + borrowed' + creating' <= MaxEngines /\ created' + creating' <= MaxEngines
  BY DEF Books
<1>4. MaxEngines \in Nat
  BY PoolAssumption DEF PoolAssumption
<1>5. /\ created' \in 0..MaxEngines /\ creating' \in 0..MaxEngines
      /\ borrowed' \in 0..MaxEngines /\ idle' \in 0..MaxEngines
  <2>1. \A a, b, c \in Nat : a + b + c <= MaxEngines =>
          a \in 0..MaxEngines /\ b \in 0..MaxEngines
    BY <1>4
  <2>2. \A a, b \in Nat : a + b <= MaxEngines =>
          a \in 0..MaxEngines /\ b \in 0..MaxEngines
    BY <1>4
  <2>3. created' \in 0..MaxEngines /\ creating' \in 0..MaxEngines
    BY <1>2, <1>3, <2>2
  <2>4. idle' \in 0..MaxEngines /\ borrowed' \in 0..MaxEngines
    BY <1>2, <1>3, <2>1
  <2> QED
    BY <2>3, <2>4
<1> QED
  BY <1>2, <1>5

LEMMA NextKeepsOcrType ==
  ASSUME Inv, Next, Books'
  PROVE  OcrType'
<1>0. /\ TypeOK /\ PoolType /\ CallType /\ WorkerType /\ OcrType
      /\ Books /\ JobsInv
  BY DEF Inv, TypeOK
<1> USE DEF callVars, ocrVars, ocrCloseVars
<1> DEFINE Ocr == {j \in Jobs : kind[j] = "ocr"}
<1>a. created \in Nat /\ idle \in Nat /\ borrowed \in Nat
  BY <1>0, BooksType
<1>b. ASSUME UNCHANGED kind,
             created' \in Nat /\ idle' \in Nat, waiters' \in Seq(Ocr),
             ocr_asleep' = ocr_asleep \/ NotifyOcr \/ ocr_asleep' \subseteq Workers,
             UNCHANGED <<open, ocr_closer, ocr_result>>
      PROVE  OcrType'
  <2>1. ocr_asleep' \subseteq Workers
    BY <1>0, <1>b DEF NotifyOcr, OcrType
  <2>2. waiters' \in Seq(Ocr)'
    BY <1>b
  <2> QED
    BY <1>0, <1>b, <2>1, <2>2, BooksGiveTypes DEF OcrType
<1>c. waiters \in Seq(Ocr)
  BY <1>0 DEF OcrType
<1>1. CASE Construct
  BY <1>a, <1>b, <1>c, <1>1
  DEF Construct, Spawn, WaitForStart, ConstructionFails, JoinConstructedWorkers,
      Register, OpenGate
<1>2. ASSUME NEW j \in Jobs, Submit(j) \/ CallStep(j) \/ Cancel(j) \/ RunHook(j)
      PROVE  OcrType'
  <2>1. UNCHANGED kind /\ UNCHANGED ocrVars /\ UNCHANGED ocrCloseVars
    BY <1>2 DEF Submit, CallStep, Admit, Commit, DropReservation, AttachWaiter,
           AnswerWithdrawn, NotifyWithdrawn, Cancel, RunHook
  <2>2. ocr_asleep' = ocr_asleep \/ NotifyOcr
    BY <1>2 DEF Submit, CallStep, Admit, Commit, DropReservation, AttachWaiter,
           AnswerWithdrawn, NotifyWithdrawn, Cancel, RunHook
  <2> QED
    BY <1>a, <1>b, <1>c, <2>1, <2>2
<1>3. ASSUME NEW w \in Workers, WorkerStep(w)
      PROVE  OcrType'
  <2>1. CASE TakeJob(w) \/ RunJob(w) \/ CallNative(w) \/ FinishJob(w) \/ Release(w)
    BY <1>a, <1>b, <1>c, <2>1 DEF TakeJob, RunJob, CallNative, FinishJob, Release
  <2>2. CASE EnterEngineQueue(w)
    <3>1. task[w] \in Ocr
      BY <1>0, <2>2 DEF EnterEngineQueue, JobsInv, TaskInv, Working, Owing, WorkerType
    <3>2. Append(waiters, task[w]) \in Seq(Ocr)
      BY <1>c, <3>1, AppendQueue
    <3>3. waiters' \in Seq(Ocr)
      BY <1>c, <2>2, <3>2 DEF EnterEngineQueue
    <3> QED
      BY <1>a, <1>b, <2>2, <3>3 DEF EnterEngineQueue
  <2>3. CASE ClaimEngine(w)
    <3>1. Without(waiters, task[w]) \in Seq(Ocr)
      BY <1>c, WithoutQueue
    <3>2. waiters # << >> => Tail(waiters) \in Seq(Ocr)
      BY <1>c, TailQueue
    <3>3. waiters' \in Seq(Ocr)
      BY <1>c, <2>3, <3>1, <3>2 DEF ClaimEngine, LeaveEngineQueue
    <3>4. idle' \in Nat /\ UNCHANGED <<kind, open, created, ocr_closer, ocr_result>>
      BY <1>a, <2>3 DEF ClaimEngine
    <3>5. NotifyOcr \/ ocr_asleep' = ocr_asleep \cup {w}
      BY <2>3 DEF ClaimEngine
    <3>6. NotifyOcr \/ ocr_asleep' \subseteq Workers
      BY <1>0, <3>5 DEF OcrType
    <3> QED
      BY <1>a, <1>b, <3>3, <3>4, <3>6
  <2>4. CASE CreateEngine(w)
    BY <1>a, <1>b, <1>c, <2>4 DEF CreateEngine
  <2>5. CASE AdmitEngine(w)
    BY <1>a, <1>b, <1>c, <2>5 DEF AdmitEngine
  <2>6. CASE Process(w)
    BY <1>a, <1>b, <1>c, <2>6 DEF Process
  <2>7. CASE DropLease(w)
    <3>1. worker[w] = "lease" /\ UNCHANGED <<kind, open, waiters, ocr_closer, ocr_result>>
          /\ NotifyOcr
      BY <2>7 DEF DropLease
    <3>2. created > 0
      <4>1. "lease" \in Using
        BY DEF Using
      <4>2. PICK p : At(w, p)
        BY <2>7 DEF DropLease
      <4>3. Count(worker, Using) > 0
        BY <1>0, <3>1, <4>1, <4>2, EngineMoves
      <4> QED
        BY <1>0, <1>a, <4>3 DEF Books, OcrType
    <3>3. created' \in Nat /\ idle' \in Nat
      BY <1>a, <2>7, <3>2 DEF DropLease
    <3> QED
      BY <1>b, <1>c, <3>1, <3>3
  <2>8. CASE DestroyEngine(w)
    BY <1>a, <1>b, <1>c, <2>8 DEF DestroyEngine
  <2> QED
    BY <1>3, <2>1, <2>2, <2>3, <2>4, <2>5, <2>6, <2>7, <2>8 DEF WorkerStep
<1>4. CASE BeginClose \/ CloseStep
  BY <1>a, <1>b, <1>c, <1>4 DEF BeginClose, CloseStep, DrainQueue, CancelDrained, JoinWorkers
<1>5. CASE BeginOcrClose \/ OcrCloseStep
  <2>1. UNCHANGED kind /\ UNCHANGED waiters
    BY <1>5 DEF BeginOcrClose, OcrCloseStep, TakeIdleEngines, DropIdleEngines, SettleOcrClose
  <2>2. ocr_asleep' = ocr_asleep \/ NotifyOcr
    BY <1>5 DEF BeginOcrClose, OcrCloseStep, TakeIdleEngines, DropIdleEngines, SettleOcrClose
  <2>3. open' \in BOOLEAN /\ ocr_closer' \in {"idle", "wait", "drop", "settle", "done"}
        /\ ocr_result' \in {"none", "Ok", "Internal"}
    BY <1>0, <1>5 DEF BeginOcrClose, OcrCloseStep, TakeIdleEngines, DropIdleEngines,
                      SettleOcrClose, OcrType
  <2>4. created' \in Nat /\ idle' \in Nat
    BY <1>a, <1>5 DEF BeginOcrClose, OcrCloseStep, TakeIdleEngines, DropIdleEngines,
                      SettleOcrClose
  <2>5. ocr_asleep' \subseteq Workers
    BY <1>0, <2>2 DEF NotifyOcr, OcrType
  <2>6. waiters' \in Seq(Ocr)'
    BY <1>c, <2>1
  <2> QED
    BY <2>3, <2>4, <2>5, <2>6, BooksGiveTypes DEF OcrType
<1> QED
  BY <1>1, <1>2, <1>3, <1>4, <1>5 DEF Next

-----------------------------------------------------------------------------
LEMMA InitInv ==
  ASSUME Init
  PROVE  Inv
<1> USE DEF Init, InitPool, InitOcrPool
<1>1. TypeOK
  <2>1. << >> \in Seq(Jobs) /\ << >> \in Seq({j \in Jobs : kind[j] = "ocr"}) /\ Len(<< >>) = 0
    OBVIOUS
  <2>2. 0 \in 0..Cardinality(Workers)
    <3>1. Cardinality(Workers) \in Nat
      BY PoolAssumption, FS_CardinalityType DEF PoolAssumption
    <3> QED
      BY <3>1
  <2>3. PoolType
    BY <2>1, <2>2, PoolAssumption DEF PoolType, PoolAssumption
  <2>4. CallType
    BY DEF CallType, Kinds
  <2>5. WorkerType
    BY PoolAssumption DEF WorkerType, Places, PoolAssumption
  <2>6. OcrType
    BY <2>1, PoolAssumption DEF OcrType, PoolAssumption
  <2> QED
    BY <2>3, <2>4, <2>5, <2>6 DEF TypeOK
<1>2. \A S \in {Using, Creating, Outside, Working} : Count(worker, S) = 0
  <2>1. \A S \in {Using, Creating, Outside, Working} : "unborn" \notin S
    BY DEF Using, Creating, Outside, Working, Owing
  <2> QED
    BY <2>1, CountNone
<1>3. Books
  BY <1>2, PoolAssumption DEF Books, PoolAssumption
<1>4. BuildInv /\ OutcomeInv
  BY DEF BuildInv, OutcomeInv
<1>5. CloseInv /\ ReservedInv /\ AnswerInv
  BY DEF CloseInv, ReservedInv, AnswerInv, Owed
<1>6. \A w \in Workers : worker[w] \notin Working /\ worker[w] \notin Owing
  BY DEF Working, Owing
<1>7. QueueInv(queue) /\ QueueInv(drained)
  BY EmptyQueue DEF QueueInv
<1>8. TaskInv /\ WithdrawInv
  BY <1>2, <1>6 DEF TaskInv, WithdrawInv
<1> QED
  BY <1>1, <1>3, <1>4, <1>5, <1>7, <1>8 DEF Inv, JobsInv

LEMMA InvNext ==
  ASSUME Inv, [Next]_vars
  PROVE  Inv'
<1>1. CASE Next
  <2>1. JobsInv'
    BY <1>1, CallsKeepJobs, WorkersKeepJobs, ClosersKeepJobs DEF Next, Construct
  <2>2. Books'
    BY <1>1, NextKeepsBooks
  <2> QED
    BY <1>1, <2>1, <2>2, NextKeepsBuild, NextKeepsOutcomes, NextKeepsPoolType,
       NextKeepsCallType, NextKeepsWorkerType, NextKeepsOcrType
    DEF Inv, TypeOK
<1>2. CASE UNCHANGED vars
  <2> USE DEF vars, poolVars, buildVars, closeVars, callVars, jobVars, workerVars, ocrVars,
              ocrCloseVars
  <2>1. JobsInv'
    BY <1>2, JobsUntouched DEF Inv, JobVars
  <2>2. Books'
    BY <1>2, BooksUntouched DEF Inv, EngineVars
  <2>3. TypeOK'
    BY <1>2 DEF Inv, TypeOK, PoolType, CallType, WorkerType, OcrType
  <2>4. BuildInv' /\ OutcomeInv'
    BY <1>2 DEF Inv, BuildInv, OutcomeInv
  <2> QED
    BY <2>1, <2>2, <2>3, <2>4 DEF Inv
<1> QED
  BY <1>1, <1>2

(* The inductive invariant holds of every behaviour of the two pools.        *)
THEOREM Invariance == Spec => []Inv
<1>1. Init => Inv
  BY InitInv
<1>2. Inv /\ [Next]_vars => Inv'
  BY InvNext
<1> QED
  BY <1>1, <1>2, PTL DEF Spec

(* The variables of the pools keep their types: the queue and the counters   *)
(* of engines never exceed the configured capacities.                        *)
THEOREM TypeCorrect == Spec => []TypeOK
<1>1. Inv => TypeOK
  BY DEF Inv
<1> QED
  BY <1>1, Invariance, PTL

(* The books of the OCR pool agree with the engines that exist, whatever its *)
(* callers, its close and the faults do in between.                          *)
THEOREM BooksBalance == Spec => []EnginesAccountedFor
<1>1. Inv => EnginesAccountedFor
  <2> SUFFICES ASSUME Inv PROVE EnginesAccountedFor
    OBVIOUS
  <2> DEFINE has(places) == Cardinality({w \in Workers : worker[w] \in places})
  <2>1. /\ has({"process", "lease"}) = Count(worker, Using)
        /\ has({"create", "created", "failed_create"}) = Count(worker, Creating)
        /\ has({"created", "discard"}) = Count(worker, Outside)
    BY DEF Count, In, Using, Creating, Outside
  <2>2. Books /\ TypeOK
    BY DEF Inv
  <2>3. created \in Nat /\ creating \in Nat /\ borrowed \in Nat /\ idle \in Nat
    BY <2>2, BooksType
  <2>4. ocr_closer = "done" =>
          ocr_result = "Ok" /\ created + creating + borrowed + idle = 0 /\ idle + borrowed = 0
    BY <2>2, <2>3 DEF Books
  <2>5. closer = "done" => Count(worker, Outside) = 0
    <3>1. closer = "done" => \A w \in Workers : worker[w] = "exited"
      BY DEF Inv, JobsInv, CloseInv
    <3> QED
      BY <3>1, CountNone DEF Outside
  <2>6. closer = "done" /\ ocr_closer = "done" => live = 0
    BY <2>2, <2>4, <2>5 DEF Books
  <2> HIDE DEF has
  <2>7. /\ created + creating <= MaxEngines
        /\ borrowed = has({"process", "lease"})
        /\ creating = has({"create", "created", "failed_create"})
        /\ ocr_closer \in {"idle", "wait"} => created = idle + borrowed
        /\ live = idle + borrowed + has({"created", "discard"})
    BY <2>1, <2>2 DEF Books
  <2> QED
    BY <2>4, <2>6, <2>7 DEF EnginesAccountedFor, has
<1> QED
  BY <1>1, Invariance, PTL

(* An owed job has one holder, an answered one none.                         *)
LEMMA OneHolder ==
  ASSUME Inv, NEW j \in Jobs, call[j] \in {"committed", "wait"}
  PROVE  Cardinality(Holders(j)) = IF completion[j] = "none" THEN 1 ELSE 0
<1>0. TypeOK /\ JobsInv
  BY DEF Inv
<1>1. \A w \in Workers : task[w] = j /\ worker[w] # "release" <=>
                          task[w] = j /\ worker[w] \in Owing
  <2>1. j # NoJob
    BY PoolAssumption DEF PoolAssumption
  <2> QED
    BY <1>0, <2>1, PlacesSplit DEF JobsInv, TaskInv
<1>2. /\ \A i \in DOMAIN queue : queue[i] \in ToSet(queue)
      /\ \A i \in DOMAIN drained : drained[i] \in ToSet(drained)
  BY DEF ToSet
<1>3. CASE completion[j] # "none"
  <2>1. ~Owed(j)
    BY <1>3 DEF Owed
  <2>2. /\ \A i \in DOMAIN queue : queue[i] # j
        /\ \A i \in DOMAIN drained : drained[i] # j
        /\ \A w \in Workers : ~(task[w] = j /\ worker[w] # "release")
        /\ withdrawal[j] # "answer"
    BY <1>0, <1>1, <1>2, <2>1 DEF JobsInv, QueueInv, TaskInv, WithdrawInv
  <2>3. Holders(j) = {}
    BY <2>2 DEF Holders
  <2> QED
    BY <1>3, <2>3, FS_EmptySet
<1>4. CASE completion[j] = "none"
  <2>1. Owed(j) /\ Held(j)
    BY <1>0, <1>4 DEF Owed, JobsInv, AnswerInv
  <2>2. queue = << >> \/ drained = << >>
    BY <1>0 DEF JobsInv, CloseInv, TypeOK, PoolType
  <2>3. queue = << >> => \A i \in DOMAIN queue : FALSE
    OBVIOUS
  <2>4. drained = << >> => \A i \in DOMAIN drained : FALSE
    OBVIOUS
  <2>5. \E h : Holders(j) = {h}
    <3>1. CASE j \in ToSet(queue)
      <4>1. PICK i \in DOMAIN queue : queue[i] = j
        BY <3>1 DEF ToSet
      <4>2. \A k \in DOMAIN queue : queue[k] = j => k = i
        BY <1>0, <4>1 DEF JobsInv, QueueInv, Once
      <4>3. \A k \in DOMAIN drained : FALSE
        BY <2>2, <2>3, <2>4, <4>1
      <4>4. \A w \in Workers : ~(task[w] = j /\ worker[w] # "release")
        BY <1>0, <1>1, <3>1 DEF JobsInv, QueueInv
      <4>5. withdrawal[j] # "answer"
        BY <1>0, <3>1 DEF JobsInv, WithdrawInv
      <4>6. Holders(j) = {<<"queue", i>>}
        BY <4>1, <4>2, <4>3, <4>4, <4>5 DEF Holders
      <4> QED
        BY <4>6
    <3>2. CASE j \in ToSet(drained)
      <4>1. PICK i \in DOMAIN drained : drained[i] = j
        BY <3>2 DEF ToSet
      <4>2. \A k \in DOMAIN drained : drained[k] = j => k = i
        BY <1>0, <4>1 DEF JobsInv, QueueInv, Once
      <4>3. \A k \in DOMAIN queue : FALSE
        BY <2>2, <2>3, <2>4, <4>1
      <4>4. \A w \in Workers : ~(task[w] = j /\ worker[w] # "release")
        BY <1>0, <1>1, <3>2 DEF JobsInv, QueueInv
      <4>5. withdrawal[j] # "answer"
        BY <1>0, <3>2 DEF JobsInv, WithdrawInv
      <4>6. Holders(j) = {<<"drained", i>>}
        BY <4>1, <4>2, <4>3, <4>4, <4>5 DEF Holders
      <4> QED
        BY <4>6
    <3>3. CASE \E w \in Workers : task[w] = j /\ worker[w] \in Owing
      <4>1. PICK w \in Workers : task[w] = j /\ worker[w] \in Owing
        BY <3>3
      <4>2. \A v \in Workers : task[v] = j /\ worker[v] # "release" => v = w
        BY <1>0, <1>1, <4>1 DEF JobsInv, TaskInv
      <4>3. /\ \A i \in DOMAIN queue : queue[i] # j
            /\ \A i \in DOMAIN drained : drained[i] # j
        BY <1>0, <1>2, <4>1 DEF JobsInv, QueueInv
      <4>4. task[w] = j /\ worker[w] # "release"
        BY <1>1, <4>1
      <4>5. withdrawal[j] # "answer"
        BY <1>0, <4>1 DEF JobsInv, WithdrawInv
      <4>6. Holders(j) = {<<"worker", w>>}
        BY <4>2, <4>3, <4>4, <4>5 DEF Holders
      <4> QED
        BY <4>6
    <3>4. CASE withdrawal[j] = "answer"
      <4>1. /\ \A i \in DOMAIN queue : queue[i] # j
            /\ \A i \in DOMAIN drained : drained[i] # j
            /\ \A w \in Workers : ~(task[w] = j /\ worker[w] # "release")
        BY <1>0, <1>1, <1>2, <3>4 DEF JobsInv, WithdrawInv
      <4>2. Holders(j) = {<<"canceller", j>>}
        BY <3>4, <4>1 DEF Holders
      <4> QED
        BY <4>2
    <3> QED
      BY <2>1, <3>1, <3>2, <3>3, <3>4 DEF Held
  <2> QED
    BY <1>4, <2>5, FS_Singleton
<1> QED
  BY <1>3, <1>4

(* Every accepted job is answered once, by the worker, the close or the      *)
(* cancel that took it out of the queue, and nobody forgets one; when close  *)
(* has ended, only a cancel that came before it may still owe an answer.     *)
THEOREM JobsKept == Spec => []JobsConserved
<1>1. Inv => JobsConserved
  <2> SUFFICES ASSUME Inv, NEW j \in Jobs
               PROVE  /\ finishes[j] <= 1
                      /\ call[j] \in {"committed", "wait"} =>
                           Cardinality(Holders(j)) = (IF completion[j] = "none" THEN 1 ELSE 0)
                      /\ closer = "done" =>
                           /\ close_result = "Ok"
                           /\ call[j] \in {"committed", "wait"} =>
                                completion[j] # "none" \/ withdrawal[j] = "answer"
                      /\ built = "failed" =>
                           \A w \in Workers : worker[w] \in {"unborn", "exited"}
    BY DEF JobsConserved
  <2>1. finishes[j] <= 1
    BY DEF Inv, JobsInv, AnswerInv
  <2>2. ASSUME closer = "done", call[j] \in {"committed", "wait"}
        PROVE  completion[j] # "none" \/ withdrawal[j] = "answer"
    <3>1. /\ queue = << >> /\ drained = << >>
          /\ \A w \in Workers : worker[w] = "exited"
      BY <2>2 DEF Inv, JobsInv, CloseInv
    <3>2. Held(j) => withdrawal[j] = "answer"
      BY <3>1, EmptyQueue, PlacesSplit DEF Held
    <3> QED
      BY <2>2, <3>2 DEF Inv, JobsInv, AnswerInv, Owed
  <2>3. closer = "done" => close_result = "Ok"
    BY DEF Inv, JobsInv, CloseInv
  <2>4. built = "failed" => \A w \in Workers : worker[w] \in {"unborn", "exited"}
    BY DEF Inv, BuildInv
  <2> QED
    BY <2>1, <2>2, <2>3, <2>4, OneHolder
<1> QED
  BY <1>1, Invariance, PTL

-----------------------------------------------------------------------------
(* Who sleeps, and on what.                                                 *)

(* The threads asleep on the worker pool's condition variable: each would go *)
(* back to sleep, or its token was cancelled and the hook has still to wake  *)
(* it.                                                                       *)
SleepInv ==
  \A t \in asleep :
    /\ t \in Jobs => call[t] = "admit"
    /\ t \in Workers => worker[t] = "idle"
    /\ t = Closer => closer = "drain"
    /\ Stuck(t) \/ (t \in Jobs /\ "admission" \in firing[t])

(* The queue for engines is that of the workers at their claim.              *)
TicketInv ==
  /\ Once(waiters)
  /\ \A w \in Workers : worker[w] = "claim" => task[w] \in ToSet(waiters)
  /\ \A j \in ToSet(waiters) : \E w \in Workers : worker[w] = "claim" /\ task[w] = j

(* The workers asleep on the engine pool's condition variable.               *)
EngineSleepInv ==
  \A w \in ocr_asleep :
    /\ worker[w] = "claim"
    /\ NoEngineFor(w) \/ "engine" \in firing[task[w]]

(* A slot is reserved by somebody; a pool in use has all of its workers.     *)
StaffInv ==
  /\ reserved # 0 => \E j \in Jobs : call[j] = "reserved"
  /\ built \in {"registered", "ready"} => \A w \in Workers : worker[w] # "unborn"
  /\ \A w \in Workers : worker[w] = "exited" => start = "Abort" \/ lifecycle # "Open"

WaitInv == SleepInv /\ TicketInv /\ EngineSleepInv /\ StaffInv

(* The places in which a thread of the worker pool may be asleep.            *)
Dozes(t) ==
  /\ t \in Jobs => call[t] = "admit"
  /\ t \in Workers => worker[t] = "idle"
  /\ t = Closer => closer = "drain"

(* No step moves a thread that is asleep.                                    *)
LEMMA SleepersStay ==
  ASSUME Inv, SleepInv, Next
  PROVE  \A t \in asleep : Dozes(t)'
<1>0. TypeOK /\ CloseInv
  BY DEF Inv, JobsInv
<1>1. ASSUME NEW t \in asleep, t \in Jobs PROVE call'[t] = "admit"
  <2>1. call[t] = "admit" /\ call \in [Jobs -> {"idle", "admit", "reserved", "committed",
                                                 "wait", "done"}]
    BY <1>0, <1>1 DEF SleepInv, TypeOK, CallType
  <2> USE DEF callVars
  <2>2. ASSUME NEW j \in Jobs, Submit(j) \/ CallStep(j) \/ Cancel(j) \/ RunHook(j)
        PROVE  call'[t] = "admit"
    <3>1. CASE Admit(j)
      BY <1>1, <2>1, <3>1 DEF Admit, Refuse, Goto
    <3>2. CASE \/ Submit(j) \/ Commit(j) \/ DropReservation(j) \/ AttachWaiter(j)
               \/ AnswerWithdrawn(j) \/ NotifyWithdrawn(j)
      BY <1>1, <2>1, <3>2 DEF Submit, Refuse, Commit, DropReservation, AttachWaiter,
             AnswerWithdrawn, NotifyWithdrawn, Goto
    <3>3. CASE Cancel(j) \/ RunHook(j)
      BY <2>1, <3>3 DEF Cancel, RunHook
    <3> QED BY <2>2, <3>1, <3>2, <3>3 DEF CallStep
  <2>3. CASE Construct
    BY <2>1, <2>3 DEF Construct, Spawn, WaitForStart, ConstructionFails, JoinConstructedWorkers,
                      Register, OpenGate
  <2>4. ASSUME NEW w \in Workers, WorkerStep(w) PROVE call' = call
    BY <2>4 DEF WorkerStep, TakeJob, RunJob, CallNative, FinishJob, Release, EnterEngineQueue,
                ClaimEngine, CreateEngine, AdmitEngine, Process, DropLease, DestroyEngine
  <2>5. CASE BeginClose \/ CloseStep \/ BeginOcrClose \/ OcrCloseStep
    BY <2>1, <2>5 DEF BeginClose, CloseStep, DrainQueue, CancelDrained, JoinWorkers,
                    BeginOcrClose, OcrCloseStep, TakeIdleEngines, DropIdleEngines,
                    SettleOcrClose
  <2> QED BY <2>1, <2>2, <2>3, <2>4, <2>5 DEF Next
<1>2. ASSUME NEW t \in asleep, t \in Workers PROVE worker'[t] = "idle"
  <2>1. worker[t] = "idle" /\ worker \in [Workers -> Places]
    BY <1>0, <1>2 DEF SleepInv, TypeOK, WorkerType
  <2> USE DEF workerVars
  <2>2. ASSUME NEW j \in Jobs, Submit(j) \/ CallStep(j) \/ Cancel(j) \/ RunHook(j)
        PROVE  worker' = worker
    BY <2>2 DEF Submit, CallStep, Admit, Commit, DropReservation, AttachWaiter,
           AnswerWithdrawn, NotifyWithdrawn, Cancel, RunHook
  <2>3. CASE Construct
    <3>1. ASSUME NEW w \in Workers, Spawn(w) \/ WaitForStart(w) PROVE worker'[t] = "idle"
      <4>1. worker[w] \in {"unborn", "start"} /\ \A v \in Workers \ {w} : worker'[v] = worker[v]
        BY <2>1, <3>1 DEF Spawn, WaitForStart
      <4> QED BY <1>2, <2>1, <4>1
    <3>2. CASE ConstructionFails \/ JoinConstructedWorkers \/ Register \/ OpenGate
      BY <2>1, <3>2 DEF ConstructionFails, JoinConstructedWorkers, Register, OpenGate
    <3> QED BY <2>3, <3>1, <3>2 DEF Construct
  <2>4. ASSUME NEW w \in Workers, WorkerStep(w) PROVE worker'[t] = "idle"
    <3>1. CASE TakeJob(w)
      BY <1>2, <2>1, <3>1 DEF TakeJob, At
    <3>2. CASE ~TakeJob(w)
      <4>1. worker[w] # "idle"
        BY <2>4, <3>2 DEF WorkerStep, RunJob, CallNative, FinishJob, Release, EnterEngineQueue,
                ClaimEngine, CreateEngine, AdmitEngine, Process, DropLease, DestroyEngine
      <4>2. \A v \in Workers \ {w} : worker'[v] = worker[v]
        BY <2>1, <2>4, <3>2 DEF WorkerStep, RunJob, CallNative, FinishJob, Release,
             EnterEngineQueue, ClaimEngine, CreateEngine, AdmitEngine, Process, DropLease,
             DestroyEngine, Give, At
      <4> QED BY <1>2, <2>1, <4>1, <4>2
    <3> QED BY <3>1, <3>2
  <2>5. CASE BeginClose \/ CloseStep \/ BeginOcrClose \/ OcrCloseStep
    BY <2>1, <2>5 DEF BeginClose, CloseStep, DrainQueue, CancelDrained, JoinWorkers,
                    BeginOcrClose, OcrCloseStep, TakeIdleEngines, DropIdleEngines,
                    SettleOcrClose
  <2> QED BY <2>1, <2>2, <2>3, <2>4, <2>5 DEF Next
<1>3. ASSUME Closer \in asleep PROVE closer' = "drain"
  <2>1. closer = "drain"
    BY <1>3 DEF SleepInv
  <2> USE DEF closeVars
  <2>2. CASE DrainQueue
    BY <1>3, <2>2 DEF DrainQueue
  <2>3. CASE BeginClose \/ CancelDrained \/ JoinWorkers
    BY <2>1, <2>3 DEF BeginClose, CancelDrained, JoinWorkers
  <2>4. ASSUME NEW j \in Jobs, Submit(j) \/ CallStep(j) \/ Cancel(j) \/ RunHook(j)
        PROVE  closer' = closer
    BY <2>4 DEF Submit, CallStep, Admit, Commit, DropReservation, AttachWaiter,
           AnswerWithdrawn, NotifyWithdrawn, Cancel, RunHook
  <2>5. CASE Construct
    BY <2>1, <2>5 DEF Construct, Spawn, WaitForStart, ConstructionFails, JoinConstructedWorkers,
                      Register, OpenGate
  <2>6. ASSUME NEW w \in Workers, WorkerStep(w) PROVE closer' = closer
    BY <2>6 DEF WorkerStep, TakeJob, RunJob, CallNative, FinishJob, Release, EnterEngineQueue,
                ClaimEngine, CreateEngine, AdmitEngine, Process, DropLease, DestroyEngine
  <2>7. CASE BeginOcrClose \/ OcrCloseStep
    BY <2>1, <2>7 DEF BeginOcrClose, OcrCloseStep, TakeIdleEngines, DropIdleEngines,
                    SettleOcrClose
  <2> QED BY <2>1, <2>2, <2>3, <2>4, <2>5, <2>6, <2>7 DEF Next, CloseStep
<1> QED BY <1>1, <1>2, <1>3 DEF Dozes

(* After a notify_all exactly those are asleep who would go back to sleep.   *)
LEMMA NotifySleeps ==
  ASSUME Inv, SleepInv, Next, Notify
  PROVE  SleepInv'
<1>1. \A t \in asleep' : t \in asleep /\ Stuck(t)'
  BY DEF Notify
<1>2. \A t \in asleep' : Dozes(t)'
  BY <1>1, SleepersStay
<1> QED BY <1>1, <1>2 DEF SleepInv, Dozes

(* A step that does not notify leaves the sleepers their reason.             *)
LEMMA SleepersKept ==
  ASSUME Inv, SleepInv, Next, asleep' = asleep,
         \A t \in asleep : Stuck(t) => Stuck(t)' \/ (t \in Jobs /\ "admission" \in firing'[t]),
         \A t \in asleep : t \in Jobs /\ "admission" \in firing[t] => "admission" \in firing'[t]
  PROVE  SleepInv'
<1>1. \A t \in asleep' : Dozes(t)'
  BY SleepersStay
<1>2. \A t \in asleep : Stuck(t)' \/ (t \in Jobs /\ "admission" \in firing'[t])
  BY DEF SleepInv
<1> QED BY <1>1, <1>2 DEF SleepInv, Dozes

(* Nor does a step that does not touch what they wait for.                   *)
LEMMA SleepersUntouched ==
  ASSUME Inv, SleepInv, Next, UNCHANGED <<asleep, cancelled, lifecycle, reserved, queue, firing>>
  PROVE  SleepInv'
<1>1. \A t : Stuck(t) => Stuck(t)'
  BY DEF Stuck
<1> QED BY <1>1, SleepersKept

(* Whoever sleeps at the worker pool has its reason after every step: what   *)
(* could end the reason (an admission, a cancel's hook, a close) notifies.   *)
LEMMA NextKeepsSleep ==
  ASSUME Inv, SleepInv, Next
  PROVE  SleepInv'
<1>0. /\ TypeOK /\ CloseInv
      /\ Jobs \cap Workers = {} /\ Closer \notin Jobs \cup Workers
  BY PoolAssumption DEF Inv, JobsInv, PoolAssumption
<1> USE DEF poolVars, callVars
<1>1. CASE Construct
  BY <1>1, SleepersUntouched DEF Construct, Spawn, WaitForStart, ConstructionFails,
                                 JoinConstructedWorkers, Register, OpenGate
<1>2. ASSUME NEW j \in Jobs, Submit(j) PROVE SleepInv'
  BY <1>2, SleepersUntouched DEF Submit, Refuse
<1>3. ASSUME NEW j \in Jobs, Admit(j) PROVE SleepInv'
  <2>1. /\ call[j] = "admit" /\ j \notin asleep
        /\ UNCHANGED <<lifecycle, queue, cancelled, firing>>
    BY <1>3 DEF Admit, Refuse
  <2>2. CASE UNCHANGED <<asleep, reserved>>
    BY <2>1, <2>2, SleepersUntouched
  <2>3. CASE /\ ~cancelled[j] /\ lifecycle = "Open" /\ reserved # 0
             /\ asleep' = asleep \cup {j} /\ UNCHANGED <<reserved, call>>
    <3>1. \A t : Stuck(t)' <=> Stuck(t)
      BY <2>1, <2>3 DEF Stuck
    <3>2. Stuck(j) /\ j # Closer /\ j \notin Workers
      BY <1>0, <2>3 DEF Stuck
    <3>3. \A t \in asleep : Dozes(t)'
      BY SleepersStay
    <3>4. Dozes(j)'
      BY <2>1, <2>3, <3>2 DEF Dozes
    <3>5. \A t \in asleep' : Dozes(t)'
      BY <2>3, <3>3, <3>4
    <3>6. \A t \in asleep' : Stuck(t)' \/ (t \in Jobs /\ "admission" \in firing'[t])
      BY <2>1, <2>3, <3>1, <3>2 DEF SleepInv
    <3> QED BY <3>5, <3>6 DEF SleepInv, Dozes
  <2>4. CASE lifecycle = "Open" /\ reserved' = 1 /\ asleep' = asleep
    <3>1. \A t : Stuck(t) => Stuck(t)'
      BY <2>1, <2>4 DEF Stuck
    <3> QED BY <2>1, <2>4, <3>1, SleepersKept
  <2> QED BY <1>3, <2>2, <2>3, <2>4 DEF Admit, Refuse
<1>4. ASSUME NEW j \in Jobs, Commit(j) \/ DropReservation(j) PROVE SleepInv'
  BY <1>4, NotifySleeps DEF Commit, DropReservation
<1>a. ASSUME NEW j \in Jobs, CancelQueued(j),
             UNCHANGED <<asleep, cancelled, lifecycle, reserved, firing>>, Next
      PROVE  SleepInv'
  <2>1. Contains(queue, j) => queue # <<>>
    BY DEF Contains
  <2>2. \A t \in asleep : Stuck(t) => Stuck(t)'
    BY <1>a, <2>1 DEF Stuck, CancelQueued
  <2> QED BY <1>a, <2>2, SleepersKept
<1>5. ASSUME NEW j \in Jobs, AttachWaiter(j) PROVE SleepInv'
  <2>1. CASE CancelQueued(j)
    BY <1>5, <1>a, <2>1 DEF AttachWaiter
  <2>2. CASE UNCHANGED queue
    BY <1>5, <2>2, SleepersUntouched DEF AttachWaiter
  <2> QED BY <1>5, <2>1, <2>2 DEF AttachWaiter
<1>b. ASSUME NEW j \in Jobs, AnswerWithdrawn(j) PROVE SleepInv'
  BY <1>b, SleepersUntouched DEF AnswerWithdrawn
<1>c. ASSUME NEW j \in Jobs, NotifyWithdrawn(j) PROVE SleepInv'
  BY <1>c, NotifySleeps DEF NotifyWithdrawn
<1>6. ASSUME NEW j \in Jobs, Cancel(j) PROVE SleepInv'
  <2>1. /\ UNCHANGED <<asleep, lifecycle, reserved, queue>>
        /\ \A i \in Jobs \ {j} : cancelled'[i] = cancelled[i] /\ firing'[i] = firing[i]
        /\ firing'[j] = Hooks(j)
    BY <1>0, <1>6 DEF Cancel, TypeOK, CallType
  <2>2. j \in asleep => "admission" \in firing'[j]
    BY <2>1 DEF SleepInv, Hooks
  <2>3. \A t \in asleep \ {j} : Stuck(t) => Stuck(t)'
    BY <2>1 DEF Stuck
  <2> QED BY <1>6, <2>1, <2>2, <2>3, SleepersKept
<1>7. ASSUME NEW j \in Jobs, RunHook(j) PROVE SleepInv'
  <2>1. CASE Notify
    BY <2>1, NotifySleeps
  <2>2. CASE /\ UNCHANGED <<queue, asleep>>
             /\ \/ firing' = [firing EXCEPT ![j] = @ \ {"queued"}]
                \/ firing[j] = {"engine"} /\ firing' = [firing EXCEPT ![j] = {}]
    <3>1. UNCHANGED <<asleep, cancelled, lifecycle, reserved, queue>>
      BY <1>7, <2>2 DEF RunHook
    <3>2. \A t : Stuck(t) => Stuck(t)'
      BY <3>1 DEF Stuck
    <3>3. \A t \in Jobs : "admission" \in firing[t] => "admission" \in firing'[t]
      BY <1>0, <2>2 DEF TypeOK, CallType
    <3> QED BY <3>1, <3>2, <3>3, SleepersKept
  <2>3. CASE CancelQueued(j) /\ UNCHANGED <<asleep, firing>>
    BY <1>7, <1>a, <2>3 DEF RunHook
  <2> QED BY <1>7, <2>1, <2>2, <2>3 DEF RunHook
<1>8. ASSUME NEW w \in Workers, WorkerStep(w) PROVE SleepInv'
  <2>1. CASE TakeJob(w)
    <3>1. worker[w] = "idle" /\ w \notin asleep
          /\ UNCHANGED <<lifecycle, reserved, cancelled, firing>>
      BY <2>1 DEF TakeJob
    <3>2. CASE UNCHANGED <<queue, asleep>>
      BY <3>1, <3>2, SleepersUntouched
    <3>3. CASE /\ IF lifecycle # "Open" THEN reserved # 0 ELSE queue = <<>>
               /\ asleep' = asleep \cup {w} /\ UNCHANGED <<queue, worker>>
      <4>1. \A t : Stuck(t)' <=> Stuck(t)
        BY <3>1, <3>3 DEF Stuck
      <4>2. Stuck(w) /\ w # Closer /\ w \notin Jobs
        BY <1>0, <3>3 DEF Stuck
      <4>3. \A t \in asleep' : Dozes(t)'
        BY <3>1, <3>3, <4>2, SleepersStay DEF Dozes
      <4>4. \A t \in asleep' : Stuck(t)' \/ (t \in Jobs /\ "admission" \in firing'[t])
        BY <3>1, <3>3, <4>1, <4>2 DEF SleepInv
      <4> QED BY <4>3, <4>4 DEF SleepInv, Dozes
    <3>4. CASE lifecycle = "Open" /\ queue # <<>> /\ asleep' = asleep
      <4>1. \A t \in asleep : t \in Workers => ~Stuck(t)
        BY <1>0, <3>4 DEF Stuck
      <4>2. \A t \in asleep : t \notin Workers
        BY <1>0, <4>1 DEF SleepInv
      <4>3. \A t \in asleep : Stuck(t) => Stuck(t)'
        BY <3>1, <4>2 DEF Stuck
      <4> QED BY <3>1, <3>4, <4>3, SleepersKept
    <3> QED BY <2>1, <3>2, <3>3, <3>4 DEF TakeJob
  <2>2. CASE Release(w)
    BY <2>2, NotifySleeps DEF Release
  <2>3. CASE ~TakeJob(w) /\ ~Release(w)
    BY <1>8, <2>3, SleepersUntouched DEF WorkerStep, RunJob, CallNative, FinishJob,
       EnterEngineQueue, ClaimEngine, CreateEngine, AdmitEngine, Process, DropLease, DestroyEngine
  <2> QED BY <2>1, <2>2, <2>3
<1>9. CASE BeginClose
  <2>1. /\ \A t \in asleep' : Stuck(t)' /\ t \in asleep \cup {Closer}
        /\ reserved # 0 => closer' = "drain"
        /\ lifecycle' = "Closing" /\ reserved' = reserved
    BY <1>9 DEF BeginClose
  <2>2. Closer \in asleep' => Dozes(Closer)'
    BY <1>0, <2>1 DEF Stuck, Dozes
  <2>3. \A t \in asleep' : Dozes(t)'
    BY <2>1, <2>2, SleepersStay
  <2> QED BY <2>1, <2>3 DEF SleepInv, Dozes
<1>10. CASE DrainQueue
  <2>1. /\ closer = "drain" /\ Closer \notin asleep /\ lifecycle # "Open"
        /\ UNCHANGED <<lifecycle, reserved, cancelled, firing>>
    BY <1>0, <1>10 DEF DrainQueue, CloseInv
  <2>2. \A t : Stuck(t) => Stuck(t)'
    BY <2>1 DEF Stuck
  <2>3. CASE asleep' = asleep
    BY <2>1, <2>2, <2>3, SleepersKept
  <2>4. CASE reserved # 0 /\ asleep' = asleep \cup {Closer} /\ UNCHANGED closer
    <3>1. Stuck(Closer)' /\ Dozes(Closer)'
      BY <1>0, <2>1, <2>4 DEF Stuck, Dozes
    <3>2. \A t \in asleep' : Dozes(t)'
      BY <2>4, <3>1, SleepersStay
    <3>3. \A t \in asleep' : Stuck(t)' \/ (t \in Jobs /\ "admission" \in firing'[t])
      BY <2>1, <2>2, <2>4, <3>1 DEF SleepInv
    <3> QED BY <3>2, <3>3 DEF SleepInv, Dozes
  <2> QED BY <1>10, <2>3, <2>4 DEF DrainQueue, TakeQueue
<1>11. CASE CancelDrained
  <2>1. CASE drained = <<>>
    BY <1>11, <2>1, NotifySleeps DEF CancelDrained
  <2>2. CASE drained # <<>>
    BY <1>11, <2>2, SleepersUntouched DEF CancelDrained
  <2> QED BY <2>1, <2>2
<1>12. CASE JoinWorkers
  BY <1>12, NotifySleeps DEF JoinWorkers
<1>13. CASE BeginOcrClose \/ OcrCloseStep
  BY <1>13, SleepersUntouched DEF BeginOcrClose, OcrCloseStep, TakeIdleEngines,
     DropIdleEngines, SettleOcrClose
<1> QED BY <1>1, <1>2, <1>3, <1>4, <1>5, <1>b, <1>c, <1>6, <1>7, <1>8, <1>9, <1>10, <1>11,
           <1>12, <1>13
        DEF Next, CallStep, CloseStep


(* The queue for engines changes with the workers that enter and leave it.   *)
LEMMA TicketsUntouched ==
  ASSUME TicketInv, UNCHANGED waiters,
         \A w \in Workers : /\ worker'[w] = "claim" <=> worker[w] = "claim"
                            /\ worker[w] = "claim" => task'[w] = task[w]
  PROVE  TicketInv'
BY DEF TicketInv

(* A worker that moves elsewhere leaves the queue as it is.                  *)
LEMMA TicketsElsewhere ==
  ASSUME TypeOK, TicketInv, UNCHANGED waiters, NEW w \in Workers, NEW p, At(w, p), p # "claim",
         worker[w] # "claim",
         \A v \in Workers \ {w} : task'[v] = task[v]
  PROVE  TicketInv'
<1>1. worker'[w] = p /\ \A v \in Workers \ {w} : worker'[v] = worker[v]
  BY DEF At, TypeOK, WorkerType
<1> QED BY <1>1, TicketsUntouched

(* One that leaves the queue takes its own ticket out, and no other has it.  *)
LEMMA TicketTaken ==
  ASSUME Inv, TicketInv, NEW w \in Workers, worker[w] = "claim",
         NEW p, At(w, p), p # "claim", UNCHANGED task,
         waiters' = Without(waiters, task[w])
         \/ (waiters # << >> /\ Head(waiters) = task[w] /\ waiters' = Tail(waiters))
  PROVE  TicketInv'
<1>1. /\ waiters \in Seq({j \in Jobs : kind[j] = "ocr"}) /\ Once(waiters)
      /\ worker'[w] = p /\ \A v \in Workers \ {w} : worker'[v] = worker[v]
  BY DEF Inv, TypeOK, OcrType, WorkerType, At, TicketInv
<1>2. Once(waiters') /\ ToSet(waiters') = ToSet(waiters) \ {task[w]}
  <2>1. CASE waiters' = Without(waiters, task[w])
    BY <1>1, <2>1, WithoutQueue
  <2>2. CASE waiters # << >> /\ Head(waiters) = task[w] /\ waiters' = Tail(waiters)
    BY <1>1, <2>2, TailQueue
  <2> QED BY <2>1, <2>2
<1>3. \A v \in Workers \ {w} : worker[v] = "claim" => task[v] # task[w]
  BY DEF Inv, JobsInv, TaskInv, Owing
<1> QED BY <1>1, <1>2, <1>3 DEF TicketInv

(* Every step keeps the queue for engines that of the workers at their claim. *)
LEMMA NextKeepsTickets ==
  ASSUME Inv, TicketInv, Next
  PROVE  TicketInv'
<1>0. TypeOK
  BY DEF Inv
<1> USE DEF workerVars, ocrVars
<1>1. CASE Construct
  <2>1. ASSUME NEW w \in Workers, Spawn(w) \/ WaitForStart(w) PROVE TicketInv'
    <3>1. /\ worker[w] # "claim" /\ UNCHANGED <<waiters, task>>
          /\ \E p \in {"start", "exited", "idle"} : At(w, p)
      BY <2>1 DEF Spawn, WaitForStart, At
    <3> QED BY <1>0, <3>1, TicketsElsewhere
  <2>2. CASE ConstructionFails \/ JoinConstructedWorkers \/ Register \/ OpenGate
    BY <2>2, TicketsUntouched DEF ConstructionFails, JoinConstructedWorkers, Register, OpenGate
  <2> QED BY <1>1, <2>1, <2>2 DEF Construct
<1>2. ASSUME NEW j \in Jobs, Submit(j) \/ CallStep(j) \/ Cancel(j) \/ RunHook(j)
      PROVE  TicketInv'
  <2>1. UNCHANGED <<waiters, worker, task>>
    BY <1>2 DEF Submit, CallStep, Admit, Commit, DropReservation, AttachWaiter,
           AnswerWithdrawn, NotifyWithdrawn, Cancel, RunHook
  <2> QED BY <2>1, TicketsUntouched
<1>3. ASSUME NEW w \in Workers, WorkerStep(w) PROVE TicketInv'
  <2>1. CASE TakeJob(w)
    <3>1. /\ worker[w] = "idle" /\ UNCHANGED waiters
          /\ \/ UNCHANGED <<worker, task>>
             \/ /\ \E p \in {"exited", "run"} : At(w, p)
                /\ \A v \in Workers \ {w} : task'[v] = task[v]
      BY <1>0, <2>1 DEF TakeJob, TypeOK, WorkerType
    <3> QED BY <1>0, <3>1, TicketsUntouched, TicketsElsewhere
  <2>2. CASE Release(w)
    <3>1. /\ worker[w] = "release" /\ UNCHANGED waiters /\ At(w, "idle")
          /\ \A v \in Workers \ {w} : task'[v] = task[v]
      BY <1>0, <2>2 DEF Release, TypeOK, WorkerType
    <3> QED BY <1>0, <3>1, TicketsElsewhere
  <2>3. CASE EnterEngineQueue(w)
    <3> DEFINE j == task[w]
               S == {i \in Jobs : kind[i] = "ocr"}
    <3>1. worker[w] = "acquire" /\ UNCHANGED task
      BY <2>3 DEF EnterEngineQueue
    <3>2. CASE At(w, "finish") /\ UNCHANGED waiters
      BY <1>0, <3>1, <3>2, TicketsElsewhere
    <3>3. CASE At(w, "claim") /\ waiters' = Append(waiters, j)
      <4>1. /\ \A v \in Workers : worker[v] = "claim" => task[v] # j
            /\ j \in S
        <5>1. worker[w] \in Working /\ worker[w] \in Owing
          BY <3>1 DEF Working, Owing
        <5>2. TaskInv /\ task \in [Workers -> Jobs \cup {NoJob}]
          BY <1>0 DEF Inv, JobsInv, TypeOK, WorkerType
        <5>3. j \in Jobs /\ kind[j] = "ocr"
          BY <3>1, <5>1, <5>2 DEF TaskInv
        <5>4. \A v \in Workers : worker[v] = "claim" => task[v] # j
          BY <3>1, <5>1, <5>2 DEF TaskInv, Owing
        <5> QED BY <5>3, <5>4
      <4>2. waiters \in Seq(S) /\ Once(waiters) /\ j \notin ToSet(waiters)
        BY <1>0, <4>1 DEF TypeOK, OcrType, TicketInv
      <4> HIDE DEF S, j
      <4>3. Once(waiters') /\ ToSet(waiters') = ToSet(waiters) \cup {j}
        BY <3>3, <4>1, <4>2, AppendQueue
      <4>4. worker'[w] = "claim" /\ \A v \in Workers \ {w} : worker'[v] = worker[v]
        BY <1>0, <3>3 DEF At, TypeOK, WorkerType
      <4> QED BY <3>1, <4>3, <4>4 DEF TicketInv, j
    <3> QED BY <2>3, <3>2, <3>3 DEF EnterEngineQueue, Give
  <2>4. CASE ClaimEngine(w)
    <3>1. worker[w] = "claim" /\ UNCHANGED task
      BY <2>4 DEF ClaimEngine
    <3>2. CASE UNCHANGED <<waiters, worker>>
      BY <3>1, <3>2, TicketsUntouched
    <3>3. CASE /\ \E p \in {"finish", "process", "create"} : At(w, p)
               /\ waiters' = Without(waiters, task[w])
                  \/ (waiters # << >> /\ Head(waiters) = task[w] /\ waiters' = Tail(waiters))
      BY <3>1, <3>3, TicketTaken
    <3> QED BY <2>4, <3>2, <3>3 DEF ClaimEngine, LeaveEngineQueue, Give
  <2>5. CASE RunJob(w) \/ CallNative(w) \/ FinishJob(w) \/ CreateEngine(w) \/ AdmitEngine(w)
             \/ Process(w) \/ DropLease(w) \/ DestroyEngine(w)
    <3>1. worker[w] # "claim" /\ UNCHANGED <<waiters, task>>
      BY <2>5 DEF RunJob, CallNative, FinishJob, CreateEngine, AdmitEngine, Process, DropLease,
                  DestroyEngine
    <3>2. \E p \in Places \ {"claim"} : At(w, p)
      BY <2>5 DEF RunJob, CallNative, FinishJob, CreateEngine, AdmitEngine, Process, DropLease,
                  DestroyEngine, Give, At, Places
    <3> QED BY <1>0, <3>1, <3>2, TicketsElsewhere
  <2> QED BY <1>3, <2>1, <2>2, <2>3, <2>4, <2>5 DEF WorkerStep
<1>4. CASE BeginClose \/ CloseStep \/ BeginOcrClose \/ OcrCloseStep
  <2>1. UNCHANGED <<waiters, worker, task>>
    BY <1>4 DEF BeginClose, CloseStep, DrainQueue, CancelDrained, JoinWorkers,
                    BeginOcrClose, OcrCloseStep, TakeIdleEngines, DropIdleEngines,
                    SettleOcrClose
  <2> QED BY <2>1, TicketsUntouched
<1> QED BY <1>1, <1>2, <1>3, <1>4 DEF Next

(* A worker asleep over engines does not move, and keeps its job.            *)
LEMMA ClaimersStay ==
  ASSUME Inv, EngineSleepInv, Next
  PROVE  \A w \in ocr_asleep : w \in Workers /\ worker'[w] = "claim" /\ task'[w] = task[w]
<1>0. TypeOK /\ ocr_asleep \subseteq Workers
  BY DEF Inv, TypeOK, OcrType
<1> SUFFICES ASSUME NEW t \in ocr_asleep PROVE worker'[t] = "claim" /\ task'[t] = task[t]
  BY <1>0
<1>1. worker[t] = "claim" /\ t \in Workers /\ worker \in [Workers -> Places]
      /\ task \in [Workers -> Jobs \cup {NoJob}]
  BY <1>0 DEF EngineSleepInv, TypeOK, WorkerType
<1> USE DEF workerVars
<1>2. CASE Construct
  <2>1. ASSUME NEW w \in Workers, Spawn(w) \/ WaitForStart(w)
        PROVE  worker'[t] = "claim" /\ task' = task
    <3>1. worker[w] \in {"unborn", "start"} /\ task' = task
          /\ \A v \in Workers \ {w} : worker'[v] = worker[v]
      BY <1>1, <2>1 DEF Spawn, WaitForStart
    <3> QED BY <1>1, <3>1
  <2>2. CASE ConstructionFails \/ JoinConstructedWorkers \/ Register \/ OpenGate
    BY <1>1, <2>2 DEF ConstructionFails, JoinConstructedWorkers, Register, OpenGate
  <2> QED BY <1>2, <2>1, <2>2 DEF Construct
<1>3. ASSUME NEW j \in Jobs, Submit(j) \/ CallStep(j) \/ Cancel(j) \/ RunHook(j)
      PROVE  UNCHANGED <<worker, task>>
  BY <1>3 DEF Submit, CallStep, Admit, Commit, DropReservation, AttachWaiter,
         AnswerWithdrawn, NotifyWithdrawn, Cancel, RunHook
<1>4. ASSUME NEW w \in Workers, WorkerStep(w)
      PROVE  worker'[t] = "claim" /\ task'[t] = task[t]
  <2>1. CASE t = w
    BY <1>1, <1>4, <2>1 DEF WorkerStep, TakeJob, RunJob, CallNative, FinishJob, Release,
       EnterEngineQueue, ClaimEngine, CreateEngine, AdmitEngine, Process, DropLease, DestroyEngine
  <2>2. CASE t # w
    <3>1. \A v \in Workers \ {w} : worker'[v] = worker[v]
      BY <1>1, <1>4 DEF WorkerStep, TakeJob, RunJob, CallNative, FinishJob, Release,
         EnterEngineQueue, ClaimEngine, CreateEngine, AdmitEngine, Process, DropLease,
         DestroyEngine, Give, At
    <3>2. \A v \in Workers \ {w} : task'[v] = task[v]
      BY <1>1, <1>4 DEF WorkerStep, TakeJob, RunJob, CallNative, FinishJob, Release,
         EnterEngineQueue, ClaimEngine, CreateEngine, AdmitEngine, Process, DropLease,
         DestroyEngine
    <3> QED BY <1>1, <2>2, <3>1, <3>2
  <2> QED BY <2>1, <2>2
<1>5. CASE BeginClose \/ CloseStep \/ BeginOcrClose \/ OcrCloseStep
  BY <1>1, <1>5 DEF BeginClose, CloseStep, DrainQueue, CancelDrained, JoinWorkers,
                  BeginOcrClose, OcrCloseStep, TakeIdleEngines, DropIdleEngines, SettleOcrClose
<1> QED BY <1>1, <1>2, <1>3, <1>4, <1>5 DEF Next

(* After a notify_all of the engine pool those are asleep who must wait.     *)
LEMMA NotifyClaimers ==
  ASSUME Inv, EngineSleepInv, Next, NotifyOcr
  PROVE  EngineSleepInv'
<1>1. \A w \in ocr_asleep' : w \in ocr_asleep /\ NoEngineFor(w)'
  BY DEF NotifyOcr
<1> QED BY <1>1, ClaimersStay DEF EngineSleepInv

(* A step that does not notify leaves them their reason.                     *)
LEMMA ClaimersKept ==
  ASSUME Inv, EngineSleepInv, Next, ocr_asleep' = ocr_asleep,
         \A w \in ocr_asleep :
           NoEngineFor(w) => NoEngineFor(w)' \/ "engine" \in firing'[task[w]],
         \A w \in ocr_asleep : "engine" \in firing[task[w]] => "engine" \in firing'[task[w]]
  PROVE  EngineSleepInv'
<1>1. \A w \in ocr_asleep : worker'[w] = "claim" /\ task'[w] = task[w]
  BY ClaimersStay
<1> QED BY <1>1 DEF EngineSleepInv

(* Nor does a step that touches nothing of what they wait for.               *)
LEMMA ClaimersUntouched ==
  ASSUME Inv, EngineSleepInv, Next,
         UNCHANGED <<ocr_asleep, open, cancelled, waiters, idle, created, creating, firing>>
  PROVE  EngineSleepInv'
<1>1. \A w \in ocr_asleep : task'[w] = task[w]
  BY ClaimersStay
<1>2. \A w \in ocr_asleep : NoEngineFor(w) => NoEngineFor(w)'
  BY <1>1 DEF NoEngineFor, Room
<1> QED BY <1>2, ClaimersKept

(* Whoever sleeps over engines has its reason after every step: an engine    *)
(* that comes free, a ticket that leaves and a close of the pool notify.     *)
LEMMA NextKeepsEngineSleep ==
  ASSUME Inv, TicketInv, EngineSleepInv, Next
  PROVE  EngineSleepInv'
<1>0. /\ TypeOK /\ ocr_asleep \subseteq Workers
      /\ waiters \in Seq({j \in Jobs : kind[j] = "ocr"})
  BY DEF Inv, TypeOK, OcrType
<1>t. \A w \in Workers : worker[w] = "claim" => task[w] \in Jobs /\ waiters # << >>
  <2>1. << >> \in Seq(Jobs) /\ ToSet(<< >>) = {}
    BY EmptyQueue
  <2>2. ToSet(waiters) \subseteq Jobs
    BY <1>0, Contained
  <2> QED BY <2>1, <2>2 DEF TicketInv
<1> USE DEF callVars, ocrVars
<1>1. CASE Construct
  BY <1>1, ClaimersUntouched DEF Construct, Spawn, WaitForStart, ConstructionFails,
                                 JoinConstructedWorkers, Register, OpenGate
<1>2. ASSUME NEW j \in Jobs, Submit(j) \/ CallStep(j) PROVE EngineSleepInv'
  <2>1. CASE NotifyWithdrawn(j)
    <3>1. /\ UNCHANGED <<ocr_asleep, open, cancelled, waiters, idle, created, creating, task>>
          /\ firing' = [firing EXCEPT ![j] = @ \ {"queued"}]
      BY <2>1 DEF NotifyWithdrawn, workerVars
    <3>2. \A i \in Jobs : "engine" \in firing[i] => "engine" \in firing'[i]
      BY <1>0, <3>1 DEF TypeOK, CallType
    <3>3. \A w \in ocr_asleep : NoEngineFor(w) => NoEngineFor(w)'
      BY <3>1 DEF NoEngineFor, Room
    <3>4. \A w \in ocr_asleep : task[w] \in Jobs
      BY <1>0, <1>t DEF EngineSleepInv
    <3> QED BY <3>1, <3>2, <3>3, <3>4, ClaimersKept
  <2>2. CASE ~NotifyWithdrawn(j)
    BY <1>2, <2>2, ClaimersUntouched DEF Submit, CallStep, Admit, Commit, DropReservation,
       AttachWaiter, AnswerWithdrawn
  <2> QED BY <2>1, <2>2
<1>3. ASSUME NEW j \in Jobs, Cancel(j) PROVE EngineSleepInv'
  <2>1. /\ UNCHANGED <<ocr_asleep, open, waiters, idle, created, creating, worker, task>>
        /\ \A i \in Jobs \ {j} : cancelled'[i] = cancelled[i] /\ firing'[i] = firing[i]
        /\ firing'[j] = Hooks(j)
    BY <1>0, <1>3 DEF Cancel, TypeOK, CallType, workerVars
  <2>2. ASSUME NEW w \in ocr_asleep
        PROVE  /\ NoEngineFor(w) => NoEngineFor(w)' \/ "engine" \in firing'[task[w]]
               /\ "engine" \in firing[task[w]] => "engine" \in firing'[task[w]]
    <3>1. w \in Workers /\ worker[w] = "claim" /\ task[w] \in Jobs
      BY <1>0, <1>t DEF EngineSleepInv
    <3>2. CASE task[w] = j
      BY <2>1, <3>1, <3>2 DEF Hooks, Acquiring
    <3>3. CASE task[w] # j
      BY <2>1, <3>1, <3>3 DEF NoEngineFor, Room
    <3> QED BY <3>2, <3>3
  <2> QED BY <1>3, <2>1, <2>2, ClaimersKept
<1>4. ASSUME NEW j \in Jobs, RunHook(j) PROVE EngineSleepInv'
  <2>1. CASE NotifyOcr
    BY <1>4, <2>1, NotifyClaimers
  <2>2. CASE /\ UNCHANGED ocr_asleep
             /\ \/ firing' = [firing EXCEPT ![j] = @ \ {"queued"}]
                \/ firing' = [firing EXCEPT ![j] = @ \ {"admission"}]
                \/ UNCHANGED firing
    <3>1. UNCHANGED <<ocr_asleep, open, cancelled, waiters, idle, created, creating, task>>
      BY <1>4, <2>2 DEF RunHook, workerVars
    <3>2. \A w : NoEngineFor(w) => NoEngineFor(w)'
      BY <3>1 DEF NoEngineFor, Room
    <3>3. \A i \in Jobs : "engine" \in firing[i] => "engine" \in firing'[i]
      BY <1>0, <2>2 DEF TypeOK, CallType
    <3>4. \A w \in ocr_asleep : task[w] \in Jobs
      BY <1>0, <1>t DEF EngineSleepInv
    <3> QED BY <1>4, <3>1, <3>2, <3>3, <3>4, ClaimersKept
  <2> QED BY <1>4, <2>1, <2>2 DEF RunHook
<1>5. ASSUME NEW w \in Workers, WorkerStep(w) PROVE EngineSleepInv'
  <2>1. CASE ClaimEngine(w)
    <3>1. CASE NotifyOcr
      BY <1>5, <3>1, NotifyClaimers
    <3>2. CASE /\ worker' = worker /\ ocr_asleep' = ocr_asleep \cup {w}
               /\ open /\ ~cancelled[task[w]]
               /\ \/ ~(waiters # <<>> /\ Head(waiters) = task[w])
                  \/ idle = 0 /\ ~Room
      <4>1. UNCHANGED <<open, cancelled, waiters, idle, created, creating, task, firing>>
            /\ worker[w] = "claim"
        <5>1. worker'[w] = "claim"
          BY <2>1, <3>2 DEF ClaimEngine
        <5> QED BY <2>1, <3>2, <5>1 DEF ClaimEngine, Give, At, TypeOK, WorkerType
      <4>2. \A v : NoEngineFor(v)' <=> NoEngineFor(v)
        BY <4>1 DEF NoEngineFor, Room
      <4>3. NoEngineFor(w)
        BY <1>t, <3>2, <4>1 DEF NoEngineFor
      <4> QED BY <3>2, <4>1, <4>2, <4>3 DEF EngineSleepInv
    <3>3. CASE \E p \in {"finish", "process", "create"} : At(w, p)
      <4>1. worker'[w] # "claim"
        BY <1>0, <3>3 DEF At, TypeOK, WorkerType
      <4> QED BY <2>1, <3>1, <4>1 DEF ClaimEngine
    <3>4. CASE UNCHANGED worker
      <4>1. worker[w] = "claim"
        BY <2>1 DEF ClaimEngine
      <4>2. ~At(w, "finish") /\ ~At(w, "process") /\ ~At(w, "create")
        BY <1>0, <3>4, <4>1 DEF At, TypeOK, WorkerType
      <4> QED BY <2>1, <3>2, <3>4, <4>1, <4>2 DEF ClaimEngine, Give
    <3> QED BY <2>1, <3>3, <3>4 DEF ClaimEngine, Give
  <2>2. CASE AdmitEngine(w) \/ DropLease(w)
    BY <1>5, <2>2, NotifyClaimers DEF AdmitEngine, DropLease
  <2>3. CASE EnterEngineQueue(w)
    <3>1. /\ UNCHANGED <<ocr_asleep, open, cancelled, idle, created, creating, task, firing>>
          /\ waiters' = waiters \/ waiters' = Append(waiters, task[w])
      BY <2>3 DEF EnterEngineQueue
    <3>2. waiters # << >> => Head(waiters') = Head(waiters)
      BY <1>0, <3>1
    <3>3. \A v \in ocr_asleep : NoEngineFor(v) => NoEngineFor(v)'
      BY <1>0, <1>t, <3>1, <3>2 DEF NoEngineFor, Room, EngineSleepInv
    <3> QED BY <1>5, <3>1, <3>3, ClaimersKept
  <2>4. CASE TakeJob(w) \/ RunJob(w) \/ CallNative(w) \/ FinishJob(w) \/ Release(w)
             \/ CreateEngine(w) \/ Process(w) \/ DestroyEngine(w)
    BY <1>5, <2>4, ClaimersUntouched DEF TakeJob, RunJob, CallNative, FinishJob, Release,
       CreateEngine, Process, DestroyEngine
  <2> QED BY <1>5, <2>1, <2>2, <2>3, <2>4 DEF WorkerStep
<1>6. CASE BeginClose \/ CloseStep
  BY <1>6, ClaimersUntouched DEF BeginClose, CloseStep, DrainQueue, CancelDrained, JoinWorkers
<1>7. CASE BeginOcrClose \/ SettleOcrClose
  BY <1>7, NotifyClaimers DEF BeginOcrClose, SettleOcrClose
<1>8. CASE TakeIdleEngines \/ DropIdleEngines
  <2>1. ocr_closer # "idle" /\ UNCHANGED <<ocr_asleep, firing>>
    BY <1>8 DEF TakeIdleEngines, DropIdleEngines
  <2>2. ~open
    BY <2>1 DEF Inv, Books
  <2>3. \A w : ~NoEngineFor(w)
    BY <2>2 DEF NoEngineFor
  <2> QED BY <1>8, <2>1, <2>3, ClaimersKept
<1> QED BY <1>1, <1>2, <1>3, <1>4, <1>5, <1>6, <1>7, <1>8 DEF Next, OcrCloseStep

(* Every step leaves a reserved slot its caller, and a pool in use its workers. *)
LEMMA NextKeepsStaff ==
  ASSUME Inv, StaffInv, Next
  PROVE  StaffInv'
<1>0. TypeOK /\ BuildInv /\ CloseInv
  BY DEF Inv, JobsInv
<1> DEFINE Slot  == reserved # 0 => \E j \in Jobs : call[j] = "reserved"
           Crew  == built \in {"registered", "ready"} => \A w \in Workers : worker[w] # "unborn"
           Gone  == \A w \in Workers : worker[w] = "exited" => start = "Abort" \/ lifecycle # "Open"
<1>s. Slot /\ Crew /\ Gone /\ (StaffInv' <=> Slot' /\ Crew' /\ Gone')
  BY DEF StaffInv
<1>a. ASSUME UNCHANGED <<reserved, call>> PROVE Slot'
  BY <1>a, <1>s
<1>b. ASSUME UNCHANGED <<built, start>>, lifecycle' # "Open" \/ lifecycle' = lifecycle,
             \A w \in Workers : /\ worker'[w] = "unborn" => worker[w] = "unborn"
                                /\ worker'[w] = "exited" =>
                                     worker[w] = "exited" \/ start = "Abort" \/ lifecycle # "Open"
      PROVE  Crew' /\ Gone'
  <2>1. lifecycle' # "Open" \/ ~(\E w \in Workers : worker'[w] = "exited")
        \/ start = "Abort" \/ lifecycle = "Open"
    BY <1>b
  <2> QED BY <1>b, <1>s
<1>t. /\ worker \in [Workers -> Places]
      /\ call \in [Jobs -> {"idle", "admit", "reserved", "committed", "wait", "done"}]
  BY <1>0 DEF TypeOK, WorkerType, CallType
<1> USE DEF poolVars, buildVars, callVars, workerVars
<1> HIDE DEF Slot, Crew, Gone
<1>1. CASE Construct
  <2>0. UNCHANGED <<reserved, call, lifecycle>>
    BY <1>1 DEF Construct, Spawn, WaitForStart, ConstructionFails, JoinConstructedWorkers,
                Register, OpenGate
  <2>1. Slot'
    BY <1>a, <2>0
  <2>2. ASSUME NEW w \in Workers, Spawn(w) \/ WaitForStart(w) PROVE Crew' /\ Gone'
    <3>1. /\ UNCHANGED <<built, start>>
          /\ \A v \in Workers \ {w} : worker'[v] = worker[v]
          /\ worker'[w] # "unborn"
          /\ worker'[w] = "exited" => start = "Abort"
      BY <1>t, <2>2 DEF Spawn, WaitForStart
    <3> QED BY <1>b, <2>0, <3>1
  <2>3. CASE ConstructionFails \/ JoinConstructedWorkers \/ Register \/ OpenGate
    <3>1. UNCHANGED worker
      BY <2>3 DEF ConstructionFails, JoinConstructedWorkers, Register, OpenGate
    <3>2. start = "Abort" => start' = "Abort"
      BY <1>0, <2>3 DEF ConstructionFails, JoinConstructedWorkers, Register, OpenGate, BuildInv
    <3>3. Gone'
      BY <1>s, <2>0, <3>1, <3>2 DEF Gone
    <3>4. Crew'
      BY <1>s, <2>3, <3>1 DEF ConstructionFails, JoinConstructedWorkers, Register, OpenGate, Crew
    <3> QED BY <1>s, <2>1, <3>3, <3>4
  <2> QED BY <1>1, <1>s, <2>1, <2>2, <2>3 DEF Construct
<1>2. ASSUME NEW j \in Jobs, Submit(j) \/ CallStep(j) \/ Cancel(j) \/ RunHook(j)
      PROVE  StaffInv'
  <2>1. UNCHANGED <<built, start, worker, lifecycle>>
    BY <1>2 DEF Submit, CallStep, Admit, Refuse, Commit, DropReservation, AttachWaiter,
           AnswerWithdrawn, NotifyWithdrawn, Cancel, RunHook
  <2>2. Crew' /\ Gone'
    BY <1>b, <2>1
  <2>3. CASE \/ Submit(j) \/ Admit(j) \/ AttachWaiter(j) \/ Cancel(j) \/ RunHook(j)
             \/ AnswerWithdrawn(j) \/ NotifyWithdrawn(j)
    <3>1. \/ reserved' = reserved /\ call[j] # "reserved" /\ \A i \in Jobs \ {j} : call'[i] = call[i]
          \/ call'[j] = "reserved"
          \/ UNCHANGED <<reserved, call>>
      BY <1>t, <2>3 DEF Submit, Admit, Refuse, AttachWaiter,
             AnswerWithdrawn, NotifyWithdrawn, Cancel, RunHook, Goto
    <3> QED BY <1>s, <2>2, <3>1 DEF Slot
  <2>4. CASE Commit(j) \/ DropReservation(j)
    <3>1. reserved' = 0
      BY <2>4 DEF Commit, DropReservation
    <3> QED BY <1>s, <2>2, <3>1 DEF Slot
  <2> QED BY <1>2, <2>3, <2>4 DEF CallStep
<1>3. ASSUME NEW w \in Workers, WorkerStep(w) PROVE StaffInv'
  <2>1. UNCHANGED <<reserved, call, built, start, lifecycle>>
    BY <1>3 DEF WorkerStep, TakeJob, RunJob, CallNative, FinishJob, Release, EnterEngineQueue,
                ClaimEngine, CreateEngine, AdmitEngine, Process, DropLease, DestroyEngine
  <2>2. /\ \A v \in Workers \ {w} : worker'[v] = worker[v]
        /\ worker'[w] # "unborn" /\ (worker'[w] = "exited" => lifecycle # "Open")
    <3>1. CASE TakeJob(w)
      BY <1>t, <3>1 DEF TakeJob, At
    <3>2. CASE RunJob(w) \/ CallNative(w) \/ FinishJob(w) \/ Release(w) \/ EnterEngineQueue(w)
               \/ CreateEngine(w)
      BY <1>t, <3>2 DEF RunJob, CallNative, FinishJob, Release, EnterEngineQueue, CreateEngine,
         Give, At
    <3>3. CASE ClaimEngine(w)
      BY <1>t, <3>3 DEF ClaimEngine, Give, At
    <3>4. CASE AdmitEngine(w) \/ Process(w) \/ DropLease(w) \/ DestroyEngine(w)
      BY <1>t, <3>4 DEF AdmitEngine, Process, DropLease, DestroyEngine, Give, At
    <3> QED BY <1>3, <3>1, <3>2, <3>3, <3>4 DEF WorkerStep
  <2>3. Slot'
    BY <1>a, <2>1
  <2>4. Crew' /\ Gone'
    BY <1>b, <2>1, <2>2
  <2> QED BY <1>s, <2>3, <2>4
<1>4. CASE BeginClose \/ CloseStep \/ BeginOcrClose \/ OcrCloseStep
  <2>1. /\ UNCHANGED <<reserved, call, built, start, worker>>
        /\ lifecycle' # "Open" \/ lifecycle' = lifecycle
    BY <1>4 DEF BeginClose, CloseStep, DrainQueue, CancelDrained, JoinWorkers,
                    BeginOcrClose, OcrCloseStep, TakeIdleEngines, DropIdleEngines, SettleOcrClose
  <2>2. Slot'
    BY <1>a, <2>1
  <2>3. Crew' /\ Gone'
    BY <1>b, <2>1
  <2> QED BY <1>s, <2>2, <2>3
<1> QED BY <1>1, <1>2, <1>3, <1>4 DEF Next

(* The sleepers' part of the invariant holds of every behaviour as well.     *)
THEOREM SleepersWait == Spec => []WaitInv
<1>1. Init => WaitInv
  <2> SUFFICES ASSUME Init PROVE WaitInv
    OBVIOUS
  <2>1. asleep = {} /\ ocr_asleep = {} /\ waiters = << >> /\ reserved = 0 /\ built = "spawning"
        /\ \A w \in Workers : worker[w] = "unborn"
    BY DEF Init, InitPool, InitOcrPool
  <2>2. TicketInv
    BY <2>1, EmptyQueue DEF TicketInv
  <2> QED BY <2>1, <2>2 DEF WaitInv, SleepInv, EngineSleepInv, StaffInv
<1>2. Inv /\ WaitInv /\ [Next]_vars => WaitInv'
  <2> SUFFICES ASSUME Inv, WaitInv, [Next]_vars PROVE WaitInv'
    OBVIOUS
  <2>1. CASE Next
    BY <2>1, NextKeepsSleep, NextKeepsTickets, NextKeepsEngineSleep, NextKeepsStaff DEF WaitInv
  <2>2. CASE UNCHANGED vars
    <3> USE DEF vars, poolVars, buildVars, closeVars, callVars, jobVars, workerVars, ocrVars
    <3>1. SleepInv'
      BY <2>2 DEF WaitInv, SleepInv, Stuck
    <3>2. TicketInv'
      BY <2>2 DEF WaitInv, TicketInv
    <3>3. EngineSleepInv'
      BY <2>2 DEF WaitInv, EngineSleepInv, NoEngineFor, Room
    <3>4. StaffInv'
      BY <2>2 DEF WaitInv, StaffInv
    <3> QED BY <3>1, <3>2, <3>3, <3>4 DEF WaitInv
  <2> QED BY <2>1, <2>2
<1> QED BY <1>1, <1>2, Invariance, PTL DEF Spec

(* Where no thread runs, nobody waits for an engine: the head of the queue   *)
(* is itself asleep, and no engine is borrowed or in creation.               *)
LEMMA EnginesAreFree ==
  ASSUME Inv, WaitInv, \A w \in Workers : ~WorkerRuns(w), \A j \in Jobs : ~CallerRuns(j)
  PROVE  /\ ocr_asleep = {} /\ creating = 0 /\ borrowed = 0
         /\ \A w \in Workers : worker[w] \in {"unborn", "exited"} \/ w \in asleep
<1>0. TypeOK /\ Books /\ SleepInv /\ EngineSleepInv /\ TicketInv
      /\ ocr_asleep \subseteq Workers
  BY DEF Inv, WaitInv, TypeOK, OcrType
<1>1. \A w \in Workers : \/ worker[w] \in {"unborn", "exited"}
                         \/ w \in asleep /\ worker[w] = "idle"
                         \/ w \in ocr_asleep /\ worker[w] = "claim"
  BY <1>0 DEF WorkerRuns, SleepInv, EngineSleepInv
<1>2. \A w \in Workers : worker[w] \notin Using /\ worker[w] \notin Creating
  BY <1>1 DEF Using, Creating
<1>3. creating = 0 /\ borrowed = 0
  BY <1>0, <1>2, CountNone DEF Books
<1>4. ocr_asleep = {}
  <2> SUFFICES ASSUME NEW w \in ocr_asleep PROVE FALSE
    OBVIOUS
  <2> DEFINE j == Head(waiters)
  <2>1. w \in Workers /\ worker[w] = "claim" /\ task[w] \in ToSet(waiters)
    BY <1>0 DEF EngineSleepInv, TicketInv
  <2>2. j \in ToSet(waiters)
    <3>1. waiters # << >>
      BY <2>1, EmptyQueue
    <3> QED BY <1>0, <3>1, Contained DEF TypeOK, OcrType
  <2>3. PICK v \in Workers : worker[v] = "claim" /\ task[v] = j
    BY <1>0, <2>2 DEF TicketInv
  <2> HIDE DEF j
  <2>4. v \in ocr_asleep
    BY <1>1, <2>3
  <2>5. NoEngineFor(v)
    <3>1. task[v] \in Jobs
      BY <1>0, <2>2, <2>3, Contained DEF TypeOK, OcrType
    <3>2. firing[task[v]] = {}
      BY <3>1 DEF CallerRuns
    <3> QED BY <1>0, <2>4, <3>2 DEF EngineSleepInv
  <2>6. open /\ idle = 0 /\ ~Room
    BY <2>3, <2>5 DEF NoEngineFor, j
  <2>7. created = 0
    BY <1>0, <1>3, <2>6 DEF Books, TypeOK, OcrType
  <2> QED BY <1>3, <2>6, <2>7, PoolAssumption DEF Room, PoolAssumption
<1> QED BY <1>1, <1>3, <1>4

(* The two pools never come to a stand with a call unanswered or a close     *)
(* that does not end: whoever is asleep waits for a thread that still runs.  *)
THEOREM NobodyIsLeft == Spec => []NobodyWaitsForNothing
<1>1. ASSUME Inv, WaitInv PROVE NobodyWaitsForNothing
  <2> SUFFICES ASSUME built = "ready", ~CloserRuns, ~OcrCloserRuns,
                      \A j \in Jobs : ~CallerRuns(j), \A w \in Workers : ~WorkerRuns(w)
               PROVE  /\ \A j \in Jobs : call[j] # "idle" => Returned(j)
                      /\ closer \in {"idle", "done"} /\ ocr_closer \in {"idle", "done"}
    BY DEF NobodyWaitsForNothing
  <2>0. /\ TypeOK /\ BuildInv /\ CloseInv /\ AnswerInv /\ SleepInv /\ StaffInv
        /\ Jobs \cap Workers = {} /\ Closer \notin Jobs \cup Workers /\ Workers # {}
    BY <1>1, PoolAssumption DEF Inv, JobsInv, WaitInv, PoolAssumption
  <2>1. /\ ocr_asleep = {} /\ creating = 0 /\ borrowed = 0
        /\ \A w \in Workers : worker[w] \in {"unborn", "exited"} \/ w \in asleep
    BY <1>1, EnginesAreFree
  <2>2. reserved = 0
    BY <2>0 DEF StaffInv, CallerRuns
  <2>3. \A t \in asleep : Stuck(t)
    BY <2>0 DEF SleepInv, CallerRuns
  <2>4. asleep \subseteq Workers /\ (asleep # {} => lifecycle = "Open" /\ queue = << >>)
    BY <2>0, <2>2, <2>3 DEF Stuck, TypeOK, PoolType
  <2>5. closer \in {"idle", "done"}
    <3>1. closer # "drain" /\ closer # "cancel"
      BY <2>0, <2>4 DEF CloserRuns
    <3>2. closer # "join"
      <4> SUFFICES ASSUME closer = "join" PROVE FALSE
        OBVIOUS
      <4>1. lifecycle # "Open"
        BY <2>0 DEF CloseInv
      <4>2. \A w \in Workers : worker[w] = "exited"
        BY <2>0, <2>1, <2>4, <4>1 DEF StaffInv
      <4> QED BY <4>2 DEF CloserRuns
    <3> QED BY <2>0, <3>1, <3>2 DEF TypeOK, PoolType
  <2>6. ocr_closer \in {"idle", "done"}
    BY <2>0, <2>1 DEF OcrCloserRuns, TypeOK, OcrType
  <2>7. queue = << >> /\ drained = << >>
    <3>1. CASE lifecycle = "Open"
      <4>1. PICK w \in Workers : TRUE
        BY <2>0
      <4>2. worker[w] \notin {"unborn", "exited"}
        BY <2>0, <3>1 DEF StaffInv, BuildInv
      <4>3. w \in asleep
        BY <2>1, <4>2
      <4> QED BY <2>0, <2>4, <2>5, <3>1, <4>3 DEF CloseInv
    <3>2. CASE lifecycle # "Open"
      BY <2>0, <2>5, <3>2 DEF CloseInv
    <3> QED BY <3>1, <3>2
  <2>8. \A j \in Jobs : ~Owed(j)
    <3>1. \A w \in Workers : worker[w] \notin Owing
      BY <2>0, <2>1 DEF SleepInv, Owing
    <3>2. \A j \in Jobs : ~Held(j)
      BY <2>7, <3>1, EmptyQueue DEF Held, CallerRuns
    <3> QED BY <2>0, <3>2 DEF AnswerInv
  <2>9. \A j \in Jobs : call[j] # "idle" => Returned(j)
    <3> TAKE j \in Jobs
    <3>1. call[j] \notin {"admit", "reserved", "committed"}
      BY <2>0, <2>4 DEF CallerRuns
    <3>2. call[j] \in {"idle", "wait", "done"}
      BY <2>0, <3>1 DEF TypeOK, CallType
    <3> QED BY <2>8, <3>2 DEF Owed, Returned
  <2> QED BY <2>5, <2>6, <2>9
<1> QED BY <1>1, Invariance, SleepersWait, PTL

=============================================================================
