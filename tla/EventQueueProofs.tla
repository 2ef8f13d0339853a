-------------------------- MODULE EventQueueProofs -------------------------
(***************************************************************************)
(* Proofs about EventQueue for any number of subscriptions and readers,    *)
(* any capacity and any number of events.  A stream, what a subscriber got *)
(* and then what is queued for it, Accounts for the events it accepted;    *)
(* the two steps of GapAt, Drop and Fuse, and the append of an event keep  *)
(* that account.  The inductive invariant Inv says it of every stream,     *)
(* that a queue has one reader, and who sleeps.                            *)
(***************************************************************************)
EXTENDS EventQueue, SequenceTheorems, FiniteSetTheorems,
        WellFoundedInduction, TLAPS

(* A nonempty set of numbers has a least one. *)
LEMMA LeastNumber ==
  ASSUME NEW S \in SUBSET Nat, S # {}
  PROVE  Min(S) \in S /\ \A n \in S : Min(S) <= n
  <1>1. PICK m \in S : \A n \in S : ~(<<n, m>> \in OpToRel(<, Nat))
    BY NatLessThanWellFounded, WFMin
  <1>2. \A n \in S : ~(n < m)
    BY <1>1 DEF OpToRel
  <1>3. \A n \in S : m <= n
    BY <1>2
  <1>4. QED
    BY <1>3 DEF Min

(* The oldest ordinary event, and the oldest event, are found if there are any. *)
LEMMA OldestOrdinaryFound ==
  ASSUME NEW q \in Seq(Entries)
  PROVE  \/ /\ OldestOrdinary(q) = 0
            /\ \A i \in DOMAIN q : q[i].class # "Ordinary"
         \/ /\ OldestOrdinary(q) \in DOMAIN q
            /\ q[OldestOrdinary(q)].class = "Ordinary"
  <1> DEFINE I == {i \in 1..Len(q) : q[i].class = "Ordinary"}
  <1>1. OldestOrdinary(q) = IF I # {} THEN Min(I) ELSE 0
    BY DEF OldestOrdinary, SelectInSeq
  <1>2. CASE I = {}
    BY <1>1, <1>2, LenProperties
  <1>3. CASE I # {}
    <2>1. I \in SUBSET Nat
      OBVIOUS
    <2>2. Min(I) \in I
      <3> HIDE DEF I
      <3>1. QED
        BY <1>3, <2>1, LeastNumber
    <2>3. QED
      BY <1>1, <1>3, <2>2, LenProperties
  <1>4. QED
    BY <1>2, <1>3

LEMMA OldestFound ==
  ASSUME NEW q \in Seq(Entries), Events(q) # {}
  PROVE  /\ Oldest(q) \in DOMAIN q
         /\ q[Oldest(q)].class # "Gap"
         /\ \A i \in DOMAIN q : q[i].class # "Gap" => Oldest(q) <= i
  <1> DEFINE I == {i \in 1..Len(q) : q[i].class # "Gap"}
  <1>1. Oldest(q) = IF I # {} THEN Min(I) ELSE 0
    BY DEF Oldest, SelectInSeq
  <1>2. I # {}
    BY LenProperties DEF Events, ToSet
  <1>3. Min(I) \in I /\ \A i \in I : Min(I) <= i
    <2>1. I \in SUBSET Nat
      OBVIOUS
    <2> HIDE DEF I
    <2>2. QED
      BY <1>2, <2>1, LeastNumber
  <1>4. QED
    BY <1>1, <1>2, <1>3, LenProperties
-----------------------------------------------------------------------------
(* An entry and its fields; the gap made of two entries is an entry. *)
LEMMA EntryFields ==
  ASSUME NEW e \in Entries
  PROVE  /\ e.first \in Nat /\ e.last \in Nat /\ e.count \in Nat \ {0}
         /\ e.class \in {"Ordinary", "Critical", "Gap"}
  BY DEF Entries

LEMMA MakeEntry ==
  ASSUME NEW f \in Nat, NEW l \in Nat, NEW n \in Nat \ {0},
         NEW c \in {"Ordinary", "Critical", "Gap"}
  PROVE  [first |-> f, last |-> l, count |-> n, class |-> c] \in Entries
  BY DEF Entries

LEMMA MergeType ==
  ASSUME NEW a \in Entries, NEW b \in Entries
  PROVE  /\ Merge(a, b) \in Entries
         /\ Merge(a, b).first = a.first /\ Merge(a, b).last = b.last
         /\ Merge(a, b).count = a.count + b.count
         /\ Merge(a, b).class = "Gap"
  <1>1. a.count + b.count \in Nat \ {0}
    BY EntryFields
  <1>2. Merge(a, b) \in Entries
    BY <1>1, EntryFields, MakeEntry DEF Merge
  <1>3. QED
    BY <1>2 DEF Merge

-----------------------------------------------------------------------------
(* What Fuse makes of a queue, position by position. *)
LEMMA FuseShape ==
  ASSUME NEW q \in Seq(Entries), NEW i \in 1..Len(q) - 1
  PROVE  /\ Fuse(q, i) \in Seq(Entries)
         /\ Len(Fuse(q, i)) = Len(q) - 1
         /\ \A k \in 1..i - 1 : Fuse(q, i)[k] = q[k]
         /\ Fuse(q, i)[i] = Merge(q[i], q[i + 1])
         /\ \A k \in i + 1..Len(q) - 1 : Fuse(q, i)[k] = q[k + 1]
  <1>0. /\ Len(q) \in Nat /\ i \in Int
        /\ \A k \in 1..Len(q) : q[k] \in Entries
    BY LenProperties, ElementOfSeq
  <1> DEFINE front == SubSeq(q, 1, i - 1)
             gap   == Merge(q[i], q[i + 1])
             back  == SubSeq(q, i + 2, Len(q))
             most  == front \o <<gap>>
  <1>1. /\ front \in Seq(Entries) /\ Len(front) = i - 1
        /\ \A k \in 1..i - 1 : front[k] = q[k]
    BY <1>0, SubSeqProperties, \A k \in 1..i - 1 : k \in 1..Len(q)
  <1>2. /\ back \in Seq(Entries) /\ Len(back) = Len(q) - i - 1
        /\ \A k \in 1..Len(q) - i - 1 : back[k] = q[k + i + 1]
    <2>1. \A k \in i + 2..Len(q) : q[k] \in Entries
      BY <1>0
    <2>2. /\ back \in Seq(Entries)
          /\ Len(back) = IF i + 2 <= Len(q) THEN Len(q) - (i + 2) + 1 ELSE 0
          /\ \A k \in 1..Len(q) - (i + 2) + 1 : back[k] = q[(i + 2) + k - 1]
      BY <1>0, <2>1, SubSeqProperties, i + 2 \in Int, Len(q) \in Int
    <2>3. Len(back) = Len(q) - i - 1
      BY <1>0, <2>2
    <2>4. ASSUME NEW k \in 1..Len(q) - i - 1 PROVE back[k] = q[k + i + 1]
      <3>1. k \in 1..Len(q) - (i + 2) + 1 /\ (i + 2) + k - 1 = k + i + 1
        BY <1>0
      <3>2. QED
        BY <2>2, <3>1
    <2>5. QED
      BY <2>2, <2>3, <2>4
  <1>3. gap \in Entries
    BY <1>0, MergeType
  <1>4. <<gap>> \in Seq(Entries) /\ Len(<<gap>>) = 1 /\ <<gap>>[1] = gap
    <2>1. \A e \in Entries : <<e>> \in Seq(Entries)
      OBVIOUS
    <2>2. QED
      BY <1>3, <2>1
  <1>5. /\ most \in Seq(Entries) /\ Len(most) = i
        /\ \A k \in 1..i : most[k] = IF k <= i - 1 THEN q[k] ELSE gap
    <2> HIDE DEF gap, front
    <2>1. /\ most \in Seq(Entries) /\ Len(most) = Len(front) + 1
          /\ \A k \in 1..Len(front) + 1 :
               most[k] = IF k <= Len(front) THEN front[k] ELSE <<gap>>[k - Len(front)]
      BY <1>1, <1>4, ConcatProperties
    <2>2. Len(front) + 1 = i
      BY <1>1, <1>0
    <2>3. ASSUME NEW k \in 1..i PROVE most[k] = IF k <= i - 1 THEN q[k] ELSE gap
      <3>1. CASE k <= i - 1
        BY <1>0, <1>1, <2>1, <2>2, <3>1
      <3>2. CASE k = i
        BY <1>0, <1>1, <1>4, <2>1, <2>2, <3>2
      <3>3. k <= i - 1 \/ k = i
        BY <1>0
      <3>4. QED
        BY <3>1, <3>2, <3>3
    <2>4. QED
      BY <2>1, <2>2, <2>3
  <1>6. /\ most \o back \in Seq(Entries) /\ Len(most \o back) = Len(q) - 1
        /\ \A k \in 1..Len(q) - 1 :
             (most \o back)[k] = IF k <= i THEN most[k] ELSE back[k - i]
    <2> HIDE DEF most, back
    <2>1. Len(most) + Len(back) = Len(q) - 1
      BY <1>0, <1>2, <1>5
    <2>2. /\ most \o back \in Seq(Entries)
          /\ Len(most \o back) = Len(most) + Len(back)
          /\ \A k \in 1..Len(most) + Len(back) :
               (most \o back)[k] = IF k <= Len(most) THEN most[k]
                                   ELSE back[k - Len(most)]
      <3>1. most \in Seq(Entries) /\ back \in Seq(Entries)
        BY <1>2, <1>5
      <3>2. QED
        BY <3>1, ConcatProperties
    <2>3. Len(most) = i
      BY <1>5
    <2>4. ASSUME NEW k \in 1..Len(q) - 1
          PROVE  (most \o back)[k] = IF k <= i THEN most[k] ELSE back[k - i]
      BY <2>1, <2>2, <2>3
    <2>5. QED
      BY <2>1, <2>2, <2>4
  <1>7. Fuse(q, i) = most \o back
    BY DEF Fuse
  <1> HIDE DEF most, back, gap
  <1>8. \A k \in 1..i - 1 : (most \o back)[k] = q[k]
    BY <1>0, <1>5, <1>6
  <1>9. (most \o back)[i] = gap
    BY <1>0, <1>5, <1>6
  <1>10. ASSUME NEW k \in i + 1..Len(q) - 1 PROVE (most \o back)[k] = q[k + 1]
    <2>1. k - i \in 1..Len(q) - i - 1 /\ (k - i) + i + 1 = k + 1
      BY <1>0
    <2>2. (most \o back)[k] = back[k - i]
      BY <1>0, <1>6
    <2>3. QED
      BY <1>2, <2>1, <2>2
  <1>11. QED
    BY <1>6, <1>7, <1>8, <1>9, <1>10 DEF gap

(* What the fusion of two entries of the back of a stream makes of the stream. *)
LEMMA FuseBehind ==
  ASSUME NEW d \in Seq(Entries), NEW q \in Seq(Entries), NEW i \in 1..Len(q) - 1
  PROVE  d \o Fuse(q, i) = Fuse(d \o q, Len(d) + i)
  <1> DEFINE st == d \o q
             n  == Len(d)
             fq == Fuse(q, i)
             fs == Fuse(st, n + i)
  <1>0. /\ n \in Nat /\ Len(q) \in Nat
        /\ st \in Seq(Entries) /\ Len(st) = n + Len(q)
        /\ \A k \in 1..n + Len(q) : st[k] = IF k <= n THEN d[k] ELSE q[k - n]
    BY LenProperties, ConcatProperties
  <1>1. /\ fq \in Seq(Entries) /\ Len(fq) = Len(q) - 1
        /\ \A k \in 1..i - 1 : fq[k] = q[k]
        /\ fq[i] = Merge(q[i], q[i + 1])
        /\ \A k \in i + 1..Len(q) - 1 : fq[k] = q[k + 1]
    BY FuseShape
  <1>2. n + i \in 1..Len(st) - 1
    BY <1>0
  <1>3. /\ fs \in Seq(Entries) /\ Len(fs) = Len(st) - 1
        /\ \A k \in 1..(n + i) - 1 : fs[k] = st[k]
        /\ fs[n + i] = Merge(st[n + i], st[n + i + 1])
        /\ \A k \in n + i + 1..Len(st) - 1 : fs[k] = st[k + 1]
    <2>1. st \in Seq(Entries)
      BY <1>0
    <2> HIDE DEF st, n
    <2> DEFINE Shape(m) ==
          /\ Fuse(st, m) \in Seq(Entries) /\ Len(Fuse(st, m)) = Len(st) - 1
          /\ \A k \in 1..m - 1 : Fuse(st, m)[k] = st[k]
          /\ Fuse(st, m)[m] = Merge(st[m], st[m + 1])
          /\ \A k \in m + 1..Len(st) - 1 : Fuse(st, m)[k] = st[k + 1]
    <2>2. ASSUME NEW m \in 1..Len(st) - 1 PROVE Shape(m)
      BY <2>1, FuseShape, Zenon
    <2>3. Shape(n + i)
      <3> HIDE DEF Shape
      <3>1. QED
        BY <1>2, <2>2
    <2>4. QED
      BY <2>3
  <1>4. /\ d \o fq \in Seq(Entries) /\ Len(d \o fq) = n + Len(fq)
        /\ \A k \in 1..n + Len(fq) : (d \o fq)[k] = IF k <= n THEN d[k] ELSE fq[k - n]
    <2>1. fq \in Seq(Entries)
      BY <1>1
    <2> HIDE DEF fq
    <2>2. QED
      BY <2>1, ConcatProperties
  <1> HIDE DEF st, n, fq, fs
  <1>n. n \in Nat /\ i \in Nat
    BY <1>0
  <1>5. Len(d \o fq) = Len(fs) /\ Len(fs) = n + Len(q) - 1
    BY <1>0, <1>1, <1>3, <1>4
  <1>6. ASSUME NEW k \in 1..Len(fs) PROVE (d \o fq)[k] = fs[k]
    <2>0. k \in 1..n + Len(fq) /\ k \in Nat /\ k <= n + Len(q) - 1 /\ Len(fq) = Len(q) - 1
      BY <1>0, <1>1, <1>5
    <2>1. CASE k <= n
      <3>1. (d \o fq)[k] = d[k]
        BY <1>4, <2>0, <2>1
      <3>2. k \in 1..(n + i) - 1 /\ k \in 1..n + Len(q)
        BY <1>0, <2>0, <2>1
      <3>3. QED
        BY <1>0, <1>3, <2>1, <3>1, <3>2
    <2>2. CASE k > n /\ k < n + i
      <3>1. (d \o fq)[k] = fq[k - n] /\ k - n \in 1..i - 1
        <4>1. ~(k <= n) /\ k - n \in 1..i - 1
          BY <1>n, <2>0, <2>2
        <4>2. (d \o fq)[k] = fq[k - n]
          BY <1>4, <2>0, <4>1
        <4>3. QED
          BY <4>1, <4>2
      <3>2. k \in 1..(n + i) - 1 /\ k \in 1..n + Len(q)
        BY <1>0, <2>0, <2>2
      <3>3. fs[k] = st[k] /\ st[k] = q[k - n]
        BY <1>0, <1>3, <2>2, <3>2
      <3>4. QED
        BY <1>1, <3>1, <3>3
    <2>3. CASE k = n + i
      <3>1. (d \o fq)[k] = fq[k - n] /\ k - n = i
        BY <1>0, <1>4, <2>0, <2>3
      <3>2. st[n + i] = q[i] /\ st[n + i + 1] = q[i + 1]
        <4>1. /\ n + i \in 1..n + Len(q) /\ n + i + 1 \in 1..n + Len(q)
              /\ (n + i) - n = i /\ (n + i + 1) - n = i + 1
              /\ ~(n + i <= n) /\ ~(n + i + 1 <= n)
          BY <1>0
        <4>2. st[n + i] = q[(n + i) - n]
          BY <1>0, <4>1
        <4>3. st[n + i + 1] = q[(n + i + 1) - n]
          BY <1>0, <4>1
        <4>4. QED
          BY <4>1, <4>2, <4>3
      <3>3. QED
        BY <1>1, <1>3, <2>3, <3>1, <3>2
    <2>4. CASE k > n + i
      <3>1. (d \o fq)[k] = fq[k - n] /\ k - n \in i + 1..Len(q) - 1
        BY <1>0, <1>4, <2>0, <2>4
      <3>2. k \in n + i + 1..Len(st) - 1 /\ k + 1 \in 1..n + Len(q)
            /\ (k + 1) - n = (k - n) + 1
        BY <1>0, <2>0, <2>4
      <3>3. fs[k] = st[k + 1] /\ st[k + 1] = q[(k - n) + 1]
        BY <1>0, <1>3, <2>4, <3>2
      <3>4. QED
        BY <1>1, <3>1, <3>3
    <2>5. k <= n \/ (k > n /\ k < n + i) \/ k = n + i \/ k > n + i
      BY <1>n, <2>0
    <2>6. QED
      BY <2>1, <2>2, <2>3, <2>4, <2>5
  <1>7. d \o fq = fs
    BY <1>3, <1>4, <1>5, <1>6, SeqEqual
  <1>8. QED
    BY <1>7 DEF fq, fs, st, n

(* The i-th entry gives way to a gap of its own. *)
Drop(q, i) == [q EXCEPT ![i].class = "Gap"]

LEMMA DropShape ==
  ASSUME NEW q \in Seq(Entries), NEW i \in 1..Len(q)
  PROVE  /\ Drop(q, i) \in Seq(Entries) /\ Len(Drop(q, i)) = Len(q)
         /\ \A k \in 1..Len(q) : k # i => Drop(q, i)[k] = q[k]
         /\ Drop(q, i)[i] \in Entries /\ Drop(q, i)[i].class = "Gap"
         /\ \A k \in 1..Len(q) : /\ Drop(q, i)[k].first = q[k].first
                                 /\ Drop(q, i)[k].last = q[k].last
                                 /\ Drop(q, i)[k].count = q[k].count
  <1>0. q[i] \in Entries /\ DOMAIN q = 1..Len(q)
    BY ElementOfSeq, LenProperties
  <1> DEFINE gap == [q[i] EXCEPT !.class = "Gap"]
  <1>1. /\ gap \in Entries /\ gap.class = "Gap" /\ gap.first = q[i].first
        /\ gap.last = q[i].last /\ gap.count = q[i].count
    BY <1>0 DEF Entries
  <1>2. Drop(q, i) = [q EXCEPT ![i] = gap]
    BY DEF Drop
  <1> HIDE DEF gap
  <1>3. /\ [q EXCEPT ![i] = gap] \in Seq(Entries)
        /\ Len([q EXCEPT ![i] = gap]) = Len(q)
        /\ \A j \in 1..Len(q) : [q EXCEPT ![i] = gap][j] = IF j = i THEN gap ELSE q[j]
    BY <1>1, ExceptSeq
  <1>4. QED
    BY <1>1, <1>2, <1>3

LEMMA DropBehind ==
  ASSUME NEW d \in Seq(Entries), NEW q \in Seq(Entries), NEW i \in 1..Len(q)
  PROVE  d \o Drop(q, i) = Drop(d \o q, Len(d) + i)
  <1> DEFINE st == d \o q
             n  == Len(d)
             gap == [q[i] EXCEPT !.class = "Gap"]
  <1>0. /\ n \in Nat /\ Len(q) \in Nat
        /\ st \in Seq(Entries) /\ Len(st) = n + Len(q)
        /\ \A k \in 1..n + Len(q) : st[k] = IF k <= n THEN d[k] ELSE q[k - n]
    BY LenProperties, ConcatProperties
  <1>1. n + i \in 1..Len(st) /\ st[n + i] = q[i]
    <2>1. n + i \in 1..n + Len(q) /\ (n + i) - n = i /\ ~(n + i <= n)
      BY <1>0
    <2>2. QED
      BY <1>0, <2>1
  <1>2. gap \in Entries
    <2>1. q[i] \in Entries
      BY ElementOfSeq
    <2>2. QED
      BY <2>1 DEF Entries
  <1>3. Drop(q, i) = [q EXCEPT ![i] = gap] /\ Drop(st, n + i) = [st EXCEPT ![n + i] = gap]
    <2>1. Drop(st, n + i) = [st EXCEPT ![n + i] = [st[n + i] EXCEPT !.class = "Gap"]]
      BY DEF Drop
    <2>2. QED
      BY <1>1, <2>1 DEF Drop
  <1> HIDE DEF gap, st, n
  <1> DEFINE dq == [q EXCEPT ![i] = gap]
             ds == [st EXCEPT ![n + i] = gap]
  <1>4. /\ dq \in Seq(Entries) /\ Len(dq) = Len(q)
        /\ \A j \in 1..Len(q) : dq[j] = IF j = i THEN gap ELSE q[j]
    BY <1>2, ExceptSeq
  <1>5. /\ ds \in Seq(Entries) /\ Len(ds) = Len(st)
        /\ \A j \in 1..Len(st) : ds[j] = IF j = n + i THEN gap ELSE st[j]
    BY <1>0, <1>1, <1>2, ExceptSeq
  <1>len. n \in Nat /\ Len(q) \in Nat
    BY <1>0
  <1> HIDE DEF dq, ds
  <1>6. /\ d \o dq \in Seq(Entries) /\ Len(d \o dq) = n + Len(q)
        /\ \A k \in 1..n + Len(q) : (d \o dq)[k] = IF k <= n THEN d[k] ELSE dq[k - n]
    <2>1. dq \in Seq(Entries) /\ Len(dq) = Len(q)
      BY <1>4
    <2> HIDE DEF dq
    <2>2. /\ d \o dq \in Seq(Entries) /\ Len(d \o dq) = Len(d) + Len(dq)
          /\ \A k \in 1..Len(d) + Len(dq) :
               (d \o dq)[k] = IF k <= Len(d) THEN d[k] ELSE dq[k - Len(d)]
      BY <2>1, ConcatProperties
    <2>3. QED
      BY <2>1, <2>2 DEF n
  <1>7. ASSUME NEW k \in 1..n + Len(q) PROVE (d \o dq)[k] = ds[k]
    <2>1. CASE k <= n
      <3>1. (d \o dq)[k] = d[k] /\ st[k] = d[k] /\ k # n + i
        BY <1>0, <1>6, <2>1
      <3>2. QED
        BY <1>0, <1>5, <3>1
    <2>2. CASE k > n
      <3>1. (d \o dq)[k] = dq[k - n] /\ st[k] = q[k - n] /\ k - n \in 1..Len(q)
            /\ (k = n + i <=> k - n = i)
        BY <1>0, <1>6, <2>2
      <3>2. QED
        BY <1>0, <1>4, <1>5, <3>1
    <2>3. k <= n \/ k > n
      BY <1>len
    <2>4. QED
      BY <2>1, <2>2, <2>3
  <1>8. d \o dq = ds
    BY <1>0, <1>5, <1>6, <1>7, SeqEqual
  <1>9. QED
    BY <1>3, <1>8 DEF dq, ds, st, n

-----------------------------------------------------------------------------
(* The entries of a stream are in order and account for what was accepted. *)
InOrder(st) == \A i, j \in 1..Len(st) : i < j => st[i].last < st[j].first
Sound(e, acc) == /\ e.first \in acc /\ e.last \in acc /\ e.first <= e.last
                 /\ e.count = Cardinality(acc \cap e.first..e.last)
Covered(st, n) == \E i \in 1..Len(st) : st[i].first <= n /\ n <= st[i].last
Accounts(st, acc) ==
  /\ InOrder(st)
  /\ \A i \in 1..Len(st) : Sound(st[i], acc)
  /\ \A n \in acc : Covered(st, n)

(* The gap that takes the place of two neighbours counts what both count. *)
LEMMA MergeSound ==
  ASSUME NEW st \in Seq(Entries), NEW acc \in SUBSET Nat, IsFiniteSet(acc),
         Accounts(st, acc), NEW i \in 1..Len(st) - 1
  PROVE  Sound(Merge(st[i], st[i + 1]), acc)
  <1>0. Len(st) \in Nat /\ i \in 1..Len(st) /\ i + 1 \in 1..Len(st) /\ i < i + 1
    BY LenProperties
  <1> DEFINE a == st[i]
             b == st[i + 1]
             g == Merge(a, b)
             A == acc \cap a.first..a.last
             B == acc \cap b.first..b.last
             G == acc \cap a.first..b.last
  <1>1. a \in Entries /\ b \in Entries
    BY <1>0, ElementOfSeq
  <1>2. /\ a.first \in Nat /\ a.last \in Nat /\ b.first \in Nat /\ b.last \in Nat
        /\ g.first = a.first /\ g.last = b.last /\ g.count = a.count + b.count
    BY <1>1, EntryFields, MergeType
  <1>3. Sound(a, acc) /\ Sound(b, acc) /\ a.last < b.first
    BY <1>0 DEF Accounts, InOrder
  <1>4. A \cap B = {}
    BY <1>2, <1>3
  <1>5. G = A \cup B
    <2>1. ASSUME NEW n \in G PROVE n \in A \cup B
      <3>1. n \in Nat /\ a.first <= n /\ n <= b.last /\ n \in acc
        BY <1>2
      <3>2. PICK k \in 1..Len(st) : st[k].first <= n /\ n <= st[k].last
        BY <3>1 DEF Accounts, Covered
      <3>3. st[k].first \in Nat /\ st[k].last \in Nat
        BY ElementOfSeq, EntryFields
      <3>4. CASE k <= i
        <4>1. st[k].last <= a.last
          <5>1. CASE k = i
            BY <5>1, <1>2
          <5>2. CASE k < i
            <6>1. st[k].last < a.first
              BY <1>0, <5>2 DEF Accounts, InOrder
            <6>2. a.first <= a.last
              BY <1>3 DEF Sound
            <6>3. QED
              BY <1>2, <3>3, <6>1, <6>2
          <5>3. QED
            BY <3>4, <5>1, <5>2, <1>0
        <4>2. QED
          BY <1>2, <3>1, <3>2, <3>3, <4>1
      <3>5. CASE k >= i + 1
        <4>1. b.first <= st[k].first
          <5>1. CASE k = i + 1
            BY <5>1, <1>2
          <5>2. CASE i + 1 < k
            <6>1. b.last < st[k].first
              BY <1>0, <5>2 DEF Accounts, InOrder
            <6>2. b.first <= b.last
              BY <1>3 DEF Sound
            <6>3. QED
              BY <1>2, <3>3, <6>1, <6>2
          <5>3. QED
            BY <3>5, <5>1, <5>2, <1>0
        <4>2. QED
          BY <1>2, <3>1, <3>2, <3>3, <4>1
      <3>6. QED
        BY <1>0, <3>4, <3>5
    <2>2. ASSUME NEW n \in A \cup B PROVE n \in G
      <3>1. a.first <= a.last /\ b.first <= b.last
        BY <1>3 DEF Sound
      <3>2. QED
        BY <1>2, <1>3, <3>1
    <2>3. QED
      BY <2>1, <2>2
  <1>6. IsFiniteSet(A) /\ IsFiniteSet(B)
    BY FS_Subset
  <1>7. Cardinality(G) = Cardinality(A) + Cardinality(B)
    <2> HIDE DEF A, B, G
    <2>1. Cardinality(A) \in Nat /\ Cardinality(B) \in Nat
      BY <1>6, FS_CardinalityType
    <2>2. Cardinality(A \cup B) = Cardinality(A) + Cardinality(B) - Cardinality(A \cap B)
      BY <1>6, FS_Union
    <2>3. Cardinality(A \cap B) = 0
      BY <1>4, FS_EmptySet
    <2>4. QED
      BY <1>5, <2>1, <2>2, <2>3
  <1>8. a.count = Cardinality(A) /\ b.count = Cardinality(B)
    BY <1>3 DEF Sound
  <1>9. g.count = Cardinality(acc \cap g.first..g.last)
    BY <1>2, <1>7, <1>8
  <1>10. g.first \in acc /\ g.last \in acc /\ g.first <= g.last
    BY <1>2, <1>3 DEF Sound
  <1>11. QED
    BY <1>9, <1>10 DEF Sound

LEMMA FuseAccounts ==
  ASSUME NEW st \in Seq(Entries), NEW acc \in SUBSET Nat, IsFiniteSet(acc),
         Accounts(st, acc), NEW i \in 1..Len(st) - 1
  PROVE  Accounts(Fuse(st, i), acc)
  <1> DEFINE f == Fuse(st, i)
  <1>0. Len(st) \in Nat /\ i \in 1..Len(st) /\ i + 1 \in 1..Len(st)
    BY LenProperties
  <1>1. /\ f \in Seq(Entries) /\ Len(f) = Len(st) - 1
        /\ \A k \in 1..i - 1 : f[k] = st[k]
        /\ f[i] = Merge(st[i], st[i + 1])
        /\ \A k \in i + 1..Len(st) - 1 : f[k] = st[k + 1]
    BY FuseShape
  <1>2. f[i].first = st[i].first /\ f[i].last = st[i + 1].last
    BY <1>0, <1>1, ElementOfSeq, MergeType
  <1> HIDE DEF f
  <1>3. ASSUME NEW k \in 1..Len(f), NEW m \in 1..Len(f), k < m
        PROVE  f[k].last < f[m].first
    <2>0. k \in 1..Len(st) - 1 /\ m \in 1..Len(st) - 1 /\ k + 1 \in 1..Len(st)
          /\ m + 1 \in 1..Len(st) /\ k \in 1..Len(st) /\ m \in 1..Len(st)
      BY <1>0, <1>1
    <2>1. PICK x \in 1..Len(st) : f[k].last = st[x].last /\ IF k < i THEN x = k ELSE x = k + 1
      <3>1. CASE k < i
        <4>1. k \in 1..i - 1
          BY <3>1, <2>0
        <4>2. QED
          BY <1>1, <2>0, <3>1, <4>1
      <3>2. CASE k = i
        BY <1>2, <2>0, <3>2
      <3>3. CASE k > i
        <4>1. k \in i + 1..Len(st) - 1
          BY <3>3, <2>0
        <4>2. QED
          BY <1>1, <2>0, <3>3, <4>1
      <3>4. QED
        BY <3>1, <3>2, <3>3
    <2>2. PICK y \in 1..Len(st) : f[m].first = st[y].first /\ IF m <= i THEN y = m ELSE y = m + 1
      <3>1. CASE m < i
        <4>1. m \in 1..i - 1
          BY <3>1, <2>0
        <4>2. QED
          BY <1>1, <2>0, <3>1, <4>1
      <3>2. CASE m = i
        BY <1>2, <2>0, <3>2
      <3>3. CASE m > i
        <4>1. m \in i + 1..Len(st) - 1
          BY <3>3, <2>0
        <4>2. QED
          BY <1>1, <2>0, <3>3, <4>1
      <3>4. QED
        BY <3>1, <3>2, <3>3
    <2>3. x < y
      BY <1>3, <2>1, <2>2
    <2>4. QED
      BY <2>1, <2>2, <2>3 DEF Accounts, InOrder
  <1>4. ASSUME NEW k \in 1..Len(f) PROVE Sound(f[k], acc)
    <2>0. k \in 1..Len(st) - 1 /\ k \in 1..Len(st) /\ k + 1 \in 1..Len(st)
      BY <1>0, <1>1
    <2>1. CASE k < i
      <3>1. k \in 1..i - 1
        BY <2>0, <2>1
      <3>2. QED
        BY <1>1, <2>0, <3>1 DEF Accounts
    <2>2. CASE k = i
      BY <1>1, <2>2, MergeSound
    <2>3. CASE k > i
      <3>1. k \in i + 1..Len(st) - 1
        BY <2>0, <2>3
      <3>2. QED
        BY <1>1, <2>0, <3>1 DEF Accounts
    <2>4. QED
      BY <2>1, <2>2, <2>3
  <1>5. ASSUME NEW n \in acc PROVE Covered(f, n)
    <2>1. PICK k \in 1..Len(st) : st[k].first <= n /\ n <= st[k].last
      BY DEF Accounts, Covered
    <2>2. CASE k < i
      <3>1. k \in 1..i - 1 /\ k \in 1..Len(f)
        BY <1>0, <1>1, <2>2
      <3>2. QED
        BY <1>1, <2>1, <3>1 DEF Covered
    <2>3. CASE k = i \/ k = i + 1
      <3>1. i \in 1..Len(f)
        BY <1>0, <1>1
      <3>2. f[i].first <= n /\ n <= f[i].last
        <4>1. /\ st[i].first \in Nat /\ st[i].last \in Nat
              /\ st[i + 1].first \in Nat /\ st[i + 1].last \in Nat /\ n \in Nat
          BY <1>0, ElementOfSeq, EntryFields
        <4>2. st[i].last < st[i + 1].first /\ Sound(st[i], acc) /\ Sound(st[i + 1], acc)
          BY <1>0 DEF Accounts, InOrder
        <4>3. st[i].first <= st[i].last /\ st[i + 1].first <= st[i + 1].last
          BY <4>2 DEF Sound
        <4>4. QED
          BY <1>2, <2>1, <2>3, <4>1, <4>2, <4>3
      <3>3. QED
        BY <3>1, <3>2 DEF Covered
    <2>4. CASE k > i + 1
      <3>1. k - 1 \in i + 1..Len(st) - 1 /\ k - 1 \in 1..Len(f) /\ (k - 1) + 1 = k
        BY <1>0, <1>1, <2>4
      <3>2. f[k - 1] = st[k]
        BY <1>1, <3>1
      <3>3. QED
        BY <2>1, <3>1, <3>2 DEF Covered
    <2>5. QED
      BY <1>0, <2>2, <2>3, <2>4
  <1>6. QED
    BY <1>3, <1>4, <1>5 DEF Accounts, InOrder, f

LEMMA DropAccounts ==
  ASSUME NEW st \in Seq(Entries), NEW acc, Accounts(st, acc), NEW i \in 1..Len(st)
  PROVE  Accounts(Drop(st, i), acc)
  <1> DEFINE f == Drop(st, i)
  <1>1. /\ f \in Seq(Entries) /\ Len(f) = Len(st)
        /\ \A k \in 1..Len(st) : /\ f[k].first = st[k].first /\ f[k].last = st[k].last
                                 /\ f[k].count = st[k].count
    BY DropShape
  <1> HIDE DEF f
  <1>2. InOrder(f)
    BY <1>1 DEF Accounts, InOrder
  <1>3. \A k \in 1..Len(f) : Sound(f[k], acc)
    BY <1>1 DEF Accounts, Sound
  <1>4. \A n \in acc : Covered(f, n)
    BY <1>1 DEF Accounts, Covered
  <1>5. QED
    BY <1>2, <1>3, <1>4 DEF Accounts, f

-----------------------------------------------------------------------------
(* Who is among the events of a queue. *)
LEMMA EventsAre ==
  ASSUME NEW q \in Seq(Entries), NEW e
  PROVE  e \in Events(q) <=> \E k \in 1..Len(q) : q[k] = e /\ e.class # "Gap"
  BY LenProperties DEF Events, ToSet

(* The fusion of two gaps loses no event. *)
LEMMA FuseEvents ==
  ASSUME NEW q \in Seq(Entries), NEW i \in 1..Len(q) - 1,
         q[i].class = "Gap", q[i + 1].class = "Gap"
  PROVE  Events(Fuse(q, i)) = Events(q)
  <1> DEFINE f == Fuse(q, i)
  <1>0. Len(q) \in Nat /\ i \in 1..Len(q) /\ i + 1 \in 1..Len(q)
    BY LenProperties
  <1>1. /\ f \in Seq(Entries) /\ Len(f) = Len(q) - 1
        /\ \A k \in 1..i - 1 : f[k] = q[k]
        /\ f[i] = Merge(q[i], q[i + 1])
        /\ \A k \in i + 1..Len(q) - 1 : f[k] = q[k + 1]
    BY FuseShape
  <1>2. f[i].class = "Gap"
    BY <1>0, <1>1, ElementOfSeq, MergeType
  <1> HIDE DEF f
  <1>3. ASSUME NEW e \in Events(f) PROVE e \in Events(q)
    <2>1. PICK k \in 1..Len(f) : f[k] = e /\ e.class # "Gap"
      BY <1>1, EventsAre
    <2>2. \E j \in 1..Len(q) : q[j] = f[k]
      <3>1. CASE k < i
        <4>1. k \in 1..i - 1 /\ k \in 1..Len(q)
          BY <1>0, <3>1
        <4>2. QED
          BY <1>1, <4>1
      <3>2. CASE k > i
        <4>1. k \in i + 1..Len(q) - 1 /\ k + 1 \in 1..Len(q)
          BY <1>0, <1>1, <3>2
        <4>2. QED
          BY <1>1, <4>1
      <3>3. k # i
        BY <1>2, <2>1
      <3>4. QED
        BY <3>1, <3>2, <3>3
    <2>3. QED
      BY <2>1, <2>2, EventsAre
  <1>4. ASSUME NEW e \in Events(q) PROVE e \in Events(f)
    <2>1. PICK k \in 1..Len(q) : q[k] = e /\ e.class # "Gap"
      BY EventsAre
    <2>2. \E j \in 1..Len(f) : f[j] = e
      <3>1. CASE k < i
        <4>1. k \in 1..i - 1 /\ k \in 1..Len(f)
          BY <1>0, <1>1, <3>1
        <4>2. QED
          BY <1>1, <2>1, <4>1
      <3>2. CASE k > i + 1
        <4>1. k - 1 \in i + 1..Len(q) - 1 /\ k - 1 \in 1..Len(f) /\ (k - 1) + 1 = k
          BY <1>0, <1>1, <3>2
        <4>2. f[k - 1] = q[k]
          BY <1>1, <4>1
        <4>3. QED
          BY <2>1, <4>1, <4>2
      <3>3. k # i /\ k # i + 1
        BY <2>1
      <3>4. QED
        BY <3>1, <3>2, <3>3, <1>0
    <2>3. QED
      BY <1>1, <2>1, <2>2, EventsAre
  <1>5. QED
    BY <1>3, <1>4 DEF f

(* A queue behind what was delivered is in order itself. *)
LEMMA BackInOrder ==
  ASSUME NEW d \in Seq(Entries), NEW q \in Seq(Entries), NEW acc,
         Accounts(d \o q, acc)
  PROVE  /\ InOrder(q)
         /\ \A k \in 1..Len(q) : Sound(q[k], acc)
  <1>0. Len(d) \in Nat /\ Len(q) \in Nat
    BY LenProperties
  <1>1. /\ Len(d \o q) = Len(d) + Len(q)
        /\ \A k \in 1..Len(d) + Len(q) :
             (d \o q)[k] = IF k <= Len(d) THEN d[k] ELSE q[k - Len(d)]
    BY ConcatProperties
  <1>2. ASSUME NEW k \in 1..Len(q)
        PROVE  Len(d) + k \in 1..Len(d \o q) /\ (d \o q)[Len(d) + k] = q[k]
    <2>1. /\ Len(d) + k \in 1..Len(d) + Len(q) /\ ~(Len(d) + k <= Len(d))
          /\ (Len(d) + k) - Len(d) = k
      BY <1>0
    <2>2. QED
      BY <1>1, <2>1
  <1>3. InOrder(q)
    <2>1. ASSUME NEW j \in 1..Len(q), NEW k \in 1..Len(q), j < k
          PROVE  q[j].last < q[k].first
      <3>1. Len(d) + j < Len(d) + k
        BY <1>0, <2>1
      <3>2. QED
        BY <1>2, <3>1 DEF Accounts, InOrder
    <2>2. QED
      BY <2>1 DEF InOrder
  <1>4. ASSUME NEW k \in 1..Len(q) PROVE Sound(q[k], acc)
    BY <1>2 DEF Accounts
  <1>5. QED
    BY <1>3, <1>4

(* Entries in order are told apart by their places. *)
LEMMA Distinct ==
  ASSUME NEW q \in Seq(Entries), NEW acc, InOrder(q),
         \A k \in 1..Len(q) : Sound(q[k], acc),
         NEW j \in 1..Len(q), NEW k \in 1..Len(q), q[j].first = q[k].first
  PROVE  j = k
  <1>1. /\ q[j].first \in Nat /\ q[j].last \in Nat
        /\ q[k].first \in Nat /\ q[k].last \in Nat
    BY ElementOfSeq, EntryFields
  <1>2. q[j].first <= q[j].last /\ q[k].first <= q[k].last
    BY DEF Sound
  <1>3. ~(j < k) /\ ~(k < j)
    BY <1>1, <1>2 DEF InOrder
  <1>4. QED
    BY <1>3

(* An event that gives way is the only one that is lost. *)
LEMMA DropEvents ==
  ASSUME NEW q \in Seq(Entries), NEW acc, InOrder(q),
         \A k \in 1..Len(q) : Sound(q[k], acc), NEW i \in 1..Len(q)
  PROVE  Events(Drop(q, i)) = Events(q) \ {q[i]}
  <1> DEFINE f == Drop(q, i)
  <1>1. /\ f \in Seq(Entries) /\ Len(f) = Len(q)
        /\ \A k \in 1..Len(q) : k # i => f[k] = q[k]
        /\ f[i].class = "Gap"
    BY DropShape
  <1> HIDE DEF f
  <1>2. ASSUME NEW e \in Events(f) PROVE e \in Events(q) \ {q[i]}
    <2>1. PICK k \in 1..Len(f) : f[k] = e /\ e.class # "Gap"
      BY <1>1, EventsAre
    <2>2. k \in 1..Len(q) /\ k # i /\ q[k] = e
      BY <1>1, <2>1
    <2>3. e # q[i]
      BY <2>2, Distinct
    <2>4. QED
      BY <2>1, <2>2, <2>3, EventsAre
  <1>3. ASSUME NEW e \in Events(q) \ {q[i]} PROVE e \in Events(f)
    <2>1. PICK k \in 1..Len(q) : q[k] = e /\ e.class # "Gap"
      BY EventsAre
    <2>2. f[k] = e /\ k \in 1..Len(f)
      BY <1>1, <2>1
    <2>3. QED
      BY <1>1, <2>1, <2>2, EventsAre
  <1>4. QED
    BY <1>2, <1>3 DEF f

(* The fusion of neighbours of the back of a stream keeps its account. *)
LEMMA FuseBack ==
  ASSUME NEW d \in Seq(Entries), NEW q \in Seq(Entries),
         NEW acc \in SUBSET Nat, IsFiniteSet(acc), Accounts(d \o q, acc),
         NEW i \in 1..Len(q) - 1
  PROVE  Accounts(d \o Fuse(q, i), acc)
  <1>1. Len(d) \in Nat /\ Len(q) \in Nat /\ d \o q \in Seq(Entries)
        /\ Len(d \o q) = Len(d) + Len(q)
    BY LenProperties, ConcatProperties
  <1>2. Len(d) + i \in 1..Len(d \o q) - 1
    BY <1>1
  <1>3. Accounts(Fuse(d \o q, Len(d) + i), acc)
    BY <1>1, <1>2, FuseAccounts
  <1>4. QED
    BY <1>3, FuseBehind

(* What GapAt promises: the event gives way, nothing else is lost, and the
   stream still accounts for everything.                                   *)
LEMMA GapAtSheds ==
  ASSUME NEW d \in Seq(Entries), NEW q \in Seq(Entries),
         NEW acc \in SUBSET Nat, IsFiniteSet(acc), Accounts(d \o q, acc),
         NEW i \in 1..Len(q)
  PROVE  /\ GapAt(q, i) \in Seq(Entries)
         /\ Accounts(d \o GapAt(q, i), acc)
         /\ Events(GapAt(q, i)) = Events(q) \ {q[i]}
  <1> DEFINE dropped == Drop(q, i)
             onward  == IF IsGap(q, i + 1) THEN Fuse(dropped, i) ELSE dropped
  <1>0. Len(q) \in Nat /\ DOMAIN q = 1..Len(q)
    BY LenProperties
  <1>1. GapAt(q, i) = IF IsGap(q, i - 1) THEN Fuse(onward, i - 1) ELSE onward
    BY DEF GapAt, Drop
  <1>2. /\ dropped \in Seq(Entries) /\ Len(dropped) = Len(q)
        /\ \A k \in 1..Len(q) : k # i => dropped[k] = q[k]
        /\ dropped[i].class = "Gap" /\ dropped[i] \in Entries
    BY DropShape
  <1>3. Events(dropped) = Events(q) \ {q[i]}
    BY BackInOrder, DropEvents
  <1>4. Accounts(d \o dropped, acc)
    <2>1. Len(d) \in Nat /\ d \o q \in Seq(Entries) /\ Len(d \o q) = Len(d) + Len(q)
      BY LenProperties, ConcatProperties
    <2>2. Len(d) + i \in 1..Len(d \o q)
      BY <1>0, <2>1
    <2>3. Accounts(Drop(d \o q, Len(d) + i), acc)
      BY <2>1, <2>2, DropAccounts
    <2>4. QED
      BY <2>3, DropBehind
  <1> HIDE DEF dropped
  <1>5. /\ onward \in Seq(Entries) /\ Len(onward) >= i /\ Len(onward) \in Nat
        /\ \A k \in 1..i - 1 : onward[k] = q[k]
        /\ onward[i].class = "Gap"
        /\ Events(onward) = Events(q) \ {q[i]}
        /\ Accounts(d \o onward, acc)
    <2>1. CASE IsGap(q, i + 1)
      <3>1. i + 1 \in 1..Len(q) /\ q[i + 1].class = "Gap"
        BY <1>0, <2>1 DEF IsGap
      <3>2. i \in 1..Len(dropped) - 1 /\ dropped[i + 1].class = "Gap"
            /\ dropped[i + 1] \in Entries
        BY <1>0, <1>2, <3>1, ElementOfSeq
      <3>3. /\ Fuse(dropped, i) \in Seq(Entries)
            /\ Len(Fuse(dropped, i)) = Len(dropped) - 1
            /\ \A k \in 1..i - 1 : Fuse(dropped, i)[k] = dropped[k]
            /\ Fuse(dropped, i)[i] = Merge(dropped[i], dropped[i + 1])
        BY <1>2, <3>2, FuseShape
      <3>4. Fuse(dropped, i)[i].class = "Gap"
        BY <1>2, <3>2, <3>3, MergeType
      <3>5. Accounts(d \o Fuse(dropped, i), acc)
        BY <1>2, <1>4, <3>2, FuseBack
      <3>6. Events(Fuse(dropped, i)) = Events(q) \ {q[i]}
        BY <1>2, <1>3, <3>2, FuseEvents
      <3>7. \A k \in 1..i - 1 : Fuse(dropped, i)[k] = q[k]
        BY <1>0, <1>2, <3>3
      <3>8. onward = Fuse(dropped, i)
        BY <2>1
      <3>9. Len(dropped) - 1 >= i /\ Len(dropped) - 1 \in Nat
        BY <1>0, <1>2, <3>1
      <3>10. QED
        BY <3>3, <3>4, <3>5, <3>6, <3>7, <3>8, <3>9
    <2>2. CASE ~IsGap(q, i + 1)
      <3>1. onward = dropped
        BY <2>2
      <3>2. \A k \in 1..i - 1 : dropped[k] = q[k]
        BY <1>0, <1>2
      <3>3. QED
        BY <1>0, <1>2, <1>3, <1>4, <3>1, <3>2
    <2>3. QED
      BY <2>1, <2>2
  <1> HIDE DEF onward
  <1>6. CASE IsGap(q, i - 1)
    <2>1. i - 1 \in 1..Len(q) /\ q[i - 1].class = "Gap"
      BY <1>0, <1>6 DEF IsGap
    <2>2. i - 1 \in 1..Len(onward) - 1 /\ (i - 1) + 1 = i
      BY <1>0, <1>5, <2>1
    <2>3. onward[i - 1].class = "Gap"
      BY <1>0, <1>5, <2>1
    <2>4. Fuse(onward, i - 1) \in Seq(Entries)
      BY <1>5, <2>2, FuseShape
    <2>5. Events(Fuse(onward, i - 1)) = Events(onward)
      BY <1>5, <2>2, <2>3, FuseEvents
    <2>6. Accounts(d \o Fuse(onward, i - 1), acc)
      BY <1>5, <2>2, FuseBack
    <2>7. QED
      BY <1>1, <1>5, <1>6, <2>4, <2>5, <2>6
  <1>7. CASE ~IsGap(q, i - 1)
    BY <1>1, <1>5, <1>7
  <1>8. QED
    BY <1>6, <1>7

-----------------------------------------------------------------------------
(* A queue has finitely many events. *)
LEMMA EventsFinite ==
  ASSUME NEW q \in Seq(Entries)
  PROVE  IsFiniteSet(Events(q))
  <1>1. q \in Surjection(1..Len(q), ToSet(q))
    <2>1. DOMAIN q = 1..Len(q) /\ q \in [1..Len(q) -> Entries]
      BY LenProperties
    <2>2. QED
      BY <2>1 DEF Surjection, ToSet
  <1>2. Len(q) \in Nat
    BY LenProperties
  <1>3. IsFiniteSet(1..Len(q))
    BY <1>2, FS_Interval
  <1>4. IsFiniteSet(ToSet(q))
    BY <1>1, <1>3, FS_Surjection
  <1>5. QED
    BY <1>4, FS_Subset DEF Events

LEMMA AppendEvents ==
  ASSUME NEW q \in Seq(Entries), NEW e \in Entries, e.class # "Gap"
  PROVE  Events(Append(q, e)) = Events(q) \cup {e}
  <1> DEFINE f == Append(q, e)
  <1>1. /\ f \in Seq(Entries) /\ Len(f) = Len(q) + 1 /\ Len(q) \in Nat
        /\ \A k \in 1..Len(q) : f[k] = q[k]
        /\ f[Len(q) + 1] = e
    BY AppendProperties, LenProperties
  <1> HIDE DEF f
  <1>2. ASSUME NEW x \in Events(f) PROVE x \in Events(q) \cup {e}
    <2>1. PICK k \in 1..Len(f) : f[k] = x /\ x.class # "Gap"
      BY <1>1, EventsAre
    <2>2. CASE k = Len(q) + 1
      BY <1>1, <2>1, <2>2
    <2>3. CASE k # Len(q) + 1
      <3>1. k \in 1..Len(q)
        BY <1>1, <2>3
      <3>2. QED
        BY <1>1, <2>1, <3>1, EventsAre
    <2>4. QED
      BY <2>2, <2>3
  <1>3. ASSUME NEW x \in Events(q) PROVE x \in Events(f)
    <2>1. PICK k \in 1..Len(q) : q[k] = x /\ x.class # "Gap"
      BY EventsAre
    <2>2. k \in 1..Len(f) /\ f[k] = x
      BY <1>1, <2>1
    <2>3. QED
      BY <1>1, <2>1, <2>2, EventsAre
  <1>4. e \in Events(f)
    <2>1. Len(q) + 1 \in 1..Len(f)
      BY <1>1
    <2>2. QED
      BY <1>1, <2>1, EventsAre
  <1>5. QED
    BY <1>2, <1>3, <1>4 DEF f

(* The account of a stream when the next event is accepted. *)
LEMMA AppendAccounts ==
  ASSUME NEW st \in Seq(Entries), NEW acc \in SUBSET Nat, IsFiniteSet(acc),
         Accounts(st, acc), NEW n \in Nat, \A m \in acc : m < n,
         NEW e \in Entries, e.first = n, e.last = n, e.count = 1
  PROVE  Accounts(Append(st, e), acc \cup {n})
  <1> DEFINE f   == Append(st, e)
             now == acc \cup {n}
  <1>1. /\ f \in Seq(Entries) /\ Len(f) = Len(st) + 1 /\ Len(st) \in Nat
        /\ \A k \in 1..Len(st) : f[k] = st[k]
        /\ f[Len(st) + 1] = e
    BY AppendProperties, LenProperties
  <1> HIDE DEF f
  <1>0. \A k \in 1..Len(f) : k \in 1..Len(st) \/ k = Len(st) + 1
    BY <1>1
  <1>2. ASSUME NEW k \in 1..Len(st)
        PROVE  /\ Sound(st[k], acc) /\ st[k].first \in Nat /\ st[k].last \in Nat
               /\ st[k].last < n
    <2>1. Sound(st[k], acc) /\ st[k].first \in Nat /\ st[k].last \in Nat
      BY ElementOfSeq, EntryFields DEF Accounts
    <2>2. QED
      BY <2>1 DEF Sound
  <1>3. InOrder(f)
    <2>1. ASSUME NEW j \in 1..Len(f), NEW k \in 1..Len(f), j < k
          PROVE  f[j].last < f[k].first
      <3>1. j \in 1..Len(st)
        BY <1>1, <2>1
      <3>2. CASE k \in 1..Len(st)
        BY <1>1, <2>1, <3>1, <3>2 DEF Accounts, InOrder
      <3>3. CASE k = Len(st) + 1
        BY <1>1, <1>2, <3>1, <3>3
      <3>4. QED
        BY <1>0, <3>2, <3>3
    <2>2. QED
      BY <2>1 DEF InOrder
  <1>4. ASSUME NEW k \in 1..Len(f) PROVE Sound(f[k], now)
    <2>1. CASE k \in 1..Len(st)
      <3>1. f[k] = st[k]
        BY <1>1, <2>1
      <3>2. now \cap st[k].first..st[k].last = acc \cap st[k].first..st[k].last
        BY <1>2, <2>1
      <3>3. QED
        BY <1>2, <2>1, <3>1, <3>2 DEF Sound
    <2>2. CASE k = Len(st) + 1
      <3>1. f[k] = e
        BY <1>1, <2>2
      <3>2. now \cap n..n = {n}
        OBVIOUS
      <3>3. Cardinality({n}) = 1
        BY FS_Singleton
      <3>4. now \cap e.first..e.last = {n}
        BY <3>2
      <3>5. e.count = Cardinality(now \cap e.first..e.last)
        BY <3>3, <3>4
      <3>6. e.first \in now /\ e.last \in now /\ e.first <= e.last
        OBVIOUS
      <3>7. QED
        BY <3>1, <3>5, <3>6 DEF Sound
    <2>3. QED
      BY <1>0, <2>1, <2>2
  <1>5. ASSUME NEW m \in now PROVE Covered(f, m)
    <2>1. CASE m \in acc
      <3>1. PICK k \in 1..Len(st) : st[k].first <= m /\ m <= st[k].last
        BY <2>1 DEF Accounts, Covered
      <3>2. k \in 1..Len(f) /\ f[k] = st[k]
        BY <1>1
      <3>3. QED
        BY <3>1, <3>2 DEF Covered
    <2>2. CASE m = n
      <3>1. Len(st) + 1 \in 1..Len(f)
        BY <1>1
      <3>2. f[Len(st) + 1].first <= m /\ m <= f[Len(st) + 1].last
        BY <1>1, <2>2
      <3>3. QED
        BY <3>1, <3>2 DEF Covered
    <2>3. QED
      BY <2>1, <2>2
  <1>6. QED
    BY <1>3, <1>4, <1>5 DEF Accounts, f

LEMMA AppendBehind ==
  ASSUME NEW d \in Seq(Entries), NEW q \in Seq(Entries), NEW e \in Entries
  PROVE  d \o Append(q, e) = Append(d \o q, e)
  <1>1. <<e>> \in Seq(Entries)
    OBVIOUS
  <1>2. Append(q, e) = q \o <<e>>
    BY AppendIsConcat
  <1>3. d \o q \in Seq(Entries)
    BY ConcatProperties
  <1>4. Append(d \o q, e) = (d \o q) \o <<e>>
    BY <1>3, AppendIsConcat
  <1>5. QED
    BY <1>1, <1>2, <1>4, ConcatAssociative

(* A critical event was lost, as the oldest of a queue full of them. *)
OldestOfCriticals(q, q2, x) ==
  /\ Cardinality(Events(q)) = Capacity
  /\ \A y \in Events(q) : y.class = "Critical" /\ x.first <= y.first
  /\ Last(q2).class = "Critical"

(* What the acceptance of event e makes of a queue. *)
Enqueued(d, q, q2, acc, e) ==
  /\ q2 \in Seq(Entries) /\ q2 # <<>>
  /\ Accounts(d \o q2, acc \cup {e.first})
  /\ e.class = "Critical" => Last(q2) = e
  /\ \A x \in Events(q) \ Events(q2) : x.class = "Critical" => OldestOfCriticals(q, q2, x)
  /\ Cardinality(Events(q2)) = IF Cardinality(Events(q)) < Capacity
                               THEN Cardinality(Events(q)) + 1 ELSE Cardinality(Events(q))

LEMMA LastOfAppend ==
  ASSUME NEW q \in Seq(Entries), NEW e \in Entries
  PROVE  Last(Append(q, e)) = e /\ Append(q, e) # <<>>
  BY AppendProperties DEF Last

(* An event gives way to the next one. *)
LEMMA Displaced ==
  ASSUME NEW d \in Seq(Entries), NEW q \in Seq(Entries),
         NEW acc \in SUBSET Nat, IsFiniteSet(acc), Accounts(d \o q, acc),
         NEW n \in Nat, \A m \in acc : m < n,
         NEW e \in Entries, e.class # "Gap", e.first = n, e.last = n, e.count = 1,
         NEW i \in 1..Len(q), q[i].class # "Gap",
         Cardinality(Events(q)) = Capacity,
         q[i].class = "Ordinary" \/ OldestOfCriticals(q, <<e>>, q[i])
  PROVE  Enqueued(d, q, Append(GapAt(q, i), e), acc, e)
  <1> DEFINE g  == GapAt(q, i)
             q2 == Append(g, e)
  <1>1. /\ g \in Seq(Entries) /\ Accounts(d \o g, acc)
        /\ Events(g) = Events(q) \ {q[i]}
    BY GapAtSheds, ZenonT(30)
  <1> HIDE DEF g
  <1>2. q2 \in Seq(Entries) /\ q2 # <<>> /\ Last(q2) = e
    BY <1>1, AppendProperties, LastOfAppend
  <1>3. Accounts(d \o q2, acc \cup {n})
    <2>1. d \o g \in Seq(Entries)
      BY <1>1, ConcatProperties
    <2>2. Accounts(Append(d \o g, e), acc \cup {n})
      BY <1>1, <2>1, AppendAccounts
    <2>3. QED
      BY <1>1, <2>2, AppendBehind
  <1>4. Events(q2) = (Events(q) \ {q[i]}) \cup {e}
    BY <1>1, AppendEvents
  <1>5. ASSUME NEW x \in Events(q) \ Events(q2), x.class = "Critical"
        PROVE  OldestOfCriticals(q, q2, x)
    <2>1. x = q[i] /\ x # e
      BY <1>4
    <2>2. OldestOfCriticals(q, <<e>>, x)
      BY <1>5, <2>1
    <2>3. Last(<<e>>) = e
      BY DEF Last
    <2>4. QED
      BY <1>2, <2>2, <2>3 DEF OldestOfCriticals
  <1>6. Cardinality(Events(q2)) = Cardinality(Events(q))
    <2>1. IsFiniteSet(Events(q)) /\ q[i] \in Events(q)
      BY EventsFinite, EventsAre
    <2>2. /\ IsFiniteSet(Events(q) \ {q[i]})
          /\ Cardinality(Events(q) \ {q[i]}) = Cardinality(Events(q)) - 1
      BY <2>1, FS_RemoveElement
    <2>3. e \notin Events(q)
      <3>1. SUFFICES ASSUME e \in Events(q) PROVE FALSE
        OBVIOUS
      <3>2. PICK k \in 1..Len(q) : q[k] = e
        BY <3>1, EventsAre
      <3>3. Sound(e, acc)
        BY <3>2, BackInOrder
      <3>4. QED
        BY <3>3 DEF Sound
    <2>4. Cardinality(Events(q2)) = Cardinality(Events(q) \ {q[i]}) + 1
      <3> DEFINE rest == Events(q) \ {q[i]}
      <3>1. IsFiniteSet(rest) /\ e \notin rest /\ Events(q2) = rest \cup {e}
        BY <1>4, <2>2, <2>3
      <3> HIDE DEF rest
      <3>2. Cardinality(rest \cup {e}) = Cardinality(rest) + 1
        BY <3>1, FS_AddElement
      <3>3. QED
        BY <3>1, <3>2 DEF rest
    <2>5. Cardinality(Events(q)) \in Nat
      BY <2>1, FS_CardinalityType
    <2>6. QED
      BY <2>2, <2>4, <2>5
  <1>7. Capacity \in Nat
    BY CapacityAssumption DEF CapacityAssumption
  <1>8. Enqueued(d, q, q2, acc, e)
    BY <1>2, <1>3, <1>5, <1>6, <1>7 DEF Enqueued
  <1>9. QED
    BY <1>8 DEF g

(* An ordinary event finds no room: a gap at the end stands for it. *)
LEMMA ShedAtOnce ==
  ASSUME NEW d \in Seq(Entries), NEW q \in Seq(Entries),
         NEW acc \in SUBSET Nat, IsFiniteSet(acc), Accounts(d \o q, acc),
         NEW n \in Nat, \A m \in acc : m < n,
         NEW e \in Entries, e.class = "Ordinary", e.first = n, e.last = n, e.count = 1,
         Cardinality(Events(q)) = Capacity
  PROVE  Enqueued(d, q, GapAt(Append(q, e), Len(q) + 1), acc, e)
  <1> DEFINE a   == Append(q, e)
             now == acc \cup {n}
             q2  == GapAt(a, Len(q) + 1)
  <1>1. /\ a \in Seq(Entries) /\ Len(a) = Len(q) + 1 /\ Len(q) \in Nat
        /\ a[Len(q) + 1] = e /\ Events(a) = Events(q) \cup {e}
    BY AppendProperties, LenProperties, AppendEvents
  <1>2. now \in SUBSET Nat /\ IsFiniteSet(now)
    BY FS_AddElement
  <1>3. Accounts(d \o a, now)
    <2>1. d \o q \in Seq(Entries)
      BY ConcatProperties
    <2>2. Accounts(Append(d \o q, e), now)
      BY <2>1, AppendAccounts
    <2>3. QED
      BY <2>2, AppendBehind
  <1>4. /\ q2 \in Seq(Entries) /\ Accounts(d \o q2, now)
        /\ Events(q2) = Events(a) \ {e}
    <2> HIDE DEF a, now
    <2>1. Len(q) + 1 \in 1..Len(a)
      BY <1>1
    <2>2. QED
      BY <1>1, <1>2, <1>3, <2>1, GapAtSheds
  <1>5. e \notin Events(q)
    <2>1. SUFFICES ASSUME e \in Events(q) PROVE FALSE
      OBVIOUS
    <2>2. PICK k \in 1..Len(q) : q[k] = e
      BY <2>1, EventsAre
    <2>3. Sound(e, acc)
      BY <2>2, BackInOrder
    <2>4. QED
      BY <2>3 DEF Sound
  <1>6. Events(q2) = Events(q)
    BY <1>1, <1>4, <1>5
  <1> HIDE DEF q2, now
  <1>7. q2 # <<>>
    <2>1. Cardinality(Events(q)) # 0
      BY CapacityAssumption DEF CapacityAssumption
    <2>2. Events(q2) # {}
      BY <1>6, <2>1, FS_EmptySet
    <2>3. PICK k \in 1..Len(q2) : TRUE
      BY <1>4, <2>2, EventsAre
    <2>4. QED
      BY <2>3, EmptySeq
  <1>8. Cardinality(Events(q2)) = Cardinality(Events(q)) /\ Capacity \in Nat
    BY <1>6, CapacityAssumption DEF CapacityAssumption
  <1>9. QED
    BY <1>4, <1>6, <1>7, <1>8 DEF Enqueued, q2, now, a

LEMMA EnqueueWorks ==
  ASSUME NEW d \in Seq(Entries),
         NEW state \in [entries : Seq(Entries), eventCount : 0..Capacity, closed : BOOLEAN],
         ~state.closed, state.eventCount = Cardinality(Events(state.entries)),
         NEW acc \in SUBSET Nat, IsFiniteSet(acc), Accounts(d \o state.entries, acc),
         NEW n \in Nat, \A m \in acc : m < n, NEW class \in {"Ordinary", "Critical"}
  PROVE  LET after == EnqueueAccepted(state, Concrete(n, class))
         IN  /\ after \in [entries : Seq(Entries), eventCount : 0..Capacity,
                           closed : BOOLEAN]
             /\ ~after.closed
             /\ after.eventCount = Cardinality(Events(after.entries))
             /\ Enqueued(d, state.entries, after.entries, acc, Concrete(n, class))
  <1> DEFINE q == state.entries
             e == Concrete(n, class)
             after == EnqueueAccepted(state, e)
  <1>0. /\ q \in Seq(Entries) /\ state.eventCount \in 0..Capacity
        /\ Capacity \in Nat /\ Capacity > 0
    BY CapacityAssumption DEF CapacityAssumption
  <1>1. /\ e \in Entries /\ e.class = class /\ e.first = n /\ e.last = n /\ e.count = 1
        /\ e.class # "Gap"
    <2>1. class \in {"Ordinary", "Critical", "Gap"} /\ 1 \in Nat \ {0}
      OBVIOUS
    <2>2. e \in Entries
      BY <2>1, MakeEntry DEF Concrete
    <2>3. QED
      BY <2>2 DEF Concrete
  <1> HIDE DEF e, q
  <1>2. CASE state.eventCount < Capacity
    <2> DEFINE q2 == Append(q, e)
    <2>1. after = [state EXCEPT !.entries = q2, !.eventCount = @ + 1]
      BY <1>2 DEF EnqueueAccepted, q
    <2>2. q2 \in Seq(Entries) /\ q2 # <<>> /\ Last(q2) = e
      BY <1>0, <1>1, AppendProperties, LastOfAppend
    <2>3. Accounts(d \o q2, acc \cup {n})
      <3>1. d \o q \in Seq(Entries) /\ Accounts(d \o q, acc)
        BY <1>0, ConcatProperties DEF q
      <3>2. Accounts(Append(d \o q, e), acc \cup {n})
        BY <1>1, <3>1, AppendAccounts
      <3>3. QED
        BY <1>0, <1>1, <3>2, AppendBehind
    <2>4. Events(q2) = Events(q) \cup {e}
      BY <1>0, <1>1, AppendEvents
    <2>5. e \notin Events(q)
      <3>1. SUFFICES ASSUME e \in Events(q) PROVE FALSE
        OBVIOUS
      <3>2. PICK k \in 1..Len(q) : q[k] = e
        BY <1>0, <3>1, EventsAre
      <3>3. Sound(e, acc)
        BY <1>0, <3>2, BackInOrder DEF q
      <3>4. QED
        BY <1>1, <3>3 DEF Sound
    <2>6. Cardinality(Events(q2)) = Cardinality(Events(q)) + 1
      BY <1>0, <2>4, <2>5, FS_AddElement, EventsFinite
    <2> HIDE DEF q2
    <2>7. /\ after.entries = q2 /\ after.eventCount = state.eventCount + 1
          /\ after.closed = state.closed
          /\ after \in [entries : Seq(Entries), eventCount : 0..Capacity, closed : BOOLEAN]
      <3>1. state.eventCount + 1 \in 0..Capacity /\ q2 \in Seq(Entries)
        BY <1>0, <1>2, <2>2
      <3>2. after = [entries |-> q2, eventCount |-> state.eventCount + 1,
                     closed |-> state.closed]
        BY <2>1
      <3>3. QED
        BY <3>1, <3>2
    <2>8. state.eventCount = Cardinality(Events(q))
      BY DEF q
    <2>9. Enqueued(d, q, q2, acc, e)
      BY <1>1, <1>2, <2>2, <2>3, <2>4, <2>6, <2>8 DEF Enqueued
    <2>10. QED
      BY <2>6, <2>7, <2>8, <2>9 DEF e, q
  <1>3. CASE state.eventCount = Capacity
    <2>0. Cardinality(Events(q)) = Capacity
      BY <1>3 DEF q
    <2>a. Accounts(d \o q, acc)
      BY DEF q
    <2>b. ASSUME NEW q2, after = [state EXCEPT !.entries = q2], Enqueued(d, q, q2, acc, e)
          PROVE  /\ after \in [entries : Seq(Entries), eventCount : 0..Capacity,
                               closed : BOOLEAN]
                 /\ ~after.closed
                 /\ after.eventCount = Cardinality(Events(after.entries))
                 /\ Enqueued(d, q, after.entries, acc, e)
      <3>1. q2 \in Seq(Entries) /\ Cardinality(Events(q2)) = Capacity
        BY <1>0, <2>0, <2>b DEF Enqueued
      <3>2. after.entries = q2 /\ after.eventCount = Capacity /\ ~after.closed
        BY <1>3, <2>b
      <3>3. QED
        BY <2>b, <3>1, <3>2
    <2>1. CASE OldestOrdinary(q) # 0
      <3>1. OldestOrdinary(q) \in 1..Len(q) /\ q[OldestOrdinary(q)].class = "Ordinary"
        BY <1>0, <2>1, OldestOrdinaryFound, LenProperties
      <3>2. Enqueued(d, q, Append(GapAt(q, OldestOrdinary(q)), e), acc, e)
        BY <1>0, <1>1, <2>0, <2>a, <3>1, Displaced
      <3>3. after = [state EXCEPT !.entries = Append(GapAt(q, OldestOrdinary(q)), e)]
        BY <1>0, <1>3, <2>1 DEF EnqueueAccepted, q
      <3>4. QED
        BY <2>b, <3>2, <3>3 DEF e, q
    <2>2. CASE OldestOrdinary(q) = 0 /\ class = "Critical"
      <3>1. \A i \in 1..Len(q) : q[i].class # "Ordinary"
        BY <1>0, <2>2, OldestOrdinaryFound, LenProperties
      <3>2. Events(q) # {}
        <4>1. SUFFICES ASSUME Events(q) = {} PROVE FALSE
          OBVIOUS
        <4>2. Cardinality(Events(q)) = 0
          BY <4>1, FS_EmptySet
        <4>3. QED
          BY <1>0, <2>0, <4>2
      <3>3. /\ Oldest(q) \in 1..Len(q) /\ q[Oldest(q)].class # "Gap"
            /\ \A i \in 1..Len(q) : q[i].class # "Gap" => Oldest(q) <= i
        BY <1>0, <3>2, OldestFound, LenProperties
      <3>4. PICK o \in 1..Len(q) : o = Oldest(q)
        BY <3>3
      <3>5. OldestOfCriticals(q, <<e>>, q[o])
        <4>1. ASSUME NEW y \in Events(q)
              PROVE  y.class = "Critical" /\ q[o].first <= y.first
          <5>1. PICK k \in 1..Len(q) : q[k] = y /\ y.class # "Gap"
            BY <1>0, EventsAre
          <5>2. y.class = "Critical"
            BY <1>0, <3>1, <5>1, ElementOfSeq, EntryFields
          <5>3. q[o].first <= q[k].first
            <6>0. /\ q[o].first \in Nat /\ q[o].last \in Nat /\ q[k].first \in Nat
              BY <1>0, ElementOfSeq, EntryFields
            <6>1. InOrder(q) /\ Sound(q[o], acc)
              BY <1>0, <2>a, BackInOrder
            <6>2. o = k \/ o < k
              BY <3>3, <3>4, <5>1
            <6>3. QED
              BY <6>0, <6>1, <6>2 DEF InOrder, Sound
          <5>4. QED
            BY <5>1, <5>2, <5>3
        <4>2. Last(<<e>>) = e
          BY DEF Last
        <4>3. QED
          BY <1>1, <2>0, <2>2, <4>1, <4>2 DEF OldestOfCriticals
      <3>6. Enqueued(d, q, Append(GapAt(q, o), e), acc, e)
        BY <1>0, <1>1, <2>0, <2>a, <3>3, <3>4, <3>5, Displaced
      <3>7. after = [state EXCEPT !.entries = Append(GapAt(q, Oldest(q)), e)]
        BY <1>0, <1>1, <1>3, <2>2 DEF EnqueueAccepted, q
      <3>8. QED
        BY <2>b, <3>4, <3>6, <3>7 DEF e, q
    <2>3. CASE OldestOrdinary(q) = 0 /\ class = "Ordinary"
      <3>1. Enqueued(d, q, GapAt(Append(q, e), Len(q) + 1), acc, e)
        BY <1>0, <1>1, <2>0, <2>a, <2>3, ShedAtOnce
      <3>2. after = [state EXCEPT !.entries = GapAt(Append(q, e), Len(q) + 1)]
        BY <1>0, <1>1, <1>3, <2>3 DEF EnqueueAccepted, q
      <3>3. QED
        BY <2>b, <3>1, <3>2 DEF e, q
    <2>4. QED
      BY <2>1, <2>2, <2>3
  <1>4. QED
    BY <1>0, <1>2, <1>3
-----------------------------------------------------------------------------
(* What is known of a queue and of what its readers got. *)
QueueInv(s) ==
  /\ \A n \in accepted[s] : n < nextSequence
  /\ Accounts(Stream(s), accepted[s])
  /\ queue[s].closed => /\ eventsClosed /\ Stream(s) # <<>>
                        /\ Last(Stream(s)) = Concrete(final, "Critical")

(* A queue is read by at most one reader, which keeps its subscription. *)
ReaderInv ==
  /\ \A r \in Readers : reader[r].pc # "Idle" =>
        readerActive[reader[r].sub] /\ status[reader[r].sub] = "Live"
  /\ \A r, t \in Readers :
        /\ reader[r].pc # "Idle" /\ reader[t].pc # "Idle"
        /\ reader[r].sub = reader[t].sub
        => r = t
  /\ \A r \in Readers : reader[r].pc = "Waiting" =>
        queue[reader[r].sub].entries = <<>> /\ ~queue[reader[r].sub].closed

PhaseInv == /\ eventsClosed => final # 0
            /\ ~eventsClosed => nextSequence <= MaxEvents + 1

(* The inductive invariant. *)
Inv == TypeOK /\ (\A s \in Subscriptions : QueueInv(s)) /\ ReaderInv /\ PhaseInv

-----------------------------------------------------------------------------
(* The end of a stream is the end of the queue, if there is one. *)
LEMMA LastOfStream ==
  ASSUME NEW d \in Seq(Entries), NEW q \in Seq(Entries), q # <<>>
  PROVE  d \o q # <<>> /\ Last(d \o q) = Last(q)
  <1>1. Len(d) \in Nat /\ Len(q) \in Nat /\ Len(q) # 0
    BY LenProperties, EmptySeq
  <1>2. /\ d \o q \in Seq(Entries) /\ Len(d \o q) = Len(d) + Len(q)
        /\ \A k \in 1..Len(d) + Len(q) :
             (d \o q)[k] = IF k <= Len(d) THEN d[k] ELSE q[k - Len(d)]
    BY ConcatProperties
  <1>3. /\ Len(d) + Len(q) \in 1..Len(d) + Len(q) /\ ~(Len(d) + Len(q) <= Len(d))
        /\ (Len(d) + Len(q)) - Len(d) = Len(q)
    BY <1>1
  <1>4. (d \o q)[Len(d \o q)] = q[Len(q)]
    BY <1>2, <1>3
  <1>5. d \o q # <<>>
    BY <1>1, <1>2, EmptySeq
  <1>6. QED
    BY <1>4, <1>5 DEF Last

(* What is taken from the head of a queue stays in the stream. *)
LEMMA TakenStays ==
  ASSUME NEW d \in Seq(Entries), NEW q \in Seq(Entries), q # <<>>
  PROVE  Append(d, Head(q)) \o Tail(q) = d \o q
  <1>1. Head(q) \in Entries /\ Tail(q) \in Seq(Entries)
    BY HeadTailProperties
  <1>2. <<Head(q)>> \in Seq(Entries)
    <2>1. \A e \in Entries : <<e>> \in Seq(Entries)
      OBVIOUS
    <2>2. QED
      BY <1>1, <2>1
  <1>3. Append(d, Head(q)) = d \o <<Head(q)>>
    BY <1>1, AppendIsConcat
  <1>4. (d \o <<Head(q)>>) \o Tail(q) = d \o (<<Head(q)>> \o Tail(q))
    BY <1>1, <1>2, ConcatAssociative
  <1>5. <<Head(q)>> \o Tail(q) = q
    <2>1. /\ Len(q) \in Nat /\ Len(q) # 0 /\ Len(Tail(q)) = Len(q) - 1
          /\ \A k \in 1..Len(Tail(q)) : Tail(q)[k] = q[k + 1]
          /\ Head(q) = q[1]
      BY HeadTailProperties, LenProperties, EmptySeq
    <2> DEFINE t == <<Head(q)>> \o Tail(q)
    <2>2. /\ t \in Seq(Entries) /\ Len(t) = Len(<<Head(q)>>) + Len(Tail(q))
          /\ \A k \in 1..Len(<<Head(q)>>) + Len(Tail(q)) :
               t[k] = IF k <= Len(<<Head(q)>>) THEN <<Head(q)>>[k]
                      ELSE Tail(q)[k - Len(<<Head(q)>>)]
      BY <1>1, <1>2, ConcatProperties
    <2>3. Len(<<Head(q)>>) = 1 /\ <<Head(q)>>[1] = Head(q)
      OBVIOUS
    <2> HIDE DEF t
    <2>4. Len(t) = Len(q) /\ \A k \in 1..Len(q) : t[k] = IF k <= 1 THEN Head(q) ELSE Tail(q)[k - 1]
      BY <2>1, <2>2, <2>3
    <2>5. ASSUME NEW k \in 1..Len(t) PROVE t[k] = q[k]
      <3>1. CASE k = 1
        BY <2>1, <2>4, <3>1
      <3>2. CASE k # 1
        <4>1. k - 1 \in 1..Len(Tail(q)) /\ (k - 1) + 1 = k /\ ~(k <= 1)
          BY <2>1, <2>4, <3>2
        <4>2. QED
          BY <2>1, <2>4, <4>1
      <3>3. QED
        BY <3>1, <3>2
    <2>6. t = q
      BY <2>2, <2>4, <2>5, SeqEqual
    <2>7. QED
      BY <2>6 DEF t
  <1>6. QED
    BY <1>3, <1>4, <1>5

(* What taking the head does to event_count. *)
LEMMA TakenCounts ==
  ASSUME NEW q \in Seq(Entries), q # <<>>, NEW acc, InOrder(q),
         \A k \in 1..Len(q) : Sound(q[k], acc)
  PROVE  Cardinality(Events(Tail(q))) = StillQueued(q, Cardinality(Events(q)))
  <1> DEFINE t == Tail(q)
  <1>1. /\ Len(q) \in Nat /\ Len(q) # 0 /\ Len(t) = Len(q) - 1 /\ t \in Seq(Entries)
        /\ \A k \in 1..Len(t) : t[k] = q[k + 1]
        /\ 1 \in 1..Len(q) /\ DOMAIN q = 1..Len(q)
    BY HeadTailProperties, LenProperties, EmptySeq
  <1> HIDE DEF t
  <1>2. ASSUME NEW e \in Events(t) PROVE e \in Events(q) /\ e # q[1]
    <2>1. PICK k \in 1..Len(t) : t[k] = e /\ e.class # "Gap"
      BY <1>1, EventsAre
    <2>2. k + 1 \in 1..Len(q) /\ q[k + 1] = e /\ k + 1 # 1
      BY <1>1, <2>1
    <2>3. e # q[1]
      BY <1>1, <2>2, Distinct
    <2>4. QED
      BY <2>1, <2>2, <2>3, EventsAre
  <1>3. ASSUME NEW e \in Events(q), e # q[1] PROVE e \in Events(t)
    <2>1. PICK k \in 1..Len(q) : q[k] = e /\ e.class # "Gap"
      BY EventsAre
    <2>2. k - 1 \in 1..Len(t) /\ (k - 1) + 1 = k
      BY <1>1, <1>3, <2>1
    <2>3. t[k - 1] = e
      BY <1>1, <2>1, <2>2
    <2>4. QED
      BY <1>1, <2>1, <2>2, <2>3, EventsAre
  <1>4. Events(t) = Events(q) \ {q[1]}
    BY <1>2, <1>3
  <1>5. IsFiniteSet(Events(q))
    BY EventsFinite
  <1>6. CASE IsGap(q, 1)
    <2>1. q[1] \notin Events(q)
      BY <1>6 DEF IsGap, Events
    <2>2. Events(t) = Events(q)
      BY <1>4, <2>1
    <2>3. QED
      BY <1>6, <2>2 DEF StillQueued, t
  <1>7. CASE ~IsGap(q, 1)
    <2>1. q[1] \in Events(q)
      BY <1>1, <1>7, EventsAre DEF IsGap
    <2>2. Cardinality(Events(q) \ {q[1]}) = Cardinality(Events(q)) - 1
      BY <1>5, <2>1, FS_RemoveElement
    <2>3. QED
      BY <1>4, <1>7, <2>2 DEF StillQueued, t
  <1>8. QED
    BY <1>6, <1>7

-----------------------------------------------------------------------------
(* The initial states. *)
LEMMA InitInv == Init => Inv
  <1> SUFFICES ASSUME Init PROVE Inv
    OBVIOUS
  <1> USE DEF Init
  <1>1. <<>> \in Seq(Entries) /\ Len(<<>>) = 0 /\ Events(<<>>) = {}
    BY EmptySeq DEF Events, ToSet
  <1>2. Cardinality({}) = 0 /\ MaxEvents \in Nat /\ Capacity \in Nat
    BY FS_EmptySet, Bound, CapacityAssumption DEF Bound, CapacityAssumption
  <1>3. TypeOK
    <2>1. queue \in [Subscriptions -> [entries : Seq(Entries), eventCount : 0..Capacity,
                                      closed : BOOLEAN]]
      BY <1>1, <1>2
    <2>2. \A s \in Subscriptions : queue[s].eventCount = Cardinality(Events(queue[s].entries))
      BY <1>1, <1>2
    <2>3. nextSequence \in 1..MaxEvents + 2 /\ final \in 0..MaxEvents + 1
      BY <1>2
    <2>4. delivered \in [Subscriptions -> Seq(Entries)]
      BY <1>1
    <2>5. QED
      BY <2>1, <2>2, <2>3, <2>4 DEF TypeOK
  <1>4. ASSUME NEW s \in Subscriptions PROVE QueueInv(s)
    <2>1. Stream(s) = <<>>
      BY <1>1, ConcatEmptySeq DEF Stream
    <2>2. Accounts(<<>>, {})
      BY <1>1 DEF Accounts, InOrder
    <2>3. QED
      BY <2>1, <2>2 DEF QueueInv
  <1>5. ReaderInv
    BY DEF ReaderInv, Idle
  <1>6. PhaseInv
    BY <1>2 DEF PhaseInv
  <1>7. QED
    BY <1>3, <1>4, <1>5, <1>6 DEF Inv

(* A queue that is left alone. *)
LEMMA QueueKept ==
  ASSUME TypeOK, NEW s \in Subscriptions, QueueInv(s),
         queue'[s] = queue[s], delivered'[s] = delivered[s], accepted'[s] = accepted[s],
         nextSequence' \in Nat, nextSequence' >= nextSequence,
         queue[s].closed => eventsClosed' = eventsClosed /\ final' = final
  PROVE  QueueInv(s)'
  <1>1. Stream(s)' = Stream(s)
    BY DEF Stream
  <1>2. \A n \in accepted[s] : n < nextSequence'
    <2>1. nextSequence \in Nat /\ accepted[s] \in SUBSET Nat
      BY Bound DEF TypeOK, Bound
    <2>2. QED
      BY <2>1 DEF QueueInv
  <1>3. QED
    BY <1>1, <1>2 DEF QueueInv

QueueType == [entries : Seq(Entries), eventCount : 0..Capacity, closed : BOOLEAN]

(* The queue of a subscription that accepts the next event. *)
LEMMA QueueGets ==
  ASSUME TypeOK, NEW s \in Subscriptions, QueueInv(s), ~eventsClosed,
         NEW class \in {"Ordinary", "Critical"}
  PROVE  LET after == EnqueueAccepted(queue[s], Concrete(nextSequence, class))
         IN  /\ after \in QueueType /\ ~after.closed
             /\ after.eventCount = Cardinality(Events(after.entries))
             /\ Enqueued(delivered[s], queue[s].entries, after.entries, accepted[s],
                         Concrete(nextSequence, class))
  <1>1. /\ queue[s] \in QueueType /\ delivered[s] \in Seq(Entries)
        /\ queue[s].eventCount = Cardinality(Events(queue[s].entries))
        /\ accepted[s] \in SUBSET (1..MaxEvents + 1) /\ nextSequence \in Nat
        /\ MaxEvents \in Nat
    BY Bound DEF TypeOK, Bound, QueueType
  <1>2. IsFiniteSet(accepted[s]) /\ accepted[s] \in SUBSET Nat
    <2>1. IsFiniteSet(1..MaxEvents + 1)
      BY <1>1, FS_Interval
    <2>2. QED
      BY <1>1, <2>1, FS_Subset
  <1>3. /\ ~queue[s].closed /\ \A n \in accepted[s] : n < nextSequence
        /\ Accounts(delivered[s] \o queue[s].entries, accepted[s])
    BY DEF QueueInv, Stream
  <1>4. QED
    BY <1>1, <1>2, <1>3, EnqueueWorks DEF QueueType

LEMMA QueueAccepts ==
  ASSUME TypeOK, NEW s \in Subscriptions, QueueInv(s), ~eventsClosed,
         NEW class \in {"Ordinary", "Critical"},
         queue'[s] = EnqueueAccepted(queue[s], Concrete(nextSequence, class)),
         delivered'[s] = delivered[s], accepted'[s] = accepted[s] \cup {nextSequence},
         nextSequence' = nextSequence + 1
  PROVE  /\ queue'[s] \in QueueType
         /\ queue'[s].eventCount = Cardinality(Events(queue'[s].entries))
         /\ QueueInv(s)'
  <1>1. /\ queue'[s] \in QueueType /\ ~queue'[s].closed
        /\ queue'[s].eventCount = Cardinality(Events(queue'[s].entries))
        /\ Enqueued(delivered[s], queue[s].entries, queue'[s].entries, accepted[s],
                    Concrete(nextSequence, class))
    BY QueueGets
  <1>2. Concrete(nextSequence, class).first = nextSequence
    BY DEF Concrete
  <1>3. Accounts(delivered[s] \o queue'[s].entries, accepted[s] \cup {nextSequence})
    BY <1>1, <1>2 DEF Enqueued
  <1>4. \A n \in accepted'[s] : n < nextSequence'
    <2>1. nextSequence \in Nat /\ accepted[s] \in SUBSET Nat
      BY Bound DEF TypeOK, Bound
    <2>2. QED
      BY <2>1 DEF QueueInv
  <1>5. QED
    BY <1>1, <1>3, <1>4 DEF QueueInv, Stream

LEMMA QueueEnds ==
  ASSUME TypeOK, NEW s \in Subscriptions, QueueInv(s), ~eventsClosed,
         queue'[s] = WithFinal(queue[s], Concrete(nextSequence, "Critical")),
         delivered'[s] = delivered[s], accepted'[s] = accepted[s] \cup {nextSequence},
         nextSequence' = nextSequence + 1, eventsClosed', final' = nextSequence
  PROVE  /\ queue'[s] \in QueueType
         /\ queue'[s].eventCount = Cardinality(Events(queue'[s].entries))
         /\ QueueInv(s)'
  <1> DEFINE e == Concrete(nextSequence, "Critical")
             after == EnqueueAccepted(queue[s], e)
  <1>1. /\ after \in QueueType /\ ~after.closed
        /\ after.eventCount = Cardinality(Events(after.entries))
        /\ Enqueued(delivered[s], queue[s].entries, after.entries, accepted[s], e)
    BY QueueGets
  <1>2. queue'[s] = [after EXCEPT !.closed = TRUE]
    BY DEF WithFinal
  <1>3. /\ queue'[s] \in QueueType /\ queue'[s].entries = after.entries
        /\ queue'[s].eventCount = after.eventCount
    <2> HIDE DEF after
    <2>1. QED
      BY <1>1, <1>2 DEF QueueType
  <1> HIDE DEF after
  <1>4. e.first = nextSequence /\ e.class = "Critical"
    BY DEF Concrete
  <1> HIDE DEF e
  <1>5. /\ after.entries \in Seq(Entries) /\ after.entries # <<>>
        /\ Last(after.entries) = e
        /\ Accounts(delivered[s] \o after.entries, accepted[s] \cup {nextSequence})
    BY <1>1, <1>4 DEF Enqueued
  <1>6. /\ delivered[s] \o after.entries # <<>>
        /\ Last(delivered[s] \o after.entries) = e
    BY <1>5, LastOfStream DEF TypeOK
  <1>7. \A n \in accepted'[s] : n < nextSequence'
    <2>1. nextSequence \in Nat /\ accepted[s] \in SUBSET Nat
      BY Bound DEF TypeOK, Bound
    <2>2. QED
      BY <2>1 DEF QueueInv
  <1>8. Stream(s)' = delivered[s] \o after.entries
    BY <1>3 DEF Stream
  <1>9. QueueInv(s)'
    <2>1. Concrete(final, "Critical")' = e
      BY DEF e, Concrete
    <2>2. QED
      BY <1>5, <1>6, <1>7, <1>8, <2>1 DEF QueueInv
  <1>10. QED
    BY <1>1, <1>3, <1>9

(* A reader that is not idle is at work on a subscription. *)
LEMMA BusyReader ==
  ASSUME TypeOK, NEW r \in Readers, reader[r].pc # "Idle"
  PROVE  /\ reader[r] \in [pc : {"Reading", "Waiting"}, sub : Subscriptions, mode : Modes]
         /\ reader[r].sub \in Subscriptions
  <1>1. reader[r] \in {Idle} \cup [pc : {"Reading", "Waiting"}, sub : Subscriptions,
                                  mode : Modes]
    BY DEF TypeOK
  <1>2. reader[r] # Idle
    BY DEF Idle
  <1>3. QED
    BY <1>1, <1>2

(* Who is woken reads; nobody else moves. *)
LEMMA WakeKeeps ==
  ASSUME TypeOK, NEW woken, Wake(woken),
         woken \subseteq {r \in Readers : reader[r].pc = "Waiting"}
  PROVE  /\ reader' \in [Readers -> {Idle} \cup [pc : {"Reading", "Waiting"},
                                              sub : Subscriptions, mode : Modes]]
         /\ \A r \in Readers : /\ reader'[r].pc = "Idle" <=> reader[r].pc = "Idle"
                               /\ reader[r].pc # "Idle" => reader'[r].sub = reader[r].sub
                               /\ reader'[r].pc = "Waiting" =>
                                    reader[r].pc = "Waiting" /\ r \notin woken
  <1> DEFINE Places == [pc : {"Reading", "Waiting"}, sub : Subscriptions, mode : Modes]
  <1>1. ASSUME NEW r \in Readers
        PROVE  /\ reader'[r] \in {Idle} \cup Places
               /\ reader'[r].pc = "Idle" <=> reader[r].pc = "Idle"
               /\ reader[r].pc # "Idle" => reader'[r].sub = reader[r].sub
               /\ reader'[r].pc = "Waiting" => reader[r].pc = "Waiting" /\ r \notin woken
    <2>0. reader[r] \in {Idle} \cup Places /\ Idle.pc = "Idle"
      BY DEF TypeOK, Idle
    <2>1. CASE r \in woken
      <3>1. reader[r] \in Places
        BY <2>0, <2>1
      <3>2. reader'[r] = [reader[r] EXCEPT !.pc = "Reading"]
        BY <2>1 DEF Wake
      <3>3. /\ reader'[r] \in Places /\ reader'[r].pc = "Reading"
            /\ reader'[r].sub = reader[r].sub
        BY <3>1, <3>2
      <3>4. QED
        BY <2>1, <3>1, <3>3
    <2>2. CASE r \notin woken
      <3>1. reader'[r] = reader[r]
        BY <2>2 DEF Wake
      <3>2. QED
        BY <2>0, <2>2, <3>1
    <2>3. QED
      BY <2>1, <2>2
  <1>2. reader' \in [Readers -> {Idle} \cup Places]
    BY <1>1 DEF Wake
  <1>3. QED
    BY <1>1, <1>2

(* A publication. *)
LEMMA PublishKeeps ==
  ASSUME Inv, NEW class \in {"Ordinary", "Critical"}, NEW passed \in SUBSET Live,
         Publish(class, passed)
  PROVE  Inv'
  <1> USE DEF Publish
  <1>0. /\ TypeOK /\ (\A s \in Subscriptions : QueueInv(s)) /\ ReaderInv /\ PhaseInv
        /\ ~eventsClosed /\ nextSequence \in Nat /\ nextSequence' = nextSequence + 1
        /\ MaxEvents \in Nat /\ nextSequence <= MaxEvents /\ nextSequence >= 1
    BY Bound DEF Inv, TypeOK, Bound
  <1>1. PICK woken \in OneOfEach(passed) : Wake(woken)
    OBVIOUS
  <1>2. woken \subseteq {r \in Readers : reader[r].pc = "Waiting"}
    BY <1>1 DEF OneOfEach, Asleep
  <1>3. /\ reader' \in [Readers -> {Idle} \cup [pc : {"Reading", "Waiting"},
                                              sub : Subscriptions, mode : Modes]]
        /\ \A r \in Readers : /\ reader'[r].pc = "Idle" <=> reader[r].pc = "Idle"
                              /\ reader[r].pc # "Idle" => reader'[r].sub = reader[r].sub
                              /\ reader'[r].pc = "Waiting" =>
                                    reader[r].pc = "Waiting" /\ r \notin woken
    BY <1>0, <1>1, <1>2, WakeKeeps
  <1>4. ASSUME NEW s \in Subscriptions
        PROVE  /\ queue'[s] \in QueueType
               /\ queue'[s].eventCount = Cardinality(Events(queue'[s].entries))
               /\ QueueInv(s)'
               /\ s \notin passed => queue'[s] = queue[s]
    <2>1. CASE s \in passed
      <3>1. /\ queue'[s] = EnqueueAccepted(queue[s], Concrete(nextSequence, class))
            /\ accepted'[s] = accepted[s] \cup {nextSequence} /\ delivered'[s] = delivered[s]
        BY <2>1
      <3>2. QED
        BY <1>0, <2>1, <3>1, QueueAccepts
    <2>2. CASE s \notin passed
      <3>1. /\ queue'[s] = queue[s] /\ accepted'[s] = accepted[s]
            /\ delivered'[s] = delivered[s] /\ final' = final /\ eventsClosed' = eventsClosed
        BY <2>2
      <3>2. QueueInv(s)'
        BY <1>0, <3>1, QueueKept
      <3>3. /\ queue[s] \in QueueType
            /\ queue[s].eventCount = Cardinality(Events(queue[s].entries))
        BY <1>0 DEF TypeOK, QueueType
      <3>4. QED
        BY <3>1, <3>2, <3>3
    <2>3. QED
      BY <2>1, <2>2
  <1>5. TypeOK'
    <2>1. queue' \in [Subscriptions -> QueueType]
      BY <1>4
    <2>2. nextSequence' \in 1..MaxEvents + 2
      BY <1>0
    <2>3. accepted' \in [Subscriptions -> SUBSET (1..MaxEvents + 1)]
      <3>1. nextSequence \in 1..MaxEvents + 1
        BY <1>0
      <3>2. QED
        BY <1>0, <3>1 DEF TypeOK
    <2>4. /\ admission' = admission /\ eventsClosed' = eventsClosed /\ status' = status
          /\ readerActive' = readerActive /\ delivered' = delivered /\ final' = final
      OBVIOUS
    <2>5. QED
      BY <1>0, <1>3, <1>4, <2>1, <2>2, <2>3, <2>4 DEF TypeOK, QueueType
  <1>6. ReaderInv'
    <2>1. status' = status /\ readerActive' = readerActive
      OBVIOUS
    <2>2. ASSUME NEW r \in Readers, reader'[r].pc # "Idle"
          PROVE  readerActive'[reader'[r].sub] /\ status'[reader'[r].sub] = "Live"
      BY <1>0, <1>3, <2>1, <2>2 DEF ReaderInv
    <2>3. ASSUME NEW r \in Readers, NEW t \in Readers, reader'[r].pc # "Idle",
                 reader'[t].pc # "Idle", reader'[r].sub = reader'[t].sub
          PROVE  r = t
      BY <1>0, <1>3, <2>3 DEF ReaderInv
    <2>4. ASSUME NEW r \in Readers, reader'[r].pc = "Waiting"
          PROVE  queue'[reader'[r].sub].entries = <<>> /\ ~queue'[reader'[r].sub].closed
      <3>1. /\ reader[r].pc = "Waiting" /\ r \notin woken /\ reader'[r].sub = reader[r].sub
        BY <1>3, <2>4
      <3>2. PICK s \in Subscriptions : s = reader[r].sub
        BY <1>0, <3>1, BusyReader
      <3>3. s \notin passed
        <4>1. SUFFICES ASSUME s \in passed PROVE FALSE
          OBVIOUS
        <4>2. Asleep(s) = {r}
          BY <1>0, <3>1, <3>2 DEF Asleep, ReaderInv
        <4>3. Cardinality(woken \cap Asleep(s)) = 1
          BY <1>1, <4>1, <4>2 DEF OneOfEach
        <4>4. woken \cap Asleep(s) = {}
          BY <3>1, <4>2
        <4>5. Cardinality(woken \cap Asleep(s)) = 0
          BY <4>4, FS_EmptySet
        <4>6. QED
          BY <4>3, <4>5
      <3>4. queue'[s] = queue[s]
        BY <1>4, <3>3
      <3>5. QED
        BY <1>0, <3>1, <3>2, <3>4 DEF ReaderInv
    <2>5. QED
      BY <2>2, <2>3, <2>4 DEF ReaderInv
  <1>7. PhaseInv'
    BY <1>0 DEF PhaseInv
  <1>8. QED
    BY <1>4, <1>5, <1>6, <1>7 DEF Inv

(* The final event. *)
LEMMA CloseEventsKeeps ==
  ASSUME Inv, CloseEvents
  PROVE  Inv'
  <1> USE DEF CloseEvents
  <1>0. /\ TypeOK /\ (\A s \in Subscriptions : QueueInv(s)) /\ ReaderInv /\ PhaseInv
        /\ ~eventsClosed /\ nextSequence \in Nat /\ nextSequence' = nextSequence + 1
        /\ MaxEvents \in Nat /\ nextSequence <= MaxEvents + 1 /\ nextSequence >= 1
        /\ eventsClosed' = TRUE /\ final' = nextSequence
    BY Bound DEF Inv, TypeOK, Bound, PhaseInv
  <1> DEFINE woken == All(Live)
  <1>1. Wake(woken)
    OBVIOUS
  <1>2. woken \subseteq {r \in Readers : reader[r].pc = "Waiting"}
    BY DEF All, Asleep
  <1>n. ASSUME NEW r \in Readers, reader[r].pc = "Waiting" PROVE r \in woken
    <2>1. reader[r].sub \in Live
      BY <1>0, <1>n DEF TypeOK, ReaderInv, Live, Idle
    <2>2. r \in Asleep(reader[r].sub)
      BY <1>n DEF Asleep
    <2>3. QED
      BY <2>1, <2>2 DEF All
  <1> HIDE DEF woken
  <1>3. /\ reader' \in [Readers -> {Idle} \cup [pc : {"Reading", "Waiting"},
                                              sub : Subscriptions, mode : Modes]]
        /\ \A r \in Readers : /\ reader'[r].pc = "Idle" <=> reader[r].pc = "Idle"
                              /\ reader[r].pc # "Idle" => reader'[r].sub = reader[r].sub
                              /\ reader'[r].pc = "Waiting" =>
                                    reader[r].pc = "Waiting" /\ r \notin woken
    BY <1>0, <1>1, <1>2, WakeKeeps
  <1>4. ASSUME NEW s \in Subscriptions
        PROVE  /\ queue'[s] \in QueueType
               /\ queue'[s].eventCount = Cardinality(Events(queue'[s].entries))
               /\ QueueInv(s)'
    <2>1. CASE s \in Live
      <3>1. /\ queue'[s] = WithFinal(queue[s], Concrete(nextSequence, "Critical"))
            /\ accepted'[s] = accepted[s] \cup {nextSequence} /\ delivered'[s] = delivered[s]
        BY <2>1
      <3>2. QED
        BY <1>0, <2>1, <3>1, QueueEnds
    <2>2. CASE s \notin Live
      <3>1. /\ queue'[s] = queue[s] /\ accepted'[s] = accepted[s]
            /\ delivered'[s] = delivered[s] /\ ~queue[s].closed
        BY <1>0, <2>2 DEF QueueInv
      <3>2. QueueInv(s)'
        <4>1. TypeOK /\ QueueInv(s) /\ nextSequence' \in Nat /\ nextSequence' >= nextSequence
          BY <1>0
        <4>2. QED
          BY <3>1, <4>1, QueueKept
      <3>3. /\ queue[s] \in QueueType
            /\ queue[s].eventCount = Cardinality(Events(queue[s].entries))
        BY <1>0 DEF TypeOK, QueueType
      <3>4. QED
        BY <3>1, <3>2, <3>3
    <2>3. QED
      BY <2>1, <2>2
  <1>5. TypeOK'
    <2>1. queue' \in [Subscriptions -> QueueType]
      BY <1>4
    <2>2. nextSequence' \in 1..MaxEvents + 2 /\ final' \in 0..MaxEvents + 1
      BY <1>0
    <2>3. accepted' \in [Subscriptions -> SUBSET (1..MaxEvents + 1)]
      <3>1. nextSequence \in 1..MaxEvents + 1
        BY <1>0
      <3>2. QED
        BY <1>0, <3>1 DEF TypeOK
    <2>4. /\ admission' = admission /\ status' = status
          /\ readerActive' = readerActive /\ delivered' = delivered
      OBVIOUS
    <2>5. QED
      BY <1>0, <1>3, <1>4, <2>1, <2>2, <2>3, <2>4 DEF TypeOK, QueueType
  <1>6. ReaderInv'
    <2>1. status' = status /\ readerActive' = readerActive
      OBVIOUS
    <2>2. ASSUME NEW r \in Readers, reader'[r].pc # "Idle"
          PROVE  readerActive'[reader'[r].sub] /\ status'[reader'[r].sub] = "Live"
      BY <1>0, <1>3, <2>1, <2>2 DEF ReaderInv
    <2>3. ASSUME NEW r \in Readers, NEW t \in Readers, reader'[r].pc # "Idle",
                 reader'[t].pc # "Idle", reader'[r].sub = reader'[t].sub
          PROVE  r = t
      BY <1>0, <1>3, <2>3 DEF ReaderInv
    <2>4. ASSUME NEW r \in Readers PROVE reader'[r].pc # "Waiting"
      BY <1>3, <1>n
    <2>5. QED
      BY <2>2, <2>3, <2>4 DEF ReaderInv
  <1>7. PhaseInv'
    BY <1>0 DEF PhaseInv
  <1>8. QED
    BY <1>4, <1>5, <1>6, <1>7 DEF Inv

(* Steps that leave every queue alone. *)
LEMMA QueuesKept ==
  ASSUME Inv, UNCHANGED <<eventsClosed, nextSequence, queue, delivered, accepted, final>>
  PROVE  (\A s \in Subscriptions : QueueInv(s)') /\ PhaseInv'
  <1>1. ASSUME NEW s \in Subscriptions PROVE QueueInv(s)'
    <2>1. TypeOK /\ QueueInv(s) /\ nextSequence' \in Nat /\ nextSequence' >= nextSequence
      BY Bound DEF Inv, TypeOK, Bound
    <2>2. QED
      BY <2>1, QueueKept
  <1>2. PhaseInv'
    BY DEF Inv, PhaseInv
  <1>3. QED
    BY <1>1, <1>2

(* Subscriptions come and go, and a close begins. *)
LEMMA SubscriptionsKeep ==
  ASSUME Inv, \/ SealAdmission
              \/ \E s \in Subscriptions : Subscribe(s) \/ Unsubscribe(s)
  PROVE  Inv'
  <1>0. TypeOK /\ ReaderInv
    BY DEF Inv
  <1>1. /\ UNCHANGED <<eventsClosed, nextSequence, queue, delivered, accepted, final>>
        /\ UNCHANGED <<readerActive, reader>>
    BY DEF SealAdmission, Subscribe, Unsubscribe
  <1>2. /\ admission' \in {"Active", "Closing"}
        /\ status' \in [Subscriptions -> {"None", "Live", "Dropped"}]
        /\ \A s \in Subscriptions : status[s] = "Live" /\ readerActive[s] => status'[s] = "Live"
    BY <1>0 DEF SealAdmission, Subscribe, Unsubscribe, TypeOK, Live
  <1>3. TypeOK'
    BY <1>0, <1>1, <1>2 DEF TypeOK
  <1>4. ReaderInv'
    <2>1. ASSUME NEW r \in Readers, reader[r].pc # "Idle"
          PROVE  readerActive[reader[r].sub] /\ status'[reader[r].sub] = "Live"
      <3>1. reader[r].sub \in Subscriptions
        BY <1>0, <2>1, BusyReader
      <3>2. QED
        BY <1>0, <1>2, <2>1, <3>1 DEF ReaderInv
    <2>2. QED
      BY <1>0, <1>1, <2>1 DEF ReaderInv
  <1>5. QED
    BY <1>1, <1>3, <1>4, QueuesKept DEF Inv

(* A reader begins to read, goes to sleep or returns without an entry. *)
LEMMA ReadKeeps ==
  ASSUME Inv, NEW r \in Readers, NEW s \in Subscriptions, NEW mode \in Modes,
         Read(r, s, mode)
  PROVE  Inv'
  <1>0. TypeOK /\ ReaderInv
    BY DEF Inv
  <1>1. /\ UNCHANGED <<eventsClosed, nextSequence, queue, delivered, accepted, final>>
        /\ UNCHANGED <<admission, status>>
        /\ reader[r].pc = "Idle" /\ status[s] = "Live" /\ readerActive[s] = FALSE
        /\ readerActive' = [readerActive EXCEPT ![s] = TRUE]
        /\ reader' = [reader EXCEPT ![r] = At("Reading", s, mode)]
    BY DEF Read, Live, Acquire, Idle
  <1>2. At("Reading", s, mode) \in [pc : {"Reading", "Waiting"}, sub : Subscriptions,
                                    mode : Modes]
    BY DEF At
  <1>3. TypeOK'
    <2>1. readerActive' \in [Subscriptions -> BOOLEAN]
      BY <1>0, <1>1 DEF TypeOK
    <2>2. reader' \in [Readers -> {Idle} \cup [pc : {"Reading", "Waiting"},
                                            sub : Subscriptions, mode : Modes]]
      BY <1>0, <1>1, <1>2 DEF TypeOK
    <2>3. QED
      BY <1>0, <1>1, <2>1, <2>2 DEF TypeOK
  <1>4. ASSUME NEW t \in Readers
        PROVE  reader'[t] = IF t = r THEN At("Reading", s, mode) ELSE reader[t]
    BY <1>0, <1>1 DEF TypeOK
  <1>5. ASSUME NEW x \in Subscriptions
        PROVE  readerActive'[x] = IF x = s THEN TRUE ELSE readerActive[x]
    BY <1>0, <1>1 DEF TypeOK
  <1>6. /\ At("Reading", s, mode).pc = "Reading" /\ At("Reading", s, mode).sub = s
    BY DEF At
  <1>7. ASSUME NEW t \in Readers, reader[t].pc # "Idle"
        PROVE  /\ reader[t].sub \in Subscriptions /\ reader[t].sub # s
               /\ readerActive[reader[t].sub] /\ status[reader[t].sub] = "Live"
    BY <1>0, <1>1, <1>7, BusyReader DEF ReaderInv
  <1>8. ReaderInv'
    <2>1. ASSUME NEW t \in Readers, reader'[t].pc # "Idle"
          PROVE  readerActive'[reader'[t].sub] /\ status'[reader'[t].sub] = "Live"
      <3>1. CASE t = r
        BY <1>1, <1>4, <1>5, <1>6, <3>1
      <3>2. CASE t # r
        <4>1. reader'[t] = reader[t] /\ reader[t].pc # "Idle"
          BY <1>4, <2>1, <3>2
        <4>2. QED
          BY <1>1, <1>5, <1>7, <4>1
      <3>3. QED
        BY <3>1, <3>2
    <2>2. ASSUME NEW t \in Readers, NEW u \in Readers, reader'[t].pc # "Idle",
                 reader'[u].pc # "Idle", reader'[t].sub = reader'[u].sub
          PROVE  t = u
      <3>1. CASE t = r \/ u = r
        BY <1>4, <1>6, <1>7, <2>2, <3>1
      <3>2. CASE t # r /\ u # r
        <4>1. reader'[t] = reader[t] /\ reader'[u] = reader[u]
          BY <1>4, <3>2
        <4>2. QED
          BY <1>0, <2>2, <4>1 DEF ReaderInv
      <3>3. QED
        BY <3>1, <3>2
    <2>3. ASSUME NEW t \in Readers, reader'[t].pc = "Waiting"
          PROVE  queue'[reader'[t].sub].entries = <<>> /\ ~queue'[reader'[t].sub].closed
      <3>1. reader'[t] = reader[t]
        BY <1>4, <1>6, <2>3
      <3>2. QED
        BY <1>0, <1>1, <2>3, <3>1 DEF ReaderInv
    <2>4. QED
      BY <2>1, <2>2, <2>3 DEF ReaderInv
  <1>9. QED
    BY <1>1, <1>3, <1>8, QueuesKept DEF Inv

(* A reader that returns gives its subscription up. *)
LEMMA ReturnKeeps ==
  ASSUME TypeOK, ReaderInv, NEW r \in Readers, reader[r].pc # "Idle", Return(r),
         UNCHANGED status,
         \A t \in Readers \ {r} : reader[t].pc = "Waiting" =>
            queue'[reader[t].sub] = queue[reader[t].sub]
  PROVE  /\ readerActive' \in [Subscriptions -> BOOLEAN]
         /\ reader' \in [Readers -> {Idle} \cup [pc : {"Reading", "Waiting"},
                                              sub : Subscriptions, mode : Modes]]
         /\ ReaderInv'
  <1>0. reader[r].sub \in Subscriptions
    BY BusyReader
  <1>1. ASSUME NEW t \in Readers PROVE reader'[t] = IF t = r THEN Idle ELSE reader[t]
    BY DEF TypeOK, Return
  <1>2. ASSUME NEW x \in Subscriptions
        PROVE  readerActive'[x] = IF x = reader[r].sub THEN FALSE ELSE readerActive[x]
    BY DEF TypeOK, Return
  <1>3. /\ readerActive' \in [Subscriptions -> BOOLEAN]
        /\ reader' \in [Readers -> {Idle} \cup [pc : {"Reading", "Waiting"},
                                             sub : Subscriptions, mode : Modes]]
    BY DEF TypeOK, Return
  <1>4. Idle.pc = "Idle"
    BY DEF Idle
  <1>5. ASSUME NEW t \in Readers, reader'[t].pc # "Idle"
        PROVE  t # r /\ reader'[t] = reader[t] /\ reader[t].pc # "Idle"
    BY <1>1, <1>4, <1>5
  <1>6. ReaderInv'
    <2>1. ASSUME NEW t \in Readers, reader'[t].pc # "Idle"
          PROVE  readerActive'[reader'[t].sub] /\ status'[reader'[t].sub] = "Live"
      <3>1. t # r /\ reader'[t] = reader[t] /\ reader[t].pc # "Idle"
        BY <1>5, <2>1
      <3>2. /\ reader[t].sub \in Subscriptions /\ reader[t].sub # reader[r].sub
            /\ readerActive[reader[t].sub] /\ status[reader[t].sub] = "Live"
        BY <3>1, BusyReader DEF ReaderInv
      <3>3. QED
        BY <1>2, <3>1, <3>2
    <2>2. ASSUME NEW t \in Readers, NEW u \in Readers, reader'[t].pc # "Idle",
                 reader'[u].pc # "Idle", reader'[t].sub = reader'[u].sub
          PROVE  t = u
      <3>1. /\ reader'[t] = reader[t] /\ reader[t].pc # "Idle"
            /\ reader'[u] = reader[u] /\ reader[u].pc # "Idle"
        BY <1>5, <2>2
      <3>2. QED
        BY <2>2, <3>1 DEF ReaderInv
    <2>3. ASSUME NEW t \in Readers, reader'[t].pc = "Waiting"
          PROVE  queue'[reader'[t].sub].entries = <<>> /\ ~queue'[reader'[t].sub].closed
      <3>1. t # r /\ reader'[t] = reader[t]
        BY <1>5, <2>3
      <3>2. queue'[reader[t].sub] = queue[reader[t].sub]
        BY <2>3, <3>1
      <3>3. QED
        BY <2>3, <3>1, <3>2 DEF ReaderInv
    <2>4. QED
      BY <2>1, <2>2, <2>3 DEF ReaderInv
  <1>7. QED
    BY <1>3, <1>6

(* A reader changes its place and keeps its subscription. *)
LEMMA PlaceKeeps ==
  ASSUME TypeOK, ReaderInv, NEW r \in Readers, reader[r].pc # "Idle",
         NEW p \in {"Reading", "Waiting"}, reader' = [reader EXCEPT ![r].pc = p],
         p = "Waiting" => /\ queue[reader[r].sub].entries = <<>>
                          /\ ~queue[reader[r].sub].closed,
         UNCHANGED <<status, readerActive, queue>>
  PROVE  /\ reader' \in [Readers -> {Idle} \cup [pc : {"Reading", "Waiting"},
                                              sub : Subscriptions, mode : Modes]]
         /\ ReaderInv'
  <1>0. reader[r] \in [pc : {"Reading", "Waiting"}, sub : Subscriptions, mode : Modes]
    BY BusyReader
  <1> DEFINE moved == [reader[r] EXCEPT !.pc = p]
  <1>1. /\ moved \in [pc : {"Reading", "Waiting"}, sub : Subscriptions, mode : Modes]
        /\ moved.pc = p /\ moved.sub = reader[r].sub
    BY <1>0
  <1>2. reader' = [reader EXCEPT ![r] = moved]
    OBVIOUS
  <1> HIDE DEF moved
  <1>3. reader' \in [Readers -> {Idle} \cup [pc : {"Reading", "Waiting"},
                                         sub : Subscriptions, mode : Modes]]
    BY <1>1, <1>2 DEF TypeOK
  <1>4. ASSUME NEW t \in Readers PROVE reader'[t] = IF t = r THEN moved ELSE reader[t]
    BY <1>2 DEF TypeOK
  <1>5. ASSUME NEW t \in Readers, reader'[t].pc # "Idle"
        PROVE  reader[t].pc # "Idle" /\ reader'[t].sub = reader[t].sub
    BY <1>1, <1>4, <1>5
  <1>6. ReaderInv'
    <2>1. ASSUME NEW t \in Readers, reader'[t].pc # "Idle"
          PROVE  readerActive'[reader'[t].sub] /\ status'[reader'[t].sub] = "Live"
      BY <1>5, <2>1 DEF ReaderInv
    <2>2. ASSUME NEW t \in Readers, NEW u \in Readers, reader'[t].pc # "Idle",
                 reader'[u].pc # "Idle", reader'[t].sub = reader'[u].sub
          PROVE  t = u
      BY <1>5, <2>2 DEF ReaderInv
    <2>3. ASSUME NEW t \in Readers, reader'[t].pc = "Waiting"
          PROVE  queue'[reader'[t].sub].entries = <<>> /\ ~queue'[reader'[t].sub].closed
      <3>1. CASE t = r
        BY <1>1, <1>4, <2>3, <3>1
      <3>2. CASE t # r
        <4>1. reader'[t] = reader[t]
          BY <1>4, <3>2
        <4>2. QED
          BY <2>3, <4>1 DEF ReaderInv
      <3>3. QED
        BY <3>1, <3>2
    <2>4. QED
      BY <2>1, <2>2, <2>3 DEF ReaderInv
  <1>7. QED
    BY <1>3, <1>6

LEMMA TakeEntryKeeps ==
  ASSUME Inv, NEW r \in Readers, TakeEntry(r)
  PROVE  Inv'
  <1>0. TypeOK /\ (\A s \in Subscriptions : QueueInv(s)) /\ ReaderInv /\ PhaseInv
        /\ reader[r].pc = "Reading" /\ Return(r)
        /\ UNCHANGED <<admission, eventsClosed, nextSequence, status, accepted, final>>
    BY DEF Inv, TakeEntry
  <1>1. PICK s \in Subscriptions : s = reader[r].sub
    BY <1>0, BusyReader
  <1> DEFINE q == queue[s].entries
             d == delivered[s]
  <1>2. /\ q # <<>>
        /\ queue' = [queue EXCEPT ![s].entries = Tail(q), ![s].eventCount = StillQueued(q, @)]
        /\ delivered' = [delivered EXCEPT ![s] = Append(@, Head(q))]
    BY <1>1 DEF TakeEntry
  <1>3. /\ queue[s] \in QueueType /\ q \in Seq(Entries) /\ d \in Seq(Entries)
        /\ queue[s].eventCount = Cardinality(Events(q)) /\ queue[s].closed \in BOOLEAN
        /\ queue[s].eventCount \in 0..Capacity /\ Capacity \in Nat
    BY <1>0, CapacityAssumption DEF TypeOK, QueueType, CapacityAssumption
  <1>4. Head(q) \in Entries /\ Tail(q) \in Seq(Entries)
    BY <1>2, <1>3, HeadTailProperties
  <1>5. Cardinality(Events(Tail(q))) = StillQueued(q, Cardinality(Events(q)))
    <2>1. Accounts(d \o q, accepted[s])
      BY <1>0 DEF QueueInv, Stream
    <2>2. InOrder(q) /\ \A k \in 1..Len(q) : Sound(q[k], accepted[s])
      BY <1>3, <2>1, BackInOrder
    <2> HIDE DEF q
    <2>3. QED
      BY <1>2, <1>3, <2>2, TakenCounts
  <1>6. Append(d, Head(q)) \o Tail(q) = d \o q
    <2> HIDE DEF q, d
    <2>1. QED
      BY <1>2, <1>3, TakenStays
  <1>7. StillQueued(q, queue[s].eventCount) \in 0..Capacity
    <2>1. IsFiniteSet(Events(Tail(q)))
      BY <1>4, EventsFinite
    <2>2. Cardinality(Events(Tail(q))) \in Nat
      BY <2>1, FS_CardinalityType
    <2>3. StillQueued(q, queue[s].eventCount) \in Nat
      BY <1>3, <1>5, <2>2
    <2>4. QED
      BY <1>3, <2>3 DEF StillQueued
  <1>8. ASSUME NEW x \in Subscriptions
        PROVE  /\ x # s => queue'[x] = queue[x] /\ delivered'[x] = delivered[x]
               /\ x = s => /\ queue'[x] = [entries |-> Tail(q),
                                           eventCount |-> StillQueued(q, queue[s].eventCount),
                                           closed |-> queue[s].closed]
                           /\ delivered'[x] = Append(d, Head(q))
    <2>0. queue \in [Subscriptions -> QueueType] /\ delivered \in [Subscriptions -> Seq(Entries)]
      BY <1>0 DEF TypeOK, QueueType
    <2>1. CASE x # s
      BY <1>2, <2>0, <2>1
    <2>2. CASE x = s
      <3>1. delivered'[s] = Append(d, Head(q))
        BY <1>2, <2>0
      <3>2. queue'[s] = [queue[s] EXCEPT !.entries = Tail(q), !.eventCount = StillQueued(q, @)]
        BY <1>2, <2>0
      <3>3. queue'[s] = [entries |-> Tail(q),
                         eventCount |-> StillQueued(q, queue[s].eventCount),
                         closed |-> queue[s].closed]
        BY <1>3, <3>2 DEF QueueType
      <3>4. QED
        BY <2>2, <3>1, <3>3
    <2>3. QED
      BY <2>1, <2>2
  <1> HIDE DEF q, d
  <1>a. /\ queue'[s] = [entries |-> Tail(q), eventCount |-> StillQueued(q, queue[s].eventCount),
                        closed |-> queue[s].closed]
        /\ delivered'[s] = Append(d, Head(q))
    BY <1>8
  <1>9. queue'[s] \in QueueType /\ queue'[s].eventCount = Cardinality(Events(queue'[s].entries))
    BY <1>3, <1>4, <1>5, <1>7, <1>a DEF QueueType
  <1>10. /\ readerActive' \in [Subscriptions -> BOOLEAN]
         /\ reader' \in [Readers -> {Idle} \cup [pc : {"Reading", "Waiting"},
                                              sub : Subscriptions, mode : Modes]]
         /\ ReaderInv'
    <2>1. ASSUME NEW t \in Readers \ {r}, reader[t].pc = "Waiting"
          PROVE  queue'[reader[t].sub] = queue[reader[t].sub]
      <3>1. reader[t].sub \in Subscriptions
        BY <1>0, <2>1, BusyReader
      <3>2. reader[t].sub # s
        BY <1>0, <1>1, <2>1 DEF ReaderInv
      <3>3. QED
        BY <1>8, <3>1, <3>2
    <2>2. QED
      BY <1>0, <2>1, ReturnKeeps
  <1>11. TypeOK'
    <2>1. queue' \in [Subscriptions -> QueueType]
      BY <1>0, <1>2, <1>8, <1>9 DEF TypeOK, QueueType
    <2>2. delivered' \in [Subscriptions -> Seq(Entries)]
      <3>1. Append(d, Head(q)) \in Seq(Entries)
        BY <1>3, <1>4, AppendProperties
      <3>2. QED
        BY <1>0, <1>2, <3>1 DEF TypeOK, d
    <2>3. \A x \in Subscriptions : queue'[x].eventCount = Cardinality(Events(queue'[x].entries))
      BY <1>0, <1>8, <1>9 DEF TypeOK
    <2>4. QED
      BY <1>0, <1>10, <2>1, <2>2, <2>3 DEF TypeOK, QueueType
  <1>12. ASSUME NEW x \in Subscriptions PROVE QueueInv(x)'
    <2>1. CASE x # s
      <3>1. queue'[x] = queue[x] /\ delivered'[x] = delivered[x]
        BY <1>8, <2>1
      <3>2. nextSequence' \in Nat /\ nextSequence' >= nextSequence
        BY <1>0, Bound DEF TypeOK, Bound
      <3>3. QED
        BY <1>0, <3>1, <3>2, QueueKept
    <2>2. CASE x = s
      <3>1. Stream(s)' = Stream(s) /\ queue'[s].closed = queue[s].closed
        <4>1. queue'[s].entries = Tail(q) /\ queue'[s].closed = queue[s].closed
          BY <1>a
        <4>2. QED
          BY <1>6, <1>a, <4>1 DEF Stream, q, d
      <3>2. QueueInv(s)
        BY <1>0
      <3>3. QED
        BY <1>0, <2>2, <3>1, <3>2 DEF QueueInv
    <2>3. QED
      BY <2>1, <2>2
  <1>13. PhaseInv'
    BY <1>0 DEF PhaseInv
  <1>14. QED
    BY <1>10, <1>11, <1>12, <1>13 DEF Inv

(* The other steps of a reader. *)
LEMMA ReaderStepsKeep ==
  ASSUME Inv, NEW r \in Readers, ReturnEmpty(r) \/ Wait(r) \/ WaitEnds(r)
  PROVE  Inv'
  <1>0. TypeOK /\ ReaderInv
    BY DEF Inv
  <1>1. /\ UNCHANGED <<eventsClosed, nextSequence, queue, delivered, accepted, final>>
        /\ UNCHANGED <<admission, status>> /\ reader[r].pc # "Idle"
    BY DEF ReturnEmpty, Wait, WaitEnds
  <1>2. CASE Return(r)
    <2>1. /\ readerActive' \in [Subscriptions -> BOOLEAN]
          /\ reader' \in [Readers -> {Idle} \cup [pc : {"Reading", "Waiting"},
                                              sub : Subscriptions, mode : Modes]]
          /\ ReaderInv'
      BY <1>0, <1>1, <1>2, ReturnKeeps
    <2>2. TypeOK'
      BY <1>0, <1>1, <2>1 DEF TypeOK
    <2>3. QED
      BY <1>1, <2>1, <2>2, QueuesKept DEF Inv
  <1>3. ASSUME NEW p \in {"Reading", "Waiting"}, reader' = [reader EXCEPT ![r].pc = p],
               p = "Waiting" => /\ queue[reader[r].sub].entries = <<>>
                                /\ ~queue[reader[r].sub].closed,
               readerActive' = readerActive
        PROVE  Inv'
    <2>1. /\ reader' \in [Readers -> {Idle} \cup [pc : {"Reading", "Waiting"},
                                              sub : Subscriptions, mode : Modes]]
          /\ ReaderInv'
      BY <1>0, <1>1, <1>3, PlaceKeeps
    <2>2. TypeOK'
      BY <1>0, <1>1, <1>3, <2>1 DEF TypeOK
    <2>3. QED
      BY <1>1, <2>1, <2>2, QueuesKept DEF Inv
  <1>4. CASE ReturnEmpty(r)
    BY <1>2, <1>4 DEF ReturnEmpty
  <1>5. CASE Wait(r)
    BY <1>3, <1>5 DEF Wait
  <1>6. CASE WaitEnds(r)
    BY <1>2, <1>3, <1>6 DEF WaitEnds
  <1>7. QED
    BY <1>4, <1>5, <1>6

LEMMA InvNext == Inv /\ [Next]_vars => Inv'
  <1> SUFFICES ASSUME Inv, [Next]_vars PROVE Inv'
    OBVIOUS
  <1>1. CASE SealAdmission
    BY <1>1, SubscriptionsKeep
  <1>2. CASE CloseEvents
    BY <1>2, CloseEventsKeeps
  <1>3. ASSUME NEW class \in {"Ordinary", "Critical"}, NEW passed \in SUBSET Live,
               Publish(class, passed)
        PROVE  Inv'
    BY <1>3, PublishKeeps
  <1>4. ASSUME NEW s \in Subscriptions, Subscribe(s) \/ Unsubscribe(s)
        PROVE  Inv'
    BY <1>4, SubscriptionsKeep
  <1>5. ASSUME NEW r \in Readers, NEW s \in Subscriptions, NEW mode \in Modes,
               Read(r, s, mode)
        PROVE  Inv'
    BY <1>5, ReadKeeps
  <1>6. ASSUME NEW r \in Readers, ReaderStep(r)
        PROVE  Inv'
    BY <1>6, TakeEntryKeeps, ReaderStepsKeep DEF ReaderStep
  <1>7. ASSUME NEW r \in Readers, WaitEnds(r)
        PROVE  Inv'
    BY <1>7, ReaderStepsKeep
  <1>8. CASE UNCHANGED vars
    <2>1. UNCHANGED <<eventsClosed, nextSequence, queue, delivered, accepted, final>>
          /\ UNCHANGED <<admission, status, readerActive, reader>>
      BY <1>8 DEF vars
    <2>2. TypeOK' /\ ReaderInv'
      BY <2>1 DEF Inv, TypeOK, ReaderInv
    <2>3. QED
      BY <2>1, <2>2, QueuesKept DEF Inv
  <1>9. QED
    BY <1>1, <1>2, <1>3, <1>4, <1>5, <1>6, <1>7, <1>8 DEF Next

(* The inductive invariant holds in every reachable state. *)
THEOREM Invariance == Spec => []Inv
  BY InitInv, InvNext, PTL DEF Spec

(* Every reachable state has its shape, and event_count is the number of
   events queued, never more than the capacity.                            *)
THEOREM TypeCorrect == Spec => []TypeOK
  <1>1. Inv => TypeOK
    BY DEF Inv
  <1>2. QED
    BY <1>1, Invariance, PTL

(* What a subscriber got and will get is in order, and every event that
   passed its filter is in it once or counted by one gap; and the final
   event is its end.                                                       *)
THEOREM StreamsAccount == Spec => []StreamAccountsForEvents
  <1>1. Inv => StreamAccountsForEvents
    <2> SUFFICES ASSUME Inv, NEW s \in Subscriptions
                 PROVE  LET stream == Stream(s)
                        IN  /\ \A i \in 1..Len(stream) - 1 :
                                  stream[i].last < stream[i + 1].first
                            /\ \A i \in DOMAIN stream :
                                  /\ {stream[i].first, stream[i].last} \subseteq accepted[s]
                                  /\ stream[i].count = Cardinality(accepted[s] \cap
                                                         stream[i].first..stream[i].last)
                            /\ \A n \in accepted[s] : \E i \in DOMAIN stream :
                                  n \in stream[i].first..stream[i].last
                            /\ queue[s].closed => /\ final # 0 /\ stream # <<>>
                                                  /\ Last(stream) = Concrete(final, "Critical")
      BY DEF StreamAccountsForEvents
    <2> DEFINE stream == Stream(s)
    <2>1. QueueInv(s) /\ TypeOK /\ PhaseInv
      BY DEF Inv
    <2>2. stream \in Seq(Entries)
      BY <2>1, ConcatProperties DEF TypeOK, Stream
    <2> HIDE DEF stream
    <2>3. Accounts(stream, accepted[s])
      BY <2>1 DEF QueueInv, stream
    <2>4. DOMAIN stream = 1..Len(stream) /\ Len(stream) \in Nat
      BY <2>2, LenProperties
    <2>5. \A i \in 1..Len(stream) - 1 : stream[i].last < stream[i + 1].first
      <3>1. ASSUME NEW i \in 1..Len(stream) - 1 PROVE stream[i].last < stream[i + 1].first
        <4>1. i \in 1..Len(stream) /\ i + 1 \in 1..Len(stream) /\ i < i + 1
          BY <2>4
        <4>2. QED
          BY <2>3, <4>1 DEF Accounts, InOrder
      <3>2. QED
        BY <3>1
    <2>6. \A i \in DOMAIN stream :
             /\ {stream[i].first, stream[i].last} \subseteq accepted[s]
             /\ stream[i].count = Cardinality(accepted[s] \cap stream[i].first..stream[i].last)
      BY <2>3, <2>4 DEF Accounts, Sound
    <2>7. \A n \in accepted[s] : \E i \in DOMAIN stream : n \in stream[i].first..stream[i].last
      <3>1. ASSUME NEW n \in accepted[s]
            PROVE  \E i \in DOMAIN stream : n \in stream[i].first..stream[i].last
        <4>1. PICK i \in 1..Len(stream) : stream[i].first <= n /\ n <= stream[i].last
          BY <2>3 DEF Accounts, Covered
        <4>2. stream[i].first \in Nat /\ stream[i].last \in Nat
          BY <2>2, ElementOfSeq, EntryFields
        <4>3. n \in Nat
          BY <2>1, Bound DEF TypeOK, Bound
        <4>4. QED
          BY <2>4, <4>1, <4>2, <4>3
      <3>2. QED
        BY <3>1
    <2>8. queue[s].closed => /\ final # 0 /\ stream # <<>>
                             /\ Last(stream) = Concrete(final, "Critical")
      BY <2>1 DEF QueueInv, PhaseInv, stream
    <2>9. QED
      BY <2>5, <2>6, <2>7, <2>8 DEF stream
  <1>2. QED
    BY <1>1, Invariance, PTL

(* A reader sleeps only while its queue is empty and open. *)
THEOREM SleepersWait == Spec => []SleepersHaveNothingToRead
  <1>1. Inv => SleepersHaveNothingToRead
    BY DEF Inv, ReaderInv, SleepersHaveNothingToRead
  <1>2. QED
    BY <1>1, Invariance, PTL

(* Where the events of a stream are. *)
LEMMA EventsOfStream ==
  ASSUME NEW d \in Seq(Entries), NEW q \in Seq(Entries), NEW e \in Events(q)
  PROVE  e \in Events(d \o q)
  <1>1. PICK k \in 1..Len(q) : q[k] = e /\ e.class # "Gap"
    BY EventsAre
  <1>2. Len(d) \in Nat /\ Len(q) \in Nat
    BY LenProperties
  <1>3. /\ d \o q \in Seq(Entries) /\ Len(d \o q) = Len(d) + Len(q)
        /\ \A j \in 1..Len(d) + Len(q) :
             (d \o q)[j] = IF j <= Len(d) THEN d[j] ELSE q[j - Len(d)]
    BY ConcatProperties
  <1>4. /\ Len(d) + k \in 1..Len(d) + Len(q) /\ ~(Len(d) + k <= Len(d))
        /\ (Len(d) + k) - Len(d) = k
    BY <1>2
  <1>5. (d \o q)[Len(d) + k] = e
    BY <1>1, <1>3, <1>4
  <1>6. QED
    BY <1>1, <1>3, <1>4, <1>5, EventsAre

(* A critical event is lost to a critical one only, as the oldest of a full
   queue of critical events.                                               *)
THEOREM CriticalsSpared == Spec => CriticalsDisplaceOrdinary
  <1> DEFINE Spared(s, n) ==
        /\ Cardinality(Events(queue[s].entries)) = Capacity
        /\ \A e \in Events(queue[s].entries) : e.class = "Critical" /\ n <= e.first
        /\ Last(queue[s].entries').class = "Critical"
  <1>1. ASSUME Inv, Next, NEW s \in Subscriptions, NEW n \in Lost(s)
        PROVE  Spared(s, n)
    <2>0. TypeOK /\ QueueInv(s)
      BY <1>1 DEF Inv
    <2>1. PICK e \in Events(queue[s].entries) : e.class = "Critical" /\ e.first = n
      BY DEF Lost
    <2>2. \A x \in Events(Stream(s)') : x.first # n
      BY DEF Lost
    <2>3. /\ queue[s] \in QueueType /\ queue[s].entries \in Seq(Entries)
          /\ delivered[s] \in Seq(Entries)
      BY <2>0 DEF TypeOK, QueueType
    <2>4. Stream(s)' # Stream(s)
      <3>1. e \in Events(Stream(s))
        BY <2>1, <2>3, EventsOfStream DEF Stream
      <3>2. QED
        BY <2>1, <2>2, <3>1
    <2>5. ASSUME NEW class \in {"Ordinary", "Critical"}, ~eventsClosed,
                 queue'[s].entries
                   = EnqueueAccepted(queue[s], Concrete(nextSequence, class)).entries,
                 delivered'[s] = delivered[s]
          PROVE  Spared(s, n)
      <3>1. /\ EnqueueAccepted(queue[s], Concrete(nextSequence, class)) \in QueueType
            /\ Enqueued(delivered[s], queue[s].entries, queue'[s].entries, accepted[s],
                        Concrete(nextSequence, class))
        BY <2>0, <2>5, QueueGets
      <3>2. e \notin Events(queue'[s].entries)
        <4>1. SUFFICES ASSUME e \in Events(queue'[s].entries) PROVE FALSE
          OBVIOUS
        <4>2. queue'[s].entries \in Seq(Entries)
          BY <3>1 DEF Enqueued
        <4>3. e \in Events(delivered[s] \o queue'[s].entries)
          BY <2>3, <4>1, <4>2, EventsOfStream
        <4>4. Stream(s)' = delivered[s] \o queue'[s].entries
          BY <2>5 DEF Stream
        <4>5. QED
          BY <2>1, <2>2, <4>3, <4>4
      <3>3. OldestOfCriticals(queue[s].entries, queue'[s].entries, e)
        BY <2>1, <3>1, <3>2 DEF Enqueued
      <3>4. QED
        BY <2>1, <3>3 DEF OldestOfCriticals
    <2>6. CASE \E class \in {"Ordinary", "Critical"}, passed \in SUBSET Live :
                 Publish(class, passed)
      <3>1. PICK class \in {"Ordinary", "Critical"}, passed \in SUBSET Live :
                 Publish(class, passed)
        BY <2>6
      <3>2. ~eventsClosed /\ delivered' = delivered
            /\ queue'[s] = IF s \in passed
                           THEN EnqueueAccepted(queue[s], Concrete(nextSequence, class))
                           ELSE queue[s]
        BY <3>1 DEF Publish
      <3>3. s \in passed
        BY <2>4, <3>2 DEF Stream
      <3>4. QED
        BY <2>5, <3>2, <3>3
    <2>7. CASE CloseEvents
      <3>1. ~eventsClosed /\ delivered' = delivered
            /\ queue'[s] = IF s \in Live
                           THEN WithFinal(queue[s], Concrete(nextSequence, "Critical"))
                           ELSE queue[s]
        BY <2>7 DEF CloseEvents
      <3>2. s \in Live
        BY <2>4, <3>1 DEF Stream
      <3>3. EnqueueAccepted(queue[s], Concrete(nextSequence, "Critical")) \in QueueType
        BY <2>0, <3>1, QueueGets
      <3>4. queue'[s].entries
              = EnqueueAccepted(queue[s], Concrete(nextSequence, "Critical")).entries
        BY <3>1, <3>2, <3>3 DEF WithFinal, QueueType
      <3>5. QED
        BY <2>5, <3>1, <3>4
    <2>8. ASSUME NEW r \in Readers, TakeEntry(r) PROVE FALSE
      <3>1. PICK t \in Subscriptions : t = reader[r].sub
        BY <2>0, <2>8, BusyReader DEF TakeEntry
      <3> DEFINE q == queue[t].entries
                 d == delivered[t]
      <3>2. /\ q # <<>>
            /\ queue' = [queue EXCEPT ![t].entries = Tail(q),
                                      ![t].eventCount = StillQueued(q, @)]
            /\ delivered' = [delivered EXCEPT ![t] = Append(@, Head(q))]
        BY <2>8, <3>1 DEF TakeEntry
      <3>3. t = s
        BY <2>0, <2>4, <3>2 DEF Stream, TypeOK
      <3>4. queue'[s].entries = Tail(q) /\ delivered'[s] = Append(d, Head(q))
        <4>1. queue \in [Subscriptions -> QueueType] /\ DOMAIN delivered = Subscriptions
          BY <2>0 DEF TypeOK, QueueType
        <4>2. queue'[s] = [queue[s] EXCEPT !.entries = Tail(q),
                                           !.eventCount = StillQueued(q, @)]
          BY <3>2, <3>3, <4>1
        <4>3. QED
          BY <2>3, <3>2, <3>3, <4>1, <4>2 DEF QueueType
      <3>5. Append(d, Head(q)) \o Tail(q) = d \o q
        BY <2>3, <3>2, <3>3, TakenStays
      <3>6. Stream(s)' = Stream(s)
        BY <3>3, <3>4, <3>5 DEF Stream
      <3>7. QED
        BY <2>4, <3>6
    <2>9. ASSUME UNCHANGED <<queue, delivered>> PROVE FALSE
      BY <2>4, <2>9 DEF Stream
    <2>10. QED
      BY <1>1, <2>6, <2>7, <2>8, <2>9
         DEF Next, SealAdmission, Subscribe, Unsubscribe, Read, ReaderStep, ReturnEmpty, Wait,
             WaitEnds
  <1>2. ASSUME Inv, [Next]_vars
        PROVE  [\A s \in Subscriptions : \A n \in Lost(s) : Spared(s, n)]_vars
    <2> HIDE DEF Spared
    <2>1. QED
      BY <1>1, <1>2
  <1>3. QED
    BY <1>2, Invariance, PTL DEF Spec, CriticalsDisplaceOrdinary
=============================================================================
