------------------------- MODULE Concurrency_proofs -------------------------
(***************************************************************************)
(* Theorems about the locks, the ring buffer and the message broker, each  *)
(* about the component by itself, for any threads, any capacity, any items *)
(* and any subscribers.                                                    *)
(***************************************************************************)
EXTENDS MCConcurrency, FiniteSetTheorems, SequenceTheorems, TLAPS

(***************************************************************************)
(* ReadWriteLock, for any finite set of threads and with or without writer *)
(* preference.                                                             *)
(*                                                                         *)
(* Exclusion is not inductive: a step looks at readers and writerActive    *)
(* only, so it has to be known that they are the counts of the threads.    *)
(***************************************************************************)

USE ThreadsAssumption, PreferenceAssumption

Pending == {t \in Threads : WritesPending(t)}

LockInv ==
  /\ pc \in [Threads -> Place] /\ writerActive \in BOOLEAN
  /\ CountsExact
  /\ Exclusion
  /\ WritersSleepForAReason

-----------------------------------------------------------------------------
(* Sets of threads and their numbers.                                      *)

\* Every set of threads is finite, and has a number of members.
LEMMA Finite == \A S \in SUBSET Threads :
                  IsFiniteSet(S) /\ Cardinality(S) \in Nat
BY FS_Subset, FS_CardinalityType

\* The number of a set that gains a thread.
LEMMA Gains == ASSUME NEW S \in SUBSET Threads, NEW t \in Threads, t \notin S
               PROVE  Cardinality(S \cup {t}) = Cardinality(S) + 1
BY Finite, FS_AddElement

\* The number of a set that loses a thread.
LEMMA Loses == ASSUME NEW S \in SUBSET Threads, NEW t \in S
               PROVE  Cardinality(S \ {t}) = Cardinality(S) - 1
BY Finite, FS_RemoveElement

\* A number is zero when there is nobody.
LEMMA Nobody == \A S \in SUBSET Threads : Cardinality(S) = 0 <=> S = {}
BY Finite, FS_EmptySet

\* Two places of all threads that differ in whether a thread sleeps only.
Same(p, q) ==
  \A t \in Threads :
    /\ q[t] = "reading" <=> p[t] = "reading"
    /\ q[t] = "writing" <=> p[t] = "writing"
    /\ q[t] \in {"writeWait", "writeWoken"}
         <=> p[t] \in {"writeWait", "writeWoken"}

\* What notify_all does to the threads.
LEMMA WokenIs ==
  \A p \in [Threads -> Place] :
    /\ Woken(p) \in [Threads -> Place]
    /\ Same(p, Woken(p))
    /\ \A t \in Threads : Woken(p)[t] # "writeWait"
BY DEF Same, Woken, Place

-----------------------------------------------------------------------------
(* The invariant is inductive.                                             *)

LEMMA LockStart == Init => LockInv
<1> SUFFICES ASSUME Init PROVE LockInv
  OBVIOUS
<1>1. At("reading") = {} /\ At("writing") = {} /\ Pending = {}
  BY DEF Init, At, Pending, WritesPending
<1>2. CountsExact
  BY <1>1, FS_EmptySet DEF Init, CountsExact, Pending
<1> QED
  BY <1>2 DEF Init, LockInv, Place, Exclusion, WritersSleepForAReason

\* A reader that enters finds no writer.
LEMMA EnterReadKeeps ==
  ASSUME LockInv, NEW t \in Threads, EnterRead(t)
  PROVE  LockInv'
<1> USE DEF LockInv, EnterRead, Place
<1>1. ~writerActive /\ At("writing") = {}
  BY DEF CountsExact, ReadMustWait
<1>2. /\ At("reading")' = At("reading") \cup {t}
      /\ t \notin At("reading")
      /\ At("writing")' = At("writing")
      /\ Pending' = Pending
  BY DEF At, Pending, WritesPending
<1>3. readers' \in Nat /\ readers' > 0
  BY Finite DEF CountsExact, At
<1>4. CountsExact'
  BY <1>2, Gains DEF CountsExact, At, Pending
<1>5. Exclusion'
  BY <1>1, <1>2 DEF Exclusion, At
<1>6. WritersSleepForAReason'
  BY <1>3 DEF WritersSleepForAReason, WriteMustWait
<1> QED
  BY <1>4, <1>5, <1>6

\* A writer that enters finds nobody.
LEMMA EnterWriteKeeps ==
  ASSUME LockInv, NEW t \in Threads, EnterWrite(t)
  PROVE  LockInv'
<1> USE DEF LockInv, EnterWrite, Place
<1>1. ~writerActive /\ At("writing") = {} /\ At("reading") = {}
  BY Finite, Nobody DEF CountsExact, WriteMustWait, At
<1>2. /\ At("reading")' = At("reading")
      /\ At("writing")' = {t}
      /\ Pending' = Pending \ {t}
      /\ t \in Pending <=> pc[t] = "writeWoken"
  BY <1>1 DEF At, Pending, WritesPending
<1>3. writersWaiting' = Cardinality(Pending')
  <2>1. CASE pc[t] = "idle"
    BY <1>2, <2>1 DEF CountsExact, Pending
  <2>2. CASE pc[t] = "writeWoken"
    BY <1>2, <2>2, Loses DEF CountsExact, Pending
  <2> QED
    BY <2>1, <2>2
<1>4. CountsExact'
  BY <1>2, <1>3 DEF CountsExact, Pending
<1>5. Exclusion'
  BY <1>1, <1>2 DEF Exclusion, At
<1>6. WritersSleepForAReason'
  BY DEF WritersSleepForAReason, WriteMustWait
<1> QED
  BY <1>4, <1>5, <1>6

\* A thread that goes to sleep, and a reader that gives up, change no holder.
LEMMA WaitKeeps ==
  ASSUME LockInv, NEW t \in Threads,
         AwaitRead(t) \/ AwaitWrite(t) \/ ReadTimesOut(t)
  PROVE  LockInv'
<1> USE DEF LockInv, AwaitRead, AwaitWrite, ReadTimesOut, ReadsPending, Place
<1>1. /\ At("reading")' = At("reading")
      /\ At("writing")' = At("writing")
  BY DEF At
<1>2. writersWaiting' = Cardinality(Pending')
  <2>1. CASE AwaitRead(t) \/ ReadTimesOut(t)
    <3>1. Pending' = Pending
      BY <2>1 DEF Pending, WritesPending
    <3> QED
      BY <2>1, <3>1 DEF CountsExact, Pending
  <2>2. CASE AwaitWrite(t) /\ pc[t] = "idle"
    <3>1. Pending' = Pending \cup {t} /\ t \notin Pending
      BY <2>2 DEF Pending, WritesPending
    <3> QED
      BY <2>2, <3>1, Gains DEF CountsExact, Pending
  <2>3. CASE AwaitWrite(t) /\ pc[t] = "writeWoken"
    <3>1. Pending' = Pending
      BY <2>3 DEF Pending, WritesPending
    <3> QED
      BY <2>3, <3>1 DEF CountsExact, Pending
  <2> QED
    BY <2>1, <2>2, <2>3
<1>3. CountsExact'
  BY <1>1, <1>2 DEF CountsExact, Pending
<1>4. Exclusion'
  BY <1>1 DEF Exclusion, At
<1>5. WritersSleepForAReason'
  BY DEF WritersSleepForAReason, WriteMustWait
<1> QED
  BY <1>3, <1>4, <1>5

\* A writer that gives up is no longer counted.
LEMMA WriteTimesOutKeeps ==
  ASSUME LockInv, NEW t \in Threads, WriteTimesOut(t)
  PROVE  LockInv'
<1> USE DEF LockInv, WriteTimesOut, WritesPending, Place
<1>1. /\ At("reading")' = At("reading")
      /\ At("writing")' = At("writing")
      /\ Pending' = Pending \ {t}
      /\ t \in Pending
  BY DEF At, Pending
<1>2. CountsExact'
  BY <1>1, Loses DEF CountsExact, Pending
<1>3. Exclusion'
  BY <1>1 DEF Exclusion, At
<1>4. WritersSleepForAReason'
  BY DEF WritersSleepForAReason, WriteMustWait
<1> QED
  BY <1>2, <1>3, <1>4

\* The last reader that leaves wakes the writers; others leave a reader.
LEMMA ReleaseReadKeeps ==
  ASSUME LockInv, NEW t \in Threads, ReleaseRead(t)
  PROVE  LockInv'
<1> DEFINE left == [pc EXCEPT ![t] = "idle"]
<1>1. left \in [Threads -> Place]
  BY DEF LockInv, Place
<1>2. pc' = IF readers' = 0 THEN Woken(left) ELSE left
  BY DEF ReleaseRead
<1>3. readers' = 0 => \A u \in Threads : pc'[u] # "writeWait"
  <2> HIDE DEF left
  <2> QED
    BY <1>1, <1>2, WokenIs
<1>4. Same(left, pc') /\ pc' \in [Threads -> Place]
  <2> HIDE DEF left
  <2>1. Same(left, left)
    BY DEF Same
  <2> QED
    BY <1>1, <1>2, <2>1, WokenIs
<1> USE DEF LockInv, ReleaseRead
<1>5. /\ At("reading")' = At("reading") \ {t}
      /\ t \in At("reading")
      /\ At("writing")' = At("writing")
      /\ Pending' = Pending
  BY <1>4 DEF Same, At, Pending, WritesPending
<1>6. readers' = Cardinality(At("reading")') /\ readers' \in Nat
  BY <1>5, Loses, Finite DEF CountsExact, At
<1>7. CountsExact'
  BY <1>5, <1>6 DEF CountsExact, Pending
<1>8. Exclusion'
  BY <1>5 DEF Exclusion, At
<1>9. WritersSleepForAReason'
  <2>1. CASE readers' = 0
    BY <1>3, <2>1 DEF WritersSleepForAReason
  <2>2. CASE readers' # 0
    <3>1. readers' > 0
      <4> HIDE DEF LockInv, ReleaseRead
      <4> QED
        BY <1>6, <2>2
    <3> QED
      BY <3>1 DEF WritersSleepForAReason, WriteMustWait
  <2> QED
    BY <2>1, <2>2
<1> QED
  BY <1>4, <1>7, <1>8, <1>9

\* A writer that leaves leaves nobody, and wakes whoever waits.
LEMMA ReleaseWriteKeeps ==
  ASSUME LockInv, NEW t \in Threads, ReleaseWrite(t)
  PROVE  LockInv'
<1> DEFINE left == [pc EXCEPT ![t] = "idle"]
<1>1. left \in [Threads -> Place]
  BY DEF LockInv, Place
<1>2. pc' = Woken(left)
  BY DEF ReleaseWrite
<1>3. /\ Same(left, pc') /\ pc' \in [Threads -> Place]
      /\ \A u \in Threads : pc'[u] # "writeWait"
  <2> HIDE DEF left
  <2> QED
    BY <1>1, <1>2, WokenIs
<1> USE DEF LockInv, ReleaseWrite
<1>4. /\ At("reading")' = At("reading")
      /\ At("writing")' = {}
      /\ Pending' = Pending
  BY <1>3 DEF Same, At, Pending, WritesPending, Exclusion
<1>5. CountsExact'
  BY <1>4 DEF CountsExact, Pending
<1>6. Exclusion'
  BY <1>4 DEF Exclusion, At
<1>7. WritersSleepForAReason'
  BY <1>3 DEF WritersSleepForAReason
<1> QED
  BY <1>3, <1>5, <1>6, <1>7

LEMMA LockStep == LockInv /\ [Next]_lockVars => LockInv'
<1> SUFFICES ASSUME LockInv, [Next]_lockVars PROVE LockInv'
  OBVIOUS
<1>1. CASE UNCHANGED lockVars
  BY <1>1 DEF LockInv, lockVars, CountsExact, Exclusion,
              WritersSleepForAReason, At, WritesPending, WriteMustWait
<1>2. CASE Next
  <2>1. PICK t \in Threads :
          Acquire(t) \/ TimesOut(t) \/ ReleaseRead(t) \/ ReleaseWrite(t)
    BY <1>2 DEF Next
  <2> QED
    BY <2>1, EnterReadKeeps, EnterWriteKeeps, WaitKeeps, WriteTimesOutKeeps,
       ReleaseReadKeeps, ReleaseWriteKeeps DEF Acquire, TimesOut
<1> QED
  BY <1>1, <1>2

LEMMA LockInduction == Spec => []LockInv
BY LockStart, LockStep, PTL DEF Spec

-----------------------------------------------------------------------------
(* The theorems.                                                           *)

\* A thread that writes is alone, whatever the wake-ups and the time-outs.
THEOREM WritersExclude == Spec => []Exclusion
<1>1. LockInv => Exclusion
  BY DEF LockInv
<1> QED
  BY LockInduction, <1>1, PTL

\* A writer that sleeps has somebody to wait for: no wake-up is lost.
THEOREM WritersAreWoken == Spec => []WritersSleepForAReason
<1>1. LockInv => WritersSleepForAReason
  BY DEF LockInv
<1> QED
  BY LockInduction, <1>1, PTL

\* The counts on which every decision rests are those of the threads.
THEOREM Counts == Spec => []CountsExact
<1>1. LockInv => CountsExact
  BY DEF LockInv
<1> QED
  BY LockInduction, <1>1, PTL

-----------------------------------------------------------------------------
(***************************************************************************)
(* RingBuffer implements BoundedFifo, for any capacity and any items.      *)
(*                                                                         *)
(* The indices that are in use span less than the capacity, so they name   *)
(* different slots: the producer never writes where the consumer may read. *)
(* Between its check and its last step each side relies on the other not   *)
(* undoing what it checked: a pop only makes room, a push only fills.      *)
(***************************************************************************)

Spans ==
  /\ head \in Nat /\ tail \in Nat /\ tail <= head /\ head - tail < Capacity
  /\ sent \in Seq(Data) /\ Len(sent) = head
  /\ popped \in Seq(Data) /\ Len(popped) = tail

Contents ==
  /\ DOMAIN slot = 0 .. Capacity - 1
  /\ \A i \in tail .. head - 1 : slot[Index(i)] = sent[i + 1]

Pushing ==
  /\ producer.at \in {"idle", "write", "publish"}
  /\ producer.at # "idle" => /\ head - tail < Capacity - 1
                             /\ producer.data \in Data
  /\ producer.at = "publish" => slot[Index(head)] = producer.data

Popping ==
  /\ consumer.at \in {"idle", "read", "publish"}
  /\ consumer.at # "idle" => tail < head
  /\ consumer.at = "publish" => consumer.data = sent[tail + 1]

Fields ==
  /\ DOMAIN producer = {"at", "data"}
  /\ DOMAIN consumer = {"at", "data"}

RingInv == Spans /\ Contents /\ Pushing /\ Popping /\ Fields

-----------------------------------------------------------------------------
(* Remainders.                                                             *)

\* A remainder is a slot, and differs from the number by whole turns.
LEMMA Division ==
  ASSUME NEW c \in Nat \ {0}, NEW a \in Nat
  PROVE  /\ a % c \in 0 .. c - 1
         /\ a \div c \in Int
         /\ a = c * (a \div c) + (a % c)
OBVIOUS

\* Numbers less than a turn apart have different remainders.
LEMMA Apart ==
  ASSUME NEW c \in Nat \ {0}, NEW a \in Nat, NEW b \in Nat,
         a < b, b - a < c
  PROVE  a % c # b % c
<1> SUFFICES ASSUME a % c = b % c PROVE FALSE
  OBVIOUS
<1> DEFINE p == a \div c
           q == b \div c
<1>1. p \in Int /\ q \in Int /\ a = c * p + (a % c) /\ b = c * q + (b % c)
      /\ a % c \in Int
  BY Division
<1> HIDE DEF p, q
<1>2. b - a = c * (q - p)
  BY <1>1
<1>3. CASE q - p <= 0
  <2>1. c * (q - p) <= 0
    BY <1>1, <1>3
  <2> QED
    BY <1>2, <2>1
<1>4. CASE q - p >= 1
  <2>1. c * (q - p) >= c
    BY <1>1, <1>4
  <2> QED
    BY <1>2, <2>1
<1> QED
  BY <1>1, <1>3, <1>4

\* A whole turn leads back to the same slot.
LEMMA Turn ==
  ASSUME NEW c \in Nat \ {0}, NEW a \in Nat
  PROVE  (a + c) % c = a % c
<1> DEFINE p == a \div c
           q == (a + c) \div c
           r == a % c
           s == (a + c) % c
<1>1. /\ p \in Int /\ r \in 0 .. c - 1 /\ a = c * p + r
      /\ q \in Int /\ s \in 0 .. c - 1 /\ a + c = c * q + s
  BY Division
<1> HIDE DEF p, q, r, s
<1>2. c * (q - p - 1) = r - s
  BY <1>1
<1>3. CASE q - p - 1 <= -1
  <2>1. c * (q - p - 1) <= -c
    BY <1>1, <1>3
  <2> QED
    BY <1>1, <1>2, <2>1
<1>4. CASE q - p - 1 >= 1
  <2>1. c * (q - p - 1) >= c
    BY <1>1, <1>4
  <2> QED
    BY <1>1, <1>2, <2>1
<1>5. CASE q - p - 1 = 0
  <2>1. r = s
    BY <1>1, <1>2, <1>5
  <2> QED
    BY <2>1 DEF r, s
<1> QED
  BY <1>1, <1>3, <1>4, <1>5

-----------------------------------------------------------------------------
(* The invariant is inductive.                                             *)

LEMMA RingStart == ASSUME ParametersOK, InitRing PROVE RingInv
BY EmptySeq DEF ParametersOK, InitRing, RingInv, Spans, Contents, Pushing,
                Popping, Fields

\* A ring that is not full has a slot to spare, beside the one kept free.
LEMMA PushChecksKeeps ==
  ASSUME ParametersOK, RingInv, NEW d \in Data, PushChecks(d)
  PROVE  RingInv'
<1>1. /\ Capacity \in Nat \ {0} /\ head \in Nat /\ tail \in Nat
      /\ tail <= head /\ head - tail < Capacity
  BY DEF ParametersOK, RingInv, Spans
<1>2. head + 1 # tail + Capacity
  BY <1>1, Turn DEF PushChecks, Full, Index
<1>3. head - tail < Capacity - 1
  BY <1>1, <1>2
<1> QED
  BY <1>3 DEF PushChecks, RingInv, Spans, Contents, Pushing, Popping, Fields

\* The slot that is written is none of those in use.
LEMMA PushWritesKeeps ==
  ASSUME ParametersOK, RingInv, PushWrites
  PROVE  RingInv'
<1>1. /\ Capacity \in Nat \ {0} /\ head \in Nat /\ tail \in Nat
      /\ tail <= head /\ head - tail < Capacity
  BY DEF ParametersOK, RingInv, Spans
<1>2. Index(head) \in DOMAIN slot
  BY <1>1, Division DEF Index, RingInv, Contents
<1>3. ASSUME NEW i \in tail .. head - 1
      PROVE  slot'[Index(i)] = slot[Index(i)]
  <2>1. i \in Nat /\ i < head /\ head - i < Capacity
    BY <1>1
  <2>2. Index(i) # Index(head)
    BY <1>1, <2>1, Apart DEF Index
  <2>3. Index(i) \in DOMAIN slot
    BY <1>1, <2>1, Division DEF Index, RingInv, Contents
  <2> QED
    BY <2>2, <2>3 DEF PushWrites
<1>4. slot'[Index(head)] = producer.data /\ DOMAIN slot' = DOMAIN slot
  BY <1>2 DEF PushWrites
<1>5. Contents'
  BY <1>3, <1>4 DEF PushWrites, RingInv, Contents, Index
<1>6. Pushing'
  BY <1>4 DEF PushWrites, RingInv, Pushing, Fields, Index
<1> QED
  BY <1>5, <1>6 DEF PushWrites, RingInv, Spans, Popping, Fields

\* The item that becomes visible is the one that was written.
LEMMA PushPublishesKeeps ==
  ASSUME ParametersOK, RingInv, PushPublishes
  PROVE  RingInv'
<1>1. /\ Capacity \in Nat \ {0} /\ head \in Nat /\ tail \in Nat
      /\ tail <= head /\ head - tail < Capacity - 1
      /\ producer.data \in Data /\ slot[Index(head)] = producer.data
  BY DEF ParametersOK, RingInv, Spans, Pushing, PushPublishes
<1>2. /\ sent \in Seq(Data) /\ Len(sent) = head
      /\ sent' = Append(sent, producer.data) /\ head' = head + 1
      /\ UNCHANGED <<tail, slot, consumer, popped>>
      /\ producer' = [at |-> "idle", data |-> None]
  BY DEF RingInv, Spans, PushPublishes
<1>3. /\ sent' \in Seq(Data) /\ Len(sent') = head'
      /\ \A i \in 1 .. head : sent'[i] = sent[i]
      /\ sent'[head + 1] = producer.data
  BY <1>1, <1>2, AppendProperties
<1>4. Spans'
  BY <1>1, <1>2, <1>3 DEF RingInv, Spans
<1>5. Contents'
  <2> SUFFICES ASSUME NEW i \in tail .. head
               PROVE  slot[Index(i)] = sent'[i + 1]
    <3>1. tail' .. head' - 1 = tail .. head
      BY <1>1, <1>2
    <3> QED
      BY <1>2, <3>1 DEF RingInv, Contents, Index
  <2>1. CASE i = head
    BY <1>1, <1>3, <2>1
  <2>2. CASE i # head
    <3>1. i \in tail .. head - 1 /\ i + 1 \in 1 .. head
      BY <1>1, <2>2
    <3> QED
      BY <1>3, <3>1 DEF RingInv, Contents
  <2> QED
    BY <2>1, <2>2
<1>6. Pushing'
  BY <1>2 DEF Pushing
<1>7. Popping'
  BY <1>1, <1>2, <1>3 DEF RingInv, Popping
<1> QED
  BY <1>2, <1>4, <1>5, <1>6, <1>7 DEF RingInv, Fields

\* What is read is the oldest item: the producer does not touch its slot.
LEMMA PopKeeps ==
  ASSUME ParametersOK, RingInv, PopChecks \/ PopReads
  PROVE  RingInv'
<1>1. CASE PopChecks
  <2>1. tail < head
    BY <1>1 DEF PopChecks, Empty, RingInv, Spans
  <2> QED
    BY <1>1, <2>1 DEF PopChecks, RingInv, Spans, Contents, Pushing, Popping,
                      Fields
<1>2. CASE PopReads
  <2>1. tail \in tail .. head - 1
    BY <1>2 DEF PopReads, RingInv, Spans, Popping
  <2>2. slot[Index(tail)] = sent[tail + 1]
    BY <2>1 DEF RingInv, Contents
  <2> QED
    BY <1>2, <2>2 DEF PopReads, RingInv, Spans, Contents, Pushing, Popping,
                      Fields
<1> QED
  BY <1>1, <1>2

LEMMA PopPublishesKeeps ==
  ASSUME ParametersOK, RingInv, PopPublishes
  PROVE  RingInv'
<1>1. /\ head \in Nat /\ tail \in Nat /\ tail < head
      /\ consumer.data = sent[tail + 1] /\ sent \in Seq(Data)
      /\ Len(sent) = head /\ popped \in Seq(Data) /\ Len(popped) = tail
  BY DEF RingInv, Spans, Popping, PopPublishes
<1>2. consumer.data \in Data
  BY <1>1, ElementOfSeq
<1>3. popped' \in Seq(Data) /\ Len(popped') = tail + 1
  BY <1>1, <1>2, AppendProperties DEF PopPublishes
<1>4. Spans'
  BY <1>1, <1>3 DEF RingInv, Spans, PopPublishes, ParametersOK
<1> QED
  BY <1>1, <1>4 DEF PopPublishes, RingInv, Spans, Contents, Pushing, Popping,
                    Fields, ParametersOK

LEMMA RingStep ==
  ASSUME ParametersOK PROVE RingInv /\ [NextRing]_ringVars => RingInv'
<1>1. RingInv /\ UNCHANGED ringVars => RingInv'
  BY DEF ringVars, RingInv, Spans, Contents, Pushing, Popping, Fields
<1> QED
  BY <1>1, PushChecksKeeps, PushWritesKeeps, PushPublishesKeeps, PopKeeps,
     PopPublishesKeeps DEF NextRing, Produce, Consume

LEMMA RingInduction == ASSUME ParametersOK PROVE SpecRing => []RingInv
BY RingStart, RingStep, PTL DEF SpecRing

-----------------------------------------------------------------------------
\* A step hands an item in or out of the queue when it moves a counter, and
\* does nothing to the queue otherwise.
LEMMA StepsMap ==
  ASSUME ParametersOK, RingInv, [NextRing]_ringVars
  PROVE  [Fifo!Next]_<<sent, popped>>
<1>1. CASE PushPublishes
  <2>1. producer.data \in Data /\ head - tail < Capacity - 1
    BY <1>1 DEF RingInv, Pushing, PushPublishes
  <2>2. Fifo!Accept(producer.data)
    BY <1>1, <2>1 DEF RingInv, Spans, PushPublishes, Fifo!Accept
  <2> QED
    BY <2>1, <2>2 DEF Fifo!Next
<1>2. CASE PopPublishes
  <2>1. Fifo!HandOut
    BY <1>2 DEF RingInv, Spans, Popping, PopPublishes, Fifo!HandOut
  <2> QED
    BY <2>1 DEF Fifo!Next
<1>3. CASE \/ UNCHANGED ringVars \/ PushWrites \/ \E d \in Data : PushChecks(d)
           \/ PopChecks \/ PopReads
  BY <1>3 DEF ringVars, PushWrites, PushChecks, PopChecks, PopReads
<1> QED
  BY <1>1, <1>2, <1>3 DEF NextRing, Produce, Consume

\* The ring buffer is a queue: without a lock, whatever is pushed comes out
\* once and in order, and nothing that was not read is overwritten.
THEOREM RingIsAFifo == ASSUME ParametersOK PROVE SpecRing => ImplementsFifo
<1>1. InitRing => Fifo!Init
  BY DEF InitRing, Fifo!Init
<1>2. RingInv /\ [NextRing]_ringVars => [Fifo!Next]_<<sent, popped>>
  BY StepsMap
<1> QED
  BY RingInduction, <1>1, <1>2, PTL DEF SpecRing, ImplementsFifo, Fifo!Spec
-----------------------------------------------------------------------------
(***************************************************************************)
(* ReentrantLock.  Nesting spoils the count of readers, on which the       *)
(* exclusion of readers rests; that of writers among themselves rests on   *)
(* the flag alone, which a release lowers once per write: a thread that    *)
(* is recorded as the writer is not releasing, and nobody who has nested   *)
(* reads is the writer.                                                    *)
(***************************************************************************)

FlagUp ==
  /\ \A t \in Threads : place[t] = "writing" => active
  /\ \A t, u \in Threads : place[t] = "writing" /\ place[u] = "writing" => t = u

NestedInv ==
  /\ place \in [Threads -> Nested!Place]
  /\ held \in [Threads -> Nat]
  /\ FlagUp
  /\ \A t \in Threads : held[t] > 0 => place[t] = "reading"
  /\ writerThread # NoThread =>
       /\ writerThread \in Threads \ releasing
       /\ place[writerThread] = "writing"

\* notify_all moves nobody who holds the lock, and nobody to where it is held.
LEMMA NestedWoken ==
  \A p \in [Threads -> Nested!Place] :
    /\ Nested!Woken(p) \in [Threads -> Nested!Place]
    /\ \A t \in Threads : /\ Nested!Woken(p)[t] = "reading" <=> p[t] = "reading"
                          /\ Nested!Woken(p)[t] = "writing" <=> p[t] = "writing"
BY DEF Nested!Woken, Nested!Place

\* An acquisition makes a writer only when the flag is down, and moves nobody
\* who holds the lock.
LEMMA AcquireInnerKeeps ==
  ASSUME Nested!ParametersOK, NestedInv, NEW t \in Threads,
         Nested!AcquireInner(t)
  PROVE  NestedInv'
<1>1. /\ held[t] = 0 /\ t \notin releasing
      /\ UNCHANGED <<held, writerThread, releasing>>
  BY DEF Nested!AcquireInner
<1>2. /\ place[t] \notin {"reading", "writing"}
      /\ place' \in [Threads -> Nested!Place]
      /\ \A u \in Threads \ {t} : place'[u] = place[u]
      /\ \/ place'[t] # "writing" /\ active' = active
         \/ ~active /\ active' = TRUE
  BY DEF Nested!AcquireInner, Nested!Acquire, Nested!TimesOut,
         Nested!EnterRead, Nested!AwaitRead, Nested!EnterWrite,
         Nested!AwaitWrite, Nested!ReadTimesOut, Nested!WriteTimesOut,
         Nested!ReadsPending, Nested!WritesPending, Nested!WriteMustWait,
         Nested!Place, NestedInv
<1>3. FlagUp'
  BY <1>2 DEF NestedInv, FlagUp
<1> QED
  BY <1>1, <1>2, <1>3 DEF NestedInv

\* Recording an acquisition or the end of one moves nobody.
LEMMA RecordKeeps ==
  ASSUME Nested!ParametersOK, NestedInv, NEW t \in Threads,
         \/ Nested!ReadAgain(t) \/ Nested!RecordRead(t)
         \/ Nested!BeginReleaseRead(t)
         \/ Nested!RecordWrite(t) \/ Nested!BeginReleaseWrite(t)
  PROVE  NestedInv'
<1>1. place' = place /\ active' = active
  BY DEF Nested!ReadAgain, Nested!RecordRead, Nested!BeginReleaseRead,
         Nested!RecordWrite, Nested!BeginReleaseWrite, Nested!lockVars
<1>2. FlagUp'
  BY <1>1 DEF NestedInv, FlagUp
<1>3. CASE Nested!ReadAgain(t) \/ Nested!RecordRead(t)
  BY <1>1, <1>2, <1>3 DEF NestedInv, Nested!ReadAgain, Nested!RecordRead,
                          Nested!ParametersOK
<1>4. CASE Nested!BeginReleaseRead(t)
  BY <1>1, <1>2, <1>4 DEF NestedInv, Nested!BeginReleaseRead
<1>5. CASE Nested!RecordWrite(t) \/ Nested!BeginReleaseWrite(t)
  BY <1>1, <1>2, <1>5 DEF NestedInv, Nested!RecordWrite,
                          Nested!BeginReleaseWrite
<1> QED
  BY <1>3, <1>4, <1>5

\* A release takes away one holder at most; the writer lowers its own flag.
LEMMA EndReleaseKeeps ==
  ASSUME Nested!ParametersOK, NestedInv, NEW t \in Threads,
         Nested!EndReleaseRead(t) \/ Nested!EndReleaseWrite(t)
  PROVE  NestedInv'
<1> DEFINE out == [place EXCEPT ![t] = "idle"]
<1>1. out \in [Threads -> Nested!Place]
  BY DEF NestedInv, Nested!Place
<1>2. CASE Nested!EndReleaseRead(t)
  <2> DEFINE left == IF held[t] > 0 THEN place ELSE out
  <2>1. /\ place[t] = "reading" /\ releasing' = releasing \ {t}
        /\ UNCHANGED <<active, held, writerThread>>
        /\ place' = Nested!Woken(left) \/ place' = left
    BY <1>2 DEF Nested!EndReleaseRead
  <2>2. left \in [Threads -> Nested!Place]
    BY <1>1 DEF NestedInv
  <2>3. /\ \A u \in Threads : left[u] = "writing" <=> place[u] = "writing"
        /\ \A u \in Threads : held[u] > 0 => left[u] = "reading"
    BY <2>1 DEF NestedInv
  <2> HIDE DEF left
  <2>4. /\ place' \in [Threads -> Nested!Place]
        /\ \A u \in Threads : place'[u] = "writing" <=> left[u] = "writing"
        /\ \A u \in Threads : place'[u] = "reading" <=> left[u] = "reading"
    BY <2>1, <2>2, NestedWoken
  <2>5. \A u \in Threads : place'[u] = "writing" <=> place[u] = "writing"
    BY <2>3, <2>4
  <2>6. FlagUp'
    BY <2>1, <2>5 DEF NestedInv, FlagUp
  <2> QED
    BY <2>1, <2>3, <2>4, <2>5, <2>6 DEF NestedInv
<1>3. CASE Nested!EndReleaseWrite(t)
  <2>1. /\ t \in releasing /\ place[t] = "writing"
        /\ releasing' = releasing \ {t} /\ active' = FALSE
        /\ place' = Nested!Woken(out) /\ UNCHANGED <<held, writerThread>>
    BY <1>3 DEF Nested!EndReleaseWrite, Nested!ReleaseWrite
  <2>2. /\ \A u \in Threads \ {t} : place[u] # "writing"
        /\ writerThread = NoThread
    BY <2>1 DEF NestedInv, FlagUp
  <2>3. /\ \A u \in Threads : out[u] # "writing"
        /\ \A u \in Threads : held[u] > 0 => out[u] = "reading"
    BY <2>1, <2>2 DEF NestedInv
  <2> HIDE DEF out
  <2>4. /\ place' \in [Threads -> Nested!Place]
        /\ \A u \in Threads : place'[u] # "writing"
        /\ \A u \in Threads : held[u] > 0 => place'[u] = "reading"
    BY <1>1, <2>1, <2>3, NestedWoken
  <2>5. FlagUp'
    BY <2>4 DEF FlagUp
  <2> QED
    BY <2>1, <2>2, <2>4, <2>5 DEF NestedInv
<1> QED
  BY <1>2, <1>3

LEMMA NestedStep ==
  NestedInv /\ [Nested!NextReentrant]_(Nested!vars) => NestedInv'
<1> SUFFICES ASSUME NestedInv, [Nested!NextReentrant]_(Nested!vars)
             PROVE  NestedInv'
  OBVIOUS
<1>1. CASE UNCHANGED Nested!vars
  BY <1>1 DEF Nested!vars, Nested!lockVars, NestedInv, FlagUp
<1>2. CASE Nested!NextReentrant
  BY <1>2, NestedParameters, AcquireInnerKeeps, RecordKeeps, EndReleaseKeeps
     DEF Nested!NextReentrant
<1> QED
  BY <1>1, <1>2

\* Whatever nesting does to the count of readers, two writers never meet, and
\* who is recorded as the writer has the lock.
THEOREM WritersExcludeWriters == Nested!SpecReentrant => []OneWriter
<1>1. Nested!InitReentrant => NestedInv
  BY DEF Nested!InitReentrant, Nested!Init, NestedInv, FlagUp, Nested!Place
<1>2. NestedInv => OneWriter
  BY DEF NestedInv, FlagUp, OneWriter, Nested!OneWriter, Nested!At
<1> QED
  BY <1>1, NestedStep, <1>2, PTL DEF Nested!SpecReentrant

(***************************************************************************)
(* MessageBroker, for any messages, subscribers, loops and limits.         *)
(*                                                                         *)
(* A loop has served everybody before its place in its list, and the list  *)
(* keeps whoever was on it when the message was taken: subscribe appends   *)
(* to it and unsubscribe leaves it to the loop.                            *)
(***************************************************************************)

\* The least member of a set of natural numbers.
LEMMA Least ==
  ASSUME NEW T \in SUBSET Nat, T # {}
  PROVE  \E n \in T : \A k \in T : n <= k
<1>1. PICK n \in T : \A k \in T : ~(<<k, n>> \in OpToRel(<, Nat))
  BY NatLessThanWellFounded, WFMin
<1>2. ASSUME NEW k \in T PROVE n <= k
  <2>1. CASE k < n
    <3>1. <<k, n>> \in OpToRel(<, Nat)
      BY <2>1 DEF OpToRel
    <3> QED
      BY <1>1, <3>1
  <2>2. CASE ~(k < n)
    <3>1. k \in Nat /\ n \in Nat
      OBVIOUS
    <3> QED
      BY <2>2, <3>1
  <2> QED
    BY <2>1, <2>2
<1> QED
  BY <1>2

\* What is kept of a list up to each of its places.
Keeps(f, list, s, n) ==
  /\ f[0] = <<>>
  /\ \A i \in 1 .. n : f[i] = IF list[i] = s THEN f[i - 1]
                              ELSE Append(f[i - 1], list[i])

LEMMA KeptExists ==
  ASSUME NEW S, NEW list \in Seq(S), NEW s, NEW n \in 0 .. Len(list)
  PROVE  \E f \in [0 .. n -> Seq(S)] : Keeps(f, list, s, n)
<1> DEFINE Good(k) == \E f \in [0 .. k -> Seq(S)] : Keeps(f, list, s, k)
           Bad == {k \in 0 .. Len(list) : ~Good(k)}
<1>1. Len(list) \in Nat /\ <<>> \in Seq(S)
  BY LenProperties, EmptySeq
<1>2. Good(0)
  <2> DEFINE f == [i \in 0 .. 0 |-> <<>>]
  <2>1. f \in [0 .. 0 -> Seq(S)] /\ Keeps(f, list, s, 0)
    BY <1>1 DEF Keeps
  <2> QED
    BY <2>1
<1>3. ASSUME NEW k \in 0 .. Len(list) - 1, Good(k) PROVE Good(k + 1)
  <2>1. PICK f \in [0 .. k -> Seq(S)] : Keeps(f, list, s, k)
    BY <1>3
  <2> DEFINE last == IF list[k + 1] = s THEN f[k] ELSE Append(f[k], list[k + 1])
             g == [i \in 0 .. k + 1 |-> IF i = k + 1 THEN last ELSE f[i]]
  <2>2. k \in Nat /\ k + 1 \in 1 .. Len(list) /\ list[k + 1] \in S
    BY <1>1, ElementOfSeq
  <2>3. last \in Seq(S)
    BY <2>2, AppendProperties
  <2>4. g \in [0 .. k + 1 -> Seq(S)]
    BY <2>2, <2>3
  <2>5. Keeps(g, list, s, k + 1)
    <3>1. g[0] = <<>>
      BY <2>1, <2>2 DEF Keeps
    <3>2. ASSUME NEW i \in 1 .. k + 1
          PROVE  g[i] = IF list[i] = s THEN g[i - 1]
                        ELSE Append(g[i - 1], list[i])
      <4>1. CASE i = k + 1
        BY <2>2, <4>1
      <4>2. CASE i # k + 1
        <5>1. i \in 1 .. k /\ g[i] = f[i] /\ g[i - 1] = f[i - 1]
          BY <2>2, <4>2
        <5> QED
          BY <2>1, <5>1 DEF Keeps
      <4> QED
        BY <4>1, <4>2
    <3> QED
      BY <3>1, <3>2 DEF Keeps
  <2> QED
    BY <2>4, <2>5
<1> HIDE DEF Good
<1>4. Bad = {}
  <2> SUFFICES ASSUME Bad # {} PROVE FALSE
    OBVIOUS
  <2>0. Bad \in SUBSET Nat
    BY <1>1
  <2>1. PICK k \in Bad : \A j \in Bad : k <= j
    <3> HIDE DEF Bad
    <3> QED
      BY <2>0, Least
  <2>2. k # 0 /\ k \in 0 .. Len(list) /\ ~Good(k)
    BY <1>2
  <2>3. k - 1 \in 0 .. Len(list) - 1 /\ (k - 1) + 1 = k
    BY <1>1, <2>2
  <2>4. k - 1 \notin Bad
    BY <1>1, <2>1, <2>2
  <2>5. Good(k - 1)
    BY <1>1, <2>3, <2>4
  <2> QED
    BY <1>3, <2>2, <2>3, <2>5
<1>5. Good(n)
  BY <1>4
<1> QED
  BY <1>5 DEF Good

\* What is left of a list is a list of the same sort.
LEMMA WithoutIsAList ==
  ASSUME NEW S, NEW list \in Seq(S), NEW s
  PROVE  Broker!Without(list, s) \in Seq(S)
<1> DEFINE n == Len(list)
           Step(f) == [i \in 0 .. n |->
                         IF i = 0 THEN <<>>
                         ELSE IF list[i] = s THEN f[i - 1]
                              ELSE Append(f[i - 1], list[i])]
           kept == CHOOSE f : f = Step(f)
<1>1. Broker!Without(list, s) = kept[n]
  BY DEF Broker!Without
<1>2. n \in Nat
  BY LenProperties
<1>3. n \in 0 .. Len(list)
  BY <1>2
<1> HIDE DEF n, kept, Step
<1>4. PICK f \in [0 .. n -> Seq(S)] : Keeps(f, list, s, n)
  BY <1>3, KeptExists
<1>5. f = Step(f)
  <2>1. \A i \in 0 .. n : f[i] = IF i = 0 THEN <<>>
                                 ELSE IF list[i] = s THEN f[i - 1]
                                      ELSE Append(f[i - 1], list[i])
    <3> SUFFICES ASSUME NEW i \in 0 .. n
                 PROVE  f[i] = IF i = 0 THEN <<>>
                               ELSE IF list[i] = s THEN f[i - 1]
                                    ELSE Append(f[i - 1], list[i])
      OBVIOUS
    <3>1. CASE i = 0
      BY <1>4, <3>1 DEF Keeps
    <3>2. CASE i # 0
      <4>1. i \in 1 .. n
        BY <1>2, <3>2
      <4>2. f[i] = IF list[i] = s THEN f[i - 1] ELSE Append(f[i - 1], list[i])
        BY <1>4, <4>1 DEF Keeps
      <4> QED
        BY <3>2, <4>2
    <3> QED
      BY <3>1, <3>2
  <2> QED
    BY <2>1 DEF Step
<1>6. kept = Step(kept)
  BY <1>5 DEF kept
<1>7. \A i \in 0 .. n : kept[i] = f[i]
  <2> DEFINE Bad == {i \in 0 .. n : kept[i] # f[i]}
  <2> SUFFICES ASSUME Bad # {} PROVE FALSE
    OBVIOUS
  <2>0. Bad \in SUBSET Nat
    BY <1>2
  <2>1. PICK k \in Bad : \A j \in Bad : k <= j
    <3> HIDE DEF Bad
    <3> QED
      BY <2>0, Least
  <2>2. \A i \in 0 .. n : kept[i] = IF i = 0 THEN <<>>
                                    ELSE IF list[i] = s THEN kept[i - 1]
                                         ELSE Append(kept[i - 1], list[i])
    BY <1>6 DEF Step
  <2>3. \A i \in 0 .. n : f[i] = IF i = 0 THEN <<>>
                                 ELSE IF list[i] = s THEN f[i - 1]
                                      ELSE Append(f[i - 1], list[i])
    BY <1>5 DEF Step
  <2>4. k \in 1 .. n
    BY <1>2, <2>2, <2>3
  <2>5. k - 1 \in 0 .. n /\ k - 1 \notin Bad
    BY <1>2, <2>1, <2>4
  <2>6. kept[k - 1] = f[k - 1]
    BY <2>5
  <2> QED
    BY <1>2, <2>2, <2>3, <2>4, <2>6
<1> QED
  BY <1>1, <1>2, <1>4, <1>7

-----------------------------------------------------------------------------
(* What is in a sequence.                                                  *)

Among(w, x) == \E i \in 1 .. Len(w) : w[i] = x

Distinct(w) == \A i, j \in 1 .. Len(w) : w[i] = w[j] => i = j

LEMMA ToSetIs ==
  ASSUME NEW S, NEW w \in Seq(S)
  PROVE  /\ \A x : x \in Broker!ToSet(w) <=> Among(w, x)
         /\ Broker!ToSet(w) \subseteq S
<1>1. DOMAIN w = 1 .. Len(w) /\ \A i \in 1 .. Len(w) : w[i] \in S
  BY LenProperties, ElementOfSeq
<1> QED
  BY <1>1 DEF Broker!ToSet, Among

LEMMA AppendAdds ==
  ASSUME NEW S, NEW w \in Seq(S), NEW x \in S
  PROVE  /\ Append(w, x) \in Seq(S) /\ Len(Append(w, x)) = Len(w) + 1
         /\ \A i \in 1 .. Len(w) : Append(w, x)[i] = w[i]
         /\ \A y : Among(Append(w, x), y) <=> y = x \/ Among(w, y)
         /\ Distinct(w) /\ ~Among(w, x) => Distinct(Append(w, x))
<1> DEFINE v == Append(w, x)
<1>1. /\ v \in Seq(S) /\ Len(v) = Len(w) + 1 /\ v[Len(w) + 1] = x
      /\ \A i \in 1 .. Len(w) : v[i] = w[i]
  BY AppendProperties
<1>2. Len(w) \in Nat
  BY LenProperties
<1> HIDE DEF v
<1>3. ASSUME NEW y PROVE Among(v, y) <=> y = x \/ Among(w, y)
  BY <1>1, <1>2 DEF Among
<1>4. Distinct(w) /\ ~Among(w, x) => Distinct(v)
  BY <1>1, <1>2 DEF Distinct, Among
<1> QED
  BY <1>1, <1>3, <1>4 DEF v

LEMMA TailDrops ==
  ASSUME NEW S, NEW w \in Seq(S), w # << >>, Distinct(w)
  PROVE  /\ Tail(w) \in Seq(S) /\ Head(w) \in S /\ Among(w, Head(w))
         /\ Distinct(Tail(w))
         /\ \A y : Among(Tail(w), y) <=> Among(w, y) /\ y # Head(w)
<1> DEFINE v == Tail(w)
<1>1. /\ v \in Seq(S) /\ Len(v) = Len(w) - 1
      /\ Head(w) \in S /\ Head(w) = w[1]
      /\ \A i \in 1 .. Len(v) : v[i] = w[i + 1]
  BY HeadTailProperties
<1>2. Len(w) \in Nat /\ Len(w) # 0
  BY LenProperties, EmptySeq
<1> HIDE DEF v
<1>3. Distinct(v)
  BY <1>1, <1>2 DEF Distinct
<1>4. ASSUME NEW y, Among(v, y) PROVE Among(w, y) /\ y # Head(w)
  BY <1>1, <1>2, <1>4 DEF Among, Distinct
<1>5. ASSUME NEW y, Among(w, y), y # Head(w) PROVE Among(v, y)
  <2>1. PICK i \in 1 .. Len(w) : w[i] = y
    BY <1>5 DEF Among
  <2>2. i - 1 \in 1 .. Len(v) /\ v[i - 1] = y
    BY <1>1, <1>2, <1>5, <2>1
  <2> QED
    BY <2>2 DEF Among
<1>6. Among(w, Head(w))
  BY <1>1, <1>2 DEF Among
<1> QED
  BY <1>1, <1>3, <1>4, <1>5, <1>6 DEF v

-----------------------------------------------------------------------------
Routing == [at : {"none", "waiting", "routing", "ended"},
            message : Messages \cup {NoMessage}, list : Seq(Subscribers),
            next : Nat \ {0}, live : BOOLEAN]

BrokerTypes ==
  /\ publishing \in [Messages -> {"new", "putting", "accepted", "rejected"}]
  /\ queue \in Seq(Messages)
  /\ subscribers \in Seq(Subscribers)
  /\ loop \in [Loops -> Routing]
  /\ received \in [Subscribers -> Seq(Messages)]
  /\ owed \in [Messages -> SUBSET Subscribers]

\* A message is in one place: with its publisher, in the queue once, with one
\* loop, or gone.
OnePlace ==
  /\ Distinct(queue)
  /\ \A m \in Messages : Among(queue, m) => publishing[m] = "accepted"
  /\ \A l \in Loops : loop[l].message # NoMessage <=> loop[l].at = "routing"
  /\ \A l \in Loops : loop[l].at = "routing" =>
       /\ publishing[loop[l].message] = "accepted"
       /\ ~Among(queue, loop[l].message)
  /\ \A l, k \in Loops :
       loop[l].at = "routing" /\ loop[k].message = loop[l].message => l = k

Served(m, s) ==
  Among(received[s], m) \/ <<m, s>> \in failed \/ <<m, s>> \in declined

\* A filter has raised on the message.
CutShort(m) == \E t \in Subscribers : <<m, t>> \in raised

\* How far a loop has come with its message.
Progress ==
  \A l \in Loops : loop[l].at = "routing" =>
    /\ loop[l].next <= Len(loop[l].list) + 1
    /\ \A s \in owed[loop[l].message] : Among(loop[l].list, s)
    /\ \A i \in 1 .. loop[l].next - 1 :
         Served(loop[l].message, loop[l].list[i])

\* Messages that are in no place any more.
Gone(m) ==
  /\ publishing[m] = "accepted" /\ ~Among(queue, m)
  /\ \A l \in Loops : loop[l].message # m

GoneAreServed ==
  \A m \in Messages :
    Gone(m) => CutShort(m) \/ \A s \in owed[m] : Served(m, s)

BrokerInv == BrokerTypes /\ OnePlace /\ Progress /\ GoneAreServed

LEMMA NoMessageIsNone == NoMessage \notin Messages
BY BrokerParameters DEF Broker!ParametersOK

LEMMA GoneIsEnough == BrokerInv => NobodyIsSkipped
<1> SUFFICES ASSUME BrokerInv, NEW m \in Messages,
                    publishing[m] = "accepted", m \notin Broker!ToSet(queue),
                    \A l \in Loops : loop[l].message # m,
                    NEW s \in owed[m]
             PROVE  \/ m \in Broker!ToSet(received[s])
                    \/ <<m, s>> \in failed \cup declined
                    \/ \E t \in Subscribers : <<m, t>> \in raised
  BY DEF NobodyIsSkipped, Broker!NobodyIsSkipped
<1>1. queue \in Seq(Messages) /\ received[s] \in Seq(Messages)
  BY DEF BrokerInv, BrokerTypes
<1>2. Gone(m)
  BY <1>1, ToSetIs DEF Gone
<1>3. CutShort(m) \/ Served(m, s)
  BY <1>2 DEF BrokerInv, GoneAreServed
<1> QED
  BY <1>1, <1>3, ToSetIs DEF Served, CutShort

LEMMA BrokerStart == Broker!Init => BrokerInv
<1> SUFFICES ASSUME Broker!Init PROVE BrokerInv
  OBVIOUS
<1>1. \A S : << >> \in Seq(S) /\ Len(<< >>) = 0
  BY EmptySeq
<1>2. \A x : ~Among(<< >>, x)
  BY <1>1 DEF Among
<1>3. Distinct(<< >>)
  BY <1>1 DEF Distinct
<1>4. \A p \in {"none", "waiting", "ended"} :
        /\ Broker!Resting(p) \in Routing
        /\ Broker!Resting(p).at = p
        /\ Broker!Resting(p).message = NoMessage
  BY <1>1 DEF Broker!Resting, Routing
<1>5. BrokerTypes
  BY <1>1, <1>4 DEF Broker!Init, BrokerTypes
<1>6. \A l \in Loops : loop[l].at = "none" /\ loop[l].message = NoMessage
  BY <1>4 DEF Broker!Init
<1> QED
  BY <1>2, <1>3, <1>5, <1>6
  DEF Broker!Init, BrokerInv, OnePlace, Progress, GoneAreServed, Gone

-----------------------------------------------------------------------------
(* The steps.                                                              *)

\* A message that publish has not put yet is in no queue, with no loop and
\* not gone.
LEMMA EarlyKeeps ==
  ASSUME BrokerInv, NEW m \in Messages, NEW p \in {"putting", "rejected"},
         publishing[m] = "new", publishing' = [publishing EXCEPT ![m] = p],
         UNCHANGED <<queue, subscribers, loop, received, failed, declined,
                     raised, owed>>
  PROVE  BrokerInv'
<1> USE DEF BrokerInv
<1>1. BrokerTypes'
  BY DEF BrokerTypes
<1>2. \A n \in Messages : publishing'[n] = "accepted"
                            <=> publishing[n] = "accepted"
  BY DEF BrokerTypes
<1>3. \A l \in Loops : loop[l].at = "routing" => loop[l].message \in Messages
  BY DEF BrokerTypes, OnePlace, Routing
<1>4. OnePlace'
  BY <1>2, <1>3 DEF OnePlace
<1>5. Progress'
  BY DEF Progress, Served
<1>6. GoneAreServed'
  BY <1>2 DEF GoneAreServed, Gone, Served, CutShort
<1> QED
  BY <1>1, <1>4, <1>5, <1>6

LEMMA PutKeeps ==
  ASSUME BrokerInv, NEW m \in Messages, Broker!Put(m)
  PROVE  BrokerInv'
<1> USE DEF BrokerInv
<1>1. /\ publishing[m] = "putting"
      /\ publishing' = [publishing EXCEPT ![m] = "accepted"]
      /\ queue' = Append(queue, m)
      /\ UNCHANGED <<subscribers, loop, received, failed, declined, raised,
                     owed>>
  BY DEF Broker!Put, Broker!brokerVars, Broker!registryVars,
         Broker!outcomeVars, Broker!resultVars
<1>2. publishing'[m] = "accepted"
      /\ \A n \in Messages \ {m} : publishing'[n] = publishing[n]
  BY <1>1 DEF BrokerTypes
<1>3. ~Among(queue, m)
  BY <1>1 DEF OnePlace
<1>4. /\ queue' \in Seq(Messages) /\ Distinct(queue')
      /\ \A n : Among(queue', n) <=> n = m \/ Among(queue, n)
  BY <1>1, <1>3, AppendAdds DEF BrokerTypes, OnePlace
<1>5. \A l \in Loops : loop[l].at = "routing" =>
        loop[l].message \in Messages \ {m}
  BY <1>1 DEF BrokerTypes, OnePlace, Routing
<1>6. BrokerTypes'
  BY <1>1, <1>4 DEF BrokerTypes
<1>7. OnePlace'
  BY <1>1, <1>2, <1>4, <1>5 DEF OnePlace
<1>8. Progress'
  BY <1>1 DEF Progress, Served
<1>9. GoneAreServed'
  BY <1>1, <1>2, <1>4 DEF GoneAreServed, Gone, Served, CutShort
<1> QED
  BY <1>6, <1>7, <1>8, <1>9

\* A subscriber that joins comes after those a loop has served.
LEMMA SubscribeKeeps ==
  ASSUME BrokerInv, NEW s \in Subscribers, Broker!Subscribe(s)
  PROVE  BrokerInv'
<1> USE DEF BrokerInv
<1>1. /\ subscribers' = Append(subscribers, s)
      /\ loop' = [l \in Loops |->
                    IF loop[l].live
                      THEN [loop[l] EXCEPT !.list = Append(loop[l].list, s)]
                      ELSE loop[l]]
      /\ UNCHANGED <<publishing, queue, received, failed, declined, raised,
                     owed>>
  BY DEF Broker!Subscribe, Broker!messageVars, Broker!outcomeVars,
         Broker!resultVars
<1>2. ASSUME NEW l \in Loops
      PROVE  /\ loop'[l] \in Routing
             /\ loop'[l].at = loop[l].at /\ loop'[l].next = loop[l].next
             /\ loop'[l].message = loop[l].message
             /\ loop'[l].list \in {loop[l].list, Append(loop[l].list, s)}
  <2>1. loop[l] \in Routing /\ loop[l].list \in Seq(Subscribers)
    BY DEF BrokerTypes, Routing
  <2>2. Append(loop[l].list, s) \in Seq(Subscribers)
    BY <2>1, AppendProperties
  <2>3. CASE loop[l].live
    <3>1. loop'[l] = [loop[l] EXCEPT !.list = Append(loop[l].list, s)]
      BY <1>1, <2>3
    <3> QED
      BY <2>1, <2>2, <3>1 DEF Routing
  <2>4. CASE ~loop[l].live
    BY <1>1, <2>1, <2>4
  <2> QED
    BY <2>3, <2>4
<1>3. BrokerTypes'
  <2>1. subscribers' \in Seq(Subscribers)
    BY <1>1, AppendProperties DEF BrokerTypes
  <2>2. loop' \in [Loops -> Routing]
    BY <1>1, <1>2
  <2> QED
    BY <1>1, <2>1, <2>2 DEF BrokerTypes
<1>4. OnePlace'
  BY <1>1, <1>2 DEF OnePlace
<1>5. Progress'
  <2> SUFFICES ASSUME NEW l \in Loops, loop'[l].at = "routing"
               PROVE  /\ loop'[l].next <= Len(loop'[l].list) + 1
                      /\ \A t \in owed[loop'[l].message] :
                           Among(loop'[l].list, t)
                      /\ \A i \in 1 .. loop'[l].next - 1 :
                           Served(loop'[l].message, loop'[l].list[i])
    BY <1>1 DEF Progress, Served
  <2> DEFINE list == loop[l].list
             n == loop[l].next
             m == loop[l].message
  <2>1. /\ list \in Seq(Subscribers) /\ Len(list) \in Nat /\ n \in Nat \ {0}
        /\ n <= Len(list) + 1
        /\ \A t \in owed[m] : Among(list, t)
        /\ \A i \in 1 .. n - 1 : Served(m, list[i])
    BY <1>2, LenProperties DEF BrokerTypes, Routing, Progress
  <2>2. /\ loop'[l].next = n /\ loop'[l].message = m
        /\ loop'[l].list \in {list, Append(list, s)}
    BY <1>2
  <2> HIDE DEF list, n, m
  <2>3. ASSUME NEW w \in {list, Append(list, s)}
        PROVE  /\ Len(w) \in Nat /\ Len(w) >= Len(list)
               /\ \A i \in 1 .. Len(list) : w[i] = list[i]
               /\ \A t : Among(list, t) => Among(w, t)
    <3> DEFINE longer == Append(list, s)
    <3>1. /\ Len(longer) = Len(list) + 1
          /\ \A i \in 1 .. Len(list) : longer[i] = list[i]
          /\ \A t : Among(list, t) => Among(longer, t)
      BY <2>1, AppendAdds
    <3> HIDE DEF longer
    <3>2. CASE w = list
      BY <2>1, <3>2
    <3>3. CASE w = longer
      BY <2>1, <3>1, <3>3
    <3> QED
      BY <3>2, <3>3 DEF longer
  <2>4. /\ Len(loop'[l].list) \in Nat /\ Len(loop'[l].list) >= Len(list)
        /\ \A i \in 1 .. Len(list) : loop'[l].list[i] = list[i]
        /\ \A t : Among(list, t) => Among(loop'[l].list, t)
    BY <2>2, <2>3
  <2>5. ASSUME NEW i \in 1 .. n - 1
        PROVE  Served(m, loop'[l].list[i])
    <3>1. i \in 1 .. Len(list)
      BY <2>1
    <3> QED
      BY <2>1, <2>4, <3>1
  <2>6. n <= Len(loop'[l].list) + 1
    BY <2>1, <2>4
  <2>7. \A t \in owed[loop'[l].message] : Among(loop'[l].list, t)
    BY <2>1, <2>2, <2>4
  <2>8. loop'[l].next <= Len(loop'[l].list) + 1
    BY <2>2, <2>6
  <2>9. \A i \in 1 .. loop'[l].next - 1 :
          Served(loop'[l].message, loop'[l].list[i])
    BY <2>2, <2>5
  <2> QED
    BY <2>7, <2>8, <2>9
<1>6. GoneAreServed'
  BY <1>1, <1>2 DEF GoneAreServed, Gone, Served, CutShort
<1> QED
  BY <1>3, <1>4, <1>5, <1>6

\* The loops keep the lists they have.
LEMMA UnsubscribeKeeps ==
  ASSUME BrokerInv, NEW s \in Subscribers, Broker!Unsubscribe(s)
  PROVE  BrokerInv'
<1> USE DEF BrokerInv
<1>1. /\ subscribers' = Broker!Without(subscribers, s)
      /\ loop' = [l \in Loops |-> [loop[l] EXCEPT !.live = FALSE]]
      /\ UNCHANGED <<publishing, queue, received, failed, declined, raised,
                     owed>>
  BY DEF Broker!Unsubscribe, Broker!messageVars, Broker!outcomeVars,
         Broker!resultVars
<1>2. \A l \in Loops :
        /\ loop'[l] \in Routing
        /\ loop'[l].at = loop[l].at /\ loop'[l].next = loop[l].next
        /\ loop'[l].message = loop[l].message
        /\ loop'[l].list = loop[l].list
  BY <1>1 DEF BrokerTypes, Routing
<1>3. BrokerTypes'
  <2>1. subscribers' \in Seq(Subscribers)
    BY <1>1, WithoutIsAList DEF BrokerTypes
  <2>2. loop' \in [Loops -> Routing]
    BY <1>1, <1>2
  <2> QED
    BY <1>1, <2>1, <2>2 DEF BrokerTypes
<1>4. OnePlace'
  BY <1>1, <1>2 DEF OnePlace
<1>5. Progress'
  BY <1>1, <1>2 DEF Progress, Served
<1>6. GoneAreServed'
  BY <1>1, <1>2 DEF GoneAreServed, Gone, Served, CutShort
<1> QED
  BY <1>3, <1>4, <1>5, <1>6

\* A loop that has no message goes on without one.
LEMMA RestKeeps ==
  ASSUME BrokerInv, NEW l \in Loops, NEW p \in {"waiting", "ended"},
         loop[l].at # "routing",
         loop' = [loop EXCEPT ![l] = Broker!Resting(p)],
         UNCHANGED <<publishing, queue, subscribers, received, failed,
                     declined, raised, owed>>
  PROVE  BrokerInv'
<1> USE DEF BrokerInv
<1>1. /\ Broker!Resting(p) \in Routing
      /\ Broker!Resting(p).at = p /\ Broker!Resting(p).message = NoMessage
  BY EmptySeq DEF Broker!Resting, Routing
<1>2. /\ loop'[l].at # "routing" /\ loop'[l].message = NoMessage
      /\ \A k \in Loops \ {l} : loop'[k] = loop[k]
  BY <1>1 DEF BrokerTypes
<1>3. BrokerTypes'
  BY <1>1 DEF BrokerTypes
<1>4. OnePlace'
  BY <1>2 DEF OnePlace
<1>5. Progress'
  BY <1>2 DEF Progress, Served
<1>6. GoneAreServed'
  <2>1. loop[l].message = NoMessage
    BY DEF OnePlace
  <2>2. \A m \in Messages : (\A k \in Loops : loop'[k].message # m)
                              => \A k \in Loops : loop[k].message # m
    BY <1>2, <2>1, NoMessageIsNone
  <2> QED
    BY <2>2 DEF GoneAreServed, Gone, Served, CutShort
<1> QED
  BY <1>3, <1>4, <1>5, <1>6

\* The message leaves the queue for a list of everybody who is owed it.
LEMMA TakeKeeps ==
  ASSUME BrokerInv, NEW l \in Loops, Broker!Take(l)
  PROVE  BrokerInv'
<1> USE DEF BrokerInv
<1> DEFINE m == Head(queue)
           taken == [at |-> "routing", message |-> m, list |-> subscribers,
                     next |-> 1, live |-> TRUE]
<1>1. /\ loop[l].at = "waiting" /\ queue # <<>> /\ queue' = Tail(queue)
      /\ loop' = [loop EXCEPT ![l] = taken]
      /\ owed' = [owed EXCEPT ![m] = Broker!ToSet(subscribers)]
      /\ UNCHANGED <<publishing, subscribers, received, failed, declined,
                     raised>>
  BY DEF Broker!Take, Broker!registryVars, Broker!resultVars
<1>2. /\ queue' \in Seq(Messages) /\ Distinct(queue')
      /\ m \in Messages /\ Among(queue, m)
      /\ \A n : Among(queue', n) <=> Among(queue, n) /\ n # m
  BY <1>1, TailDrops DEF BrokerTypes, OnePlace
<1>3. /\ Broker!ToSet(subscribers) \in SUBSET Subscribers
      /\ \A s : s \in Broker!ToSet(subscribers) => Among(subscribers, s)
      /\ Len(subscribers) \in Nat
  BY ToSetIs, LenProperties DEF BrokerTypes
<1> HIDE DEF m
<1>4. /\ loop'[l] = taken
      /\ \A k \in Loops \ {l} : loop'[k] = loop[k]
  BY <1>1 DEF BrokerTypes
<1>5. taken \in Routing
  BY <1>2 DEF Routing, BrokerTypes
<1>6. /\ loop'[l].at = "routing" /\ loop'[l].message = m
      /\ loop'[l].list = subscribers /\ loop'[l].next = 1
  BY <1>4
<1> HIDE DEF taken
<1>7. \A k \in Loops : loop[k].at = "routing" =>
        /\ loop[k].message \in Messages \ {m} /\ k # l
        /\ publishing[loop[k].message] = "accepted"
        /\ ~Among(queue, loop[k].message)
  BY <1>1, <1>2 DEF BrokerTypes, OnePlace, Routing
<1>8. BrokerTypes'
  BY <1>1, <1>2, <1>3, <1>5 DEF BrokerTypes
<1>9. OnePlace'
  <2>1. \A n \in Messages : Among(queue', n) => publishing'[n] = "accepted"
    BY <1>1, <1>2 DEF OnePlace
  <2>2. \A k \in Loops : loop'[k].message # NoMessage
                           <=> loop'[k].at = "routing"
    BY <1>2, <1>4, <1>6, NoMessageIsNone DEF OnePlace
  <2>3. ASSUME NEW k \in Loops, loop'[k].at = "routing"
        PROVE  /\ publishing'[loop'[k].message] = "accepted"
               /\ ~Among(queue', loop'[k].message)
    <3>1. CASE k = l
      BY <1>1, <1>2, <1>6, <3>1 DEF OnePlace
    <3>2. CASE k # l
      <4>1. loop'[k] = loop[k]
        BY <1>4, <3>2
      <4> QED
        BY <1>1, <1>2, <1>7, <2>3, <4>1
    <3> QED
      BY <3>1, <3>2
  <2>4. ASSUME NEW j \in Loops, NEW k \in Loops, loop'[j].at = "routing",
               loop'[k].message = loop'[j].message
        PROVE  j = k
    <3>1. CASE j = l
      <4>1. CASE k # l
        <5>1. loop[k].message = m
          BY <1>4, <1>6, <2>4, <3>1, <4>1
        <5>2. loop[k].at = "routing"
          BY <1>2, <5>1, NoMessageIsNone DEF OnePlace
        <5> QED
          BY <1>7, <5>1, <5>2
      <4> QED
        BY <3>1, <4>1
    <3>2. CASE j # l
      <4>1. loop'[j] = loop[j] /\ loop[j].message # m
        BY <1>4, <1>7, <2>4, <3>2
      <4>2. k # l
        BY <1>6, <2>4, <4>1
      <4>3. loop'[k] = loop[k]
        BY <1>4, <4>2
      <4> QED
        BY <2>4, <4>1, <4>3 DEF OnePlace
    <3> QED
      BY <3>1, <3>2
  <2> QED
    BY <1>2, <2>1, <2>2, <2>3, <2>4 DEF OnePlace
<1>10. Progress'
  <2> SUFFICES ASSUME NEW k \in Loops, loop'[k].at = "routing"
               PROVE  /\ loop'[k].next <= Len(loop'[k].list) + 1
                      /\ \A s \in owed'[loop'[k].message] :
                           Among(loop'[k].list, s)
                      /\ \A i \in 1 .. loop'[k].next - 1 :
                           Served(loop'[k].message, loop'[k].list[i])
    BY <1>1 DEF Progress, Served
  <2>1. CASE k = l
    <3>1. owed'[m] = Broker!ToSet(subscribers)
      BY <1>1, <1>2 DEF BrokerTypes
    <3> QED
      BY <1>3, <1>6, <2>1, <3>1
  <2>2. CASE k # l
    <3>1. loop'[k] = loop[k]
      BY <1>4, <2>2
    <3>2. loop[k].message \in Messages \ {m}
      BY <1>7, <3>1
    <3>3. owed'[loop[k].message] = owed[loop[k].message]
      BY <1>1, <3>2 DEF BrokerTypes
    <3> QED
      BY <3>1, <3>3 DEF Progress
  <2> QED
    BY <2>1, <2>2
<1>11. GoneAreServed'
  <2> SUFFICES ASSUME NEW n \in Messages, publishing[n] = "accepted",
                      ~Among(queue', n),
                      \A k \in Loops : loop'[k].message # n,
                      ~CutShort(n), NEW s \in owed'[n]
               PROVE  Served(n, s)
    BY <1>1 DEF GoneAreServed, Gone, Served, CutShort
  <2>1. n # m
    BY <1>6
  <2>2. ~Among(queue, n) /\ owed'[n] = owed[n]
    BY <1>1, <1>2, <2>1 DEF BrokerTypes
  <2>3. \A k \in Loops : loop[k].message # n
    BY <1>1, <1>4, NoMessageIsNone DEF OnePlace
  <2> QED
    BY <2>2, <2>3 DEF GoneAreServed, Gone
<1> QED
  BY <1>8, <1>9, <1>10, <1>11

\* A loop that has a next subscriber serves it, one way or the other.
LEMMA ServeKeeps ==
  ASSUME BrokerInv, NEW l \in Loops, Broker!HasNext(l),
         Broker!Deliver(l) \/ Broker!FailDelivery(l) \/ Broker!Decline(l)
  PROVE  BrokerInv'
<1> USE DEF BrokerInv
<1> DEFINE m == loop[l].message
           s == loop[l].list[loop[l].next]
<1>1. /\ loop[l] \in Routing /\ loop[l].at = "routing" /\ m \in Messages
      /\ loop[l].list \in Seq(Subscribers) /\ Len(loop[l].list) \in Nat
      /\ loop[l].next \in 1 .. Len(loop[l].list)
  BY LenProperties DEF Broker!HasNext, BrokerTypes, OnePlace, Routing
<1>2. s \in Subscribers
  BY <1>1, ElementOfSeq
<1>3. /\ loop' = [loop EXCEPT ![l].next = loop[l].next + 1]
      /\ UNCHANGED <<publishing, queue, subscribers, owed>>
  BY DEF Broker!Deliver, Broker!FailDelivery, Broker!Decline,
         Broker!registryVars, Broker!messageVars
<1>4. /\ received' \in [Subscribers -> Seq(Messages)]
      /\ \A n, t : (Served(n, t) /\ t \in Subscribers =>
           \/ Among(received'[t], n)
           \/ <<n, t>> \in failed' \/ <<n, t>> \in declined')
      /\ \/ Among(received'[s], m)
         \/ <<m, s>> \in failed' \/ <<m, s>> \in declined'
      /\ raised' = raised
  <2>1. CASE Broker!Deliver(l)
    <3>1. received' = [received EXCEPT ![s] = Append(received[s], m)]
          /\ failed' = failed /\ declined' = declined /\ raised' = raised
      BY <2>1, <1>2 DEF Broker!Deliver, Broker!resultVars, BrokerTypes
    <3>2. received[s] \in Seq(Messages)
      BY <1>2 DEF BrokerTypes
    <3> HIDE DEF s, m
    <3>3. /\ Append(received[s], m) \in Seq(Messages)
          /\ \A n : Among(Append(received[s], m), n)
                      <=> n = m \/ Among(received[s], n)
      BY <1>1, <3>2, AppendAdds
    <3>4. /\ received'[s] = Append(received[s], m)
          /\ \A t \in Subscribers \ {s} : received'[t] = received[t]
      BY <1>2, <3>1 DEF BrokerTypes
    <3>5. received' \in [Subscribers -> Seq(Messages)]
      BY <3>1, <3>3 DEF BrokerTypes
    <3> QED
      BY <3>1, <3>3, <3>4, <3>5 DEF Served
  <2>2. CASE Broker!FailDelivery(l)
    <3>1. /\ failed' = failed \cup {<<m, s>>} /\ received' = received
          /\ declined' = declined /\ raised' = raised
      BY <2>2 DEF Broker!FailDelivery, Broker!Delivery
    <3> HIDE DEF s, m
    <3> QED
      BY <3>1 DEF Served, BrokerTypes
  <2>3. CASE Broker!Decline(l)
    <3>1. /\ declined' = declined \cup {<<m, s>>} /\ received' = received
          /\ failed' = failed /\ raised' = raised
      BY <2>3 DEF Broker!Decline, Broker!Delivery
    <3> HIDE DEF s, m
    <3> QED
      BY <3>1 DEF Served, BrokerTypes
  <2> QED
    BY <2>1, <2>2, <2>3
<1>5. /\ loop'[l] = [loop[l] EXCEPT !.next = loop[l].next + 1]
      /\ \A k \in Loops \ {l} : loop'[k] = loop[k]
  BY <1>3 DEF BrokerTypes
<1>6. /\ loop'[l] \in Routing
      /\ loop'[l].at = loop[l].at /\ loop'[l].message = m
      /\ loop'[l].list = loop[l].list /\ loop'[l].next = loop[l].next + 1
  BY <1>1, <1>5 DEF Routing
<1> HIDE DEF m, s
<1>7. \A k \in Loops : /\ loop'[k] \in Routing /\ loop'[k].at = loop[k].at
                       /\ loop'[k].message = loop[k].message
                       /\ loop'[k].list = loop[k].list
  BY <1>5, <1>6 DEF BrokerTypes, m
<1>8. BrokerTypes'
  <2>1. loop' \in [Loops -> Routing]
    BY <1>3, <1>7 DEF BrokerTypes
  <2> QED
    BY <1>3, <1>4, <2>1 DEF BrokerTypes
<1>9. OnePlace'
  BY <1>3, <1>7 DEF OnePlace
<1>10. ASSUME NEW n, NEW t \in Subscribers, Served(n, t)
       PROVE  \/ Among(received'[t], n)
              \/ <<n, t>> \in failed' \/ <<n, t>> \in declined'
  BY <1>4, <1>10
<1>11. Progress'
  <2> SUFFICES ASSUME NEW k \in Loops, loop'[k].at = "routing"
               PROVE  /\ loop'[k].next <= Len(loop'[k].list) + 1
                      /\ \A t \in owed'[loop'[k].message] :
                           Among(loop'[k].list, t)
                      /\ \A i \in 1 .. loop'[k].next - 1 :
                           \/ Among(received'[loop'[k].list[i]],
                                    loop'[k].message)
                           \/ <<loop'[k].message, loop'[k].list[i]>>
                                 \in failed'
                           \/ <<loop'[k].message, loop'[k].list[i]>>
                                 \in declined'
    BY DEF Progress, Served
  <2> DEFINE list == loop[k].list
             n == loop[k].message
             at == loop[k].next
  <2>1. /\ list \in Seq(Subscribers) /\ at \in Nat \ {0}
        /\ Len(list) \in Nat /\ at <= Len(list) + 1
        /\ \A t \in owed[n] : Among(list, t)
        /\ \A i \in 1 .. at - 1 : Served(n, list[i])
    BY <1>7, LenProperties DEF BrokerTypes, Routing, Progress
  <2>2. /\ loop'[k].list = list /\ loop'[k].message = n /\ owed' = owed
    BY <1>3, <1>7
  <2>3. \/ k # l /\ loop'[k].next = at
        \/ k = l /\ loop'[k].next = at + 1 /\ at <= Len(list)
    <3>1. CASE k = l
      BY <1>1, <1>6, <3>1
    <3>2. CASE k # l
      BY <1>5, <3>2
    <3> QED
      BY <3>1, <3>2
  <2>4. k = l => n = m /\ list[at] = s
    BY DEF m, s
  <2> HIDE DEF list, n, at
  <2>5. loop'[k].next <= Len(loop'[k].list) + 1
    BY <2>1, <2>2, <2>3
  <2>6. ASSUME NEW i \in 1 .. loop'[k].next - 1
        PROVE  \/ Among(received'[list[i]], n)
               \/ <<n, list[i]>> \in failed' \/ <<n, list[i]>> \in declined'
    <3>1. CASE i \in 1 .. at - 1
      <4>1. i \in 1 .. Len(list)
        BY <2>1, <3>1
      <4>2. list[i] \in Subscribers
        BY <2>1, <4>1, ElementOfSeq
      <4>3. Served(n, list[i])
        BY <2>1, <3>1
      <4> QED
        BY <1>10, <4>2, <4>3
    <3>2. CASE i \notin 1 .. at - 1
      <4>1. i = at /\ k = l
        BY <2>1, <2>3, <3>2
      <4>2. list[i] = s /\ n = m
        BY <2>4, <4>1
      <4> QED
        BY <1>4, <4>2
    <3> QED
      BY <3>1, <3>2
  <2> QED
    BY <2>1, <2>2, <2>5, <2>6
<1>12. GoneAreServed'
  BY <1>3, <1>4, <1>7 DEF GoneAreServed, Gone, BrokerTypes, Served, CutShort
<1> QED
  BY <1>8, <1>9, <1>11, <1>12

\* A loop that has been through its list has served whoever was owed the
\* message.
LEMMA FinishRouteKeeps ==
  ASSUME BrokerInv, NEW l \in Loops, Broker!FinishRoute(l)
  PROVE  BrokerInv'
<1> USE DEF BrokerInv
<1> DEFINE m == loop[l].message
           list == loop[l].list
<1>1. PICK p \in {"waiting", "ended"} :
        /\ loop[l].at = "routing" /\ ~Broker!HasNext(l)
        /\ loop' = [loop EXCEPT ![l] = Broker!Resting(p)]
        /\ UNCHANGED <<publishing, queue, subscribers, received, failed,
                       declined, raised, owed>>
  BY DEF Broker!FinishRoute, Broker!registryVars, Broker!messageVars,
         Broker!outcomeVars, Broker!resultVars, Broker!LookAgain
<1>2. /\ Broker!Resting(p) \in Routing
      /\ Broker!Resting(p).at = p /\ Broker!Resting(p).message = NoMessage
  BY EmptySeq DEF Broker!Resting, Routing
<1>3. /\ loop'[l].at # "routing" /\ loop'[l].message = NoMessage
      /\ \A k \in Loops \ {l} : loop'[k] = loop[k]
  BY <1>1, <1>2 DEF BrokerTypes
<1>4. /\ list \in Seq(Subscribers) /\ Len(list) \in Nat
      /\ loop[l].next \in Nat /\ Len(list) < loop[l].next
  BY <1>1, LenProperties DEF Broker!HasNext, BrokerTypes, Routing
<1>5. /\ \A s \in owed[m] : Among(list, s)
      /\ \A i \in 1 .. loop[l].next - 1 : Served(m, list[i])
  BY <1>1 DEF Progress
<1> HIDE DEF m, list
<1>6. \A i \in 1 .. Len(list) : i \in 1 .. loop[l].next - 1
  BY <1>4
<1>7. \A s \in owed[m] : Served(m, s)
  BY <1>5, <1>6 DEF Among
<1>8. BrokerTypes'
  BY <1>1, <1>2 DEF BrokerTypes
<1>9. OnePlace'
  BY <1>1, <1>3 DEF OnePlace
<1>10. Progress'
  BY <1>1, <1>3 DEF Progress, Served
<1>11. GoneAreServed'
  <2> SUFFICES ASSUME NEW n \in Messages, publishing[n] = "accepted",
                      ~Among(queue, n),
                      \A k \in Loops : loop'[k].message # n,
                      ~CutShort(n), NEW s \in owed[n]
               PROVE  Served(n, s)
    BY <1>1 DEF GoneAreServed, Gone, Served, CutShort
  <2>1. CASE n = m
    BY <1>7, <2>1
  <2>2. CASE n # m
    <3>1. \A k \in Loops : loop[k].message # n
      BY <1>3, <2>2 DEF m
    <3> QED
      BY <3>1 DEF GoneAreServed, Gone
  <2> QED
    BY <2>1, <2>2
<1> QED
  BY <1>8, <1>9, <1>10, <1>11

\* A filter that raises cuts its message short; the other loops go on.
LEMMA FilterRaisesKeeps ==
  ASSUME BrokerInv, NEW l \in Loops, Broker!FilterRaises(l)
  PROVE  BrokerInv'
<1> USE DEF BrokerInv
<1> DEFINE m == loop[l].message
           s == loop[l].list[loop[l].next]
<1>1. PICK p \in {"waiting", "ended"} :
        /\ loop[l].at = "routing" /\ Broker!HasNext(l)
        /\ loop' = [loop EXCEPT ![l] = Broker!Resting(p)]
        /\ raised' = raised \cup {<<m, s>>}
        /\ UNCHANGED <<publishing, queue, subscribers, received, failed,
                       declined, owed>>
  BY DEF Broker!FilterRaises, Broker!Filters, Broker!HasNext, Broker!Delivery,
         Broker!LookAgain, Broker!registryVars, Broker!messageVars
<1>2. /\ Broker!Resting(p) \in Routing
      /\ Broker!Resting(p).at = p /\ Broker!Resting(p).message = NoMessage
  BY EmptySeq DEF Broker!Resting, Routing
<1>3. /\ loop'[l].at # "routing" /\ loop'[l].message = NoMessage
      /\ \A k \in Loops \ {l} : loop'[k] = loop[k]
  BY <1>1, <1>2 DEF BrokerTypes
<1>4. s \in Subscribers
  <2>1. /\ loop[l].list \in Seq(Subscribers) /\ Len(loop[l].list) \in Nat
        /\ loop[l].next \in 1 .. Len(loop[l].list)
    BY <1>1, LenProperties DEF Broker!HasNext, BrokerTypes, Routing
  <2> QED
    BY <2>1, ElementOfSeq
<1> HIDE DEF m, s
<1>5. BrokerTypes'
  BY <1>1, <1>2 DEF BrokerTypes
<1>6. OnePlace'
  BY <1>1, <1>3 DEF OnePlace
<1>7. Progress'
  BY <1>1, <1>3 DEF Progress, Served
<1>8. GoneAreServed'
  <2> SUFFICES ASSUME NEW n \in Messages, publishing[n] = "accepted",
                      ~Among(queue, n),
                      \A k \in Loops : loop'[k].message # n,
                      ~CutShort(n)', NEW t \in owed[n]
               PROVE  Served(n, t)
    BY <1>1 DEF GoneAreServed, Gone, Served
  <2>1. n # m /\ ~CutShort(n)
    BY <1>1, <1>4 DEF CutShort
  <2>2. \A k \in Loops : loop[k].message # n
    BY <1>3, <2>1 DEF m
  <2> QED
    BY <2>1, <2>2 DEF GoneAreServed, Gone
<1> QED
  BY <1>5, <1>6, <1>7, <1>8

LEMMA BrokerStep == BrokerInv /\ [Broker!Next]_Broker!vars => BrokerInv'
<1> SUFFICES ASSUME BrokerInv, [Broker!Next]_Broker!vars
             PROVE  BrokerInv'
  OBVIOUS
<1>1. CASE UNCHANGED <<publishing, queue, subscribers, loop, received, failed,
                       declined, raised, owed>>
  BY <1>1 DEF BrokerInv, BrokerTypes, OnePlace, Progress, GoneAreServed, Gone,
              Served, CutShort
<1>2. CASE UNCHANGED Broker!vars
  BY <1>1, <1>2 DEF Broker!vars, Broker!brokerVars, Broker!registryVars,
                    Broker!messageVars, Broker!outcomeVars, Broker!resultVars
<1>3. CASE Broker!Stop
  BY <1>1, <1>3 DEF Broker!Stop, Broker!messageVars, Broker!outcomeVars,
                    Broker!resultVars
<1>4. ASSUME NEW m \in Messages, Broker!PublishExpired(m)
      PROVE  BrokerInv'
  BY <1>4, EarlyKeeps
     DEF Broker!PublishExpired, Broker!brokerVars, Broker!registryVars,
         Broker!resultVars
<1>5. ASSUME NEW m \in Messages, Broker!BeginPublish(m)
      PROVE  BrokerInv'
  BY <1>5, EarlyKeeps
     DEF Broker!BeginPublish, Broker!brokerVars, Broker!registryVars,
         Broker!outcomeVars, Broker!resultVars
<1>6. ASSUME NEW m \in Messages, Broker!Put(m)
      PROVE  BrokerInv'
  BY <1>6, PutKeeps
<1>7. ASSUME NEW s \in Subscribers, Broker!Subscribe(s)
      PROVE  BrokerInv'
  BY <1>7, SubscribeKeeps
<1>8. ASSUME NEW s \in Subscribers, Broker!Unsubscribe(s)
      PROVE  BrokerInv'
  BY <1>8, UnsubscribeKeeps
<1>9. ASSUME NEW l \in Loops, Broker!Start(l)
      PROVE  BrokerInv'
  <2>1. /\ loop[l].at = "none"
        /\ loop' = [loop EXCEPT ![l] = Broker!Resting("waiting")]
        /\ UNCHANGED <<publishing, queue, subscribers, received, failed,
                       declined, raised, owed>>
    BY <1>9 DEF Broker!Start, Broker!messageVars, Broker!outcomeVars,
                Broker!resultVars
  <2> QED
    BY <2>1, RestKeeps
<1>10. ASSUME NEW l \in Loops, Broker!EndLoop(l)
       PROVE  BrokerInv'
  <2>1. /\ loop[l].at = "waiting"
        /\ loop' = [loop EXCEPT ![l] = Broker!Resting("ended")]
        /\ UNCHANGED <<publishing, queue, subscribers, received, failed,
                       declined, raised, owed>>
    BY <1>10 DEF Broker!EndLoop, Broker!registryVars, Broker!messageVars,
                 Broker!outcomeVars, Broker!resultVars
  <2> QED
    BY <2>1, RestKeeps
<1>11. ASSUME NEW l \in Loops, Broker!Process(l)
       PROVE  BrokerInv'
  <2>1. CASE Broker!Take(l)
    BY <2>1, TakeKeeps
  <2>2. CASE Broker!Deliver(l) \/ Broker!FailDelivery(l) \/ Broker!Decline(l)
    <3>1. Broker!HasNext(l)
      BY <2>2 DEF Broker!Deliver, Broker!FailDelivery, Broker!Decline,
                  Broker!Filters
    <3> QED
      BY <2>2, <3>1, ServeKeeps
  <2>3. CASE Broker!FinishRoute(l)
    BY <2>3, FinishRouteKeeps
  <2>4. CASE Broker!FilterRaises(l)
    BY <2>4, FilterRaisesKeeps
  <2> QED
    BY <1>11, <2>1, <2>2, <2>3, <2>4 DEF Broker!Process
<1> QED
  BY <1>2, <1>3, <1>4, <1>5, <1>6, <1>7, <1>8, <1>9, <1>10, <1>11
     DEF Broker!Next

\* Once a message has left the queue and no loop has it, whoever was
\* subscribed when it was taken has it, has failed on it or has declined it,
\* or else a filter has raised on it: _process_loop's walk through the live
\* list skips nobody while it waits for an actor, whoever subscribes or
\* unsubscribes meanwhile.
THEOREM NobodySkipped == Broker!Spec => []NobodyIsSkipped
<1>1. Broker!Init => BrokerInv
  BY BrokerStart
<1>2. BrokerInv /\ [Broker!Next]_Broker!vars => BrokerInv'
  BY BrokerStep
<1>3. BrokerInv => NobodyIsSkipped
  BY GoneIsEnough
<1> QED
  BY <1>1, <1>2, <1>3, PTL DEF Broker!Spec

-----------------------------------------------------------------------------
(***************************************************************************)
(* The types of the four components, side by side.  What the sections      *)
(* above did not need of them comes first, component by component.         *)
(***************************************************************************)

(* ReadWriteLock: the counts are those of threads.                         *)

LEMMA LockTypes == LockInv => TypeOK
<1> SUFFICES ASSUME LockInv PROVE TypeOK
  OBVIOUS
<1>1. \A S \in SUBSET Threads : Cardinality(S) \in 0 .. Cardinality(Threads)
  BY FS_Subset, FS_CardinalityType
<1>2. At("reading") \in SUBSET Threads /\ Pending \in SUBSET Threads
  BY DEF At, Pending
<1>3. /\ readers = Cardinality(At("reading"))
      /\ writersWaiting = Cardinality(Pending)
      /\ pc \in [Threads -> Place]
  BY DEF LockInv, CountsExact, Pending
<1>4. writerActive \in BOOLEAN
  BY DEF LockInv
<1> QED
  BY <1>1, <1>2, <1>3, <1>4 DEF TypeOK

(* RingBuffer: what a slot or a side holds is data.                        *)

RingTypes ==
  /\ slot \in [0 .. Capacity - 1 -> Data \cup {None}]
  /\ producer \in [at : {"idle", "write", "publish"}, data : Data \cup {None}]
  /\ consumer \in [at : {"idle", "read", "publish"}, data : Data \cup {None}]

LEMMA RingTypesKept ==
  ASSUME RingInv, RingTypes, [NextRing]_ringVars
  PROVE  RingTypes'
<1> USE DEF RingTypes
<1>1. Capacity \in Nat \ {0} /\ head \in Nat /\ tail \in Nat
  BY RingParameters DEF ParametersOK, RingInv, Spans
<1>2. Index(head) \in 0 .. Capacity - 1 /\ Index(tail) \in 0 .. Capacity - 1
  BY <1>1 DEF Index
<1>3. CASE UNCHANGED ringVars
  BY <1>3 DEF ringVars
<1>4. CASE Produce
  BY <1>4 DEF Produce, PushChecks, PushWrites, PushPublishes
<1>5. CASE Consume
  BY <1>2, <1>5 DEF Consume, PopChecks, PopReads, PopPublishes
<1> QED
  BY <1>3, <1>4, <1>5 DEF NextRing

LEMMA RingTypesEnough == RingInv /\ RingTypes => TypeOKRing
BY DEF RingInv, Spans, RingTypes, TypeOKRing

(* ReentrantLock: the count of readers may be too low, never too high.     *)

Readers(p) == {t \in Threads : p[t] = "reading"}
Sleepers(p) == {t \in Threads : p[t] \in {"writeWait", "writeWoken"}}

NestedCounts ==
  /\ count \in Nat /\ count <= Cardinality(Readers(place))
  /\ waiting = Cardinality(Sleepers(place))
  /\ active \in BOOLEAN
  /\ held \in [Threads -> 0 .. MaxNesting]
  /\ writerThread \in Threads \cup {NoThread}
  /\ releasing \subseteq Threads

LEMMA NestedNumbers == \A S : Nested!Cardinality(S) = Cardinality(S)
BY DEF Nested!Cardinality, Cardinality

LEMMA CountsOf ==
  \A p : /\ Readers(p) \in SUBSET Threads /\ Sleepers(p) \in SUBSET Threads
         /\ Cardinality(Readers(p)) \in Nat /\ Cardinality(Sleepers(p)) \in Nat
BY Finite DEF Readers, Sleepers

\* notify_all changes neither who reads nor who waits to write.
LEMMA WokenCounts ==
  \A p \in [Threads -> Nested!Place] :
    /\ Readers(Nested!Woken(p)) = Readers(p)
    /\ Sleepers(Nested!Woken(p)) = Sleepers(p)
BY DEF Readers, Sleepers, Nested!Woken, Nested!Place

LEMMA InnerCounts ==
  ASSUME NestedInv, NestedCounts, NEW t \in Threads, Nested!AcquireInner(t)
  PROVE  NestedCounts'
<1>1. /\ place \in [Threads -> Nested!Place]
      /\ UNCHANGED <<held, writerThread, releasing>>
  BY DEF NestedInv, Nested!AcquireInner
<1>2. /\ count' \in Nat /\ count' <= Cardinality(Readers(place'))
      /\ waiting' = Cardinality(Sleepers(place')) /\ active' \in BOOLEAN
  <2>1. CASE Nested!EnterRead(t)
    <3>1. /\ Readers(place') = Readers(place) \cup {t}
          /\ t \notin Readers(place) /\ Sleepers(place') = Sleepers(place)
      BY <1>1, <2>1 DEF Nested!EnterRead, Readers, Sleepers
    <3>2. Cardinality(Readers(place')) = Cardinality(Readers(place)) + 1
      BY <3>1, Gains, CountsOf
    <3> QED
      BY <2>1, <3>1, <3>2, CountsOf DEF Nested!EnterRead, NestedCounts
  <2>2. CASE Nested!AwaitRead(t) \/ Nested!ReadTimesOut(t)
    <3>1. Readers(place') = Readers(place) /\ Sleepers(place') = Sleepers(place)
      BY <1>1, <2>2 DEF Nested!AwaitRead, Nested!ReadTimesOut,
                        Nested!ReadsPending, Readers, Sleepers
    <3> QED
      BY <2>2, <3>1 DEF Nested!AwaitRead, Nested!ReadTimesOut, NestedCounts
  <2>3. CASE Nested!EnterWrite(t) \/ Nested!WriteTimesOut(t)
    <3>1. /\ Readers(place') = Readers(place)
          /\ Sleepers(place') = Sleepers(place) \ {t}
          /\ t \in Sleepers(place) <=> place[t] # "idle"
      BY <1>1, <2>3 DEF Nested!EnterWrite, Nested!WriteTimesOut,
                        Nested!WritesPending, Readers, Sleepers
    <3>2. count' = count /\ active' \in BOOLEAN
      BY <2>3 DEF Nested!EnterWrite, Nested!WriteTimesOut, NestedCounts
    <3>3. waiting' = IF place[t] = "idle" THEN waiting ELSE waiting - 1
      BY <2>3 DEF Nested!EnterWrite, Nested!WriteTimesOut,
                  Nested!WritesPending
    <3>4. CASE place[t] = "idle"
      <4>1. Sleepers(place') = Sleepers(place)
        BY <3>1, <3>4
      <4> QED
        BY <3>1, <3>2, <3>3, <3>4, <4>1 DEF NestedCounts
    <3>5. CASE place[t] # "idle"
      <4>1. Cardinality(Sleepers(place')) = Cardinality(Sleepers(place)) - 1
        BY <3>1, <3>5, Loses, CountsOf
      <4> QED
        BY <3>1, <3>2, <3>3, <3>5, <4>1 DEF NestedCounts
    <3> QED
      BY <3>4, <3>5
  <2>4. CASE Nested!AwaitWrite(t)
    <3>1. /\ Readers(place') = Readers(place)
          /\ Sleepers(place') = Sleepers(place) \cup {t}
          /\ t \in Sleepers(place) <=> place[t] # "idle"
      BY <1>1, <2>4 DEF Nested!AwaitWrite, Readers, Sleepers
    <3>2. /\ count' = count /\ active' = active
          /\ waiting' = IF place[t] = "idle" THEN waiting + 1 ELSE waiting
      BY <2>4 DEF Nested!AwaitWrite
    <3>3. CASE place[t] = "idle"
      <4>1. Cardinality(Sleepers(place')) = Cardinality(Sleepers(place)) + 1
        BY <3>1, <3>3, Gains, CountsOf
      <4> QED
        BY <3>1, <3>2, <3>3, <4>1 DEF NestedCounts
    <3>4. CASE place[t] # "idle"
      <4>1. Sleepers(place') = Sleepers(place)
        BY <3>1, <3>4
      <4> QED
        BY <3>1, <3>2, <3>4, <4>1 DEF NestedCounts
    <3> QED
      BY <3>3, <3>4
  <2> QED
    BY <2>1, <2>2, <2>3, <2>4
       DEF Nested!AcquireInner, Nested!Acquire, Nested!TimesOut
<1> QED
  BY <1>1, <1>2 DEF NestedCounts

LEMMA RecordCounts ==
  ASSUME NestedInv, NestedCounts, NEW t \in Threads,
         \/ Nested!ReadAgain(t) \/ Nested!RecordRead(t)
         \/ Nested!BeginReleaseRead(t)
         \/ Nested!RecordWrite(t) \/ Nested!BeginReleaseWrite(t)
  PROVE  NestedCounts'
<1>1. UNCHANGED <<count, waiting, active, place>>
  BY DEF Nested!ReadAgain, Nested!RecordRead, Nested!BeginReleaseRead,
         Nested!RecordWrite, Nested!BeginReleaseWrite, Nested!lockVars
<1>2. MaxNesting \in Nat \ {0}
  BY NestedParameters DEF Nested!ParametersOK
<1>3. held' \in [Threads -> 0 .. MaxNesting]
  <2>1. held \in [Threads -> 0 .. MaxNesting] /\ held[t] \in 0 .. MaxNesting
    BY DEF NestedCounts
  <2>2. CASE Nested!ReadAgain(t)
    BY <1>2, <2>1, <2>2 DEF Nested!ReadAgain
  <2>3. CASE Nested!RecordRead(t)
    BY <1>2, <2>1, <2>3 DEF Nested!RecordRead
  <2>4. CASE Nested!BeginReleaseRead(t)
    BY <1>2, <2>1, <2>4 DEF Nested!BeginReleaseRead
  <2>5. CASE Nested!RecordWrite(t) \/ Nested!BeginReleaseWrite(t)
    BY <2>1, <2>5 DEF Nested!RecordWrite, Nested!BeginReleaseWrite
  <2> QED
    BY <2>2, <2>3, <2>4, <2>5
<1>4. writerThread' \in Threads \cup {NoThread} /\ releasing' \subseteq Threads
  BY DEF Nested!ReadAgain, Nested!RecordRead, Nested!BeginReleaseRead,
         Nested!RecordWrite, Nested!BeginReleaseWrite, NestedCounts
<1> QED
  BY <1>1, <1>3, <1>4 DEF NestedCounts

LEMMA EndReleaseCounts ==
  ASSUME NestedInv, NestedCounts, NEW t \in Threads,
         Nested!EndReleaseRead(t) \/ Nested!EndReleaseWrite(t)
  PROVE  NestedCounts'
<1> DEFINE out == [place EXCEPT ![t] = "idle"]
<1>1. place \in [Threads -> Nested!Place] /\ out \in [Threads -> Nested!Place]
  BY DEF NestedInv, Nested!Place
<1>2. CASE Nested!EndReleaseRead(t)
  <2> DEFINE left == IF held[t] > 0 THEN place ELSE out
  <2>1. /\ place[t] = "reading" /\ releasing' = releasing \ {t}
        /\ UNCHANGED <<waiting, active, held, writerThread>>
        /\ count' = IF count > 0 THEN count - 1 ELSE 0
        /\ place' = Nested!Woken(left) \/ place' = left
    BY <1>2 DEF Nested!EndReleaseRead
  <2>2. left \in [Threads -> Nested!Place]
    BY <1>1
  <2>3. \/ Readers(left) = Readers(place)
        \/ Readers(left) = Readers(place) \ {t}
    BY <1>1 DEF Readers
  <2>4. Sleepers(left) = Sleepers(place)
    BY <1>1, <2>1 DEF Sleepers
  <2> HIDE DEF left
  <2>5. Readers(place') = Readers(left) /\ Sleepers(place') = Sleepers(left)
    BY <2>1, <2>2, WokenCounts
  <2>6. t \in Readers(place)
    BY <2>1 DEF Readers
  <2>7. Cardinality(Readers(place) \ {t}) = Cardinality(Readers(place)) - 1
    BY <2>6, Loses, CountsOf
  <2>8. Cardinality(Readers(left)) >= Cardinality(Readers(place)) - 1
    <3>1. CASE Readers(left) = Readers(place)
      BY <3>1, CountsOf
    <3>2. CASE Readers(left) = Readers(place) \ {t}
      BY <2>7, <3>2, CountsOf
    <3> QED
      BY <2>3, <3>1, <3>2
  <2>9. count' \in Nat /\ count' <= Cardinality(Readers(place'))
    BY <2>1, <2>5, <2>8, CountsOf DEF NestedCounts
  <2> QED
    BY <2>1, <2>4, <2>5, <2>9 DEF NestedCounts
<1>3. CASE Nested!EndReleaseWrite(t)
  <2>1. /\ place[t] = "writing" /\ releasing' = releasing \ {t}
        /\ active' = FALSE /\ place' = Nested!Woken(out)
        /\ UNCHANGED <<count, waiting, held, writerThread>>
    BY <1>3 DEF Nested!EndReleaseWrite, Nested!ReleaseWrite
  <2>2. Readers(out) = Readers(place) /\ Sleepers(out) = Sleepers(place)
    BY <1>1, <2>1 DEF Readers, Sleepers
  <2> HIDE DEF out
  <2>3. /\ Readers(place') = Readers(place)
        /\ Sleepers(place') = Sleepers(place)
    BY <1>1, <2>1, <2>2, WokenCounts
  <2> QED
    BY <2>1, <2>3 DEF NestedCounts
<1> QED
  BY <1>2, <1>3

LEMMA NestedStart == Nested!InitReentrant => NestedInv /\ NestedCounts
<1> SUFFICES ASSUME Nested!InitReentrant PROVE NestedInv /\ NestedCounts
  OBVIOUS
<1>1. NestedInv
  BY DEF Nested!InitReentrant, Nested!Init, NestedInv, FlagUp, Nested!Place
<1>2. Readers(place) = {} /\ Sleepers(place) = {}
  BY DEF Nested!InitReentrant, Nested!Init, Readers, Sleepers
<1>3. Cardinality({}) = 0
  BY FS_EmptySet
<1>4. MaxNesting \in Nat
  BY NestedParameters DEF Nested!ParametersOK
<1>5. held \in [Threads -> 0 .. MaxNesting]
  BY <1>4 DEF Nested!InitReentrant
<1>6. /\ count = 0 /\ waiting = 0 /\ active = FALSE
      /\ writerThread = NoThread /\ releasing = {}
  BY DEF Nested!InitReentrant, Nested!Init
<1>7. count <= Cardinality(Readers(place))
  BY <1>2, <1>3, <1>6
<1> QED
  BY <1>1, <1>2, <1>3, <1>5, <1>6, <1>7 DEF NestedCounts

LEMMA NestedCountsKept ==
  ASSUME NestedInv, NestedCounts, [Nested!NextReentrant]_(Nested!vars)
  PROVE  NestedCounts'
<1>1. CASE UNCHANGED Nested!vars
  BY <1>1 DEF Nested!vars, Nested!lockVars, NestedCounts, Readers, Sleepers
<1>2. CASE Nested!NextReentrant
  BY <1>2, InnerCounts, RecordCounts, EndReleaseCounts
     DEF Nested!NextReentrant
<1> QED
  BY <1>1, <1>2

LEMMA NestedCountsEnough ==
  NestedInv /\ NestedCounts => Nested!TypeOKReentrant
<1> SUFFICES ASSUME NestedInv, NestedCounts PROVE Nested!TypeOKReentrant
  OBVIOUS
<1>1. \A S \in SUBSET Threads : Cardinality(S) \in 0 .. Cardinality(Threads)
  BY FS_Subset, FS_CardinalityType
<1>2. Nested!Cardinality(Threads) = Cardinality(Threads)
      /\ Cardinality(Threads) \in Nat
  BY NestedNumbers, Finite
<1>3. /\ count \in 0 .. Cardinality(Threads)
      /\ waiting \in 0 .. Cardinality(Threads)
  BY <1>1, <1>2, CountsOf DEF NestedCounts
<1>4. Nested!TypeOK
  BY <1>2, <1>3 DEF NestedInv, NestedCounts, Nested!TypeOK
<1> QED
  BY <1>4 DEF NestedCounts, Nested!TypeOKReentrant

(* MessageBroker: limits, and the lists of the loops.                      *)

Room ==
  /\ running \in BOOLEAN
  /\ Len(queue) <= QueueSize
  /\ joins \in 0 .. MaxJoins
  /\ \A l \in Loops : /\ loop[l].next <= Len(loop[l].list) + 1
                      /\ loop[l].live => loop[l].list = subscribers
  /\ dead \in Seq(Messages) /\ Len(dead) <= MaxDead

LEMMA Limits ==
  /\ QueueSize \in Nat \ {0} /\ MaxDead \in Nat \ {0} /\ MaxJoins \in Nat
BY BrokerParameters DEF Broker!ParametersOK

\* The oldest dead letter makes room for a new one.
LEMMA BuryKeepsRoom ==
  ASSUME NEW m \in Messages, dead \in Seq(Messages), Len(dead) <= MaxDead
  PROVE  Broker!Bury(m) \in Seq(Messages) /\ Len(Broker!Bury(m)) <= MaxDead
<1> DEFINE all == Append(dead, m)
<1>1. /\ all \in Seq(Messages) /\ Len(all) = Len(dead) + 1
      /\ Len(dead) \in Nat /\ all # << >>
  BY AppendProperties, LenProperties
<1>2. Tail(all) \in Seq(Messages) /\ Len(Tail(all)) = Len(all) - 1
  BY <1>1, HeadTailProperties
<1>3. Broker!Bury(m) = IF Len(all) > MaxDead THEN Tail(all) ELSE all
  BY DEF Broker!Bury
<1> HIDE DEF all
<1> QED
  BY <1>1, <1>2, <1>3, Limits

\* What a loop holds that rests.
LEMMA RestingRoom ==
  \A p : /\ Broker!Resting(p).next = 1 /\ Len(Broker!Resting(p).list) = 0
         /\ Broker!Resting(p).live = FALSE
BY EmptySeq DEF Broker!Resting

LEMMA RoomStart == Broker!Init => Room
<1> SUFFICES ASSUME Broker!Init PROVE Room
  OBVIOUS
<1>1. dead \in Seq(Messages) /\ Len(dead) = 0 /\ Len(queue) = 0
  BY EmptySeq DEF Broker!Init
<1>2. ASSUME NEW l \in Loops
      PROVE  /\ loop[l].next <= Len(loop[l].list) + 1
             /\ loop[l].live => loop[l].list = subscribers
  <2>1. loop[l] = Broker!Resting("none")
    BY DEF Broker!Init
  <2>2. /\ loop[l].next = 1 /\ Len(loop[l].list) = 0
        /\ loop[l].live = FALSE
    BY <2>1, RestingRoom
  <2> QED
    BY <2>2
<1>3. running \in BOOLEAN /\ joins = 0
  BY DEF Broker!Init
<1> QED
  BY <1>1, <1>2, <1>3, Limits DEF Room

LEMMA PublishKeepsRoom ==
  ASSUME BrokerInv, Room, NEW m \in Messages,
         Broker!PublishExpired(m) \/ Broker!BeginPublish(m) \/ Broker!Put(m)
  PROVE  Room'
<1>1. UNCHANGED <<running, joins, subscribers, loop>>
  BY DEF Broker!PublishExpired, Broker!BeginPublish, Broker!Put,
         Broker!brokerVars, Broker!registryVars
<1>2. Len(queue') <= QueueSize
  <2>1. CASE Broker!Put(m)
    <3>1. queue \in Seq(Messages) /\ queue' = Append(queue, m)
          /\ Len(queue) < QueueSize
      BY <2>1 DEF Broker!Put, BrokerInv, BrokerTypes
    <3>2. Len(queue') = Len(queue) + 1 /\ Len(queue) \in Nat
      BY <3>1, AppendProperties, LenProperties
    <3> QED
      BY <3>1, <3>2, Limits
  <2>2. CASE Broker!PublishExpired(m) \/ Broker!BeginPublish(m)
    BY <2>2 DEF Broker!PublishExpired, Broker!BeginPublish, Room
  <2> QED
    BY <2>1, <2>2
<1>3. dead' \in {dead, Broker!Bury(m)}
  BY DEF Broker!PublishExpired, Broker!BeginPublish, Broker!Put,
         Broker!outcomeVars
<1>4. dead' \in Seq(Messages) /\ Len(dead') <= MaxDead
  BY <1>3, BuryKeepsRoom DEF Room
<1> QED
  BY <1>1, <1>2, <1>4 DEF Room

\* Whoever subscribes is added to the list and to what the loops go through.
LEMMA SubscribeKeepsRoom ==
  ASSUME BrokerInv, Room, NEW s \in Subscribers, Broker!Subscribe(s)
  PROVE  Room'
<1>1. /\ joins' = joins + 1 /\ joins < MaxJoins
      /\ subscribers' = Append(subscribers, s)
      /\ loop' = [l \in Loops |->
                    IF loop[l].live
                      THEN [loop[l] EXCEPT !.list = Append(loop[l].list, s)]
                      ELSE loop[l]]
      /\ UNCHANGED <<running, queue, dead>>
  BY DEF Broker!Subscribe, Broker!messageVars, Broker!outcomeVars,
         Broker!resultVars
<1>2. ASSUME NEW l \in Loops
      PROVE  /\ loop'[l].next <= Len(loop'[l].list) + 1
             /\ loop'[l].live => loop'[l].list = subscribers'
  <2>1. /\ loop[l] \in Routing /\ loop[l].list \in Seq(Subscribers)
        /\ loop[l].next \in Nat /\ Len(loop[l].list) \in Nat
        /\ loop[l].next <= Len(loop[l].list) + 1
    BY LenProperties DEF Room, BrokerInv, BrokerTypes, Routing
  <2>2. CASE loop[l].live
    <3> DEFINE longer == Append(loop[l].list, s)
    <3>1. loop'[l] = [loop[l] EXCEPT !.list = longer]
      BY <1>1, <2>2
    <3>2. Len(longer) = Len(loop[l].list) + 1
      BY <2>1, AppendProperties
    <3>3. longer = subscribers'
      BY <1>1, <2>2 DEF Room
    <3> HIDE DEF longer
    <3>4. loop'[l].next = loop[l].next /\ loop'[l].list = longer
      BY <2>1, <3>1 DEF Routing
    <3> QED
      BY <2>1, <3>2, <3>3, <3>4
  <2>3. CASE ~loop[l].live
    BY <1>1, <2>1, <2>3
  <2> QED
    BY <2>2, <2>3
<1>3. joins' \in 0 .. MaxJoins
  BY <1>1, Limits DEF Room
<1> QED
  BY <1>1, <1>2, <1>3 DEF Room

\* The loops keep the lists they have, which are not the live one any more.
LEMMA UnsubscribeKeepsRoom ==
  ASSUME BrokerInv, Room, NEW s \in Subscribers, Broker!Unsubscribe(s)
  PROVE  Room'
<1>1. /\ loop' = [l \in Loops |-> [loop[l] EXCEPT !.live = FALSE]]
      /\ UNCHANGED <<running, joins, queue, dead>>
  BY DEF Broker!Unsubscribe, Broker!messageVars, Broker!outcomeVars,
         Broker!resultVars
<1>2. \A l \in Loops : /\ loop'[l].live = FALSE
                       /\ loop'[l].next = loop[l].next
                       /\ loop'[l].list = loop[l].list
  BY <1>1 DEF BrokerInv, BrokerTypes, Routing
<1> QED
  BY <1>1, <1>2 DEF Room

\* A loop that rests has nothing to go through.
LEMMA RestKeepsRoom ==
  ASSUME BrokerInv, Room, NEW l \in Loops, NEW p \in {"waiting", "ended"},
         running' \in BOOLEAN,
         loop' = [loop EXCEPT ![l] = Broker!Resting(p)],
         UNCHANGED <<joins, queue, subscribers, dead>>
  PROVE  Room'
<1>1. loop'[l] = Broker!Resting(p) /\ \A k \in Loops \ {l} : loop'[k] = loop[k]
  BY DEF BrokerInv, BrokerTypes
<1>2. ASSUME NEW k \in Loops
      PROVE  /\ loop'[k].next <= Len(loop'[k].list) + 1
             /\ loop'[k].live => loop'[k].list = subscribers
  <2>1. CASE k = l
    BY <1>1, <2>1, RestingRoom
  <2>2. CASE k # l
    BY <1>1, <2>2 DEF Room
  <2> QED
    BY <2>1, <2>2
<1> QED
  BY <1>2 DEF Room

LEMMA TakeKeepsRoom ==
  ASSUME BrokerInv, Room, NEW l \in Loops, Broker!Take(l)
  PROVE  Room'
<1> DEFINE taken == [at |-> "routing", message |-> Head(queue),
                     list |-> subscribers, next |-> 1, live |-> TRUE]
<1>1. /\ queue # << >> /\ queue' = Tail(queue)
      /\ loop' = [loop EXCEPT ![l] = taken]
      /\ UNCHANGED <<running, joins, subscribers, dead>>
  BY DEF Broker!Take, Broker!registryVars
<1>2. /\ loop'[l] = taken
      /\ \A k \in Loops \ {l} : loop'[k] = loop[k]
  BY <1>1 DEF BrokerInv, BrokerTypes
<1>3. Len(queue') = Len(queue) - 1 /\ Len(queue) \in Nat
  BY <1>1, HeadTailProperties, LenProperties DEF BrokerInv, BrokerTypes
<1>4. Len(queue') <= QueueSize
  BY <1>3, Limits DEF Room
<1>5. Len(subscribers) \in Nat
  BY LenProperties DEF BrokerInv, BrokerTypes
<1>6. ASSUME NEW k \in Loops
      PROVE  /\ loop'[k].next <= Len(loop'[k].list) + 1
             /\ loop'[k].live => loop'[k].list = subscribers
  <2>1. CASE k = l
    <3>1. loop'[k].next = 1 /\ loop'[k].list = subscribers
      BY <1>2, <2>1
    <3> QED
      BY <1>5, <3>1
  <2>2. CASE k # l
    BY <1>2, <2>2 DEF Room
  <2> QED
    BY <2>1, <2>2
<1> QED
  BY <1>1, <1>4, <1>6 DEF Room

LEMMA ServeKeepsRoom ==
  ASSUME BrokerInv, Room, NEW l \in Loops,
         Broker!Deliver(l) \/ Broker!FailDelivery(l) \/ Broker!Decline(l)
  PROVE  Room'
<1>1. /\ Broker!HasNext(l)
      /\ loop' = [loop EXCEPT ![l].next = loop[l].next + 1]
      /\ UNCHANGED <<running, joins, queue, subscribers>>
      /\ dead' \in {dead, Broker!Bury(loop[l].message)}
  BY DEF Broker!Deliver, Broker!FailDelivery, Broker!Decline, Broker!Filters,
         Broker!registryVars, Broker!messageVars
<1>2. /\ loop[l] \in Routing /\ loop[l].at = "routing"
      /\ loop[l].next \in Nat /\ loop[l].next <= Len(loop[l].list)
      /\ loop[l].message \in Messages
      /\ loop[l].list \in Seq(Subscribers) /\ Len(loop[l].list) \in Nat
  BY <1>1, LenProperties
     DEF Broker!HasNext, BrokerInv, BrokerTypes, OnePlace, Routing
<1>3. /\ loop'[l] = [loop[l] EXCEPT !.next = loop[l].next + 1]
      /\ \A k \in Loops \ {l} : loop'[k] = loop[k]
  BY <1>1 DEF BrokerInv, BrokerTypes
<1>4. /\ loop'[l].next = loop[l].next + 1 /\ loop'[l].list = loop[l].list
      /\ loop'[l].live = loop[l].live
  BY <1>2, <1>3 DEF Routing
<1>5. ASSUME NEW k \in Loops
      PROVE  /\ loop'[k].next <= Len(loop'[k].list) + 1
             /\ loop'[k].live => loop'[k].list = subscribers
  <2>1. CASE k = l
    BY <1>2, <1>4, <2>1 DEF Room
  <2>2. CASE k # l
    BY <1>3, <2>2 DEF Room
  <2> QED
    BY <2>1, <2>2
<1>6. dead' \in Seq(Messages) /\ Len(dead') <= MaxDead
  BY <1>1, <1>2, BuryKeepsRoom DEF Room
<1> QED
  BY <1>1, <1>5, <1>6 DEF Room

LEMMA RoomKept ==
  ASSUME BrokerInv, Room, [Broker!Next]_Broker!vars
  PROVE  Room'
<1>1. CASE UNCHANGED Broker!vars
  BY <1>1 DEF Room, Broker!vars, Broker!brokerVars, Broker!registryVars,
              Broker!messageVars, Broker!outcomeVars, Broker!resultVars
<1>2. CASE Broker!Stop
  BY <1>2 DEF Room, Broker!Stop, Broker!messageVars, Broker!outcomeVars
<1>3. ASSUME NEW m \in Messages,
             Broker!PublishExpired(m) \/ Broker!BeginPublish(m) \/ Broker!Put(m)
      PROVE  Room'
  BY <1>3, PublishKeepsRoom
<1>4. ASSUME NEW s \in Subscribers, Broker!Subscribe(s)
      PROVE  Room'
  BY <1>4, SubscribeKeepsRoom
<1>5. ASSUME NEW s \in Subscribers, Broker!Unsubscribe(s)
      PROVE  Room'
  BY <1>5, UnsubscribeKeepsRoom
<1>6. ASSUME NEW l \in Loops,
             \/ Broker!Start(l) \/ Broker!EndLoop(l) \/ Broker!FinishRoute(l)
             \/ Broker!FilterRaises(l)
      PROVE  Room'
  <2>1. PICK p \in {"waiting", "ended"} :
          loop' = [loop EXCEPT ![l] = Broker!Resting(p)]
    BY <1>6 DEF Broker!Start, Broker!EndLoop, Broker!FinishRoute,
                Broker!FilterRaises, Broker!LookAgain
  <2>2. running' \in BOOLEAN /\ UNCHANGED <<joins, queue, subscribers, dead>>
    BY <1>6 DEF Broker!Start, Broker!EndLoop, Broker!FinishRoute,
                Broker!FilterRaises, Room, Broker!registryVars,
                Broker!messageVars, Broker!outcomeVars
  <2> QED
    BY <2>1, <2>2, RestKeepsRoom
<1>7. ASSUME NEW l \in Loops,
             \/ Broker!Take(l) \/ Broker!Deliver(l) \/ Broker!FailDelivery(l)
             \/ Broker!Decline(l)
      PROVE  Room'
  BY <1>7, TakeKeepsRoom, ServeKeepsRoom
<1> QED
  BY <1>1, <1>2, <1>3, <1>4, <1>5, <1>6, <1>7 DEF Broker!Next, Broker!Process

LEMMA RoomEnough == BrokerInv /\ Room => Broker!TypeOK
<1> SUFFICES ASSUME BrokerInv, Room PROVE Broker!TypeOK
  OBVIOUS
<1>1. ASSUME NEW l \in Loops
      PROVE  /\ loop[l].at \in {"none", "waiting", "routing", "ended"}
             /\ loop[l].next \in 1 .. Len(loop[l].list) + 1
             /\ loop[l].live => loop[l].list = subscribers
  <2>1. /\ loop[l] \in Routing /\ loop[l].next \in Nat \ {0}
        /\ Len(loop[l].list) \in Nat
    BY LenProperties DEF BrokerInv, BrokerTypes, Routing
  <2> QED
    BY <2>1 DEF Room, Routing
<1> QED
  BY <1>1 DEF BrokerInv, BrokerTypes, Room, Broker!TypeOK

-----------------------------------------------------------------------------
(* The four side by side.                                                  *)

AllInv ==
  /\ LockInv
  /\ RingInv /\ RingTypes
  /\ NestedInv /\ NestedCounts
  /\ BrokerInv /\ Room

\* In whichever component a step is, it keeps the types of all variables.
THEOREM ConcurrencyTypes == SpecAll => []TypesOK
<1>1. InitAll => AllInv
  <2> SUFFICES ASSUME InitAll PROVE AllInv
    OBVIOUS
  <2>1. Init /\ Nested!InitReentrant /\ InitRing /\ Broker!Init
    BY DEF InitAll
  <2>2. RingTypes
    BY <2>1 DEF InitRing, RingTypes
  <2> QED
    BY <2>1, <2>2, LockStart, NestedStart, RingStart, RingParameters,
       BrokerStart, RoomStart DEF AllInv
<1>2. AllInv /\ [NextAll]_vars => AllInv'
  <2> SUFFICES ASSUME AllInv, [NextAll]_vars PROVE AllInv'
    OBVIOUS
  <2>1. [Next]_lockVars
    BY DEF NextAll, vars
  <2>2. [NextRing]_ringVars
    BY DEF NextAll, vars
  <2>3. [Nested!NextReentrant]_(Nested!vars)
    <3>1. UNCHANGED nestedVars => UNCHANGED Nested!vars
      BY DEF nestedVars, Nested!vars, Nested!lockVars
    <3> QED
      BY <3>1 DEF NextAll, vars
  <2>4. [Broker!Next]_Broker!vars
    <3>1. UNCHANGED brokerVars => UNCHANGED Broker!vars
      BY DEF brokerVars, Broker!vars, Broker!brokerVars, Broker!registryVars,
             Broker!messageVars, Broker!outcomeVars, Broker!resultVars
    <3> QED
      BY <3>1 DEF NextAll, vars
  <2> QED
    BY <2>1, <2>2, <2>3, <2>4, LockStep, RingStep, RingTypesKept, NestedStep,
       NestedCountsKept, BrokerStep, RoomKept, RingParameters DEF AllInv
<1>3. AllInv => TypesOK
  BY LockTypes, RingTypesEnough, NestedCountsEnough, RoomEnough
     DEF AllInv, TypesOK
<1> QED
  BY <1>1, <1>2, <1>3, PTL DEF SpecAll
=============================================================================
