------------------------------ MODULE RingBuffer ------------------------------
(***************************************************************************)
(* ipc/ring_buffer.py: LockFreeRingBuffer between one producer and one     *)
(* consumer.  A step is one access to what they share: head, tail, or the  *)
(* bytes of a slot, which one slice assignment writes under the            *)
(* interpreter's lock.  Each counter is written by one side, so its        *)
(* fetch_add, a load and a store in this code, is one step.                *)
(*                                                                         *)
(* A push that finds the ring full and a pop that finds it empty return    *)
(* with nothing changed.  Batches and clear are repeated pushes and pops.  *)
(* BufferState is left out: no operation looks at it to decide.            *)
(***************************************************************************)
EXTENDS Integers, Sequences

CONSTANTS
  Data,
  Capacity,   \* _capacity
  MaxItems,   \* bound on the items pushed
  None

ParametersOK ==
  Capacity \in Nat \ {0} /\ MaxItems \in Nat /\ None \notin Data

VARIABLES
  head, tail,  \* _head, _tail
  slot,        \* _buffer
  producer,    \* where the producer is, and its data
  consumer,    \* where the consumer is, and what it read
  sent,        \* auxiliary: items whose push returned True
  popped       \* auxiliary: items that pop returned

ringVars == <<head, tail, slot, producer, consumer, sent, popped>>

Index(i) == i % Capacity   \* index & _mask

InitRing ==
  /\ head = 0 /\ tail = 0
  /\ slot = [i \in 0 .. Capacity - 1 |-> None]
  /\ producer = [at |-> "idle", data |-> None]
  /\ consumer = [at |-> "idle", data |-> None]
  /\ sent = <<>> /\ popped = <<>>

-----------------------------------------------------------------------------
\* Mutant: no slot is kept free to tell full from empty.
OverFull == head # tail /\ Index(head) = Index(tail)

Full == Index(head + 1) = Index(tail)

Empty == head = tail

\* push: the check, which loads _tail.
PushChecks(d) ==
  /\ producer.at = "idle" /\ head < MaxItems
  /\ ~Full
  /\ producer' = [at |-> "write", data |-> d]
  /\ UNCHANGED <<head, tail, slot, consumer, sent, popped>>

PushWrites ==
  /\ producer.at = "write"
  /\ slot' = [slot EXCEPT ![Index(head)] = producer.data]
  /\ producer' = [producer EXCEPT !.at = "publish"]
  /\ UNCHANGED <<head, tail, consumer, sent, popped>>

\* The item becomes visible.
PushPublishes ==
  /\ producer.at = "publish"
  /\ head' = head + 1
  /\ producer' = [at |-> "idle", data |-> None]
  /\ sent' = Append(sent, producer.data)
  /\ UNCHANGED <<tail, slot, consumer, popped>>

\* pop: the check, which loads _head.
PopChecks ==
  /\ consumer.at = "idle"
  /\ ~Empty
  /\ consumer' = [consumer EXCEPT !.at = "read"]
  /\ UNCHANGED <<head, tail, slot, producer, sent, popped>>

PopReads ==
  /\ consumer.at = "read"
  /\ consumer' = [at |-> "publish", data |-> slot[Index(tail)]]
  /\ UNCHANGED <<head, tail, slot, producer, sent, popped>>

\* The slot may be written again.
PopPublishes ==
  /\ consumer.at = "publish"
  /\ tail' = tail + 1
  /\ consumer' = [at |-> "idle", data |-> None]
  /\ popped' = Append(popped, consumer.data)
  /\ UNCHANGED <<head, slot, producer, sent>>

-----------------------------------------------------------------------------
Produce == PushWrites \/ PushPublishes \/ \E d \in Data : PushChecks(d)
Consume == PopChecks \/ PopReads \/ PopPublishes

NextRing == Produce \/ Consume

SpecRing == InitRing /\ [][NextRing]_ringVars

-----------------------------------------------------------------------------
\* The type of each variable.
TypeOKRing ==
  /\ head \in Nat /\ tail \in Nat
  /\ slot \in [0 .. Capacity - 1 -> Data \cup {None}]
  /\ producer \in [at : {"idle", "write", "publish"}, data : Data \cup {None}]
  /\ consumer \in [at : {"idle", "read", "publish"}, data : Data \cup {None}]
  /\ sent \in Seq(Data) /\ popped \in Seq(Data)

Fifo == INSTANCE BoundedFifo
          WITH Bound <- Capacity - 1, received <- popped

\* "Lock-free producer-consumer": without any lock, items come out in the order
\* they went in, none lost, repeated or overwritten before it was read, with
\* one slot fewer than there are.
ImplementsFifo == Fifo!Spec

=============================================================================
