--------------------------- MODULE MCConcurrency ---------------------------
(***************************************************************************)
(* The two locks, the ring buffer and the message broker side by side.     *)
(* They share no state, so a step of one changes nothing another sees, and *)
(* exploring one of them at a time loses no behaviour: subject says which. *)
(***************************************************************************)
EXTENDS ReadWriteLock, RingBuffer

CONSTANTS MaxNesting, NoThread
CONSTANTS Messages, Subscribers, Filtering, Loops, QueueSize, MaxDead, MaxJoins,
          NoMessage

VARIABLES count, waiting, active, place, held, writerThread, releasing
VARIABLES running, publishing, queue, subscribers, joins, loop, dead,
          received, failed, declined, raised, owed
VARIABLE subject

Nested == INSTANCE ReentrantLock
  WITH readers <- count, writersWaiting <- waiting, writerActive <- active,
       pc <- place
Broker == INSTANCE MessageBroker

ASSUME NestedParameters == Nested!ParametersOK
ASSUME RingParameters == ParametersOK
ASSUME BrokerParameters == Broker!ParametersOK

nestedVars == <<count, waiting, active, place, held, writerThread, releasing>>
brokerVars == <<running, publishing, queue, subscribers, joins, loop,
                dead, received, failed, declined, raised, owed>>
vars == <<subject, lockVars, nestedVars, ringVars, brokerVars>>

InitAll ==
  /\ subject \in {"lock", "nested", "ring", "broker"}
  /\ Init /\ Nested!InitReentrant /\ InitRing /\ Broker!Init

NextAll ==
  /\ UNCHANGED subject
  /\ \/ /\ subject = "lock" /\ Next
        /\ UNCHANGED <<nestedVars, ringVars, brokerVars>>
     \/ /\ subject = "nested" /\ Nested!NextReentrant
        /\ UNCHANGED <<lockVars, ringVars, brokerVars>>
     \/ /\ subject = "ring" /\ NextRing
        /\ UNCHANGED <<lockVars, nestedVars, brokerVars>>
     \/ /\ subject = "broker" /\ Broker!Next
        /\ UNCHANGED <<lockVars, nestedVars, ringVars>>

SpecAll ==
  /\ InitAll
  /\ [][NextAll]_vars
  /\ subject = "lock" => Fairness

\* The type of each variable of the four components.
TypesOK ==
  TypeOK /\ Nested!TypeOKReentrant /\ TypeOKRing /\ Broker!TypeOK

\* ReentrantLock: two writers never meet, whatever nesting does.
OneWriter == Nested!OneWriter

\* MessageBroker: each subscriber gets the message or fails on it.
NobodyIsSkipped == Broker!NobodyIsSkipped
=============================================================================
