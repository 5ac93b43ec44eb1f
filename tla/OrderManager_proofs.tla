------------------------ MODULE OrderManager_proofs ------------------------
(***************************************************************************)
(* Theorems about OrderManager, for any orders, any tasks, any quantity    *)
(* and any bound on the clock.                                             *)
(*                                                                         *)
(* The invariant falls into three parts that each step keeps for reasons   *)
(* of their own: the lock with its queue and the calls, the orders with    *)
(* what was logged about them, and the indices.                            *)
(***************************************************************************)
EXTENDS OrderManager, SequenceTheorems, TLAPS

USE QuantityAssumption, MaxTimeAssumption, NoneAssumption

-----------------------------------------------------------------------------
(* Queues in which nobody stands twice.                                    *)

Distinct(w) == \A i, j \in 1 .. Len(w) : w[i] = w[j] => i = j

Queued(w, t) == \E i \in 1 .. Len(w) : w[i] = t

\* Somebody who was not there joins at the end.
LEMMA Joins ==
  ASSUME NEW w \in Seq(Tasks), Distinct(w), NEW t \in Tasks, ~Queued(w, t)
  PROVE  /\ Append(w, t) \in Seq(Tasks)
         /\ Distinct(Append(w, t))
         /\ \A u \in Tasks : Queued(Append(w, t), u) <=> u = t \/ Queued(w, u)
<1> DEFINE v == Append(w, t)
<1>1. /\ v \in Seq(Tasks) /\ Len(v) = Len(w) + 1 /\ v[Len(w) + 1] = t
      /\ \A i \in 1 .. Len(w) : v[i] = w[i]
  BY AppendProperties
<1>2. Len(w) \in Nat
  BY LenProperties
<1> HIDE DEF v
<1>3. Distinct(v)
  BY <1>1, <1>2 DEF Distinct, Queued
<1>4. ASSUME NEW u \in Tasks PROVE Queued(v, u) <=> u = t \/ Queued(w, u)
  BY <1>1, <1>2 DEF Queued
<1> QED
  BY <1>1, <1>3, <1>4 DEF v

\* The first leaves, and only the first.
LEMMA Leaves ==
  ASSUME NEW w \in Seq(Tasks), Distinct(w), w # << >>
  PROVE  /\ Tail(w) \in Seq(Tasks)
         /\ Head(w) \in Tasks
         /\ Distinct(Tail(w))
         /\ \A u \in Tasks :
              Queued(Tail(w), u) <=> Queued(w, u) /\ u # Head(w)
<1> DEFINE v == Tail(w)
<1>1. /\ v \in Seq(Tasks) /\ Len(v) = Len(w) - 1
      /\ Head(w) \in Tasks /\ Head(w) = w[1]
      /\ \A i \in 1 .. Len(v) : v[i] = w[i + 1]
  BY HeadTailProperties
<1>2. Len(w) \in Nat /\ Len(w) # 0
  BY LenProperties, EmptySeq
<1> HIDE DEF v
<1>3. Distinct(v)
  BY <1>1, <1>2 DEF Distinct
<1>4. ASSUME NEW u \in Tasks, Queued(v, u)
      PROVE  Queued(w, u) /\ u # Head(w)
  BY <1>1, <1>2, <1>4 DEF Queued, Distinct
<1>5. ASSUME NEW u \in Tasks, Queued(w, u), u # Head(w)
      PROVE  Queued(v, u)
  <2>1. PICK i \in 1 .. Len(w) : w[i] = u
    BY <1>5 DEF Queued
  <2>2. i - 1 \in 1 .. Len(v) /\ v[i - 1] = u
    BY <1>1, <1>2, <1>5, <2>1
  <2> QED
    BY <2>2 DEF Queued
<1> QED
  BY <1>1, <1>3, <1>4, <1>5 DEF v

-----------------------------------------------------------------------------
(* The calls.                                                              *)

\* What a call at each step carries, and the calls there are.
LEMMA CallFields ==
  /\ \A c \in Call :
       /\ c.step \in {"idle", "move", "fill", "logging", "nested"}
       /\ c.step = "idle" <=> c = Idle
       /\ c.step = "move" => /\ c.order \in Orders
                             /\ c.arg \in OrderState
                             /\ [c EXCEPT !.step = "logging"] \in Call
       /\ c.step = "fill" => /\ c.order \in Orders
                             /\ c.arg \in Nat
                             /\ [c EXCEPT !.step = "nested"] \in Call
  /\ Idle \in Call /\ Idle.step = "idle"
  /\ \A o \in Orders, s \in OrderState :
       [step |-> "move", order |-> o, arg |-> s] \in Call
  /\ \A o \in Orders, q \in FillSizes :
       [step |-> "fill", order |-> o, arg |-> q] \in Call
<1>1. Idle \in Call /\ Idle.step = "idle"
  BY DEF Call, Idle
<1>2. ASSUME NEW c \in Call
      PROVE  /\ c.step \in {"idle", "move", "fill", "logging", "nested"}
             /\ c.step = "idle" <=> c = Idle
  BY DEF Call, Idle
<1>3. ASSUME NEW c \in Call, c.step = "move"
      PROVE  /\ c.order \in Orders
             /\ c.arg \in OrderState
             /\ [c EXCEPT !.step = "logging"] \in Call
  <2>1. c \in [step : {"move"}, order : Orders, arg : OrderState]
    BY <1>3 DEF Call, Idle
  <2> QED
    BY <2>1 DEF Call
<1>4. ASSUME NEW c \in Call, c.step = "fill"
      PROVE  /\ c.order \in Orders
             /\ c.arg \in Nat
             /\ [c EXCEPT !.step = "nested"] \in Call
  <2>1. c \in [step : {"fill"}, order : Orders, arg : FillSizes]
    BY <1>4 DEF Call, Idle
  <2> QED
    BY <2>1 DEF Call
<1>5. ASSUME NEW o \in Orders, NEW s \in OrderState
      PROVE  [step |-> "move", order |-> o, arg |-> s] \in Call
  BY DEF Call
<1>6. ASSUME NEW o \in Orders, NEW q \in FillSizes
      PROVE  [step |-> "fill", order |-> o, arg |-> q] \in Call
  BY DEF Call
<1> QED
  BY <1>1, <1>2, <1>3, <1>4, <1>5, <1>6
-----------------------------------------------------------------------------
(* The lock: it is held by the one task that is in the logger or queues a  *)
(* second time, and the queue holds the tasks whose calls wait, once each. *)

LockInv ==
  /\ holder \in Tasks \cup {None}
  /\ waiters \in Seq(Tasks) /\ Distinct(waiters)
  /\ call \in [Tasks -> Call]
  /\ \A t \in Tasks : holder = t <=> call[t].step \in {"logging", "nested"}
  /\ \A t \in Tasks :
       Queued(waiters, t) <=> call[t].step \in {"move", "fill", "nested"}

LEMMA LockStart == Init => LockInv
<1> SUFFICES ASSUME Init PROVE LockInv
  OBVIOUS
<1>1. << >> \in Seq(Tasks) /\ Len(<< >>) = 0
  BY EmptySeq
<1>2. Distinct(waiters) /\ \A t \in Tasks : ~Queued(waiters, t)
  BY <1>1 DEF Init, Distinct, Queued
<1>3. \A t \in Tasks : call[t] = Idle /\ Idle.step = "idle"
  BY CallFields DEF Init
<1> QED
  BY <1>1, <1>2, <1>3, CallFields DEF Init, LockInv

\* A task that asks for the lock stood nowhere in the queue.
LEMMA RequestKeepsLock ==
  ASSUME LockInv, NEW t \in Tasks, NEW step \in {"move", "fill"},
         NEW o \in Orders, NEW arg,
         [step |-> step, order |-> o, arg |-> arg] \in Call,
         Request(t, step, o, arg)
  PROVE  LockInv'
<1> DEFINE c == [step |-> step, order |-> o, arg |-> arg]
<1>1. call[t].step = "idle" /\ c.step = step
  BY CallFields DEF Request
<1>2. /\ call' = [call EXCEPT ![t] = c] /\ c \in Call
      /\ waiters' = Append(waiters, t) /\ holder' = holder
  BY DEF Request
<1> HIDE DEF c
<1>3. ~Queued(waiters, t)
  BY <1>1 DEF LockInv
<1>4. /\ waiters' \in Seq(Tasks) /\ Distinct(waiters')
      /\ \A u \in Tasks : Queued(waiters', u) <=> u = t \/ Queued(waiters, u)
  BY <1>2, <1>3, Joins DEF LockInv
<1>5. call' \in [Tasks -> Call] /\ call'[t] = c
      /\ \A u \in Tasks \ {t} : call'[u] = call[u]
  BY <1>2 DEF LockInv
<1> QED
  BY <1>1, <1>2, <1>4, <1>5 DEF LockInv

\* The first in the queue takes the lock and gives it back at once.
LEMMA ReleaseKeepsLock ==
  ASSUME LockInv, NEW t \in Tasks, Granted(t), waiters' = Tail(waiters),
         Release(t)
  PROVE  LockInv'
<1>1. /\ waiters' \in Seq(Tasks) /\ Distinct(waiters')
      /\ \A u \in Tasks : Queued(waiters', u) <=> Queued(waiters, u) /\ u # t
  BY Leaves DEF LockInv, Granted
<1>2. call' \in [Tasks -> Call] /\ call'[t] = Idle
      /\ \A u \in Tasks \ {t} : call'[u] = call[u]
  BY CallFields DEF LockInv, Release
<1>3. \A u \in Tasks : call[u].step \notin {"logging", "nested"}
  BY DEF LockInv, Granted
<1>4. holder' = None /\ None \notin Tasks
  BY DEF Release
<1> QED
  BY <1>1, <1>2, <1>3, <1>4, CallFields DEF LockInv

\* The first in the queue takes the lock and goes into the logger with it.
LEMMA LoggingKeepsLock ==
  ASSUME LockInv, NEW t \in Tasks, Granted(t), waiters' = Tail(waiters),
         call[t].step = "move", holder' = t,
         call' = [call EXCEPT ![t].step = "logging"]
  PROVE  LockInv'
<1>1. /\ waiters' \in Seq(Tasks) /\ Distinct(waiters')
      /\ \A u \in Tasks : Queued(waiters', u) <=> Queued(waiters, u) /\ u # t
  BY Leaves DEF LockInv, Granted
<1>2. call[t] \in Call /\ [call[t] EXCEPT !.step = "logging"] \in Call
  BY CallFields DEF LockInv
<1>3. /\ call' \in [Tasks -> Call] /\ call'[t].step = "logging"
      /\ \A u \in Tasks \ {t} : call'[u] = call[u]
  <2>1. call' = [call EXCEPT ![t] = [call[t] EXCEPT !.step = "logging"]]
    OBVIOUS
  <2>2. [call[t] EXCEPT !.step = "logging"].step = "logging"
    BY <1>2 DEF Call, Idle
  <2> QED
    BY <1>2, <2>1, <2>2 DEF LockInv
<1>4. \A u \in Tasks : call[u].step \notin {"logging", "nested"}
  BY DEF LockInv, Granted
<1> QED
  BY <1>1, <1>3, <1>4 DEF LockInv

\* The first in the queue takes the lock and queues for it again.
LEMMA NestedKeepsLock ==
  ASSUME LockInv, NEW t \in Tasks, Granted(t),
         waiters' = Append(Tail(waiters), t),
         call[t].step = "fill", holder' = t,
         call' = [call EXCEPT ![t].step = "nested"]
  PROVE  LockInv'
<1> DEFINE w == Tail(waiters)
<1>1. /\ w \in Seq(Tasks) /\ Distinct(w)
      /\ \A u \in Tasks : Queued(w, u) <=> Queued(waiters, u) /\ u # t
  BY Leaves DEF LockInv, Granted
<1>2. /\ waiters' \in Seq(Tasks) /\ Distinct(waiters')
      /\ \A u \in Tasks : Queued(waiters', u) <=> Queued(waiters, u) \/ u = t
  BY <1>1, Joins
<1>3. call[t] \in Call /\ [call[t] EXCEPT !.step = "nested"] \in Call
  BY CallFields DEF LockInv
<1>4. /\ call' \in [Tasks -> Call] /\ call'[t].step = "nested"
      /\ \A u \in Tasks \ {t} : call'[u] = call[u]
  <2>1. call' = [call EXCEPT ![t] = [call[t] EXCEPT !.step = "nested"]]
    OBVIOUS
  <2>2. [call[t] EXCEPT !.step = "nested"].step = "nested"
    BY <1>3 DEF Call, Idle
  <2> QED
    BY <1>3, <2>1, <2>2 DEF LockInv
<1>5. \A u \in Tasks : call[u].step \notin {"logging", "nested"}
  BY DEF LockInv, Granted
<1> QED
  BY <1>2, <1>4, <1>5 DEF LockInv

LEMMA LoggerReturnsKeepsLock ==
  ASSUME LockInv, NEW t \in Tasks, LoggerReturns(t)
  PROVE  LockInv'
<1>1. holder = t /\ holder' = None /\ waiters' = waiters /\ None \notin Tasks
  BY DEF LockInv, LoggerReturns, Release
<1>2. ~Queued(waiters, t)
  BY DEF LockInv, LoggerReturns
<1>3. call' \in [Tasks -> Call] /\ call'[t] = Idle
      /\ \A u \in Tasks \ {t} : call'[u] = call[u]
  BY CallFields DEF LockInv, LoggerReturns, Release
<1> QED
  BY <1>1, <1>2, <1>3, CallFields DEF LockInv

\* The operations are requests, each with its argument.
LEMMA RequestsAre ==
  ASSUME NEW t \in Tasks, NEW o \in Orders,
         \/ \E x \in ExchangeIds : SubmitOrder(t, o, x)
         \/ AcknowledgeOrder(t, o) \/ RejectOrder(t, o) \/ CancelOrder(t, o)
         \/ \E q \in FillSizes : AddFill(t, o, q)
  PROVE  \/ \E s \in OrderState : Request(t, "move", o, s)
         \/ \E q \in FillSizes : Request(t, "fill", o, q)
<1>1. {"submitted", "acknowledged", "rejected", "cancelled"}
        \subseteq OrderState
  BY DEF OrderState
<1> QED
  BY <1>1 DEF SubmitOrder, AcknowledgeOrder, RejectOrder, CancelOrder, AddFill

LEMMA LockStep == ASSUME LockInv, [Next]_vars PROVE LockInv'
<1>1. CASE UNCHANGED vars
  BY <1>1 DEF vars, lockVars, LockInv
<1>2. CASE Tick
  BY <1>2 DEF Tick, lockVars, LockInv
<1>3. ASSUME NEW o \in Orders, CreateOrder(o) PROVE LockInv'
  BY <1>3 DEF CreateOrder, lockVars, LockInv
<1>4. ASSUME NEW t \in Tasks, NEW o \in Orders,
             NEW s \in OrderState, Request(t, "move", o, s)
      PROVE  LockInv'
  BY <1>4, RequestKeepsLock, CallFields
<1>5. ASSUME NEW t \in Tasks, NEW o \in Orders,
             NEW q \in FillSizes, Request(t, "fill", o, q)
      PROVE  LockInv'
  BY <1>5, RequestKeepsLock, CallFields
<1>6. ASSUME NEW t \in Tasks, RefuseMove(t) \/ RefuseFill(t) PROVE LockInv'
  BY <1>6, ReleaseKeepsLock DEF RefuseMove, RefuseFill
<1>7. ASSUME NEW t \in Tasks, Move(t) PROVE LockInv'
  BY <1>7, ReleaseKeepsLock, LoggingKeepsLock DEF Move
<1>8. ASSUME NEW t \in Tasks, RecordFill(t) PROVE LockInv'
  BY <1>8, ReleaseKeepsLock, NestedKeepsLock DEF RecordFill
<1> QED
  BY <1>1, <1>2, <1>3, <1>4, <1>5, <1>6, <1>7, <1>8, RequestsAre,
     LoggerReturnsKeepsLock
  DEF Next, Resume

-----------------------------------------------------------------------------
(* The orders: an order gets into a logged state once, because no allowed  *)
(* transition leaves one.                                                  *)

OrdersInv ==
  /\ state \in [Orders -> OrderState \cup {None}]
  /\ filled \in [Orders -> Nat]
  /\ logged \in [Orders -> Nat]
  /\ FailureLoggedOnce

LEMMA OrdersStart == Init => OrdersInv
BY DEF Init, OrdersInv, FailureLoggedOnce, LoggedStates, OrderState

\* No transition leaves a logged state, and none but the first creates.
LEMMA LoggedIsFinal ==
  \A r \in ValidTransitions :
    r[1] \in OrderState \ LoggedStates /\ r[2] \in OrderState
BY DEF ValidTransitions, OrderState, LoggedStates

LEMMA MoveKeepsOrders ==
  ASSUME OrdersInv, LockInv, NEW t \in Tasks, Move(t)
  PROVE  OrdersInv'
<1> DEFINE o == call[t].order
           s == call[t].arg
<1>1. o \in Orders /\ s \in OrderState
  BY CallFields DEF LockInv, Move
<1>2. state[o] \notin LoggedStates
  BY LoggedIsFinal DEF Move
<1>3. logged[o] = 0
  BY <1>1, <1>2 DEF OrdersInv, FailureLoggedOnce
<1>4. /\ state' = [state EXCEPT ![o] = s]
      /\ logged' = IF s \in LoggedStates
                     THEN [logged EXCEPT ![o] = logged[o] + 1] ELSE logged
      /\ filled' = filled
  BY <1>1 DEF Move, OrdersInv
<1> HIDE DEF o, s
<1>5. /\ state' \in [Orders -> OrderState \cup {None}]
      /\ logged' \in [Orders -> Nat]
  BY <1>1, <1>3, <1>4 DEF OrdersInv
<1>6. FailureLoggedOnce'
  <2> SUFFICES ASSUME NEW u \in Orders
               PROVE  logged'[u] = IF state'[u] \in LoggedStates THEN 1 ELSE 0
    BY DEF FailureLoggedOnce
  <2>1. CASE u = o
    BY <1>1, <1>2, <1>3, <1>4, <2>1 DEF OrdersInv
  <2>2. CASE u # o
    BY <1>1, <1>4, <2>2 DEF OrdersInv, FailureLoggedOnce
  <2> QED
    BY <2>1, <2>2
<1> QED
  BY <1>4, <1>5, <1>6 DEF OrdersInv

LEMMA RecordFillKeepsOrders ==
  ASSUME OrdersInv, LockInv, NEW t \in Tasks, RecordFill(t)
  PROVE  OrdersInv'
<1>1. call[t].order \in Orders /\ call[t].arg \in Nat
  BY CallFields DEF LockInv, RecordFill
<1>2. filled' = [filled EXCEPT ![call[t].order] =
                   filled[call[t].order] + call[t].arg]
      /\ state' = state /\ logged' = logged
  BY DEF RecordFill
<1> QED
  BY <1>1, <1>2 DEF OrdersInv, FailureLoggedOnce

LEMMA OrdersStep == ASSUME OrdersInv, LockInv, [Next]_vars PROVE OrdersInv'
<1>1. ASSUME UNCHANGED <<state, filled, logged>> PROVE OrdersInv'
  BY <1>1 DEF OrdersInv, FailureLoggedOnce
<1>2. ASSUME NEW o \in Orders, CreateOrder(o) PROVE OrdersInv'
  BY <1>2 DEF CreateOrder, Created, OrdersInv, FailureLoggedOnce, OrderState,
              LoggedStates
<1>3. ASSUME NEW t \in Tasks, NEW o \in Orders, NEW s, NEW step,
             Request(t, step, o, s)
      PROVE  UNCHANGED <<state, filled, logged>>
  BY <1>3 DEF Request
<1>4. ASSUME NEW t \in Tasks,
             RefuseMove(t) \/ RefuseFill(t) \/ LoggerReturns(t)
      PROVE  UNCHANGED <<state, filled, logged>>
  BY <1>4 DEF RefuseMove, RefuseFill, LoggerReturns, orderVars
<1>5. UNCHANGED vars \/ Tick => UNCHANGED <<state, filled, logged>>
  BY DEF vars, orderVars, Tick
<1> QED
  BY <1>1, <1>2, <1>3, <1>4, <1>5, RequestsAre, MoveKeepsOrders,
     RecordFillKeepsOrders
  DEF Next, Resume

-----------------------------------------------------------------------------
(* The indices.  By itself IndicesFind does not survive a second order in  *)
(* one millisecond: that needs to know what the client index points at.    *)

IndexInv ==
  /\ now \in 0 .. MaxTime
  /\ exchangeId \in [Orders -> ExchangeIds \cup {None}]
  /\ clientId \in [Orders -> (0 .. MaxTime) \cup {None}]
  /\ byExchange \in [ExchangeIds -> Orders \cup {None}]
  /\ byClient \in [0 .. MaxTime -> Orders \cup {None}]
  /\ \A o \in Orders : exchangeId[o] # None => byExchange[exchangeId[o]] = o
  /\ \A o \in Orders : Created(o) => /\ clientId[o] \in 0 .. MaxTime
                                     /\ byClient[clientId[o]] # None
  /\ \A c \in 0 .. MaxTime :
       byClient[c] # None => /\ Created(byClient[c])
                             /\ clientId[byClient[c]] = c

LEMMA IndexStart == Init => IndexInv
BY DEF Init, IndexInv, Created

LEMMA IndexIsEnough == IndexInv => IndicesFind
BY DEF IndexInv, IndicesFind

\* The new order takes its millisecond over from the one created before it.
LEMMA CreateOrderKeepsIndex ==
  ASSUME IndexInv, OrdersInv, NEW o \in Orders, CreateOrder(o)
  PROVE  IndexInv'
<1>1. /\ clientId' = [clientId EXCEPT ![o] = now]
      /\ byClient' = [byClient EXCEPT ![now] = o]
      /\ state' = [state EXCEPT ![o] = "created"]
      /\ UNCHANGED <<now, exchangeId, byExchange>>
      /\ ~Created(o)
  BY DEF CreateOrder
<1>2. now \in 0 .. MaxTime /\ o # None
  BY DEF IndexInv
<1>3. \A u \in Orders \ {o} : clientId'[u] = clientId[u] /\ state'[u] = state[u]
  BY <1>1 DEF IndexInv, OrdersInv
<1>4. clientId'[o] = now /\ byClient'[now] = o
  BY <1>1, <1>2 DEF IndexInv
<1>5. \A u \in Orders : state'[u] # None =>
        clientId'[u] \in 0 .. MaxTime /\ byClient'[clientId'[u]] # None
  BY <1>1, <1>2, <1>3, <1>4 DEF IndexInv, Created
<1>6. \A c \in 0 .. MaxTime :
        byClient'[c] # None => /\ state'[byClient'[c]] # None
                               /\ clientId'[byClient'[c]] = c
  <2> SUFFICES ASSUME NEW c \in 0 .. MaxTime, byClient'[c] # None
               PROVE  /\ state'[byClient'[c]] # None
                      /\ clientId'[byClient'[c]] = c
    OBVIOUS
  <2>1. CASE c = now
    <3>1. state'[o] = "created" /\ "created" # None
      BY <1>1 DEF OrdersInv, OrderState
    <3> QED
      BY <1>4, <2>1, <3>1
  <2>2. CASE c # now
    <3>1. /\ byClient'[c] = byClient[c] /\ byClient[c] \in Orders
          /\ Created(byClient[c]) /\ clientId[byClient[c]] = c
      BY <1>1, <2>2 DEF IndexInv
    <3>2. byClient[c] # o
      BY <1>1, <3>1
    <3> QED
      BY <1>3, <3>1, <3>2 DEF Created
  <2> QED
    BY <2>1, <2>2
<1> QED
  BY <1>1, <1>2, <1>5, <1>6 DEF IndexInv, Created

\* No other order carries the id that is recorded.
LEMMA SubmitOrderKeepsIndex ==
  ASSUME IndexInv, NEW t \in Tasks, NEW o \in Orders, NEW x \in ExchangeIds,
         SubmitOrder(t, o, x)
  PROVE  IndexInv'
<1>1. /\ exchangeId' = [exchangeId EXCEPT ![o] = x]
      /\ byExchange' = [byExchange EXCEPT ![x] = o]
      /\ byExchange[x] \in {None, o}
      /\ UNCHANGED <<now, clientId, byClient, state>>
  BY DEF SubmitOrder, Request
<1>2. \A u \in Orders : exchangeId'[u] # None => byExchange'[exchangeId'[u]] = u
  <2> SUFFICES ASSUME NEW u \in Orders, exchangeId'[u] # None
               PROVE  byExchange'[exchangeId'[u]] = u
    OBVIOUS
  <2>1. CASE u = o
    BY <1>1, <2>1 DEF IndexInv
  <2>2. CASE u # o
    <3>1. exchangeId'[u] = exchangeId[u] /\ exchangeId[u] # x
      BY <1>1, <2>2 DEF IndexInv
    <3> QED
      BY <1>1, <3>1 DEF IndexInv
  <2> QED
    BY <2>1, <2>2
<1> QED
  BY <1>1, <1>2 DEF IndexInv, Created

LEMMA MoveKeepsIndex ==
  ASSUME IndexInv, OrdersInv, LockInv, NEW t \in Tasks, Move(t)
  PROVE  IndexInv'
<1>1. call[t].order \in Orders /\ call[t].arg \in OrderState
  BY CallFields DEF LockInv, Move
<1>2. /\ state' = [state EXCEPT ![call[t].order] = call[t].arg]
      /\ <<state[call[t].order], call[t].arg>> \in ValidTransitions
      /\ UNCHANGED <<now, exchangeId, clientId, byExchange, byClient>>
  BY DEF Move, indexVars
<1>3. state[call[t].order] \in OrderState
  BY <1>2, LoggedIsFinal
<1>4. \A u \in Orders : state'[u] # None <=> state[u] # None
  BY <1>1, <1>2, <1>3 DEF OrdersInv
<1> QED
  BY <1>2, <1>4 DEF IndexInv, Created

LEMMA IndexStep ==
  ASSUME IndexInv, OrdersInv, LockInv, [Next]_vars PROVE IndexInv'
<1> DEFINE kept == <<now, exchangeId, clientId, byExchange, byClient, state>>
<1>1. ASSUME UNCHANGED kept PROVE IndexInv'
  BY <1>1 DEF IndexInv, Created
<1>2. CASE UNCHANGED vars
  BY <1>1, <1>2 DEF vars, orderVars, indexVars
<1>3. CASE Tick
  BY <1>3 DEF Tick, orderVars, indexVars, IndexInv, Created
<1>4. ASSUME NEW t \in Tasks, NEW o \in Orders,
             \/ AcknowledgeOrder(t, o) \/ RejectOrder(t, o)
             \/ CancelOrder(t, o) \/ \E q \in FillSizes : AddFill(t, o, q)
      PROVE  UNCHANGED kept
  BY <1>4 DEF AcknowledgeOrder, RejectOrder, CancelOrder, AddFill, Request
<1>5. ASSUME NEW t \in Tasks,
             \/ RefuseMove(t) \/ RefuseFill(t) \/ LoggerReturns(t)
             \/ RecordFill(t)
      PROVE  UNCHANGED kept
  BY <1>5 DEF RefuseMove, RefuseFill, LoggerReturns, RecordFill, orderVars,
              indexVars
<1> HIDE DEF kept
<1> QED
  BY <1>1, <1>2, <1>3, <1>4, <1>5, CreateOrderKeepsIndex,
     SubmitOrderKeepsIndex, MoveKeepsIndex
  DEF Next, Resume

-----------------------------------------------------------------------------
(* The theorems.                                                           *)

IInv == LockInv /\ OrdersInv /\ IndexInv

LEMMA Induction == Spec => []IInv
<1>1. Init => IInv
  BY LockStart, OrdersStart, IndexStart DEF IInv
<1>2. IInv /\ [Next]_vars => IInv'
  BY LockStep, OrdersStep, IndexStep DEF IInv
<1> QED
  BY <1>1, <1>2, PTL DEF Spec

\* Every variable keeps its type, and no task queues for the lock twice.
THEOREM TypesKept == Spec => []TypeOK
<1>1. IInv => TypeOK
  BY DEF IInv, LockInv, OrdersInv, IndexInv, Distinct, TypeOK
<1> QED
  BY <1>1, Induction, PTL

\* Each failed order reaches the SOUL log once and no other order does,
\* whatever cancellations and rejections wait for the lock together.
THEOREM FailuresAreLoggedOnce == Spec => []FailureLoggedOnce
<1>1. IInv => FailureLoggedOnce
  BY DEF IInv, OrdersInv
<1> QED
  BY <1>1, Induction, PTL

\* The indices find the order that carries an exchange id, and for a client
\* id that order or one of the same millisecond.
THEOREM IndicesAlwaysFind == Spec => []IndicesFind
<1>1. IInv => IndicesFind
  BY IndexIsEnough DEF IInv
<1> QED
  BY <1>1, Induction, PTL

\* The lock is held over a suspension by the task in the logger or by the one
\* that waits for itself in add_fill, and the queue is that of waiting calls.
THEOREM LockIsHeldForAReason == Spec => []LockHeldForAReason
<1>1. IInv => LockHeldForAReason
  BY DEF IInv, LockInv, Queued, LockHeldForAReason
<1> QED
  BY <1>1, Induction, PTL
=============================================================================
