---------------------------- MODULE OrderManager ----------------------------
(***************************************************************************)
(* execution/order_manager.py: OrderManager and the OrderStateMachine it   *)
(* drives, on one asyncio event loop.                                      *)
(*                                                                         *)
(* A coroutine runs without interruption up to the next await that really  *)
(* suspends.  Those are two: acquiring OrderStateMachine._lock when it is  *)
(* taken (asyncio.Lock serves its waiters first come, first served and is  *)
(* NOT reentrant), and the call of the SOUL logger, which transition makes *)
(* with the lock held.  OrderManager._lock is never held across an await,  *)
(* so it is always free and never suspends anybody.                        *)
(*                                                                         *)
(* A task that finds the lock free goes on at once; here it queues like    *)
(* any other and is granted the lock in a step of its own, which only adds *)
(* interleavings.  A SOUL logger is installed and cancellations carry a    *)
(* reason, as cancel_order's default does.                                 *)
(***************************************************************************)
EXTENDS Naturals, Sequences

CONSTANTS
  Orders,       \* orders that can be created (order_id)
  ExchangeIds,  \* exchange order ids
  Tasks,        \* coroutines calling the manager
  Quantity,     \* the quantity of an order
  FillSizes,    \* the quantities of fills
  MaxTime,      \* bound on the clock, in milliseconds
  None

ASSUME QuantityAssumption == Quantity \in Nat \ {0} /\ FillSizes \subseteq Nat
ASSUME MaxTimeAssumption == MaxTime \in Nat

VARIABLES
  now,         \* int(time.time() * 1000)
  state,       \* Order.state, None before create_order
  filled,      \* Order.filled_quantity
  exchangeId,  \* Order.exchange_order_id
  clientId,    \* Order.client_order_id: "CLI_<milliseconds>"
  byExchange,  \* _orders_by_exchange_id
  byClient,    \* _orders_by_client_id
  logged,      \* lessons the SOUL logger was given for each order
  holder,      \* the task holding OrderStateMachine._lock
  waiters,     \* the tasks suspended on that lock, in order
  call         \* what each task is doing

orderVars == <<state, filled, exchangeId, clientId>>
indexVars == <<byExchange, byClient>>
lockVars  == <<holder, waiters>>
vars == <<now, orderVars, indexVars, logged, lockVars, call>>

-----------------------------------------------------------------------------
OrderState == {"created", "submitted", "acknowledged", "partially_filled",
               "filled", "cancelled", "rejected", "expired"}

\* None stands for "not there", which no value of the program does.
ASSUME NoneAssumption ==
  None \notin Orders \cup ExchangeIds \cup Tasks \cup OrderState

Inactive == {"filled", "cancelled", "rejected", "expired"}   \* not is_active

\* Mutant: the check against VALID_TRANSITIONS is missing.
AnyTransition == OrderState \X OrderState

\* VALID_TRANSITIONS
ValidTransitions ==
  ({"created"} \X {"submitted", "cancelled"})
  \cup ({"submitted"} \X {"acknowledged", "rejected", "cancelled"})
  \cup ({"acknowledged"} \X {"partially_filled", "filled", "cancelled",
                             "expired"})
  \cup ({"partially_filled"} \X {"partially_filled", "filled", "cancelled"})

\* The states whose transition calls the SOUL logger.
LoggedStates == {"rejected", "cancelled"}

\* A task between calls; one that wants the lock to move an order or to add a
\* fill; one suspended in the logger; and one whose add_fill, holding the
\* lock, has called transition and waits for the lock again.
Idle == [step |-> "idle", order |-> None, arg |-> None]

Call == [step : {"move"}, order : Orders, arg : OrderState]
        \cup [step : {"fill"}, order : Orders, arg : FillSizes]
        \cup [step : {"logging"}, order : Orders, arg : OrderState]
        \cup [step : {"nested"}, order : Orders, arg : FillSizes]
        \cup {Idle}

Init ==
  /\ now = 0
  /\ state = [o \in Orders |-> None]
  /\ filled = [o \in Orders |-> 0]
  /\ exchangeId = [o \in Orders |-> None]
  /\ clientId = [o \in Orders |-> None]
  /\ byExchange = [x \in ExchangeIds |-> None]
  /\ byClient = [c \in 0 .. MaxTime |-> None]
  /\ logged = [o \in Orders |-> 0]
  /\ holder = None
  /\ waiters = << >>
  /\ call = [t \in Tasks |-> Idle]

Created(o) == state[o] # None

-----------------------------------------------------------------------------
(* The operations.  Each ends by asking for the lock.                      *)

\* create_order.  The client id is the clock's, not unique within 1 ms.
CreateOrder(o) ==
  /\ ~Created(o)
  /\ state' = [state EXCEPT ![o] = "created"]
  /\ clientId' = [clientId EXCEPT ![o] = now]
  /\ byClient' = [byClient EXCEPT ![now] = o]
  /\ UNCHANGED <<now, filled, exchangeId, byExchange, logged, lockVars, call>>

\* "async with self._lock" is reached: the task queues for the lock.
Request(t, step, o, arg) ==
  /\ call[t] = Idle
  /\ Created(o)
  /\ call' = [call EXCEPT ![t] = [step |-> step, order |-> o, arg |-> arg]]
  /\ waiters' = Append(waiters, t)
  /\ UNCHANGED <<now, state, filled, clientId, byClient, logged, holder>>

\* Mutant: only a first submission is entered in the index.
SubmitIndexingOnce(t, o, x) ==
  /\ Request(t, "move", o, "submitted")
  /\ byExchange[x] \in {None, o}
  /\ exchangeId' = [exchangeId EXCEPT ![o] = x]
  /\ byExchange' = IF exchangeId[o] = None
                     THEN [byExchange EXCEPT ![x] = o] ELSE byExchange

\* submit_order: the ids are recorded before, and whether or not, the
\* transition succeeds.  The exchange gives no id to two orders.
SubmitOrder(t, o, x) ==
  /\ Request(t, "move", o, "submitted")
  /\ byExchange[x] \in {None, o}
  /\ exchangeId' = [exchangeId EXCEPT ![o] = x]
  /\ byExchange' = [byExchange EXCEPT ![x] = o]

\* acknowledge_order and reject_order.
AcknowledgeOrder(t, o) ==
  Request(t, "move", o, "acknowledged") /\ UNCHANGED <<exchangeId, byExchange>>

RejectOrder(t, o) ==
  Request(t, "move", o, "rejected") /\ UNCHANGED <<exchangeId, byExchange>>

\* Mutant: the state asked for is none of OrderState.
CancelMisspelt(t, o) ==
  /\ state[o] \notin Inactive
  /\ Request(t, "move", o, "canceled")
  /\ UNCHANGED <<exchangeId, byExchange>>

\* cancel_order: refused at once when the order is not active.
CancelOrder(t, o) ==
  /\ state[o] \notin Inactive
  /\ Request(t, "move", o, "cancelled")
  /\ UNCHANGED <<exchangeId, byExchange>>

AddFill(t, o, q) ==
  Request(t, "fill", o, q) /\ UNCHANGED <<exchangeId, byExchange>>

-----------------------------------------------------------------------------
(* What a task does with the lock.                                         *)

\* The lock is free and t first in line.
Granted(t) == holder = None /\ waiters # << >> /\ Head(waiters) = t

\* Mutant: the call returns and the lock stays taken.
ReleaseForgotten(t) ==
  /\ UNCHANGED holder
  /\ call' = [call EXCEPT ![t] = Idle]

\* t leaves the "async with" block and its call returns.
Release(t) ==
  /\ holder' = None
  /\ call' = [call EXCEPT ![t] = Idle]

\* transition, refused: "Invalid state transition".
RefuseMove(t) ==
  LET c == call[t] IN
  /\ Granted(t) /\ c.step = "move"
  /\ <<state[c.order], c.arg>> \notin ValidTransitions
  /\ waiters' = Tail(waiters)
  /\ Release(t)
  /\ UNCHANGED <<now, orderVars, indexVars, logged>>

\* transition: the state changes; a rejection or a cancellation is handed to
\* the SOUL logger, with the lock held.
Move(t) ==
  LET c == call[t] IN
  /\ Granted(t) /\ c.step = "move"
  /\ <<state[c.order], c.arg>> \in ValidTransitions
  /\ waiters' = Tail(waiters)
  /\ state' = [state EXCEPT ![c.order] = c.arg]
  /\ IF c.arg \in LoggedStates
       THEN /\ holder' = t
            /\ call' = [call EXCEPT ![t].step = "logging"]
            /\ logged' = [logged EXCEPT ![c.order] = @ + 1]
       ELSE Release(t) /\ UNCHANGED logged
  /\ UNCHANGED <<now, filled, exchangeId, clientId, indexVars>>

\* The logger returns or raises (the exception is swallowed).
LoggerReturns(t) ==
  /\ call[t].step = "logging"
  /\ Release(t)
  /\ UNCHANGED <<now, orderVars, indexVars, logged, waiters>>

\* add_fill on an inactive order returns False.
RefuseFill(t) ==
  /\ Granted(t) /\ call[t].step = "fill"
  /\ state[call[t].order] \in Inactive
  /\ waiters' = Tail(waiters)
  /\ Release(t)
  /\ UNCHANGED <<now, orderVars, indexVars, logged>>

\* add_fill records the fill.  Unless no state change is due, it then awaits
\* transition, which asks for the lock that add_fill holds: t queues behind
\* itself, and no step of the code can grant it the lock.
RecordFill(t) ==
  LET c == call[t]
      total == filled[c.order] + c.arg
      due == \/ total >= Quantity
             \/ /\ total > filled[c.order]
                /\ state[c.order] # "partially_filled" IN
  /\ Granted(t) /\ c.step = "fill"
  /\ state[c.order] \notin Inactive
  /\ filled' = [filled EXCEPT ![c.order] = total]
  /\ IF due
       THEN /\ holder' = t
            /\ waiters' = Append(Tail(waiters), t)
            /\ call' = [call EXCEPT ![t].step = "nested"]
       ELSE waiters' = Tail(waiters) /\ Release(t)
  /\ UNCHANGED <<now, state, exchangeId, clientId, indexVars, logged>>

Tick == now < MaxTime /\ now' = now + 1
        /\ UNCHANGED <<orderVars, indexVars, logged, lockVars, call>>

-----------------------------------------------------------------------------
\* What the event loop does for a task in a call.
Resume(t) == RefuseMove(t) \/ Move(t) \/ LoggerReturns(t)
             \/ RefuseFill(t) \/ RecordFill(t)

Next ==
  \/ Tick
  \/ \E o \in Orders : CreateOrder(o)
  \/ \E t \in Tasks, o \in Orders :
       \/ \E x \in ExchangeIds : SubmitOrder(t, o, x)
       \/ AcknowledgeOrder(t, o) \/ RejectOrder(t, o) \/ CancelOrder(t, o)
       \/ \E q \in FillSizes : AddFill(t, o, q)
  \/ \E t \in Tasks : Resume(t)

Spec == Init /\ [][Next]_vars

\* The event loop resumes every task that can run, and the logger returns.
FairSpec == Spec /\ \A t \in Tasks : WF_vars(Resume(t))

-----------------------------------------------------------------------------
\* The type of each variable; a task is queued at most once.
TypeOK ==
  /\ now \in 0 .. MaxTime
  /\ state \in [Orders -> OrderState \cup {None}]
  /\ filled \in [Orders -> Nat]
  /\ exchangeId \in [Orders -> ExchangeIds \cup {None}]
  /\ clientId \in [Orders -> (0 .. MaxTime) \cup {None}]
  /\ byExchange \in [ExchangeIds -> Orders \cup {None}]
  /\ byClient \in [0 .. MaxTime -> Orders \cup {None}]
  /\ logged \in [Orders -> Nat]
  /\ holder \in Tasks \cup {None}
  /\ waiters \in Seq(Tasks)
  /\ call \in [Tasks -> Call]
  /\ \A i, j \in 1 .. Len(waiters) : waiters[i] = waiters[j] => i = j

\* cancel_order looks at is_active before it waits for the lock, and several
\* cancellations and rejections may wait at once: still each failed order is
\* logged to SOUL.md once, and no other order is.
FailureLoggedOnce ==
  \A o \in Orders :
    logged[o] = IF state[o] \in LoggedStates THEN 1 ELSE 0

\* The indices find what was entered in them.  get_order_by_exchange_id finds
\* an order by the id it carries, also after refused and repeated submissions;
\* get_order_by_client_id finds it or one created in the same millisecond.
IndicesFind ==
  /\ \A o \in Orders :
       exchangeId[o] # None => byExchange[exchangeId[o]] = o
  /\ \A o \in Orders :
       Created(o) => /\ byClient[clientId[o]] # None
                     /\ clientId[byClient[clientId[o]]] = clientId[o]

\* A task that holds the lock over a suspension is in the logger or is the
\* victim of add_fill's nested acquire; nobody else ever finds it taken.
LockHeldForAReason ==
  /\ \A t \in Tasks :
       holder = t <=> call[t].step \in {"logging", "nested"}
  /\ \A t \in Tasks :
       call[t].step \in {"move", "fill", "nested"}
         <=> \E i \in 1 .. Len(waiters) : waiters[i] = t

Nested == \E t \in Tasks : call[t].step = "nested"

\* Every call returns, or add_fill has taken the lock twice: the lock is first
\* come first served, so no queue of callers starves one of them.
CallsReturnOrFillHangs ==
  \A t \in Tasks : call[t] # Idle ~> call[t] = Idle \/ Nested

\* add_fill: "Returns: True if fill added successfully".  With the lock taken
\* twice it never does.
FillReturns == \A t \in Tasks : call[t].step = "fill" ~> call[t] = Idle
=============================================================================
