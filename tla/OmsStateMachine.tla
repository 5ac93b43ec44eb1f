-------------------------- MODULE OmsStateMachine ---------------------------
(***************************************************************************)
(* oms/state_machine.rs: OmsStateMachineManager and the OrderStateMachine  *)
(* of each order, called by concurrent threads.                            *)
(*                                                                         *)
(* Every step is one access to shared memory, or one critical section:     *)
(* the swap and the store of is_transitioning, do_transition (it holds the *)
(* write lock of current_state to its end), the insertion into the map and *)
(* its look-up, each fetch_add and fetch_sub.  cleanup_terminal_orders     *)
(* holds the map's write lock while it reads the orders one by one.        *)
(*                                                                         *)
(* create_order hands its caller an Arc of the machine, on which           *)
(* transition and force_transition may be called without the manager.      *)
(* DirectAccess and ForcedStates say whether the program does that.        *)
(***************************************************************************)
EXTENDS OmsOrderStates, Integers, Sequences, FiniteSets

CONSTANTS
  Orders,           \* the orders that can be created (OrderId)
  Threads,          \* the threads that call the manager
  MaxStateHistory,  \* MAX_STATE_HISTORY
  CountModulus,     \* 2^64: the counters are AtomicU64 and wrap
  DirectAccess,     \* is transition called on the Arc of a machine?
  Events,           \* the events that callers deliver
  ForcedStates,     \* the states recovery forces orders into, if any
  None              \* no order, no event

ASSUME MaxStateHistoryAssumption == MaxStateHistory \in Nat \ {0}
ASSUME CountModulusAssumption == CountModulus \in Nat \ {0}
ASSUME AccessAssumption ==
  DirectAccess \in BOOLEAN /\ Events \subseteq StateEvent
                          /\ ForcedStates \subseteq OrderState
ASSUME NoneAssumption == None \notin Orders /\ None \notin StateEvent
ASSUME OrdersAssumption == IsFiniteSet(Orders)

VARIABLES
  created,        \* orders whose id create_order has issued
  orders,         \* the keys of the manager's map
  state,          \* current_state of each machine
  history,        \* the retained StateChangeRecords of each machine
  transitioning,  \* is_transitioning of each machine
  activeCount,    \* active_count
  terminalCount,  \* terminal_count
  cleaner,        \* threads inside cleanup_terminal_orders (the map's writer)
  toVisit,        \* orders its retain has not visited yet
  pc,             \* where each thread is
  target,         \* the order each thread works on
  event,          \* the event of the call in progress
  managed,        \* whether that call came through process_event
  result          \* its TransitionResult, once do_transition has run

vars == <<created, orders, state, history, transitioning, activeCount,
          terminalCount, cleaner, toVisit, pc, target, event, managed, result>>

machineVars == <<state, history, transitioning>>
mapVars     == <<created, orders, cleaner, toVisit>>
countVars   == <<activeCount, terminalCount>>
callVars    == <<target, event, managed, result>>

PC == {"idle", "creating", "found", "owner", "applied", "uncount", "recount",
       "cleaning"}

NoResult == [success |-> FALSE, previous |-> "Pending", new |-> "Pending"]

TransitionResult ==
  [success : BOOLEAN, previous : OrderState, new : OrderState]

StateChangeRecord == [from : OrderState, to : OrderState]

-----------------------------------------------------------------------------
(* The transition rules.                                                   *)

\* The match of do_transition on (event, current state), Timeout aside.
EventTable ==
  {<<"SubmitRequested", "Pending",         "Submitted">>,
   <<"ExchangeAck",     "Submitted",       "Acknowledged">>,
   <<"Reject",          "Submitted",       "Rejected">>,
   <<"ExchangeAck",     "Acknowledged",    "Working">>,
   <<"Reject",          "Acknowledged",    "Rejected">>,
   <<"Fill",            "Working",         "PartiallyFilled">>,
   <<"FullFill",        "Working",         "Filled">>,
   <<"CancelRequested", "Working",         "InFlight">>,
   <<"CancelConfirmed", "InFlight",        "Cancelled">>,
   <<"FullFill",        "PartiallyFilled", "Filled">>,
   <<"CancelConfirmed", "PartiallyFilled", "Cancelled">>,
   <<"Trigger",         "Pending",         "Triggered">>,
   <<"ExchangeAck",     "Triggered",       "Working">>,
   <<"CancelConfirmed", "Triggered",       "Cancelled">>,
   <<"ModifyRequested", "Working",         "InFlight">>,
   <<"ModifyConfirmed", "InFlight",        "InFlight">>}

\* The states the match can yield: none when the pair has no arm.
TargetStates(e, s) ==
  IF e = "Timeout" THEN {IF s \in Active THEN "Expired" ELSE s}
                   ELSE {n \in OrderState : <<e, s, n>> \in EventTable}

\* The matches! of is_valid_transition.  Its early return for a terminal
\* state adds nothing: no pair listed here starts in one.
ValidMoves ==
  {<<"Pending", "Submitted">>, <<"Pending", "Triggered">>,
   <<"Submitted", "Acknowledged">>, <<"Submitted", "Rejected">>,
   <<"Acknowledged", "Working">>, <<"Acknowledged", "Rejected">>,
   <<"Working", "PartiallyFilled">>, <<"Working", "Filled">>,
   <<"Working", "InFlight">>, <<"Working", "Expired">>,
   <<"PartiallyFilled", "Filled">>, <<"PartiallyFilled", "InFlight">>,
   <<"InFlight", "Cancelled">>, <<"InFlight", "Working">>,
   <<"Triggered", "Working">>, <<"Triggered", "Cancelled">>}

\* Mutant: is_valid_transition is not asked.
SuccessorsUnchecked(e, s) == TargetStates(e, s)

\* The states an event may move an order to: the arm's target, if legal.
Successors(e, s) == {n \in TargetStates(e, s) : <<s, n>> \in ValidMoves}

\* Mutant: a full history drops the new record.
RememberOldest(h, rec) ==
  IF Len(h) >= MaxStateHistory THEN h ELSE Append(h, rec)

\* pop_front when full, then push_back.
Remember(h, rec) ==
  Append(IF Len(h) >= MaxStateHistory THEN Tail(h) ELSE h, rec)

-----------------------------------------------------------------------------
Init ==
  /\ created = {} /\ orders = {}
  /\ state = [o \in Orders |-> "Pending"]
  /\ history = [o \in Orders |-> << >>]
  /\ transitioning = [o \in Orders |-> FALSE]
  /\ activeCount = 0 /\ terminalCount = 0
  /\ cleaner = {} /\ toVisit = {}
  /\ pc = [t \in Threads |-> "idle"]
  /\ target = [t \in Threads |-> None]
  /\ event = [t \in Threads |-> None]
  /\ managed = [t \in Threads |-> TRUE]
  /\ result = [t \in Threads |-> NoResult]

\* Mutant: the id gets out before create_order has counted the order.
SharedEarly == created

\* Orders whose id a caller can hold: create_order has returned it.
Shared == {o \in created : \A t \in Threads :
                              ~(pc[t] = "creating" /\ target[t] = o)}

\* Thread t forgets its call.
Return(t) ==
  /\ pc' = [pc EXCEPT ![t] = "idle"]
  /\ target' = [target EXCEPT ![t] = None]
  /\ event' = [event EXCEPT ![t] = None]
  /\ managed' = [managed EXCEPT ![t] = TRUE]
  /\ result' = [result EXCEPT ![t] = NoResult]

\* create_order, up to the end of the map's write lock.
CreateOrder(t, o) ==
  /\ pc[t] = "idle" /\ cleaner = {} /\ o \notin created
  /\ created' = created \cup {o}
  /\ orders' = orders \cup {o}
  /\ pc' = [pc EXCEPT ![t] = "creating"]
  /\ target' = [target EXCEPT ![t] = o]
  /\ UNCHANGED <<machineVars, countVars, cleaner, toVisit, event, managed,
                 result>>

\* create_order: active_count.fetch_add, and return.
CountCreated(t) ==
  /\ pc[t] = "creating"
  /\ activeCount' = (activeCount + 1) % CountModulus
  /\ Return(t)
  /\ UNCHANGED <<machineVars, mapVars, terminalCount>>

\* process_event: get_order finds the machine.  When the order is not in the
\* map the call returns None and nothing changes.
ProcessEvent(t, o, e) ==
  /\ pc[t] = "idle" /\ cleaner = {}
  /\ o \in Shared \cap orders
  /\ pc' = [pc EXCEPT ![t] = "found"]
  /\ target' = [target EXCEPT ![t] = o]
  /\ event' = [event EXCEPT ![t] = e]
  /\ managed' = [managed EXCEPT ![t] = TRUE]
  /\ UNCHANGED <<machineVars, mapVars, countVars, result>>

\* transition called on the Arc itself.
CallTransition(t, o, e) ==
  /\ DirectAccess
  /\ pc[t] = "idle"
  /\ o \in Shared
  /\ pc' = [pc EXCEPT ![t] = "found"]
  /\ target' = [target EXCEPT ![t] = o]
  /\ event' = [event EXCEPT ![t] = e]
  /\ managed' = [managed EXCEPT ![t] = FALSE]
  /\ UNCHANGED <<machineVars, mapVars, countVars, result>>

\* Mutant: what the swap returns is ignored.
SwapIgnored(t) ==
  /\ pc[t] = "found"
  /\ transitioning' = [transitioning EXCEPT ![target[t]] = TRUE]
  /\ pc' = [pc EXCEPT ![t] = "owner"]
  /\ UNCHANGED <<state, history, mapVars, countVars, callVars>>

\* transition: swap finds the flag down, and raises it.
SwapWins(t) ==
  /\ pc[t] = "found" /\ ~transitioning[target[t]]
  /\ transitioning' = [transitioning EXCEPT ![target[t]] = TRUE]
  /\ pc' = [pc EXCEPT ![t] = "owner"]
  /\ UNCHANGED <<state, history, mapVars, countVars, callVars>>

\* Mutant: the flag is spun on.
SwapSpins(t) == pc[t] = "found" /\ transitioning[target[t]] /\ UNCHANGED vars

\* transition: swap finds the flag up; the event is refused.
SwapLoses(t) ==
  /\ pc[t] = "found" /\ transitioning[target[t]]
  /\ Return(t)
  /\ UNCHANGED <<machineVars, mapVars, countVars>>

\* do_transition, the event accepted.
Apply(t) ==
  LET o == target[t] IN
  /\ pc[t] = "owner"
  /\ \E n \in Successors(event[t], state[o]) :
       /\ state' = [state EXCEPT ![o] = n]
       /\ history' = [history EXCEPT ![o] =
                        Remember(@, [from |-> state[o], to |-> n])]
       /\ result' = [result EXCEPT ![t] =
                       [success |-> TRUE, previous |-> state[o], new |-> n]]
  /\ pc' = [pc EXCEPT ![t] = "applied"]
  /\ UNCHANGED <<transitioning, mapVars, countVars, target, event, managed>>

\* Mutant: a refusal leaves transition before the flag is lowered.
RefuseEarly(t) ==
  /\ pc[t] = "owner"
  /\ Successors(event[t], state[target[t]]) = {}
  /\ Return(t)
  /\ UNCHANGED <<machineVars, mapVars, countVars>>

\* do_transition, the event refused ("Invalid" or "Illegal transition").
Refuse(t) ==
  LET s == state[target[t]] IN
  /\ pc[t] = "owner"
  /\ Successors(event[t], s) = {}
  /\ result' = [result EXCEPT ![t] =
                  [success |-> FALSE, previous |-> s, new |-> s]]
  /\ pc' = [pc EXCEPT ![t] = "applied"]
  /\ UNCHANGED <<machineVars, mapVars, countVars, target, event, managed>>

\* transition: store(false).  process_event goes on to the counters when the
\* order became terminal.
ReleaseFlag(t) ==
  /\ pc[t] = "applied"
  /\ transitioning' = [transitioning EXCEPT ![target[t]] = FALSE]
  /\ IF managed[t] /\ result[t].success /\ result[t].new \in Terminal
       THEN /\ pc' = [pc EXCEPT ![t] = "uncount"]
            /\ UNCHANGED callVars
       ELSE Return(t)
  /\ UNCHANGED <<state, history, mapVars, countVars>>

\* process_event: active_count.fetch_sub.
UncountActive(t) ==
  /\ pc[t] = "uncount"
  /\ activeCount' = (activeCount - 1) % CountModulus
  /\ pc' = [pc EXCEPT ![t] = "recount"]
  /\ UNCHANGED <<machineVars, mapVars, terminalCount, callVars>>

\* process_event: terminal_count.fetch_add, and return.
CountTerminal(t) ==
  /\ pc[t] = "recount"
  /\ terminalCount' = (terminalCount + 1) % CountModulus
  /\ Return(t)
  /\ UNCHANGED <<machineVars, mapVars, activeCount>>

\* force_transition: any state, whatever the flag and the rules say.
ForceTransition(t, o, n) ==
  /\ pc[t] = "idle"
  /\ o \in Shared
  /\ state' = [state EXCEPT ![o] = n]
  /\ history' = [history EXCEPT ![o] =
                   Remember(@, [from |-> state[o], to |-> n])]
  /\ UNCHANGED <<transitioning, mapVars, countVars, pc, callVars>>

\* Mutant: the clean-up walks every order ever created.
StartCleanupOfAll(t) ==
  /\ pc[t] = "idle" /\ cleaner = {}
  /\ cleaner' = {t}
  /\ toVisit' = created
  /\ pc' = [pc EXCEPT ![t] = "cleaning"]
  /\ UNCHANGED <<machineVars, created, orders, countVars, callVars>>

\* cleanup_terminal_orders takes the map's write lock.
StartCleanup(t) ==
  /\ pc[t] = "idle" /\ cleaner = {}
  /\ cleaner' = {t}
  /\ toVisit' = orders
  /\ pc' = [pc EXCEPT ![t] = "cleaning"]
  /\ UNCHANGED <<machineVars, created, orders, countVars, callVars>>

\* Mutant: an order is kept only while is_active.
VisitInactive(t, o) ==
  /\ pc[t] = "cleaning" /\ o \in toVisit
  /\ toVisit' = toVisit \ {o}
  /\ orders' = IF state[o] \notin Active THEN orders \ {o} ELSE orders
  /\ UNCHANGED <<machineVars, created, cleaner, countVars, pc, callVars>>

\* retain reads the state of one more order, and keeps it unless terminal.
VisitOrder(t, o) ==
  /\ pc[t] = "cleaning" /\ o \in toVisit
  /\ toVisit' = toVisit \ {o}
  /\ orders' = IF state[o] \in Terminal THEN orders \ {o} ELSE orders
  /\ UNCHANGED <<machineVars, created, cleaner, countVars, pc, callVars>>

EndCleanup(t) ==
  /\ pc[t] = "cleaning" /\ toVisit = {}
  /\ cleaner' = {}
  /\ pc' = [pc EXCEPT ![t] = "idle"]
  /\ UNCHANGED <<machineVars, created, orders, toVisit, countVars, callVars>>

-----------------------------------------------------------------------------
\* The steps by which a call in progress goes on.
Continue(t) ==
  \/ CountCreated(t)
  \/ SwapWins(t) \/ SwapLoses(t)
  \/ Apply(t) \/ Refuse(t)
  \/ ReleaseFlag(t)
  \/ UncountActive(t) \/ CountTerminal(t)
  \/ \E o \in Orders : VisitOrder(t, o)
  \/ EndCleanup(t)

\* The calls a thread may make.
Call(t) ==
  \/ \E o \in Orders : CreateOrder(t, o)
  \/ \E o \in Orders, e \in Events : ProcessEvent(t, o, e)
  \/ \E o \in Orders, e \in Events : CallTransition(t, o, e)
  \/ \E o \in Orders, n \in ForcedStates : ForceTransition(t, o, n)
  \/ StartCleanup(t)

Next == \E t \in Threads : Call(t) \/ Continue(t)

Spec == Init /\ [][Next]_vars

\* No step of a call waits for another thread, so a thread that keeps running
\* keeps taking them.
FairSpec == Spec /\ \A t \in Threads : WF_vars(Continue(t))

-----------------------------------------------------------------------------
(* Types.                                                                  *)

\* The type of each variable.
TypeOK ==
  /\ created \subseteq Orders
  /\ orders \subseteq created
  /\ state \in [Orders -> OrderState]
  /\ history \in [Orders -> Seq(StateChangeRecord)]
  /\ transitioning \in [Orders -> BOOLEAN]
  /\ activeCount \in 0 .. CountModulus - 1
  /\ terminalCount \in 0 .. CountModulus - 1
  /\ cleaner \subseteq Threads
  /\ toVisit \subseteq orders
  /\ pc \in [Threads -> PC]
  /\ target \in [Threads -> Orders \cup {None}]
  /\ event \in [Threads -> StateEvent \cup {None}]
  /\ managed \in [Threads -> BOOLEAN]
  /\ result \in [Threads -> TransitionResult]

-----------------------------------------------------------------------------
(* Safety.                                                                 *)

InTransition(t, o) == pc[t] \in {"owner", "applied"} /\ target[t] = o

\* "Prevent concurrent transitions": an order's flag is up exactly while one
\* thread, and only one, is between its swap and its store.
OneTransitionAtATime ==
  \A o \in Orders :
    /\ transitioning[o] <=> \E t \in Threads : InTransition(t, o)
    /\ \A t, u \in Threads : InTransition(t, o) /\ InTransition(u, o) => t = u

\* "Complete audit trail of all state changes": the records kept for an order
\* lead without a gap to the state it is in, also when force_transition cuts
\* into a transition; and they lead from Pending as long as none was dropped.
HistoryIsThePath ==
  \A o \in Orders :
    LET h == history[o] IN
    /\ Len(h) <= MaxStateHistory
    /\ h = << >> => state[o] = "Pending"
    /\ h # << >> => h[Len(h)].to = state[o]
    /\ \A i \in 1 .. Len(h) - 1 : h[i].to = h[i + 1].from
    /\ h # << >> /\ Len(h) < MaxStateHistory => h[1].from = "Pending"

\* Between do_transition and the last counter update other threads may run,
\* yet what the TransitionResult told the caller stays true: under the flag
\* for any result, and after it for the terminal ones that will be counted.
ResultStillTrue ==
  \A t \in Threads :
    pc[t] \in {"applied", "uncount", "recount"}
      => /\ result[t].new = state[target[t]]
         /\ pc[t] # "applied" => state[target[t]] \in Terminal

\* The threads whose call still owes a counter update.
At(l) == {t \in Threads : pc[t] = l}

\* The counters are off by exactly the updates of the calls in progress:
\* active_count counts the orders that are not terminal, terminal_count those
\* that are, and no counter ever wraps.
CountersExact ==
  /\ activeCount = Cardinality({o \in created : state[o] \notin Terminal})
                   + Cardinality({t \in Threads :
                        \/ pc[t] = "uncount"
                        \/ /\ pc[t] = "applied"
                           /\ result[t].success
                           /\ result[t].new \in Terminal})
                   - Cardinality(At("creating"))
  /\ terminalCount = Cardinality({o \in created : state[o] \in Terminal})
                     - Cardinality({t \in Threads :
                          \/ pc[t] \in {"uncount", "recount"}
                          \/ /\ pc[t] = "applied"
                             /\ result[t].success
                             /\ result[t].new \in Terminal})

\* cleanup_terminal_orders runs while orders are being created and moved, and
\* still never drops from the map an order that lives on.
NoLiveOrderLost == \A o \in created \ orders : state[o] \in Terminal

-----------------------------------------------------------------------------
(* The machine implements the lifecycle that StateTransition declares.     *)

Lifecycle == INSTANCE OrderLifecycle WITH known <- created

\* Whatever the interleaving, orders make declared moves only.
ImplementsLifecycle == Lifecycle!Spec

-----------------------------------------------------------------------------
(* Liveness.                                                               *)

\* "Lock-free": a call returns however often other threads call, and it does
\* not leave its order closed to events.
EveryCallReturns ==
  /\ \A t \in Threads : pc[t] # "idle" ~> pc[t] = "idle"
  /\ \A o \in Orders : transitioning[o] ~> ~transitioning[o]
=============================================================================
