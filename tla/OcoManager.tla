----------------------------- MODULE OcoManager -----------------------------
(***************************************************************************)
(* oms/oco_manager.py: OCOManager, the exchange that holds the orders of   *)
(* its groups, and the reports that come back.                             *)
(*                                                                         *)
(* create_oco_group checks the limit and registers the group in two        *)
(* separate holdings of _global_lock and activates it after both, so it is *)
(* three steps of a thread.  Each event handler does its work in one       *)
(* holding of the group's lock and is one step; the look-ups before it     *)
(* read indices that only cleanup_all shrinks.  Handlers run concurrently, *)
(* so reports are processed in any order, before initialize_async has run  *)
(* and after it.  callback_on_execution, called last under the group's     *)
(* reentrant lock, changes nothing itself and what it raises is caught;    *)
(* the calls it may make of the manager are later steps here.              *)
(***************************************************************************)
EXTENDS Integers, FiniteSets

CONSTANTS
  Groups,      \* group ids
  Creators,    \* threads calling create_oco_group
  MaxGroups,   \* max_groups
  Quantity,    \* quantity of each leg
  MaxPlaced,   \* bound: groups whose orders are placed at the exchange
  OffLoop,     \* do handlers also run on threads without an event loop?
  None

ASSUME MaxGroupsAssumption == MaxGroups \in Nat \ {0}
ASSUME QuantityAssumption == Quantity \in Nat \ {0}
ASSUME OffLoopAssumption == OffLoop \in BOOLEAN
ASSUME ActorsAssumption == IsFiniteSet(Groups) /\ IsFiniteSet(Creators)

VARIABLES
  groups,     \* the keys of _groups
  indexed,    \* groups whose two order ids are in _order_index
  state,      \* OCOGroup.state, None before the group exists
  assigned,   \* groups whose legs carry their order ids
  remaining,  \* OCOLeg.remaining_quantity
  status,     \* OCOLeg.status
  initialized, \* initialize_async has made _cancellation_queue
  queue,      \* _cancellation_queue: legs to cancel
  asked,      \* legs ever put on that queue
  creating,   \* what each thread in create_oco_group has got to
  placed,     \* exchange: groups whose two orders have been placed
  open,       \* exchange: legs whose order is open
  unfilled,   \* exchange: quantity of each leg's order not yet executed
  reports     \* execution and cancellation reports under way

managerVars  == <<groups, indexed, state, assigned, remaining, status>>
cancelVars   == <<initialized, queue, asked>>
exchangeVars == <<placed, open, unfilled, reports>>
vars == <<managerVars, cancelVars, creating, exchangeVars>>

-----------------------------------------------------------------------------
Leg == {"A", "B"}
Other(l) == IF l = "A" THEN "B" ELSE "A"
Orders == Groups \X Leg
Counterpart(x) == <<x[1], Other(x[2])>>

\* OCOState; the last three are assigned nowhere in the code.
Completed == {"FULLY_FILLED", "FULLY_CANCELLED", "ERROR"}
OCOState == {"PENDING", "ACTIVE", "LEG_A_FILLED", "LEG_B_FILLED",
             "LEG_A_CANCELLED", "LEG_B_CANCELLED", "PARTIAL_FILL_A",
             "PARTIAL_FILL_B"} \cup Completed

ASSUME NoneAssumption == None \notin Groups \cup OCOState

FilledState(l)    == IF l = "A" THEN "LEG_A_FILLED" ELSE "LEG_B_FILLED"
CancelledState(l) == IF l = "A" THEN "LEG_A_CANCELLED" ELSE "LEG_B_CANCELLED"
PartialState(l)   == IF l = "A" THEN "PARTIAL_FILL_A" ELSE "PARTIAL_FILL_B"

\* OCOLeg.status; EXPIRED is looked for and stored nowhere.
LegStatus == {"NEW", "PARTIALLY_FILLED", "FILLED", "CANCELLED", "EXPIRED",
              "PENDING_CANCEL"}

\* OCOLeg.is_fully_filled, OCOLeg.is_cancelled.
IsFullyFilled(x) == remaining[x] <= 0 /\ status[x] = "FILLED"
IsCancelled(x) == status[x] \in {"CANCELLED", "EXPIRED"}

\* OCOGroup.is_active
IsActive(g) == state[g] \in {"ACTIVE", "LEG_A_FILLED", "LEG_B_FILLED",
                             "PARTIAL_FILL_A", "PARTIAL_FILL_B"}

\* The status an execution is reported with: handle_leg_fill's default says
\* FILLED of a partial fill too.
Reported(rest) == {"FILLED"} \cup IF rest = 0 THEN {} ELSE {"PARTIALLY_FILLED"}

Report == [kind : {"fill"}, order : Orders, remaining : 0 .. Quantity,
           status : {"FILLED", "PARTIALLY_FILLED"}]
          \cup [kind : {"cancel"}, order : Orders]

Idle == [step |-> "idle", group |-> None]

Init ==
  /\ groups = {} /\ indexed = {} /\ assigned = {}
  /\ state = [g \in Groups |-> None]
  /\ remaining = [x \in Orders |-> Quantity]
  /\ status = [x \in Orders |-> "NEW"]
  /\ initialized = FALSE /\ queue = {} /\ asked = {}
  /\ creating = [t \in Creators |-> Idle]
  /\ placed = {} /\ open = {} /\ reports = {}
  /\ unfilled = [x \in Orders |-> Quantity]

-----------------------------------------------------------------------------
\* initialize_async, called once: the queue is made and its processor started.
InitializeAsync ==
  /\ ~initialized
  /\ initialized' = TRUE
  /\ UNCHANGED <<managerVars, queue, asked, creating, exchangeVars>>

(* create_oco_group                                                        *)

\* Mutant: an off-by-one in the limit.
FullLate(s) == Cardinality(s) > MaxGroups

Full(s) == Cardinality(s) >= MaxGroups

\* _cleanup_expired_groups: those of the old groups that are completed go.
\* Which are older than the TTL is left open.
Kept(old) == groups \ {g \in old : state[g] \in Completed}

\* The limit is checked, with a clean-up when it is reached.
CheckLimit(t) ==
  /\ creating[t] = Idle
  /\ \E old \in SUBSET groups :
       /\ groups' = IF Full(groups) THEN Kept(old) ELSE groups
       /\ indexed' = indexed \ (groups \ groups')
       /\ ~Full(groups')
  /\ creating' = [creating EXCEPT ![t] = [step |-> "checked", group |-> None]]
  /\ UNCHANGED <<state, assigned, remaining, status, cancelVars, exchangeVars>>

\* RuntimeError: the limit is reached even when every group is old enough to
\* go.  It changes nothing.
LimitRefuses == Full(groups) /\ Full(Kept(groups))

\* The new group enters _groups.
RegisterGroup(t, g) ==
  /\ creating[t].step = "checked"
  /\ state[g] = None
  /\ groups' = groups \cup {g}
  /\ state' = [state EXCEPT ![g] = "PENDING"]
  /\ creating' = [creating EXCEPT ![t] = [step |-> "registered", group |-> g]]
  /\ UNCHANGED <<indexed, assigned, remaining, status, cancelVars,
                 exchangeVars>>

\* group.state = ACTIVE, and the group is returned.
ActivateGroup(t) ==
  /\ creating[t].step = "registered"
  /\ state' = [state EXCEPT ![creating[t].group] = "ACTIVE"]
  /\ creating' = [creating EXCEPT ![t] = Idle]
  /\ UNCHANGED <<groups, indexed, assigned, remaining, status, cancelVars,
                 exchangeVars>>

Returned(g) ==
  state[g] # None /\ \A t \in Creators : creating[t].group # g

\* Mutant: the ids are indexed but not put on the legs.
IndexOrderIds(g) ==
  /\ g \in groups /\ g \notin assigned /\ g \in placed
  /\ indexed' = indexed \cup {g}
  /\ UNCHANGED <<groups, assigned, state, remaining, status, cancelVars,
                 creating, exchangeVars>>

\* assign_order_ids, when the group is known.
AssignOrderIds(g) ==
  /\ g \in groups /\ g \notin assigned /\ g \in placed
  /\ assigned' = assigned \cup {g}
  /\ indexed' = indexed \cup {g}
  /\ UNCHANGED <<groups, state, remaining, status, cancelVars, creating,
                 exchangeVars>>

\* cleanup_all
CleanupAll ==
  /\ groups # {}
  /\ groups' = {} /\ indexed' = {}
  /\ UNCHANGED <<state, assigned, remaining, status, cancelVars, creating,
                 exchangeVars>>

-----------------------------------------------------------------------------
(* The event handlers.                                                     *)

\* Take a report that finds its group through _order_index.
Receive(r) ==
  /\ r \in reports
  /\ r.order[1] \in indexed \cap groups
  /\ reports' = reports \ {r}
  /\ UNCHANGED <<groups, indexed, assigned, creating, placed, open, unfilled>>

\* "Order not found in any OCO group": the report is lost.
LoseReport(r) ==
  /\ r \in reports
  /\ r.order[1] \notin indexed \cap groups
  /\ reports' = reports \ {r}
  /\ UNCHANGED <<managerVars, cancelVars, creating, placed, open, unfilled>>

\* _cancel_counterpart_leg returns at once.
CounterpartDone(x) == IsCancelled(x) \/ IsFullyFilled(x)

\* The fields of the leg a fill was reported for.
StoreFill(r) == remaining' = [remaining EXCEPT ![r.order] = r.remaining]

\* The statuses after a full fill: the other leg is marked unless it is done.
Marked(r) ==
  LET x == Counterpart(r.order) IN
  IF CounterpartDone(x)
    THEN [status EXCEPT ![r.order] = r.status]
    ELSE [status EXCEPT ![r.order] = r.status, ![x] = "PENDING_CANCEL"]

\* handle_leg_fill, full fill: the other leg is marked and its cancellation
\* queued, unless it is done.  Without a queue to put it on nothing is asked
\* for ("Synchronous cancellation fallback"), and the rest goes on.
HandleFullFill(r) ==
  LET x == Counterpart(r.order) IN
  /\ r.kind = "fill" /\ r.remaining <= 0
  /\ Receive(r)
  /\ StoreFill(r)
  /\ status' = Marked(r)
  /\ IF initialized /\ ~CounterpartDone(x)
       THEN /\ queue' = queue \cup {x} /\ asked' = asked \cup {x}
            /\ UNCHANGED initialized
       ELSE UNCHANGED cancelVars
  /\ state' = [state EXCEPT ![r.order[1]] = FilledState(r.order[2])]

\* The same on a thread without an event loop: asyncio.create_task raises
\* once the other leg is marked, and handle_leg_fill ends there.
HandleFullFillRaises(r) ==
  /\ OffLoop
  /\ r.kind = "fill" /\ r.remaining <= 0
  /\ Receive(r)
  /\ initialized /\ ~CounterpartDone(Counterpart(r.order))
  /\ StoreFill(r)
  /\ status' = Marked(r)
  /\ UNCHANGED <<state, cancelVars>>

\* Mutant: a partial fill gives the other leg up as a full one does.
PartialFillCancels(r) ==
  LET x == Counterpart(r.order) IN
  /\ r.kind = "fill" /\ r.remaining > 0
  /\ Receive(r)
  /\ StoreFill(r)
  /\ status' = Marked(r)
  /\ IF initialized /\ ~CounterpartDone(x)
       THEN /\ queue' = queue \cup {x} /\ asked' = asked \cup {x}
            /\ UNCHANGED initialized
       ELSE UNCHANGED cancelVars
  /\ state' = [state EXCEPT ![r.order[1]] = PartialState(r.order[2])]

\* handle_leg_fill, partial fill: the other leg is left alone.
HandlePartialFill(r) ==
  /\ r.kind = "fill" /\ r.remaining > 0
  /\ Receive(r)
  /\ StoreFill(r)
  /\ status' = [status EXCEPT ![r.order] = r.status]
  /\ state' = [state EXCEPT ![r.order[1]] = PartialState(r.order[2])]
  /\ UNCHANGED cancelVars

\* handle_leg_cancel
HandleCancel(r) ==
  /\ r.kind = "cancel"
  /\ Receive(r)
  /\ remaining' = [remaining EXCEPT ![r.order] = 0]
  /\ status' = [status EXCEPT ![r.order] = "CANCELLED"]
  /\ state' = [state EXCEPT ![r.order[1]] = CancelledState(r.order[2])]
  /\ UNCHANGED cancelVars

\* Mutant: a leg is called cancelled when its cancellation is sent.
ProcessOptimistically(x) ==
  /\ x \in queue
  /\ queue' = queue \ {x}
  /\ status' = [status EXCEPT ![x] = "CANCELLED"]
  /\ UNCHANGED <<groups, indexed, state, assigned, remaining, initialized,
                 asked, creating, exchangeVars>>

\* _cancellation_processor takes one off the queue.  The call of the exchange
\* is a comment: nothing is sent.
ProcessCancellation(x) ==
  /\ x \in queue
  /\ queue' = queue \ {x}
  /\ UNCHANGED <<managerVars, initialized, asked, creating, exchangeVars>>

-----------------------------------------------------------------------------
(* The exchange (external).                                                *)

\* Both orders of a group are placed by whoever created it.
PlaceOrders(g) ==
  /\ Returned(g) /\ g \notin placed
  /\ Cardinality(placed) < MaxPlaced
  /\ placed' = placed \cup {g}
  /\ open' = open \cup ({g} \X Leg)
  /\ UNCHANGED <<managerVars, cancelVars, creating, unfilled, reports>>

Execute(x, q) ==
  /\ x \in open /\ q \in 1 .. unfilled[x]
  /\ unfilled' = [unfilled EXCEPT ![x] = @ - q]
  /\ open' = IF q = unfilled[x] THEN open \ {x} ELSE open
  /\ \E said \in Reported(unfilled[x] - q) :
       reports' = reports \cup
         {[kind |-> "fill", order |-> x, remaining |-> unfilled[x] - q,
           status |-> said]}
  /\ UNCHANGED <<managerVars, cancelVars, creating, placed>>

\* An order is cancelled at the exchange, by its user or by expiry.
CancelAtExchange(x) ==
  /\ x \in open
  /\ open' = open \ {x}
  /\ reports' = reports \cup {[kind |-> "cancel", order |-> x]}
  /\ UNCHANGED <<managerVars, cancelVars, creating, placed, unfilled>>

-----------------------------------------------------------------------------
Handle(r) ==
  \/ LoseReport(r)
  \/ HandleFullFill(r) \/ HandleFullFillRaises(r)
  \/ HandlePartialFill(r) \/ HandleCancel(r)

Next ==
  \/ \E t \in Creators : \/ CheckLimit(t) \/ ActivateGroup(t)
                         \/ \E g \in Groups : RegisterGroup(t, g)
  \/ \E g \in Groups : AssignOrderIds(g) \/ PlaceOrders(g)
  \/ InitializeAsync \/ CleanupAll
  \/ \E r \in reports : Handle(r)
  \/ \E x \in Orders : \/ ProcessCancellation(x) \/ CancelAtExchange(x)
                       \/ \E q \in 1 .. Quantity : Execute(x, q)

Spec == Init /\ [][Next]_vars

-----------------------------------------------------------------------------
\* The type of each variable.
TypeOK ==
  /\ groups \subseteq Groups /\ assigned \subseteq Groups
  /\ indexed \subseteq assigned
  /\ state \in [Groups -> OCOState \cup {None}]
  /\ remaining \in [Orders -> 0 .. Quantity]
  /\ status \in [Orders -> LegStatus]
  /\ initialized \in BOOLEAN
  /\ queue \subseteq asked /\ asked \subseteq Orders
  /\ creating \in [Creators -> [step : {"idle", "checked", "registered"},
                                group : Groups \cup {None}]]
  /\ placed \subseteq Groups /\ open \subseteq placed \X Leg
  /\ unfilled \in [Orders -> 0 .. Quantity]
  /\ reports \subseteq Report

\* What the manager believes of the end of a leg is so at the exchange,
\* whatever the order its reports are processed in: a leg it calls filled has
\* been executed in full, one it calls cancelled is closed and has not.
EndsAreTrue ==
  \A x \in Orders :
    /\ state[x[1]] = FilledState(x[2]) \/ IsFullyFilled(x)
         => unfilled[x] = 0
    /\ state[x[1]] = CancelledState(x[2]) \/ IsCancelled(x)
         => unfilled[x] > 0 /\ x \notin open

\* No leg is given up, marked or asked to be cancelled, for anything less than
\* the full execution of the other: a leg whose counterpart was cancelled or is
\* partly filled stays in the market, however late and reordered the reports.
GivenUpForAFill ==
  \A x \in Orders :
    x \in asked \/ status[x] = "PENDING_CANCEL" => unfilled[Counterpart(x)] = 0

\* handle_leg_fill "ensures the counterpart leg is cancelled to prevent double
\* execution and orphaned risk": once a leg is fully filled, the cancellation
\* of the other has been queued, unless the exchange has closed that order.
CounterpartAsked ==
  \A x \in Orders :
    IsFullyFilled(x) => Counterpart(x) \in asked \/ Counterpart(x) \notin open

\* Threads that check the limit together overshoot it, but by no more than
\* their number allows.
OvershootBounded ==
  Cardinality(groups)
    + Cardinality({t \in Creators : creating[t].step = "checked"})
      <= MaxGroups + Cardinality(Creators) - 1
=============================================================================
