------------------------- MODULE OcoManager_proofs -------------------------
(***************************************************************************)
(* Theorems about OcoManager, for any finite sets of groups and creators,  *)
(* any limit and any quantity, with and without handlers off the loop.     *)
(***************************************************************************)
EXTENDS OcoManager, FiniteSetTheorems, TLAPS

USE MaxGroupsAssumption, QuantityAssumption, OffLoopAssumption,
    ActorsAssumption, NoneAssumption

-----------------------------------------------------------------------------
(* Orders, legs and reports.                                               *)

LEMMA OrderParts ==
  ASSUME NEW x \in Orders
  PROVE  /\ x[1] \in Groups /\ x[2] \in Leg
         /\ Counterpart(x) \in Orders /\ Counterpart(x) # x
         /\ Counterpart(x)[1] = x[1] /\ Counterpart(x)[2] # x[2]
         /\ FilledState(x[2]) \in OCOState /\ CancelledState(x[2]) \in OCOState
         /\ PartialState(x[2]) \in OCOState
BY DEF Orders, Leg, Counterpart, Other, FilledState, CancelledState,
       PartialState, OCOState

LEMMA SameOrder ==
  ASSUME NEW x \in Orders, NEW y \in Orders, x[1] = y[1], x[2] = y[2]
  PROVE  x = y
BY DEF Orders

LEMMA ReportFields ==
  ASSUME TypeOK, NEW r \in reports
  PROVE  /\ r.kind \in {"fill", "cancel"} /\ r.order \in Orders
         /\ r.kind = "fill" => r.remaining \in 0 .. Quantity
BY DEF TypeOK, Report

LEMMA FillStatus ==
  ASSUME TypeOK, NEW r \in reports, r.kind = "fill"
  PROVE  r.status \in {"FILLED", "PARTIALLY_FILLED"}
BY DEF TypeOK, Report

\* Where marking leads: only PENDING_CANCEL and what was reported are new.
LEMMA Marking ==
  ASSUME TypeOK, NEW r \in reports, r.kind = "fill"
  PROVE  /\ Marked(r) \in [Orders -> LegStatus]
         /\ Marked(r)[r.order] = r.status
         /\ \A x \in Orders : x # r.order =>
              \/ Marked(r)[x] = status[x]
              \/ x = Counterpart(r.order) /\ Marked(r)[x] = "PENDING_CANCEL"
<1> DEFINE y == Counterpart(r.order)
<1>1. /\ r.order \in Orders /\ y \in Orders /\ y # r.order
      /\ r.status \in LegStatus /\ status \in [Orders -> LegStatus]
      /\ "PENDING_CANCEL" \in LegStatus
  BY ReportFields, OrderParts, FillStatus DEF TypeOK, LegStatus
<1>2. \/ Marked(r) = [status EXCEPT ![r.order] = r.status]
      \/ Marked(r) = [status EXCEPT ![r.order] = r.status,
                                    ![y] = "PENDING_CANCEL"]
  BY DEF Marked
<1>3. QED BY <1>1, <1>2

-----------------------------------------------------------------------------
(* Types.                                                                  *)

\* A thread that is about to activate a group has one in hand.
CreatingOK ==
  \A t \in Creators :
    creating[t].step = "registered" => creating[t].group \in Groups

TypeInv == TypeOK /\ CreatingOK

\* The handlers keep the types.
LEMMA HandlerTypes ==
  ASSUME TypeInv, NEW r \in reports, Handle(r)
  PROVE  TypeInv'
<1> DEFINE x == r.order
           y == Counterpart(r.order)
<1> USE DEF TypeInv, CreatingOK
<1>1. /\ x \in Orders /\ y \in Orders /\ x[1] \in Groups
      /\ r.kind = "fill" => r.remaining \in 0 .. Quantity
  BY ReportFields, OrderParts
<1>2. 0 \in 0 .. Quantity
  OBVIOUS
<1>3. /\ FilledState(x[2]) \in OCOState /\ CancelledState(x[2]) \in OCOState
      /\ PartialState(x[2]) \in OCOState
  BY <1>1, OrderParts
<1>4. CASE LoseReport(r)
  BY <1>4 DEF LoseReport, TypeOK, managerVars, cancelVars
<1>5. CASE HandleFullFill(r)
  <2>1. status' \in [Orders -> LegStatus]
    BY <1>5, Marking DEF HandleFullFill
  <2>2. queue' \subseteq asked' /\ asked' \subseteq Orders
    BY <1>1, <1>5 DEF HandleFullFill, TypeOK, cancelVars
  <2>3. initialized' \in BOOLEAN
    BY <1>5 DEF HandleFullFill, TypeOK, cancelVars
  <2>4. QED BY <1>1, <1>3, <1>5, <2>1, <2>2, <2>3 DEF HandleFullFill, Receive,
            StoreFill, TypeOK
<1>6. CASE HandleFullFillRaises(r)
  <2>1. status' \in [Orders -> LegStatus]
    BY <1>6, Marking DEF HandleFullFillRaises
  <2>2. QED BY <1>1, <1>6, <2>1 DEF HandleFullFillRaises, Receive, StoreFill,
            TypeOK, cancelVars
<1>7. CASE HandlePartialFill(r)
  BY <1>1, <1>3, <1>7, FillStatus DEF HandlePartialFill, Receive, StoreFill,
     TypeOK, LegStatus, cancelVars
<1>8. CASE HandleCancel(r)
  BY <1>1, <1>2, <1>3, <1>8 DEF HandleCancel, Receive, TypeOK, LegStatus,
                                cancelVars
<1>9. QED BY <1>4, <1>5, <1>6, <1>7, <1>8 DEF Handle

\* The types, and that a thread about to activate a group has one in hand, are
\* inductive together.
LEMMA Types == Spec => []TypeInv
<1>1. Init => TypeInv
  <2>1. /\ [g \in Groups |-> None] \in [Groups -> OCOState \cup {None}]
        /\ [x \in Orders |-> "NEW"] \in [Orders -> LegStatus]
        /\ [x \in Orders |-> Quantity] \in [Orders -> 0 .. Quantity]
    BY DEF LegStatus
  <2>2. [t \in Creators |-> Idle]
          \in [Creators -> [step : {"idle", "checked", "registered"},
                            group : Groups \cup {None}]]
    BY DEF Idle
  <2>3. Init => CreatingOK
    BY DEF Init, CreatingOK, Idle
  <2>4. QED BY <2>1, <2>2, <2>3 DEF Init, TypeInv, TypeOK
<1>2. TypeInv /\ [Next]_vars => TypeInv'
  <2> SUFFICES ASSUME TypeInv, [Next]_vars PROVE TypeInv'
      OBVIOUS
  <2> USE DEF TypeInv, CreatingOK
  <2>0. CASE UNCHANGED vars
    BY <2>0 DEF vars, managerVars, cancelVars, exchangeVars, TypeOK
  <2>1. ASSUME NEW t \in Creators, CheckLimit(t) PROVE TypeInv'
    <3>1. [step |-> "checked", group |-> None]
            \in [step : {"idle", "checked", "registered"},
                 group : Groups \cup {None}]
      OBVIOUS
    <3>2. groups' \subseteq groups /\ indexed' \subseteq indexed
      BY <2>1 DEF CheckLimit, Kept
    <3>3. QED BY <2>1, <3>1, <3>2 DEF CheckLimit, TypeOK, cancelVars,
                                      exchangeVars
  <2>2. ASSUME NEW t \in Creators, NEW g \in Groups, RegisterGroup(t, g)
        PROVE  TypeInv'
    <3>1. [step |-> "registered", group |-> g]
            \in [step : {"idle", "checked", "registered"},
                 group : Groups \cup {None}]
      OBVIOUS
    <3>2. QED BY <2>2, <3>1 DEF RegisterGroup, TypeOK, OCOState, cancelVars,
                                exchangeVars
  <2>3. ASSUME NEW t \in Creators, ActivateGroup(t) PROVE TypeInv'
    <3>1. Idle \in [step : {"idle", "checked", "registered"},
                    group : Groups \cup {None}] /\ Idle.step = "idle"
      BY DEF Idle
    <3>2. QED BY <2>3, <3>1 DEF ActivateGroup, TypeOK, OCOState, cancelVars,
                                exchangeVars
  <2>4. ASSUME NEW g \in Groups, AssignOrderIds(g) PROVE TypeInv'
    BY <2>4 DEF AssignOrderIds, TypeOK, cancelVars, exchangeVars
  <2>5. ASSUME NEW g \in Groups, PlaceOrders(g) PROVE TypeInv'
    BY <2>5 DEF PlaceOrders, TypeOK, Orders, managerVars, cancelVars
  <2>6. CASE CleanupAll \/ InitializeAsync
    BY <2>6 DEF CleanupAll, InitializeAsync, TypeOK, managerVars, cancelVars,
       exchangeVars
  <2>7. ASSUME NEW r \in reports, Handle(r) PROVE TypeInv'
    BY <2>7, HandlerTypes
  <2>8. ASSUME NEW x \in Orders, ProcessCancellation(x) PROVE TypeInv'
    BY <2>8 DEF ProcessCancellation, TypeOK, managerVars, exchangeVars
  <2>9. ASSUME NEW x \in Orders, CancelAtExchange(x) PROVE TypeInv'
    <3>1. [kind |-> "cancel", order |-> x] \in Report
      BY DEF Report
    <3>2. QED BY <2>9, <3>1 DEF CancelAtExchange, TypeOK, managerVars,
                                cancelVars
  <2>10. ASSUME NEW x \in Orders, NEW q \in 1 .. Quantity, Execute(x, q)
         PROVE  TypeInv'
    <3>1. unfilled[x] - q \in 0 .. Quantity
      BY <2>10 DEF Execute, TypeOK
    <3>2. PICK said \in Reported(unfilled[x] - q) :
            reports' = reports \cup
              {[kind |-> "fill", order |-> x, remaining |-> unfilled[x] - q,
                status |-> said]}
      BY <2>10 DEF Execute
    <3>3. [kind |-> "fill", order |-> x, remaining |-> unfilled[x] - q,
           status |-> said] \in Report
      BY <3>1, <3>2 DEF Report, Reported
    <3>4. QED BY <2>10, <3>1, <3>2, <3>3 DEF Execute, TypeOK, managerVars,
                                             cancelVars
  <2>11. QED
    BY <2>0, <2>1, <2>2, <2>3, <2>4, <2>5, <2>6, <2>7, <2>8, <2>9, <2>10
       DEF Next
<1>3. QED BY <1>1, <1>2, PTL DEF Spec

\* Every variable keeps its type: what is indexed has its ids on its legs, and
\* only the orders of placed groups are open.
THEOREM TypeCorrect == Spec => []TypeOK
BY Types, PTL DEF TypeInv

-----------------------------------------------------------------------------
(* The exchange.                                                           *)

\* Reports say what happened, however late they are read: what is executed or
\* cancelled stays so.
ReportsTrue ==
  \A r \in reports :
    /\ r.order[1] \in placed
    /\ r.kind = "fill" /\ r.remaining <= 0 => unfilled[r.order] = 0
    /\ r.kind = "cancel" => unfilled[r.order] > 0 /\ r.order \notin open

OpenUnfilled ==
  \A x \in Orders :
    /\ x \in open => unfilled[x] > 0
    /\ x[1] \notin placed => unfilled[x] = Quantity

ExchangeInv == ReportsTrue /\ OpenUnfilled

\* Reports stay true at every step.
LEMMA ExchangeStep ==
  ASSUME TypeInv, ExchangeInv, [Next]_vars
  PROVE  ExchangeInv'
<1> USE DEF ExchangeInv, ReportsTrue, OpenUnfilled
<1>0. /\ unfilled \in [Orders -> 0 .. Quantity] /\ open \subseteq Orders
      /\ open \subseteq placed \X Leg
      /\ \A r \in reports : r.order \in Orders
  BY ReportFields DEF TypeInv, TypeOK, Orders
<1>1. CASE UNCHANGED <<placed, open, unfilled>> /\ reports' \subseteq reports
  BY <1>0, <1>1
<1>2. ASSUME NEW g \in Groups, PlaceOrders(g) PROVE ExchangeInv'
  <2>1. \A x \in Orders : x \in open' => x \in open \/ x[1] = g
    BY <1>2 DEF PlaceOrders
  <2>2. \A r \in reports : r.order[1] # g
    BY <1>2 DEF PlaceOrders
  <2>3. QED BY <1>0, <1>2, <2>1, <2>2 DEF PlaceOrders
<1>3. ASSUME NEW x \in Orders, CancelAtExchange(x) PROVE ExchangeInv'
  <2>1. x[1] \in placed /\ unfilled[x] > 0
    BY <1>0, <1>3 DEF CancelAtExchange
  <2>2. QED BY <1>0, <1>3, <2>1 DEF CancelAtExchange
<1>4. ASSUME NEW x \in Orders, NEW q \in 1 .. Quantity, Execute(x, q)
      PROVE  ExchangeInv'
  <2>1. x[1] \in placed /\ q <= unfilled[x]
    BY <1>0, <1>4 DEF Execute
  <2>2. PICK said \in Reported(unfilled[x] - q) :
          /\ unfilled' = [unfilled EXCEPT ![x] = unfilled[x] - q]
          /\ open' \subseteq open /\ placed' = placed
          /\ x \in open' => q # unfilled[x]
          /\ reports' = reports \cup
               {[kind |-> "fill", order |-> x, remaining |-> unfilled[x] - q,
                 status |-> said]}
    BY <1>4 DEF Execute
  <2>3. ReportsTrue'
    <3> SUFFICES ASSUME NEW r \in reports'
                 PROVE  (/\ r.order[1] \in placed
                         /\ r.kind = "fill" /\ r.remaining <= 0
                              => unfilled[r.order] = 0
                         /\ r.kind = "cancel"
                              => unfilled[r.order] > 0 /\ r.order \notin open)'
        OBVIOUS
    <3>1. CASE r \in reports
      <4>1. CASE r.order = x
        BY <1>0, <1>4, <2>1, <2>2, <3>1, <4>1 DEF Execute
      <4>2. CASE r.order # x
        BY <1>0, <2>2, <3>1, <4>2
      <4>3. QED BY <4>1, <4>2
    <3>2. CASE r = [kind |-> "fill", order |-> x,
                    remaining |-> unfilled[x] - q, status |-> said]
      BY <1>0, <2>1, <2>2, <3>2
    <3>3. QED BY <2>2, <3>1, <3>2
  <2>4. OpenUnfilled'
    BY <1>0, <2>1, <2>2
  <2>5. QED BY <2>3, <2>4
<1>5. ASSUME NEW r \in reports, Handle(r) PROVE ExchangeInv'
  BY <1>1, <1>5 DEF Handle, Receive, LoseReport, HandleFullFill,
     HandleFullFillRaises, HandlePartialFill, HandleCancel
<1>6. QED
  BY <1>1, <1>2, <1>3, <1>4, <1>5 DEF Next, CheckLimit, RegisterGroup,
     ActivateGroup, AssignOrderIds, InitializeAsync, CleanupAll,
     ProcessCancellation,
     exchangeVars, vars

-----------------------------------------------------------------------------
(* What the manager believes.                                              *)

\* The group is said to have leg x[2] filled or cancelled, or the leg is.
SaidFilled(x) == state[x[1]] = FilledState(x[2]) \/ IsFullyFilled(x)
SaidCancelled(x) == state[x[1]] = CancelledState(x[2]) \/ IsCancelled(x)

\* Only of placed orders is anything said.
EndsPlaced ==
  \A x \in Orders : SaidFilled(x) \/ SaidCancelled(x) => x[1] \in placed

\* A fully filled leg is one whose fill was handled: its order was placed and
\* nothing is left of it, so it can be given up for.
BeliefInv == EndsAreTrue /\ EndsPlaced /\ GivenUpForAFill

LEMMA LegNames ==
  ASSUME NEW l \in Leg, NEW k \in Leg
  PROVE  /\ FilledState(l) = FilledState(k) <=> l = k
         /\ CancelledState(l) = CancelledState(k) <=> l = k
         /\ FilledState(l) # CancelledState(k)
         /\ FilledState(l) # PartialState(k)
         /\ CancelledState(l) # PartialState(k)
         /\ FilledState(l) \notin {"PENDING", "ACTIVE"}
         /\ CancelledState(l) \notin {"PENDING", "ACTIVE"}
BY DEF Leg, FilledState, CancelledState, PartialState

\* A handler says of an order what its report says, and nothing new of others.
LEMMA HandlerSays ==
  ASSUME TypeInv, NEW r \in reports, Handle(r), NEW x \in Orders
  PROVE  /\ SaidFilled(x)'
              => \/ SaidFilled(x)
                 \/ (x = r.order /\ r.kind = "fill" /\ r.remaining <= 0)
         /\ SaidCancelled(x)'
              => \/ SaidCancelled(x)
                 \/ (x = r.order /\ r.kind = "cancel")
<1> USE DEF SaidFilled, SaidCancelled, IsFullyFilled, IsCancelled
<1>1. /\ r.order \in Orders /\ Counterpart(r.order) \in Orders
      /\ x[1] \in Groups /\ x[2] \in Leg
      /\ r.order[1] \in Groups /\ r.order[2] \in Leg
      /\ x[1] = r.order[1] /\ x[2] = r.order[2] => x = r.order
      /\ state \in [Groups -> OCOState \cup {None}]
      /\ status \in [Orders -> LegStatus]
      /\ remaining \in [Orders -> 0 .. Quantity]
  BY ReportFields, OrderParts, SameOrder DEF TypeInv, TypeOK
<1>m. r.kind = "fill" =>
        /\ Marked(r)[r.order] = r.status
        /\ x # r.order => \/ Marked(r)[x] = status[x]
                          \/ Marked(r)[x] = "PENDING_CANCEL"
  BY Marking DEF TypeInv
<1>2. /\ FilledState(x[2]) = FilledState(r.order[2]) <=> x[2] = r.order[2]
      /\ CancelledState(x[2]) = CancelledState(r.order[2])
           <=> x[2] = r.order[2]
      /\ FilledState(x[2]) # CancelledState(r.order[2])
      /\ CancelledState(x[2]) # FilledState(r.order[2])
      /\ FilledState(x[2]) # PartialState(r.order[2])
      /\ CancelledState(x[2]) # PartialState(r.order[2])
  BY <1>1, LegNames
<1>3. CASE LoseReport(r)
  BY <1>3 DEF LoseReport, managerVars
<1>4. CASE HandleFullFill(r)
  BY <1>1, <1>2, <1>m, <1>4, FillStatus
     DEF HandleFullFill, StoreFill, TypeInv
<1>5. CASE HandleFullFillRaises(r)
  BY <1>1, <1>2, <1>m, <1>5, FillStatus
     DEF HandleFullFillRaises, StoreFill, TypeInv
<1>6. CASE HandlePartialFill(r)
  BY <1>1, <1>2, <1>6, FillStatus, ReportFields
     DEF HandlePartialFill, StoreFill, TypeInv
<1>7. CASE HandleCancel(r)
  BY <1>1, <1>2, <1>7 DEF HandleCancel
<1>8. QED BY <1>3, <1>4, <1>5, <1>6, <1>7 DEF Handle

\* No other step says anything new.
LEMMA OthersSayNothing ==
  ASSUME TypeInv, [Next]_vars, NEW x \in Orders,
         ~ \E r \in reports : Handle(r)
  PROVE  /\ SaidFilled(x)' => SaidFilled(x)
         /\ SaidCancelled(x)' => SaidCancelled(x)
<1> USE DEF SaidFilled, SaidCancelled, IsFullyFilled, IsCancelled
<1>1. /\ x[1] \in Groups /\ x[2] \in Leg
      /\ state \in [Groups -> OCOState \cup {None}]
      /\ FilledState(x[2]) \notin {"PENDING", "ACTIVE"}
      /\ CancelledState(x[2]) \notin {"PENDING", "ACTIVE"}
  BY OrderParts, LegNames DEF TypeInv, TypeOK
<1>2. ASSUME NEW t \in Creators, NEW g \in Groups, RegisterGroup(t, g)
      PROVE  /\ SaidFilled(x)' => SaidFilled(x)
             /\ SaidCancelled(x)' => SaidCancelled(x)
  BY <1>1, <1>2 DEF RegisterGroup
<1>3. ASSUME NEW t \in Creators, ActivateGroup(t)
      PROVE  /\ SaidFilled(x)' => SaidFilled(x)
             /\ SaidCancelled(x)' => SaidCancelled(x)
  BY <1>1, <1>3 DEF ActivateGroup
<1>4. QED
  BY <1>2, <1>3 DEF Next, CheckLimit, AssignOrderIds, PlaceOrders,
     InitializeAsync, CleanupAll,
     ProcessCancellation, CancelAtExchange, Execute, managerVars, vars

\* What happens at the exchange: nothing that was over starts again.
LEMMA OverIsOver ==
  ASSUME TypeInv, ExchangeInv, [Next]_vars, NEW x \in Orders, x[1] \in placed
  PROVE  /\ x[1] \in placed'
         /\ x \notin open => x \notin open' /\ unfilled'[x] = unfilled[x]
         /\ unfilled[x] = 0 => unfilled'[x] = 0
<1>1. /\ unfilled \in [Orders -> 0 .. Quantity]
      /\ x \in open => unfilled[x] > 0
  BY DEF TypeInv, TypeOK, ExchangeInv, OpenUnfilled
<1>2. ASSUME NEW g \in Groups, PlaceOrders(g)
      PROVE  /\ placed \subseteq placed' /\ unfilled' = unfilled
             /\ x \notin open => x \notin open'
  BY <1>2 DEF PlaceOrders
<1>3. ASSUME NEW y \in Orders, NEW q \in 1 .. Quantity, Execute(y, q)
      PROVE  /\ placed' = placed /\ open' \subseteq open /\ y \in open
             /\ x # y => unfilled'[x] = unfilled[x]
  BY <1>1, <1>3 DEF Execute
<1>4. ASSUME NEW r \in reports, Handle(r)
      PROVE  UNCHANGED <<placed, open, unfilled>>
  BY <1>4 DEF Handle, Receive, LoseReport, HandleFullFill,
     HandleFullFillRaises, HandlePartialFill, HandleCancel
<1>5. ASSUME NEW y \in Orders, CancelAtExchange(y)
      PROVE  UNCHANGED <<placed, unfilled>> /\ open' \subseteq open
  BY <1>5 DEF CancelAtExchange
<1>6. \/ UNCHANGED <<placed, open, unfilled>>
      \/ \E g \in Groups : PlaceOrders(g)
      \/ \E y \in Orders, q \in 1 .. Quantity : Execute(y, q)
      \/ \E y \in Orders : CancelAtExchange(y)
  BY <1>4 DEF Next, CheckLimit, RegisterGroup, ActivateGroup, AssignOrderIds,
     InitializeAsync, CleanupAll, ProcessCancellation, exchangeVars, vars
<1>7. QED BY <1>1, <1>2, <1>3, <1>5, <1>6

-----------------------------------------------------------------------------
(* Beliefs, in any order of the reports.                                   *)

\* What is newly said comes from a report, and reports are true; what was said
\* before stays true.
LEMMA EndsStep ==
  ASSUME TypeInv, ExchangeInv, BeliefInv, [Next]_vars
  PROVE  EndsAreTrue' /\ EndsPlaced'
<1> SUFFICES ASSUME NEW x \in Orders
             PROVE  /\ SaidFilled(x)' => unfilled'[x] = 0 /\ x[1] \in placed'
                    /\ SaidCancelled(x)'
                         => /\ unfilled'[x] > 0 /\ x \notin open'
                            /\ x[1] \in placed'
    BY DEF EndsAreTrue, EndsPlaced, SaidFilled, SaidCancelled
<1>1. /\ SaidFilled(x) => unfilled[x] = 0 /\ x[1] \in placed
      /\ SaidCancelled(x)
           => unfilled[x] > 0 /\ x \notin open /\ x[1] \in placed
  BY DEF BeliefInv, EndsAreTrue, EndsPlaced, SaidFilled, SaidCancelled
<1>2. x[1] \in placed
        => /\ x[1] \in placed'
           /\ x \notin open => x \notin open' /\ unfilled'[x] = unfilled[x]
           /\ unfilled[x] = 0 => unfilled'[x] = 0
  BY OverIsOver
<1>3. CASE \E r \in reports : Handle(r)
  <2>1. PICK r \in reports : Handle(r)
    BY <1>3
  <2>2. /\ x = r.order => x[1] \in placed
        /\ x = r.order /\ r.kind = "fill" /\ r.remaining <= 0
             => unfilled[x] = 0
        /\ x = r.order /\ r.kind = "cancel"
             => unfilled[x] > 0 /\ x \notin open
    BY DEF ExchangeInv, ReportsTrue
  <2>3. /\ SaidFilled(x)'
              => \/ SaidFilled(x)
                 \/ (x = r.order /\ r.kind = "fill" /\ r.remaining <= 0)
        /\ SaidCancelled(x)'
              => \/ SaidCancelled(x)
                 \/ (x = r.order /\ r.kind = "cancel")
    BY <2>1, HandlerSays
  <2>4. QED BY <1>1, <1>2, <2>2, <2>3
<1>4. CASE ~ \E r \in reports : Handle(r)
  <2>1. /\ SaidFilled(x)' => SaidFilled(x)
        /\ SaidCancelled(x)' => SaidCancelled(x)
    BY <1>4, OthersSayNothing
  <2>2. QED BY <1>1, <1>2, <2>1
<1>5. QED BY <1>3, <1>4

\* Only the handler of a full fill gives a leg up, the other one.
LEMMA HandlerGivesUp ==
  ASSUME TypeInv, NEW r \in reports, Handle(r), NEW x \in Orders
  PROVE  x \in asked' \/ status'[x] = "PENDING_CANCEL"
           => \/ x \in asked \/ status[x] = "PENDING_CANCEL"
              \/ /\ x = Counterpart(r.order)
                 /\ r.kind = "fill" /\ r.remaining <= 0
<1>1. /\ r.order \in Orders /\ status \in [Orders -> LegStatus]
      /\ r.kind = "fill" => r.status # "PENDING_CANCEL"
  BY ReportFields, FillStatus DEF TypeInv, TypeOK
<1>2. r.kind = "fill" =>
        /\ Marked(r)[r.order] = r.status
        /\ x # r.order => \/ Marked(r)[x] = status[x]
                          \/ x = Counterpart(r.order)
  BY Marking DEF TypeInv
<1>3. CASE LoseReport(r)
  BY <1>3 DEF LoseReport, managerVars, cancelVars
<1>4. CASE HandleFullFill(r)
  BY <1>1, <1>2, <1>4 DEF HandleFullFill, cancelVars
<1>5. CASE HandleFullFillRaises(r)
  BY <1>1, <1>2, <1>5 DEF HandleFullFillRaises, cancelVars
<1>6. CASE HandlePartialFill(r)
  BY <1>1, <1>6 DEF HandlePartialFill, cancelVars
<1>7. CASE HandleCancel(r)
  BY <1>1, <1>7 DEF HandleCancel, cancelVars
<1>8. QED BY <1>3, <1>4, <1>5, <1>6, <1>7 DEF Handle

LEMMA OthersGiveNothingUp ==
  ASSUME [Next]_vars, ~ \E r \in reports : Handle(r)
  PROVE  asked' = asked /\ status' = status
BY DEF Next, CheckLimit, RegisterGroup, ActivateGroup, AssignOrderIds,
   PlaceOrders, InitializeAsync, CleanupAll, ProcessCancellation,
   CancelAtExchange, Execute, managerVars, cancelVars, vars

\* A leg is given up on the report of a full fill of the other, which is true
\* and stays so.
LEMMA GivenUpStep ==
  ASSUME TypeInv, ExchangeInv, BeliefInv, [Next]_vars
  PROVE  GivenUpForAFill'
<1> SUFFICES ASSUME NEW x \in Orders,
                    x \in asked' \/ status'[x] = "PENDING_CANCEL"
             PROVE  unfilled'[Counterpart(x)] = 0
    BY DEF GivenUpForAFill
<1> DEFINE y == Counterpart(x)
<1>1. y \in Orders
  BY OrderParts
<1>2. unfilled[y] = 0
  <2>1. CASE \E r \in reports : Handle(r)
    <3>1. PICK r \in reports : Handle(r)
      BY <2>1
    <3>2. \/ x \in asked \/ status[x] = "PENDING_CANCEL"
          \/ x = Counterpart(r.order) /\ r.kind = "fill" /\ r.remaining <= 0
      BY <3>1, HandlerGivesUp
    <3>3. x = Counterpart(r.order) => y = r.order
      BY ReportFields DEF TypeInv, Counterpart, Other, Orders, Leg
    <3>4. QED
      BY <3>2, <3>3 DEF BeliefInv, GivenUpForAFill, ExchangeInv, ReportsTrue
  <2>2. CASE ~ \E r \in reports : Handle(r)
    BY <2>2, OthersGiveNothingUp DEF BeliefInv, GivenUpForAFill
  <2>3. QED BY <2>1, <2>2
<1>3. y[1] \in placed
  BY <1>1, <1>2 DEF ExchangeInv, OpenUnfilled
<1>4. QED BY <1>1, <1>2, <1>3, OverIsOver

\* What is said of an order, and of the legs given up, follows from
\* reports that are true and stay so: the induction behind the next two.
THEOREM Beliefs == Spec => [](ExchangeInv /\ BeliefInv)
<1>1. Init => ExchangeInv /\ BeliefInv
  <2> SUFFICES ASSUME Init PROVE ExchangeInv /\ BeliefInv
      OBVIOUS
  <2>1. ASSUME NEW x \in Orders
        PROVE  ~SaidFilled(x) /\ ~SaidCancelled(x)
    <3>1. x[1] \in Groups /\ FilledState(x[2]) \in OCOState
          /\ CancelledState(x[2]) \in OCOState
      BY OrderParts
    <3>2. state[x[1]] = None /\ status[x] = "NEW"
      BY <3>1 DEF Init
    <3>3. QED BY <3>1, <3>2, NoneAssumption DEF SaidFilled, SaidCancelled,
         IsFullyFilled, IsCancelled
  <2>2. QED BY <2>1 DEF Init, ExchangeInv, ReportsTrue, OpenUnfilled, BeliefInv,
       EndsAreTrue, EndsPlaced, GivenUpForAFill, SaidFilled, SaidCancelled
<1>2. TypeInv /\ ExchangeInv /\ BeliefInv /\ [Next]_vars
        => (ExchangeInv /\ BeliefInv)'
  BY ExchangeStep, EndsStep, GivenUpStep DEF BeliefInv
<1>3. QED BY <1>1, <1>2, Types, PTL DEF Spec

\* What the manager says of the end of a leg is so at the exchange, in any
\* order of the reports, for any number of groups and of handlers.
THEOREM EndsTrue == Spec => []EndsAreTrue
BY Beliefs, PTL DEF BeliefInv

\* No leg is given up for less than the full execution of the other, in any
\* order of the reports, before and after initialize_async.
THEOREM GivenUpOnlyForAFill == Spec => []GivenUpForAFill
BY Beliefs, PTL DEF BeliefInv

-----------------------------------------------------------------------------
(* When the counterpart is asked.                                          *)

\* No step takes back a request.
LEMMA AskedGrows ==
  ASSUME [Next]_vars
  PROVE  asked \subseteq asked'
BY DEF Next, Handle, LoseReport, HandleFullFill, HandleFullFillRaises,
   HandlePartialFill, HandleCancel, CheckLimit, RegisterGroup, ActivateGroup,
   AssignOrderIds, PlaceOrders, InitializeAsync, CleanupAll,
   ProcessCancellation, CancelAtExchange, Execute, cancelVars, vars

\* initialize_async has run before any group has its orders indexed.
QueueFirst == indexed # {} => initialized

\* With the queue there and every handler on the loop, a leg is newly fully
\* filled only by the handler that has just asked for the other, or found that
\* one done.
LEMMA FullFillAsks ==
  ASSUME ~OffLoop, QueueFirst, TypeInv, NEW x \in Orders, [Next]_vars,
         IsFullyFilled(x)', ~IsFullyFilled(x)
  PROVE  \/ Counterpart(x) \in asked'
         \/ IsCancelled(Counterpart(x)) \/ IsFullyFilled(Counterpart(x))
<1>1. ASSUME NEW r \in reports, Handle(r)
      PROVE  \/ Counterpart(x) \in asked'
             \/ IsCancelled(Counterpart(x)) \/ IsFullyFilled(Counterpart(x))
  <2>1. /\ r.order \in Orders
        /\ remaining \in [Orders -> 0 .. Quantity]
        /\ status \in [Orders -> LegStatus]
        /\ r.kind = "fill" => r.remaining \in 0 .. Quantity
    BY ReportFields DEF TypeInv, TypeOK
  <2>2. HandleFullFill(r) => x = r.order
    BY <2>1, Marking DEF HandleFullFill, StoreFill, IsFullyFilled, TypeInv
  <2>3. HandleFullFill(r)
    BY <1>1, <2>1 DEF Handle, LoseReport, HandleFullFillRaises,
       HandlePartialFill, HandleCancel, StoreFill, IsFullyFilled, managerVars
  <2>4. initialized
    BY <2>3 DEF HandleFullFill, Receive, QueueFirst
  <2>5. QED BY <2>2, <2>3, <2>4 DEF HandleFullFill, CounterpartDone
<1>2. (~ \E r \in reports : Handle(r))
        => remaining' = remaining /\ status' = status
  BY DEF Next, CheckLimit, RegisterGroup, ActivateGroup, AssignOrderIds,
     PlaceOrders, InitializeAsync, CleanupAll, ProcessCancellation,
     CancelAtExchange, Execute, managerVars, vars
<1>3. QED BY <1>1, <1>2 DEF IsFullyFilled

\* What was asked for stays asked for, and what was closed stays closed.
LEMMA AskedStep ==
  ASSUME ~OffLoop, QueueFirst, TypeInv, ExchangeInv, BeliefInv,
         CounterpartAsked, [Next]_vars
  PROVE  CounterpartAsked'
<1> SUFFICES ASSUME NEW x \in Orders, IsFullyFilled(x)'
             PROVE  \/ Counterpart(x) \in asked'
                    \/ Counterpart(x) \notin open'
    BY DEF CounterpartAsked
<1> DEFINE y == Counterpart(x)
<1>1. y \in Orders /\ y[1] = x[1]
  BY OrderParts
<1>2. y[1] \in placed /\ y \notin open => y \notin open'
  BY <1>1, OverIsOver
<1>3. CASE IsFullyFilled(x)
  <2>1. x[1] \in placed
    BY <1>3 DEF BeliefInv, EndsPlaced, SaidFilled
  <2>2. y \in asked \/ y \notin open
    BY <1>3 DEF CounterpartAsked
  <2>3. QED BY <1>1, <1>2, <2>1, <2>2, AskedGrows
<1>4. CASE ~IsFullyFilled(x)
  <2>1. y \in asked' \/ IsCancelled(y) \/ IsFullyFilled(y)
    BY <1>4, FullFillAsks
  <2>2. IsCancelled(y) \/ IsFullyFilled(y) => y \notin open /\ y[1] \in placed
    BY <1>1 DEF BeliefInv, EndsAreTrue, EndsPlaced, SaidFilled, SaidCancelled,
                ExchangeInv, OpenUnfilled
  <2>3. QED BY <1>2, <2>1, <2>2
<1>5. QED BY <1>3, <1>4

\* Where every handler runs on the loop and initialize_async has run before
\* any order is indexed, a fully filled leg has had the other asked to cancel,
\* unless that order is closed.  Without the second it is false, as the run
\* oco_counterpart shows.
THEOREM CounterpartIsAsked ==
  ASSUME ~OffLoop
  PROVE  Spec /\ []QueueFirst => []CounterpartAsked
<1>1. Init => CounterpartAsked
  BY DEF Init, CounterpartAsked, IsFullyFilled
<1>2. TypeInv /\ ExchangeInv /\ BeliefInv /\ QueueFirst /\ CounterpartAsked
        /\ [Next]_vars => CounterpartAsked'
  BY AskedStep
<1>3. QED BY <1>1, <1>2, Types, Beliefs, PTL DEF Spec

-----------------------------------------------------------------------------
(* The limit.                                                              *)

Checked == {t \in Creators : creating[t].step = "checked"}

\* The last check passed under the limit with at most all other creators
\* already past theirs; registering only turns a check into a group.
THEOREM OvershootIsBounded == Spec => []OvershootBounded
<1> DEFINE Sum == Cardinality(groups) + Cardinality(Checked)
<1>0. TypeInv => /\ IsFiniteSet(groups) /\ Cardinality(groups) \in Nat
                 /\ Cardinality(Creators) \in Nat /\ IsFiniteSet(Checked)
                 /\ Cardinality(Checked) \in Nat
                 /\ Cardinality(Checked) <= Cardinality(Creators)
  BY FS_Subset, FS_CardinalityType DEF TypeInv, TypeOK, Checked
<1>1. Init => OvershootBounded
  <2> SUFFICES ASSUME Init PROVE OvershootBounded
      OBVIOUS
  <2>1. groups = {} /\ Checked = {}
    BY DEF Init, Idle, Checked
  <2>2. Cardinality(groups) = 0 /\ Cardinality(Checked) = 0
    BY <2>1, FS_EmptySet
  <2>3. Cardinality(Creators) \in Nat
    BY FS_CardinalityType
  <2>4. QED BY <2>2, <2>3 DEF OvershootBounded, Checked
<1>2. TypeInv /\ TypeInv' /\ OvershootBounded /\ [Next]_vars
        => OvershootBounded'
  <2> SUFFICES ASSUME TypeInv, TypeInv', OvershootBounded, [Next]_vars
               PROVE  OvershootBounded'
      OBVIOUS
  <2>0. /\ Cardinality(groups)' \in Nat /\ IsFiniteSet(groups)'
        /\ Cardinality(Checked)' \in Nat /\ IsFiniteSet(Checked)'
    BY <1>0, FS_Subset, FS_CardinalityType DEF TypeInv, TypeOK, Checked
  <2>1. Sum <= MaxGroups + Cardinality(Creators) - 1
    BY DEF OvershootBounded, Checked
  <2>2. CASE groups' \subseteq groups /\ Checked' \subseteq Checked
    <3>1. /\ Cardinality(groups') <= Cardinality(groups)
          /\ Cardinality(Checked') <= Cardinality(Checked)
      BY <1>0, <2>2, FS_Subset
    <3>2. QED BY <1>0, <2>0, <2>1, <3>1 DEF OvershootBounded, Checked
  <2>3. ASSUME NEW t \in Creators, CheckLimit(t) PROVE OvershootBounded'
    <3>1. Cardinality(groups') < MaxGroups
      BY <2>0, <2>3 DEF CheckLimit, Full
    <3>2. Cardinality(Checked') <= Cardinality(Creators)
      BY FS_Subset DEF Checked
    <3>3. QED BY <1>0, <2>0, <3>1, <3>2 DEF OvershootBounded, Checked
  <2>4. ASSUME NEW t \in Creators, NEW g \in Groups, RegisterGroup(t, g)
        PROVE  OvershootBounded'
    <3>1. t \in Checked /\ Checked' = Checked \ {t}
      BY <2>4 DEF RegisterGroup, Checked, TypeInv, TypeOK
    <3>2. Cardinality(Checked') = Cardinality(Checked) - 1
      BY <1>0, <3>1, FS_RemoveElement
    <3>3. Cardinality(groups') <= Cardinality(groups) + 1
      <4>1. groups' = groups \cup {g}
        BY <2>4 DEF RegisterGroup
      <4>2. Cardinality(groups \cup {g})
              = IF g \in groups THEN Cardinality(groups)
                                ELSE Cardinality(groups) + 1
        BY <1>0, FS_AddElement
      <4>3. QED BY <1>0, <4>1, <4>2
    <3>4. QED BY <1>0, <2>0, <2>1, <3>2, <3>3 DEF OvershootBounded, Checked
  <2>5. ASSUME NEW t \in Creators, ActivateGroup(t) PROVE OvershootBounded'
    <3>1. groups' = groups /\ Checked' \subseteq Checked
      BY <2>5 DEF ActivateGroup, Checked, TypeInv, TypeOK, Idle
    <3>2. QED BY <2>2, <3>1
  <2>6. ASSUME UNCHANGED creating, groups' \subseteq groups
        PROVE  OvershootBounded'
    BY <2>2, <2>6 DEF Checked
  <2>7. QED
    BY <2>3, <2>4, <2>5, <2>6 DEF Next, AssignOrderIds, PlaceOrders,
       InitializeAsync, CleanupAll, Handle, Receive, LoseReport, HandleFullFill,
       HandleFullFillRaises, HandlePartialFill, HandleCancel,
       ProcessCancellation, CancelAtExchange, Execute, managerVars, vars
<1>3. QED BY <1>1, <1>2, Types, PTL DEF Spec
=============================================================================
