----------------------- MODULE OmsStateMachine_proofs -----------------------
(***************************************************************************)
(* Theorems about OmsStateMachine, for any orders, threads, events and     *)
(* history length.                                                         *)
(***************************************************************************)
EXTENDS OmsStateMachine, FiniteSetTheorems, TLAPS

USE MaxStateHistoryAssumption, CountModulusAssumption, AccessAssumption,
    NoneAssumption

-----------------------------------------------------------------------------
(* The operators the machine is built from.                                *)

\* The states an event may lead to are states, and no event leads out of a
\* terminal state.
LEMMA SuccessorsType ==
  ASSUME NEW e, NEW s \in OrderState, NEW n \in Successors(e, s)
  PROVE  n \in OrderState /\ s \notin Terminal
BY DEF Successors, ValidMoves, OrderState, Terminal

\* Appending a record drops at most the oldest one.
LEMMA RememberType ==
  ASSUME NEW h \in Seq(StateChangeRecord), NEW r \in StateChangeRecord
  PROVE  Remember(h, r) \in Seq(StateChangeRecord)
BY DEF Remember

-----------------------------------------------------------------------------
(* Types.                                                                  *)

\* A call that has got hold of an order works on a created one, and
\* only one thread cleans up.
CallOK ==
  \A t \in Threads :
    /\ pc[t] \in {"creating", "found", "owner", "applied", "uncount",
                  "recount"} => target[t] \in created
    /\ pc[t] = "cleaning" => cleaner = {t}

\* Every variable keeps its type: the counters stay within an AtomicU64, and
\* each call in progress works on an order that exists.
THEOREM TypeCorrect == Spec => [](TypeOK /\ CallOK)
<1>1. Init => TypeOK /\ CallOK
  BY DEF Init, TypeOK, CallOK, OrderState, PC, NoResult, TransitionResult
<1>2. TypeOK /\ CallOK /\ [Next]_vars => TypeOK' /\ CallOK'
  <2> SUFFICES ASSUME TypeOK, CallOK, [Next]_vars
               PROVE  TypeOK' /\ CallOK'
      OBVIOUS
  <2> USE DEF TypeOK, CallOK
  <2>0. CASE UNCHANGED vars
    BY <2>0 DEF vars
  <2>1. ASSUME NEW t \in Threads, NEW o \in Orders, CreateOrder(t, o)
        PROVE  TypeOK' /\ CallOK'
    BY <2>1 DEF CreateOrder, machineVars, countVars, PC
  <2>2. ASSUME NEW t \in Threads, CountCreated(t)
        PROVE  TypeOK' /\ CallOK'
    <3>1. activeCount' \in 0 .. CountModulus - 1
      BY <2>2 DEF CountCreated
    <3>2. QED BY <2>2, <3>1 DEF CountCreated, Return, machineVars, mapVars,
                                PC, NoResult, TransitionResult, OrderState
  <2>3. ASSUME NEW t \in Threads, NEW o \in Orders, NEW e \in Events,
               ProcessEvent(t, o, e) \/ CallTransition(t, o, e)
        PROVE  TypeOK' /\ CallOK'
    <3>1. o \in created /\ e \in StateEvent
      BY <2>3 DEF ProcessEvent, CallTransition, Shared
    <3>2. CASE ProcessEvent(t, o, e)
      BY <3>1, <3>2 DEF ProcessEvent, machineVars, mapVars, countVars, PC
    <3>3. CASE CallTransition(t, o, e)
      BY <3>1, <3>3 DEF CallTransition, machineVars, mapVars, countVars, PC
    <3>4. QED BY <2>3, <3>2, <3>3
  <2>4. ASSUME NEW t \in Threads, SwapWins(t) PROVE TypeOK' /\ CallOK'
    BY <2>4 DEF SwapWins, mapVars, countVars, callVars, PC
  <2>5. ASSUME NEW t \in Threads, SwapLoses(t) PROVE TypeOK' /\ CallOK'
    BY <2>5 DEF SwapLoses, Return, machineVars, mapVars, countVars, PC,
                NoResult, TransitionResult, OrderState
  <2>6. ASSUME NEW t \in Threads, Apply(t) PROVE TypeOK' /\ CallOK'
    <3> DEFINE o == target[t]
    <3>1. o \in Orders /\ state[o] \in OrderState
      BY <2>6 DEF Apply
    <3>2. PICK n \in Successors(event[t], state[o]) :
            /\ state' = [state EXCEPT ![o] = n]
            /\ history' = [history EXCEPT ![o] =
                             Remember(@, [from |-> state[o], to |-> n])]
            /\ result' = [result EXCEPT ![t] =
                    [success |-> TRUE, previous |-> state[o], new |-> n]]
      BY <2>6 DEF Apply
    <3>3. n \in OrderState
      BY <3>1, SuccessorsType
    <3>4. [from |-> state[o], to |-> n] \in StateChangeRecord
      BY <3>1, <3>3 DEF StateChangeRecord
    <3>5. history' \in [Orders -> Seq(StateChangeRecord)]
      BY <3>1, <3>2, <3>4, RememberType
    <3>6. result' \in [Threads -> TransitionResult]
      BY <3>1, <3>2, <3>3 DEF TransitionResult
    <3>7. QED BY <2>6, <3>2, <3>3, <3>5, <3>6
              DEF Apply, mapVars, countVars, PC
  <2>7. ASSUME NEW t \in Threads, Refuse(t) PROVE TypeOK' /\ CallOK'
    <3>1. state[target[t]] \in OrderState
      BY <2>7 DEF Refuse
    <3>2. result' \in [Threads -> TransitionResult]
      BY <2>7, <3>1 DEF Refuse, TransitionResult
    <3>3. QED BY <2>7, <3>2 DEF Refuse, machineVars, mapVars, countVars, PC
  <2>8. ASSUME NEW t \in Threads, ReleaseFlag(t) PROVE TypeOK' /\ CallOK'
    <3>1. transitioning' \in [Orders -> BOOLEAN]
      BY <2>8 DEF ReleaseFlag
    <3>2. CASE Return(t)
      BY <2>8, <3>1, <3>2 DEF ReleaseFlag, Return, mapVars, countVars, PC,
                              NoResult, TransitionResult, OrderState
    <3>3. CASE pc' = [pc EXCEPT ![t] = "uncount"] /\ UNCHANGED callVars
      BY <2>8, <3>1, <3>3 DEF ReleaseFlag, mapVars, countVars, callVars, PC
    <3>4. QED BY <2>8, <3>2, <3>3 DEF ReleaseFlag
  <2>9. ASSUME NEW t \in Threads, UncountActive(t) PROVE TypeOK' /\ CallOK'
    <3>1. activeCount' \in 0 .. CountModulus - 1
      BY <2>9 DEF UncountActive
    <3>2. QED BY <2>9, <3>1 DEF UncountActive, machineVars, mapVars, callVars,
                                PC
  <2>10. ASSUME NEW t \in Threads, CountTerminal(t) PROVE TypeOK' /\ CallOK'
    <3>1. terminalCount' \in 0 .. CountModulus - 1
      BY <2>10 DEF CountTerminal
    <3>2. QED BY <2>10, <3>1 DEF CountTerminal, Return, machineVars, mapVars,
                                 PC, NoResult, TransitionResult, OrderState
  <2>11. ASSUME NEW t \in Threads, NEW o \in Orders, NEW n \in ForcedStates,
                ForceTransition(t, o, n)
         PROVE  TypeOK' /\ CallOK'
    <3>1. [from |-> state[o], to |-> n] \in StateChangeRecord
      BY DEF StateChangeRecord
    <3>2. history' \in [Orders -> Seq(StateChangeRecord)]
      BY <2>11, <3>1, RememberType DEF ForceTransition
    <3>3. QED BY <2>11, <3>2 DEF ForceTransition, mapVars, countVars, callVars
  <2>12. ASSUME NEW t \in Threads, StartCleanup(t) PROVE TypeOK' /\ CallOK'
    BY <2>12 DEF StartCleanup, machineVars, countVars, callVars, PC
  <2>13. ASSUME NEW t \in Threads, NEW o \in Orders, VisitOrder(t, o)
         PROVE  TypeOK' /\ CallOK'
    BY <2>13 DEF VisitOrder, machineVars, countVars, callVars
  <2>14. ASSUME NEW t \in Threads, EndCleanup(t) PROVE TypeOK' /\ CallOK'
    BY <2>14 DEF EndCleanup, machineVars, countVars, callVars, PC
  <2>15. QED
    BY <2>0, <2>1, <2>2, <2>3, <2>4, <2>5, <2>6, <2>7, <2>8, <2>9, <2>10,
       <2>11, <2>12, <2>13, <2>14 DEF Next, Call, Continue
<1>3. QED BY <1>1, <1>2, PTL DEF Spec

-----------------------------------------------------------------------------
(* Mutual exclusion.                                                       *)

\* is_transitioning keeps two threads out of one order's do_transition: the
\* flag is up exactly while a single thread is inside.
THEOREM MutualExclusion == Spec => []OneTransitionAtATime
<1>1. Init => OneTransitionAtATime
  BY DEF Init, OneTransitionAtATime, InTransition
<1>2. TypeOK /\ CallOK /\ OneTransitionAtATime /\ [Next]_vars
        => OneTransitionAtATime'
  <2> SUFFICES ASSUME TypeOK, CallOK, OneTransitionAtATime, [Next]_vars
               PROVE  OneTransitionAtATime'
      OBVIOUS
  <2> DEFINE Same == /\ UNCHANGED transitioning
                     /\ \A u \in Threads, o \in Orders :
                          InTransition(u, o)' <=> InTransition(u, o)
  <2>0. Same => OneTransitionAtATime'
    BY DEF OneTransitionAtATime
  <2>1. CASE UNCHANGED vars
    BY <2>0, <2>1 DEF vars, InTransition
  <2>2. ASSUME NEW t \in Threads, Call(t) PROVE Same
    <3>1. UNCHANGED transitioning
      BY <2>2 DEF Call, CreateOrder, ProcessEvent, CallTransition,
                  ForceTransition, StartCleanup, machineVars
    <3>2. pc[t] = "idle" /\ pc'[t] \in {"idle", "creating", "found", "cleaning"}
      BY <2>2 DEF Call, CreateOrder, ProcessEvent, CallTransition,
                  ForceTransition, StartCleanup, TypeOK
    <3>3. \A u \in Threads \ {t} : pc'[u] = pc[u] /\ target'[u] = target[u]
      BY <2>2 DEF Call, CreateOrder, ProcessEvent, CallTransition,
                  ForceTransition, StartCleanup, callVars, TypeOK
    <3>4. QED BY <3>1, <3>2, <3>3 DEF InTransition
  <2>3. ASSUME NEW t \in Threads,
               \/ CountCreated(t) \/ SwapLoses(t) \/ UncountActive(t)
               \/ CountTerminal(t) \/ EndCleanup(t)
        PROVE  Same
    <3>1. UNCHANGED transitioning
      BY <2>3 DEF CountCreated, SwapLoses, UncountActive, CountTerminal,
                  EndCleanup, machineVars
    <3>2. /\ pc[t] \notin {"owner", "applied"}
          /\ pc'[t] \notin {"owner", "applied"}
      BY <2>3 DEF CountCreated, SwapLoses, UncountActive, CountTerminal,
                  EndCleanup, Return, TypeOK
    <3>3. \A u \in Threads \ {t} : pc'[u] = pc[u] /\ target'[u] = target[u]
      BY <2>3 DEF CountCreated, SwapLoses, UncountActive, CountTerminal,
                  EndCleanup, Return, callVars, TypeOK
    <3>4. QED BY <3>1, <3>2, <3>3 DEF InTransition
  <2>4. ASSUME NEW t \in Threads,
               \/ Apply(t) \/ Refuse(t)
               \/ \E o \in Orders : VisitOrder(t, o)
        PROVE  Same
    <3>1. UNCHANGED <<transitioning, target>>
      BY <2>4 DEF Apply, Refuse, VisitOrder, machineVars, callVars
    <3>2. \A u \in Threads :
            \/ pc'[u] = pc[u]
            \/ {pc[u], pc'[u]} \subseteq {"owner", "applied"}
      BY <2>4 DEF Apply, Refuse, VisitOrder, TypeOK
    <3>3. QED BY <3>1, <3>2 DEF InTransition
  <2> USE DEF TypeOK, CallOK, OneTransitionAtATime, InTransition
  <2>5. ASSUME NEW t \in Threads, SwapWins(t)
        PROVE  OneTransitionAtATime'
    <3>1. \A u \in Threads : ~InTransition(u, target[t])
      BY <2>5 DEF SwapWins
    <3>2. QED BY <2>5, <3>1 DEF SwapWins, callVars
  <2>6. ASSUME NEW t \in Threads, ReleaseFlag(t)
        PROVE  OneTransitionAtATime'
    <3>1. \A u \in Threads : InTransition(u, target[t]) => u = t
      BY <2>6 DEF ReleaseFlag
    <3>2. CASE Return(t)
      BY <2>6, <3>1, <3>2 DEF ReleaseFlag, Return
    <3>3. CASE pc' = [pc EXCEPT ![t] = "uncount"] /\ UNCHANGED callVars
      BY <2>6, <3>1, <3>3 DEF ReleaseFlag, callVars
    <3>4. QED BY <2>6, <3>2, <3>3 DEF ReleaseFlag
  <2>7. QED BY <2>0, <2>1, <2>2, <2>3, <2>4, <2>5, <2>6 DEF Next, Continue
<1>3. QED BY <1>1, <1>2, TypeCorrect, PTL DEF Spec

-----------------------------------------------------------------------------
(* The audit trail.                                                        *)

\* A history h is a gapless path that ends in state s.
Path(h, s) ==
  /\ Len(h) <= MaxStateHistory
  /\ h = << >> => s = "Pending"
  /\ h # << >> => h[Len(h)].to = s
  /\ \A i \in 1 .. Len(h) - 1 : h[i].to = h[i + 1].from
  /\ h # << >> /\ Len(h) < MaxStateHistory => h[1].from = "Pending"

\* Recording a move out of the path's last state prolongs the path, also when
\* the oldest record has to go.
LEMMA RememberPath ==
  ASSUME NEW h \in Seq(StateChangeRecord), NEW s \in OrderState,
         NEW n \in OrderState, Path(h, s)
  PROVE  Path(Remember(h, [from |-> s, to |-> n]), n)
<1> DEFINE r == [from |-> s, to |-> n]
           g == IF Len(h) >= MaxStateHistory THEN Tail(h) ELSE h
<1>1. r \in StateChangeRecord /\ r.from = s /\ r.to = n
  BY DEF StateChangeRecord
<1>2. g \in Seq(StateChangeRecord) /\ Len(g) + 1 <= MaxStateHistory
  BY DEF Path
<1>3. g # << >> => g[Len(g)].to = s
  BY DEF Path
<1>4. \A i \in 1 .. Len(g) - 1 : g[i].to = g[i + 1].from
  <2>1. CASE Len(h) >= MaxStateHistory
    BY <2>1 DEF Path
  <2>2. CASE ~(Len(h) >= MaxStateHistory)
    BY <2>2 DEF Path
  <2>3. QED BY <2>1, <2>2
<1>5. Len(g) + 1 < MaxStateHistory => g = h
  BY DEF Path
<1> DEFINE a == Append(g, r)
<1>6. /\ Len(g) \in Nat
      /\ Len(a) = Len(g) + 1
      /\ a[Len(g) + 1] = r
      /\ \A i \in 1 .. Len(g) : a[i] = g[i]
  BY <1>1, <1>2
<1> HIDE DEF g, a, r
<1>7. \A i \in 1 .. Len(a) - 1 : a[i].to = a[i + 1].from
  <2>1. ASSUME NEW i \in 1 .. Len(a) - 1, i = Len(g)
        PROVE  a[i].to = a[i + 1].from
    <3>1. g # << >> /\ i \in 1 .. Len(g)
      BY <1>2, <1>6, <2>1
    <3>2. QED BY <1>1, <1>3, <1>6, <2>1, <3>1
  <2>2. ASSUME NEW i \in 1 .. Len(a) - 1, i # Len(g)
        PROVE  a[i].to = a[i + 1].from
    <3>1. i \in 1 .. Len(g) - 1 /\ i \in 1 .. Len(g) /\ i + 1 \in 1 .. Len(g)
      BY <1>6, <2>2
    <3>2. QED BY <1>4, <1>6, <3>1
  <2>3. QED BY <2>1, <2>2
<1>8. Len(a) < MaxStateHistory => a[1].from = "Pending"
  <2> SUFFICES ASSUME Len(a) < MaxStateHistory PROVE a[1].from = "Pending"
    OBVIOUS
  <2>1. g = h /\ Len(h) < MaxStateHistory
    BY <1>2, <1>5, <1>6
  <2>2. CASE h = << >>
    BY <1>1, <1>6, <2>1, <2>2 DEF Path
  <2>3. CASE h # << >>
    <3>1. 1 \in 1 .. Len(g)
      BY <1>2, <2>1, <2>3
    <3>2. QED BY <1>6, <2>1, <2>3, <3>1 DEF Path
  <2>4. QED BY <2>2, <2>3
<1>9. Path(a, n)
  <2>1. a # << >> /\ a[Len(a)].to = n /\ Len(a) <= MaxStateHistory
    BY <1>1, <1>2, <1>6
  <2>2. QED BY <1>7, <1>8, <2>1 DEF Path
<1>10. QED BY <1>9 DEF Remember, a, g, r

\* The audit trail is a gapless path to the current state, whatever the
\* interleaving of transitions and forced transitions.
THEOREM AuditTrail == Spec => []HistoryIsThePath
<1> DEFINE P == \A o \in Orders : Path(history[o], state[o])
<1>1. Init => P
  BY DEF Init, Path
<1>2. TypeOK /\ CallOK /\ P /\ [Next]_vars => P'
  <2> SUFFICES ASSUME TypeOK, CallOK, P, [Next]_vars PROVE P'
    OBVIOUS
  <2>1. CASE UNCHANGED <<state, history>>
    BY <2>1
  <2>2. ASSUME NEW o \in Orders, NEW n \in OrderState,
               state' = [state EXCEPT ![o] = n],
               history' = [history EXCEPT ![o] =
                             Remember(@, [from |-> state[o], to |-> n])]
        PROVE  P'
    <3>1. state[o] \in OrderState /\ history[o] \in Seq(StateChangeRecord)
      BY DEF TypeOK
    <3>2. Path(Remember(history[o], [from |-> state[o], to |-> n]), n)
      BY <3>1, RememberPath
    <3>3. /\ state'[o] = n
          /\ history'[o] = Remember(history[o], [from |-> state[o], to |-> n])
          /\ \A p \in Orders \ {o} : /\ state'[p] = state[p]
                                     /\ history'[p] = history[p]
      BY <2>2 DEF TypeOK
    <3>4. QED BY <3>2, <3>3
  <2>3. ASSUME NEW t \in Threads, Apply(t) PROVE P'
    <3>1. target[t] \in Orders /\ state[target[t]] \in OrderState
      BY <2>3 DEF Apply, TypeOK, CallOK
    <3>2. \E n \in OrderState :
            /\ state' = [state EXCEPT ![target[t]] = n]
            /\ history' = [history EXCEPT ![target[t]] =
                 Remember(@, [from |-> state[target[t]], to |-> n])]
      BY <2>3, <3>1, SuccessorsType DEF Apply
    <3>3. QED BY <2>2, <3>1, <3>2
  <2>4. ASSUME NEW t \in Threads, NEW o \in Orders, NEW n \in ForcedStates,
               ForceTransition(t, o, n)
        PROVE  P'
    BY <2>2, <2>4 DEF ForceTransition
  <2>5. ASSUME NEW t \in Threads,
               \/ \E o \in Orders : CreateOrder(t, o) \/ VisitOrder(t, o)
               \/ \E o \in Orders, e \in Events :
                    ProcessEvent(t, o, e) \/ CallTransition(t, o, e)
               \/ StartCleanup(t) \/ EndCleanup(t)
               \/ CountCreated(t) \/ SwapWins(t) \/ SwapLoses(t)
               \/ Refuse(t) \/ ReleaseFlag(t)
               \/ UncountActive(t) \/ CountTerminal(t)
        PROVE  UNCHANGED <<state, history>>
    BY <2>5 DEF CreateOrder, VisitOrder, ProcessEvent, CallTransition,
                StartCleanup, EndCleanup, CountCreated, SwapWins, SwapLoses,
                Refuse, ReleaseFlag, UncountActive, CountTerminal, machineVars
  <2>6. QED BY <2>1, <2>3, <2>4, <2>5 DEF Next, Call, Continue, vars
<1>3. P => HistoryIsThePath
  BY DEF Path, HistoryIsThePath
<1>4. QED BY <1>1, <1>2, <1>3, TypeCorrect, PTL DEF Spec

-----------------------------------------------------------------------------
(* Lifecycle.  force_transition may put an order anywhere, so what follows *)
(* assumes that recovery does not call it.                                 *)

\* Every legal target of an event is a move StateTransition declares.
LEMMA SuccessorsDeclared ==
  ASSUME NEW e, NEW s \in OrderState, NEW n \in Successors(e, s)
  PROVE  <<s, n>> \in Lifecycle!Declared
<1>1. <<s, n>> \in ValidMoves /\ n \in OrderState /\ s \notin Terminal
  BY SuccessorsType DEF Successors
<1>0. Lifecycle!OrderState = OrderState /\ Lifecycle!Terminal = Terminal
  BY DEF Lifecycle!OrderState, OrderState, Lifecycle!Terminal, Terminal
<1>2. CASE n = "InFlight"
  BY <1>0, <1>1, <1>2 DEF Lifecycle!Declared, Lifecycle!AnyToInFlight
<1>3. CASE s = "InFlight"
  BY <1>0, <1>1, <1>3 DEF Lifecycle!Declared, Lifecycle!InFlightToAny
<1>4. CASE n # "InFlight" /\ s # "InFlight"
  <2>1. \/ s = "Pending" /\ n \in {"Submitted", "Triggered"}
        \/ s = "Submitted" /\ n \in {"Acknowledged", "Rejected"}
        \/ s = "Acknowledged" /\ n \in {"Working", "Rejected"}
        \/ s = "Working" /\ n \in {"PartiallyFilled", "Filled", "Expired"}
        \/ s = "PartiallyFilled" /\ n = "Filled"
        \/ s = "Triggered" /\ n \in {"Working", "Cancelled"}
    BY <1>1, <1>4 DEF ValidMoves
  <2>2. QED BY <2>1 DEF Lifecycle!Declared, Lifecycle!NamedMoves
<1>5. QED BY <1>2, <1>3, <1>4

\* A step moves at most one order, a created one, and by a declared move.
LEMMA StepMoves ==
  ASSUME TypeOK, CallOK, [Next]_vars, ForcedStates = {}
  PROVE  \/ UNCHANGED state
         \/ /\ UNCHANGED <<created, orders>>
            /\ \E o \in created : \E n \in OrderState :
                 /\ state' = [state EXCEPT ![o] = n]
                 /\ state[o] \notin Terminal
                 /\ <<state[o], n>> \in Lifecycle!Declared
<1>1. ASSUME NEW t \in Threads, Apply(t)
      PROVE  /\ UNCHANGED <<created, orders>>
             /\ \E o \in created : \E n \in OrderState :
                  /\ state' = [state EXCEPT ![o] = n]
                  /\ state[o] \notin Terminal
                  /\ <<state[o], n>> \in Lifecycle!Declared
  <2>1. target[t] \in created /\ state[target[t]] \in OrderState
    BY <1>1 DEF Apply, TypeOK, CallOK
  <2>2. PICK n \in Successors(event[t], state[target[t]]) :
          state' = [state EXCEPT ![target[t]] = n]
    BY <1>1 DEF Apply
  <2>3. QED BY <1>1, <2>1, <2>2, SuccessorsType, SuccessorsDeclared
            DEF Apply, mapVars
<1>2. ASSUME NEW t \in Threads, ~Apply(t), Call(t) \/ Continue(t)
      PROVE  UNCHANGED state
  BY <1>2 DEF Call, Continue, CreateOrder, ProcessEvent, CallTransition,
              ForceTransition, StartCleanup, VisitOrder, EndCleanup,
              CountCreated, SwapWins, SwapLoses, Refuse, ReleaseFlag,
              UncountActive, CountTerminal, machineVars
<1>3. QED BY <1>1, <1>2 DEF Next, vars

\* A step creates at most one order, and takes only terminal ones off the map.
LEMMA StepOrders ==
  ASSUME TypeOK, CallOK, [Next]_vars
  PROVE  \/ UNCHANGED <<created, orders>>
         \/ \E o \in Orders \ created : /\ created' = created \cup {o}
                                        /\ orders' = orders \cup {o}
                                        /\ UNCHANGED state
         \/ \E o \in Orders : /\ state[o] \in Terminal
                              /\ orders' = orders \ {o}
                              /\ UNCHANGED <<created, state>>
<1>1. ASSUME NEW t \in Threads, NEW o \in Orders, CreateOrder(t, o)
      PROVE  /\ o \notin created
             /\ created' = created \cup {o}
             /\ orders' = orders \cup {o}
             /\ UNCHANGED state
  BY <1>1 DEF CreateOrder, machineVars
<1>2. ASSUME NEW t \in Threads, NEW o \in Orders, VisitOrder(t, o)
      PROVE  /\ UNCHANGED <<created, state>>
             /\ \/ UNCHANGED orders
                \/ state[o] \in Terminal /\ orders' = orders \ {o}
  BY <1>2 DEF VisitOrder, machineVars
<1>3. ASSUME NEW t \in Threads, Call(t) \/ Continue(t),
             \A o \in Orders : ~CreateOrder(t, o) /\ ~VisitOrder(t, o)
      PROVE  UNCHANGED <<created, orders>>
  BY <1>3 DEF Call, Continue, ProcessEvent, CallTransition,
              ForceTransition, StartCleanup, EndCleanup,
              CountCreated, SwapWins, SwapLoses, Apply, Refuse, ReleaseFlag,
              UncountActive, CountTerminal, mapVars
<1>4. QED BY <1>1, <1>2, <1>3 DEF Next, vars

\* The machine implements OrderLifecycle: with any number of threads racing
\* on swap, event table and clean-up, orders make declared moves only.
THEOREM Refinement ==
  ASSUME ForcedStates = {}
  PROVE  Spec => ImplementsLifecycle
<1>1. Init => Lifecycle!Init
  BY DEF Init, Lifecycle!Init
<1>2. TypeOK /\ CallOK /\ [Next]_vars => [Lifecycle!Next]_(Lifecycle!vars)
  <2> SUFFICES ASSUME TypeOK, CallOK, [Next]_vars
               PROVE  [Lifecycle!Next]_(Lifecycle!vars)
      OBVIOUS
  <2>1. CASE UNCHANGED <<created, state>>
    BY <2>1 DEF Lifecycle!vars
  <2>2. CASE \E o \in Orders \ created : created' = created \cup {o}
                                         /\ UNCHANGED state
    BY <2>2 DEF Lifecycle!Next, Lifecycle!Create
  <2>3. CASE /\ UNCHANGED created
             /\ \E o \in created : \E n \in OrderState :
                  /\ state' = [state EXCEPT ![o] = n]
                  /\ <<state[o], n>> \in Lifecycle!Declared
    <3>1. Lifecycle!OrderState = OrderState
      BY DEF Lifecycle!OrderState, OrderState
    <3>2. QED BY <2>3, <3>1 DEF Lifecycle!Next, Lifecycle!Move, TypeOK
  <2>4. QED BY <2>1, <2>2, <2>3, StepMoves, StepOrders
<1>3. QED BY <1>1, <1>2, TypeCorrect, PTL
          DEF Spec, ImplementsLifecycle, Lifecycle!Spec

\* cleanup_terminal_orders never drops a live order, however it interleaves
\* with creations and transitions.
THEOREM CleanupKeepsLiveOrders ==
  ASSUME ForcedStates = {}
  PROVE  Spec => []NoLiveOrderLost
<1>1. Init => NoLiveOrderLost
  BY DEF Init, NoLiveOrderLost
<1>2. TypeOK /\ CallOK /\ NoLiveOrderLost /\ [Next]_vars => NoLiveOrderLost'
  <2> SUFFICES ASSUME TypeOK, CallOK, NoLiveOrderLost, [Next]_vars
               PROVE  NoLiveOrderLost'
      OBVIOUS
  <2>1. \A o \in Orders : state[o] \in Terminal => state'[o] = state[o]
    BY StepMoves DEF TypeOK
  <2>2. CASE UNCHANGED <<created, orders>>
    BY <2>1, <2>2 DEF NoLiveOrderLost, TypeOK
  <2>3. CASE \E o \in Orders \ created : /\ created' = created \cup {o}
                                         /\ orders' = orders \cup {o}
                                         /\ UNCHANGED state
    <3>1. PICK o \in Orders \ created : /\ created' = created \cup {o}
                                        /\ orders' = orders \cup {o}
                                        /\ UNCHANGED state
      BY <2>3
    <3>2. \A p \in created' \ orders' : p \in created \ orders
      BY <3>1
    <3>3. QED BY <3>1, <3>2 DEF NoLiveOrderLost
  <2>4. CASE \E o \in Orders : /\ state[o] \in Terminal
                               /\ orders' = orders \ {o}
                               /\ UNCHANGED <<created, state>>
    BY <2>4 DEF NoLiveOrderLost, TypeOK
  <2>5. QED BY <2>2, <2>3, <2>4, StepOrders
<1>3. QED BY <1>1, <1>2, TypeCorrect, PTL DEF Spec
-----------------------------------------------------------------------------
(* Results.  What a step does to the calls of other threads, and to states,*)
(* when recovery forces nothing.                                           *)

\* A step of thread t leaves the calls of the others alone.
LEMMA OthersStay ==
  ASSUME TypeOK, NEW t \in Threads, Call(t) \/ Continue(t)
  PROVE  \A u \in Threads \ {t} :
           /\ pc'[u] = pc[u] /\ target'[u] = target[u]
           /\ result'[u] = result[u] /\ managed'[u] = managed[u]
<1>1. CASE Call(t)
  BY <1>1 DEF Call, CreateOrder, ProcessEvent, CallTransition,
              ForceTransition, StartCleanup, callVars, TypeOK
<1>2. CASE Continue(t)
  BY <1>2 DEF Continue, CountCreated, SwapWins, SwapLoses, Apply, Refuse,
              ReleaseFlag, UncountActive, CountTerminal, VisitOrder,
              EndCleanup, Return, callVars, TypeOK
<1> QED
  BY <1>1, <1>2

\* An order is moved by do_transition only, and its new state is the result.
LEMMA ApplyMoves ==
  ASSUME TypeOK, CallOK, NEW t \in Threads, Apply(t)
  PROVE  /\ pc[t] = "owner" /\ pc'[t] = "applied"
         /\ target' = target /\ target[t] \in created
         /\ state[target[t]] \notin Terminal
         /\ result'[t].success /\ result'[t].new = state'[target[t]]
         /\ state'[target[t]] \in OrderState
         /\ \A o \in Orders \ {target[t]} : state'[o] = state[o]
<1>1. target[t] \in created /\ target[t] \in Orders
  BY DEF Apply, TypeOK, CallOK
<1>2. PICK n \in Successors(event[t], state[target[t]]) :
        /\ state' = [state EXCEPT ![target[t]] = n]
        /\ result' = [result EXCEPT ![t] =
             [success |-> TRUE, previous |-> state[target[t]], new |-> n]]
  BY DEF Apply
<1>3. n \in OrderState /\ state[target[t]] \notin Terminal
  BY <1>1, SuccessorsType DEF TypeOK
<1>4. state'[target[t]] = n /\ result'[t].new = n /\ result'[t].success
  BY <1>1, <1>2 DEF TypeOK
<1> QED
  BY <1>1, <1>2, <1>3, <1>4 DEF Apply, TypeOK

\* Every other step leaves the states alone.
LEMMA StateStays ==
  ASSUME ForcedStates = {}, NEW t \in Threads, ~Apply(t), Call(t) \/ Continue(t)
  PROVE  UNCHANGED state
BY DEF Call, Continue, CreateOrder, ProcessEvent, CallTransition,
       ForceTransition, StartCleanup, VisitOrder, EndCleanup, CountCreated,
       SwapWins, SwapLoses, Refuse, ReleaseFlag, UncountActive,
       CountTerminal, machineVars

\* Where a step that goes on to use a result comes from.
LEMMA HoldsResult ==
  ASSUME TypeOK, CallOK, NEW t \in Threads, ~Apply(t), Call(t) \/ Continue(t),
         pc'[t] \in {"applied", "uncount", "recount"}
  PROVE  \/ /\ Refuse(t) /\ pc'[t] = "applied" /\ target'[t] = target[t]
            /\ ~result'[t].success /\ result'[t].new = state[target[t]]
         \/ /\ ReleaseFlag(t) /\ pc[t] = "applied" /\ pc'[t] = "uncount"
            /\ result[t].success /\ result[t].new \in Terminal
            /\ UNCHANGED callVars
         \/ /\ UncountActive(t) /\ pc[t] = "uncount" /\ pc'[t] = "recount"
            /\ UNCHANGED callVars
<1>1. ~Call(t)
  BY DEF Call, CreateOrder, ProcessEvent, CallTransition, ForceTransition,
         StartCleanup, TypeOK
<1>2. \/ Refuse(t) \/ ReleaseFlag(t) \/ UncountActive(t)
  <2>1. ~CountCreated(t) /\ ~SwapLoses(t) /\ ~CountTerminal(t)
    BY DEF CountCreated, SwapLoses, CountTerminal, Return, TypeOK
  <2>2. ~SwapWins(t) /\ ~EndCleanup(t)
    BY DEF SwapWins, EndCleanup, TypeOK
  <2>3. \A o \in Orders : ~VisitOrder(t, o)
    BY DEF VisitOrder
  <2> QED
    BY <1>1, <2>1, <2>2, <2>3 DEF Continue
<1>3. CASE Refuse(t)
  BY <1>3 DEF Refuse, TypeOK
<1>4. CASE ReleaseFlag(t)
  BY <1>4 DEF ReleaseFlag, Return, TypeOK
<1>5. CASE UncountActive(t)
  BY <1>5 DEF UncountActive, TypeOK
<1> QED
  BY <1>2, <1>3, <1>4, <1>5

\* A result stays true up to the last counter update: under the flag nobody
\* else moves the order, and afterwards it is terminal for good.
THEOREM ResultsStay ==
  ASSUME ForcedStates = {}
  PROVE  Spec => []ResultStillTrue
<1>1. Init => ResultStillTrue
  BY DEF Init, ResultStillTrue
<1>2. TypeOK /\ CallOK /\ OneTransitionAtATime /\ ResultStillTrue
        /\ [Next]_vars => ResultStillTrue'
  <2> SUFFICES ASSUME TypeOK, CallOK, OneTransitionAtATime, ResultStillTrue,
                      Next
               PROVE  ResultStillTrue'
    BY DEF vars, ResultStillTrue
  <2>1. PICK t \in Threads : Call(t) \/ Continue(t)
    BY DEF Next
  <2> SUFFICES ASSUME NEW u \in Threads,
                      pc'[u] \in {"applied", "uncount", "recount"}
               PROVE  /\ result'[u].new = state'[target'[u]]
                      /\ pc'[u] # "applied" => state'[target'[u]] \in Terminal
    BY DEF ResultStillTrue
  <2>2. CASE u # t
    <3>1. /\ pc'[u] = pc[u] /\ target'[u] = target[u]
          /\ result'[u] = result[u]
      BY <2>1, <2>2, OthersStay
    <3>2. /\ result[u].new = state[target[u]] /\ target[u] \in Orders
          /\ pc[u] # "applied" => state[target[u]] \in Terminal
      BY <3>1 DEF ResultStillTrue, CallOK, TypeOK
    <3>3. CASE ~Apply(t)
      BY <2>1, <3>1, <3>2, <3>3, StateStays
    <3>4. CASE Apply(t)
      <4>1. target[u] # target[t]
        <5>1. pc[t] = "owner" /\ target[t] \in Orders
              /\ state[target[t]] \notin Terminal
          BY <3>4, ApplyMoves DEF TypeOK
        <5>2. CASE pc[u] = "applied"
          BY <2>2, <5>1, <5>2 DEF OneTransitionAtATime, InTransition
        <5>3. CASE pc[u] # "applied"
          BY <3>2, <5>1, <5>3
        <5> QED
          BY <5>2, <5>3
      <4>2. state'[target[u]] = state[target[u]]
        BY <3>2, <3>4, <4>1, ApplyMoves
      <4> QED
        BY <3>1, <3>2, <4>2
    <3> QED
      BY <3>3, <3>4
  <2>3. CASE u = t /\ Apply(t)
    BY <2>3, ApplyMoves
  <2>4. CASE u = t /\ ~Apply(t)
    <3>1. UNCHANGED state
      BY <2>1, <2>4, StateStays
    <3> QED
      BY <2>1, <2>4, <3>1, HoldsResult DEF ResultStillTrue, callVars
  <2> QED
    BY <2>2, <2>3, <2>4
<1> QED
  BY <1>1, <1>2, TypeCorrect, MutualExclusion, PTL DEF Spec
-----------------------------------------------------------------------------
(* Counters.  They are atomics of their own, updated after the fact, so    *)
(* what they count has to be set against the calls that still owe an       *)
(* update.  No counter wraps because an order owes at most one: an order   *)
(* becomes terminal once, and is created once.                             *)

Live == {o \in created : state[o] \notin Terminal}
Ended == {o \in created : state[o] \in Terminal}

\* The calls that made an order terminal and have not said so yet.
Owes(t) ==
  \/ pc[t] \in {"uncount", "recount"}
  \/ pc[t] = "applied" /\ result[t].success /\ result[t].new \in Terminal

Owing == {t \in Threads : Owes(t)}
OwingBoth == {t \in Threads : Owes(t) /\ pc[t] # "recount"}
Creating == At("creating")

\* Nobody else has got hold of an order that is still to be counted, such an
\* order has not moved, and one order is owed to by one call.
CallsApart ==
  /\ \A t, u \in Threads :
       pc[t] = "creating" /\ pc[u] \notin {"idle", "cleaning"}
         /\ target[t] = target[u] => t = u
  /\ \A t \in Threads : pc[t] = "creating" => state[target[t]] \notin Terminal
  /\ \A o \in Orders \ created : state[o] \notin Terminal
  /\ \A t, u \in Threads : Owes(t) /\ Owes(u) /\ target[t] = target[u] => t = u

\* The step that ends an order finds that no call owes anything to it; an
\* order gets its first caller when create_order has returned.
LEMMA CallsStayApart ==
  ASSUME TypeOK, CallOK, ResultStillTrue, CallsApart, ForcedStates = {},
         NEW t \in Threads, Call(t) \/ Continue(t)
  PROVE  CallsApart'
<1>1. \A u \in Threads \ {t} :
        /\ pc'[u] = pc[u] /\ target'[u] = target[u]
        /\ Owes(u)' <=> Owes(u)
  BY OthersStay DEF Owes
<1>2. created \subseteq created'
  BY DEF Call, Continue, CreateOrder, ProcessEvent, CallTransition,
         ForceTransition, StartCleanup, VisitOrder, EndCleanup, CountCreated,
         SwapWins, SwapLoses, Apply, Refuse, ReleaseFlag, UncountActive,
         CountTerminal, mapVars
<1>3. \A u \in Threads : Owes(u) => state[target[u]] \in Terminal
  BY DEF Owes, ResultStillTrue
<1>4. CASE Apply(t)
  <2>1. /\ pc[t] = "owner" /\ pc'[t] = "applied"
        /\ target' = target /\ target[t] \in created
        /\ state[target[t]] \notin Terminal
        /\ \A o \in Orders \ {target[t]} : state'[o] = state[o]
    BY <1>4, ApplyMoves
  <2>2. \A u \in Threads : Owes(u) => target[u] # target[t]
    BY <1>3, <2>1
  <2>3. \A u \in Threads : pc[u] = "creating" => target[u] # target[t]
    BY <2>1 DEF CallsApart
  <2>4. \A u \in Threads : pc'[u] = "creating" <=> pc[u] = "creating"
    BY <1>1, <2>1
  <2>5. \A u \in Threads :
          pc'[u] = "creating" => state'[target[u]] \notin Terminal
    BY <2>1, <2>3, <2>4 DEF CallsApart, CallOK, TypeOK
  <2>6. \A o \in Orders \ created' : state'[o] \notin Terminal
    BY <1>2, <2>1 DEF CallsApart
  <2>7. \A u, v \in Threads :
          Owes(u)' /\ Owes(v)' /\ target[u] = target[v] => u = v
    BY <1>1, <2>2 DEF CallsApart
  <2>8. \A u, v \in Threads :
          pc'[u] = "creating" /\ pc'[v] \notin {"idle", "cleaning"}
            /\ target[u] = target[v] => u = v
    BY <1>1, <2>1, <2>3, <2>4 DEF CallsApart
  <2> QED
    BY <2>1, <2>5, <2>6, <2>7, <2>8 DEF CallsApart
<1>5. CASE ~Apply(t)
  <2>1. UNCHANGED state
    BY <1>5, StateStays
  <2>2. \A o \in Orders \ created' : state'[o] \notin Terminal
    BY <1>2, <2>1 DEF CallsApart
  <2>3. Owes(t)' => Owes(t) /\ target'[t] = target[t]
    <3>1. Owes(t)' => pc'[t] \in {"applied", "uncount", "recount"}
      BY DEF Owes
    <3> QED
      BY <1>5, <3>1, HoldsResult DEF Owes, callVars
  <2>4. CASE pc'[t] = "creating"
    <3>1. PICK o \in Orders : CreateOrder(t, o)
      <4>1. ~Continue(t)
        BY <2>4 DEF Continue, CountCreated, SwapWins, SwapLoses, Apply, Refuse,
              ReleaseFlag, UncountActive, CountTerminal, VisitOrder,
              EndCleanup, Return, TypeOK
      <4> QED
        BY <2>4, <4>1 DEF Call, ProcessEvent, CallTransition,
              ForceTransition, StartCleanup, TypeOK
    <3>2. /\ target'[t] = o /\ o \notin created
      BY <3>1 DEF CreateOrder, TypeOK
    <3>3. \A u \in Threads \ {t} :
            pc[u] \notin {"idle", "cleaning"} => target[u] \in created
      BY DEF CallOK, TypeOK, PC
    <3>4. \A u, v \in Threads :
            pc'[u] = "creating" /\ pc'[v] \notin {"idle", "cleaning"}
              /\ target'[u] = target'[v] => u = v
      BY <1>1, <3>2, <3>3 DEF CallsApart
    <3>5. \A u \in Threads :
            pc'[u] = "creating" => state'[target'[u]] \notin Terminal
      BY <1>1, <2>1, <3>2 DEF CallsApart
    <3> QED
      BY <1>1, <2>2, <2>3, <3>4, <3>5 DEF CallsApart
  <2>5. CASE pc'[t] # "creating"
    <3>1. pc'[t] \notin {"idle", "cleaning"} =>
            \/ pc[t] \notin {"idle", "cleaning"} /\ target'[t] = target[t]
            \/ target'[t] \in Shared
      <4>1. CASE Call(t)
        BY <2>5, <4>1 DEF Call, CreateOrder, ProcessEvent, CallTransition,
                          ForceTransition, StartCleanup, TypeOK
      <4>2. CASE Continue(t)
        BY <4>2 DEF Continue, CountCreated, SwapWins, SwapLoses, Apply, Refuse,
              ReleaseFlag, UncountActive, CountTerminal, VisitOrder,
              EndCleanup, Return, callVars, TypeOK
      <4> QED
        BY <4>1, <4>2
    <3>2. \A u, v \in Threads :
            pc'[u] = "creating" /\ pc'[v] \notin {"idle", "cleaning"}
              /\ target'[u] = target'[v] => u = v
      BY <1>1, <2>5, <3>1 DEF CallsApart, Shared
    <3>3. \A u \in Threads :
            pc'[u] = "creating" => state'[target'[u]] \notin Terminal
      BY <1>1, <2>1, <2>5 DEF CallsApart
    <3> QED
      BY <1>1, <2>2, <2>3, <3>2, <3>3 DEF CallsApart
  <2> QED
    BY <2>4, <2>5
<1> QED
  BY <1>4, <1>5

\* Each call that owes an update has an order to itself, so the calls are no
\* more than the orders, and the counts fit.
LEMMA CountsFit ==
  ASSUME TypeOK, CallOK, ResultStillTrue, CallsApart
  PROVE  /\ IsFiniteSet(Live) /\ IsFiniteSet(Ended) /\ IsFiniteSet(Creating)
         /\ IsFiniteSet(Owing) /\ IsFiniteSet(OwingBoth)
         /\ Cardinality(Creating) <= Cardinality(Live)
         /\ Cardinality(Owing) <= Cardinality(Ended)
         /\ Cardinality(OwingBoth) <= Cardinality(Owing)
         /\ Cardinality(Live) + Cardinality(Ended) <= Cardinality(Orders)
<1>1. IsFiniteSet(created) /\ Cardinality(created) <= Cardinality(Orders)
  BY OrdersAssumption, FS_Subset DEF TypeOK
<1>2. IsFiniteSet(Live) /\ IsFiniteSet(Ended)
  BY <1>1, FS_Subset DEF Live, Ended
<1>3. Cardinality(Live) + Cardinality(Ended) <= Cardinality(Orders)
  <2>1. Live \cup Ended = created /\ Live \cap Ended = {}
    BY DEF Live, Ended
  <2>2. Cardinality(created)
          = Cardinality(Live) + Cardinality(Ended) - Cardinality({})
    BY <1>2, <2>1, FS_Union
  <2> QED
    BY <1>1, <1>2, <2>2, OrdersAssumption, FS_EmptySet, FS_CardinalityType
<1>4. ASSUME NEW S \in SUBSET Threads, NEW T, IsFiniteSet(T),
             \A t \in S : target[t] \in T,
             \A t, u \in S : target[t] = target[u] => t = u
      PROVE  IsFiniteSet(S) /\ Cardinality(S) <= Cardinality(T)
  <2> DEFINE f == [t \in S |-> target[t]]
  <2>1. f \in Injection(S, T)
    BY <1>4 DEF Injection, IsInjective
  <2> HIDE DEF f
  <2> QED
    BY <1>4, <2>1, FS_Injection
<1>5. IsFiniteSet(Creating) /\ Cardinality(Creating) <= Cardinality(Live)
  <2>1. Creating \in SUBSET Threads /\ \A t \in Creating : target[t] \in Live
    BY DEF Creating, At, Live, CallsApart, CallOK
  <2>2. \A t, u \in Creating : target[t] = target[u] => t = u
    BY DEF Creating, At, CallsApart
  <2> QED
    BY <1>2, <1>4, <2>1, <2>2
<1>6. IsFiniteSet(Owing) /\ Cardinality(Owing) <= Cardinality(Ended)
  <2>1. Owing \in SUBSET Threads /\ \A t \in Owing : target[t] \in Ended
    BY DEF Owing, Owes, Ended, ResultStillTrue, CallOK
  <2>2. \A t, u \in Owing : target[t] = target[u] => t = u
    BY DEF Owing, CallsApart
  <2> QED
    BY <1>2, <1>4, <2>1, <2>2
<1>7. IsFiniteSet(OwingBoth) /\ Cardinality(OwingBoth) <= Cardinality(Owing)
  <2>1. OwingBoth \in SUBSET Owing
    BY DEF OwingBoth, Owing
  <2> QED
    BY <1>6, <2>1, FS_Subset
<1> QED
  BY <1>2, <1>3, <1>5, <1>6, <1>7
\* What the counters show, in terms of these sets.
Shown ==
  /\ activeCount = Cardinality(Live) + Cardinality(OwingBoth)
                   - Cardinality(Creating)
  /\ terminalCount = Cardinality(Ended) - Cardinality(Owing)

LEMMA ShownIsExact == Shown => CountersExact
<1>1. OwingBoth = {t \in Threads : \/ pc[t] = "uncount"
                                   \/ /\ pc[t] = "applied"
                                      /\ result[t].success
                                      /\ result[t].new \in Terminal}
  BY DEF OwingBoth, Owes
<1>2. Owing = {t \in Threads : \/ pc[t] \in {"uncount", "recount"}
                               \/ /\ pc[t] = "applied"
                                  /\ result[t].success
                                  /\ result[t].new \in Terminal}
  BY DEF Owing, Owes
<1> QED
  BY <1>1, <1>2 DEF Shown, CountersExact, Live, Ended, Creating

\* The number of a finite set that gains or loses a member.
LEMMA Gains == ASSUME NEW S, IsFiniteSet(S), NEW x, x \notin S
               PROVE  Cardinality(S \cup {x}) = Cardinality(S) + 1
BY FS_AddElement

LEMMA Loses == ASSUME NEW S, IsFiniteSet(S), NEW x \in S
               PROVE  Cardinality(S \ {x}) = Cardinality(S) - 1
BY FS_RemoveElement

\* What each step does to the sets and to the counters.
Uncounted == UNCHANGED <<Live, Ended, Owing, OwingBoth, Creating, countVars>>

LEMMA CreateOrderGains ==
  ASSUME TypeOK, CallsApart, NEW t \in Threads, NEW o \in Orders,
         CreateOrder(t, o)
  PROVE  /\ o \notin Live /\ Live' = Live \cup {o} /\ Ended' = Ended
         /\ t \notin Creating /\ Creating' = Creating \cup {t}
         /\ Owing' = Owing /\ OwingBoth' = OwingBoth /\ UNCHANGED countVars
<1>1. /\ pc[t] = "idle" /\ pc' = [pc EXCEPT ![t] = "creating"]
      /\ o \notin created /\ created' = created \cup {o}
      /\ state' = state /\ result' = result /\ UNCHANGED countVars
  BY DEF CreateOrder, machineVars
<1>2. state[o] \notin Terminal
  BY <1>1 DEF CallsApart
<1>3. Live' = Live \cup {o} /\ Ended' = Ended /\ o \notin Live
  BY <1>1, <1>2 DEF Live, Ended
<1>4. pc'[t] = "creating" /\ \A u \in Threads \ {t} : pc'[u] = pc[u]
  BY <1>1 DEF TypeOK
<1>5. Creating' = Creating \cup {t} /\ t \notin Creating
  BY <1>1, <1>4 DEF Creating, At
<1>6. Owing' = Owing /\ OwingBoth' = OwingBoth
  BY <1>1, <1>4 DEF Owing, OwingBoth, Owes
<1> QED
  BY <1>1, <1>3, <1>5, <1>6

LEMMA CountCreatedLoses ==
  ASSUME TypeOK, NEW t \in Threads, CountCreated(t)
  PROVE  /\ Live' = Live /\ Ended' = Ended
         /\ t \in Creating /\ Creating' = Creating \ {t}
         /\ Owing' = Owing /\ OwingBoth' = OwingBoth
         /\ terminalCount' = terminalCount
<1>1. /\ pc[t] = "creating" /\ pc'[t] = "idle"
      /\ \A u \in Threads \ {t} : pc'[u] = pc[u] /\ result'[u] = result[u]
      /\ created' = created /\ state' = state
      /\ terminalCount' = terminalCount
  BY DEF CountCreated, Return, machineVars, mapVars, TypeOK
<1> QED
  BY <1>1 DEF Live, Ended, Creating, At, Owing, OwingBoth, Owes

LEMMA UncountLoses ==
  ASSUME TypeOK, NEW t \in Threads, UncountActive(t)
  PROVE  /\ Live' = Live /\ Ended' = Ended /\ Creating' = Creating
         /\ t \in OwingBoth /\ OwingBoth' = OwingBoth \ {t}
         /\ Owing' = Owing /\ terminalCount' = terminalCount
<1>1. /\ pc[t] = "uncount" /\ pc'[t] = "recount"
      /\ \A u \in Threads \ {t} : pc'[u] = pc[u]
      /\ result' = result /\ created' = created /\ state' = state
      /\ terminalCount' = terminalCount
  BY DEF UncountActive, machineVars, mapVars, callVars, TypeOK
<1> QED
  BY <1>1 DEF Live, Ended, Creating, At, Owing, OwingBoth, Owes

LEMMA CountTerminalLoses ==
  ASSUME TypeOK, NEW t \in Threads, CountTerminal(t)
  PROVE  /\ Live' = Live /\ Ended' = Ended /\ Creating' = Creating
         /\ t \in Owing /\ Owing' = Owing \ {t}
         /\ OwingBoth' = OwingBoth /\ activeCount' = activeCount
<1>1. /\ pc[t] = "recount" /\ pc'[t] = "idle"
      /\ \A u \in Threads \ {t} : pc'[u] = pc[u] /\ result'[u] = result[u]
      /\ created' = created /\ state' = state /\ activeCount' = activeCount
  BY DEF CountTerminal, Return, machineVars, mapVars, TypeOK
<1> QED
  BY <1>1 DEF Live, Ended, Creating, At, Owing, OwingBoth, Owes

\* An order that ends changes sides, and the call that ended it owes both
\* updates.
LEMMA ApplyEnds ==
  ASSUME TypeOK, CallOK, NEW t \in Threads, Apply(t)
  PROVE  \/ Uncounted
         \/ \E o \in Live :
              /\ Live' = Live \ {o} /\ o \notin Ended
              /\ Ended' = Ended \cup {o} /\ Creating' = Creating
              /\ t \notin Owing /\ Owing' = Owing \cup {t}
              /\ t \notin OwingBoth /\ OwingBoth' = OwingBoth \cup {t}
              /\ UNCHANGED countVars
<1> DEFINE o == target[t]
<1>1. /\ pc[t] = "owner" /\ pc'[t] = "applied" /\ o \in created
      /\ state[o] \notin Terminal
      /\ result'[t].success /\ result'[t].new = state'[o]
      /\ \A p \in Orders \ {o} : state'[p] = state[p]
  BY ApplyMoves
<1>2. /\ \A u \in Threads \ {t} : pc'[u] = pc[u] /\ result'[u] = result[u]
      /\ created' = created /\ UNCHANGED countVars
  BY DEF Apply, mapVars, TypeOK
<1>3. o \in Live /\ o \notin Ended /\ t \notin Owing /\ t \notin OwingBoth
  BY <1>1 DEF Live, Ended, Owing, OwingBoth, Owes
<1>4. Creating' = Creating
  BY <1>1, <1>2 DEF Creating, At
<1>5. CASE state'[o] \in Terminal
  <2>1. Live' = Live \ {o} /\ Ended' = Ended \cup {o}
    BY <1>1, <1>2, <1>5 DEF Live, Ended, TypeOK
  <2>2. Owing' = Owing \cup {t} /\ OwingBoth' = OwingBoth \cup {t}
    BY <1>1, <1>2, <1>5 DEF Owing, OwingBoth, Owes
  <2> QED
    BY <1>2, <1>3, <1>4, <2>1, <2>2
<1>6. CASE state'[o] \notin Terminal
  <2>1. \A p \in created : state'[p] \in Terminal <=> state[p] \in Terminal
    BY <1>1, <1>6 DEF TypeOK
  <2>2. Live' = Live /\ Ended' = Ended
    BY <1>2, <2>1 DEF Live, Ended
  <2>3. Owing' = Owing /\ OwingBoth' = OwingBoth
    BY <1>1, <1>2, <1>6 DEF Owing, OwingBoth, Owes
  <2> QED
    BY <1>2, <1>4, <2>2, <2>3 DEF Uncounted
<1> QED
  BY <1>5, <1>6

\* No other step changes what is counted.
LEMMA OthersUncounted ==
  ASSUME TypeOK, ForcedStates = {}, NEW t \in Threads, managed[t],
         Call(t) \/ Continue(t), \A o \in Orders : ~CreateOrder(t, o),
         ~CountCreated(t), ~Apply(t), ~UncountActive(t), ~CountTerminal(t)
  PROVE  Uncounted
<1>1. created' = created /\ UNCHANGED countVars
  BY DEF Call, Continue, ProcessEvent, CallTransition, ForceTransition,
         StartCleanup, VisitOrder, EndCleanup, SwapWins, SwapLoses, Refuse,
         ReleaseFlag, mapVars
<1>2. state' = state
  BY StateStays
<1>3. \A u \in Threads \ {t} : pc'[u] = pc[u] /\ result'[u] = result[u]
  BY OthersStay
<1>4. /\ pc[t] = "creating" <=> pc'[t] = "creating"
      /\ Owes(t) <=> Owes(t)'
      /\ pc[t] = "recount" <=> pc'[t] = "recount"
  <2>1. CASE Call(t)
    BY <2>1 DEF Call, CreateOrder, ProcessEvent, CallTransition,
                ForceTransition, StartCleanup, Owes, TypeOK
  <2>2. CASE SwapWins(t) \/ SwapLoses(t)
    BY <2>2 DEF SwapWins, SwapLoses, Return, Owes, TypeOK
  <2>3. CASE Refuse(t)
    BY <2>3 DEF Refuse, Owes, TypeOK
  <2>4. CASE ReleaseFlag(t)
    BY <2>4 DEF ReleaseFlag, Return, callVars, Owes, TypeOK
  <2>5. CASE EndCleanup(t) \/ \E o \in Orders : VisitOrder(t, o)
    BY <2>5 DEF EndCleanup, VisitOrder, callVars, Owes, TypeOK
  <2> QED
    BY <2>1, <2>2, <2>3, <2>4, <2>5 DEF Continue
<1>5. ASSUME NEW u \in Threads
      PROVE  /\ (pc[u] = "creating") <=> (pc'[u] = "creating")
             /\ Owes(u) <=> Owes(u)'
             /\ (pc[u] = "recount") <=> (pc'[u] = "recount")
  <2>1. CASE u = t
    BY <1>4, <2>1 DEF Owes
  <2>2. CASE u # t
    BY <1>3, <2>2 DEF Owes
  <2> QED
    BY <2>1, <2>2
<1>6. Live' = Live /\ Ended' = Ended
  BY <1>1, <1>2 DEF Live, Ended
<1>7. Creating' = Creating
  BY <1>5 DEF Creating, At, Owes
<1>8. Owing' = Owing /\ OwingBoth' = OwingBoth
  BY <1>5 DEF Owing, OwingBoth, Owes
<1> QED
  BY <1>1, <1>6, <1>7, <1>8 DEF Uncounted

\* active_count and terminal_count are exact but for the updates the calls in
\* progress still owe, and never wrap, as long as transitions go through the
\* manager and the orders are fewer than a counter can count.
THEOREM CountersAreExact ==
  ASSUME ForcedStates = {}, ~DirectAccess, Cardinality(Orders) < CountModulus
  PROVE  Spec => []CountersExact
<1> DEFINE Managed == \A t \in Threads : managed[t]
           IInv == CallsApart /\ Managed /\ Shown
<1>1. Init => IInv
  <2> SUFFICES ASSUME Init PROVE IInv
    OBVIOUS
  <2>1. CallsApart /\ Managed
    BY DEF Init, CallsApart, Owes, Terminal
  <2>2. /\ Live = {} /\ Ended = {} /\ Owing = {} /\ OwingBoth = {}
        /\ Creating = {}
    BY DEF Init, Live, Ended, Owing, OwingBoth, Owes, Creating, At
  <2>3. Shown
    BY <2>2, FS_EmptySet DEF Init, Shown
  <2> QED
    BY <2>1, <2>3
<1>2. TypeOK /\ CallOK /\ ResultStillTrue /\ IInv /\ [Next]_vars => IInv'
  <2> SUFFICES ASSUME TypeOK, CallOK, ResultStillTrue, IInv, [Next]_vars
               PROVE  IInv'
    OBVIOUS
  <2>1. CASE UNCHANGED vars
    BY <2>1 DEF vars, CallsApart, Owes, Shown, Live, Ended, Owing,
                      OwingBoth, Creating, At
  <2>2. ASSUME NEW t \in Threads, Call(t) \/ Continue(t)
        PROVE  IInv'
    <3>1. CallsApart'
      BY <2>2, CallsStayApart
    <3>2. Managed'
      <4>1. \A u \in Threads \ {t} : managed'[u] = managed[u]
        BY <2>2, OthersStay
      <4>2. managed'[t]
        BY <2>2 DEF Call, Continue, CreateOrder, ProcessEvent, CallTransition,
              ForceTransition, StartCleanup, VisitOrder, EndCleanup,
              CountCreated, SwapWins, SwapLoses, Apply, Refuse, ReleaseFlag,
              UncountActive, CountTerminal, Return, callVars, TypeOK
      <4> QED
        BY <4>1, <4>2
    <3> DEFINE l == Cardinality(Live)
               e == Cardinality(Ended)
               b == Cardinality(Owing)
               a == Cardinality(OwingBoth)
               c == Cardinality(Creating)
    <3>3. /\ l \in Nat /\ e \in Nat /\ a \in Nat /\ b \in Nat /\ c \in Nat
          /\ c <= l /\ b <= e /\ a <= b /\ l + e < CountModulus
      BY CountsFit, OrdersAssumption, FS_CardinalityType
    <3>4. activeCount = l + a - c /\ terminalCount = e - b
      BY DEF Shown
    <3>5. /\ IsFiniteSet(Live) /\ IsFiniteSet(Ended) /\ IsFiniteSet(Creating)
          /\ IsFiniteSet(Owing) /\ IsFiniteSet(OwingBoth)
      BY CountsFit
    <3>6. /\ activeCount' = l' + a' - c'
          /\ terminalCount' = e' - b'
      <4>1. CASE \E o \in Orders : CreateOrder(t, o)
        <5>1. l' = l + 1 /\ c' = c + 1 /\ e' = e /\ a' = a /\ b' = b
              /\ UNCHANGED countVars
          BY <3>5, <4>1, CreateOrderGains, Gains
        <5> HIDE DEF l, e, a, b, c
        <5> QED
          BY <3>3, <3>4, <5>1 DEF countVars
      <4>2. CASE CountCreated(t)
        <5>1. l' = l /\ c' = c - 1 /\ e' = e /\ a' = a /\ b' = b
              /\ terminalCount' = terminalCount
          BY <3>5, <4>2, CountCreatedLoses, Loses
        <5>2. c >= 1
          <6>1. Creating # {}
            BY <4>2, CountCreatedLoses
          <6> QED
            BY <3>3, <3>5, <6>1, FS_EmptySet
        <5> HIDE DEF l, e, a, b, c
        <5>3. activeCount' = activeCount + 1
          BY <3>3, <3>4, <4>2, <5>2 DEF CountCreated
        <5> QED
          BY <3>3, <3>4, <5>1, <5>3
      <4>3. CASE Apply(t)
        <5>1. CASE Uncounted
          BY <3>4, <5>1 DEF Uncounted, countVars
        <5>2. CASE ~Uncounted
          <6>1. l' = l - 1 /\ c' = c /\ e' = e + 1 /\ a' = a + 1 /\ b' = b + 1
                /\ UNCHANGED countVars
            BY <3>5, <4>3, <5>2, ApplyEnds, Gains, Loses
          <6> HIDE DEF l, e, a, b, c
          <6> QED
            BY <3>3, <3>4, <6>1 DEF countVars
        <5> QED
          BY <5>1, <5>2
      <4>4. CASE UncountActive(t)
        <5>1. l' = l /\ c' = c /\ e' = e /\ a' = a - 1 /\ b' = b
              /\ terminalCount' = terminalCount
          BY <3>5, <4>4, UncountLoses, Loses
        <5>2. a >= 1
          <6>1. OwingBoth # {}
            BY <4>4, UncountLoses
          <6> QED
            BY <3>3, <3>5, <6>1, FS_EmptySet
        <5> HIDE DEF l, e, a, b, c
        <5>3. activeCount' = activeCount - 1
          BY <3>3, <3>4, <4>4, <5>2 DEF UncountActive
        <5> QED
          BY <3>3, <3>4, <5>1, <5>3
      <4>5. CASE CountTerminal(t)
        <5>1. l' = l /\ c' = c /\ e' = e /\ a' = a /\ b' = b - 1
              /\ activeCount' = activeCount
          BY <3>5, <4>5, CountTerminalLoses, Loses
        <5>2. b >= 1
          <6>1. Owing # {}
            BY <4>5, CountTerminalLoses
          <6> QED
            BY <3>3, <3>5, <6>1, FS_EmptySet
        <5> HIDE DEF l, e, a, b, c
        <5>3. terminalCount' = terminalCount + 1
          BY <3>3, <3>4, <4>5, <5>2 DEF CountTerminal
        <5> QED
          BY <3>3, <3>4, <5>1, <5>3
      <4>6. CASE /\ \A o \in Orders : ~CreateOrder(t, o)
                 /\ ~CountCreated(t) /\ ~Apply(t) /\ ~UncountActive(t)
                 /\ ~CountTerminal(t)
        BY <2>2, <3>4, <4>6, OthersUncounted DEF Uncounted, countVars
      <4> QED
        BY <4>1, <4>2, <4>3, <4>4, <4>5, <4>6
    <3>7. Shown'
      BY <3>6 DEF Shown
    <3> QED
      BY <3>1, <3>2, <3>7
  <2> QED
    BY <2>1, <2>2 DEF Next
<1>3. IInv => CountersExact
  BY ShownIsExact
<1> QED
  BY <1>1, <1>2, <1>3, TypeCorrect, ResultsStay, PTL DEF Spec
=============================================================================
