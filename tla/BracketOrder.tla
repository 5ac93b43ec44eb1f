---------------------------- MODULE BracketOrder ----------------------------
(***************************************************************************)
(* oms/bracket_order.rs: one BracketOrder, its atomics shared by threads   *)
(* that register the child orders and threads that execute the two legs.   *)
(*                                                                         *)
(* Every step is one access to an atomic.  set_tp_order_id and             *)
(* set_sl_order_id store one id with Release and then load the other with  *)
(* Acquire: that order is not kept by the processor the program targets    *)
(* (x86-64), where a store waits in the thread's store buffer, seen by     *)
(* that thread alone.  The ids therefore go through buffers here.  Every   *)
(* later store or swap of the thread drains its buffer first; that the     *)
(* other stores may be delayed too only makes the same races wider.        *)
(***************************************************************************)
EXTENDS Naturals, Sequences

CONSTANTS
  Threads,
  Legs       \* the legs that callers execute: a subset of {"TP", "SL"}

ASSUME LegsAssumption == Legs \subseteq {"TP", "SL"}

VARIABLES
  state,     \* state
  entryId,   \* is entry_order_id set?
  ids,       \* legs whose tp_order_id / sl_order_id is set, in memory
  buffer,    \* the id stores of each thread that memory does not show yet
  executed,  \* legs whose sl_executed / tp_executed is set
  lock,      \* execution_lock
  asked,     \* legs whose cancellation has been spawned
  pc, leg, want  \* of each thread: place, leg executed, state wanted

vars == <<state, entryId, ids, buffer, executed, lock, asked, pc, leg, want>>

BracketState == {"PendingEntry", "EntryFilled", "TPActiveSLActive",
                 "TPCancelled", "SLCancelled", "FullyFilled",
                 "FullyCancelled", "Error"}

BothLegs == {"TP", "SL"}
Other(l) == IF l = "TP" THEN "SL" ELSE "TP"

\* The transitions that transition_state validates.
ValidTransitions ==
  {<<"PendingEntry", "EntryFilled">>, <<"EntryFilled", "TPActiveSLActive">>}
  \cup ({"TPActiveSLActive"} \X {"TPCancelled", "SLCancelled"})
  \cup ({"TPActiveSLActive", "TPCancelled", "SLCancelled"}
          \X {"FullyFilled", "FullyCancelled"})

\* What callers outside the file may report.
Reportable == {"TPCancelled", "SLCancelled", "FullyCancelled"}

PC == {"idle", "stored", "check", "commit", "fast", "swap", "recheck",
       "mark", "ask", "unlock"}

Init ==
  /\ state = "PendingEntry" /\ entryId = FALSE
  /\ ids = {} /\ executed = {} /\ asked = {}
  /\ lock = FALSE
  /\ buffer = [t \in Threads |-> << >>]
  /\ pc = [t \in Threads |-> "idle"]
  /\ leg = [t \in Threads |-> "SL"]
  /\ want = [t \in Threads |-> "PendingEntry"]

Goto(t, l) == pc' = [pc EXCEPT ![t] = l]

\* t's call returns; what it was about is forgotten.
Return(t) ==
  /\ Goto(t, "idle")
  /\ leg' = [leg EXCEPT ![t] = "SL"]
  /\ want' = [want EXCEPT ![t] = "PendingEntry"]

InBuffer(t, l) == \E i \in 1 .. Len(buffer[t]) : buffer[t][i] = l

\* The id of leg l as thread t reads it.
Sees(t, l) == l \in ids \/ InBuffer(t, l)

-----------------------------------------------------------------------------
(* Registering the child orders.                                           *)

\* set_entry_order_id: the id, and on to transition_state(EntryFilled).  The
\* entry, like each leg below, is placed once.
SetEntryOrderId(t) ==
  /\ pc[t] = "idle" /\ ~entryId
  /\ entryId' = TRUE
  /\ Goto(t, "check")
  /\ want' = [want EXCEPT ![t] = "EntryFilled"]
  /\ UNCHANGED <<state, ids, buffer, executed, lock, asked, leg>>

\* set_tp_order_id, set_sl_order_id: the store.
SetOrderId(t, l) ==
  /\ pc[t] = "idle"
  /\ \A u \in Threads : ~Sees(u, l)
  /\ buffer' = [buffer EXCEPT ![t] = Append(@, l)]
  /\ leg' = [leg EXCEPT ![t] = l]
  /\ Goto(t, "stored")
  /\ UNCHANGED <<state, entryId, ids, executed, lock, asked, want>>

\* The load of the other id; once both are there the bracket is live.
LoadOtherId(t) ==
  /\ pc[t] = "stored"
  /\ IF Sees(t, Other(leg[t]))
       THEN /\ Goto(t, "check")
            /\ want' = [want EXCEPT ![t] = "TPActiveSLActive"]
            /\ UNCHANGED leg
       ELSE Return(t)
  /\ UNCHANGED <<state, entryId, ids, buffer, executed, lock, asked>>

\* The oldest store in t's buffer reaches memory.
Drain(t) ==
  /\ buffer[t] # << >>
  /\ ids' = ids \cup {Head(buffer[t])}
  /\ buffer' = [buffer EXCEPT ![t] = Tail(@)]
  /\ UNCHANGED <<state, entryId, executed, lock, asked, pc, leg, want>>

-----------------------------------------------------------------------------
(* transition_state: load, validate, store.                                *)

\* A caller tells of a cancellation that the exchange confirmed: nothing in
\* the file does, the method is public for that.  FullyFilled is left to the
\* execution of a leg, as an outer caller that stores it vouches for it.
ReportState(t, s) ==
  /\ pc[t] = "idle"
  /\ want' = [want EXCEPT ![t] = s]
  /\ Goto(t, "check")
  /\ UNCHANGED <<state, entryId, ids, buffer, executed, lock, asked, leg>>

CheckState(t) ==
  /\ pc[t] = "check"
  /\ IF <<state, want[t]>> \in ValidTransitions
       THEN Goto(t, "commit") /\ UNCHANGED <<leg, want>>
       ELSE Return(t)
  /\ UNCHANGED <<state, entryId, ids, buffer, executed, lock, asked>>

\* Mutant: a Relaxed store, seen before the ids stored earlier.
CommitRelaxed(t) ==
  /\ pc[t] = "commit"
  /\ state' = want[t]
  /\ Return(t)
  /\ UNCHANGED <<entryId, ids, buffer, executed, lock, asked>>

CommitState(t) ==
  /\ pc[t] = "commit" /\ buffer[t] = << >>
  /\ state' = want[t]
  /\ Return(t)
  /\ UNCHANGED <<entryId, ids, buffer, executed, lock, asked>>

-----------------------------------------------------------------------------
(* execute_stop_loss and execute_take_profit: the same steps on their leg, *)
(* whether its order has been registered or not.                           *)

Execute(t, l) ==
  /\ pc[t] = "idle"
  /\ leg' = [leg EXCEPT ![t] = l]
  /\ Goto(t, "fast")
  /\ UNCHANGED <<state, entryId, ids, buffer, executed, lock, asked, want>>

\* Fast path: already executed, return false.
FastPath(t) ==
  /\ pc[t] = "fast"
  /\ IF leg[t] \in executed THEN Return(t)
                            ELSE Goto(t, "swap") /\ UNCHANGED <<leg, want>>
  /\ UNCHANGED <<state, entryId, ids, buffer, executed, lock, asked>>

\* "Another thread is handling execution": return false.
LockTaken(t) ==
  /\ pc[t] = "swap" /\ buffer[t] = << >> /\ lock
  /\ Return(t)
  /\ UNCHANGED <<state, entryId, ids, buffer, executed, lock, asked>>

\* Mutant: the lock is taken whatever the swap returns.
TakeLockBlindly(t) ==
  /\ pc[t] = "swap" /\ buffer[t] = << >>
  /\ lock' = TRUE
  /\ Goto(t, "recheck")
  /\ UNCHANGED <<state, entryId, ids, buffer, executed, asked, leg, want>>

TakeLock(t) ==
  /\ pc[t] = "swap" /\ buffer[t] = << >> /\ ~lock
  /\ lock' = TRUE
  /\ Goto(t, "recheck")
  /\ UNCHANGED <<state, entryId, ids, buffer, executed, asked, leg, want>>

\* Mutant: no double check.
RecheckSkipped(t) ==
  /\ pc[t] = "recheck"
  /\ Goto(t, "mark")
  /\ UNCHANGED <<state, entryId, ids, buffer, executed, lock, asked, leg, want>>

\* Mutant: the double check is inverted.
RecheckInverted(t) ==
  /\ pc[t] = "recheck"
  /\ IF leg[t] \notin executed
       THEN Return(t) /\ lock' = FALSE
       ELSE Goto(t, "mark") /\ UNCHANGED <<lock, leg, want>>
  /\ UNCHANGED <<state, entryId, ids, buffer, executed, asked>>

\* Double check.  When it fails the lock is released and false returned:
\* nobody writes the flag without the lock, so the two are one step.
Recheck(t) ==
  /\ pc[t] = "recheck"
  /\ IF leg[t] \in executed
       THEN Return(t) /\ lock' = FALSE
       ELSE Goto(t, "mark") /\ UNCHANGED <<lock, leg, want>>
  /\ UNCHANGED <<state, entryId, ids, buffer, executed, asked>>

\* Mutant: the flag of the other leg is set.
MarkOther(t) ==
  /\ pc[t] = "mark"
  /\ executed' = executed \cup {Other(leg[t])}
  /\ Goto(t, "ask")
  /\ UNCHANGED <<state, entryId, ids, buffer, lock, asked, leg, want>>

\* "Mark as executed BEFORE any API calls"
MarkExecuted(t) ==
  /\ pc[t] = "mark"
  /\ executed' = executed \cup {leg[t]}
  /\ Goto(t, "ask")
  /\ UNCHANGED <<state, entryId, ids, buffer, lock, asked, leg, want>>

\* Load the id of the other leg and, if there is one, spawn its cancellation.
AskCancellation(t) ==
  /\ pc[t] = "ask"
  /\ asked' = asked \cup (ids \cap {Other(leg[t])})
  /\ Goto(t, "unlock")
  /\ UNCHANGED <<state, entryId, ids, buffer, executed, lock, leg, want>>

\* Mutant: the state asked for is none of BracketState.
UnlockToUnknown(t) ==
  /\ pc[t] = "unlock"
  /\ lock' = FALSE
  /\ want' = [want EXCEPT ![t] = "Filled"]
  /\ Goto(t, "check")
  /\ UNCHANGED <<state, entryId, ids, buffer, executed, asked, leg>>

\* Release the lock, and on to transition_state(FullyFilled).
Unlock(t) ==
  /\ pc[t] = "unlock"
  /\ lock' = FALSE
  /\ want' = [want EXCEPT ![t] = "FullyFilled"]
  /\ Goto(t, "check")
  /\ UNCHANGED <<state, entryId, ids, buffer, executed, asked, leg>>

-----------------------------------------------------------------------------
Step(t) ==
  \/ LoadOtherId(t) \/ Drain(t)
  \/ CheckState(t) \/ CommitState(t)
  \/ FastPath(t) \/ LockTaken(t) \/ TakeLock(t) \/ Recheck(t)
  \/ MarkExecuted(t) \/ AskCancellation(t) \/ Unlock(t)

Next == \E t \in Threads :
          \/ SetEntryOrderId(t)
          \/ \E l \in BothLegs : SetOrderId(t, l)
          \/ \E l \in Legs : Execute(t, l)
          \/ \E s \in Reportable : ReportState(t, s)
          \/ Step(t)

Spec == Init /\ [][Next]_vars

\* A running thread goes on with its call, and its stores reach memory.
FairSpec == Spec /\ \A t \in Threads : WF_vars(Step(t))

-----------------------------------------------------------------------------
\* The type of each variable.
TypeOK ==
  /\ state \in BracketState /\ entryId \in BOOLEAN
  /\ ids \subseteq BothLegs /\ executed \subseteq Legs
  /\ asked \subseteq BothLegs
  /\ buffer \in [Threads -> Seq(BothLegs)]
  /\ lock \in BOOLEAN
  /\ pc \in [Threads -> PC]
  /\ leg \in [Threads -> BothLegs]
  /\ want \in [Threads -> BracketState]

InCriticalSection(t) == pc[t] \in {"recheck", "mark", "ask", "unlock"}

\* execution_lock is held exactly while one thread is between its swap and
\* its release.
OneExecutorAtATime ==
  /\ lock <=> \E t \in Threads : InCriticalSection(t)
  /\ \A t, u \in Threads :
       InCriticalSection(t) /\ InCriticalSection(u) => t = u

\* "prevents double execution": no leg is executed twice, however many
\* threads passed the first check before the lock was free.
LegExecutesOnce ==
  [][\A t \in Threads : MarkExecuted(t) => leg[t] \notin executed]_vars

\* A bracket is FullyFilled only after a leg has been executed, and no thread
\* is about to close it otherwise.
FilledMeansExecuted ==
  /\ state = "FullyFilled" => executed # {}
  /\ \A t \in Threads : want[t] = "FullyFilled" => leg[t] \in executed

\* The bracket is live only once memory shows the ids of both children: the
\* Release store of the state publishes the ids its thread stored before.
LiveMeansPlaced == state = "TPActiveSLActive" => ids = BothLegs

\* The two legs share a try-lock, and whoever finds it taken gives up for good:
\* threads may give up for each other, but not all of them: once a leg is
\* called for, one of the two is executed.
SomeLegExecutes ==
  \A t \in Threads : pc[t] = "fast" ~> executed # {}
=============================================================================
