--------------------------- MODULE GracefulShutdown ---------------------------
(***************************************************************************)
(* orchestration/graceful_shutdown.rs: ShutdownState, its worker guards    *)
(* and ShutdownCoordinator.  Threads request or execute a shutdown, once   *)
(* each, while workers come and go; a step is one access to an atomic or   *)
(* one holding of a mutex, the error message, which nothing reads, set     *)
(* along with another.  How long a phase takes and what is logged are left *)
(* out; whether a time-out strikes is a choice.                            *)
(***************************************************************************)
EXTENDS Integers, FiniteSets

CONSTANTS
  Callers,    \* threads that ask for a shutdown, each for a reason of its own
  Executors,  \* those that call execute_shutdown, not initiate_shutdown
  Workers,
  NoReason    \* None

ParametersOK ==
  /\ IsFiniteSet(Callers) /\ IsFiniteSet(Workers)
  /\ Executors \subseteq Callers /\ NoReason \notin Callers

VARIABLES
  requested,  \* shutdown_requested
  phase,      \* current_phase
  reason,     \* reason: whose it is
  active,     \* active_workers
  error,      \* is error_message set?
  handlers,   \* which caller holds the handlers' mutex, if any
  pc,         \* where each caller is
  worker      \* where each worker is, and whether it came before the request

stateVars == <<requested, phase, reason, active, error, handlers>>
vars == <<stateVars, pc, worker>>

Phases == {"None", "Signaled", "StoppingIngest", "Flushing", "Cleaning",
           "Terminated"}

\* A call that won the swap sets the reason and signals; one that executes
\* goes on through the phases.
Place == {"idle", "reason", "signal", "StoppingIngest", "Flushing", "handlers",
          "running", "waiting", "Cleaning", "Terminated", "done"}

Init ==
  /\ requested = FALSE /\ phase = "None" /\ reason = NoReason
  /\ active = 0 /\ error = FALSE /\ handlers = NoReason
  /\ pc = [c \in Callers |-> "idle"]
  /\ worker = [w \in Workers |-> "out"]

Go(c, place) == pc' = [pc EXCEPT ![c] = place]

\* What follows request_shutdown in the two calls.
Then(c) == IF c \in Executors THEN "StoppingIngest" ELSE "done"

-----------------------------------------------------------------------------
\* request_shutdown: the swap.  Who comes second returns at once.
Request(c) ==
  /\ pc[c] = "idle"
  /\ requested' = TRUE
  /\ Go(c, IF requested THEN Then(c) ELSE "reason")
  /\ UNCHANGED <<phase, reason, active, error, handlers, worker>>

SetReason(c) ==
  /\ pc[c] = "reason"
  /\ reason' = c
  /\ Go(c, "signal")
  /\ UNCHANGED <<requested, phase, active, error, handlers, worker>>

\* set_phase(Signaled), whatever the phase is by now.
Signal(c) ==
  /\ pc[c] = "signal"
  /\ phase' = "Signaled"
  /\ Go(c, Then(c))
  /\ UNCHANGED <<requested, reason, active, error, handlers, worker>>

-----------------------------------------------------------------------------
(* execute_shutdown                                                        *)

SetPhase(c, p, next) ==
  /\ pc[c] = p
  /\ phase' = p
  /\ Go(c, next)
  /\ UNCHANGED <<requested, reason, active, error, handlers, worker>>

StopIngest(c) == SetPhase(c, "StoppingIngest", "Flushing")
Flush(c) == SetPhase(c, "Flushing", "handlers")

LockHandlers(c) ==
  /\ pc[c] = "handlers" /\ handlers = NoReason
  /\ handlers' = c
  /\ Go(c, "running")
  /\ UNCHANGED <<requested, phase, reason, active, error, worker>>

\* All handlers have been called.
UnlockHandlers(c) ==
  /\ pc[c] = "running"
  /\ handlers' = NoReason
  /\ Go(c, "waiting")
  /\ UNCHANGED <<requested, phase, reason, active, error, worker>>

\* Mutant: one worker left counts as none.
WaitForMostWorkers(c) ==
  /\ pc[c] = "waiting" /\ active <= 1
  /\ Go(c, "Cleaning")
  /\ UNCHANGED <<stateVars, worker>>

\* wait_for_workers reads a count of zero,
WaitForWorkers(c) ==
  /\ pc[c] = "waiting" /\ active = 0
  /\ Go(c, "Cleaning")
  /\ UNCHANGED <<stateVars, worker>>

\* or its time is up.
WaitTimesOut(c) ==
  /\ pc[c] = "waiting"
  /\ error' = TRUE
  /\ Go(c, "Cleaning")
  /\ UNCHANGED <<requested, phase, reason, active, handlers, worker>>

\* The whole may have taken too long as well.
CleanUp(c, late) ==
  /\ pc[c] = "Cleaning"
  /\ phase' = "Cleaning"
  /\ error' = (error \/ late)
  /\ Go(c, "Terminated")
  /\ UNCHANGED <<requested, reason, active, handlers, worker>>

Complete(c) == SetPhase(c, "Terminated", "done")

-----------------------------------------------------------------------------
\* register_worker, also when a shutdown has been requested.
Register(w) ==
  /\ worker[w] = "out"
  /\ active' = active + 1
  /\ worker' = [worker EXCEPT ![w] = IF requested THEN "late" ELSE "early"]
  /\ UNCHANGED <<requested, phase, reason, error, handlers, pc>>

\* Mutant: release leaves the rest to drop, which counts it again.
ReleaseThenDrop(w) ==
  /\ worker[w] # "out"
  /\ active' = active - 2
  /\ worker' = [worker EXCEPT ![w] = "out"]
  /\ UNCHANGED <<requested, phase, reason, error, handlers, pc>>

\* WorkerGuard::release or drop: one of them counts.
Unregister(w) ==
  /\ worker[w] # "out"
  /\ active' = active - 1
  /\ worker' = [worker EXCEPT ![w] = "out"]
  /\ UNCHANGED <<requested, phase, reason, error, handlers, pc>>

Proceed(c) ==
  \/ SetReason(c) \/ Signal(c)
  \/ StopIngest(c) \/ Flush(c) \/ LockHandlers(c) \/ UnlockHandlers(c)
  \/ WaitForWorkers(c) \/ WaitTimesOut(c)
  \/ Complete(c) \/ \E late \in BOOLEAN : CleanUp(c, late)

Next ==
  \/ \E c \in Callers : Request(c) \/ Proceed(c)
  \/ \E w \in Workers : Register(w) \/ Unregister(w)

Spec == Init /\ [][Next]_vars

-----------------------------------------------------------------------------
\* The type of each variable.
TypeOK ==
  /\ requested \in BOOLEAN /\ error \in BOOLEAN
  /\ phase \in Phases
  /\ reason \in Callers \cup {NoReason}
  /\ handlers \in Callers \cup {NoReason}
  /\ active \in 0 .. Cardinality(Workers)
  /\ pc \in [Callers -> Place]
  /\ worker \in [Workers -> {"out", "early", "late"}]

\* Cleaning up begins when every worker that worked when the shutdown was
\* requested has gone, or the time-out has been recorded as an error: a worker
\* that comes later may slip in, none that was there is overlooked.
CleanupWaitsForWorkers ==
  \A c \in Callers :
    pc[c] = "Terminated" /\ ~error =>
      \A w \in Workers : worker[w] # "early"

=============================================================================
