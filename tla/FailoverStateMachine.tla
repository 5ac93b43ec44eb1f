------------------------- MODULE FailoverStateMachine -------------------------
(***************************************************************************)
(* venues/failover_state_machine.rs: FailoverStateMachine, called by       *)
(* several threads.  process_event takes the locks of the maps one at a    *)
(* time, so another thread may act between any two of its steps; only      *)
(* update_counters and register hold several, and those of the counts are  *)
(* modelled as locks.  An id may be registered again, also while events    *)
(* for it are under way.                                                   *)
(*                                                                         *)
(* Of the history and the metrics nothing is read by the machine; they are *)
(* left out, with the actions it returns for others to execute.            *)
(***************************************************************************)
EXTENDS Integers

CONSTANTS
  Threads,
  Ids,                \* symbols or strategies
  Zero,               \* the id 0, which may be one of them
  FailureThreshold,   \* failover_threshold_failures
  RecoveryThreshold,  \* recovery_threshold_successes
  MaxCount,           \* u32::MAX, where the counters saturate
  None                \* of a free lock, or of a decision that changes nothing

FailoverState == {"Primary", "FailingOver", "BackupActive", "Recovering",
                  "Emergency"}
FailureEvent == {"HealthCheckFailed", "WebSocketDisconnect",
                 "RateLimitExceeded", "LatencySpike"}
SuccessEvent == {"HeartbeatOk", "RecoveryDetected"}
FailoverEvent == FailureEvent \cup SuccessEvent \cup {"ManualTrigger"}

ParametersOK ==
  /\ FailureThreshold \in Nat /\ RecoveryThreshold \in Nat
  /\ MaxCount \in Nat \ {0} /\ None \notin Threads \cup FailoverState

VARIABLES
  registered,   \* the keys of the maps
  withBackup,   \* configs: ids whose backup_venues is not empty
  state,        \* states
  venue,        \* active_venues
  failures,     \* failure_counts
  successes,    \* success_counts
  emergency,    \* emergency_mode
  failureLock,  \* who writes failure_counts
  successLock,  \* who writes success_counts
  job           \* the event each thread processes, or its registration

configVars == <<registered, withBackup>>
mapVars == <<configVars, state, venue, failures, successes, emergency>>
failoverVars == <<mapVars, failureLock, successLock, job>>

Stage == {"decide", "write", "switch", "count", "reset", "record", "register"}
Idle == [at |-> "idle"]

\* goal: the state that was read, then the state to go to.
Job == [at : Stage, id : Ids, event : FailoverEvent \cup {"Register"},
        goal : FailoverState \cup {None}]

Init ==
  /\ registered = {} /\ withBackup = {} /\ emergency = FALSE
  /\ state = [i \in Ids |-> "Primary"]
  /\ venue = [i \in Ids |-> "primary"]
  /\ failures = [i \in Ids |-> 0] /\ successes = [i \in Ids |-> 0]
  /\ failureLock = None /\ successLock = None
  /\ job = [t \in Threads |-> Idle]

At(t, stage) == job[t].at = stage
Move(t, stage) == job' = [job EXCEPT ![t].at = stage]

\* Whether the states, the configurations and the venues can be locked.
MapsFree == \A t \in Threads : ~At(t, "register")

-----------------------------------------------------------------------------
\* register takes the locks of the states, the configurations and the failures
BeginRegister(t, i) ==
  /\ At(t, "idle") /\ MapsFree
  /\ failureLock = None
  /\ failureLock' = t
  /\ job' = [job EXCEPT ![t] = [at |-> "register", id |-> i,
                                event |-> "Register", goal |-> None]]
  /\ UNCHANGED <<mapVars, successLock>>

\* and, holding them, that of the successes; the id starts afresh.
FinishRegister(t, backup) ==
  /\ At(t, "register") /\ successLock = None
  /\ LET i == job[t].id
     IN  /\ registered' = registered \cup {i}
         /\ withBackup' = IF backup THEN withBackup \cup {i}
                                    ELSE withBackup \ {i}
         /\ state' = [state EXCEPT ![i] = "Primary"]
         /\ venue' = [venue EXCEPT ![i] = "primary"]
         /\ failures' = [failures EXCEPT ![i] = 0]
         /\ successes' = [successes EXCEPT ![i] = 0]
  /\ failureLock' = None
  /\ job' = [job EXCEPT ![t] = Idle]
  /\ UNCHANGED <<emergency, successLock>>

ExitEmergency ==
  /\ emergency' = FALSE
  /\ UNCHANGED <<configVars, state, venue, failures, successes,
                 failureLock, successLock, job>>

-----------------------------------------------------------------------------
\* get_failure_count(0), get_success_count(0): whichever id the event is for.
CountOfZero(counts) == IF Zero \in Ids THEN counts[Zero] ELSE 0

\* calculate_transition
NextState(i, current, event) ==
  CASE current = "Primary" /\ event = "HealthCheckFailed"
         /\ CountOfZero(failures) >= FailureThreshold       -> "FailingOver"
    [] current = "Primary" /\ event = "WebSocketDisconnect" -> "FailingOver"
    [] current = "Primary" /\ event = "RateLimitExceeded"   ->
         IF i \in withBackup THEN "BackupActive" ELSE "Emergency"
    [] current = "BackupActive" /\ event = "RecoveryDetected" -> "Recovering"
    [] current = "Recovering" /\ event = "HeartbeatOk"
         /\ CountOfZero(successes) >= RecoveryThreshold     -> "Primary"
    [] event = "LatencySpike" /\ emergency                  -> "Emergency"
    [] OTHER -> current

\* Whether the decision looks at a count, and the lock that then must be free.
DecisionWaits(current, event) ==
  \/ /\ current = "Primary" /\ event = "HealthCheckFailed"
     /\ failureLock # None
  \/ /\ current = "Recovering" /\ event = "HeartbeatOk"
     /\ successLock # None

\* process_event reads the state,
ReadState(t, i, e) ==
  /\ At(t, "idle") /\ i \in registered /\ MapsFree
  /\ job' = [job EXCEPT ![t] = [at |-> "decide", id |-> i, event |-> e,
                                goal |-> state[i]]]
  /\ UNCHANGED <<mapVars, failureLock, successLock>>

\* decides what to do,
Decide(t) ==
  /\ At(t, "decide") /\ ~DecisionWaits(job[t].goal, job[t].event)
  /\ LET current == job[t].goal
         new == NextState(job[t].id, current, job[t].event)
     IN  job' = IF new = current
                THEN [job EXCEPT ![t].at = "count", ![t].goal = None]
                ELSE [job EXCEPT ![t].at = "write", ![t].goal = new]
  /\ UNCHANGED <<mapVars, failureLock, successLock>>

\* and writes it, whatever the state is by now (execute_transition).
WriteState(t) ==
  /\ At(t, "write") /\ MapsFree
  /\ state' = [state EXCEPT ![job[t].id] = job[t].goal]
  /\ Move(t, "switch")
  /\ UNCHANGED <<configVars, venue, failures, successes, emergency,
                 failureLock, successLock>>

SwitchVenue(t) ==
  /\ At(t, "switch") /\ MapsFree
  /\ venue' = [venue EXCEPT ![job[t].id] =
                 CASE job[t].goal = "Primary" -> "primary"
                   [] job[t].goal = "BackupActive" /\ job[t].id \in withBackup
                        -> "backup"
                   [] OTHER -> @]
  /\ Move(t, "count")
  /\ UNCHANGED <<configVars, state, failures, successes, emergency,
                 failureLock, successLock>>

-----------------------------------------------------------------------------
(* update_counters: the second lock is taken while the first is held.      *)

Increment(c) == IF c < MaxCount THEN c + 1 ELSE c
Counted(t) == IF job[t].goal = None THEN Idle
              ELSE [job[t] EXCEPT !.at = "record"]
IsFailure(t) == job[t].event \in FailureEvent
IsSuccess(t) == job[t].event \in SuccessEvent

CountFailure(t) ==
  /\ At(t, "count") /\ IsFailure(t) /\ failureLock = None
  /\ failureLock' = t
  /\ failures' = [failures EXCEPT ![job[t].id] = Increment(@)]
  /\ Move(t, "reset")
  /\ UNCHANGED <<configVars, state, venue, successes, emergency, successLock>>

ResetSuccesses(t) ==
  /\ At(t, "reset") /\ IsFailure(t) /\ successLock = None
  /\ successes' = [successes EXCEPT ![job[t].id] = 0]
  /\ failureLock' = None
  /\ job' = [job EXCEPT ![t] = Counted(t)]
  /\ UNCHANGED <<configVars, state, venue, failures, emergency, successLock>>

CountSuccess(t) ==
  /\ At(t, "count") /\ IsSuccess(t) /\ successLock = None
  /\ successLock' = t
  /\ successes' = [successes EXCEPT ![job[t].id] = Increment(@)]
  /\ Move(t, "reset")
  /\ UNCHANGED <<configVars, state, venue, failures, emergency, failureLock>>

\* Mutant: the lock of the successes is not released.
KeepSuccessLock(t) ==
  /\ At(t, "reset") /\ IsSuccess(t) /\ failureLock = None
  /\ failures' = [failures EXCEPT ![job[t].id] = 0]
  /\ job' = [job EXCEPT ![t] = Counted(t)]
  /\ UNCHANGED <<configVars, state, venue, successes, emergency, failureLock,
                 successLock>>

ResetFailures(t) ==
  /\ At(t, "reset") /\ IsSuccess(t) /\ failureLock = None
  /\ failures' = [failures EXCEPT ![job[t].id] = 0]
  /\ successLock' = None
  /\ job' = [job EXCEPT ![t] = Counted(t)]
  /\ UNCHANGED <<configVars, state, venue, successes, emergency, failureLock>>

CountNothing(t) ==
  /\ At(t, "count") /\ ~IsFailure(t) /\ ~IsSuccess(t)
  /\ job' = [job EXCEPT ![t] = Counted(t)]
  /\ UNCHANGED <<mapVars, failureLock, successLock>>

\* The end of execute_transition.
Record(t) ==
  /\ At(t, "record")
  /\ emergency' = (emergency \/ job[t].goal = "Emergency")
  /\ job' = [job EXCEPT ![t] = Idle]
  /\ UNCHANGED <<configVars, state, venue, failures, successes, failureLock,
                 successLock>>

-----------------------------------------------------------------------------
Proceed(t) ==
  \/ \E backup \in BOOLEAN : FinishRegister(t, backup)
  \/ Decide(t) \/ WriteState(t) \/ SwitchVenue(t)
  \/ CountFailure(t) \/ ResetSuccesses(t)
  \/ CountSuccess(t) \/ ResetFailures(t)
  \/ CountNothing(t) \/ Record(t)

Next ==
  \/ \E t \in Threads, i \in Ids : BeginRegister(t, i)
  \/ ExitEmergency
  \/ \E t \in Threads, i \in Ids, e \in FailoverEvent : ReadState(t, i, e)
  \/ \E t \in Threads : Proceed(t)

Spec == Init /\ [][Next]_failoverVars

\* Threads go on, and a lock that is free again and again is got.
Fairness == \A t \in Threads : SF_failoverVars(Proceed(t))

\* And every event keeps arriving.
EventsArrive ==
  \A i \in Ids, e \in FailoverEvent :
    SF_failoverVars(\E t \in Threads : ReadState(t, i, e))

ArrivingSpec == Spec /\ Fairness /\ EventsArrive

-----------------------------------------------------------------------------
\* The type of each variable.
TypeOK ==
  /\ registered \subseteq Ids /\ withBackup \subseteq Ids
  /\ state \in [Ids -> FailoverState]
  /\ venue \in [Ids -> {"primary", "backup"}]
  /\ failures \in [Ids -> 0 .. MaxCount]
  /\ successes \in [Ids -> 0 .. MaxCount]
  /\ emergency \in BOOLEAN
  /\ failureLock \in Threads \cup {None}
  /\ successLock \in Threads \cup {None}
  /\ job \in [Threads -> Job \cup {Idle}]

\* Two threads each hold the lock that the other waits for.
Embrace ==
  \E t, u \in Threads :
    /\ At(t, "register") \/ (At(t, "reset") /\ IsFailure(t))
    /\ At(u, "reset") /\ IsSuccess(u)

\* An event is processed, or else a success was counted while a failure was,
\* or an id registered: nothing but the order of those two locks blocks.
EventsReturnOrEmbrace ==
  \A t \in Threads : job[t] # Idle ~> job[t] = Idle \/ Embrace

\* "In process of switching to backup": the process comes to an end.
FailoverCompletes ==
  \A i \in Ids : state[i] = "FailingOver" ~> state[i] # "FailingOver"

=============================================================================
