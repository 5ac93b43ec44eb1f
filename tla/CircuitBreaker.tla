--------------------------- MODULE CircuitBreaker ---------------------------
(***************************************************************************)
(* stress/circuit_breaker.rs: one CircuitBreaker and the operations of     *)
(* CircuitBreakerManager on it, called by concurrent threads.              *)
(*                                                                         *)
(* The breaker is four independent atomics, and an operation is a sequence *)
(* of single loads and stores on them: each is one step here.  The reason  *)
(* and the history of trips, written last and read by no decision, are     *)
(* left out.  check_risk_limits trips the breaker as any caller does.      *)
(***************************************************************************)
EXTENDS Integers, FiniteSets

CONSTANTS
  Threads,
  Calls,      \* the operations the threads call
  Cooldown,   \* cooldown_ms
  MaxTrips,   \* max_trips_before_lockout
  MaxTime,    \* bound on the clock
  CountBound  \* bound on trip_count

ASSUME NumbersAssumption ==
  /\ Cooldown \in Nat \ {0} /\ MaxTrips \in Nat \ {0}
  /\ MaxTime \in Nat \ {0} /\ CountBound \in Nat \ {0}
ASSUME ThreadsAssumption == IsFiniteSet(Threads)
ASSUME CallsAssumption ==
  Calls \subseteq {"trip", "lockout", "reset", "release", "half_open", "check",
                   "resume"}

VARIABLES
  now,        \* the clock, in milliseconds, never 0
  circuit,    \* state
  tripTime,   \* trip_timestamp_ns, 0 when not tripped
  tripCount,  \* trip_count
  lockedOut,  \* is_locked_out
  pc,         \* the next atomic access of each thread
  call,       \* the operation it is in
  stamp,      \* the clock it read in trip
  openings,   \* auxiliary: how often state became Open
  released    \* auxiliary: release_lockout has been called

atomicVars  == <<circuit, tripTime, tripCount, lockedOut>>
auxVars     == <<openings, released>>
breakerVars == <<now, atomicVars, pc, call, stamp, auxVars>>

CircuitState == {"Closed", "Open", "HalfOpen"}

PC == {"idle", "trip", "open", "time", "count", "lock_out", "lockout",
       "reset", "close", "clear", "release", "half_open", "cooled", "half",
       "check", "look", "elapsed"}

InitBreaker ==
  /\ now = 1
  /\ circuit = "Closed" /\ tripTime = 0 /\ tripCount = 0 /\ lockedOut = FALSE
  /\ pc = [t \in Threads |-> "idle"]
  /\ call = [t \in Threads |-> "idle"]
  /\ stamp = [t \in Threads |-> 0]
  /\ openings = 0 /\ released = FALSE

At(t, l) == pc[t] = l
Goto(t, l) == pc' = [pc EXCEPT ![t] = l] /\ UNCHANGED <<call, stamp>>
Return(t) == /\ pc' = [pc EXCEPT ![t] = "idle"]
             /\ call' = [call EXCEPT ![t] = "idle"]
             /\ stamp' = [stamp EXCEPT ![t] = 0]

\* elapsed_since_trip_ms() >= cooldown_ms: a zero time counts as long ago.
Cooled == tripTime = 0 \/ now - tripTime >= Cooldown

Tick == /\ now < MaxTime /\ now' = now + 1
        /\ UNCHANGED <<atomicVars, pc, call, stamp, auxVars>>

\* The first access of an operation has the operation's name, but that resume
\* begins with is_safe_to_trade.
Begin(t, c) ==
  /\ At(t, "idle")
  /\ c \in {"trip", "lockout"} => tripCount < CountBound
  /\ call' = [call EXCEPT ![t] = c]
  /\ pc' = [pc EXCEPT ![t] = IF c = "resume" THEN "check" ELSE c]
  /\ UNCHANGED <<now, atomicVars, stamp, auxVars>>

-----------------------------------------------------------------------------
(* trip                                                                    *)

\* "Don't trip if already open"; else read the clock.
TripLoadState(t) ==
  /\ At(t, "trip")
  /\ IF circuit = "Open"
       THEN Return(t)
       ELSE /\ pc' = [pc EXCEPT ![t] = "open"]
            /\ stamp' = [stamp EXCEPT ![t] = now]
            /\ UNCHANGED call
  /\ UNCHANGED <<now, atomicVars, auxVars>>

TripStoreState(t) ==
  /\ At(t, "open")
  /\ circuit' = "Open"
  /\ openings' = IF circuit = "Open" THEN openings ELSE openings + 1
  /\ Goto(t, "time")
  /\ UNCHANGED <<now, tripTime, tripCount, lockedOut, released>>

TripStoreTime(t) ==
  /\ At(t, "time")
  /\ tripTime' = stamp[t]
  /\ Goto(t, "count")
  /\ UNCHANGED <<now, circuit, tripCount, lockedOut, auxVars>>

\* Mutant: trips of a breaker locked out are not counted.
TripCountUnlocked(t) ==
  /\ At(t, "count")
  /\ tripCount' = IF lockedOut THEN tripCount ELSE tripCount + 1
  /\ IF tripCount + 1 >= MaxTrips THEN Goto(t, "lock_out") ELSE Return(t)
  /\ UNCHANGED <<now, circuit, tripTime, lockedOut, auxVars>>

\* Mutant: the comparison uses the value that fetch_add returns.
TripCompareOld(t) ==
  /\ At(t, "count")
  /\ tripCount' = tripCount + 1
  /\ IF tripCount >= MaxTrips THEN Goto(t, "lock_out") ELSE Return(t)
  /\ UNCHANGED <<now, circuit, tripTime, lockedOut, auxVars>>

\* fetch_add, and the comparison with max_trips_before_lockout.
TripCountUp(t) ==
  /\ At(t, "count")
  /\ tripCount' = tripCount + 1
  /\ IF tripCount + 1 >= MaxTrips THEN Goto(t, "lock_out") ELSE Return(t)
  /\ UNCHANGED <<now, circuit, tripTime, lockedOut, auxVars>>

TripLockOut(t) ==
  /\ At(t, "lock_out")
  /\ lockedOut' = TRUE
  /\ Return(t)
  /\ UNCHANGED <<now, circuit, tripTime, tripCount, auxVars>>

\* manual_lockout, which emergency_stop calls: lock out, then trip.
ManualLockout(t) ==
  /\ At(t, "lockout")
  /\ lockedOut' = TRUE
  /\ Goto(t, "trip")
  /\ UNCHANGED <<now, circuit, tripTime, tripCount, auxVars>>

-----------------------------------------------------------------------------
(* reset, release_lockout                                                  *)

ResetLoadLockout(t) ==
  /\ At(t, "reset")
  /\ IF lockedOut THEN Return(t) ELSE Goto(t, "close")
  /\ UNCHANGED <<now, atomicVars, auxVars>>

ResetStoreState(t) ==
  /\ At(t, "close")
  /\ circuit' = "Closed"
  /\ Goto(t, "clear")
  /\ UNCHANGED <<now, tripTime, tripCount, lockedOut, auxVars>>

ResetStoreTime(t) ==
  /\ At(t, "clear")
  /\ tripTime' = 0
  /\ Return(t)
  /\ UNCHANGED <<now, circuit, tripCount, lockedOut, auxVars>>

ReleaseLockout(t) ==
  /\ At(t, "release")
  /\ lockedOut' = FALSE
  /\ released' = TRUE
  /\ Goto(t, "reset")
  /\ UNCHANGED <<now, circuit, tripTime, tripCount, openings>>

-----------------------------------------------------------------------------
(* transition_to_half_open                                                 *)

HalfLoadState(t) ==
  /\ At(t, "half_open")
  /\ IF circuit = "Open" THEN Goto(t, "cooled") ELSE Return(t)
  /\ UNCHANGED <<now, atomicVars, auxVars>>

HalfLoadTime(t) ==
  /\ At(t, "cooled")
  /\ IF Cooled THEN Goto(t, "half") ELSE Return(t)
  /\ UNCHANGED <<now, atomicVars, auxVars>>

HalfStoreState(t) ==
  /\ At(t, "half")
  /\ circuit' = "HalfOpen"
  /\ Return(t)
  /\ UNCHANGED <<now, tripTime, tripCount, lockedOut, auxVars>>

-----------------------------------------------------------------------------
(* is_safe_to_trade; resume_trading goes on to release_lockout when safe.  *)

Verdict(t, safe) ==
  IF safe /\ call[t] = "resume" THEN Goto(t, "release") ELSE Return(t)

CheckLoadLockout(t) ==
  /\ At(t, "check")
  /\ IF lockedOut THEN Verdict(t, FALSE) ELSE Goto(t, "look")
  /\ UNCHANGED <<now, atomicVars, auxVars>>

CheckLoadState(t) ==
  /\ At(t, "look")
  /\ IF circuit = "Open" THEN Goto(t, "elapsed") ELSE Verdict(t, TRUE)
  /\ UNCHANGED <<now, atomicVars, auxVars>>

CheckLoadTime(t) ==
  /\ At(t, "elapsed")
  /\ Verdict(t, Cooled)
  /\ UNCHANGED <<now, atomicVars, auxVars>>

-----------------------------------------------------------------------------
Step(t) ==
  \/ TripLoadState(t) \/ TripStoreState(t) \/ TripStoreTime(t)
  \/ TripCountUp(t) \/ TripLockOut(t) \/ ManualLockout(t)
  \/ ResetLoadLockout(t) \/ ResetStoreState(t) \/ ResetStoreTime(t)
  \/ ReleaseLockout(t)
  \/ HalfLoadState(t) \/ HalfLoadTime(t) \/ HalfStoreState(t)
  \/ CheckLoadLockout(t) \/ CheckLoadState(t) \/ CheckLoadTime(t)

NextBreaker == \/ Tick
        \/ \E t \in Threads : Step(t) \/ \E c \in Calls : Begin(t, c)

SpecBreaker == InitBreaker /\ [][NextBreaker]_breakerVars

-----------------------------------------------------------------------------
\* The type of each variable.
TypeOKBreaker ==
  /\ now \in 1 .. MaxTime
  /\ circuit \in CircuitState
  /\ tripTime \in 0 .. now
  /\ tripCount \in Nat /\ openings \in Nat
  /\ lockedOut \in BOOLEAN /\ released \in BOOLEAN
  /\ pc \in [Threads -> PC]
  /\ call \in [Threads -> Calls \cup {"idle"}]
  /\ stamp \in [Threads -> 0 .. now]

\* However trips, resets and probes interleave, no opening escapes the count
\* that leads to the lockout: each is counted or about to be.
EveryOpeningCounted ==
  openings <= tripCount
              + Cardinality({t \in Threads : pc[t] \in {"time", "count"}})

\* Short of a release, max_trips_before_lockout trips lock the breaker out for
\* good, even when a reset that saw it unlocked is still under way.
LockoutAfterMaxTrips ==
  tripCount >= MaxTrips /\ ~released
    => lockedOut \/ \E t \in Threads : pc[t] = "lock_out"
=============================================================================
