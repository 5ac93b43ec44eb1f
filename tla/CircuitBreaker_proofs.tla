----------------------- MODULE CircuitBreaker_proofs -----------------------
(***************************************************************************)
(* Theorems about CircuitBreaker, for any finite set of threads and any    *)
(* values of its numbers.                                                  *)
(***************************************************************************)
EXTENDS CircuitBreaker, FiniteSetTheorems, TLAPS

USE NumbersAssumption, ThreadsAssumption, CallsAssumption

-----------------------------------------------------------------------------
(* Types.                                                                  *)

\* Every variable keeps its type: no stored time is ever later than the clock.
THEOREM TypeCorrect == SpecBreaker => []TypeOKBreaker
<1>1. InitBreaker => TypeOKBreaker
  <2>1. 1 \in 1 .. MaxTime
    BY DEF NumbersAssumption
  <2>2. InitBreaker => lockedOut \in BOOLEAN /\ released \in BOOLEAN
    BY DEF InitBreaker
  <2>3. InitBreaker => /\ pc \in [Threads -> PC]
                /\ call \in [Threads -> Calls \cup {"idle"}]
                /\ stamp \in [Threads -> 0 .. now]
    BY DEF InitBreaker, PC
  <2>4. QED BY <2>1, <2>2, <2>3 DEF InitBreaker, TypeOKBreaker, CircuitState
<1>2. TypeOKBreaker /\ [NextBreaker]_breakerVars => TypeOKBreaker'
  <2> SUFFICES ASSUME TypeOKBreaker, [NextBreaker]_breakerVars
               PROVE  TypeOKBreaker'
      OBVIOUS
  <2> USE DEF TypeOKBreaker, PC, CircuitState, At, Goto, Return, atomicVars,
             auxVars
  <2>0. CASE UNCHANGED breakerVars
    BY <2>0 DEF breakerVars
  <2>1. CASE Tick
    BY <2>1 DEF Tick
  <2>2. ASSUME NEW t \in Threads, NEW c \in Calls, Begin(t, c)
        PROVE  TypeOKBreaker'
    BY <2>2 DEF Begin
  <2>3. ASSUME NEW t \in Threads, TripLoadState(t) PROVE TypeOKBreaker'
    BY <2>3 DEF TripLoadState
  <2>4. ASSUME NEW t \in Threads, TripStoreState(t) PROVE TypeOKBreaker'
    BY <2>4 DEF TripStoreState
  <2>5. ASSUME NEW t \in Threads, TripStoreTime(t) PROVE TypeOKBreaker'
    BY <2>5 DEF TripStoreTime
  <2>6. ASSUME NEW t \in Threads, TripCountUp(t) PROVE TypeOKBreaker'
    BY <2>6 DEF TripCountUp
  <2>7. ASSUME NEW t \in Threads, TripLockOut(t) \/ ManualLockout(t)
        PROVE  TypeOKBreaker'
    <3>1. CASE TripLockOut(t)
      BY <3>1 DEF TripLockOut
    <3>2. CASE ManualLockout(t)
      BY <3>2 DEF ManualLockout
    <3>3. QED BY <2>7, <3>1, <3>2
  <2>8. ASSUME NEW t \in Threads,
               ResetLoadLockout(t) \/ ResetStoreState(t) \/ ResetStoreTime(t)
        PROVE  TypeOKBreaker'
    BY <2>8 DEF ResetLoadLockout, ResetStoreState, ResetStoreTime
  <2>9. ASSUME NEW t \in Threads, ReleaseLockout(t) PROVE TypeOKBreaker'
    BY <2>9 DEF ReleaseLockout
  <2>10. ASSUME NEW t \in Threads,
                HalfLoadState(t) \/ HalfLoadTime(t) \/ HalfStoreState(t)
         PROVE  TypeOKBreaker'
    BY <2>10 DEF HalfLoadState, HalfLoadTime, HalfStoreState
  <2>11. ASSUME NEW t \in Threads,
                CheckLoadLockout(t) \/ CheckLoadState(t) \/ CheckLoadTime(t)
         PROVE  TypeOKBreaker'
    BY <2>11 DEF CheckLoadLockout, CheckLoadState, CheckLoadTime, Verdict
  <2>12. QED
    BY <2>0, <2>1, <2>2, <2>3, <2>4, <2>5, <2>6, <2>7, <2>8, <2>9, <2>10,
       <2>11 DEF NextBreaker, Step
<1>3. QED BY <1>1, <1>2, PTL DEF SpecBreaker

-----------------------------------------------------------------------------
(* What a step does to the counters and to the threads that trip.          *)

\* A thread that does not count moves from and to places outside "time" and
\* "count".
Uncounting == PC \ {"time", "count"}

\* Steps that leave both numbers alone.
Neutral(t) ==
  /\ UNCHANGED <<openings, tripCount>>
  /\ \/ pc[t] \in Uncounting /\ \E l \in Uncounting : pc' = [pc EXCEPT ![t] = l]
     \/ pc[t] = "time" /\ pc' = [pc EXCEPT ![t] = "count"]

\* Of all steps only two touch the numbers: the store of Open, which starts
\* the counting of an opening, and fetch_add, which ends it.
LEMMA CountingSteps ==
  ASSUME TypeOKBreaker, NextBreaker
  PROVE  \/ UNCHANGED <<openings, tripCount, pc>>
         \/ \E t \in Threads :
              \/ Neutral(t)
              \/ /\ pc[t] = "open" /\ pc' = [pc EXCEPT ![t] = "time"]
                 /\ openings' \in {openings, openings + 1}
                 /\ tripCount' = tripCount
              \/ /\ pc[t] = "count" /\ tripCount' = tripCount + 1
                 /\ openings' = openings
                 /\ \E l \in Uncounting : pc' = [pc EXCEPT ![t] = l]
<1> USE DEF Uncounting, PC, At, Goto, Return, atomicVars, auxVars
<1>1. CASE Tick
  BY <1>1 DEF Tick
<1>2. ASSUME NEW t \in Threads, NEW c \in Calls, Begin(t, c) PROVE Neutral(t)
  <2>1. c = "resume" \/ c \in {"trip", "lockout", "reset", "release",
                               "half_open", "check"}
    OBVIOUS
  <2>2. QED BY <1>2, <2>1 DEF Begin, Neutral
<1>3. ASSUME NEW t \in Threads,
             \/ TripLoadState(t) \/ TripStoreTime(t) \/ TripLockOut(t)
             \/ ManualLockout(t)
      PROVE  Neutral(t)
  BY <1>3 DEF TripLoadState, TripStoreTime, TripLockOut, ManualLockout, Neutral
<1>4. ASSUME NEW t \in Threads,
             \/ ResetLoadLockout(t) \/ ResetStoreState(t) \/ ResetStoreTime(t)
             \/ ReleaseLockout(t)
      PROVE  Neutral(t)
  BY <1>4 DEF ResetLoadLockout, ResetStoreState, ResetStoreTime,
              ReleaseLockout, Neutral
<1>5. ASSUME NEW t \in Threads,
             \/ HalfLoadState(t) \/ HalfLoadTime(t) \/ HalfStoreState(t)
             \/ CheckLoadLockout(t) \/ CheckLoadState(t) \/ CheckLoadTime(t)
      PROVE  Neutral(t)
  BY <1>5 DEF HalfLoadState, HalfLoadTime, HalfStoreState, CheckLoadLockout,
              CheckLoadState, CheckLoadTime, Verdict, Neutral
<1>6. ASSUME NEW t \in Threads, TripStoreState(t)
      PROVE  /\ pc[t] = "open" /\ pc' = [pc EXCEPT ![t] = "time"]
             /\ openings' \in {openings, openings + 1}
             /\ tripCount' = tripCount
  BY <1>6 DEF TripStoreState
<1>7. ASSUME NEW t \in Threads, TripCountUp(t)
      PROVE  /\ pc[t] = "count" /\ tripCount' = tripCount + 1
             /\ openings' = openings
             /\ \E l \in Uncounting : pc' = [pc EXCEPT ![t] = l]
  BY <1>7 DEF TripCountUp
<1>8. QED
  BY <1>1, <1>2, <1>3, <1>4, <1>5, <1>6, <1>7 DEF NextBreaker, Step

-----------------------------------------------------------------------------
(* No opening escapes the count.                                           *)

\* The threads that have stored Open and not counted it yet.
Counting == {t \in Threads : pc[t] \in {"time", "count"}}

\* For any number of threads, every opening of the breaker is counted or about
\* to be.
THEOREM OpeningsCounted == SpecBreaker => []EveryOpeningCounted
<1> USE DEF EveryOpeningCounted
<1>1. InitBreaker => EveryOpeningCounted
  <2> SUFFICES ASSUME InitBreaker PROVE EveryOpeningCounted
      OBVIOUS
  <2>1. IsFiniteSet(Counting)
    BY FS_Subset DEF Counting
  <2>2. Cardinality(Counting) \in Nat
    BY <2>1, FS_CardinalityType
  <2>3. QED BY <2>2 DEF InitBreaker, Counting
<1>2. TypeOKBreaker /\ EveryOpeningCounted /\ [NextBreaker]_breakerVars
        => EveryOpeningCounted'
  <2> SUFFICES ASSUME TypeOKBreaker, EveryOpeningCounted,
                      [NextBreaker]_breakerVars
               PROVE  EveryOpeningCounted'
      OBVIOUS
  <2>1. /\ pc \in [Threads -> PC] /\ tripCount \in Nat /\ openings \in Nat
        /\ IsFiniteSet(Counting) /\ Cardinality(Counting) \in Nat
    <3>1. IsFiniteSet(Counting)
      BY FS_Subset DEF Counting
    <3>2. QED BY <3>1, FS_CardinalityType DEF TypeOKBreaker
  <2>2. openings <= tripCount + Cardinality(Counting)
    BY DEF Counting
  <2>3. SUFFICES openings' <= tripCount' + Cardinality(Counting')
    BY DEF Counting
  <2>4. CASE UNCHANGED <<openings, tripCount, pc>>
    BY <2>2, <2>4 DEF Counting
  <2>5. ASSUME NEW t \in Threads, Neutral(t)
        PROVE  openings' <= tripCount' + Cardinality(Counting')
    <3>1. Counting' = Counting
      BY <2>1, <2>5 DEF Neutral, Uncounting, Counting
    <3>2. QED BY <2>2, <2>5, <3>1 DEF Neutral
  <2>6. ASSUME NEW t \in Threads,
               pc[t] = "open", pc' = [pc EXCEPT ![t] = "time"],
               openings' \in {openings, openings + 1}, tripCount' = tripCount
        PROVE  openings' <= tripCount' + Cardinality(Counting')
    <3>1. t \notin Counting /\ Counting' = Counting \cup {t}
      BY <2>1, <2>6 DEF Counting
    <3>2. Cardinality(Counting') = Cardinality(Counting) + 1
      BY <2>1, <3>1, FS_AddElement
    <3>3. QED BY <2>1, <2>2, <2>6, <3>2
  <2>7. ASSUME NEW t \in Threads, pc[t] = "count", tripCount' = tripCount + 1,
               openings' = openings,
               \E l \in Uncounting : pc' = [pc EXCEPT ![t] = l]
        PROVE  openings' <= tripCount' + Cardinality(Counting')
    <3>1. t \in Counting /\ Counting' = Counting \ {t}
      BY <2>1, <2>7 DEF Counting, Uncounting
    <3>2. Cardinality(Counting') = Cardinality(Counting) - 1
      BY <2>1, <3>1, FS_RemoveElement
    <3>3. QED BY <2>1, <2>2, <2>7, <3>2
  <2>8. CASE NextBreaker
    BY <2>4, <2>5, <2>6, <2>7, <2>8, CountingSteps
  <2>9. QED BY <2>4, <2>8 DEF breakerVars, auxVars, atomicVars
<1>3. QED BY <1>1, <1>2, TypeCorrect, PTL DEF SpecBreaker

-----------------------------------------------------------------------------
(* The lockout.                                                            *)

\* For any number of threads, a breaker that has tripped MaxTrips times and
\* was never released is locked out, or the thread that tripped it last is
\* about to lock it out.
THEOREM TripsLockOut == SpecBreaker => []LockoutAfterMaxTrips
<1> USE DEF LockoutAfterMaxTrips
<1>1. InitBreaker => LockoutAfterMaxTrips
  BY DEF InitBreaker
<1>2. TypeOKBreaker /\ LockoutAfterMaxTrips /\ [NextBreaker]_breakerVars
        => LockoutAfterMaxTrips'
  <2> SUFFICES ASSUME TypeOKBreaker, LockoutAfterMaxTrips,
                      [NextBreaker]_breakerVars
               PROVE  LockoutAfterMaxTrips'
      OBVIOUS
  <2> USE DEF At, Goto, Return, atomicVars, auxVars
  <2>0. /\ pc \in [Threads -> PC] /\ tripCount \in Nat /\ lockedOut \in BOOLEAN
        /\ released \in BOOLEAN
    BY DEF TypeOKBreaker
  <2>1. ASSUME NEW t \in Threads, TripCountUp(t) PROVE LockoutAfterMaxTrips'
    BY <2>0, <2>1 DEF TripCountUp
  <2>2. ASSUME NEW t \in Threads, TripLockOut(t) \/ ManualLockout(t)
        PROVE  LockoutAfterMaxTrips'
    BY <2>2 DEF TripLockOut, ManualLockout
  <2>3. ASSUME NEW t \in Threads, ReleaseLockout(t) PROVE LockoutAfterMaxTrips'
    BY <2>3 DEF ReleaseLockout
  <2>4. CASE /\ UNCHANGED <<tripCount, lockedOut, released>>
             /\ \A t \in Threads : pc[t] = "lock_out" => pc'[t] = "lock_out"
    BY <2>4
  <2>5. ASSUME NEW t \in Threads, NEW c \in Calls, Begin(t, c)
        PROVE  LockoutAfterMaxTrips'
    BY <2>0, <2>4, <2>5 DEF Begin
  <2>6. ASSUME NEW t \in Threads,
               TripLoadState(t) \/ TripStoreState(t) \/ TripStoreTime(t)
        PROVE  LockoutAfterMaxTrips'
    BY <2>0, <2>4, <2>6 DEF TripLoadState, TripStoreState, TripStoreTime
  <2>7. ASSUME NEW t \in Threads,
               ResetLoadLockout(t) \/ ResetStoreState(t) \/ ResetStoreTime(t)
        PROVE  LockoutAfterMaxTrips'
    BY <2>0, <2>4, <2>7 DEF ResetLoadLockout, ResetStoreState, ResetStoreTime
  <2>8. ASSUME NEW t \in Threads,
               HalfLoadState(t) \/ HalfLoadTime(t) \/ HalfStoreState(t)
        PROVE  LockoutAfterMaxTrips'
    BY <2>0, <2>4, <2>8 DEF HalfLoadState, HalfLoadTime, HalfStoreState
  <2>9. ASSUME NEW t \in Threads,
               CheckLoadLockout(t) \/ CheckLoadState(t) \/ CheckLoadTime(t)
        PROVE  LockoutAfterMaxTrips'
    BY <2>0, <2>4, <2>9 DEF CheckLoadLockout, CheckLoadState, CheckLoadTime,
                            Verdict
  <2>10. CASE Tick \/ UNCHANGED breakerVars
    BY <2>4, <2>10 DEF Tick, breakerVars
  <2>11. QED
    BY <2>1, <2>2, <2>3, <2>5, <2>6, <2>7, <2>8, <2>9, <2>10
       DEF NextBreaker, Step
<1>3. QED BY <1>1, <1>2, TypeCorrect, PTL DEF SpecBreaker
=============================================================================
