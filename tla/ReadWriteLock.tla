---------------------------- MODULE ReadWriteLock ----------------------------
(***************************************************************************)
(* concurrency/rw_locks.py: RWLock, a readers-writer lock made of one      *)
(* condition variable.  A step is one holding of the condition's mutex: up *)
(* to the entry, the start of a wait, or the return.                       *)
(*                                                                         *)
(* A thread in wait is woken by notify_all and then looks again.  Timers   *)
(* may expire in wait, and also just before a notification that does not   *)
(* reach the thread any more: it returns False whatever it would find.     *)
(***************************************************************************)
EXTENDS Integers, FiniteSets

CONSTANTS
  Threads,
  WriterPreference   \* writer_preference

ASSUME ThreadsAssumption == IsFiniteSet(Threads)
ASSUME PreferenceAssumption == WriterPreference \in BOOLEAN

VARIABLES
  readers,         \* _readers
  writersWaiting,  \* _writers_waiting
  writerActive,    \* _writer_active
  pc               \* where each thread is

lockVars == <<readers, writersWaiting, writerActive, pc>>

Place == {"idle", "readWait", "readWoken", "reading",
          "writeWait", "writeWoken", "writing"}

Waiting(t) == pc[t] \in {"readWait", "writeWait"}
ReadsPending(t) == pc[t] \in {"readWait", "readWoken"}
WritesPending(t) == pc[t] \in {"writeWait", "writeWoken"}

At(p) == {t \in Threads : pc[t] = p}

Init ==
  /\ readers = 0 /\ writersWaiting = 0 /\ writerActive = FALSE
  /\ pc = [t \in Threads |-> "idle"]

-----------------------------------------------------------------------------
\* The conditions of the two waiting loops.
ReadMustWait ==
  \/ writerActive
  \/ WriterPreference /\ writersWaiting > 0 /\ readers = 0

\* Mutant: a writer looks at the other writers only.
WriterMustWait == writerActive

WriteMustWait == readers > 0 \/ writerActive

\* notify_all: whoever waits will look again.
Woken(p) ==
  [t \in Threads |-> CASE p[t] = "readWait" -> "readWoken"
                       [] p[t] = "writeWait" -> "writeWoken"
                       [] OTHER -> p[t]]

EnterRead(t) ==
  /\ pc[t] \in {"idle", "readWoken"} /\ ~ReadMustWait
  /\ readers' = readers + 1
  /\ pc' = [pc EXCEPT ![t] = "reading"]
  /\ UNCHANGED <<writersWaiting, writerActive>>

AwaitRead(t) ==
  /\ pc[t] \in {"idle", "readWoken"} /\ ReadMustWait
  /\ pc' = [pc EXCEPT ![t] = "readWait"]
  /\ UNCHANGED <<readers, writersWaiting, writerActive>>

\* Mutant: the time-out starts over with every wake-up.
ReadTimesOutAsleep(t) ==
  /\ pc[t] = "readWait"
  /\ pc' = [pc EXCEPT ![t] = "idle"]
  /\ UNCHANGED <<readers, writersWaiting, writerActive>>

\* acquire_read returns False.
ReadTimesOut(t) ==
  /\ ReadsPending(t)
  /\ pc' = [pc EXCEPT ![t] = "idle"]
  /\ UNCHANGED <<readers, writersWaiting, writerActive>>

\* Mutant: the last reader wakes nobody.
ReleaseQuietly(t) ==
  /\ pc[t] = "reading"
  /\ readers' = readers - 1
  /\ pc' = [pc EXCEPT ![t] = "idle"]
  /\ UNCHANGED <<writersWaiting, writerActive>>

ReleaseRead(t) ==
  /\ pc[t] = "reading"
  /\ readers' = readers - 1
  /\ LET left == [pc EXCEPT ![t] = "idle"]
     IN  pc' = IF readers' = 0 THEN Woken(left) ELSE left
  /\ UNCHANGED <<writersWaiting, writerActive>>

\* The writer is counted as waiting while it waits, and no longer.
EnterWrite(t) ==
  /\ pc[t] = "idle" \/ pc[t] = "writeWoken"
  /\ ~WriteMustWait
  /\ writerActive' = TRUE
  /\ writersWaiting' = IF pc[t] = "idle" THEN writersWaiting
                       ELSE writersWaiting - 1
  /\ pc' = [pc EXCEPT ![t] = "writing"]
  /\ UNCHANGED readers

AwaitWrite(t) ==
  /\ pc[t] = "idle" \/ pc[t] = "writeWoken"
  /\ WriteMustWait
  /\ writersWaiting' = IF pc[t] = "idle" THEN writersWaiting + 1
                       ELSE writersWaiting
  /\ pc' = [pc EXCEPT ![t] = "writeWait"]
  /\ UNCHANGED <<readers, writerActive>>

\* Mutant: the early return forgets that the writer no longer waits.
WriteTimesOutCounted(t) ==
  /\ WritesPending(t)
  /\ pc' = [pc EXCEPT ![t] = "idle"]
  /\ UNCHANGED <<readers, writersWaiting, writerActive>>

\* acquire_write returns False; nobody is notified that a writer has gone.
WriteTimesOut(t) ==
  /\ WritesPending(t)
  /\ writersWaiting' = writersWaiting - 1
  /\ pc' = [pc EXCEPT ![t] = "idle"]
  /\ UNCHANGED <<readers, writerActive>>

ReleaseWrite(t) ==
  /\ pc[t] = "writing"
  /\ writerActive' = FALSE
  /\ pc' = Woken([pc EXCEPT ![t] = "idle"])
  /\ UNCHANGED <<readers, writersWaiting>>

-----------------------------------------------------------------------------
Acquire(t) == EnterRead(t) \/ AwaitRead(t) \/ EnterWrite(t) \/ AwaitWrite(t)
TimesOut(t) == ReadTimesOut(t) \/ WriteTimesOut(t)

Next == \E t \in Threads :
          Acquire(t) \/ TimesOut(t) \/ ReleaseRead(t) \/ ReleaseWrite(t)

Spec == Init /\ [][Next]_lockVars

\* Woken threads run, holders let go, and time passes.
Fairness == \A t \in Threads :
  /\ WF_lockVars(pc[t] # "idle" /\ Acquire(t))
  /\ WF_lockVars(TimesOut(t))
  /\ WF_lockVars(ReleaseRead(t) \/ ReleaseWrite(t))

-----------------------------------------------------------------------------
\* The type of each variable.
TypeOK ==
  /\ readers \in 0 .. Cardinality(Threads)
  /\ writersWaiting \in 0 .. Cardinality(Threads)
  /\ writerActive \in BOOLEAN
  /\ pc \in [Threads -> Place]

\* The counts on which every decision rests are those of the threads: none is
\* leaked by an early return, a wake-up or a time-out.
CountsExact ==
  /\ readers = Cardinality(At("reading"))
  /\ writersWaiting = Cardinality({t \in Threads : WritesPending(t)})
  /\ writerActive <=> At("writing") # {}

\* "... ensures exclusive access for writers".
Exclusion ==
  \A t, u \in Threads :
    pc[t] = "writing" /\ u # t => pc[u] \notin {"reading", "writing"}

\* No wake-up of a writer is lost: one that sleeps has somebody to wait for.
WritersSleepForAReason ==
  \A t \in Threads : pc[t] = "writeWait" => WriteMustWait

\* The time-out bounds the whole call: however often others take the lock and
\* wake the thread in vain, an acquisition comes to an end.
EveryAcquireReturns ==
  \A t \in Threads : ReadsPending(t) \/ WritesPending(t)
                       ~> ~(ReadsPending(t) \/ WritesPending(t))

=============================================================================
