---------------------------- MODULE ReentrantLock ----------------------------
(***************************************************************************)
(* concurrency/rw_locks.py: ReentrantRWLock, which keeps its own count of  *)
(* the holds of each thread around the lock of ReadWriteLock, in critical  *)
(* sections of their own: an acquisition is recorded after it was made,    *)
(* a release is recorded before it is.                                     *)
(*                                                                         *)
(* The entries of a thread are read and written by that thread only, so    *)
(* the look-up is one step with the acquisition that follows.  A thread    *)
(* does not ask for the write lock while it reads (it would wait for       *)
(* itself until the time-out).                                             *)
(***************************************************************************)
EXTENDS ReadWriteLock

CONSTANTS
  MaxNesting,   \* bound on the holds of one thread
  NoThread      \* None

ParametersOK == MaxNesting \in Nat \ {0} /\ NoThread \notin Threads

VARIABLES
  held,          \* _reader_threads, zero for an absent entry
  writerThread,  \* _writer_thread
  releasing      \* threads between the two halves of a release

vars == <<lockVars, held, writerThread, releasing>>

InitReentrant ==
  /\ Init
  /\ held = [t \in Threads |-> 0]
  /\ writerThread = NoThread
  /\ releasing = {}

-----------------------------------------------------------------------------
\* A thread that holds the lock adds a hold.
ReadAgain(t) ==
  /\ held[t] \in 1 .. MaxNesting - 1 /\ t \notin releasing
  /\ held' = [held EXCEPT ![t] = @ + 1]
  /\ UNCHANGED <<lockVars, writerThread, releasing>>

\* super().acquire_read or super().acquire_write, up to a wait or its end.
AcquireInner(t) ==
  /\ held[t] = 0 /\ t \notin releasing
  /\ Acquire(t) \/ TimesOut(t)
  /\ UNCHANGED <<held, writerThread, releasing>>

RecordRead(t) ==
  /\ pc[t] = "reading" /\ held[t] = 0 /\ t \notin releasing
  /\ held' = [held EXCEPT ![t] = 1]
  /\ UNCHANGED <<lockVars, writerThread, releasing>>

\* release_read: the count of the thread.
BeginReleaseRead(t) ==
  /\ held[t] > 0 /\ t \notin releasing
  /\ held' = [held EXCEPT ![t] = @ - 1]
  /\ releasing' = releasing \cup {t}
  /\ UNCHANGED <<lockVars, writerThread>>

\* release_read: the lock, whichever hold of the thread this was, if anybody
\* holds it still.
EndReleaseRead(t) ==
  LET left == IF held[t] > 0 THEN pc ELSE [pc EXCEPT ![t] = "idle"] IN
  /\ pc[t] = "reading" /\ t \in releasing
  /\ readers' = IF readers > 0 THEN readers - 1 ELSE 0
  /\ pc' = IF readers = 1 THEN Woken(left) ELSE left
  /\ releasing' = releasing \ {t}
  /\ UNCHANGED <<writersWaiting, writerActive, held, writerThread>>

RecordWrite(t) ==
  /\ pc[t] = "writing" /\ writerThread # t /\ t \notin releasing
  /\ writerThread' = t
  /\ UNCHANGED <<lockVars, held, releasing>>

\* Mutant: the lock is released first, its owner forgotten afterwards.
ReleaseBeforeForgetting(t) ==
  /\ writerThread = t /\ t \notin releasing
  /\ releasing' = releasing \cup {t}
  /\ UNCHANGED <<lockVars, held, writerThread>>

BeginReleaseWrite(t) ==
  /\ writerThread = t /\ t \notin releasing
  /\ writerThread' = NoThread
  /\ releasing' = releasing \cup {t}
  /\ UNCHANGED <<lockVars, held>>

EndReleaseWrite(t) ==
  /\ t \in releasing
  /\ ReleaseWrite(t)
  /\ releasing' = releasing \ {t}
  /\ UNCHANGED <<held, writerThread>>

-----------------------------------------------------------------------------
NextReentrant == \E t \in Threads :
  \/ ReadAgain(t) \/ AcquireInner(t) \/ RecordRead(t)
  \/ BeginReleaseRead(t) \/ EndReleaseRead(t)
  \/ RecordWrite(t) \/ BeginReleaseWrite(t) \/ EndReleaseWrite(t)

SpecReentrant == InitReentrant /\ [][NextReentrant]_vars

-----------------------------------------------------------------------------
TypeOKReentrant ==
  /\ TypeOK
  /\ held \in [Threads -> 0 .. MaxNesting]
  /\ writerThread \in Threads \cup {NoThread}
  /\ releasing \subseteq Threads

\* Whatever nesting does to the count of readers, two writers never meet, and
\* who is recorded as the writer has the lock.
OneWriter ==
  /\ \A t, u \in At("writing") : t = u
  /\ writerThread # NoThread => pc[writerThread] = "writing"

\* "... ensures exclusive access for writers", here with holds that are nested.
ExclusionNested ==
  \A t, u \in Threads : pc[t] = "writing" => held[u] = 0

=============================================================================
