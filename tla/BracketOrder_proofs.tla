------------------------ MODULE BracketOrder_proofs ------------------------
(***************************************************************************)
(* Theorems about BracketOrder, for any set of threads and any legs.       *)
(***************************************************************************)
EXTENDS BracketOrder, TLAPS

USE LegsAssumption

-----------------------------------------------------------------------------
(* Types.                                                                  *)

Executing(t) == pc[t] \in
                  {"fast", "swap", "recheck", "mark", "ask", "unlock"}

\* A thread executes one of the legs that are called for.
LegOK == \A t \in Threads : Executing(t) => leg[t] \in Legs

\* Every variable keeps its type, and only legs that are called for are
\* executed.
THEOREM TypeCorrect == Spec => [](TypeOK /\ LegOK)
<1>1. Init => TypeOK /\ LegOK
  <2>1. << >> \in Seq(BothLegs)
    OBVIOUS
  <2>2. QED
    BY <2>1 DEF Init, TypeOK, LegOK, Executing, BracketState, PC, BothLegs
<1>2. TypeOK /\ LegOK /\ [Next]_vars => TypeOK' /\ LegOK'
  <2> SUFFICES ASSUME TypeOK, LegOK, [Next]_vars PROVE TypeOK' /\ LegOK'
      OBVIOUS
  <2> USE DEF TypeOK, LegOK, Executing, PC, BracketState, BothLegs
  <2>0. CASE UNCHANGED vars
    BY <2>0 DEF vars
  <2>1. ASSUME NEW t \in Threads, SetEntryOrderId(t) PROVE TypeOK' /\ LegOK'
    BY <2>1 DEF SetEntryOrderId, Goto
  <2>2. ASSUME NEW t \in Threads, NEW l \in BothLegs, SetOrderId(t, l)
        PROVE  TypeOK' /\ LegOK'
    BY <2>2 DEF SetOrderId, Goto
  <2>3. ASSUME NEW t \in Threads, LoadOtherId(t) PROVE TypeOK' /\ LegOK'
    BY <2>3 DEF LoadOtherId, Goto, Return
  <2>4. ASSUME NEW t \in Threads, Drain(t) PROVE TypeOK' /\ LegOK'
    <3>1. /\ Head(buffer[t]) \in BothLegs
          /\ Tail(buffer[t]) \in Seq(BothLegs)
      BY <2>4 DEF Drain
    <3>2. QED BY <2>4, <3>1 DEF Drain
  <2>5. ASSUME NEW t \in Threads, CheckState(t) PROVE TypeOK' /\ LegOK'
    BY <2>5 DEF CheckState, Goto, Return
  <2>6. ASSUME NEW t \in Threads, CommitState(t) PROVE TypeOK' /\ LegOK'
    BY <2>6 DEF CommitState, Goto, Return
  <2>7. ASSUME NEW t \in Threads, NEW l \in Legs, Execute(t, l)
        PROVE  TypeOK' /\ LegOK'
    BY <2>7 DEF Execute, Goto
  <2>8. ASSUME NEW t \in Threads, FastPath(t) PROVE TypeOK' /\ LegOK'
    BY <2>8 DEF FastPath, Goto, Return
  <2>9. ASSUME NEW t \in Threads, LockTaken(t) PROVE TypeOK' /\ LegOK'
    BY <2>9 DEF LockTaken, Goto, Return
  <2>10. ASSUME NEW t \in Threads, TakeLock(t) PROVE TypeOK' /\ LegOK'
    BY <2>10 DEF TakeLock, Goto
  <2>11. ASSUME NEW t \in Threads, Recheck(t) PROVE TypeOK' /\ LegOK'
    BY <2>11 DEF Recheck, Goto, Return
  <2>12. ASSUME NEW t \in Threads, MarkExecuted(t) PROVE TypeOK' /\ LegOK'
    BY <2>12 DEF MarkExecuted, Goto
  <2>13. ASSUME NEW t \in Threads, Unlock(t) PROVE TypeOK' /\ LegOK'
    BY <2>13 DEF Unlock, Goto
  <2>14. ASSUME NEW t \in Threads, AskCancellation(t) PROVE TypeOK' /\ LegOK'
    <3>1. Other(leg[t]) \in BothLegs
      BY DEF Other
    <3>2. QED BY <2>14, <3>1 DEF AskCancellation, Goto
  <2>15. ASSUME NEW t \in Threads, NEW s \in Reportable, ReportState(t, s)
         PROVE  TypeOK' /\ LegOK'
    BY <2>15 DEF ReportState, Reportable, Goto
  <2>16. QED
    BY <2>0, <2>1, <2>2, <2>3, <2>4, <2>5, <2>6, <2>7, <2>8, <2>9, <2>10,
       <2>11, <2>12, <2>13, <2>14, <2>15 DEF Next, Step
<1>3. QED BY <1>1, <1>2, PTL DEF Spec

-----------------------------------------------------------------------------
(* Mutual exclusion.                                                       *)

\* A step that keeps to the part of the code outside the critical section.
Outside(t) ==
  /\ ~InCriticalSection(t) /\ lock' = lock
  /\ \E l \in PC \ {"recheck", "mark", "ask", "unlock"} : Goto(t, l)

\* What each step does to the lock: only TakeLock enters, with the lock free,
\* and whoever lowers the lock leaves.
LEMMA LockSteps ==
  ASSUME TypeOK, Next
  PROVE  \/ UNCHANGED <<lock, pc>>
         \/ \E t \in Threads :
              \/ Outside(t)
              \/ ~lock /\ lock' = TRUE /\ Goto(t, "recheck")
              \/ /\ InCriticalSection(t) /\ lock' = FALSE
                 /\ \E l \in {"idle", "check"} : Goto(t, l)
              \/ /\ InCriticalSection(t) /\ lock' = lock
                 /\ \E l \in {"mark", "ask", "unlock"} : Goto(t, l)
<1> USE DEF InCriticalSection, PC, Outside
<1>1. ASSUME NEW t \in Threads, SetEntryOrderId(t) PROVE Outside(t)
  BY <1>1 DEF SetEntryOrderId
<1>2. ASSUME NEW t \in Threads, NEW l \in BothLegs, SetOrderId(t, l)
      PROVE  Outside(t)
  BY <1>2 DEF SetOrderId
<1>3. ASSUME NEW t \in Threads, NEW l \in Legs, Execute(t, l) PROVE Outside(t)
  BY <1>3 DEF Execute
<1>4. ASSUME NEW t \in Threads,
             \/ LoadOtherId(t) \/ CheckState(t) \/ CommitState(t)
             \/ FastPath(t) \/ LockTaken(t)
      PROVE  Outside(t)
  BY <1>4 DEF LoadOtherId, CheckState, CommitState, FastPath, LockTaken, Return
<1>5. ASSUME NEW t \in Threads, Drain(t) PROVE UNCHANGED <<lock, pc>>
  BY <1>5 DEF Drain
<1>6. ASSUME NEW t \in Threads, TakeLock(t)
      PROVE  ~lock /\ lock' = TRUE /\ Goto(t, "recheck")
  BY <1>6 DEF TakeLock
<1>7. ASSUME NEW t \in Threads, Recheck(t)
      PROVE  /\ InCriticalSection(t)
             /\ \/ lock' = FALSE /\ Goto(t, "idle")
                \/ lock' = lock /\ Goto(t, "mark")
  BY <1>7 DEF Recheck, Return
<1>8. ASSUME NEW t \in Threads, MarkExecuted(t)
      PROVE  InCriticalSection(t) /\ lock' = lock /\ Goto(t, "ask")
  BY <1>8 DEF MarkExecuted
<1>9. ASSUME NEW t \in Threads, Unlock(t)
      PROVE  InCriticalSection(t) /\ lock' = FALSE /\ Goto(t, "check")
  BY <1>9 DEF Unlock
<1>10. ASSUME NEW t \in Threads, AskCancellation(t)
       PROVE  InCriticalSection(t) /\ lock' = lock /\ Goto(t, "unlock")
  BY <1>10 DEF AskCancellation
<1>11. ASSUME NEW t \in Threads, NEW s \in Reportable, ReportState(t, s)
       PROVE  Outside(t)
  BY <1>11 DEF ReportState
<1>12. QED
  BY <1>1, <1>2, <1>3, <1>4, <1>5, <1>6, <1>7, <1>8, <1>9, <1>10, <1>11
     DEF Next, Step

\* For any number of threads, execution_lock is held exactly while one of
\* them is between its swap and its release.
THEOREM MutualExclusion == Spec => []OneExecutorAtATime
<1>1. Init => OneExecutorAtATime
  BY DEF Init, OneExecutorAtATime, InCriticalSection
<1>2. TypeOK /\ OneExecutorAtATime /\ [Next]_vars => OneExecutorAtATime'
  <2> SUFFICES ASSUME TypeOK, OneExecutorAtATime, [Next]_vars
               PROVE  OneExecutorAtATime'
      OBVIOUS
  <2> USE DEF OneExecutorAtATime, InCriticalSection, Goto
  <2>0. pc \in [Threads -> PC] /\ lock \in BOOLEAN
    BY DEF TypeOK
  <2>1. CASE UNCHANGED <<lock, pc>>
    BY <2>1
  <2>2. ASSUME NEW t \in Threads, Outside(t) PROVE OneExecutorAtATime'
    BY <2>0, <2>2 DEF Outside
  <2>3. ASSUME NEW t \in Threads, ~lock, lock' = TRUE, Goto(t, "recheck")
        PROVE  OneExecutorAtATime'
    BY <2>0, <2>3
  <2>4. ASSUME NEW t \in Threads, InCriticalSection(t), lock' = FALSE,
               \E l \in {"idle", "check"} : Goto(t, l)
        PROVE  OneExecutorAtATime'
    BY <2>0, <2>4
  <2>5. ASSUME NEW t \in Threads, InCriticalSection(t), lock' = lock,
               \E l \in {"mark", "ask", "unlock"} : Goto(t, l)
        PROVE  OneExecutorAtATime'
    BY <2>0, <2>5
  <2>6. CASE Next
    BY <2>1, <2>2, <2>3, <2>4, <2>5, <2>6, LockSteps
  <2>7. QED BY <2>1, <2>6 DEF vars
<1>3. QED BY <1>1, <1>2, TypeCorrect, PTL DEF Spec

-----------------------------------------------------------------------------
(* Execution.                                                              *)

\* Under the lock a leg is marked that is not executed yet; what follows the
\* mark, up to the store of FullyFilled, is about an executed leg.  Between
\* transitions a thread wants nothing.
Marks ==
  \A t \in Threads :
    /\ pc[t] = "mark" => leg[t] \notin executed
    /\ pc[t] \in {"ask", "unlock"} => leg[t] \in executed
    /\ pc[t] \notin {"check", "commit"} => want[t] = "PendingEntry"

ExecutionInv == Marks /\ FilledMeansExecuted

\* ExecutionInv is inductive relative to the types and mutual exclusion: no
\* other thread marks a leg while one is between its second check and its mark.
LEMMA ExecutionStep ==
  ASSUME TypeOK, OneExecutorAtATime, ExecutionInv, [Next]_vars
  PROVE  ExecutionInv'
<1> USE DEF ExecutionInv, Marks, FilledMeansExecuted
<1>0. /\ pc \in [Threads -> PC] /\ leg \in [Threads -> BothLegs]
      /\ want \in [Threads -> BracketState]
  BY DEF TypeOK
<1>a. CASE UNCHANGED vars
  BY <1>a DEF vars
<1>1. ASSUME NEW t \in Threads, SetEntryOrderId(t) PROVE ExecutionInv'
  BY <1>0, <1>1 DEF SetEntryOrderId, Goto
<1>2. ASSUME NEW t \in Threads, NEW l \in BothLegs, SetOrderId(t, l)
      PROVE  ExecutionInv'
  BY <1>0, <1>2 DEF SetOrderId, Goto
<1>3. ASSUME NEW t \in Threads, LoadOtherId(t) PROVE ExecutionInv'
  BY <1>0, <1>3 DEF LoadOtherId, Goto, Return
<1>4. ASSUME NEW t \in Threads, Drain(t) PROVE ExecutionInv'
  BY <1>0, <1>4 DEF Drain
<1>5. ASSUME NEW t \in Threads, CheckState(t) PROVE ExecutionInv'
  BY <1>0, <1>5 DEF CheckState, Goto, Return
<1>6. ASSUME NEW t \in Threads, CommitState(t) PROVE ExecutionInv'
  BY <1>0, <1>6 DEF CommitState, Goto, Return
<1>7. ASSUME NEW t \in Threads, NEW l \in Legs, Execute(t, l)
      PROVE  ExecutionInv'
  BY <1>0, <1>7 DEF Execute, Goto
<1>8. ASSUME NEW t \in Threads, FastPath(t) \/ LockTaken(t)
      PROVE  ExecutionInv'
  BY <1>0, <1>8 DEF FastPath, LockTaken, Goto, Return
<1>9. ASSUME NEW t \in Threads, TakeLock(t) PROVE ExecutionInv'
  BY <1>0, <1>9 DEF TakeLock, Goto
<1>10. ASSUME NEW t \in Threads, Recheck(t) PROVE ExecutionInv'
  BY <1>0, <1>10 DEF Recheck, Goto, Return
<1>11. ASSUME NEW t \in Threads, MarkExecuted(t) PROVE ExecutionInv'
  <2>1. \A u \in Threads : u # t => pc[u] # "mark"
    BY <1>11 DEF OneExecutorAtATime, InCriticalSection, MarkExecuted
  <2>2. QED BY <1>0, <1>11, <2>1 DEF MarkExecuted, Goto
<1>12. ASSUME NEW t \in Threads, Unlock(t) PROVE ExecutionInv'
  BY <1>0, <1>12 DEF Unlock, Goto
<1>13. ASSUME NEW t \in Threads, AskCancellation(t) PROVE ExecutionInv'
  BY <1>0, <1>13 DEF AskCancellation, Goto
<1>14. ASSUME NEW t \in Threads, NEW s \in Reportable, ReportState(t, s)
       PROVE  ExecutionInv'
  BY <1>0, <1>14 DEF ReportState, Reportable, Goto
<1>15. QED
  BY <1>a, <1>1, <1>2, <1>3, <1>4, <1>5, <1>6, <1>7, <1>8, <1>9, <1>10,
     <1>11, <1>12, <1>13, <1>14 DEF Next, Step

\* For any number of threads, a bracket is FullyFilled only after a leg has
\* been executed.
THEOREM FilledAfterExecution == Spec => [](Marks /\ FilledMeansExecuted)
<1>1. Init => ExecutionInv
  BY DEF Init, ExecutionInv, Marks, FilledMeansExecuted
<1>2. TypeOK /\ OneExecutorAtATime /\ ExecutionInv /\ [Next]_vars
        => ExecutionInv'
  BY ExecutionStep
<1>3. QED
  BY <1>1, <1>2, TypeCorrect, MutualExclusion, PTL DEF Spec, ExecutionInv

\* For any number of threads, no leg is executed twice: the second check under
\* the lock still holds when the leg is marked.
THEOREM SingleExecution == Spec => LegExecutesOnce
<1>1. Marks /\ [Next]_vars
        => [\A t \in Threads : MarkExecuted(t) => leg[t] \notin executed]_vars
  BY DEF Marks, MarkExecuted
<1>2. QED BY <1>1, FilledAfterExecution, PTL DEF Spec, LegExecutesOnce

-----------------------------------------------------------------------------
(* Publication of the child ids.                                           *)

\* A thread sees the id it has stored, and wants the bracket live only when
\* it sees both.
Published ==
  \A t \in Threads :
    /\ pc[t] = "stored" => Sees(t, leg[t])
    /\ want[t] = "TPActiveSLActive" => \A l \in BothLegs : Sees(t, l)

\* What a thread sees it goes on seeing, whoever moves.
LEMMA SeesGrows ==
  ASSUME TypeOK, [Next]_vars, NEW u \in Threads, NEW k \in BothLegs, Sees(u, k)
  PROVE  Sees(u, k)'
<1> USE DEF Sees, InBuffer
<1>0. buffer \in [Threads -> Seq(BothLegs)]
  BY DEF TypeOK
<1>1. CASE UNCHANGED <<ids, buffer>>
  BY <1>1
<1>2. ASSUME NEW t \in Threads, NEW l \in BothLegs, SetOrderId(t, l)
      PROVE  Sees(u, k)'
  <2>1. CASE k \in ids
    BY <1>2, <2>1 DEF SetOrderId
  <2>2. CASE u # t
    BY <1>0, <1>2, <2>2 DEF SetOrderId
  <2>3. CASE u = t /\ k \notin ids
    <3>1. PICK i \in 1 .. Len(buffer[t]) : buffer[t][i] = k
      BY <2>3
    <3>2. buffer'[t] = Append(buffer[t], l)
      BY <1>0, <1>2 DEF SetOrderId
    <3>3. i \in 1 .. Len(buffer'[t]) /\ buffer'[t][i] = k
      BY <1>0, <3>1, <3>2
    <3>4. QED BY <2>3, <3>3
  <2>4. QED BY <2>1, <2>2, <2>3
<1>3. ASSUME NEW t \in Threads, Drain(t) PROVE Sees(u, k)'
  <2>1. CASE k \in ids
    BY <1>3, <2>1 DEF Drain
  <2>2. CASE u # t
    BY <1>0, <1>3, <2>2 DEF Drain
  <2>3. CASE u = t /\ k \notin ids
    <3>1. PICK i \in 1 .. Len(buffer[t]) : buffer[t][i] = k
      BY <2>3
    <3>2. buffer'[t] = Tail(buffer[t]) /\ ids' = ids \cup {Head(buffer[t])}
      BY <1>0, <1>3 DEF Drain
    <3>3. CASE i = 1
      <4>1. Head(buffer[t]) = k
        BY <1>0, <3>1, <3>3
      <4>2. QED BY <3>2, <4>1
    <3>4. CASE i > 1
      <4>1. /\ i - 1 \in 1 .. Len(Tail(buffer[t]))
            /\ Tail(buffer[t])[i - 1] = k
        BY <1>0, <3>1, <3>4
      <4>2. QED BY <2>3, <3>2, <4>1
    <3>5. QED BY <3>1, <3>3, <3>4
  <2>4. QED BY <2>1, <2>2, <2>3
<1>4. QED
  BY <1>1, <1>2, <1>3 DEF Next, Step, SetEntryOrderId, LoadOtherId,
     CheckState, CommitState, Execute, FastPath, LockTaken, TakeLock, Recheck,
     MarkExecuted, AskCancellation, Unlock, ReportState, vars

LEMMA PublishedStep ==
  ASSUME TypeOK, Published, LiveMeansPlaced, [Next]_vars
  PROVE  Published' /\ LiveMeansPlaced'
<1>0. /\ pc \in [Threads -> PC] /\ leg \in [Threads -> BothLegs]
      /\ want \in [Threads -> BracketState] /\ ids \subseteq BothLegs
      /\ buffer \in [Threads -> Seq(BothLegs)]
  BY DEF TypeOK
<1>1. \A u \in Threads, k \in BothLegs : Sees(u, k) => Sees(u, k)'
  BY SeesGrows
<1>2. Published'
  <2> SUFFICES ASSUME NEW u \in Threads
               PROVE  (/\ pc[u] = "stored" => Sees(u, leg[u])
                       /\ want[u] = "TPActiveSLActive"
                            => \A l \in BothLegs : Sees(u, l))'
      BY DEF Published
  <2>1. CASE pc'[u] = pc[u] /\ leg'[u] = leg[u] /\ want'[u] = want[u]
    BY <1>0, <1>1, <2>1 DEF Published, Sees, InBuffer
  <2>2. CASE pc'[u] # "stored" /\ want'[u] \in {want[u], "PendingEntry",
               "EntryFilled", "FullyFilled"} \cup Reportable
    BY <1>0, <1>1, <2>2 DEF Published, Reportable
  <2>3. CASE \E l \in BothLegs : SetOrderId(u, l)
    <3>1. PICK l \in BothLegs : SetOrderId(u, l)
      BY <2>3
    <3>2. leg'[u] = l /\ want' = want /\ buffer'[u] = Append(buffer[u], l)
      BY <1>0, <3>1 DEF SetOrderId
    <3>3. /\ Len(buffer[u]) + 1 \in 1 .. Len(buffer'[u])
          /\ buffer'[u][Len(buffer[u]) + 1] = l
      BY <1>0, <3>2
    <3>4. Sees(u, l)'
      BY <3>3 DEF Sees, InBuffer
    <3>5. QED BY <1>1, <3>2, <3>4 DEF Published, Sees, InBuffer
  <2>4. CASE LoadOtherId(u)
    <3>1. Sees(u, leg[u]) /\ leg[u] \in BothLegs
      BY <1>0, <2>4 DEF LoadOtherId, Published
    <3>2. CASE Sees(u, Other(leg[u]))
      <4>1. \A l \in BothLegs : Sees(u, l)
        BY <3>1, <3>2 DEF BothLegs, Other
      <4>2. QED BY <1>0, <1>1, <2>4, <3>2, <4>1 DEF LoadOtherId, Goto
    <3>3. CASE ~Sees(u, Other(leg[u]))
      BY <1>0, <2>4, <3>3 DEF LoadOtherId, Return, Goto
    <3>4. QED BY <3>2, <3>3
  <2>5. QED
    BY <1>0, <2>1, <2>2, <2>3, <2>4 DEF Next, Step, SetEntryOrderId,
       SetOrderId, LoadOtherId, Drain, CheckState, CommitState, Execute,
       FastPath, LockTaken, TakeLock, Recheck, MarkExecuted, AskCancellation,
       Unlock, ReportState, Goto, Return, vars, PC
<1>3. LiveMeansPlaced'
  <2>1. ids \subseteq ids' /\ ids' \subseteq BothLegs
    <3>1. CASE ids' = ids
      BY <1>0, <3>1
    <3>2. ASSUME NEW t \in Threads, Drain(t)
          PROVE  ids \subseteq ids' /\ ids' \subseteq BothLegs
      <4>1. buffer[t] \in Seq(BothLegs) /\ buffer[t] # << >>
        BY <1>0, <3>2 DEF Drain
      <4>2. Head(buffer[t]) \in BothLegs
        BY <4>1
      <4>3. QED BY <1>0, <3>2, <4>2 DEF Drain
    <3>3. ids' = ids \/ \E t \in Threads : Drain(t)
      BY DEF Next, Step, SetEntryOrderId, SetOrderId, LoadOtherId, CheckState,
         CommitState, Execute, FastPath, LockTaken, TakeLock, Recheck,
         MarkExecuted, AskCancellation, Unlock, ReportState, vars
    <3>4. QED BY <3>1, <3>2, <3>3
  <2>2. CASE state' = state
    BY <2>1, <2>2 DEF LiveMeansPlaced
  <2>3. ASSUME NEW t \in Threads, CommitState(t) PROVE LiveMeansPlaced'
    <3>1. ~InBuffer(t, "TP") /\ ~InBuffer(t, "SL")
      BY <2>3 DEF CommitState, InBuffer
    <3>2. want[t] = "TPActiveSLActive" => BothLegs \subseteq ids
      BY <3>1 DEF Published, Sees, BothLegs
    <3>3. QED BY <2>1, <2>3, <3>2 DEF CommitState, LiveMeansPlaced
  <2>4. state' = state \/ \E t \in Threads : CommitState(t)
    BY DEF Next, Step, SetEntryOrderId, SetOrderId, LoadOtherId, Drain,
       CheckState, Execute, FastPath, LockTaken, TakeLock, Recheck,
       MarkExecuted, AskCancellation, Unlock, ReportState, vars
  <2>5. QED BY <2>2, <2>3, <2>4
<1>4. QED BY <1>2, <1>3

\* For any number of threads, and although stores of ids may be delayed, the
\* bracket is live only when memory shows the ids of both children.
THEOREM LiveAfterPlacement == Spec => []LiveMeansPlaced
<1>1. Init => Published /\ LiveMeansPlaced
  BY DEF Init, Published, LiveMeansPlaced
<1>2. TypeOK /\ Published /\ LiveMeansPlaced /\ [Next]_vars
        => Published' /\ LiveMeansPlaced'
  BY PublishedStep
<1>3. QED BY <1>1, <1>2, TypeCorrect, PTL DEF Spec
=============================================================================
