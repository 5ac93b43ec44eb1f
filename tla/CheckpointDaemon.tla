--------------------------- MODULE CheckpointDaemon ---------------------------
(***************************************************************************)
(* persistence/checkpoint_daemon.rs: CheckpointDaemon, its background task *)
(* and the tasks that start it, stop it and ask it for checkpoints.  The   *)
(* channel between them is tokio's bounded mpsc: a send waits for room and *)
(* fails once the receiver has been dropped.                               *)
(*                                                                         *)
(* A step ends where a task awaits or another may look at the running      *)
(* flag, except that create_checkpoint is one step: nothing else takes     *)
(* from the channel or counts while it awaits its locks.  It counts a      *)
(* checkpoint before it appends it to the log (WriteAheadLog), and the     *)
(* loop goes on when the append fails: what is made here is counted, and   *)
(* on disk only if the log did not fail.  The flush statistics are left    *)
(* out.                                                                    *)
(***************************************************************************)
EXTENDS Integers, Sequences, FiniteSets

CONSTANTS
  Tasks,          \* tasks that call the daemon's methods
  ChannelSize,    \* 100
  MaxRequests,    \* bound on the requests sent
  MaxTicks        \* bound on the scheduled checkpoints

ParametersOK ==
  ChannelSize \in Nat \ {0} /\ MaxRequests \in Nat /\ MaxTicks \in Nat

VARIABLES
  running,      \* running
  receiver,     \* checkpoint_rx: at "home", with the "loop" or "dropped"
  channel,      \* the requests under way
  checkpoints,  \* checkpoint_counter: checkpoints begun, written or not
  loop,         \* where the spawned task is
  pc,           \* where each caller is
  accepted,     \* Immediate requests sent before the first Shutdown
  requests,     \* requests sent
  ticks         \* times the interval timer fired, at once at the first

loopVars == <<receiver, checkpoints, loop, ticks>>
countVars == <<accepted, requests>>
daemonVars == <<running, loopVars, channel, pc, countVars>>

Request == {"Immediate", "FlushWAL", "Shutdown"}

Contains(s, m) == \E i \in 1 .. Len(s) : s[i] = m

Init ==
  /\ running = FALSE /\ receiver = "home" /\ channel = <<>>
  /\ checkpoints = 0 /\ loop = "unborn"
  /\ pc = [t \in Tasks |-> "idle"]
  /\ accepted = 0 /\ requests = 0 /\ ticks = 0

Go(t, place) == pc' = [pc EXCEPT ![t] = place]

-----------------------------------------------------------------------------
(* start                                                                   *)

\* The daemon is not running; otherwise start changes nothing.
Start(t) ==
  /\ pc[t] = "idle" /\ ~running
  /\ Go(t, "storing")
  /\ UNCHANGED <<running, loopVars, channel, countVars>>

StoreRunning(t) ==
  /\ pc[t] = "storing"
  /\ running' = TRUE
  /\ Go(t, "taking")
  /\ UNCHANGED <<loopVars, channel, countVars>>

\* The receiver is taken and the task spawned,
Spawn(t) ==
  /\ pc[t] = "taking" /\ receiver = "home"
  /\ receiver' = "loop"
  /\ loop' = "selecting"
  /\ Go(t, "idle")
  /\ UNCHANGED <<running, channel, checkpoints, ticks, countVars>>

\* or "Checkpoint channel already consumed": running stays as it was stored.
AlreadyConsumed(t) ==
  /\ pc[t] = "taking" /\ receiver # "home"
  /\ Go(t, "idle")
  /\ UNCHANGED <<running, loopVars, channel, countVars>>

-----------------------------------------------------------------------------
(* The task's loop                                                         *)

\* interval_timer: a scheduled checkpoint.
Tick ==
  /\ loop = "selecting" /\ ticks < MaxTicks
  /\ checkpoints' = IF running THEN checkpoints + 1 ELSE checkpoints
  /\ ticks' = ticks + 1
  /\ UNCHANGED <<running, receiver, channel, loop, pc, countVars>>

\* Mutant: a checkpoint that cannot be written at once is dropped.
ReceiveLossy ==
  /\ loop = "selecting" /\ channel # <<>>
  /\ channel' = Tail(channel)
  /\ loop' = IF Head(channel) = "Shutdown" THEN "leaving" ELSE loop
  /\ checkpoints' = IF Head(channel) = "Immediate" /\ Len(channel) = 1
                    THEN checkpoints + 1 ELSE checkpoints
  /\ UNCHANGED <<running, receiver, ticks, pc, countVars>>

\* recv and the match on the request.
Receive ==
  /\ loop = "selecting" /\ channel # <<>>
  /\ channel' = Tail(channel)
  /\ loop' = IF Head(channel) = "Shutdown" THEN "leaving" ELSE loop
  /\ checkpoints' = IF Head(channel) = "Immediate" THEN checkpoints + 1
                    ELSE checkpoints
  /\ UNCHANGED <<running, receiver, ticks, pc, countVars>>

StoreStopped ==
  /\ loop = "leaving"
  /\ running' = FALSE
  /\ loop' = "dropping"
  /\ UNCHANGED <<receiver, channel, checkpoints, ticks, pc, countVars>>

\* The task ends and drops the receiver with what is left in the channel.
DropReceiver ==
  /\ loop = "dropping"
  /\ receiver' = "dropped"
  /\ channel' = <<>>
  /\ loop' = "ended"
  /\ UNCHANGED <<running, checkpoints, ticks, pc, countVars>>

-----------------------------------------------------------------------------
(* Requests and stop                                                       *)

Send(m) ==
  /\ receiver # "dropped" /\ Len(channel) < ChannelSize
  /\ requests < MaxRequests
  /\ channel' = Append(channel, m)
  /\ requests' = requests + 1

\* request_checkpoint, request_flush, also before start or after stop.
Ask(t, m) ==
  /\ pc[t] = "idle"
  /\ Send(m)
  /\ accepted' = IF /\ m = "Immediate" /\ ~Contains(channel, "Shutdown")
                    /\ loop \in {"unborn", "selecting"}
                 THEN accepted + 1 ELSE accepted
  /\ UNCHANGED <<running, loopVars, pc>>

\* stop finds the daemon running; otherwise it returns.
Stop(t) ==
  /\ pc[t] = "idle" /\ running
  /\ Go(t, "sending")
  /\ UNCHANGED <<running, loopVars, channel, countVars>>

SendShutdown(t) ==
  /\ pc[t] = "sending"
  /\ Send("Shutdown")
  /\ Go(t, "waiting")
  /\ UNCHANGED <<running, loopVars, accepted>>

SendFails(t) ==
  /\ pc[t] = "sending" /\ receiver = "dropped"
  /\ Go(t, "idle")
  /\ UNCHANGED <<running, loopVars, channel, countVars>>

\* stop returns when the flag is down or five seconds have passed.
Return(t, timedOut) ==
  /\ pc[t] = "waiting" /\ (timedOut \/ ~running)
  /\ Go(t, "idle")
  /\ UNCHANGED <<running, loopVars, channel, countVars>>

-----------------------------------------------------------------------------
Continue(t) ==
  \/ StoreRunning(t) \/ Spawn(t) \/ AlreadyConsumed(t)
  \/ SendShutdown(t) \/ SendFails(t)
  \/ \E timedOut \in BOOLEAN : Return(t, timedOut)

Leave == StoreStopped \/ DropReceiver

Next ==
  \/ \E t \in Tasks : \/ Start(t) \/ Stop(t) \/ Continue(t)
                      \/ \E m \in {"Immediate", "FlushWAL"} : Ask(t, m)
  \/ Tick \/ Receive \/ Leave

Spec == Init /\ [][Next]_daemonVars

-----------------------------------------------------------------------------
\* The type of each variable.
TypeOK ==
  /\ running \in BOOLEAN
  /\ receiver \in {"home", "loop", "dropped"}
  /\ channel \in Seq(Request) /\ Len(channel) <= ChannelSize
  /\ loop \in {"unborn", "selecting", "leaving", "dropping", "ended"}
  /\ pc \in [Tasks -> {"idle", "storing", "taking", "sending", "waiting"}]
  /\ checkpoints \in 0 .. MaxRequests + MaxTicks
  /\ accepted \in 0 .. MaxRequests /\ requests \in 0 .. MaxRequests
  /\ ticks \in 0 .. MaxTicks

\* An accepted request for a checkpoint is not lost by a stop that comes after
\* it: the loop ends with every one of them counted, once.
AcceptedIsMade ==
  loop \in {"leaving", "dropping", "ended"} => checkpoints = accepted + ticks

=============================================================================
