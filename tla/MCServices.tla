----------------------------- MODULE MCServices -----------------------------
(***************************************************************************)
(* The services around the trading core side by side: the log and its      *)
(* checkpoint daemon, the shutdown, the rate limiter, the order book and   *)
(* the failover.  They share no state, so a step of one changes nothing    *)
(* another sees, and exploring one of them at a time loses no behaviour:   *)
(* subject says which.                                                     *)
(***************************************************************************)
EXTENDS WriteAheadLog, RateLimiter

CONSTANTS None
CONSTANTS Tasks, ChannelSize, MaxRequests, MaxTicks
CONSTANTS Askers, Executors, Workers
CONSTANTS Prices, Quantities, MaxDepth, MaxUpdates
CONSTANTS Threads, Ids, Zero, FailureThreshold, RecoveryThreshold, MaxCount

VARIABLES running, receiver, channel, checkpoints, loop, task, accepted,
          requests, ticks
VARIABLES requested, phase, reason, active, error, handlers, asker, worker
VARIABLES updates, books, book, lastUpdate, initialized, bookState, gapless,
          depth
VARIABLES registered, withBackup, state, venue, failures, successes, emergency,
          failureLock, successLock, job
VARIABLE subject

Daemon   == INSTANCE CheckpointDaemon WITH pc <- task
Shutdown == INSTANCE GracefulShutdown
              WITH pc <- asker, Callers <- Askers, NoReason <- None
Depth    == INSTANCE OrderBook
Failover == INSTANCE FailoverStateMachine

ASSUME DaemonParameters == Daemon!ParametersOK
ASSUME ShutdownParameters == Shutdown!ParametersOK
ASSUME LimiterParameters == ParametersOK
ASSUME DepthParameters == Depth!ParametersOK
ASSUME FailoverParameters == Failover!ParametersOK

walVars == vars
daemonVars == <<running, receiver, channel, checkpoints, loop, task, accepted,
                requests, ticks>>
shutdownVars == <<requested, phase, reason, active, error, handlers, asker,
                  worker>>
depthVars == <<updates, books, book, lastUpdate, initialized, bookState,
               gapless, depth>>
failoverVars == <<registered, withBackup, state, venue, failures, successes,
                  emergency, failureLock, successLock, job>>

InitAll ==
  /\ subject \in {"wal", "daemon", "shutdown", "limiter", "depth", "failover"}
  /\ Init /\ Daemon!Init /\ Shutdown!Init
  /\ InitLimiter /\ Depth!Init /\ Failover!Init

NextAll ==
  /\ UNCHANGED subject
  /\ \/ /\ subject = "wal" /\ Next
        /\ UNCHANGED <<daemonVars, shutdownVars, limiterVars, depthVars,
                       failoverVars>>
     \/ /\ subject = "daemon" /\ Daemon!Next
        /\ UNCHANGED <<walVars, shutdownVars, limiterVars, depthVars,
                       failoverVars>>
     \/ /\ subject = "shutdown" /\ Shutdown!Next
        /\ UNCHANGED <<walVars, daemonVars, limiterVars, depthVars,
                       failoverVars>>
     \/ /\ subject = "limiter" /\ NextLimiter
        /\ UNCHANGED <<walVars, daemonVars, shutdownVars, depthVars,
                       failoverVars>>
     \/ /\ subject = "depth" /\ Depth!Next
        /\ UNCHANGED <<walVars, daemonVars, shutdownVars, limiterVars,
                       failoverVars>>
     \/ /\ subject = "failover" /\ Failover!Next
        /\ UNCHANGED <<walVars, daemonVars, shutdownVars, limiterVars,
                       depthVars>>

SpecAll ==
  /\ InitAll
  /\ [][NextAll]_<<subject, walVars, daemonVars, shutdownVars, limiterVars,
                   depthVars, failoverVars>>
  /\ subject = "failover" => Failover!Fairness

\* The type of each variable of the six components.
TypesOK ==
  /\ TypeOK /\ Daemon!TypeOK /\ Shutdown!TypeOK
  /\ TypeOKLimiter /\ Depth!TypeOK /\ Failover!TypeOK

\* CheckpointDaemon: what was asked for before a stop is counted, once.
AcceptedIsMade == Daemon!AcceptedIsMade

\* GracefulShutdown: no worker that was there is overlooked.
CleanupWaitsForWorkers == Shutdown!CleanupWaitsForWorkers

\* OrderBook: as far as no update was missed, the book is the exchange's.
BookIsTheExchanges == Depth!BookIsTheExchanges

\* FailoverStateMachine: nothing but the order of two locks blocks an event.
EventsReturnOrEmbrace == Failover!EventsReturnOrEmbrace
=============================================================================
