---------------------------- MODULE MessageBroker ----------------------------
(***************************************************************************)
(* events/message_broker.py: MessageBroker and its DeadLetterQueue on one  *)
(* event loop, for one message type.  A coroutine runs up to an await that *)
(* suspends: a put into the full queue, a get from the empty one, and the  *)
(* call of a Ray actor after each callback.  The two asyncio locks are     *)
(* never held across such an await.                                        *)
(*                                                                         *)
(* _process_loop looks at _running before each get and not during it.  The *)
(* list of subscribers it goes through is the live one: subscribe appends  *)
(* to it, unsubscribe puts another in its place.  Subscription.is_active is *)
(* never cleared.  A filter decides by what the model leaves out: it may   *)
(* let any message pass, decline it, or raise.                             *)
(***************************************************************************)
EXTENDS Integers, Sequences, SequencesExt

CONSTANTS
  Messages,
  Subscribers,    \* subscriber ids
  Filtering,      \* those that subscribe with a filter_fn
  Loops,          \* tasks running _process_loop, one for each start
  QueueSize,      \* maxsize of _pending_messages
  MaxDead,        \* _max_size of the dead-letter queue
  MaxJoins,       \* bound on the subscriptions made
  NoMessage

ParametersOK ==
  /\ QueueSize \in Nat \ {0} /\ MaxDead \in Nat \ {0} /\ MaxJoins \in Nat
  /\ NoMessage \notin Messages

VARIABLES
  running,      \* _running
  publishing,   \* what has become of publish for each message
  queue,        \* _pending_messages
  subscribers,  \* _subscribers[message_type], by subscriber id
  joins,        \* number of subscriptions made
  loop,         \* what each loop is doing
  dead,         \* DeadLetterQueue._queue
  received,     \* messages each subscriber's callback took, in order
  failed,       \* auxiliary: deliveries whose callback raised
  declined,     \* auxiliary: deliveries a filter declined
  raised,       \* auxiliary: deliveries whose filter raised
  owed          \* auxiliary: who was subscribed when a message was taken

registryVars == <<running, subscribers, joins>>
brokerVars == <<registryVars, loop>>
messageVars == <<publishing, queue>>
resultVars == <<failed, declined, raised>>
outcomeVars == <<dead, received, resultVars, owed>>
vars == <<brokerVars, messageVars, outcomeVars>>

Resting(place) ==
  [at |-> place, message |-> NoMessage, list |-> <<>>, next |-> 1,
   live |-> FALSE]

Init ==
  /\ running = FALSE
  /\ publishing = [m \in Messages |-> "new"]
  /\ queue = <<>>
  /\ subscribers = <<>> /\ joins = 0
  /\ loop = [l \in Loops |-> Resting("none")]
  /\ dead = <<>>
  /\ received = [s \in Subscribers |-> <<>>]
  /\ failed = {} /\ declined = {} /\ raised = {}
  /\ owed = [m \in Messages |-> {}]

-----------------------------------------------------------------------------
Start(l) ==
  /\ ~running
  /\ loop[l].at = "none"
  /\ running' = TRUE
  /\ loop' = [loop EXCEPT ![l] = Resting("waiting")]
  /\ UNCHANGED <<subscribers, joins, messageVars, outcomeVars>>

Stop ==
  /\ running
  /\ running' = FALSE
  /\ UNCHANGED <<subscribers, joins, loop, messageVars, outcomeVars>>

\* DeadLetterQueue.add
Bury(m) ==
  LET all == Append(dead, m)
  IN  IF Len(all) > MaxDead THEN Tail(all) ELSE all

\* publish of a message that has expired.
PublishExpired(m) ==
  /\ publishing[m] = "new"
  /\ publishing' = [publishing EXCEPT ![m] = "rejected"]
  /\ dead' = Bury(m)
  /\ UNCHANGED <<brokerVars, queue, received, resultVars, owed>>

\* publish awaits put; it never raises QueueFull.
BeginPublish(m) ==
  /\ publishing[m] = "new"
  /\ publishing' = [publishing EXCEPT ![m] = "putting"]
  /\ UNCHANGED <<brokerVars, queue, outcomeVars>>

Put(m) ==
  /\ publishing[m] = "putting" /\ Len(queue) < QueueSize
  /\ publishing' = [publishing EXCEPT ![m] = "accepted"]
  /\ queue' = Append(queue, m)
  /\ UNCHANGED <<brokerVars, outcomeVars>>

\* subscribe, also with an id that is subscribed already.
Subscribe(s) ==
  /\ joins < MaxJoins /\ joins' = joins + 1
  /\ subscribers' = Append(subscribers, s)
  /\ loop' = [l \in Loops |->
                IF loop[l].live THEN [loop[l] EXCEPT !.list = Append(@, s)]
                ELSE loop[l]]
  /\ UNCHANGED <<running, messageVars, outcomeVars>>

\* The list without the entries of s, in order.
Without(list, s) ==
  LET kept[i \in 0 .. Len(list)] ==
        IF i = 0 THEN <<>>
        ELSE IF list[i] = s THEN kept[i - 1] ELSE Append(kept[i - 1], list[i])
  IN  kept[Len(list)]

\* Mutant: the subscriber is removed from the list in place.
UnsubscribeInPlace(s) ==
  /\ s \in ToSet(subscribers)
  /\ subscribers' = Without(subscribers, s)
  /\ loop' = [l \in Loops |->
                IF loop[l].live THEN [loop[l] EXCEPT !.list = Without(@, s)]
                ELSE loop[l]]
  /\ UNCHANGED <<running, joins, messageVars, outcomeVars>>

Unsubscribe(s) ==
  /\ s \in ToSet(subscribers)
  /\ subscribers' = Without(subscribers, s)
  /\ loop' = [l \in Loops |-> [loop[l] EXCEPT !.live = FALSE]]
  /\ UNCHANGED <<running, joins, messageVars, outcomeVars>>

-----------------------------------------------------------------------------
(* _process_loop                                                           *)

Take(l) ==
  /\ loop[l].at = "waiting" /\ queue # <<>>
  /\ queue' = Tail(queue)
  /\ loop' = [loop EXCEPT ![l] =
                [at |-> "routing", message |-> Head(queue),
                 list |-> subscribers, next |-> 1, live |-> TRUE]]
  /\ owed' = [owed EXCEPT ![Head(queue)] = ToSet(subscribers)]
  /\ UNCHANGED <<registryVars, publishing, dead, received, resultVars>>

HasNext(l) == loop[l].at = "routing" /\ loop[l].next <= Len(loop[l].list)

\* The delivery a loop is at.
Delivery(l) == <<loop[l].message, loop[l].list[loop[l].next]>>

\* There is no filter or it lets the message pass, and the callback takes it;
\* the loop goes on to await the actor.
Deliver(l) ==
  /\ HasNext(l)
  /\ loop' = [loop EXCEPT ![l].next = @ + 1]
  /\ received' = [received EXCEPT ![loop[l].list[loop[l].next]] =
                    Append(@, loop[l].message)]
  /\ UNCHANGED <<registryVars, messageVars, dead, resultVars, owed>>

\* The filter lets the message pass and the callback raises.
FailDelivery(l) ==
  /\ HasNext(l)
  /\ loop' = [loop EXCEPT ![l].next = @ + 1]
  /\ failed' = failed \cup {Delivery(l)}
  /\ dead' = Bury(loop[l].message)
  /\ UNCHANGED <<registryVars, messageVars, received, declined, raised, owed>>

\* The next subscriber, who has a filter.
Filters(l) == HasNext(l) /\ loop[l].list[loop[l].next] \in Filtering

\* The filter declines the message.
Decline(l) ==
  /\ Filters(l)
  /\ loop' = [loop EXCEPT ![l].next = @ + 1]
  /\ declined' = declined \cup {Delivery(l)}
  /\ UNCHANGED <<registryVars, messageVars, dead, received, failed, raised,
                 owed>>

\* The loop looks at _running.
LookAgain == Resting(IF running THEN "waiting" ELSE "ended")

\* The filter raises.  It is called outside the try of _route_message: the
\* exception ends the routing and is caught in _process_loop, which goes on
\* with the next message.
FilterRaises(l) ==
  /\ Filters(l)
  /\ loop' = [loop EXCEPT ![l] = LookAgain]
  /\ raised' = raised \cup {Delivery(l)}
  /\ UNCHANGED <<registryVars, messageVars, dead, received, failed, declined,
                 owed>>

\* The message is routed.
FinishRoute(l) ==
  /\ loop[l].at = "routing" /\ ~HasNext(l)
  /\ loop' = [loop EXCEPT ![l] = LookAgain]
  /\ UNCHANGED <<registryVars, messageVars, outcomeVars>>

\* get times out, and the broker has been stopped.
EndLoop(l) ==
  /\ loop[l].at = "waiting" /\ ~running
  /\ loop' = [loop EXCEPT ![l] = Resting("ended")]
  /\ UNCHANGED <<registryVars, messageVars, outcomeVars>>

-----------------------------------------------------------------------------
Process(l) ==
  \/ Take(l) \/ FinishRoute(l)
  \/ Deliver(l) \/ FailDelivery(l) \/ Decline(l) \/ FilterRaises(l)

Next ==
  \/ Stop
  \/ \E m \in Messages : PublishExpired(m) \/ BeginPublish(m) \/ Put(m)
  \/ \E s \in Subscribers : Subscribe(s) \/ Unsubscribe(s)
  \/ \E l \in Loops : Start(l) \/ EndLoop(l) \/ Process(l)

Spec == Init /\ [][Next]_vars

-----------------------------------------------------------------------------
\* The type of each variable.
TypeOK ==
  /\ running \in BOOLEAN
  /\ publishing \in [Messages -> {"new", "putting", "accepted", "rejected"}]
  /\ queue \in Seq(Messages) /\ Len(queue) <= QueueSize
  /\ subscribers \in Seq(Subscribers) /\ joins \in 0 .. MaxJoins
  /\ \A l \in Loops :
       /\ loop[l].at \in {"none", "waiting", "routing", "ended"}
       /\ loop[l].next \in 1 .. Len(loop[l].list) + 1
       /\ loop[l].live => loop[l].list = subscribers
  /\ dead \in Seq(Messages) /\ Len(dead) <= MaxDead
  /\ received \in [Subscribers -> Seq(Messages)]

\* Whoever was subscribed when a message was taken has it, has failed on it or
\* has declined it when the loop is done with it, whoever else subscribes,
\* unsubscribes or fails while the loop waits for an actor.  Only a filter that
\* raised on this message, somebody's, cuts the others short.
NobodyIsSkipped ==
  \A m \in Messages :
    /\ publishing[m] = "accepted" /\ m \notin ToSet(queue)
    /\ \A l \in Loops : loop[l].message # m
    => \A s \in owed[m] :
         \/ m \in ToSet(received[s]) \/ <<m, s>> \in failed \cup declined
         \/ \E t \in Subscribers : <<m, t>> \in raised

=============================================================================
