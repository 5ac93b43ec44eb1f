------------------------------ MODULE RateLimiter ------------------------------
(***************************************************************************)
(* exchanges/rate_limiter.py: BinanceRateLimiter over one of its token     *)
(* buckets (they share nothing, and a call uses one).  Consuming tokens is *)
(* one holding of the bucket's lock, refilling by the time elapsed         *)
(* included; between attempts a call sleeps.                               *)
(*                                                                         *)
(* Time is counted in steps that refill Rate tokens each, and tokens are   *)
(* whole; a clock set back is left out.                                    *)
(***************************************************************************)
EXTENDS Integers

CONSTANTS
  Callers,
  MaxTokens,    \* max_tokens
  Rate,         \* refill_rate
  Weights,      \* weights of requests
  MaxRetries,   \* max_retries of acquire_with_backoff
  Timeouts,     \* timeouts of calls, not counting None
  Horizon       \* bound on the clock

ParametersOK ==
  /\ MaxTokens \in Nat /\ Rate \in Nat \ {0} /\ Horizon \in Nat
  /\ Weights \subseteq Nat /\ Timeouts \subseteq Nat /\ MaxRetries \in Nat

VARIABLES
  time,        \* time.time()
  tokens,      \* TokenBucket.tokens
  lastRefill,  \* TokenBucket.last_refill
  call,        \* what each caller is doing
  total,       \* auxiliary: tokens granted so far
  before       \* auxiliary: tokens granted before each time

bucketVars == <<tokens, lastRefill, total>>
limiterVars == <<time, bucketVars, call, before>>

Never == Horizon + 1   \* the deadline of a call without a timeout

Idle == [at |-> "idle", need |-> 0, deadline |-> Never, until |-> 0,
         attempt |-> 0]

InitLimiter ==
  /\ time = 0 /\ tokens = MaxTokens /\ lastRefill = 0
  /\ call = [c \in Callers |-> Idle]
  /\ total = 0
  /\ before = [t \in 0 .. Horizon |-> 0]

-----------------------------------------------------------------------------
Smaller(a, b) == IF a < b THEN a ELSE b

\* Mutant: the cap on the bucket is missing.
RefilledUncapped == tokens + (time - lastRefill) * Rate

\* _refill
Refilled == Smaller(MaxTokens, tokens + (time - lastRefill) * Rate)

\* consume returns True.
Consume(n) ==
  /\ Refilled >= n
  /\ tokens' = Refilled - n
  /\ lastRefill' = time
  /\ total' = total + n

\* consume returns False, and has refilled the bucket.
Refuse(n) ==
  /\ Refilled < n
  /\ tokens' = Refilled
  /\ lastRefill' = time
  /\ UNCHANGED total

\* time_until_tokens, rounded up to whole steps, and no later than the deadline.
WakeTime(n, deadline) ==
  Smaller(deadline, time + (n - Refilled + Rate - 1) \div Rate)

BeginAcquire(c, n, deadline) ==
  /\ call[c].at = "idle"
  /\ call' = [call EXCEPT ![c] =
                [Idle EXCEPT !.at = "acquire", !.need = n,
                             !.deadline = deadline]]
  /\ UNCHANGED <<time, bucketVars, before>>

BeginBackoff(c, n) ==
  /\ call[c].at = "idle"
  /\ call' = [call EXCEPT ![c] = [Idle EXCEPT !.at = "backoff", !.need = n]]
  /\ UNCHANGED <<time, bucketVars, before>>

\* acquire, acquire_with_backoff or try_acquire gets its tokens.
Succeed(c) ==
  /\ call[c].at # "idle" /\ time >= call[c].until
  /\ call[c].at = "backoff" => call[c].attempt < MaxRetries
  /\ Consume(call[c].need)
  /\ call' = [call EXCEPT ![c] = Idle]
  /\ UNCHANGED <<time, before>>

\* acquire does not, and there is time left: it sleeps.
SleepForTokens(c) ==
  /\ call[c].at = "acquire" /\ time >= call[c].until
  /\ Refuse(call[c].need)
  /\ time < call[c].deadline
  /\ call' = [call EXCEPT ![c].until =
                WakeTime(call[c].need, call[c].deadline)]
  /\ UNCHANGED <<time, before>>

\* acquire returns False.
TimeOut(c) ==
  /\ call[c].at = "acquire" /\ time >= call[c].until
  /\ Refuse(call[c].need)
  /\ time >= call[c].deadline
  /\ call' = [call EXCEPT ![c] = Idle]
  /\ UNCHANGED <<time, before>>

\* acquire_with_backoff fails an attempt and sleeps, after the last one too.
BackOff(c) ==
  /\ call[c].at = "backoff" /\ time >= call[c].until
  /\ call[c].attempt < MaxRetries
  /\ Refuse(call[c].need)
  /\ call' = [call EXCEPT ![c].until = time + 2 ^ call[c].attempt,
                          ![c].attempt = @ + 1]
  /\ UNCHANGED <<time, before>>

GiveUp(c) ==
  /\ call[c].at = "backoff" /\ time >= call[c].until
  /\ call[c].attempt = MaxRetries
  /\ call' = [call EXCEPT ![c] = Idle]
  /\ UNCHANGED <<time, bucketVars, before>>

Elapse ==
  /\ time < Horizon
  /\ time' = time + 1
  /\ before' = [before EXCEPT ![time'] = total]
  /\ UNCHANGED <<bucketVars, call>>

-----------------------------------------------------------------------------
Step(c) ==
  \/ \E n \in Weights :
       \/ BeginBackoff(c, n)
       \/ BeginAcquire(c, n, Never)
       \/ \E d \in Timeouts : BeginAcquire(c, n, time + d)
  \/ Succeed(c) \/ SleepForTokens(c) \/ TimeOut(c) \/ BackOff(c) \/ GiveUp(c)

NextLimiter == Elapse \/ \E c \in Callers : Step(c)

SpecLimiter == InitLimiter /\ [][NextLimiter]_limiterVars

-----------------------------------------------------------------------------
\* The type of each variable.
TypeOKLimiter ==
  /\ time \in 0 .. Horizon /\ lastRefill \in 0 .. time
  /\ tokens \in 0 .. MaxTokens
  /\ call \in [Callers -> [at : {"idle", "acquire", "backoff"},
                           need : Weights \cup {0}, deadline : Nat,
                           until : Nat, attempt : 0 .. MaxRetries]]
  /\ total \in Nat
  /\ before \in [0 .. Horizon -> Nat]

\* The most a token bucket lets through in any stretch of time, whoever calls
\* and whenever: a full bucket and what is refilled meanwhile.
BurstBounded ==
  \A s \in 0 .. time : total - before[s] <= MaxTokens + Rate * (time - s)

=============================================================================
