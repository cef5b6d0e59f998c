----------------------------- MODULE RateLimit -----------------------------
(***************************************************************************)
(* RateLimitService (apps/ingestor, apps/gateway): a counter per user and  *)
(* window. The counter is in Redis, where one Lua script reads, compares   *)
(* and increments it, or, while the service has no Redis connection, in    *)
(* the memory of each instance.                                            *)
(*                                                                         *)
(* The two services count alike; what a refused client is told is the      *)
(* ingestor's. Time is what is left of a window: ttl counts down as PTTL   *)
(* does. A counter in memory above max is as good as one at max, so it     *)
(* stops there.                                                            *)
(***************************************************************************)
EXTENDS Clock

CONSTANTS
  Instance,     \* instances of the service
  max,          \* rateLimitMax
  windowMs      \* rateLimitWindowMs, in ticks of the clock

ASSUME RateLimitAssumption ==
  /\ "redis" \notin Instance
  /\ max \in Nat \ {0}
  /\ windowMs \in Nat \ {0}

VARIABLES
  redisEnabled, \* whether the instances have a Redis connection
  count,        \* the counter of each store
  ttl,          \* what is left of its window
  granted       \* history: requests let through in that window

limitVars == <<redisEnabled, count, ttl, granted>>

Store == Instance \union {"redis"}

\* The store an instance counts in.
StoreOf(i) == IF redisEnabled THEN "redis" ELSE i

RateLimitTypeOK ==
  /\ redisEnabled \in BOOLEAN
  /\ count \in [Store -> 0 .. max]
  /\ ttl \in [Store -> 0 .. windowMs]
  /\ granted \in [Store -> Nat]

RateLimitInit ==
  /\ redisEnabled \in BOOLEAN
  /\ count = [s \in Store |-> 0]
  /\ ttl = [s \in Store |-> 0]
  /\ granted = [s \in Store |-> 0]

\* What the counter of a store is worth: Redis keeps a key up to and including
\* the last millisecond of its life, the memory of an instance does not.
Current(s) == IF ttl[s] = 0 /\ s # "redis" THEN 0 ELSE count[s]

Exceeded(s) == Current(s) >= max

\* Mutant of RetryAfter: rounded down.
RetryAfterFloor(s) == (IF ttl[s] > 0 THEN ttl[s] ELSE windowMs) \div Second

\* Seconds a rejected client is told to wait: ceil((reset - now) / 1000), where
\* reset is a whole window away when PTTL has nothing left to report.
RetryAfter(s) ==
  CeilSeconds(IF ttl[s] > 0 THEN ttl[s] ELSE windowMs)

\* A request is counted and let through; the first one opens a window.
Grant(s) ==
  /\ ~Exceeded(s)
  /\ count' = [count EXCEPT ![s] = IF Current(s) < max THEN Current(s) + 1 ELSE max]
  /\ IF Current(s) = 0
       THEN /\ ttl' = [ttl EXCEPT ![s] = windowMs]
            /\ granted' = [granted EXCEPT ![s] = 1]
       ELSE /\ granted' = [granted EXCEPT ![s] = @ + 1]
            /\ UNCHANGED ttl
  /\ UNCHANGED redisEnabled

\* A request is refused.
Reject(s) ==
  /\ Exceeded(s)
  /\ UNCHANGED limitVars

\* Time passes: windows run out, and Redis drops a key that has.
WindowsTick ==
  /\ ttl' = [s \in Store |-> IF ttl[s] > 0 THEN ttl[s] - 1 ELSE 0]
  /\ count' = [s \in Store |-> IF s = "redis" /\ ttl[s] = 0 THEN 0 ELSE count[s]]
  /\ UNCHANGED <<redisEnabled, granted>>

\* No window lets through more than max requests, however many instances
\* count in the same store (checkRateLimit).
GrantedPerWindow == \A s \in Store : granted[s] <= max

=============================================================================
