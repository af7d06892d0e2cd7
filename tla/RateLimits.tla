-------------------------------- MODULE RateLimits --------------------------------
(***************************************************************************)
(* The limit on registrations and lookups of members: the middleware asks how  *)
(* many requests an address made in the window, and records its own when the    *)
(* answer allows it.  Redis keeps the requests with their times (a window that  *)
(* slides), the fallback in the process one count that starts anew when its     *)
(* time is over; which of the two is asked, and which records, depends on       *)
(* whether Redis answers just then.                                            *)
(***************************************************************************)
EXTENDS Integers, FiniteSets

CONSTANTS
    Visits,     \* requests of one address to one route that may be under way
    Limit,        \* maxRequests
    Window,       \* the window, in ticks of the clock
    MaxTime,      \* bound: ticks
    MaxFlips      \* bound: how often Redis is lost or found

ASSUME RateLimitsAssumption == Limit \in Nat \ {0} /\ Window \in Nat \ {0}
                               /\ MaxTime \in Nat /\ MaxFlips \in Nat
                               /\ IsFiniteSet(Visits)

VARIABLES
    clock,        \* the time
    sorted,       \* the sorted set in Redis: a member for each request, with its time, the
                  \* store that was asked and a number that tells it from the others
    memory,       \* the count in the process, of whom, and when it is over
    reachable,    \* Redis answers
    request,      \* the requests: where they stand, and the store they asked
    flips         \* how often Redis was lost or found

limitVars == <<clock, sorted, memory, reachable, request, flips>>

LimitStores == {"redis", "memory"}
Nobody == [s \in LimitStores |-> 0]
NoCount == [is |-> "none"]
Waiting == [at |-> "none"]

LimitTypeOK ==
    /\ clock \in 0..MaxTime /\ reachable \in BOOLEAN /\ flips \in 0..MaxFlips
    /\ sorted \subseteq [time: 0..MaxTime, asked: LimitStores, nth: Nat]
    /\ memory \in {NoCount} \cup [is: {"count"}, by: [LimitStores -> Nat], until: Nat]
    /\ request \in [Visits -> {Waiting} \cup [at: {"record"}, asked: LimitStores]]

LimitInit ==
    /\ clock = 0 /\ sorted = {} /\ memory = NoCount /\ flips = 0
    /\ reachable \in BOOLEAN /\ request = [q \in Visits |-> Waiting]

-----------------------------------------------------------------------------
Both(by) == by["redis"] + by["memory"]

\* zremrangebyscore(key, 0, windowStart): the times after it stay.
InWindow(t) == t > clock - Window

\* The requests of the window in Redis, those that asked the given stores.
InRedis(stores) == Cardinality({e \in sorted : InWindow(e.time) /\ e.asked \in stores})

\* getRateLimitCount: nothing when its time is over.
CountGoesOn == memory # NoCount /\ memory.until > clock
InMemory == IF CountGoesOn THEN Both(memory.by) ELSE 0

Allows(count) == count < Limit

\* checkRateLimit; a refused request is answered 429.
Ask(q, store) ==
    /\ request[q] = Waiting
    /\ (store = "redis") = reachable
    /\ Allows(IF store = "redis" THEN InRedis(LimitStores) ELSE InMemory)
    /\ request' = [request EXCEPT ![q] = [at |-> "record", asked |-> store]]
    /\ UNCHANGED <<clock, sorted, memory, reachable, flips>>

\* The members are told apart by a random number.
NextMember(asked) == Cardinality({e \in sorted : e.time = clock /\ e.asked = asked})

\* recordRateLimitRequest, and on to the handler.
Record(q) ==
    /\ request[q].at = "record"
    /\ request' = [request EXCEPT ![q] = Waiting]
    /\ IF reachable
       THEN /\ sorted' = sorted \cup {[time |-> clock, asked |-> request[q].asked,
                                        nth |-> NextMember(request[q].asked)]}
            /\ UNCHANGED memory
       ELSE /\ memory' = IF CountGoesOn
                         THEN [memory EXCEPT !.by[request[q].asked] = @ + 1]
                         ELSE [is |-> "count", until |-> clock + Window + 1,
                               by |-> [Nobody EXCEPT ![request[q].asked] = 1]]
            /\ UNCHANGED sorted
    /\ UNCHANGED <<clock, reachable, flips>>

\* Redis is lost and found; an answer that fails half way is asked of the fallback.
RedisFlips ==
    /\ reachable' = ~reachable /\ flips < MaxFlips /\ flips' = flips + 1
    /\ UNCHANGED <<clock, sorted, memory, request>>

\* Nobody asks for the requests that have left the window.
Tick ==
    /\ clock < MaxTime /\ clock' = clock + 1
    /\ sorted' = {e \in sorted : e.time > clock' - Window}
    /\ UNCHANGED <<memory, reachable, request, flips>>

LimitNext ==
    \/ \E q \in Visits : Record(q) \/ \E store \in LimitStores : Ask(q, store)
    \/ RedisFlips \/ Tick

LimitSpec == LimitInit /\ [][LimitNext]_limitVars

-----------------------------------------------------------------------------
(* Properties *)

\* Asking and recording are two steps, so more than the limit may pass, but never
\* more than the requests that can stand between the two: of those that asked a
\* store and were recorded in it, each store counts at most so many at a time.
PassedIsBounded ==
    LET most == Limit + Cardinality(Visits) - 1
    IN  /\ InRedis({"redis"}) <= most
        /\ CountGoesOn => memory.by["memory"] <= most
=============================================================================
