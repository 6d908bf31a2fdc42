----------------------------- MODULE RateLimit -----------------------------
(***************************************************************************)
(* The distributed rate limiter, for the requests of one client.  Every    *)
(* API process counts in Redis under the same key: one round trip          *)
(* increments the counter, and the request that finds it at 1 gives the    *)
(* key its time to live in a second one.  When Redis is away before the    *)
(* first, or fails at the second, the limiter in the memory of the process *)
(* decides instead; a pipeline that fails throws nothing, its results are  *)
(* errors, and the request passes as if it had counted 0.  Redis is left   *)
(* as it is in either case: possibly with a counter that never expires.    *)
(***************************************************************************)
EXTENDS Naturals, FiniteSets

CONSTANTS
    Arrivals,       \* requests of the client that may be in the limiter at once
    Limit,          \* max
    MaxLosses       \* bound: restarts of Redis

ASSUME RateLimitAssumption ==
    IsFiniteSet(Arrivals) /\ Limit \in Nat \ {0} /\ MaxLosses \in Nat

VARIABLES
    hits,          \* the counter in Redis, 0 for no key; beyond Limit + 1 it counts no further
    ticking,       \* whether the key has a time to live
    reachable,     \* whether Redis answers
    arrival,       \* where each request stands
    losses,        \* how often Redis lost the key
    orphaned       \* history: the time to live of the current key is not coming

rlVars == <<hits, ticking, reachable, arrival, losses, orphaned>>

RLTypeOK ==
    /\ hits \in 0 .. Limit + 1
    /\ ticking \in BOOLEAN
    /\ reachable \in BOOLEAN
    /\ arrival \in [Arrivals -> {"outside", "count", "expire"}]
    /\ losses \in 0 .. MaxLosses
    /\ orphaned \in BOOLEAN

RLInit ==
    /\ hits = 0
    /\ ticking = FALSE
    /\ reachable = TRUE
    /\ arrival = [a \in Arrivals |-> "outside"]
    /\ losses = 0
    /\ orphaned = FALSE

-----------------------------------------------------------------------------
Move(a, step) == arrival' = [arrival EXCEPT ![a] = step]

\* The time to live of the key is on its way, carried by another request than a.
AnotherExpires(a) == \E b \in Arrivals \ {a} : arrival[b] = "expire"

\* The limiter is entered; without Redis it is left at once.
Arrive(a) ==
    /\ arrival[a] = "outside"
    /\ reachable
    /\ Move(a, "count")
    /\ UNCHANGED <<hits, ticking, reachable, losses, orphaned>>

\* The counter after an INCR.
Incremented == IF hits <= Limit THEN hits + 1 ELSE hits

\* Mutant: the time to live waits for the second request.
StartsWindowLate(current) == current = 2

\* The first request of a window sets its time to live.
StartsWindow(current) == current = 1

\* INCR and PTTL, in one pipeline.  The first request of a window goes on to
\* PEXPIRE; another is let through, or refused beyond the limit.
Count(a) ==
    /\ arrival[a] = "count"
    /\ reachable
    /\ hits' = Incremented
    /\ Move(a, IF StartsWindow(Incremented) THEN "expire" ELSE "outside")
    /\ UNCHANGED <<ticking, reachable, losses, orphaned>>

\* PEXPIRE, on whatever key there is by now.
SetExpiry(a) ==
    /\ arrival[a] = "expire"
    /\ reachable
    /\ ticking' = (hits # 0)
    /\ orphaned' = FALSE
    /\ Move(a, "outside")
    /\ UNCHANGED <<hits, reachable, losses>>

\* A round trip fails before the command was executed: the request passes, by
\* the count of 0 or by the limiter in memory, which nothing here depends on.
FallBack(a) ==
    /\ arrival[a] # "outside"
    /\ orphaned' = (\/ orphaned
                    \/ arrival[a] = "expire" /\ hits # 0 /\ ~ticking /\ ~AnotherExpires(a))
    /\ Move(a, "outside")
    /\ UNCHANGED <<hits, ticking, reachable, losses>>

\* The INCR was executed and its answer was lost: the request that opened the
\* window counts 0, and does not know that it did.
LoseCount(a) ==
    /\ arrival[a] = "count"
    /\ reachable
    /\ hits' = Incremented
    /\ orphaned' = (orphaned \/ (hits = 0 /\ ~AnotherExpires(a)))
    /\ reachable' = FALSE
    /\ Move(a, "outside")
    /\ UNCHANGED <<ticking, losses>>

Forget == hits' = 0 /\ ticking' = FALSE /\ orphaned' = FALSE /\ UNCHANGED arrival

\* The key expires.
KeyExpires ==
    /\ ticking
    /\ Forget
    /\ UNCHANGED <<reachable, losses>>

\* Redis restarts without the key.
RedisLosesKey ==
    /\ hits # 0
    /\ losses < MaxLosses
    /\ Forget
    /\ losses' = losses + 1
    /\ UNCHANGED reachable

ConnectionChanges ==
    /\ reachable' = ~reachable
    /\ UNCHANGED <<hits, ticking, arrival, losses, orphaned>>

RLNext ==
    \/ KeyExpires
    \/ RedisLosesKey
    \/ ConnectionChanges
    \/ \E a \in Arrivals : Arrive(a) \/ Count(a) \/ SetExpiry(a) \/ FallBack(a) \/ LoseCount(a)

RLSpec == RLInit /\ [][RLNext]_rlVars

-----------------------------------------------------------------------------
(* Properties *)

\* A counter without a time to live has a request that is about to set it, or
\* one that failed between INCR and PEXPIRE: there is no other way to a key
\* that stays for ever and refuses its client for ever.
NoImmortalKey ==
    hits # 0 /\ ~ticking => orphaned \/ \E a \in Arrivals : arrival[a] = "expire"

=============================================================================
