---------------------------- MODULE RateLimiter ----------------------------
(***************************************************************************)
(* RedisThrottlerStorage (src/common/throttler/redis-throttler.storage.ts) *)
(* behind CostumThrottlerGuard: every HTTP request is counted in Redis     *)
(* before its handler runs. Each command of increment is a step, so that   *)
(* requests of one client interleave, and the keys expire between steps.   *)
(*                                                                         *)
(* One tracker, one route and one named throttler: each such triple has    *)
(* its own pair of keys, and a request passes the named throttlers one     *)
(* after the other.                                                        *)
(***************************************************************************)
EXTENDS Naturals, FiniteSets

CONSTANTS
    Requests,   \* requests of one client that are under way together
    Limit,      \* "limit" of the throttler
    MaxFaults   \* bound on the crashes and failed calls of one behaviour

ASSUME LimiterAssumption ==
    /\ Limit \in Nat \ {0}
    /\ MaxFaults \in Nat

VARIABLES
    hits,      \* the ":hits" key, 0 when it is absent; Limit + 1 is "more than the limit"
    hitsTtl,   \* whether that key has a time to live
    blocked,   \* whether the ":block" key exists
    call,      \* call[r]: how far r has come in increment, and the count it was given
    faults     \* how many crashes and failed calls have happened

limiterVars == <<hits, hitsTtl, blocked, call, faults>>

Count == 0..(Limit + 1)
Stage == {"idle", "count", "expire", "decide", "admitted"}

(* counted: the count comes from the ":hits" key that exists now.           *)
Call == [stage: Stage, hits: Count, counted: BOOLEAN]

LimiterTypeOK ==
    /\ hits \in Count
    /\ hitsTtl \in BOOLEAN
    /\ blocked \in BOOLEAN
    /\ call \in [Requests -> Call]
    /\ faults \in 0..MaxFaults

At(stage) == [stage |-> stage, hits |-> 0, counted |-> FALSE]

LimiterInit ==
    /\ hits = 0
    /\ hitsTtl = FALSE
    /\ blocked = FALSE
    /\ call = [r \in Requests |-> At("idle")]
    /\ faults = 0

-----------------------------------------------------------------------------
(* A request arrives: EXISTS of the block key. A blocked client is refused  *)
(* and not counted, which changes nothing.                                  *)
PassBlock(r) ==
    /\ call[r].stage = "idle"
    /\ ~ blocked
    /\ call' = [call EXCEPT ![r] = At("count")]
    /\ UNCHANGED <<hits, hitsTtl, blocked, faults>>

CountedMutant(r, n) ==
    call' = [call EXCEPT ![r] = [stage |-> IF n > Limit THEN "expire" ELSE "decide",
                                 hits |-> n, counted |-> TRUE]]

CountedTwiceMutant(r, n) ==
    call' = [call EXCEPT ![r] = [stage |-> IF n = 1 THEN "expire" ELSE "decide",
                                 hits |-> n + 1, counted |-> TRUE]]

Counted(r, n) ==
    call' = [call EXCEPT ![r] = [stage |-> IF n = 1 THEN "expire" ELSE "decide",
                                 hits |-> n, counted |-> TRUE]]

CountHitMutant(r) ==
    \E seen \in {0, hits} :
        LET n == IF seen <= Limit THEN seen + 1 ELSE seen
        IN  /\ call[r].stage = "count"
            /\ hits' = n
            /\ Counted(r, n)
            /\ UNCHANGED <<hitsTtl, blocked, faults>>

(* INCR is atomic in Redis: it gives every request a count of its own.      *)
CountHit(r) ==
    LET n == IF hits <= Limit THEN hits + 1 ELSE hits
    IN  /\ call[r].stage = "count"
        /\ hits' = n
        /\ Counted(r, n)
        /\ UNCHANGED <<hitsTtl, blocked, faults>>

SetTtlMutant(r) ==
    /\ call[r].stage = "expire"
    /\ call' = [call EXCEPT ![r].stage = "decide"]
    /\ UNCHANGED <<hits, hitsTtl, blocked, faults>>

(* EXPIRE, a second command that only the first hit sends.                  *)
SetTtl(r) ==
    /\ call[r].stage = "expire"
    /\ hitsTtl' = (hits > 0)
    /\ call' = [call EXCEPT ![r].stage = "decide"]
    /\ UNCHANGED <<hits, blocked, faults>>

(* TTL only feeds the response headers. Beyond the limit the block key is   *)
(* set for blockDuration, which the library defaults to the throttler's     *)
(* ttl, and the request is refused.                                         *)
Decide(r) ==
    /\ call[r].stage = "decide"
    /\ blocked' = (blocked \/ call[r].hits > Limit)
    /\ call' = [call EXCEPT ![r] = At(IF call[r].hits > Limit THEN "idle" ELSE "admitted")]
    /\ UNCHANGED <<hits, hitsTtl, faults>>

(* Redis drops a key whose time has come; a key without TTL stays.          *)
HitsExpire ==
    /\ hits > 0 /\ hitsTtl
    /\ hits' = 0
    /\ hitsTtl' = FALSE
    /\ call' = [r \in Requests |-> [call[r] EXCEPT !.counted = FALSE]]
    /\ UNCHANGED <<blocked, faults>>

BlockExpires ==
    /\ blocked
    /\ blocked' = FALSE
    /\ UNCHANGED <<hits, hitsTtl, call, faults>>

Increment(r) == CountHit(r) \/ SetTtl(r) \/ Decide(r)

(* A crash, or a command that fails: at most MaxFaults of them.             *)
Fault == faults < MaxFaults /\ faults' = faults + 1
-----------------------------------------------------------------------------
(* A burst is counted exactly (README, Rate limiting; the comment at the    *)
(* end of redis-throttler.storage.ts: no read-then-write gap): however      *)
(* their commands interleave, two requests never hold the same count of one *)
(* counter, so that no more than Limit of them are let through.             *)
BurstIsCountedExactly ==
    \A r, s \in Requests :
        /\ call[r].counted => call[r].hits <= hits
        /\ r # s /\ call[r].counted /\ call[s].counted /\ call[r].hits <= Limit
           => call[r].hits # call[s].hits

(* INCR and EXPIRE are two commands: a counter has no time to live only     *)
(* while the request that created it is between them, or after a fault      *)
(* there. Otherwise the client would be limited for ever.                   *)
CounterExpires ==
    hits > 0 /\ ~ hitsTtl => faults > 0 \/ \E r \in Requests : call[r].stage = "expire"
=============================================================================
