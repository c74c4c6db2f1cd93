----------------------------- MODULE RateLimiter -----------------------------
(***************************************************************************)
(* SlidingWindowLimiter (src/server/rate-limit.ts) as an inbound instance  *)
(* uses it before authentication: a limit of requests per client address   *)
(* and window.  Two requests of the same millisecond are two hits, so a    *)
(* hit carries its serial number besides its time.  The clock is Date.now, *)
(* taken to be monotone; Retry-After is in whole seconds.  The names of    *)
(* the specification begin with Limiter: RequestProofs extends this module *)
(* together with OutboundCall.                                             *)
(***************************************************************************)
EXTENDS Integers, FiniteSets

CONSTANTS
  Keys,      \* client addresses
  Limit,     \* requestsPerMinute; a limit of 0 creates no limiter
  WindowMs,
  SecondMs,  \* milliseconds of a second
  MaxKeys,   \* addresses remembered before the opportunistic cleanup (1024)
  MaxTime,   \* bound: the clock
  MaxHits    \* bound: requests allowed

ASSUME LimitAssumption == {Limit, WindowMs, SecondMs} \subseteq Nat \ {0}
ASSUME LimiterBoundsAssumption == MaxKeys \in Nat /\ MaxTime \in Nat /\ MaxHits \in Nat

VARIABLES
  clock,
  served,     \* requests allowed so far
  tracked,    \* the keys of the limiter's map
  hits,       \* hits[k]: the hits remembered for k
  allowed,    \* history: every hit of k ever allowed
  retryAt     \* history: when the last refusal told k to retry; 0 when it was
              \* allowed since

LimiterVars == <<clock, served, tracked, hits, allowed, retryAt>>

Hits == [n : Nat, at : Nat]

LimiterTypeOK ==
  /\ clock \in Nat
  /\ served \in Nat
  /\ tracked \in SUBSET Keys
  /\ hits \in [Keys -> SUBSET Hits]
  /\ allowed \in [Keys -> SUBSET Hits]
  /\ retryAt \in [Keys -> Nat]

LimiterInit ==
  /\ clock = 1
  /\ served = 0
  /\ tracked = {}
  /\ hits = [k \in Keys |-> {}]
  /\ allowed = [k \in Keys |-> {}]
  /\ retryAt = [k \in Keys |-> 0]

-----------------------------------------------------------------------------
Tick ==
  /\ clock < MaxTime
  /\ clock' = clock + 1
  /\ UNCHANGED <<served, tracked, hits, allowed, retryAt>>

\* at > now - windowMs
Recent(k) == {h \in hits[k] : h.at + WindowMs > clock}

\* Slip: off by one.
FullLate(k) == Cardinality(Recent(k)) > Limit

Full(k) == Cardinality(Recent(k)) >= Limit

\* The hits are remembered in the order they came: the first is an oldest one.
Oldest(S) == {h \in S : \A g \in S : h.at <= g.at}

\* Slip: the seconds are rounded down.
RetryAfterDown(ms) == ms \div SecondMs

\* Retry-After, of a time in milliseconds: rounded up.
RetryAfter(ms) == (ms + SecondMs - 1) \div SecondMs

Refuse(k) ==
  /\ Full(k)
  /\ hits' = [hits EXCEPT ![k] = Recent(k)]
  /\ \E h \in Oldest(Recent(k)) :
        retryAt' = [retryAt EXCEPT ![k] =
                      clock + SecondMs * RetryAfter(h.at + WindowMs - clock)]
  /\ UNCHANGED <<clock, served, tracked, allowed>>

\* Slip: the map is never cleaned.
StaleNone(known) == {}

\* The addresses without a hit in the window.
Stale(known) ==
  {k \in known : \A h \in hits[k] : h.at + WindowMs <= clock}

\* The hit is remembered; when the map has grown too large the addresses
\* without a recent hit are dropped from it.
Allow(k) ==
  LET hit == [n |-> served + 1, at |-> clock]
      known == tracked \cup {k}
      gone == IF Cardinality(known) > MaxKeys THEN Stale(known \ {k}) ELSE {}
  IN /\ served < MaxHits
     /\ ~Full(k)
     /\ served' = served + 1
     /\ tracked' = known \ gone
     /\ hits' = [j \in Keys |-> IF j = k THEN Recent(k) \cup {hit}
                                ELSE IF j \in gone THEN {} ELSE hits[j]]
     /\ allowed' = [allowed EXCEPT ![k] = @ \cup {hit}]
     /\ retryAt' = [retryAt EXCEPT ![k] = 0]
     /\ UNCHANGED clock

LimiterNext == Tick \/ \E k \in Keys : Refuse(k) \/ Allow(k)

LimiterSpec == LimiterInit /\ [][LimiterNext]_LimiterVars
-----------------------------------------------------------------------------
(* Properties *)

InWindow(k, t) == {h \in allowed[k] : h.at <= t /\ h.at + WindowMs > t}

\* No window of windowMs, wherever it begins, has seen more than Limit requests
\* of one address, though hits are forgotten as time goes by and whole
\* addresses when the map is cleaned.
WindowRespected ==
  \A k \in Keys : \A t \in 0..clock : Cardinality(InWindow(k, t)) <= Limit

\* A client that waits as long as Retry-After told it to, while nobody else
\* calls from its address, is served.
RetryAfterHonest ==
  \A k \in Keys : retryAt[k] # 0 /\ clock >= retryAt[k] => ~Full(k)

\* The map holds more than MaxKeys addresses only if each of them has a hit in
\* the window ("bounded by the number of live callers in a window").
MemoryBounded ==
  [][tracked' # tracked /\ Cardinality(tracked') > MaxKeys =>
       \A k \in tracked' : \E h \in hits'[k] : h.at + WindowMs > clock]_LimiterVars

\* What makes WindowRespected inductive: hits lie in the past, have serial
\* numbers of their own, and those still in the window are remembered.
Remembered ==
  \A k \in Keys :
     /\ IsFiniteSet(allowed[k])
     /\ hits[k] \subseteq allowed[k]
     /\ \A h \in allowed[k] : h.at <= clock /\ h.n <= served
     /\ \A h \in allowed[k] : h.at + WindowMs > clock => h \in hits[k]

IInv == LimiterTypeOK /\ Remembered /\ WindowRespected
=============================================================================
