----------------------------- MODULE RequestProofs -----------------------------
(***************************************************************************)
(* Proofs about a request on both of its sides: the limiter that lets it   *)
(* in (RateLimiter), for every limit, window and set of addresses, and the *)
(* call that makes it (OutboundCall), for every number of retries.         *)
(***************************************************************************)
EXTENDS OutboundCall, RateLimiter, FiniteSetTheorems, TLAPS

-----------------------------------------------------------------------------
(* The limiter *)

\* One more element makes a finite set larger by at most one.
LEMMA OneMore ==
  ASSUME NEW S, IsFiniteSet(S), NEW x
  PROVE  /\ Cardinality(S) \in Nat
         /\ Cardinality(S \cup {x}) \in Nat
         /\ Cardinality(S \cup {x}) <= Cardinality(S) + 1
<1>1. IsFiniteSet(S \cup {x}) /\ Cardinality(S \cup {x}) \in Nat /\ Cardinality(S) \in Nat
  BY FS_AddElement, FS_CardinalityType
<1>2. CASE x \in S
  <2>1. S \cup {x} = S
    BY <1>2
  <2>. QED BY <1>1, <2>1
<1>3. CASE x \notin S
  <2>1. Cardinality(S \cup {x}) = Cardinality(S) + 1
    BY <1>3, FS_AddElement
  <2>. QED BY <1>1, <2>1
<1>. QED BY <1>2, <1>3

\* A number of seconds is a natural number, and so is its length.
LEMMA RetryAfterType ==
  ASSUME NEW ms \in Nat
  PROVE  SecondMs * RetryAfter(ms) \in Nat
<1>1. SecondMs \in Nat \ {0}
  BY LimitAssumption
<1>2. RetryAfter(ms) \in Nat
  BY <1>1, SMT DEF RetryAfter
<1>. QED BY <1>1, <1>2, SMT

LEMMA LimiterTypeStep ==
  ASSUME LimiterTypeOK, [LimiterNext]_LimiterVars
  PROVE  LimiterTypeOK'
<1>. USE LimitAssumption
<1>1. CASE Tick
  BY <1>1 DEF Tick, LimiterTypeOK
<1>2. ASSUME NEW k \in Keys, Refuse(k) PROVE LimiterTypeOK'
  <2>1. PICK h \in Oldest(Recent(k)) :
          retryAt' = [retryAt EXCEPT ![k] =
                        clock + SecondMs * RetryAfter(h.at + WindowMs - clock)]
    BY <1>2 DEF Refuse
  <2>2. h.at + WindowMs - clock \in Nat
    BY DEF Oldest, Recent, LimiterTypeOK, Hits
  <2>3. clock + SecondMs * RetryAfter(h.at + WindowMs - clock) \in Nat
    BY <2>2, RetryAfterType DEF LimiterTypeOK
  <2>4. retryAt' \in [Keys -> Nat]
    BY <2>1, <2>3 DEF LimiterTypeOK
  <2>. QED
    BY <1>2, <2>4 DEF Refuse, Recent, LimiterTypeOK, Hits
<1>3. ASSUME NEW k \in Keys, Allow(k) PROVE LimiterTypeOK'
  BY <1>3 DEF Allow, Recent, LimiterTypeOK, Hits
<1>4. CASE UNCHANGED LimiterVars
  BY <1>4 DEF LimiterVars, LimiterTypeOK
<1>. QED
  BY <1>1, <1>2, <1>3, <1>4 DEF LimiterNext

\* A forgotten hit, on a clean-up of its key or of the map, is out of the window.
LEMMA RememberedStep ==
  ASSUME LimiterTypeOK, Remembered, [LimiterNext]_LimiterVars
  PROVE  Remembered'
<1>. USE LimitAssumption
<1>1. CASE Tick
  BY <1>1 DEF Tick, LimiterTypeOK, Remembered, Hits
<1>2. ASSUME NEW k \in Keys, Refuse(k) PROVE Remembered'
  BY <1>2 DEF Refuse, Recent, LimiterTypeOK, Remembered, Hits
<1>3. ASSUME NEW k \in Keys, Allow(k) PROVE Remembered'
  <2>. DEFINE hit == [n |-> served + 1, at |-> clock]
              known == tracked \cup {k}
              gone == IF Cardinality(known) > MaxKeys THEN Stale(known \ {k}) ELSE {}
  <2>1. /\ hits' = [j \in Keys |-> IF j = k THEN Recent(k) \cup {hit}
                                  ELSE IF j \in gone THEN {} ELSE hits[j]]
        /\ allowed' = [allowed EXCEPT ![k] = @ \cup {hit}]
        /\ served' = served + 1
        /\ clock' = clock
    BY <1>3 DEF Allow
  <2>2. \A j \in gone : \A h \in hits[j] : h.at + WindowMs <= clock
    BY DEF Stale
  <2>3. \A j \in Keys : IsFiniteSet(allowed'[j])
    BY <2>1, FS_AddElement DEF LimiterTypeOK, Remembered
  <2>4. \A j \in Keys : hits'[j] \subseteq allowed'[j]
    BY <2>1 DEF LimiterTypeOK, Remembered, Recent
  <2>5. \A j \in Keys : \A h \in allowed'[j] : h.at <= clock' /\ h.n <= served'
    BY <2>1 DEF LimiterTypeOK, Remembered, Hits
  <2>6. ASSUME NEW j \in Keys, NEW h \in allowed'[j], h.at + WindowMs > clock'
        PROVE  h \in hits'[j]
    <3>. HIDE DEF gone, hit
    <3>1. CASE h = hit /\ j = k
      BY <2>1, <3>1
    <3>2. CASE ~(h = hit /\ j = k)
      <4>1. h \in allowed[j]
        BY <2>1, <3>2 DEF LimiterTypeOK
      <4>2. h \in hits[j]
        BY <2>1, <2>6, <4>1 DEF Remembered
      <4>3. CASE j = k
        BY <2>1, <2>6, <4>2, <4>3 DEF Recent
      <4>4. CASE j # k
        <5>1. j \notin gone
          BY <2>1, <2>2, <2>6, <4>2 DEF LimiterTypeOK, Hits
        <5>. QED BY <2>1, <4>2, <4>4, <5>1
      <4>. QED BY <4>3, <4>4
    <3>. QED BY <3>1, <3>2
  <2>. QED
    BY <2>3, <2>4, <2>5, <2>6 DEF Remembered
<1>4. CASE UNCHANGED LimiterVars
  BY <1>4 DEF LimiterVars, Remembered
<1>. QED
  BY <1>1, <1>2, <1>3, <1>4 DEF LimiterNext

\* A window is a finite set of hits, and a part of a window is no larger.
LEMMA WindowFinite ==
  ASSUME LimiterTypeOK, Remembered, NEW k \in Keys, NEW t
  PROVE  /\ IsFiniteSet(InWindow(k, t))
         /\ Cardinality(InWindow(k, t)) \in Nat
         /\ \A S : S \subseteq InWindow(k, t) =>
              /\ IsFiniteSet(S)
              /\ Cardinality(S) \in Nat
              /\ Cardinality(S) <= Cardinality(InWindow(k, t))
<1>1. IsFiniteSet(allowed[k]) /\ InWindow(k, t) \subseteq allowed[k]
  BY DEF Remembered, InWindow
<1>2. IsFiniteSet(InWindow(k, t))
  BY <1>1, FS_Subset
<1>. QED
  BY <1>2, FS_Subset, FS_CardinalityType

LEMMA WindowStep ==
  ASSUME LimiterTypeOK, Remembered, WindowRespected, [LimiterNext]_LimiterVars
  PROVE  WindowRespected'
<1>. USE LimitAssumption
<1>1. CASE Tick
  <2>1. clock' = clock + 1 /\ allowed' = allowed /\ clock \in Nat
    BY <1>1 DEF Tick, LimiterTypeOK
  <2>. SUFFICES ASSUME NEW k \in Keys, NEW t \in 0..clock'
                PROVE  Cardinality(InWindow(k, t)') <= Limit
    BY DEF WindowRespected
  <2>2. CASE t \in 0..clock
    BY <2>1, <2>2 DEF WindowRespected, InWindow
  <2>3. CASE t = clock + 1
    <3>1. InWindow(k, t)' \subseteq InWindow(k, clock)
      BY <2>1, <2>3 DEF InWindow, LimiterTypeOK, Remembered, Hits
    <3>2. Cardinality(InWindow(k, clock)) <= Limit
      BY <2>1 DEF WindowRespected
    <3>. QED
      BY <3>1, <3>2, WindowFinite
  <2>. QED
    BY <2>1, <2>2, <2>3
<1>2. ASSUME NEW k \in Keys, Refuse(k) PROVE WindowRespected'
  BY <1>2 DEF Refuse, WindowRespected, InWindow
<1>3. ASSUME NEW k \in Keys, Allow(k) PROVE WindowRespected'
  <2>. DEFINE hit == [n |-> served + 1, at |-> clock]
  <2>1. /\ allowed' = [allowed EXCEPT ![k] = @ \cup {hit}]
        /\ clock' = clock
        /\ clock \in Nat
        /\ ~(Cardinality(Recent(k)) >= Limit)
    BY <1>3 DEF Allow, Full, LimiterTypeOK
  <2>. SUFFICES ASSUME NEW j \in Keys, NEW t \in 0..clock
                PROVE  Cardinality(InWindow(j, t)') <= Limit
    BY <2>1 DEF WindowRespected
  <2>2. CASE j # k \/ t < clock
    <3>1. InWindow(j, t)' = InWindow(j, t)
      BY <2>1, <2>2 DEF InWindow, LimiterTypeOK
    <3>. QED
      BY <3>1 DEF WindowRespected
  <2>3. CASE j = k /\ t = clock
    <3>1. Recent(k) = InWindow(k, clock)
      BY <2>1 DEF Recent, InWindow, LimiterTypeOK, Remembered, Hits
    <3>2. InWindow(j, t)' = Recent(k) \cup {hit}
      BY <2>1, <2>3, <3>1 DEF InWindow, LimiterTypeOK
    <3>3. IsFiniteSet(Recent(k))
      BY <3>1, WindowFinite
    <3>. HIDE DEF hit
    <3>4. /\ Cardinality(Recent(k)) \in Nat
          /\ Cardinality(Recent(k) \cup {hit}) \in Nat
          /\ Cardinality(Recent(k) \cup {hit}) <= Cardinality(Recent(k)) + 1
      BY <3>3, OneMore
    <3>. QED
      BY <2>1, <3>2, <3>4
  <2>. QED
    BY <2>1, <2>2, <2>3
<1>4. CASE UNCHANGED LimiterVars
  BY <1>4 DEF LimiterVars, WindowRespected, InWindow
<1>. QED
  BY <1>1, <1>2, <1>3, <1>4 DEF LimiterNext

LEMMA LimiterBegins ==
  ASSUME LimiterInit
  PROVE  IInv
<1>. USE LimitAssumption
<1>1. LimiterTypeOK
  BY DEF LimiterInit, LimiterTypeOK, Hits
<1>2. Remembered
  BY FS_EmptySet DEF LimiterInit, Remembered
<1>3. WindowRespected
  <2>1. \A k \in Keys : \A t : InWindow(k, t) = {}
    BY DEF LimiterInit, InWindow
  <2>. QED
    BY <2>1, FS_EmptySet DEF WindowRespected
<1>. QED
  BY <1>1, <1>2, <1>3 DEF IInv

\* The limiter's inductive invariant.
THEOREM LimiterCorrect == LimiterSpec => []IInv
<1>1. IInv /\ [LimiterNext]_LimiterVars => IInv'
  BY LimiterTypeStep, RememberedStep, WindowStep DEF IInv
<1>. QED
  BY <1>1, LimiterBegins, PTL DEF LimiterSpec

\* No window, wherever it begins, sees more than Limit requests of one address,
\* however many addresses the map is cleaned of (SlidingWindowLimiter.allow).
THEOREM LimitHolds == LimiterSpec => []WindowRespected
<1>1. IInv => WindowRespected
  BY DEF IInv
<1>. QED
  BY <1>1, LimiterCorrect, PTL
-----------------------------------------------------------------------------
(* Retry-After *)

\* What makes RetryAfterHonest inductive: a refused address has no more hits than
\* the limit, and one of them is out of the window when it is to retry, unless the
\* map was cleaned of them all.
Retried(k) ==
  \/ hits[k] = {}
  \/ /\ IsFiniteSet(hits[k]) /\ Cardinality(hits[k]) <= Limit
     /\ \E h \in hits[k] : h.at + WindowMs <= retryAt[k]
RetryInv == \A k \in Keys : retryAt[k] # 0 => Retried(k)

\* Rounded up to whole seconds, the wait is no shorter.
LEMMA RoundedUp ==
  ASSUME NEW ms \in Nat
  PROVE  SecondMs * RetryAfter(ms) >= ms
<1> DEFINE q == (ms + SecondMs - 1) \div SecondMs
           r == (ms + SecondMs - 1) % SecondMs
<1>1. SecondMs \in Nat /\ SecondMs > 0 /\ ms + SecondMs - 1 \in Nat
  BY LimitAssumption
<1>2. /\ q \in Nat /\ r \in Nat /\ r < SecondMs
      /\ ms + SecondMs - 1 = SecondMs * q + r
  BY <1>1, SMT
<1> HIDE DEF q, r
<1>3. SecondMs * q \in Nat
  BY <1>1, <1>2, SMT
<1>4. SecondMs * q >= ms
  BY <1>1, <1>2, <1>3
<1> QED BY <1>4 DEF RetryAfter, q

LEMMA RetryStep ==
  ASSUME IInv, RetryInv, [LimiterNext]_LimiterVars
  PROVE  RetryInv'
<1> USE LimitAssumption
<1>0. LimiterTypeOK /\ Remembered /\ WindowRespected
  BY DEF IInv
<1>1. CASE Tick
  BY <1>1 DEF Tick, RetryInv, Retried
<1>2. ASSUME NEW k \in Keys, Refuse(k) PROVE RetryInv'
  <2>1. PICK h \in Oldest(Recent(k)) :
          retryAt' = [retryAt EXCEPT ![k] =
                        clock + SecondMs * RetryAfter(h.at + WindowMs - clock)]
    BY <1>2 DEF Refuse
  <2>2. hits' = [hits EXCEPT ![k] = Recent(k)]
    BY <1>2 DEF Refuse
  <2>3. /\ h \in Recent(k) /\ h.at \in Nat /\ clock \in Nat
        /\ h.at + WindowMs - clock \in Nat
    BY <1>0 DEF Oldest, Recent, LimiterTypeOK, Hits
  <2>4. PICK wait \in Nat : wait = SecondMs * RetryAfter(h.at + WindowMs - clock)
                            /\ wait >= h.at + WindowMs - clock
    BY <2>3, RetryAfterType, RoundedUp
  <2>5. h.at + WindowMs <= clock + wait
    BY <2>3, <2>4
  <2>6. Recent(k) = InWindow(k, clock)
    BY <1>0 DEF Recent, InWindow, LimiterTypeOK, Remembered, Hits
  <2>7. IsFiniteSet(Recent(k)) /\ Cardinality(Recent(k)) <= Limit
    BY <1>0, <2>3, <2>6, WindowFinite DEF WindowRespected
  <2>8. hits'[k] = Recent(k) /\ retryAt'[k] = clock + wait
    BY <1>0, <2>1, <2>2, <2>4 DEF LimiterTypeOK
  <2>9. Retried(k)'
    BY <2>3, <2>5, <2>7, <2>8 DEF Retried
  <2>10. \A j \in Keys : j # k => hits'[j] = hits[j] /\ retryAt'[j] = retryAt[j]
    BY <1>0, <2>1, <2>2 DEF LimiterTypeOK
  <2> QED BY <2>9, <2>10 DEF RetryInv, Retried
<1>3. ASSUME NEW k \in Keys, Allow(k) PROVE RetryInv'
  <2>1. \A j \in Keys : j # k => hits'[j] \in {{}, hits[j]} /\ retryAt'[j] = retryAt[j]
    BY <1>0, <1>3 DEF Allow, LimiterTypeOK
  <2>2. retryAt'[k] = 0
    BY <1>0, <1>3 DEF Allow, LimiterTypeOK
  <2> QED BY <2>1, <2>2 DEF RetryInv, Retried
<1>4. CASE UNCHANGED LimiterVars
  BY <1>4 DEF LimiterVars, RetryInv, Retried
<1> QED BY <1>1, <1>2, <1>3, <1>4 DEF LimiterNext

\* A client that waits as long as Retry-After told it to is served.
THEOREM RetryServed == LimiterSpec => []RetryAfterHonest
<1>1. LimiterInit => RetryInv
  BY DEF LimiterInit, RetryInv
<1>2. IInv /\ RetryInv /\ [LimiterNext]_LimiterVars => RetryInv'
  BY RetryStep
<1>3. IInv /\ RetryInv => RetryAfterHonest
  <2> SUFFICES ASSUME IInv, RetryInv, NEW k \in Keys, retryAt[k] # 0, clock >= retryAt[k]
               PROVE  ~(Cardinality(Recent(k)) >= Limit)
    BY DEF RetryAfterHonest, Full
  <2>0. LimiterTypeOK /\ Limit \in Nat /\ Limit > 0 /\ WindowMs \in Nat
    BY LimitAssumption DEF IInv
  <2>1. CASE hits[k] = {}
    <3>1. Recent(k) = {}
      BY <2>1 DEF Recent
    <3> QED BY <2>0, <3>1, FS_EmptySet
  <2>2. CASE hits[k] # {}
    <3>1. PICK h \in hits[k] : h.at + WindowMs <= retryAt[k]
      BY <2>2 DEF RetryInv, Retried
    <3>2. IsFiniteSet(hits[k]) /\ Cardinality(hits[k]) <= Limit
      BY <2>2 DEF RetryInv, Retried
    <3>3. h \notin Recent(k) /\ Recent(k) \subseteq hits[k]
      BY <2>0, <3>1 DEF Recent, LimiterTypeOK, Hits
    <3>4. IsFiniteSet(Recent(k)) /\ Cardinality(Recent(k)) \in Nat
          /\ Cardinality(Recent(k) \cup {h}) <= Cardinality(hits[k])
      BY <3>1, <3>2, <3>3, FS_Subset, FS_CardinalityType
    <3>5. Cardinality(Recent(k) \cup {h}) = Cardinality(Recent(k)) + 1
      BY <3>3, <3>4, FS_AddElement
    <3>6. Cardinality(hits[k]) \in Nat
      BY <3>2, FS_CardinalityType
    <3> QED BY <2>0, <3>2, <3>4, <3>5, <3>6
  <2> QED BY <2>1, <2>2
<1> QED BY <1>1, <1>2, <1>3, LimiterCorrect, PTL DEF LimiterSpec

\* The map holds more addresses than MaxKeys only if each has a hit in the window.
THEOREM MemoryStaysBounded == LimiterSpec => MemoryBounded
<1>1. IInv /\ [LimiterNext]_LimiterVars =>
        [tracked' # tracked /\ Cardinality(tracked') > MaxKeys =>
           \A k \in tracked' : \E h \in hits'[k] : h.at + WindowMs > clock]_LimiterVars
  <2> SUFFICES ASSUME IInv, NEW k \in Keys, Allow(k), Cardinality(tracked') > MaxKeys,
                      NEW j \in tracked'
               PROVE  \E h \in hits'[j] : h.at + WindowMs > clock
    BY DEF LimiterNext, LimiterVars, Tick, Refuse
  <2> DEFINE known == tracked \cup {k}
             hit == [n |-> served + 1, at |-> clock]
             gone == IF Cardinality(known) > MaxKeys THEN Stale(known \ {k}) ELSE {}
  <2>0. LimiterTypeOK /\ WindowMs \in Nat /\ WindowMs > 0 /\ clock \in Nat
    BY LimitAssumption DEF IInv, LimiterTypeOK
  <2>1. /\ hits' = [i \in Keys |-> IF i = k THEN Recent(k) \cup {hit}
                                   ELSE IF i \in gone THEN {} ELSE hits[i]]
        /\ tracked' = known \ gone /\ j \in Keys
    BY <2>0 DEF Allow, LimiterTypeOK
  <2>2. CASE j = k
    <3>1. hit \in hits'[k] /\ hit.at = clock
      BY <2>1
    <3> QED BY <2>0, <2>2, <3>1
  <2>3. CASE j # k
    <3>1. j \notin gone /\ j \in tracked
      BY <2>1, <2>3
    <3>2. CASE Cardinality(known) > MaxKeys
      <4>1. j \notin Stale(known \ {k})
        BY <3>1, <3>2
      <4>2. \E h \in hits[j] : ~(h.at + WindowMs <= clock)
        BY <2>3, <3>1, <4>1 DEF Stale
      <4>3. hits'[j] = hits[j]
        BY <2>1, <2>3, <3>1
      <4> QED BY <2>0, <2>1, <4>2, <4>3 DEF LimiterTypeOK, Hits
    <3>3. CASE ~(Cardinality(known) > MaxKeys)
      BY <2>1, <3>3
    <3> QED BY <3>2, <3>3
  <2> QED BY <2>2, <2>3
<1> QED BY <1>1, LimiterCorrect, PTL DEF LimiterSpec, MemoryBounded

-----------------------------------------------------------------------------
(* The call *)

LEMMA TypeInit == Init => TypeOK
<1>. SUFFICES ASSUME Init PROVE TypeOK
  OBVIOUS
<1>1. pc \in InFlight
  BY DEF Init, Request, InFlight
<1>2. {aborted, expired, posted, canceling} \subseteq BOOLEAN
  BY DEF Init
<1>3. attempt \in 0..Retries
  BY CallAssumption DEF Init
<1>. QED
  BY <1>1, <1>2, <1>3 DEF Init, TypeOK, InFlight

\* What the remote says is a state of the task it holds; it is the task's state
\* now if it is a terminal one.
LEMMA SaidIsTrue ==
  ASSUME TypeOK, NEW s \in Said
  PROVE  /\ s \in TaskState
         /\ s # ABSENT
         /\ IsTerminal(s) => s = state
BY DEF TypeOK, Said, IsTerminal, TaskState, ActiveStates, INTERRUPTED_STATES,
       TERMINAL_STATES, ABSENT

LEMMA TypeStep ==
  ASSUME TypeOK, [Next]_vars
  PROVE  TypeOK'
<1>. USE CallAssumption
<1>1. CASE RemoteTakes
  BY <1>1 DEF RemoteTakes, client, TypeOK, TaskState, ActiveStates
<1>2. CASE RemoteMoves
  BY <1>2 DEF RemoteMoves, client, TypeOK, TaskState, ActiveStates,
              INTERRUPTED_STATES, TERMINAL_STATES
<1>3. CASE RemoteCancels
  BY <1>3 DEF RemoteCancels, client, TypeOK, TaskState, TERMINAL_STATES
<1>4. CASE Answered
  BY <1>4, SaidIsTrue DEF Answered, Learn, End, TypeOK, InFlight, TaskState, ActiveStates,
                          INTERRUPTED_STATES, TERMINAL_STATES
<1>5. CASE Polled
  BY <1>5, SaidIsTrue DEF Polled, Learn, End, TypeOK, InFlight, TaskState, ActiveStates,
                          INTERRUPTED_STATES, TERMINAL_STATES
<1>6. CASE PollAgain
  BY <1>6 DEF PollAgain, TypeOK, InFlight
<1>7. CASE Deadline
  BY <1>7 DEF Deadline, TypeOK
<1>8. CASE ReadFrame
  BY <1>8, SaidIsTrue DEF ReadFrame, Learn, End, TypeOK, InFlight, TaskState, ActiveStates,
                          INTERRUPTED_STATES, TERMINAL_STATES
<1>9. CASE Fails
  BY <1>9 DEF Fails, Retry, GiveUp, End, TypeOK, InFlight
<1>10. CASE TimesOut
  <2>1. canceling' \in BOOLEAN
    BY <1>10 DEF TimesOut, Cancel, TypeOK
  <2>2. attempt' \in 0..Retries
    BY <1>10 DEF TimesOut, Retry, GiveUp, TypeOK
  <2>. QED
    BY <1>10, <2>1, <2>2 DEF TimesOut, Retry, GiveUp, End, TypeOK, InFlight
<1>11. CASE Resume
  BY <1>11 DEF Resume, Request, TypeOK, InFlight
<1>12. CASE Abort
  BY <1>12 DEF Abort, TypeOK
<1>13. CASE NoticeAbort
  BY <1>13 DEF NoticeAbort, CancelOnAbort, Cancel, End, TypeOK, InFlight
<1>14. CASE UNCHANGED vars
  BY <1>14 DEF vars, client, TypeOK
<1>. QED
  BY <1>1, <1>2, <1>3, <1>4, <1>5, <1>6, <1>7, <1>8, <1>9, <1>10, <1>11, <1>12, <1>13,
     <1>14 DEF Next

\* The call's variables keep their types, and it never makes more than `retries`
\* further attempts at one request.
THEOREM CallTypeCorrect == Spec => []TypeOK
BY TypeInit, TypeStep, PTL DEF Spec

\* A polling call always knows the task it was told of.
KnowsTask == mode = "poll" => (seen = ABSENT <=> told = ABSENT)

\* When a call that polls was aborted, the task it was told of is canceled.
CallInvariant == TypeOK /\ ResultIsFinal /\ KnowsTask /\ PollAbortPropagates

LEMMA CallInit == Init => CallInvariant
<1>. SUFFICES ASSUME Init PROVE CallInvariant
  OBVIOUS
<1>1. outcome = "none" /\ told = ABSENT /\ seen = ABSENT
  BY DEF Init
<1>2. ResultIsFinal
  BY <1>1 DEF ResultIsFinal, TaskState, ActiveStates, INTERRUPTED_STATES, TERMINAL_STATES
<1>. QED
  BY <1>1, <1>2, TypeInit DEF CallInvariant, KnowsTask, PollAbortPropagates

\* The remote's terminal state stays, and only an answer that ends the call
\* makes a state its outcome.
LEMMA FinalStep ==
  ASSUME TypeOK, ResultIsFinal, [Next]_vars
  PROVE  ResultIsFinal'
<1>. USE DEF ResultIsFinal
<1>1. CASE RemoteTakes \/ RemoteMoves \/ RemoteCancels
  BY <1>1 DEF RemoteTakes, RemoteMoves, RemoteCancels, client, ABSENT, IsTerminal,
              IsSettled, TERMINAL_STATES, TaskState, ActiveStates, INTERRUPTED_STATES
<1>2. CASE Answered \/ Polled \/ ReadFrame
  <2>1. outcome \notin TaskState
    BY <1>2 DEF Answered, Polled, ReadFrame, TypeOK, InFlight, TaskState, ActiveStates,
                INTERRUPTED_STATES, TERMINAL_STATES
  <2>2. PICK s \in Said : IF IsTerminal(s) THEN outcome' = s
                                          ELSE outcome' \in {outcome, "timedOut"}
    BY <1>2 DEF Answered, Polled, ReadFrame, End, IsResult
  <2>3. IsTerminal(s) => s = state
    BY SaidIsTrue
  <2>4. state' = state
    BY <1>2 DEF Answered, Polled, ReadFrame
  <2>5. CASE IsTerminal(s)
    BY <2>2, <2>3, <2>4, <2>5 DEF IsTerminal, IsSettled
  <2>6. CASE ~IsTerminal(s)
    <3>1. outcome' \in {outcome, "timedOut"}
      BY <2>2, <2>6
    <3>2. outcome' \notin TaskState
      BY <2>1, <3>1 DEF TaskState, ActiveStates, INTERRUPTED_STATES, TERMINAL_STATES
    <3>. QED BY <3>2
  <2>. QED BY <2>5, <2>6
<1>3. CASE PollAgain \/ Deadline \/ Resume \/ Abort \/ UNCHANGED vars
  BY <1>3 DEF PollAgain, Deadline, Resume, Abort, vars, client
<1>4. CASE Fails \/ TimesOut \/ NoticeAbort
  <2>1. state' = state /\ outcome' \in {outcome, "failed", "timedOut", "aborted"}
    BY <1>4 DEF Fails, TimesOut, NoticeAbort, Retry, GiveUp, End
  <2>. QED
    BY <2>1 DEF TaskState, ActiveStates, INTERRUPTED_STATES, TERMINAL_STATES
<1>. QED
  BY <1>1, <1>2, <1>3, <1>4 DEF Next

LEMMA KnowsStep ==
  ASSUME TypeOK, KnowsTask, [Next]_vars
  PROVE  KnowsTask'
<1>. USE DEF KnowsTask
<1>1. CASE Answered \/ Polled \/ ReadFrame
  BY <1>1 DEF Answered, Polled, ReadFrame, Learn
<1>2. CASE Fails \/ TimesOut
  BY <1>2 DEF Fails, TimesOut, Retry, GiveUp
<1>3. CASE RemoteTakes \/ RemoteMoves \/ RemoteCancels \/ UNCHANGED vars
  BY <1>3 DEF RemoteTakes, RemoteMoves, RemoteCancels, client, vars
<1>4. CASE PollAgain \/ Deadline \/ Resume \/ Abort \/ NoticeAbort
  BY <1>4 DEF PollAgain, Deadline, Resume, Abort, NoticeAbort
<1>. QED
  BY <1>1, <1>2, <1>3, <1>4 DEF Next

\* A step either ends the call as an aborted one, having canceled what it knows,
\* or comes before the end, or is the remote's.
LEMMA AbortStep ==
  ASSUME TypeOK, KnowsTask, PollAbortPropagates, [Next]_vars
  PROVE  PollAbortPropagates'
<1>. USE DEF PollAbortPropagates
<1>1. CASE NoticeAbort
  <2>1. mode' = "poll" /\ told' # ABSENT => canceling'
    BY <1>1 DEF NoticeAbort, CancelOnAbort, Cancel, KnowsTask
  <2>. QED BY <2>1
<1>2. CASE RemoteTakes \/ RemoteMoves \/ RemoteCancels \/ UNCHANGED vars
  BY <1>2 DEF RemoteTakes, RemoteMoves, RemoteCancels, client, vars
<1>3. CASE Answered \/ Polled \/ ReadFrame
  <2>1. PICK s \in Said : outcome' \in {outcome, "timedOut", s}
    BY <1>3 DEF Answered, Polled, ReadFrame, End
  <2>2. outcome # "aborted" /\ s # "aborted"
    BY <1>3, SaidIsTrue DEF Answered, Polled, ReadFrame, TypeOK, InFlight, TaskState,
       ActiveStates, INTERRUPTED_STATES, TERMINAL_STATES
  <2>. QED BY <2>1, <2>2
<1>4. CASE Fails \/ TimesOut
  <2>1. outcome # "aborted" /\ outcome' \in {outcome, "failed", "timedOut"}
    BY <1>4 DEF Fails, TimesOut, Retry, GiveUp, End, TypeOK, InFlight
  <2>. QED BY <2>1
<1>5. CASE PollAgain \/ Deadline \/ Resume \/ Abort
  BY <1>5 DEF PollAgain, Deadline, Resume, Abort
<1>. QED
  BY <1>1, <1>2, <1>3, <1>4, <1>5 DEF Next

LEMMA CallCorrect == Spec => []CallInvariant
<1>1. CallInvariant /\ [Next]_vars => CallInvariant'
  BY TypeStep, FinalStep, KnowsStep, AbortStep DEF CallInvariant
<1>. QED
  BY CallInit, <1>1, PTL DEF Spec

\* However late or repeated the answers, what a call returns is the remote task's
\* last word.
THEOREM ResultsFinal == Spec => []ResultIsFinal
BY CallCorrect, PTL DEF CallInvariant

\* An aborted polling call has canceled the task it was told of, with any number
\* of retries.
THEOREM AbortsPropagate == Spec => []PollAbortPropagates
BY CallCorrect, PTL DEF CallInvariant
================================================================================
