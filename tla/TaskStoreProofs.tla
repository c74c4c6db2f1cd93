---------------------------- MODULE TaskStoreProofs ----------------------------
(***************************************************************************)
(* Proofs about TaskStore, for any number of tasks, messages, operations,  *)
(* failed writes and crashes: what the table holds of what is seen, and    *)
(* that no accepted message is lost, repeated or put before the first.     *)
(***************************************************************************)
EXTENDS TaskStore, FiniteSetTheorems, TLAPS

Writes == [task : Tasks, record : Records]
Views == [Tasks -> Records \cup {NoTask}]

\* The input that stays the first.
FirstInput(record) == Head(Seeded(record))

Typed ==
  /\ live \in Views /\ table \in Views
  /\ queue \in Seq(Writes)
  /\ running \subseteq {t \in Known(live) : live[t].state \in Running \cup Interrupted}
  /\ clock \in Nat
  /\ views \in Seq(Views) /\ views # <<>> /\ Last(views) = live
  /\ made \in [ops : 0..MaxOps, fails : 0..MaxFails, crashes : 0..MaxCrashes]

\* Nothing is written of a task that is not seen, and what is agrees with what is
\* seen about the first input; every record there is is sound.
Written ==
  /\ \A t \in Tasks : live[t] # NoTask => Sound(live[t])
  /\ \A t \in Tasks : table[t] # NoTask =>
        live[t] # NoTask /\ Sound(table[t]) /\ FirstInput(table[t]) = FirstInput(live[t])
  /\ \A i \in DOMAIN queue :
        LET t == queue[i].task  record == queue[i].record
        IN live[t] # NoTask /\ Sound(record) /\ FirstInput(record) = FirstInput(live[t])

\* The last write queued for a task is what is seen of it; what makes TableTrailsLive
\* inductive is that it names that write.
IsNewest(t, i) == i \in QueuedFor(t) /\ \A j \in QueuedFor(t) : j <= i
Trails(t) ==
  \/ \E i \in QueuedFor(t) : IsNewest(t, i) /\ live[t] = queue[i].record
  \/ QueuedFor(t) = {} /\ (t \in unsaved \/ live[t] = table[t])

StoreInv == Typed /\ Written /\ \A t \in Tasks : Trails(t)

\* A step leaves the first input of every task.
FirstsKept == \A t \in Known(live) : live'[t] # NoTask => FirstInput(live'[t]) = FirstInput(live[t])
-----------------------------------------------------------------------------
(* Records *)

LEMMA MaxIsNewest ==
  ASSUME NEW t, NEW i \in Nat, QueuedFor(t) \subseteq Nat, IsNewest(t, i)
  PROVE  Max(QueuedFor(t)) = i
<1>1. \A j \in QueuedFor(t) : (\A k \in QueuedFor(t) : j >= k) => j = i
  BY DEF IsNewest
<1>2. i \in QueuedFor(t) /\ \A k \in QueuedFor(t) : i >= k
  BY DEF IsNewest
<1> QED BY <1>1, <1>2 DEF Max

LEMMA RecordsExist == \A record \in Records : record # NoTask
BY DEF Records, NoTask, Running, Interrupted, Terminal

LEMMA AbsentIsNoHistory == Absent \notin Seq(Messages)
<1> SUFFICES ASSUME Absent \in Seq(Messages) PROVE FALSE
  OBVIOUS
<1>1. Absent[1] \in Messages
  BY DEF Absent
<1> QED BY <1>1, StoreAssumption DEF Absent

\* What a record has for its history is a sequence of messages.
LEMMA SeededType ==
  ASSUME NEW record \in Records
  PROVE  Seeded(record) \in Seq(Messages)
BY DEF Records, Seeded

\* Methods that leave the history and the ids alone.
LEMMA SameHistory ==
  ASSUME NEW record \in Records, NEW other \in Records, Sound(record),
         other.inputs = record.inputs, other.ids = record.ids,
         record.inputs = Absent => other.parts = record.parts
  PROVE  Sound(other) /\ FirstInput(other) = FirstInput(record)
<1>1. Seeded(other) = Seeded(record)
  BY DEF Seeded
<1> QED BY <1>1 DEF Sound, FirstInput

LEMMA StampedFacts ==
  ASSUME NEW record \in Records, NEW now \in Nat
  PROVE  /\ Stamped(record, now) \in Records
         /\ Stamped(record, now).inputs = record.inputs /\ Stamped(record, now).ids = record.ids
         /\ Stamped(record, now).parts = record.parts
         /\ Stamped(record, now).state = record.state
<1>1. record.rev \in Nat /\ record.rev + 1 \in Nat
  BY DEF Records
<1> QED BY <1>1 DEF Stamped, Records

LEMMA WithStateKeeps ==
  ASSUME NEW record \in Records, Sound(record), NEW now \in Nat, NEW why \in BOOLEAN,
         NEW new \in Running \cup Interrupted \cup Terminal
  PROVE  /\ WithState(record, new, why, now) \in Records
         /\ WithState(record, new, why, now).state = new
         /\ Sound(WithState(record, new, why, now))
         /\ FirstInput(WithState(record, new, why, now)) = FirstInput(record)
<1> DEFINE other == WithState(record, new, why, now)
<1>1. (why \/ (new = "FAILED" /\ record.why)) \in BOOLEAN
  OBVIOUS
<1>2. /\ other \in Records /\ other.inputs = record.inputs /\ other.ids = record.ids
      /\ other.parts = record.parts /\ other.state = new
  BY <1>1, StampedFacts DEF WithState, Records
<1> HIDE DEF other
<1>3. Sound(other) /\ FirstInput(other) = FirstInput(record)
  BY <1>2, SameHistory
<1> QED BY <1>2, <1>3 DEF other

LEMMA ToSetOfAppend ==
  ASSUME NEW S, NEW s \in Seq(S), NEW m \in S
  PROVE  /\ Append(s, m) \in Seq(S) /\ Append(s, m) # <<>>
         /\ ToSet(Append(s, m)) = ToSet(s) \cup {m}
         /\ IsInjective(s) /\ m \notin ToSet(s) => IsInjective(Append(s, m))
         /\ s # <<>> => Head(Append(s, m)) = Head(s)
         /\ Last(Append(s, m)) = m
<1>1. /\ Append(s, m) \in Seq(S) /\ DOMAIN s = 1..Len(s) /\ Len(s) \in Nat
      /\ DOMAIN Append(s, m) = 1..(Len(s) + 1) /\ Len(Append(s, m)) = Len(s) + 1
      /\ \A i \in 1..Len(s) : Append(s, m)[i] = s[i]
      /\ Append(s, m)[Len(s) + 1] = m
  OBVIOUS
<1>2. \A i \in 1..(Len(s) + 1) : i \in 1..Len(s) \/ i = Len(s) + 1
  BY <1>1
<1>3. ToSet(Append(s, m)) = ToSet(s) \cup {m}
  BY <1>1, <1>2 DEF ToSet
<1>4. IsInjective(s) /\ m \notin ToSet(s) => IsInjective(Append(s, m))
  BY <1>1, <1>2 DEF IsInjective, ToSet
<1>5. s # <<>> => Head(Append(s, m)) = Head(s)
  BY <1>1
<1>6. Append(s, m) # <<>>
  OBVIOUS
<1>7. Last(Append(s, m)) = m
  BY <1>1 DEF Last
<1> QED BY <1>1, <1>3, <1>4, <1>5, <1>6, <1>7

\* The message is in the history then, and the first one is still the first.
LEMMA WithInputKeeps ==
  ASSUME NEW record \in Records, Sound(record), NEW m \in Messages, m \notin record.ids,
         NEW now \in Nat
  PROVE  /\ WithInput(record, m, now) \in Records
         /\ Sound(WithInput(record, m, now))
         /\ FirstInput(WithInput(record, m, now)) = FirstInput(record)
         /\ WithInput(record, m, now).inputs # Absent
         /\ m \in ToSet(Seeded(WithInput(record, m, now)))
<1>1. CASE record.inputs # Absent /\ Contains(record.inputs, m)
  <2>1. WithInput(record, m, now) = record
    BY <1>1 DEF WithInput
  <2>2. m \in ToSet(Seeded(record))
    BY <1>1, SeededType DEF Contains, ToSet, Seeded
  <2> QED BY <1>1, <2>1, <2>2
<1>2. CASE ~(record.inputs # Absent /\ Contains(record.inputs, m))
  <2> DEFINE h == Append(Seeded(record), m)
             other == [Stamped(record, now) EXCEPT !.inputs = h]
  <2>1. Seeded(record) \in Seq(Messages) /\ Seeded(record) # <<>> /\ IsInjective(Seeded(record))
    BY SeededType DEF Sound
  <2>2. m \notin ToSet(Seeded(record))
    <3>1. CASE record.inputs = Absent
      <4>1. Seeded(record) = <<record.parts>> /\ record.parts # m
        BY <3>1 DEF Seeded, Sound
      <4> QED BY <4>1 DEF ToSet
    <3>2. CASE record.inputs # Absent
      BY <1>2, <2>1, <3>2 DEF Seeded, Contains, ToSet
    <3> QED BY <3>1, <3>2
  <2>3. /\ h \in Seq(Messages) /\ h # <<>> /\ IsInjective(h) /\ Head(h) = FirstInput(record)
        /\ ToSet(h) = ToSet(Seeded(record)) \cup {m} /\ h # Absent
    BY <2>1, <2>2, ToSetOfAppend, AbsentIsNoHistory DEF FirstInput
  <2> HIDE DEF h
  <2>4. WithInput(record, m, now) = other
    BY <1>2 DEF WithInput, h
  <2>5. other \in Records /\ other.inputs = h /\ other.ids = record.ids
    BY <2>3, StampedFacts DEF Records
  <2> HIDE DEF other
  <2>6. Seeded(other) = h
    BY <2>3, <2>5 DEF Seeded
  <2>7. Sound(other) /\ FirstInput(other) = FirstInput(record) /\ m \in ToSet(Seeded(other))
    BY <2>3, <2>5, <2>6 DEF Sound, FirstInput
  <2> QED BY <2>3, <2>4, <2>5, <2>7
<1> QED BY <1>1, <1>2

\* A record with a history: its parts and ids may change.
LEMMA WithPartsKeeps ==
  ASSUME NEW record \in Records, Sound(record), record.inputs # Absent,
         NEW m \in Messages, NEW now \in Nat
  PROVE  /\ WithParts(record, m, now) \in Records
         /\ Sound(WithParts(record, m, now))
         /\ FirstInput(WithParts(record, m, now)) = FirstInput(record)
         /\ WithParts(record, m, now).inputs = record.inputs
<1> DEFINE other == WithParts(record, m, now)
<1>1. other \in Records /\ other.inputs = record.inputs /\ other.ids = record.ids
  BY StampedFacts DEF WithParts, Records
<1> HIDE DEF other
<1>2. Sound(other) /\ FirstInput(other) = FirstInput(record)
  BY <1>1, SameHistory
<1> QED BY <1>1, <1>2 DEF other

LEMMA WithIdKeeps ==
  ASSUME NEW record \in Records, Sound(record), record.inputs # Absent,
         NEW m \in ToSet(Seeded(record)), m \in Messages, NEW now \in Nat
  PROVE  /\ WithId(record, m, now) \in Records
         /\ Sound(WithId(record, m, now))
         /\ FirstInput(WithId(record, m, now)) = FirstInput(record)
<1> DEFINE other == [Stamped(record, now) EXCEPT !.ids = @ \cup {m}]
<1>1. /\ other \in Records /\ other.inputs = record.inputs
      /\ other.ids = record.ids \cup {m}
  BY StampedFacts DEF Records
<1>2. WithId(record, m, now) \in {record, other}
  BY DEF WithId
<1> HIDE DEF other
<1>3. Seeded(other) = Seeded(record)
  BY <1>1 DEF Seeded
<1>4. Sound(other) /\ FirstInput(other) = FirstInput(record)
  BY <1>1, <1>3 DEF Sound, FirstInput
<1> QED BY <1>1, <1>2, <1>4

LEMMA CreatedIsSound ==
  ASSUME NEW instance \in Instances, NEW m \in Messages, NEW now \in Nat
  PROVE  Created(instance, m, now) \in Records /\ Sound(Created(instance, m, now))
<1> DEFINE record == Created(instance, m, now)
<1>1. <<m>> \in Seq(Messages) /\ <<m>> # Absent
  BY AbsentIsNoHistory
<1>2. /\ record \in Records /\ record.inputs = <<m>> /\ record.ids = {m}
  BY <1>1 DEF Created, Records, Running
<1> HIDE DEF record
<1>3. Seeded(record) = <<m>>
  BY <1>1, <1>2 DEF Seeded
<1>4. Sound(record)
  BY <1>1, <1>2, <1>3 DEF Sound, IsInjective, ToSet
<1> QED BY <1>2, <1>4 DEF record
-----------------------------------------------------------------------------
(* The newest record of a table *)

LEMMA LeastExists ==
  ASSUME NEW S \in SUBSET Nat, S # {}
  PROVE  \E n \in S : \A m \in S : n <= m
<1> DEFINE R == {p \in Nat \X Nat : p[1] < p[2]}
<1>1. IsWellFoundedOn(R, Nat)
  BY NatLessThanWellFounded DEF OpToRel
<1>2. \E n \in S : \A m \in S : ~ (<<m, n>> \in R)
  <2> HIDE DEF R
  <2> QED BY <1>1, WFMin
<1>3. PICK n \in S : \A m \in S : ~ (<<m, n>> \in R)
  BY <1>2
<1>4. \A m \in S : ~ (m < n)
  BY <1>3
<1> QED BY <1>4

LEMMA FunctionIsBounded ==
  ASSUME NEW n \in Nat, NEW g \in [1..n -> Nat]
  PROVE  \E b \in Nat : \A i \in 1..n : g[i] <= b
<1> DEFINE Bounds(k, b) == \A i \in 1..k : g[i] <= b
           Unbounded == {k \in 0..n : \A b \in Nat : ~ Bounds(k, b)}
<1>1. ASSUME Unbounded # {} PROVE FALSE
  <2>1. Unbounded \in SUBSET Nat
    OBVIOUS
  <2>2. PICK k \in Unbounded : \A j \in Unbounded : k <= j
    <3> HIDE DEF Unbounded
    <3> QED BY <1>1, <2>1, LeastExists
  <2>3. k \in 0..n /\ k # 0 /\ \A b \in Nat : ~ Bounds(k, b)
    <3>1. Bounds(0, 0)
      OBVIOUS
    <3> QED BY <2>2, <3>1
  <2>4. k - 1 \in 0..n /\ ~ (k <= k - 1)
    BY <2>3
  <2>5. k - 1 \notin Unbounded
    <3> HIDE DEF Unbounded
    <3> QED BY <2>2, <2>4
  <2>6. PICK b \in Nat : Bounds(k - 1, b)
    BY <2>4, <2>5
  <2>7. /\ \A i \in 1..k : i = k \/ i \in 1..(k - 1)
        /\ \A i \in 1..k : g[i] \in Nat
        /\ k \in 1..k
    BY <2>3
  <2>8. \A i \in 1..k : g[i] <= b \/ g[i] <= g[k]
    BY <2>6, <2>7
  <2>9. Bounds(k, b) \/ Bounds(k, g[k])
    BY <2>7, <2>8
  <2> QED BY <2>3, <2>6, <2>7, <2>9
<1>2. n \in 0..n
  OBVIOUS
<1> QED BY <1>1, <1>2

\* Of finitely many records none is newer than some time.
LEMMA TimesAreBounded ==
  ASSUME NEW view \in Views
  PROVE  \E b \in Nat : \A t \in Known(view) : view[t].at <= b
<1>1. PICK n \in Nat : ExistsSurjection(1..n, Tasks)
  BY StoreAssumption, FS_NatSurjection
<1>2. PICK f \in [1..n -> Tasks] : \A t \in Tasks : \E i \in 1..n : f[i] = t
  BY <1>1 DEF ExistsSurjection, Surjection
<1>3. \A t \in Known(view) : view[t].at \in Nat /\ t \in Tasks
  <2>1. \A t \in Known(view) : view[t] \in Records
    BY DEF Known, Views
  <2> QED BY <2>1 DEF Records, Known
<1> DEFINE g == [i \in 1..n |-> IF f[i] \in Known(view) THEN view[f[i]].at ELSE 0]
<1>4. g \in [1..n -> Nat]
  BY <1>3
<1>5. PICK b \in Nat : \A i \in 1..n : g[i] <= b
  <2> HIDE DEF g
  <2> QED BY <1>4, FunctionIsBounded
<1>6. \A t \in Known(view) : \E i \in 1..n : f[i] = t /\ g[i] = view[t].at
  BY <1>2, <1>3
<1> HIDE DEF g
<1> QED BY <1>5, <1>6

LEMMA NewestFacts ==
  ASSUME NEW view \in Views
  PROVE  Newest(view) \in Nat /\ \A t \in Known(view) : view[t].at <= Newest(view)
<1> DEFINE S == {view[t].at : t \in Known(view)} \cup {0}
           Over == {b \in Nat : \A x \in S : x <= b}
<1>1. S \subseteq Nat /\ 0 \in S
  <2>1. \A t \in Known(view) : view[t] \in Records
    BY DEF Known, Views
  <2> QED BY <2>1 DEF Records
<1>2. Over # {}
  <2>1. PICK b \in Nat : \A t \in Known(view) : view[t].at <= b
    BY TimesAreBounded
  <2>2. b \in Over
    BY <2>1
  <2> QED BY <2>2
<1>3. Newest(view) = Max(S) /\ \A t \in Known(view) : view[t].at \in S
  BY DEF Newest
<1> HIDE DEF S
<1>4. PICK m \in Over : \A b \in Over : m <= b
  <2>1. Over \in SUBSET Nat
    OBVIOUS
  <2> HIDE DEF Over
  <2> QED BY <1>2, <2>1, LeastExists
<1>5. m \in S
  <2> SUFFICES ASSUME m \notin S PROVE FALSE
    OBVIOUS
  <2>1. m \in Nat /\ \A x \in S : x \in Nat /\ x <= m /\ x # m
    BY <1>1, <1>4
  <2>2. m # 0
    BY <1>1
  <2>3. m - 1 \in Nat /\ \A x \in S : x <= m - 1
    BY <2>1, <2>2
  <2>4. m - 1 \in Over
    BY <2>3
  <2> QED BY <1>4, <2>1, <2>4
<1>6. Max(S) \in S /\ \A x \in S : Max(S) >= x
  <2>1. \E x \in S : \A y \in S : x >= y
    BY <1>1, <1>4, <1>5
  <2> QED BY <2>1 DEF Max
<1>7. Max(S) \in Nat /\ \A x \in S : x <= Max(S)
  BY <1>1, <1>6
<1> QED BY <1>3, <1>7
-----------------------------------------------------------------------------
(* Successive records of a task *)

\* Records a handler may put of t: they agree with what is seen of it.
Fitting(t, records) ==
  /\ records \in Seq(Records) /\ records # <<>>
  /\ \A i \in DOMAIN records :
       /\ Sound(records[i]) /\ FirstInput(records[i]) = FirstInput(Last(records))
       /\ live[t] # NoTask => FirstInput(records[i]) = FirstInput(live[t])

LEMMA LastIsRecord ==
  ASSUME NEW records \in Seq(Records), records # <<>>
  PROVE  /\ Len(records) \in Nat /\ Len(records) \in DOMAIN records
         /\ Last(records) = records[Len(records)] /\ Last(records) \in Records
BY DEF Last

LEMMA OneFits ==
  ASSUME NEW t, NEW record \in Records, Sound(record),
         live[t] # NoTask => FirstInput(record) = FirstInput(live[t])
  PROVE  Fitting(t, <<record>>) /\ Last(<<record>>) = record
BY DEF Fitting, Last

LEMMA AppendFits ==
  ASSUME NEW t, NEW records, Fitting(t, records), NEW record \in Records, Sound(record),
         FirstInput(record) = FirstInput(Last(records))
  PROVE  Fitting(t, Append(records, record)) /\ Last(Append(records, record)) = record
<1>1. /\ records \in Seq(Records) /\ Len(records) \in DOMAIN records
      /\ Last(records) = records[Len(records)]
  BY LastIsRecord DEF Fitting
<1>2. /\ Append(records, record) \in Seq(Records) /\ Append(records, record) # <<>>
      /\ Last(Append(records, record)) = record
  BY <1>1, ToSetOfAppend
<1>3. ASSUME NEW i \in DOMAIN Append(records, record)
      PROVE  Append(records, record)[i] = record
             \/ (i \in DOMAIN records /\ Append(records, record)[i] = records[i])
  BY <1>1
<1>4. live[t] # NoTask => FirstInput(record) = FirstInput(live[t])
  BY <1>1 DEF Fitting
<1> QED BY <1>2, <1>3, <1>4 DEF Fitting

LEMMA ConcatFacts ==
  ASSUME NEW S, NEW a \in Seq(S), NEW b \in Seq(S), NEW n \in Nat, n = Len(a),
         NEW k \in Nat, k = Len(b)
  PROVE  /\ DOMAIN a = 1..n /\ DOMAIN (a \o b) = 1..(n + k)
         /\ \A i \in 1..n : (a \o b)[i] = a[i]
         /\ \A i \in (n + 1)..(n + k) : i - n \in 1..k /\ (a \o b)[i] = b[i - n]
<1>1. /\ DOMAIN a = 1..n /\ DOMAIN (a \o b) = 1..(n + k)
      /\ \A i \in 1..n : (a \o b)[i] = a[i]
  OBVIOUS
<1>2. ASSUME NEW i \in (n + 1)..(n + k)
      PROVE  i - n \in 1..k /\ (a \o b)[i] = b[i - n]
  OBVIOUS
<1> QED BY <1>1, <1>2

\* What is put of a task is sound, is seen at once, and is the newest of its writes.
LEMMA PutKeeps ==
  ASSUME StoreInv, NEW t \in Tasks, NEW records, Fitting(t, records), Put(t, records),
         clock' \in Nat, running' \subseteq running \cup {t},
         t \in running' => Last(records).state \in Running \cup Interrupted,
         made' \in [ops : 0..MaxOps, fails : 0..MaxFails, crashes : 0..MaxCrashes]
  PROVE  StoreInv' /\ FirstsKept
<1> DEFINE added == [i \in DOMAIN records |-> [task |-> t, record |-> records[i]]]
<1>1. /\ live' = [live EXCEPT ![t] = Last(records)] /\ UNCHANGED <<table, unsaved>>
      /\ queue' = queue \o added /\ views' = Append(views, live')
  BY DEF Put
<1>2. /\ records \in Seq(Records) /\ records # <<>> /\ Len(records) \in DOMAIN records
      /\ Last(records) \in Records /\ Last(records) = records[Len(records)]
  BY LastIsRecord DEF Fitting
<1>3. /\ DOMAIN records = 1..Len(records) /\ Len(records) \in Nat /\ Len(records) > 0
      /\ \A i \in 1..Len(records) : records[i] \in Records
  BY <1>2
<1>4. added \in Seq(Writes) /\ Len(added) = Len(records)
  BY <1>3 DEF Writes
<1>5. \A i \in 1..Len(records) : added[i].task = t /\ added[i].record = records[i]
  BY <1>3
<1> HIDE DEF added
<1>6. live \in Views /\ queue \in Seq(Writes) /\ views \in Seq(Views) /\ views # <<>>
  BY DEF StoreInv, Typed
<1>7. \A u \in Tasks : live'[u] = IF u = t THEN Last(records) ELSE live[u]
  BY <1>1, <1>6 DEF Views
<1>8. live'[t] # NoTask /\ Known(live) \subseteq Known(live') /\ t \in Known(live')
  BY <1>2, <1>7, RecordsExist DEF Known
<1>9. Typed'
  <2>1. live' \in Views
    BY <1>1, <1>2, <1>6 DEF Views
  <2>2. queue' \in Seq(Writes)
    BY <1>1, <1>4, <1>6
  <2>3. views' \in Seq(Views) /\ views' # <<>> /\ Last(views') = live'
    BY <1>1, <1>6, <2>1, ToSetOfAppend
  <2>4. ASSUME NEW u \in running'
        PROVE  u \in Known(live') /\ live'[u].state \in Running \cup Interrupted
    <3>1. CASE u = t
      BY <1>2, <1>7, <1>8, <2>4, <3>1
    <3>2. CASE u # t
      BY <1>7, <1>8, <2>4, <3>2 DEF StoreInv, Typed, Known
    <3> QED BY <3>1, <3>2
  <2> QED BY <1>1, <2>1, <2>2, <2>3, <2>4 DEF StoreInv, Typed
<1>10. PICK n \in Nat : n = Len(queue)
  BY <1>6
<1>11. /\ DOMAIN queue = 1..n /\ DOMAIN queue' = 1..(n + Len(records))
       /\ \A i \in 1..n : queue'[i] = queue[i]
       /\ \A i \in (n + 1)..(n + Len(records)) : i - n \in 1..Len(records) /\ queue'[i] = added[i - n]
  <2>1. /\ added \in Seq(Writes) /\ queue \in Seq(Writes) /\ n \in Nat /\ n = Len(queue)
        /\ Len(records) \in Nat /\ Len(records) = Len(added) /\ queue' = queue \o added
    BY <1>1, <1>3, <1>4, <1>6, <1>10
  <2> QED BY <2>1, ConcatFacts
<1>12. \A i \in 1..(n + Len(records)) : i \in 1..n \/ i \in (n + 1)..(n + Len(records))
  BY <1>3
<1>13. \A i \in 1..n : queue[i].task \in Tasks
  <2>1. \A i \in 1..n : queue[i] \in Writes
    BY <1>6, <1>10
  <2> QED BY <2>1 DEF Writes
<1>14. FirstInput(Last(records)) = FirstInput(live[t]) \/ live[t] = NoTask
  BY <1>2 DEF Fitting
<1>15. Written'
  <2>1. \A u \in Tasks : live'[u] # NoTask => Sound(live'[u])
    BY <1>2, <1>7 DEF StoreInv, Written, Fitting
  <2>2. \A u \in Tasks : table[u] # NoTask =>
          live'[u] # NoTask /\ Sound(table[u]) /\ FirstInput(table[u]) = FirstInput(live'[u])
    BY <1>7, <1>8, <1>14 DEF StoreInv, Written
  <2>3. ASSUME NEW i \in DOMAIN queue'
        PROVE  /\ live'[queue'[i].task] # NoTask /\ Sound(queue'[i].record)
               /\ FirstInput(queue'[i].record) = FirstInput(live'[queue'[i].task])
    <3>1. CASE i \in 1..n
      <4>1. /\ queue'[i] = queue[i] /\ queue[i].task \in Tasks /\ live[queue[i].task] # NoTask
            /\ Sound(queue[i].record) /\ FirstInput(queue[i].record) = FirstInput(live[queue[i].task])
        BY <1>11, <1>13, <3>1 DEF StoreInv, Written
      <4> QED BY <4>1, <1>7, <1>8, <1>14
    <3>2. CASE i \in (n + 1)..(n + Len(records))
      <4>1. queue'[i].task = t /\ queue'[i].record = records[i - n] /\ i - n \in DOMAIN records
        BY <1>3, <1>5, <1>11, <3>2
      <4> QED BY <4>1, <1>7, <1>8 DEF Fitting
    <3> QED BY <2>3, <3>1, <3>2, <1>11, <1>12
  <2> QED BY <1>1, <2>1, <2>2, <2>3 DEF Written
<1>16. ASSUME NEW u \in Tasks PROVE Trails(u)'
  <2>1. CASE u = t
    <3> DEFINE last == n + Len(records)
    <3>1. last \in DOMAIN queue' /\ last - n = Len(records) /\ last \in (n + 1)..(n + Len(records))
      BY <1>3, <1>11
    <3>2. queue'[last].task = t /\ queue'[last].record = Last(records)
      BY <1>2, <1>3, <1>5, <1>11, <3>1
    <3>3. \A j \in DOMAIN queue' : j <= last
      BY <1>3, <1>11
    <3> QED BY <1>7, <2>1, <3>1, <3>2, <3>3 DEF Trails, IsNewest, QueuedFor
  <2>2. CASE u # t
    <3>1. QueuedFor(u)' = QueuedFor(u)
      BY <1>5, <1>11, <1>12, <2>2 DEF QueuedFor
    <3>2. live'[u] = live[u]
      BY <1>7, <2>2
    <3>3. \A i \in QueuedFor(u) : queue'[i] = queue[i]
      BY <1>11 DEF QueuedFor
    <3> QED BY <1>1, <3>1, <3>2, <3>3 DEF StoreInv, Trails, IsNewest
  <2> QED BY <2>1, <2>2
<1>17. FirstsKept
  BY <1>7, <1>14 DEF FirstsKept, Known
<1> QED BY <1>9, <1>15, <1>16, <1>17 DEF StoreInv
-----------------------------------------------------------------------------
(* Each handler keeps the store *)

LEMMA OperationFacts ==
  ASSUME StoreInv, NEW now, Operation(now)
  PROVE  /\ now \in Nat /\ clock' \in Nat
         /\ made' \in [ops : 0..MaxOps, fails : 0..MaxFails, crashes : 0..MaxCrashes]
<1>1. /\ clock \in Nat /\ MaxOps \in Nat
      /\ made \in [ops : 0..MaxOps, fails : 0..MaxFails, crashes : 0..MaxCrashes]
  BY StoreAssumption DEF StoreInv, Typed
<1>2. made.ops + 1 \in 0..MaxOps
  BY <1>1 DEF Operation
<1>3. now \in Nat /\ clock' = now
  BY <1>1 DEF Operation
<1> QED BY <1>1, <1>2, <1>3 DEF Operation

\* What is seen of a task is a sound record.
LEMMA SeenIsSound ==
  ASSUME StoreInv, NEW t \in Known(live)
  PROVE  t \in Tasks /\ live[t] \in Records /\ Sound(live[t]) /\ live[t] # NoTask
BY DEF StoreInv, Typed, Written, Known, Views

LEMMA StartedKeeps ==
  ASSUME StoreInv, NEW t \in Tasks, NEW records, Fitting(t, records), NEW now,
         Operation(now), t \notin running, Started(t, records, now)
  PROVE  StoreInv' /\ FirstsKept
<1>1. Last(records) \in Records /\ Sound(Last(records))
  BY LastIsRecord DEF Fitting
<1>2. ASSUME NEW new \in {"WORKING", "FAILED"}, NEW why \in BOOLEAN,
             Put(t, Append(records, WithState(Last(records), new, why, now))),
             running' \subseteq running \cup {t}, t \in running' => new = "WORKING"
      PROVE  StoreInv' /\ FirstsKept
  <2> DEFINE record == WithState(Last(records), new, why, now)
  <2>1. new \in Running \cup Interrupted \cup Terminal
    BY DEF Running, Terminal
  <2>2. /\ record \in Records /\ Sound(record) /\ FirstInput(record) = FirstInput(Last(records))
        /\ record.state = new
    BY <1>1, <2>1, OperationFacts, WithStateKeeps
  <2> HIDE DEF record
  <2>3. Fitting(t, Append(records, record)) /\ Last(Append(records, record)) = record
    BY <2>2, AppendFits
  <2>4. t \in running' => record.state \in Running \cup Interrupted
    BY <1>2, <2>2 DEF Running
  <2>5. Put(t, Append(records, record))
    BY <1>2 DEF record
  <2> QED BY <1>2, <2>3, <2>4, <2>5, OperationFacts, PutKeeps
<1> QED BY <1>2 DEF Started

LEMMA NewTaskKeeps ==
  ASSUME StoreInv, NEW instance \in Instances, NEW t \in Tasks, NEW m \in Messages, NEW now,
         NewTask(instance, t, m, now)
  PROVE  StoreInv' /\ FirstsKept
<1>1. /\ Operation(now) /\ live[t] = NoTask /\ t \notin running
      /\ Started(t, <<Created(instance, m, now)>>, now)
  BY DEF NewTask, Known, StoreInv, Typed
<1>2. Fitting(t, <<Created(instance, m, now)>>)
  BY <1>1, OperationFacts, CreatedIsSound, OneFits
<1> QED BY <1>1, <1>2, StartedKeeps

LEMMA PrependFits ==
  ASSUME NEW t, NEW records, Fitting(t, records), NEW record \in Records, Sound(record),
         FirstInput(record) = FirstInput(Last(records))
  PROVE  Fitting(t, <<record>> \o records)
<1>1. /\ records \in Seq(Records) /\ Len(records) \in Nat /\ Len(records) \in DOMAIN records
      /\ records # <<>> /\ Last(records) = records[Len(records)]
  BY LastIsRecord DEF Fitting
<1>2. <<record>> \in Seq(Records) /\ Len(<<record>>) = 1 /\ <<record>>[1] = record
  OBVIOUS
<1> DEFINE s == <<record>> \o records
<1>3. /\ s \in Seq(Records) /\ s # <<>> /\ Len(s) = 1 + Len(records)
      /\ DOMAIN s = 1..(1 + Len(records)) /\ s[1] = record
      /\ \A i \in 2..(1 + Len(records)) : i - 1 \in DOMAIN records /\ s[i] = records[i - 1]
  BY <1>1, <1>2
<1> HIDE DEF s
<1>4. Last(s) = Last(records)
  BY <1>1, <1>3 DEF Last
<1>5. live[t] # NoTask => FirstInput(record) = FirstInput(live[t])
  BY <1>1 DEF Fitting
<1>6. \A i \in DOMAIN s : i = 1 \/ i \in 2..(1 + Len(records))
  BY <1>1, <1>3
<1>7. \A i \in DOMAIN s : s[i] = record \/ \E j \in DOMAIN records : s[i] = records[j]
  BY <1>3, <1>6
<1>8. Fitting(t, s)
  BY <1>3, <1>4, <1>5, <1>7 DEF Fitting
<1> QED BY <1>8 DEF s

LEMMA ContinuationKeeps ==
  ASSUME StoreInv, NEW instance \in Instances, NEW t \in Tasks, NEW m \in Messages, NEW now,
         Continuation(instance, t, m, now)
  PROVE  StoreInv' /\ FirstsKept
<1> DEFINE record == live[t]
           input == WithInput(record, m, now)
           parts == WithParts(input, m, now)
           id == WithId(parts, m, now)
<1>1. /\ Operation(now) /\ m \notin record.ids /\ t \in Known(live) /\ t \notin running
      /\ Started(t, Accepted(record, m, now), now)
  BY DEF Continuation, Mine
<1>2. record \in Records /\ Sound(record) /\ record # NoTask /\ now \in Nat
  BY <1>1, SeenIsSound, OperationFacts
<1>3. /\ input \in Records /\ Sound(input) /\ FirstInput(input) = FirstInput(record)
      /\ input.inputs # Absent /\ m \in ToSet(Seeded(input))
  BY <1>1, <1>2, WithInputKeeps
<1>4. Accepted(record, m, now) = (IF input = record THEN <<>> ELSE <<input>>) \o <<parts, id>>
  BY DEF Accepted
<1> HIDE DEF input
<1>5. /\ parts \in Records /\ Sound(parts) /\ FirstInput(parts) = FirstInput(record)
      /\ parts.inputs = input.inputs
  BY <1>2, <1>3, WithPartsKeeps
<1> HIDE DEF parts
<1>6. m \in ToSet(Seeded(parts))
  BY <1>3, <1>5 DEF Seeded
<1>7. id \in Records /\ Sound(id) /\ FirstInput(id) = FirstInput(record)
  BY <1>2, <1>3, <1>5, <1>6, WithIdKeeps
<1> HIDE DEF id, record
<1>8. Fitting(t, <<parts, id>>)
  BY <1>5, <1>7 DEF Fitting, Last, record
<1>9. Fitting(t, <<input>> \o <<parts, id>>)
  <2>1. Last(<<parts, id>>) = id
    BY <1>5, <1>7 DEF Last
  <2> QED BY <1>3, <1>7, <1>8, <2>1, PrependFits
<1>10. Accepted(record, m, now) \in {<<parts, id>>, <<input>> \o <<parts, id>>}
  <2>1. <<>> \o <<parts, id>> = <<parts, id>>
    BY <1>5, <1>7
  <2> QED BY <1>4, <2>1 DEF id
<1>11. Started(t, Accepted(live[t], m, now), now)
  BY <1>1 DEF record
<1>12. Fitting(t, Accepted(live[t], m, now))
  BY <1>8, <1>9, <1>10 DEF record
<1> HIDE DEF record
<1> QED BY <1>1, <1>11, <1>12, StartedKeeps

LEMMA RevisionKeeps ==
  ASSUME StoreInv, NEW t \in Tasks, NEW now, Revision(t, now)
  PROVE  StoreInv' /\ FirstsKept
<1> DEFINE record == Stamped(live[t], now)
<1>1. /\ t \in Known(live) /\ running' = running /\ Put(t, <<record>>)
      /\ live[t].state \in Running \cup Interrupted
  BY DEF Revision, StoreInv, Typed
<1>2. now \in Nat /\ clock' \in Nat
      /\ made' \in [ops : 0..MaxOps, fails : 0..MaxFails, crashes : 0..MaxCrashes]
  BY OperationFacts DEF Revision
<1>3. live[t] \in Records /\ Sound(live[t])
  BY <1>1, SeenIsSound
<1>4. /\ record \in Records /\ record.inputs = live[t].inputs /\ record.ids = live[t].ids
      /\ record.parts = live[t].parts /\ record.state = live[t].state
  BY <1>2, <1>3, StampedFacts
<1> HIDE DEF record
<1>5. Sound(record) /\ FirstInput(record) = FirstInput(live[t])
  BY <1>3, <1>4, SameHistory
<1>6. Fitting(t, <<record>>) /\ Last(<<record>>) = record
  BY <1>4, <1>5, OneFits
<1> QED BY <1>1, <1>2, <1>4, <1>6, PutKeeps

LEMMA StateKeeps ==
  ASSUME StoreInv, NEW t \in Known(live), NEW now, Operation(now), NEW why \in BOOLEAN,
         NEW new \in Running \cup Interrupted \cup Terminal,
         Put(t, <<WithState(live[t], new, why, now)>>), running' \subseteq running,
         t \in running' => new \in Running \cup Interrupted
  PROVE  StoreInv' /\ FirstsKept
<1> DEFINE record == WithState(live[t], new, why, now)
<1>1. t \in Tasks /\ live[t] \in Records /\ Sound(live[t])
  BY SeenIsSound
<1>2. /\ record \in Records /\ Sound(record) /\ FirstInput(record) = FirstInput(live[t])
      /\ record.state = new
  BY <1>1, OperationFacts, WithStateKeeps
<1>3. Put(t, <<record>>)
  OBVIOUS
<1> HIDE DEF record
<1>4. Fitting(t, <<record>>) /\ Last(<<record>>) = record
  BY <1>2, OneFits
<1> QED BY <1>1, <1>2, <1>3, <1>4, OperationFacts, PutKeeps
-----------------------------------------------------------------------------
(* The storage domain keeps it too *)

\* The head of the queue leaves: the others move up by one.
LEMMA QueueMovesUp ==
  ASSUME StoreInv, queue # <<>>, queue' = Tail(queue)
  PROVE  /\ Head(queue) = queue[1] /\ 1 \in DOMAIN queue /\ queue' \in Seq(Writes)
         /\ Head(queue).task \in Tasks /\ Head(queue).record \in Records
         /\ \A i \in DOMAIN queue' : i + 1 \in DOMAIN queue /\ queue'[i] = queue[i + 1]
         /\ \A i \in DOMAIN queue : i # 1 => i - 1 \in DOMAIN queue' /\ queue[i] = queue'[i - 1]
<1>1. queue \in Seq(Writes)
  BY DEF StoreInv, Typed
<1>2. PICK n \in Nat : n = Len(queue) /\ n > 0
  BY <1>1
<1>3. /\ Head(queue) = queue[1] /\ DOMAIN queue = 1..n /\ queue[1] \in Writes
      /\ Tail(queue) \in Seq(Writes) /\ DOMAIN Tail(queue) = 1..(n - 1)
      /\ \A i \in 1..(n - 1) : Tail(queue)[i] = queue[i + 1]
  BY <1>1, <1>2
<1>4. \A i \in 1..n : i # 1 => i - 1 \in 1..(n - 1) /\ Tail(queue)[i - 1] = queue[i]
  BY <1>2, <1>3
<1> QED BY <1>2, <1>3, <1>4 DEF Writes

LEMMA TrailsMovesUp ==
  ASSUME StoreInv, queue # <<>>, queue' = Tail(queue), UNCHANGED live, NEW t \in Tasks,
         \/ t = Head(queue).task /\ (t \in unsaved' \/ table'[t] = Head(queue).record)
         \/ t # Head(queue).task /\ (t \in unsaved => t \in unsaved') /\ table'[t] = table[t]
  PROVE  Trails(t)'
<1>1. \A i \in DOMAIN queue : i \in Nat
  BY DEF StoreInv, Typed
<1>2. \A i \in DOMAIN queue' : i \in Nat
  BY QueueMovesUp
<1>3. \A i \in QueuedFor(t)' : i + 1 \in QueuedFor(t) /\ queue'[i] = queue[i + 1]
  BY QueueMovesUp DEF QueuedFor
<1>4. \A i \in QueuedFor(t) : i # 1 => i - 1 \in QueuedFor(t)' /\ queue[i] = queue'[i - 1]
  BY QueueMovesUp DEF QueuedFor
<1>5. CASE QueuedFor(t) = {}
  <2>1. t # Head(queue).task
    BY <1>5, QueueMovesUp DEF QueuedFor
  <2>2. QueuedFor(t)' = {}
    BY <1>3, <1>5
  <2>3. t \in unsaved \/ live[t] = table[t]
    BY <1>5 DEF StoreInv, Trails, IsNewest
  <2> QED BY <2>1, <2>2, <2>3 DEF Trails
<1>6. CASE QueuedFor(t) # {}
  <2>1. PICK i \in QueuedFor(t) : IsNewest(t, i) /\ live[t] = queue[i].record
    BY <1>6 DEF StoreInv, Trails
  <2>2. i \in Nat /\ i \in QueuedFor(t) /\ \A j \in QueuedFor(t) : j <= i /\ j \in Nat
    BY <1>1, <2>1 DEF IsNewest, QueuedFor
  <2>3. CASE i = 1
    <3>1. QueuedFor(t)' = {}
      <4>1. ASSUME NEW j \in QueuedFor(t)' PROVE FALSE
        <5>1. j \in Nat /\ j + 1 \in QueuedFor(t) /\ j \in DOMAIN queue' /\ j # 0
          BY <1>2, <1>3, <4>1, QueueMovesUp DEF QueuedFor
        <5> QED BY <2>2, <2>3, <5>1
      <4> QED BY <4>1
    <3>2. t = Head(queue).task /\ live[t] = Head(queue).record
      BY <2>1, <2>2, <2>3, QueueMovesUp DEF QueuedFor
    <3> QED BY <3>1, <3>2 DEF Trails
  <2>4. CASE i # 1
    <3>1. i - 1 \in QueuedFor(t)' /\ queue'[i - 1] = queue[i]
      BY <1>4, <2>2, <2>4
    <3>2. \A j \in QueuedFor(t)' : j <= i - 1
      <4>1. \A j \in QueuedFor(t)' : j \in Nat /\ j + 1 <= i
        BY <1>2, <1>3, <2>2 DEF QueuedFor
      <4> QED BY <2>2, <4>1
    <3> QED BY <2>1, <3>1, <3>2 DEF Trails, IsNewest
  <2> QED BY <2>3, <2>4
<1> QED BY <1>5, <1>6

LEMMA WriteKeeps ==
  ASSUME StoreInv, Write
  PROVE  StoreInv' /\ FirstsKept
<1> DEFINE head == Head(queue)
<1>1. /\ queue # <<>> /\ queue' = Tail(queue) /\ UNCHANGED <<live, running, clock, made, views>>
      /\ table' = [table EXCEPT ![head.task] = head.record] /\ unsaved' = unsaved \ {head.task}
  BY DEF Write
<1>2. /\ head = queue[1] /\ 1 \in DOMAIN queue /\ head.task \in Tasks /\ head.record \in Records
      /\ queue' \in Seq(Writes)
  BY <1>1, QueueMovesUp
<1> HIDE DEF head
<1>3. table \in Views /\ table' \in Views
  BY <1>1, <1>2 DEF StoreInv, Typed, Views
<1>4. \A t \in Tasks : table'[t] = IF t = head.task THEN head.record ELSE table[t]
  BY <1>1, <1>3 DEF Views
<1>5. Typed'
  BY <1>1, <1>2, <1>3 DEF StoreInv, Typed, Known
<1>6. Written'
  <2>1. /\ live[head.task] # NoTask /\ Sound(head.record)
        /\ FirstInput(head.record) = FirstInput(live[head.task])
    BY <1>2 DEF StoreInv, Written
  <2>2. \A i \in DOMAIN queue' : i + 1 \in DOMAIN queue /\ queue'[i] = queue[i + 1]
    BY <1>1, QueueMovesUp
  <2>3. \A t \in Tasks : table'[t] # NoTask =>
          live[t] # NoTask /\ Sound(table'[t]) /\ FirstInput(table'[t]) = FirstInput(live[t])
    BY <1>4, <2>1 DEF StoreInv, Written
  <2> QED BY <1>1, <2>2, <2>3 DEF StoreInv, Written
<1>7. ASSUME NEW t \in Tasks PROVE Trails(t)'
  BY <1>1, <1>4, TrailsMovesUp DEF head
<1>8. FirstsKept
  BY <1>1 DEF FirstsKept
<1> QED BY <1>5, <1>6, <1>7, <1>8 DEF StoreInv

LEMMA WriteFailsKeeps ==
  ASSUME StoreInv, WriteFails
  PROVE  StoreInv' /\ FirstsKept
<1>1. /\ queue # <<>> /\ queue' = Tail(queue) /\ UNCHANGED <<live, table, running, clock, views>>
      /\ unsaved' = unsaved \cup {Head(queue).task}
  BY DEF WriteFails
<1>2. made' \in [ops : 0..MaxOps, fails : 0..MaxFails, crashes : 0..MaxCrashes]
  <2>1. /\ made \in [ops : 0..MaxOps, fails : 0..MaxFails, crashes : 0..MaxCrashes]
        /\ MaxFails \in Nat
    BY StoreAssumption DEF StoreInv, Typed
  <2>2. made.fails + 1 \in 0..MaxFails
    BY <2>1 DEF WriteFails
  <2> QED BY <2>1, <2>2 DEF WriteFails
<1>3. Typed'
  BY <1>1, <1>2, QueueMovesUp DEF StoreInv, Typed, Known
<1>4. Written'
  <2>1. \A i \in DOMAIN queue' : i + 1 \in DOMAIN queue /\ queue'[i] = queue[i + 1]
    BY <1>1, QueueMovesUp
  <2> QED BY <1>1, <2>1 DEF StoreInv, Written
<1>5. ASSUME NEW t \in Tasks PROVE Trails(t)'
  BY <1>1, TrailsMovesUp
<1>6. FirstsKept
  BY <1>1 DEF FirstsKept
<1> QED BY <1>3, <1>4, <1>5, <1>6 DEF StoreInv

LEMMA CrashKeeps ==
  ASSUME StoreInv, Crash
  PROVE  StoreInv' /\ FirstsKept
<1>1. /\ live' = table /\ table' = table /\ queue' = <<>> /\ running' = {} /\ unsaved' = {}
      /\ views' = <<table>> /\ clock' = clock
  BY DEF Crash
<1>2. made' \in [ops : 0..MaxOps, fails : 0..MaxFails, crashes : 0..MaxCrashes]
  <2>1. /\ made \in [ops : 0..MaxOps, fails : 0..MaxFails, crashes : 0..MaxCrashes]
        /\ MaxCrashes \in Nat
    BY StoreAssumption DEF StoreInv, Typed
  <2>2. made.crashes + 1 \in 0..MaxCrashes
    BY <2>1 DEF Crash
  <2> QED BY <2>1, <2>2 DEF Crash
<1>3. Last(<<table>>) = table
  BY DEF Last
<1>4. Typed'
  BY <1>1, <1>2, <1>3 DEF StoreInv, Typed
<1>5. Written'
  BY <1>1 DEF StoreInv, Written
<1>6. \A t \in Tasks : Trails(t)'
  BY <1>1 DEF Trails, QueuedFor
<1>7. FirstsKept
  BY <1>1 DEF FirstsKept, Known, StoreInv, Written
<1> QED BY <1>4, <1>5, <1>6, <1>7 DEF StoreInv
-----------------------------------------------------------------------------

LEMMA StoreInvInit == Init => StoreInv
<1> SUFFICES ASSUME Init PROVE StoreInv
  OBVIOUS
<1>1. /\ table \in Views /\ live = table /\ queue = <<>> /\ running = {}
      /\ clock = Newest(table)
      /\ views = <<live>> /\ \A t \in Tasks : table[t] # NoTask => Sound(table[t])
  BY TablesAssumption DEF Init, Views
<1>2. made \in [ops : 0..MaxOps, fails : 0..MaxFails, crashes : 0..MaxCrashes]
  BY StoreAssumption DEF Init
<1>3. clock \in Nat
  BY <1>1, NewestFacts
<1>4. Typed
  BY <1>1, <1>2, <1>3 DEF Typed, Last
<1> QED BY <1>1, <1>4 DEF StoreInv, Written, Trails, QueuedFor

LEMMA HandlersKeep ==
  ASSUME StoreInv, NEW now, Handlers(now)
  PROVE  StoreInv' /\ FirstsKept
<1>1. PICK t \in Tasks :
        \/ \E instance \in Instances, m \in Messages :
             NewTask(instance, t, m, now) \/ Continuation(instance, t, m, now)
        \/ Revision(t, now)
        \/ \E new \in Running \cup Interrupted : Report(t, new, now)
        \/ \E new \in Terminal \cup Interrupted : RunEnds(t, new, now)
        \/ Cancel(t, now)
  BY DEF Handlers
<1>2. running \subseteq Known(live)
  BY DEF StoreInv, Typed
<1>3. ASSUME NEW new \in Running \cup Interrupted, Report(t, new, now)
      PROVE  StoreInv' /\ FirstsKept
  BY <1>2, <1>3, StateKeeps DEF Report
<1>4. ASSUME NEW new \in Terminal \cup Interrupted, RunEnds(t, new, now)
      PROVE  StoreInv' /\ FirstsKept
  <2>1. (new # "COMPLETED") \in BOOLEAN /\ running' = running \ {t}
    BY <1>4 DEF RunEnds
  <2> QED BY <1>2, <1>4, <2>1, StateKeeps DEF RunEnds
<1>5. CASE Cancel(t, now)
  <2>1. "CANCELED" \in Running \cup Interrupted \cup Terminal /\ t \notin running'
    BY <1>5 DEF Terminal, Cancel
  <2> QED BY <1>5, <2>1, StateKeeps DEF Cancel
<1> QED BY <1>1, <1>3, <1>4, <1>5, NewTaskKeeps, ContinuationKeeps, RevisionKeeps

LEMMA StoreInvNext == StoreInv /\ [Next]_vars => StoreInv' /\ FirstsKept
<1> SUFFICES ASSUME StoreInv, [Next]_vars PROVE StoreInv' /\ FirstsKept
  OBVIOUS
<1>1. CASE UNCHANGED vars
  BY <1>1 DEF StoreInv, Typed, Written, Trails, IsNewest, QueuedFor, Known, FirstsKept, vars, stores
<1> QED BY <1>1, HandlersKeep, WriteKeeps, WriteFailsKeeps, CrashKeeps DEF Next

\* The records there are, in memory, in the table and on their way to it, are
\* sound and agree; the write queued last for a task is what is seen of it.
THEOREM StoreHolds == Spec => []StoreInv
<1>1. StoreInv /\ [Next]_vars => StoreInv'
  BY StoreInvNext
<1> QED BY <1>1, StoreInvInit, PTL DEF Spec

\* What the domain holds of a task, with what is queued for it, is what is seen
\* of it, unless its last write to arrive failed.
THEOREM TableFollows == Spec => []TableTrailsLive
<1>1. StoreInv => TableTrailsLive
  <2> SUFFICES ASSUME StoreInv, NEW t \in Tasks
               PROVE  \/ t \in unsaved /\ QueuedFor(t) = {}
                      \/ live[t] = IF QueuedFor(t) = {} THEN table[t]
                                   ELSE queue[Max(QueuedFor(t))].record
    BY DEF TableTrailsLive
  <2>1. QueuedFor(t) \subseteq Nat
    BY DEF StoreInv, Typed, QueuedFor
  <2>2. CASE \E i \in QueuedFor(t) : IsNewest(t, i) /\ live[t] = queue[i].record
    <3>1. PICK i \in QueuedFor(t) : IsNewest(t, i) /\ live[t] = queue[i].record
      BY <2>2
    <3>2. i \in QueuedFor(t) /\ i \in Nat
      BY <2>1, <3>1 DEF IsNewest
    <3>3. Max(QueuedFor(t)) = i
      BY <2>1, <3>1, <3>2, MaxIsNewest
    <3> QED BY <3>1, <3>2, <3>3
  <2> QED BY <2>2 DEF StoreInv, Trails
<1> QED BY <1>1, StoreHolds, PTL

\* In memory, in the table and so after a crash: what a task has accepted is in
\* its history, and no message is there twice.
THEOREM MessagesKept == Spec => []AcceptedOnce
<1>1. StoreInv => AcceptedOnce
  BY DEF StoreInv, Written, AcceptedOnce, Sound, Inputs
<1> QED BY <1>1, StoreHolds, PTL

\* The table and the queue hold tasks that are seen, and only tasks that have not
\* settled are run.
THEOREM StoreTyped == Spec => []TypeOK
<1>1. StoreInv => TypeOK
  <2> SUFFICES ASSUME StoreInv PROVE TypeOK
    OBVIOUS
  <2>1. \A i \in DOMAIN queue : queue[i].task \in Tasks /\ live[queue[i].task] # NoTask
    <3>1. \A i \in DOMAIN queue : queue[i] \in Writes
      BY DEF StoreInv, Typed
    <3> QED BY <3>1 DEF StoreInv, Written, Writes
  <2>2. Known(table) \subseteq Known(live)
    BY DEF StoreInv, Written, Known
  <2> QED BY <2>1, <2>2 DEF StoreInv, Typed, TypeOK, Known
<1> QED BY <1>1, StoreHolds, PTL

\* No step, a crash included, changes the first input of a task.
THEOREM FirstStays == Spec => FirstInputStays
<1>1. StoreInv /\ [Next]_vars =>
        [\A t \in Known(live) :
           live'[t] # NoTask => Head(Inputs(live'[t])) = Head(Inputs(live[t]))]_live
  BY StoreInvNext DEF FirstsKept, FirstInput, Inputs
<1> QED BY <1>1, StoreHolds, PTL DEF Spec, FirstInputStays
-----------------------------------------------------------------------------
(* Ages: the views of a process follow one another *)

\* What a method makes of a record: the owner stays, the time moves on.
Follows(record, other) == other.owner = record.owner /\ record.at <= other.at
Ages(record, other, now) == Follows(record, other) /\ other.at <= now

\* A later view has what an earlier one has, of the same owner and no older.
Onwards(view, later) ==
  \A u \in Known(view) : u \in Known(later) /\ Follows(view[u], later[u])

\* No record is newer than the time, and the views of the process go onwards.
Dated ==
  /\ \A t \in Tasks : live[t] # NoTask => live[t].at <= clock
  /\ \A t \in Tasks : table[t] # NoTask => table[t].at <= clock
  /\ \A i \in DOMAIN queue : queue[i].record.at <= clock
ViewsInv == Dated /\ \A i, j \in DOMAIN views : i <= j => Onwards(views[i], views[j])

LEMMA AgesTwice ==
  ASSUME NEW a \in Records, NEW b \in Records, NEW c \in Records, NEW now \in Nat, NEW later \in Nat,
         Ages(a, b, now), Ages(b, c, later)
  PROVE  Ages(a, c, later)
BY DEF Ages, Follows, Records

LEMMA StampedAges ==
  ASSUME NEW record \in Records, NEW now \in Nat, record.at <= now
  PROVE  /\ Stamped(record, now) \in Records
         /\ Ages(record, Stamped(record, now), now) /\ Ages(record, record, now)
<1>1. Stamped(record, now).owner = record.owner /\ Stamped(record, now).at = now
  BY DEF Stamped, Records
<1>2. record.at \in Nat
  BY DEF Records
<1>3. Ages(record, Stamped(record, now), now) /\ Ages(record, record, now)
  BY <1>1, <1>2 DEF Ages, Follows
<1> QED BY <1>3, StampedFacts

LEMMA WithStateAges ==
  ASSUME NEW record \in Records, NEW now \in Nat, record.at <= now, NEW new, NEW why
  PROVE  Ages(record, WithState(record, new, why, now), now)
<1> DEFINE stamped == Stamped(record, now)
<1>1. stamped \in Records /\ Ages(record, stamped, now)
  BY StampedAges
<1> HIDE DEF stamped
<1>2. /\ WithState(record, new, why, now).owner = stamped.owner
      /\ WithState(record, new, why, now).at = stamped.at
  BY <1>1 DEF WithState, Records, stamped
<1> QED BY <1>1, <1>2 DEF Ages, Follows

LEMMA WithInputAges ==
  ASSUME NEW record \in Records, NEW now \in Nat, record.at <= now, NEW m
  PROVE  Ages(record, WithInput(record, m, now), now)
<1> DEFINE stamped == Stamped(record, now)
           other == [stamped EXCEPT !.inputs = Append(Seeded(record), m)]
<1>1. stamped \in Records /\ Ages(record, stamped, now) /\ Ages(record, record, now)
  BY StampedAges
<1>2. WithInput(record, m, now) \in {record, other}
  BY DEF WithInput
<1> HIDE DEF stamped
<1>3. other.owner = stamped.owner /\ other.at = stamped.at
  BY <1>1 DEF Records
<1> QED BY <1>1, <1>2, <1>3 DEF Ages, Follows

LEMMA WithPartsAges ==
  ASSUME NEW record \in Records, NEW now \in Nat, record.at <= now, NEW m
  PROVE  Ages(record, WithParts(record, m, now), now)
<1> DEFINE stamped == Stamped(record, now)
<1>1. stamped \in Records /\ Ages(record, stamped, now)
  BY StampedAges
<1>2. WithParts(record, m, now) = [stamped EXCEPT !.parts = m]
  BY DEF WithParts
<1> HIDE DEF stamped
<1>3. WithParts(record, m, now).owner = stamped.owner /\ WithParts(record, m, now).at = stamped.at
  BY <1>1, <1>2 DEF Records
<1> QED BY <1>1, <1>3 DEF Ages, Follows

LEMMA WithIdAges ==
  ASSUME NEW record \in Records, NEW now \in Nat, record.at <= now, NEW m
  PROVE  Ages(record, WithId(record, m, now), now)
<1> DEFINE stamped == Stamped(record, now)
           other == [stamped EXCEPT !.ids = @ \cup {m}]
<1>1. stamped \in Records /\ Ages(record, stamped, now) /\ Ages(record, record, now)
  BY StampedAges
<1>2. WithId(record, m, now) \in {record, other}
  BY DEF WithId
<1> HIDE DEF stamped
<1>3. other.owner = stamped.owner /\ other.at = stamped.at
  BY <1>1 DEF Records
<1> QED BY <1>1, <1>2, <1>3 DEF Ages, Follows

LEMMA OnwardsTwice ==
  ASSUME NEW a \in Views, NEW b \in Views, NEW c \in Views, Onwards(a, b), Onwards(b, c)
  PROVE  Onwards(a, c)
<1> SUFFICES ASSUME NEW u \in Known(a) PROVE u \in Known(c) /\ Follows(a[u], c[u])
  BY DEF Onwards
<1>1. u \in Known(b) /\ u \in Known(c) /\ Follows(a[u], b[u]) /\ Follows(b[u], c[u])
  BY DEF Onwards
<1>2. a[u] \in Records /\ b[u] \in Records /\ c[u] \in Records
  BY <1>1 DEF Known, Views
<1>3. a[u].at \in Nat /\ b[u].at \in Nat /\ c[u].at \in Nat
  BY <1>2 DEF Records
<1> QED BY <1>1, <1>3 DEF Follows

LEMMA OnwardsSelf ==
  ASSUME NEW view \in Views
  PROVE  Onwards(view, view)
<1>1. \A u \in Known(view) : view[u] \in Records
  BY DEF Known, Views
<1>2. \A u \in Known(view) : view[u].at \in Nat
  BY <1>1 DEF Records
<1> QED BY <1>2 DEF Onwards, Follows

\* Records of t that follow what is seen of it.
Aging(t, records, now) ==
  /\ records \in Seq(Records) /\ records # <<>>
  /\ \A i \in DOMAIN records :
       records[i].at <= now /\ (live[t] # NoTask => Ages(live[t], records[i], now))

LEMMA PutWrites ==
  ASSUME StoreInv, NEW t \in Tasks, NEW records \in Seq(Records), Put(t, records)
  PROVE  \A i \in DOMAIN queue' :
           \/ i \in DOMAIN queue /\ queue'[i] = queue[i]
           \/ \E j \in DOMAIN records : queue'[i].record = records[j]
<1> DEFINE added == [i \in DOMAIN records |-> [task |-> t, record |-> records[i]]]
<1>1. queue' = queue \o added /\ queue \in Seq(Writes)
  BY DEF Put, StoreInv, Typed
<1>2. PICK n, k \in Nat : n = Len(queue) /\ k = Len(records)
  BY <1>1
<1>3. added \in Seq(Writes) /\ Len(added) = k /\ DOMAIN records = 1..k
  BY <1>2 DEF Writes
<1>4. \A j \in 1..k : added[j].record = records[j]
  BY <1>3
<1> HIDE DEF added
<1>5. /\ DOMAIN queue = 1..n /\ DOMAIN queue' = 1..(n + k)
      /\ \A i \in 1..n : queue'[i] = queue[i]
      /\ \A i \in (n + 1)..(n + k) : i - n \in 1..k /\ queue'[i] = added[i - n]
  <2>1. /\ added \in Seq(Writes) /\ queue \in Seq(Writes) /\ n \in Nat /\ n = Len(queue)
        /\ k \in Nat /\ k = Len(added) /\ queue' = queue \o added
    BY <1>1, <1>2, <1>3
  <2> QED BY <2>1, ConcatFacts
<1>6. \A i \in 1..(n + k) : i \in 1..n \/ i \in (n + 1)..(n + k)
  BY <1>2
<1> QED BY <1>3, <1>4, <1>5, <1>6

LEMMA PutGoesOn ==
  ASSUME StoreInv, StoreInv', ViewsInv, NEW t \in Tasks, NEW records, NEW now \in Nat,
         Aging(t, records, now), Put(t, records), clock' = now, clock <= now
  PROVE  ViewsInv'
<1>1. /\ live' = [live EXCEPT ![t] = Last(records)] /\ UNCHANGED table
      /\ views' = Append(views, live')
  BY DEF Put
<1>2. /\ records \in Seq(Records) /\ Len(records) \in DOMAIN records
      /\ Last(records) = records[Len(records)] /\ Last(records) \in Records
  BY LastIsRecord DEF Aging
<1>3. /\ live \in Views /\ live' \in Views /\ table \in Views /\ clock \in Nat
      /\ queue \in Seq(Writes) /\ views \in Seq(Views) /\ views # <<>> /\ Last(views) = live
  BY DEF StoreInv, Typed
<1>4. \A u \in Tasks : live'[u] = IF u = t THEN Last(records) ELSE live[u]
  BY <1>1, <1>3 DEF Views
<1>5. Last(records).at <= now /\ (live[t] # NoTask => Ages(live[t], Last(records), now))
  BY <1>2 DEF Aging
<1>6. Dated'
  <2>1. \A u \in Tasks : live'[u] # NoTask => live'[u].at <= clock'
    <3>1. \A u \in Tasks : live[u] # NoTask => live[u] \in Records /\ live[u].at <= clock
      BY <1>3 DEF ViewsInv, Dated, Views
    <3> QED BY <1>3, <1>4, <1>5, <3>1 DEF Records
  <2>2. \A u \in Tasks : table'[u] # NoTask => table'[u].at <= clock'
    <3>1. \A u \in Tasks : table[u] # NoTask => table[u] \in Records /\ table[u].at <= clock
      BY <1>3 DEF ViewsInv, Dated, Views
    <3> QED BY <1>1, <1>3, <3>1 DEF Records
  <2>3. \A i \in DOMAIN queue' : queue'[i].record.at <= clock'
    <3>1. \A i \in DOMAIN queue : queue[i].record \in Records /\ queue[i].record.at <= clock
      <4>1. \A i \in DOMAIN queue : queue[i] \in Writes
        BY <1>3
      <4> QED BY <4>1 DEF Writes, ViewsInv, Dated
    <3>2. \A i \in DOMAIN queue : queue[i].record.at <= now
      BY <1>3, <3>1 DEF Records
    <3>3. \A j \in DOMAIN records : records[j].at <= now
      BY DEF Aging
    <3> QED BY <1>2, <3>2, <3>3, PutWrites
  <2> QED BY <2>1, <2>2, <2>3 DEF Dated
<1>7. Onwards(live, live')
  <2> SUFFICES ASSUME NEW u \in Known(live)
               PROVE  u \in Known(live') /\ Follows(live[u], live'[u])
    BY DEF Onwards
  <2>1. u \in Tasks /\ live[u] # NoTask /\ live[u] \in Records
    BY <1>3 DEF Known, Views
  <2>2. live'[u] # NoTask
    BY <1>2, <1>4, <2>1, RecordsExist
  <2>3. Follows(live[u], live[u])
    BY <2>1 DEF Follows, Records
  <2>4. Follows(live[u], live'[u])
    BY <1>4, <1>5, <2>1, <2>3 DEF Ages
  <2> QED BY <2>1, <2>2, <2>4 DEF Known
<1>8. ASSUME NEW i \in DOMAIN views', NEW j \in DOMAIN views', i <= j
      PROVE  Onwards(views'[i], views'[j])
  <2>1. PICK n \in Nat : n = Len(views) /\ n > 0
    BY <1>3
  <2>2. /\ DOMAIN views = 1..n /\ DOMAIN views' = 1..(n + 1) /\ views[n] = live
        /\ views'[n + 1] = live' /\ \A k \in 1..n : views'[k] = views[k] /\ views[k] \in Views
    BY <1>1, <1>3, <2>1 DEF Last
  <2>3. CASE j \in 1..n
    <3>1. i \in 1..n
      BY <1>8, <2>1, <2>2, <2>3
    <3> QED BY <1>8, <2>2, <2>3, <3>1 DEF ViewsInv
  <2>4. CASE j = n + 1 /\ i \in 1..n
    <3>1. Onwards(views[i], live) /\ views[i] \in Views
      BY <2>1, <2>2, <2>4 DEF ViewsInv
    <3>2. Onwards(views[i], live')
      BY <1>3, <1>7, <3>1, OnwardsTwice
    <3> QED BY <2>2, <2>4, <3>2
  <2>5. CASE j = n + 1 /\ i = n + 1
    BY <1>3, <2>2, <2>5, OnwardsSelf
  <2>6. j \in 1..n \/ (j = n + 1 /\ (i \in 1..n \/ i = n + 1))
    <3>1. i \in 1..(n + 1) /\ j \in 1..(n + 1)
      BY <2>2
    <3> QED BY <2>1, <3>1
  <2> QED BY <2>3, <2>4, <2>5, <2>6
<1> QED BY <1>6, <1>8 DEF ViewsInv

LEMMA OperationGoesOn ==
  ASSUME StoreInv, NEW now, Operation(now)
  PROVE  now \in Nat /\ clock' = now /\ clock <= now /\ clock \in Nat
BY DEF Operation, StoreInv, Typed

\* What is seen of a task is not from the future.
LEMMA SeenIsDated ==
  ASSUME StoreInv, ViewsInv, NEW t \in Known(live), NEW now, Operation(now)
  PROVE  live[t] \in Records /\ live[t].at \in Nat /\ live[t].at <= now /\ live[t] # NoTask
<1>1. live[t] \in Records /\ live[t] # NoTask /\ live[t].at <= clock
  BY SeenIsSound DEF ViewsInv, Dated
<1>2. live[t].at \in Nat
  BY <1>1 DEF Records
<1> QED BY <1>1, <1>2, OperationGoesOn

LEMMA OneAges ==
  ASSUME NEW t, NEW record \in Records, NEW now, record.at <= now,
         live[t] # NoTask => Ages(live[t], record, now)
  PROVE  Aging(t, <<record>>, now)
BY DEF Aging

LEMMA AppendAges ==
  ASSUME NEW t, NEW records, NEW now, Aging(t, records, now),
         NEW record \in Records, record.at <= now, live[t] # NoTask => Ages(live[t], record, now)
  PROVE  Aging(t, Append(records, record), now)
<1>1. /\ Append(records, record) \in Seq(Records) /\ Append(records, record) # <<>>
      /\ \A i \in DOMAIN Append(records, record) : Append(records, record)[i] = record
            \/ (i \in DOMAIN records /\ Append(records, record)[i] = records[i])
  BY DEF Aging
<1> QED BY <1>1 DEF Aging

LEMMA StartedGoesOn ==
  ASSUME StoreInv, StoreInv', ViewsInv, NEW t \in Tasks, NEW records, NEW now,
         Operation(now), Aging(t, records, now), live[t] # NoTask => t \in Known(live),
         \A i \in DOMAIN records : Sound(records[i]), Started(t, records, now)
  PROVE  ViewsInv'
<1>1. now \in Nat /\ clock' = now /\ clock <= now
  BY OperationGoesOn
<1>2. ASSUME NEW new \in {"WORKING", "FAILED"}, NEW why \in BOOLEAN,
             Put(t, Append(records, WithState(Last(records), new, why, now)))
      PROVE  ViewsInv'
  <2> DEFINE last == Last(records)
             record == WithState(last, new, why, now)
  <2>1. /\ last \in Records /\ last.at <= now /\ Sound(last)
        /\ live[t] # NoTask => Ages(live[t], last, now)
    BY LastIsRecord DEF Aging
  <2> HIDE DEF last
  <2>2. record \in Records /\ Ages(last, record, now)
    <3>1. new \in Running \cup Interrupted \cup Terminal
      BY DEF Running, Terminal
    <3> QED BY <1>1, <2>1, <3>1, WithStateKeeps, WithStateAges
  <2>3. Put(t, Append(records, record))
    BY <1>2 DEF last
  <2> HIDE DEF record
  <2>4. record.at <= now
    BY <2>2 DEF Ages
  <2>5. live[t] # NoTask => Ages(live[t], record, now)
    <3> SUFFICES ASSUME live[t] # NoTask PROVE Ages(live[t], record, now)
      OBVIOUS
    <3>1. live[t] \in Records
      BY SeenIsSound
    <3> QED BY <1>1, <2>1, <2>2, <3>1, AgesTwice
  <2>6. Aging(t, Append(records, record), now)
    BY <2>2, <2>4, <2>5, AppendAges
  <2> QED BY <1>1, <2>3, <2>6, PutGoesOn
<1> QED BY <1>2 DEF Started

LEMMA NewTaskGoesOn ==
  ASSUME StoreInv, StoreInv', ViewsInv, NEW instance \in Instances, NEW t \in Tasks,
         NEW m \in Messages, NEW now, NewTask(instance, t, m, now)
  PROVE  ViewsInv'
<1> DEFINE record == Created(instance, m, now)
<1>1. Operation(now) /\ live[t] = NoTask /\ Started(t, <<record>>, now) /\ now \in Nat
  BY OperationGoesOn DEF NewTask, Known
<1>2. record \in Records /\ Sound(record)
  BY <1>1, CreatedIsSound
<1>3. record.at <= now
  BY <1>1 DEF Created
<1> HIDE DEF record
<1>4. Aging(t, <<record>>, now)
  BY <1>1, <1>2, <1>3, OneAges
<1>5. \A i \in DOMAIN <<record>> : Sound(<<record>>[i])
  BY <1>2
<1> QED BY <1>1, <1>4, <1>5, StartedGoesOn

LEMMA PrependElements ==
  ASSUME NEW S, NEW x \in S, NEW s \in Seq(S)
  PROVE  /\ <<x>> \o s \in Seq(S) /\ <<x>> \o s # <<>>
         /\ \A i \in DOMAIN (<<x>> \o s) :
              (<<x>> \o s)[i] = x \/ \E j \in DOMAIN s : (<<x>> \o s)[i] = s[j]
<1>1. <<x>> \in Seq(S) /\ Len(<<x>>) = 1 /\ <<x>>[1] = x
  OBVIOUS
<1> DEFINE w == <<x>> \o s
<1>2. /\ w \in Seq(S) /\ w # <<>> /\ DOMAIN w = 1..(1 + Len(s)) /\ w[1] = x
      /\ \A i \in 2..(1 + Len(s)) : i - 1 \in DOMAIN s /\ w[i] = s[i - 1]
  BY <1>1
<1>3. \A i \in 1..(1 + Len(s)) : i = 1 \/ i \in 2..(1 + Len(s))
  OBVIOUS
<1> HIDE DEF w
<1>4. \A i \in DOMAIN w : w[i] = x \/ \E j \in DOMAIN s : w[i] = s[j]
  BY <1>2, <1>3
<1> QED BY <1>2, <1>4 DEF w

LEMMA ContinuationGoesOn ==
  ASSUME StoreInv, StoreInv', ViewsInv, NEW instance \in Instances, NEW t \in Tasks,
         NEW m \in Messages, NEW now, Continuation(instance, t, m, now)
  PROVE  ViewsInv'
<1> DEFINE record == live[t]
           input == WithInput(record, m, now)
           parts == WithParts(input, m, now)
           id == WithId(parts, m, now)
<1>1. /\ Operation(now) /\ m \notin record.ids /\ t \in Known(live)
      /\ Started(t, Accepted(record, m, now), now)
  BY DEF Continuation, Mine
<1>2. /\ record \in Records /\ Sound(record) /\ now \in Nat /\ record.at <= now
      /\ record.at \in Nat
  BY <1>1, SeenIsSound, SeenIsDated, OperationGoesOn
<1>3. /\ input \in Records /\ Sound(input) /\ input.inputs # Absent
      /\ m \in ToSet(Seeded(input))
  BY <1>1, <1>2, WithInputKeeps
<1>4. Accepted(record, m, now) = (IF input = record THEN <<>> ELSE <<input>>) \o <<parts, id>>
  BY DEF Accepted
<1>5. Ages(record, input, now)
  BY <1>2, WithInputAges
<1> HIDE DEF input
<1>6. parts \in Records /\ Sound(parts) /\ parts.inputs = input.inputs
  BY <1>2, <1>3, WithPartsKeeps
<1>7. Ages(input, parts, now)
  BY <1>2, <1>3, <1>5, WithPartsAges DEF Ages
<1> HIDE DEF parts
<1>8. m \in ToSet(Seeded(parts))
  BY <1>3, <1>6 DEF Seeded
<1>9. id \in Records /\ Sound(id)
  BY <1>2, <1>3, <1>6, <1>8, WithIdKeeps
<1>10. Ages(parts, id, now)
  BY <1>2, <1>6, <1>7, WithIdAges DEF Ages
<1> HIDE DEF id, record
<1>11. Ages(record, parts, now) /\ Ages(record, id, now)
  BY <1>2, <1>3, <1>5, <1>6, <1>7, <1>9, <1>10, AgesTwice
<1>12. ASSUME NEW records \in Seq(Records), records # <<>>,
              \A i \in DOMAIN records : records[i] \in {input, parts, id}
       PROVE  Aging(t, records, now) /\ \A i \in DOMAIN records : Sound(records[i])
  <2>1. \A r \in {input, parts, id} : Sound(r) /\ r.at <= now /\ Ages(record, r, now)
    BY <1>3, <1>5, <1>6, <1>9, <1>11 DEF Ages
  <2> QED BY <1>12, <2>1 DEF Aging, record
<1>13. /\ Accepted(record, m, now) \in Seq(Records) /\ Accepted(record, m, now) # <<>>
       /\ \A i \in DOMAIN Accepted(record, m, now) :
            Accepted(record, m, now)[i] \in {input, parts, id}
  <2> DEFINE two == <<parts, id>>  three == <<input>> \o two
  <2>1. /\ two \in Seq(Records) /\ Len(two) = 2 /\ two # <<>> /\ <<>> \o two = two
        /\ \A i \in DOMAIN two : two[i] \in {input, parts, id}
    BY <1>6, <1>9
  <2>2. Accepted(record, m, now) \in {two, three}
    BY <1>4, <2>1 DEF id
  <2> HIDE DEF two
  <2>3. /\ three \in Seq(Records) /\ three # <<>>
        /\ \A i \in DOMAIN three : three[i] = input \/ \E j \in DOMAIN two : three[i] = two[j]
    BY <1>3, <2>1, PrependElements
  <2> HIDE DEF three
  <2> QED BY <2>1, <2>2, <2>3
<1>14. Aging(t, Accepted(record, m, now), now)
       /\ \A i \in DOMAIN Accepted(record, m, now) : Sound(Accepted(record, m, now)[i])
  BY <1>12, <1>13
<1> HIDE DEF record
<1> QED BY <1>1, <1>14, StartedGoesOn DEF record

LEMMA OneGoesOn ==
  ASSUME StoreInv, StoreInv', ViewsInv, NEW t \in Known(live), NEW now, Operation(now),
         NEW record, record \in Records, Ages(live[t], record, now), Put(t, <<record>>)
  PROVE  ViewsInv'
<1>1. Aging(t, <<record>>, now)
  BY OneAges DEF Ages
<1>2. t \in Tasks
  BY DEF Known
<1> QED BY <1>1, <1>2, OperationGoesOn, PutGoesOn

LEMMA StateGoesOn ==
  ASSUME StoreInv, StoreInv', ViewsInv, NEW t \in Known(live), NEW now, Operation(now),
         NEW new \in Running \cup Interrupted \cup Terminal, NEW why \in BOOLEAN,
         Put(t, <<WithState(live[t], new, why, now)>>)
  PROVE  ViewsInv'
<1>1. now \in Nat /\ live[t] \in Records /\ live[t].at <= now /\ Sound(live[t])
  BY SeenIsSound, SeenIsDated, OperationGoesOn
<1>2. /\ WithState(live[t], new, why, now) \in Records
      /\ Ages(live[t], WithState(live[t], new, why, now), now)
  BY <1>1, WithStateKeeps, WithStateAges
<1> QED BY <1>2, OneGoesOn

LEMMA HandlersGoOn ==
  ASSUME StoreInv, StoreInv', ViewsInv, NEW now, Handlers(now)
  PROVE  ViewsInv'
<1>1. PICK t \in Tasks :
        \/ \E instance \in Instances, m \in Messages :
             NewTask(instance, t, m, now) \/ Continuation(instance, t, m, now)
        \/ Revision(t, now)
        \/ \E new \in Running \cup Interrupted : Report(t, new, now)
        \/ \E new \in Terminal \cup Interrupted : RunEnds(t, new, now)
        \/ Cancel(t, now)
  BY DEF Handlers
<1>2. running \subseteq Known(live)
  BY DEF StoreInv, Typed
<1>3. CASE Revision(t, now)
  <2>1. t \in Known(live) /\ Operation(now) /\ Put(t, <<Stamped(live[t], now)>>)
    BY <1>2, <1>3 DEF Revision
  <2>2. now \in Nat /\ live[t] \in Records /\ live[t].at <= now
    BY <2>1, SeenIsDated, OperationGoesOn
  <2>3. Stamped(live[t], now) \in Records /\ Ages(live[t], Stamped(live[t], now), now)
    BY <2>2, StampedAges
  <2> QED BY <2>1, <2>3, OneGoesOn
<1>4. ASSUME NEW new \in Running \cup Interrupted, Report(t, new, now)
      PROVE  ViewsInv'
  BY <1>2, <1>4, StateGoesOn DEF Report
<1>5. ASSUME NEW new \in Terminal \cup Interrupted, RunEnds(t, new, now)
      PROVE  ViewsInv'
  <2>1. (new # "COMPLETED") \in BOOLEAN
    OBVIOUS
  <2> QED BY <1>2, <1>5, <2>1, StateGoesOn DEF RunEnds
<1>6. CASE Cancel(t, now)
  <2>1. "CANCELED" \in Running \cup Interrupted \cup Terminal
    BY DEF Terminal
  <2> QED BY <1>6, <2>1, StateGoesOn DEF Cancel
<1> QED BY <1>1, <1>3, <1>4, <1>5, <1>6, NewTaskGoesOn, ContinuationGoesOn

LEMMA WriteGoesOn ==
  ASSUME StoreInv, ViewsInv, queue # <<>>, queue' = Tail(queue),
         UNCHANGED <<live, clock, views>>,
         \/ UNCHANGED table
         \/ table' = [table EXCEPT ![Head(queue).task] = Head(queue).record]
  PROVE  ViewsInv'
<1>1. /\ \A i \in DOMAIN queue' : i + 1 \in DOMAIN queue /\ queue'[i] = queue[i + 1]
      /\ Head(queue) = queue[1] /\ 1 \in DOMAIN queue
  BY QueueMovesUp
<1>2. \A t \in Tasks : table'[t] = table[t] \/ table'[t] = Head(queue).record
  BY DEF StoreInv, Typed, Views
<1>3. Head(queue).record.at <= clock
  BY <1>1 DEF ViewsInv, Dated
<1>4. Dated'
  BY <1>1, <1>2, <1>3 DEF ViewsInv, Dated
<1> QED BY <1>4 DEF ViewsInv

LEMMA CrashGoesOn ==
  ASSUME StoreInv, ViewsInv, Crash
  PROVE  ViewsInv'
<1>1. live' = table /\ queue' = <<>> /\ views' = <<table>> /\ UNCHANGED <<table, clock>>
  BY DEF Crash
<1>2. Dated'
  BY <1>1 DEF ViewsInv, Dated
<1>3. \A i \in DOMAIN views' : views'[i] = table
  BY <1>1
<1>4. Onwards(table, table)
  BY OnwardsSelf DEF StoreInv, Typed
<1> QED BY <1>2, <1>3, <1>4 DEF ViewsInv

LEMMA ViewsInvNext == StoreInv /\ StoreInv' /\ ViewsInv /\ [Next]_vars => ViewsInv'
<1> SUFFICES ASSUME StoreInv, StoreInv', ViewsInv, [Next]_vars PROVE ViewsInv'
  OBVIOUS
<1>1. CASE UNCHANGED vars
  BY <1>1 DEF ViewsInv, Dated, vars, stores
<1>2. CASE Write
  BY <1>2, WriteGoesOn DEF Write
<1>3. CASE WriteFails
  BY <1>3, WriteGoesOn DEF WriteFails
<1> QED BY <1>1, <1>2, <1>3, HandlersGoOn, CrashGoesOn DEF Next

LEMMA ViewsInvInit == Init => ViewsInv
<1> SUFFICES ASSUME Init PROVE ViewsInv
  OBVIOUS
<1>1. table \in Views /\ live = table /\ queue = <<>> /\ clock = Newest(table) /\ views = <<live>>
  BY TablesAssumption DEF Init, Views
<1>2. \A t \in Known(table) : table[t].at <= clock
  BY <1>1, NewestFacts
<1>3. Dated
  BY <1>1, <1>2 DEF Dated, Known
<1>4. \A i \in DOMAIN views : views[i] = table
  BY <1>1
<1> QED BY <1>1, <1>3, <1>4, OnwardsSelf DEF ViewsInv
-----------------------------------------------------------------------------
(* Pages *)

\* Whatever was ahead of a task that nothing touches stays ahead of it.
LEMMA AheadGrows ==
  ASSUME NEW a \in Views, NEW b \in Views, Onwards(a, b), NEW instance, NEW since \in Nat,
         NEW t \in Selected(a, instance, since), b[t] = a[t]
  PROVE  /\ t \in Selected(b, instance, since)
         /\ {u \in Selected(a, instance, since) : Before(a, u, t)}
              \subseteq {u \in Selected(b, instance, since) : Before(b, u, t)}
<1>1. t \in Tasks /\ t \in Known(a) /\ t \in Known(b) /\ t \in Selected(b, instance, since)
  BY DEF Selected, Mine, Known
<1> SUFFICES ASSUME NEW u \in Selected(a, instance, since), Before(a, u, t)
             PROVE  u \in Selected(b, instance, since) /\ Before(b, u, t)
  BY <1>1
<1>2. u \in Known(a) /\ a[u].owner = instance /\ a[u].at >= since /\ u \in Tasks
  BY DEF Selected, Mine, Known
<1>3. u \in Known(b) /\ b[u].owner = instance /\ a[u].at <= b[u].at
  BY <1>2 DEF Onwards, Follows
<1>4. a[u].at \in Nat /\ b[u].at \in Nat /\ a[t].at \in Nat
  <2>1. a[u] \in Records /\ b[u] \in Records /\ a[t] \in Records
    BY <1>1, <1>2, <1>3 DEF Known, Views
  <2> QED BY <2>1 DEF Records
<1>5. b[u].at >= since
  BY <1>2, <1>3, <1>4
<1>6. Before(b, u, t)
  <2>1. t \in Nat /\ u \in Nat
    BY <1>1, <1>2, StoreAssumption
  <2> QED BY <1>3, <1>4, <2>1 DEF Before
<1> QED BY <1>3, <1>5, <1>6 DEF Selected, Mine

LEMMA SelectedIsFinite ==
  ASSUME NEW view \in Views, NEW instance, NEW since, NEW t
  PROVE  /\ IsFiniteSet(Selected(view, instance, since))
         /\ Cardinality(Selected(view, instance, since)) \in Nat
         /\ IsFiniteSet({u \in Selected(view, instance, since) : Before(view, u, t)})
         /\ Position(view, Selected(view, instance, since), t) \in Nat
<1>1. Selected(view, instance, since) \in SUBSET Tasks
  BY DEF Selected, Mine, Known
<1>2. {u \in Selected(view, instance, since) : Before(view, u, t)} \in SUBSET Tasks
  BY <1>1
<1>3. IsFiniteSet(Tasks)
  BY StoreAssumption
<1> QED BY <1>1, <1>2, <1>3, FS_Subset, FS_CardinalityType DEF Position

LEMMA PositionGrows ==
  ASSUME NEW a \in Views, NEW b \in Views, Onwards(a, b), NEW instance, NEW since \in Nat,
         NEW t \in Selected(a, instance, since), b[t] = a[t]
  PROVE  Position(a, Selected(a, instance, since), t) <= Position(b, Selected(b, instance, since), t)
<1> DEFINE ahead == {u \in Selected(a, instance, since) : Before(a, u, t)}
           later == {u \in Selected(b, instance, since) : Before(b, u, t)}
<1>1. ahead \in SUBSET later /\ IsFiniteSet(later)
  <2>1. ahead \subseteq later
    BY AheadGrows
  <2>2. IsFiniteSet(later)
    BY SelectedIsFinite
  <2> QED BY <2>1, <2>2
<1>2. Cardinality(ahead) <= Cardinality(later)
  <2> HIDE DEF ahead, later
  <2> QED BY <1>1, FS_Subset
<1> QED BY <1>2 DEF Position

\* A task is not ahead of itself: its place is one of those there are.
LEMMA PositionIsPlace ==
  ASSUME NEW view \in Views, NEW instance, NEW since, NEW t \in Selected(view, instance, since)
  PROVE  Position(view, Selected(view, instance, since), t)
           < Cardinality(Selected(view, instance, since))
<1> DEFINE all == Selected(view, instance, since)
           ahead == {u \in all : Before(view, u, t)}
<1>1. t \in Nat /\ view[t].at \in Nat
  <2>1. t \in Tasks /\ view[t] \in Records
    BY DEF Selected, Mine, Known, Views
  <2> QED BY <2>1, StoreAssumption DEF Records
<1>2. t \in all /\ t \notin ahead /\ ahead \in SUBSET all
  BY <1>1 DEF Before
<1>3. IsFiniteSet(all) /\ Cardinality(all) \in Nat /\ IsFiniteSet(ahead) /\ Cardinality(ahead) \in Nat
  BY SelectedIsFinite DEF Position
<1>4. Cardinality(ahead) <= Cardinality(all) /\ Cardinality(ahead) # Cardinality(all)
  <2> HIDE DEF all, ahead
  <2> QED BY <1>2, <1>3, FS_Subset
<1>5. Cardinality(ahead) < Cardinality(all)
  <2> HIDE DEF all, ahead
  <2> QED BY <1>3, <1>4
<1> QED BY <1>5 DEF Position

LEMMA OffsetFacts ==
  ASSUME NEW k \in Nat \ {0}, NEW size \in Nat \ {0}
  PROVE  /\ Offset(k, size) \in Nat /\ Offset(1, size) = 0
         /\ Offset(k + 1, size) = Offset(k, size) + size
<1>1. PICK j \in Nat : k = j + 1
  <2>1. k - 1 \in Nat /\ k = (k - 1) + 1
    OBVIOUS
  <2> QED BY <2>1
<1>2. Offset(k, size) = j * size /\ Offset(k + 1, size) = (j + 1) * size
  <2>1. k - 1 = j /\ (k + 1) - 1 = j + 1
    BY <1>1
  <2> QED BY <2>1 DEF Offset
<1>3. j * size \in Nat
  BY <1>1
<1>4. (j + 1) * size = j * size + size
  BY <1>1
<1>5. Offset(1, size) = 0
  BY DEF Offset
<1> QED BY <1>2, <1>3, <1>4, <1>5

\* Positions that never fall, with pages until the last place: the first page whose
\* end lies behind the position shows it.
LEMMA SomePageShows ==
  ASSUME NEW n \in Nat \ {0}, NEW size \in Nat \ {0}, NEW p \in [1..n -> Nat],
         \A k \in 1..(n - 1) : p[k] <= p[k + 1], p[n] < Offset(n, size) + size
  PROVE  \E k \in 1..n : p[k] \in Offset(k, size)..(Offset(k, size) + size - 1)
<1> DEFINE Reaching == {k \in 1..n : p[k] < Offset(k, size) + size}
<1>1. Reaching \in SUBSET Nat /\ n \in Reaching
  <2>1. n \in 1..n
    OBVIOUS
  <2> QED BY <2>1
<1>2. PICK k \in Reaching : \A j \in Reaching : k <= j
  <2> HIDE DEF Reaching
  <2> QED BY <1>1, LeastExists
<1>3. /\ k \in 1..n /\ k \in Nat \ {0} /\ p[k] \in Nat /\ p[k] < Offset(k, size) + size
      /\ Offset(k, size) \in Nat
  <2>1. k \in 1..n /\ k \in Nat \ {0} /\ p[k] < Offset(k, size) + size
    BY <1>2
  <2> QED BY <2>1, OffsetFacts
<1>4. p[k] >= Offset(k, size)
  <2>1. CASE k = 1
    <3>1. Offset(k, size) = 0
      BY <2>1 DEF Offset
    <3> QED BY <1>3, <3>1
  <2>2. CASE k # 1
    <3>1. PICK j \in Nat : j = k - 1
      BY <1>3
    <3>2. j \in 1..n /\ j \in 1..(n - 1) /\ j \in Nat \ {0} /\ k = j + 1 /\ p[j] \in Nat /\ ~ (k <= j)
      BY <1>3, <2>2, <3>1
    <3>3. Offset(j, size) \in Nat /\ Offset(k, size) = Offset(j, size) + size
      BY <3>2, OffsetFacts
    <3>4. ~ (p[j] < Offset(j, size) + size)
      BY <1>2, <3>2
    <3>5. p[j] <= p[k]
      BY <3>2
    <3> QED BY <1>3, <3>2, <3>3, <3>4, <3>5
  <2> QED BY <2>1, <2>2
<1> QED BY <1>3, <1>4

\* The views a reader sees go on.
LEMMA ReaderGoesOn ==
  ASSUME NEW n \in Nat \ {0}, NEW m \in Nat, NEW seen \in [1..n -> 1..m],
         \A k \in 1..(n - 1) : seen[k] <= seen[k + 1]
  PROVE  \A k \in 1..n : seen[1] <= seen[k]
<1> DEFINE Earlier == {k \in 1..n : seen[k] < seen[1]}
<1>1. ASSUME Earlier # {} PROVE FALSE
  <2>1. Earlier \in SUBSET Nat
    OBVIOUS
  <2>2. PICK k \in Earlier : \A j \in Earlier : k <= j
    <3> HIDE DEF Earlier
    <3> QED BY <1>1, <2>1, LeastExists
  <2>3. k \in 1..n /\ seen[k] < seen[1] /\ 1 \in 1..n
    BY <2>2
  <2>4. \A j \in 1..n : seen[j] \in Nat
    OBVIOUS
  <2>5. k # 1
    BY <2>3, <2>4
  <2>6. PICK j \in Nat : j = k - 1
    BY <2>3
  <2>7. j \in 1..n /\ ~ (k <= j) /\ j \in 1..(n - 1) /\ k = j + 1
    BY <2>3, <2>5, <2>6
  <2>8. ~ (seen[j] < seen[1])
    <3> HIDE DEF Earlier
    <3>1. j \notin Earlier
      BY <2>2, <2>7
    <3> QED BY <2>7, <3>1 DEF Earlier
  <2>9. seen[j] <= seen[k]
    BY <2>7
  <2> QED BY <2>3, <2>4, <2>7, <2>8, <2>9
<1> QED BY <1>1

\* A reader that saw these views is shown every task of the first that nothing touched
\* before the last.
Served(instance, since, size, pages, seen) ==
  LET Of(k) == Selected(views[seen[k]], instance, since)
  IN /\ seen[pages] = Len(views)
     /\ \A k \in 1..(pages - 1) : seen[k] <= seen[k + 1]
     /\ ~ HasNext(Of(pages), Offset(pages, size), size)
     => \A t \in Of(1) :
          (\A v \in seen[1]..Len(views) : views[v][t] = live[t]) =>
            \E k \in 1..pages : t \in Page(views[seen[k]], Of(k), Offset(k, size), size)

\* However many updates come between the pages, whatever their size, and whether or not
\* the reader asks for pages that are said not to be there.
ReadersServed ==
  \A instance \in Instances, since \in Nat, size \in Nat \ {0}, pages \in Nat \ {0} :
  \A seen \in [1..pages -> DOMAIN views] : Served(instance, since, size, pages, seen)

LEMMA PagesShowAll == StoreInv /\ ViewsInv => ReadersServed
<1> SUFFICES ASSUME StoreInv, ViewsInv, NEW instance \in Instances, NEW since \in Nat,
                    NEW size \in Nat \ {0}, NEW pages \in Nat \ {0},
                    NEW seen \in [1..pages -> DOMAIN views]
             PROVE  Served(instance, since, size, pages, seen)
  BY DEF ReadersServed
<1> DEFINE all(k) == Selected(views[seen[k]], instance, since)
<1> SUFFICES ASSUME seen[pages] = Len(views),
                    \A k \in 1..(pages - 1) : seen[k] <= seen[k + 1],
                    ~ HasNext(all(pages), Offset(pages, size), size),
                    NEW t \in all(1),
                    \A v \in seen[1]..Len(views) : views[v][t] = live[t]
             PROVE  \E k \in 1..pages : t \in Page(views[seen[k]], all(k), Offset(k, size), size)
  BY DEF Served
<1> DEFINE p == [k \in 1..pages |-> Position(views[seen[k]], all(k), t)]
<1>1. PICK m \in Nat : m = Len(views) /\ DOMAIN views = 1..m /\ \A i \in 1..m : views[i] \in Views
  BY DEF StoreInv, Typed
<1>2. \A k \in 1..pages : seen[1] <= seen[k]
  BY <1>1, ReaderGoesOn
<1>3. ASSUME NEW k \in 1..pages
      PROVE  /\ seen[k] \in DOMAIN views /\ views[seen[k]] \in Views
             /\ views[seen[k]][t] = live[t] /\ t \in all(k)
  <2>1. seen[k] \in 1..m /\ seen[1] \in 1..m /\ seen[1] <= seen[k]
    <3>1. 1 \in 1..pages
      OBVIOUS
    <3> QED BY <1>1, <1>2, <3>1
  <2>2. Onwards(views[seen[1]], views[seen[k]])
    BY <1>1, <2>1 DEF ViewsInv
  <2>3. seen[k] \in seen[1]..m /\ seen[1] \in seen[1]..m
    BY <2>1
  <2>4. views[seen[k]][t] = live[t] /\ views[seen[1]][t] = live[t]
    BY <1>1, <2>3
  <2>5. views[seen[k]] \in Views /\ views[seen[1]] \in Views
    BY <1>1, <2>1
  <2> QED BY <1>1, <2>1, <2>2, <2>4, <2>5, AheadGrows
<1>4. p \in [1..pages -> Nat]
  BY <1>3, SelectedIsFinite
<1>5. ASSUME NEW k \in 1..(pages - 1) PROVE p[k] <= p[k + 1]
  <2>1. k \in 1..pages /\ k + 1 \in 1..pages /\ seen[k] <= seen[k + 1]
    OBVIOUS
  <2>2. Onwards(views[seen[k]], views[seen[k + 1]])
    BY <1>3, <2>1 DEF ViewsInv
  <2>3. /\ views[seen[k]] \in Views /\ views[seen[k + 1]] \in Views /\ t \in all(k)
        /\ views[seen[k + 1]][t] = views[seen[k]][t]
    BY <1>3, <2>1
  <2>4. Position(views[seen[k]], all(k), t) <= Position(views[seen[k + 1]], all(k + 1), t)
    BY <2>2, <2>3, PositionGrows
  <2> QED BY <2>1, <2>4
<1>6. p[pages] < Offset(pages, size) + size
  <2>1. /\ pages \in 1..pages /\ Cardinality(all(pages)) \in Nat
        /\ p[pages] \in Nat /\ p[pages] < Cardinality(all(pages))
    <3>1. pages \in 1..pages
      OBVIOUS
    <3>2. views[seen[pages]] \in Views /\ t \in all(pages)
      BY <1>3, <3>1
    <3> QED BY <1>4, <3>1, <3>2, SelectedIsFinite, PositionIsPlace
  <2>2. Offset(pages, size) \in Nat /\ ~ (Offset(pages, size) + size < Cardinality(all(pages)))
    BY OffsetFacts DEF HasNext
  <2> QED BY <2>1, <2>2
<1>7. PICK k \in 1..pages : p[k] \in Offset(k, size)..(Offset(k, size) + size - 1)
  <2> HIDE DEF p
  <2> QED BY <1>4, <1>5, <1>6, SomePageShows
<1> QED BY <1>3, <1>7 DEF Page

\* Records are never newer than the time, and each view of a process has what the
\* earlier ones had, of the same owner and no older.
THEOREM ViewsGoOn == Spec => []ViewsInv
<1>1. StoreInv /\ StoreInv' /\ ViewsInv /\ [Next]_vars => ViewsInv'
  BY ViewsInvNext
<1> QED BY <1>1, StoreHolds, ViewsInvInit, PTL DEF Spec

\* A client that reads all pages of ListTasks, of whatever size, while tasks change
\* gets every task that was listed when it began and that nothing has touched since.
THEOREM PagesMissNothing == Spec => []ReadersServed
BY PagesShowAll, StoreHolds, ViewsGoOn, PTL

\* The same of the pages the runs look at.
THEOREM SmallPagesMissNothing == Spec => []UntouchedNeverMissed
<1>1. StoreInv /\ ReadersServed => UntouchedNeverMissed
  <2> SUFFICES ASSUME StoreInv, ReadersServed PROVE UntouchedNeverMissed
    OBVIOUS
  <2>1. Cardinality(Tasks) \in Nat /\ clock \in Nat
    BY StoreAssumption, FS_CardinalityType DEF StoreInv, Typed
  <2> SUFFICES ASSUME NEW instance \in Instances, NEW since \in {0, clock},
                      NEW size \in 1..2, NEW pages \in 1..Cardinality(Tasks),
                      NEW seen \in [1..pages -> DOMAIN views]
               PROVE  LET Of(k) == Selected(views[seen[k]], instance, since)
                      IN /\ seen[pages] = Len(views)
                         /\ \A k \in 1..(pages - 1) :
                              seen[k] <= seen[k + 1] /\ HasNext(Of(k), Offset(k, size), size)
                         /\ ~HasNext(Of(pages), Offset(pages, size), size)
                         => \A t \in Of(1) :
                              (\A v \in seen[1]..Len(views) : views[v][t] = live[t]) =>
                                \E k \in 1..pages :
                                  t \in Page(views[seen[k]], Of(k), Offset(k, size), size)
    BY DEF UntouchedNeverMissed
  <2>2. since \in Nat /\ size \in Nat \ {0} /\ pages \in Nat \ {0}
    BY <2>1
  <2>3. Served(instance, since, size, pages, seen)
    BY <2>2 DEF ReadersServed
  <2> QED BY <2>3 DEF Served
<1> QED BY <1>1, StoreHolds, PagesMissNothing, PTL
=============================================================================
