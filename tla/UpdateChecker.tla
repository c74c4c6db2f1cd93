----------------------------- MODULE UpdateChecker -----------------------------
(***************************************************************************)
(* The update check (src/update.ts), its API route (src/api.ts) and the    *)
(* version strip of the dashboard (src/client/index.ts,                    *)
(* src/client/update-status.ts).                                           *)
(*                                                                         *)
(* A check is served from the cache of the process, joins the lookup in    *)
(* flight or begins one.  A lookup asks every source at once, compares     *)
(* what they answer when the last one is done, and is cached whatever came *)
(* of it.  The strip asks once when it is mounted and again at every click *)
(* of the button, and paints the answers in the order they arrive in.      *)
(*                                                                         *)
(* A version is its three numbers and its prerelease identifiers, each a   *)
(* number or a word; words are numbered in their order.  The names of the  *)
(* specification begin with Update: CopyProofs extends this module         *)
(* together with EventStream.                                              *)
(***************************************************************************)
EXTENDS Integers, Sequences, SequencesExt, FiniteSetsExt

CONSTANTS
  Panels,       \* open pages of the dashboard
  Ascending,    \* the versions a source may publish, in the precedence of SemVer
  Manifests,    \* what package.json may name
  Ttl,          \* cacheTtlMs
  MaxClock,     \* bound: the time
  MaxClicks,    \* bound: forced checks
  MaxRestarts,  \* bound: restarts of the host
  Odd,          \* a version that does not parse
  Absent        \* no version in the package's manifest

ASSUME UpdateAssumption ==
  /\ {Ttl, MaxClock, MaxClicks, MaxRestarts} \subseteq Nat
  /\ Manifests \subseteq [version : Range(Ascending) \cup {Odd, Absent}, repository : BOOLEAN]
  /\ Odd # Absent /\ {Odd, Absent} \cap Range(Ascending) = {}

\* The precedence of SemVer 2.0 (its section 11): the first difference decides, of the three
\* numbers, then of the identifiers; a prerelease is below its release, a list below a longer
\* one that begins with it, a number below a word.
IdentifierPrecedes(x, y) ==
  IF x.number = y.number THEN x.value < y.value ELSE x.number
PrereleasePrecedes(left, right) ==
  /\ left # <<>>
  /\ \/ right = <<>>
     \/ \E i \in 1..Len(right) :
          /\ \A j \in 1..(i - 1) : j <= Len(left) /\ left[j] = right[j]
          /\ i = Len(left) + 1 \/ (i <= Len(left) /\ IdentifierPrecedes(left[i], right[i]))
Precedes(a, b) ==
  \/ \E i \in 1..3 : a.core[i] < b.core[i] /\ \A j \in 1..(i - 1) : a.core[j] = b.core[j]
  \/ a.core = b.core /\ PrereleasePrecedes(a.prerelease, b.prerelease)

ASSUME OrderAssumption ==
  /\ Ascending \in Seq([core : [1..3 -> Nat],
                        prerelease : Seq([number : BOOLEAN, value : Nat])])
  /\ \A i, j \in DOMAIN Ascending : i < j => Precedes(Ascending[i], Ascending[j])

VARIABLES
  manifest,  \* package.json: the installed version, and whether it names the repository
  clock,     \* the time
  lookup,    \* the lookup in flight
  cache,     \* the last answer
  requests,  \* requests[p][k]: what the mount and the last click of page p asked
  strip,     \* strip[p]: the state of the strip
  made       \* clicks and restarts so far

host == <<lookup, cache>>
UpdateVars == <<manifest, clock, host, requests, strip, made>>

-----------------------------------------------------------------------------
(* Comparing versions.                                                       *)

Versions == Range(Ascending)

Sign(n) == IF n > 0 THEN 1 ELSE IF n < 0 THEN -1 ELSE 0

\* A number is below a word.
CompareIdentifier(x, y) ==
  IF x.number # y.number THEN IF x.number THEN -1 ELSE 1 ELSE Sign(x.value - y.value)

\* Slip: a release below its prereleases.
PrereleaseOutranks(left, right) ==
  IF left = right THEN 0
  ELSE IF left = <<>> THEN -1
  ELSE IF right = <<>> THEN 1
  ELSE IF Len(left) # Len(right) THEN Sign(Len(left) - Len(right))
  ELSE CompareIdentifier(left[1], right[1])

\* The first position where they differ decides; the one that ends there is lower.
ComparePrerelease(left, right) ==
  IF left = right THEN 0
  ELSE IF left = <<>> THEN 1
  ELSE IF right = <<>> THEN -1
  ELSE LET i == Min({j \in 1..Max({Len(left), Len(right)}) :
                       \/ j > Len(left) \/ j > Len(right)
                       \/ left[j] # right[j]})
       IN IF i > Len(left) THEN -1
          ELSE IF i > Len(right) THEN 1
          ELSE CompareIdentifier(left[i], right[i])

CompareVersions(a, b) ==
  LET Differs == {i \in 1..3 : a.core[i] # b.core[i]}
  IN IF Differs = {} THEN ComparePrerelease(a.prerelease, b.prerelease)
     ELSE Sign(a.core[Min(Differs)] - b.core[Min(Differs)])

\* The reference: the place in the published order.
Rank(v) == CHOOSE i \in DOMAIN Ascending : Ascending[i] = v

-----------------------------------------------------------------------------
(* The host.                                                                 *)

\* npm, and for a repository on GitHub its file and the mirror of it: each may answer anything
\* at any time, so it is enough to count who has not answered yet.
Sources == IF manifest.repository THEN 3 ELSE 1

\* best is the outcome of the loop over the candidates, taken as they arrive; heard is history:
\* the highest rank among what the sources answered, 0 for none.
NoLookup == [begun |-> FALSE, waiting |-> 0, best |-> Absent, heard |-> 0]
NewLookup ==
  [NoLookup EXCEPT !.begun = TRUE, !.waiting = IF manifest.version = Absent THEN 0 ELSE Sources]

Better(candidate, best) ==
  IF best = Absent THEN candidate
  ELSE IF CompareVersions(candidate, best) > 0 THEN candidate ELSE best

NoInfo == [ok |-> FALSE, checkedAt |-> -1]
Unavailable(heard) ==
  [ok |-> FALSE, latest |-> Absent, hasUpdate |-> FALSE, ahead |-> FALSE, checkedAt |-> clock,
   heard |-> heard]

\* An installed version that does not parse makes the comparison throw.
Info(best, heard) ==
  IF best = Absent \/ manifest.version = Odd THEN Unavailable(heard)
  ELSE LET comparison == CompareVersions(best, manifest.version)
       IN [ok |-> TRUE, latest |-> best, hasUpdate |-> comparison > 0, ahead |-> comparison < 0,
           checkedAt |-> clock, heard |-> heard]

\* Slip: an answer is good for as long as the process lives.
FreshForever == cache # NoInfo
Fresh == cache # NoInfo /\ clock - cache.checkedAt < Ttl

-----------------------------------------------------------------------------
(* The dashboard.                                                            *)

Kinds == {"mount", "click"}
Forced(k) == k = "click"

\* at: when the host was asked.
Request(st, info) == [st |-> st, info |-> info, at |-> clock]
Idle == [st |-> "idle"]
Sent == [st |-> "sent"]

Mounted == [open |-> TRUE, update |-> NoInfo, error |-> FALSE, busy |-> FALSE]
Unmounted == [Mounted EXCEPT !.open = FALSE]

Tone(s) ==
  IF s.error THEN "unknown"
  ELSE IF s.update = NoInfo THEN "pending"
  ELSE IF s.update.hasUpdate THEN "update"
  ELSE IF s.update.ok THEN "ok" ELSE "unknown"

\* An error stays until the next click; the page does not use the time of the answer.
Painted(s, k, info) ==
  [s EXCEPT !.update = [info EXCEPT !.checkedAt = 0], !.busy = @ /\ k # "click"]
\* Slip: a click that failed leaves the button busy.
BrokenStaysBusy(s, k) == [s EXCEPT !.error = TRUE]
Broken(s, k) ==
  [s EXCEPT !.error = TRUE, !.busy = @ /\ k # "click"]

UpdateInit ==
  /\ manifest \in Manifests
  /\ clock = 0
  /\ lookup = NoLookup
  /\ cache = NoInfo
  /\ requests = [p \in Panels |-> [k \in Kinds |-> Idle]]
  /\ strip = [p \in Panels |-> Unmounted]
  /\ made = [clicks |-> 0, restarts |-> 0]

-----------------------------------------------------------------------------
(* Actions of the page.                                                      *)

Mount(p) ==
  /\ ~strip[p].open
  /\ strip' = [strip EXCEPT ![p] = Mounted]
  /\ requests' = [requests EXCEPT ![p]["mount"] = Sent]
  /\ UNCHANGED <<manifest, clock, host, made>>

\* What still arrives for a page that is gone changes nothing.
Unmount(p) ==
  /\ strip[p].open
  /\ strip' = [strip EXCEPT ![p] = Unmounted]
  /\ requests' = [requests EXCEPT ![p] = [k \in Kinds |-> Idle]]
  /\ UNCHANGED <<manifest, clock, host, made>>

Click(p) ==
  /\ strip[p].open /\ ~strip[p].busy
  /\ made.clicks < MaxClicks
  /\ made' = [made EXCEPT !.clicks = @ + 1]
  /\ strip' = [strip EXCEPT ![p] = [@ EXCEPT !.busy = TRUE, !.error = FALSE]]
  /\ requests' = [requests EXCEPT ![p]["click"] = Sent]
  /\ UNCHANGED <<manifest, clock, host>>

Arrives(p, k) ==
  /\ requests[p][k].st = "answered"
  /\ strip' = [strip EXCEPT ![p] = Painted(@, k, requests[p][k].info)]
  /\ requests' = [requests EXCEPT ![p][k] = Idle]
  /\ UNCHANGED <<manifest, clock, host, made>>

\* The connection breaks before the answer is there, or the host was restarted.
Lost(p, k) ==
  /\ requests[p][k].st # "idle"
  /\ strip' = [strip EXCEPT ![p] = Broken(@, k)]
  /\ requests' = [requests EXCEPT ![p][k] = Idle]
  /\ UNCHANGED <<manifest, clock, host, made>>

-----------------------------------------------------------------------------
(* Actions of the host.                                                      *)

\* A check that the cache does not answer waits for the lookup in flight, or begins one.
Check(p, k) ==
  /\ requests[p][k].st = "sent"
  /\ IF Fresh /\ ~Forced(k)
     THEN requests' = [requests EXCEPT ![p][k] = Request("answered", cache)] /\ UNCHANGED lookup
     ELSE /\ requests' = [requests EXCEPT ![p][k] = Request("waiting", NoInfo)]
          /\ lookup' = IF lookup.begun THEN lookup ELSE NewLookup
  /\ UNCHANGED <<manifest, clock, cache, strip, made>>

\* A source that fails, times out or answers something else than a version leaves no candidate.
SourceAnswers ==
  /\ lookup.waiting > 0
  /\ \/ lookup' = [lookup EXCEPT !.waiting = @ - 1]
     \/ \E v \in Versions :
          lookup' = [lookup EXCEPT !.waiting = @ - 1, !.best = Better(v, @),
                                   !.heard = Max({@, Rank(v)})]
  /\ UNCHANGED <<manifest, clock, cache, requests, strip, made>>

\* Everyone who waits gets the answer of the one lookup.
Answered(info) ==
  [p \in Panels |-> [k \in Kinds |->
     IF requests[p][k].st = "waiting" THEN [requests[p][k] EXCEPT !.st = "answered", !.info = info]
     ELSE requests[p][k]]]

LookupEnds ==
  /\ lookup.begun /\ lookup.waiting = 0
  /\ cache' = Info(lookup.best, lookup.heard)
  /\ requests' = Answered(cache')
  /\ lookup' = NoLookup
  /\ UNCHANGED <<manifest, clock, strip, made>>

\* The host forgets the cache and its lookup; who was waiting loses the connection.
Restart ==
  /\ made.restarts < MaxRestarts
  /\ made' = [made EXCEPT !.restarts = @ + 1]
  /\ lookup' = NoLookup
  /\ cache' = NoInfo
  /\ requests' = [p \in Panels |-> [k \in Kinds |->
                    IF requests[p][k].st = "waiting" THEN [st |-> "broken"]
                    ELSE requests[p][k]]]
  /\ UNCHANGED <<manifest, clock, strip>>

Tick ==
  /\ clock < MaxClock
  /\ clock' = clock + 1
  /\ UNCHANGED <<manifest, host, requests, strip, made>>

UpdateNext ==
  \/ \E p \in Panels : Mount(p) \/ Unmount(p) \/ Click(p)
  \/ \E p \in Panels, k \in Kinds : Check(p, k) \/ Arrives(p, k) \/ Lost(p, k)
  \/ SourceAnswers \/ LookupEnds \/ Restart \/ Tick

\* Every fetch of a source ends within its timeout, the promises that have settled go on, and
\* a connection delivers or breaks.
UpdateFairness ==
  /\ \A p \in Panels, k \in Kinds :
       /\ WF_UpdateVars(Check(p, k)) /\ WF_UpdateVars(Arrives(p, k))
       /\ WF_UpdateVars(Lost(p, k) /\ requests[p][k].st = "broken")
  /\ WF_UpdateVars(SourceAnswers) /\ WF_UpdateVars(LookupEnds)

UpdateSpec == UpdateInit /\ [][UpdateNext]_UpdateVars /\ UpdateFairness

-----------------------------------------------------------------------------
(* Properties.                                                               *)

\* An answer names the highest version any source of its lookup reported, by the precedence of
\* SemVer, and places the installed one right against it; with no version to compare it is
\* not an answer.
Honest(info) ==
  info # NoInfo =>
    IF manifest.version \in Versions /\ info.heard > 0
    THEN /\ info.ok /\ Rank(info.latest) = info.heard
         /\ info.hasUpdate <=> info.heard > Rank(manifest.version)
         /\ info.ahead <=> info.heard < Rank(manifest.version)
    ELSE ~info.ok /\ ~info.hasUpdate /\ ~info.ahead

\* update.ts and update-status.ts: every answer is honest wherever it is kept, and the strip
\* reads up to date only when a source did answer and published nothing newer.
UpdateHonest ==
  /\ Honest(cache)
  /\ \A p \in Panels :
       /\ \A k \in Kinds : requests[p][k].st = "answered" => Honest(requests[p][k].info)
       /\ Tone(strip[p]) = "ok" =>
            strip[p].update.heard \in 1..Rank(manifest.version)
       /\ Tone(strip[p]) = "update" => strip[p].update.heard > Rank(manifest.version)

\* update.ts check(): what the button gets was looked up after the click reached the host, also
\* when it joined a lookup in flight; what the mount gets was looked up since, or is younger than
\* the cache's lifetime, whatever lookups and restarts fell in between.
AnswersFresh ==
  \A p \in Panels, k \in Kinds :
    requests[p][k].st = "answered" =>
      LET r == requests[p][k]
      IN r.info.checkedAt >= r.at \/ (~Forced(k) /\ r.at - r.info.checkedAt < Ttl)

\* update.ts check() and checkUpdate() of client/index.ts: every check that reaches the host is
\* answered or broken off, and the button comes back after every click.
ChecksEnd ==
  \A p \in Panels :
    /\ strip[p].busy ~> ~strip[p].busy
    /\ \A k \in Kinds : requests[p][k].st = "waiting" ~> requests[p][k].st # "waiting"
=============================================================================
