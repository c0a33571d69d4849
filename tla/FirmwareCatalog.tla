--------------------------- MODULE FirmwareCatalog --------------------------
(***************************************************************************)
(* The firmware catalogue (app/firmware_catalog.rs): one cached listing,   *)
(* refreshed behind its readers by a fan-out that asks every source on a   *)
(* blocking thread of its own; a claim that keeps a second fan-out from    *)
(* starting and expires if it is lost; the count of invalidations that     *)
(* keeps a listing taken too early from looking fresh; the listing kept on *)
(* disk for the next start.                                                *)
(*                                                                         *)
(* Time is counted in ticks, and kept as ages: of the claim, of a fan-out, *)
(* of a call.  A reader may force a refresh at any time, so when a cached  *)
(* listing comes due by itself (ttl) adds nothing and is left out.         *)
(***************************************************************************)
EXTENDS Integers

CONSTANTS
    FanOut,                   \* fan-outs that can be under way at once
    SOURCE_DEADLINE,          \* with SOURCE_GRACE
    REFRESH_CLAIM,
    MaxParks,                 \* bound: images parked
    Unset

ASSUME CatalogAssumption ==
    /\ SOURCE_DEADLINE \in Nat \ {0} /\ REFRESH_CLAIM \in Nat
    /\ SOURCE_DEADLINE < REFRESH_CLAIM
    /\ Unset \notin FanOut /\ MaxParks \in Nat /\ Unset \notin Int

\* The card, and a publisher on the network.
Source == {"local", "remote"}

VARIABLES
    catalogue,      \* CACHE
    claim,          \* how long ago the claim was taken, or Unset
    invalidations,  \* INVALIDATIONS, which is also the images parked and told of
    fan,            \* each fan-out
    calls,          \* the blocking calls that have not returned
    in_flight,      \* IN_FLIGHT
    card,           \* how many images are on the card
    priming         \* prime() has not run yet
catalog_vars == <<catalogue, claim, invalidations, fan, calls, in_flight, card, priming>>

\* What is listed of the card: its images, or -1 where that failed (an error,
\* past the deadline, or still busy with the last call).
Listing == -1 .. MaxParks
\* A fan-out: how far it is, its age, the count it started with, the sources it
\* waits for, and what the card's answered.
Fan == [stage : {"none", "spawned", "loading", "asking"}, age : 0 .. REFRESH_CLAIM,
        count : 0 .. MaxParks, waiting : SUBSET Source, local : Listing]
Idle_fan == [stage |-> "none", age |-> 0, count |-> 0, waiting |-> {}, local |-> -1]
\* struct Cached: what is listed of the card, the mark of invalidate, and
\* whether it came from the disk.
Cached == [local : Listing, stale : BOOLEAN, restored : BOOLEAN]

ASSUME CachedAssumption == Unset \notin Cached

catalog_Init ==
    /\ catalogue = Unset /\ claim = Unset
    /\ fan = [f \in FanOut |-> Idle_fan]
    /\ calls = {} /\ in_flight = {}
    /\ card \in 0 .. MaxParks
    /\ invalidations = card     \* nothing was listed before them
    /\ priming = TRUE

\* Seeded bug: a claim is held until it is released.
may_claim_released(held) == held = Unset

may_claim(held) == held \in {Unset, REFRESH_CLAIM}   \* its age stops there

(***************************************************************************)
(* spawn_refresh: the claim, then a task.  The task may never get to run   *)
(* (nothing below makes it), and then nothing releases the claim.          *)
(***************************************************************************)
spawn_refresh ==
    \/ /\ may_claim(claim)
       /\ \E f \in FanOut :
              /\ fan[f].stage = "none"
              /\ claim' = 0
              /\ fan' = [fan EXCEPT ![f] = [Idle_fan EXCEPT !.stage = "spawned"]]
    \/ ~may_claim(claim) /\ UNCHANGED <<claim, fan>>

Asked_for == spawn_refresh /\ UNCHANGED <<catalogue, invalidations, calls, in_flight, card, priming>>
\* get(): an answer from the cache, and a refresh behind it, as it is due or
\* forced.
get == catalogue # Unset /\ Asked_for
\* With nothing cached, a reader joins the refresh there is, or starts it, each
\* time it looks.
cold == catalogue = Unset /\ Asked_for

\* The listing of the last run, which may lack what was parked since, or not be
\* readable (-1).
restore == -1 .. card

\* prime(): the listing of the last run first, if it can be read and nothing is
\* cached yet; the refresh it asks for then is that of any reader.
prime ==
    /\ priming
    /\ priming' = FALSE
    /\ \/ /\ catalogue = Unset
          /\ \E n \in restore \ {-1} : catalogue' = [local |-> n, stale |-> FALSE, restored |-> TRUE]
       \/ (catalogue # Unset \/ -1 \in restore) /\ UNCHANGED catalogue
    /\ UNCHANGED <<claim, invalidations, fan, calls, in_flight, card>>

(***************************************************************************)
(* fan_out.                                                                *)
(***************************************************************************)
FanChanges(f, g) ==
    /\ fan' = [fan EXCEPT ![f] = g]
    /\ UNCHANGED <<invalidations, card, priming>>

\* The first poll: the count is read before anything else.
Polled(f) ==
    /\ fan[f].stage = "spawned"
    /\ FanChanges(f, [fan[f] EXCEPT !.stage = "loading", !.count = invalidations])
    /\ UNCHANGED <<catalogue, claim, calls, in_flight>>

\* A blocking call, and the images it lists: of the card, what it finds there.
SourceCall(f, s) == [source |-> s, by |-> f, age |-> 0, lists |-> IF s = "local" THEN Unset ELSE 0]
\* A call its fan-out no longer waits for runs on, for nobody.
Forgotten(c) == [c EXCEPT !.by = Unset, !.lists = 0, !.age = IF c.source = "local" THEN 0 ELSE @]
WithoutWaiter(f) == {IF c.by = f THEN Forgotten(c) ELSE c : c \in calls}

\* gather: one blocking call per source, none for one still in flight.
Gathers(f) ==
    /\ fan[f].stage = "loading"
    /\ FanChanges(f, [fan[f] EXCEPT
           !.stage = "asking", !.waiting = Source \ in_flight])
    /\ calls' = calls \cup {SourceCall(f, s) : s \in Source \ in_flight}
    /\ in_flight' = Source
    /\ UNCHANGED <<catalogue, claim>>

\* list_local reads the directory.
Reads(c) ==
    /\ c.lists = Unset
    /\ calls' = (calls \ {c}) \cup {[c EXCEPT !.lists = card]}
    /\ UNCHANGED <<catalogue, claim, invalidations, fan, in_flight, card, priming>>

\* What a call comes back with: what it read, or an error (-1).
resolve(c) == {c.lists, -1}

\* A call returns, with what it read or an error, to a fan-out that may have
\* stopped waiting for it; InFlight::drop.
Returns(c) ==
    /\ c.lists # Unset
    /\ calls' = calls \ {c}
    /\ in_flight' = in_flight \ {c.source}
    /\ \/ /\ c.by # Unset
          /\ \E listing \in resolve(c) :
                 FanChanges(c.by, [fan[c.by] EXCEPT !.waiting = @ \ {c.source},
                                       !.local = IF c.source = "local" THEN listing ELSE @])
       \/ c.by = Unset /\ UNCHANGED <<fan, invalidations, card, priming>>
    /\ UNCHANGED <<catalogue, claim>>

\* Seeded bug: a source may take as long as the whole fan-out.
Deadline_of_the_claim == REFRESH_CLAIM

Deadline == SOURCE_DEADLINE

\* output_within: the updater of a remote source is killed at the deadline, with
\* its process group, so its call returns; a read of the card may never return.
Killed(c) == c.source = "remote" /\ c.age >= Deadline

Complete(f) == fan[f].stage = "asking" /\ fan[f].waiting = {}

Overdue(f, s) ==
    /\ s \in fan[f].waiting
    /\ \E c \in calls : c.source = s /\ c.by = f /\ c.age >= Deadline

SourceTimesOut(f, s) ==
    /\ Overdue(f, s)
    /\ FanChanges(f, [fan[f] EXCEPT !.waiting = @ \ {s}])
    /\ calls' = {IF c.by = f /\ c.source = s THEN Forgotten(c) ELSE c : c \in calls}
    /\ UNCHANGED <<catalogue, claim, in_flight>>

\* Seeded bug: what changed since the fan-out began is not looked at.
Stores_as_fresh(f) ==
    /\ Complete(f)
    /\ catalogue' = [local |-> fan[f].local, stale |-> FALSE, restored |-> FALSE]
    /\ FanChanges(f, Idle_fan)
    /\ claim' = Unset
    /\ UNCHANGED <<calls, in_flight>>

\* The result is stored under the lock, marked if the count has moved; what a
\* complete one leaves on the disk shows at the next start.  The end of
\* the task releases the claim, whoever holds it by now.
Stores(f) ==
    /\ Complete(f)
    /\ catalogue' = [local |-> fan[f].local,
                 stale |-> invalidations # fan[f].count, restored |-> FALSE]
    /\ FanChanges(f, Idle_fan)
    /\ claim' = Unset
    /\ UNCHANGED <<calls, in_flight>>

Expired(f) == fan[f].stage \in {"loading", "asking"} /\ ~Complete(f)
              /\ fan[f].age >= REFRESH_CLAIM
\* The timeout around the fan-out: what it had gathered is dropped.
RefreshTimesOut(f) ==
    /\ Expired(f)
    /\ FanChanges(f, Idle_fan)
    /\ claim' = Unset
    /\ calls' = WithoutWaiter(f)
    /\ UNCHANGED <<catalogue, in_flight>>

(***************************************************************************)
(* Around it.                                                              *)
(***************************************************************************)
\* os_park has renamed an image into place...
Park ==
    /\ card < MaxParks
    /\ card = invalidations
    /\ card' = card + 1
    /\ UNCHANGED <<catalogue, claim, invalidations, fan, calls, in_flight, priming>>
\* ...and says so: the count moves, and what is cached is marked, under the lock.
invalidate ==
    /\ invalidations < card
    /\ invalidations' = invalidations + 1
    /\ catalogue' = IF catalogue = Unset THEN catalogue ELSE [catalogue EXCEPT !.stale = TRUE]
    /\ UNCHANGED <<claim, fan, calls, in_flight, card, priming>>

\* The daemon starts again.
Restart ==
    /\ catalogue' = Unset /\ claim' = Unset
    /\ invalidations' = card
    /\ fan' = [f \in FanOut |-> Idle_fan]
    /\ calls' = {} /\ in_flight' = {}
    /\ priming' = TRUE
    /\ UNCHANGED card

Older(age, cap) == IF age < cap THEN age + 1 ELSE age
\* Timers are punctual: no tick passes them.
Tick ==
    /\ \A f \in FanOut : ~Expired(f) /\ \A s \in Source : ~Overdue(f, s)
    /\ \A c \in calls : ~Killed(c)
    /\ claim' = IF claim = Unset THEN claim ELSE Older(claim, REFRESH_CLAIM)
    /\ fan' = [f \in FanOut |-> IF fan[f].stage \in {"none", "spawned"} THEN fan[f]
                                ELSE [fan[f] EXCEPT !.age = Older(@, REFRESH_CLAIM)]]
    /\ calls' = {IF c.by = Unset /\ c.source = "local" THEN c ELSE [c EXCEPT !.age = Older(@, REFRESH_CLAIM)] : c \in calls}
    /\ UNCHANGED <<catalogue, invalidations, in_flight, card, priming>>

catalog_Next ==
    \/ get \/ cold \/ prime
    \/ \E f \in FanOut : Polled(f) \/ Gathers(f) \/ Stores(f) \/ RefreshTimesOut(f)
    \/ \E f \in FanOut, s \in Source : SourceTimesOut(f, s)
    \/ \E c \in calls : Reads(c) \/ Returns(c)
    \/ Park \/ invalidate \/ Restart \/ Tick

catalog_Spec == catalog_Init /\ [][catalog_Next]_catalog_vars

\* The runtime polls what is ready and time passes; nothing is assumed of the
\* sources, nor of anybody reading the catalogue.
catalog_Fairness ==
    /\ SF_catalog_vars(Tick)     \* no endless sequence of steps takes no time
    /\ WF_catalog_vars(\E c \in calls : Killed(c) /\ Returns(c))
    /\ \A f \in FanOut :
           WF_catalog_vars(RefreshTimesOut(f) \/ Stores(f) \/ \E s \in Source : SourceTimesOut(f, s))

(***************************************************************************)
(* Properties.                                                             *)
(***************************************************************************)
\* "A curl that hangs would otherwise live on for as long as the TCP connection
\* does": a source on the network is always free to be asked again.
RemoteComesBack == []<>("remote" \notin in_flight)

\* "Neither can miss the other": a listing the sources were asked for either
\* shows an image that was parked and told of, or is marked so that the next
\* reader refreshes it, however the park and the fan-outs interleave.
ParkedIsListedOrStale ==
    (catalogue # Unset /\ ~catalogue.restored /\ catalogue.local # -1)
        => catalogue.local >= invalidations \/ catalogue.stale

\* "A source still in here is skipped, not started again": however many fan-outs
\* a lost or expired claim lets in, a source has one call out.
OneCallPerSource == \A c, d \in calls : c.source = d.source => c = d

\* "One hung source held the whole fan-out ... and threw away the answers of
\* every source that had already finished": however sources hang and whoever
\* else asks them, a fan-out is given up while it asks only if, when it began to
\* ask, less than one source's deadline was left of its own; or by a restart.
AnswersAreKept ==
    [][ \A f \in FanOut :
            (fan[f].stage = "asking" /\ ~Complete(f) /\ fan'[f].stage = "none")
                => Restart \/ \E c \in calls : c.by = f /\ fan[f].age - c.age >= REFRESH_CLAIM - SOURCE_DEADLINE ]_catalog_vars

\* "A deadline cannot deadlock": whatever becomes of the task that took it, the
\* claim is there to be taken again.
ClaimComesBack == []<>may_claim(claim)

\* The cached listing is never wrong without saying so, and no source is asked
\* twice at once (fan_out, invalidate, gather).
CatalogIsHonest == ParkedIsListedOrStale /\ OneCallPerSource

\* No call and no claim is lost for good (output_within, claim_refresh).
CatalogComesBack == RemoteComesBack /\ ClaimComesBack
=============================================================================
