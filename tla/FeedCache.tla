------------------------------ MODULE FeedCache ------------------------------
(***************************************************************************)
(* The two outside feeds the map shows: GISTDA's official flood areas (one  *)
(* cache entry per period) and the Department of Highways' road cameras     *)
(* (one entry).  application/officialflood and application/cctv keep the    *)
(* same cache: a copy is fresh for a TTL, concurrent misses share one       *)
(* refresh, a failed refresh backs off, and the last good copy is served,   *)
(* marked stale, while the provider is down.                                *)
(*                                                                         *)
(* Every step is what one goroutine does between two points where another  *)
(* may run: a request under the service's mutex, a request woken or timed   *)
(* out in its select, one HTTP exchange of a refresh, and the refresh       *)
(* storing what it got.  Time is a counter of minutes; a request context    *)
(* (10 s) and a refresh context (60 s) may end between any two steps.       *)
(* An operator used nowhere that stands before another with the same        *)
(* parameters is a mistake the properties would catch.                      *)
(***************************************************************************)
EXTENDS Integers, FiniteSets, Sequences, SequencesExt

CONSTANTS
  Callers,        \* requests in flight at once
  Refreshes,      \* refresh goroutines
  Periods,        \* flood periods in use; every other key is the camera feed
  Setups,         \* the settings and the provider of each feed, [env, provider]
  Queries,        \* what a request may ask for
  PageSize, MaxPages,             \* gistda: pageSize, maxPages
  Backoff, MaxStale,              \* failureBackoff, maxStaleAge
  DefaultTTL, LeastTTL, MostTTL,  \* cache TTL settings, in minutes
  MaxAreas, MaxVertices,          \* clipLimits
  DefaultLimit, MaxLimit,         \* cameras of a view
  DefaultNear, MaxNear, DefaultRadius, MaxRadius,  \* cameras near a point
  MaxTime         \* bound of the clock

Camera == "cctv"
Keys == Periods \cup {Camera}

\* The default TTL is itself in range; only a flood query names a period.
FeedAssumption ==
  /\ Backoff \in Nat /\ MaxStale \in Nat /\ MaxTime \in Nat
  /\ LeastTTL \in Nat /\ MostTTL \in Nat /\ DefaultTTL \in LeastTTL..MostTTL
  /\ PageSize \in Nat \ {0} /\ MaxPages \in Nat
  /\ DefaultLimit \in Nat /\ MaxLimit \in Nat
  /\ "none" \notin Refreshes
  /\ \A q \in Queries : q.op # "areas" => q.key = Camera
ASSUME FeedAssumption

\* A feature of a feed and what the service tells of it: whether it is usable,
\* meets the view, how many vertices its outline keeps at the view's scale (a
\* camera counts one) and how far it is.
Features == [id : STRING, valid : BOOLEAN, seen : BOOLEAN, size : Nat, dist : Nat]

\* A provider honours paging, with pages of at most cap features whatever limit
\* is asked for, ignores it or refuses it, and tells how many match or not.
Styles == [paging : {"honoured", "ignored", "refused"}, counted : BOOLEAN, cap : Nat \ {0}]

SetupsAreTyped ==
  \A s \in Setups : s.provider \in [Keys -> [features : Seq(Features), style : Styles]]
ASSUME SetupsAreTyped

VARIABLES
  now,        \* the clock
  env,        \* settings per feed, fixed at start-up
  provider,   \* what each provider holds and how it pages (external)
  entry,      \* the cache: per key the copy, failedAt and the running refresh
  refresh,    \* the refresh goroutines
  caller      \* the requests

vars == <<now, env, provider, entry, refresh, caller>>

None == "none"

\* --- Configuration ------------------------------------------------------

\* A TTL that is set is taken as it is.
TTLAsSet(k) == IF env[k].ttl >= 0 THEN env[k].ttl ELSE DefaultTTL

\* A TTL that is missing or out of range falls back to the default.
TTL(k) == IF env[k].ttl \in LeastTTL..MostTTL THEN env[k].ttl ELSE DefaultTTL

\* The GISTDA layer needs its flag, a usable URL and a key; the cameras have
\* no key.  A feed that is not enabled gets no service: its endpoints say 404.
GISTDAEnabled(k) == env[k].flag /\ env[k].url /\ env[k].apiKey
CCTVEnabled == env[Camera].flag /\ env[Camera].url
Enabled(k) == IF k = Camera THEN CCTVEnabled ELSE GISTDAEnabled(k)

\* --- The provider clients -----------------------------------------------

Idle == [pc |-> "idle", key |-> None, page |-> 0, attempt |-> 1,
         paged |-> TRUE, received |-> 0, areas |-> <<>>, fetchedAt |-> 0]

\* The features a page of provider p holds.
PageOf(p) == IF p.style.cap < PageSize THEN p.style.cap ELSE PageSize

\* The features one GET returns: a page, or everything when the request or
\* the provider does not page.  The offset asked for counts whole pages of
\* PageSize, also when the pages that came held fewer.
Body(r) ==
  LET p == provider[r.key]
      first == r.page * PageSize
      last == first + PageOf(p) IN
  IF r.paged /\ p.style.paging = "honoured"
  THEN SubSeq(p.features, first + 1, IF last < Len(p.features) THEN last ELSE Len(p.features))
  ELSE p.features

\* What a loop over s has appended after its first n rounds, when it takes the
\* elements at the positions I (SelectSeq, of positions and as a function).
Picked(s, I) ==
  LET upTo[n \in 0..Len(s)] ==
        IF n = 0 THEN <<>> ELSE IF n \in I THEN Append(upTo[n - 1], s[n]) ELSE upTo[n - 1]
  IN  upTo
Pick(s, I) == Picked(s, I)[Len(s)]

\* normalize and NewArea (flood), NewDOHCamera (cameras): unusable features
\* are counted and dropped.
Usable(f) == f.valid

\* parse: of two pins of one camera the first usable one is kept.
Parse(page) ==
  Pick(page, {i \in DOMAIN page :
                Usable(page[i]) /\ \A j \in 1..i - 1 : Usable(page[j]) => page[j].id # page[i].id})

Normalize(k, body) ==
  IF k = Camera THEN Parse(body) ELSE Pick(body, {i \in DOMAIN body : Usable(body[i])})

\* Whether FloodAreas goes on to the next page after this body.
MorePages(r, body) ==
  /\ r.paged
  /\ IF provider[r.key].style.counted
     THEN r.received + Len(body) < Len(provider[r.key].features) /\ body # <<>>
     ELSE Len(body) >= PageSize

\* A feed with features of which none is usable is an error; so is a camera
\* page without cameras, but an empty flood collection is not.
Rejected(k, received, areas) == areas = <<>> /\ (k = Camera \/ received > 0)

\* A page that fails ends the fetch with what came before it.
KeepFirstPages(r) ==
  IF r.areas = <<>> THEN [r EXCEPT !.pc = "failed"] ELSE [r EXCEPT !.pc = "fetched", !.fetchedAt = now]

Failed(r) == [r EXCEPT !.pc = "failed", !.areas = <<>>]

\* A network error, 429 or 5xx is tried once more; any other answer, and a
\* refresh whose 60 s are over, is not.
Retried(r) == IF r.attempt < 2 THEN [r EXCEPT !.attempt = 2] ELSE Failed(r)
Unanswered(r) == {Retried(r), Failed(r)}

\* A good body: the next page, or the end of the fetch.
Received(r, body) ==
  LET all == [r EXCEPT !.received = @ + Len(body), !.attempt = 1, !.page = @ + 1,
                       !.areas = @ \o Normalize(r.key, body)] IN
  IF MorePages(r, body) /\ r.page + 1 < MaxPages THEN all
  ELSE IF Rejected(r.key, all.received, all.areas) THEN Failed(all)
  ELSE [all EXCEPT !.pc = "fetched", !.fetchedAt = now]

\* 400 to the first paged request: ask once for the whole collection.
BadRequest(r) ==
  IF r.key # Camera /\ r.page = 0 /\ r.paged
  THEN [r EXCEPT !.paged = FALSE, !.attempt = 1]
  ELSE Failed(r)

\* The gateway rejects limit and offset with a 400.
Refuses(r) == r.paged /\ r.key # Camera /\ provider[r.key].style.paging = "refused"

\* One GET of a refresh and what fetchPage / fetch make of it.
Exchange(g) ==
  /\ refresh[g].pc = "fetching"
  /\ LET r == refresh[g] IN
     \E next \in Unanswered(r) \cup
                  {IF Refuses(r) THEN BadRequest(r) ELSE Received(r, Body(r))} :
       refresh' = [refresh EXCEPT ![g] = next]
  /\ UNCHANGED <<now, env, provider, entry, caller>>

\* --- The cache ----------------------------------------------------------

Never == -1
NoCopy == [fetchedAt |-> Never, areas |-> <<>>]
EmptyEntry == [snap |-> NoCopy, failedAt |-> Never, inflight |-> None]

Fresh(k) == entry[k].snap # NoCopy /\ now - entry[k].snap.fetchedAt < TTL(k)
BackingOff(k) == entry[k].failedAt # Never /\ now - entry[k].failedAt < Backoff

\* --- What a response carries of a copy -------------------------------------

\* Areas that meet the viewport and keep a ring at its scale.
Meeting(areas) == {i \in DOMAIN areas : areas[i].seen /\ areas[i].size > 0}

\* Those with which the response would pass a limit.  Areas and vertices only
\* add up, so that every area after the first of them is one too: the loop
\* breaks there.
Past(areas) ==
  LET before(i) == {j \in Meeting(areas) : j < i} IN
  {i \in Meeting(areas) :
     \/ Cardinality(before(i)) >= MaxAreas
     \/ MapThenSumSet(LAMBDA j : areas[j].size, before(i) \cup {i}) > MaxVertices}

Ids(s) == [i \in DOMAIN s |-> s[i].id]

\* An area past the limits is left out like one outside the view.
ClipSilently(areas) ==
  [shown |-> Ids(Pick(areas, Meeting(areas) \ Past(areas))), more |-> FALSE]

\* more tells that areas past the limits are missing.
Clip(areas) ==
  [shown |-> Ids(Pick(areas, Meeting(areas) \ Past(areas))), more |-> Past(areas) # {}]

\* Cameras inside the view, at most limit of them.
Within(cameras, limit) ==
  LET inside == Pick(cameras, {i \in DOMAIN cameras : cameras[i].seen}) IN
  [shown |-> [i \in 1..IF Len(inside) < limit THEN Len(inside) ELSE limit |-> inside[i].id],
   more |-> Len(inside) > limit]

\* Cameras within the radius, closest first (the sort is stable).
Nearest(cameras, radius, limit) ==
  LET near == Pick(cameras, {i \in DOMAIN cameras : cameras[i].dist <= radius})
      order == SortSeq([i \in DOMAIN near |-> i],
                       LAMBDA i, j : \/ near[i].dist < near[j].dist
                                     \/ (near[i].dist = near[j].dist /\ i < j)) IN
  [shown |-> [i \in 1..IF Len(near) < limit THEN Len(near) ELSE limit |-> near[order[i]].id],
   more |-> FALSE]

\* Service.List and Service.Nearby fill in what the query leaves at zero.
ListCameras(q, cameras) == Within(cameras, IF q.limit = 0 THEN DefaultLimit ELSE q.limit)
NearbyCameras(q, cameras) ==
  Nearest(cameras, IF q.radius = 0 THEN DefaultRadius ELSE q.radius,
                   IF q.limit = 0 THEN DefaultNear ELSE q.limit)

Find(cameras, id) ==
  [shown |-> Ids(Pick(cameras, {i \in DOMAIN cameras : cameras[i].id = id})),
   more |-> FALSE]

Present(q, copy) ==
  CASE q.op = "areas"  -> Clip(copy.areas)
    [] q.op = "list"   -> ListCameras(q, copy.areas)
    [] q.op = "nearby" -> NearbyCameras(q, copy.areas)
    [] q.op = "camera" -> Find(copy.areas, q.id)

\* --- A request -------------------------------------------------------------

NoQuery == [op |-> None, key |-> None, limit |-> 0, radius |-> 0, id |-> None]
Nothing == [shown |-> <<>>, more |-> FALSE]
Away == [pc |-> "away", query |-> NoQuery, snap |-> NoCopy, waitsFor |-> None,
         says |-> None, age |-> 0, body |-> Nothing]

Answer(q, says, copy) ==
  [pc |-> "answered", query |-> q, snap |-> NoCopy, waitsFor |-> None, says |-> says,
   age |-> IF copy = NoCopy THEN 0 ELSE now - copy.fetchedAt,
   body |-> IF copy = NoCopy THEN Nothing ELSE Present(q, copy)]

\* fallback: the last good copy as stale, unless it is too old.
Fallback(q, copy) ==
  IF copy # NoCopy /\ now - copy.fetchedAt < MaxStale
  THEN Answer(q, "stale", copy) ELSE Answer(q, "unavailable", NoCopy)

\* One turn of the loop of Get / load, under the mutex.
ServeFresh(c, q) ==
  /\ Fresh(q.key)
  /\ caller' = [caller EXCEPT ![c] = Answer(q, "fresh", entry[q.key].snap)]
  /\ UNCHANGED <<entry, refresh>>

\* No copy is fresh, no refresh runs and the last one failed a moment ago.
ServeFallback(c, q) ==
  /\ ~Fresh(q.key) /\ entry[q.key].inflight = None /\ BackingOff(q.key)
  /\ caller' = [caller EXCEPT ![c] = Fallback(q, entry[q.key].snap)]
  /\ UNCHANGED <<entry, refresh>>

\* The request waits for refresh g with the copy it has seen.
Waiting(q, g) ==
  [pc |-> "waiting", query |-> q, snap |-> entry[q.key].snap, waitsFor |-> g,
   says |-> None, age |-> 0, body |-> Nothing]

\* A refresh of key k that has not asked yet.
Started(k) ==
  [pc |-> "fetching", key |-> k, page |-> 0, attempt |-> 1,
   paged |-> k # Camera, received |-> 0, areas |-> <<>>, fetchedAt |-> 0]

\* The refresh is started without being recorded as the running one.
StartUnrecorded(c, q, g) ==
  /\ ~Fresh(q.key) /\ entry[q.key].inflight = None /\ ~BackingOff(q.key)
  /\ refresh[g].pc = "idle"
  /\ refresh' = [refresh EXCEPT ![g] = Started(q.key)]
  /\ caller' = [caller EXCEPT ![c] = Waiting(q, g)]
  /\ UNCHANGED entry

StartRefresh(c, q, g) ==
  /\ ~Fresh(q.key) /\ entry[q.key].inflight = None /\ ~BackingOff(q.key)
  /\ refresh[g].pc = "idle"
  /\ refresh' = [refresh EXCEPT ![g] = Started(q.key)]
  /\ entry' = [entry EXCEPT ![q.key].inflight = g]
  /\ caller' = [caller EXCEPT ![c] = Waiting(q, g)]

JoinRefresh(c, q) ==
  /\ ~Fresh(q.key) /\ entry[q.key].inflight # None
  /\ caller' = [caller EXCEPT ![c] = Waiting(q, entry[q.key].inflight)]
  /\ UNCHANGED <<entry, refresh>>

Turn(c, q) ==
  \/ ServeFresh(c, q)
  \/ ServeFallback(c, q)
  \/ \E g \in Refreshes : StartRefresh(c, q, g)
  \/ JoinRefresh(c, q)

\* What the handlers refuse before the cache is looked at.
ListRefused(q) == q.op = "list" /\ q.limit \notin 0..MaxLimit
NearbyRefused(q) ==
  q.op = "nearby" /\ (q.radius \notin 0..MaxRadius \/ q.limit \notin 0..MaxNear)
PeriodRefused(q) == q.op = "areas" /\ q.key \notin Periods
Refused(q) == ListRefused(q) \/ NearbyRefused(q) \/ PeriodRefused(q)

\* A request arrives; a feed that is not enabled has no service.
Ask(c, q) ==
  /\ caller[c].pc = "away"
  /\ \/ /\ Refused(q) \/ ~Enabled(q.key)
        /\ caller' = [caller EXCEPT ![c] = Answer(q, "refused", NoCopy)]
        /\ UNCHANGED <<entry, refresh>>
     \/ /\ ~Refused(q) /\ Enabled(q.key)
        /\ Turn(c, q)
  /\ UNCHANGED <<now, env, provider>>

\* The refresh it waited for is done: the loop looks again.
Wake(c) ==
  /\ caller[c].pc = "woken"
  /\ Turn(c, caller[c].query)
  /\ UNCHANGED <<now, env, provider>>

\* Its own context ends first (10 s, or the client left), even if the refresh
\* has just ended too: the copy it saw before waiting.
GiveUp(c) ==
  /\ caller[c].pc \in {"waiting", "woken"}
  /\ caller' = [caller EXCEPT ![c] = Fallback(caller[c].query, caller[c].snap)]
  /\ UNCHANGED <<now, env, provider, entry, refresh>>

Leave(c) ==
  /\ caller[c].pc = "answered"
  /\ caller' = [caller EXCEPT ![c] = Away]
  /\ UNCHANGED <<now, env, provider, entry, refresh>>

\* A failed refresh leaves nothing but the time it failed.
KeptIfFetched(e, r) ==
  IF r.pc = "fetched"
  THEN [snap |-> [fetchedAt |-> r.fetchedAt, areas |-> r.areas], failedAt |-> Never, inflight |-> None]
  ELSE [snap |-> NoCopy, failedAt |-> now, inflight |-> None]

\* What a refresh that ended leaves of an entry: a new copy, or the one it had.
Kept(e, r) ==
  IF r.pc = "fetched"
  THEN [snap |-> [fetchedAt |-> r.fetchedAt, areas |-> r.areas], failedAt |-> Never, inflight |-> None]
  ELSE [snap |-> e.snap, failedAt |-> now, inflight |-> None]

\* Who waits for refresh g is woken.
Woken(g) ==
  [c \in Callers |-> IF caller[c].pc = "waiting" /\ caller[c].waitsFor = g
                     THEN [caller[c] EXCEPT !.pc = "woken", !.waitsFor = None]
                     ELSE caller[c]]

\* A failed refresh returns before it clears inflight and wakes the waiting.
StoreOnSuccessOnly(g) ==
  /\ refresh[g].pc \in {"fetched", "failed"}
  /\ refresh' = [refresh EXCEPT ![g] = Idle]
  /\ IF refresh[g].pc = "failed"
     THEN /\ entry' = [entry EXCEPT ![refresh[g].key].failedAt = now]
          /\ UNCHANGED caller
     ELSE /\ entry' = [entry EXCEPT ![refresh[g].key] = Kept(@, refresh[g])]
          /\ caller' = Woken(g)
  /\ UNCHANGED <<now, env, provider>>

\* A refresh stores its result under the mutex and wakes who waits for it.
Store(g) ==
  /\ refresh[g].pc \in {"fetched", "failed"}
  /\ entry' = [entry EXCEPT ![refresh[g].key] = Kept(@, refresh[g])]
  /\ refresh' = [refresh EXCEPT ![g] = Idle]
  /\ caller' = Woken(g)
  /\ UNCHANGED <<now, env, provider>>

Tick ==
  /\ now < MaxTime
  /\ now' = now + 1
  /\ UNCHANGED <<env, provider, entry, refresh, caller>>

Init ==
  /\ now = 0
  /\ \E s \in Setups : env = s.env /\ provider = s.provider
  /\ entry = [k \in Keys |-> EmptyEntry]
  /\ refresh = [g \in Refreshes |-> Idle]
  /\ caller = [c \in Callers |-> Away]

Next ==
  \/ \E c \in Callers : \/ \E q \in Queries : Ask(c, q)
                        \/ Wake(c) \/ GiveUp(c) \/ Leave(c)
  \/ \E g \in Refreshes : Exchange(g) \/ Store(g)
  \/ Tick

\* A woken request runs again, a GET ends (the HTTP client's timeout and the
\* 60 s of the refresh see to it) and a refresh stores what it got.  Nothing
\* is assumed of the clock or of the requests' contexts.
Fairness ==
  /\ \A c \in Callers : WF_vars(Wake(c))
  /\ \A g \in Refreshes : WF_vars(Exchange(g)) /\ WF_vars(Store(g))

Spec == Init /\ [][Next]_vars
FairSpec == Spec /\ Fairness

\* --- Properties --------------------------------------------------------------

\* The refreshes running for a key.
Running(k) == {g \in Refreshes : refresh[g].pc # "idle" /\ refresh[g].key = k}

\* Concurrent misses share one upstream call: a key never has two refreshes,
\* whoever was woken, timed out or arrived in between, and the one it has is
\* the one requests wait for (officialflood/service.go:1-5).
MissesShareOneCall ==
  /\ \A k \in Keys : Running(k) = IF entry[k].inflight = None THEN {} ELSE {entry[k].inflight}
  /\ \A c \in Callers : caller[c].pc = "waiting" =>
        entry[caller[c].query.key].inflight = caller[c].waitsFor

\* After a success a provider is left alone for the TTL that is configured, or
\* for the default if that is out of range, and after a failure for the backoff,
\* however many requests come, wake and give up (officialflood/service.go:1-5,
\* 23-25).
ProviderIsSpared ==
  [][\A k \in Keys : Running(k) = {} /\ Running(k)' # {} =>
       /\ entry[k].snap # NoCopy =>
            \E ttl \in {env[k].ttl, DefaultTTL} \cap (LeastTTL..MostTTL) :
              /\ env[k].ttl \in LeastTTL..MostTTL => ttl = env[k].ttl
              /\ now - entry[k].snap.fetchedAt >= ttl
       /\ entry[k].failedAt # Never => now - entry[k].failedAt >= Backoff]_vars

\* A collection the client can get whole: MaxPages pages are enough for it, a
\* provider that ignores paging tells how many features there are, and one that
\* caps its pages below PageSize holds no more than a page
\* (CountedPagesAreWhole is about those that hold more).
Fits(k) ==
  LET p == provider[k] IN
  k # Camera =>
    /\ p.style.paging = "honoured" =>
         Len(p.features) <= IF p.style.cap < PageSize THEN p.style.cap ELSE MaxPages * PageSize
    /\ p.style.paging = "ignored" => p.style.counted \/ Len(p.features) < PageSize

\* The copy of a key is never lost: it is replaced only by one fetched no
\* earlier, so no late refresh overwrites what a later one brought.
CopiesGetNewer ==
  [][\A k \in Keys : entry'[k].snap # entry[k].snap =>
       entry'[k].snap.fetchedAt >= entry[k].snap.fetchedAt]_vars

\* A new copy of a collection that fits holds every usable feature of the
\* provider once and in order, never a part of them that got through before a
\* page failed.
CopiesAreWhole ==
  [][\A k \in Keys : entry'[k].snap # entry[k].snap /\ Fits(k) =>
       entry'[k].snap.areas = Normalize(k, provider[k].features)]_vars

\* "Page until the provider says we have everything (numberMatched)"
\* (gistda/client.go:139-141), "The provider capped the page below our limit;
\* numberMatched says there's more" (client_test.go:92-93): a copy fetched from a
\* provider that counts holds every usable feature, whatever it caps its pages
\* to.  It does not: the next offset is a multiple of the limit.
CountedPagesAreWhole ==
  [][\A k \in Periods : LET p == provider[k] IN
       /\ entry'[k].snap # entry[k].snap
       /\ p.style.paging = "honoured" /\ p.style.counted /\ Len(p.features) <= MaxPages * PageOf(p)
       => entry'[k].snap.areas = Normalize(k, p.features)]_vars

\* A request that waited is no worse off for it: it is answered with the copy it
\* had seen or a newer one, and is not refused while that copy is within a day,
\* whatever refreshes failed, ended or were given up on meanwhile
\* (officialflood/service.go:1-5, 121-128).
WaitingLosesNothing ==
  [][\A c \in Callers :
       LET had == caller[c].snap  told == caller'[c] IN
       /\ caller[c].pc \in {"waiting", "woken"} /\ told.pc = "answered"
       /\ had # NoCopy /\ now - had.fetchedAt < MaxStale
       => told.says \in {"fresh", "stale"} /\ now - told.age >= had.fetchedAt]_vars

\* Without "has more" nothing the request asked for is missing from its answer,
\* if the collection fits.
NothingIsMissing ==
  \A c \in Callers : LET a == caller[c]  q == a.query IN
    a.says \in {"fresh", "stale"} /\ q.op \in {"areas", "list"} /\ Fits(q.key) /\ ~a.body.more =>
      LET all == Normalize(q.key, provider[q.key].features) IN
      \A i \in DOMAIN all : all[i].seen /\ all[i].size > 0 =>
          \E j \in DOMAIN a.body.shown : a.body.shown[j] = all[i].id

\* A waiting request is answered, and so the refresh it waits for ends, with
\* the feed up or down and though no request's own context ever ends.
WaitersAreAnswered ==
  \A c \in Callers : []<>(caller[c].pc \in {"away", "answered"})
=============================================================================
