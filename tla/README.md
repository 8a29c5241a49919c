# FloodNow backend: specifications and proofs

TLA+ models of the parts of the FloodNow API whose correctness depends on the
order in which concurrent calls, transactions and messages happen, the TLC runs
that check them on small instances, and theorems about them that TLAPS checks
for every value of the constants.

    tlc -config MatchingRaces.cfg MCMatching      # one run
    tlapm MatchingProofs.tla                      # one proof module

`PROJECT.json` lists the components, the runs, the lines each definition models
(`map`), the mistakes the properties are known to catch (`mutants`), the
hazards, the findings and the theorems.

## The system

One Go process per replica (`src/cmd/api/main.go`), an HTTP router over
application services (`internal/application/*`), each with a domain package of
pure rules (`internal/domain/*`) and a PostgreSQL repository
(`internal/adapters/outbound/postgres`). Services keep no state of their own
except the caches of external answers: what two calls share is in the database. So the
interleavings that matter are those of

- **reads and decisions without a lock** in a service, followed by
- **one database transaction** in the repository, which checks some of what was
  decided again under a row lock or by compare-and-set, and
- the outside world: Stripe, object storage, a cron job, the clock.

| component | state | operations | interacts with | what is hard | correct when |
|---|---|---|---|---|---|
| local services | `service_providers`, `service_requests`, `service_offers`, `service_matches`, `service_request_events` | profile, request, offer, select, reject, accept, move on, cancel, suspend | the wallet, in the same transaction | stale decisions, lazy timeouts, several parties on one request | request, offers and matches tell the same story; both parties agree to a match; closed stays closed |
| wallet | `provider_credit_transactions`, `credit_balance` | `applyLedger`, called by welcome credit, match fee, refund, top-up, adjustment | local services, top-ups | retries and order of several writers | one row per economic event, the cached balance is the sum, never negative |
| top-ups | `provider_topups` | `StartTopup`, the webhook | Stripe, the wallet | lost answers, crashes, duplicated and reordered events | credit exactly for what was paid, never taken back, in the end |
| SOS | `sos_requests`, `sos_events`, `helpers` | create, accept, move on, withdraw, cancel, helper profile, nearby | none | helpers racing for a request, one helper's parallel accepts, stale roles | one helper per request, a bounded number of requests per helper, only the assigned helper acts |
| reports | `reports`, confirmations, reactions, events | create, confirm, resolve, react | moderation, image cleanup, follows | votes racing, windows computed before the lock | resolved exactly by the votes of enough devices, since when it was first |
| moderation | complaints, `hidden_at` | complain, hide, restore | reports | counting complaints concurrently | hidden once enough devices complained, an operator's decision stands |
| image cleanup | image keys of rows, the bucket | cron run: expired rows, then orphans | reports, announcements, R2 | delete against re-use, crash between delete and clear, two replicas | one pass at a time, nothing is cleared that was replaced, what is not needed goes in the end |
| saved places, follows | `follows` | save, edit, delete, claim, poll | accounts, reports | a place changing hands between a read and its write | an owned place is edited and deleted by its owner only, and changes hands only to a sign-in on its device |
| feed caches (GISTDA, DOH) | in memory, per replica | get, refresh | external feeds | concurrent misses, half-read pages, providers that are down | one refresh at a time, a copy is whole, who waits for a refresh loses nothing by it |
| accounts, sessions | `users`, `user_sessions`, the browser's cookie | register, log in, log out, restore | saved places | tabs that share a cookie, lost and overtaken answers | a replaced or ended session is dead, no other one ends with it |
| events, announcements, important places | one table each | create, edit, cancel, publish, delete, list | image cleanup (announcements) | partial edits that write whole rows back | what is stored is valid, deleted stays deleted |
| route risk | none | plan | reports, OSRM | queries over boxes, cut at a limit, two derivations of a status | no open report within the boxes' reach of a route is missed without a warning |
| place search, uploads, donation | none | reads | Nominatim, R2 | — | — |
| migrations | `schema_migrations` | up, down | the database | two runners, failure half-way | a version is applied once |
| HTTP, configuration, start-up | none | decode, encode | all services | — | — |

The hazards of this code, each at its line, are in `PROJECT.json`.

## The modules

    Ledger ──┬── Matching ── MatchRefinement ── MatchViews ── MCMatching
             │                     └ implements MatchContract
             └── Topups ──── MCTopups
    Sos ── MCSos
    Reports ──┬── MCReports
              ├── ImageCleanup ── MCImageCleanup
              └── ReportMap ── RouteRisk ── MCRouteRisk
    FeedCache ── MCFeedCache
    Accounts ── MCAccounts
    Content ── MCContent

    LedgerProofs ──┬── MatchingProofs   (Matching, MatchContract, MatchViews)
                   └── TopupsProofs
    SosProofs      ReportsProofs (Reports, ImageCleanup, ReportMap, RouteRisk)
    FeedCacheProofs      AccountsProofs      ContentProofs

### `Ledger`

The operators of `applyLedger`: a ledger row carries its idempotency key and the
balance it leaves; a key that exists changes nothing (`Posted`,
`PostedBalance`). Keys are the kind of event and the thing it happened to:
`UNIQUE (request_id, provider_id)` makes (request, provider) name an offer and
its match. `Accounts` states "the balance is the sum of the rows" through
`balance_after`, row by row, so that it needs no recursion and can be proved.

### `Matching`

Every service call is two or three actions. `Begin…` and `Load`/`Decide…` are
what `application/localservice/service.go` reads and decides before the
transaction; the values it carries on are the record `call[s]`. `Commit…` is the
repository's transaction, atomic because each one takes the request's row lock
first (`lockRequest`) or is a single compare-and-set (`TransitionJob`). Between
the two anything else may happen, the process may die (`Abort`), an operator may
suspend the provider and a deployment may change fees (`Redeploy`).
`Locked`/`LockedOffers`/`LockedEvent` are the lazy normalization every
transaction but `TransitionJob` does, as of the *call's* `now`, which was read
before it waited for the lock; a refused transaction commits it too (`Refuse`),
one that returns an error does not (`Rollback`).

| variable | table |
|---|---|
| `prov`, `balance` | `service_providers` and its `credit_balance` |
| `ledger` | `provider_credit_transactions` |
| `req` | `service_requests`: status, selected offer, its deadline, expiry |
| `offer`, `match` | `service_offers.status`, `service_matches` by request and provider |
| `timeline` | the newest row of `service_request_events` of each request |
| `policy`, `clock`, `call` | the deployment's `BillingPolicy`, `Clock`, the calls under way |

Abstracted: categories, coordinates and the service radius are one question,
whether the profile covers the request; prices, phone numbers, reasons and notes
are left out; `Load` leaves out calls the service refuses whatever it reads.
Not modelled: `Dismiss`, `ReportIssue` and `AdminVerify`, which write rows
nothing modelled reads. The timeline is ordered by insertion; the query that
shows it sorts by `created_at`, a time taken before the lock, first (hazards).

### `MatchContract` and `MatchRefinement`

`MatchContract` is what local services promise about a request, in three
variables: its `phase` (open, asked, engaged, done, over), whom it is `with` and
who has `spent` their chance. A provider who agreed, declined, let the time pass
or backed out is never asked again, a job begins only when the one who is asked
agrees, and a request that is done or over stays as it is. It stands for no code.
`MatchRefinement` maps the rows of `Matching` to it: the phase is the status, the
other party is the selected or the matched provider, and the spent ones are those
whose offer is accepted, rejected or expired. `ContractIsKept` says that each
transaction, stale call or lazy timeout is one step of the contract or none.

### `MatchViews`

What the screens show of those rows: `GetRequest`, `MyRequests`, `MyJobs`,
`MyOffers`, `NearbyRequests` and the provider's summary (the public lists of
providers, which show no contact, are left out). The lazy timeouts exist
three times, in Go (`Effective`), in the `WHERE` of a list and in the row lock;
the views are written from the first two, `Locked` from the third. A contact is
one value per person, the phone and the exact point. Each screen is one snapshot.

### `Topups`

`StartTopup` is its real sequence: insert a pending row, ask Stripe, store the
PaymentIntent or mark the row failed, with a crash possible between any two.
Stripe is the environment, from how the client uses it: a payment per top-up
(the idempotency key), which may exist although the call failed; events that are
delivered at least once, in any order, also after they were acknowledged.
`Deliver` is one webhook: looking the top-up up and the transaction are one
step, because which top-up an event is for never changes and `MarkTopupPaid`
checks the rest again under the lock.

### `Sos`

A call of `application/sos/service.go` is again `Begin…` (and `DecideAccept`,
since Accept reads the helper and the request in two statements), what the
service reads and decides, and `Commit…`, the repository's transaction:
`CommitUpdate` is the compare-and-set of `Transition` on the status and, for a
helper, on the assignment; `CommitAccept` takes the helper's row lock, counts
what they hold and claims the request if it still waits. A count read before a
concurrent transition committed can only be too high, which is a refusal the
model has as `Abort`. `Create` is one insert against the two unique indexes, so
it is one action.

| variable | table |
|---|---|
| `sos` | `sos_requests`: status and `helper_device_id`, which stays when the request is closed |
| `newest` | the newest row of `sos_events` of each request |
| `helper` | `helpers`: active, capabilities, radius, position |
| `call` | the calls under way with what they read |

Abstracted: texts and phone numbers are left out, a helper's position is a
place that no statement compares with a request's, and `Volunteers` are the
devices that ever open helper mode. Not modelled: reads (`Get`, `Mine`,
`NearbyWaiting`, the counts) and with them the age at which an unanswered request
is hidden from helpers.

### `Reports`

Reports with their votes, and the complaints and decisions of moderation, which
write the same row. `Create` is one insert. A vote is `BeginConfirm` (the clock,
then the report) and `CommitConfirm`: under the row lock it records the device's
vote, restarts the window of a `still_active` one (`Refreshed`), counts all votes
and applies `NextResolvedAt` and `ResolutionEvent`. A complaint is
`BeginComplaint` (is the report shown), `DecideComplaint` (the hourly limit) and
`CommitComplaint` (insert unless there is one, count, hide). An operator's `Apply`
reads everything it decides on under the lock.

| variable | table |
|---|---|
| `report` | `reports`: the window, `resolved_at`, `hidden_reason`, the image key; the status is never stored |
| `vote`, `complaint` | `report_confirmations`, `moderation_reports` by report and device |
| `told` | `report_events`: the entries inserted last on resolution and on visibility |
| `call`, `clock` | the calls under way with the `now` they began with, `Clock` |

Abstracted: category (long-lived or not), severity, place, texts and what a
condition update changes besides the image. Not modelled: reactions, which write
a table nothing here reads; the maps' reads are `ReportMap`.

### `ImageCleanup`

Extends `Reports` with the bucket and the scheduled pass of each replica. A pass
is the code's sequence of statements and requests, one action each, with any step
of a client in between: `Fire` (the advisory lock), `Query`, `RevalidateReport`,
`DeleteImage`, `ClearReport`, `ListObjects`, `CheckReference`, `DeleteOrphans`,
`Release`. Each request may be refused (`Fault`), as the code handles it: the
candidate, or the rest of the loop, is left for a later pass. `Crash` ends the
process and its session, `LoseConnection` only the session that holds the lock.

| variable | state |
|---|---|
| `object` | the bucket: not uploaded, uploaded at a time, `Gone` |
| `lock` | the session that holds `imageCleanupLockKey` |
| `up`, `pass` | each replica, and the local variables of its `Service.Run` |

Not modelled: the other tables `ImageKeyReferenced` asks, more than one page of
the listing, the dry run, and moderation, which the job never looks at; the loop
over announcements is in `Content`. Clients name an image after they uploaded it,
possibly after it was deleted as an orphan.

### `ReportMap` and `RouteRisk`

`ReportMap` adds to `Reports` what each report says and the queries of the maps:
the list of a viewport with `has_more`, the reports around a point, the duplicates
of a new one and the grid. The status of a report is derived by `Status` in Go and
by `HasStatus`, the predicates of `queryBuilder.statuses`. Places are points of a
plane in units of 25 m, and a query that `LIMIT` cuts returns any answer its
`ORDER BY` allows (`Cut`), the grid's cells included. `RouteRisk` is the planner on
top of it: boxes around chunks of the routes (`CorridorBoxes`), one query cut at
`CorridorReportLimit`, the weight of each report for each vehicle (`ImpactOf`), the
verdict (`Score`) and the order of the routes (`InOrder`, by the place that
`Before` gives each). A provider may offer no route and a route may have no points.
Its reports move as `Reports` moves them, one call at a time. Routes run along the
grid, so whether a report is near (`NearPath`) is exact. Boxes are not: they are
drawn in degrees at 111 320 m to one, distances are measured at 111 195 m, and the
pad in longitude, taken at the southern edge, shrinks to the north. `PadShort` is
the most a pad falls short of its meters, and `Padded` draws every box that narrow,
those of the corridor and the one of `Nearby`. A report in between is found by the
code where its pad falls short by less.

### `FeedCache`

The cache both `officialflood` and `cctv` keep; a key is a period of the flood feed
or the camera feed. A step is what one goroutine does between two points where
another may run: `Ask` and `Wake` (`Turn`, under the mutex), `GiveUp` (the
request's 10 s), one `Exchange` of a refresh with its paging, retries and fallback
to an unpaged request, and `Store`.

| variable | state |
|---|---|
| `entry` | `cacheEntry`: the copy, `failedAt`, the refresh in flight |
| `refresh`, `caller` | the goroutines of refreshes and of requests |
| `env`, `provider` | the feed's settings; what the provider holds and how it pages (external) |

A provider honours paging, ignores it or refuses it, counts its features or not,
and caps its pages at some length (`Styles`; `PageOf` is what it gives at once). The
client asks for page `n` at offset `n * PageSize` whatever the pages before it held.
`Fits` says which collections it gets whole by that: those that `MaxPages` pages can
hold, if pages are capped those of one page, if paging is ignored those that are
counted or shorter than a page.

A feature is whether it can be used, how large it is and whether it is on screen.
The loops that keep some elements of a sequence are `Pick`, of the positions they
keep. `Clip` breaks at the first area past a limit; as areas and vertices only add
up, every later one is past it too (`Past`) and the model leaves all of them out;
`MCFeedCache` has TLC compare both with the loops (`LoopsArePicks`).

### `Accounts`

The handlers of sign-up, sign-in, sign-out and session restore and the service
behind them run no transaction, so every statement is an action: `Register`,
`CreateUser`, `Login`, `Prune`, `InsertSession`, `Revoke`, `ReadClaim`,
`TakeClaim`, `DeleteSession`. `Admitted` is the session cookie with the
double-submit token. Tabs share the browser's cookie `jar`, and each keeps the
token its last answer gave it; an answer is lost (`Drop`) or arrives late
(`Arrive`). Saved places are counted, read and written in separate statements, and
a claim is two actions: what its subquery chooses (`Claimable`, the oldest ownerless
places of the device for which there is room) and the `UPDATE`, which waits for the
rows, skips those deleted meanwhile and does not ask again whether they are
ownerless.

### `Content`

Community events, announcements and important places. A partial edit is read,
change and write back of the whole row: `UpdateEvent` (and its like) reads and
decides, `Write` is the `UPDATE`; `Insert` and `Delete` likewise. A behaviour has
one `kind` of rows. The cleanup's loop over announcements (`StartPass`,
`RevalidateAnnouncement`, `DeleteObject`, `RemoveImageIfPresent`, `EndPass`) runs
beside their edits. A statement of it that fails leaves its image for a later pass
and the loop goes on; the pass ends with its batch or with the process.

In `FeedCache`, `Accounts` and `Content` an operator that is used nowhere and
stands before one with the same parameters is a plausible mistake in the latter,
which the properties are known to catch; the mutants of `PROJECT.json` name them
all, in the other modules too.

## The runs

| run | states | instance | what it asks |
|---|---|---|---|
| `matching_races` | 390 005 | one customer, two providers, one request, two concurrent calls, time to 2 | does every interleaving keep the contract, refunds and contacts right, and is what a screen offers doable |
| `matching_life` | 363 260 | one provider, one call at a time, every other feature on: suspension, adjustments, two policies, time to 4 | fees, timeline, and that an unanswered selection ends |
| `matching_backout_refund` | 6 936 until found | as races, time 0 | finding: a provider who backed out is refunded |
| `topups` | 34 724 | two top-ups of one wallet | credit once per payment, in every order, and in the end |
| `sos` | 457 398 | two requesters with a request each, two helpers, two concurrent calls, a cap of one | one helper per request, the cap, and who may move what, in every order |
| `reports` | 1 031 829 | one report, three voting devices of which two complain, two concurrent calls, time to 1 | is a report resolved by its votes alone and hidden by its complaints alone, and do decisions stand, in every order |
| `cleanup` | 773 236 | one report, one device, two images, two replicas, one fault, time to 2 | the lock, one pass at a time, and what is cleared |
| `cleanup_live` | 249 412 | the same with one replica | what is not needed goes in the end, whatever fails once |
| `feeds` | 304 293 | two requests, two refreshes, eleven set-ups of feed and provider, time to 3 | one call at a time and none within the TTL, whole copies that only get newer, nothing lost by waiting, nobody waits for ever |
| `accounts` | 703 351 | two tabs of one browser, two accounts, two tokens, two places, time to 1 | which sessions end, and who edits, deletes or takes over a place |
| `content` | 542 163 | two rows of one kind, two calls, two organisers, one image, time to 1 | is what is stored valid, does deleted stay deleted, are the lists true, do objects go first |
| `routes` | 73 656 | two reports of six and four kinds, four trips, two vehicles, pads one unit short, time to 2 | is a report missed that is well within its radius, and is the verdict what the reports say |

Bounds. Two calls at once are enough for every race here because a transaction
conflicts with what one other call did since it decided; that may be a whole
sequence of calls, which the second session runs one after the other. Two
providers are enough to be "another one". Time goes to 2 (4 in `matching_life`)
with a confirmation timeout of 1, a TTL of 2 and a grace of 1, so each deadline
is met, missed by one and passed. `MaxRows` bounds adjustments only.
`CHECK_DEADLOCK FALSE` in the Matching runs: once the clock stands at its bound
and the only request is closed there is nothing left to do. Every other run checks for
deadlock.
In `Sos` two helpers race for each request and each helper for two requests, so
a cap of one is met and would be passed; the code's own cap of three needs four
requests and no other kind of interleaving. Helpers are symmetric, sessions are,
and requests are together with their requesters (`MCSymmetry`); the properties
are invariants and single steps, for which the reduction is sound.

In `reports` two votes of three resolve, so a majority is gained, lost and gained
again, and two complaints hide; reports do not interact but through the hourly
limit, which one report and a limit of one exercise as far as it goes (a repeated
complaint is refused). Complainers and sessions are symmetric. In `cleanup` times
go to 2 with windows and retentions of 1: a report can expire or be resolved and
pass its retention, and an upload can be an old orphan or a young one. One report
means a batch of one is never cut; two images are what replacing one needs. The
liveness run has one replica because a second one doubles nothing but the lock,
which `cleanup` checks, and uses no symmetry.

In `routes` each report says one of several things (`MCConditions`): beside the
line, in the middle of a segment between two chunks of points, at an end, far away
or at exactly its radius, where a pad that is a unit short decides; the trips have more routes than boxes, a route of one point, and equal
durations. One list holds one row, so that cutting is the rule. In `feeds` pages
hold two features, or one where the provider caps them, and collections up to
five, so a collection is complete, cut at the page bound, skipped in part, or fails
on its second page; two requests join one refresh and a
second refresh would be there to be started; the two feeds share no entry, so a
behaviour has one of them on. In `accounts` two tabs of one browser are two
requests with one cookie; two accounts sign in on them, and one place is there
before any account. In `content` two calls edit two rows with a lead time, a
duration and a limit of one or two.

Fairness. `Matching!FairSpec` assumes only that time passes (`Tick`): nobody is
obliged to answer, and the property says that the customer is freed all the
same. `Topups!FairSpec` assumes that Stripe delivers each event until it gets a
2xx, which is its documented behaviour and what the handler's errors rely on;
nobody is obliged to pay and `StartTopup` may die. `ImageCleanup!CleanupFairSpec`
assumes that a replica that is down is started again by the platform, that the
daily schedule fires, and that a pass, a loop with no waiting but for answers that
may be refusals, goes on. Clients are obliged to nothing; faults are bounded by
`MaxFaults`, or the bucket could refuse for ever. `FeedCache!FairSpec` assumes
that a request that was woken runs again, that an HTTP exchange ends (the client's
timeout and the refresh's 60 s see to it) and that a refresh stores what it got;
nothing is assumed of the clock, of the requests' contexts or of the provider.

## Findings and divergences

`matching_backout_refund`: a customer's cancel decides its refund before the lock
and commits it when the request has the same status again, so the fee can go back
to a provider who backed out while the one whose job was cancelled keeps paying.

### Known divergences

Found by reading the code for the models. The models have them where their
component is modelled, and the properties of the runs are stated so that they hold
all the same. Three are written as properties that TLC refutes, each with a
configuration of its own beside those of `PROJECT.json`.

- `CountedPagesAreWhole` (`tlc -config FeedsCapped.cfg MCFeedCache`, 7 503 states):
  the client pages by multiples of its own limit, so of a provider that gives fewer
  features a page it never asks for those in between, and the empty page past the end
  passes for the end of the collection; a comment and a test promise the opposite
  (`gistda/client.go:108`, `:139-141`, `client_test.go:92-95`).
- `OwnedPlacesAreNotClaimed` (`tlc -config AccountsClaims.cfg MCAccounts`, 4 013
  states): two accounts that sign in on one device both choose its ownerless place,
  and the later `UPDATE`, which asks for the id only, takes it from the first,
  although a claim is said to hand over ownerless places
  (`follow_repository.go:157-167`). `PlacesArePrivate` bounds what such a sign-in
  can do.
- `CorridorsAreWideEnough` (`tlc -config RoutesPad.cfg MCRouteRisk`, 37 states): the
  boxes of a corridor are said to be padded by the widest radius (`route.go:176-177`)
  and come out narrower by 11 cm in 100 m, more in longitude where a chunk runs far
  north (`:417-418`). A flood in between affects the route, is not loaded, and the
  answer counts as complete. `NoReportIsMissed` speaks of the reports within the
  narrower boxes.
- `TransitionJob` and `Cancel` do not check whose the active match is: a call of a
  provider who has backed out since can move or cancel the next one's job,
  although `roleOf` says only the matched provider acts (`service.go:240`,
  `localservice_repository.go:753`).
- `charge.refunded` delivered before `payment_intent.succeeded` finds no paid row,
  is acknowledged and lost, although every branch is said to be order-independent
  (`wallet.go:103-106`, `localservice_repository.go:1007`).
- `Accept` of an SOS never reads the helper's position, although its comment names
  their radius (`sos/service.go:174-175`, `:201`).
- When the image cleanup's lock is taken, `TryAdvisoryLock` returns no release
  function and `runImageCleanup` defers the call of it all the same, which ends the
  process (`advisory_lock.go:33`, `main.go:285`, `:293`; `ImageCleanup!Fire`).
- The limits of open requests, of upcoming events and of hourly complaints are
  counted before the insert and under no lock; concurrent calls pass them together
  (`request.go:208`).
- Edits of events, announcements and places write whole rows back, so an edit that
  overtakes another is lost, one that read an event before it was cancelled brings
  it back (`event.go:106-107`, `announcement.go:149`), and one that read an
  announcement before the cleanup took its image names the image again. A row
  deleted in between is not brought back, and the edit is answered as a success.
- The cleanup checks an announcement's end and its being published, not when it
  begins, and takes an image another announcement still names.
- A flood provider that ignores paging and does not count its features is read as
  complete at any length, although a comment says the loop stops there
  (`gistda/client.go:139-141`); one that caps its pages and does not count is cut
  after the first, and a collection longer than `maxPages` pages is stored cut, with
  no sign of it. `CopiesAreWhole` and `NothingIsMissing` speak of collections that
  fit (`Fits`).
- `NearbyRequests` leaves the deadline of somebody else's selection in its answer
  (`localservice_handler.go:646-663`).
- `Nearby` and the duplicate check draw the same narrow boxes, so a report at the
  edge of the radius is not among what is near (`report_repository.go:360-365`).
- The grid is cut at 2000 cells, and the lists of events and announcements at their
  limit, without a sign that there is more.

## The proofs

Proved by TLAPS for any sets of users, providers, requests, replicas and calls, any
policies and durations. The only assumptions are the named `ASSUME`s of the
modules, which TLC evaluates in every run: constants have their types, `None` is
nobody, sets that are counted or queried are finite, a page and the answers of the
duplicate check and the corridor hold a row at least, and a feed's default TTL lies
in the range that `config.go` allows (15 in 1–1440, 60 in 5–1440 minutes).

- `Matching`: `TypeOK`, `MatchAgreesWithStatus`, `SelectionAgreesWithRequest`,
  `MatchAgreesWithOffer`, `BalanceIsLedger`, `FeeExactlyOnce`,
  `RefundsGiveBackFees`, `TimelineAgreesWithStatus`, and the action properties
  `OffersOnlyMoveForward`, `ClosedStaysClosed`, `MatchNeedsBothParties`.
- `MatchRefinement`: `ContractIsKept`, the safety part of "`Matching` implements
  `MatchContract`" (the contract states no fairness).
- `MatchViews`: `ContactNeedsMatch`, `ShownIsDoable`.
- `Topups`: `TypeOK`, `CreditedOncePerPayment`, `PaidIsFoundByIntent`,
  `BalanceIsLedger`, `SettledStaysSettled`.
- `Sos`: `TypeOK`, `AssignmentsBounded`, `TrailNamesTheActor`, and the action
  properties `OnlyAllowedMoves`, `NeverTakenOver`, `OnlyTheAssignedHelperActs`.
- `Reports`: `TypeOK`, `ResolvedByVotes`, `ShownBelowThreshold`,
  `HistoryTellsTheState`, and the action properties `ResolvedAtIsKept`,
  `DecisionsStand`.
- `ImageCleanup`: `OnePassAtATime` and the action property `ClearedAfterGone`.
- `ReportMap` and `RouteRisk` (in `ReportsProofs`): `NoReportIsMissed`,
  `VerdictIsHonest`.
- `FeedCache`: `MissesShareOneCall`, `NothingIsMissing`, and the action
  properties `ProviderIsSpared`, `WaitingLosesNothing`, `CopiesGetNewer`,
  `CopiesAreWhole`.
- `Accounts`: `OldSessionIsGone`, and the action properties
  `SessionsEndByTheirHolder`, `PlacesArePrivate`.
- `Content`: `RowsStayValid`, `ListsAreTrue`, and the action properties
  `DeletedStaysDeleted`, `ObjectsGoFirst`.

The argument. A relation between tables is seldom inductive alone: a transaction
writes two or three of them and relies on what a call read before it. Every proof
has one invariant that says what holds of the rows and, above all, what a call
under way may carry; the properties follow from it and from one step.

`MatchingProofs` is in six parts. Types first. `Coherent` then joins the types, the
agreement of each request with its offers and matches (`AllAgree`) and the fact
that a call under way only carries what its service could have decided
(`Decided`: a role and a transition the rules allow, a refund only for a
customer's cancel of a charged match). Each step of `Next` changes one request and
at most one wallet, so every lemma is about that request and that wallet and one
lemma carries the rest over. Part 3 proves the action properties from `Coherent`.
Part 4 adds that fees are billed exactly for charged matches and that each refund
has its fee before it (`Settled`).
Part 5 is the refinement: whom a request is with is unique (`OnePartyOnly`), so the
`CHOOSE` of the mapping is what the rows say, and each transaction is the contract's
step or stutters; a row lock that releases a lapsed selection belongs to the step it
opens, which is why the contract's `Ask` may start from `asked`. It needs more of `Agrees` than the safety did: an accepted offer
has a match that runs, is done or was cancelled by the customer, and an offer whose
match its provider cancelled is rejected.
Part 6 proves the screens. Contacts follow from `Agrees` once no provider has an
offer on a request of their own (`OwnWorkLeft`, which a call between its read and
its insert must carry too); that what is shown can be done is a comparison of
`EffectiveOffer` with the row lock, status by status. `LedgerProofs` has the facts
about a posted row that both wallets' components cite.

`TopupsProofs` strengthens `CreditedOncePerPayment` with "a received payment was
announced as succeeded" and "a row exists once the call began" (`Known`).
`SosProofs` reduces every step to three lawful ways to change a row
(`StepLawful`): it is sent, moved on by one of the transitions, or claimed. A
stale `update` call is lawful only because its record holds a transition the
state machine allowed when it was read, so the induction carries that fact of
every call (`Decided`) with the types (`Coherent`); without it a commit that
finds the status unchanged could still write anything. The cap is then a count:
only a claim adds to `Held`, by one element, under `HasRoom`.

`ReportsProofs` says of one report, its votes, its complaints and its last entries
what the invariants say of all (`Fine`) and shows that each commit leaves the one
report it rewrites fine (`VoteIsFine`, `ComplaintIsFine`, `DecisionIsFine`). The
calls need strengthening again: a call under way is about a report that exists
(`AboutReports`), or its commit could count votes for nothing. For the cleanup
`CleanupCoherent` adds that a pass about to clear a key has deleted its object
(`PassesFine`; an object that is gone is never uploaded again under its key) and,
until the first fault, that whoever is in a pass holds the lock (`LockFine`).

The maps and the planner only read, so what they promise is mostly arithmetic and
geometry for every set of reports, routes and limits; of the state they need that a
report's window ends no sooner than it goes stale and that what reports say is typed
(`RowsSound`). A report that affects a route and lies within the padded corridor is in
the answer because

- the two derivations of its status agree (`StatusesAgree`, `MatchesByStatus`);
- the chunks of a route cover its segments, the last point of one being the first
  of the next (`ChunksCover`, which the mutant `ChunkAlone` breaks), and whatever is
  no farther from a segment than the pad reaches is inside the box around it
  (`OutsideBounds`, `SquaresGrow`, `CorridorCovers`), for any `PadShort`;
- a page that says it is not cut is everything that matches (`CutKeeps`,
  `PageIsWhole`), whichever rows of equal rank the database leaves out.

The grid counts each report once because cells and counts add up to the reports
(`CellsCountOnce`). The order of the routes is a permutation: `Before` is a total
order, so places are different numbers between 1 and the number of routes, each
taken once (`BeforeIsOrder`, `PlacesFollowOrder`, `OrderIsKept`). The verdict is the
worst of finitely many (`WorstRisk`), and what a report is said to mean for a
vehicle is followed through every rule (`ImpactIsWhatItSays`).

`FeedCacheProofs` has the invariant `Shared`: a refresh under way is the one its
entry names and the other way round, a request that waits does so for the refresh
of its own feed, and a refresh that has its copy got it no earlier than the copy it
will replace. The last needs the first: with two refreshes of a feed the slower one
would put an older copy back, which is how the mutant `StartUnrecorded` breaks
`CopiesGetNewer`. That waiting loses nothing (`NobodyIsHarmed`) needs all of it: the
copy a request carries is the entry's or an older one, which the entry keeps
whatever ends the refresh, and an answer is given from one of the two. `Complete`, on top of it, says what is in the copies: a refresh
that still asks for pages has the usable features of exactly the pages before
(`FirstPages`), any other has nothing yet, and so every way to end with success,
the last page, the whole collection at once or after a 400, ends with all of them
(`PageArrives`, `AllArrives`). That pages add up to the collection is
`PicksAppend`: the elements a loop keeps of two parts of a sequence are those it
keeps of the whole, by induction on its rounds. The request that waits carries its
old copy, which must be whole too, since `GiveUp` answers with it.
`AccountsProofs` (`Sound`) carries what a request between two statements knows: the
cookie it came with, the token it made and inserted, the place it read. An owned
place is safe because the statement itself names the owner; `GetPlace` is not
enough, since a claim may come in between. `Claims` adds that a claim under way
carries only places its own device saved, or that are gone: ids are never used again
while a request names them, which is what makes `PlacesArePrivate` hold of the
`UPDATE` that trusts them.
`ContentProofs` (`Sound`) carries that a row about to be written is valid as a
whole, and that the pass about to take an image out of an announcement has deleted
the object.

What is proved need not run too: the type invariants, `BalanceIsLedger`,
`MatchAgreesWithOffer`, `OffersOnlyMoveForward`, `ClosedStaysClosed`,
`MatchNeedsBothParties`, `SettledStaysSettled`, `ResolvedAtIsKept`,
`TrailNamesTheActor` and `OnlyAllowedMoves` are theorems and in no run.

Only model-checked:

- liveness (`NoAnswerFreesTheCustomer`, `PaymentIsCredited`,
  `LostPaymentIsNoticed`, `EndedReportsLoseImages`, `OrphansGo`,
  `WaitersAreAnswered`), which the prover does not reach;
- what `nearby` and a single camera answer: no property speaks of them, they are in
  the run for the states they bring about;
- the finding, and the three refuted properties above.

The induction theorems of the library take an operator as a parameter, which the
provers cannot instantiate. Where a proof needs induction on numbers it uses the
well-foundedness of `<` on sets of numbers (`AllNaturals`), so recursion is written
as a recursive function (`Picked`) or as a count (`Place`), never as a fold.

## Not modelled

- Reactions, dismissals, issue reports and badges: rows nothing else reads.
- Followed reports and areas and their notifications: reads of report changes.
- The OSRM and Nominatim clients with their caches of answers, presigned uploads
  and the donation page: nothing in the program depends on a state they keep.
- Password hashing, the rate limiter, the origin check, signature checks.
- Migrations: one transaction per version; a second runner fails on the key.
- Decoding, encoding and routing of HTTP, and the rest of the configuration.

## Plan

Modelled so far in the order of what is at stake: money and promises to people
(`Ledger`, `Matching`, `Topups`, `Sos`), what the public relies on (`Reports`,
`ImageCleanup`, `ReportMap`, `RouteRisk`, `FeedCache`), then accounts and what is
published (`Accounts`, `Content`). Next:

1. Follows: notifications that are read by a time taken before their transaction
   committed, and may so be missed.
2. `LoopsArePicks` for sequences of any length, as a lemma: it needs facts about
   sums over finite sets that the library does not state.
