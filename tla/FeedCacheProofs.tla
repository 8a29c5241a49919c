--------------------------- MODULE FeedCacheProofs ---------------------------
(***************************************************************************)
(* Proofs about FeedCache: concurrent misses share one refresh, a provider *)
(* is asked no more often than its TTL and the back-off allow, a copy is   *)
(* only replaced by a newer one, who waited is no worse off for it; and, by*)
(* a second invariant on top of the first, a copy holds every usable       *)
(* feature of a provider whose collection the client can get whole, and an *)
(* answer that tells of no more holds all of them.                         *)
(***************************************************************************)
EXTENDS FeedCache, SequenceTheorems, WellFoundedInduction, TLAPS

\* The fields of the records, so that changing one keeps the others.
Entries == entry = [k \in Keys |->
    [snap |-> [fetchedAt |-> entry[k].snap.fetchedAt, areas |-> entry[k].snap.areas],
     failedAt |-> entry[k].failedAt, inflight |-> entry[k].inflight]]

RefreshRow(r) ==
    r = [pc |-> r.pc, key |-> r.key, page |-> r.page, attempt |-> r.attempt, paged |-> r.paged,
         received |-> r.received, areas |-> r.areas, fetchedAt |-> r.fetchedAt]

CallerRow(a) ==
    a = [pc |-> a.pc, query |-> a.query, snap |-> a.snap, waitsFor |-> a.waitsFor,
         says |-> a.says, age |-> a.age, body |-> a.body]

Shapes ==
    /\ Entries
    /\ refresh = [g \in Refreshes |-> refresh[g]] /\ \A g \in Refreshes : RefreshRow(refresh[g])
    /\ caller = [c \in Callers |-> caller[c]] /\ \A c \in Callers : CallerRow(caller[c])

\* No time of the past is ahead of the clock.
TimesFine ==
    /\ now \in Nat
    /\ \A k \in Keys : /\ entry[k].snap.fetchedAt \in Int /\ entry[k].snap.fetchedAt <= now
                       /\ entry[k].failedAt \in Int

\* A refresh under way is the one its entry names; one that has its copy got it
\* no earlier than the copy it is to replace.
RefreshFine(r, g) ==
    /\ r.pc \in {"idle", "fetching", "fetched", "failed"}
    /\ r.pc # "idle" => r.key \in Keys /\ entry[r.key].inflight = g
    /\ r.pc = "fetched" => /\ r.fetchedAt \in Nat /\ r.fetchedAt <= now
                           /\ r.fetchedAt >= entry[r.key].snap.fetchedAt

RefreshesFine ==
    /\ \A g \in Refreshes : RefreshFine(refresh[g], g)
    /\ \A k \in Keys : entry[k].inflight # None =>
           /\ entry[k].inflight \in Refreshes
           /\ refresh[entry[k].inflight].pc # "idle"
           /\ refresh[entry[k].inflight].key = k

\* The copy of a key is this one or was fetched no earlier.
Follows(copy, k) ==
    /\ copy.fetchedAt \in Int /\ copy.fetchedAt <= entry[k].snap.fetchedAt
    /\ copy # NoCopy => entry[k].snap # NoCopy

\* A request that waits waits for the refresh of its entry, whose copy follows the
\* one it has seen.
CallerFine(a) ==
    /\ a.pc \in {"waiting", "woken"} => a.query.key \in Keys /\ Follows(a.snap, a.query.key)
    /\ a.pc = "waiting" => a.waitsFor \in Refreshes /\ entry[a.query.key].inflight = a.waitsFor

CallersFine == \A c \in Callers : CallerFine(caller[c])

Shared == Shapes /\ TimesFine /\ RefreshesFine /\ CallersFine

-----------------------------------------------------------------------------
(* The inductive invariant.                                                *)

LEMMA StartsShared == Init => Shared
<1> SUFFICES ASSUME Init PROVE Shared
  OBVIOUS
<1>1. Shapes
  BY DEF Init, Shapes, Entries, RefreshRow, CallerRow, EmptyEntry, NoCopy, Idle, Away
<1>2. TimesFine
  BY DEF Init, TimesFine, EmptyEntry, NoCopy, Never
<1>3. RefreshesFine
  BY DEF Init, RefreshesFine, RefreshFine, EmptyEntry, Idle
<1>4. CallersFine
  BY DEF Init, CallersFine, CallerFine, Away, None
<1> QED
  BY <1>1, <1>2, <1>3, <1>4 DEF Shared

\* What one exchange makes of a refresh.
Exchanged(r, next) ==
    /\ RefreshRow(next)
    /\ next.key = r.key
    /\ next.pc \in {"fetching", "fetched", "failed"}
    /\ next.pc = "fetched" => next.fetchedAt = now

LEMMA FailedRow ==
    ASSUME NEW r, RefreshRow(r) PROVE Exchanged(r, Failed(r))
<1> DEFINE areas == <<>>
           failed == [r EXCEPT !.pc = "failed"]
<1>1. RefreshRow(failed) /\ failed.key = r.key /\ failed.pc = "failed"
  BY DEF RefreshRow
<1>2. Failed(r) = [failed EXCEPT !.areas = areas]
  BY DEF Failed
<1> HIDE DEF areas, failed
<1> QED
  BY <1>1, <1>2 DEF Exchanged, RefreshRow

LEMMA UnansweredRow ==
    ASSUME NEW r, RefreshRow(r), r.pc = "fetching", NEW next \in Unanswered(r)
    PROVE  Exchanged(r, next)
<1>1. CASE next = Failed(r)
  BY <1>1, FailedRow
<1>2. CASE next = [r EXCEPT !.attempt = 2]
  BY <1>2 DEF RefreshRow, Exchanged
<1> QED
  BY <1>1, <1>2 DEF Unanswered, Retried

LEMMA BadRequestRow ==
    ASSUME NEW r, RefreshRow(r), r.pc = "fetching" PROVE Exchanged(r, BadRequest(r))
<1>1. CASE BadRequest(r) = Failed(r)
  BY <1>1, FailedRow
<1>2. CASE BadRequest(r) = [r EXCEPT !.paged = FALSE, !.attempt = 1]
  <2> DEFINE no == FALSE
  <2>1. BadRequest(r) = [r EXCEPT !.paged = no, !.attempt = 1]
    BY <1>2
  <2> HIDE DEF no
  <2> QED
    BY <2>1 DEF RefreshRow, Exchanged
<1> QED
  BY <1>1, <1>2 DEF BadRequest

LEMMA ReceivedRow ==
    ASSUME NEW r, RefreshRow(r), r.pc = "fetching", NEW body PROVE Exchanged(r, Received(r, body))
<1> DEFINE received == r.received + Len(body)
           page == r.page + 1
           areas == r.areas \o Normalize(r.key, body)
           counted == [r EXCEPT !.received = received]
           again == [counted EXCEPT !.attempt = 1]
           turned == [again EXCEPT !.page = page]
           all == [turned EXCEPT !.areas = areas]
           fetched == [all EXCEPT !.pc = "fetched"]
           done == [fetched EXCEPT !.fetchedAt = now]
<1>1. Received(r, body) \in {all, Failed(all), done}
  BY DEF Received
<1> HIDE DEF received, page, areas
<1>2. RefreshRow(counted) /\ counted.key = r.key /\ counted.pc = "fetching"
  BY DEF RefreshRow
<1> HIDE DEF counted
<1>3. RefreshRow(again) /\ again.key = r.key /\ again.pc = "fetching"
  BY <1>2 DEF RefreshRow
<1> HIDE DEF again
<1>4. RefreshRow(turned) /\ turned.key = r.key /\ turned.pc = "fetching"
  BY <1>3 DEF RefreshRow
<1> HIDE DEF turned
<1>5. RefreshRow(all) /\ all.key = r.key /\ all.pc = "fetching"
  BY <1>4 DEF RefreshRow
<1> HIDE DEF all
<1>6. Exchanged(r, all) /\ Exchanged(r, Failed(all))
  BY <1>5, FailedRow DEF Exchanged
<1>7. RefreshRow(fetched) /\ fetched.key = r.key /\ fetched.pc = "fetched"
  BY <1>5 DEF RefreshRow
<1> HIDE DEF fetched
<1>8. Exchanged(r, done)
  BY <1>7 DEF Exchanged, RefreshRow
<1> QED
  BY <1>1, <1>6, <1>8

LEMMA ExchangeKeeps ==
    ASSUME Shared, NEW g \in Refreshes, Exchange(g) PROVE Shared'
<1>1. PICK next : refresh' = [refresh EXCEPT ![g] = next] /\ Exchanged(refresh[g], next)
  <2>1. RefreshRow(refresh[g]) /\ refresh[g].pc = "fetching"
    BY DEF Shared, Shapes, Exchange
  <2> QED
    BY <2>1, UnansweredRow, BadRequestRow, ReceivedRow DEF Exchange
<1>2. \A h \in Refreshes : refresh'[h] = IF h = g THEN next ELSE refresh[h]
  BY <1>1 DEF Shared, Shapes
<1>3. Shapes'
  BY <1>1, <1>2 DEF Shared, Shapes, Entries, Exchange, Exchanged
<1>4. TimesFine'
  BY DEF Shared, TimesFine, Exchange
<1>5. RefreshFine(next, g)
  BY <1>1 DEF Shared, RefreshesFine, RefreshFine, TimesFine, Exchanged, Exchange
<1>6. RefreshesFine'
  BY <1>1, <1>2, <1>5 DEF Shared, RefreshesFine, RefreshFine, Exchange, Exchanged
<1>7. CallersFine'
  BY DEF Shared, CallersFine, CallerFine, Follows, Exchange
<1> QED
  BY <1>3, <1>4, <1>6, <1>7 DEF Shared

\* An answer waits for nothing.
LEMMA AnswerFine ==
    ASSUME NEW q, NEW says, NEW copy
    PROVE  CallerRow(Answer(q, says, copy)) /\ CallerFine(Answer(q, says, copy))
BY DEF CallerRow, CallerFine, Answer

LEMMA FallbackFine ==
    ASSUME NEW q, NEW copy
    PROVE  CallerRow(Fallback(q, copy)) /\ CallerFine(Fallback(q, copy))
BY AnswerFine DEF Fallback

\* Who starts to wait has seen the copy of the entry.
LEMMA WaitingFine ==
    ASSUME Shared, NEW q, q.key \in Keys, NEW g
    PROVE  /\ CallerRow(Waiting(q, g)) /\ Waiting(q, g).pc = "waiting"
           /\ Waiting(q, g).query = q /\ Waiting(q, g).waitsFor = g
           /\ Waiting(q, g).snap = entry[q.key].snap
           /\ Follows(Waiting(q, g).snap, q.key)
BY DEF CallerRow, Waiting, Follows, Shared, TimesFine

\* A step that changes one request and leaves the cache alone.
LEMMA OneRequest ==
    ASSUME Shared, UNCHANGED <<now, env, entry, refresh>>, NEW c \in Callers, NEW a,
           caller' = [caller EXCEPT ![c] = a], CallerRow(a), CallerFine(a)
    PROVE  Shared'
<1>1. \A d \in Callers : caller'[d] = IF d = c THEN a ELSE caller[d]
  BY DEF Shared, Shapes
<1>2. Shapes'
  BY <1>1 DEF Shared, Shapes, Entries
<1>3. TimesFine' /\ RefreshesFine'
  BY DEF Shared, TimesFine, RefreshesFine, RefreshFine
<1>4. CallersFine'
  BY <1>1 DEF Shared, CallersFine, CallerFine, Follows
<1> QED
  BY <1>2, <1>3, <1>4 DEF Shared

LEMMA StartKeeps ==
    ASSUME Shared, UNCHANGED <<now, env>>, NEW c \in Callers, NEW q, q.key \in Keys,
           NEW g \in Refreshes, StartRefresh(c, q, g)
    PROVE  Shared'
<1> DEFINE r == Started(q.key)
           a == Waiting(q, g)
<1>1. /\ entry' = [entry EXCEPT ![q.key].inflight = g]
      /\ refresh' = [refresh EXCEPT ![g] = r]
      /\ caller' = [caller EXCEPT ![c] = a]
      /\ entry[q.key].inflight = None /\ refresh[g].pc = "idle"
  BY DEF StartRefresh
<1>2. /\ RefreshRow(r) /\ r.pc = "fetching" /\ r.key = q.key
      /\ CallerRow(a) /\ a.pc = "waiting" /\ a.query = q /\ a.waitsFor = g /\ Follows(a.snap, q.key)
  BY WaitingFine DEF RefreshRow, Started
<1> HIDE DEF r, a
<1>3. /\ \A h \in Refreshes : refresh'[h] = IF h = g THEN r ELSE refresh[h]
      /\ \A d \in Callers : caller'[d] = IF d = c THEN a ELSE caller[d]
  BY <1>1 DEF Shared, Shapes
<1>4. \A k \in Keys : /\ entry'[k].snap = entry[k].snap /\ entry'[k].failedAt = entry[k].failedAt
                      /\ entry'[k].inflight = IF k = q.key THEN g ELSE entry[k].inflight
  BY <1>1 DEF Shared, Shapes, Entries
<1>5. Entries'
  <2>1. entry' = [k \in Keys |-> entry'[k]]
    BY <1>1 DEF Shared, Shapes, Entries
  <2>2. ASSUME NEW k \in Keys
        PROVE  entry'[k] = [snap |-> [fetchedAt |-> entry'[k].snap.fetchedAt, areas |-> entry'[k].snap.areas],
                            failedAt |-> entry'[k].failedAt, inflight |-> entry'[k].inflight]
    <3> DEFINE e == entry[k]
    <3>1. /\ e = [snap |-> e.snap, failedAt |-> e.failedAt, inflight |-> e.inflight]
          /\ e.snap = [fetchedAt |-> e.snap.fetchedAt, areas |-> e.snap.areas]
      BY DEF Shared, Shapes, Entries
    <3>2. entry'[k] = IF k = q.key THEN [e EXCEPT !.inflight = g] ELSE e
      BY <1>1, <2>1 DEF Shared, Shapes, Entries
    <3> HIDE DEF e
    <3>3. entry'[k] = [snap |-> e.snap, failedAt |-> e.failedAt, inflight |-> entry'[k].inflight]
      BY <3>1, <3>2
    <3> QED
      BY <3>1, <3>3
  <2> QED
    BY <2>1, <2>2 DEF Entries
<1>6. Shapes'
  BY <1>1, <1>2, <1>3, <1>5 DEF Shared, Shapes
<1>7. TimesFine'
  BY <1>4 DEF Shared, TimesFine
<1>8. RefreshesFine'
  <2>1. ASSUME NEW h \in Refreshes PROVE RefreshFine(refresh[h], h)'
    BY <1>1, <1>2, <1>3, <1>4, FeedAssumption DEF Shared, RefreshesFine, RefreshFine, FeedAssumption, None
  <2>2. ASSUME NEW k \in Keys, entry'[k].inflight # None
        PROVE  /\ entry'[k].inflight \in Refreshes
               /\ refresh'[entry'[k].inflight].pc # "idle"
               /\ refresh'[entry'[k].inflight].key = k
    BY <1>1, <1>2, <1>3, <1>4, <2>2 DEF Shared, RefreshesFine
  <2> QED
    BY <2>1, <2>2 DEF RefreshesFine
<1>9. CallersFine'
  <2>1. ASSUME NEW d \in Callers PROVE CallerFine(caller[d])'
    <3>1. CASE d = c
      BY <1>2, <1>3, <1>4, <3>1 DEF CallerFine, Follows
    <3>2. CASE d # c
      BY <1>1, <1>3, <1>4, <3>2, FeedAssumption
         DEF Shared, CallersFine, CallerFine, Follows, FeedAssumption, None
    <3> QED
      BY <3>1, <3>2
  <2> QED
    BY <2>1 DEF CallersFine
<1> QED
  BY <1>6, <1>7, <1>8, <1>9 DEF Shared

LEMMA TurnKeeps ==
    ASSUME Shared, UNCHANGED <<now, env>>, NEW c \in Callers, NEW q, q.key \in Keys, Turn(c, q)
    PROVE  Shared'
<1>1. CASE ServeFresh(c, q)
  <2> DEFINE a == Answer(q, "fresh", entry[q.key].snap)
  <2>1. CallerRow(a) /\ CallerFine(a)
    BY AnswerFine
  <2> HIDE DEF a
  <2>2. caller' = [caller EXCEPT ![c] = a] /\ UNCHANGED <<entry, refresh>>
    BY <1>1 DEF ServeFresh, a
  <2> QED
    BY <2>1, <2>2, OneRequest
<1>2. CASE ServeFallback(c, q)
  BY <1>2, FallbackFine, OneRequest DEF ServeFallback
<1>3. CASE \E g \in Refreshes : StartRefresh(c, q, g)
  BY <1>3, StartKeeps
<1>4. CASE JoinRefresh(c, q)
  <2> DEFINE a == Waiting(q, entry[q.key].inflight)
  <2>1. entry[q.key].inflight \in Refreshes
    BY <1>4 DEF JoinRefresh, Shared, RefreshesFine
  <2>2. CallerRow(a) /\ CallerFine(a)
    BY <2>1, WaitingFine DEF CallerFine
  <2> HIDE DEF a
  <2>3. caller' = [caller EXCEPT ![c] = a] /\ UNCHANGED <<entry, refresh>>
    BY <1>4 DEF JoinRefresh, a
  <2> QED
    BY <2>2, <2>3, OneRequest
<1> QED
  BY <1>1, <1>2, <1>3, <1>4 DEF Turn

LEMMA AskKeeps ==
    ASSUME Shared, NEW c \in Callers, NEW q \in Queries, Ask(c, q) PROVE Shared'
<1>1. CASE caller' = [caller EXCEPT ![c] = Answer(q, "refused", NoCopy)] /\ UNCHANGED <<entry, refresh>>
  <2>1. CallerRow(Answer(q, "refused", NoCopy)) /\ CallerFine(Answer(q, "refused", NoCopy))
    BY AnswerFine
  <2> QED
    BY <1>1, <2>1, OneRequest DEF Ask
<1>2. CASE ~Refused(q) /\ Turn(c, q)
  <2>1. q.key \in Keys
    BY <1>2, FeedAssumption DEF Refused, PeriodRefused, FeedAssumption, Keys
  <2> QED
    BY <1>2, <2>1, TurnKeeps DEF Ask
<1> QED
  BY <1>1, <1>2 DEF Ask

LEMMA WokenRow ==
    ASSUME NEW a, CallerRow(a)
    PROVE  LET w == [a EXCEPT !.pc = "woken", !.waitsFor = None] IN
           /\ CallerRow(w) /\ w.pc = "woken" /\ w.query = a.query /\ w.says = a.says /\ w.snap = a.snap
<1> DEFINE up == [a EXCEPT !.pc = "woken"]
           w == [up EXCEPT !.waitsFor = None]
<1>1. CallerRow(up) /\ up.pc = "woken" /\ up.query = a.query /\ up.says = a.says /\ up.snap = a.snap
  BY DEF CallerRow
<1>2. [a EXCEPT !.pc = "woken", !.waitsFor = None] = w
  OBVIOUS
<1> HIDE DEF up
<1>3. CallerRow(w) /\ w.pc = up.pc /\ w.query = up.query /\ w.says = up.says /\ w.snap = up.snap
  BY <1>1 DEF CallerRow
<1> HIDE DEF w
<1> QED
  BY <1>1, <1>2, <1>3

LEMMA EntryRow ==
    ASSUME Entries, NEW k \in Keys
    PROVE  /\ entry[k].snap = [fetchedAt |-> entry[k].snap.fetchedAt, areas |-> entry[k].snap.areas]
           /\ entry[k] = [snap |-> [fetchedAt |-> entry[k].snap.fetchedAt, areas |-> entry[k].snap.areas],
                          failedAt |-> entry[k].failedAt, inflight |-> entry[k].inflight]
<1> DEFINE row(h) == [snap |-> [fetchedAt |-> entry[h].snap.fetchedAt, areas |-> entry[h].snap.areas],
                      failedAt |-> entry[h].failedAt, inflight |-> entry[h].inflight]
<1>1. entry[k] = row(k)
  BY DEF Entries
<1>2. row(k).snap = [fetchedAt |-> entry[k].snap.fetchedAt, areas |-> entry[k].snap.areas]
  OBVIOUS
<1>3. entry[k] = [snap |-> [fetchedAt |-> entry[k].snap.fetchedAt, areas |-> entry[k].snap.areas],
                  failedAt |-> entry[k].failedAt, inflight |-> entry[k].inflight]
  BY <1>1
<1> HIDE DEF row
<1> QED
  BY <1>1, <1>2, <1>3

LEMMA StoreKeeps ==
    ASSUME Shared, NEW g \in Refreshes, Store(g) PROVE Shared'
<1> DEFINE key == refresh[g].key
           kept == Kept(entry[key], refresh[g])
<1>1. /\ entry' = [entry EXCEPT ![key] = kept] /\ refresh' = [refresh EXCEPT ![g] = Idle]
      /\ caller' = Woken(g) /\ UNCHANGED <<now, env>>
      /\ key \in Keys /\ entry[key].inflight = g /\ refresh[g].pc \in {"fetched", "failed"}
  BY DEF Store, Shared, RefreshesFine, RefreshFine
<1>2. /\ kept = [snap |-> [fetchedAt |-> kept.snap.fetchedAt, areas |-> kept.snap.areas],
                 failedAt |-> kept.failedAt, inflight |-> None]
      /\ kept.inflight = None
      /\ kept.snap.fetchedAt \in Int /\ kept.snap.fetchedAt <= now /\ kept.failedAt \in Int
      /\ kept.snap.fetchedAt >= entry[key].snap.fetchedAt
      /\ entry[key].snap # NoCopy => kept.snap # NoCopy
  <2>1. CASE refresh[g].pc = "fetched"
    <3>1. kept.snap.fetchedAt \in Nat /\ NoCopy.fetchedAt = -1
      BY <1>1, <2>1 DEF Kept, Shared, RefreshesFine, RefreshFine, NoCopy, Never
    <3>2. kept.snap # NoCopy
      BY <3>1
    <3> QED
      BY <1>1, <2>1, <3>2 DEF Kept, Shared, RefreshesFine, RefreshFine, Never
  <2>2. CASE refresh[g].pc # "fetched"
    <3>1. entry[key].snap = [fetchedAt |-> entry[key].snap.fetchedAt, areas |-> entry[key].snap.areas]
      BY <1>1, EntryRow DEF Shared, Shapes
    <3>2. kept.snap = entry[key].snap /\ kept.failedAt = now /\ kept.inflight = None
      BY <2>2 DEF Kept
    <3>3. kept = [snap |-> kept.snap, failedAt |-> kept.failedAt, inflight |-> None]
      BY <2>2 DEF Kept
    <3> HIDE DEF kept
    <3> QED
      BY <1>1, <3>1, <3>2, <3>3 DEF Shared, TimesFine
  <2> QED
    BY <2>1, <2>2
<1> HIDE DEF kept
<1>3. /\ \A h \in Refreshes : refresh'[h] = IF h = g THEN Idle ELSE refresh[h]
      /\ \A k \in Keys : entry'[k] = IF k = key THEN kept ELSE entry[k]
  BY <1>1 DEF Shared, Shapes, Entries
<1>4. RefreshRow(Idle) /\ Idle.pc = "idle"
  BY DEF RefreshRow, Idle
<1>5. \A c \in Callers :
          caller'[c] = IF caller[c].pc = "waiting" /\ caller[c].waitsFor = g
                       THEN [caller[c] EXCEPT !.pc = "woken", !.waitsFor = None] ELSE caller[c]
  BY <1>1 DEF Woken
<1>6. Shapes'
  <2>1. Entries'
    <3>1. entry' = [k \in Keys |-> entry'[k]]
      BY <1>1 DEF Shared, Shapes, Entries
    <3>2. ASSUME NEW k \in Keys
          PROVE  entry'[k] = [snap |-> [fetchedAt |-> entry'[k].snap.fetchedAt, areas |-> entry'[k].snap.areas],
                              failedAt |-> entry'[k].failedAt, inflight |-> entry'[k].inflight]
      <4>1. CASE k = key
        BY <1>2, <1>3, <4>1
      <4>2. CASE k # key
        BY <1>3, <4>2, EntryRow DEF Shared, Shapes
      <4> QED
        BY <4>1, <4>2
    <3> QED
      BY <3>1, <3>2 DEF Entries
  <2>2. caller' = [c \in Callers |-> caller'[c]] /\ \A c \in Callers : CallerRow(caller'[c])
    <3>1. caller' = [c \in Callers |-> caller'[c]]
      BY <1>1 DEF Woken
    <3>2. ASSUME NEW c \in Callers PROVE CallerRow(caller'[c])
      <4>1. CallerRow(caller[c])
        BY DEF Shared, Shapes
      <4>2. CallerRow([caller[c] EXCEPT !.pc = "woken", !.waitsFor = None])
        BY <4>1, WokenRow
      <4> QED
        BY <1>5, <4>1, <4>2
    <3> QED
      BY <3>1, <3>2
  <2>3. refresh' = [h \in Refreshes |-> refresh'[h]] /\ \A h \in Refreshes : RefreshRow(refresh'[h])
    BY <1>1, <1>3, <1>4 DEF Shared, Shapes
  <2> QED
    BY <2>1, <2>2, <2>3 DEF Shapes, CallerRow, RefreshRow
<1>7. TimesFine'
  BY <1>1, <1>2, <1>3 DEF Shared, TimesFine
<1>8. RefreshesFine'
  <2>1. ASSUME NEW h \in Refreshes PROVE RefreshFine(refresh[h], h)'
    <3>1. CASE h = g
      BY <1>3, <1>4, <3>1 DEF RefreshFine
    <3>2. CASE h # g
      BY <1>1, <1>3, <3>2 DEF Shared, RefreshesFine, RefreshFine
    <3> QED
      BY <3>1, <3>2
  <2>2. ASSUME NEW k \in Keys, entry'[k].inflight # None
        PROVE  /\ entry'[k].inflight \in Refreshes
               /\ refresh'[entry'[k].inflight].pc # "idle"
               /\ refresh'[entry'[k].inflight].key = k
    BY <1>1, <1>2, <1>3, <2>2 DEF Shared, RefreshesFine
  <2> QED
    BY <2>1, <2>2 DEF RefreshesFine
<1>9. CallersFine'
  <2> DEFINE Behind(copy, k) == /\ copy.fetchedAt \in Int /\ copy.fetchedAt <= entry'[k].snap.fetchedAt
                                /\ copy # NoCopy => entry'[k].snap # NoCopy
  <2>0. ASSUME NEW copy, NEW k \in Keys, Follows(copy, k) PROVE Behind(copy, k)
    BY <1>1, <1>2, <1>3, <2>0 DEF Follows, Shared, TimesFine
  <2>1. ASSUME NEW c \in Callers PROVE CallerFine(caller[c])'
    <3> DEFINE a == caller[c]
    <3>0. CallerRow(a) /\ CallerFine(a)
      BY DEF Shared, Shapes, CallersFine
    <3>1. CASE a.pc = "waiting" /\ a.waitsFor = g
      <4>1. /\ caller'[c].pc = "woken" /\ caller'[c].query = a.query
            /\ caller'[c].snap = a.snap
        BY <1>5, <3>0, <3>1, WokenRow
      <4>2. a.query.key \in Keys /\ Behind(a.snap, a.query.key)
        BY <3>0, <3>1, <2>0 DEF CallerFine
      <4> HIDE DEF a, Behind
      <4>3. Behind(caller'[c].snap, caller'[c].query.key) /\ caller'[c].query.key \in Keys
        BY <4>1, <4>2
      <4> USE DEF Behind
      <4> QED
        BY <4>1, <4>3 DEF CallerFine, Follows
    <3>2. CASE ~(a.pc = "waiting" /\ a.waitsFor = g)
      <4>1. caller'[c] = a
        BY <1>5, <3>2
      <4> QED
        <5>1. a.pc \in {"waiting", "woken"} => a.query.key \in Keys /\ Behind(a.snap, a.query.key)
          BY <3>0, <2>0 DEF CallerFine
        <5>2. a.pc = "waiting" => entry'[a.query.key].inflight = a.waitsFor /\ a.waitsFor \in Refreshes
          BY <1>1, <1>3, <3>0, <3>2 DEF CallerFine
        <5> QED
          BY <4>1, <5>1, <5>2 DEF CallerFine, Follows
    <3> QED
      BY <3>1, <3>2
  <2> QED
    BY <2>1 DEF CallersFine
<1> QED
  BY <1>6, <1>7, <1>8, <1>9 DEF Shared

LEMMA StaysShared == Shared /\ [Next]_vars => Shared'
<1> SUFFICES ASSUME Shared, [Next]_vars PROVE Shared'
  OBVIOUS
<1>1. ASSUME NEW c \in Callers, NEW q \in Queries, Ask(c, q) PROVE Shared'
  BY <1>1, AskKeeps
<1>2. ASSUME NEW c \in Callers, Wake(c) PROVE Shared'
  <2>1. caller[c].query.key \in Keys
    BY <1>2 DEF Wake, Shared, CallersFine, CallerFine
  <2> QED
    BY <1>2, <2>1, TurnKeeps DEF Wake
<1>3. ASSUME NEW c \in Callers, GiveUp(c) PROVE Shared'
  BY <1>3, FallbackFine, OneRequest DEF GiveUp
<1>4. ASSUME NEW c \in Callers, Leave(c) PROVE Shared'
  <2>1. CallerRow(Away) /\ CallerFine(Away)
    BY DEF CallerRow, CallerFine, Away, None
  <2> QED
    BY <1>4, <2>1, OneRequest DEF Leave
<1>5. ASSUME NEW g \in Refreshes, Exchange(g) PROVE Shared'
  BY <1>5, ExchangeKeeps
<1>6. ASSUME NEW g \in Refreshes, Store(g) PROVE Shared'
  BY <1>6, StoreKeeps
<1>7. CASE Tick
  <2>1. now \in Nat /\ now' = now + 1 /\ UNCHANGED <<env, entry, refresh, caller>>
    BY <1>7 DEF Tick, Shared, TimesFine
  <2>2. Shapes'
    BY <2>1 DEF Shared, Shapes, Entries
  <2>3. TimesFine'
    BY <2>1 DEF Shared, TimesFine
  <2>4. ASSUME NEW g \in Refreshes PROVE RefreshFine(refresh[g], g)'
    BY <2>1 DEF Shared, RefreshesFine, RefreshFine
  <2>5. RefreshesFine'
    BY <2>1, <2>4 DEF Shared, RefreshesFine
  <2>6. CallersFine'
    BY <2>1 DEF Shared, CallersFine, CallerFine, Follows
  <2> QED
    BY <2>2, <2>3, <2>5, <2>6 DEF Shared
<1>8. CASE UNCHANGED vars
  BY <1>8 DEF vars, Shared, Shapes, Entries, TimesFine, RefreshesFine, RefreshFine, CallersFine, CallerFine, Follows
<1> QED
  BY <1>1, <1>2, <1>3, <1>4, <1>5, <1>6, <1>7, <1>8 DEF Next

LEMMA AlwaysShared == Spec => []Shared
BY StartsShared, StaysShared, PTL DEF Spec

-----------------------------------------------------------------------------
(* The properties.                                                         *)

LEMMA SharedIsOneCall == Shared => MissesShareOneCall
BY FeedAssumption DEF Shared, RefreshesFine, RefreshFine, CallersFine, CallerFine,
                      MissesShareOneCall, Running, FeedAssumption, None

\* However requests arrive, wake and give up, a key has at most one refresh and
\* the requests of that key wait for it.
THEOREM OneRefreshPerKey == Spec => []MissesShareOneCall
BY AlwaysShared, SharedIsOneCall, PTL

\* What the end of a wait owes the request.
Unharmed(c) ==
    LET had == caller[c].snap  told == caller'[c] IN
    /\ caller[c].pc \in {"waiting", "woken"} /\ told.pc = "answered"
    /\ had # NoCopy /\ now - had.fetchedAt < MaxStale
    => told.says \in {"fresh", "stale"} /\ now - told.age >= had.fetchedAt

\* The answer made of a copy that is not too old.
LEMMA FallbackTells ==
    ASSUME NEW q, NEW copy, copy # NoCopy, now \in Nat, copy.fetchedAt \in Int,
           now - copy.fetchedAt < MaxStale
    PROVE  Fallback(q, copy).says = "stale" /\ now - Fallback(q, copy).age = copy.fetchedAt
<1>1. Fallback(q, copy) = Answer(q, "stale", copy)
  BY DEF Fallback
<1>2. Answer(q, "stale", copy).says = "stale" /\ Answer(q, "stale", copy).age = now - copy.fetchedAt
  BY DEF Answer
<1> QED
  BY <1>1, <1>2

LEMMA NobodyIsHarmed ==
    ASSUME Shared, [Next]_vars, NEW c \in Callers PROVE Unharmed(c)
<1> DEFINE a == caller[c]
           had == a.snap
           has == entry[a.query.key].snap
<1> SUFFICES ASSUME a.pc \in {"waiting", "woken"}, caller'[c].pc = "answered",
                    had # NoCopy, now - had.fetchedAt < MaxStale
             PROVE  caller'[c].says \in {"fresh", "stale"} /\ now - caller'[c].age >= had.fetchedAt
  BY DEF Unharmed
<1>1. /\ a.query.key \in Keys /\ had.fetchedAt \in Int /\ has.fetchedAt \in Int
      /\ had.fetchedAt <= has.fetchedAt /\ has # NoCopy /\ now \in Nat /\ MaxStale \in Nat
  BY FeedAssumption DEF Shared, CallersFine, CallerFine, Follows, TimesFine, FeedAssumption
<1>2. CASE Wake(c)
  <2>1. Turn(c, a.query)
    BY <1>2 DEF Wake
  <2>2. CASE ServeFresh(c, a.query)
    <3>1. caller'[c] = Answer(a.query, "fresh", has)
      BY <2>2 DEF ServeFresh, Shared, Shapes
    <3>2. Answer(a.query, "fresh", has).says = "fresh" /\ Answer(a.query, "fresh", has).age = now - has.fetchedAt
      BY <1>1 DEF Answer
    <3> HIDE DEF a, had, has
    <3> QED
      BY <1>1, <3>1, <3>2
  <2>3. CASE ServeFallback(c, a.query)
    <3>1. caller'[c] = Fallback(a.query, has)
      BY <2>3 DEF ServeFallback, Shared, Shapes
    <3> HIDE DEF a, had, has
    <3>2. Fallback(a.query, has).says = "stale" /\ now - Fallback(a.query, has).age = has.fetchedAt
      BY <1>1, FallbackTells
    <3> QED
      BY <1>1, <3>1, <3>2
  <2>4. ASSUME NEW g, caller' = [caller EXCEPT ![c] = Waiting(a.query, g)] PROVE FALSE
    <3>1. caller'[c].pc = "waiting"
      BY <2>4 DEF Waiting, Shared, Shapes
    <3> QED
      BY <3>1
  <2> QED
    BY <2>1, <2>2, <2>3, <2>4 DEF Turn, StartRefresh, JoinRefresh
<1>3. CASE GiveUp(c)
  <2>1. caller'[c] = Fallback(a.query, had)
    BY <1>3 DEF GiveUp, Shared, Shapes
  <2> HIDE DEF a, had, has
  <2>2. Fallback(a.query, had).says = "stale" /\ now - Fallback(a.query, had).age = had.fetchedAt
    BY <1>1, FallbackTells
  <2> QED
    BY <1>1, <2>1, <2>2
<1>4. caller'[c] # a
  OBVIOUS
<1>5. ASSUME NEW d \in Callers, d # c, NEW b, caller' = [caller EXCEPT ![d] = b] PROVE FALSE
  BY <1>4, <1>5 DEF Shared, Shapes
<1>6. ASSUME NEW d \in Callers, NEW q, Turn(d, q) PROVE \E b : caller' = [caller EXCEPT ![d] = b]
  BY <1>6 DEF Turn, ServeFresh, ServeFallback, StartRefresh, JoinRefresh
<1>7. ASSUME NEW d \in Callers, NEW q, Ask(d, q) PROVE FALSE
  <2>1. d # c
    BY <1>7 DEF Ask
  <2>2. \E b : caller' = [caller EXCEPT ![d] = b]
    BY <1>6, <1>7 DEF Ask
  <2> QED
    BY <1>5, <2>1, <2>2
<1>8. ASSUME NEW d \in Callers, Wake(d) PROVE d = c
  <2>1. \E b : caller' = [caller EXCEPT ![d] = b]
    BY <1>6, <1>8 DEF Wake
  <2> QED
    BY <1>5, <2>1
<1>9. ASSUME NEW d \in Callers, GiveUp(d) PROVE d = c
  BY <1>5, <1>9 DEF GiveUp
<1>10. ASSUME NEW d \in Callers, Leave(d) PROVE FALSE
  <2>1. d # c
    BY <1>10 DEF Leave
  <2> QED
    BY <1>5, <1>10, <2>1 DEF Leave
<1>11. ASSUME NEW g \in Refreshes, Store(g) PROVE FALSE
  <2>1. caller'[c] = [a EXCEPT !.pc = "woken", !.waitsFor = None]
    BY <1>4, <1>11 DEF Store, Woken
  <2>2. CallerRow(a)
    BY DEF Shared, Shapes
  <2>3. caller'[c].pc = "woken"
    <3> HIDE DEF a
    <3> QED
      BY <2>1, <2>2, WokenRow
  <2> QED
    BY <2>3
<1>12. ~UNCHANGED caller
  BY <1>4
<1>13. \/ \E d \in Callers : (\E q \in Queries : Ask(d, q)) \/ Wake(d) \/ GiveUp(d) \/ Leave(d)
       \/ \E g \in Refreshes : Store(g)
  BY <1>12 DEF Next, Exchange, Tick, vars
<1> QED
  BY <1>2, <1>3, <1>7, <1>8, <1>9, <1>10, <1>11, <1>13

\* Whatever refreshes fail, end and are given up on while a request waits, it is
\* answered with the copy it had seen or a newer one, and not refused while that
\* copy may still be shown.
THEOREM WaitersLoseNothing == Spec => WaitingLosesNothing
<1> DEFINE Safe == \A c \in Callers : Unharmed(c)
<1>1. Shared /\ [Next]_vars => Safe
  BY NobodyIsHarmed
<1>2. [][Safe]_vars => WaitingLosesNothing
  BY PTL DEF WaitingLosesNothing, Unharmed
<1> HIDE DEF Safe
<1> QED
  BY AlwaysShared, <1>1, <1>2, PTL DEF Spec

\* Until a refresh is started the ones that run are those that ran.
LEMMA OnlyStartsAsk ==
    ASSUME Shared, Next, NEW k \in Keys, Running(k) = {}, Running(k)' # {}
    PROVE  UNCHANGED now /\ ~Fresh(k) /\ ~BackingOff(k)
<1>1. \A g \in Refreshes : refresh[g].pc = "idle" \/ refresh[g].key # k
  BY DEF Running
<1>2. PICK h \in Refreshes : refresh'[h].pc # "idle" /\ refresh'[h].key = k
  BY DEF Running
<1>3. ASSUME NEW c \in Callers, NEW q, Turn(c, q)
      PROVE  ~Fresh(k) /\ ~BackingOff(k)
  <2>1. PICK g \in Refreshes : StartRefresh(c, q, g)
    BY <1>1, <1>2, <1>3 DEF Turn, ServeFresh, ServeFallback, JoinRefresh
  <2>2. refresh'[h] = IF h = g THEN Started(q.key) ELSE refresh[h]
    BY <2>1 DEF StartRefresh, Shared, Shapes
  <2>3. q.key = k
    BY <1>1, <1>2, <2>2 DEF Started
  <2> QED
    BY <2>1, <2>3 DEF StartRefresh
<1>4. ASSUME NEW g \in Refreshes, Exchange(g)
      PROVE  FALSE
  <2>1. PICK next : refresh' = [refresh EXCEPT ![g] = next] /\ Exchanged(refresh[g], next)
    <3>1. RefreshRow(refresh[g]) /\ refresh[g].pc = "fetching"
      BY <1>4 DEF Shared, Shapes, Exchange
    <3> QED
      BY <1>4, <3>1, UnansweredRow, BadRequestRow, ReceivedRow DEF Exchange
  <2> QED
    BY <1>1, <1>2, <1>4, <2>1 DEF Shared, Shapes, Exchange, Exchanged
<1>5. ASSUME NEW g \in Refreshes, Store(g)
      PROVE  FALSE
  BY <1>1, <1>2, <1>5 DEF Store, Shared, Shapes, Idle
<1>6. ~UNCHANGED refresh
  BY <1>1, <1>2
<1>7. \/ \E c \in Callers : \/ \E q \in Queries : Ask(c, q)
                            \/ Wake(c)
      \/ \E g \in Refreshes : Exchange(g) \/ Store(g)
  BY <1>6 DEF Next, GiveUp, Leave, Tick
<1>8. PICK c \in Callers : Wake(c) \/ \E q \in Queries : Ask(c, q)
  BY <1>4, <1>5, <1>7
<1>9. UNCHANGED now /\ \E q : Turn(c, q)
  BY <1>6, <1>8 DEF Ask, Wake
<1> QED
  BY <1>3, <1>9

\* What a refresh of k that starts owes its provider.
SparedFor(k) ==
    /\ entry[k].snap # NoCopy =>
         \E ttl \in {env[k].ttl, DefaultTTL} \cap (LeastTTL..MostTTL) :
           /\ env[k].ttl \in LeastTTL..MostTTL => ttl = env[k].ttl
           /\ now - entry[k].snap.fetchedAt >= ttl
    /\ entry[k].failedAt # Never => now - entry[k].failedAt >= Backoff

\* A provider is asked at most once per configured TTL after a success and not
\* within the backoff of a failure; a TTL out of range counts as the default.
THEOREM ProviderIsAskedSeldom == Spec => ProviderIsSpared
<1> DEFINE Spared == \A k \in Keys : Running(k) = {} /\ Running(k)' # {} => SparedFor(k)
<1>1. Shared /\ [Next]_vars => Spared
  <2> SUFFICES ASSUME Shared, [Next]_vars, NEW k \in Keys, Running(k) = {}, Running(k)' # {}
               PROVE  SparedFor(k)
    BY DEF Spared
  <2>1. ~UNCHANGED vars
    BY DEF vars, Running
  <2>2. ~Fresh(k) /\ ~BackingOff(k)
    BY <2>1, OnlyStartsAsk
  <2>3. /\ TTL(k) \in {env[k].ttl, DefaultTTL} \cap (LeastTTL..MostTTL) /\ TTL(k) \in Int
        /\ env[k].ttl \in LeastTTL..MostTTL => TTL(k) = env[k].ttl
    BY FeedAssumption DEF TTL, FeedAssumption
  <2>4. now \in Int /\ entry[k].snap.fetchedAt \in Int /\ entry[k].failedAt \in Int /\ Backoff \in Int
    BY FeedAssumption DEF Shared, TimesFine, FeedAssumption
  <2>5. entry[k].snap # NoCopy => now - entry[k].snap.fetchedAt >= TTL(k)
    BY <2>2, <2>3, <2>4 DEF Fresh
  <2>6. entry[k].failedAt # Never => now - entry[k].failedAt >= Backoff
    BY <2>2, <2>4 DEF BackingOff
  <2> QED
    BY <2>3, <2>5, <2>6 DEF SparedFor
<1>2. [][Spared]_vars => ProviderIsSpared
  BY PTL DEF ProviderIsSpared, SparedFor
<1> HIDE DEF Spared
<1> QED
  BY AlwaysShared, <1>1, <1>2, PTL DEF Spec

\* Only a refresh that stores its result changes a copy.
LEMMA OnlyStoresCopy ==
    ASSUME Shared, [Next]_vars, NEW k \in Keys, entry'[k].snap # entry[k].snap
    PROVE  \E g \in Refreshes : Store(g)
<1>1. ~UNCHANGED entry
  OBVIOUS
<1>2. ASSUME NEW c \in Callers, NEW q, Turn(c, q)
      PROVE  FALSE
  <2>1. PICK g \in Refreshes : StartRefresh(c, q, g)
    BY <1>1, <1>2 DEF Turn, ServeFresh, ServeFallback, JoinRefresh
  <2>2. entry' = [entry EXCEPT ![q.key].inflight = g]
    BY <2>1 DEF StartRefresh
  <2>3. entry'[k].snap = entry[k].snap
    <3>1. entry'[k] = IF k = q.key THEN [entry[k] EXCEPT !.inflight = g] ELSE entry[k]
      BY <2>2 DEF Shared, Shapes, Entries
    <3>2. entry[k] = [snap |-> entry[k].snap, failedAt |-> entry[k].failedAt, inflight |-> entry[k].inflight]
      BY EntryRow DEF Shared, Shapes
    <3>3. [entry[k] EXCEPT !.inflight = g].snap = entry[k].snap
      BY <3>2
    <3> QED
      BY <3>1, <3>3
  <2> QED
    BY <2>3
<1> QED
  BY <1>1, <1>2 DEF Next, vars, Ask, Wake, GiveUp, Leave, Exchange, Tick

\* Because a key has one refresh at a time, no late one overwrites what a later
\* one brought, and a copy is never lost.
THEOREM CopiesNeverGoBack == Spec => CopiesGetNewer
<1> DEFINE Newer == \A k \in Keys : entry'[k].snap # entry[k].snap =>
               entry'[k].snap.fetchedAt >= entry[k].snap.fetchedAt
<1>1. Shared /\ [Next]_vars => Newer
  <2> SUFFICES ASSUME Shared, [Next]_vars, NEW k \in Keys, entry'[k].snap # entry[k].snap
               PROVE  entry'[k].snap.fetchedAt >= entry[k].snap.fetchedAt
    BY DEF Newer
  <2>3. PICK g \in Refreshes : Store(g)
    BY OnlyStoresCopy
  <2>4. entry' = [entry EXCEPT ![refresh[g].key] = Kept(@, refresh[g])]
    BY <2>3 DEF Store
  <2>5. k = refresh[g].key /\ entry'[k] = Kept(entry[k], refresh[g])
    BY <2>4 DEF Shared, Shapes, Entries
  <2>6. refresh[g].pc = "fetched"
    BY <2>5 DEF Kept
  <2>7. entry'[k].snap.fetchedAt = refresh[g].fetchedAt
    BY <2>5, <2>6 DEF Kept
  <2> QED
    BY <2>5, <2>6, <2>7 DEF Shared, RefreshesFine, RefreshFine
<1>2. [][Newer]_vars => CopiesGetNewer
  BY PTL DEF CopiesGetNewer
<1> HIDE DEF Newer
<1> QED
  BY AlwaysShared, <1>1, <1>2, PTL DEF Spec

-----------------------------------------------------------------------------
(* What is in a copy.                                                      *)

\* Induction over a set of numbers.
LEMMA AllNaturals ==
    ASSUME NEW S, 0 \in S, \A n \in Nat : n \in S => n + 1 \in S
    PROVE  Nat \subseteq S
<1> DEFINE R == {ss \in Nat \X Nat : ss[1] < ss[2]}
           T == Nat \ S
<1>1. IsWellFoundedOn(R, Nat)
  <2>1. OpToRel(<, Nat) = R
    BY Zenon DEF OpToRel
  <2>2. QED
    BY <2>1, NatLessThanWellFounded, Zenon
<1>2. CASE T # {}
  <2>1. PICK n \in T : \A m \in T : ~(<<m, n>> \in R)
    <3>1. T \subseteq Nat
      OBVIOUS
    <3> HIDE DEF R, T
    <3>2. QED
      BY <1>1, <1>2, <3>1, WFMin, Zenon
  <2>2. n # 0 /\ n - 1 \in Nat
    OBVIOUS
  <2>3. <<n - 1, n>> \in R
    BY <2>2
  <2>4. n - 1 \in S
    BY <2>1, <2>2, <2>3
  <2>5. QED
    BY <2>2, <2>4
<1>3. QED
  BY <1>2

\* A round of the loop adds an element to what the rounds before it left.
LEMMA PickedRows ==
    ASSUME NEW T, NEW s \in Seq(T), NEW I
    PROVE  Picked(s, I) = [n \in 0..Len(s) |->
             IF n = 0 THEN <<>>
             ELSE IF n \in I THEN Append(Picked(s, I)[n - 1], s[n]) ELSE Picked(s, I)[n - 1]]
<1> DEFINE Rows(f, N) == [n \in 0..N |->
             IF n = 0 THEN <<>> ELSE IF n \in I THEN Append(f[n - 1], s[n]) ELSE f[n - 1]]
           S == {N \in Nat : \E f : f = Rows(f, N)}
<1>1. 0 \in S
  <2> DEFINE f == [n \in 0..0 |-> <<>>]
  <2>1. f = Rows(f, 0)
    OBVIOUS
  <2> QED
    BY <2>1
<1>2. ASSUME NEW N \in Nat, N \in S PROVE N + 1 \in S
  <2>1. PICK f : f = Rows(f, N)
    BY <1>2
  <2> DEFINE last == IF N + 1 \in I THEN Append(f[N], s[N + 1]) ELSE f[N]
             g == [n \in 0..N + 1 |-> IF n <= N THEN f[n] ELSE last]
  <2>2. \A n \in 0..N : f[n] = IF n = 0 THEN <<>> ELSE IF n \in I THEN Append(f[n - 1], s[n]) ELSE f[n - 1]
    BY <2>1, Zenon
  <2>3. \A n \in 0..N : g[n] = f[n]
    OBVIOUS
  <2>4. g[N + 1] = last
    OBVIOUS
  <2>5. ASSUME NEW n \in 0..N + 1
        PROVE  g[n] = IF n = 0 THEN <<>> ELSE IF n \in I THEN Append(g[n - 1], s[n]) ELSE g[n - 1]
    <3> HIDE DEF g
    <3>1. CASE n \in 0..N
      <4>1. n # 0 => g[n - 1] = f[n - 1]
        BY <2>3, <3>1
      <4> QED
        BY <2>2, <2>3, <3>1, <4>1
    <3>2. CASE n = N + 1
      <4>1. g[n - 1] = f[N] /\ n # 0
        BY <2>3, <3>2
      <4> QED
        BY <2>4, <3>2, <4>1
    <3> QED
      BY <3>1, <3>2
  <2>6. g = Rows(g, N + 1)
    BY <2>5, Zenon
  <2> HIDE DEF g, Rows
  <2>7. \E h : h = Rows(h, N + 1)
    BY <2>6
  <2> QED
    BY <2>7
<1>3. Len(s) \in S
  <2>1. Len(s) \in Nat
    BY LenProperties
  <2> HIDE DEF S
  <2> QED
    BY <1>1, <1>2, <2>1, AllNaturals
<1>4. Picked(s, I) = CHOOSE f : f = Rows(f, Len(s))
  BY Zenon DEF Picked
<1>5. \E f : f = Rows(f, Len(s))
  BY <1>3
<1> QED
  BY <1>4, <1>5, Zenon

\* The same, one round at a time.
Rounds(P, s, I) ==
    /\ P[0] = <<>>
    /\ \A n \in Nat : n + 1 <= Len(s) =>
         P[n + 1] = IF n + 1 \in I THEN Append(P[n], s[n + 1]) ELSE P[n]

LEMMA PickedSteps ==
    ASSUME NEW T, NEW s \in Seq(T), NEW I PROVE Rounds(Picked(s, I), s, I)
<1> DEFINE P == Picked(s, I)
<1>1. P = [n \in 0..Len(s) |->
             IF n = 0 THEN <<>> ELSE IF n \in I THEN Append(P[n - 1], s[n]) ELSE P[n - 1]]
  BY PickedRows, Zenon
<1>2. Len(s) \in Nat
  BY LenProperties
<1> HIDE DEF P
<1>3. \A n \in 0..Len(s) : P[n] = IF n = 0 THEN <<>> ELSE IF n \in I THEN Append(P[n - 1], s[n]) ELSE P[n - 1]
  BY <1>1, Zenon
<1>4. P[0] = <<>>
  BY <1>2, <1>3
<1>5. ASSUME NEW n \in Nat, n + 1 <= Len(s)
      PROVE  P[n + 1] = IF n + 1 \in I THEN Append(P[n], s[n + 1]) ELSE P[n]
  <2>1. n + 1 \in 0..Len(s) /\ n + 1 # 0 /\ (n + 1) - 1 = n
    BY <1>2, <1>5
  <2> QED
    BY <1>3, <2>1
<1> QED
  BY <1>4, <1>5 DEF Rounds, P

\* What is picked is picked from s, and everything at a position of I is.
Holds(p, T, s, I) ==
    /\ p \in Seq(T)
    /\ \A i \in I : i \in 1..Len(s) => \E j \in DOMAIN p : p[j] = s[i]

LEMMA PicksAll ==
    ASSUME NEW T, NEW s \in Seq(T), NEW I PROVE Holds(Pick(s, I), T, s, I)
<1> DEFINE P == Picked(s, I)
           Good(n) == /\ P[n] \in Seq(T)
                      /\ \A i \in I : i \in 1..n => \E j \in DOMAIN P[n] : P[n][j] = s[i]
           S == {n \in Nat : n <= Len(s) => Good(n)}
<1>0. Len(s) \in Nat
  BY LenProperties
<1>1. /\ P[0] = <<>>
      /\ \A n \in Nat : n + 1 <= Len(s) =>
           P[n + 1] = IF n + 1 \in I THEN Append(P[n], s[n + 1]) ELSE P[n]
  <2>1. Rounds(P, s, I)
    BY PickedSteps
  <2> HIDE DEF P
  <2> QED
    BY <2>1 DEF Rounds
<1> HIDE DEF P
<1>2. 0 \in S
  <2>1. P[0] \in Seq(T)
    BY <1>1, EmptySeq
  <2> QED
    BY <2>1
<1>3. ASSUME NEW n \in Nat, n \in S PROVE n + 1 \in S
  <2> SUFFICES ASSUME n + 1 <= Len(s) PROVE Good(n + 1)
    BY DEF S
  <2>1. Good(n)
    BY <1>0, <1>3
  <2>2. s[n + 1] \in T
    BY <1>0, ElementOfSeq
  <2>3. CASE n + 1 \notin I
    BY <1>1, <2>1, <2>3
  <2>4. CASE n + 1 \in I
    <3> DEFINE p == P[n]
               longer == Append(p, s[n + 1])
    <3>1. P[n + 1] = longer
      BY <1>1, <2>4
    <3>2. p \in Seq(T)
      BY <2>1
    <3>3. /\ longer \in Seq(T) /\ Len(longer) = Len(p) + 1 /\ Len(p) \in Nat
          /\ \A i \in 1..Len(p) : longer[i] = p[i]
          /\ longer[Len(p) + 1] = s[n + 1]
      BY <2>2, <3>2, AppendProperties, LenProperties
    <3>4. DOMAIN p = 1..Len(p) /\ DOMAIN longer = 1..Len(p) + 1
      BY <3>2, <3>3, LenProperties
    <3> HIDE DEF p, longer
    <3>5. ASSUME NEW i \in I, i \in 1..n + 1
          PROVE  \E j \in DOMAIN longer : longer[j] = s[i]
      <4>1. CASE i \in 1..n
        <5>1. PICK j \in DOMAIN p : p[j] = s[i]
          BY <2>1, <4>1 DEF p
        <5> QED
          BY <3>3, <3>4, <5>1
      <4>2. CASE i = n + 1
        BY <3>3, <3>4, <4>2
      <4> QED
        BY <3>5, <4>1, <4>2
    <3> QED
      BY <3>1, <3>3, <3>5
  <2> QED
    BY <2>3, <2>4
<1>4. Len(s) \in S
  <2> HIDE DEF S
  <2> QED
    BY <1>0, <1>2, <1>3, AllNaturals
<1>5. Good(Len(s)) /\ Pick(s, I) = P[Len(s)]
  BY <1>4 DEF Pick, P
<1> QED
  BY <1>5 DEF Holds

GoesLast(T, a, b, x) ==
    Append(a \o b, x) = a \o Append(b, x) /\ Append(b, x) \in Seq(T)

LEMMA AppendLast ==
    ASSUME NEW T, NEW a \in Seq(T), NEW b \in Seq(T), NEW x \in T
    PROVE  GoesLast(T, a, b, x)
<1>1. Append(b, x) \in Seq(T) /\ Append(b, x) = b \o <<x>>
  BY AppendProperties, AppendIsConcat
<1>2. a \o b \in Seq(T) /\ <<x>> \in Seq(T)
  BY ConcatProperties
<1>3. Append(a \o b, x) = (a \o b) \o <<x>>
  BY <1>2, AppendIsConcat
<1>4. (a \o b) \o <<x>> = a \o (b \o <<x>>)
  BY <1>2, ConcatAssociative
<1> QED
  BY <1>1, <1>3, <1>4 DEF GoesLast

\* Picking from two parts of a sequence and from the whole of it is the same.
Splits(s, t, I, J, K) ==
    /\ \A i \in 1..Len(s) : i \in K <=> i \in I
    /\ \A j \in 1..Len(t) : Len(s) + j \in K <=> j \in J

LEMMA PicksAppend ==
    ASSUME NEW T, NEW s \in Seq(T), NEW t \in Seq(T), NEW I, NEW J, NEW K, Splits(s, t, I, J, K)
    PROVE  Pick(s \o t, K) = Pick(s, I) \o Pick(t, J)
<1> DEFINE st == s \o t
           A == Picked(s, I)
           B == Picked(t, J)
           C == Picked(st, K)
           M == Len(s)
           N == Len(t)
           R == {n \in Nat : n <= M => C[n] = A[n] /\ A[n] \in Seq(T)}
           Joined(n) == C[M + n] = A[M] \o B[n] /\ B[n] \in Seq(T)
           S == {n \in Nat : n <= N => Joined(n)}
<1>0. M \in Nat /\ N \in Nat
  BY LenProperties
<1>1. /\ st \in Seq(T) /\ Len(st) = M + N
      /\ \A i \in 1..M : st[i] = s[i]
      /\ \A j \in 1..N : st[M + j] = t[j]
  <2>1. /\ st \in Seq(T) /\ Len(st) = M + N
        /\ \A i \in 1..M + N : st[i] = IF i <= M THEN s[i] ELSE t[i - M]
    BY ConcatProperties
  <2> HIDE DEF st, M, N
  <2>2. ASSUME NEW j \in 1..N PROVE st[M + j] = t[j]
    <3>1. M + j \in 1..M + N /\ ~(M + j <= M) /\ (M + j) - M = j
      BY <1>0
    <3> QED
      BY <2>1, <3>1
  <2> QED
    BY <1>0, <2>1, <2>2
<1>2. /\ A[0] = <<>> /\ B[0] = <<>> /\ C[0] = <<>>
      /\ \A n \in Nat : n + 1 <= M => A[n + 1] = IF n + 1 \in I THEN Append(A[n], s[n + 1]) ELSE A[n]
      /\ \A n \in Nat : n + 1 <= N => B[n + 1] = IF n + 1 \in J THEN Append(B[n], t[n + 1]) ELSE B[n]
      /\ \A n \in Nat : n + 1 <= Len(st) => C[n + 1] = IF n + 1 \in K THEN Append(C[n], st[n + 1]) ELSE C[n]
  <2> HIDE DEF st
  <2>1. st \in Seq(T)
    BY <1>1
  <2>2. Rounds(A, s, I)
    BY PickedSteps
  <2>3. Rounds(B, t, J)
    BY PickedSteps
  <2>4. Rounds(C, st, K)
    BY <2>1, PickedSteps
  <2> HIDE DEF A, B, C
  <2> QED
    BY <2>2, <2>3, <2>4 DEF Rounds
<1>3. /\ \A i \in 1..M : s[i] \in T
      /\ \A j \in 1..N : t[j] \in T
  BY ElementOfSeq
<1>4. /\ \A i \in 1..M : i \in K <=> i \in I
      /\ \A j \in 1..N : M + j \in K <=> j \in J
  BY DEF Splits
<1>c. Pick(s \o t, K) = C[Len(st)] /\ Pick(s, I) = A[M] /\ Pick(t, J) = B[N]
  BY DEF Pick
<1> HIDE DEF A, B, C, M, N, st
<1>5. 0 \in R
  <2>1. C[0] = A[0] /\ A[0] \in Seq(T)
    BY <1>2, EmptySeq
  <2> QED
    BY <2>1
<1>6. ASSUME NEW n \in Nat, n \in R PROVE n + 1 \in R
  <2> SUFFICES ASSUME n + 1 <= M PROVE C[n + 1] = A[n + 1] /\ A[n + 1] \in Seq(T)
    BY DEF R
  <2>1. C[n] = A[n] /\ A[n] \in Seq(T)
    BY <1>0, <1>6
  <2>2. n + 1 \in 1..M /\ n + 1 <= Len(st)
    BY <1>0, <1>1
  <2>3. s[n + 1] \in T /\ st[n + 1] = s[n + 1]
    BY <1>1, <1>3, <2>2
  <2>4. Append(A[n], s[n + 1]) \in Seq(T)
    BY <2>1, <2>3, AppendProperties
  <2>5. C[n + 1] = IF n + 1 \in K THEN Append(C[n], st[n + 1]) ELSE C[n]
    BY <1>2, <2>2
  <2>6. A[n + 1] = IF n + 1 \in I THEN Append(A[n], s[n + 1]) ELSE A[n]
    BY <1>2
  <2> QED
    BY <1>4, <2>1, <2>2, <2>3, <2>4, <2>5, <2>6
<1>7. C[M] = A[M] /\ A[M] \in Seq(T)
  <2>1. M \in R
    <3> HIDE DEF R
    <3> QED
      BY <1>0, <1>5, <1>6, AllNaturals
  <2> QED
    BY <1>0, <2>1
<1>8. 0 \in S
  <2>1. A[M] \o <<>> = A[M] /\ <<>> \in Seq(T)
    BY <1>7, ConcatEmptySeq, EmptySeq
  <2>2. M + 0 = M
    BY <1>0
  <2>3. Joined(0)
    BY <1>2, <1>7, <2>1, <2>2
  <2> HIDE DEF Joined
  <2> QED
    BY <2>3
<1>9. ASSUME NEW n \in Nat, n + 1 <= N, Joined(n)
      PROVE  Joined(n + 1)
  <2>1. C[M + n] = A[M] \o B[n] /\ B[n] \in Seq(T)
    BY <1>9
  <2>2. n + 1 \in 1..N /\ M + n \in Nat /\ (M + n) + 1 <= Len(st) /\ M + (n + 1) = (M + n) + 1
    BY <1>0, <1>1, <1>9
  <2>3. t[n + 1] \in T /\ st[M + (n + 1)] = t[n + 1]
    BY <1>1, <1>3, <2>2
  <2>4. C[M + (n + 1)] = IF M + (n + 1) \in K THEN Append(C[M + n], st[M + (n + 1)]) ELSE C[M + n]
    BY <1>2, <2>2
  <2>5. B[n + 1] = IF n + 1 \in J THEN Append(B[n], t[n + 1]) ELSE B[n]
    BY <1>2, <1>9
  <2>6. CASE n + 1 \notin J
    BY <1>4, <2>1, <2>2, <2>4, <2>5, <2>6
  <2>7. CASE n + 1 \in J
    <3> DEFINE x == t[n + 1]
    <3>1. Append(A[M] \o B[n], x) = A[M] \o Append(B[n], x) /\ Append(B[n], x) \in Seq(T)
      <4>1. A[M] \in Seq(T) /\ B[n] \in Seq(T) /\ x \in T
        BY <1>7, <2>1, <2>3
      <4> HIDE DEF x
      <4>2. GoesLast(T, A[M], B[n], x)
        BY <4>1, AppendLast
      <4> QED
        BY <4>2 DEF GoesLast
    <3>5. C[M + (n + 1)] = Append(A[M] \o B[n], x) /\ B[n + 1] = Append(B[n], x)
      BY <1>4, <2>1, <2>2, <2>3, <2>4, <2>5, <2>7
    <3> HIDE DEF x
    <3> QED
      BY <3>1, <3>5, Zenon
  <2> QED
    BY <2>6, <2>7
<1>10. C[M + N] = A[M] \o B[N]
  <2> HIDE DEF Joined
  <2>1. \A n \in Nat : n \in S => n + 1 \in S
    BY <1>0, <1>9
  <2> HIDE DEF S
  <2>2. N \in S
    BY <1>0, <1>8, <2>1, AllNaturals
  <2> USE DEF S
  <2>3. Joined(N)
    BY <1>0, <2>2
  <2> QED
    BY <2>3 DEF Joined
<1> QED
  BY <1>1, <1>10, <1>c

\* The providers are what the setups say.
ProvidersTyped == provider \in [Keys -> [features : Seq(Features), style : Styles]]

LEMMA NormalizeIsSeq ==
    ASSUME NEW k, NEW s \in Seq(Features) PROVE Normalize(k, s) \in Seq(Features)
BY PicksAll DEF Holds, Normalize, Parse

\* Of the flood areas, the usable ones of two parts are those of the whole.
LEMMA NormalizeAppends ==
    ASSUME NEW k, k # Camera, NEW s \in Seq(Features), NEW t \in Seq(Features)
    PROVE  Normalize(k, s \o t) = Normalize(k, s) \o Normalize(k, t)
<1> DEFINE good(u) == {i \in DOMAIN u : Usable(u[i])}
           st == s \o t
<1>1. /\ Len(s) \in Nat /\ Len(t) \in Nat /\ DOMAIN s = 1..Len(s) /\ DOMAIN t = 1..Len(t)
  BY LenProperties
<1>2. /\ st \in Seq(Features) /\ Len(st) = Len(s) + Len(t)
      /\ \A i \in 1..Len(s) + Len(t) : st[i] = IF i <= Len(s) THEN s[i] ELSE t[i - Len(s)]
  BY ConcatProperties
<1>3. DOMAIN st = 1..Len(s) + Len(t)
  BY <1>2, LenProperties
<1> HIDE DEF st
<1>4. ASSUME NEW i \in 1..Len(s) PROVE i \in good(st) <=> i \in good(s)
  BY <1>1, <1>2, <1>3
<1>5. ASSUME NEW j \in 1..Len(t) PROVE Len(s) + j \in good(st) <=> j \in good(t)
  <2>1. Len(s) + j \in DOMAIN st /\ st[Len(s) + j] = t[j]
    <3>1. Len(s) + j \in 1..Len(s) + Len(t) /\ ~(Len(s) + j <= Len(s)) /\ (Len(s) + j) - Len(s) = j
      BY <1>1
    <3> QED
      BY <1>2, <1>3, <3>1
  <2> QED
    BY <1>1, <2>1
<1> HIDE DEF good
<1>6. Pick(s \o t, good(st)) = Pick(s, good(s)) \o Pick(t, good(t))
  <2>1. Splits(s, t, good(s), good(t), good(st))
    BY <1>4, <1>5 DEF Splits
  <2> QED
    BY <2>1, PicksAppend
<1> QED
  BY <1>6 DEF Normalize, good, st

LEMMA NormalizeNothing ==
    ASSUME NEW k, NEW s \in Seq(Features) PROVE Normalize(k, SubSeq(s, 1, 0)) = <<>>
<1>1. SubSeq(s, 1, 0) = <<>>
  BY SubSeqEmpty
<1>2. <<>> \in Seq(Features) /\ Len(<<>>) = 0
  BY EmptySeq
<1>3. \A I : Picked(<<>>, I)[0] = <<>>
  BY <1>2, PickedSteps DEF Rounds
<1> QED
  BY <1>1, <1>2, <1>3 DEF Normalize, Parse, Pick

\* What a refresh holds that still asks, and what it has when it is done.
\* Of a provider that caps its pages what fits comes with the first page.
AsksPages(r) ==
    LET style == provider[r.key].style IN
    r.paged /\ style.paging = "honoured" /\ ~(style.cap < PageSize)

FirstPages(r) ==
    LET all == provider[r.key].features IN
    /\ r.page \in Nat /\ r.received = r.page * PageSize /\ r.received <= Len(all)
    /\ r.areas = Normalize(r.key, SubSeq(all, 1, r.received))

NothingYet(r) == r.page = 0 /\ r.received = 0 /\ r.areas = <<>>

Progress(r) ==
    /\ r.pc # "idle" => (r.key = Camera => ~r.paged)
    /\ r.pc = "fetching" /\ Fits(r.key) => IF AsksPages(r) THEN FirstPages(r) ELSE NothingYet(r)
    /\ r.pc = "fetched" /\ Fits(r.key) => r.areas = Normalize(r.key, provider[r.key].features)

\* A copy is whole if the collection fits.
Copied(k, copy) ==
    copy # NoCopy /\ Fits(k) => copy.areas = Normalize(k, provider[k].features)

\* An answer that says nothing of more holds everything that meets the view.
ShowsAll(a) ==
    a.says \in {"fresh", "stale"} /\ a.query.op \in {"areas", "list"} /\ Fits(a.query.key) /\ ~a.body.more =>
      LET all == Normalize(a.query.key, provider[a.query.key].features) IN
      \A i \in DOMAIN all : all[i].seen /\ all[i].size > 0 =>
          \E j \in DOMAIN a.body.shown : a.body.shown[j] = all[i].id

RequestFine(a) ==
    /\ a.pc \in {"waiting", "woken"} =>
         ~Refused(a.query) /\ Copied(a.query.key, a.snap) /\ a.says = None
    /\ ShowsAll(a)

Complete ==
    /\ ProvidersTyped
    /\ \A g \in Refreshes : Progress(refresh[g])
    /\ \A k \in Keys : Copied(k, entry[k].snap)
    /\ \A c \in Callers : RequestFine(caller[c])

LEMMA StartsComplete == Init => Complete
<1> SUFFICES ASSUME Init PROVE Complete
  OBVIOUS
<1>1. ProvidersTyped
  BY SetupsAreTyped DEF Init, ProvidersTyped, SetupsAreTyped
<1>2. \A g \in Refreshes : Progress(refresh[g])
  BY DEF Init, Progress, Idle
<1>3. \A k \in Keys : Copied(k, entry[k].snap)
  BY DEF Init, Copied, EmptyEntry
<1>4. \A c \in Callers : RequestFine(caller[c])
  BY DEF Init, RequestFine, ShowsAll, Away, None
<1> QED
  BY <1>1, <1>2, <1>3, <1>4 DEF Complete

\* --- A refresh ---

LEMMA MorePagesFit ==
    ASSUME NEW a \in Nat, NEW b \in Nat, NEW p \in Nat, a <= b PROVE a * p <= b * p
OBVIOUS

\* A page of a provider that honours paging.
LEMMA PageArrives ==
    ASSUME ProvidersTyped, NEW r, RefreshRow(r), r.key \in Keys, r.pc = "fetching", Progress(r),
           Fits(r.key), AsksPages(r)
    PROVE  LET all == provider[r.key].features
               body == Body(r)
               got == r.received + Len(body)
           IN  /\ body \in Seq(Features) /\ got \in Nat /\ got <= Len(all)
               /\ r.areas \o Normalize(r.key, body) = Normalize(r.key, SubSeq(all, 1, got))
               /\ MorePages(r, body) => got = (r.page + 1) * PageSize
               /\ ~(MorePages(r, body) /\ r.page + 1 < MaxPages) => got = Len(all)
<1> DEFINE all == provider[r.key].features
           body == Body(r)
           first == r.page * PageSize
           last == first + PageSize
           end == IF last < Len(all) THEN last ELSE Len(all)
           got == r.received + Len(body)
<1>0. r.key # Camera
  BY DEF Progress, AsksPages
<1>1. all \in Seq(Features) /\ Len(all) \in Nat
  BY LenProperties DEF ProvidersTyped
<1>2. /\ PageSize \in Nat \ {0} /\ MaxPages \in Nat
  BY FeedAssumption DEF FeedAssumption
<1>3. /\ r.page \in Nat /\ r.received = first /\ first <= Len(all)
      /\ r.areas = Normalize(r.key, SubSeq(all, 1, first))
  BY DEF Progress, FirstPages
<1>4. body = SubSeq(all, first + 1, end)
  BY DEF Body, PageOf, AsksPages
<1>5. first \in Nat /\ last = (r.page + 1) * PageSize /\ last \in Nat
  BY <1>2, <1>3
<1>m. MorePages(r, body) <=>
        IF provider[r.key].style.counted THEN got < Len(all) /\ body # <<>> ELSE Len(body) >= PageSize
  BY DEF MorePages, AsksPages
<1>f. Len(all) <= MaxPages * PageSize
  BY <1>0 DEF Fits, AsksPages
<1> HIDE DEF all, body, first, last
<1>6. end \in Nat /\ first <= end /\ end <= Len(all) /\ (end = last \/ (end = Len(all) /\ Len(all) <= last))
  BY <1>1, <1>2, <1>3, <1>5 DEF last
<1> HIDE DEF end
<1>7. body \in Seq(Features) /\ Len(body) = end - first
  <2>1. \A i \in first + 1..end : all[i] \in Features
    BY <1>1, <1>5, <1>6, ElementOfSeq
  <2>2. /\ SubSeq(all, first + 1, end) \in Seq(Features)
        /\ Len(SubSeq(all, first + 1, end)) = IF first + 1 <= end THEN end - (first + 1) + 1 ELSE 0
    BY <1>5, <1>6, <2>1, SubSeqProperties
  <2> QED
    BY <1>4, <1>5, <1>6, <2>2
<1>8. got = end
  BY <1>3, <1>5, <1>6, <1>7
<1>9. r.areas \o Normalize(r.key, body) = Normalize(r.key, SubSeq(all, 1, end))
  <2> DEFINE had == SubSeq(all, 1, first)
             has == SubSeq(all, 1, end)
  <2>1. had \in Seq(Features)
    <3>1. \A i \in 1..first : all[i] \in Features
      BY <1>1, <1>3, <1>5, ElementOfSeq
    <3> QED
      BY <1>5, <3>1, SubSeqProperties
  <2>2. had \o body = has
    <3>1. 1 \in 1..Len(all) + 1 /\ first \in 1 - 1..Len(all) /\ end \in first..Len(all)
      BY <1>1, <1>3, <1>5, <1>6
    <3>2. SubSeq(all, 1, first) \o SubSeq(all, first + 1, end) = SubSeq(all, 1, end)
      BY <1>1, <3>1, ConcatAdjacentSubSeq
    <3> QED
      BY <1>4, <3>2
  <2> HIDE DEF had, has
  <2>3. Normalize(r.key, had \o body) = Normalize(r.key, had) \o Normalize(r.key, body)
    BY <1>0, <1>7, <2>1, NormalizeAppends
  <2> QED
    BY <1>3, <2>2, <2>3 DEF had, has
<1>10. MorePages(r, body) => got = (r.page + 1) * PageSize
  <2>1. MorePages(r, body) => end = last
    BY <1>1, <1>2, <1>5, <1>6, <1>7, <1>8, <1>m DEF last
  <2> QED
    BY <1>5, <1>8, <2>1
<1>11. ~(MorePages(r, body) /\ r.page + 1 < MaxPages) => got = Len(all)
  <2>1. CASE r.page + 1 >= MaxPages
    <3>1. MaxPages * PageSize <= (r.page + 1) * PageSize
      BY <1>2, <1>3, <2>1, MorePagesFit
    <3>2. MaxPages * PageSize \in Int
      BY <1>2
    <3> QED
      BY <1>1, <1>5, <1>6, <1>8, <1>f, <3>1, <3>2
  <2>2. CASE ~MorePages(r, body)
    <3>1. body = <<>> => Len(body) = 0
      BY EmptySeq
    <3> QED
      BY <1>1, <1>2, <1>5, <1>6, <1>7, <1>8, <1>m, <2>2, <3>1 DEF last
  <2> QED
    BY <1>2, <1>3, <2>1, <2>2
<1> QED
  BY <1>6, <1>7, <1>8, <1>9, <1>10, <1>11 DEF all, body


LEMMA FailedProgress ==
    ASSUME NEW r, RefreshRow(r), r.key = Camera => ~r.paged PROVE Progress(Failed(r))
<1> DEFINE areas == <<>>
           failed == [r EXCEPT !.pc = "failed"]
<1>1. RefreshRow(failed) /\ failed.key = r.key /\ failed.pc = "failed" /\ failed.paged = r.paged
  BY DEF RefreshRow
<1>2. Failed(r) = [failed EXCEPT !.areas = areas]
  BY DEF Failed
<1> HIDE DEF areas, failed
<1>3. Failed(r).pc = "failed" /\ Failed(r).key = r.key /\ Failed(r).paged = r.paged
  BY <1>1, <1>2 DEF RefreshRow
<1> QED
  BY <1>3 DEF Progress

\* A row that asks on from where r has got to.
SameProgress(r, next) ==
    /\ next.pc = r.pc /\ next.key = r.key /\ next.paged = r.paged /\ next.page = r.page
    /\ next.received = r.received /\ next.areas = r.areas

LEMMA UnansweredProgress ==
    ASSUME NEW r, RefreshRow(r), r.pc = "fetching", Progress(r), NEW next \in Unanswered(r)
    PROVE  Progress(next)
<1>1. CASE next = Failed(r)
  BY <1>1, FailedProgress DEF Progress
<1>2. CASE next = [r EXCEPT !.attempt = 2]
  <2>1. SameProgress(r, next)
    BY <1>2 DEF RefreshRow, SameProgress
  <2> QED
    BY <2>1 DEF SameProgress, Progress, AsksPages, FirstPages, NothingYet
<1> QED
  BY <1>1, <1>2 DEF Unanswered, Retried

LEMMA BadRequestProgress ==
    ASSUME NEW r, RefreshRow(r), r.pc = "fetching", Progress(r), Refuses(r)
    PROVE  Progress(BadRequest(r))
<1>1. CASE BadRequest(r) = Failed(r)
  BY <1>1, FailedProgress DEF Progress
<1>2. CASE BadRequest(r) = [r EXCEPT !.paged = FALSE, !.attempt = 1]
  <2> DEFINE no == FALSE
             next == BadRequest(r)
  <2>1. next = [r EXCEPT !.paged = no, !.attempt = 1]
    BY <1>2
  <2>2. r.key # Camera /\ ~AsksPages(r)
    BY DEF Refuses, AsksPages
  <2> HIDE DEF no, next
  <2>3. /\ next.pc = r.pc /\ next.key = r.key /\ next.paged = no /\ next.page = r.page
        /\ next.received = r.received /\ next.areas = r.areas
    BY <2>1 DEF RefreshRow
  <2>4. next.paged = FALSE
    BY <2>3 DEF no
  <2>5. Progress(next)
    BY <2>2, <2>3, <2>4 DEF Progress, AsksPages, NothingYet
  <2> QED
    BY <2>5 DEF next
<1> QED
  BY <1>1, <1>2 DEF BadRequest

\* A whole answer, of a provider that does not page, is not asked to or holds no
\* more than a page.
LEMMA AllArrives ==
    ASSUME ProvidersTyped, NEW r, r.key \in Keys, r.pc = "fetching", Progress(r),
           Fits(r.key), ~AsksPages(r), ~Refuses(r)
    PROVE  LET all == provider[r.key].features
               body == Body(r)
           IN  /\ body = all /\ ~MorePages(r, body)
               /\ r.areas \o Normalize(r.key, body) = Normalize(r.key, all)
<1> DEFINE all == provider[r.key].features
<1>1. all \in Seq(Features) /\ Len(all) \in Nat
  BY LenProperties DEF ProvidersTyped
<1>2. r.page = 0 /\ r.received = 0 /\ r.areas = <<>>
  BY DEF Progress, NothingYet
<1>3. PageSize \in Nat /\ provider[r.key].style \in Styles
  BY FeedAssumption DEF FeedAssumption, ProvidersTyped
<1>4. Body(r) = all /\ ~MorePages(r, all)
  <2>1. CASE ~r.paged
    BY <2>1 DEF Body, MorePages
  <2>2. CASE r.paged
    <3>1. r.key # Camera
      BY <2>2 DEF Progress
    <3>2. CASE provider[r.key].style.paging = "ignored"
      <4>1. provider[r.key].style.counted \/ Len(all) < PageSize
        BY <3>1, <3>2 DEF Fits
      <4> QED
        BY <1>1, <1>2, <1>3, <3>2, <4>1 DEF Body, MorePages
    <3>3. CASE provider[r.key].style.paging = "honoured"
      <4> DEFINE cap == provider[r.key].style.cap
                 end == IF cap < Len(all) THEN cap ELSE Len(all)
      <4>1. cap \in Nat /\ cap < PageSize /\ PageOf(provider[r.key]) = cap
        BY <1>3, <2>2, <3>3 DEF AsksPages, PageOf, Styles
      <4>2. Len(all) <= cap
        BY <3>1, <3>3, <4>1 DEF Fits
      <4>3. end = Len(all)
        BY <1>1, <4>1, <4>2
      <4>4. Body(r) = SubSeq(all, 1, end)
        BY <1>2, <1>3, <2>2, <3>3, <4>1 DEF Body
      <4>5. SubSeq(all, 1, Len(all)) = all
        <5> HIDE DEF all
        <5> QED
          BY <1>1, SubSeqFull
      <4>6. ~MorePages(r, all)
        BY <1>1, <1>2, <1>3, <4>1, <4>2 DEF MorePages
      <4> HIDE DEF end, all
      <4> QED
        BY <4>3, <4>4, <4>5, <4>6
    <3> QED
      BY <1>3, <2>2, <3>1, <3>2, <3>3 DEF Refuses, Styles
  <2> QED
    BY <2>1, <2>2
<1> HIDE DEF all
<1>5. <<>> \o Normalize(r.key, all) = Normalize(r.key, all)
  BY <1>1, NormalizeIsSeq, ConcatEmptySeq
<1> QED
  BY <1>2, <1>4, <1>5 DEF all

LEMMA ReceivedProgress ==
    ASSUME ProvidersTyped, NEW r, RefreshRow(r), r.key \in Keys, r.pc = "fetching", Progress(r),
           ~Refuses(r)
    PROVE  Progress(Received(r, Body(r)))
<1> DEFINE body == Body(r)
           received == r.received + Len(body)
           page == r.page + 1
           areas == r.areas \o Normalize(r.key, body)
           all == [r EXCEPT !.received = received, !.attempt = 1, !.page = page, !.areas = areas]
           done == [all EXCEPT !.pc = "fetched", !.fetchedAt = now]
           more == MorePages(r, body) /\ page < MaxPages
<1>1. /\ more => Received(r, body) = all
      /\ ~more => Received(r, body) \in {Failed(all), done}
  BY DEF Received
<1>0. r.key = Camera => ~r.paged
  BY DEF Progress
<1>2. ASSUME Fits(r.key)
      PROVE  /\ more => /\ AsksPages(r)
                        /\ page \in Nat /\ received = page * PageSize
                        /\ received <= Len(provider[r.key].features)
                        /\ areas = Normalize(r.key, SubSeq(provider[r.key].features, 1, received))
             /\ ~more => areas = Normalize(r.key, provider[r.key].features)
  <2>1. CASE AsksPages(r)
    <3> DEFINE F == provider[r.key].features
    <3>1. /\ received \in Nat /\ received <= Len(F)
          /\ areas = Normalize(r.key, SubSeq(F, 1, received))
          /\ MorePages(r, body) => received = page * PageSize
          /\ ~more => received = Len(F)
      BY <1>2, <2>1, PageArrives
    <3>2. page \in Nat
      BY <1>2, <2>1 DEF Progress, FirstPages
    <3>3. SubSeq(F, 1, Len(F)) = F
      <4>1. F \in Seq(Features)
        BY DEF ProvidersTyped
      <4> HIDE DEF F
      <4> QED
        BY <4>1, SubSeqFull
    <3> HIDE DEF F, areas, received, page, body
    <3>4. ~more => areas = Normalize(r.key, F)
      BY <3>1, <3>3
    <3> QED
      BY <2>1, <3>1, <3>2, <3>4 DEF F
  <2>2. CASE ~AsksPages(r)
    BY <1>2, <2>2, AllArrives
  <2> QED
    BY <2>1, <2>2
<1> HIDE DEF body, received, page, areas, more
<1>3. /\ RefreshRow(all) /\ all.key = r.key /\ all.pc = "fetching" /\ all.paged = r.paged
      /\ all.received = received /\ all.page = page /\ all.areas = areas
  <2> DEFINE counted == [r EXCEPT !.received = received]
             again == [counted EXCEPT !.attempt = 1]
             turned == [again EXCEPT !.page = page]
             full == [turned EXCEPT !.areas = areas]
  <2>0. all = full
    OBVIOUS
  <2>1. /\ RefreshRow(counted) /\ counted.key = r.key /\ counted.pc = "fetching"
        /\ counted.paged = r.paged /\ counted.received = received
    BY DEF RefreshRow
  <2> HIDE DEF counted
  <2>2. /\ RefreshRow(again) /\ again.key = r.key /\ again.pc = "fetching"
        /\ again.paged = r.paged /\ again.received = received
    BY <2>1 DEF RefreshRow
  <2> HIDE DEF again
  <2>3. /\ RefreshRow(turned) /\ turned.key = r.key /\ turned.pc = "fetching"
        /\ turned.paged = r.paged /\ turned.received = received /\ turned.page = page
    BY <2>2 DEF RefreshRow
  <2> HIDE DEF turned
  <2>4. /\ RefreshRow(full) /\ full.key = r.key /\ full.pc = "fetching"
        /\ full.paged = r.paged /\ full.received = received /\ full.page = page
        /\ full.areas = areas
    BY <2>3 DEF RefreshRow
  <2> HIDE DEF full, all
  <2> QED
    BY <2>0, <2>4
<1> HIDE DEF all
<1>4. done.key = r.key /\ done.pc = "fetched" /\ done.paged = r.paged /\ done.areas = areas
  BY <1>3 DEF RefreshRow
<1> HIDE DEF done
<1>5. Progress(Failed(all))
  BY <1>0, <1>3, FailedProgress
<1>6. CASE more
  <2>1. Progress(all)
    BY <1>0, <1>2, <1>3, <1>6 DEF Progress, AsksPages, FirstPages
  <2> QED
    BY <1>1, <1>6, <2>1 DEF body
<1>7. CASE ~more
  <2>1. Progress(done)
    BY <1>0, <1>2, <1>4, <1>7 DEF Progress
  <2> QED
    BY <1>1, <1>5, <1>7, <2>1 DEF body
<1> QED
  BY <1>6, <1>7


\* --- A request ---

LEMMA IdsOf ==
    ASSUME NEW s \in Seq(Features)
    PROVE  DOMAIN Ids(s) = DOMAIN s /\ \A i \in DOMAIN s : Ids(s)[i] = s[i].id
BY DEF Ids

\* Clip tells of every area that meets the view and is not shown.
LEMMA ClipShowsAll ==
    ASSUME NEW all \in Seq(Features), ~Clip(all).more,
           NEW i \in DOMAIN all, all[i].seen, all[i].size > 0
    PROVE  \E j \in DOMAIN Clip(all).shown : Clip(all).shown[j] = all[i].id
<1> DEFINE here == Meeting(all) \ Past(all)
           picked == Pick(all, here)
<1>1. i \in here
  BY DEF Clip, Meeting
<1>2. i \in 1..Len(all)
  BY LenProperties
<1> HIDE DEF here
<1>3. picked \in Seq(Features) /\ \E j \in DOMAIN picked : picked[j] = all[i]
  <2>1. Holds(picked, Features, all, here)
    BY PicksAll
  <2> HIDE DEF picked
  <2> QED
    BY <1>1, <1>2, <2>1 DEF Holds
<1>4. Clip(all).shown = Ids(picked)
  BY DEF Clip, here
<1> HIDE DEF picked
<1> QED
  BY <1>3, <1>4, IdsOf

\* So does Within of the cameras.
LEMMA WithinShowsAll ==
    ASSUME NEW all \in Seq(Features), NEW limit \in Nat, ~Within(all, limit).more,
           NEW i \in DOMAIN all, all[i].seen
    PROVE  \E j \in DOMAIN Within(all, limit).shown : Within(all, limit).shown[j] = all[i].id
<1> DEFINE here == {n \in DOMAIN all : all[n].seen}
           inside == Pick(all, here)
           many == Len(inside)
           more == many > limit
           end == IF many < limit THEN many ELSE limit
           shown == [n \in 1..end |-> inside[n].id]
<1>1. i \in here /\ i \in 1..Len(all)
  BY LenProperties
<1>2. Within(all, limit) = [shown |-> shown, more |-> more]
  BY DEF Within
<1>3. inside \in Seq(Features) /\ \E j \in DOMAIN inside : inside[j] = all[i]
  <2>1. Holds(inside, Features, all, here)
    BY PicksAll
  <2> HIDE DEF here, inside
  <2> QED
    BY <1>1, <2>1 DEF Holds
<1> HIDE DEF here, inside
<1>4. many \in Nat /\ DOMAIN inside = 1..many
  BY <1>3, LenProperties
<1>5. Within(all, limit).shown = shown /\ ~more
  <2> HIDE DEF shown, more
  <2> QED
    BY <1>2
<1> HIDE DEF many
<1>6. end = many
  BY <1>4, <1>5
<1>7. shown = [n \in 1..many |-> inside[n].id]
  BY <1>6
<1> HIDE DEF shown
<1> QED
  BY <1>3, <1>4, <1>5, <1>7

LEMMA AnswerShowsAll ==
    ASSUME ProvidersTyped, NEW q, q.key \in Keys, ~Refused(q), NEW copy, Copied(q.key, copy),
           NEW says, says \in {"fresh", "stale"} => copy # NoCopy
    PROVE  ShowsAll(Answer(q, says, copy))
<1> DEFINE a == Answer(q, says, copy)
           all == Normalize(q.key, provider[q.key].features)
<1>1. /\ a.says = says /\ a.query = q
      /\ copy # NoCopy => a.body = Present(q, copy)
  BY DEF Answer
<1> HIDE DEF a
<1> SUFFICES ASSUME copy # NoCopy, Fits(q.key), q.op \in {"areas", "list"}, ~a.body.more,
                    NEW i \in DOMAIN all, all[i].seen, all[i].size > 0
             PROVE  \E j \in DOMAIN a.body.shown : a.body.shown[j] = all[i].id
  BY <1>1 DEF ShowsAll, a
<1>2. copy.areas = all
  BY DEF Copied
<1>3. all \in Seq(Features)
  BY NormalizeIsSeq DEF ProvidersTyped
<1> HIDE DEF all
<1>4. CASE q.op = "areas"
  <2>1. a.body = Clip(all)
    BY <1>1, <1>2, <1>4 DEF Present
  <2> QED
    BY <1>3, <2>1, ClipShowsAll
<1>5. CASE q.op = "list"
  <2> DEFINE limit == IF q.limit = 0 THEN DefaultLimit ELSE q.limit
  <2>1. limit \in Nat
    BY <1>5, FeedAssumption DEF Refused, ListRefused, FeedAssumption
  <2>2. a.body = Within(all, limit)
    BY <1>1, <1>2, <1>5 DEF Present, ListCameras
  <2> HIDE DEF limit
  <2> QED
    BY <1>3, <2>1, <2>2, WithinShowsAll
<1> QED
  BY <1>4, <1>5

\* What one request may become.
LEMMA AnswerRequest ==
    ASSUME ProvidersTyped, NEW q, q.key \in Keys, ~Refused(q), NEW copy, Copied(q.key, copy),
           NEW says, says \in {"fresh", "stale"} => copy # NoCopy
    PROVE  RequestFine(Answer(q, says, copy))
<1>1. ShowsAll(Answer(q, says, copy))
  BY AnswerShowsAll
<1>2. Answer(q, says, copy).pc = "answered"
  BY DEF Answer
<1> QED
  BY <1>1, <1>2 DEF RequestFine

LEMMA FallbackRequest ==
    ASSUME ProvidersTyped, NEW q, q.key \in Keys, ~Refused(q), NEW copy, Copied(q.key, copy)
    PROVE  RequestFine(Fallback(q, copy))
<1>1. copy # NoCopy => RequestFine(Answer(q, "stale", copy))
  BY AnswerRequest
<1>2. RequestFine(Answer(q, "unavailable", NoCopy))
  BY AnswerRequest DEF Copied
<1> QED
  BY <1>1, <1>2 DEF Fallback

LEMMA WaitingRequest ==
    ASSUME NEW q, ~Refused(q), NEW g, Copied(q.key, entry[q.key].snap)
    PROVE  RequestFine(Waiting(q, g))
BY DEF RequestFine, ShowsAll, Waiting, None

\* --- The steps ---

LEMMA NextComplete ==
    ASSUME Complete, UNCHANGED provider,
           \A g \in Refreshes : Progress(refresh'[g]),
           \A k \in Keys : Copied(k, entry'[k].snap),
           \A c \in Callers : RequestFine(caller'[c])
    PROVE  Complete'
<1>1. ProvidersTyped'
  BY DEF Complete, ProvidersTyped
<1>2. \A k : Fits(k)' <=> Fits(k)
  BY DEF Fits
<1>3. ASSUME NEW g \in Refreshes PROVE Progress(refresh[g])'
  BY DEF Progress, AsksPages, FirstPages, NothingYet, Fits
<1>4. ASSUME NEW k \in Keys PROVE Copied(k, entry[k].snap)'
  BY DEF Copied, Fits
<1>5. ASSUME NEW c \in Callers PROVE RequestFine(caller[c])'
  BY DEF RequestFine, ShowsAll, Copied, Fits
<1> QED
  BY <1>1, <1>3, <1>4, <1>5 DEF Complete

LEMMA OneRequestComplete ==
    ASSUME Shared, Complete, UNCHANGED <<provider, entry, refresh>>, NEW c \in Callers, NEW a,
           caller' = [caller EXCEPT ![c] = a], RequestFine(a)
    PROVE  Complete'
<1>1. \A d \in Callers : caller'[d] = IF d = c THEN a ELSE caller[d]
  BY DEF Shared, Shapes
<1>2. \A d \in Callers : RequestFine(caller'[d])
  BY <1>1 DEF Complete
<1>3. /\ \A g \in Refreshes : Progress(refresh'[g])
      /\ \A k \in Keys : Copied(k, entry'[k].snap)
  BY DEF Complete
<1> QED
  BY <1>2, <1>3, NextComplete

LEMMA StartedProgress ==
    ASSUME ProvidersTyped, NEW k \in Keys PROVE Progress(Started(k))
<1> DEFINE r == Started(k)
           all == provider[k].features
<1>1. /\ r.pc = "fetching" /\ r.key = k /\ r.page = 0 /\ r.received = 0 /\ r.areas = <<>>
      /\ r.paged <=> k # Camera
  BY DEF Started
<1> HIDE DEF r
<1>2. all \in Seq(Features) /\ Len(all) \in Nat
  BY LenProperties DEF ProvidersTyped
<1>3. 0 = 0 * PageSize
  BY FeedAssumption DEF FeedAssumption
<1>4. Normalize(k, SubSeq(all, 1, 0)) = <<>>
  BY <1>2, NormalizeNothing
<1>5. FirstPages(r)
  BY <1>1, <1>2, <1>3, <1>4 DEF FirstPages
<1> QED
  BY <1>1, <1>5 DEF Progress, NothingYet, r

LEMMA TurnComplete ==
    ASSUME Shared, Complete, UNCHANGED <<now, env, provider>>, NEW c \in Callers,
           NEW q, q.key \in Keys, ~Refused(q), Turn(c, q)
    PROVE  Complete'
<1>0. ProvidersTyped /\ Copied(q.key, entry[q.key].snap)
  BY DEF Complete
<1>1. CASE ServeFresh(c, q)
  <2>1. RequestFine(Answer(q, "fresh", entry[q.key].snap))
    BY <1>0, <1>1, AnswerRequest DEF ServeFresh, Fresh
  <2> QED
    BY <1>1, <2>1, OneRequestComplete DEF ServeFresh
<1>2. CASE ServeFallback(c, q)
  <2>1. RequestFine(Fallback(q, entry[q.key].snap))
    BY <1>0, FallbackRequest
  <2> QED
    BY <1>2, <2>1, OneRequestComplete DEF ServeFallback
<1>3. ASSUME NEW g \in Refreshes, StartRefresh(c, q, g) PROVE Complete'
  <2>1. /\ refresh' = [refresh EXCEPT ![g] = Started(q.key)]
        /\ entry' = [entry EXCEPT ![q.key].inflight = g]
        /\ caller' = [caller EXCEPT ![c] = Waiting(q, g)]
    BY <1>3 DEF StartRefresh
  <2>2. /\ \A h \in Refreshes : refresh'[h] = IF h = g THEN Started(q.key) ELSE refresh[h]
        /\ \A d \in Callers : caller'[d] = IF d = c THEN Waiting(q, g) ELSE caller[d]
    BY <2>1 DEF Shared, Shapes
  <2>3. \A k \in Keys : entry'[k].snap = entry[k].snap
    <3> SUFFICES ASSUME NEW k \in Keys PROVE entry'[k].snap = entry[k].snap
      OBVIOUS
    <3>1. entry'[k] = IF k = q.key THEN [entry[k] EXCEPT !.inflight = g] ELSE entry[k]
      BY <2>1 DEF Shared, Shapes, Entries
    <3>2. entry[k] = [snap |-> entry[k].snap, failedAt |-> entry[k].failedAt, inflight |-> entry[k].inflight]
      BY EntryRow DEF Shared, Shapes
    <3>3. [entry[k] EXCEPT !.inflight = g].snap = entry[k].snap
      BY <3>2
    <3> QED
      BY <3>1, <3>3
  <2>4. Progress(Started(q.key)) /\ RequestFine(Waiting(q, g))
    BY <1>0, StartedProgress, WaitingRequest
  <2>5. /\ \A h \in Refreshes : Progress(refresh'[h])
        /\ \A d \in Callers : RequestFine(caller'[d])
        /\ \A k \in Keys : Copied(k, entry'[k].snap)
    BY <2>2, <2>3, <2>4 DEF Complete
  <2> QED
    BY <2>5, NextComplete
<1>4. CASE JoinRefresh(c, q)
  <2>1. RequestFine(Waiting(q, entry[q.key].inflight))
    BY <1>0, WaitingRequest
  <2> QED
    BY <1>4, <2>1, OneRequestComplete DEF JoinRefresh
<1> QED
  BY <1>1, <1>2, <1>3, <1>4 DEF Turn

LEMMA AskComplete ==
    ASSUME Shared, Complete, NEW c \in Callers, NEW q \in Queries, Ask(c, q) PROVE Complete'
<1>1. CASE caller' = [caller EXCEPT ![c] = Answer(q, "refused", NoCopy)] /\ UNCHANGED <<entry, refresh>>
  <2>1. RequestFine(Answer(q, "refused", NoCopy))
    BY DEF RequestFine, ShowsAll, Answer
  <2> QED
    BY <1>1, <2>1, OneRequestComplete DEF Ask
<1>2. CASE ~Refused(q) /\ Turn(c, q)
  <2>1. q.key \in Keys
    BY <1>2, FeedAssumption DEF Refused, PeriodRefused, FeedAssumption, Keys
  <2> QED
    BY <1>2, <2>1, TurnComplete DEF Ask
<1> QED
  BY <1>1, <1>2 DEF Ask

LEMMA ExchangeComplete ==
    ASSUME Shared, Complete, NEW g \in Refreshes, Exchange(g) PROVE Complete'
<1> DEFINE r == refresh[g]
<1>1. /\ ProvidersTyped /\ RefreshRow(r) /\ r.key \in Keys /\ r.pc = "fetching" /\ Progress(r)
  BY DEF Exchange, Shared, Shapes, RefreshesFine, RefreshFine, Complete
<1>2. PICK next \in Unanswered(r) \cup {IF Refuses(r) THEN BadRequest(r) ELSE Received(r, Body(r))} :
          refresh' = [refresh EXCEPT ![g] = next]
  BY DEF Exchange
<1>3. Progress(next)
  <2>1. CASE next \in Unanswered(r)
    BY <1>1, <2>1, UnansweredProgress
  <2>2. CASE Refuses(r) /\ next = BadRequest(r)
    BY <1>1, <2>2, BadRequestProgress
  <2>3. CASE ~Refuses(r) /\ next = Received(r, Body(r))
    BY <1>1, <2>3, ReceivedProgress
  <2> QED
    BY <1>2, <2>1, <2>2, <2>3
<1> HIDE DEF r
<1>4. \A h \in Refreshes : refresh'[h] = IF h = g THEN next ELSE refresh[h]
  BY <1>2 DEF Shared, Shapes
<1>5. UNCHANGED <<provider, entry, caller>>
  BY DEF Exchange
<1>6. /\ \A h \in Refreshes : Progress(refresh'[h])
      /\ \A d \in Callers : RequestFine(caller'[d])
      /\ \A k \in Keys : Copied(k, entry'[k].snap)
  BY <1>3, <1>4, <1>5 DEF Complete
<1> QED
  BY <1>5, <1>6, NextComplete

\* What a refresh leaves of an entry is whole.
LEMMA KeptIsWhole ==
    ASSUME NEW e, NEW r, r.pc # "idle", Progress(r), Copied(r.key, e.snap)
    PROVE  Copied(r.key, Kept(e, r).snap)
<1>1. CASE r.pc = "fetched"
  <2>1. Kept(e, r).snap.areas = r.areas
    BY <1>1 DEF Kept
  <2> QED
    BY <1>1, <2>1 DEF Progress, Copied
<1>2. CASE r.pc # "fetched"
  <2>1. Kept(e, r).snap = e.snap
    BY <1>2 DEF Kept
  <2> QED
    BY <2>1
<1> QED
  BY <1>1, <1>2

LEMMA StoreComplete ==
    ASSUME Shared, Complete, NEW g \in Refreshes, Store(g) PROVE Complete'
<1> DEFINE r == refresh[g]
<1>1. /\ r.pc \in {"fetched", "failed"} /\ r.key \in Keys /\ Progress(r)
      /\ entry' = [entry EXCEPT ![r.key] = Kept(@, r)]
      /\ refresh' = [refresh EXCEPT ![g] = Idle] /\ caller' = Woken(g) /\ UNCHANGED provider
  BY DEF Store, Shared, RefreshesFine, RefreshFine, Complete
<1> HIDE DEF r
<1>2. /\ \A h \in Refreshes : refresh'[h] = IF h = g THEN Idle ELSE refresh[h]
      /\ \A k \in Keys : entry'[k] = IF k = r.key THEN Kept(entry[k], r) ELSE entry[k]
  BY <1>1 DEF Shared, Shapes, Entries
<1>3. \A h \in Refreshes : Progress(refresh'[h])
  <2>1. Progress(Idle)
    BY DEF Progress, Idle
  <2> QED
    BY <1>2, <2>1 DEF Complete
<1>4. ASSUME NEW k \in Keys PROVE Copied(k, entry'[k].snap)
  <2>1. Copied(k, entry[k].snap)
    BY DEF Complete
  <2>2. k = r.key => Copied(k, Kept(entry[k], r).snap)
    BY <1>1, <2>1, KeptIsWhole
  <2> QED
    BY <1>2, <2>1, <2>2
<1>5. ASSUME NEW c \in Callers PROVE RequestFine(caller'[c])
  <2> DEFINE a == caller[c]
             w == [a EXCEPT !.pc = "woken", !.waitsFor = None]
  <2>0. caller'[c] = IF a.pc = "waiting" /\ a.waitsFor = g THEN w ELSE a
    BY <1>1 DEF Woken
  <2>1. RequestFine(a) /\ CallerRow(a)
    BY DEF Complete, Shared, Shapes
  <2> HIDE DEF a
  <2>2. w.query = a.query /\ w.says = a.says /\ w.snap = a.snap
    <3> DEFINE up == [a EXCEPT !.pc = "woken"]
    <3>1. w = [up EXCEPT !.waitsFor = None]
      OBVIOUS
    <3>2. CallerRow(up) /\ up.query = a.query /\ up.says = a.says /\ up.snap = a.snap
      BY <2>1 DEF CallerRow
    <3> HIDE DEF up, w
    <3> QED
      BY <3>1, <3>2 DEF CallerRow
  <2> HIDE DEF w
  <2>3. a.pc = "waiting" => RequestFine(w)
    BY <2>1, <2>2 DEF RequestFine, ShowsAll, None
  <2> QED
    BY <2>0, <2>1, <2>3
<1> QED
  BY <1>1, <1>3, <1>4, <1>5, NextComplete

LEMMA StaysComplete == Shared /\ Complete /\ [Next]_vars => Complete'
<1> SUFFICES ASSUME Shared, Complete, [Next]_vars PROVE Complete'
  OBVIOUS
<1>1. ASSUME NEW c \in Callers, NEW q \in Queries, Ask(c, q) PROVE Complete'
  BY <1>1, AskComplete
<1>2. ASSUME NEW c \in Callers, Wake(c) PROVE Complete'
  <2>1. caller[c].query.key \in Keys /\ ~Refused(caller[c].query)
    BY <1>2 DEF Wake, Shared, CallersFine, CallerFine, Complete, RequestFine
  <2> QED
    BY <1>2, <2>1, TurnComplete DEF Wake
<1>3. ASSUME NEW c \in Callers, GiveUp(c) PROVE Complete'
  <2> DEFINE q == caller[c].query
             copy == caller[c].snap
  <2>1. q.key \in Keys /\ ~Refused(q) /\ Copied(q.key, copy) /\ ProvidersTyped
    BY <1>3 DEF GiveUp, Shared, CallersFine, CallerFine, Complete, RequestFine
  <2>2. RequestFine(Fallback(q, copy))
    BY <2>1, FallbackRequest
  <2> QED
    BY <1>3, <2>2, OneRequestComplete DEF GiveUp
<1>4. ASSUME NEW c \in Callers, Leave(c) PROVE Complete'
  <2>1. RequestFine(Away)
    BY DEF RequestFine, ShowsAll, Away, None
  <2> QED
    BY <1>4, <2>1, OneRequestComplete DEF Leave
<1>5. ASSUME NEW g \in Refreshes, Exchange(g) PROVE Complete'
  BY <1>5, ExchangeComplete
<1>6. ASSUME NEW g \in Refreshes, Store(g) PROVE Complete'
  BY <1>6, StoreComplete
<1>7. CASE Tick \/ UNCHANGED vars
  <2>1. UNCHANGED <<provider, entry, refresh, caller>>
    BY <1>7 DEF Tick, vars
  <2> QED
    BY <2>1, NextComplete DEF Complete
<1> QED
  BY <1>1, <1>2, <1>3, <1>4, <1>5, <1>6, <1>7 DEF Next

LEMMA AlwaysComplete == Spec => [](Shared /\ Complete)
<1>1. Init => Shared /\ Complete
  BY StartsShared, StartsComplete
<1>2. Shared /\ Complete /\ [Next]_vars => (Shared /\ Complete)'
  BY StaysShared, StaysComplete
<1> QED
  BY <1>1, <1>2, PTL DEF Spec

\* Without "has more" nothing the request asked for is missing from its answer,
\* whatever pages, retries and failures its copy came through, if the client can
\* get the collection whole (Fits).
THEOREM NothingGoesMissing == Spec => []NothingIsMissing
<1>1. Complete => NothingIsMissing
  BY DEF Complete, RequestFine, ShowsAll, NothingIsMissing
<1> QED
  BY AlwaysComplete, <1>1, PTL

\* A new copy of a collection the client can get whole (Fits) holds every usable
\* feature of the provider once and in order, never the pages before one failed.
THEOREM CopiesStayWhole == Spec => CopiesAreWhole
<1> DEFINE Whole == \A k \in Keys : entry'[k].snap # entry[k].snap /\ Fits(k) =>
               entry'[k].snap.areas = Normalize(k, provider[k].features)
<1>1. Shared /\ Complete /\ [Next]_vars => Whole
  <2> SUFFICES ASSUME Shared, Complete, [Next]_vars, NEW k \in Keys,
                      entry'[k].snap # entry[k].snap, Fits(k)
               PROVE  entry'[k].snap.areas = Normalize(k, provider[k].features)
    BY DEF Whole
  <2>1. PICK g \in Refreshes : Store(g)
    BY OnlyStoresCopy
  <2>2. k = refresh[g].key /\ entry'[k] = Kept(entry[k], refresh[g])
    BY <2>1 DEF Store, Shared, Shapes, Entries
  <2>3. refresh[g].pc = "fetched"
    BY <2>2 DEF Kept
  <2>4. entry'[k].snap.areas = refresh[g].areas
    BY <2>2, <2>3 DEF Kept
  <2> QED
    BY <2>2, <2>3, <2>4 DEF Complete, Progress
<1>2. [][Whole]_vars => CopiesAreWhole
  BY PTL DEF CopiesAreWhole
<1> HIDE DEF Whole
<1> QED
  BY AlwaysComplete, <1>1, <1>2, PTL DEF Spec
=============================================================================
