----------------------------- MODULE MCFeedCache -----------------------------
(***************************************************************************)
(* Instances of FeedCache for TLC: one flood period and the cameras, two    *)
(* requests.                                                               *)
(***************************************************************************)
EXTENDS FeedCache

Feature(id, valid, seen, size, dist) ==
  [id |-> id, valid |-> valid, seen |-> seen, size |-> size, dist |-> dist]

\* A usable one behind an unusable one, one out of view and one behind it:
\* two pages, and more than the limits let through.  The cameras have two
\* pins of "b".
Broken == << Feature("a", FALSE, TRUE, 1, 1) >>
Areas == Broken \o << Feature("b", TRUE, TRUE, 1, 3), Feature("c", TRUE, FALSE, 2, 1),
                      Feature("d", TRUE, TRUE, 2, 2) >>
One == << Feature("b", TRUE, TRUE, 1, 3) >>
Two == One \o << Feature("d", TRUE, TRUE, 2, 2) >>
Cameras == Broken \o << Feature("b", TRUE, TRUE, 1, 3), Feature("b", TRUE, TRUE, 1, 1),
                        Feature("d", TRUE, TRUE, 1, 2) >>

Capped(features, paging, counted, cap) ==
  [features |-> features, style |-> [paging |-> paging, counted |-> counted, cap |-> cap]]
Provider(features, paging, counted) == Capped(features, paging, counted, PageSize)
Env(flag, apiKey, ttl) == [flag |-> flag, url |-> TRUE, apiKey |-> apiKey, ttl |-> ttl]
Setup(areasEnv, areas, camerasEnv, cameras) ==
  [env |-> ("1d" :> areasEnv @@ Camera :> camerasEnv),
   provider |-> ("1d" :> areas @@ Camera :> cameras)]

\* One feed on and the other off (they share no entry): a provider that pages
\* with a count, without one, one that refuses to, one that does not but counts,
\* one that holds more than MaxPages pages, two that cap their pages, of which one
\* holds more than a page; empty and unusable collections; TTLs in and out of
\* range; a missing key.
MCSetups ==
  LET noAreas == Provider(Areas, "honoured", TRUE)
      page(cameras) == Provider(cameras, "ignored", FALSE)
      on(ttl) == Env(TRUE, TRUE, ttl)
      off == Env(FALSE, TRUE, 1) IN
  { Setup(on(1), Provider(Areas, "honoured", TRUE), off, page(Cameras)),
    Setup(on(0), Provider(Areas, "honoured", FALSE), off, page(Cameras)),
    Setup(on(1), Provider(Areas, "refused", FALSE), off, page(Cameras)),
    Setup(on(1), Provider(Areas, "ignored", TRUE), off, page(Cameras)),
    Setup(on(1), Provider(Areas \o Broken, "honoured", TRUE), off, page(Cameras)),
    Setup(on(2), Capped(Two, "honoured", TRUE, 1), off, page(Cameras)),
    Setup(on(1), Capped(One, "honoured", FALSE, 1), off, page(Cameras)),
    Setup(on(1), Provider(<< >>, "honoured", TRUE), off, page(Cameras)),
    Setup(on(1), Provider(Broken, "honoured", FALSE), off, page(Cameras)),
    Setup(Env(TRUE, FALSE, 1), noAreas, on(1), page(Cameras)),
    Setup(off, noAreas, on(0), page(Broken)) }

Query(op, key, limit, radius, id) ==
  [op |-> op, key |-> key, limit |-> limit, radius |-> radius, id |-> id]

MCQueries ==
  { Query("areas", "1d", 0, 0, None),
    Query("list", Camera, 0, 0, None),
    Query("nearby", Camera, 0, 2, None),
    Query("nearby", Camera, 1, 9, None),
    Query("camera", Camera, 0, 0, "b") }

\* The loops of parse and Clip as the code runs them, the second up to its break.
ParseLoop(page) ==
  FoldLeft(LAMBDA kept, f : IF Usable(f) /\ \A i \in DOMAIN kept : kept[i].id # f.id
                            THEN Append(kept, f) ELSE kept, <<>>, page)

ClipLoop(areas) ==
  LET end == FoldLeft(LAMBDA r, a :
               IF r.more \/ ~a.seen \/ a.size = 0 THEN r
               ELSE IF Len(r.shown) >= MaxAreas \/ r.vertices + a.size > MaxVertices
                    THEN [r EXCEPT !.more = TRUE]
                    ELSE [r EXCEPT !.shown = Append(@, a.id), !.vertices = @ + a.size],
               [shown |-> <<>>, more |-> FALSE, vertices |-> 0], areas)
  IN  [shown |-> end.shown, more |-> end.more]

\* Parse, and Meeting without Past, which say what is kept by position, keep what
\* the loops keep: of every sequence of three features, or fewer.
SmallFeatures ==
  {Feature(id, valid, seen, size, 1) :
     id \in {"a", "b"}, valid \in BOOLEAN, seen \in BOOLEAN, size \in 0..3}
ASSUME LoopsArePicks ==
  \A s \in UNION {[1..n -> SmallFeatures] : n \in 0..3} :
    /\ Parse(s) = ParseLoop(s)
    /\ ClipLoop(s) = [shown |-> Ids(Pick(s, Meeting(s) \ Past(s))), more |-> Past(s) # {}]
=============================================================================
